------------------------- MODULE ServerThreadsProofs -------------------------
(***************************************************************************)
(* First the handoff of JSON requests: it is correct for any set of requests, *)
(* whether or not the condition variable wakes a thread spuriously and       *)
(* whether or not the window is closed.                                      *)
(* Then the two threads together implement that handoff and the lock of the  *)
(* socket list, so what is proved of those holds of the server; and neither  *)
(* thread wants one lock in the section of the other.                        *)
(***************************************************************************)
EXTENDS ServerThreads, TLAPS

-----------------------------------------------------------------------------
(* The handoff of JSON requests.                                            *)

\* Nothing is pending at first and no thread holds the mutex.
LEMMA InitIInv == Init => IInv
<1> SUFFICES ASSUME Init PROVE IInv
  OBVIOUS
<1> USE DEF Init
<1>1. TypeOK
  <2>1. /\ runs \in [Requests -> 0 .. 1]
        /\ answer \in [Requests -> Requests \cup {NoRequest}]
    OBVIOUS
  <2> QED BY <2>1 DEF TypeOK, MainSteps, HttpSteps
<1>2. MutexInv
  BY DEF MutexInv, MainLocked, HttpLocked, Main, Http, Nobody
<1>3. PendingInv
  BY DEF PendingInv, Waiting
<1>4. WakeupInv
  BY DEF WakeupInv
<1> QED BY <1>1, <1>2, <1>3, <1>4 DEF IInv

\* The main thread's steps: what it executes is what the HTTP thread waits for.
LEMMA MainKeepsIInv ==
    ASSUME IInv, MainStep \/ MainLock \/ Quit
    PROVE  IInv'
<1> USE NoRequestAssumption
        DEF IInv, TypeOK, MainGoes, TakeMutex, jsonFields, clientVars, Main, Http,
            Nobody, MainSteps, HttpSteps, MainLocked, HttpLocked, Waiting
<1>1. CASE Update
  BY <1>1 DEF Update, MutexInv, PendingInv, WakeupInv
<1>2. CASE MainLock
  BY <1>2 DEF MainLock, MutexInv, PendingInv, WakeupInv
<1>3. CASE TestPending
  BY <1>3 DEF TestPending, MutexInv, PendingInv, WakeupInv
<1>4. CASE ExecuteJson
  <2>1. /\ json_pending /\ json_params = conn /\ conn \in Requests
        /\ runs[conn] = 0 /\ hpc \in Waiting
    BY <1>4 DEF ExecuteJson, MutexInv, PendingInv
  <2>2. TypeOK'
    BY <1>4, <2>1 DEF ExecuteJson
  <2>3. MutexInv'
    BY <1>4 DEF ExecuteJson, MutexInv
  <2>4. PendingInv'
    BY <1>4, <2>1 DEF ExecuteJson, PendingInv, MutexInv
  <2>5. WakeupInv'
    BY <1>4 DEF ExecuteJson, WakeupInv, MutexInv
  <2> QED BY <2>2, <2>3, <2>4, <2>5
<1>5. CASE ClearPending
  BY <1>5 DEF ClearPending, MutexInv, PendingInv, WakeupInv
<1>6. CASE SignalCond
  BY <1>6 DEF SignalCond, MutexInv, PendingInv, WakeupInv
<1>7. CASE MainUnlock
  BY <1>7 DEF MainUnlock, MutexInv, PendingInv, WakeupInv
<1>8. CASE Analyze
  BY <1>8 DEF Analyze, MutexInv, PendingInv, WakeupInv
<1>9. CASE Quit
  BY <1>9 DEF Quit, MutexInv, PendingInv, WakeupInv
<1> QED BY <1>1, <1>2, <1>3, <1>4, <1>5, <1>6, <1>7, <1>8, <1>9 DEF MainStep

\* The clients' and the HTTP thread's steps: it leaves its loop only when its own
\* request has been executed.
LEMMA HttpKeepsIInv ==
    ASSUME IInv,
           \/ \E r \in Requests : Send(r) \/ Receive(r)
           \/ HttpStep \/ HttpLock \/ Relock \/ WakeSpuriously
    PROVE  IInv'
<1> USE NoRequestAssumption
        DEF IInv, TypeOK, HttpGoes, TakeMutex, jsonFields, clientVars, Main, Http,
            Nobody, MainSteps, HttpSteps, MainLocked, HttpLocked, Waiting
<1>1. CASE \E r \in Requests : Send(r)
  BY <1>1 DEF Send, MutexInv, PendingInv, WakeupInv
<1>2. CASE \E r \in Requests : Receive(r)
  <2> PICK r \in Requests : Receive(r)
    BY <1>2
  <2>1. r # conn /\ runs[r] = 0
    BY DEF Receive, PendingInv
  <2> QED BY <2>1 DEF Receive, MutexInv, PendingInv, WakeupInv
<1>3. CASE HttpLock
  BY <1>3 DEF HttpLock, MutexInv, PendingInv, WakeupInv
<1>4. CASE Post
  BY <1>4 DEF Post, MutexInv, PendingInv, WakeupInv
<1>5. CASE CondWait
  BY <1>5 DEF CondWait, MutexInv, PendingInv, WakeupInv
<1>6. CASE LeaveLoop
  BY <1>6 DEF LeaveLoop, MutexInv, PendingInv, WakeupInv
<1>7. CASE Wake \/ WakeSpuriously
  BY <1>7 DEF Wake, WakeSpuriously, MutexInv, PendingInv, WakeupInv
<1>8. CASE Relock
  BY <1>8 DEF Relock, MutexInv, PendingInv, WakeupInv
<1>9. CASE TakeResult
  BY <1>9 DEF TakeResult, MutexInv, PendingInv, WakeupInv
<1>10. CASE Reply
  BY <1>10 DEF Reply, MutexInv, PendingInv, WakeupInv
<1> QED BY <1>1, <1>2, <1>3, <1>4, <1>5, <1>6, <1>7, <1>8, <1>9, <1>10 DEF HttpStep

\* Steps that change nothing.
LEMMA StutterKeepsIInv == ASSUME IInv, UNCHANGED vars PROVE IInv'
BY DEF vars, jsonFields, clientVars, IInv, TypeOK, MutexInv, PendingInv, WakeupInv

\* The inductive invariant: a request is pending just while the HTTP thread waits for
\* it, and no longer pending only with its own result stored and the thread signalled.
THEOREM HandoffInvariance == Spec => []IInv
<1>1. IInv /\ [Next]_vars => IInv'
  BY MainKeepsIInv, HttpKeepsIInv, StutterKeepsIInv DEF Next
<1> QED BY InitIInv, <1>1, PTL DEF Spec

\* ExecuteJson never works on a request the HTTP thread has deleted.
THEOREM ParamsSafe == Spec => []ParamsAlive
<1>1. IInv => ParamsAlive
  BY NoRequestAssumption DEF IInv, TypeOK, MutexInv, PendingInv, ParamsAlive, Waiting
<1> QED BY <1>1, HandoffInvariance, PTL

\* Every step of the two threads is a step of the service, or none.
LEMMA ServiceStep ==
    ASSUME IInv, [Next]_vars
    PROVE  [Service!ServiceNext]_(Service!serviceVars)
<1> USE DEF Service!serviceVars, jsonFields, clientVars
<1>1. CASE \E r \in Requests : Send(r)
  BY <1>1 DEF Send, Service!ServiceNext, Service!Ask
<1>2. CASE ExecuteJson
  <2>1. json_params \in asked /\ json_params \in Requests /\ runs[json_params] = 0
    BY <1>2 DEF ExecuteJson, MainGoes, IInv, TypeOK, MutexInv, PendingInv, Waiting
  <2>2. Service!Perform(json_params)
    BY <1>2, <2>1 DEF ExecuteJson, Service!Perform
  <2> QED BY <2>1, <2>2 DEF Service!ServiceNext
<1>3. CASE TakeResult
  <2>1. /\ conn \in Requests /\ runs[conn] = 1 /\ json_result = conn
        /\ answer[conn] = NoRequest
    BY <1>3, NoRequestAssumption
    DEF TakeResult, HttpGoes, IInv, TypeOK, MutexInv, PendingInv, Waiting, HttpLocked,
        MainLocked, Main, Http
  <2>2. Service!Answer(conn)
    BY <1>3, <2>1 DEF TakeResult, Service!Answer
  <2> QED BY <2>1, <2>2 DEF Service!ServiceNext
<1>4. CASE \/ Update \/ MainLock \/ TestPending \/ ClearPending \/ SignalCond
           \/ MainUnlock \/ Analyze \/ Quit
           \/ \E r \in Requests : Receive(r)
           \/ HttpLock \/ Post \/ CondWait \/ LeaveLoop \/ Wake \/ WakeSpuriously
           \/ Relock \/ Reply
  BY <1>4 DEF Update, MainLock, TestPending, ClearPending, SignalCond, MainUnlock,
              Analyze, Quit, Receive, HttpLock, Post, CondWait, LeaveLoop, Wake,
              WakeSpuriously, Relock, Reply
<1>5. CASE UNCHANGED vars
  BY <1>5 DEF vars
<1> QED BY <1>1, <1>2, <1>3, <1>4, <1>5 DEF Next, MainStep, HttpStep

\* Each request is executed once and answered with its own result.
THEOREM HandoffRefinement == Spec => ImplementsService
<1>1. Init => Service!ServiceInit
  BY DEF Init, Service!ServiceInit
<1>2. IInv /\ [Next]_vars => [Service!ServiceNext]_(Service!serviceVars)
  BY ServiceStep
<1> QED BY <1>1, <1>2, HandoffInvariance, PTL
        DEF Spec, ImplementsService, Service!ServiceSpec

-----------------------------------------------------------------------------
(* The threads.                                                             *)

\* Every step of the threads is a step of JsonBridge, or none.
LEMMA BridgeStep == ASSUME [ThreadsNext]_threadVars PROVE [Next]_vars
<1>1. CASE \/ MainAtJson \/ MainGrabsJson \/ HttpAtJson \/ HttpGrabsJson
           \/ HttpWakesSpuriously
           \/ \E r \in Requests : ClientSends(r) \/ ReadRequest(r)
  BY <1>1 DEF MainAtJson, MainGrabsJson, HttpAtJson, HttpGrabsJson,
              HttpWakesSpuriously, ClientSends, ReadRequest, Next
<1>2. CASE EndAnalyze \/ EndAnswer
  BY <1>2 DEF EndAnalyze, EndAnswer, Next, MainStep, HttpStep
<1>3. CASE \/ BeginSend \/ MainAtList \/ MainGrabsList \/ HttpAtLoop
           \/ HttpPassesLoopEvent \/ HttpGrabsLoop \/ BeginCall \/ HttpAtList
           \/ HttpGrabsList \/ Timer
  BY <1>3 DEF BeginSend, MainAtList, MainGrabsList, HttpAtLoop, HttpPassesLoopEvent,
              HttpGrabsLoop, BeginCall, HttpAtList, HttpGrabsList, Timer
<1>4. CASE UNCHANGED threadVars
  BY <1>4 DEF threadVars
<1> QED BY <1>1, <1>2, <1>3, <1>4 DEF ThreadsNext, MainThread, HttpThread

\* The handoff of requests is implemented.
THEOREM BridgeRefinement == ThreadsSpec => ImplementsBridge
<1>1. ThreadsInit => Init
  BY DEF ThreadsInit
<1>2. [ThreadsNext]_threadVars => [Next]_vars
  BY BridgeStep
<1> QED BY <1>1, <1>2, PTL DEF ThreadsSpec, ImplementsBridge, Spec

\* So what it promises holds here: at most one request is in work, and whoever waits for it
\* will be woken.
THEOREM BridgeInvariance == ThreadsSpec => []IInv
BY BridgeRefinement, HandoffInvariance, PTL DEF ImplementsBridge

-----------------------------------------------------------------------------
\* Only a client that sends, or the HTTP thread that reads, changes which sockets are
\* ready.
LEMMA ReadyStep ==
    ASSUME IInv, [Next]_vars,
           \A r \in Requests : ~ Send(r) /\ ~ Receive(r)
    PROVE  Ready' = Ready
<1>1. asked' = asked
  BY DEF Next, MainStep, HttpStep, MainLock, Quit, Update, TestPending, ExecuteJson,
         ClearPending, SignalCond, MainUnlock, Analyze, HttpLock, Post, CondWait,
         LeaveLoop, Wake, WakeSpuriously, Relock, TakeResult, Reply, clientVars, vars
<1>2. CASE TakeResult
  <2>1. conn' = conn /\ \A r \in asked : r # conn => answer'[r] = answer[r]
    BY <1>2 DEF TakeResult, IInv, TypeOK
  <2> QED BY <1>1, <2>1 DEF Ready
<1>3. CASE Reply
  <2>1. conn' = NoRequest /\ answer' = answer
    BY <1>3 DEF Reply, clientVars
  <2>2. conn \in Requests /\ answer[conn] # NoRequest
    BY <1>3 DEF Reply, HttpGoes, IInv, TypeOK, PendingInv
  <2> QED BY <1>1, <2>1, <2>2, NoRequestAssumption DEF Ready, IInv, TypeOK
<1>4. CASE ~ TakeResult /\ ~ Reply
  <2>1. conn' = conn /\ answer' = answer
    BY <1>4 DEF Next, MainStep, HttpStep, MainLock, Quit, Update, TestPending,
           ExecuteJson, ClearPending, SignalCond, MainUnlock, Analyze, HttpLock, Post,
           CondWait, LeaveLoop, Wake, WakeSpuriously, Relock, clientVars, vars
  <2> QED BY <1>1, <2>1 DEF Ready
<1> QED BY <1>2, <1>3, <1>4

\* Every step of the threads is a step of SocketLock, or none.
LEMMA LockStep ==
    ASSUME IInv, [ThreadsNext]_threadVars
    PROVE  [List!Next]_(List!vars)
<1> USE DEF List!vars, lockVars
<1>1. CASE \/ MainAtJson \/ MainGrabsJson \/ HttpAtJson \/ HttpGrabsJson
           \/ HttpWakesSpuriously \/ EndAnalyze \/ EndAnswer
  <2>1. UNCHANGED lockVars
    BY <1>1 DEF MainAtJson, MainGrabsJson, HttpAtJson, HttpGrabsJson,
                HttpWakesSpuriously, EndAnalyze, EndAnswer
  <2>2. asked' = asked /\ (hpc # "idle" \/ conn' = conn)
    BY <1>1 DEF MainAtJson, MainGrabsJson, HttpAtJson, HttpGrabsJson, HttpGoes,
           HttpWakesSpuriously, EndAnalyze, EndAnswer, MainStep, HttpStep, MainLock,
           Quit, Update, TestPending, ExecuteJson, ClearPending, SignalCond,
           MainUnlock, Analyze, HttpLock, Post, CondWait, LeaveLoop, Wake,
           WakeSpuriously, Relock, TakeResult, Reply, clientVars, Answering
  <2>3. \A r \in Requests : ~ Send(r) /\ ~ Receive(r)
    BY <2>2, NoRequestAssumption DEF Send, Receive, HttpGoes, IInv, PendingInv
  <2>4. Ready' = Ready
    BY <2>3, BridgeStep, ReadyStep
  <2> QED BY <2>1, <2>4
<1>2. CASE \E r \in Requests : ClientSends(r)
  <2>1. \A r \in asked : answer'[r] = answer[r] /\ conn' = conn
    BY <1>2 DEF ClientSends, Send
  <2>2. Ready => Ready'
    BY <1>2, <2>1 DEF ClientSends, Send, Ready
  <2>3. Ready' = Ready \/ (~ Ready /\ Ready' = TRUE)
    BY <2>2 DEF Ready
  <2> QED BY <1>2, <2>3 DEF ClientSends, List!Next, List!SocketEvent
<1>3. CASE \E r \in Requests : ReadRequest(r)
  BY <1>3 DEF ReadRequest, List!Next
<1>4. CASE BeginSend \/ MainAtList \/ MainGrabsList
  BY <1>4 DEF BeginSend, MainAtList, MainGrabsList, List!Next, List!Threads
<1>5. CASE BeginCall \/ HttpAtList \/ HttpGrabsList
  BY <1>5 DEF BeginCall, HttpAtList, HttpGrabsList, List!Next, List!Threads
<1>6. CASE HttpAtLoop \/ HttpPassesLoopEvent \/ HttpGrabsLoop \/ Timer
  BY <1>6 DEF HttpAtLoop, HttpPassesLoopEvent, HttpGrabsLoop, Timer, List!Next,
              List!LoopStep
<1>7. CASE UNCHANGED threadVars
  BY <1>7 DEF threadVars, vars, clientVars, Ready
<1> QED BY <1>1, <1>2, <1>3, <1>4, <1>5, <1>6, <1>7
        DEF ThreadsNext, MainThread, HttpThread

\* The lock of the socket list is implemented.
THEOREM LockRefinement == ThreadsSpec => ImplementsLock
<1>1. ThreadsInit => List!Init
  BY DEF ThreadsInit
<1>2. IInv /\ [ThreadsNext]_threadVars => [List!Next]_(List!vars)
  BY LockStep
<1> QED BY <1>1, <1>2, BridgeInvariance, PTL DEF ThreadsSpec, ImplementsLock, List!Spec

-----------------------------------------------------------------------------
\* A step of the list's lock keeps the types of its variables.
LEMMA LockTypeStep ==
    ASSUME List!TypeOK, [List!Next]_(List!vars)
    PROVE  List!TypeOK'
BY DEF List!TypeOK, List!vars, List!Next, List!Threads, List!RequestSteps,
       List!Requesting, List!LoopSteps, List!Goto, List!BlockLoop, List!GrabMutex,
       List!RequestStep, List!SetExitTimer, List!AllowLoop, List!EndRequest,
       List!PassLoopEvent, List!GrabLoopMutex, List!WaitSocket, List!WaitTimeout,
       List!LoopStep, List!WaitTimer, List!EndProcessEvents, List!EndCheck,
       List!TimerFires, List!SocketEvent

\* The steps at which a thread is outside every section of the list.
LEMMA StepsInit == ThreadsInit => ThreadsIInv
<1> SUFFICES ASSUME ThreadsInit PROVE ThreadsIInv
  OBVIOUS
<1>1. Init /\ List!Init
  BY DEF ThreadsInit
<1>2. TypeOK
  BY <1>1, InitIInv DEF IInv
<1>3. List!TypeOK
  BY <1>1 DEF List!Init, List!TypeOK, List!Threads, List!LoopSteps, Ready
<1>4. sends \in 0 .. MaxSends /\ calls \in 0 .. AnswerCalls
  BY MaxSendsAssumption DEF ThreadsInit, AnswerCalls
<1>5. StepsInv
  BY <1>1 DEF Init, List!Init, List!Threads, List!LoopSteps, StepsInv
<1> QED BY <1>2, <1>3, <1>4, <1>5 DEF ThreadsIInv, ThreadsTypeOK

\* The counters of calls stay within their bounds.
LEMMA CountersStep ==
    ASSUME ThreadsIInv, [ThreadsNext]_threadVars
    PROVE  sends' \in 0 .. MaxSends /\ calls' \in 0 .. AnswerCalls
BY MaxSendsAssumption
DEF ThreadsIInv, ThreadsTypeOK, ThreadsNext, MainThread, HttpThread, MainAtJson,
    MainGrabsJson, BeginSend, MainAtList, MainGrabsList, EndAnalyze, ReadRequest,
    HttpAtLoop, HttpPassesLoopEvent, HttpGrabsLoop, HttpAtJson, HttpWakesSpuriously,
    HttpGrabsJson, BeginCall, HttpAtList, HttpGrabsList, EndAnswer, ClientSends, Timer,
    threadVars, AnswerCalls

\* The main thread leaves the list before it goes on with its loop, and the HTTP
\* thread before it takes up a request.
LEMMA StepsStep ==
    ASSUME IInv, ThreadsIInv, [ThreadsNext]_threadVars
    PROVE  StepsInv'
<1> USE DEF ThreadsIInv, ThreadsTypeOK, StepsInv, TypeOK, List!TypeOK, List!Threads,
            List!LoopSteps, List!RequestSteps, MainSteps, HttpSteps, Main, Http, vars, lockVars
<1>1. CASE MainAtJson \/ MainGrabsJson \/ EndAnalyze
  BY <1>1 DEF MainAtJson, MainGrabsJson, EndAnalyze, MainStep, MainLock, Quit, Update,
         TestPending, ExecuteJson, ClearPending, SignalCond, MainUnlock, Analyze,
         MainGoes
<1>2. CASE BeginSend \/ MainAtList \/ MainGrabsList
  BY <1>2 DEF BeginSend, MainAtList, MainGrabsList, List!BlockLoop, List!RequestStep,
         List!SetExitTimer, List!AllowLoop, List!EndRequest, List!GrabMutex, List!Goto
<1>3. CASE HttpAtJson \/ HttpGrabsJson \/ HttpWakesSpuriously \/ EndAnswer
  BY <1>3 DEF HttpAtJson, HttpGrabsJson, HttpWakesSpuriously, EndAnswer, Answering,
         HttpStep, HttpLock, Post, CondWait, LeaveLoop, Wake, WakeSpuriously, Relock,
         TakeResult, Reply, HttpGoes
<1>4. CASE \E r \in Requests : ClientSends(r) \/ ReadRequest(r)
  BY <1>4 DEF ClientSends, ReadRequest, Send, Receive, HttpGoes, List!WaitSocket,
         List!Goto
<1>5. CASE HttpAtLoop \/ HttpPassesLoopEvent \/ HttpGrabsLoop
  BY <1>5 DEF HttpAtLoop, HttpPassesLoopEvent, HttpGrabsLoop, List!WaitTimer,
         List!WaitTimeout, List!EndProcessEvents, List!EndCheck, List!PassLoopEvent,
         List!GrabLoopMutex, List!Goto
<1>6. CASE BeginCall \/ HttpAtList \/ HttpGrabsList
  BY <1>6 DEF BeginCall, HttpAtList, HttpGrabsList, List!BlockLoop, List!MayRequest,
         List!RequestStep, List!SetExitTimer, List!AllowLoop, List!EndRequest,
         List!GrabMutex, List!Goto
<1>7. CASE Timer \/ UNCHANGED threadVars
  BY <1>7 DEF Timer, threadVars, List!TimerFires
<1> QED BY <1>1, <1>2, <1>3, <1>4, <1>5, <1>6, <1>7
        DEF ThreadsNext, MainThread, HttpThread

\* The invariant of the composition.
THEOREM ThreadsInvariance == ThreadsSpec => []ThreadsIInv
<1>1. IInv /\ IInv' /\ ThreadsIInv /\ [ThreadsNext]_threadVars => ThreadsIInv'
  <2> SUFFICES ASSUME IInv, IInv', ThreadsIInv, [ThreadsNext]_threadVars
               PROVE  ThreadsIInv'
    OBVIOUS
  <2>1. TypeOK'
    BY DEF IInv
  <2>2. List!TypeOK'
    BY LockStep, LockTypeStep DEF ThreadsIInv, ThreadsTypeOK
  <2> QED BY <2>1, <2>2, CountersStep, StepsStep DEF ThreadsIInv, ThreadsTypeOK
<1> QED BY StepsInit, <1>1, BridgeInvariance, PTL DEF ThreadsSpec

\* The two threads never wait for each other's locks.
THEOREM LocksApart == ThreadsSpec => []OneLockAtATime
<1>1. IInv /\ ThreadsIInv => OneLockAtATime
  BY DEF IInv, MutexInv, ThreadsIInv, StepsInv, OneLockAtATime, AtList, HttpLocked,
         MainLocked, Main, Http
<1> QED BY <1>1, BridgeInvariance, ThreadsInvariance, PTL

-----------------------------------------------------------------------------
\* What a step of the list's lock keeps, with both threads making requests.
LEMMA ListStep ==
    ASSUME List!IInv, [List!Next]_(List!vars)
    PROVE  List!IInv'
<1> USE DEF List!IInv, List!Threads, Main, Http, Nobody
<1> DEFINE Request(t) == List!BlockLoop(t) \/ List!GrabMutex(t) \/ List!RequestStep(t)
           Other == \/ List!PassLoopEvent \/ List!GrabLoopMutex \/ List!WaitSocket
                    \/ List!WaitTimeout \/ List!LoopStep \/ List!TimerFires
                    \/ List!SocketEvent
<1>1. List!TypeOK'
  BY LockTypeStep
<1>2. ASSUME NEW t \in List!Threads, Request(t)
      PROVE  /\ List!StepsOfThreads' /\ List!HolderAtList'
             /\ List!LoopBlockedForRequest'
  <2> USE <1>2 DEF List!TypeOK, List!BlockLoop, List!MayRequest, List!GrabMutex,
          List!RequestStep, List!SetExitTimer, List!AllowLoop, List!EndRequest, List!Goto
  <2>1. List!StepsOfThreads'
    BY DEF Main, Http, List!StepsOfThreads, List!RequestSteps, List!Requesting
  <2>2. List!HolderAtList'
    BY DEF List!HolderAtList, List!Locked
  <2>3. CASE pc'[t] \in List!Requesting
    BY <2>1, <2>2, <2>3 DEF List!LoopBlockedForRequest
  <2>4. CASE pc'[t] \notin List!Requesting
    <3>1. List!LoopBlockedForRequest'
      BY <2>4 DEF List!LoopBlockedForRequest, List!Requesting
    <3> QED BY <2>1, <2>2, <3>1
  <2> QED BY <2>3, <2>4
<1>3. ASSUME Other
      PROVE  /\ List!StepsOfThreads' /\ List!HolderAtList'
             /\ List!LoopBlockedForRequest'
  <2> USE <1>3 DEF List!TypeOK, List!PassLoopEvent, List!GrabLoopMutex, List!WaitSocket,
          List!WaitTimeout, List!LoopStep, List!WaitTimer, List!EndProcessEvents,
          List!EndCheck, List!TimerFires, List!SocketEvent, List!Goto
  <2>1. List!StepsOfThreads'
    BY DEF Main, Http, List!StepsOfThreads
  <2>2. List!HolderAtList'
    BY DEF List!HolderAtList, List!Locked
  <2>3. List!LoopBlockedForRequest'
    BY DEF List!LoopBlockedForRequest, List!Requesting
  <2> QED BY <2>1, <2>2, <2>3
<1>4. CASE UNCHANGED List!vars
  BY <1>1, <1>4 DEF List!vars, List!TypeOK, List!StepsOfThreads, List!HolderAtList,
     List!LoopBlockedForRequest
<1> QED BY <1>1, <1>2, <1>3, <1>4 DEF List!Next

\* The lock's own invariant holds of the main and the HTTP thread: SendTo, DisconnectClient
\* and ProcessEvents exclude each other, and a blocked loop will be allowed again.
THEOREM ListInvariance == ThreadsSpec => []ListInv
<1>1. ThreadsInit => List!IInv
  BY StepsInit
  DEF Main, Http, Nobody, ThreadsInit, ThreadsIInv, ThreadsTypeOK, List!Init, List!IInv, List!StepsOfThreads,
      List!HolderAtList, List!LoopBlockedForRequest, List!Threads, List!Locked,
      List!Requesting, List!RequestSteps
<1>2. IInv /\ List!IInv /\ [ThreadsNext]_threadVars => List!IInv'
  BY LockStep, ListStep
<1> QED BY <1>1, <1>2, BridgeInvariance, PTL DEF ThreadsSpec, ListInv
=============================================================================
