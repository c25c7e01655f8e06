-------------------------- MODULE SocketLockProofs --------------------------
(***************************************************************************)
(* What SocketLock promises for any number of threads: the list is used by  *)
(* one thread at a time, and the loop is blocked only while a request is    *)
(* there to allow it again; and, when a single thread makes requests, that  *)
(* no wait for events holds a request up.                                   *)
(***************************************************************************)
EXTENDS SocketLock, TLAPS

\* Initially no thread is at the list and the loop is allowed.
LEMMA InitIInv == Init => IInv
BY ThreadsAssumption
DEF Init, IInv, TypeOK, StepsOfThreads, HolderAtList, LoopBlockedForRequest,
    Threads, Locked, Requesting, RequestSteps, LoopSteps

\* The steps of a request keep the invariant: a thread allows the loop only when it
\* stops requesting, and each thread blocks the loop for itself.
LEMMA RequestKeepsIInv ==
    ASSUME IInv, NEW t \in Threads,
           BlockLoop(t) \/ GrabMutex(t) \/ RequestStep(t)
    PROVE  IInv'
<1> USE ThreadsAssumption DEF IInv, Threads
<1>1. TypeOK'
  BY DEF TypeOK, BlockLoop, GrabMutex, RequestStep, SetExitTimer, AllowLoop,
         EndRequest, Goto, RequestSteps, Requesting, LoopSteps
<1>2. StepsOfThreads'
  BY DEF TypeOK, StepsOfThreads, BlockLoop, GrabMutex, RequestStep, SetExitTimer,
         AllowLoop, EndRequest, Goto, RequestSteps, Requesting
<1>3. HolderAtList'
  BY DEF TypeOK, HolderAtList, BlockLoop, MayRequest, GrabMutex, RequestStep,
         SetExitTimer, AllowLoop, EndRequest, Goto, Locked
<1>4. LoopBlockedForRequest'
  <2>1. CASE pc'[t] \in Requesting
    BY <2>1 DEF LoopBlockedForRequest
  <2>2. CASE pc'[t] \notin Requesting
    BY <2>2 DEF TypeOK, LoopBlockedForRequest, BlockLoop, GrabMutex, RequestStep,
                SetExitTimer, AllowLoop, EndRequest, Goto, Requesting
  <2> QED BY <2>1, <2>2
<1> QED BY <1>1, <1>2, <1>3, <1>4

\* The other steps: those of the looper, the timer's and the sockets'.
OtherStep ==
    \/ PassLoopEvent \/ GrabLoopMutex \/ WaitSocket \/ WaitTimeout \/ LoopStep
    \/ TimerFires \/ SocketEvent

\* The looper's steps keep the invariant: it is never requesting at them.
LEMMA OtherKeepsIInv ==
    ASSUME IInv, OtherStep
    PROVE  IInv'
<1> USE ThreadsAssumption
        DEF IInv, Threads, OtherStep, PassLoopEvent, GrabLoopMutex, WaitSocket,
            WaitTimeout, LoopStep, WaitTimer, EndProcessEvents, EndCheck,
            TimerFires, SocketEvent, Goto
<1>1. TypeOK'
  BY DEF TypeOK, LoopSteps
<1>2. StepsOfThreads'
  BY DEF TypeOK, StepsOfThreads
<1>3. HolderAtList'
  BY DEF TypeOK, HolderAtList, Locked
<1>4. LoopBlockedForRequest'
  BY DEF TypeOK, LoopBlockedForRequest, Requesting
<1> QED BY <1>1, <1>2, <1>3, <1>4

\* The inductive invariant: the mutex is held by the thread at the list, and the loop
\* is blocked only while a thread is between its ResetEvent and its SetEvent.
THEOREM Invariance == Spec => []IInv
<1>1. IInv /\ [Next]_vars => IInv'
  <2> SUFFICES ASSUME IInv, [Next]_vars PROVE IInv'
    OBVIOUS
  <2>1. CASE \E t \in Threads : BlockLoop(t) \/ GrabMutex(t) \/ RequestStep(t)
    BY <2>1, RequestKeepsIInv
  <2>2. CASE OtherStep
    BY <2>2, OtherKeepsIInv
  <2>3. CASE UNCHANGED vars
    BY <2>3 DEF vars, IInv, TypeOK, StepsOfThreads, HolderAtList,
                LoopBlockedForRequest
  <2> QED BY <2>1, <2>2, <2>3 DEF Next, OtherStep
<1> QED BY InitIInv, <1>1, PTL DEF Spec

\* SendTo, DisconnectClient and ProcessEvents exclude each other at the socket list.
THEOREM Exclusion == Spec => []ListExclusive
<1>1. IInv => ListExclusive
  BY DEF IInv, HolderAtList, ListExclusive
<1> QED BY <1>1, Invariance, PTL

\* A blocked loop is always a loop some request is about to allow again.
THEOREM LoopReleased == Spec => []LoopBlockedForRequest
<1>1. IInv => LoopBlockedForRequest
  BY DEF IInv
<1> QED BY <1>1, Invariance, PTL

-----------------------------------------------------------------------------
\* There is one sender, and the looper makes no requests.
SoleSender == ~ LooperRequests /\ \A t, u \in Senders : t = u

\* With one sender, whatever step is taken keeps the loop blocked from its ResetEvent
\* to its SetEvent, and the looper away from a wait the timer no longer ends.
LEMMA SoleStep ==
    ASSUME SoleSender, IInv, SoleRequestInv, [Next]_vars
    PROVE  SoleRequestInv'
<1> USE ThreadsAssumption DEF SoleSender, Threads
<1>1. CASE \E t \in Threads : BlockLoop(t) \/ GrabMutex(t) \/ RequestStep(t)
  <2> PICK t \in Threads : BlockLoop(t) \/ GrabMutex(t) \/ RequestStep(t)
    BY <1>1
  <2>1. t \in Senders
    BY DEF SoleRequestInv, LoopSteps, BlockLoop, MayRequest, GrabMutex, RequestStep,
           SetExitTimer, AllowLoop, EndRequest
  <2>2. \A u \in Senders : u = t
    BY <2>1
  <2>3. pc'[Looper] = pc[Looper]
    BY <2>1 DEF IInv, TypeOK, BlockLoop, GrabMutex, RequestStep, SetExitTimer,
                AllowLoop, EndRequest, Goto
  <2>4. pc'[t] \in Requesting => ~ h_LoopEvent'
    BY <2>1 DEF IInv, TypeOK, SoleRequestInv, BlockLoop, GrabMutex, RequestStep,
                SetExitTimer, AllowLoop, EndRequest, Goto, Requesting
  <2>5. pc'[t] = "mutex" => h_ExitTimer' # "off"
    BY <2>1 DEF IInv, TypeOK, BlockLoop, GrabMutex, RequestStep, SetExitTimer,
                AllowLoop, EndRequest, Goto
  <2> QED BY <2>1, <2>2, <2>3, <2>4, <2>5 DEF SoleRequestInv
<1>2. CASE OtherStep
  <2>1. \A t \in Senders : pc'[t] = pc[t]
    BY <1>2 DEF IInv, TypeOK, OtherStep, PassLoopEvent, GrabLoopMutex, WaitSocket,
                WaitTimeout, LoopStep, WaitTimer, EndProcessEvents, EndCheck,
                TimerFires, SocketEvent, Goto
  <2>2. h_LoopEvent' = h_LoopEvent
    BY <1>2 DEF OtherStep, PassLoopEvent, GrabLoopMutex, WaitSocket,
                WaitTimeout, LoopStep, WaitTimer, EndProcessEvents, EndCheck,
                TimerFires, SocketEvent
  <2>3. pc'[Looper] \in LoopSteps
    BY <1>2 DEF IInv, TypeOK, SoleRequestInv, OtherStep, PassLoopEvent,
                GrabLoopMutex, WaitSocket, WaitTimeout, LoopStep, WaitTimer,
                EndProcessEvents, EndCheck, TimerFires, SocketEvent, Goto, LoopSteps
  <2>4. ASSUME NEW t \in Senders, pc[t] = "mutex", h_ExitTimer' = "off"
        PROVE  pc'[Looper] \notin {"loopmutex", "events"}
    BY <1>2, <2>4 DEF IInv, TypeOK, SoleRequestInv, Requesting, OtherStep,
                PassLoopEvent, GrabLoopMutex, WaitSocket, WaitTimeout, LoopStep,
                WaitTimer, EndProcessEvents, EndCheck, TimerFires, SocketEvent, Goto
  <2> QED BY <2>1, <2>2, <2>3, <2>4 DEF SoleRequestInv
<1>3. CASE UNCHANGED vars
  BY <1>3 DEF vars, SoleRequestInv
<1> QED BY <1>1, <1>2, <1>3 DEF Next, OtherStep

\* When a single thread makes requests, the exit timer ends every wait for events
\* that stands between a request and the mutex.
THEOREM SoleRequestEscapes ==
    ASSUME SoleSender PROVE Spec => []WaitEscapes
<1>1. Init => SoleRequestInv
  BY ThreadsAssumption DEF Init, SoleRequestInv, Threads, LoopSteps, Requesting
<1>2. IInv /\ SoleRequestInv /\ [Next]_vars => SoleRequestInv'
  BY SoleStep
<1>3. SoleRequestInv => WaitEscapes
  BY ThreadsAssumption DEF SoleRequestInv, WaitEscapes, Threads, LoopSteps
<1> QED BY <1>1, <1>2, <1>3, Invariance, PTL DEF Spec
=============================================================================
