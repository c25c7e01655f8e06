---------------------------- MODULE ServerThreads ----------------------------
(***************************************************************************)
(* The server's two threads together: the handoff of JSON requests          *)
(* (JsonBridge) and the lock of the socket list (SocketLock).  The main      *)
(* thread looks for a JSON request and then sends the frame's TUIO bundle to *)
(* the WebSocket clients, one SendTo for each; the HTTP thread reads a       *)
(* request in ProcessEvents, waits for the main thread to execute it, sends  *)
(* the answer and disconnects the client.                                    *)
(***************************************************************************)
EXTENDS JsonBridge

CONSTANT MaxSends   \* bound: WebSocket clients a bundle is sent to

ASSUME MaxSendsAssumption == MaxSends \in Nat

VARIABLES
    h_LoopEvent, h_ExitTimer, h_Mutex, pc,  \* SocketLock's
    sends,      \* how many clients the frame's bundle was sent to
    calls       \* of SendTo and DisconnectClient, those made for the answer

lockVars == <<h_LoopEvent, h_ExitTimer, h_Mutex, pc>>
threadVars == <<vars, lockVars, sends, calls>>

\* A socket is ready when its client's request was not read yet.
Ready == \E r \in asked : answer[r] = NoRequest /\ r # conn

List == INSTANCE SocketLock WITH
    Senders <- {Main}, Looper <- Http, LooperRequests <- TRUE, ready <- Ready

AnswerCalls == 2    \* SendTo and DisconnectClient

ThreadsInit ==
    /\ Init
    /\ List!Init
    /\ sends = 0
    /\ calls = 0

Running == mpc # "ended"

-----------------------------------------------------------------------------
(* The main thread. *)

MainAtJson ==
    /\ MainStep
    /\ mpc # "analyze"
    /\ UNCHANGED <<lockVars, sends, calls>>

MainGrabsJson == MainLock /\ UNCHANGED <<lockVars, sends, calls>>

\* Bug: the list is used without a request.
BugSendUnlocked ==
    /\ mpc = "analyze"
    /\ sends < MaxSends
    /\ sends' = sends + 1
    /\ pc' = [pc EXCEPT ![Main] = "access"]
    /\ UNCHANGED <<vars, h_LoopEvent, h_ExitTimer, h_Mutex, calls>>

\* Bug: the bundle is sent while the mutex of the request is held.
BugSendLocked ==
    /\ mpc \in MainLocked
    /\ sends < MaxSends
    /\ sends' = sends + 1
    /\ UNCHANGED <<vars, calls>>
    /\ List!BlockLoop(Main)

\* The next WebSocket client's turn in SendAllWebSocketClients.
BeginSend ==
    /\ mpc = "analyze"
    /\ sends < MaxSends
    /\ sends' = sends + 1
    /\ UNCHANGED <<vars, calls>>
    /\ List!BlockLoop(Main)

MainAtList ==
    /\ Running
    /\ UNCHANGED <<vars, sends, calls>>
    /\ List!RequestStep(Main)

MainGrabsList ==
    /\ Running
    /\ UNCHANGED <<vars, sends, calls>>
    /\ List!GrabMutex(Main)

EndAnalyze ==
    /\ pc[Main] = "idle"
    /\ Analyze \/ Quit
    /\ sends' = 0
    /\ UNCHANGED <<lockVars, calls>>

MainThread == MainAtJson \/ BeginSend \/ MainAtList \/ EndAnalyze

-----------------------------------------------------------------------------
(* The HTTP thread. *)

\* Bug: the answer is prepared inside ProcessEvents.
BugAnswersInLoop == hpc # "idle"

\* ProcessEvents has returned, with the list unlocked, and Check answers.
Answering == hpc # "idle" /\ pc[Http] = "handling"

\* The event loop: a client's request is read while the list is locked.
ReadRequest(r) ==
    /\ Receive(r)
    /\ UNCHANGED <<sends, calls>>
    /\ List!WaitSocket

HttpAtLoop ==
    /\ Running
    /\ UNCHANGED <<vars, sends, calls>>
    /\ \/ List!WaitTimer \/ List!WaitTimeout \/ List!EndProcessEvents
       \/ hpc = "idle" /\ List!EndCheck

HttpPassesLoopEvent ==
    /\ Running
    /\ UNCHANGED <<vars, sends, calls>>
    /\ List!PassLoopEvent

HttpGrabsLoop ==
    /\ Running
    /\ UNCHANGED <<vars, sends, calls>>
    /\ List!GrabLoopMutex

HttpAtJson ==
    /\ Answering
    /\ HttpStep
    /\ hpc # "reply"
    /\ UNCHANGED <<lockVars, sends, calls>>

HttpWakesSpuriously ==
    /\ Answering
    /\ WakeSpuriously
    /\ UNCHANGED <<lockVars, sends, calls>>

HttpGrabsJson ==
    /\ Answering
    /\ HttpLock \/ Relock
    /\ UNCHANGED <<lockVars, sends, calls>>

\* SendTo with the answer, then DisconnectClient.
BeginCall ==
    /\ Running /\ hpc = "reply"
    /\ calls < AnswerCalls
    /\ calls' = calls + 1
    /\ UNCHANGED <<vars, sends>>
    /\ List!BlockLoop(Http)

HttpAtList ==
    /\ Running
    /\ UNCHANGED <<vars, sends, calls>>
    /\ List!RequestStep(Http)

HttpGrabsList ==
    /\ Running
    /\ UNCHANGED <<vars, sends, calls>>
    /\ List!GrabMutex(Http)

EndAnswer ==
    /\ Answering
    /\ calls = AnswerCalls
    /\ Reply
    /\ calls' = 0
    /\ UNCHANGED <<lockVars, sends>>

HttpThread == HttpAtLoop \/ HttpAtJson \/ BeginCall \/ HttpAtList \/ EndAnswer

-----------------------------------------------------------------------------
ClientSends(r) == Send(r) /\ UNCHANGED <<lockVars, sends, calls>>

Timer == Running /\ UNCHANGED <<vars, sends, calls>> /\ List!TimerFires

ThreadsNext ==
    \/ MainThread \/ MainGrabsJson \/ MainGrabsList
    \/ HttpThread \/ HttpPassesLoopEvent \/ HttpGrabsLoop \/ HttpGrabsJson
    \/ HttpGrabsList \/ HttpWakesSpuriously
    \/ \E r \in Requests : ClientSends(r) \/ ReadRequest(r)
    \/ Timer

ThreadsSpec == ThreadsInit /\ [][ThreadsNext]_threadVars

-----------------------------------------------------------------------------
(* Safety. *)

ThreadsTypeOK ==
    /\ TypeOK
    /\ List!TypeOK
    /\ sends \in 0 .. MaxSends
    /\ calls \in 0 .. AnswerCalls

\* Whether a thread is in SendTo, DisconnectClient or ProcessEvents, where it holds
\* the list's mutex or waits for it.
AtList(t) == pc[t] \notin {"idle", "handling"}

\* No thread wants one lock while it is in the section of the other, so the two
\* threads cannot wait for each other: RespondToJson is called when ProcessEvents has
\* unlocked the list, SendTo when json_mutex was unlocked.
OneLockAtATime ==
    /\ json_mutex = Http \/ hpc \in {"cond", "relock"} => ~ AtList(Http)
    /\ json_mutex = Main \/ mpc = "lock" => ~ AtList(Main)

\* Where each thread is in its two parts.
StepsInv ==
    /\ hpc = "idle" => pc[Http] \in List!LoopSteps
    /\ hpc = "lock" => pc[Http] \in {"dispatch", "handling"}
    /\ hpc = "reply" => pc[Http] \in {"timer", "mutex", "set", "access", "handling"}
    /\ hpc \notin {"idle", "lock", "reply"} => pc[Http] = "handling"
    /\ mpc # "analyze" => pc[Main] = "idle"
    /\ pc[Main] \in {"idle", "timer", "mutex", "set", "access"}

ThreadsIInv == ThreadsTypeOK /\ StepsInv

\* The lock's own invariant, with both threads making requests: one thread at a time at
\* the list, and a blocked loop only for a request that will allow it again.
ListInv == List!IInv

\* What the two parts promise on their own holds of them together.
ImplementsBridge == Spec
ImplementsLock == List!Spec

-----------------------------------------------------------------------------
(* Liveness, under the fairness of the parts: threads run, waits that can end *)
(* again and again end, depth images come, every client gets its turn.       *)

ThreadsFairness ==
    /\ WF_threadVars(MainThread)
    /\ SF_threadVars(MainGrabsJson)
    /\ SF_threadVars(MainGrabsList)
    /\ WF_threadVars(HttpThread)
    /\ SF_threadVars(HttpPassesLoopEvent)
    /\ SF_threadVars(HttpGrabsLoop)
    /\ SF_threadVars(HttpGrabsJson)
    /\ SF_threadVars(HttpGrabsList)
    /\ \A r \in Requests : SF_threadVars(ReadRequest(r))
    /\ WF_threadVars(Timer)

ThreadsLiveSpec == ThreadsSpec /\ ThreadsFairness

\* The main loop comes round again whatever the HTTP thread and the clients do.
MainLoopContinues == []<>(mpc \in {"update", "ended"})

\* The HTTP thread comes back to its sockets: the main thread's requests do not keep it
\* out for good, nor does a request of a client that waits for the main thread.
HttpLoopContinues == []<>(pc[Http] = "events" \/ mpc = "ended")
=============================================================================
