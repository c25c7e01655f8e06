----------------------------- MODULE SocketLock -----------------------------
(***************************************************************************)
(* NosuchSocket's lock (kLock, cLock): the thread that loops in             *)
(* ProcessEvents and the threads that want the socket list to send on it or *)
(* to disconnect a client.  The looper is the HTTP thread; the sender is    *)
(* the main thread, which sends every TUIO bundle to the WebSocket clients. *)
(* The HTTP thread makes requests of its own when it answers.               *)
(*                                                                         *)
(* The list itself is left out: a thread is or is not at it.                *)
(***************************************************************************)
EXTENDS Integers, FiniteSets

CONSTANTS
    Senders,            \* threads that only make requests
    Looper,             \* the thread that loops in ProcessEvents
    Nobody,             \* no thread
    LooperRequests      \* whether the looper calls SendTo and DisconnectClient too

ASSUME ThreadsAssumption ==
    /\ Looper \notin Senders
    /\ Nobody \notin Senders \cup {Looper}
ASSUME RequestsAssumption == LooperRequests \in BOOLEAN

Threads == Senders \cup {Looper}

VARIABLES
    h_LoopEvent,    \* manual-reset event: set or not
    h_ExitTimer,    \* auto-reset waitable timer, mh_Events[0]
    h_Mutex,        \* the thread that holds the mutex, or Nobody
    ready,          \* whether the event of some socket is set
    pc              \* where each thread is

vars == <<h_LoopEvent, h_ExitTimer, h_Mutex, ready, pc>>

\* Between ResetEvent and SetEvent.
Requesting == {"timer", "mutex", "set"}
RequestSteps == Requesting \cup {"access"}
LoopSteps == {"idle", "loopmutex", "events", "leave", "dispatch", "handling"}

\* The steps at which a thread holds the mutex.
Locked == {"set", "access", "events", "leave", "dispatch"}

TypeOK ==
    /\ h_LoopEvent \in BOOLEAN
    /\ h_ExitTimer \in {"off", "armed", "fired"}
    /\ h_Mutex \in Threads \cup {Nobody}
    /\ ready \in BOOLEAN
    /\ pc \in [Threads -> RequestSteps \cup LoopSteps]

\* kLock::Init is done: the looper's first round does it, before a client is there
\* for another thread to send to.
Init ==
    /\ h_LoopEvent = TRUE
    /\ h_ExitTimer = "off"
    /\ h_Mutex = Nobody
    /\ ready = FALSE
    /\ pc = [t \in Threads |-> "idle"]

Goto(t, step) == pc' = [pc EXCEPT ![t] = step]

-----------------------------------------------------------------------------
(* cLock::Request and ~cLock, around SendTo and DisconnectClient. *)

\* Check makes requests only when it handles a socket's event.
MayRequest(t) ==
    \/ t \in Senders /\ pc[t] = "idle"
    \/ t = Looper /\ LooperRequests /\ pc[t] = "handling"

\* Bug: the loop is not blocked first.
BugNoReset(t) ==
    /\ MayRequest(t)
    /\ Goto(t, "timer")
    /\ UNCHANGED <<h_LoopEvent, h_ExitTimer, h_Mutex, ready>>

\* FIRST: block ProcessEvents() the next time.
BlockLoop(t) ==
    /\ MayRequest(t)
    /\ h_LoopEvent' = FALSE
    /\ Goto(t, "timer")
    /\ UNCHANGED <<h_ExitTimer, h_Mutex, ready>>

\* Bug: no timer to end a wait for events with.
BugNoTimer(t) ==
    /\ pc[t] = "timer"
    /\ Goto(t, "mutex")
    /\ UNCHANGED <<h_LoopEvent, h_ExitTimer, h_Mutex, ready>>

\* SECOND: escape from a blocking WaitForMultipleEvents().
SetExitTimer(t) ==
    /\ pc[t] = "timer"
    /\ h_ExitTimer' = "armed"
    /\ Goto(t, "mutex")
    /\ UNCHANGED <<h_LoopEvent, h_Mutex, ready>>

\* Bug: the mutex is not waited for.
BugNoMutex(t) ==
    /\ pc[t] = "mutex"
    /\ h_Mutex' = t
    /\ Goto(t, "set")
    /\ UNCHANGED <<h_LoopEvent, h_ExitTimer, ready>>

\* THIRD: wait until ProcessEvents() has exited.
GrabMutex(t) ==
    /\ pc[t] = "mutex"
    /\ h_Mutex = Nobody
    /\ h_Mutex' = t
    /\ Goto(t, "set")
    /\ UNCHANGED <<h_LoopEvent, h_ExitTimer, ready>>

\* Bug: the loop stays blocked.
BugNoSet(t) ==
    /\ pc[t] = "set"
    /\ Goto(t, "access")
    /\ UNCHANGED <<h_LoopEvent, h_ExitTimer, h_Mutex, ready>>

AllowLoop(t) ==
    /\ pc[t] = "set"
    /\ h_LoopEvent' = TRUE
    /\ Goto(t, "access")
    /\ UNCHANGED <<h_ExitTimer, h_Mutex, ready>>

EndRequest(t) ==
    /\ pc[t] = "access"
    /\ h_Mutex' = Nobody
    /\ Goto(t, IF t = Looper THEN "handling" ELSE "idle")
    /\ UNCHANGED <<h_LoopEvent, h_ExitTimer, ready>>

RequestStep(t) == SetExitTimer(t) \/ AllowLoop(t) \/ EndRequest(t)

-----------------------------------------------------------------------------
(* The looper: cLock::Loop, the wait for events in ProcessEvents, and Check. *)

PassLoopEvent ==
    /\ pc[Looper] = "idle"
    /\ h_LoopEvent
    /\ Goto(Looper, "loopmutex")
    /\ UNCHANGED <<h_LoopEvent, h_ExitTimer, h_Mutex, ready>>

GrabLoopMutex ==
    /\ pc[Looper] = "loopmutex"
    /\ h_Mutex = Nobody
    /\ h_Mutex' = Looper
    /\ Goto(Looper, "events")
    /\ UNCHANGED <<h_LoopEvent, h_ExitTimer, ready>>

\* The wait ends with the exit timer, which the wait resets.
WaitTimer ==
    /\ pc[Looper] = "events"
    /\ h_ExitTimer = "fired"
    /\ h_ExitTimer' = "off"
    /\ Goto(Looper, "leave")
    /\ UNCHANGED <<h_LoopEvent, h_Mutex, ready>>

\* It ends with a socket's event, which is dispatched with the list still locked, and
\* the exit timer stays as it is; other sockets may be ready still.
WaitSocket ==
    /\ pc[Looper] = "events"
    /\ ready
    /\ ready' \in BOOLEAN
    /\ Goto(Looper, "dispatch")
    /\ UNCHANGED <<h_LoopEvent, h_ExitTimer, h_Mutex>>

\* Nothing happened for mu32_EventTimeout milliseconds.
WaitTimeout ==
    /\ pc[Looper] = "events"
    /\ ~ ready /\ h_ExitTimer # "fired"
    /\ Goto(Looper, "leave")
    /\ UNCHANGED <<h_LoopEvent, h_ExitTimer, h_Mutex, ready>>

\* Without a socket's event Check returns at once, and is called again.
EndProcessEvents ==
    /\ pc[Looper] \in {"leave", "dispatch"}
    /\ h_Mutex' = Nobody
    /\ Goto(Looper, IF pc[Looper] = "dispatch" THEN "handling" ELSE "idle")
    /\ UNCHANGED <<h_LoopEvent, h_ExitTimer, ready>>

\* Check has handled the event, and is called again.
EndCheck ==
    /\ pc[Looper] = "handling"
    /\ Goto(Looper, "idle")
    /\ UNCHANGED <<h_LoopEvent, h_ExitTimer, h_Mutex, ready>>

LoopStep == WaitTimer \/ EndProcessEvents \/ EndCheck

\* 100 nanoseconds after it was set.
TimerFires ==
    /\ h_ExitTimer = "armed"
    /\ h_ExitTimer' = "fired"
    /\ UNCHANGED <<h_LoopEvent, h_Mutex, ready, pc>>

\* A client connects, sends, can be sent more, or closes.
SocketEvent ==
    /\ ~ ready
    /\ ready' = TRUE
    /\ UNCHANGED <<h_LoopEvent, h_ExitTimer, h_Mutex, pc>>

Next ==
    \/ \E t \in Threads : BlockLoop(t) \/ GrabMutex(t) \/ RequestStep(t)
    \/ PassLoopEvent \/ GrabLoopMutex \/ WaitSocket \/ WaitTimeout \/ LoopStep
    \/ TimerFires \/ SocketEvent

Spec == Init /\ [][Next]_vars

-----------------------------------------------------------------------------
(* Safety. *)

\* Two threads are never at the socket list at once (SendTo, DisconnectClient and
\* ProcessEvents each work on mi_List between lock and ~cLock).
ListExclusive ==
    \A t, u \in Threads : pc[t] \in Locked /\ pc[u] \in Locked => t = u

\* The loop is blocked only for a request that will allow it again: one thread's
\* SetEvent never leaves another's ResetEvent standing with nobody to undo it.
LoopBlockedForRequest ==
    ~ h_LoopEvent => \E t \in Threads : pc[t] \in Requesting

\* The holder of the mutex is the thread at a locked step.
HolderAtList == \A t \in Threads : pc[t] \in Locked <=> h_Mutex = t

\* Only the looper is at the loop's steps.
StepsOfThreads ==
    \A t \in Senders : pc[t] \in RequestSteps \cup {"idle"}

\* The inductive invariant of all the threads.
IInv ==
    /\ TypeOK
    /\ StepsOfThreads
    /\ HolderAtList
    /\ LoopBlockedForRequest

\* While a request waits for the mutex the looper does not wait for events, unless
\* the timer is about to end the wait ("SECOND: Escape from a blocking
\* WaitForMultipleEvents()").
WaitEscapes ==
    (\E t \in Threads : pc[t] = "mutex") /\ pc[Looper] = "events"
        => h_ExitTimer # "off"

\* What keeps that true when a single thread makes requests: from its ResetEvent to
\* its SetEvent the loop stays blocked, so once the timer has ended a wait the looper
\* does not come back to another.
SoleRequestInv ==
    /\ pc[Looper] \in LoopSteps
    /\ \A t \in Senders :
          /\ pc[t] \in Requesting => ~ h_LoopEvent
          /\ pc[t] = "mutex" /\ h_ExitTimer = "off"
                => pc[Looper] \notin {"loopmutex", "events"}

-----------------------------------------------------------------------------
(* Liveness. *)

\* Every thread goes on with its steps, and a wait that can end stays so until it
\* does.  Nothing is assumed of the sockets or of the event timeout.
StepFairness ==
    /\ \A t \in Threads : WF_vars(RequestStep(t)) /\ WF_vars(GrabMutex(t))
    /\ WF_vars(LoopStep)
    /\ WF_vars(PassLoopEvent)
    /\ WF_vars(GrabLoopMutex)
    /\ WF_vars(TimerFires)

PromptSpec == Spec /\ StepFairness

\* A sender that asks for the list gets it, so the main thread goes on.
RequestServed ==
    \A t \in Senders : (pc[t] = "timer") ~> (pc[t] = "access")
=============================================================================
