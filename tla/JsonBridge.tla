----------------------------- MODULE JsonBridge -----------------------------
(***************************************************************************)
(* How a JSON-RPC request gets from the HTTP thread, which reads it, to the *)
(* main thread, which executes it, and its result back: RespondToJson on    *)
(* the one, check_json_and_execute in the loop of the other, with json_mutex, *)
(* json_cond and the json_* fields between them.                            *)
(*                                                                         *)
(* A request is one HTTP connection: the server disconnects the client after *)
(* the answer.  Its method, parameters and id are the request itself, and   *)
(* its result is named by the request that was executed.                    *)
(***************************************************************************)
EXTENDS Naturals, FiniteSets

CONSTANTS
    Requests,       \* the requests clients send
    NoRequest,      \* none of them
    CanQuit         \* whether the window may be closed

ASSUME NoRequestAssumption == NoRequest \notin Requests
ASSUME CanQuitAssumption == CanQuit \in BOOLEAN

VARIABLES
    json_mutex,     \* the thread that holds it, or Nobody
    json_pending,
    json_params,    \* the request in json_method, json_params and json_id
    json_result,
    signalled,      \* json_cond: the waiting thread was signalled
    mpc,            \* where the main thread is
    hpc,            \* where the HTTP thread is
    conn,           \* the request the HTTP thread is at
    asked,          \* the requests clients have sent
    answer,         \* per request, the result it was answered with
    runs            \* history: how often each request was executed

jsonFields == <<json_pending, json_params, json_result>>
clientVars == <<asked, answer>>
vars == <<json_mutex, jsonFields, signalled, mpc, hpc, conn, clientVars, runs>>

Main == "main"
Http == "http"
Nobody == "nobody"

MainSteps == {"update", "lock", "test", "execute", "clear", "signal", "unlock",
              "analyze", "ended"}
HttpSteps == {"idle", "lock", "post", "test", "cond", "relock", "take", "reply"}

MainLocked == {"test", "execute", "clear", "signal", "unlock"}
HttpLocked == {"post", "test", "take"}

TypeOK ==
    /\ json_mutex \in {Main, Http, Nobody}
    /\ json_pending \in BOOLEAN
    /\ json_params \in Requests \cup {NoRequest}
    /\ json_result \in Requests \cup {NoRequest}
    /\ signalled \in BOOLEAN
    /\ mpc \in MainSteps
    /\ hpc \in HttpSteps
    /\ conn \in Requests \cup {NoRequest}
    /\ asked \subseteq Requests
    /\ answer \in [Requests -> Requests \cup {NoRequest}]
    /\ runs \in [Requests -> 0 .. 1]

Init ==
    /\ json_mutex = Nobody
    /\ json_pending = FALSE
    /\ json_params = NoRequest
    /\ json_result = NoRequest
    /\ signalled = FALSE
    /\ mpc = "update"
    /\ hpc = "idle"
    /\ conn = NoRequest
    /\ asked = {}
    /\ answer = [r \in Requests |-> NoRequest]
    /\ runs = [r \in Requests |-> 0]

MainGoes(from, to) == mpc = from /\ mpc' = to
HttpGoes(from, to) == mpc # "ended" /\ hpc = from /\ hpc' = to

TakeMutex(t) == json_mutex = Nobody /\ json_mutex' = t

-----------------------------------------------------------------------------
(* The main thread: the loop of MmttServer::Run, with check_json_and_execute. *)

\* Update returns, with a depth image or because a window message is there.
Update ==
    /\ MainGoes("update", "lock")
    /\ UNCHANGED <<json_mutex, jsonFields, signalled, hpc, conn, clientVars, runs>>

MainLock ==
    /\ MainGoes("lock", "test")
    /\ TakeMutex(Main)
    /\ UNCHANGED <<jsonFields, signalled, hpc, conn, clientVars, runs>>

TestPending ==
    /\ MainGoes("test", IF json_pending THEN "execute" ELSE "unlock")
    /\ UNCHANGED <<json_mutex, jsonFields, signalled, hpc, conn, clientVars, runs>>

ExecuteJson ==
    /\ MainGoes("execute", "clear")
    /\ json_result' = json_params
    /\ runs' = [runs EXCEPT ![json_params] = @ + 1]
    /\ UNCHANGED <<json_mutex, json_pending, json_params, signalled, hpc, conn,
                   clientVars>>

\* Bug: the request stays pending.
BugNoClear ==
    /\ MainGoes("clear", "signal")
    /\ UNCHANGED <<json_mutex, jsonFields, signalled, hpc, conn, clientVars, runs>>

ClearPending ==
    /\ MainGoes("clear", "signal")
    /\ json_pending' = FALSE
    /\ UNCHANGED <<json_mutex, json_params, json_result, signalled, hpc, conn,
                   clientVars, runs>>

\* Bug: the waiting thread is not told.
BugNoSignal ==
    /\ MainGoes("signal", "unlock")
    /\ UNCHANGED <<json_mutex, jsonFields, signalled, hpc, conn, clientVars, runs>>

\* A signal that finds no thread waiting is lost.
SignalCond ==
    /\ MainGoes("signal", "unlock")
    /\ signalled' = (hpc = "cond")
    /\ UNCHANGED <<json_mutex, jsonFields, hpc, conn, clientVars, runs>>

MainUnlock ==
    /\ MainGoes("unlock", "analyze")
    /\ json_mutex' = Nobody
    /\ UNCHANGED <<jsonFields, signalled, hpc, conn, clientVars, runs>>

\* analyze_depth_images, draw_depth_image and the window's messages.
Analyze ==
    /\ MainGoes("analyze", "update")
    /\ UNCHANGED <<json_mutex, jsonFields, signalled, hpc, conn, clientVars, runs>>

\* WM_QUIT ends the loop and with WinMain the process, whatever the HTTP thread does.
Quit ==
    /\ CanQuit
    /\ MainGoes("analyze", "ended")
    /\ UNCHANGED <<json_mutex, jsonFields, signalled, hpc, conn, clientVars, runs>>

MainStep ==
    \/ Update \/ TestPending \/ ExecuteJson \/ ClearPending \/ SignalCond
    \/ MainUnlock \/ Analyze

-----------------------------------------------------------------------------
(* The clients, and the HTTP thread: RespondToGetOrPost and RespondToJson. *)

Send(r) ==
    /\ mpc # "ended"
    /\ r \notin asked
    /\ asked' = asked \cup {r}
    /\ UNCHANGED <<json_mutex, jsonFields, signalled, mpc, hpc, conn, answer, runs>>

Receive(r) ==
    /\ HttpGoes("idle", "lock")
    /\ r \in asked /\ answer[r] = NoRequest
    /\ conn' = r
    /\ UNCHANGED <<json_mutex, jsonFields, signalled, mpc, clientVars, runs>>

HttpLock ==
    /\ HttpGoes("lock", "post")
    /\ TakeMutex(Http)
    /\ UNCHANGED <<jsonFields, signalled, mpc, conn, clientVars, runs>>

Post ==
    /\ HttpGoes("post", "test")
    /\ json_pending' = TRUE
    /\ json_params' = conn
    /\ UNCHANGED <<json_mutex, json_result, signalled, mpc, conn, clientVars, runs>>

\* The loop's test, and pthread_cond_wait, which releases the mutex.
CondWait ==
    /\ HttpGoes("test", "cond")
    /\ json_pending
    /\ json_mutex' = Nobody
    /\ signalled' = FALSE
    /\ UNCHANGED <<jsonFields, mpc, conn, clientVars, runs>>

LeaveLoop ==
    /\ HttpGoes("test", "take")
    /\ ~ json_pending
    /\ UNCHANGED <<json_mutex, jsonFields, signalled, mpc, conn, clientVars, runs>>

Wake ==
    /\ HttpGoes("cond", "relock")
    /\ signalled
    /\ UNCHANGED <<json_mutex, jsonFields, signalled, mpc, conn, clientVars, runs>>

\* A condition variable may wake a thread nobody has signalled.
WakeSpuriously ==
    /\ HttpGoes("cond", "relock")
    /\ UNCHANGED <<json_mutex, jsonFields, signalled, mpc, conn, clientVars, runs>>

\* Bug: the wait is not in a loop.
BugWaitOnce ==
    /\ HttpGoes("relock", "take")
    /\ TakeMutex(Http)
    /\ UNCHANGED <<jsonFields, signalled, mpc, conn, clientVars, runs>>

Relock ==
    /\ HttpGoes("relock", "test")
    /\ TakeMutex(Http)
    /\ UNCHANGED <<jsonFields, signalled, mpc, conn, clientVars, runs>>

\* The result is copied and the mutex released.
TakeResult ==
    /\ HttpGoes("take", "reply")
    /\ json_mutex' = Nobody
    /\ answer' = [answer EXCEPT ![conn] = json_result]
    /\ UNCHANGED <<jsonFields, signalled, mpc, conn, asked, runs>>

\* The parsed request is deleted, the answer sent and the client disconnected.
Reply ==
    /\ HttpGoes("reply", "idle")
    /\ conn' = NoRequest
    /\ UNCHANGED <<json_mutex, jsonFields, signalled, mpc, clientVars, runs>>

HttpStep == Post \/ CondWait \/ LeaveLoop \/ Wake \/ TakeResult \/ Reply

Next ==
    \/ MainStep \/ MainLock \/ Quit
    \/ \E r \in Requests : Send(r) \/ Receive(r)
    \/ HttpStep \/ HttpLock \/ Relock \/ WakeSpuriously

Spec == Init /\ [][Next]_vars

-----------------------------------------------------------------------------
(* Safety. *)

\* Where the HTTP thread is between posting a request and taking its result.
Waiting == {"test", "cond", "relock", "take"}

\* json_params, json_method and json_id point into what the HTTP thread has parsed and
\* deletes when RespondToJson returns: while ExecuteJson uses them it has not.
ParamsAlive ==
    mpc = "execute" => hpc \in Waiting /\ conn = json_params

\* Which thread holds the mutex, and what each knows of the fields while it does.
MutexInv ==
    /\ mpc \in MainLocked <=> json_mutex = Main
    /\ hpc \in HttpLocked <=> json_mutex = Http
    /\ mpc \in {"execute", "clear"} => json_pending
    /\ mpc = "signal" => ~ json_pending
    /\ hpc = "take" => ~ json_pending

\* A request is pending just while the HTTP thread waits for it; it has not been
\* executed before it is no longer pending, and then its result is the one stored.
PendingInv ==
    /\ json_pending => hpc \in Waiting
    /\ hpc = "idle" <=> conn = NoRequest
    /\ hpc \in Waiting =>
          /\ json_params = conn
          /\ IF json_pending /\ mpc # "clear"
             THEN runs[conn] = 0
             ELSE runs[conn] = 1 /\ json_result = conn
    /\ hpc \in {"lock", "post"} => runs[conn] = 0
    /\ conn # NoRequest => conn \in asked
    /\ \A r \in Requests : answer[r] # NoRequest => runs[r] = 1
    /\ \A r \in Requests : runs[r] = 1 /\ r # conn => answer[r] # NoRequest
    /\ conn # NoRequest => (answer[conn] # NoRequest <=> hpc = "reply")

\* The wakeup is not lost: when the request is done and the HTTP thread still waits,
\* it has been signalled or is about to be.
WakeupInv == hpc = "cond" /\ ~ json_pending => signalled \/ mpc = "signal"

IInv == TypeOK /\ MutexInv /\ PendingInv /\ WakeupInv

Service == INSTANCE RequestService

\* The two threads together execute every request once and answer it with its own
\* result (RespondToJson returns what ExecuteJson returned for its arguments).
ImplementsService == Service!ServiceSpec

-----------------------------------------------------------------------------
(* Liveness, which ServerThreads checks with the fairness of the two threads. *)

\* Every request a client sends is answered, unless the process ends.
RequestAnswered ==
    \A r \in Requests : (r \in asked) ~> (answer[r] # NoRequest \/ mpc = "ended")
=============================================================================
