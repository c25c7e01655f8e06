--------------------------- MODULE RequestService ---------------------------
(***************************************************************************)
(* What a client of the HTTP server is promised for a JSON-RPC request:     *)
(* the server executes it once, and answers it with what that execution     *)
(* returned.  A result is named by the request that was executed.           *)
(***************************************************************************)
EXTENDS Naturals

CONSTANTS Requests, NoRequest

VARIABLES
    asked,      \* the requests clients have sent
    runs,       \* how often each was executed
    answer      \* the result each was answered with

serviceVars == <<asked, runs, answer>>

ServiceInit ==
    /\ asked = {}
    /\ runs = [r \in Requests |-> 0]
    /\ answer = [r \in Requests |-> NoRequest]

Ask(r) ==
    /\ r \notin asked
    /\ asked' = asked \cup {r}
    /\ UNCHANGED <<runs, answer>>

Perform(r) ==
    /\ r \in asked
    /\ runs[r] = 0
    /\ runs' = [runs EXCEPT ![r] = 1]
    /\ UNCHANGED <<asked, answer>>

Answer(r) ==
    /\ runs[r] = 1
    /\ answer[r] = NoRequest
    /\ answer' = [answer EXCEPT ![r] = r]
    /\ UNCHANGED <<asked, runs>>

ServiceNext == \E r \in Requests : Ask(r) \/ Perform(r) \/ Answer(r)

ServiceSpec == ServiceInit /\ [][ServiceNext]_serviceVars
=============================================================================
