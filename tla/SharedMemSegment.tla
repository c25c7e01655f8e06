--------------------------- MODULE SharedMemSegment ---------------------------
(***************************************************************************)
(* MMTT_SharedMem: how a server creates the segment of the outlines, and    *)
(* how receivers open it, over starts, ends and restarts of both.           *)
(*                                                                         *)
(* A segment is two named mappings: "data", and "info", a small block that  *)
(* says whether the owner has detached.  The operating system keeps a       *)
(* mapping under its name as long as a process has it open; creating it     *)
(* again opens it, and says so.  Each server process is a Servers of its    *)
(* own; it never deletes its MMTT_SharedMem, so it ends without detaching.  *)
(* What is in the segment is modelled by OutlineBuffers.                    *)
(***************************************************************************)
CONSTANTS
    Servers,    \* processes that call setup_shmem_for_outlines, once each
    Receivers,  \* processes that open the segment and call getMemory
    Nobody

ASSUME ProcessesAssumption ==
    Servers \cap Receivers = {} /\ Nobody \notin Servers \cup Receivers

Processes == Servers \cup Receivers
Names == {"info", "data"}

VARIABLES
    mapping,    \* by name: who created it, who has it open, what is in it
    pc,         \* where each process is
    todo,       \* the mappings that detach of a process has still to leave
    info,       \* a receiver's mySharedMemInfo: "NULL", "failed" or "open"
    leaving     \* a receiver's detach is called by its destructor

vars == <<mapping, pc, todo, info, leaving>>

NoMapping == [by |-> Nobody, openedBy |-> {}, magicNumber |-> FALSE, detach |-> FALSE]

Init ==
    /\ mapping = [n \in Names |-> NoMapping]
    /\ pc = [p \in Processes |-> "off"]
    /\ todo = [p \in Processes |-> {}]
    /\ info = [r \in Receivers |-> "NULL"]
    /\ leaving = [r \in Receivers |-> FALSE]

-----------------------------------------------------------------------------
(* Mappings. *)

Exists(n) == mapping[n].openedBy # {}

Created(n, s) ==
    [mapping EXCEPT ![n] = [by |-> s, openedBy |-> {s}, magicNumber |-> FALSE, detach |-> FALSE]]

Opened(n, p) == [mapping EXCEPT ![n].openedBy = @ \cup {p}]

\* A handle is closed; with the last one the mapping goes.
Without(m, p) ==
    IF m.openedBy \subseteq {p} THEN NoMapping ELSE [m EXCEPT !.openedBy = @ \ {p}]

Closed(n, p) == [mapping EXCEPT ![n] = Without(@, p)]

Goto(p, step) == pc' = [pc EXCEPT ![p] = step]

\* detach: mySharedMemInfo is deleted, which leaves its mapping, then the data is left.
Detach(p, names) ==
    /\ todo' = [todo EXCEPT ![p] = names]
    /\ Goto(p, "close")

-----------------------------------------------------------------------------
(* detachInternal, of the mapping that is next: the info block before the data. *)

Leaves(p) == IF "info" \in todo[p] THEN "info" ELSE "data"

\* It is done: on with the next mapping, or back to the caller.
LeaveDone(p) ==
    /\ todo' = [todo EXCEPT ![p] = @ \ {Leaves(p)}]
    /\ Goto(p, IF todo[p] # {Leaves(p)} THEN "close"
               ELSE IF p \in Servers THEN "failed"
               ELSE IF leaving[p] THEN "off" ELSE "idle")

Close(p) ==
    /\ pc[p] = "close"
    /\ mapping' = Closed(Leaves(p), p)
    /\ Goto(p, "reopen")
    /\ UNCHANGED <<todo, info, leaving>>

\* Has somebody else the mapping open?  It is opened again to see.
Reopen(p) ==
    /\ pc[p] = "reopen"
    /\ \/ /\ Exists(Leaves(p))
          /\ mapping' = Opened(Leaves(p), p)
          /\ Goto(p, "release")
          /\ UNCHANGED todo
       \/ /\ ~ Exists(Leaves(p))
          /\ LeaveDone(p)
          /\ UNCHANGED mapping
    /\ UNCHANGED <<info, leaving>>

Release(p) ==
    /\ pc[p] = "release"
    /\ mapping' = Closed(Leaves(p), p)
    /\ LeaveDone(p)
    /\ UNCHANGED <<info, leaving>>

DetachInternal(p) == Close(p) \/ Reopen(p) \/ Release(p)

-----------------------------------------------------------------------------
(* A server: setup_shmem_for_outlines, once. *)

\* createInfo; if there is an info block already, nothing else is tried.
CreateInfo(s) ==
    /\ pc[s] = "off"
    /\ \/ /\ ~ Exists("info")
          /\ mapping' = Created("info", s)
          /\ Goto(s, "info")
          /\ UNCHANGED todo
       \/ /\ Exists("info")
          /\ mapping' = Opened("info", s)
          /\ Detach(s, {"info"})
    /\ UNCHANGED <<info, leaving>>

InitInfo(s) ==
    /\ pc[s] = "info"
    /\ mapping' = [mapping EXCEPT !["info"].magicNumber = TRUE, !["info"].detach = FALSE]
    /\ Goto(s, "create")
    /\ UNCHANGED <<todo, info, leaving>>

\* Bug: a mapping that was there is as good as a new one.
BugTakeOver(s) ==
    /\ pc[s] = "create"
    /\ mapping' = IF Exists("data") THEN Opened("data", s) ELSE Created("data", s)
    /\ Goto(s, "xinit")
    /\ UNCHANGED <<todo, info, leaving>>

CreateSharedMem(s) ==
    /\ pc[s] = "create"
    /\ \/ /\ ~ Exists("data")
          /\ mapping' = Created("data", s)
          /\ Goto(s, "xinit")
       \/ /\ Exists("data")
          /\ mapping' = Opened("data", s)
          /\ Goto(s, "detach")
    /\ UNCHANGED <<todo, info, leaving>>

\* Bug: receivers are not told.
BugSilent(s) ==
    /\ pc[s] = "detach"
    /\ Detach(s, Names)
    /\ UNCHANGED <<mapping, info, leaving>>

\* The owner's detach, when createSharedMem has failed: the only use of info->detach.
OwnerDetach(s) ==
    /\ pc[s] = "detach"
    /\ mapping' = [mapping EXCEPT !["info"].detach = TRUE]
    /\ Detach(s, Names)
    /\ UNCHANGED <<info, leaving>>

\* xinit, with the lock of the segment.
XInit(s) ==
    /\ pc[s] = "xinit"
    /\ mapping' = [mapping EXCEPT !["data"].magicNumber = TRUE]
    /\ Goto(s, "publishing")
    /\ UNCHANGED <<todo, info, leaving>>

\* The process ends, wherever it is: its handles are closed for it.
Kill(s) ==
    /\ pc[s] \notin {"off", "failed", "killed"}
    /\ mapping' = [n \in Names |-> Without(mapping[n], s)]
    /\ todo' = [todo EXCEPT ![s] = {}]
    /\ Goto(s, "killed")
    /\ UNCHANGED <<info, leaving>>

ServerStep(s) ==
    CreateInfo(s) \/ InitInfo(s) \/ CreateSharedMem(s) \/ OwnerDetach(s) \/ XInit(s) \/ Kill(s)

-----------------------------------------------------------------------------
(* A receiver. *)

\* createInfo: the info block is opened, and must have its magic number.
OpenInfo(r) ==
    IF Exists("info") THEN mapping' = Opened("info", r) ELSE UNCHANGED mapping

InfoIsGood == Exists("info") /\ mapping["info"].magicNumber

\* The constructor keeps an info that could not be opened, and one that is not initialised.
Construct(r) ==
    /\ pc[r] = "off"
    /\ OpenInfo(r)
    /\ info' = [info EXCEPT ![r] = IF Exists("info") THEN "open" ELSE "failed"]
    /\ leaving' = [leaving EXCEPT ![r] = FALSE]
    /\ Goto(r, IF InfoIsGood THEN "open" ELSE "idle")
    /\ UNCHANGED todo

\* Bug: an info that could not be opened is never tried again.
BugNoRetry(r) ==
    /\ pc[r] = "idle"
    /\ info[r] = "open"
    /\ Goto(r, "check")
    /\ UNCHANGED <<mapping, todo, info, leaving>>

\* getMemory begins with checkInfo: without a good info it detaches, and the next call
\* starts from nothing.
GetMemory(r) ==
    /\ pc[r] = "idle"
    /\ \/ /\ info[r] = "open"
          /\ Goto(r, "check")
          /\ UNCHANGED <<mapping, todo, info>>
       \/ /\ info[r] = "failed"
          /\ info' = [info EXCEPT ![r] = "NULL"]
          /\ Detach(r, Names)
          /\ UNCHANGED mapping
       \/ /\ info[r] = "NULL" /\ InfoIsGood
          /\ OpenInfo(r)
          /\ info' = [info EXCEPT ![r] = "open"]
          /\ Goto(r, "check")
          /\ UNCHANGED todo
       \/ /\ info[r] = "NULL" /\ ~ InfoIsGood
          /\ OpenInfo(r)
          /\ Detach(r, Names)
          /\ UNCHANGED info
    /\ UNCHANGED leaving

\* An info that is not initialised has version 0, which knows no detach.
CheckDetach(r) ==
    /\ pc[r] = "check"
    /\ IF mapping["info"].magicNumber /\ mapping["info"].detach
       THEN /\ info' = [info EXCEPT ![r] = "NULL"]
            /\ Detach(r, Names)
       ELSE /\ Goto(r, "open")
            /\ UNCHANGED <<todo, info>>
    /\ UNCHANGED <<mapping, leaving>>

\* openSharedMem; a mapping that is open already is kept.
OpenSharedMem(r) ==
    /\ pc[r] = "open"
    /\ mapping' = IF Exists("data") THEN Opened("data", r) ELSE mapping
    /\ Goto(r, "idle")
    /\ UNCHANGED <<todo, info, leaving>>

\* The destructor.
Destroy(r) ==
    /\ pc[r] = "idle"
    /\ leaving' = [leaving EXCEPT ![r] = TRUE]
    /\ info' = [info EXCEPT ![r] = "NULL"]
    /\ Detach(r, IF info[r] = "NULL" THEN {"data"} ELSE Names)
    /\ UNCHANGED mapping

\* The process ends; another one may start.
Exit(r) ==
    /\ pc[r] # "off"
    /\ mapping' = [n \in Names |-> Without(mapping[n], r)]
    /\ todo' = [todo EXCEPT ![r] = {}]
    /\ info' = [info EXCEPT ![r] = "NULL"]
    /\ leaving' = [leaving EXCEPT ![r] = FALSE]
    /\ Goto(r, "off")

Calls(r) == GetMemory(r) \/ CheckDetach(r) \/ OpenSharedMem(r)
ReceiverStep(r) == Construct(r) \/ Calls(r) \/ Destroy(r) \/ Exit(r)

Next ==
    \/ \E p \in Processes : DetachInternal(p)
    \/ \E s \in Servers : ServerStep(s)
    \/ \E r \in Receivers : ReceiverStep(r)

Spec == Init /\ [][Next]_vars

-----------------------------------------------------------------------------
(* Safety. *)

Detaching == {"close", "reopen", "release"}
ServerSteps == Detaching \cup {"off", "info", "create", "detach", "xinit", "publishing", "failed", "killed"}
ReceiverSteps == Detaching \cup {"off", "idle", "check", "open"}

Mappings == [Names -> [by : Servers \cup {Nobody}, openedBy : SUBSET Processes,
                       magicNumber : BOOLEAN, detach : BOOLEAN]]

TypeOK ==
    /\ mapping \in Mappings
    /\ pc \in [Processes -> ServerSteps \cup ReceiverSteps]
    /\ \A s \in Servers : pc[s] \in ServerSteps
    /\ \A r \in Receivers : pc[r] \in ReceiverSteps
    /\ todo \in [Processes -> SUBSET Names]
    /\ info \in [Receivers -> {"NULL", "failed", "open"}]
    /\ leaving \in [Receivers -> BOOLEAN]

Has(p, n) == p \in mapping[n].openedBy

\* A mapping that nobody has open is not there; what is there was created by a server.
NamesKnown ==
    \A n \in Names :
        /\ mapping[n].by = Nobody <=> ~ Exists(n)
        /\ \A s \in Servers : mapping[n].by = s => pc[s] # "off"

\* No handle is lost: a process that has given the segment up, or has not got it, keeps no
\* mapping open, so it never stands in the way of a server that starts later.
ServersLeakNothing ==
    \A s \in Servers :
        /\ pc[s] \in {"off", "failed", "killed"} => ~ Has(s, "info") /\ ~ Has(s, "data")
        /\ pc[s] \in {"info", "create"} => Has(s, "info") /\ ~ Has(s, "data")
        /\ pc[s] \in {"detach", "xinit", "publishing"} => Has(s, "info") /\ Has(s, "data")

ReceiversLeakNothing ==
    \A r \in Receivers :
        /\ pc[r] = "off" => ~ Has(r, "info") /\ ~ Has(r, "data")
        /\ pc[r] = "idle" => /\ Has(r, "info") <=> info[r] = "open"
                             /\ Has(r, "data") => info[r] = "open"
        /\ pc[r] \in {"check", "open"} => Has(r, "info") /\ info[r] = "open"
        /\ pc[r] \in Detaching => info[r] = "NULL" /\ todo[r] # {"info"}

DetachKnowsWhatIsLeft ==
    \A p \in Processes :
        /\ pc[p] \in Detaching <=> todo[p] # {}
        /\ pc[p] = "reopen" => ~ Has(p, Leaves(p))
        /\ todo[p] = {"info"} => ~ Has(p, "data")
        /\ todo[p] = {"data"} => ~ Has(p, "info")

\* A server that gets through its setup works in mappings it has created itself, never in
\* those of a predecessor or of another server: at most one server is ever at work,
\* however starts, ends and detaching receivers interleave.
OwnSegment ==
    \A s \in Servers :
        /\ pc[s] \in {"info", "create", "detach", "xinit", "publishing"} => mapping["info"].by = s
        /\ pc[s] \in {"create", "detach", "xinit", "publishing"} => mapping["info"].magicNumber
        /\ pc[s] \in {"create", "xinit", "publishing"} => ~ mapping["info"].detach
        /\ pc[s] \in {"xinit", "publishing"} => mapping["data"].by = s
        /\ pc[s] = "publishing" => mapping["data"].magicNumber

\* A server that has given up leaves its info block marked, if a receiver still has it.
MarkedWhenGivenUp ==
    \A s \in Servers :
        pc[s] \in Detaching \cup {"failed"} /\ mapping["info"].by = s => mapping["info"].detach

IInv ==
    /\ TypeOK
    /\ NamesKnown
    /\ ServersLeakNothing
    /\ ReceiversLeakNothing
    /\ DetachKnowsWhatIsLeft
    /\ OwnSegment
    /\ MarkedWhenGivenUp

\* A receiver whose info and data come from different servers is told: info->detach is set,
\* or will be by its server, unless that one is killed first.  It happens: a receiver in
\* detach has left the info block, so that the next server can create its own, but still
\* has the data.
SameServer ==
    \A r \in Receivers :
        Has(r, "info") /\ Has(r, "data") /\ mapping["info"].by # mapping["data"].by =>
            \/ mapping["info"].detach
            \/ pc[mapping["info"].by] \in {"info", "create", "detach", "killed"}

-----------------------------------------------------------------------------
(* Liveness. *)

\* A receiver calls getMemory again and again, and what a call has begun is ended.
LiveSpec == Spec /\ \A r \in Receivers : WF_vars(Calls(r) \/ DetachInternal(r))

\* A receiver that has been started before its server, while the server was setting up, or
\* when another server was still at work, finds the segment in the end and keeps it.
ReceiverAttaches ==
    \A s \in Servers, r \in Receivers :
        <>[](pc[s] = "publishing" /\ pc[r] # "off") =>
            <>[](Has(r, "data") /\ mapping["data"].by = s)
=============================================================================
