--------------------------- MODULE OutlineBuffers ---------------------------
(***************************************************************************)
(* The buffers of outlines in shared memory (Outlines_SharedMemHeader) and *)
(* the two processes that use them: the MMTT server, which fills one buffer *)
(* per analysed depth image, and a FreeFrame plugin, which displays them.  *)
(* The plugin is not in the repository; its steps follow the header's       *)
(* fields and comments, and are marked external.                           *)
(*                                                                         *)
(* A buffer's outlines and points are abstracted to the number of the      *)
(* frame they belong to.  A section of code under the mutex is split in    *)
(* two steps, the test of the buffer indexes and their update, so that what *)
(* the mutex is for shows when a lock times out.                           *)
(***************************************************************************)
EXTENDS Integers, FiniteSets

CONSTANTS
    NumBuffs,       \* NUM_BUFFS
    MaxFrame,       \* bound: the server produces frames 1 .. MaxFrame
    MaxCrashes,     \* bound: how often the plugin's process may die
    LockTimesOut    \* whether the plugin may hold the mutex for 5 seconds

ASSUME NumBuffsAssumption   == NumBuffs \in Nat /\ NumBuffs >= 3
ASSUME BoundsAssumption     == MaxFrame \in Nat /\ MaxCrashes \in Nat
ASSUME LockTimesOutAssumption == LockTimesOut \in BOOLEAN

VARIABLES
    buff_being_constructed,
    buff_displayed_last_time,
    buff_to_display_next,
    buff_to_display,
    buff_inuse,
    frames,         \* per buffer, the frame its lists hold, or Partial
    seqnum,         \* the header's, set by every update
    fseq,           \* _tuio_fseq: the number of the next frame
    owner,          \* the process that holds the mutex, or Nobody
    wpc,            \* where the server is
    rpc,            \* where the plugin is
    shown,          \* history: the newest frame the plugin took
    crashes         \* history: how often the plugin died

header == <<buff_being_constructed, buff_displayed_last_time,
            buff_to_display_next, buff_to_display, buff_inuse>>
writerVars == <<frames, seqnum, fseq, wpc>>
readerVars == <<rpc, shown, crashes>>
vars == <<header, writerVars, owner, readerVars>>

Buffers == 0 .. NumBuffs - 1
BUFF_UNSET == -1
Indexes == Buffers \cup {BUFF_UNSET}
Partial == -1       \* lists cleared, and not yet filled again
NoFrame == 0

Server == "server"
Plugin == "plugin"
Nobody == "nobody"

WriterSteps == {"idle", "lock1", "rotate", "swap", "shift", "grab", "clear", "fill",
                "unlock1", "lock2", "publish", "handoff", "unlock2", "dead"}
ReaderSteps == {"idle", "lock", "look", "take", "again", "unlock", "display"}

WriterLocked == {"rotate", "swap", "shift", "grab", "clear", "fill", "unlock1",
                 "publish", "handoff", "unlock2"}
ReaderLocked == {"look", "take", "again", "unlock"}

TypeOK ==
    /\ buff_being_constructed \in Indexes
    /\ buff_displayed_last_time \in Indexes
    /\ buff_to_display_next \in Indexes
    /\ buff_to_display \in Indexes
    /\ buff_inuse \in [Buffers -> BOOLEAN]
    /\ frames \in [Buffers -> {Partial} \cup 0 .. MaxFrame]
    /\ seqnum \in {-1} \cup 1 .. MaxFrame
    /\ fseq \in 1 .. MaxFrame + 1
    /\ owner \in {Server, Plugin, Nobody}
    /\ wpc \in WriterSteps
    /\ rpc \in ReaderSteps
    /\ shown \in {Partial} \cup 0 .. MaxFrame
    /\ crashes \in 0 .. MaxCrashes

\* xinit, on a mapping the system has zeroed: buff_to_display is not assigned.
Init ==
    /\ buff_being_constructed = BUFF_UNSET
    /\ buff_displayed_last_time = BUFF_UNSET
    /\ buff_to_display_next = BUFF_UNSET
    /\ buff_to_display = 0
    /\ buff_inuse = [b \in Buffers |-> FALSE]
    /\ frames = [b \in Buffers |-> NoFrame]
    /\ seqnum = -1
    /\ fseq = 1
    /\ owner = Nobody
    /\ wpc = "idle"
    /\ rpc = "idle"
    /\ shown = NoFrame
    /\ crashes = 0

-----------------------------------------------------------------------------
(* The mutex.  lock() waits 5000 ms; its callers ignore what it returns, so *)
(* after a timeout the section runs without the mutex, and the ReleaseMutex *)
(* at its end fails.                                                        *)

Acquire(p) == owner = Nobody /\ owner' = p

\* Bug: an INFINITE wait.
BugWaitForever(p) == FALSE /\ UNCHANGED owner

TimeOut(p) ==
    /\ LockTimesOut
    /\ owner \notin {Nobody, p}
    /\ UNCHANGED owner

Lock(p) == Acquire(p) \/ TimeOut(p)

Unlock(p) == owner' = IF owner = p THEN Nobody ELSE owner

\* Bug: the buffer grabbed is not marked.
BugGrabUnmarked ==
    /\ UNCHANGED buff_inuse
    /\ \E b \in Buffers :
          /\ ~ buff_inuse[b]
          /\ \A c \in Buffers : c < b => buff_inuse[c]
          /\ buff_being_constructed' = b

\* grab_unused_buffer: the first buffer not in use, as buff_being_constructed.
GrabUnusedBuffer ==
    \/ \E b \in Buffers :
          /\ ~ buff_inuse[b]
          /\ \A c \in Buffers : c < b => buff_inuse[c]
          /\ buff_inuse' = [buff_inuse EXCEPT ![b] = TRUE]
          /\ buff_being_constructed' = b
    \/ /\ \A b \in Buffers : buff_inuse[b]
       /\ buff_being_constructed' = BUFF_UNSET
       /\ UNCHANGED buff_inuse

-----------------------------------------------------------------------------
(* The server: shmem_lock_and_update_outlines. *)

\* A depth image has been analysed.
NewFrame ==
    /\ wpc = "idle"
    /\ fseq <= MaxFrame
    /\ wpc' = "lock1"
    /\ UNCHANGED <<header, frames, seqnum, fseq, owner, readerVars>>

WriterLock ==
    /\ \/ wpc = "lock1" /\ wpc' = "rotate"
       \/ wpc = "lock2" /\ wpc' = "publish"
    /\ Lock(Server)
    /\ UNCHANGED <<header, frames, seqnum, fseq, readerVars>>

\* Bug: the frame that waits is not looked at.
BugAlwaysShift ==
    /\ wpc = "rotate"
    /\ wpc' = IF buff_being_constructed = BUFF_UNSET THEN "grab" ELSE "shift"
    /\ UNCHANGED <<header, frames, seqnum, fseq, owner, readerVars>>

TestIndexes ==
    /\ wpc = "rotate"
    /\ \/ /\ buff_being_constructed = BUFF_UNSET
          /\ wpc' = "grab"
       \/ /\ buff_being_constructed # BUFF_UNSET
          /\ wpc' = IF buff_to_display_next # BUFF_UNSET THEN "swap" ELSE "shift"
    /\ UNCHANGED <<header, frames, seqnum, fseq, owner, readerVars>>

\* Bug: the swap without its temporary.
BugSwapOverwrites ==
    /\ wpc = "swap"
    /\ buff_to_display_next' = buff_being_constructed
    /\ wpc' = "clear"
    /\ UNCHANGED <<buff_being_constructed, buff_displayed_last_time,
                   buff_to_display, buff_inuse>>
    /\ UNCHANGED <<frames, seqnum, fseq, owner, readerVars>>

\* Bug: both buffers are full, so the newer is built again and the older waits on.
BugKeepOlder ==
    /\ wpc = "swap"
    /\ wpc' = "clear"
    /\ UNCHANGED <<header, frames, seqnum, fseq, owner, readerVars>>

\* Both buffers are full: the newer will be displayed, the older built anew.
SwapBuffers ==
    /\ wpc = "swap"
    /\ buff_to_display_next' = buff_being_constructed
    /\ buff_being_constructed' = buff_to_display_next
    /\ wpc' = "clear"
    /\ UNCHANGED <<buff_displayed_last_time, buff_to_display, buff_inuse>>
    /\ UNCHANGED <<frames, seqnum, fseq, owner, readerVars>>

\* The previous to_display_next was used.
ShiftBuffer ==
    /\ wpc = "shift"
    /\ buff_to_display_next' = buff_being_constructed
    /\ GrabUnusedBuffer
    /\ wpc' = "clear"
    /\ UNCHANGED <<buff_displayed_last_time, buff_to_display>>
    /\ UNCHANGED <<frames, seqnum, fseq, owner, readerVars>>

GrabBuffer ==
    /\ wpc = "grab"
    /\ GrabUnusedBuffer
    /\ wpc' = "clear"
    /\ UNCHANGED <<buff_displayed_last_time, buff_to_display_next, buff_to_display>>
    /\ UNCHANGED <<frames, seqnum, fseq, owner, readerVars>>

\* clear_lists of the buffer.
ClearLists ==
    /\ wpc = "clear"
    /\ buff_being_constructed # BUFF_UNSET
    /\ frames' = [frames EXCEPT ![buff_being_constructed] = Partial]
    /\ wpc' = "fill"
    /\ UNCHANGED <<header, seqnum, fseq, owner, readerVars>>

\* clear_lists' assertion throws, nothing catches it, the process dies and the
\* system hands the abandoned mutex on.
AssertionFails ==
    /\ wpc = "clear"
    /\ buff_being_constructed = BUFF_UNSET
    /\ wpc' = "dead"
    /\ Unlock(Server)
    /\ UNCHANGED <<header, frames, seqnum, fseq, readerVars>>

\* Bug: the number is taken after it is incremented.
BugNumberAfter ==
    /\ wpc = "fill"
    /\ frames' = [frames EXCEPT ![buff_being_constructed] = fseq + 1]
    /\ seqnum' = fseq + 1
    /\ fseq' = fseq + 1
    /\ wpc' = "unlock1"
    /\ UNCHANGED <<header, owner, readerVars>>

\* Every addOutline and addPoint of the frame, then the sequence number.
FillBuffer ==
    /\ wpc = "fill"
    /\ frames' = [frames EXCEPT ![buff_being_constructed] = fseq]
    /\ seqnum' = fseq
    /\ fseq' = fseq + 1
    /\ wpc' = "unlock1"
    /\ UNCHANGED <<header, owner, readerVars>>

WriterUnlock ==
    /\ \/ wpc = "unlock1" /\ wpc' = "lock2"
       \/ wpc = "unlock2" /\ wpc' = "idle"
    /\ Unlock(Server)
    /\ UNCHANGED <<header, frames, seqnum, fseq, readerVars>>

TestPublish ==
    /\ wpc = "publish"
    /\ wpc' = IF buff_to_display_next = BUFF_UNSET THEN "handoff" ELSE "unlock2"
    /\ UNCHANGED <<header, frames, seqnum, fseq, owner, readerVars>>

HandOff ==
    /\ wpc = "handoff"
    /\ buff_to_display_next' = buff_being_constructed
    /\ buff_being_constructed' = BUFF_UNSET
    /\ wpc' = "unlock2"
    /\ UNCHANGED <<buff_displayed_last_time, buff_to_display, buff_inuse>>
    /\ UNCHANGED <<frames, seqnum, fseq, owner, readerVars>>

WriterStep ==
    \/ NewFrame \/ WriterUnlock
    \/ TestIndexes \/ SwapBuffers \/ ShiftBuffer \/ GrabBuffer
    \/ ClearLists \/ AssertionFails \/ FillBuffer
    \/ TestPublish \/ HandOff

-----------------------------------------------------------------------------
(* The plugin (external). *)

WantDisplay ==
    /\ rpc = "idle"
    /\ rpc' = "lock"
    /\ UNCHANGED <<header, writerVars, owner, shown, crashes>>

ReaderLock ==
    /\ rpc = "lock"
    /\ Acquire(Plugin)
    /\ rpc' = "look"
    /\ UNCHANGED <<header, writerVars, shown, crashes>>

TestNext ==
    /\ rpc = "look"
    /\ rpc' = IF buff_to_display_next # BUFF_UNSET THEN "take" ELSE "again"
    /\ UNCHANGED <<header, writerVars, owner, shown, crashes>>

\* The next buffer is displayed, the one displayed before is free again.
TakeNext ==
    /\ rpc = "take"
    /\ buff_to_display' = buff_to_display_next
    /\ buff_displayed_last_time' = buff_to_display_next
    /\ buff_to_display_next' = BUFF_UNSET
    /\ buff_inuse' = [b \in Buffers |-> buff_inuse[b] /\ b # buff_displayed_last_time]
    /\ shown' = frames[buff_to_display_next]
    /\ rpc' = "unlock"
    /\ UNCHANGED <<buff_being_constructed, writerVars, owner, crashes>>

\* Nothing new: the buffer displayed last time is displayed again.
DisplayAgain ==
    /\ rpc = "again"
    /\ buff_to_display' = buff_displayed_last_time
    /\ rpc' = "unlock"
    /\ UNCHANGED <<buff_being_constructed, buff_displayed_last_time,
                   buff_to_display_next, buff_inuse>>
    /\ UNCHANGED <<writerVars, owner, shown, crashes>>

ReaderUnlock ==
    /\ rpc = "unlock"
    /\ Unlock(Plugin)
    /\ rpc' = IF buff_to_display = BUFF_UNSET THEN "idle" ELSE "display"
    /\ UNCHANGED <<header, writerVars, shown, crashes>>

\* The plugin draws from the buffer without the mutex.
EndDisplay ==
    /\ rpc = "display"
    /\ rpc' = "idle"
    /\ UNCHANGED <<header, writerVars, owner, shown, crashes>>

\* The plugin's host dies and is started again; a mutex it held is abandoned.
ReaderCrash ==
    /\ rpc # "idle"
    /\ crashes < MaxCrashes
    /\ crashes' = crashes + 1
    /\ rpc' = "idle"
    /\ Unlock(Plugin)
    /\ UNCHANGED <<header, writerVars, shown>>

ReaderStep ==
    \/ WantDisplay \/ TestNext \/ TakeNext \/ DisplayAgain
    \/ ReaderUnlock \/ EndDisplay

Next == WriterStep \/ WriterLock \/ ReaderStep \/ ReaderLock \/ ReaderCrash

Spec == Init /\ [][Next]_vars
-----------------------------------------------------------------------------
(* Safety. *)

\* The buffers the header's indexes refer to.
ReferredTo ==
    {buff_being_constructed, buff_displayed_last_time, buff_to_display_next}
        \ {BUFF_UNSET}

\* No buffer plays two roles: the one being built, the one to display next and
\* the one on display differ (the swap and the shift of lines 566-582).
RolesDistinct ==
    /\ buff_being_constructed # BUFF_UNSET =>
          buff_being_constructed \notin {buff_to_display_next, buff_displayed_last_time}
    /\ buff_to_display_next # BUFF_UNSET =>
          buff_to_display_next # buff_displayed_last_time

\* Exactly the buffers with a role are in use, so no buffer leaks and none is
\* handed out twice (grab_unused_buffer, the release by the plugin, "Both buffers
\* are still in use").
InUseExact == \A b \in Buffers : buff_inuse[b] <=> b \in ReferredTo

\* What Outlines_SharedMemHeader::check_sanity counts before it asserts nused != nptrused.
\* By InUseExact they are equal in every state, the first included: the assertion would
\* throw whenever it is reached, but nobody calls check_sanity (theorem CheckSanityThrows).
nused == Cardinality({b \in Buffers : buff_inuse[b]})
nptrused == Cardinality(ReferredTo)

\* The server always finds a buffer to build in: "Hey! No buffer available" and
\* the failing assertion of clear_lists are never reached.
BufferAvailable == wpc = "clear" => buff_being_constructed # BUFF_UNSET

\* What the plugin draws without the mutex is one whole frame, the one it took,
\* however far the server has got meanwhile.
DisplayIntact ==
    rpc = "display" => shown # Partial /\ frames[buff_to_display] = shown

\* The frame waiting, or else the frame on display, is at most one frame older
\* than the newest the server completed.
NewestForDisplay ==
    IF buff_to_display_next = BUFF_UNSET THEN shown ELSE frames[buff_to_display_next]
AtMostOneBehind == NewestForDisplay >= fseq - 2

\* What holds wherever the two processes are, timeouts or not.
StepInv ==
    /\ wpc \in {"swap", "shift", "fill", "unlock1", "lock2", "publish", "handoff"}
          => buff_being_constructed # BUFF_UNSET
    /\ rpc = "take" => buff_to_display_next # BUFF_UNSET
    /\ wpc \in {"lock1", "rotate", "swap", "shift", "grab", "clear", "fill"}
          => fseq <= MaxFrame

\* A process is in its critical section just when it holds the mutex, and what it
\* tested there still holds when it acts on it.
LockInv ==
    /\ wpc \in WriterLocked <=> owner = Server
    /\ rpc \in ReaderLocked <=> owner = Plugin
    /\ wpc = "swap" => buff_to_display_next # BUFF_UNSET
    /\ wpc \in {"shift", "handoff"} => buff_to_display_next = BUFF_UNSET
    /\ wpc = "grab" => buff_being_constructed = BUFF_UNSET
    /\ wpc # "dead"
    /\ rpc = "again" => buff_to_display_next = BUFF_UNSET
    /\ rpc \in {"unlock", "display"} => buff_to_display = buff_displayed_last_time
    /\ rpc = "display" => buff_to_display # BUFF_UNSET

\* Which frame each role's buffer holds: the newest complete frame is for display
\* or still in buff_being_constructed, and then the one before it is for display.
FramesInv ==
    /\ IF buff_being_constructed = BUFF_UNSET \/ wpc \in {"clear", "fill"}
       THEN NewestForDisplay = fseq - 1
       ELSE frames[buff_being_constructed] = fseq - 1 /\ NewestForDisplay = fseq - 2
    /\ buff_to_display_next # BUFF_UNSET => frames[buff_to_display_next] > shown
    /\ buff_displayed_last_time # BUFF_UNSET => frames[buff_displayed_last_time] = shown
    /\ shown # Partial

\* The inductive invariant of a system whose locks do not time out.  With InUseExact it
\* contradicts what check_sanity asserts of nused and nptrused.
IInv ==
    /\ TypeOK
    /\ StepInv
    /\ LockInv
    /\ RolesDistinct
    /\ InUseExact
    /\ BufferAvailable
    /\ FramesInv

\* The header's fields are looked at and changed only under the mutex
\* (mmtt_sharedmem.h:255 "whenever they are looked at or changed, need to be locked").
LockedAccess == wpc \in WriterLocked => owner = Server

\* The buffers implement the mailbox: the plugin sees whole frames, each at most
\* once as new, in the order they were produced.
Mailbox == INSTANCE FrameMailbox WITH
    slot <- IF buff_to_display_next = BUFF_UNSET THEN NoFrame
            ELSE frames[buff_to_display_next]

ImplementsMailbox == Mailbox!MailboxSpec

-----------------------------------------------------------------------------
(* Liveness.  The server's loop and the plugin's host call their steps again *)
(* and again; Windows queues the threads that wait for a mutex, so a wait    *)
(* that could end again and again ends.                                      *)

ReaderFairness ==
    /\ WF_vars(ReaderStep)
    /\ SF_vars(ReaderLock)

WriterFairness ==
    /\ WF_vars(WriterStep)
    /\ SF_vars(WriterLock)

LiveSpec == Spec /\ WriterFairness /\ ReaderFairness

\* The plugin may stop anywhere, with the mutex in hand.
HungReaderSpec == Spec /\ WriterFairness

\* Every frame but the last reaches the display or is overtaken by a newer one
\* that does: a frame left in buff_being_constructed moves on with the next.
FramesReachDisplay ==
    \A f \in 1 .. MaxFrame - 1 : (fseq > f) ~> (shown >= f)

\* A plugin that hangs with the mutex does not stop the server for good: that is
\* what the 5 second limit of lock() is for.
ServerNotStopped == (wpc # "idle") ~> (wpc \in {"idle", "dead"})
=============================================================================
