---------------------------- MODULE FrameMailbox ----------------------------
(***************************************************************************)
(* What the shared memory of outlines promises to a display: a mailbox     *)
(* that holds at most one frame, the newest one published.  A publication  *)
(* replaces an older frame nobody has taken; a frame is taken whole and at  *)
(* most once; frames are seen in the order they were produced.             *)
(***************************************************************************)
EXTENDS Naturals

CONSTANT MaxFrame   \* bound on the number of frames produced

VARIABLES
    slot,           \* the frame waiting to be displayed, NoFrame if none
    shown           \* the frame the display shows, NoFrame before the first

mailboxVars == <<slot, shown>>

NoFrame == 0
Frames  == 1 .. MaxFrame

MailboxInit ==
    /\ slot  = NoFrame
    /\ shown = NoFrame

\* A newer frame becomes the one to display next.
PublishFrame ==
    \E f \in Frames :
        /\ f > shown
        /\ f > slot
        /\ slot' = f
        /\ UNCHANGED shown

\* The display takes the waiting frame.
TakeFrame ==
    /\ slot # NoFrame
    /\ shown' = slot
    /\ slot'  = NoFrame

MailboxNext == PublishFrame \/ TakeFrame

MailboxSpec == MailboxInit /\ [][MailboxNext]_mailboxVars
=============================================================================
