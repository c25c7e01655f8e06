------------------------ MODULE OutlineBuffersProofs ------------------------
(***************************************************************************)
(* Proofs about the buffers of outlines, for any number of buffers from     *)
(* three, any number of frames and any number of crashes of the plugin.     *)
(***************************************************************************)
EXTENDS OutlineBuffers, TLAPS

USE NumBuffsAssumption, BoundsAssumption, LockTimesOutAssumption

-----------------------------------------------------------------------------
(* Type correctness, whether locks time out or not. *)

LEMMA TypeInit == Init => TypeOK /\ StepInv
  BY DEF Init, TypeOK, StepInv, Buffers, Indexes, BUFF_UNSET, Partial, NoFrame,
         Server, Plugin, Nobody, WriterSteps, ReaderSteps

LEMMA GrabType ==
  ASSUME TypeOK, GrabUnusedBuffer
  PROVE  buff_being_constructed' \in Indexes /\ buff_inuse' \in [Buffers -> BOOLEAN]
BY DEF TypeOK, GrabUnusedBuffer, Indexes

LEMMA TypeStep == TypeOK /\ StepInv /\ [Next]_vars => TypeOK' /\ StepInv'
<1> SUFFICES ASSUME TypeOK, StepInv, [Next]_vars
             PROVE  TypeOK' /\ StepInv'
  OBVIOUS
<1> USE DEF TypeOK, StepInv, Buffers, Indexes, BUFF_UNSET, Partial, Server, Plugin,
            Nobody, WriterSteps, ReaderSteps, header, readerVars, writerVars
<1>1. CASE NewFrame       BY <1>1 DEF NewFrame
<1>2. CASE WriterLock     BY <1>2 DEF WriterLock, Lock, Acquire, TimeOut
<1>3. CASE WriterUnlock   BY <1>3 DEF WriterUnlock, Unlock
<1>4. CASE TestIndexes    BY <1>4 DEF TestIndexes
<1>5. CASE SwapBuffers    BY <1>5 DEF SwapBuffers
<1>6. CASE ShiftBuffer    BY <1>6, GrabType DEF ShiftBuffer
<1>7. CASE GrabBuffer     BY <1>7, GrabType DEF GrabBuffer
<1>8. CASE ClearLists     BY <1>8 DEF ClearLists
<1>9. CASE AssertionFails BY <1>9 DEF AssertionFails, Unlock
<1>10. CASE FillBuffer    BY <1>10 DEF FillBuffer
<1>11. CASE TestPublish   BY <1>11 DEF TestPublish
<1>12. CASE HandOff       BY <1>12 DEF HandOff
<1>13. CASE WantDisplay   BY <1>13 DEF WantDisplay
<1>14. CASE ReaderLock    BY <1>14 DEF ReaderLock, Acquire
<1>15. CASE TestNext      BY <1>15 DEF TestNext
<1>16. CASE TakeNext      BY <1>16 DEF TakeNext
<1>17. CASE DisplayAgain  BY <1>17 DEF DisplayAgain
<1>18. CASE ReaderUnlock  BY <1>18 DEF ReaderUnlock, Unlock
<1>19. CASE EndDisplay    BY <1>19 DEF EndDisplay
<1>20. CASE ReaderCrash   BY <1>20 DEF ReaderCrash, Unlock
<1>21. CASE UNCHANGED vars BY <1>21 DEF vars
<1>22. QED
  BY <1>1, <1>2, <1>3, <1>4, <1>5, <1>6, <1>7, <1>8, <1>9, <1>10, <1>11, <1>12, <1>13,
     <1>14, <1>15, <1>16, <1>17, <1>18, <1>19, <1>20, <1>21
     DEF Next, WriterStep, ReaderStep

\* Every variable keeps its range and no index is read where it may be unset,
\* even when the server runs its sections without the mutex.
THEOREM TypeCorrect == Spec => [](TypeOK /\ StepInv)
<1>1. QED BY TypeInit, TypeStep, PTL DEF Spec
-----------------------------------------------------------------------------
(* The inductive invariant, when a lock is always obtained. *)

LEMMA InvInit == Init => IInv
  BY TypeInit DEF Init, IInv, LockInv, RolesDistinct, InUseExact, BufferAvailable,
     FramesInv, NewestForDisplay, ReferredTo, TypeOK, Buffers, BUFF_UNSET, NoFrame,
     Partial, WriterLocked, ReaderLocked, Server, Plugin, Nobody

LEMMA LockStep ==
  ASSUME ~ LockTimesOut, IInv, [Next]_vars
  PROVE  LockInv'
<1> USE DEF IInv, TypeOK, StepInv, Buffers, Indexes, BUFF_UNSET, Partial,
            Server, Plugin, Nobody, WriterSteps, ReaderSteps, header, readerVars, writerVars,
            LockInv, WriterLocked, ReaderLocked, BufferAvailable
<1>1. CASE NewFrame        BY <1>1 DEF NewFrame
<1>2. CASE WriterLock      BY <1>2 DEF WriterLock, Lock, Acquire, TimeOut
<1>3. CASE WriterUnlock    BY <1>3 DEF WriterUnlock, Unlock
<1>4. CASE TestIndexes     BY <1>4 DEF TestIndexes
<1>5. CASE SwapBuffers     BY <1>5 DEF SwapBuffers
<1>6. CASE ShiftBuffer     BY <1>6 DEF ShiftBuffer, GrabUnusedBuffer
<1>7. CASE GrabBuffer      BY <1>7 DEF GrabBuffer, GrabUnusedBuffer
<1>8. CASE ClearLists      BY <1>8 DEF ClearLists
<1>9. CASE AssertionFails  BY <1>9 DEF AssertionFails, Unlock
<1>10. CASE FillBuffer     BY <1>10 DEF FillBuffer
<1>11. CASE TestPublish    BY <1>11 DEF TestPublish
<1>12. CASE HandOff        BY <1>12 DEF HandOff
<1>13. CASE WantDisplay    BY <1>13 DEF WantDisplay
<1>14. CASE ReaderLock     BY <1>14 DEF ReaderLock, Acquire
<1>15. CASE TestNext       BY <1>15 DEF TestNext
<1>16. CASE TakeNext       BY <1>16 DEF TakeNext
<1>17. CASE DisplayAgain   BY <1>17 DEF DisplayAgain
<1>18. CASE ReaderUnlock   BY <1>18 DEF ReaderUnlock, Unlock
<1>19. CASE EndDisplay     BY <1>19 DEF EndDisplay
<1>20. CASE ReaderCrash    BY <1>20 DEF ReaderCrash, Unlock
<1>21. CASE UNCHANGED vars BY <1>21 DEF vars
<1>22. QED
  BY <1>1, <1>2, <1>3, <1>4, <1>5, <1>6, <1>7, <1>8, <1>9, <1>10, <1>11, <1>12, <1>13,
     <1>14, <1>15, <1>16, <1>17, <1>18, <1>19, <1>20, <1>21
     DEF Next, WriterStep, ReaderStep

LEMMA RolesStep ==
  ASSUME ~ LockTimesOut, IInv, [Next]_vars
  PROVE  RolesDistinct' /\ InUseExact' /\ BufferAvailable'
<1> USE DEF IInv, TypeOK, StepInv, Buffers, Indexes, BUFF_UNSET, Partial,
            Server, Plugin, Nobody, WriterSteps, ReaderSteps, header, readerVars, writerVars,
            LockInv, WriterLocked, ReaderLocked, RolesDistinct, InUseExact, BufferAvailable,
            ReferredTo
<1>1. CASE NewFrame        BY <1>1 DEF NewFrame
<1>2. CASE WriterLock      BY <1>2 DEF WriterLock, Lock, Acquire, TimeOut
<1>3. CASE WriterUnlock    BY <1>3 DEF WriterUnlock, Unlock
<1>4. CASE TestIndexes     BY <1>4 DEF TestIndexes
<1>5. CASE SwapBuffers     BY <1>5 DEF SwapBuffers
<1>6. CASE ShiftBuffer     BY SMTT(60), <1>6 DEF ShiftBuffer, GrabUnusedBuffer
<1>7. CASE GrabBuffer      BY SMTT(60), <1>7 DEF GrabBuffer, GrabUnusedBuffer
<1>8. CASE ClearLists      BY <1>8 DEF ClearLists
<1>9. CASE AssertionFails  BY <1>9 DEF AssertionFails, Unlock
<1>10. CASE FillBuffer     BY <1>10 DEF FillBuffer
<1>11. CASE TestPublish    BY <1>11 DEF TestPublish
<1>12. CASE HandOff        BY <1>12 DEF HandOff
<1>13. CASE WantDisplay    BY <1>13 DEF WantDisplay
<1>14. CASE ReaderLock     BY <1>14 DEF ReaderLock, Acquire
<1>15. CASE TestNext       BY <1>15 DEF TestNext
<1>16. CASE TakeNext       BY <1>16 DEF TakeNext
<1>17. CASE DisplayAgain   BY <1>17 DEF DisplayAgain
<1>18. CASE ReaderUnlock   BY <1>18 DEF ReaderUnlock, Unlock
<1>19. CASE EndDisplay     BY <1>19 DEF EndDisplay
<1>20. CASE ReaderCrash    BY <1>20 DEF ReaderCrash, Unlock
<1>21. CASE UNCHANGED vars BY <1>21 DEF vars
<1>22. QED
  BY <1>1, <1>2, <1>3, <1>4, <1>5, <1>6, <1>7, <1>8, <1>9, <1>10, <1>11, <1>12, <1>13,
     <1>14, <1>15, <1>16, <1>17, <1>18, <1>19, <1>20, <1>21
     DEF Next, WriterStep, ReaderStep

LEMMA FramesStep ==
  ASSUME ~ LockTimesOut, IInv, [Next]_vars
  PROVE  FramesInv'
<1> USE DEF IInv, TypeOK, StepInv, Buffers, Indexes, BUFF_UNSET, Partial,
            Server, Plugin, Nobody, WriterSteps, ReaderSteps, header, readerVars, writerVars,
            LockInv, WriterLocked, ReaderLocked, RolesDistinct, InUseExact, BufferAvailable,
            ReferredTo, FramesInv, NewestForDisplay, NoFrame
<1>1. CASE NewFrame        BY <1>1 DEF NewFrame
<1>2. CASE WriterLock      BY <1>2 DEF WriterLock, Lock, Acquire, TimeOut
<1>3. CASE WriterUnlock    BY <1>3 DEF WriterUnlock, Unlock
<1>4. CASE TestIndexes     BY <1>4 DEF TestIndexes
<1>5. CASE SwapBuffers     BY <1>5 DEF SwapBuffers
<1>6. CASE ShiftBuffer     BY <1>6 DEF ShiftBuffer, GrabUnusedBuffer
<1>7. CASE GrabBuffer      BY <1>7 DEF GrabBuffer, GrabUnusedBuffer
<1>8. CASE ClearLists      BY <1>8 DEF ClearLists
<1>9. CASE AssertionFails  BY <1>9 DEF AssertionFails, Unlock
<1>10. CASE FillBuffer     BY <1>10 DEF FillBuffer
<1>11. CASE TestPublish    BY <1>11 DEF TestPublish
<1>12. CASE HandOff        BY <1>12 DEF HandOff
<1>13. CASE WantDisplay    BY <1>13 DEF WantDisplay
<1>14. CASE ReaderLock     BY <1>14 DEF ReaderLock, Acquire
<1>15. CASE TestNext       BY <1>15 DEF TestNext
<1>16. CASE TakeNext       BY <1>16 DEF TakeNext
<1>17. CASE DisplayAgain   BY <1>17 DEF DisplayAgain
<1>18. CASE ReaderUnlock   BY <1>18 DEF ReaderUnlock, Unlock
<1>19. CASE EndDisplay     BY <1>19 DEF EndDisplay
<1>20. CASE ReaderCrash    BY <1>20 DEF ReaderCrash, Unlock
<1>21. CASE UNCHANGED vars BY <1>21 DEF vars
<1>22. QED
  BY <1>1, <1>2, <1>3, <1>4, <1>5, <1>6, <1>7, <1>8, <1>9, <1>10, <1>11, <1>12, <1>13,
     <1>14, <1>15, <1>16, <1>17, <1>18, <1>19, <1>20, <1>21
     DEF Next, WriterStep, ReaderStep

\* With locks that do not time out, the invariant holds in every state.
THEOREM Invariance == ASSUME ~ LockTimesOut PROVE Spec => []IInv
<1>1. IInv /\ [Next]_vars => IInv'
  BY TypeStep, LockStep, RolesStep, FramesStep DEF IInv
<1>2. QED BY InvInit, <1>1, PTL DEF Spec

\* No buffer has two roles, none leaks, and the server always finds one to build
\* in, so the assertion of clear_lists is never reached.
THEOREM BuffersSafe ==
  ASSUME ~ LockTimesOut
  PROVE  Spec => [](RolesDistinct /\ InUseExact /\ BufferAvailable)
<1>1. IInv => RolesDistinct /\ InUseExact /\ BufferAvailable
  BY DEF IInv
<1>2. QED BY Invariance, <1>1, PTL

\* Outlines_SharedMemHeader::check_sanity asserts nused != nptrused, and NosuchAssert throws
\* when that is false: it would throw in every state.  It has no caller.
THEOREM CheckSanityThrows == ASSUME ~ LockTimesOut PROVE Spec => [](nused = nptrused)
<1>1. IInv => nused = nptrused
  <2> SUFFICES ASSUME IInv PROVE nused = nptrused
    OBVIOUS
  <2>1. ReferredTo \subseteq Buffers
    BY DEF IInv, TypeOK, ReferredTo, Indexes
  <2>2. {b \in Buffers : buff_inuse[b]} = ReferredTo
    BY <2>1 DEF IInv, InUseExact
  <2> QED BY <2>2 DEF nused, nptrused
<1>2. QED BY Invariance, <1>1, PTL

\* "Hey! No buffer available" is never reached.
THEOREM BufferToBuildIn == ASSUME ~ LockTimesOut PROVE Spec => []BufferAvailable
BY BuffersSafe, PTL

\* The plugin draws one whole frame, without the mutex.
THEOREM DisplaySafe == ASSUME ~ LockTimesOut PROVE Spec => []DisplayIntact
<1>1. IInv => DisplayIntact
  BY DEF IInv, LockInv, FramesInv, DisplayIntact
<1>2. QED BY Invariance, <1>1, PTL

\* What is for display is at most one frame old.
THEOREM Fresh == ASSUME ~ LockTimesOut PROVE Spec => []AtMostOneBehind
<1>1. IInv => AtMostOneBehind
  BY DEF IInv, TypeOK, FramesInv, AtMostOneBehind, NewestForDisplay, Buffers, Indexes,
         BUFF_UNSET, Partial
<1>2. QED BY Invariance, <1>1, PTL

-----------------------------------------------------------------------------
(* The buffers implement the mailbox. *)

LEMMA MailboxStep ==
  ASSUME ~ LockTimesOut, IInv, IInv', [Next]_vars
  PROVE  [Mailbox!MailboxNext]_(Mailbox!mailboxVars)
<1> USE DEF IInv, TypeOK, StepInv, LockInv, RolesDistinct, FramesInv, NewestForDisplay,
            Buffers, Indexes, BUFF_UNSET, Partial, NoFrame,
            Mailbox!mailboxVars, Mailbox!NoFrame
<1> USE DEF header, readerVars, writerVars
\* The newest complete frame becomes the one to display.
<1>1. CASE SwapBuffers \/ ShiftBuffer \/ HandOff
  <2>1. /\ buff_to_display_next' = buff_being_constructed
        /\ buff_being_constructed # BUFF_UNSET
        /\ frames' = frames /\ shown' = shown
        /\ wpc \notin {"clear", "fill"}
    BY <1>1 DEF SwapBuffers, ShiftBuffer, HandOff
  <2>2. frames[buff_being_constructed] = fseq - 1 /\ NewestForDisplay = fseq - 2
    BY <2>1
  <2>3. fseq - 1 \in Mailbox!Frames /\ fseq - 1 > shown
    BY <2>1, <2>2 DEF Mailbox!Frames
  <2>4. Mailbox!PublishFrame
    BY <2>1, <2>2, <2>3 DEF Mailbox!PublishFrame
  <2>5. QED BY <2>4 DEF Mailbox!MailboxNext
\* The plugin takes it.
<1>2. CASE TakeNext
  <2>1. Mailbox!TakeFrame
    BY <1>2 DEF TakeNext, Mailbox!TakeFrame
  <2>2. QED BY <2>1 DEF Mailbox!MailboxNext
\* Lists that are cleared or filled are not those of the waiting frame.
<1>3. CASE ClearLists     BY <1>3 DEF ClearLists
<1>4. CASE FillBuffer     BY <1>4 DEF FillBuffer
<1>5. CASE \/ NewFrame \/ WriterLock \/ WriterUnlock \/ TestIndexes \/ GrabBuffer
           \/ AssertionFails \/ TestPublish \/ WantDisplay \/ ReaderLock \/ TestNext
           \/ DisplayAgain \/ ReaderUnlock \/ EndDisplay \/ ReaderCrash
  <2>1. UNCHANGED <<buff_to_display_next, frames, shown>>
    BY <1>5 DEF NewFrame, WriterLock, WriterUnlock, TestIndexes, GrabBuffer,
                AssertionFails, TestPublish, WantDisplay, ReaderLock, TestNext,
                DisplayAgain, ReaderUnlock, EndDisplay, ReaderCrash
  <2>2. QED BY <2>1
<1>6. CASE UNCHANGED vars BY <1>6 DEF vars
<1>7. QED
  BY <1>1, <1>2, <1>3, <1>4, <1>5, <1>6 DEF Next, WriterStep, ReaderStep

\* The plugin sees whole frames in the order they were produced, each at most
\* once as new, the newest published one next.
THEOREM Refinement == ASSUME ~ LockTimesOut PROVE Spec => ImplementsMailbox
<1>1. Init => Mailbox!MailboxInit
  BY DEF Init, Mailbox!MailboxInit, Mailbox!NoFrame, NoFrame
<1>2. IInv /\ IInv' /\ [Next]_vars => [Mailbox!MailboxNext]_(Mailbox!mailboxVars)
  BY MailboxStep
<1>3. QED
  BY Invariance, <1>1, <1>2, PTL DEF Spec, ImplementsMailbox, Mailbox!MailboxSpec
=============================================================================
