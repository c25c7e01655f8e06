---------------------------- MODULE SessionsProofs ----------------------------
(***************************************************************************)
(* Proofs about Sessions, for any regions, blobs, depths and streams: the   *)
(* ids of the sessions, which hand has which, and what a frame's blobs get. *)
(***************************************************************************)
EXTENDS Sessions, SequenceTheorems, FiniteSetTheorems, TLAPS

-----------------------------------------------------------------------------
(* Facts about sets of ids. *)

\* A finite set of numbers with all smaller ones in it is an interval from 0.
LEMMA DownClosed ==
    ASSUME NEW S \in SUBSET Nat, IsFiniteSet(S), \A n \in S : \A m \in 0 .. n - 1 : m \in S
    PROVE  S = 0 .. Cardinality(S) - 1 /\ Cardinality(S) \in Nat
<1> DEFINE c == Cardinality(S)
<1>1. c \in Nat
  BY FS_CardinalityType
<1>2. ASSUME NEW n \in S PROVE n < c
  <2>1. 0 .. n \subseteq S
    BY <1>2
  <2>2. Cardinality(0 .. n) <= c
    BY <2>1, FS_Subset
  <2>3. Cardinality(0 .. n) = n + 1
    BY FS_Interval
  <2> QED BY <1>1, <2>2, <2>3
<1>3. ASSUME NEW m \in 0 .. c - 1, m \notin S PROVE FALSE
  <2>1. \A n \in S : n < m
    BY <1>3
  <2>2. S \in SUBSET (0 .. m - 1)
    BY <2>1
  <2>3. m \in Nat /\ m < c /\ m - 1 \in Int
    BY <1>1
  <2>4. IsFiniteSet(0 .. m - 1)
    BY <2>3, FS_Interval
  <2>5. Cardinality(0 .. m - 1) = m
    BY <2>3, FS_Interval
  <2>6. c <= Cardinality(0 .. m - 1)
    BY <2>2, <2>4, FS_Subset
  <2> QED BY <1>1, <2>3, <2>5, <2>6
<1> HIDE DEF c
<1>4. S \subseteq 0 .. c - 1
  BY <1>1, <1>2
<1>5. 0 .. c - 1 \subseteq S
  BY <1>3
<1> QED BY <1>1, <1>4, <1>5 DEF c

\* getAvailableSid finds the number that follows those in use.
LEMMA AvailableSid ==
    ASSUME NEW r, Sids(r) = 0 .. Cardinality(Sids(r)) - 1, Cardinality(Sids(r)) \in Nat
    PROVE  getAvailableSid(r) = Cardinality(Sids(r))
<1> DEFINE c == Cardinality(Sids(r))
<1> DEFINE P(n) == n \notin Sids(r) /\ \A m \in 0 .. n - 1 : m \in Sids(r)
<1>1. c \in 0 .. c /\ P(c)
  OBVIOUS
<1>2. \A n \in 0 .. c : P(n) => n = c
  OBVIOUS
<1> HIDE DEF P
<1>3. (CHOOSE n \in 0 .. c : P(n)) = c
  BY <1>1, <1>2
<1> QED BY <1>3 DEF getAvailableSid, P

LEMMA SidsFinite ==
    ASSUME NEW r, IsFiniteSet(_sessions)
    PROVE  IsFiniteSet(Sids(r))
<1> DEFINE S == {t \in _sessions : t.region = r}
<1> DEFINE f == [s \in S |-> s.sid]
<1>1. IsFiniteSet(S)
  BY FS_Subset
<1>2. f \in Surjection(S, Sids(r))
  BY DEF Surjection, Sids
<1> QED BY <1>1, <1>2, FS_Surjection
-----------------------------------------------------------------------------
(* Types and frames. *)

\* What the camera shows makes a frame.
LEMMA SceneIsFrame ==
    ASSUME NEW blobs \in Scenes
    PROVE  /\ blobs \subseteq Blob
           /\ IsFrame([blobs |-> blobs, fresh |-> TRUE])
<1>1. blobs \subseteq Visible /\ IsFiniteSet(blobs) /\ Cardinality(blobs) <= MaxBlobs
  BY DEF Scenes
<1>2. \A b \in Visible : b \in Blob /\ White(b)
  BY RegionsAssumption DEF Visible
<1> QED BY <1>1, <1>2 DEF IsFrame

LEMMA NoFrameIsFrame == IsFrame(NoFrame) /\ NoFrame \in Frame
<1>1. IsFiniteSet({}) /\ Cardinality({}) = 0
  BY FS_EmptySet
<1> QED BY <1>1, RegionsAssumption DEF IsFrame, NoFrame, Frame

\* The blobs of a frame that pass the filter, in the order they are found.
LEMMA PassedBlobs ==
    ASSUME TypeOK, IsFrame(mid), NEW passed \in SUBSET mid.blobs,
           Passes(mid.blobs, passed), NEW order \in Orders(passed)
    PROVE  /\ order \in Seq(Blob)
           /\ Len(order) \in Nat /\ Len(order) <= MaxBlobs
           /\ \A i \in 1 .. Len(order) :
                 /\ order[i] \in mid.blobs
                 /\ order[i].thin => ~ val_blob_filter
                 /\ \A j \in 1 .. Len(order) : order[i] = order[j] => i = j
<1>1. IsFiniteSet(passed) /\ Cardinality(passed) <= Cardinality(mid.blobs)
  BY FS_Subset DEF IsFrame
<1>2. Cardinality(passed) \in Nat /\ Cardinality(mid.blobs) \in Nat
  BY <1>1, FS_CardinalityType DEF IsFrame
<1>3. Cardinality(passed) <= MaxBlobs
  BY <1>1, <1>2, RegionsAssumption DEF IsFrame
<1>4. PICK n \in Nat : n = Cardinality(passed)
  BY <1>2
<1>5. order \in [1 .. n -> passed] /\ mid.blobs \subseteq Blob
  BY <1>4 DEF Orders, TypeOK, Frame
<1>6. order \in Seq(Blob) /\ Len(order) = n
  <2>1. order \in Seq(passed) /\ Len(order) = n
    BY <1>5
  <2> QED BY <1>5, <2>1, SeqMonotonic
<1>7. DOMAIN order = 1 .. n
  BY <1>5
<1>8. \A b \in passed : b.thin => ~ val_blob_filter
  BY DEF Passes
<1>9. \A i, j \in 1 .. n : order[i] = order[j] => i = j
  BY <1>7 DEF Orders
<1> QED BY <1>3, <1>4, <1>5, <1>6, <1>8, <1>9

LEMMA TypeStep == IInv /\ [Next]_vars => TypeOK'
<1> SUFFICES ASSUME IInv, [Next]_vars PROVE TypeOK'
  OBVIOUS
<1> USE DEF settings, range, frames, analysis, tuio
<1>0. TypeOK
  BY DEF IInv
<1>1. CASE ProcessDepth
  <2>1. PICK blobs \in IF calm THEN {{}} ELSE Scenes : mid' = [blobs |-> blobs, fresh |-> TRUE]
    BY <1>1 DEF ProcessDepth
  <2>2. blobs \subseteq Blob
    BY <2>1, SceneIsFrame
  <2>3. mid' \in Frame
    BY <2>1, <2>2 DEF Frame
  <2> QED BY <1>0, <1>1, <2>3 DEF TypeOK, ProcessDepth
<1>2. CASE WindowMessage
  BY <1>0, <1>2 DEF TypeOK, WindowMessage
<1>3. CASE ChangeSettings \/ LoadPatch
  <2>1. SetValues /\ _sessions' \in {_sessions, {}} /\ pc' = "analyze" /\ UNCHANGED <<analysis, tuio, calm>>
    BY <1>3 DEF ChangeSettings, LoadPatch
  <2>2. PICK same \in BOOLEAN : /\ mid' = [mid EXCEPT !.fresh = @ /\ same]
                                /\ front' = [front EXCEPT !.fresh = @ /\ same]
    <3>1. (range' = range) \in BOOLEAN
      OBVIOUS
    <3> QED BY <2>1, <3>1 DEF SetValues
  <2>3. ASSUME NEW f \in Frame PROVE [f EXCEPT !.fresh = @ /\ same] \in Frame
    BY DEF Frame
  <2>4. mid' \in Frame /\ front' \in Frame
    BY <1>0, <2>2, <2>3 DEF TypeOK
  <2> QED BY <1>0, <2>1, <2>4 DEF TypeOK, SetValues
<1>5. CASE SwapBuffers
  <2>1. CASE val_showrawdepth
    BY <1>0, <1>5, <2>1 DEF TypeOK, SwapBuffers
  <2>2. CASE ~ val_showrawdepth
    <3>1. _newblobresult' \in Seq(Blob) /\ Len(_newblobresult') \in Nat
      BY <1>0, <1>5, <2>2, PassedBlobs DEF IInv, FramesInv, SwapBuffers
    <3>2. [i \in 1 .. Len(_newblobresult') |-> -1] \in Seq(Nat \cup {-1})
      BY <3>1
    <3> QED BY <1>0, <1>5, <2>2, <3>1, <3>2 DEF TypeOK, SwapBuffers
  <2> QED BY <2>1, <2>2
<1>6. CASE MatchSession
  <2>1. PICK s \in left :
          /\ left' = left \ {s}
          /\ \/ _sessions' = _sessions \ {s} /\ UNCHANGED blob_sid
             \/ \E i \in FreeBlobs(s.region) :
                   /\ _sessions' = (_sessions \ {s}) \cup {[s EXCEPT !.center = _newblobresult[i].at]}
                   /\ blob_sid' = [blob_sid EXCEPT ![i] = s.sid]
    BY <1>6 DEF MatchSession
  <2>2. s \in Session
    BY <1>0 DEF TypeOK
  <2>3. CASE _sessions' = _sessions \ {s} /\ UNCHANGED blob_sid
    BY <1>0, <1>6, <2>1, <2>3 DEF TypeOK, MatchSession
  <2>4. CASE \E i \in FreeBlobs(s.region) :
                   /\ _sessions' = (_sessions \ {s}) \cup {[s EXCEPT !.center = _newblobresult[i].at]}
                   /\ blob_sid' = [blob_sid EXCEPT ![i] = s.sid]
    <3>1. PICK i \in FreeBlobs(s.region) :
                   /\ _sessions' = (_sessions \ {s}) \cup {[s EXCEPT !.center = _newblobresult[i].at]}
                   /\ blob_sid' = [blob_sid EXCEPT ![i] = s.sid]
      BY <2>4
    <3>2. _newblobresult \in Seq(Blob) /\ i \in 1 .. Len(_newblobresult)
      BY <1>0, <3>1 DEF TypeOK, FreeBlobs, numblobs
    <3>3. _newblobresult[i].at \in Int
      <4>1. _newblobresult[i] \in Blob
        BY <3>2, ElementOfSeq
      <4> QED BY <4>1 DEF Blob
    <3>4. [s EXCEPT !.center = _newblobresult[i].at] \in Session
      BY <2>2, <3>3 DEF Session
    <3>5. Len(blob_sid) = Len(_newblobresult) /\ blob_sid \in Seq(Nat \cup {-1})
      BY <1>0, <1>6 DEF IInv, SessionsAreBlobs, Analysing, MatchSession, TypeOK, numblobs
    <3>6. s.sid \in Nat \cup {-1}
      BY <2>2 DEF Session
    <3>7. blob_sid' \in Seq(Nat \cup {-1})
      BY <3>1, <3>2, <3>5, <3>6, ExceptSeq
    <3>8. _sessions' \subseteq Session /\ left' \subseteq Session
      BY <1>0, <2>1, <3>1, <3>4 DEF TypeOK
    <3> QED BY <1>0, <1>6, <3>7, <3>8 DEF TypeOK, MatchSession
  <2> QED BY <2>1, <2>3, <2>4
<1>7. CASE EndMatch
  BY <1>0, <1>7 DEF TypeOK, EndMatch
<1>8. CASE ComputeDepth
  <2> DEFINE blob == _newblobresult[next]
  <2> DEFINE sid == getAvailableSid(blob.region)
  <2>1. blob \in Blob
    BY <1>0, <1>8, ElementOfSeq DEF TypeOK, Frame, ComputeDepth, numblobs
  <2>2. sid \in Nat
    <3>1. /\ Sids(blob.region) = 0 .. Cardinality(Sids(blob.region)) - 1
          /\ IsFiniteSet(Sids(blob.region))
      BY <1>8, <2>1, SidsFinite DEF IInv, LowestIds, BeforeInv, ComputeDepth, Blob
    <3> QED BY <3>1, AvailableSid, FS_CardinalityType
  <2>3. Len(blob_sid) = Len(_newblobresult) /\ next \in 1 .. Len(_newblobresult) /\ blob_sid \in Seq(Nat \cup {-1})
    BY <1>0, <1>8 DEF IInv, SessionsAreBlobs, Analysing, ComputeDepth, TypeOK, numblobs
  <2>4. [blob_sid EXCEPT ![next] = sid] \in Seq(Nat \cup {-1})
    BY <2>2, <2>3, ExceptSeq
  <2>5. [region |-> blob.region, sid |-> sid, center |-> blob.at] \in Session
    BY <2>1, <2>2 DEF Session, Blob
  <2>6. /\ next' = next + 1
        /\ nactive' \in {nactive, nactive + 1}
        /\ blob_sid' \in {blob_sid, [blob_sid EXCEPT ![next] = sid]}
        /\ _sessions' \subseteq _sessions \cup {[region |-> blob.region, sid |-> sid, center |-> blob.at]}
    BY <1>8 DEF ComputeDepth
  <2> HIDE DEF blob, sid
  <2>7. _sessions' \subseteq Session /\ blob_sid' \in Seq(Nat \cup {-1})
    BY <1>0, <2>3, <2>4, <2>5, <2>6 DEF TypeOK
  <2> QED BY <1>0, <1>8, <2>6, <2>7 DEF TypeOK, ComputeDepth
<1>9. CASE Crash
  BY <1>0, <1>9 DEF TypeOK, Crash
<1>10. CASE \E lost \in SUBSET Streams : SendTuio(lost)
  <2>1. PICK lost \in SUBSET Streams : SendTuio(lost)
    BY <1>10
  <2>2. due' \in BOOLEAN /\ ghost' \subseteq Streams
    BY <1>0, <2>1 DEF SendTuio, SendEmpty, SendBlobs, TypeOK
  <2>3. blob_sid' \in Seq(Nat \cup {-1}) /\ _newblobresult' \in Seq(Blob)
    BY <2>1 DEF SendTuio
  <2> QED BY <1>0, <2>1, <2>2, <2>3 DEF TypeOK, SendTuio
<1>11. CASE TimePasses
  BY <1>0, <1>11 DEF TypeOK, TimePasses
<1>12. CASE CalmsDown
  BY <1>0, <1>12 DEF TypeOK, CalmsDown
<1>13. CASE UNCHANGED vars
  BY <1>0, <1>13 DEF TypeOK, vars
<1> QED BY <1>1, <1>2, <1>3, <1>5, <1>6, <1>7, <1>8, <1>9, <1>10, <1>11, <1>12, <1>13
        DEF Next, Step

\* What FramesInv says of the blobs that are analysed.
Analysed(blobs) ==
    /\ numblobs <= MaxBlobs
    /\ \A i \in 1 .. numblobs :
          /\ _newblobresult[i] \in blobs
          /\ _newblobresult[i].thin => ~ val_blob_filter
          /\ \A j \in 1 .. numblobs : _newblobresult[i] = _newblobresult[j] => i = j

\* The frames of the cameras stay frames, through swaps, until the settings change.
LEMMA FramesStep == IInv /\ [Next]_vars => FramesInv'
<1> SUFFICES ASSUME IInv, [Next]_vars PROVE FramesInv'
  OBVIOUS
<1> USE DEF settings, range, frames, analysis, tuio
<1>0. IsFrame(mid) /\ IsFrame(front) /\ Analysed(front.blobs) /\ TypeOK
  BY DEF IInv, FramesInv, Analysed
<1> SUFFICES IsFrame(mid)' /\ IsFrame(front)' /\ Analysed(front.blobs)'
  <2>1. pc' \in {"update", "json", "analyze"} => _newblobresult' = <<>>
    BY DEF IInv, FramesInv, Next, Step, ProcessDepth, WindowMessage, ChangeSettings, LoadPatch,
           SwapBuffers, MatchSession, EndMatch, ComputeDepth, Crash, SendTuio, TimePasses,
           CalmsDown, vars
  <2> QED BY <2>1 DEF FramesInv, Analysed
<1>1. CASE ProcessDepth
  <2>1. PICK blobs \in IF calm THEN {{}} ELSE Scenes : mid' = [blobs |-> blobs, fresh |-> TRUE]
    BY <1>1 DEF ProcessDepth
  <2>2. IsFrame(mid')
    BY <2>1, SceneIsFrame, NoFrameIsFrame DEF NoFrame
  <2> QED BY <1>0, <1>1, <2>2 DEF IsFrame, White, InRange, Analysed, numblobs, ProcessDepth
<1>2. CASE ChangeSettings \/ LoadPatch
  <2>1. /\ SetValues /\ UNCHANGED analysis
        /\ pc = "json"
    BY <1>2 DEF ChangeSettings, LoadPatch
  <2>2. /\ mid'.blobs = mid.blobs /\ (mid'.fresh => mid.fresh /\ range' = range)
        /\ front'.blobs = front.blobs /\ (front'.fresh => front.fresh /\ range' = range)
    BY <1>0, <2>1 DEF SetValues, TypeOK, Frame
  <2>3. IsFrame(mid)' /\ IsFrame(front)'
    BY <1>0, <2>2 DEF IsFrame, White, InRange
  <2>4. _newblobresult = <<>>
    BY <2>1 DEF IInv, FramesInv
  <2>5. Analysed(front.blobs)'
    BY <2>1, <2>4, RegionsAssumption DEF Analysed, numblobs
  <2> QED BY <2>3, <2>5
<1>3. CASE SwapBuffers
  <2>1. IsFrame(mid)' /\ IsFrame(front)'
    BY <1>0, <1>3 DEF IsFrame, White, InRange, SwapBuffers
  <2>2. CASE val_showrawdepth
    <3>1. _newblobresult = <<>>
      BY <1>3 DEF IInv, FramesInv, SwapBuffers
    <3>2. Analysed(front.blobs)'
      BY <1>3, <2>2, <3>1, RegionsAssumption DEF Analysed, numblobs, SwapBuffers
    <3> QED BY <2>1, <3>2
  <2>3. CASE ~ val_showrawdepth
    <3>1. PICK passed \in SUBSET mid.blobs :
            Passes(mid.blobs, passed) /\ _newblobresult' \in Orders(passed)
      BY <1>3, <2>3 DEF SwapBuffers
    <3>2. /\ Len(_newblobresult') <= MaxBlobs
          /\ \A i \in 1 .. Len(_newblobresult') :
                /\ _newblobresult'[i] \in mid.blobs
                /\ _newblobresult'[i].thin => ~ val_blob_filter
                /\ \A j \in 1 .. Len(_newblobresult') : _newblobresult'[i] = _newblobresult'[j] => i = j
      BY <1>0, <3>1, PassedBlobs
    <3>3. front'.blobs = mid.blobs /\ val_blob_filter' = val_blob_filter
      BY <1>3 DEF SwapBuffers
    <3>4. Analysed(front.blobs)'
      BY <3>2, <3>3 DEF Analysed, numblobs
    <3> QED BY <2>1, <3>4
  <2> QED BY <2>2, <2>3
<1>4. CASE UNCHANGED <<settings, frames, _newblobresult>>
  BY <1>0, <1>4 DEF IsFrame, White, InRange, Analysed, numblobs
<1>5. CASE \E lost \in SUBSET Streams : SendTuio(lost)
  <2>1. UNCHANGED <<settings, frames>> /\ _newblobresult' = <<>>
    BY <1>5 DEF SendTuio
  <2>2. Analysed(front.blobs)'
    BY <2>1, RegionsAssumption DEF Analysed, numblobs
  <2> QED BY <1>0, <2>1, <2>2 DEF IsFrame, White, InRange
<1> QED BY <1>1, <1>2, <1>3, <1>4, <1>5
        DEF Next, Step, WindowMessage, MatchSession, EndMatch, ComputeDepth, Crash,
            TimePasses, CalmsDown, vars

-----------------------------------------------------------------------------
(* A session looks for its blob. *)

\* What the invariant says of a state in which sessions are matched.
LEMMA Matching ==
    ASSUME IInv, pc = "match"
    PROVE  /\ Len(blob_sid) = numblobs
           /\ numblobs \in Nat
           /\ \A i \in 1 .. numblobs : _newblobresult[i] \in Blob /\ blob_sid[i] \in Nat \cup {-1}
           /\ _sessions \subseteq Session
           /\ left \subseteq before /\ before \subseteq Session
           /\ _sessions = left \cup {SessionOf(i) : i \in WithSession}
<1>1. TypeOK /\ SessionsAreBlobs /\ BeforeInv /\ Analysing
  BY DEF IInv, Analysing
<1>2. _newblobresult \in Seq(Blob) /\ blob_sid \in Seq(Nat \cup {-1})
  BY <1>1 DEF TypeOK
<1>3. numblobs \in Nat /\ Len(blob_sid) = numblobs
  BY <1>1, <1>2, LenProperties DEF numblobs, SessionsAreBlobs
<1>4. \A i \in 1 .. numblobs : _newblobresult[i] \in Blob
  BY <1>2, ElementOfSeq DEF numblobs
<1>5. \A i \in 1 .. numblobs : blob_sid[i] \in Nat \cup {-1}
  BY <1>2, <1>3, ElementOfSeq
<1> QED BY <1>1, <1>3, <1>4, <1>5 DEF TypeOK, SessionsAreBlobs, BeforeInv

\* A blob is free, or its session is one of those that have been matched.
LEMMA FreeOrMatched ==
    ASSUME IInv, pc = "match", NEW s \in left, NEW k \in 1 .. numblobs,
           _newblobresult[k].region = s.region, _newblobresult[k].at = s.center,
           Stays(s.region)
    PROVE  k \in FreeBlobs(s.region)
<1>1. /\ blob_sid[k] \in Nat \cup {-1}
      /\ s \in before /\ s \in Session
  BY Matching
<1>2. SUFFICES ASSUME k \in WithSession PROVE FALSE
  BY <1>1 DEF FreeBlobs, WithSession
<1>3. s.region \in Regions /\ s.sid \in Nat
  BY <1>1 DEF Session
<1>4. SessionOf(k) \in before
  BY <1>2, <1>3 DEF IInv, HandsInv, Analysing
<1>5. SessionOf(k) = s
  BY <1>1, <1>4 DEF Stays, Old, OneCenterEach, SessionOf
<1>6. blob_sid[k] < s.sid
  BY <1>2 DEF IInv, MatchInv
<1>7. blob_sid[k] = s.sid
  BY <1>5 DEF SessionOf
<1> QED BY <1>3, <1>6, <1>7

Matched == SessionsAreBlobs /\ OneBlobPerSession /\ BeforeInv /\ MatchInv /\ HandsInv

\* A session that finds no blob ends.
LEMMA SessionEnds ==
    ASSUME IInv, pc = "match", NEW s \in left, FreeBlobs(s.region) = {},
           left' = left \ {s}, _sessions' = _sessions \ {s}, UNCHANGED <<pc, _newblobresult, before, blob_sid>>
    PROVE  Matched'
<1> USE Matching
<1>0. s \in Session /\ s \in before /\ s \in _sessions /\ s.sid \in Nat /\ s.region \in Regions
  BY DEF Session
<1>1. /\ WithSession' = WithSession /\ numblobs' = numblobs /\ Analysing /\ Analysing'
      /\ \A i \in WithSession : SessionOf(i)' = SessionOf(i)
      /\ \A r \in Regions : FreeBlobs(r)' = FreeBlobs(r) /\ (Stays(r)' <=> Stays(r))
  BY DEF WithSession, numblobs, SessionOf, FreeBlobs, Stays, Old, Analysing
<1>2. \A i \in WithSession : _newblobresult[i].region = s.region => blob_sid[i] < s.sid
  BY DEF IInv, MatchInv
<1>3. \A i \in WithSession : i \in 1 .. numblobs /\ blob_sid[i] \in Nat
  BY DEF WithSession
<1>4. \A i \in WithSession : SessionOf(i) # s
  BY <1>0, <1>2, <1>3 DEF SessionOf
<1>5. SessionsAreBlobs'
  BY <1>1, <1>4 DEF SessionsAreBlobs
<1>6. OneBlobPerSession'
  BY <1>1 DEF IInv, OneBlobPerSession
<1>7. BeforeInv'
  <2>1. IsFiniteSet(_sessions')
    BY FS_RemoveElement DEF IInv, BeforeInv
  <2> QED BY <1>1, <2>1 DEF IInv, BeforeInv
<1>8. MatchInv'
  <2>1. ASSUME NEW t \in _sessions', NEW n \in 0 .. t.sid - 1
        PROVE  n \in Sids(t.region)' \/ (t \in left' /\ FreeBlobs(t.region)' = {})
    <3>0. t \in _sessions /\ t # s /\ t \in Session /\ t.sid \in Nat /\ t.region \in Regions
      BY DEF Session
    <3>1. CASE t \in left /\ FreeBlobs(t.region) = {}
      BY <1>1, <3>0, <3>1
    <3>2. CASE n \in Sids(t.region)
      <4>1. PICK u \in _sessions : u.region = t.region /\ u.sid = n
        BY <3>2 DEF Sids
      <4>2. CASE u # s
        <5>1. u \in _sessions'
          BY <4>2
        <5> QED BY <4>1, <5>1 DEF Sids
      <4>3. CASE u = s
        <5>1. t \in left
          <6> SUFFICES ASSUME NEW i \in WithSession, t = SessionOf(i) PROVE FALSE
            BY <3>0
          <6>1. blob_sid[i] = t.sid /\ _newblobresult[i].region = s.region
            BY <4>1, <4>3 DEF SessionOf
          <6>2. t.sid < s.sid
            BY <1>2, <6>1
          <6> QED BY <1>0, <3>0, <4>1, <4>3, <6>2
        <5> QED BY <1>1, <3>0, <4>1, <4>3, <5>1
      <4> QED BY <4>2, <4>3
    <3> QED BY <3>0, <3>1, <3>2 DEF IInv, MatchInv
  <2>2. \A i \in WithSession', t \in left' :
            _newblobresult'[i].region = t.region => blob_sid'[i] < t.sid
    BY <1>1 DEF IInv, MatchInv
  <2> QED BY <2>1, <2>2 DEF MatchInv
<1>9. HandsInv'
  <2>1. ~ Stays(s.region)
    <3> SUFFICES ASSUME Stays(s.region) PROVE FALSE
      OBVIOUS
    <3>1. PICK k \in 1 .. numblobs :
              _newblobresult[k].region = s.region /\ _newblobresult[k].at = s.center
      BY <1>0 DEF Stays, Old
    <3> QED BY <3>1, FreeOrMatched
  <2>2. ASSUME NEW r \in Regions, Stays(r)
        PROVE  /\ Old(r) \subseteq _sessions'
               /\ \A i \in WithSession : _newblobresult[i].region = r => SessionOf(i) \in before
    BY <1>1, <2>1, <2>2 DEF IInv, HandsInv, Old
  <2> QED BY <1>1, <2>2 DEF HandsInv, Old
<1> QED BY <1>5, <1>6, <1>7, <1>8, <1>9 DEF Matched

\* A session takes the closest free blob.
LEMMA SessionTakesBlob ==
    ASSUME IInv, pc = "match", NEW s \in left, NEW i \in FreeBlobs(s.region),
           \A t \in left : Precedes(s, t), Closest(s, i),
           left' = left \ {s},
           _sessions' = (_sessions \ {s}) \cup {[s EXCEPT !.center = _newblobresult[i].at]},
           blob_sid' = [blob_sid EXCEPT ![i] = s.sid],
           UNCHANGED <<pc, _newblobresult, before>>
    PROVE  Matched'
<1> DEFINE new == [s EXCEPT !.center = _newblobresult[i].at]
<1> USE Matching
<1>0. /\ s \in Session /\ s \in before /\ s \in _sessions /\ s.sid \in Nat /\ s.region \in Regions
      /\ s.center \in Int
  BY DEF Session
<1>1. /\ i \in 1 .. numblobs /\ _newblobresult[i].region = s.region
      /\ blob_sid[i] < 0 /\ _newblobresult[i].at \in Int
      /\ i \notin WithSession
  BY DEF FreeBlobs, Blob, WithSession
<1>2. /\ Len(blob_sid') = numblobs
      /\ \A k \in 1 .. numblobs : blob_sid'[k] = IF k = i THEN s.sid ELSE blob_sid[k]
  <2>1. blob_sid \in Seq(Nat \cup {-1}) /\ Len(blob_sid) = numblobs
    BY DEF IInv, TypeOK
  <2>2. s.sid \in Nat \cup {-1}
    BY <1>0
  <2> QED BY <1>1, <2>1, <2>2, ExceptSeq
<1>3. /\ numblobs' = numblobs /\ Analysing /\ Analysing'
      /\ WithSession' = WithSession \cup {i}
      /\ \A k \in WithSession : k # i /\ k \in 1 .. numblobs /\ SessionOf(k)' = SessionOf(k)
      /\ \A r \in Regions : FreeBlobs(r)' \subseteq FreeBlobs(r) /\ (Stays(r)' <=> Stays(r))
  <2>1. numblobs' = numblobs /\ Analysing /\ Analysing'
    BY DEF numblobs, Analysing
  <2>2. WithSession' = WithSession \cup {i}
    BY <1>0, <1>1, <1>2, <2>1 DEF WithSession
  <2>3. ASSUME NEW k \in WithSession
        PROVE  k # i /\ k \in 1 .. numblobs /\ SessionOf(k)' = SessionOf(k)
    BY <1>1, <1>2 DEF WithSession, SessionOf
  <2>4. ASSUME NEW r \in Regions
        PROVE  FreeBlobs(r)' \subseteq FreeBlobs(r) /\ (Stays(r)' <=> Stays(r))
    BY <1>0, <1>1, <1>2, <2>1 DEF FreeBlobs, Stays, Old
  <2> QED BY <2>1, <2>2, <2>3, <2>4
<1>4. /\ new \in Session
      /\ new.region = s.region /\ new.sid = s.sid /\ new.center = _newblobresult[i].at
      /\ SessionOf(i)' = new
  <2>1. /\ new \in Session
        /\ new.region = s.region /\ new.sid = s.sid /\ new.center = _newblobresult[i].at
    BY <1>0, <1>1 DEF Session
  <2>2. SessionOf(i)' = [region |-> s.region, sid |-> s.sid, center |-> _newblobresult[i].at]
    BY <1>1, <1>2 DEF SessionOf
  <2>3. new = [region |-> s.region, sid |-> s.sid, center |-> _newblobresult[i].at]
    <3>1. ASSUME NEW at, NEW t \in Session
          PROVE  [t EXCEPT !.center = at] = [region |-> t.region, sid |-> t.sid, center |-> at]
      BY DEF Session
    <3> QED BY <1>0, <3>1
  <2> QED BY <2>1, <2>2, <2>3
<1> HIDE DEF new
<1>5. _sessions' = (_sessions \ {s}) \cup {new}
  BY DEF new
<1>6. \A k \in WithSession :
        /\ _newblobresult[k].region = s.region => blob_sid[k] < s.sid
        /\ blob_sid[k] \in Nat
        /\ SessionOf(k) # s
  <2> SUFFICES ASSUME NEW k \in WithSession
               PROVE  /\ _newblobresult[k].region = s.region => blob_sid[k] < s.sid
                      /\ blob_sid[k] \in Nat
                      /\ SessionOf(k) # s
    OBVIOUS
  <2>1. blob_sid[k] \in Nat
    BY DEF WithSession
  <2>2. _newblobresult[k].region = s.region => blob_sid[k] < s.sid
    BY DEF IInv, MatchInv
  <2>3. SessionOf(k).region = _newblobresult[k].region /\ SessionOf(k).sid = blob_sid[k]
    BY DEF SessionOf
  <2> QED BY <1>0, <2>1, <2>2, <2>3
<1>7. \A t \in _sessions : t.region = s.region /\ t.sid = s.sid => t = s
  BY <1>0 DEF IInv, OneBlobPerSession
<1>8. SessionsAreBlobs'
  <2>1. _sessions' = left' \cup {SessionOf(k)' : k \in WithSession'}
    BY <1>3, <1>4, <1>5, <1>6
  <2> QED BY <1>2, <1>3, <2>1 DEF SessionsAreBlobs
<1>9. OneBlobPerSession'
  <2>1. ASSUME NEW t \in _sessions', NEW u \in _sessions', t.region = u.region, t.sid = u.sid
        PROVE  t = u
    <3>1. t = new \/ (t \in _sessions /\ t # s)
      BY <1>5
    <3>2. u = new \/ (u \in _sessions /\ u # s)
      BY <1>5
    <3> QED BY <1>4, <1>7, <2>1, <3>1, <3>2 DEF IInv, OneBlobPerSession
  <2>2. ASSUME NEW k \in WithSession', NEW l \in WithSession',
               _newblobresult[k].region = _newblobresult[l].region, blob_sid'[k] = blob_sid'[l]
        PROVE  k = l
    <3>1. CASE k = i /\ l # i
      <4>1. l \in WithSession /\ blob_sid[l] = s.sid /\ _newblobresult[l].region = s.region
        BY <1>1, <1>2, <1>3, <2>2, <3>1
      <4> QED BY <1>0, <1>6, <4>1
    <3>2. CASE l = i /\ k # i
      <4>1. k \in WithSession /\ blob_sid[k] = s.sid /\ _newblobresult[k].region = s.region
        BY <1>1, <1>2, <1>3, <2>2, <3>2
      <4> QED BY <1>0, <1>6, <4>1
    <3>3. CASE k # i /\ l # i
      <4>1. k \in WithSession /\ l \in WithSession /\ blob_sid[k] = blob_sid[l]
        BY <1>2, <1>3, <2>2, <3>3
      <4> QED BY <1>3, <2>2, <4>1 DEF IInv, OneBlobPerSession
    <3> QED BY <3>1, <3>2, <3>3
  <2> QED BY <2>1, <2>2 DEF OneBlobPerSession
<1>10. BeforeInv'
  <2>1. IsFiniteSet(_sessions')
    <3>1. IsFiniteSet(_sessions \ {s})
      BY FS_RemoveElement DEF IInv, BeforeInv
    <3>2. IsFiniteSet((_sessions \ {s}) \cup {new})
      BY <3>1, FS_AddElement
    <3> QED BY <1>5, <3>2
  <2> QED BY <1>3, <2>1 DEF IInv, BeforeInv
<1>11. \A r \in Regions : Sids(r)' = Sids(r)
  <2> SUFFICES ASSUME NEW r \in Regions PROVE Sids(r)' = Sids(r)
    OBVIOUS
  <2>1. ASSUME NEW n \in Sids(r) PROVE n \in Sids(r)'
    <3>1. PICK t \in _sessions : t.region = r /\ t.sid = n
      BY <2>1 DEF Sids
    <3>2. \E u \in _sessions' : u.region = r /\ u.sid = n
      BY <1>4, <1>5, <3>1
    <3> QED BY <3>2 DEF Sids
  <2>2. ASSUME NEW n \in Sids(r)' PROVE n \in Sids(r)
    <3>1. PICK t \in _sessions' : t.region = r /\ t.sid = n
      BY <2>2 DEF Sids
    <3>2. \E u \in _sessions : u.region = r /\ u.sid = n
      BY <1>0, <1>4, <1>5, <3>1
    <3> QED BY <3>2 DEF Sids
  <2> QED BY <2>1, <2>2
<1>12. MatchInv'
  <2>1. ASSUME NEW k \in WithSession', NEW t \in left', _newblobresult[k].region = t.region
        PROVE  blob_sid'[k] < t.sid
    <3>0. t \in left /\ t # s /\ t \in _sessions /\ t.sid \in Nat
      BY DEF Session
    <3>1. CASE k = i
      <4>1. s.sid <= t.sid
        BY <1>0, <1>1, <2>1, <3>0, <3>1, RegionsAssumption DEF Precedes, Session
      <4>2. s.sid # t.sid
        BY <1>1, <1>7, <2>1, <3>0, <3>1
      <4> QED BY <1>0, <1>1, <1>2, <3>0, <3>1, <4>1, <4>2
    <3>2. CASE k # i
      BY <1>2, <1>3, <2>1, <3>0, <3>2 DEF IInv, MatchInv
    <3> QED BY <3>1, <3>2
  <2>2. ASSUME NEW t \in _sessions', NEW n \in 0 .. t.sid - 1
        PROVE  n \in Sids(t.region)' \/ (t \in left' /\ FreeBlobs(t.region)' = {})
    <3>1. CASE t = new
      <4>1. n \in Sids(s.region) \/ FreeBlobs(s.region) = {}
        BY <1>0, <1>4, <2>2, <3>1 DEF IInv, MatchInv
      <4> QED BY <1>0, <1>4, <1>11, <3>1, <4>1
    <3>2. CASE t # new
      <4>1. t \in _sessions /\ t # s /\ t.region \in Regions
        BY <1>5, <3>2 DEF Session
      <4>2. n \in Sids(t.region) \/ (t \in left /\ FreeBlobs(t.region) = {})
        BY <4>1 DEF IInv, MatchInv
      <4> QED BY <1>3, <1>11, <4>1, <4>2
    <3> QED BY <3>1, <3>2
  <2> QED BY <2>1, <2>2 DEF MatchInv
<1>13. HandsInv'
  <2>1. ASSUME NEW r \in Regions, Stays(r)
        PROVE  /\ Old(r) \subseteq _sessions'
               /\ \A k \in WithSession' : _newblobresult[k].region = r => SessionOf(k)' \in before
    <3>0. /\ Old(r) \subseteq _sessions
          /\ \A k \in WithSession : _newblobresult[k].region = r => SessionOf(k) \in before
      BY <1>3, <2>1 DEF IInv, HandsInv, Old
    <3>1. CASE r # s.region
      BY <1>1, <1>3, <1>5, <3>0, <3>1 DEF Old
    <3>2. CASE r = s.region
      <4>1. PICK j \in 1 .. numblobs :
                _newblobresult[j].region = s.region /\ _newblobresult[j].at = s.center
        BY <1>0, <2>1, <3>2 DEF Stays, Old
      <4>2. j \in FreeBlobs(s.region)
        BY <2>1, <3>2, <4>1, FreeOrMatched
      <4>3. Abs(_newblobresult[i].at - s.center) <= Abs(_newblobresult[j].at - s.center)
        BY SMTT(60), <1>0, <1>1, <4>1, <4>2 DEF Closest, Abs
      <4>4. _newblobresult[i].at = s.center
        BY <1>0, <1>1, <4>1, <4>3 DEF Abs
      <4>5. new = s
        BY <1>0, <4>4 DEF new, Session
      <4> QED BY <1>0, <1>3, <1>4, <1>5, <3>0, <4>5
    <3> QED BY <3>1, <3>2
  <2> QED BY <1>3, <2>1 DEF HandsInv, Old
<1> QED BY <1>8, <1>9, <1>10, <1>12, <1>13 DEF Matched

Rest == Matched /\ LowestIds /\ DepthInv

LEMMA MatchSessionStep == IInv /\ MatchSession => Rest'
<1> SUFFICES ASSUME IInv, MatchSession PROVE Rest'
  OBVIOUS
<1>1. pc = "match" /\ UNCHANGED <<pc, settings, frames, _newblobresult, next, nactive, before, tuio, calm>>
  BY DEF MatchSession
<1>2. Matched'
  <2>1. PICK s \in left :
          /\ \A t \in left : Precedes(s, t)
          /\ left' = left \ {s}
          /\ \/ /\ FreeBlobs(s.region) = {}
                /\ _sessions' = _sessions \ {s}
                /\ UNCHANGED blob_sid
             \/ \E i \in FreeBlobs(s.region) :
                   /\ Closest(s, i)
                   /\ _sessions' = (_sessions \ {s}) \cup {[s EXCEPT !.center = _newblobresult[i].at]}
                   /\ blob_sid' = [blob_sid EXCEPT ![i] = s.sid]
    BY DEF MatchSession
  <2>2. CASE FreeBlobs(s.region) = {} /\ _sessions' = _sessions \ {s} /\ UNCHANGED blob_sid
    BY <1>1, <2>1, <2>2, SessionEnds DEF frames
  <2>3. ASSUME NEW i \in FreeBlobs(s.region),
               Closest(s, i),
               _sessions' = (_sessions \ {s}) \cup {[s EXCEPT !.center = _newblobresult[i].at]},
               blob_sid' = [blob_sid EXCEPT ![i] = s.sid]
        PROVE  Matched'
    BY <1>1, <2>1, <2>3, SessionTakesBlob DEF frames
  <2> QED BY <2>1, <2>2, <2>3
<1>3. LowestIds'
  BY <1>1 DEF LowestIds
<1>4. DepthInv'
  <2>1. DepthInv /\ Analysing /\ Analysing' /\ numblobs' = numblobs /\ next = 1
    BY <1>1 DEF IInv, DepthInv, Analysing, numblobs
  <2>2. Deep(next - 1)' = Deep(next - 1) /\ Deep(next - 1) = {}
    BY <1>1, <2>1 DEF Deep
  <2> QED BY <1>1, <2>1, <2>2 DEF DepthInv, settings, range, frames
<1> QED BY <1>2, <1>3, <1>4 DEF Rest

-----------------------------------------------------------------------------
(* All sessions have looked for their blob. *)

LEMMA EndMatchStep == IInv /\ EndMatch => Rest'
<1> SUFFICES ASSUME IInv, EndMatch PROVE Rest'
  OBVIOUS
<1> USE DEF settings, range, frames, analysis, tuio
<1>1. /\ pc = "match" /\ pc' = "depth" /\ left = {}
      /\ UNCHANGED <<settings, frames, _sessions, analysis>>
  BY DEF EndMatch
<1>2. /\ Analysing /\ Analysing' /\ numblobs' = numblobs /\ WithSession' = WithSession
      /\ \A i \in WithSession : SessionOf(i)' = SessionOf(i)
      /\ \A r \in Regions : Stays(r)' <=> Stays(r)
  BY <1>1 DEF Analysing, numblobs, WithSession, SessionOf, Stays, Old
<1>3. \A r \in Regions : Sids(r) = 0 .. Cardinality(Sids(r)) - 1
  <2> SUFFICES ASSUME NEW r \in Regions PROVE Sids(r) = 0 .. Cardinality(Sids(r)) - 1
    OBVIOUS
  <2>1. \A t \in _sessions : t \in Session /\ t.sid \in Nat
    BY DEF IInv, TypeOK, Session
  <2>2. Sids(r) \in SUBSET Nat
    BY <2>1 DEF Sids
  <2>3. IsFiniteSet(Sids(r))
    BY SidsFinite DEF IInv, BeforeInv
  <2>4. ASSUME NEW n \in Sids(r), NEW m \in 0 .. n - 1 PROVE m \in Sids(r)
    <3>1. PICK t \in _sessions : t.region = r /\ t.sid = n
      BY DEF Sids
    <3> QED BY <1>1, <3>1 DEF IInv, MatchInv
  <2> QED BY <2>2, <2>3, <2>4, DownClosed
<1>4. LowestIds'
  <2>1. \A r \in Regions : Sids(r)' = Sids(r)
    BY <1>1 DEF Sids
  <2> QED BY <1>3, <2>1 DEF LowestIds
<1>5. SessionsAreBlobs'
  BY <1>1, <1>2 DEF IInv, SessionsAreBlobs
<1>6. OneBlobPerSession'
  BY <1>1, <1>2 DEF IInv, OneBlobPerSession
<1>7. BeforeInv'
  BY <1>1, <1>2 DEF IInv, BeforeInv
<1>8. MatchInv'
  BY <1>1 DEF MatchInv
<1>9. HandsInv'
  BY <1>1, <1>2 DEF IInv, HandsInv, Old
<1>10. DepthInv'
  <2>1. Deep(next - 1)' = Deep(next - 1)
    BY <1>1 DEF Deep
  <2> QED BY <1>1, <1>2, <2>1 DEF IInv, DepthInv
<1> QED BY <1>4, <1>5, <1>6, <1>7, <1>8, <1>9, <1>10 DEF Rest, Matched

-----------------------------------------------------------------------------
(* The depths of the blobs. *)

\* What the invariant says of a state in which depths are computed.
LEMMA InDepth ==
    ASSUME IInv, pc = "depth"
    PROVE  /\ Len(blob_sid) = numblobs
           /\ numblobs \in Nat
           /\ next \in Nat \ {0} /\ next <= numblobs + 1
           /\ \A i \in 1 .. numblobs : _newblobresult[i] \in Blob /\ blob_sid[i] \in Nat \cup {-1}
           /\ _sessions \subseteq Session
           /\ _sessions = {SessionOf(i) : i \in WithSession}
<1>1. TypeOK /\ SessionsAreBlobs /\ DepthInv /\ Analysing
  BY DEF IInv, Analysing
<1>2. _newblobresult \in Seq(Blob) /\ blob_sid \in Seq(Nat \cup {-1})
  BY <1>1 DEF TypeOK
<1>3. numblobs \in Nat /\ Len(blob_sid) = numblobs
  BY <1>1, <1>2, LenProperties DEF numblobs, SessionsAreBlobs
<1>4. \A i \in 1 .. numblobs : _newblobresult[i] \in Blob
  BY <1>2, ElementOfSeq DEF numblobs
<1>5. \A i \in 1 .. numblobs : blob_sid[i] \in Nat \cup {-1}
  BY <1>2, <1>3, ElementOfSeq
<1> QED BY <1>1, <1>3, <1>4, <1>5 DEF TypeOK, SessionsAreBlobs, DepthInv

\* A blob in range that no session has taken gets the lowest id that is free.
LEMMA NewSession ==
    ASSUME IInv, pc = "depth", NEW n \in 1 .. numblobs, blob_sid[n] < 0,
           _sessions' = {s \in _sessions :
                            ~ (s.region = _newblobresult[n].region
                                 /\ s.sid = getAvailableSid(_newblobresult[n].region))}
                          \cup {[region |-> _newblobresult[n].region,
                                 sid |-> getAvailableSid(_newblobresult[n].region),
                                 center |-> _newblobresult[n].at]},
           blob_sid' = [blob_sid EXCEPT ![n] = getAvailableSid(_newblobresult[n].region)],
           UNCHANGED <<pc, _newblobresult, left, before>>
    PROVE  Matched' /\ LowestIds' /\ WithSession' = WithSession \cup {n}
<1> DEFINE r == _newblobresult[n].region
<1> DEFINE sid == getAvailableSid(r)
<1> DEFINE new == [region |-> r, sid |-> sid, center |-> _newblobresult[n].at]
<1> USE InDepth
<1>0. r \in Regions
  BY DEF Blob
<1>1. /\ Sids(r) = 0 .. Cardinality(Sids(r)) - 1
      /\ Cardinality(Sids(r)) \in Nat /\ IsFiniteSet(Sids(r))
      /\ sid = Cardinality(Sids(r))
      /\ sid \in Nat /\ sid \notin Sids(r)
  <2>1. Sids(r) = 0 .. Cardinality(Sids(r)) - 1
    BY <1>0 DEF IInv, LowestIds
  <2>2. IsFiniteSet(Sids(r))
    BY SidsFinite DEF IInv, BeforeInv
  <2>3. Cardinality(Sids(r)) \in Nat
    BY <2>2, FS_CardinalityType
  <2>4. sid = Cardinality(Sids(r))
    BY <2>1, <2>3, AvailableSid
  <2> HIDE DEF sid
  <2> QED BY <2>1, <2>2, <2>3, <2>4
<1>2. \A k \in 1 .. numblobs : blob_sid'[k] = IF k = n THEN sid ELSE blob_sid[k]
  <2>1. blob_sid \in Seq(Nat \cup {-1}) /\ Len(blob_sid) = numblobs
    BY DEF IInv, TypeOK
  <2>2. sid \in Nat \cup {-1}
    BY <1>1
  <2> QED BY <1>0, <2>1, <2>2, ExceptSeq
<1>3. Len(blob_sid') = numblobs
  <2>1. blob_sid \in Seq(Nat \cup {-1}) /\ Len(blob_sid) = numblobs
    BY DEF IInv, TypeOK
  <2>2. sid \in Nat \cup {-1}
    BY <1>1
  <2> QED BY <1>0, <2>1, <2>2, ExceptSeq
<1> HIDE DEF sid
<1>4. numblobs' = numblobs /\ Analysing /\ Analysing' /\ left = {}
  BY DEF numblobs, Analysing, IInv, SessionsAreBlobs
<1>5. WithSession' = WithSession \cup {n} /\ n \notin WithSession
  BY <1>0, <1>1, <1>2, <1>4 DEF WithSession
<1>6. /\ \A k \in WithSession : k # n /\ k \in 1 .. numblobs /\ SessionOf(k)' = SessionOf(k)
      /\ SessionOf(n)' = new
  <2>1. ASSUME NEW k \in WithSession PROVE k # n /\ k \in 1 .. numblobs /\ SessionOf(k)' = SessionOf(k)
    BY <1>2, <1>5 DEF WithSession, SessionOf
  <2>2. SessionOf(n)' = new
    BY <1>0, <1>2 DEF SessionOf
  <2> QED BY <2>1, <2>2
<1> /\ new.region = r /\ new.sid = sid /\ new.center = _newblobresult[n].at
  OBVIOUS
<1>7. _sessions' = _sessions \cup {new}
  <2>1. \A s \in _sessions : ~ (s.region = r /\ s.sid = sid)
    BY <1>1 DEF Sids
  <2> QED BY <2>1 DEF sid
<1> HIDE DEF new
<1>8. SessionsAreBlobs'
  BY <1>3, <1>4, <1>5, <1>6, <1>7 DEF SessionsAreBlobs
<1>9. OneBlobPerSession'
  <2>1. ASSUME NEW t \in _sessions', NEW u \in _sessions', t.region = u.region, t.sid = u.sid
        PROVE  t = u
    BY <1>1, <1>7, <2>1 DEF IInv, OneBlobPerSession, Sids
  <2>2. \A k \in WithSession : _newblobresult[k].region = r => blob_sid[k] # sid
    <3> SUFFICES ASSUME NEW k \in WithSession, _newblobresult[k].region = r, blob_sid[k] = sid
                 PROVE  FALSE
      OBVIOUS
    <3>1. SessionOf(k) \in _sessions /\ SessionOf(k).region = r /\ SessionOf(k).sid = sid
      BY DEF SessionOf
    <3> QED BY <1>1, <3>1 DEF Sids
  <2>3. ASSUME NEW k \in WithSession', NEW l \in WithSession',
               _newblobresult[k].region = _newblobresult[l].region, blob_sid'[k] = blob_sid'[l]
        PROVE  k = l
    <3>1. CASE k # n /\ l # n
      <4>1. k \in WithSession /\ l \in WithSession /\ blob_sid[k] = blob_sid[l]
        BY <1>2, <1>5, <1>6, <2>3, <3>1
      <4> QED BY <1>4, <2>3, <4>1 DEF IInv, OneBlobPerSession
    <3>2. CASE k = n /\ l # n
      <4>1. l \in WithSession /\ blob_sid[l] = sid /\ _newblobresult[l].region = r
        BY <1>0, <1>2, <1>5, <1>6, <2>3, <3>2
      <4> QED BY <2>2, <4>1
    <3>3. CASE l = n /\ k # n
      <4>1. k \in WithSession /\ blob_sid[k] = sid /\ _newblobresult[k].region = r
        BY <1>0, <1>2, <1>5, <1>6, <2>3, <3>3
      <4> QED BY <2>2, <4>1
    <3> QED BY <3>1, <3>2, <3>3
  <2> QED BY <2>1, <2>3 DEF OneBlobPerSession
<1>10. LowestIds'
  <2> SUFFICES ASSUME NEW q \in Regions PROVE (Sids(q) = 0 .. Cardinality(Sids(q)) - 1)'
    BY DEF LowestIds
  <2>1. CASE q = r
    <3>1. Sids(q)' = Sids(r) \cup {sid}
      <4>1. Sids(q)' = {s.sid : s \in {t \in _sessions \cup {new} : t.region = r}}
        BY <1>7, <2>1 DEF Sids
      <4>2. @ = Sids(r) \cup {sid}
        BY DEF Sids
      <4> QED BY <4>1, <4>2
    <3>2. Cardinality(Sids(r) \cup {sid}) = sid + 1
      BY <1>1, FS_AddElement
    <3>3. Sids(r) \cup {sid} = 0 .. sid
      BY <1>1
    <3> QED BY <1>1, <3>1, <3>2, <3>3
  <2>2. CASE q # r
    <3>1. Sids(q)' = Sids(q)
      BY <1>7, <2>2 DEF Sids
    <3>2. Sids(q) = 0 .. Cardinality(Sids(q)) - 1
      BY DEF IInv, LowestIds
    <3> QED BY <3>1, <3>2
  <2> QED BY <2>1, <2>2
<1>11. BeforeInv'
  <2>1. IsFiniteSet(_sessions')
    <3>1. IsFiniteSet(_sessions)
      BY DEF IInv, BeforeInv
    <3>2. \A S : IsFiniteSet(S) => IsFiniteSet(S \cup {new}) BY ONLY FS_AddElement
    <3>3. IsFiniteSet(_sessions \cup {new}) BY ONLY <3>1, <3>2
    <3> QED BY ONLY <1>7, <3>3
  <2> QED BY <1>4, <2>1 DEF IInv, BeforeInv
<1>12. MatchInv' /\ HandsInv'
  <2>1. \A q \in Regions : Stays(q)' <=> Stays(q)
    BY <1>4 DEF Stays, Old
  <2>2. HandsInv'
    BY <1>4, <1>7, <2>1 DEF IInv, HandsInv, Old
  <2> QED BY <2>2 DEF MatchInv
<1> QED BY <1>5, <1>8, <1>9, <1>10, <1>11, <1>12 DEF Matched

\* Matched and LowestIds hold on where nothing they are about changes.
LEMMA NothingNew ==
    ASSUME IInv, UNCHANGED <<pc, _newblobresult, left, before, _sessions, blob_sid>>
    PROVE  Matched' /\ LowestIds' /\ WithSession' = WithSession /\ numblobs' = numblobs
<1>1. /\ numblobs' = numblobs /\ WithSession' = WithSession /\ (Analysing' <=> Analysing)
      /\ \A i \in WithSession : SessionOf(i)' = SessionOf(i)
      /\ \A r \in Regions : Stays(r)' <=> Stays(r)
      /\ \A r : Sids(r)' = Sids(r) /\ FreeBlobs(r)' = FreeBlobs(r)
  BY DEF numblobs, WithSession, Analysing, SessionOf, Stays, Old, Sids, FreeBlobs
<1>2. SessionsAreBlobs'
  BY <1>1 DEF IInv, SessionsAreBlobs
<1>3. OneBlobPerSession'
  BY <1>1 DEF IInv, OneBlobPerSession
<1>4. LowestIds'
  BY <1>1 DEF IInv, LowestIds
<1>5. BeforeInv'
  BY <1>1 DEF IInv, BeforeInv
<1>6. MatchInv'
  BY <1>1 DEF IInv, MatchInv
<1>7. HandsInv'
  BY <1>1 DEF IInv, HandsInv, Old
<1> QED BY <1>1, <1>2, <1>3, <1>4, <1>5, <1>6, <1>7 DEF Matched

\* The blobs that are not thin, one after the other.
LEMMA DeepStep ==
    ASSUME NEW n \in Nat \ {0}
    PROVE  /\ _newblobresult[n].thin => Deep(n) = Deep(n - 1)
           /\ ~ _newblobresult[n].thin =>
                 /\ Deep(n) = Deep(n - 1) \cup {n}
                 /\ Cardinality(Deep(n)) = Cardinality(Deep(n - 1)) + 1
<1>1. 1 .. n = (1 .. n - 1) \cup {n} /\ n \notin 1 .. n - 1
  OBVIOUS
<1>2. Deep(n) = Deep(n - 1) \cup {i \in {n} : ~ _newblobresult[i].thin} /\ n \notin Deep(n - 1)
  BY <1>1 DEF Deep
<1>3. IsFiniteSet(Deep(n - 1))
  <2>1. IsFiniteSet(1 .. n - 1) /\ Deep(n - 1) \subseteq 1 .. n - 1
    BY FS_Interval DEF Deep
  <2> QED BY <2>1, FS_Subset
<1>4. Cardinality(Deep(n - 1) \cup {n}) = Cardinality(Deep(n - 1)) + 1
  BY <1>2, <1>3, FS_AddElement
<1> QED BY <1>2, <1>4

\* A blob is passed; where the settings have not changed, it has a session now or is thin.
LEMMA BlobPassed ==
    ASSUME DepthInv, pc = "depth", next \in 1 .. numblobs, numblobs \in Nat, nactive \in Nat,
           next' = next + 1, numblobs' = numblobs,
           UNCHANGED <<pc, val_showrawdepth, front, _newblobresult>>,
           WithSession \subseteq WithSession',
           front.fresh =>
              IF _newblobresult[next].thin THEN nactive' = nactive
              ELSE nactive' = nactive + 1 /\ next \in WithSession'
    PROVE  DepthInv'
<1>1. Analysing /\ Analysing'
  BY DEF Analysing
<1>2. next' <= numblobs' + 1
  OBVIOUS
<1>3. ASSUME front.fresh
      PROVE  (nactive = Cardinality(Deep(next - 1)) /\ Deep(next - 1) \subseteq WithSession)'
  <2>1. nactive = Cardinality(Deep(next - 1)) /\ Deep(next - 1) \subseteq WithSession
    BY <1>1, <1>3 DEF DepthInv
  <2>2. Deep(next - 1)' = Deep(next)
    <3>1. next' - 1 = next
      OBVIOUS
    <3> QED BY <3>1 DEF Deep
  <2>3. next \in Nat \ {0}
    OBVIOUS
  <2> QED BY <1>3, <2>1, <2>2, <2>3, DeepStep
<1> QED BY <1>1, <1>2, <1>3 DEF DepthInv

LEMMA ComputeDepthStep == IInv /\ ComputeDepth => Rest'
<1> SUFFICES ASSUME IInv, ComputeDepth PROVE Rest'
  OBVIOUS
<1> DEFINE blob == _newblobresult[next]
<1>1. /\ pc = "depth" /\ next <= numblobs /\ next' = next + 1
      /\ UNCHANGED <<pc, val_showrawdepth, val_backtop, front, _newblobresult, left, before>>
  BY DEF ComputeDepth, settings, range, frames
<1>2. /\ next \in 1 .. numblobs /\ nactive \in Nat
      /\ Analysing /\ Analysing' /\ numblobs' = numblobs
  BY <1>1, InDepth DEF IInv, TypeOK, Analysing, numblobs
<1>3. DepthInv
  BY DEF IInv
<1>4. front.fresh => (HasDepth(blob) <=> ~ blob.thin)
  <2>1. ~ val_showrawdepth /\ blob \in front.blobs
    BY <1>2, <1>3 DEF IInv, FramesInv, DepthInv
  <2>2. front.fresh => White(blob)
    BY <2>1 DEF IInv, FramesInv, IsFrame
  <2> QED BY <2>1, <2>2 DEF White, HasDepth
<1>5. CASE ~ HasDepth(blob)
  <2>1. UNCHANGED <<_sessions, blob_sid, nactive>> /\ (front.fresh => blob.thin)
    BY <1>4, <1>5 DEF ComputeDepth
  <2>2. Matched' /\ LowestIds' /\ WithSession' = WithSession
    BY <1>1, <2>1, NothingNew
  <2>3. DepthInv'
    BY <1>1, <1>2, <1>3, <1>4, <1>5, <2>1, <2>2, InDepth, BlobPassed
  <2> QED BY <2>2, <2>3 DEF Rest
<1>6. CASE HasDepth(blob) /\ blob_sid[next] >= 0
  <2>1. UNCHANGED <<_sessions, blob_sid>> /\ nactive' = nactive + 1
    BY <1>2, <1>6, InDepth DEF ComputeDepth
  <2>2. Matched' /\ LowestIds' /\ WithSession' = WithSession
    BY <1>1, <2>1, NothingNew
  <2>3. next \in WithSession
    BY <1>2, <1>6 DEF WithSession
  <2>4. DepthInv'
    BY <1>1, <1>2, <1>3, <1>4, <1>6, <2>1, <2>2, <2>3, InDepth, BlobPassed
  <2> QED BY <2>2, <2>4 DEF Rest
<1>7. CASE HasDepth(blob) /\ blob_sid[next] < 0
  <2>1. /\ nactive' = nactive + 1
        /\ _sessions' = {s \in _sessions :
                            ~ (s.region = blob.region /\ s.sid = getAvailableSid(blob.region))}
                          \cup {[region |-> blob.region, sid |-> getAvailableSid(blob.region),
                                 center |-> blob.at]}
        /\ blob_sid' = [blob_sid EXCEPT ![next] = getAvailableSid(blob.region)]
    BY <1>2, <1>7, InDepth DEF ComputeDepth
  <2>2. PICK n \in 1 .. numblobs : n = next
    BY <1>2
  <2>3. Matched' /\ LowestIds' /\ WithSession' = WithSession \cup {n}
    BY <1>1, <1>7, <2>1, <2>2, NewSession
  <2>4. DepthInv'
    BY <1>1, <1>2, <1>3, <1>4, <1>7, <2>1, <2>2, <2>3, InDepth, BlobPassed
  <2> QED BY <2>3, <2>4 DEF Rest
<1>8. blob_sid[next] >= 0 \/ blob_sid[next] < 0
  BY <1>1, <1>2, InDepth
<1> QED BY <1>5, <1>6, <1>7, <1>8

-----------------------------------------------------------------------------
(* The rest of the loop. *)

LEMMA SwapBuffersStep == IInv /\ SwapBuffers => Rest'
<1> SUFFICES ASSUME IInv, SwapBuffers PROVE Rest'
  OBVIOUS
<1> USE DEF settings, range, frames, analysis, tuio
<1>1. /\ pc \in {"json", "analyze"} /\ _sessions' = _sessions
      /\ UNCHANGED settings
  BY DEF SwapBuffers
<1>2. IsFiniteSet(_sessions)
  BY <1>1 DEF IInv, BeforeInv
<1>3. \A r \in Regions : Sids(r)' = Sids(r) /\ Sids(r) = 0 .. Cardinality(Sids(r)) - 1
  BY <1>1 DEF IInv, LowestIds, Sids
<1>4. CASE val_showrawdepth
  <2>1. pc' = "update"
    BY <1>4 DEF SwapBuffers
  <2> QED BY <1>1, <1>2, <1>3, <2>1
          DEF IInv, Rest, Matched, Analysing, SessionsAreBlobs, OneBlobPerSession, LowestIds,
              BeforeInv, MatchInv, HandsInv, DepthInv
<1>5. CASE ~ val_showrawdepth
  <2>1. /\ pc' = "match" /\ Analysing'
        /\ left' = _sessions /\ before' = _sessions
        /\ front' = mid
        /\ blob_sid' = [i \in 1 .. numblobs' |-> -1]
        /\ next' = 1 /\ nactive' = 0
    BY <1>5 DEF SwapBuffers, Analysing, numblobs
  <2>2. numblobs' \in Nat
    BY <1>5, PassedBlobs DEF SwapBuffers, IInv, FramesInv, numblobs
  <2>3. Len(blob_sid') = numblobs' /\ \A i \in 1 .. numblobs' : blob_sid'[i] = -1
    BY <2>1, <2>2
  <2>4. WithSession' = {}
    BY <2>3 DEF WithSession
  <2>5. SessionsAreBlobs'
    BY <1>1, <2>1, <2>3, <2>4 DEF SessionsAreBlobs
  <2>6. OneBlobPerSession'
    BY <1>1, <2>4 DEF IInv, OneBlobPerSession
  <2>7. BeforeInv'
    BY <1>1, <1>2, <2>1 DEF BeforeInv
  <2>8. MatchInv'
    <3>1. ASSUME NEW s \in _sessions, NEW n \in 0 .. s.sid - 1 PROVE n \in Sids(s.region)'
      <4>1. s \in Session /\ s.region \in Regions /\ s.sid \in Nat /\ s.sid \in Sids(s.region)
        BY DEF IInv, TypeOK, Session, Sids
      <4>2. Cardinality(Sids(s.region)) \in Nat
        BY <1>2, SidsFinite, FS_CardinalityType
      <4> QED BY <1>3, <4>1, <4>2
    <3> QED BY <1>1, <2>4, <3>1 DEF MatchInv
  <2>9. HandsInv'
    BY <1>1, <2>1, <2>4 DEF HandsInv, Old
  <2>10. LowestIds'
    BY <2>1 DEF LowestIds
  <2>11. DepthInv'
    <3>1. Deep(next - 1)' = {} /\ Cardinality({}) = 0
      BY <2>1, FS_EmptySet DEF Deep
    <3>2. (nactive = Cardinality(Deep(next - 1)) /\ Deep(next - 1) \subseteq WithSession)'
      BY <2>1, <3>1
    <3>3. next' <= numblobs' + 1
      <4>1. next' = 1 BY <2>1
      <4>2. \A n \in Nat : 1 <= n + 1 OBVIOUS
      <4> QED BY <2>2, <4>1, <4>2
    <3>4. ~ val_showrawdepth'
      BY <1>1, <1>5
    <3> QED BY <2>1, <3>2, <3>3, <3>4 DEF DepthInv
  <2> QED BY <2>5, <2>6, <2>7, <2>8, <2>9, <2>10, <2>11 DEF Rest, Matched
<1> QED BY <1>4, <1>5

\* What DepthInv says of the NULL session.
CrashInv ==
    pc = "crashed" =>
        \/ ~ front.fresh
        \/ \E i \in 1 .. numblobs \ WithSession : _newblobresult[i].thin /\ ~ val_blob_filter

\* Outside analyzePixels there is nothing to match, and sessions stay or all go.
LEMMA OutsideStep ==
    ASSUME IInv, pc # "match", pc' \in {"update", "json", "analyze", "crashed"},
           _sessions' \in {_sessions, {}}, CrashInv'
    PROVE  Rest'
<1>1. ~ Analysing' /\ pc' # "match"
  BY DEF Analysing
<1>2. LowestIds'
  <2>1. CASE _sessions' = _sessions
    BY <2>1 DEF IInv, LowestIds, Sids
  <2>2. CASE _sessions' = {}
    <3>1. \A r \in Regions : Sids(r)' = {}
      BY <2>2 DEF Sids
    <3> QED BY <3>1, FS_EmptySet DEF LowestIds
  <2> QED BY <2>1, <2>2
<1>3. BeforeInv'
  <2>1. IsFiniteSet(_sessions')
    BY FS_EmptySet DEF IInv, BeforeInv
  <2> QED BY <1>1, <2>1 DEF IInv, BeforeInv
<1> QED BY <1>1, <1>2, <1>3
        DEF IInv, Rest, Matched, SessionsAreBlobs, OneBlobPerSession, MatchInv, HandsInv, DepthInv,
            CrashInv

LEMMA OtherStep ==
    ASSUME IInv,
           \/ ProcessDepth \/ WindowMessage \/ ChangeSettings \/ LoadPatch \/ Crash
           \/ \E lost \in SUBSET Streams : SendTuio(lost)
           \/ TimePasses \/ CalmsDown \/ UNCHANGED vars
    PROVE  Rest'
<1> USE DEF settings, range, frames, analysis, tuio
<1>1. CASE ProcessDepth \/ WindowMessage \/ ChangeSettings \/ LoadPatch
           \/ \E lost \in SUBSET Streams : SendTuio(lost)
  <2>1. /\ pc # "match" /\ pc' \in {"update", "json", "analyze"}
        /\ _sessions' \in {_sessions, {}}
    BY <1>1 DEF ProcessDepth, WindowMessage, ChangeSettings, LoadPatch, SendTuio
  <2> QED BY <2>1, OutsideStep DEF CrashInv
<1>2. CASE Crash
  <2>1. /\ pc = "depth" /\ pc' = "crashed" /\ next > numblobs
        /\ UNCHANGED <<settings, front, _sessions, analysis>>
        /\ \E i \in 1 .. numblobs : blob_sid[i] < 0
    BY <1>2 DEF Crash, NullSession
  <2>2. CASE front.fresh
    <3>1. PICK i \in 1 .. numblobs : blob_sid[i] < 0
      BY <2>1
    <3>2. next - 1 = numblobs /\ i \notin WithSession
      BY <2>1, <3>1, InDepth DEF WithSession
    <3>3. Deep(numblobs) \subseteq WithSession
      BY <2>1, <2>2, <3>2 DEF IInv, DepthInv, Analysing
    <3>4. _newblobresult[i].thin /\ ~ val_blob_filter
      BY <3>2, <3>3 DEF Deep, IInv, FramesInv
    <3>5. numblobs' = numblobs /\ WithSession' = WithSession
      BY <2>1 DEF numblobs, WithSession
    <3>6. CrashInv'
      BY <2>1, <3>2, <3>4, <3>5 DEF CrashInv
    <3> QED BY <2>1, <3>6, OutsideStep
  <2>3. CASE ~ front.fresh
    <3>1. CrashInv'
      BY <2>1, <2>3 DEF CrashInv
    <3> QED BY <2>1, <3>1, OutsideStep
  <2> QED BY <2>2, <2>3
<1>3. CASE TimePasses \/ UNCHANGED vars \/ CalmsDown
  <2>1. UNCHANGED <<pc, settings, front, _sessions, analysis>>
    BY <1>3 DEF TimePasses, CalmsDown, vars
  <2>2. Matched' /\ LowestIds' /\ WithSession' = WithSession /\ numblobs' = numblobs
    BY <2>1, NothingNew
  <2>3. DepthInv'
    <3>1. Deep(next - 1)' = Deep(next - 1)
      BY <2>1 DEF Deep
    <3> QED BY <2>1, <2>2, <3>1 DEF IInv, DepthInv, Analysing
  <2> QED BY <2>2, <2>3 DEF Rest
<1> QED BY <1>1, <1>2, <1>3

-----------------------------------------------------------------------------
(* The theorems. *)

LEMMA IInvInit == Init => IInv
<1> SUFFICES ASSUME Init PROVE IInv
  OBVIOUS
<1>1. ~ Analysing /\ pc = "update" /\ _sessions = {} /\ _newblobresult = <<>>
  BY DEF Init, Analysing
<1>2. TypeOK
  <2>1. blob_sid \in Seq(Nat \cup {-1}) /\ _newblobresult \in Seq(Blob)
    BY EmptySeq DEF Init
  <2>2. mid \in Frame /\ front \in Frame
    BY NoFrameIsFrame DEF Init
  <2>3. next \in Nat \ {0} /\ nactive \in Nat
    BY DEF Init
  <2>4. /\ due \in BOOLEAN /\ calm \in BOOLEAN
        /\ val_backtop \in Depths /\ val_showrawdepth \in BOOLEAN /\ val_blob_filter \in BOOLEAN
    BY Zenon DEF Init
  <2>5. /\ _sessions \subseteq Session /\ left \subseteq Session /\ before \subseteq Session
        /\ ghost \subseteq Streams
    BY DEF Init
  <2> QED BY <1>1, <2>1, <2>2, <2>3, <2>4, <2>5 DEF TypeOK
<1>3. FramesInv
  <2>1. numblobs = 0
    BY <1>1 DEF numblobs
  <2> QED BY <1>1, <2>1, NoFrameIsFrame, RegionsAssumption DEF Init, FramesInv
<1>4. LowestIds
  <2>1. \A r \in Regions : Sids(r) = {}
    BY <1>1 DEF Sids
  <2>2. Cardinality({}) = 0 /\ {} = 0 .. 0 - 1
    BY FS_EmptySet
  <2> QED BY <2>1, <2>2 DEF LowestIds
<1>5. BeforeInv
  BY <1>1, FS_EmptySet DEF BeforeInv
<1> QED BY <1>1, <1>2, <1>3, <1>4, <1>5
        DEF IInv, SessionsAreBlobs, OneBlobPerSession, MatchInv, HandsInv, DepthInv

\* The sessions are those of the blobs, each with an id of its own, and the ids of a region
\* are the lowest there are: analyzePixels with getAvailableSid keeps this for any number
\* of regions and blobs, through commands, patches and frames that come twice.
THEOREM Invariance == Spec => []IInv
<1>1. IInv /\ [Next]_vars => IInv'
  <2> SUFFICES ASSUME IInv, [Next]_vars PROVE IInv'
    OBVIOUS
  <2>1. TypeOK' /\ FramesInv'
    BY TypeStep, FramesStep
  <2>2. Rest'
    BY MatchSessionStep, EndMatchStep, ComputeDepthStep, SwapBuffersStep, OtherStep DEF Next, Step
  <2> QED BY <2>1, <2>2 DEF IInv, Rest, Matched
<1> QED BY IInvInit, <1>1, PTL DEF Spec

\* A hand that stays keeps its id when new ones join, in whatever order CBlobResult finds
\* the blobs: the loop over the sessions in analyzePixels takes no blob away from the
\* session whose place it is at, where sessions have places of their own.
THEOREM NobodySteals == Spec => []HandsKeepTheirIds
<1>1. IInv => HandsKeepTheirIds
  <2> SUFFICES ASSUME IInv, pc = "depth", NEW r \in Regions,
                      OneCenterEach(Old(r)),
                      \A s \in Old(r) :
                          s.center \in {_newblobresult[i].at :
                              i \in {k \in 1 .. numblobs : _newblobresult[k].region = r}}
               PROVE  Old(r) \subseteq _sessions
    BY DEF HandsKeepTheirIds
  <2>1. Stays(r)
    BY DEF Stays, Old
  <2> QED BY <2>1 DEF IInv, HandsInv, Analysing
<1> QED BY <1>1, Invariance, PTL

\* Every blob with a pixel in its box is given a session and counted, unless a command has
\* changed the depth range since the frame was filtered; and if none has, the NULL session is
\* reached by a thin blob that was not filtered.
THEOREM BlobsHaveSessions == Spec => []EveryBlobHasSession
<1>1. IInv => EveryBlobHasSession
  <2> SUFFICES ASSUME IInv PROVE EveryBlobHasSession
    OBVIOUS
  <2>1. pc = "crashed" /\ front.fresh =>
          \E i \in 1 .. numblobs \ WithSession : _newblobresult[i].thin /\ ~ val_blob_filter
    BY DEF IInv, DepthInv
  <2>2. ASSUME Finished, front.fresh
        PROVE  nactive = Cardinality(Deep(numblobs)) /\ Deep(numblobs) \subseteq WithSession
    <3>1. next - 1 = numblobs
      BY <2>2, InDepth DEF Finished
    <3> QED BY <2>2, <3>1 DEF IInv, DepthInv, Analysing, Finished
  <2> QED BY <2>1, <2>2 DEF EveryBlobHasSession
<1> QED BY <1>1, Invariance, PTL

LEMMA SessionHasId ==
    ASSUME IInv, pc = "depth", NEW i \in WithSession
    PROVE  blob_sid[i] \in Sids(_newblobresult[i].region)
<1>1. /\ SessionOf(i) \in _sessions
      /\ SessionOf(i).region = _newblobresult[i].region /\ SessionOf(i).sid = blob_sid[i]
  BY InDepth DEF SessionOf
<1> QED BY <1>1 DEF Sids

\* A region has no more sessions than the frame has blobs.
LEMMA SidsBounded ==
    ASSUME IInv, pc = "depth", NEW r \in Regions
    PROVE  \A n \in Sids(r) : n < MaxBlobs
<1> DEFINE S == {i \in WithSession : _newblobresult[i].region = r}
<1> DEFINE f == [i \in S |-> blob_sid[i]]
<1>1. S \subseteq 1 .. numblobs /\ numblobs \in Nat
  BY InDepth DEF WithSession
<1>2. IsFiniteSet(1 .. numblobs) /\ Cardinality(1 .. numblobs) = numblobs
  BY <1>1, FS_Interval
<1>3. IsFiniteSet(S) /\ Cardinality(S) <= numblobs
  BY <1>1, <1>2, FS_Subset
<1>4. f \in Surjection(S, Sids(r))
  <2>1. \A i \in S : blob_sid[i] \in Sids(r)
    BY SessionHasId
  <2>2. \A n \in Sids(r) : \E i \in S : blob_sid[i] = n
    BY InDepth DEF Sids, SessionOf
  <2> QED BY <2>1, <2>2 DEF Surjection
<1> HIDE DEF f
<1>5. IsFiniteSet(Sids(r)) /\ Cardinality(Sids(r)) <= Cardinality(S)
  BY <1>3, <1>4, FS_Surjection
<1>6. Cardinality(Sids(r)) \in Nat /\ Cardinality(S) \in Nat
  BY <1>3, <1>5, FS_CardinalityType
<1>7. numblobs <= MaxBlobs
  BY DEF IInv, FramesInv
<1>8. Sids(r) = 0 .. Cardinality(Sids(r)) - 1
  BY DEF IInv, LowestIds
<1> QED BY <1>1, <1>3, <1>5, <1>6, <1>7, <1>8, RegionsAssumption

\* No two blobs of a frame are sent under one TUIO session id, between regions too, as
\* long as their _first_sid are as far apart as a frame has blobs; except thin blobs
\* without a session.
THEOREM TuioIds == Spec => []TuioIdsDistinct
<1>1. IInv => TuioIdsDistinct
  <2> SUFFICES ASSUME IInv, FarApart, Finished, front.fresh,
                      NEW i \in Deep(numblobs) \cup WithSession, NEW j \in Deep(numblobs) \cup WithSession,
                      tuioSessionId(i) = tuioSessionId(j)
               PROVE  i = j
    BY DEF TuioIdsDistinct
  <2> DEFINE r == _newblobresult[i].region
  <2> DEFINE q == _newblobresult[j].region
  <2>1. pc = "depth" /\ Analysing
    BY DEF Finished, Analysing
  <2>2. i \in WithSession /\ j \in WithSession
    <3>1. next = numblobs + 1
      BY <2>1, InDepth DEF Finished
    <3>2. next - 1 = numblobs
      BY <2>1, <3>1, InDepth
    <3>3. Deep(numblobs) \subseteq WithSession
      BY <2>1, <3>2 DEF IInv, DepthInv
    <3> QED BY <3>3
  <2>3. r \in Regions /\ q \in Regions
    BY <2>1, <2>2, InDepth DEF Blob, WithSession
  <2>4. blob_sid[i] \in Sids(r) /\ blob_sid[j] \in Sids(q)
    BY <2>1, <2>2, SessionHasId
  <2>5. blob_sid[i] \in Nat /\ blob_sid[j] \in Nat
    BY <2>1, <2>2, InDepth DEF WithSession
  <2>6. blob_sid[i] < MaxBlobs /\ blob_sid[j] < MaxBlobs
    BY <2>1, <2>3, <2>4, SidsBounded
  <2>7. FirstSid[r] \in Nat /\ FirstSid[q] \in Nat /\ r \in Nat /\ q \in Nat
    BY <2>3, RegionsAssumption
  <2>8. FirstSid[r] + blob_sid[i] = FirstSid[q] + blob_sid[j]
    BY DEF tuioSessionId
  <2>9. /\ r < q => FirstSid[r] + MaxBlobs <= FirstSid[q]
        /\ q < r => FirstSid[q] + MaxBlobs <= FirstSid[r]
    BY <2>3 DEF FarApart
  <2>10. r = q
    BY <2>5, <2>6, <2>7, <2>8, <2>9, RegionsAssumption
  <2>11. blob_sid[i] = blob_sid[j]
    BY <2>5, <2>7, <2>8, <2>10
  <2> QED BY <2>1, <2>2, <2>10, <2>11 DEF IInv, OneBlobPerSession
<1> QED BY <1>1, Invariance, PTL
=============================================================================
