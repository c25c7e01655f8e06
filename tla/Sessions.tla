------------------------------ MODULE Sessions ------------------------------
(***************************************************************************)
(* Blobs, sessions and what TUIO clients are told (mmtt_server.cpp:         *)
(* analyze_depth_images, analyzePixels, doTuio1_25D, doTuio1_2D, doTuio2;   *)
(* mmtt_kinect.cpp: Update, processRawDepth).  All of it runs in the main   *)
(* thread, in a loop: Update, check_json_and_execute, analyze_depth_images. *)
(*                                                                         *)
(* The depth range is used twice: processRawDepth decides with it which     *)
(* pixels are white, analyzePixels which of them count for a blob's depth.  *)
(* A command may change it in between.                                      *)
(*                                                                         *)
(* A blob is the region its centre is in, the place of the centre, and one  *)
(* depth for all its pixels, 0 if the camera measured nothing.  A blob is    *)
(* thin when its bounding box holds none of its own pixels nor any other    *)
(* that counts: GetBoundingBox leaves out the last column and the last row, *)
(* so the box of a line or of a single pixel is empty.  Blobs in no region  *)
(* are left out: every loop skips them.                                     *)
(***************************************************************************)
EXTENDS Integers, Sequences, FiniteSets

CONSTANTS
    Regions,        \* ids of the regions
    FirstSid,       \* for each region its _first_sid
    Blobs,          \* blobs the camera may see
    MaxBlobs,       \* bound on the blobs of a frame
    Depths,         \* depths a blob may have, and values of val_backtop
    Streams,        \* the TUIO streams that have clients: "25D", "2D", "2"
    SharedMemory    \* _do_sharedmem, and the memory of outlines is there

Blob == [region : Regions, at : Int, thin : BOOLEAN, depth : Depths \cup {0}]

ASSUME RegionsAssumption ==
    /\ Regions \subseteq Nat
    /\ FirstSid \in [Regions -> Nat]
    /\ Blobs \subseteq Blob
    /\ MaxBlobs \in Nat
    /\ Depths \subseteq Nat \ {0}
ASSUME ClientsAssumption ==
    /\ Streams # {} /\ Streams \subseteq {"25D", "2D", "2"}
    /\ SharedMemory \in BOOLEAN

VARIABLES
    pc,                 \* where the main loop is
    val_backtop,        \* the farthest depth that counts
    val_showrawdepth,   \* while TRUE nothing is filtered and nothing analysed
    val_blob_filter,    \* blobs are filtered, with a val_blob_minsize above the thin ones'
    mid,                \* the frame buffer the camera writes
    front,              \* the frame buffer that is analysed
    _sessions,          \* the sessions of all regions
    _newblobresult,     \* the blobs of front that are analysed, in the order they were found
    left,               \* sessions that have not looked for their blob yet
    blob_sid,           \* the session of each of these blobs, -1 for none
    next,               \* the blob whose depth is computed next
    nactive,            \* blobs with a depth
    due,                \* more than 100 ms since _tuio_last_sent
    ghost,              \* the streams whose client believes that something is there
    before,             \* history: the sessions when the analysis began
    calm                \* nothing touches surface, window or settings any more

range == <<val_backtop, val_showrawdepth>>
settings == <<range, val_blob_filter>>
frames == <<mid, front>>
analysis == <<_newblobresult, left, blob_sid, next, nactive, before>>
tuio == <<due, ghost>>
vars == <<pc, settings, frames, _sessions, analysis, tuio, calm>>

Session == [region : Regions, sid : Nat, center : Int]

\* A frame: its blobs, and whether the depth range is still the one its pixels were
\* filtered with (history).
NoFrame == [blobs |-> {}, fresh |-> TRUE]

numblobs == Len(_newblobresult)

Init ==
    /\ pc = "update"
    /\ val_backtop \in Depths /\ val_showrawdepth = FALSE /\ val_blob_filter = TRUE
    /\ mid = NoFrame /\ front = NoFrame
    /\ _sessions = {}
    /\ _newblobresult = <<>>
    /\ left = {} /\ blob_sid = <<>> /\ next = 1 /\ nactive = 0 /\ before = {}
    /\ due = TRUE /\ ghost = {}
    /\ calm = FALSE

-----------------------------------------------------------------------------
(* The camera. *)

InRange(depth) == depth # 0 /\ depth <= val_backtop

\* Bug: pixels a little behind the range are white as well.
BugFarther(blob) == val_showrawdepth \/ blob.depth \in 1 .. val_backtop + 1

\* A blob whose pixels processRawDepth makes white.
White(blob) == val_showrawdepth \/ InRange(blob.depth)

\* What the camera may show.  Several blobs may have one centre: a ring and what is inside
\* it, or single pixels, whose empty boxes are all at the image's corner.
Visible == {blob \in Blobs : White(blob)}
Scenes ==
    {blobs \in SUBSET Visible : IsFiniteSet(blobs) /\ Cardinality(blobs) <= MaxBlobs}

\* Update with a depth event.
ProcessDepth ==
    /\ pc = "update"
    /\ \E blobs \in IF calm THEN {{}} ELSE Scenes : mid' = [blobs |-> blobs, fresh |-> TRUE]
    /\ pc' = "json"
    /\ UNCHANGED <<settings, front, _sessions, analysis, tuio, calm>>

\* Update returns for a window message: no new frame.
WindowMessage ==
    /\ pc = "update"
    /\ ~ calm
    /\ pc' = "json"
    /\ UNCHANGED <<settings, frames, _sessions, analysis, tuio, calm>>

-----------------------------------------------------------------------------
(* check_json_and_execute: the commands that matter here, if one is pending. *)

SetValues ==
    /\ val_backtop' \in Depths /\ val_showrawdepth' \in BOOLEAN /\ val_blob_filter' \in BOOLEAN
    /\ mid' = [mid EXCEPT !.fresh = @ /\ range' = range]
    /\ front' = [front EXCEPT !.fresh = @ /\ range' = range]

\* The depth range, start and stop, or the filter of blobs and its limits.
ChangeSettings ==
    /\ pc = "json"
    /\ ~ calm
    /\ SetValues
    /\ pc' = "analyze"
    /\ UNCHANGED <<_sessions, analysis, tuio, calm>>

\* A patch is loaded: values for the settings, and regions, which are new objects without
\* sessions.
LoadPatch ==
    /\ pc = "json"
    /\ ~ calm
    /\ SetValues
    /\ _sessions' = {}
    /\ pc' = "analyze"
    /\ UNCHANGED <<analysis, tuio, calm>>

-----------------------------------------------------------------------------
(* analyze_depth_images, and analyzePixels when it is called. *)

\* The filter keeps the blobs within its limits of size, which any command may change.
Passes(blobs, passed) ==
    IF val_blob_filter THEN \A blob \in passed : ~ blob.thin ELSE passed = blobs

\* The orders in which CBlobResult may find blobs.
Orders(blobs) ==
    {order \in [1 .. Cardinality(blobs) -> blobs] :
        \A i, j \in DOMAIN order : order[i] = order[j] => i = j}

\* The buffers are swapped even if the camera wrote nothing.
SwapBuffers ==
    /\ pc \in {"json", "analyze"}
    /\ front' = mid /\ mid' = front
    /\ IF val_showrawdepth
       THEN /\ pc' = "update"
            /\ UNCHANGED analysis
       ELSE /\ pc' = "match"
            /\ \E passed \in SUBSET mid.blobs :
                  /\ Passes(mid.blobs, passed)
                  /\ _newblobresult' \in Orders(passed)
            /\ left' = _sessions /\ before' = _sessions
            /\ blob_sid' = [i \in 1 .. Len(_newblobresult') |-> -1]
            /\ next' = 1 /\ nactive' = 0
    /\ UNCHANGED <<settings, _sessions, tuio, calm>>

Abs(n) == IF n < 0 THEN -n ELSE n

\* Bug: a blob may be taken twice.
BugTaken(region) == {i \in 1 .. numblobs : _newblobresult[i].region = region}

\* The blobs of a region that no session has yet.
FreeBlobs(region) ==
    {i \in 1 .. numblobs : _newblobresult[i].region = region /\ blob_sid[i] < 0}

\* Bug: the blob found first, not the closest one.
BugFirst(s, i) == \A j \in FreeBlobs(s.region) : i <= j

\* Of the free blobs of its region the closest to a session, the first of them if there
\* are several.
Closest(s, i) ==
    LET dist(j) == Abs(_newblobresult[j].at - s.center)
    IN  \A j \in FreeBlobs(s.region) : dist(i) < dist(j) \/ (dist(i) = dist(j) /\ i <= j)

\* Regions one after the other, the sessions of a region by their ids.
Precedes(s, t) == s.region < t.region \/ (s.region = t.region /\ s.sid <= t.sid)

\* A session takes its blob, or ends.
MatchSession ==
    /\ pc = "match"
    /\ \E s \in left :
          /\ \A t \in left : Precedes(s, t)
          /\ left' = left \ {s}
          /\ \/ /\ FreeBlobs(s.region) = {}
                /\ _sessions' = _sessions \ {s}
                /\ UNCHANGED blob_sid
             \/ \E i \in FreeBlobs(s.region) :
                   /\ Closest(s, i)
                   /\ _sessions' = (_sessions \ {s}) \cup {[s EXCEPT !.center = _newblobresult[i].at]}
                   /\ blob_sid' = [blob_sid EXCEPT ![i] = s.sid]
    /\ UNCHANGED <<pc, settings, frames, _newblobresult, next, nactive, before, tuio, calm>>

EndMatch ==
    /\ pc = "match" /\ left = {}
    /\ pc' = "depth"
    /\ UNCHANGED <<settings, frames, _sessions, analysis, tuio, calm>>

Sids(region) == {s.sid : s \in {t \in _sessions : t.region = region}}

\* Bug: the sessions of all regions are counted.
BugCountAll(region) == Cardinality(_sessions)

getAvailableSid(region) ==
    CHOOSE n \in 0 .. Cardinality(Sids(region)) :
        n \notin Sids(region) /\ \A m \in 0 .. n - 1 : m \in Sids(region)

\* Whether analyzePixels finds a depth in the blob's box.
HasDepth(blob) == ~ blob.thin /\ InRange(blob.depth)

\* The next blob: without a depth in its box it is passed over, with or without a session.
ComputeDepth ==
    LET blob == _newblobresult[next]
        sid == getAvailableSid(blob.region)
    IN  /\ pc = "depth" /\ next <= numblobs
        /\ next' = next + 1
        /\ \/ /\ ~ HasDepth(blob)
              /\ UNCHANGED <<_sessions, blob_sid, nactive>>
           \/ /\ HasDepth(blob) /\ blob_sid[next] >= 0
              /\ nactive' = nactive + 1
              /\ UNCHANGED <<_sessions, blob_sid>>
           \/ /\ HasDepth(blob) /\ blob_sid[next] < 0
              /\ nactive' = nactive + 1
              /\ _sessions' = {s \in _sessions : ~ (s.region = blob.region /\ s.sid = sid)}
                                 \cup {[region |-> blob.region, sid |-> sid, center |-> blob.at]}
              /\ blob_sid' = [blob_sid EXCEPT ![next] = sid]
        /\ UNCHANGED <<pc, settings, frames, _newblobresult, left, before, tuio, calm>>

-----------------------------------------------------------------------------
(* doTuio1_25D, doTuio1_2D, doTuio2, the memory of outlines. *)

\* A blob without session: doTuio1_25D and doTuio2, when they list the blobs, and the
\* memory of outlines use _sessions[-1], which is NULL.  doTuio1_2D uses its id only.
NullSession ==
    /\ \E i \in 1 .. numblobs : blob_sid[i] < 0
    /\ SharedMemory \/ (Streams # {"2D"} /\ nactive > 0)

Crash ==
    /\ pc = "depth" /\ next > numblobs
    /\ NullSession
    /\ pc' = "crashed"
    /\ UNCHANGED <<settings, frames, _sessions, analysis, tuio, calm>>

tuioSessionId(i) == FirstSid[_newblobresult[i].region] + blob_sid[i]

\* The stream whose turn is first.
FirstStream == IF "25D" \in Streams THEN "25D" ELSE IF "2D" \in Streams THEN "2D" ELSE "2"

\* Bug: the empty list is sent once, when the last session has ended.
BugOnce(lost) ==
    IF before # {}
    THEN /\ due' = FALSE
         /\ ghost' = ghost \ ({FirstStream} \ lost)
    ELSE UNCHANGED tuio

\* Nothing is active: an empty list, once in 100 ms.  The streams share _tuio_last_sent,
\* and the first has set it when the others look.
SendEmpty(lost) ==
    IF due
    THEN /\ due' = FALSE
         /\ ghost' = ghost \ ({FirstStream} \ lost)
    ELSE UNCHANGED tuio

\* The list of blobs, with every frame; doTuio2 makes a bundle that it does not send.
SendBlobs(lost) ==
    /\ ghost' = ghost \cup ((Streams \ {"2"}) \ lost)
    /\ UNCHANGED due

\* The messages are datagrams: some clients may not get them.
SendTuio(lost) ==
    /\ pc = "depth" /\ next > numblobs
    /\ ~ NullSession
    /\ IF nactive = 0 THEN SendEmpty(lost) ELSE SendBlobs(lost)
    /\ pc' = "update"
    /\ _newblobresult' = <<>>
    /\ left' = {} /\ blob_sid' = <<>> /\ next' = 1 /\ nactive' = 0 /\ before' = {}
    /\ UNCHANGED <<settings, frames, _sessions, calm>>

TimePasses ==
    /\ ~ due /\ due' = TRUE
    /\ UNCHANGED <<pc, settings, frames, _sessions, analysis, ghost, calm>>

CalmsDown ==
    /\ pc = "update"
    /\ ~ calm /\ calm' = TRUE
    /\ ~ val_showrawdepth
    /\ UNCHANGED <<pc, settings, frames, _sessions, analysis, tuio>>

Step ==
    ProcessDepth \/ WindowMessage \/ ChangeSettings \/ LoadPatch \/ SwapBuffers
        \/ MatchSession \/ EndMatch \/ ComputeDepth \/ Crash \/ \E lost \in SUBSET Streams : SendTuio(lost)

Next == Step \/ TimePasses \/ CalmsDown

Spec == Init /\ [][Next]_vars

-----------------------------------------------------------------------------
(* Safety. *)

Frame == [blobs : SUBSET Blob, fresh : BOOLEAN]

TypeOK ==
    /\ pc \in {"update", "json", "analyze", "match", "depth", "crashed"}
    /\ val_backtop \in Depths /\ val_showrawdepth \in BOOLEAN /\ val_blob_filter \in BOOLEAN
    /\ mid \in Frame /\ front \in Frame
    /\ _sessions \subseteq Session /\ left \subseteq Session /\ before \subseteq Session
    /\ _newblobresult \in Seq(Blob)
    /\ blob_sid \in Seq(Nat \cup {-1})
    /\ next \in Nat \ {0} /\ nactive \in Nat
    /\ due \in BOOLEAN /\ ghost \subseteq Streams
    /\ calm \in BOOLEAN

Analysing == pc \in {"match", "depth"}
Finished == pc = "depth" /\ next > numblobs

\* The session of a blob that has one.
SessionOf(i) == [region |-> _newblobresult[i].region, sid |-> blob_sid[i], center |-> _newblobresult[i].at]
WithSession == {i \in 1 .. numblobs : blob_sid[i] >= 0}

\* The sessions are those of the blobs and, until all have been matched, those that still
\* look for a blob: a session that found none is gone, whatever frames, commands and
\* patches came before, so none is shown, listed or timed without a blob.
SessionsAreBlobs ==
    /\ Analysing => /\ Len(blob_sid) = numblobs
                    /\ _sessions = left \cup {SessionOf(i) : i \in WithSession}
    /\ pc = "depth" => left = {}

\* An id belongs to one session of a region, and so to one blob.
OneBlobPerSession ==
    /\ \A s, t \in _sessions : s.region = t.region /\ s.sid = t.sid => s = t
    /\ Analysing =>
          \A i, j \in WithSession : _newblobresult[i].region = _newblobresult[j].region
                                      /\ blob_sid[i] = blob_sid[j] => i = j

\* The ids of a region that has n sessions are 0 to n-1: sessions look for their blobs in
\* the order of their ids, so it is always those with the highest that find none.
LowestIds ==
    pc # "match" => \A r \in Regions : Sids(r) = 0 .. Cardinality(Sids(r)) - 1

\* A frame has MaxBlobs blobs at most; while the depth range is the one it was filtered
\* with, they are white by it.  The blobs that are analysed are
\* some of them, thin ones only when nothing is filtered; afterwards there are none.
IsFrame(f) ==
    /\ IsFiniteSet(f.blobs) /\ Cardinality(f.blobs) <= MaxBlobs
    /\ f.fresh => \A blob \in f.blobs : White(blob)

FramesInv ==
    /\ IsFrame(mid) /\ IsFrame(front)
    /\ pc \in {"update", "json", "analyze"} => _newblobresult = <<>>
    /\ numblobs <= MaxBlobs
    /\ \A i \in 1 .. numblobs :
          /\ _newblobresult[i] \in front.blobs
          /\ _newblobresult[i].thin => ~ val_blob_filter
          /\ \A j \in 1 .. numblobs : _newblobresult[i] = _newblobresult[j] => i = j

BeforeInv ==
    /\ IsFiniteSet(_sessions)
    /\ Analysing => left \subseteq before

\* While sessions look for their blobs, those with lower ids have found theirs before, and
\* an id below theirs is free only if its session and they themselves have no blob left.
MatchInv ==
    pc = "match" =>
        /\ \A i \in WithSession, s \in left :
              _newblobresult[i].region = s.region => blob_sid[i] < s.sid
        /\ \A s \in _sessions : \A n \in 0 .. s.sid - 1 :
              n \in Sids(s.region) \/ (s \in left /\ FreeBlobs(s.region) = {})

OneCenterEach(S) == \A s, t \in S : s.center = t.center => s = t

\* In a region where every session, at a place of its own, finds a blob there, the sessions
\* that have been matched are still what they were.
Old(r) == {s \in before : s.region = r}
Stays(r) ==
    /\ OneCenterEach(Old(r))
    /\ \A s \in Old(r) :
          \E k \in 1 .. numblobs : _newblobresult[k].region = r /\ _newblobresult[k].at = s.center

HandsInv ==
    Analysing =>
        \A r \in Regions : Stays(r) =>
            /\ Old(r) \subseteq _sessions
            /\ pc = "match" => \A i \in WithSession : _newblobresult[i].region = r => SessionOf(i) \in before

\* Where the depth range has not changed, every blob that was passed has a session, except
\* thin ones; the NULL session is reached by a blob of an old range, or by a thin one.
Deep(n) == {i \in 1 .. n : ~ _newblobresult[i].thin}
DepthInv ==
    /\ Analysing =>
          /\ ~ val_showrawdepth
          /\ next <= numblobs + 1
          /\ pc = "match" => next = 1 /\ nactive = 0
          /\ front.fresh => nactive = Cardinality(Deep(next - 1)) /\ Deep(next - 1) \subseteq WithSession
    /\ pc = "crashed" =>
          \/ ~ front.fresh
          \/ \E i \in 1 .. numblobs \ WithSession : _newblobresult[i].thin /\ ~ val_blob_filter

IInv ==
    /\ TypeOK
    /\ SessionsAreBlobs
    /\ OneBlobPerSession
    /\ LowestIds
    /\ FramesInv
    /\ BeforeInv
    /\ MatchInv
    /\ HandsInv
    /\ DepthInv

\* Nobody steals: if all sessions of a region find a blob where theirs has been, each keeps
\* its own, whatever blobs are new, also at the same places, and in whatever order CBlobResult
\* found them.  Sessions that had one centre cannot be told apart by it, and are excepted.
HandsKeepTheirIds ==
    pc = "depth" =>
        \A r \in Regions :
            LET at == {_newblobresult[i].at : i \in {k \in 1 .. numblobs : _newblobresult[k].region = r}}
            IN  OneCenterEach(Old(r)) /\ (\A s \in Old(r) : s.center \in at) => Old(r) \subseteq _sessions

\* "Any that are not attached to an existing session id will be attached to a new session":
\* this holds of every blob with a pixel in its box, when the depth range has not changed
\* since the camera's pixels were filtered; the frame may be an old one.  To the NULL
\* session leads a change of the range, or a thin blob that no filter has taken out.
EveryBlobHasSession ==
    /\ pc = "crashed" /\ front.fresh =>
          \E i \in 1 .. numblobs \ WithSession : _newblobresult[i].thin /\ ~ val_blob_filter
    /\ Finished /\ front.fresh =>
          nactive = Cardinality(Deep(numblobs)) /\ Deep(numblobs) \subseteq WithSession

\* The ids a TUIO message lists are all different, between regions too, as long as their
\* _first_sid are far enough apart for the blobs of one region.  Thin blobs are excepted:
\* those without a session are listed under the id before the first of their region.
FarApart == \A r, q \in Regions : r < q => FirstSid[r] + MaxBlobs <= FirstSid[q]
TuioIdsDistinct ==
    FarApart /\ Finished /\ front.fresh =>
        \A i, j \in Deep(numblobs) \cup WithSession : tuioSessionId(i) = tuioSessionId(j) => i = j

-----------------------------------------------------------------------------
(* Liveness. *)

\* An empty list that is due reaches the client of the first stream.
Delivered ==
    /\ due /\ nactive = 0
    /\ \E lost \in SUBSET Streams : FirstStream \notin lost /\ SendTuio(lost)

\* The loop goes on, time passes, and a client cannot miss every datagram.  It is enough to
\* ask this of the time when nothing touches the surface.
LiveSpec ==
    /\ Spec
    /\ WF_vars(calm /\ Step)
    /\ WF_vars(calm /\ TimePasses)
    /\ SF_vars(calm /\ Delivered)

\* When nothing touches the surface any more, its sessions end, and the client of the first
\* stream learns it and keeps believing it, though it may have missed any datagram.
GoneIsTold ==
    <>[]calm => <>[](pc = "crashed" \/ (_sessions = {} /\ FirstStream \notin ghost))
=============================================================================
