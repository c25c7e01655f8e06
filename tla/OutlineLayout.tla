---------------------------- MODULE OutlineLayout ----------------------------
(***************************************************************************)
(* Where the outlines and points of a frame lie in the shared memory        *)
(* (mmtt_sharedmem.h: outline, point, calcOutlineOffset, calcPointOffset;   *)
(* mmtt_sharedmem.cpp: xinit; mmtt_server.cpp: setup_shmem_for_outlines).   *)
(* After the header come the lists of outlines of all buffers, then their   *)
(* lists of points.  addOutline and addPoint write record number            *)
(* numoutlines[b] or numpoints[b] without looking at the maxima, so the      *)
(* theorems say what fits and where the first record that does not ends up.  *)
(* Offsets are bytes from the end of the header.                            *)
(***************************************************************************)
EXTENDS Integers, TLAPS

NUM_BUFFS == 3
sizeofOutlineMem == 32      \* four ints and four floats
sizeofPointMem == 12        \* three floats

\* A layout: the fields noutlines_max and npoints_max of the header.
Maxima == [noutlines_max : Nat, npoints_max : Nat]

calcOutlineOffset(h, b, n) == b * (h.noutlines_max * sizeofOutlineMem) + n * sizeofOutlineMem

calcPointOffset(h, b, n) ==
    NUM_BUFFS * (h.noutlines_max * sizeofOutlineMem)
        + b * (h.npoints_max * sizeofPointMem) + n * sizeofPointMem

\* What the segment is made for, without the header.
datasize(h) ==
    NUM_BUFFS * (h.noutlines_max * sizeofOutlineMem) + NUM_BUFFS * (h.npoints_max * sizeofPointMem)

\* A new mapping is zero, and xinit stores offsets before it sets the maxima.
ZeroHeader == [noutlines_max |-> 0, npoints_max |-> 0]
outlinesOffset(b) == calcOutlineOffset(ZeroHeader, b, 0)
pointsOffset(b) == calcPointOffset(ZeroHeader, b, 0)

-----------------------------------------------------------------------------
Buffers == 0 .. NUM_BUFFS - 1

\* A record that begins at i ends before one that begins at j, or after it.
Apart(i, size, j, other) == i + size <= j \/ j + other <= i

\* The list of outlines of buffer b, and the list of its points, in bytes.
outlineBytes(h) == h.noutlines_max * sizeofOutlineMem
pointBytes(h) == h.npoints_max * sizeofPointMem

\* Multiples of a list's length by a buffer's number, for the provers.
LEMMA Multiples ==
    ASSUME NEW size \in Nat, NEW b \in Buffers, NEW c \in Buffers
    PROVE  /\ b * size \in Nat
           /\ (b + 1) * size = b * size + size
           /\ b < c => (b + 1) * size <= c * size
           /\ b < NUM_BUFFS - 1 => b + 1 \in Buffers
           /\ (b + 1) * size <= NUM_BUFFS * size
<1>1. b \in {0, 1, 2} /\ c \in {0, 1, 2}
  BY DEF Buffers, NUM_BUFFS
<1> QED BY <1>1 DEF Buffers, NUM_BUFFS

\* An outline within the maximum lies in the list of its own buffer.
LEMMA OutlineInItsList ==
    ASSUME NEW h \in Maxima, NEW b \in Buffers, NEW n \in 0 .. h.noutlines_max - 1
    PROVE  /\ calcOutlineOffset(h, b, n) \in Nat
           /\ b * outlineBytes(h) <= calcOutlineOffset(h, b, n)
           /\ calcOutlineOffset(h, b, n) + sizeofOutlineMem <= (b + 1) * outlineBytes(h)
<1>1. /\ outlineBytes(h) \in Nat
      /\ n * 32 \in Nat
      /\ n * 32 + 32 <= outlineBytes(h)
  BY DEF Maxima, outlineBytes, sizeofOutlineMem
<1>2. /\ b * outlineBytes(h) \in Nat
      /\ (b + 1) * outlineBytes(h) = b * outlineBytes(h) + outlineBytes(h)
  BY <1>1, Multiples
<1>3. calcOutlineOffset(h, b, n) = b * outlineBytes(h) + n * 32
  BY DEF calcOutlineOffset, outlineBytes, sizeofOutlineMem
<1> QED BY <1>1, <1>2, <1>3 DEF sizeofOutlineMem

\* A point within the maximum lies in the list of its own buffer, behind all
\* the outlines.
LEMMA PointInItsList ==
    ASSUME NEW h \in Maxima, NEW b \in Buffers, NEW n \in 0 .. h.npoints_max - 1
    PROVE  LET start == NUM_BUFFS * outlineBytes(h)
           IN  /\ calcPointOffset(h, b, n) \in Nat
               /\ start + b * pointBytes(h) <= calcPointOffset(h, b, n)
               /\ calcPointOffset(h, b, n) + sizeofPointMem
                    <= start + (b + 1) * pointBytes(h)
<1> DEFINE start == NUM_BUFFS * outlineBytes(h)
<1>1. /\ start \in Nat
      /\ pointBytes(h) \in Nat
      /\ n * 12 \in Nat
      /\ n * 12 + 12 <= pointBytes(h)
  BY DEF Maxima, outlineBytes, pointBytes, sizeofOutlineMem, sizeofPointMem, NUM_BUFFS
<1>2. /\ b * pointBytes(h) \in Nat
      /\ (b + 1) * pointBytes(h) = b * pointBytes(h) + pointBytes(h)
  BY <1>1, Multiples
<1>3. calcPointOffset(h, b, n) = start + b * pointBytes(h) + n * 12
  BY DEF calcPointOffset, outlineBytes, pointBytes, sizeofPointMem
<1> HIDE DEF start
<1>4. /\ start + b * pointBytes(h) + n * 12 \in Nat
      /\ start + b * pointBytes(h) <= start + b * pointBytes(h) + n * 12
      /\ start + b * pointBytes(h) + n * 12 + 12 <= start + (b + 1) * pointBytes(h)
  BY <1>1, <1>2
<1> QED BY <1>3, <1>4 DEF start, sizeofPointMem

\* No two outlines within the maximum overlap, whichever buffers they are in:
\* a receiver that draws one buffer does not see what the server adds to
\* another (outline, with the maxima xinit sets).
THEOREM OutlinesApart ==
    ASSUME NEW h \in Maxima,
           NEW b \in Buffers, NEW n \in 0 .. h.noutlines_max - 1,
           NEW c \in Buffers, NEW k \in 0 .. h.noutlines_max - 1,
           <<b, n>> # <<c, k>>
    PROVE  Apart(calcOutlineOffset(h, b, n), sizeofOutlineMem,
                 calcOutlineOffset(h, c, k), sizeofOutlineMem)
<1>1. outlineBytes(h) \in Nat
  BY DEF Maxima, outlineBytes, sizeofOutlineMem
<1>2. b \in Int /\ c \in Int
  BY DEF Buffers
<1>3. CASE b < c
  <2>1. (b + 1) * outlineBytes(h) <= c * outlineBytes(h)
    BY <1>1, <1>3, Multiples
  <2>2. (b + 1) * outlineBytes(h) \in Int /\ c * outlineBytes(h) \in Int
    BY <1>1, Multiples
  <2> QED BY <2>1, <2>2, OutlineInItsList DEF Apart, sizeofOutlineMem
<1>4. CASE c < b
  <2>1. (c + 1) * outlineBytes(h) <= b * outlineBytes(h)
    BY <1>1, <1>4, Multiples
  <2>2. (c + 1) * outlineBytes(h) \in Int /\ b * outlineBytes(h) \in Int
    BY <1>1, Multiples
  <2> QED BY <2>1, <2>2, OutlineInItsList DEF Apart, sizeofOutlineMem
<1>5. CASE b = c
  <2>1. b * outlineBytes(h) \in Nat
    BY <1>1, Multiples
  <2>2. /\ calcOutlineOffset(h, b, n) = b * outlineBytes(h) + n * 32
        /\ calcOutlineOffset(h, c, k) = b * outlineBytes(h) + k * 32
    BY <1>5 DEF calcOutlineOffset, outlineBytes, sizeofOutlineMem
  <2>3. n + 1 <= k \/ k + 1 <= n
    BY <1>5
  <2> QED BY <2>1, <2>2, <2>3 DEF Apart, sizeofOutlineMem
<1> QED BY <1>2, <1>3, <1>4, <1>5

\* No two points within the maximum overlap, whichever buffers they are in
\* (point).
THEOREM PointsApart ==
    ASSUME NEW h \in Maxima,
           NEW b \in Buffers, NEW n \in 0 .. h.npoints_max - 1,
           NEW c \in Buffers, NEW k \in 0 .. h.npoints_max - 1,
           <<b, n>> # <<c, k>>
    PROVE  Apart(calcPointOffset(h, b, n), sizeofPointMem,
                 calcPointOffset(h, c, k), sizeofPointMem)
<1> DEFINE start == NUM_BUFFS * outlineBytes(h)
<1>1. /\ start \in Nat
      /\ pointBytes(h) \in Nat
  BY DEF Maxima, outlineBytes, pointBytes, sizeofOutlineMem, sizeofPointMem, NUM_BUFFS
<1>2. b \in Int /\ c \in Int
  BY DEF Buffers
<1>3. CASE b < c
  <2>1. (b + 1) * pointBytes(h) <= c * pointBytes(h)
    BY <1>1, <1>3, Multiples
  <2>2. (b + 1) * pointBytes(h) \in Int /\ c * pointBytes(h) \in Int
    BY <1>1, Multiples
  <2>3. /\ calcPointOffset(h, b, n) \in Nat
        /\ calcPointOffset(h, b, n) + sizeofPointMem <= start + (b + 1) * pointBytes(h)
        /\ calcPointOffset(h, c, k) \in Nat
        /\ start + c * pointBytes(h) <= calcPointOffset(h, c, k)
    BY PointInItsList
  <2> HIDE DEF start
  <2> QED BY <1>1, <2>1, <2>2, <2>3 DEF Apart, sizeofPointMem
<1>4. CASE c < b
  <2>1. (c + 1) * pointBytes(h) <= b * pointBytes(h)
    BY <1>1, <1>4, Multiples
  <2>2. (c + 1) * pointBytes(h) \in Int /\ b * pointBytes(h) \in Int
    BY <1>1, Multiples
  <2>3. /\ calcPointOffset(h, c, k) \in Nat
        /\ calcPointOffset(h, c, k) + sizeofPointMem <= start + (c + 1) * pointBytes(h)
        /\ calcPointOffset(h, b, n) \in Nat
        /\ start + b * pointBytes(h) <= calcPointOffset(h, b, n)
    BY PointInItsList
  <2> HIDE DEF start
  <2> QED BY <1>1, <2>1, <2>2, <2>3 DEF Apart, sizeofPointMem
<1>5. CASE b = c
  <2>1. b * pointBytes(h) \in Nat
    BY <1>1, Multiples
  <2>2. /\ calcPointOffset(h, b, n) = start + b * pointBytes(h) + n * 12
        /\ calcPointOffset(h, c, k) = start + b * pointBytes(h) + k * 12
    BY <1>5 DEF calcPointOffset, outlineBytes, pointBytes, sizeofPointMem
  <2>3. n + 1 <= k \/ k + 1 <= n
    BY <1>5
  <2> HIDE DEF start
  <2> QED BY <1>1, <2>1, <2>2, <2>3 DEF Apart, sizeofPointMem
<1> QED BY <1>2, <1>3, <1>4, <1>5

\* Every outline within the maximum ends before any point begins, and every
\* point within the maximum ends inside the segment: the size
\* setup_shmem_for_outlines asks for is enough for the maxima.
THEOREM RecordsFit ==
    ASSUME NEW h \in Maxima,
           NEW b \in Buffers, NEW n \in 0 .. h.noutlines_max - 1,
           NEW c \in Buffers, NEW k \in 0 .. h.npoints_max - 1
    PROVE  /\ calcOutlineOffset(h, b, n) + sizeofOutlineMem <= calcPointOffset(h, c, k)
           /\ calcPointOffset(h, c, k) + sizeofPointMem <= datasize(h)
<1> DEFINE start == NUM_BUFFS * outlineBytes(h)
<1> DEFINE points == NUM_BUFFS * pointBytes(h)
<1>1. /\ outlineBytes(h) \in Nat /\ start \in Nat
      /\ pointBytes(h) \in Nat /\ points \in Nat
  BY DEF Maxima, outlineBytes, pointBytes, sizeofOutlineMem, sizeofPointMem, NUM_BUFFS
<1>2. (b + 1) * outlineBytes(h) <= start /\ (b + 1) * outlineBytes(h) \in Int
  BY <1>1, Multiples
<1>3. /\ (c + 1) * pointBytes(h) <= points /\ (c + 1) * pointBytes(h) \in Int
      /\ c * pointBytes(h) \in Nat
  BY <1>1, Multiples
<1>4. /\ calcOutlineOffset(h, b, n) \in Nat
      /\ calcOutlineOffset(h, b, n) + 32 <= (b + 1) * outlineBytes(h)
  BY OutlineInItsList DEF sizeofOutlineMem
<1>5. /\ calcPointOffset(h, c, k) \in Nat
      /\ start + c * pointBytes(h) <= calcPointOffset(h, c, k)
      /\ calcPointOffset(h, c, k) + 12 <= start + (c + 1) * pointBytes(h)
  BY PointInItsList DEF sizeofPointMem
<1>6. datasize(h) = start + points
  BY DEF datasize, outlineBytes, pointBytes
<1> HIDE DEF start, points
<1> QED BY <1>1, <1>2, <1>3, <1>4, <1>5, <1>6 DEF sizeofOutlineMem, sizeofPointMem

\* addOutline does not test the maximum: the first outline too many overwrites
\* the first outline of the next buffer, which a receiver may be drawing, or,
\* behind the last buffer, the first point of buffer 0.
THEOREM OutlineTooMany ==
    ASSUME NEW h \in Maxima, NEW b \in Buffers
    PROVE  calcOutlineOffset(h, b, h.noutlines_max)
             = IF b = NUM_BUFFS - 1 THEN calcPointOffset(h, 0, 0)
                                    ELSE calcOutlineOffset(h, b + 1, 0)
<1>1. outlineBytes(h) \in Nat /\ h.npoints_max * sizeofPointMem \in Nat
  BY DEF Maxima, outlineBytes, sizeofOutlineMem, sizeofPointMem
<1>2. /\ b * outlineBytes(h) \in Nat
      /\ (b + 1) * outlineBytes(h) = b * outlineBytes(h) + outlineBytes(h)
  BY <1>1, Multiples
<1>3. calcOutlineOffset(h, b, h.noutlines_max) = (b + 1) * outlineBytes(h)
  BY <1>2 DEF calcOutlineOffset, outlineBytes
<1>4. calcOutlineOffset(h, b + 1, 0) = (b + 1) * outlineBytes(h)
  <2>1. b + 1 \in Int
    BY DEF Buffers
  <2> QED BY <1>1, <1>2, <2>1 DEF calcOutlineOffset, outlineBytes, sizeofOutlineMem
<1>5. calcPointOffset(h, 0, 0) = NUM_BUFFS * outlineBytes(h)
  BY <1>1 DEF calcPointOffset, outlineBytes, sizeofPointMem, NUM_BUFFS
<1>6. CASE b = NUM_BUFFS - 1
  <2>1. b + 1 = NUM_BUFFS
    BY <1>6 DEF NUM_BUFFS
  <2> QED BY <1>3, <1>5, <1>6, <2>1
<1>7. CASE b # NUM_BUFFS - 1
  BY <1>3, <1>4, <1>7
<1> QED BY <1>6, <1>7

\* addPoint does not test the maximum: the first point too many overwrites the
\* first point of the next buffer or, behind the last buffer, lies outside the
\* segment.
THEOREM PointTooMany ==
    ASSUME NEW h \in Maxima, NEW b \in Buffers
    PROVE  calcPointOffset(h, b, h.npoints_max)
             = IF b = NUM_BUFFS - 1 THEN datasize(h) ELSE calcPointOffset(h, b + 1, 0)
<1> DEFINE start == NUM_BUFFS * outlineBytes(h)
<1>1. start \in Nat /\ pointBytes(h) \in Nat
  BY DEF Maxima, outlineBytes, pointBytes, sizeofOutlineMem, sizeofPointMem, NUM_BUFFS
<1>2. /\ b * pointBytes(h) \in Nat
      /\ (b + 1) * pointBytes(h) = b * pointBytes(h) + pointBytes(h)
  BY <1>1, Multiples
<1>3. /\ calcPointOffset(h, b, h.npoints_max) = start + b * pointBytes(h) + pointBytes(h)
      /\ calcPointOffset(h, b + 1, 0) = start + (b + 1) * pointBytes(h) + 0 * 12
      /\ datasize(h) = start + NUM_BUFFS * pointBytes(h)
  BY DEF calcPointOffset, datasize, outlineBytes, pointBytes, sizeofPointMem
<1> HIDE DEF start
<1>4. start + b * pointBytes(h) + pointBytes(h) = start + (b + 1) * pointBytes(h)
  BY <1>1, <1>2
<1>5. start + (b + 1) * pointBytes(h) + 0 * 12 = start + (b + 1) * pointBytes(h)
  BY <1>1, <1>2
<1>6. CASE b = NUM_BUFFS - 1
  <2>1. b + 1 = NUM_BUFFS
    BY <1>6 DEF NUM_BUFFS
  <2> QED BY <1>3, <1>4, <1>6, <2>1
<1>7. CASE b # NUM_BUFFS - 1
  BY <1>3, <1>4, <1>5, <1>7
<1> QED BY <1>6, <1>7

\* outlinesOffset and pointsOffset are said to be "the distance from the start
\* of the data" (mmtt_sharedmem.h:267), but xinit computes them before it sets
\* the maxima: all six are 0, which is right for no list but the outlines of
\* buffer 0.
THEOREM XinitOffsets ==
    ASSUME NEW b \in Buffers, NEW h \in Maxima, h.noutlines_max # 0
    PROVE  /\ outlinesOffset(b) = 0 /\ pointsOffset(b) = 0
           /\ outlinesOffset(b) = calcOutlineOffset(h, b, 0) <=> b = 0
           /\ pointsOffset(b) # calcPointOffset(h, b, 0)
<1>1. b \in {0, 1, 2}
  BY DEF Buffers, NUM_BUFFS
<1>2. outlinesOffset(b) = 0 /\ pointsOffset(b) = 0
  BY <1>1 DEF outlinesOffset, pointsOffset, calcOutlineOffset, calcPointOffset,
              ZeroHeader, NUM_BUFFS, sizeofOutlineMem, sizeofPointMem
<1>3. /\ h.noutlines_max * 32 \in Nat /\ h.noutlines_max * 32 > 0
      /\ h.npoints_max * 12 \in Nat
  BY DEF Maxima
<1>4. calcOutlineOffset(h, b, 0) = 0 <=> b = 0
  BY <1>1, <1>3 DEF calcOutlineOffset, sizeofOutlineMem
<1>5. calcPointOffset(h, b, 0) > 0
  BY <1>1, <1>3 DEF calcPointOffset, NUM_BUFFS, sizeofOutlineMem, sizeofPointMem
<1> QED BY <1>2, <1>4, <1>5
=============================================================================
