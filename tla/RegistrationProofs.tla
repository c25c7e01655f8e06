------------------------- MODULE RegistrationProofs -------------------------
(***************************************************************************)
(* Proofs about Registration: its inductive invariant, what the regions in  *)
(* use have to do with the image when a registration ends or a patch is     *)
(* loaded, and which patch images lead to regions that do not fit them.     *)
(***************************************************************************)
EXTENDS Registration, SequenceTheorems, FiniteSetTheorems, TLAPS

-----------------------------------------------------------------------------
(* Least, greatest and k-th elements of sets of numbers.                    *)

(* A finite set of naturals that contains all below each of its elements is *)
(* an interval from 0.                                                      *)
LEMMA InitialSegment ==
    ASSUME NEW S \in SUBSET Nat, IsFiniteSet(S), \A n \in S : \A m \in 0 .. n - 1 : m \in S
    PROVE  S = 0 .. Cardinality(S) - 1 /\ Cardinality(S) \in Nat
<1> DEFINE c == Cardinality(S)
<1>1. c \in Nat
  BY FS_CardinalityType
<1>2. ASSUME NEW n \in S PROVE n < c
  <2>1. 0 .. n \in SUBSET S
    OBVIOUS
  <2>2. Cardinality(0 .. n) <= c
    BY <2>1, FS_Subset
  <2>3. Cardinality(0 .. n) = n + 1
    BY FS_Interval
  <2> QED BY <1>1, <2>2, <2>3
<1>3. ASSUME NEW m \in 0 .. c - 1, m \notin S PROVE FALSE
  <2>1. S \in SUBSET (0 .. m - 1)
    BY <1>3
  <2>2. m \in Nat /\ m < c /\ m - 1 \in Int
    BY <1>1
  <2>3. IsFiniteSet(0 .. m - 1)
    BY <2>2, FS_Interval
  <2>4. Cardinality(0 .. m - 1) = m
    BY <2>2, FS_Interval
  <2>5. c <= Cardinality(0 .. m - 1)
    BY <2>1, <2>3, FS_Subset
  <2> QED BY <1>1, <2>2, <2>4, <2>5
<1> HIDE DEF c
<1>4. S \subseteq 0 .. c - 1
  BY <1>1, <1>2
<1>5. 0 .. c - 1 \subseteq S
  BY <1>3
<1> QED BY <1>1, <1>4, <1>5 DEF c

(* The numbers below all of S are an interval, and the next one is in S.    *)
LEMMA LeastElement ==
    ASSUME NEW S \in SUBSET Nat, S # {}
    PROVE  Min(S) \in S /\ \A n \in S : Min(S) <= n
<1> DEFINE T == {t \in Nat : \A s \in S : t < s}
<1>1. PICK b \in S : TRUE
  OBVIOUS
<1>2. IsFiniteSet(T)
  BY <1>1, FS_BoundedSetOfNaturals
<1> DEFINE c == Cardinality(T)
<1>3. T = 0 .. c - 1 /\ c \in Nat
  <2>1. T \in SUBSET Nat /\ \A n \in T : \A m \in 0 .. n - 1 : m \in T
    OBVIOUS
  <2> HIDE DEF T
  <2> QED BY <1>2, <2>1, InitialSegment
<1>4. c \notin T
  <2> HIDE DEF T, c
  <2> QED BY <1>3
<1>5. PICK s \in S : s <= c
  <2>1. c \in Nat => (c \in T <=> \A s \in S : c < s)
    OBVIOUS
  <2> HIDE DEF T, c
  <2> QED BY <1>3, <1>4, <2>1
<1>6. ASSUME NEW t \in S, t < c PROVE FALSE
  <2>1. t \in T => t < t
    OBVIOUS
  <2> HIDE DEF T, c
  <2> QED BY <1>3, <1>6, <2>1
<1> HIDE DEF T, c
<1>7. \A t \in S : s <= t
  BY <1>3, <1>5, <1>6
<1> QED BY <1>7 DEF Min

(* The numbers up to some element of S are an interval, its end is in S.    *)
LEMMA GreatestElement ==
    ASSUME NEW S \in SUBSET Nat, S # {}, NEW b \in Nat, \A n \in S : n <= b
    PROVE  Max(S) \in S /\ \A n \in S : n <= Max(S)
<1> DEFINE T == {t \in Nat : \E s \in S : t <= s}
<1>1. \A t \in T : t <= b
  OBVIOUS
<1>2. IsFiniteSet(T)
  BY <1>1, FS_BoundedSetOfNaturals
<1> DEFINE c == Cardinality(T)
<1>3. T = 0 .. c - 1 /\ c \in Nat
  <2>1. T \in SUBSET Nat /\ \A n \in T : \A m \in 0 .. n - 1 : m \in T
    OBVIOUS
  <2> HIDE DEF T
  <2> QED BY <1>2, <2>1, InitialSegment
<1>4. S \subseteq T
  OBVIOUS
<1>5. c - 1 \in T
  <2> HIDE DEF T, c
  <2>1. PICK s \in S : s \in 0 .. c - 1
    BY <1>3, <1>4
  <2> QED BY <1>3, <2>1
<1>6. PICK s \in S : c - 1 <= s
  <2>1. \A t \in T : \E s \in S : t <= s
    OBVIOUS
  <2> HIDE DEF T, c
  <2> QED BY <1>5, <2>1
<1> HIDE DEF T, c
<1>7. \A t \in S : t <= s
  BY <1>3, <1>4, <1>6
<1> QED BY <1>7 DEF Max

(* Counting the elements up to each one numbers a finite set.               *)
LEMMA NthElement ==
    ASSUME NEW S \in SUBSET Nat, IsFiniteSet(S), NEW k \in 1 .. Cardinality(S)
    PROVE  /\ Nth(S, k) \in S
           /\ Cardinality({m \in S : m <= Nth(S, k)}) = k
<1> DEFINE c == Cardinality(S)
           UpTo(n) == {m \in S : m <= n}
           f == [n \in S |-> Cardinality(UpTo(n))]
<1>1. c \in Nat
  BY FS_CardinalityType
<1>2. ASSUME NEW n \in S
      PROVE  /\ IsFiniteSet(UpTo(n))
             /\ Cardinality(UpTo(n)) \in 1 .. c
  <2>1. UpTo(n) \in SUBSET S
    OBVIOUS
  <2>2. IsFiniteSet(UpTo(n)) /\ Cardinality(UpTo(n)) <= c
    BY <2>1, FS_Subset
  <2>3. Cardinality(UpTo(n)) \in Nat
    BY <2>2, FS_CardinalityType
  <2>4. UpTo(n) # {}
    OBVIOUS
  <2>5. Cardinality(UpTo(n)) # 0
    BY <2>2, <2>4, FS_EmptySet
  <2> QED BY <1>1, <2>2, <2>3, <2>5
<1>3. ASSUME NEW m \in S, NEW n \in S, m < n
      PROVE  Cardinality(UpTo(m)) # Cardinality(UpTo(n))
  <2>1. \A i \in UpTo(m) : i \in UpTo(n)
    BY <1>3
  <2>2. n \in UpTo(n) /\ n \notin UpTo(m)
    BY <1>3
  <2> HIDE DEF UpTo
  <2> QED BY <1>2, <2>1, <2>2, FS_Subset
<1>4. f \in [S -> 1 .. c]
  BY <1>2
<1>5. ASSUME NEW m \in S, NEW n \in S, f[m] = f[n]
      PROVE  m = n
  <2>1. ~(m < n) /\ ~(n < m)
    BY <1>3, <1>5
  <2> QED BY <2>1
<1>6. f \in Injection(S, 1 .. c)
  BY <1>4, <1>5 DEF Injection, IsInjective
<1>7. IsFiniteSet(1 .. c) /\ Cardinality(1 .. c) = c
  BY <1>1, FS_Interval
<1>8. f \in Surjection(S, 1 .. c)
  BY <1>6, <1>7, FS_Injection
<1>9. \E n \in S : Cardinality(UpTo(n)) = k
  BY <1>8 DEF Surjection
<1> QED BY <1>9 DEF Nth

LEMMA NthOfInterval ==
    ASSUME NEW a \in Nat, NEW b \in Nat, NEW k \in 1 .. b - a + 1
    PROVE  Nth(a .. b, k) = a + k - 1
<1> DEFINE n == Nth(a .. b, k)
<1>1. IsFiniteSet(a .. b)
  BY FS_Interval
<1>2. Cardinality(a .. b) = b - a + 1
  BY FS_Interval
<1>3. n \in a .. b /\ Cardinality({m \in a .. b : m <= n}) = k
  <2>1. (a .. b) \in SUBSET Nat /\ k \in 1 .. Cardinality(a .. b)
    BY <1>2
  <2> HIDE DEF n
  <2> QED BY <1>1, <2>1, NthElement DEF n
<1> HIDE DEF n
<1>4. {m \in a .. b : m <= n} = a .. n
  BY <1>3
<1>5. Cardinality(a .. n) = n - a + 1
  BY <1>3, FS_Interval
<1>6. Cardinality(a .. n) = k
  BY <1>3, <1>4
<1>7. n = a + k - 1
  BY <1>3, <1>5, <1>6
<1> QED BY <1>7 DEF n

LEMMA MinByte ==
    ASSUME NEW v \in Nat
    PROVE  Min({v, 255}) = IF v <= 255 THEN v ELSE 255
<1>1. Min({v, 255}) \in {v, 255} /\ \A n \in {v, 255} : Min({v, 255}) <= n
  BY LeastElement
<1> QED BY <1>1

-----------------------------------------------------------------------------
(* Images and regions.                                                      *)

LEMMA PointsNat == Points \in SUBSET Nat /\ Width \in Nat /\ Width - 1 \in Nat
  BY PatchesAssumption DEF Points

(* The region that bounds some pixels lies in the image and covers them.    *)
LEMMA BoundingRegion ==
    ASSUME NEW id \in Nat \ {0}, NEW S \in SUBSET Points, S # {}
    PROVE  /\ Bounding(id, S) \in Region
           /\ Bounding(id, S).id = id
           /\ \A q \in S : Covers(Bounding(id, S), q)
<1>1. S \in SUBSET Nat /\ \A n \in S : n <= Width - 1
  BY PointsNat DEF Points
<1>2. Min(S) \in S /\ \A n \in S : Min(S) <= n
  BY <1>1, LeastElement
<1>3. Max(S) \in S /\ \A n \in S : n <= Max(S)
  BY <1>1, PointsNat, GreatestElement
<1> DEFINE lo == Min(S)
           hi == Max(S)
<1>4. /\ lo \in Points /\ hi \in Points /\ lo <= hi
      /\ \A n \in S : n \in Points /\ lo <= n /\ n <= hi
  BY <1>2, <1>3
<1>5. Bounding(id, S) = [id |-> id, sid |-> DefaultSid(id), x |-> lo, w |-> hi - lo + 1]
  BY DEF Bounding
<1> HIDE DEF lo, hi
<1>6. DefaultSid(id) \in Nat
  BY DEF DefaultSid
<1>7. /\ lo \in Nat /\ hi \in Nat /\ hi - lo + 1 \in 1 .. Width
      /\ lo + (hi - lo + 1) <= Width
  BY <1>4, PointsNat DEF Points
<1>8. Bounding(id, S) \in Region
  BY <1>4, <1>5, <1>6, <1>7 DEF Region
<1>9. \A q \in S : q \in lo .. lo + (hi - lo + 1) - 1
  BY <1>4, <1>7 DEF Points
<1> QED BY <1>5, <1>8, <1>9 DEF Covers

(* A flood fill gives the pixels around pt one value and leaves the others. *)
LEMMA Filled ==
    ASSUME NEW image \in [Points -> 0 .. 255], NEW pt \in Points, NEW v \in Nat
    PROVE  /\ pt \in Connected(image, pt)
           /\ Connected(image, pt) \in SUBSET Points
           /\ FloodFill(image, pt, v) \in [Points -> 0 .. 255]
           /\ \A q \in Points \ Connected(image, pt) : FloodFill(image, pt, v)[q] = image[q]
           /\ \A q \in Connected(image, pt) : FloodFill(image, pt, v)[q] \in {v, 255}
<1>1. pt \in Connected(image, pt)
  BY PointsNat DEF Connected
<1>2. Connected(image, pt) \in SUBSET Points
  BY DEF Connected
<1>3. Min({v, 255}) = IF v <= 255 THEN v ELSE 255
  BY MinByte
<1> QED BY <1>1, <1>2, <1>3 DEF FloodFill

(* Under the background's value, the mask leaves black, background, white.  *)
LEMMA MaskPixels ==
    ASSUME NEW mask
    PROVE  MaskImage(mask, 1) \in [Points -> {0, 1, 255}]
  BY DEF MaskImage, White

LEMMA BackgroundRegions ==
    /\ Background \in Seq(Region) /\ Len(Background) = 2
    /\ \A i \in 1 .. 2 : Background[i].id = i - 1 /\ Background[i].sid = 0
<1>1. [id |-> 0, sid |-> 0, x |-> 0, w |-> Width] \in Region
  BY PatchesAssumption DEF Region, Points
<1>2. [id |-> 1, sid |-> 0, x |-> 0, w |-> Width] \in Region
  BY PatchesAssumption DEF Region, Points
<1> QED BY <1>1, <1>2 DEF Background

(* A list of regions after the two entries of the background.               *)
LEMMA AfterBackground ==
    ASSUME NEW rs \in Seq(Region)
    PROVE  /\ Background \o rs \in Seq(Region)
           /\ HasBackground(Background \o rs)
           /\ Len(Background \o rs) = Len(rs) + 2
           /\ \A i \in 1 .. Len(rs) : (Background \o rs)[i + 2] = rs[i]
<1>1. Len(rs) \in Nat
  OBVIOUS
<1>2. /\ Background \o rs \in Seq(Region)
      /\ Len(Background \o rs) = Len(rs) + 2
      /\ \A i \in 1 .. Len(rs) + 2 : (Background \o rs)[i] =
             IF i <= 2 THEN Background[i] ELSE rs[i - 2]
  <2> DEFINE all == Background \o rs
  <2>1. /\ all \in Seq(Region)
        /\ Len(all) = Len(Background) + Len(rs)
        /\ \A i \in 1 .. Len(Background) + Len(rs) : all[i] =
               IF i <= Len(Background) THEN Background[i] ELSE rs[i - Len(Background)]
    BY BackgroundRegions, ConcatProperties
  <2>2. Len(Background) = 2 /\ Len(Background) + Len(rs) = Len(rs) + 2
    BY <1>1, BackgroundRegions
  <2> HIDE DEF all
  <2> QED BY <2>1, <2>2 DEF all
<1>3. \A i \in 1 .. Len(rs) : i + 2 \in 1 .. Len(rs) + 2 /\ ~(i + 2 <= 2) /\ (i + 2) - 2 = i
  BY <1>1
<1>4. 1 \in 1 .. Len(rs) + 2 /\ 2 \in 1 .. Len(rs) + 2
  BY <1>1
<1>5. (Background \o rs)[1].sid = 0 /\ (Background \o rs)[2].sid = 0
  BY <1>2, <1>4, BackgroundRegions
<1> QED BY <1>1, <1>2, <1>3, <1>5 DEF HasBackground

(* A list of regions in use, or none yet.                                   *)
Listed(rs) == rs \in Seq(Region) /\ (rs = <<>> \/ HasBackground(rs))

(* finishNewRegions leaves ids and rectangles alone.                        *)
LEMMA Finished ==
    ASSUME NEW new \in Seq(Region), HasBackground(new), NEW curr, Listed(curr)
    PROVE  /\ FinishRegions(new, curr) \in Seq(Region)
           /\ HasBackground(FinishRegions(new, curr))
           /\ Len(FinishRegions(new, curr)) = Len(new)
           /\ \A i \in 1 .. Len(new) :
                /\ FinishRegions(new, curr)[i].id = new[i].id
                /\ FinishRegions(new, curr)[i].x = new[i].x
                /\ FinishRegions(new, curr)[i].w = new[i].w
                /\ Len(new) = Len(curr) => FinishRegions(new, curr)[i].sid = curr[i].sid
<1> DEFINE fin == [i \in 1 .. Len(new) |-> [new[i] EXCEPT !.sid = curr[i].sid]]
<1>1. Len(new) \in Nat /\ Len(new) >= 2 /\ curr \in Seq(Region)
  BY DEF HasBackground, Listed
<1>2. CASE Len(new) # Len(curr)
  BY <1>1, <1>2 DEF FinishRegions
<1>3. CASE Len(new) = Len(curr)
  <2>1. FinishRegions(new, curr) = fin
    BY <1>3 DEF FinishRegions
  <2>2. HasBackground(curr)
    BY <1>1, <1>3 DEF Listed
  <2>3. ASSUME NEW i \in 1 .. Len(new)
        PROVE  /\ new[i] \in Region /\ curr[i] \in Region
               /\ [new[i] EXCEPT !.sid = curr[i].sid] \in Region
    <3>1. new[i] \in Region /\ curr[i] \in Region
      BY <1>1, <1>3, ElementOfSeq
    <3> QED BY <3>1 DEF Region
  <2>4. fin \in Seq(Region) /\ Len(fin) = Len(new)
    BY <1>1, <2>3
  <2>5. \A i \in 1 .. Len(new) :
          fin[i].id = new[i].id /\ fin[i].x = new[i].x /\ fin[i].w = new[i].w /\ fin[i].sid = curr[i].sid
    BY <2>3 DEF Region
  <2>6. HasBackground(fin)
    BY <1>1, <1>3, <2>2, <2>4, <2>5 DEF HasBackground
  <2> HIDE DEF fin
  <2> QED BY <2>1, <2>4, <2>5, <2>6
<1> QED BY <1>2, <1>3

-----------------------------------------------------------------------------
(* Loading a patch.                                                         *)

LEMMA Parsed ==
    ASSUME NEW p \in Patches
    PROVE  /\ ParseRegions(p) \in Seq(Region)
           /\ Len(ParseRegions(p)) = Len(p.regions) /\ Len(p.regions) \in Nat
           /\ \A i \in 1 .. Len(p.regions) : ParseRegions(p)[i].id = i + 1
<1>1. /\ p.regions \in Seq([sid : Nat, x : Points, w : 1 .. Width])
      /\ \A i \in DOMAIN p.regions : p.regions[i].x + p.regions[i].w <= Width
  BY PatchesAssumption
<1>2. Len(p.regions) \in Nat /\ DOMAIN p.regions = 1 .. Len(p.regions)
  BY <1>1, LenProperties
<1>3. ASSUME NEW i \in 1 .. Len(p.regions)
      PROVE  [id |-> i + 1, sid |-> p.regions[i].sid, x |-> p.regions[i].x, w |-> p.regions[i].w]
               \in Region
  <2>1. p.regions[i] \in [sid : Nat, x : Points, w : 1 .. Width]
    BY <1>1, ElementOfSeq
  <2>2. p.regions[i].x + p.regions[i].w <= Width
    BY <1>1, <1>2
  <2> QED BY <2>1, <2>2 DEF Region
<1> QED BY <1>2, <1>3 DEF ParseRegions

LEMMA IdsNat ==
    ASSUME NEW image
    PROVE  /\ IdsIn(image) \in SUBSET Nat
           /\ IsFiniteSet(IdsIn(image))
           /\ Cardinality(IdsIn(image)) \in Nat
<1>1. IdsIn(image) \in SUBSET (2 .. MaskId - 1) /\ MaskId \in Nat
  BY PatchesAssumption DEF IdsIn
<1>2. IsFiniteSet(2 .. MaskId - 1)
  BY <1>1, FS_Interval
<1>3. IsFiniteSet(IdsIn(image))
  BY <1>1, <1>2, FS_Subset
<1> QED BY <1>1, <1>3, FS_CardinalityType

(* Each id of the image has its region, around its pixels.                  *)
LEMMA Derived ==
    ASSUME NEW image
    PROVE  /\ DeriveRegions(image) \in Seq(Region)
           /\ Len(DeriveRegions(image)) = Cardinality(IdsIn(image))
           /\ \A k \in 1 .. Cardinality(IdsIn(image)) :
                /\ Nth(IdsIn(image), k) \in IdsIn(image)
                /\ DeriveRegions(image)[k].id = Nth(IdsIn(image), k)
                /\ \A q \in Points : image[q] = Nth(IdsIn(image), k) =>
                     Covers(DeriveRegions(image)[k], q)
<1> DEFINE ids == IdsIn(image)
           pixels(k) == {q \in Points : image[q] = Nth(ids, k)}
           entry(k) == Bounding(Nth(ids, k), pixels(k))
<1>1. ids \in SUBSET Nat /\ IsFiniteSet(ids) /\ Cardinality(ids) \in Nat
  BY IdsNat
<1>2. ASSUME NEW k \in 1 .. Cardinality(ids)
      PROVE  /\ Nth(ids, k) \in ids
             /\ entry(k) \in Region
             /\ entry(k).id = Nth(ids, k)
             /\ \A q \in pixels(k) : Covers(entry(k), q)
  <2>1. Nth(ids, k) \in ids
    <3> HIDE DEF ids
    <3> QED BY <1>1, <1>2, NthElement
  <2>2. Nth(ids, k) \in Nat \ {0} /\ pixels(k) # {}
    BY <2>1, PatchesAssumption DEF IdsIn
  <2>3. pixels(k) \in SUBSET Points
    OBVIOUS
  <2> HIDE DEF ids, pixels
  <2> QED BY <2>1, <2>2, <2>3, BoundingRegion
<1>3. DeriveRegions(image) = [k \in 1 .. Cardinality(ids) |-> entry(k)]
  BY DEF DeriveRegions
<1>4. /\ DeriveRegions(image) \in Seq(Region)
      /\ Len(DeriveRegions(image)) = Cardinality(ids)
      /\ \A k \in 1 .. Cardinality(ids) : DeriveRegions(image)[k] = entry(k)
  <2> HIDE DEF ids, entry
  <2> QED BY <1>1, <1>2, <1>3
<1> HIDE DEF entry
<1> QED BY <1>2, <1>4

(* A painted pixel holds the index of a region that covers it.              *)
LEMMA Painted ==
    ASSUME NEW rs \in Seq(Region)
    PROVE  /\ PaintRects(rs) \in [Points -> 0 .. 255]
           /\ \A q \in Points : Len(rs) <= 256 /\ PaintRects(rs)[q] # 0 =>
                /\ PaintRects(rs)[q] < Len(rs)
                /\ Covers(rs[PaintRects(rs)[q] + 1], q)
<1>1. Len(rs) \in Nat
  OBVIOUS
<1>2. ASSUME NEW q \in Points
      PROVE  LET on == {i \in 3 .. Len(rs) : Covers(rs[i], q)}
                 value == IF on = {} THEN 0 ELSE (Max(on) - 1) % 256
             IN /\ value \in 0 .. 255
                /\ Len(rs) <= 256 /\ value # 0 => value < Len(rs) /\ Covers(rs[value + 1], q)
  <2> DEFINE on == {i \in 3 .. Len(rs) : Covers(rs[i], q)}
             top == Max(on)
  <2>1. CASE on = {}
    BY <2>1
  <2>2. CASE on # {}
    <3>1. top \in on
      <4>1. on \in SUBSET Nat /\ \A n \in on : n <= Len(rs)
        OBVIOUS
      <4> HIDE DEF on
      <4> QED BY <1>1, <2>2, <4>1, GreatestElement
    <3>2. top \in 3 .. Len(rs) /\ Covers(rs[top], q)
      BY <3>1
    <3> HIDE DEF top
    <3>3. (top - 1) % 256 \in 0 .. 255
      BY <1>1, <3>2
    <3>4. Len(rs) <= 256 => (top - 1) % 256 = top - 1
      BY <1>1, <3>2
    <3>5. (top - 1) + 1 = top /\ top - 1 < Len(rs)
      BY <1>1, <3>2
    <3>6. /\ (top - 1) % 256 \in 0 .. 255
          /\ Len(rs) <= 256 =>
               (top - 1) % 256 < Len(rs) /\ Covers(rs[((top - 1) % 256) + 1], q)
      BY <3>2, <3>3, <3>4, <3>5
    <3> QED BY <2>2, <3>6 DEF top
  <2> QED BY <2>1, <2>2
<1> QED BY <1>2 DEF PaintRects

(* What a load may leave: lists with the background first, or, when it      *)
(* fails at the start of the program, no regions in use.                    *)
Usable(l) ==
    /\ l.new \in Seq(Region) /\ HasBackground(l.new)
    /\ Listed(l.curr)
    /\ l.image \in [Points -> 0 .. 255]

LEMMA Loaded ==
    ASSUME NEW p \in Patches, NEW curr, Listed(curr), NEW image \in [Points -> 0 .. 255]
    PROVE  LET l == LoadPatch(p, curr, image)
           IN  /\ Usable(l)
               /\ p.kind # "failing" \/ HasBackground(curr) => HasBackground(l.curr)
<1> DEFINE listed == Background \o ParseRegions(p)
           derived == Background \o DeriveRegions(p.image)
<1>0. p.kind \in {"rects", "image", "failing"} /\ curr \in Seq(Region)
  BY PatchesAssumption DEF Listed
<1>1. listed \in Seq(Region) /\ HasBackground(listed)
  BY Parsed, AfterBackground
<1>2. derived \in Seq(Region) /\ HasBackground(derived)
  BY Derived, AfterBackground
<1>3. ASSUME NEW new \in {listed, derived}
      PROVE  /\ FinishRegions(new, curr) \in Seq(Region)
             /\ HasBackground(FinishRegions(new, curr))
  <2> HIDE DEF listed, derived
  <2> QED BY <1>1, <1>2, Finished
<1>4. CASE p.kind = "failing"
  <2>1. LoadPatch(p, curr, image) = [new |-> listed, curr |-> curr, image |-> image]
    BY <1>4 DEF LoadPatch
  <2> HIDE DEF listed
  <2> QED BY <1>1, <1>4, <2>1 DEF Usable
<1>5. CASE p.kind = "rects"
  <2>1. LoadPatch(p, curr, image) = [new |-> FinishRegions(listed, curr),
                                     curr |-> FinishRegions(listed, curr),
                                     image |-> PaintRects(curr)]
    BY <1>5 DEF LoadPatch
  <2>2. PaintRects(curr) \in [Points -> 0 .. 255]
    BY <1>0, Painted
  <2> HIDE DEF listed
  <2> QED BY <1>3, <1>5, <2>1, <2>2 DEF Usable, Listed
<1>6. CASE p.kind = "image"
  <2>1. LoadPatch(p, curr, image) = [new |-> FinishRegions(derived, curr),
                                     curr |-> FinishRegions(derived, curr),
                                     image |-> p.image]
    BY <1>6 DEF LoadPatch
  <2>2. p.image \in [Points -> 0 .. 255]
    <3>1. p.image \in [Points -> 0 .. MaskId] /\ MaskId \in 3 .. 254
      BY <1>6, PatchesAssumption
    <3>2. 0 .. MaskId \subseteq 0 .. 255
      BY <3>1
    <3> QED BY <3>1, <3>2
  <2> HIDE DEF derived
  <2> QED BY <1>3, <1>6, <2>1, <2>2 DEF Usable, Listed
<1> QED BY <1>0, <1>4, <1>5, <1>6

LEMMA LoadedTwice ==
    ASSUME NEW p \in Patches, NEW curr, Listed(curr), NEW image \in [Points -> 0 .. 255]
    PROVE  LET l == LoadPatchTwice(p, curr, image)
           IN  /\ Usable(l)
               /\ p.kind # "failing" \/ HasBackground(curr) => HasBackground(l.curr)
<1> DEFINE once == LoadPatch(p, curr, image)
<1>1. Usable(once) /\ (p.kind # "failing" \/ HasBackground(curr) => HasBackground(once.curr))
  BY Loaded
<1>2. CASE p.kind = "failing"
  BY <1>1, <1>2 DEF LoadPatchTwice
<1>3. CASE p.kind # "failing"
  <2>1. LoadPatchTwice(p, curr, image) = LoadPatch(p, once.curr, once.image)
    BY <1>3 DEF LoadPatchTwice
  <2>2. Listed(once.curr) /\ once.image \in [Points -> 0 .. 255]
    BY <1>1 DEF Usable
  <2> HIDE DEF once
  <2> QED BY <1>3, <2>1, <2>2, Loaded
<1> QED BY <1>2, <1>3

(* Where the regions in use come from when a load of either kind succeeds.  *)
LEMMA RegionsFromPatch ==
    ASSUME NEW p \in Patches, p.kind # "failing",
           NEW curr, Listed(curr), NEW image \in [Points -> 0 .. 255]
    PROVE  LET new == IF p.kind = "rects" THEN Background \o ParseRegions(p)
                                          ELSE Background \o DeriveRegions(p.image)
               once == LoadPatch(p, curr, image).curr
               l == LoadPatchTwice(p, curr, image)
           IN  /\ once \in Seq(Region) /\ Len(once) = Len(new)
               /\ l.curr \in Seq(Region) /\ Len(l.curr) = Len(new)
               /\ \A i \in 1 .. Len(new) : /\ once[i].x = new[i].x /\ once[i].w = new[i].w
                                           /\ l.curr[i].x = new[i].x /\ l.curr[i].w = new[i].w
               /\ l.image = IF p.kind = "rects" THEN PaintRects(once) ELSE p.image
<1> DEFINE new == IF p.kind = "rects" THEN Background \o ParseRegions(p)
                                      ELSE Background \o DeriveRegions(p.image)
           once == LoadPatch(p, curr, image).curr
           l == LoadPatchTwice(p, curr, image)
<1>1. p.kind \in {"rects", "image"}
  BY PatchesAssumption
<1>2. new \in Seq(Region) /\ HasBackground(new)
  BY Parsed, Derived, AfterBackground
<1>3. ASSUME NEW c, NEW im
      PROVE  /\ LoadPatch(p, c, im).curr = FinishRegions(new, c)
             /\ LoadPatch(p, c, im).image = IF p.kind = "rects" THEN PaintRects(c) ELSE p.image
  BY <1>1 DEF LoadPatch
<1>4. l = LoadPatch(p, once, LoadPatch(p, curr, image).image)
  BY DEF LoadPatchTwice
<1>5. Listed(once)
  BY Loaded DEF Usable
<1> HIDE DEF new, once, l
<1>6. once = FinishRegions(new, curr)
  BY <1>3 DEF once
<1>7. /\ l.curr = FinishRegions(new, once)
      /\ l.image = IF p.kind = "rects" THEN PaintRects(once) ELSE p.image
  BY <1>3, <1>4
<1>8. /\ once \in Seq(Region) /\ Len(once) = Len(new)
      /\ \A i \in 1 .. Len(new) : once[i].x = new[i].x /\ once[i].w = new[i].w
  BY <1>2, <1>6, Finished
<1>9. /\ l.curr \in Seq(Region) /\ Len(l.curr) = Len(new)
      /\ \A i \in 1 .. Len(new) : l.curr[i].x = new[i].x /\ l.curr[i].w = new[i].w
  BY <1>2, <1>5, <1>7, Finished
<1> QED BY <1>7, <1>8, <1>9 DEF new, once, l

(* Rectangles: each painted pixel finds a region that covers it.            *)
LEMMA RectsMatch ==
    ASSUME NEW p \in Patches, p.kind = "rects", Len(p.regions) <= 254,
           NEW curr, Listed(curr), NEW image \in [Points -> 0 .. 255]
    PROVE  LET l == LoadPatchTwice(p, curr, image) IN Matches(l.image, l.curr)
<1> DEFINE new == Background \o ParseRegions(p)
           once == LoadPatch(p, curr, image).curr
           l == LoadPatchTwice(p, curr, image)
<1>1. /\ once \in Seq(Region) /\ Len(once) = Len(new)
      /\ Len(l.curr) = Len(new)
      /\ \A i \in 1 .. Len(new) : /\ once[i].x = new[i].x /\ once[i].w = new[i].w
                                  /\ l.curr[i].x = new[i].x /\ l.curr[i].w = new[i].w
      /\ l.image = PaintRects(once)
  BY RegionsFromPatch
<1>2. Len(new) \in Nat /\ Len(new) <= 256
  BY Parsed, AfterBackground
<1> HIDE DEF new, once, l
<1>3. ASSUME NEW q \in Points, l.image[q] \in 2 .. MaskId - 1
      PROVE  l.image[q] < Len(l.curr) /\ Covers(l.curr[l.image[q] + 1], q)
  <2> DEFINE v == l.image[q]
  <2>1. v \in Nat /\ v >= 2
    BY <1>3
  <2>2. v < Len(once) /\ Covers(once[v + 1], q)
    <3>1. Len(once) <= 256 /\ PaintRects(once)[q] # 0
      BY <1>1, <1>2, <2>1
    <3> QED BY <1>1, <3>1, Painted
  <2> HIDE DEF v
  <2>3. v + 1 \in 1 .. Len(new)
    BY <1>1, <1>2, <2>1, <2>2
  <2>4. once[v + 1].x = l.curr[v + 1].x /\ once[v + 1].w = l.curr[v + 1].w
    BY <1>1, <2>3
  <2>5. v < Len(l.curr) /\ Covers(l.curr[v + 1], q)
    BY <1>1, <2>2, <2>4 DEF Covers
  <2> QED BY <2>5 DEF v
<1>4. Matches(l.image, l.curr)
  BY <1>3 DEF Matches
<1> QED BY <1>4 DEF l

(* An image: each pixel finds the region of its id when no id is missing,   *)
(* and otherwise the greatest id is beyond the end of the list.             *)
LEMMA ImageMatches ==
    ASSUME NEW p \in Patches, p.kind = "image",
           NEW curr, Listed(curr), NEW image \in [Points -> 0 .. 255]
    PROVE  LET l == LoadPatchTwice(p, curr, image)
           IN  Matches(l.image, l.curr) <=> NoIdMissing(p.image)
<1> DEFINE ids == IdsIn(p.image)
           c == Cardinality(ids)
           found == DeriveRegions(p.image)
           new == Background \o found
           l == LoadPatchTwice(p, curr, image)
<1>1. /\ Len(l.curr) = Len(new)
      /\ \A i \in 1 .. Len(new) : l.curr[i].x = new[i].x /\ l.curr[i].w = new[i].w
      /\ l.image = p.image
  BY RegionsFromPatch
<1>2. /\ c \in Nat /\ IsFiniteSet(ids)
      /\ ids \in SUBSET (2 .. MaskId - 1)
  BY IdsNat DEF IdsIn
<1>3. /\ found \in Seq(Region) /\ Len(found) = c
      /\ \A k \in 1 .. c : \A q \in Points : p.image[q] = Nth(ids, k) => Covers(found[k], q)
  BY Derived
<1>4. Len(new) = c + 2 /\ \A k \in 1 .. c : new[k + 2] = found[k]
  <2> HIDE DEF found, c
  <2> QED BY <1>3, AfterBackground
<1>5. \A q \in Points : p.image[q] \in 2 .. MaskId - 1 => p.image[q] \in ids
  BY DEF IdsIn
<1>6. \A n \in ids : \E q \in Points : p.image[q] = n
  BY DEF IdsIn
<1>7. NoIdMissing(p.image) <=> ids = 2 .. c + 1
  BY DEF NoIdMissing
<1> HIDE DEF ids, c, found, new, l
<1>8. ASSUME ids = 2 .. c + 1
      PROVE  Matches(l.image, l.curr)
  <2> SUFFICES ASSUME NEW q \in Points, p.image[q] \in 2 .. MaskId - 1
               PROVE  p.image[q] < Len(l.curr) /\ Covers(l.curr[p.image[q] + 1], q)
    BY <1>1 DEF Matches
  <2>1. PICK k \in 1 .. c : p.image[q] = k + 1
    <3>1. p.image[q] \in 2 .. c + 1
      BY <1>5, <1>8
    <3>2. p.image[q] - 1 \in 1 .. c /\ p.image[q] = (p.image[q] - 1) + 1
      BY <1>2, <3>1
    <3> QED BY <3>2
  <2>2. Nth(ids, k) = k + 1
    <3>1. k \in 1 .. (c + 1) - 2 + 1 /\ c + 1 \in Nat /\ 2 + k - 1 = k + 1
      BY <1>2
    <3> QED BY <1>8, <3>1, NthOfInterval
  <2>3. Covers(new[k + 2], q)
    BY <1>3, <1>4, <2>1, <2>2
  <2>4. k + 2 \in 1 .. Len(new) /\ k + 1 < Len(new) /\ (k + 1) + 1 = k + 2
    BY <1>2, <1>4
  <2> QED BY <1>1, <2>1, <2>3, <2>4 DEF Covers
<1>9. ASSUME ids # 2 .. c + 1
      PROVE  ~Matches(l.image, l.curr)
  <2>1. PICK n \in ids : ~(n < c + 2)
    <3> SUFFICES ASSUME \A n \in ids : n < c + 2 PROVE FALSE
      OBVIOUS
    <3>1. ids \in SUBSET (2 .. c + 1)
      BY <1>2
    <3>2. IsFiniteSet(2 .. c + 1)
      BY <1>2, FS_Interval
    <3>3. Cardinality(2 .. c + 1) = c
      <4>1. 2 \in Int /\ c + 1 \in Int
        BY <1>2
      <4>2. Cardinality(2 .. c + 1) = IF 2 > c + 1 THEN 0 ELSE (c + 1) - 2 + 1
        BY <4>1, FS_Interval
      <4> QED BY <1>2, <4>2
    <3>4. Cardinality(ids) = c
      BY DEF c
    <3> QED BY <1>9, <3>1, <3>2, <3>3, <3>4, FS_Subset
  <2>2. PICK q \in Points : p.image[q] = n
    BY <1>6
  <2>3. n \in 2 .. MaskId - 1
    BY <1>2
  <2> QED BY <1>1, <1>4, <2>1, <2>2, <2>3 DEF Matches
<1>10. Matches(l.image, l.curr) <=> NoIdMissing(p.image)
  BY <1>7, <1>8, <1>9
<1> QED BY <1>10 DEF l

-----------------------------------------------------------------------------
(* The points an autopoke pokes.                                            *)

LEMMA CentreCovered ==
    ASSUME NEW r \in Region
    PROVE  Centre(r) \in Points /\ Covers(r, Centre(r))
<1>1. r.x \in Nat /\ r.w \in Nat /\ r.w >= 1 /\ r.x + r.w <= Width
  BY PointsNat DEF Region, Points
<1>2. r.w \div 2 \in Nat /\ r.w \div 2 < r.w
  BY <1>1
<1> QED BY <1>1, <1>2, PointsNat DEF Centre, Covers, Points

(* There is a point for each region but the background, and when none has a *)
(* background's session number, the points are in the regions' order.       *)
LEMMA Centres ==
    ASSUME NEW rs \in Seq(Region), HasBackground(rs)
    PROVE  /\ CentresOf(rs) \in Seq(Points)
           /\ Len(CentresOf(rs)) <= Len(rs) - 2
           /\ Len(CentresOf(rs)) = Len(rs) - 2 =>
                \A k \in 1 .. Len(rs) - 2 : CentresOf(rs)[k] = Centre(rs[k + 2])
<1> DEFINE real == {i \in DOMAIN rs : rs[i].sid > 1}
           c == Cardinality(real)
           n == Len(rs)
<1>1. n \in Nat /\ n >= 2 /\ DOMAIN rs = 1 .. n
  BY LenProperties DEF HasBackground
<1>2. real \in SUBSET (3 .. n)
  <2>1. ASSUME NEW i \in real PROVE i \in 3 .. n
    <3>1. i # 1 /\ i # 2
      BY DEF HasBackground
    <3> QED BY <1>1, <3>1
  <2> QED BY <2>1
<1>3. IsFiniteSet(3 .. n)
  BY <1>1, FS_Interval
<1>4. Cardinality(3 .. n) = n - 2
  <2>1. Cardinality(3 .. n) = IF 3 > n THEN 0 ELSE n - 3 + 1
    BY <1>1, FS_Interval
  <2> QED BY <1>1, <2>1
<1> HIDE DEF real, n
<1>5. IsFiniteSet(real) /\ c \in Nat /\ c <= n - 2 /\ (c = n - 2 => real = 3 .. n)
  BY <1>2, <1>3, <1>4, FS_Subset, FS_CardinalityType
<1>6. real \in SUBSET Nat /\ \A i \in real : i \in 1 .. n
  <2>1. \A i \in 3 .. n : i \in Nat /\ i \in 1 .. n
    BY <1>1
  <2> QED BY <1>2, <2>1
<1>7. ASSUME NEW k \in 1 .. c
      PROVE  Centre(rs[Nth(real, k)]) \in Points
  <2>1. Nth(real, k) \in 1 .. n
    <3>1. Nth(real, k) \in real
      BY <1>5, <1>6, NthElement
    <3> QED BY <1>6, <3>1
  <2>2. rs[Nth(real, k)] \in Region
    BY <2>1, ElementOfSeq DEF n
  <2> QED BY <2>2, CentreCovered
<1>8. CentresOf(rs) = [k \in 1 .. c |-> Centre(rs[Nth(real, k)])]
  BY DEF CentresOf, real
<1> HIDE DEF c
<1>9. /\ CentresOf(rs) \in Seq(Points) /\ Len(CentresOf(rs)) = c
      /\ \A k \in 1 .. c : CentresOf(rs)[k] = Centre(rs[Nth(real, k)])
  BY <1>5, <1>7, <1>8
<1>10. ASSUME c = n - 2, NEW k \in 1 .. n - 2
       PROVE  CentresOf(rs)[k] = Centre(rs[k + 2])
  <2>1. k \in 1 .. n - 3 + 1 /\ 3 + k - 1 = k + 2
    BY <1>1
  <2>2. Nth(3 .. n, k) = 3 + k - 1
    BY <1>1, <2>1, NthOfInterval
  <2> QED BY <1>5, <1>9, <1>10, <2>1, <2>2
<1> QED BY <1>5, <1>9, <1>10 DEF n

-----------------------------------------------------------------------------
(* What a poke and the end of a registration change.                        *)

LEMMA Types ==
    ASSUME TypeOK, BackgroundFirst
    PROVE  /\ newRegions \in Seq(Region) /\ HasBackground(newRegions)
           /\ currRegions \in Seq(Region) /\ HasBackground(currRegions) /\ Listed(currRegions)
           /\ Len(newRegions) \in Nat /\ DOMAIN newRegions = 1 .. Len(newRegions)
           /\ Len(currRegions) \in Nat /\ DOMAIN currRegions = 1 .. Len(currRegions)
           /\ Len(newRegions) >= 2 /\ Len(currRegions) >= 2
           /\ regionsImage \in [Points -> 0 .. 255]
           /\ currentRegionValue \in Nat \ {0}
           /\ Len(savedpokes) \in Nat /\ DOMAIN savedpokes = 1 .. Len(savedpokes)
  BY LenProperties DEF TypeOK, BackgroundFirst, HasBackground, Listed

LEMMA Stopped ==
    ASSUME TypeOK, BackgroundFirst, StopRegistration
    PROVE  /\ registrationState' = 0
           /\ newRegions' \in Seq(Region) /\ HasBackground(newRegions')
           /\ currRegions' = newRegions'
           /\ Len(newRegions') = Len(newRegions)
           /\ \A i \in 1 .. Len(newRegions) :
                /\ newRegions'[i].id = newRegions[i].id
                /\ newRegions'[i].x = newRegions[i].x
                /\ newRegions'[i].w = newRegions[i].w
                /\ Len(newRegions) = Len(currRegions) =>
                     newRegions'[i].sid = currRegions[i].sid
<1> DEFINE fin == FinishRegions(newRegions, currRegions)
<1>1. registrationState' = 0 /\ newRegions' = fin /\ currRegions' = fin
  BY DEF StopRegistration
<1>2. /\ newRegions \in Seq(Region) /\ HasBackground(newRegions) /\ Listed(currRegions)
  BY Types
<1>3. /\ fin \in Seq(Region) /\ HasBackground(fin) /\ Len(fin) = Len(newRegions)
      /\ \A i \in 1 .. Len(newRegions) :
           /\ fin[i].id = newRegions[i].id
           /\ fin[i].x = newRegions[i].x
           /\ fin[i].w = newRegions[i].w
           /\ Len(newRegions) = Len(currRegions) => fin[i].sid = currRegions[i].sid
  BY <1>2, Finished
<1> HIDE DEF fin
<1>4. HasBackground(newRegions')
  BY <1>1, <1>3
<1> QED BY <1>1, <1>3, <1>4

LEMMA NewRegion ==
    ASSUME TypeOK, BackgroundFirst, NEW pt \in Points
    PROVE  LET found == Bounding(currentRegionValue, Connected(regionsImage, pt))
           IN  /\ found \in Region /\ found.id = currentRegionValue
               /\ \A q \in Connected(regionsImage, pt) : Covers(found, q)
               /\ Covers(found, pt)
               /\ Append(newRegions, found) \in Seq(Region)
               /\ HasBackground(Append(newRegions, found))
               /\ Len(Append(newRegions, found)) = Len(newRegions) + 1
               /\ Append(newRegions, found)[Len(newRegions) + 1] = found
               /\ \A i \in 1 .. Len(newRegions) : Append(newRegions, found)[i] = newRegions[i]
<1> DEFINE S == Connected(regionsImage, pt)
           found == Bounding(currentRegionValue, S)
<1>1. pt \in S /\ S \in SUBSET Points
  BY Types, Filled
<1> HIDE DEF S
<1>2. /\ found \in Region /\ found.id = currentRegionValue
      /\ \A q \in S : Covers(found, q)
  BY <1>1, Types, BoundingRegion
<1> HIDE DEF found
<1>3. /\ Append(newRegions, found) \in Seq(Region)
      /\ Len(Append(newRegions, found)) = Len(newRegions) + 1
      /\ Append(newRegions, found)[Len(newRegions) + 1] = found
      /\ \A i \in 1 .. Len(newRegions) : Append(newRegions, found)[i] = newRegions[i]
  BY <1>2, Types
<1>4. HasBackground(Append(newRegions, found))
  BY <1>3, Types DEF HasBackground
<1> QED BY <1>1, <1>2, <1>3, <1>4 DEF S, found

-----------------------------------------------------------------------------
(* Types, the background's entries, and the states of the registration.     *)

Base == TypeOK /\ BackgroundFirst /\ StatesInv

(* A patch file that a command loads leaves well-formed lists and image.    *)
LEMMA Installed ==
    ASSUME TypeOK, BackgroundFirst, NEW p \in Patches, NEW l,
           l \in {LoadPatch(p, currRegions, regionsImage),
                  LoadPatchTwice(p, currRegions, regionsImage)},
           Install(l)
    PROVE  /\ newRegions' \in Seq(Region) /\ currRegions' \in Seq(Region)
           /\ BackgroundFirst'
           /\ regionsImage' \in [Points -> 0 .. 255]
           /\ disturbed' = TRUE /\ val_showrawdepth' \in BOOLEAN
<1>1. Listed(currRegions) /\ HasBackground(currRegions) /\ regionsImage \in [Points -> 0 .. 255]
  BY Types
<1>2. Usable(l) /\ HasBackground(l.curr)
  BY <1>1, Loaded, LoadedTwice
<1>3. /\ newRegions' = l.new /\ currRegions' = l.curr /\ regionsImage' = l.image
      /\ disturbed' = TRUE /\ val_showrawdepth' \in BOOLEAN
  BY DEF Install
<1> QED BY <1>2, <1>3 DEF Usable, Listed, BackgroundFirst, HasBackground

LEMMA CommandTypes ==
    ASSUME TypeOK, Command
    PROVE  /\ commands' \in 0 .. MaxCommands /\ poke = 0 /\ poke' = 0
           /\ savedpokes' \in Seq(Points) /\ poke' \in 0 .. Len(savedpokes') + 1
           /\ fromFile' \in BOOLEAN
  BY PatchesAssumption DEF TypeOK, Command, pokes

LEMMA PokeTypes ==
    ASSUME TypeOK, BackgroundFirst, NEW pt \in Points, RegistrationPoke(pt)
    PROVE  /\ newRegions' \in Seq(Region) /\ currRegions' \in Seq(Region)
           /\ BackgroundFirst'
           /\ regionsImage' \in [Points -> 0 .. 255]
           /\ currentRegionValue' \in Nat \ {0}
           /\ registrationState' \in {registrationState, 0}
<1>1. CASE /\ regionsImage[pt] = 0
           /\ regionsImage' = FloodFill(regionsImage, pt, currentRegionValue)
           /\ newRegions' = Append(newRegions,
                                   Bounding(currentRegionValue, Connected(regionsImage, pt)))
           /\ currentRegionValue' = currentRegionValue + 1
           /\ UNCHANGED <<registrationState, currRegions>>
  <2>1. regionsImage' \in [Points -> 0 .. 255]
    <3>1. regionsImage \in [Points -> 0 .. 255] /\ currentRegionValue \in Nat
      BY Types
    <3> QED BY <1>1, <3>1, Filled
  <2>2. newRegions' \in Seq(Region) /\ HasBackground(newRegions')
    BY <1>1, NewRegion
  <2>3. currRegions' \in Seq(Region) /\ HasBackground(currRegions')
    BY <1>1, Types
  <2>4. currentRegionValue' \in Nat \ {0}
    BY <1>1, Types
  <2> QED BY <1>1, <2>1, <2>2, <2>3, <2>4 DEF BackgroundFirst, HasBackground
<1>2. CASE StopRegistration /\ UNCHANGED <<regionsImage, currentRegionValue>>
  BY <1>2, Stopped, Types DEF BackgroundFirst, HasBackground
<1>3. CASE UNCHANGED <<registrationState, regions>>
  BY <1>3, Types DEF regions, BackgroundFirst, HasBackground
<1> QED BY <1>1, <1>2, <1>3 DEF RegistrationPoke

(* registrationStart leaves an image of black, background and mask.         *)
LEMMA StartTypes ==
    ASSUME TypeOK, BackgroundFirst, currentRegionValue = 1, RegistrationStart
    PROVE  /\ newRegions' = Background /\ newRegions' \in Seq(Region)
           /\ currRegions' = currRegions /\ BackgroundFirst'
           /\ regionsImage' \in [Points -> {0, 1, 255}]
           /\ regionsImage' \in [Points -> 0 .. 255]
           /\ currentRegionValue' = 2
           /\ disturbed' = FALSE
           /\ UNCHANGED align
<1>1. regionsImage' \in [Points -> {0, 1, 255}]
  BY MaskPixels DEF RegistrationStart
<1>2. regionsImage' \in [Points -> 0 .. 255]
  BY <1>1
<1>3. /\ newRegions' = Background /\ currRegions' = currRegions
      /\ currentRegionValue' = 2 /\ disturbed' = FALSE /\ UNCHANGED align
  BY DEF RegistrationStart
<1>4. HasBackground(newRegions')
  BY <1>3, BackgroundRegions DEF HasBackground
<1>5. HasBackground(currRegions')
  BY <1>3, Types
<1> QED BY <1>1, <1>2, <1>3, <1>4, <1>5, BackgroundRegions DEF BackgroundFirst, HasBackground

LEMMA CommandStep ==
    ASSUME Base, Commands
    PROVE  Base'
<1>0. TypeOK /\ BackgroundFirst /\ StatesInv
  BY DEF Base
<1>1. Command
  BY DEF Commands, StartRegistration, Autopoke, AlignStart, AlignStop, Autotiltpoke,
         StopCommand, PatchLoad, SetShowRawDepth
<1>2. /\ commands' \in 0 .. MaxCommands /\ poke = 0 /\ poke' = 0
      /\ savedpokes' \in Seq(Points) /\ poke' \in 0 .. Len(savedpokes') + 1
      /\ fromFile' \in BOOLEAN
  BY <1>0, <1>1, CommandTypes
<1>3. patchFile \in Patches
  BY <1>0 DEF TypeOK
<1>4. CASE StartRegistration
  BY <1>0, <1>2, <1>4
  DEF StartRegistration, Base, TypeOK, BackgroundFirst, HasBackground, StatesInv, align, regions
<1>5. CASE Autopoke
  <2>1. Install(LoadPatch(patchFile, currRegions, regionsImage))
    BY <1>5 DEF Autopoke
  <2>2. /\ newRegions' \in Seq(Region) /\ currRegions' \in Seq(Region)
        /\ BackgroundFirst'
        /\ regionsImage' \in [Points -> 0 .. 255]
        /\ disturbed' = TRUE /\ val_showrawdepth' \in BOOLEAN
    BY <1>0, <1>3, <2>1, Installed
  <2>3. /\ registrationState' \in {registrationState, 300}
        /\ UNCHANGED <<align, currentRegionValue, patchFile>>
    BY <1>5 DEF Autopoke
  <2> QED BY <1>0, <1>2, <2>2, <2>3 DEF Base, TypeOK, StatesInv, align
<1>6. CASE AlignStart
  <2>1. Install(LoadPatch(patchFile, currRegions, regionsImage))
    BY <1>6 DEF AlignStart
  <2>2. /\ newRegions' \in Seq(Region) /\ currRegions' \in Seq(Region)
        /\ BackgroundFirst'
        /\ regionsImage' \in [Points -> 0 .. 255]
        /\ disturbed' = TRUE /\ val_showrawdepth' \in BOOLEAN
    BY <1>0, <1>3, <2>1, Installed
  <2>3. /\ registrationState' \in {registrationState, 300}
        /\ UNCHANGED <<currentRegionValue, patchFile>>
        /\ continuousAlignOkayCount' \in {continuousAlignOkayCount, 0}
    BY <1>6 DEF AlignStart, align
  <2>4. continuousAlign' \in BOOLEAN
    <3>1. continuousAlign \in BOOLEAN
      BY <1>0 DEF TypeOK
    <3>2. continuousAlign' = continuousAlign \/ continuousAlign' = TRUE
      BY <1>6 DEF AlignStart, align
    <3> QED BY <3>1, <3>2
  <2> QED BY <1>0, <1>2, <2>2, <2>3, <2>4 DEF Base, TypeOK, StatesInv
<1>7. CASE AlignStop
  <2>1. /\ continuousAlign' = FALSE
        /\ UNCHANGED <<registrationState, continuousAlignOkayCount, regions, patchFile,
                       val_showrawdepth, disturbed>>
    BY <1>7 DEF AlignStop
  <2>2. continuousAlign' \in BOOLEAN
    BY <2>1
  <2>3. BackgroundFirst'
    BY <1>0, <2>1 DEF BackgroundFirst, regions
  <2> QED BY <1>0, <1>2, <2>1, <2>2, <2>3 DEF Base, TypeOK, StatesInv, regions
<1>8. CASE Autotiltpoke
  <2>1. Install(LoadPatch(patchFile, currRegions, regionsImage))
    BY <1>8 DEF Autotiltpoke
  <2>2. /\ newRegions' \in Seq(Region) /\ currRegions' \in Seq(Region)
        /\ BackgroundFirst'
        /\ regionsImage' \in [Points -> 0 .. 255]
        /\ disturbed' = TRUE /\ val_showrawdepth' \in BOOLEAN
    BY <1>0, <1>3, <2>1, Installed
  <2>3. /\ registrationState' \in {registrationState, 1300}
        /\ UNCHANGED <<align, currentRegionValue, patchFile>>
    BY <1>8 DEF Autotiltpoke
  <2> QED BY <1>0, <1>2, <2>2, <2>3 DEF Base, TypeOK, StatesInv, align
<1>9. CASE StopCommand
  <2>1. StopRegistration
        /\ UNCHANGED <<align, currentRegionValue, regionsImage, patchFile, val_showrawdepth,
                       disturbed>>
    BY <1>9 DEF StopCommand
  <2>2. /\ newRegions' \in Seq(Region) /\ currRegions' \in Seq(Region)
        /\ BackgroundFirst' /\ registrationState' = 0
    BY <1>0, <2>1, Stopped DEF BackgroundFirst, HasBackground
  <2> QED BY <1>0, <1>2, <2>1, <2>2 DEF Base, TypeOK, StatesInv, align
<1>10. ASSUME NEW p \in Patches, PatchLoad(p) PROVE Base'
  <2>1. /\ Install(LoadPatchTwice(p, currRegions, regionsImage))
        /\ patchFile' = p /\ UNCHANGED <<registrationState, align, currentRegionValue>>
    BY <1>10 DEF PatchLoad
  <2>2. /\ newRegions' \in Seq(Region) /\ currRegions' \in Seq(Region)
        /\ BackgroundFirst'
        /\ regionsImage' \in [Points -> 0 .. 255]
        /\ disturbed' = TRUE /\ val_showrawdepth' \in BOOLEAN
    BY <1>0, <2>1, Installed
  <2> QED BY <1>0, <1>2, <2>1, <2>2 DEF Base, TypeOK, StatesInv, align
<1>11. ASSUME NEW shown \in BOOLEAN, SetShowRawDepth(shown) PROVE Base'
  BY <1>0, <1>2, <1>11
  DEF SetShowRawDepth, Base, TypeOK, BackgroundFirst, HasBackground, StatesInv, align, regions
<1> QED
  BY <1>4, <1>5, <1>6, <1>7, <1>8, <1>9, <1>10, <1>11 DEF Commands

(* The parts of the state that many steps leave alone.                      *)
AlignOK == continuousAlign \in BOOLEAN /\ continuousAlignOkayCount \in Nat

EnvOK == patchFile \in Patches /\ val_showrawdepth \in BOOLEAN /\ commands \in 0 .. MaxCommands

PokesOK ==
    /\ savedpokes \in Seq(Points) /\ poke \in 0 .. Len(savedpokes) + 1
    /\ fromFile \in BOOLEAN

RegionsOK ==
    /\ currentRegionValue \in Nat \ {0}
    /\ regionsImage \in [Points -> 0 .. 255]
    /\ newRegions \in Seq(Region) /\ currRegions \in Seq(Region)
    /\ BackgroundFirst

StateOK == registrationState \in {0} \cup 100 .. 120 \cup {199} \cup 300 .. 358 \cup {1300}

Parts ==
    StateOK /\ disturbed \in BOOLEAN /\ AlignOK /\ EnvOK /\ PokesOK /\ RegionsOK /\ StatesInv

LEMMA BaseParts == (Base <=> Parts) /\ (Base' <=> Parts')
<1>1. Base => Parts
  BY DEF Base, TypeOK, Parts, StateOK, AlignOK, EnvOK, PokesOK, RegionsOK
<1>2. Parts => Base
  BY DEF Base, TypeOK, Parts, StateOK, AlignOK, EnvOK, PokesOK, RegionsOK
<1>3. Base' => Parts'
  BY DEF Base, TypeOK, Parts, StateOK, AlignOK, EnvOK, PokesOK, RegionsOK
<1>4. Parts' => Base'
  BY DEF Base, TypeOK, Parts, StateOK, AlignOK, EnvOK, PokesOK, RegionsOK
<1> QED BY <1>1, <1>2, <1>3, <1>4

LEMMA PartsKept ==
    /\ AlignOK /\ UNCHANGED align => AlignOK'
    /\ EnvOK /\ UNCHANGED env => EnvOK'
    /\ PokesOK /\ UNCHANGED pokes => PokesOK'
    /\ RegionsOK /\ UNCHANGED regions => RegionsOK'
  BY DEF AlignOK, EnvOK, PokesOK, RegionsOK, align, env, pokes, regions, BackgroundFirst

LEMMA FrameStep ==
    ASSUME Base, Frames \/ Hand
    PROVE  Base'
<1>0. TypeOK /\ BackgroundFirst
  BY DEF Base
<1>1. StateOK /\ disturbed \in BOOLEAN /\ AlignOK /\ EnvOK /\ PokesOK /\ RegionsOK /\ StatesInv
  BY BaseParts DEF Parts
<1> SUFFICES Parts'
  BY BaseParts
<1>2. ASSUME RegisterDepth PROVE Parts'
  <2>1. /\ poke = 0 /\ registrationState \in {100, 300}
        /\ currentRegionValue' = 1 /\ registrationState' = registrationState + 10
        /\ UNCHANGED <<regionsImage, newRegions, currRegions, align, pokes, disturbed, env>>
    BY <1>2 DEF RegisterDepth, Frame
  <2>2. RegionsOK'
    BY <1>1, <2>1 DEF RegionsOK, BackgroundFirst
  <2>3. poke' = 0
    BY <2>1 DEF pokes
  <2>4. StatesInv' /\ StateOK'
    BY <2>1, <2>3 DEF StateOK, StatesInv
  <2> QED BY <1>1, <2>1, <2>2, <2>4, PartsKept DEF Parts
<1>3. ASSUME WaitFrames PROVE Parts'
  <2>1. /\ registrationState \in 110 .. 112 \cup 310 .. 311 /\ poke = 0
        /\ UNCHANGED <<align, regions, pokes, disturbed, env>>
        /\ registrationState' \in 110 .. 120 \cup 310 .. 320
    BY <1>3 DEF WaitFrames, Frame
  <2>2. poke' = 0 /\ currentRegionValue' = currentRegionValue
    BY <2>1 DEF pokes, regions
  <2>3. StatesInv' /\ StateOK'
    BY <1>1, <2>1, <2>2 DEF StateOK, StatesInv
  <2> QED BY <1>1, <2>1, <2>3, PartsKept DEF Parts
<1>4. ASSUME RegistrationStart, registrationState \in {120, 320}
      PROVE  RegionsOK' /\ disturbed' \in BOOLEAN /\ AlignOK'
  <2>1. currentRegionValue = 1
    BY <1>1, <1>4 DEF StatesInv
  <2>2. /\ newRegions' \in Seq(Region) /\ currRegions' = currRegions /\ BackgroundFirst'
        /\ regionsImage' \in [Points -> 0 .. 255]
        /\ currentRegionValue' = 2 /\ disturbed' = FALSE /\ UNCHANGED align
    BY <1>0, <1>4, <2>1, StartTypes
  <2>3. RegionsOK'
    BY <1>1, <2>2 DEF RegionsOK
  <2>4. disturbed' \in BOOLEAN
    BY <2>2
  <2> QED BY <1>1, <2>2, <2>3, <2>4, PartsKept
<1>5. ASSUME StartManual PROVE Parts'
  <2>1. /\ RegistrationStart /\ registrationState = 120 /\ poke = 0
        /\ registrationState' = 199 /\ UNCHANGED <<pokes, env>>
    BY <1>5 DEF StartManual, Frame
  <2>2. poke' = 0
    BY <2>1 DEF pokes
  <2>3. StatesInv' /\ StateOK'
    BY <2>1, <2>2 DEF StateOK, StatesInv
  <2> QED BY <1>1, <1>4, <2>1, <2>3, PartsKept DEF Parts
<1>6. ASSUME StartPokes PROVE Parts'
  <2>1. /\ RegistrationStart /\ registrationState = 320 /\ poke = 0 /\ poke' = 0
        /\ registrationState' = 330 /\ UNCHANGED env
        /\ \/ savedpokes' \in AutopokeFiles /\ fromFile' = TRUE
           \/ savedpokes' = CentresOf(currRegions) /\ fromFile' = FALSE
    BY <1>6 DEF StartPokes, Frame
  <2>2. CentresOf(currRegions) \in Seq(Points)
    BY <1>0, Types, Centres
  <2>3. savedpokes' \in Seq(Points)
    BY <2>1, <2>2, PatchesAssumption
  <2>4. fromFile' \in BOOLEAN
    BY <2>1
  <2>5. poke' \in 0 .. Len(savedpokes') + 1
    BY <2>1, <2>3
  <2>6. PokesOK'
    BY <2>3, <2>4, <2>5 DEF PokesOK
  <2>7. StatesInv' /\ StateOK'
    BY <2>1 DEF StateOK, StatesInv
  <2> QED BY <1>1, <1>4, <2>1, <2>6, <2>7, PartsKept DEF Parts
<1>7. ASSUME BeginPokes PROVE Parts'
  <2>1. /\ registrationState = 330 /\ poke' = 1 /\ registrationState' = 330
        /\ UNCHANGED <<align, regions, savedpokes, fromFile, disturbed, env>>
    BY <1>7 DEF BeginPokes, Frame
  <2>2. PokesOK'
    BY <1>1, <2>1 DEF PokesOK
  <2>3. StatesInv' /\ StateOK'
    BY <2>1 DEF StateOK, StatesInv
  <2> QED BY <1>1, <2>1, <2>2, <2>3, PartsKept DEF Parts
<1>8. ASSUME NEW pt \in Points, RegistrationPoke(pt)
      PROVE  RegionsOK' /\ registrationState' \in {registrationState, 0}
  BY <1>0, <1>8, PokeTypes DEF RegionsOK
<1>9. ASSUME PokeSaved PROVE Parts'
  <2>1. /\ poke \in DOMAIN savedpokes /\ RegistrationPoke(savedpokes[poke])
        /\ poke' = poke + 1
        /\ UNCHANGED <<align, savedpokes, fromFile, env, disturbed>>
    BY <1>9 DEF PokeSaved
  <2>2. poke \in 1 .. Len(savedpokes) /\ savedpokes \in Seq(Points)
    BY <1>1, <2>1, LenProperties DEF PokesOK
  <2>3. savedpokes[poke] \in Points
    BY <2>2, ElementOfSeq
  <2>4. RegionsOK' /\ registrationState' \in {registrationState, 0}
    BY <1>8, <2>1, <2>3
  <2>5. poke' \in 0 .. Len(savedpokes) + 1
    BY <2>1, <2>2, LenProperties
  <2>6. PokesOK'
    BY <1>1, <2>1, <2>5 DEF PokesOK
  <2>7. registrationState' \in {0, 330}
    BY <1>1, <2>2, <2>4 DEF StatesInv
  <2>8. StatesInv' /\ StateOK'
    BY <2>7 DEF StateOK, StatesInv
  <2> QED BY <1>1, <2>1, <2>4, <2>6, <2>8, PartsKept DEF Parts
<1>10. ASSUME EndPokes PROVE Parts'
  <2>1. /\ poke' = 0 /\ registrationState' = 340
        /\ UNCHANGED <<align, regions, savedpokes, fromFile, env, disturbed>>
    BY <1>10 DEF EndPokes
  <2>2. PokesOK'
    BY <1>1, <2>1 DEF PokesOK
  <2>3. StatesInv' /\ StateOK'
    BY <2>1 DEF StateOK, StatesInv
  <2> QED BY <1>1, <2>1, <2>2, <2>3, PartsKept DEF Parts
<1>11. ASSUME ShowResult PROVE Parts'
  <2>1. /\ registrationState \in 340 .. 359 /\ registrationState + 1 # 359
        /\ registrationState' = registrationState + 1 /\ poke = 0
        /\ UNCHANGED <<align, regions, pokes, disturbed, env>>
    BY <1>11 DEF ShowResult, Frame, LastFrame
  <2>2. registrationState' \in 340 .. 358 /\ poke' = 0
    BY <1>1, <2>1 DEF pokes, StateOK
  <2>3. StatesInv' /\ StateOK'
    BY <2>2 DEF StateOK, StatesInv
  <2> QED BY <1>1, <2>1, <2>3, PartsKept DEF Parts
<1>12. ASSUME FinishAutopoke PROVE Parts'
  <2>1. /\ poke = 0 /\ UNCHANGED <<regionsImage, currentRegionValue, pokes, disturbed, env>>
        /\ continuousAlignOkayCount' \in {continuousAlignOkayCount, continuousAlignOkayCount + 1, 0}
    BY <1>12 DEF FinishAutopoke, Frame
  <2>2. continuousAlign' \in BOOLEAN
    BY <1>12, ZenonT(30) DEF FinishAutopoke
  <2>3. AlignOK'
    BY <1>1, <2>1, <2>2 DEF AlignOK
  <2>4. \/ registrationState' = 300 /\ UNCHANGED <<newRegions, currRegions>>
        \/ StopRegistration
    BY <1>12 DEF FinishAutopoke
  <2>5. RegionsOK' /\ registrationState' \in {0, 300}
    <3>1. CASE registrationState' = 300 /\ UNCHANGED <<newRegions, currRegions>>
      BY <1>1, <2>1, <3>1 DEF RegionsOK, BackgroundFirst
    <3>2. CASE StopRegistration
      <4>1. /\ newRegions' \in Seq(Region) /\ currRegions' \in Seq(Region)
            /\ BackgroundFirst' /\ registrationState' = 0
        BY <1>0, <3>2, Stopped DEF BackgroundFirst, HasBackground
      <4> QED BY <1>1, <2>1, <4>1 DEF RegionsOK
    <3> QED BY <2>4, <3>1, <3>2
  <2>6. poke' = 0
    BY <2>1 DEF pokes
  <2>7. StatesInv' /\ StateOK'
    BY <2>5, <2>6 DEF StateOK, StatesInv
  <2> QED BY <1>1, <2>1, <2>3, <2>5, <2>7, PartsKept DEF Parts
<1>13. ASSUME NEW pt \in Points, PokeByHand(pt) PROVE Parts'
  <2>1. /\ RegistrationPoke(pt) /\ registrationState = 199 /\ poke = 0
        /\ UNCHANGED <<align, pokes, disturbed, env>>
    BY <1>13 DEF PokeByHand, Frame
  <2>2. RegionsOK' /\ registrationState' \in {0, 199} /\ poke' = 0
    BY <1>8, <2>1 DEF pokes
  <2>3. StatesInv' /\ StateOK'
    BY <2>2 DEF StateOK, StatesInv
  <2> QED BY <1>1, <2>1, <2>2, <2>3, PartsKept DEF Parts
<1> QED
  BY <1>2, <1>3, <1>5, <1>6, <1>7, <1>9, <1>10, <1>11, <1>12, <1>13 DEF Frames, Hand

LEMMA StartBase == Init => Base
<1> SUFFICES ASSUME Init PROVE Base
  OBVIOUS
<1> DEFINE black == [q \in Points |-> 0]
           loaded == LoadPatchTwice(patchFile, <<>>, black)
<1>1. patchFile \in Patches /\ patchFile.kind # "failing"
  BY PatchesAssumption DEF Init
<1>2. Listed(<<>>) /\ black \in [Points -> 0 .. 255]
  BY DEF Listed
<1>3. newRegions = loaded.new /\ currRegions = loaded.curr /\ regionsImage = loaded.image
  BY DEF Init
<1>4. Usable(loaded) /\ HasBackground(loaded.curr)
  <2> HIDE DEF black
  <2> QED BY <1>1, <1>2, LoadedTwice
<1> HIDE DEF loaded
<1>5. /\ newRegions \in Seq(Region) /\ currRegions \in Seq(Region)
      /\ regionsImage \in [Points -> 0 .. 255] /\ BackgroundFirst
  BY <1>3, <1>4 DEF Usable, Listed, BackgroundFirst
<1>6. continuousAlign \in BOOLEAN /\ commands \in 0 .. MaxCommands
  <2>1. continuousAlign \in BOOLEAN
    BY DEF Init
  <2>2. commands \in {0, 1}
    BY DEF Init
  <2> QED BY <2>1, <2>2, PatchesAssumption
<1>7. savedpokes \in Seq(Points) /\ poke \in 0 .. Len(savedpokes) + 1
  BY DEF Init
<1>8. /\ registrationState \in {0, 300} /\ currentRegionValue = 1 /\ continuousAlignOkayCount = 0
      /\ poke = 0 /\ val_showrawdepth = FALSE /\ disturbed = FALSE /\ fromFile = FALSE
  BY DEF Init
<1>9. val_showrawdepth \in BOOLEAN /\ disturbed \in BOOLEAN /\ fromFile \in BOOLEAN
  BY <1>8
<1>10. RegionsOK /\ PokesOK /\ EnvOK /\ AlignOK
  <2>1. RegionsOK
    BY <1>5, <1>8 DEF RegionsOK
  <2>2. PokesOK
    BY <1>7, <1>9 DEF PokesOK
  <2>3. EnvOK
    BY <1>1, <1>6, <1>9 DEF EnvOK
  <2>4. AlignOK
    BY <1>6, <1>8 DEF AlignOK
  <2> QED BY <2>1, <2>2, <2>3, <2>4
<1>11. StatesInv /\ StateOK
  BY <1>8 DEF StatesInv, StateOK
<1> QED BY <1>9, <1>10, <1>11, BaseParts DEF Parts

LEMMA BaseStep ==
    ASSUME Base, [Next]_vars
    PROVE  Base'
<1>1. CASE UNCHANGED vars
  <2>1. Parts
    BY BaseParts
  <2>2. UNCHANGED <<align, regions, pokes, env, disturbed, registrationState>>
    BY <1>1 DEF vars
  <2>3. StatesInv'
    BY <2>1, <2>2 DEF Parts, StatesInv, pokes, regions
  <2>4. StateOK' /\ disturbed' \in BOOLEAN
    BY <2>1, <2>2 DEF Parts, StateOK
  <2>5. Parts'
    BY <2>1, <2>2, <2>3, <2>4, PartsKept DEF Parts
  <2> QED BY <2>5, BaseParts
<1> QED BY <1>1, CommandStep, FrameStep DEF Next

-----------------------------------------------------------------------------
(* While regions are poked, the image and the new regions agree.            *)

Poking == (registrationState \in {199} \cup 330 .. 359 \/ poke > 0) /\ ~disturbed

AllPainted ==
    /\ currentRegionValue = Len(newRegions)
    /\ \A i \in DOMAIN newRegions : newRegions[i].id = i - 1
    /\ \A q \in Points : regionsImage[q] \in 2 .. 254 =>
         regionsImage[q] < Len(newRegions) /\ Covers(newRegions[regionsImage[q] + 1], q)

(* A poke enters a new region under the value it paints, and stopping       *)
(* changes session numbers only.                                            *)
LEMMA PokePaints ==
    ASSUME TypeOK, BackgroundFirst, AllPainted, NEW pt \in Points, RegistrationPoke(pt)
    PROVE  AllPainted'
<1> DEFINE n == Len(newRegions)
<1>1. /\ n \in Nat /\ DOMAIN newRegions = 1 .. n
      /\ regionsImage \in [Points -> 0 .. 255]
      /\ currentRegionValue = n
      /\ \A i \in 1 .. n : newRegions[i].id = i - 1
      /\ \A q \in Points : regionsImage[q] \in 2 .. 254 =>
           regionsImage[q] < n /\ Covers(newRegions[regionsImage[q] + 1], q)
  BY Types DEF AllPainted
<1>2. ASSUME regionsImage' = FloodFill(regionsImage, pt, currentRegionValue),
             newRegions' = Append(newRegions,
                                  Bounding(currentRegionValue, Connected(regionsImage, pt))),
             currentRegionValue' = currentRegionValue + 1
      PROVE  AllPainted'
  <2> DEFINE S == Connected(regionsImage, pt)
             found == Bounding(currentRegionValue, S)
  <2>1. /\ found.id = n
        /\ \A q \in S : Covers(found, q)
        /\ newRegions' \in Seq(Region) /\ Len(newRegions') = n + 1
        /\ newRegions'[n + 1] = found
        /\ \A i \in 1 .. n : newRegions'[i] = newRegions[i]
    BY <1>1, <1>2, NewRegion
  <2>2. /\ \A q \in Points \ S : regionsImage'[q] = regionsImage[q]
        /\ \A q \in S : regionsImage'[q] \in {n, 255}
    <3>1. n \in Nat /\ regionsImage \in [Points -> 0 .. 255]
      BY <1>1
    <3>2. regionsImage' = FloodFill(regionsImage, pt, n)
      BY <1>1, <1>2
    <3> HIDE DEF n
    <3> QED BY <3>1, <3>2, Filled
  <2> HIDE DEF n, S, found
  <2>3. currentRegionValue' = Len(newRegions') /\ DOMAIN newRegions' = 1 .. n + 1
    BY <1>1, <1>2, <2>1, LenProperties
  <2>4. ASSUME NEW i \in 1 .. n + 1 PROVE newRegions'[i].id = i - 1
    BY <1>1, <2>1
  <2>5. ASSUME NEW q \in Points, regionsImage'[q] \in 2 .. 254
        PROVE  /\ regionsImage'[q] < Len(newRegions')
               /\ Covers(newRegions'[regionsImage'[q] + 1], q)
    <3>1. CASE q \in S
      <4>1. regionsImage'[q] = n
        <5>1. regionsImage'[q] \in {n, 255} /\ regionsImage'[q] \in 2 .. 254
          BY <2>2, <2>5, <3>1
        <5> QED BY <5>1
      <4> QED BY <1>1, <2>1, <3>1, <4>1
    <3>2. CASE q \notin S
      <4>1. regionsImage'[q] = regionsImage[q]
        BY <2>2, <3>2
      <4>2. regionsImage[q] < n /\ Covers(newRegions[regionsImage[q] + 1], q)
        BY <1>1, <2>5, <4>1
      <4>3. regionsImage[q] + 1 \in 1 .. n /\ regionsImage[q] < n + 1
        <5>1. n \in Nat /\ regionsImage[q] \in 2 .. 254 /\ regionsImage[q] < n
          BY <1>1, <2>5, <4>1, <4>2
        <5> QED BY <5>1
      <4> QED BY <2>1, <4>1, <4>2, <4>3
    <3> QED BY <3>1, <3>2
  <2> QED BY <2>3, <2>4, <2>5 DEF AllPainted
<1>3. ASSUME StopRegistration, UNCHANGED <<regionsImage, currentRegionValue>>
      PROVE  AllPainted'
  <2>1. /\ newRegions' \in Seq(Region) /\ Len(newRegions') = n
        /\ \A i \in 1 .. n : /\ newRegions'[i].id = newRegions[i].id
                             /\ newRegions'[i].x = newRegions[i].x
                             /\ newRegions'[i].w = newRegions[i].w
    BY <1>3, Stopped
  <2> HIDE DEF n
  <2>2. currentRegionValue' = Len(newRegions') /\ DOMAIN newRegions' = 1 .. n
    BY <1>1, <1>3, <2>1, LenProperties
  <2>3. ASSUME NEW q \in Points, regionsImage'[q] \in 2 .. 254
        PROVE  /\ regionsImage'[q] < Len(newRegions')
               /\ Covers(newRegions'[regionsImage'[q] + 1], q)
    <3>1. regionsImage[q] < n /\ Covers(newRegions[regionsImage[q] + 1], q)
      BY <1>1, <1>3, <2>3
    <3>2. regionsImage[q] + 1 \in 1 .. n
      <4>1. n \in Nat /\ regionsImage[q] \in 2 .. 254 /\ regionsImage[q] < n
        BY <1>1, <1>3, <2>3, <3>1
      <4> QED BY <4>1
    <3> QED BY <1>3, <2>1, <3>1, <3>2 DEF Covers
  <2>4. \A i \in 1 .. n : newRegions'[i].id = i - 1
    BY <1>1, <2>1
  <2> QED BY <2>2, <2>3, <2>4 DEF AllPainted
<1>4. ASSUME UNCHANGED regions
      PROVE  AllPainted'
  BY <1>4 DEF AllPainted, regions
<1> QED BY <1>2, <1>3, <1>4 DEF RegistrationPoke

LEMMA PaintedStep ==
    ASSUME Base, PokedRegionsPainted, [Next]_vars
    PROVE  PokedRegionsPainted'
<1>0. TypeOK /\ BackgroundFirst /\ StatesInv
  BY DEF Base
<1>1. Poking => AllPainted
  BY DEF PokedRegionsPainted, Poking, AllPainted
<1> SUFFICES ASSUME Poking' PROVE AllPainted'
  BY DEF PokedRegionsPainted, Poking, AllPainted
<1>2. ASSUME UNCHANGED <<registrationState, poke, disturbed, regions>> PROVE AllPainted'
  <2>1. Poking
    BY <1>2 DEF Poking
  <2> QED BY <1>1, <1>2, <2>1 DEF AllPainted, regions
<1>3. CASE UNCHANGED vars
  BY <1>2, <1>3 DEF vars, pokes
<1>4. CASE Commands
  <2>1. ASSUME Command PROVE poke' = 0 /\ UNCHANGED poke
    BY <2>1 DEF Command, pokes
  <2>2. ASSUME Command, registrationState' \in {0, 100} PROVE FALSE
    BY <2>1, <2>2 DEF Poking
  <2>3. ASSUME NEW l, Install(l) PROVE FALSE
    BY <2>3 DEF Install, Poking
  <2>4. CASE StartRegistration
    BY <2>2, <2>4 DEF StartRegistration
  <2>5. CASE Autopoke \/ AlignStart \/ Autotiltpoke
    BY <2>3, <2>5 DEF Autopoke, AlignStart, Autotiltpoke
  <2>6. CASE AlignStop
    BY <1>2, <2>1, <2>6 DEF AlignStop
  <2>7. CASE StopCommand
    BY <2>2, <2>7 DEF StopCommand, StopRegistration
  <2>8. CASE \E p \in Patches : PatchLoad(p)
    BY <2>3, <2>8 DEF PatchLoad
  <2>9. CASE \E shown \in BOOLEAN : SetShowRawDepth(shown)
    BY <1>2, <2>1, <2>9 DEF SetShowRawDepth
  <2> QED BY <1>4, <2>4, <2>5, <2>6, <2>7, <2>8, <2>9 DEF Commands
<1>5. CASE RegisterDepth \/ WaitFrames
  <2>1. poke' = 0 /\ registrationState' \in 110 .. 120 \cup 310 .. 320
    BY <1>5 DEF RegisterDepth, WaitFrames, Frame, pokes
  <2> QED BY <2>1 DEF Poking
<1>6. CASE StartManual \/ StartPokes
  <2>1. currentRegionValue = 1 /\ RegistrationStart
    BY <1>0, <1>6 DEF StartManual, StartPokes, StatesInv
  <2>2. /\ newRegions' = Background /\ currentRegionValue' = 2
        /\ regionsImage' \in [Points -> {0, 1, 255}]
    BY <1>0, <2>1, StartTypes
  <2>3. /\ Len(newRegions') = 2 /\ DOMAIN newRegions' = 1 .. 2
        /\ \A i \in 1 .. 2 : newRegions'[i].id = i - 1
    BY <2>2, BackgroundRegions, LenProperties
  <2>4. \A q \in Points : regionsImage'[q] \notin 2 .. 254
    BY <2>2
  <2> QED BY <2>2, <2>3, <2>4 DEF AllPainted
<1>7. CASE BeginPokes
  <2>1. Poking /\ UNCHANGED regions
    BY <1>7 DEF BeginPokes, Poking
  <2> QED BY <1>1, <2>1 DEF AllPainted, regions
<1>8. CASE PokeSaved
  <2>1. poke \in 1 .. Len(savedpokes) /\ savedpokes \in Seq(Points)
    BY <1>0, <1>8, Types DEF PokeSaved, TypeOK
  <2>2. Poking
    <3>1. poke > 0 /\ UNCHANGED disturbed
      BY <1>8, <2>1 DEF PokeSaved
    <3>2. ~disturbed
      BY <3>1 DEF Poking
    <3> QED BY <3>1, <3>2 DEF Poking
  <2>3. savedpokes[poke] \in Points /\ RegistrationPoke(savedpokes[poke])
    BY <1>8, <2>1, ElementOfSeq DEF PokeSaved
  <2> QED BY <1>0, <1>1, <2>2, <2>3, PokePaints
<1>9. CASE EndPokes
  <2>1. poke > 0 /\ UNCHANGED <<regions, disturbed>>
    BY <1>0, <1>9, Types DEF EndPokes, TypeOK
  <2>2. Poking
    BY <2>1 DEF Poking
  <2> QED BY <1>1, <2>1, <2>2 DEF AllPainted, regions
<1>10. CASE ShowResult
  <2>1. Poking /\ UNCHANGED regions
    BY <1>10 DEF ShowResult, Poking
  <2> QED BY <1>1, <2>1 DEF AllPainted, regions
<1>11. CASE FinishAutopoke
  <2>1. poke' = 0 /\ registrationState' \in {0, 300}
    BY <1>11 DEF FinishAutopoke, Frame, StopRegistration, pokes
  <2> QED BY <2>1 DEF Poking
<1>12. ASSUME NEW pt \in Points, PokeByHand(pt) PROVE AllPainted'
  <2>1. Poking /\ RegistrationPoke(pt)
    BY <1>12 DEF PokeByHand, Poking
  <2> QED BY <1>0, <1>1, <2>1, PokePaints
<1> QED
  BY <1>3, <1>4, <1>5, <1>6, <1>7, <1>8, <1>9, <1>10, <1>11, <1>12 DEF Next, Frames, Hand

-----------------------------------------------------------------------------
(* The k-th poke of the current regions leads to the k-th new region.       *)

Following == (registrationState \in 330 .. 358 \/ poke > 0) /\ ~disturbed /\ ~fromFile

Followed == PokesFindRegions \/ StoppedWithin

LEMMA PokeFollows ==
    ASSUME TypeOK, BackgroundFirst, StatesInv, Followed, PokeSaved
    PROVE  Followed'
<1>1. /\ poke \in 1 .. Len(savedpokes) /\ savedpokes \in Seq(Points)
      /\ poke' = poke + 1 /\ savedpokes' = savedpokes
      /\ RegistrationPoke(savedpokes[poke])
  BY Types DEF PokeSaved, TypeOK
<1>2. poke \in Nat /\ poke > 0 /\ Poked = poke - 1 /\ Poked' = poke /\ poke' > 0
  BY <1>1, Types DEF Poked
<1>3. savedpokes[poke] \in Points
  BY <1>1, ElementOfSeq
<1> DEFINE n == Len(newRegions)
<1>4. n \in Nat /\ DOMAIN newRegions = 1 .. n
  BY Types
<1>5. ASSUME UNCHANGED regions PROVE Followed'
  <2>1. UNCHANGED <<newRegions, currRegions>>
    BY <1>5 DEF regions
  <2>2. CASE PokesFindRegions
    <3>1. savedpokes = CentresOf(currRegions) /\ n <= (poke - 1) + 2
      BY <1>2, <2>2 DEF PokesFindRegions
    <3>2. n <= poke + 2 /\ n # poke + 2
      <4>1. n \in Nat /\ poke \in Nat
        BY <1>2, <1>4
      <4> HIDE DEF n
      <4> QED BY <3>1, <4>1
    <3> QED BY <1>1, <1>2, <2>1, <3>1, <3>2 DEF Followed, PokesFindRegions
  <2>3. CASE StoppedWithin
    BY <2>1, <2>3 DEF Followed, StoppedWithin
  <2> QED BY <2>2, <2>3 DEF Followed
<1>6. ASSUME StopRegistration PROVE Followed'
  BY <1>6, Stopped DEF Followed, StoppedWithin
<1>7. ASSUME newRegions' = Append(newRegions, Bounding(currentRegionValue,
                                                       Connected(regionsImage, savedpokes[poke]))),
             UNCHANGED currRegions
      PROVE  Followed'
  <2> DEFINE found == Bounding(currentRegionValue, Connected(regionsImage, savedpokes[poke]))
  <2>1. /\ Covers(found, savedpokes[poke])
        /\ newRegions' \in Seq(Region) /\ Len(newRegions') = n + 1
        /\ newRegions'[n + 1] = found
        /\ \A i \in 1 .. n : newRegions'[i] = newRegions[i]
    BY <1>3, <1>7, NewRegion
  <2> HIDE DEF found, n
  <2>2. DOMAIN newRegions' = 1 .. n + 1
    BY <2>1, LenProperties
  <2>3. CASE PokesFindRegions
    <3>1. /\ savedpokes = CentresOf(currRegions) /\ n <= (poke - 1) + 2
          /\ n = (poke - 1) + 2 =>
               \A k \in 1 .. poke - 1 : Covers(newRegions[k + 2], savedpokes[k])
      BY <1>2, <2>3 DEF PokesFindRegions, n
    <3>2. n + 1 <= poke + 2
      BY <1>2, <1>4, <3>1
    <3>3. ASSUME n + 1 = poke + 2, NEW k \in 1 .. poke
          PROVE  Covers(newRegions'[k + 2], savedpokes[k])
      <4>1. n = poke + 1 /\ n = (poke - 1) + 2
        BY <1>2, <1>4, <3>3
      <4>2. CASE k = poke
        BY <1>2, <2>1, <4>1, <4>2
      <4>3. CASE k # poke
        <5>1. k \in 1 .. poke - 1 /\ k + 2 \in 1 .. n
          BY <1>2, <4>1, <4>3
        <5> QED BY <2>1, <3>1, <4>1, <5>1
      <4> QED BY <4>2, <4>3
    <3> QED BY <1>1, <1>2, <1>7, <2>1, <3>1, <3>2, <3>3 DEF Followed, PokesFindRegions
  <2>4. CASE StoppedWithin
    <3>1. ASSUME NEW i \in DOMAIN currRegions'
          PROVE  i \in DOMAIN newRegions' /\ newRegions'[i] = currRegions'[i]
      <4>1. i \in 1 .. n /\ newRegions[i] = currRegions[i]
        BY <1>4, <1>7, <2>4, <3>1 DEF StoppedWithin
      <4>2. i \in 1 .. n + 1
        BY <1>4, <4>1
      <4> QED BY <1>7, <2>1, <2>2, <4>1, <4>2
    <3> QED BY <3>1 DEF Followed, StoppedWithin
  <2> QED BY <2>3, <2>4 DEF Followed
<1> QED BY <1>1, <1>5, <1>6, <1>7 DEF RegistrationPoke

LEMMA FollowedStep ==
    ASSUME Base, PokesFollowed, [Next]_vars
    PROVE  PokesFollowed'
<1>0. TypeOK /\ BackgroundFirst /\ StatesInv
  BY DEF Base
<1>1. Following => Followed
  BY DEF PokesFollowed, Following, Followed
<1> SUFFICES ASSUME Following' PROVE Followed'
  BY DEF PokesFollowed, Following, Followed
<1>2. ASSUME UNCHANGED <<registrationState, poke, savedpokes, fromFile, disturbed,
                         newRegions, currRegions>>
      PROVE  Followed'
  <2>1. Following /\ Poked' = Poked
    BY <1>2 DEF Following, Poked
  <2> QED BY <1>1, <1>2, <2>1 DEF Followed, PokesFindRegions, StoppedWithin
<1>3. CASE UNCHANGED vars
  BY <1>2, <1>3 DEF vars, pokes, regions
<1>4. CASE Commands
  <2>1. ASSUME Command PROVE poke' = 0 /\ UNCHANGED <<poke, savedpokes, fromFile>>
    BY <2>1 DEF Command, pokes
  <2>2. ASSUME Command, registrationState' \in {0, 100} PROVE FALSE
    BY <2>1, <2>2 DEF Following
  <2>3. ASSUME NEW l, Install(l) PROVE FALSE
    BY <2>3 DEF Install, Following
  <2>4. CASE StartRegistration
    BY <2>2, <2>4 DEF StartRegistration
  <2>5. CASE Autopoke \/ AlignStart \/ Autotiltpoke
    BY <2>3, <2>5 DEF Autopoke, AlignStart, Autotiltpoke
  <2>6. CASE AlignStop
    BY <1>2, <2>1, <2>6 DEF AlignStop, regions
  <2>7. CASE StopCommand
    BY <2>2, <2>7 DEF StopCommand, StopRegistration
  <2>8. CASE \E p \in Patches : PatchLoad(p)
    BY <2>3, <2>8 DEF PatchLoad
  <2>9. CASE \E shown \in BOOLEAN : SetShowRawDepth(shown)
    BY <1>2, <2>1, <2>9 DEF SetShowRawDepth, regions
  <2> QED BY <1>4, <2>4, <2>5, <2>6, <2>7, <2>8, <2>9 DEF Commands
<1>5. CASE RegisterDepth \/ WaitFrames \/ StartManual
  <2>1. poke' = 0 /\ registrationState' \in 110 .. 120 \cup {199} \cup 310 .. 320
    BY <1>5 DEF RegisterDepth, WaitFrames, StartManual, Frame, pokes
  <2> QED BY <2>1 DEF Following
<1>6. CASE StartPokes
  <2>1. /\ savedpokes' = CentresOf(currRegions) /\ currRegions' = currRegions
        /\ newRegions' = Background /\ registrationState' = 330 /\ poke' = 0
    BY <1>6 DEF StartPokes, Frame, RegistrationStart, Following
  <2>2. Poked' = 0
    BY <2>1 DEF Poked
  <2>3. Len(newRegions') = 2
    BY <2>1, BackgroundRegions
  <2> QED BY <2>1, <2>2, <2>3 DEF Followed, PokesFindRegions
<1>7. CASE BeginPokes
  <2>1. /\ registrationState = 330 /\ poke = 0 /\ poke' = 1
        /\ UNCHANGED <<newRegions, currRegions, savedpokes, disturbed, fromFile>>
    BY <1>7 DEF BeginPokes, Frame, regions
  <2>2. Following
    BY <2>1 DEF Following
  <2>3. Poked = 0 /\ Poked' = 0
    BY <2>1 DEF Poked
  <2> QED BY <1>1, <2>1, <2>2, <2>3 DEF Followed, PokesFindRegions, StoppedWithin
<1>8. CASE PokeSaved
  <2>1. poke > 0 /\ UNCHANGED <<disturbed, fromFile>>
    BY <1>0, <1>8, Types DEF PokeSaved
  <2>2. ~disturbed /\ ~fromFile
    BY <2>1 DEF Following
  <2>3. Followed
    BY <1>1, <2>1, <2>2 DEF Following
  <2> QED BY <1>0, <1>8, <2>3, PokeFollows
<1>9. CASE EndPokes
  <2>1. /\ poke > Len(savedpokes) /\ poke' = 0 /\ registrationState' = 340
        /\ UNCHANGED <<newRegions, currRegions, savedpokes, disturbed, fromFile>>
    BY <1>9 DEF EndPokes, regions
  <2>2. poke = Len(savedpokes) + 1 /\ poke > 0 /\ Len(savedpokes) \in Nat
    BY <1>0, <2>1, Types DEF TypeOK
  <2>3. ~disturbed /\ ~fromFile
    BY <2>1 DEF Following
  <2>4. Following
    BY <2>2, <2>3 DEF Following
  <2>5. Poked = Len(savedpokes)
    BY <2>2 DEF Poked
  <2>6. Poked' = Len(savedpokes)
    BY <2>1 DEF Poked
  <2> QED BY <1>1, <2>1, <2>4, <2>5, <2>6 DEF Followed, PokesFindRegions, StoppedWithin
<1>10. CASE ShowResult
  <2>1. /\ registrationState \in 340 .. 359 /\ registrationState' = registrationState + 1
        /\ poke = 0 /\ poke' = 0
        /\ UNCHANGED <<newRegions, currRegions, savedpokes, disturbed, fromFile>>
    BY <1>10 DEF ShowResult, Frame, regions, pokes
  <2>2. registrationState \in 340 .. 358
    BY <1>0, <2>1 DEF TypeOK
  <2>3. ~disturbed /\ ~fromFile
    BY <2>1 DEF Following
  <2>4. Following
    BY <2>2, <2>3 DEF Following
  <2>5. Poked = Len(savedpokes) /\ Poked' = Len(savedpokes)
    BY <2>1, <2>2 DEF Poked
  <2> QED BY <1>1, <2>1, <2>4, <2>5 DEF Followed, PokesFindRegions, StoppedWithin
<1>11. CASE FinishAutopoke
  <2>1. poke' = 0 /\ registrationState' \in {0, 300}
    BY <1>11 DEF FinishAutopoke, Frame, StopRegistration, pokes
  <2> QED BY <2>1 DEF Following
<1>12. ASSUME NEW pt \in Points, PokeByHand(pt) PROVE Followed'
  <2>1. registrationState' \in {199, 0} /\ poke' = 0
    BY <1>12 DEF PokeByHand, Frame, RegistrationPoke, StopRegistration, pokes
  <2> QED BY <2>1 DEF Following
<1> QED
  BY <1>3, <1>4, <1>5, <1>6, <1>7, <1>8, <1>9, <1>10, <1>11, <1>12 DEF Next, Frames, Hand

-----------------------------------------------------------------------------
(* Theorems.                                                                *)

LEMMA InvariantParts == (IInv <=> Base /\ PokedRegionsPainted /\ PokesFollowed)
                        /\ (IInv' <=> Base' /\ PokedRegionsPainted' /\ PokesFollowed')
  BY DEF IInv, Base

(* The inductive invariant, for images of every size, every set of patch    *)
(* files and every mask: the lists start with the background, the value of  *)
(* the next region is the background's between registering the depth and    *)
(* the mask, and while regions are poked each new region has the index that *)
(* its pixels hold (registrationPoke) and, as long as each poke has found a *)
(* region, lies around the middle of the current one with its index         *)
(* (doPokeRegistration).                                                    *)
THEOREM Invariance == Spec => []IInv
<1>1. Init => IInv
  <2> SUFFICES ASSUME Init PROVE IInv
    OBVIOUS
  <2>1. Base
    BY StartBase
  <2>2. registrationState \in {0, 300} /\ poke = 0
    BY DEF Init
  <2>3. PokedRegionsPainted /\ PokesFollowed
    BY <2>2 DEF PokedRegionsPainted, PokesFollowed
  <2> QED BY <2>1, <2>3, InvariantParts
<1>2. IInv /\ [Next]_vars => IInv'
  BY InvariantParts, BaseStep, PaintedStep, FollowedStep
<1> QED BY <1>1, <1>2, PTL DEF Spec

(* A step that terminates a registration, whichever it is, is a stop: it    *)
(* leaves the image as it is.                                               *)
LEMMA EndsByStop ==
    ASSUME Base, [Next]_vars, registrationState # 0, registrationState' = 0
    PROVE  StopRegistration /\ regionsImage' = regionsImage
<1>1. registrationState' # registrationState
  OBVIOUS
<1>2. CASE UNCHANGED vars
  BY <1>1, <1>2 DEF vars
<1>3. CASE Commands
  <2>1. CASE StartRegistration \/ AlignStop
    BY <1>1, <2>1 DEF StartRegistration, AlignStop
  <2>2. CASE Autopoke \/ AlignStart \/ Autotiltpoke
    BY <1>1, <2>2 DEF Autopoke, AlignStart, Autotiltpoke
  <2>3. CASE StopCommand
    BY <2>3 DEF StopCommand
  <2>4. CASE \E p \in Patches : PatchLoad(p)
    BY <1>1, <2>4 DEF PatchLoad
  <2>5. CASE \E shown \in BOOLEAN : SetShowRawDepth(shown)
    BY <1>1, <2>5 DEF SetShowRawDepth
  <2> QED BY <1>3, <2>1, <2>2, <2>3, <2>4, <2>5 DEF Commands
<1>4. ASSUME NEW pt, RegistrationPoke(pt)
      PROVE  StopRegistration /\ regionsImage' = regionsImage
  BY <1>1, <1>4 DEF RegistrationPoke
<1>5. CASE RegisterDepth \/ WaitFrames
  BY <1>5 DEF RegisterDepth, WaitFrames
<1>6. CASE StartManual \/ StartPokes \/ BeginPokes \/ EndPokes
  BY <1>1, <1>6 DEF StartManual, StartPokes, BeginPokes, EndPokes
<1>7. CASE PokeSaved
  BY <1>4, <1>7 DEF PokeSaved
<1>8. CASE ShowResult
  BY <1>8 DEF ShowResult
<1>9. CASE FinishAutopoke
  BY <1>9 DEF FinishAutopoke
<1>10. CASE Hand
  BY <1>4, <1>10 DEF Hand, PokeByHand
<1> QED
  BY <1>2, <1>3, <1>5, <1>6, <1>7, <1>8, <1>9, <1>10 DEF Next, Frames

(* When a registration by hand or an autopoke ends, each pixel of a region  *)
(* in the image is the index of a region in use that covers it: analyzePixels *)
(* gives every blob to the region it is in.                                 *)
THEOREM EndedRegistrationMatches == Spec => FinishMatchesImage
<1>1. ASSUME IInv, [Next]_vars,
             registrationState \in {199} \cup 330 .. 359, ~disturbed, registrationState' = 0
      PROVE  Matches(regionsImage', currRegions')
  <2>1. Base /\ PokedRegionsPainted /\ TypeOK /\ BackgroundFirst
    BY <1>1, InvariantParts DEF Base
  <2>2. StopRegistration /\ regionsImage' = regionsImage
    BY <1>1, <2>1, EndsByStop
  <2> DEFINE n == Len(newRegions)
  <2>3. /\ currRegions' = newRegions' /\ Len(newRegions') = n /\ n \in Nat
        /\ \A i \in 1 .. n : newRegions'[i].x = newRegions[i].x /\ newRegions'[i].w = newRegions[i].w
    BY <2>1, <2>2, Stopped, Types
  <2>4. \A q \in Points : regionsImage[q] \in 2 .. 254 =>
          regionsImage[q] < n /\ Covers(newRegions[regionsImage[q] + 1], q)
    BY <1>1, <2>1 DEF PokedRegionsPainted
  <2> HIDE DEF n
  <2> SUFFICES ASSUME NEW q \in Points, regionsImage[q] \in 2 .. MaskId - 1
               PROVE  /\ regionsImage[q] < Len(newRegions')
                      /\ Covers(newRegions'[regionsImage[q] + 1], q)
    BY <2>2, <2>3 DEF Matches
  <2>5. regionsImage[q] \in 2 .. 254
    <3>1. MaskId \in 3 .. 254
      BY PatchesAssumption
    <3> QED BY <3>1
  <2>6. regionsImage[q] < n /\ Covers(newRegions[regionsImage[q] + 1], q)
    BY <2>4, <2>5
  <2>7. regionsImage[q] + 1 \in 1 .. n
    BY <2>3, <2>5, <2>6
  <2> QED BY <2>3, <2>6, <2>7 DEF Covers
<1>2. IInv /\ [Next]_vars =>
        [ /\ registrationState \in {199} \cup 330 .. 359
          /\ ~disturbed
          /\ registrationState' = 0
          /\ poke' = 0
          => Matches(regionsImage', currRegions') ]_vars
  BY <1>1
<1> QED BY <1>2, Invariance, PTL DEF Spec, FinishMatchesImage

(* After patch_load, each pixel of a region in the image is the index of a  *)
(* region in use that covers it, whatever was in use and painted before:    *)
(* LoadPatch paints the rectangles of the regions it replaces, and the      *)
(* second call of ExecuteJson makes those the new ones.                     *)
THEOREM LoadedPatchMatches == Spec => LoadMatchesImage
<1>1. ASSUME IInv, [Next]_vars, Regular(patchFile'), PatchLoad(patchFile')
      PROVE  Matches(regionsImage', currRegions')
  <2>1. Base /\ TypeOK /\ BackgroundFirst
    BY <1>1, InvariantParts DEF Base
  <2>2. patchFile' \in Patches
    <3>1. Base'
      BY <1>1, <2>1, BaseStep
    <3> QED BY <3>1 DEF Base, TypeOK
  <2> DEFINE l == LoadPatchTwice(patchFile', currRegions, regionsImage)
  <2>3. currRegions' = l.curr /\ regionsImage' = l.image
    BY <1>1 DEF PatchLoad, Install
  <2>4. Listed(currRegions) /\ regionsImage \in [Points -> 0 .. 255]
    BY <2>1, Types
  <2>5. CASE patchFile'.kind = "rects" /\ Len(patchFile'.regions) <= 254
    BY <2>2, <2>3, <2>4, <2>5, RectsMatch
  <2>6. CASE patchFile'.kind = "image" /\ NoIdMissing(patchFile'.image)
    BY <2>2, <2>3, <2>4, <2>6, ImageMatches
  <2> QED BY <1>1, <2>5, <2>6 DEF Regular
<1>2. IInv /\ [Next]_vars =>
        [ Regular(patchFile') /\ commands' # commands /\ PatchLoad(patchFile')
          => Matches(regionsImage', currRegions') ]_vars
  BY <1>1
<1> QED BY <1>2, Invariance, PTL DEF Spec, LoadMatchesImage

(* For a patch with an image, that is so exactly when the ids in the image  *)
(* leave none out: deriveRegionsFromImage skips an id that no pixel has,    *)
(* and the regions after it lose the index that their pixels hold.          *)
THEOREM LoadedImageMatches ==
    Spec => [][ patchFile'.kind = "image" /\ PatchLoad(patchFile')
                  => (Matches(regionsImage', currRegions') <=> NoIdMissing(patchFile'.image)) ]_vars
<1>1. ASSUME IInv, [Next]_vars, patchFile'.kind = "image", PatchLoad(patchFile')
      PROVE  Matches(regionsImage', currRegions') <=> NoIdMissing(patchFile'.image)
  <2>1. Base /\ TypeOK /\ BackgroundFirst
    BY <1>1, InvariantParts DEF Base
  <2>2. patchFile' \in Patches
    <3>1. Base'
      BY <1>1, <2>1, BaseStep
    <3> QED BY <3>1 DEF Base, TypeOK
  <2> DEFINE l == LoadPatchTwice(patchFile', currRegions, regionsImage)
  <2>3. currRegions' = l.curr /\ regionsImage' = l.image
    BY <1>1 DEF PatchLoad, Install
  <2>4. Listed(currRegions) /\ regionsImage \in [Points -> 0 .. 255]
    BY <2>1, Types
  <2> QED BY <1>1, <2>2, <2>3, <2>4, ImageMatches
<1>2. IInv /\ [Next]_vars =>
        [ patchFile'.kind = "image" /\ PatchLoad(patchFile')
          => (Matches(regionsImage', currRegions') <=> NoIdMissing(patchFile'.image)) ]_vars
  BY <1>1
<1> QED BY <1>2, Invariance, PTL DEF Spec

(* When an autopoke has found as many regions as there were, each region    *)
(* keeps the session numbers of the one whose middle it covers: the order   *)
(* of the pokes is the order of the regions, although neither the session   *)
(* numbers nor the rectangles are compared.                                 *)
THEOREM AutopokeKeepsSids == Spec => SidsFollowPlace
<1>1. ASSUME IInv, [Next]_vars,
             registrationState \in 340 .. 359, ~disturbed, ~fromFile,
             registrationState' = 0, Len(newRegions) = Len(currRegions),
             NEW i \in 3 .. Len(currRegions)
      PROVE  /\ currRegions'[i].sid = currRegions[i].sid
             /\ Covers(currRegions'[i], Centre(currRegions[i]))
  <2>1. Base /\ PokesFollowed /\ TypeOK /\ BackgroundFirst /\ StatesInv
    BY <1>1, InvariantParts DEF Base
  <2>2. StopRegistration
    BY <1>1, <2>1, EndsByStop
  <2>3. registrationState \in 340 .. 358
    BY <1>1, <2>1 DEF TypeOK
  <2>4. /\ Len(savedpokes) \in Nat /\ Len(currRegions) \in Nat
        /\ currRegions \in Seq(Region) /\ HasBackground(currRegions)
        /\ DOMAIN currRegions = 1 .. Len(currRegions)
    BY <2>1, Types
  <2>5. i \in 1 .. Len(newRegions) /\ i \in 1 .. Len(currRegions)
        /\ i - 2 \in 1 .. Len(currRegions) - 2 /\ (i - 2) + 2 = i
    BY <1>1, <2>4
  <2>6. /\ currRegions'[i].sid = currRegions[i].sid
        /\ currRegions'[i].x = newRegions[i].x
        /\ currRegions'[i].w = newRegions[i].w
    BY <1>1, <2>1, <2>2, <2>5, Stopped
  <2>7. Covers(newRegions[i], Centre(currRegions[i]))
    <3>1. CASE StoppedWithin
      <4>1. newRegions[i] = currRegions[i]
        BY <2>4, <2>5, <3>1 DEF StoppedWithin
      <4>2. currRegions[i] \in Region
        BY <2>4, <2>5, ElementOfSeq
      <4> QED BY <4>1, <4>2, CentreCovered
    <3>2. CASE PokesFindRegions
      <4>1. Poked = Len(savedpokes)
        <5>1. ~(poke > 0) /\ registrationState # 330
          BY <2>1, <2>3 DEF StatesInv
        <5> QED BY <5>1 DEF Poked
      <4>2. /\ Len(savedpokes) <= Len(currRegions) - 2
            /\ Len(savedpokes) = Len(currRegions) - 2 =>
                 \A k \in 1 .. Len(currRegions) - 2 : savedpokes[k] = Centre(currRegions[k + 2])
        BY <2>4, <3>2, Centres DEF PokesFindRegions
      <4>3. Len(currRegions) <= Len(savedpokes) + 2
        BY <1>1, <3>2, <4>1 DEF PokesFindRegions
      <4>4. Len(savedpokes) = Len(currRegions) - 2 /\ Len(newRegions) = Len(savedpokes) + 2
        BY <1>1, <2>4, <4>2, <4>3
      <4>5. \A k \in 1 .. Len(currRegions) - 2 : Covers(newRegions[k + 2], savedpokes[k])
        BY <3>2, <4>1, <4>4 DEF PokesFindRegions
      <4>6. Covers(newRegions[(i - 2) + 2], Centre(currRegions[(i - 2) + 2]))
        BY <2>5, <4>2, <4>4, <4>5
      <4> QED BY <2>5, <4>6
    <3>3. StoppedWithin \/ PokesFindRegions
      BY <1>1, <2>1, <2>3 DEF PokesFollowed
    <3> QED BY <3>1, <3>2, <3>3
  <2> QED BY <2>6, <2>7 DEF Covers
<1>2. IInv /\ [Next]_vars =>
        [ /\ registrationState \in 340 .. 359
          /\ ~disturbed /\ ~fromFile
          /\ registrationState' = 0
          /\ Len(newRegions) = Len(currRegions)
          => \A i \in 3 .. Len(currRegions) :
               /\ currRegions'[i].sid = currRegions[i].sid
               /\ Covers(currRegions'[i], Centre(currRegions[i])) ]_vars
  BY <1>1
<1> QED BY <1>2, Invariance, PTL DEF Spec, SidsFollowPlace

=============================================================================
