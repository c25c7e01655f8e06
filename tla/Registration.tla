---------------------------- MODULE Registration ----------------------------
(* Registration of the surface's regions (mmtt_server.cpp: LoadPatch,       *)
(* doRegistration, registrationPoke, finishNewRegions and the commands of   *)
(* ExecuteJson that drive them).  All of it runs in the main thread: a      *)
(* command between two frames, doRegistration once per analysed frame.      *)
(*                                                                          *)
(* The camera image is one row of Width pixels that crosses the surface: a  *)
(* region is a run of pixels, its rectangle an interval, a flood fill       *)
(* spreads over the neighbours of equal value.  Each time a registration    *)
(* starts, the camera may see any mask.                                     *)
EXTENDS Integers, Sequences, FiniteSetsExt

CONSTANTS
  Width,        \* pixels in the row (_camWidth)
  MaskId,       \* MAX_REGION_ID and MASK_REGION_ID (22 in the code)
  OkayEnough,   \* continuousAlignOkayEnough (10 in the code)
  Patches,      \* the patch files, see PatchesAssumption
  StartPatches, \* those the configuration may name at startup
  AutopokeFiles, \* what autopoke.txt may list, {} when there is no such file
  MaxCommands   \* bound: commands given

Points == 0 .. Width - 1
White == 255                      \* a pixel of the mask, as cvThreshold left it

(* A patch file lists rectangles ("rects"), comes with an image of the      *)
(* regions ("image"), or cannot be loaded ("failing": it is missing, or a   *)
(* region after the listed ones is malformed, or its image is missing).     *)
ASSUME PatchesAssumption ==
  /\ Width \in Nat /\ Width >= 3
  /\ MaskId \in 3 .. 254
  /\ OkayEnough \in Nat
  /\ MaxCommands \in Nat \ {0}
  /\ \A p \in Patches :
       /\ p.kind \in {"rects", "image", "failing"}
       /\ p.regions \in Seq([sid : Nat, x : Points, w : 1 .. Width])
       /\ \A i \in DOMAIN p.regions : p.regions[i].x + p.regions[i].w <= Width
       /\ p.kind = "image" => p.image \in [Points -> 0 .. MaskId]
  /\ AutopokeFiles \subseteq Seq(Points)
  /\ StartPatches \subseteq {p \in Patches : p.kind # "failing"}

VARIABLES
  registrationState,         \* 0: no registration is under way
  currentRegionValue,        \* the id the next region will have
  continuousAlign,
  continuousAlignOkayCount,
  regionsImage,              \* for each pixel: 0 black, 1 background, a region id or the mask
  newRegions,                \* _new_regions: [id, sid, x, w], the first two are the background
  currRegions,               \* _curr_regions
  savedpokes,                \* _savedpokes
  poke,                      \* doPokeRegistration's iterator, 0 outside its loop
  patchFile,                 \* _patchFile
  val_showrawdepth,          \* while TRUE, frames are not analysed
  disturbed,                 \* history: a patch was loaded since registrationStart
  fromFile,                  \* history: savedpokes were read from autopoke.txt
  commands                   \* bound: commands so far

align == <<continuousAlign, continuousAlignOkayCount>>
regions == <<currentRegionValue, regionsImage, newRegions, currRegions>>
pokes == <<savedpokes, poke, fromFile>>
env == <<patchFile, val_showrawdepth, commands>>
vars == <<registrationState, align, regions, pokes, env, disturbed>>

-----------------------------------------------------------------------------
(* Images and regions.                                                      *)

Covers(r, pt) == pt \in r.x .. r.x + r.w - 1

(* The middle of a region's rectangle.                                      *)
Centre(r) == r.x + r.w \div 2

Background == << [id |-> 0, sid |-> 0, x |-> 0, w |-> Width],
                 [id |-> 1, sid |-> 0, x |-> 0, w |-> Width] >>

DefaultSid(id) == (id - 1) * 1000

(* The pixels a flood fill from pt reaches.                                 *)
Connected(image, pt) ==
  {q \in Points : \A z \in Points :
     (q <= z /\ z <= pt) \/ (pt <= z /\ z <= q) => image[z] = image[pt]}

(* A pixel is a byte, the value saturates.                                  *)
FloodFill(image, pt, value) ==
  [q \in Points |-> IF q \in Connected(image, pt) THEN Min({value, 255}) ELSE image[q]]

(* The region of the given id that bounds the pixels S.                     *)
Bounding(id, S) ==
  [id |-> id, sid |-> DefaultSid(id), x |-> Min(S), w |-> Max(S) - Min(S) + 1]

(* The mask of registrationStart, its black pixels filled from the border   *)
(* with the background's value.                                             *)
MaskImage(mask, value) ==
  LET image == [q \in Points |-> IF q \in mask THEN White ELSE 0]
      outer == UNION {Connected(image, e) : e \in {0, Width - 1} \ mask}
  IN [q \in Points |-> IF q \in outer THEN value ELSE image[q]]

(* The pixels of each region painted in order of the regions, the later     *)
(* ones over the earlier.  Entry i of a sequence is index i - 1 in the code, *)
(* of which a pixel holds the lowest byte.                                  *)
PaintRects(rs) ==
  [q \in Points |->
     LET on == {i \in 3 .. Len(rs) : Covers(rs[i], q)}
     IN IF on = {} THEN 0 ELSE (Max(on) - 1) % 256]

(* The k-th of a set of numbers, in ascending order.                        *)
Nth(S, k) == CHOOSE n \in S : Cardinality({m \in S : m <= n}) = k

(* The ids below the mask's that some pixel has.                            *)
IdsIn(image) == {id \in 2 .. MaskId - 1 : \E q \in Points : image[q] = id}

(* One region for each of them, one after the other: an id that no pixel    *)
(* has leaves no gap in the list.                                           *)
DeriveRegions(image) ==
  LET ids == IdsIn(image)
  IN [k \in 1 .. Cardinality(ids) |->
        Bounding(Nth(ids, k), {q \in Points : image[q] = Nth(ids, k)})]

ParseRegions(p) ==
  [i \in 1 .. Len(p.regions) |->
     [id |-> i + 1, sid |-> p.regions[i].sid, x |-> p.regions[i].x, w |-> p.regions[i].w]]

(* finishNewRegions: with as many new regions as current ones, the new ones *)
(* take over the session numbers, index by index.                           *)
FinishRegions(new, curr) ==
  IF Len(new) = Len(curr)
  THEN [i \in 1 .. Len(new) |-> [new[i] EXCEPT !.sid = curr[i].sid]]
  ELSE new

(* LoadPatch: what it leaves in _new_regions, _curr_regions and the image.  *)
(* A patch with rectangles paints those of _curr_regions, before the new    *)
(* ones replace them.                                                       *)
LoadPatch(p, curr, image) ==
  LET listed == Background \o ParseRegions(p)
      derived == Background \o DeriveRegions(p.image)
  IN CASE p.kind = "failing" -> [new |-> listed, curr |-> curr, image |-> image]
       [] p.kind = "rects" -> [new |-> FinishRegions(listed, curr),
                               curr |-> FinishRegions(listed, curr),
                               image |-> PaintRects(curr)]
       [] p.kind = "image" -> [new |-> FinishRegions(derived, curr),
                               curr |-> FinishRegions(derived, curr),
                               image |-> p.image]

LoadPatchTwice(p, curr, image) ==
  LET once == LoadPatch(p, curr, image)
  IN IF p.kind = "failing" THEN once ELSE LoadPatch(p, once.curr, once.image)

-----------------------------------------------------------------------------
(* At startup the configured patch is loaded, twice, and a third time, which *)
(* changes nothing, by startAlign when initialalign is configured (it counts *)
(* as a command).                                                           *)
Init ==
  /\ patchFile \in StartPatches
  /\ LET loaded == LoadPatchTwice(patchFile, <<>>, [q \in Points |-> 0])
     IN /\ newRegions = loaded.new
        /\ currRegions = loaded.curr
        /\ regionsImage = loaded.image
  /\ registrationState \in {0, 300}
  /\ currentRegionValue = 1
  /\ continuousAlign = (registrationState = 300)
  /\ continuousAlignOkayCount = 0
  /\ savedpokes = <<>>
  /\ poke = 0
  /\ val_showrawdepth = FALSE
  /\ disturbed = FALSE
  /\ fromFile = FALSE
  /\ commands = IF continuousAlign THEN 1 ELSE 0

-----------------------------------------------------------------------------
(* Commands (ExecuteJson).                                                  *)

(* A client's command, between two frames.                                  *)
Command ==
  /\ poke = 0
  /\ commands < MaxCommands
  /\ commands' = commands + 1
  /\ UNCHANGED pokes

Install(loaded) ==
  /\ newRegions' = loaded.new
  /\ currRegions' = loaded.curr
  /\ regionsImage' = loaded.image
  /\ disturbed' = TRUE
  /\ val_showrawdepth' \in BOOLEAN     \* the file may hold a value for it

(* start_registration                                                       *)
StartRegistration ==
  /\ Command
  /\ registrationState' = 100
  /\ UNCHANGED <<align, regions, patchFile, val_showrawdepth, disturbed>>

(* autopoke: reload the patch; when that works, start poking.               *)
Autopoke ==
  /\ Command
  /\ Install(LoadPatch(patchFile, currRegions, regionsImage))
  /\ registrationState' = IF patchFile.kind = "failing" THEN registrationState ELSE 300
  /\ UNCHANGED <<align, currentRegionValue, patchFile>>

(* align_start (startAlign): an autopoke that repeats.                      *)
AlignStart ==
  /\ Command
  /\ Install(LoadPatch(patchFile, currRegions, regionsImage))
  /\ IF patchFile.kind = "failing"
     THEN UNCHANGED <<registrationState, align>>
     ELSE /\ registrationState' = 300
          /\ continuousAlign' = TRUE
          /\ continuousAlignOkayCount' = 0
  /\ UNCHANGED <<currentRegionValue, patchFile>>

(* align_stop                                                               *)
AlignStop ==
  /\ Command
  /\ continuousAlign' = FALSE
  /\ UNCHANGED <<registrationState, continuousAlignOkayCount, regions, patchFile,
                 val_showrawdepth, disturbed>>

(* autotiltpoke: sets a state that doRegistration does not handle.          *)
Autotiltpoke ==
  /\ Command
  /\ Install(LoadPatch(patchFile, currRegions, regionsImage))
  /\ registrationState' = IF patchFile.kind = "failing" THEN registrationState ELSE 1300
  /\ UNCHANGED <<align, currentRegionValue, patchFile>>

(* Mutant: the regions found are not put to use.                            *)
BugKeepOldRegions ==
  /\ registrationState' = 0
  /\ UNCHANGED <<newRegions, currRegions>>

(* _stop_registration                                                       *)
StopRegistration ==
  /\ registrationState' = 0
  /\ newRegions' = FinishRegions(newRegions, currRegions)
  /\ currRegions' = newRegions'

(* stop_registration                                                        *)
StopCommand ==
  /\ Command
  /\ StopRegistration
  /\ UNCHANGED <<align, currentRegionValue, regionsImage, patchFile, val_showrawdepth, disturbed>>

(* Mutant: the patch is loaded once.                                        *)
BugLoadOnce(p) ==
  /\ Command
  /\ patchFile' = p
  /\ Install(LoadPatch(p, currRegions, regionsImage))
  /\ UNCHANGED <<registrationState, align, currentRegionValue>>

(* patch_load                                                               *)
PatchLoad(p) ==
  /\ Command
  /\ patchFile' = p
  /\ Install(LoadPatchTwice(p, currRegions, regionsImage))
  /\ UNCHANGED <<registrationState, align, currentRegionValue>>

(* start and stop, or mmtt_set of showrawdepth                              *)
SetShowRawDepth(shown) ==
  /\ Command
  /\ val_showrawdepth' = shown
  /\ UNCHANGED <<registrationState, align, regions, patchFile, disturbed>>

-----------------------------------------------------------------------------
(* Frames (doRegistration, called by analyzePixels while registrationState  *)
(* is not 0).                                                               *)

Frame ==
  /\ poke = 0
  /\ ~val_showrawdepth
  /\ UNCHANGED env

(* Mutant: the next id starts at the background's.                          *)
BugStartAtBackground ==
  /\ \E mask \in SUBSET Points : regionsImage' = MaskImage(mask, currentRegionValue)
  /\ newRegions' = Background
  /\ disturbed' = FALSE
  /\ UNCHANGED <<currentRegionValue, currRegions, align>>

RegistrationStart ==
  /\ \E mask \in SUBSET Points : regionsImage' = MaskImage(mask, currentRegionValue)
  /\ newRegions' = Background
  /\ currentRegionValue' = 2
  /\ disturbed' = FALSE
  /\ UNCHANGED <<currRegions, align>>

(* 100: the depth of the mask is registered.  300: the same for autopoke.   *)
RegisterDepth ==
  /\ Frame
  /\ registrationState \in {100, 300}
  /\ currentRegionValue' = 1
  /\ registrationState' = registrationState + 10
  /\ UNCHANGED <<regionsImage, newRegions, currRegions, align, pokes, disturbed>>

(* Two or three frames go by.                                               *)
WaitFrames ==
  /\ Frame
  /\ registrationState \in 110 .. 112 \cup 310 .. 311
  /\ registrationState' = CASE registrationState = 112 -> 120
                            [] registrationState = 311 -> 320
                            [] OTHER -> registrationState + 1
  /\ UNCHANGED <<align, regions, pokes, disturbed>>

StartManual ==
  /\ Frame
  /\ registrationState = 120
  /\ RegistrationStart
  /\ registrationState' = 199
  /\ UNCHANGED pokes

(* Mutant: only the entry of the whole image is left out.                   *)
BugPokeBackground ==
  /\ Frame
  /\ registrationState = 320
  /\ savedpokes' = [k \in 1 .. Len(currRegions) - 1 |-> Centre(currRegions[k + 1])]
  /\ fromFile' = FALSE
  /\ RegistrationStart
  /\ registrationState' = 330
  /\ UNCHANGED poke

(* The middle of every current region, except those whose first session     *)
(* number marks them as background.                                         *)
CentresOf(rs) ==
  LET real == {i \in DOMAIN rs : rs[i].sid > 1}
  IN [k \in 1 .. Cardinality(real) |-> Centre(rs[Nth(real, k)])]

(* 320: the points of autopoke.txt will be poked, or else the current       *)
(* regions where they are.                                                  *)
StartPokes ==
  /\ Frame
  /\ registrationState = 320
  /\ \/ savedpokes' \in AutopokeFiles /\ fromFile' = TRUE
     \/ savedpokes' = CentresOf(currRegions) /\ fromFile' = FALSE
  /\ RegistrationStart
  /\ registrationState' = 330
  /\ UNCHANGED poke

(* registrationPoke: a black pixel is a new region; the first region again  *)
(* stops the registration.                                                  *)
RegistrationPoke(pt) ==
  \/ /\ regionsImage[pt] = 0
     /\ regionsImage' = FloodFill(regionsImage, pt, currentRegionValue)
     /\ newRegions' = Append(newRegions,
                             Bounding(currentRegionValue, Connected(regionsImage, pt)))
     /\ currentRegionValue' = currentRegionValue + 1
     /\ UNCHANGED <<registrationState, currRegions>>
  \/ /\ regionsImage[pt] = 2
     /\ StopRegistration
     /\ UNCHANGED <<regionsImage, currentRegionValue>>
  \/ /\ regionsImage[pt] \notin {0, 2}
     /\ UNCHANGED <<registrationState, regions>>

(* 199, registrationContinueManual: somebody's hand is over pt.  A hand     *)
(* over the newest region or the mask does not count.                       *)
PokeByHand(pt) ==
  /\ Frame
  /\ registrationState = 199
  /\ regionsImage[pt] = 0 \/ regionsImage[pt] < currentRegionValue - 1
  /\ RegistrationPoke(pt)
  /\ UNCHANGED <<align, pokes, disturbed>>

(* 330, doPokeRegistration: its loop takes no command.                      *)
BeginPokes ==
  /\ Frame
  /\ registrationState = 330
  /\ poke' = 1
  /\ UNCHANGED <<registrationState, align, regions, savedpokes, fromFile, disturbed>>

PokeSaved ==
  /\ poke \in DOMAIN savedpokes
  /\ RegistrationPoke(savedpokes[poke])
  /\ poke' = poke + 1
  /\ UNCHANGED <<align, savedpokes, fromFile, env, disturbed>>

EndPokes ==
  /\ poke > Len(savedpokes)
  /\ poke' = 0
  /\ registrationState' = 340
  /\ UNCHANGED <<align, regions, savedpokes, fromFile, env, disturbed>>

(* Mutant: one frame too late, where no frame is counted any more.          *)
BugOneLate(state) == state = 361 \/ (continuousAlign /\ state = 343)

(* The frame on which the regions found are judged.                         *)
LastFrame(state) == state = 359 \/ (continuousAlign /\ state = 343)

(* The result is shown for a while.                                         *)
ShowResult ==
  /\ Frame
  /\ registrationState \in 340 .. 359
  /\ ~LastFrame(registrationState + 1)
  /\ registrationState' = registrationState + 1
  /\ UNCHANGED <<align, regions, pokes, disturbed>>

(* An autopoke is over; continuous alignment goes on until it has found     *)
(* the expected number of regions more than OkayEnough times in a row.      *)
FinishAutopoke ==
  /\ Frame
  /\ registrationState \in 340 .. 359
  /\ LastFrame(registrationState + 1)
  /\ LET okay == Len(newRegions) = Len(currRegions)
         enough == okay /\ continuousAlignOkayCount + 1 > OkayEnough
     IN /\ continuousAlignOkayCount' =
             CASE ~continuousAlign -> continuousAlignOkayCount
               [] continuousAlign /\ okay -> continuousAlignOkayCount + 1
               [] continuousAlign /\ ~okay -> 0
        /\ continuousAlign' = (continuousAlign /\ ~enough)
        /\ IF continuousAlign'
           THEN registrationState' = 300 /\ UNCHANGED <<newRegions, currRegions>>
           ELSE StopRegistration
  /\ UNCHANGED <<regionsImage, currentRegionValue, pokes, disturbed>>

-----------------------------------------------------------------------------
Commands ==
  \/ StartRegistration \/ Autopoke \/ AlignStart \/ AlignStop
  \/ Autotiltpoke \/ StopCommand
  \/ \E p \in Patches : PatchLoad(p)
  \/ \E shown \in BOOLEAN : SetShowRawDepth(shown)

Frames ==
  \/ RegisterDepth \/ WaitFrames \/ StartManual \/ StartPokes
  \/ BeginPokes \/ PokeSaved \/ EndPokes \/ ShowResult \/ FinishAutopoke

Hand == \E pt \in Points : PokeByHand(pt)

Next == Commands \/ Frames \/ Hand

Spec == Init /\ [][Next]_vars

(* The camera keeps delivering frames; nobody has to poke or to command.    *)
LiveSpec == Spec /\ WF_vars(Frames)
-----------------------------------------------------------------------------
(* Properties.                                                              *)

Region == {r \in [id : Nat, sid : Nat, x : Points, w : 1 .. Width] : r.x + r.w <= Width}

TypeOK ==
  /\ registrationState \in {0} \cup 100 .. 120 \cup {199} \cup 300 .. 358 \cup {1300}
  /\ currentRegionValue \in Nat \ {0}
  /\ continuousAlign \in BOOLEAN
  /\ continuousAlignOkayCount \in Nat
  /\ regionsImage \in [Points -> 0 .. 255]
  /\ newRegions \in Seq(Region)
  /\ currRegions \in Seq(Region)
  /\ savedpokes \in Seq(Points)
  /\ poke \in 0 .. Len(savedpokes) + 1
  /\ patchFile \in Patches
  /\ val_showrawdepth \in BOOLEAN
  /\ disturbed \in BOOLEAN
  /\ fromFile \in BOOLEAN
  /\ commands \in 0 .. MaxCommands

(* analyzePixels finds the region of a blob by using the pixel's value as   *)
(* an index: a region's pixels lie in the rectangle of the entry they name. *)
Matches(image, rs) ==
  \A q \in Points : image[q] \in 2 .. MaskId - 1 =>
    image[q] < Len(rs) /\ Covers(rs[image[q] + 1], q)

(* While regions are poked, every one is entered under the index it is      *)
(* painted with, and the next index is free.                                *)
PokedRegionsPainted ==
  (registrationState \in {199} \cup 330 .. 359 \/ poke > 0) /\ ~disturbed =>
    /\ currentRegionValue = Len(newRegions)
    /\ \A i \in DOMAIN newRegions : newRegions[i].id = i - 1
    /\ \A q \in Points : regionsImage[q] \in 2 .. 254 =>
         regionsImage[q] < Len(newRegions) /\ Covers(newRegions[regionsImage[q] + 1], q)

(* The first two entries are the background: their session numbers keep     *)
(* StartPokes from poking them.                                             *)
HasBackground(rs) == Len(rs) >= 2 /\ rs[1].sid = 0 /\ rs[2].sid = 0

BackgroundFirst == HasBackground(newRegions) /\ HasBackground(currRegions)

(* Between the depth's registration and the mask's, the next value is the   *)
(* one for the background; the loop over the saved pokes runs in state 330  *)
(* or, once the first region was poked again, in 0.                         *)
StatesInv ==
  /\ registrationState \in 110 .. 120 \cup 310 .. 320 => currentRegionValue = 1
  /\ poke > 0 => registrationState \in {0, 330}

(* The saved pokes that were made.                                          *)
Poked == CASE poke > 0 -> poke - 1
           [] poke = 0 /\ registrationState = 330 -> 0
           [] OTHER -> Len(savedpokes)

(* The pokes are the middles of the current regions, and as long as every   *)
(* one of them has found a region, the k-th new region is around the k-th   *)
(* poke.                                                                    *)
PokesFindRegions ==
  /\ savedpokes = CentresOf(currRegions)
  /\ Len(newRegions) <= Poked + 2
  /\ Len(newRegions) = Poked + 2 =>
       \A k \in 1 .. Poked : Covers(newRegions[k + 2], savedpokes[k])

(* The registration was stopped from within: the current regions are the    *)
(* new ones found until then.                                               *)
StoppedWithin ==
  \A i \in DOMAIN currRegions : i \in DOMAIN newRegions /\ newRegions[i] = currRegions[i]

PokesFollowed ==
  (registrationState \in 330 .. 358 \/ poke > 0) /\ ~disturbed /\ ~fromFile =>
    PokesFindRegions \/ StoppedWithin

IInv ==
  /\ TypeOK
  /\ BackgroundFirst
  /\ StatesInv
  /\ PokedRegionsPainted
  /\ PokesFollowed

(* However a registration by hand or by autopoke comes to its end, the      *)
(* regions in use are those in the image.                                   *)
FinishMatchesImage ==
  [][ /\ registrationState \in {199} \cup 330 .. 359
      /\ ~disturbed
      /\ registrationState' = 0
      /\ poke' = 0
      => Matches(regionsImage', currRegions') ]_vars

(* The ids in an image leave none out.                                      *)
NoIdMissing(image) == IdsIn(image) = 2 .. Cardinality(IdsIn(image)) + 1

(* A patch file that loads, whose image has no gap between its ids, and     *)
(* whose list of regions has no index above a byte.                         *)
Regular(p) ==
  \/ p.kind = "rects" /\ Len(p.regions) <= 254
  \/ p.kind = "image" /\ NoIdMissing(p.image)

(* A patch that loads leaves an image of its own regions, not of those it   *)
(* replaces: what loading it "a second time" is for.  (With an id missing   *)
(* in the image it does not: deriveRegionsFromImage closes the gap in the   *)
(* list, the pixels keep their values.)                                     *)
LoadMatchesImage ==
  [][Regular(patchFile') /\ commands' # commands /\ PatchLoad(patchFile')
       => Matches(regionsImage', currRegions') ]_vars

(* When an autopoke of the current regions finds as many again, each one    *)
(* takes the session numbers of the region that was where it is now.        *)
SidsFollowPlace ==
  [][ /\ registrationState \in 340 .. 359
      /\ ~disturbed /\ ~fromFile
      /\ registrationState' = 0
      /\ Len(newRegions) = Len(currRegions)
      => \A i \in 3 .. Len(currRegions) :
           /\ currRegions'[i].sid = currRegions[i].sid
           /\ Covers(currRegions'[i], Centre(currRegions[i])) ]_vars

(* Once alignment is not continuous and frames are analysed, no autopoke or *)
(* start of a registration goes on for ever.                                *)
RegistrationEnds ==
  <>[](~continuousAlign /\ ~val_showrawdepth)
    => []<>(registrationState \in {0, 199, 1300})

(* When a registration is terminated, by a second poke of the first region  *)
(* or otherwise, only a command brings it back (autopoke does not stay      *)
(* terminated).                                                             *)
StaysTerminated ==
  [][registrationState = 0 /\ registrationState' # 0 => commands' # commands]_vars

(* The session numbers that a patch file gives for its regions are the ones *)
(* its regions get (the code does not do this).                             *)
SidsFromFile ==
  [][patchFile'.kind = "rects" /\ PatchLoad(patchFile')
       => \A i \in DOMAIN patchFile'.regions :
            currRegions'[i + 2].sid = patchFile'.regions[i].sid ]_vars
=============================================================================
