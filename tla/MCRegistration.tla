--------------------------- MODULE MCRegistration ---------------------------
(* Patch files for model checking Registration on a row of five pixels.     *)
EXTENDS Registration

OneRegion == [kind |-> "rects", regions |-> << [sid |-> 5000, x |-> 1, w |-> 2] >>]

(* Two regions, not listed from left to right.                              *)
TwoRegions == [kind |-> "rects",
               regions |-> << [sid |-> 7000, x |-> 3, w |-> 1], [sid |-> 6000, x |-> 1, w |-> 1] >>]

(* The first session number is one that StartPokes takes for background.    *)
Numbered == [kind |-> "rects",
             regions |-> << [sid |-> 1, x |-> 1, w |-> 1], [sid |-> 3000, x |-> 3, w |-> 1] >>]

(* The regions lie between pixels of the mask.                              *)
Picture == [kind |-> "image", regions |-> <<>>,
            image |-> [q \in 0 .. 4 |-> CASE q = 1 -> 2 [] q = 3 -> 3 [] OTHER -> 22]]

(* The same, with an id between the two that no pixel has.                  *)
Gapped == [Picture EXCEPT !.image = [q \in 0 .. 4 |-> CASE q = 1 -> 2 [] q = 3 -> 4 [] OTHER -> 22]]

(* The second region of the file is malformed.                              *)
Malformed == [kind |-> "failing", regions |-> << [sid |-> 5000, x |-> 2, w |-> 2] >>]

(* autopoke.txt pokes the background too.                                   *)
PokeFiles == { <<0, 3, 1>> }
NoFiles == {}

AllPatches == {OneRegion, TwoRegions, Numbered, Picture, Gapped, Malformed}
AllStart == {TwoRegions, Picture}
RectPatches == {OneRegion, TwoRegions, Numbered}
=============================================================================
