------------------------------ MODULE MCRegionMask ------------------------------
(* RegionMask on small instances: rectangles that a user draws on an image *)
(* of 1920 by 1080, and boxes of a video that come as fractions,           *)
(* permilles or pixels, with corners swapped or beyond the border, keyed   *)
(* by frames before the first, between the others and beyond the last one. *)
EXTENDS RegionMask

Box(a, b, c, d) == [x1 |-> a, y1 |-> b, x2 |-> c, y2 |-> d]

DrawnRects == {Box(100, 100, 220, 180), Box(1100, 1010, 1300, 1050), Box(0, 0, 1920, 1080)}
Images     == [media : {"IMAGE"}, rects : SUBSET DrawnRects, strokes : {0, 1}]

Corners  == {-20000, 0, 200, 1000, 2000, 500000, 1000000, 1500000, 3000000}
AnyBoxes == {Box(a, 100000, c, 260000) : a \in Corners, c \in Corners}
KeyBoxes == {Box(100000, 120000, 200000, 260000), Box(300000, 500000, 400000, 900000), Box(200, 200, 300, 300)}
KeyedSets == UNION {[K -> {{b} : b \in AnyBoxes}] : K \in {{}, {0}, {1}, {5}}}
            \cup UNION {[K -> {{b} : b \in KeyBoxes}] : K \in {{0, 2}, {1, 3}, {0, 2, 3}, {-1, 0}, {-1, 2}}}
Videos   == [media : {"VIDEO"}, global : {{}, {Box(0, 0, 100, 100)}}, keyed : KeyedSets]

MarkedRequests == Videos \cup {r \in Images : r.rects # {} \/ r.strokes # 0}
=============================================================================
