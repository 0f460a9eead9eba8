------------------------------ MODULE RegionMask ------------------------------
(***************************************************************************)
(* From what a user marks to what the models erase: the editor's mask, in  *)
(* pixels, or the regions of a video, keyed by frame, become the mask      *)
(* images that inference-gateway draws for LaMa and ProPainter.            *)
(* A coordinate that arrives as JSON number v stands here as 1000 * v, so  *)
(* that fractions are integers.                                            *)
(***************************************************************************)
EXTENDS Integers, Sequences, FiniteSetsExt

CONSTANTS
    Width, Height,  \* of the image or the video, in pixels
    Frames,         \* number of frames
    RegionRequests  \* what may be asked for: drawn rectangles in pixels, or a video's regions

Side   == {"x1", "y1", "x2", "y2"}
AnyBox == [Side -> Int]

(* A video's regions may have any numbers; they are keyed by the frames    *)
(* that have some.                                                         *)
ASSUME RegionAssumption ==
    /\ Width \in Nat \ {0} /\ Height \in Nat \ {0} /\ Frames \in Nat \ {0}
    /\ \A r \in RegionRequests : r.media = "VIDEO" =>
          /\ r.global \subseteq AnyBox /\ DOMAIN r.keyed \subseteq Int
          /\ \A k \in DOMAIN r.keyed : r.keyed[k] # {} /\ r.keyed[k] \subseteq AnyBox

VARIABLES
    request, \* what the user marked
    frame,   \* the next frame that create_video_mask reads
    masks,   \* [frame -> the areas painted on its mask]
    verdict  \* "working", "painted", "refused" (422 REGION_INVALID)

rmVars == <<request, frame, masks, verdict>>

Limit == [x1 |-> Width, y1 |-> Height, x2 |-> Width, y2 |-> Height]

Lesser(a, b)  == IF a < b THEN a ELSE b
Greater(a, b) == IF a < b THEN b ELSE a
Clamped(v, lo, hi) == Greater(lo, Lesser(hi, v))

(* normalize_value: up to 1 a fraction, up to 1000 a permille, else a      *)
(* pixel.  The result is the whole pixel.                                  *)
normalize_value(v, limit) ==
    IF v <= 1000 THEN (v * limit) \div 1000
    ELSE IF v <= 1000000 THEN (v * limit) \div 1000000
    ELSE v \div 1000

(* Mutant: a box of no width or no height is left as it is. *)
BoxAlong(a, b, limit) ==
    <<Clamped(Lesser(a, b), 0, limit - 1), Clamped(Greater(a, b), 0, limit)>>

Along(a, b, limit) ==
    LET low == Clamped(Lesser(a, b), 0, limit - 1)
        high == Clamped(Greater(a, b), 0, limit) IN
    <<low, IF high <= low THEN Lesser(limit, low + 1) ELSE high>>

normalize_box(box) ==
    LET px == [s \in Side |-> normalize_value(box[s], Limit[s])]
        h  == Along(px.x1, px.x2, Width)
        v  == Along(px.y1, px.y2, Height) IN
    [x1 |-> h[1], y1 |-> v[1], x2 |-> h[2], y2 |-> v[2]]

(* normalize_polygon, for the polygon of a rectangle. *)
normalize_polygon(box) == [s \in Side |-> Clamped(normalize_value(box[s], Limit[s]), 0, Limit[s] - 1)]

InPixels(box) == [s \in Side |-> 1000 * box[s]]

-----------------------------------------------------------------------------
(* Images: hasDetectionInput finds the mask, executeInpainting sends its   *)
(* polygons and brushStrokes as one region, and draw_region_mask paints    *)
(* the polygons.                                                           *)
PaintImage ==
    LET areas == {normalize_polygon(InPixels(box)) : box \in request.rects} IN
    /\ verdict = "working" /\ request.media = "IMAGE"
    /\ masks' = [masks EXCEPT ![0] = areas]
    /\ verdict' = IF areas = {} THEN "refused" ELSE "painted"
    /\ UNCHANGED <<request, frame>>

-----------------------------------------------------------------------------
(* Videos: create_video_mask. *)

interpolate_box(prev, next, i, n) ==
    [s \in Side |-> prev[s] + ((next[s] - prev[s]) * i) \div n]

(* A frame before the first counts as the first. *)
split_video_regions ==
    [k \in {Greater(0, f) : f \in DOMAIN request.keyed} |->
        UNION {request.keyed[f] : f \in {g \in DOMAIN request.keyed : Greater(0, g) = k}}]

KeyFrames == DOMAIN split_video_regions
Keyed(k)  == split_video_regions[k]
Before(i) == {k \in KeyFrames : k < i}
After(i)  == {k \in KeyFrames : k > i}

(* frame_regions *)
KeyedRegions(i) ==
    IF KeyFrames = {} THEN {}
    ELSE IF i \in KeyFrames THEN Keyed(i)
    ELSE IF Before(i) = {} THEN Keyed(Min(After(i)))
    ELSE IF After(i) = {} THEN Keyed(Max(Before(i)))
    ELSE LET p == Max(Before(i))
             n == Min(After(i)) IN
         IF Cardinality(Keyed(p)) = 1 /\ Cardinality(Keyed(n)) = 1
         THEN LET prev == CHOOSE box \in Keyed(p) : TRUE
                  next == CHOOSE box \in Keyed(n) : TRUE IN
              {InPixels(interpolate_box(normalize_box(prev), normalize_box(next), i - p, n - p))}
         ELSE Keyed(p)

(* draw_region_mask refuses when there is nothing to paint. *)
PaintFrame ==
    LET areas == {normalize_box(box) : box \in request.global \cup KeyedRegions(frame)} IN
    /\ verdict = "working" /\ request.media = "VIDEO"
    /\ IF areas = {} THEN verdict' = "refused" /\ UNCHANGED <<frame, masks>>
       ELSE /\ masks' = [masks EXCEPT ![frame] = areas]
            /\ frame' = frame + 1
            /\ verdict' = IF frame + 1 = Frames THEN "painted" ELSE "working"
    /\ UNCHANGED request

-----------------------------------------------------------------------------
RmInit ==
    /\ request \in RegionRequests
    /\ frame = 0 /\ masks = [i \in 0..(Frames - 1) |-> {}]
    /\ verdict = "working"

RmNext == PaintImage \/ PaintFrame

RmSpec == RmInit /\ [][RmNext]_rmVars

-----------------------------------------------------------------------------
Visible(area) ==
    /\ 0 <= area.x1 /\ area.x1 < area.x2 /\ area.x2 <= Width
    /\ 0 <= area.y1 /\ area.y1 < area.y2 /\ area.y2 <= Height

(* Whatever numbers arrive - fractions, permilles and pixels, swapped      *)
(* corners, points beyond the border - and wherever the key frames are,    *)
(* also beyond the last frame, every frame of a video gets a mask, the     *)
(* boxes in it are inside the frame and not empty, and a key frame has the *)
(* boxes that were marked on it.                                           *)
EveryFrameMasked ==
    request.media = "VIDEO" /\ (request.global # {} \/ KeyFrames # {}) =>
        /\ verdict # "refused"
        /\ \A i \in 0..(frame - 1) : masks[i] # {} /\ \A area \in masks[i] : Visible(area)
        /\ \A k \in KeyFrames : k < frame => {normalize_box(box) : box \in Keyed(k)} \subseteq masks[k]

(* tad.md:152: regions become a mask video that is interpolated by its key *)
(* frames.  So between two of them a lone box stays between the two.       *)
BoxMovesBetweenKeyFrames ==
    request.media = "VIDEO" /\ request.global = {} =>
        \A i \in 0..(frame - 1) :
            Before(i) # {} /\ After(i) # {} /\ i \notin KeyFrames =>
                \A area \in masks[i], s \in Side :
                    LET ends == {normalize_box(box)[s] :
                                    box \in Keyed(Max(Before(i))) \cup Keyed(Min(After(i)))} IN
                    Min(ends) <= area[s] /\ area[s] <= Max(ends)

(* prd.md:233 (FR-004): the user's corrected mask is the final one.  So    *)
(* what is erased is what was marked on the image.                         *)
MarkedIsErased ==
    request.media = "IMAGE" /\ verdict # "working" =>
        /\ verdict = "painted"
        /\ masks[0] = {[s \in Side |-> Clamped(box[s], 0, Limit[s] - 1)] : box \in request.rects}
=============================================================================
