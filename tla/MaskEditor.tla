------------------------------ MODULE MaskEditor ------------------------------
(***************************************************************************)
(* The mask editor of the user frontend (pages/editor): pointer events     *)
(* draw, grab and resize rectangles and brush strokes while buttons undo,  *)
(* redo, delete, clear and switch the tool.  On a touch screen a button    *)
(* may be pressed while another finger is still on the board, so nothing   *)
(* orders the two.  Where a pointer is, is told by what it hits.           *)
(***************************************************************************)
EXTENDS Naturals, Sequences, SequencesExt

CONSTANTS
    Boxes,        \* rectangles large enough to be kept
    Lines,        \* brush strokes
    HistoryDepth, \* 40 in the code
    MaxItems      \* bound on rectangles and strokes of a mask

ASSUME EditorAssumption == HistoryDepth \in Nat \ {0} /\ MaxItems \in Nat

VARIABLES
    mode, now, selected,        \* the tool, the mask, the selected rectangle
    drag, preview, strokePoints,\* dragRef, previewRect, activeStrokeRef's length
    history, future

edVars == <<mode, now, selected, drag, preview, strokePoints, history, future>>

Dot       == "dot"    \* a rectangle of at most 5 by 5
NoBox     == "none"
NoDrag    == [type |-> "none", rectIdx |-> 0, prevRect |-> NoBox]
EmptyMask == [rects |-> <<>>, strokes |-> <<>>]
Size(mask) == Len(mask.rects) + Len(mask.strokes)

EdInit ==
    /\ mode = "BRUSH" /\ now = EmptyMask /\ selected = 0
    /\ drag = NoDrag /\ preview = NoBox /\ strokePoints = 0
    /\ history = <<>> /\ future = <<>>

LastOf(s, n)  == IF Len(s) > n THEN SubSeq(s, Len(s) - n + 1, Len(s)) ELSE s
FirstOf(s, n) == IF Len(s) > n THEN SubSeq(s, 1, n) ELSE s

(* Mutant: what the user is doing goes on over the restored mask. *)
ApplySnapshotOnly(snap, select) ==
    /\ now' = snap /\ selected' = select
    /\ preview' = NoBox /\ strokePoints' = 0 /\ UNCHANGED drag

(* applySnapshot ends whatever drag or stroke is under way. *)
ApplySnapshot(snap, select) ==
    /\ now' = snap /\ selected' = select
    /\ preview' = NoBox /\ drag' = NoDrag /\ strokePoints' = 0

Commit(snap, select) ==
    /\ history' = LastOf(Append(history, now), HistoryDepth) /\ future' = <<>>
    /\ ApplySnapshot(snap, select)

-----------------------------------------------------------------------------
(* The buttons. *)

PickTool(tool) ==
    /\ mode' = tool /\ selected' = IF tool = "BRUSH" THEN 0 ELSE selected
    /\ UNCHANGED <<now, drag, preview, strokePoints, history, future>>

(* Mutant: the mask that undo leaves is put behind those undone before. *)
UndoToEnd ==
    /\ history # <<>>
    /\ history' = Front(history) /\ future' = FirstOf(Append(future, now), HistoryDepth)
    /\ ApplySnapshot(Last(history), 0)
    /\ UNCHANGED mode

Undo ==
    /\ history # <<>>
    /\ history' = Front(history) /\ future' = FirstOf(<<now>> \o future, HistoryDepth)
    /\ ApplySnapshot(Last(history), 0)
    /\ UNCHANGED mode

Redo ==
    /\ future # <<>>
    /\ future' = Tail(future) /\ history' = LastOf(Append(history, now), HistoryDepth)
    /\ ApplySnapshot(Head(future), 0)
    /\ UNCHANGED mode

DeleteSelected ==
    /\ selected # 0 /\ mode = "RECTANGLE"
    /\ Commit([now EXCEPT !.rects = RemoveAt(@, selected)], 0)
    /\ UNCHANGED mode

ClearMask == Size(now) > 0 /\ Commit(EmptyMask, 0) /\ UNCHANGED mode

-----------------------------------------------------------------------------
(* The pointer. *)

StartStroke ==
    /\ mode = "BRUSH"
    /\ selected' = 0 /\ strokePoints' = 1
    /\ UNCHANGED <<mode, now, drag, preview, history, future>>

(* A handle or the inside of the selected rectangle, or another one, which *)
(* is selected.                                                            *)
Grab(i) ==
    /\ mode = "RECTANGLE"
    /\ selected' = i
    /\ drag' = [type |-> "grab", rectIdx |-> i, prevRect |-> now.rects[i]] /\ preview' = now.rects[i]
    /\ UNCHANGED <<mode, now, strokePoints, history, future>>

StartDraw ==
    /\ mode = "RECTANGLE"
    /\ selected' = 0 /\ drag' = [NoDrag EXCEPT !.type = "draw"] /\ preview' = Dot
    /\ UNCHANGED <<mode, now, strokePoints, history, future>>

ExtendStroke ==
    /\ mode = "BRUSH" /\ strokePoints = 1
    /\ strokePoints' = 2
    /\ UNCHANGED <<mode, now, selected, drag, preview, history, future>>

(* Moving and resizing keep a rectangle's size above the limit. *)
MovePreview(box) ==
    /\ mode = "RECTANGLE" /\ drag.type # "none" /\ (box = Dot => drag.type = "draw")
    /\ preview' = box
    /\ UNCHANGED <<mode, now, selected, drag, strokePoints, history, future>>

LargeEnough(box) == box # Dot

LetGo == drag' = NoDrag /\ preview' = NoBox

EndStroke ==
    /\ mode = "BRUSH"
    /\ IF strokePoints >= 2
       THEN \E line \in Lines : Size(now) < MaxItems /\ Commit([now EXCEPT !.strokes = Append(@, line)], 0)
       ELSE drag' = NoDrag /\ strokePoints' = 0 /\ UNCHANGED <<now, selected, preview, history, future>>
    /\ UNCHANGED mode

EndDraw ==
    /\ mode = "RECTANGLE" /\ drag.type = "draw" /\ preview # NoBox
    /\ IF LargeEnough(preview)
       THEN /\ Size(now) < MaxItems
            /\ Commit([now EXCEPT !.rects = Append(@, preview)], Len(now.rects) + 1)
       ELSE LetGo /\ UNCHANGED <<now, selected, strokePoints, history, future>>
    /\ UNCHANGED mode

EndGrab ==
    /\ mode = "RECTANGLE" /\ drag.type = "grab" /\ preview # NoBox
    /\ Commit([now EXCEPT !.rects = [i \in DOMAIN @ |-> IF i = drag.rectIdx THEN preview ELSE @[i]]], drag.rectIdx)
    /\ UNCHANGED mode

EndNothing ==
    /\ mode = "RECTANGLE" /\ (drag.type = "none" \/ preview = NoBox)
    /\ LetGo
    /\ UNCHANGED <<mode, now, selected, strokePoints, history, future>>

-----------------------------------------------------------------------------
EdNext ==
    \/ \E tool \in {"BRUSH", "RECTANGLE"} : PickTool(tool)
    \/ Undo \/ Redo \/ DeleteSelected \/ ClearMask
    \/ StartStroke \/ ExtendStroke \/ EndStroke
    \/ StartDraw \/ EndDraw \/ EndGrab \/ EndNothing
    \/ \E i \in DOMAIN now.rects : Grab(i)
    \/ \E box \in Boxes \cup {Dot} : MovePreview(box)

EdSpec == EdInit /\ [][EdNext]_edVars

-----------------------------------------------------------------------------
MaskValue == [rects : Seq(Boxes), strokes : Seq(Lines)]

(* Types. *)
EdTypeOK ==
    /\ mode \in {"BRUSH", "RECTANGLE"} /\ now \in MaskValue
    /\ selected \in Nat /\ strokePoints \in 0..2
    /\ drag \in [type : {"none", "draw", "grab"}, rectIdx : Nat, prevRect : Boxes \cup {NoBox}]
    /\ preview \in Boxes \cup {Dot, NoBox}
    /\ history \in Seq(MaskValue) /\ future \in Seq(MaskValue)

(* The selection and a grab point at a rectangle of the mask on the        *)
(* screen, and a grab moves the rectangle that it took hold of: no undo,   *)
(* redo, deletion, clearing or stroke in between replaces it unseen.       *)
GrabIsCurrent ==
    /\ selected # 0 => selected \in DOMAIN now.rects
    /\ drag.type = "grab" => drag.rectIdx \in DOMAIN now.rects /\ now.rects[drag.rectIdx] = drag.prevRect

(* Both ends are cut at HistoryDepth, but undo and redo never cut: what    *)
(* they move from one stack to the other always fits.                      *)
NothingForgotten == Len(history) + Len(future) <= HistoryDepth

(* Undo and redo walk along the line of masks (EditTimeline). *)
Promised == INSTANCE EditTimeline WITH
    timeline <- history \o <<now>> \o future, at <- Len(history) + 1,
    Mask <- MaskValue, Depth <- HistoryDepth

UndoKeepsTimeline == Promised!Timeline
=============================================================================
