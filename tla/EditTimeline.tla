----------------------------- MODULE EditTimeline -----------------------------
(***************************************************************************)
(* What undo and redo promise: the masks of an editing session stand on a  *)
(* line in the order they were drawn, the user sees one of them, and a new *)
(* mask replaces those after it.  Only the oldest may be forgotten.        *)
(***************************************************************************)
EXTENDS Naturals, Sequences

CONSTANTS Mask, EmptyMask, Depth

VARIABLES timeline, at

Start == timeline = <<EmptyMask>> /\ at = 1

Newest(line) == line[Len(line)]

Draw ==
    LET drawn == Append(SubSeq(timeline, 1, at), Newest(timeline')) IN
    /\ timeline' = IF Len(drawn) > Depth + 1 THEN Tail(drawn) ELSE drawn
    /\ at' = Len(timeline') /\ Newest(timeline') \in Mask

Back    == at > 1 /\ at' = at - 1 /\ UNCHANGED timeline
Forward == at < Len(timeline) /\ at' = at + 1 /\ UNCHANGED timeline

Timeline == Start /\ [][Draw \/ Back \/ Forward]_<<timeline, at>>
=============================================================================
