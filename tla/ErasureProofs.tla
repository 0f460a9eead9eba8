---------------------------- MODULE ErasureProofs ----------------------------
(* Proofs about what a user marks and what is erased and delivered: the    *)
(* mask editor, then the masks that RegionMask draws, then the documents   *)
(* of InferenceGateway, each for every value of its constants.             *)
EXTENDS MaskEditor, RegionMask, InferenceGateway, FiniteSetTheorems, WellFoundedInduction, TLAPS

-----------------------------------------------------------------------------
(* The inductive invariant.                                                *)

(* A rectangle that is being moved or resized keeps a size worth keeping.  *)
GrabHasBox == drag.type = "grab" => preview \in Boxes \cup {NoBox}

EdInv == EdTypeOK /\ GrabHasBox /\ GrabIsCurrent /\ NothingForgotten

-----------------------------------------------------------------------------
(* Sequences.                                                              *)

(* Sequences of one length with the same elements are one sequence. *)
LEMMA SeqEqual ==
    ASSUME NEW S, NEW s \in Seq(S), NEW t \in Seq(S), Len(s) = Len(t),
           \A i \in 1..Len(s) : s[i] = t[i]
    PROVE  s = t
OBVIOUS

(* The last n of a sequence. *)
LEMMA LastOfSeq ==
    ASSUME NEW S, NEW s \in Seq(S), NEW n \in Nat
    PROVE  /\ LastOf(s, n) \in Seq(S)
           /\ Len(LastOf(s, n)) <= n
           /\ Len(s) <= n => LastOf(s, n) = s
           /\ Len(s) = n + 1 => LastOf(s, n) = Tail(s)
<1>1. CASE Len(s) <= n
  BY <1>1 DEF LastOf
<1>2. CASE Len(s) > n
  <2>1. LastOf(s, n) = SubSeq(s, Len(s) - n + 1, Len(s))
    BY <1>2 DEF LastOf
  <2>2. LastOf(s, n) \in Seq(S) /\ Len(LastOf(s, n)) = n
    BY <1>2, <2>1
  <2>3. Len(s) = n + 1 => LastOf(s, n) = Tail(s)
    BY <1>2, <2>1
  <2> QED
    BY <1>2, <2>2, <2>3
<1> QED
  BY <1>1, <1>2

(* The first n of a sequence. *)
LEMMA FirstOfSeq ==
    ASSUME NEW S, NEW s \in Seq(S), NEW n \in Nat
    PROVE  /\ FirstOf(s, n) \in Seq(S)
           /\ Len(FirstOf(s, n)) <= n
           /\ Len(s) <= n => FirstOf(s, n) = s
BY DEF FirstOf

(* A sequence is what is before its last element, and that. *)
LEMMA FrontLast ==
    ASSUME NEW S, NEW s \in Seq(S), s # <<>>
    PROVE  /\ Front(s) \in Seq(S) /\ Last(s) \in S
           /\ Len(Front(s)) = Len(s) - 1
           /\ Append(Front(s), Last(s)) = s
<1>1. Len(s) \in Nat \ {0}
  OBVIOUS
<1>2. Front(s) \in Seq(S) /\ Len(Front(s)) = Len(s) - 1
      /\ \A i \in 1..(Len(s) - 1) : Front(s)[i] = s[i]
  <2>1. Front(s) = SubSeq(s, 1, Len(s) - 1)
    BY DEF Front
  <2>2. \A k \in Nat : k <= Len(s) => Len(SubSeq(s, 1, k)) = k
    BY <1>1
  <2>3. Len(s) - 1 \in Nat /\ Len(s) - 1 <= Len(s)
    BY <1>1
  <2>4. SubSeq(s, 1, Len(s) - 1) \in Seq(S)
    BY <1>1
  <2>5. ASSUME NEW i \in 1..(Len(s) - 1) PROVE SubSeq(s, 1, Len(s) - 1)[i] = s[i]
    BY <1>1
  <2>6. Len(SubSeq(s, 1, Len(s) - 1)) = Len(s) - 1
    BY <2>2, <2>3, Zenon
  <2> QED
    BY <2>1, <2>4, <2>5, <2>6, Zenon
<1>3. Last(s) \in S /\ Last(s) = s[Len(s)]
  BY <1>1 DEF Last
<1>4. Append(Front(s), Last(s)) = s
  <2> DEFINE t == Append(Front(s), Last(s))
  <2>1. t \in Seq(S) /\ Len(t) = Len(s)
    BY <1>1, <1>2, <1>3
  <2>2. \A i \in 1..Len(s) : t[i] = s[i]
    BY <1>1, <1>2, <1>3
  <2> QED
    BY <2>1, <2>2, SeqEqual
<1> QED
  BY <1>2, <1>3, <1>4

(* The masks of a session: those before, the one on the screen, those after. *)
LineOf(h, x, f) == h \o <<x>> \o f

(* Undo passes one mask from one stack to the other. *)
LEMMA MoveBack ==
    ASSUME NEW S, NEW h \in Seq(S), h # <<>>, NEW x \in S, NEW f \in Seq(S)
    PROVE  LineOf(Front(h), Last(h), <<x>> \o f) = LineOf(h, x, f)
<1>1. Front(h) \in Seq(S) /\ Last(h) \in S /\ Append(Front(h), Last(h)) = h
  BY FrontLast
<1>2. Front(h) \o <<Last(h)>> = h
  <2>1. \A g \in Seq(S), y \in S : g \o <<y>> = Append(g, y)
    OBVIOUS
  <2> QED
    BY <1>1, <2>1
<1>3. h \o (<<x>> \o f) = (h \o <<x>>) \o f
  OBVIOUS
<1> QED
  BY <1>2, <1>3 DEF LineOf

(* Redo passes it back. *)
LEMMA MoveForward ==
    ASSUME NEW S, NEW h \in Seq(S), NEW x \in S, NEW f \in Seq(S), f # <<>>
    PROVE  LineOf(Append(h, x), Head(f), Tail(f)) = LineOf(h, x, f)
<1>1. <<Head(f)>> \o Tail(f) = f
  OBVIOUS
<1>2. Append(h, x) = h \o <<x>>
  OBVIOUS
<1>3. (Append(h, x) \o <<Head(f)>>) \o Tail(f) = Append(h, x) \o (<<Head(f)>> \o Tail(f))
  OBVIOUS
<1> QED
  BY <1>1, <1>2, <1>3 DEF LineOf

-----------------------------------------------------------------------------
(* What steps keep.                                                        *)

(* A new mask, whoever selects what in it, keeps the invariant. *)
LEMMA CommitKeeps ==
    ASSUME EdInv, NEW snap \in MaskValue, NEW select \in Nat,
           select # 0 => select \in DOMAIN snap.rects,
           Commit(snap, select), UNCHANGED mode
    PROVE  EdInv'
<1>1. history' \in Seq(MaskValue) /\ Len(history') <= HistoryDepth
  <2>1. Append(history, now) \in Seq(MaskValue)
    BY DEF EdInv, EdTypeOK
  <2> QED
    BY <2>1, LastOfSeq, EditorAssumption DEF Commit
<1>2. future' = <<>> /\ future' \in Seq(MaskValue) /\ Len(future') = 0
  BY DEF Commit
<1>3. now' = snap /\ selected' = select /\ drag' = NoDrag /\ preview' = NoBox /\ strokePoints' = 0
  BY DEF Commit, ApplySnapshot
<1>4. NothingForgotten'
  BY <1>1, <1>2, EditorAssumption DEF NothingForgotten
<1>5. EdTypeOK'
  BY <1>1, <1>2, <1>3 DEF EdInv, EdTypeOK, NoDrag
<1> QED
  BY <1>3, <1>4, <1>5 DEF EdInv, GrabHasBox, GrabIsCurrent, NoDrag

(* A mask from one of the stacks, with nothing selected, keeps it too. *)
LEMMA ApplyKeeps ==
    ASSUME EdInv, NEW snap \in MaskValue, ApplySnapshot(snap, 0), UNCHANGED mode,
           history' \in Seq(MaskValue), future' \in Seq(MaskValue),
           Len(history') + Len(future') <= HistoryDepth
    PROVE  EdInv'
BY DEF EdInv, EdTypeOK, GrabHasBox, GrabIsCurrent, NothingForgotten, ApplySnapshot, NoDrag

(* Undo cuts nothing off. *)
LEMMA UndoWhole ==
    ASSUME EdInv, Undo
    PROVE  /\ history' = Front(history) /\ future' = <<now>> \o future
           /\ history \in Seq(MaskValue) /\ history # <<>>
           /\ future' \in Seq(MaskValue) /\ Len(future') = Len(future) + 1
<1>1. history \in Seq(MaskValue) /\ history # <<>> /\ Len(history) \in Nat \ {0}
  BY DEF EdInv, EdTypeOK, Undo
<1>2. <<now>> \o future \in Seq(MaskValue) /\ Len(<<now>> \o future) = Len(future) + 1
  BY DEF EdInv, EdTypeOK
<1>3. Len(future) + 1 <= HistoryDepth
  BY <1>1, EditorAssumption DEF EdInv, EdTypeOK, NothingForgotten
<1> QED
  BY <1>1, <1>2, <1>3, FirstOfSeq, EditorAssumption DEF Undo

(* Nor does redo. *)
LEMMA RedoWhole ==
    ASSUME EdInv, Redo
    PROVE  /\ history' = Append(history, now) /\ future' = Tail(future)
           /\ future \in Seq(MaskValue) /\ future # <<>> /\ Len(future) \in Nat \ {0}
           /\ history' \in Seq(MaskValue) /\ Len(history') = Len(history) + 1
<1>1. future \in Seq(MaskValue) /\ future # <<>> /\ Len(future) \in Nat \ {0}
  BY DEF EdInv, EdTypeOK, Redo
<1>2. Append(history, now) \in Seq(MaskValue) /\ Len(Append(history, now)) = Len(history) + 1
  BY DEF EdInv, EdTypeOK
<1>3. Len(history) + 1 <= HistoryDepth
  BY <1>1, EditorAssumption DEF EdInv, EdTypeOK, NothingForgotten
<1> QED
  BY <1>1, <1>2, <1>3, LastOfSeq, EditorAssumption DEF Redo

(* A step that leaves the masks and the stacks alone. *)
LEMMA QuietKeeps ==
    ASSUME EdInv, UNCHANGED <<now, history, future>>,
           mode' \in {"BRUSH", "RECTANGLE"}, strokePoints' \in 0..2,
           selected' \in {0, selected} \/ selected' \in DOMAIN now.rects,
           \/ UNCHANGED <<drag, preview>>
           \/ drag' = NoDrag /\ preview' = NoBox
           \/ drag' = [NoDrag EXCEPT !.type = "draw"] /\ preview' = Dot
           \/ drag' = drag /\ preview' \in Boxes \cup {Dot} /\ (preview' = Dot => drag.type = "draw")
           \/ \E i \in DOMAIN now.rects :
                 /\ drag' = [type |-> "grab", rectIdx |-> i, prevRect |-> now.rects[i]]
                 /\ preview' = now.rects[i]
    PROVE  EdInv'
<1>1. now.rects \in Seq(Boxes) /\ \A i \in DOMAIN now.rects : i \in Nat /\ now.rects[i] \in Boxes
  BY DEF EdInv, EdTypeOK, MaskValue
<1>2. selected' \in Nat /\ (selected' # 0 => selected' \in DOMAIN now'.rects)
  BY <1>1 DEF EdInv, EdTypeOK, GrabIsCurrent
<1>3. /\ drag' \in [type : {"none", "draw", "grab"}, rectIdx : Nat, prevRect : Boxes \cup {NoBox}]
      /\ preview' \in Boxes \cup {Dot, NoBox}
      /\ drag'.type = "grab" => /\ preview' \in Boxes \cup {NoBox}
                                /\ drag'.rectIdx \in DOMAIN now'.rects
                                /\ now'.rects[drag'.rectIdx] = drag'.prevRect
  <2>1. CASE UNCHANGED <<drag, preview>>
    BY <2>1 DEF EdInv, EdTypeOK, GrabIsCurrent, GrabHasBox
  <2>2. CASE drag' = NoDrag /\ preview' = NoBox
    BY <2>2 DEF NoDrag
  <2>3. CASE drag' = [NoDrag EXCEPT !.type = "draw"] /\ preview' = Dot
    BY <2>3 DEF NoDrag
  <2>4. CASE drag' = drag /\ preview' \in Boxes \cup {Dot} /\ (preview' = Dot => drag.type = "draw")
    BY <2>4 DEF EdInv, EdTypeOK, GrabIsCurrent, GrabHasBox
  <2>5. ASSUME NEW i \in DOMAIN now.rects,
               drag' = [type |-> "grab", rectIdx |-> i, prevRect |-> now.rects[i]],
               preview' = now.rects[i]
        PROVE  /\ drag' \in [type : {"none", "draw", "grab"}, rectIdx : Nat, prevRect : Boxes \cup {NoBox}]
               /\ preview' \in Boxes \cup {NoBox}
               /\ drag'.rectIdx \in DOMAIN now'.rects
               /\ now'.rects[drag'.rectIdx] = drag'.prevRect
    BY <1>1, <2>5
  <2> QED
    BY <2>1, <2>2, <2>3, <2>4, <2>5
<1> QED
  BY <1>2, <1>3 DEF EdInv, EdTypeOK, GrabHasBox, GrabIsCurrent, NothingForgotten

(* Every step keeps the invariant. *)
LEMMA EdStep ==
    ASSUME EdInv, [EdNext]_edVars
    PROVE  EdInv'
<1>1. ASSUME NEW tool \in {"BRUSH", "RECTANGLE"}, PickTool(tool) PROVE EdInv'
  <2>1. UNCHANGED <<now, history, future>> /\ mode' \in {"BRUSH", "RECTANGLE"}
        /\ strokePoints' \in 0..2 /\ selected' \in {0, selected} /\ UNCHANGED <<drag, preview>>
    BY <1>1 DEF PickTool, EdInv, EdTypeOK
  <2> QED
    BY <2>1, QuietKeeps
<1>2. CASE Undo
  <2>1. Front(history) \in Seq(MaskValue) /\ Last(history) \in MaskValue
        /\ Len(Front(history)) = Len(history) - 1
    BY <1>2, UndoWhole, FrontLast
  <2>2. Len(history') + Len(future') <= HistoryDepth
    BY <1>2, <2>1, UndoWhole, EditorAssumption DEF EdInv, EdTypeOK, NothingForgotten
  <2> QED
    BY <1>2, <2>1, <2>2, UndoWhole, ApplyKeeps DEF Undo
<1>3. CASE Redo
  <2>1. Head(future) \in MaskValue /\ Tail(future) \in Seq(MaskValue)
        /\ Len(Tail(future)) = Len(future) - 1
    BY <1>3, RedoWhole
  <2>2. Len(history') + Len(future') <= HistoryDepth
    BY <1>3, <2>1, RedoWhole, EditorAssumption DEF EdInv, EdTypeOK, NothingForgotten
  <2> QED
    BY <1>3, <2>1, <2>2, RedoWhole, ApplyKeeps DEF Redo
<1>4. CASE DeleteSelected
  <2>1. now.rects \in Seq(Boxes) /\ selected \in DOMAIN now.rects
    BY <1>4 DEF DeleteSelected, EdInv, EdTypeOK, MaskValue, GrabIsCurrent
  <2>2. RemoveAt(now.rects, selected) \in Seq(Boxes)
    BY <2>1 DEF RemoveAt
  <2>3. [now EXCEPT !.rects = RemoveAt(@, selected)] \in MaskValue
    BY <2>2 DEF EdInv, EdTypeOK, MaskValue
  <2> QED
    BY <1>4, <2>3, CommitKeeps DEF DeleteSelected
<1>5. CASE ClearMask
  <2>1. EmptyMask \in MaskValue
    BY DEF EmptyMask, MaskValue
  <2> QED
    BY <1>5, <2>1, CommitKeeps DEF ClearMask
<1>6. CASE StartStroke \/ ExtendStroke
  <2>1. UNCHANGED <<now, history, future>> /\ mode' \in {"BRUSH", "RECTANGLE"}
        /\ strokePoints' \in 0..2 /\ selected' \in {0, selected} /\ UNCHANGED <<drag, preview>>
    BY <1>6 DEF StartStroke, ExtendStroke, EdInv, EdTypeOK
  <2> QED
    BY <2>1, QuietKeeps
<1>7. CASE EndStroke
  <2>1. CASE strokePoints >= 2
    <3>1. PICK stroke \in Lines : Commit([now EXCEPT !.strokes = Append(@, stroke)], 0)
      BY <1>7, <2>1 DEF EndStroke
    <3>2. now \in MaskValue /\ Append(now.strokes, stroke) \in Seq(Lines)
      BY DEF EdInv, EdTypeOK, MaskValue
    <3>3. [now EXCEPT !.strokes = Append(@, stroke)] \in MaskValue
      <4> DEFINE more == Append(now.strokes, stroke)
      <4> HIDE DEF more
      <4>1. more \in Seq(Lines) => [now EXCEPT !.strokes = more] \in MaskValue
        BY <3>2 DEF MaskValue
      <4> QED
        BY <3>2, <4>1 DEF more
    <3> QED
      BY <1>7, <3>1, <3>3, CommitKeeps DEF EndStroke
  <2>2. CASE ~(strokePoints >= 2)
    <3>1. mode = "BRUSH" /\ UNCHANGED <<mode, now, selected, preview, history, future>>
          /\ drag' = NoDrag /\ strokePoints' = 0
      BY <1>7, <2>2 DEF EndStroke
    <3> QED
      BY <3>1 DEF EdInv, EdTypeOK, GrabHasBox, GrabIsCurrent, NothingForgotten, NoDrag
  <2> QED
    BY <2>1, <2>2
<1>8. CASE StartDraw
  <2>1. UNCHANGED <<now, history, future>> /\ mode' \in {"BRUSH", "RECTANGLE"}
        /\ strokePoints' \in 0..2 /\ selected' = 0
        /\ drag' = [NoDrag EXCEPT !.type = "draw"] /\ preview' = Dot
    BY <1>8 DEF StartDraw, EdInv, EdTypeOK
  <2> QED
    BY <2>1, QuietKeeps
<1>9. CASE EndDraw
  <2>1. CASE LargeEnough(preview)
    <3>1. preview \in Boxes
      BY <1>9, <2>1 DEF EndDraw, LargeEnough, EdInv, EdTypeOK
    <3>2. now.rects \in Seq(Boxes)
      BY DEF EdInv, EdTypeOK, MaskValue
    <3> DEFINE snap == [now EXCEPT !.rects = Append(@, preview)]
    <3>3. snap.rects = Append(now.rects, preview) /\ snap \in MaskValue
      <4> DEFINE more == Append(now.rects, preview)
      <4>1. more \in Seq(Boxes)
        BY <3>1, <3>2
      <4> HIDE DEF more
      <4>2. [now EXCEPT !.rects = more].rects = more /\ [now EXCEPT !.rects = more] \in MaskValue
        BY <4>1 DEF EdInv, EdTypeOK, MaskValue
      <4> QED
        BY <4>2 DEF more
    <3>4. Len(now.rects) + 1 \in Nat /\ Len(now.rects) + 1 \in DOMAIN Append(now.rects, preview)
      BY <3>1, <3>2
    <3>5. Commit(snap, Len(now.rects) + 1) /\ UNCHANGED mode
      BY <1>9, <2>1 DEF EndDraw
    <3> HIDE DEF snap
    <3> QED
      BY <3>3, <3>4, <3>5, CommitKeeps
  <2>2. CASE ~LargeEnough(preview)
    <3>1. UNCHANGED <<mode, now, selected, strokePoints, history, future>>
          /\ drag' = NoDrag /\ preview' = NoBox
      BY <1>9, <2>2 DEF EndDraw, LetGo
    <3> QED
      BY <3>1, QuietKeeps DEF EdInv, EdTypeOK
  <2> QED
    BY <2>1, <2>2
<1>10. CASE EndGrab
  <2>1. preview \in Boxes
    BY <1>10 DEF EndGrab, EdInv, EdTypeOK, GrabHasBox
  <2>2. now.rects \in Seq(Boxes) /\ drag.rectIdx \in DOMAIN now.rects /\ drag.rectIdx \in Nat
    BY <1>10 DEF EndGrab, EdInv, EdTypeOK, GrabIsCurrent, MaskValue
  <2> DEFINE moved == [i \in DOMAIN now.rects |-> IF i = drag.rectIdx THEN preview ELSE now.rects[i]]
             snap == [now EXCEPT !.rects = moved]
  <2>3. moved \in Seq(Boxes) /\ DOMAIN moved = DOMAIN now.rects
    BY <2>1, <2>2
  <2> HIDE DEF moved
  <2>4. snap.rects = moved /\ snap \in MaskValue
    BY <2>3 DEF EdInv, EdTypeOK, MaskValue
  <2>5. Commit(snap, drag.rectIdx) /\ UNCHANGED mode
    BY <1>10 DEF EndGrab, moved
  <2> HIDE DEF snap
  <2> QED
    BY <2>2, <2>3, <2>4, <2>5, CommitKeeps
<1>11. CASE EndNothing
  <2>1. UNCHANGED <<mode, now, selected, strokePoints, history, future>>
        /\ drag' = NoDrag /\ preview' = NoBox
    BY <1>11 DEF EndNothing, LetGo
  <2> QED
    BY <2>1, QuietKeeps DEF EdInv, EdTypeOK
<1>12. ASSUME NEW i \in DOMAIN now.rects, Grab(i) PROVE EdInv'
  <2>1. UNCHANGED <<mode, now, strokePoints, history, future>> /\ selected' = i
        /\ drag' = [type |-> "grab", rectIdx |-> i, prevRect |-> now.rects[i]]
        /\ preview' = now.rects[i]
    BY <1>12 DEF Grab
  <2> QED
    BY <2>1, QuietKeeps DEF EdInv, EdTypeOK
<1>13. ASSUME NEW box \in Boxes \cup {Dot}, MovePreview(box) PROVE EdInv'
  <2>1. UNCHANGED <<mode, now, selected, drag, strokePoints, history, future>>
        /\ preview' = box /\ (box = Dot => drag.type = "draw")
    BY <1>13 DEF MovePreview
  <2> QED
    BY <2>1, QuietKeeps DEF EdInv, EdTypeOK
<1>14. CASE UNCHANGED edVars
  BY <1>14 DEF edVars, EdInv, EdTypeOK, GrabHasBox, GrabIsCurrent, NothingForgotten
<1> QED
  BY <1>1, <1>2, <1>3, <1>4, <1>5, <1>6, <1>7, <1>8, <1>9, <1>10, <1>11, <1>12, <1>13, <1>14
  DEF EdNext

(* The editor opens with it. *)
LEMMA EdStart == EdInit => EdInv
BY EditorAssumption
   DEF EdInit, EdInv, EdTypeOK, GrabHasBox, GrabIsCurrent, NothingForgotten,
       EmptyMask, MaskValue, NoDrag

(* So it always holds. *)
LEMMA EdInvariant == EdSpec => []EdInv
<1>1. EdInit => EdInv
  BY EdStart
<1>2. EdInv /\ [EdNext]_edVars => EdInv'
  BY EdStep
<1> QED
  BY <1>1, <1>2, PTL DEF EdSpec

-----------------------------------------------------------------------------
(* The types of the editor's state. *)
THEOREM EditorTypeCorrect == EdSpec => []EdTypeOK
<1>1. EdInv => EdTypeOK
  BY DEF EdInv
<1> QED
  BY <1>1, EdInvariant, PTL

(* The selection and a grab point at what is on the screen, however the    *)
(* buttons are pressed in the middle of a gesture.                         *)
THEOREM GrabStaysCurrent == EdSpec => []GrabIsCurrent
<1>1. EdInv => GrabIsCurrent
  BY DEF EdInv
<1> QED
  BY <1>1, EdInvariant, PTL

(* Undo and redo never cut a stack: only a new mask forgets. *)
THEOREM StacksFit == EdSpec => []NothingForgotten
<1>1. EdInv => NothingForgotten
  BY DEF EdInv
<1> QED
  BY <1>1, EdInvariant, PTL

-----------------------------------------------------------------------------
(* The refinement of EditTimeline. *)

Line == LineOf(history, now, future)

(* What is on the line up to the mask the user sees. *)
LEMMA LineUpToNow ==
    ASSUME NEW S, NEW h \in Seq(S), NEW x \in S, NEW f \in Seq(S)
    PROVE  /\ LineOf(h, x, f) \in Seq(S)
           /\ Len(LineOf(h, x, f)) = Len(h) + 1 + Len(f)
           /\ SubSeq(LineOf(h, x, f), 1, Len(h) + 1) = Append(h, x)
<1> DEFINE t == LineOf(h, x, f)
<1>1. t \in Seq(S) /\ Len(t) = Len(h) + 1 + Len(f) /\ Len(h) \in Nat /\ Len(f) \in Nat
  BY DEF LineOf
<1>2. \A i \in 1..(Len(h) + 1) : t[i] = Append(h, x)[i]
  BY DEF LineOf
<1>3. Append(h, x) \in Seq(S) /\ Len(Append(h, x)) = Len(h) + 1
  OBVIOUS
<1> HIDE DEF t
<1>4. SubSeq(t, 1, Len(h) + 1) \in Seq(S) /\ Len(SubSeq(t, 1, Len(h) + 1)) = Len(h) + 1
      /\ \A i \in 1..(Len(h) + 1) : SubSeq(t, 1, Len(h) + 1)[i] = t[i]
  BY <1>1
<1>5. SubSeq(t, 1, Len(h) + 1) = Append(h, x)
  BY <1>2, <1>3, <1>4, SeqEqual
<1> QED
  BY <1>1, <1>5 DEF t

(* A committed mask is drawn behind the one the user saw. *)
LEMMA CommitDraws ==
    ASSUME EdInv, EdInv', NEW snap \in MaskValue, NEW select, Commit(snap, select)
    PROVE  Promised!Draw
<1> DEFINE h == history
<1>1. h \in Seq(MaskValue) /\ now \in MaskValue /\ future \in Seq(MaskValue)
      /\ Len(h) \in Nat /\ Len(h) <= HistoryDepth /\ HistoryDepth \in Nat \ {0}
  BY EditorAssumption DEF EdInv, EdTypeOK, NothingForgotten
<1>2. now' = snap /\ future' = <<>> /\ history' = LastOf(Append(h, now), HistoryDepth)
  BY DEF Commit, ApplySnapshot
<1>3. Append(h, now) \in Seq(MaskValue) /\ Len(Append(h, now)) = Len(h) + 1
  BY <1>1
<1>4. /\ history' \in Seq(MaskValue)
      /\ Len(h) + 1 <= HistoryDepth => history' = Append(h, now)
      /\ Len(h) = HistoryDepth => history' = Tail(Append(h, now))
  BY <1>1, <1>2, <1>3, LastOfSeq
<1>5. Line' = Append(history', snap) /\ Len(Line') = Len(history') + 1
      /\ Line'[Len(Line')] = snap
  <2>1. \A g \in Seq(MaskValue) : /\ g \o <<snap>> \o <<>> = Append(g, snap)
                                  /\ Len(Append(g, snap)) = Len(g) + 1
                                  /\ Append(g, snap)[Len(g) + 1] = snap
    OBVIOUS
  <2> QED
    BY <1>2, <1>4, <2>1 DEF Line, LineOf
<1>6. SubSeq(Line, 1, Len(h) + 1) = Append(h, now)
  BY <1>1, LineUpToNow, ZenonT(60) DEF Line
<1>7. Line' = IF Len(Append(Append(h, now), snap)) > HistoryDepth + 1
              THEN Tail(Append(Append(h, now), snap)) ELSE Append(Append(h, now), snap)
  <2>1. Len(Append(Append(h, now), snap)) = Len(h) + 2
    BY <1>1, <1>3
  <2>2. Tail(Append(Append(h, now), snap)) = Append(Tail(Append(h, now)), snap)
    <3>1. \A g \in Seq(MaskValue) : Len(g) > 0 => Tail(Append(g, snap)) = Append(Tail(g), snap)
      OBVIOUS
    <3> QED
      BY <1>1, <1>3, <3>1
  <2>3. CASE Len(h) = HistoryDepth
    <3>1. Line' = Append(Tail(Append(h, now)), snap)
      BY <1>4, <1>5, <2>3
    <3>2. Len(Append(Append(h, now), snap)) > HistoryDepth + 1
      BY <1>1, <2>1, <2>3
    <3>3. Line' = Tail(Append(Append(h, now), snap))
      BY <2>2, <3>1, Zenon
    <3> QED
      BY <3>2, <3>3, Zenon
  <2>4. CASE Len(h) + 1 <= HistoryDepth
    <3>1. Line' = Append(Append(h, now), snap)
      BY <1>4, <1>5, <2>4
    <3> QED
      BY <1>1, <2>1, <2>4, <3>1
  <2>5. Len(h) = HistoryDepth \/ Len(h) + 1 <= HistoryDepth
    BY <1>1
  <2> QED
    BY <2>3, <2>4, <2>5, Zenon
<1> QED
  BY <1>2, <1>5, <1>6, <1>7 DEF Promised!Draw, Promised!Newest, Line, LineOf

(* Undo shows the mask before, on the same line. *)
LEMMA UndoGoesBack ==
    ASSUME EdInv, Undo
    PROVE  Promised!Back
<1>1. history \in Seq(MaskValue) /\ history # <<>> /\ now \in MaskValue /\ future \in Seq(MaskValue)
  BY DEF EdInv, EdTypeOK, Undo
<1>2. now' = Last(history) /\ history' = Front(history) /\ future' = <<now>> \o future
  BY UndoWhole DEF Undo, ApplySnapshot
<1>3. Len(history') = Len(history) - 1 /\ Len(history) \in Nat \ {0}
  <2>1. Len(Front(history)) = Len(history) - 1
    BY <1>1, FrontLast, Zenon
  <2> QED
    BY <1>1, <1>2, <2>1
<1>4. Line' = Line
  <2>1. LineOf(Front(history), Last(history), <<now>> \o future) = Line
    BY <1>1, MoveBack, Zenon DEF Line
  <2>2. Line' = LineOf(history', now', future')
    BY DEF Line
  <2> QED
    BY <1>2, <2>1, <2>2, Zenon
<1> QED
  BY <1>3, <1>4 DEF Promised!Back, Line, LineOf

(* Redo shows the mask after. *)
LEMMA RedoGoesForward ==
    ASSUME EdInv, Redo
    PROVE  Promised!Forward
<1>1. history \in Seq(MaskValue) /\ now \in MaskValue /\ future \in Seq(MaskValue)
      /\ future # <<>> /\ Len(future) \in Nat \ {0} /\ Len(history) \in Nat
  BY RedoWhole DEF EdInv, EdTypeOK
<1>2. now' = Head(future) /\ history' = Append(history, now) /\ future' = Tail(future)
      /\ Len(history') = Len(history) + 1
  BY RedoWhole DEF Redo, ApplySnapshot
<1>3. Line' = Line
  <2>1. LineOf(Append(history, now), Head(future), Tail(future)) = Line
    BY <1>1, MoveForward, Zenon DEF Line
  <2>2. Line' = LineOf(history', now', future')
    BY DEF Line
  <2> QED
    BY <1>2, <2>1, <2>2, Zenon
<1>4. Len(Line) = Len(history) + 1 + Len(future)
  BY <1>1, LineUpToNow, Zenon DEF Line
<1>5. Len(history) + 1 < Len(Line) /\ Len(history') + 1 = Len(history) + 1 + 1
  BY <1>1, <1>2, <1>4
<1> QED
  BY <1>3, <1>5 DEF Promised!Forward, Line, LineOf

(* A mask that is committed is one, whichever button or gesture did it. *)
LEMMA DrawsOrRests ==
    ASSUME EdInv, EdInv', [EdNext]_edVars
    PROVE  \/ UNCHANGED <<now, history, future>>
           \/ Undo \/ Redo
           \/ \E snap \in MaskValue, select \in Nat : Commit(snap, select)
<1> USE DEF EdInv, EdTypeOK
<1>1. ASSUME NEW snap, NEW select, Commit(snap, select)
      PROVE  \E s \in MaskValue, c \in Nat : Commit(s, c)
  BY <1>1 DEF Commit, ApplySnapshot
<1>2. DeleteSelected => \E snap, select : Commit(snap, select)
  BY Zenon DEF DeleteSelected
<1>3. ClearMask => \E snap, select : Commit(snap, select)
  BY Zenon DEF ClearMask
<1>4. EndStroke => UNCHANGED <<now, history, future>> \/ \E snap, select : Commit(snap, select)
  BY Zenon DEF EndStroke
<1>5. EndDraw => UNCHANGED <<now, history, future>> \/ \E snap, select : Commit(snap, select)
  BY Zenon DEF EndDraw
<1>6. EndGrab => UNCHANGED <<now, history, future>> \/ \E snap, select : Commit(snap, select)
  BY Zenon DEF EndGrab
<1>7. ASSUME \/ \E tool \in {"BRUSH", "RECTANGLE"} : PickTool(tool)
             \/ StartStroke \/ ExtendStroke \/ StartDraw \/ EndNothing
             \/ \E i \in DOMAIN now.rects : Grab(i)
             \/ \E box \in Boxes \cup {Dot} : MovePreview(box)
             \/ UNCHANGED edVars
      PROVE  UNCHANGED <<now, history, future>>
  BY <1>7 DEF PickTool, StartStroke, ExtendStroke, StartDraw, EndNothing, Grab, MovePreview, edVars
<1> QED
  BY <1>1, <1>2, <1>3, <1>4, <1>5, <1>6, <1>7, Zenon DEF EdNext

(* The editor implements the line of masks: a committed mask is drawn      *)
(* behind the one on the screen, undo and redo walk, nothing else moves.   *)
THEOREM UndoWalksTheLine == EdSpec => UndoKeepsTimeline
<1>1. EdInit => Promised!Start
  BY DEF EdInit, Promised!Start
<1>2. EdInv /\ EdInv' /\ [EdNext]_edVars
      => [Promised!Draw \/ Promised!Back \/ Promised!Forward]_<<Line, Len(history) + 1>>
  <2> SUFFICES ASSUME EdInv, EdInv', [EdNext]_edVars
               PROVE  \/ Promised!Draw \/ Promised!Back \/ Promised!Forward
                      \/ UNCHANGED <<Line, Len(history) + 1>>
    OBVIOUS
  <2>1. CASE UNCHANGED <<now, history, future>>
    BY <2>1 DEF Line
  <2>2. ASSUME NEW snap \in MaskValue, NEW select \in Nat, Commit(snap, select)
        PROVE  Promised!Draw
    BY <2>2, CommitDraws
  <2> QED
    BY <2>1, <2>2, UndoGoesBack, RedoGoesForward, DrawsOrRests
<1> QED
  BY <1>1, <1>2, EdInvariant, PTL DEF EdSpec, UndoKeepsTimeline, Promised!Timeline, Line, LineOf

-----------------------------------------------------------------------------
(***************************************************************************)
(* RegionMask.                                                             *)

(* Integers beyond a bound have one that is nearest to it. *)
LEMMA NearestAbove ==
    ASSUME NEW i \in Int, NEW T \in SUBSET Int, T # {}, \A x \in T : x > i
    PROVE  \E x \in T : \A y \in T : x <= y
<1> DEFINE U    == {x - i : x \in T}
           Less == {ss \in Nat \X Nat : ss[1] < ss[2]}
<1>1. IsWellFoundedOn(Less, Nat)
  BY NatLessThanWellFounded DEF OpToRel
<1>2. U \subseteq Nat /\ U # {}
  <2>1. \A x \in T : x - i \in Nat
    OBVIOUS
  <2> QED
    BY <2>1, Zenon
<1> HIDE DEF Less
<1>3. PICK u \in U : \A v \in U : <<v, u>> \notin Less
  BY <1>1, <1>2, WFMin, Zenon
<1>4. ASSUME NEW v \in U PROVE u <= v
  <2>1. v \in Nat /\ u \in Nat
    BY <1>2, <1>4, Zenon
  <2>2. ~(v < u)
    <3>1. <<v, u>> \in Nat \X Nat
      BY <2>1
    <3>2. <<v, u>>[1] = v /\ <<v, u>>[2] = u
      OBVIOUS
    <3> HIDE DEF U
    <3> QED
      BY <1>3, <1>4, <3>1, <3>2, Zenon DEF Less
  <2> QED
    BY <2>1, <2>2
<1>5. PICK x \in T : u = x - i
  OBVIOUS
<1>6. \A y \in T : y - i \in U
  OBVIOUS
<1>7. \A y \in T : x <= y
  BY <1>4, <1>5, <1>6
<1> QED
  BY <1>7

LEMMA MinAbove ==
    ASSUME NEW i \in Int, NEW T \in SUBSET Int, T # {}, \A x \in T : x > i
    PROVE  Min(T) \in T
BY NearestAbove, Zenon DEF Min

LEMMA MaxBelow ==
    ASSUME NEW i \in Int, NEW T \in SUBSET Int, T # {}, \A x \in T : x < i
    PROVE  Max(T) \in T
<1> DEFINE U == {-x : x \in T}
<1>1. \A u \in U : u \in Int /\ u > -i
  OBVIOUS
<1>2. U # {} /\ \A x \in T : -x \in U
  OBVIOUS
<1>3. PICK u \in U : \A v \in U : u <= v
  <2>1. U \in SUBSET Int /\ -i \in Int
    BY <1>1
  <2> HIDE DEF U
  <2> QED
    BY <1>1, <1>2, <2>1, NearestAbove
<1>4. PICK x \in T : u = -x
  OBVIOUS
<1>5. \A y \in T : x >= y
  BY <1>2, <1>3, <1>4
<1> QED
  BY <1>5, Zenon DEF Max

-----------------------------------------------------------------------------
(* What normalize_box makes of four numbers.                               *)

LEMMA NormalizedIsInt ==
    ASSUME NEW v \in Int, NEW limit \in Nat
    PROVE  normalize_value(v, limit) \in Int
<1>1. v * limit \in Int
  OBVIOUS
<1>2. \A x \in Int : x \div 1000 \in Int /\ x \div 1000000 \in Int
  OBVIOUS
<1> QED
  BY <1>1, <1>2 DEF normalize_value

LEMMA AlongFits ==
    ASSUME NEW a \in Int, NEW b \in Int, NEW limit \in Nat \ {0}
    PROVE  /\ Along(a, b, limit)[1] \in Nat /\ Along(a, b, limit)[2] \in Nat
           /\ Along(a, b, limit)[1] < Along(a, b, limit)[2]
           /\ Along(a, b, limit)[2] <= limit
BY DEF Along, Clamped, Lesser, Greater

(* A box from any four numbers is in the frame, and not empty. *)
LEMMA BoxFits ==
    ASSUME NEW box \in AnyBox
    PROVE  Visible(normalize_box(box)) /\ normalize_box(box) \in AnyBox
<1> DEFINE px == [s \in Side |-> normalize_value(box[s], Limit[s])]
           h  == Along(px.x1, px.x2, Width)
           v  == Along(px.y1, px.y2, Height)
<1>1. \A s \in Side : box[s] \in Int /\ Limit[s] \in Nat
  BY RegionAssumption DEF AnyBox, Side, Limit
<1>2. \A s \in Side : px[s] \in Int
  BY <1>1, NormalizedIsInt
<1>3. px.x1 \in Int /\ px.x2 \in Int /\ px.y1 \in Int /\ px.y2 \in Int
  BY <1>2 DEF Side
<1> HIDE DEF px
<1>4. /\ h[1] \in Nat /\ h[2] \in Nat /\ h[1] < h[2] /\ h[2] <= Width
      /\ v[1] \in Nat /\ v[2] \in Nat /\ v[1] < v[2] /\ v[2] <= Height
  BY <1>3, AlongFits, RegionAssumption
<1>5. normalize_box(box) = [x1 |-> h[1], y1 |-> v[1], x2 |-> h[2], y2 |-> v[2]]
  BY Zenon DEF normalize_box, px
<1> HIDE DEF h, v
<1>6. Visible(normalize_box(box))
  BY <1>4, <1>5 DEF Visible
<1>7. normalize_box(box) \in AnyBox
  BY <1>4, <1>5 DEF AnyBox, Side
<1> QED
  BY <1>6, <1>7

LEMMA MixedIsBox ==
    ASSUME NEW prev \in AnyBox, NEW next \in AnyBox, NEW i \in Int, NEW n \in Int, n > 0
    PROVE  InPixels(interpolate_box(prev, next, i, n)) \in AnyBox
<1>1. \A s \in Side : prev[s] \in Int /\ next[s] \in Int
  BY DEF AnyBox
<1>2. \A s \in Side : (next[s] - prev[s]) * i \in Int
  BY <1>1
<1>3. \A x \in Int : x \div n \in Int
  OBVIOUS
<1>4. \A s \in Side : prev[s] + ((next[s] - prev[s]) * i) \div n \in Int
  BY <1>1, <1>2, <1>3
<1> QED
  BY <1>4 DEF InPixels, interpolate_box, AnyBox

-----------------------------------------------------------------------------
(* The inductive invariant.                                                *)

RmTypeOK ==
    /\ request \in RegionRequests
    /\ frame \in 0..Frames
    /\ DOMAIN masks = 0..(Frames - 1)
    /\ verdict = "working" => frame < Frames

RmInv == RmTypeOK /\ EveryFrameMasked

(* A frame is keyed by a number, and what is keyed by it are boxes. *)
LEMMA SplitRegions ==
    ASSUME RmTypeOK, request.media = "VIDEO"
    PROVE  KeyFrames \subseteq Nat /\ \A k \in KeyFrames : Keyed(k) # {} /\ Keyed(k) \subseteq AnyBox
<1> DEFINE given == DOMAIN request.keyed
           With(k) == {g \in given : Greater(0, g) = k}
<1>1. given \subseteq Int /\ \A f \in given : request.keyed[f] # {} /\ request.keyed[f] \subseteq AnyBox
  BY RegionAssumption DEF RmTypeOK
<1>2. KeyFrames = {Greater(0, f) : f \in given}
  BY DEF KeyFrames, split_video_regions
<1>3. \A f \in given : Greater(0, f) \in Nat
  BY <1>1 DEF Greater
<1>4. ASSUME NEW k \in KeyFrames
      PROVE  Keyed(k) # {} /\ Keyed(k) \subseteq AnyBox
  <2>1. Keyed(k) = UNION {request.keyed[f] : f \in With(k)}
    BY <1>2, <1>4 DEF Keyed, split_video_regions
  <2>2. PICK f \in With(k) : TRUE
    BY <1>2, <1>4
  <2> QED
    BY <1>1, <2>1, <2>2
<1> QED
  BY <1>2, <1>3, <1>4

LEMMA SameSplit ==
    ASSUME request' = request
    PROVE  KeyFrames' = KeyFrames /\ \A k : Keyed(k)' = Keyed(k)
BY DEF KeyFrames, Keyed, split_video_regions

(* Where there are key frames, every frame has regions. *)
LEMMA KeyedEverywhere ==
    ASSUME RmTypeOK, request.media = "VIDEO", NEW i \in Int, KeyFrames # {}
    PROVE  /\ KeyedRegions(i) # {} /\ KeyedRegions(i) \subseteq AnyBox
           /\ i \in KeyFrames => KeyedRegions(i) = Keyed(i)
<1>1. /\ KeyFrames \subseteq Int
      /\ \A k \in KeyFrames : Keyed(k) # {} /\ Keyed(k) \subseteq AnyBox
  BY SplitRegions
<1>2. Before(i) # {} => Max(Before(i)) \in Before(i)
  <2>1. Before(i) \in SUBSET Int /\ \A x \in Before(i) : x < i
    BY <1>1 DEF Before
  <2> QED
    BY <2>1, MaxBelow, Zenon
<1>3. After(i) # {} => Min(After(i)) \in After(i)
  <2>1. After(i) \in SUBSET Int /\ \A x \in After(i) : x > i
    BY <1>1 DEF After
  <2> QED
    BY <2>1, MinAbove, Zenon
<1>4. CASE i \in KeyFrames
  BY <1>1, <1>4 DEF KeyedRegions
<1>5. CASE i \notin KeyFrames
  <2>1. Before(i) = {} => After(i) # {}
    <3>1. PICK k \in KeyFrames : TRUE
      OBVIOUS
    <3>2. k < i \/ k > i
      BY <1>1, <1>5, <3>1
    <3> QED
      BY <3>1, <3>2, Zenon DEF Before, After
  <2>2. CASE Before(i) = {} \/ After(i) = {}
    BY <1>1, <1>2, <1>3, <1>5, <2>1, <2>2 DEF KeyedRegions, Before, After
  <2>3. CASE Before(i) # {} /\ After(i) # {}
    <3> DEFINE p == Max(Before(i))
               n == Min(After(i))
               prev == CHOOSE box \in Keyed(p) : TRUE
               next == CHOOSE box \in Keyed(n) : TRUE
               mixed == InPixels(interpolate_box(normalize_box(prev), normalize_box(next), i - p, n - p))
    <3>1. p \in KeyFrames /\ n \in KeyFrames /\ p < i /\ i < n
      BY <1>2, <1>3, <2>3, Zenon DEF Before, After
    <3>2. p \in Int /\ n \in Int /\ n - p \in Int /\ i - p \in Int /\ n - p > 0
      <4> HIDE DEF p, n
      <4> QED
        BY <1>1, <3>1
    <3>3. KeyedRegions(i) = {mixed} \/ KeyedRegions(i) = Keyed(p)
      BY <1>5, <2>3, Zenon DEF KeyedRegions
    <3>4. prev \in AnyBox /\ next \in AnyBox
      <4> HIDE DEF p, n
      <4>1. prev \in Keyed(p) /\ next \in Keyed(n)
        BY <1>1, <3>1, Zenon
      <4> QED
        BY <1>1, <3>1, <4>1, Zenon
    <3>5. mixed \in AnyBox
      <4> HIDE DEF p, n, prev, next
      <4>1. normalize_box(prev) \in AnyBox /\ normalize_box(next) \in AnyBox
        BY <3>4, BoxFits
      <4> QED
        BY <3>2, <4>1, MixedIsBox, Zenon
    <3> HIDE DEF p, n, prev, next, mixed
    <3> QED
      BY <1>1, <1>5, <3>1, <3>3, <3>5
  <2> QED
    BY <2>2, <2>3
<1> QED
  BY <1>4, <1>5

LEMMA PaintFrameKeeps ==
    ASSUME RmInv, PaintFrame
    PROVE  RmInv'
<1> USE RegionAssumption
<1> DEFINE areas == {normalize_box(box) : box \in request.global \cup KeyedRegions(frame)}
<1>1. request.media = "VIDEO" /\ request' = request /\ verdict = "working" /\ frame < Frames
  BY DEF PaintFrame, RmInv, RmTypeOK
<1>2. frame \in Nat /\ Frames \in Nat /\ frame \in 0..(Frames - 1) /\ frame + 1 \in 0..Frames
  BY <1>1 DEF RmInv, RmTypeOK
<1>3. request.global \subseteq AnyBox
  BY <1>1 DEF RmInv, RmTypeOK
<1>4. /\ KeyedRegions(frame) \subseteq AnyBox
      /\ KeyFrames # {} => KeyedRegions(frame) # {}
      /\ frame \in KeyFrames => KeyedRegions(frame) = Keyed(frame)
  <2>1. KeyFrames = {} => KeyedRegions(frame) = {}
    BY Zenon DEF KeyedRegions
  <2> QED
    BY <1>1, <1>2, <2>1, KeyedEverywhere DEF RmInv
<1>5. \A area \in areas : Visible(area)
  BY <1>3, <1>4, BoxFits
<1>6. (request.global # {} \/ KeyFrames # {}) => areas # {}
  BY <1>4
<1>7. frame \in KeyFrames => {normalize_box(box) : box \in Keyed(frame)} \subseteq areas
  BY <1>4
<1>8. \/ areas = {} /\ verdict' = "refused" /\ UNCHANGED <<frame, masks>>
      \/ /\ areas # {} /\ masks' = [masks EXCEPT ![frame] = areas] /\ frame' = frame + 1
         /\ verdict' = IF frame + 1 = Frames THEN "painted" ELSE "working"
  BY Zenon DEF PaintFrame
<1> HIDE DEF areas
<1>9. CASE areas = {}
  BY <1>1, <1>6, <1>8, <1>9, SameSplit DEF RmInv, RmTypeOK, EveryFrameMasked
<1>10. CASE areas # {}
  <2>1. /\ masks' = [masks EXCEPT ![frame] = areas] /\ frame' = frame + 1
        /\ verdict' = IF frame + 1 = Frames THEN "painted" ELSE "working"
    BY <1>8, <1>10
  <2>2. RmTypeOK'
    BY <1>1, <1>2, <2>1 DEF RmInv, RmTypeOK
  <2>3. /\ \A i \in 0..(Frames - 1) : i # frame => masks'[i] = masks[i]
        /\ masks'[frame] = areas
    BY <1>2, <2>1 DEF RmInv, RmTypeOK
  <2>4. ASSUME request.global # {} \/ KeyFrames # {}
        PROVE  /\ verdict' # "refused"
               /\ \A i \in 0..(frame' - 1) : masks'[i] # {} /\ \A area \in masks'[i] : Visible(area)
               /\ \A k \in KeyFrames : k < frame' =>
                      {normalize_box(box) : box \in Keyed(k)} \subseteq masks'[k]
    <3>1. /\ \A i \in 0..(frame - 1) : masks[i] # {} /\ \A area \in masks[i] : Visible(area)
          /\ \A k \in KeyFrames : k < frame =>
                 {normalize_box(box) : box \in Keyed(k)} \subseteq masks[k]
      BY <1>1, <2>4, Zenon DEF RmInv, EveryFrameMasked
    <3>2. \A i \in 0..(frame' - 1) : i = frame \/ (i \in 0..(frame - 1) /\ i \in 0..(Frames - 1) /\ i # frame)
      BY <1>2, <2>1
    <3>3. \A i \in 0..(frame' - 1) : masks'[i] # {} /\ \A area \in masks'[i] : Visible(area)
      BY <1>5, <1>10, <2>3, <3>1, <3>2
    <3>4. ASSUME NEW k \in KeyFrames, k < frame'
          PROVE  {normalize_box(box) : box \in Keyed(k)} \subseteq masks'[k]
      <4>1. k \in Int
        BY <1>1, SplitRegions DEF RmInv
      <4>2. k = frame \/ (k < frame /\ masks'[k] = masks[k])
        BY <1>2, <2>1, <2>3, <3>4, <4>1
      <4> QED
        BY <1>7, <2>3, <3>1, <3>4, <4>2, Zenon
    <3>5. verdict' # "refused"
      BY <2>1
    <3> QED
      BY <3>3, <3>4, <3>5
  <2> QED
    BY <1>1, <2>2, <2>4, SameSplit DEF RmInv, EveryFrameMasked, Visible
<1> QED
  BY <1>9, <1>10

LEMMA EveryRmStepKeeps ==
    ASSUME RmInv, [RmNext]_rmVars
    PROVE  RmInv'
<1>1. CASE PaintImage
  <2>1. request' = request /\ frame' = frame /\ request.media = "IMAGE" /\ DOMAIN masks' = DOMAIN masks
    BY <1>1 DEF PaintImage
  <2>2. verdict' # "working" /\ request.media # "VIDEO"
    BY <1>1 DEF PaintImage
  <2> QED
    BY <2>1, <2>2 DEF RmInv, RmTypeOK, EveryFrameMasked
<1>2. CASE PaintFrame
  BY <1>2, PaintFrameKeeps
<1>3. CASE UNCHANGED rmVars
  BY <1>3, SameSplit, Zenon DEF RmInv, RmTypeOK, EveryFrameMasked, rmVars
<1> QED
  BY <1>1, <1>2, <1>3 DEF RmNext

(* Whatever numbers mark a video, and wherever its key frames are, every   *)
(* frame gets a mask that is visible, and a key frame its own boxes.       *)
THEOREM EveryFrameIsMasked == RmSpec => []EveryFrameMasked
<1>1. RmInit => RmInv
  <2> SUFFICES ASSUME RmInit PROVE RmInv
    OBVIOUS
  <2>1. RmTypeOK
    BY RegionAssumption DEF RmInit, RmTypeOK
  <2>2. request.media = "VIDEO" => \A k \in KeyFrames : ~(k < frame)
    BY <2>1, SplitRegions DEF RmInit
  <2> QED
    BY <2>1, <2>2 DEF RmInit, RmInv, EveryFrameMasked
<1> QED
  BY <1>1, EveryRmStepKeeps, PTL DEF RmSpec, RmInv

-----------------------------------------------------------------------------
(* InferenceGateway.                                                       *)

(* What the results below are about: a pool of one slot, as it is by       *)
(* default, and one job for a document.                                    *)
OneSlot        == DocPool = 1
OneJobEach     == \A j, k \in Drivers : DrivesDoc[j] = DrivesDoc[k] => j = k

(* The status of a task for which a call is made. *)
StatusFor == [convert |-> "PREPROCESSING", render |-> "PREPROCESSING", inpaint |-> "INPAINTING", package |-> "PACKAGING"]

(* A job that waits has a call of its own, for its document. *)
CallsMatch ==
    \A j \in Drivers :
        /\ driver[j].pc # "calling" => driver[j].call = NoCall
        /\ driver[j].pc = "calling" =>
              /\ driver[j].call \in GatewayCalls /\ driver[j].op # "none"
              /\ handler[driver[j].call].pc # "free"
              /\ handler[driver[j].call].op = driver[j].op
              /\ handler[driver[j].call].doc = DrivesDoc[j]
        /\ \A k \in Drivers : driver[j].call = driver[k].call /\ driver[j].call # NoCall => j = k

(* Only a call that runs may have been given up. *)
GivenUpRuns ==
    \A c \in GatewayCalls :
        /\ handler[c].pc \in {"sweep", "queued", "done"} => \E j \in Drivers : driver[j].call = c
        /\ handler[c].pc # "done" => handler[c].answer = "none"
        /\ handler[c].pc = "free" \/ handler[c].op # "none"

(* The row of a task stays as its job has read it. *)
SeenIsCurrent ==
    \A j \in Drivers :
        /\ driver[j].pc = "calling" =>
              stage[DrivesDoc[j]] = driver[j].seen /\ driver[j].seen.status = StatusFor[driver[j].op]
        /\ driver[j].pc = "converted" =>
              stage[DrivesDoc[j]] = driver[j].seen /\ driver[j].seen.status = "PREPROCESSING"

OneRuns == \A c, e \in GatewayCalls : handler[c].pc = "running" /\ handler[e].pc = "running" => c = e

NoRaw(d) == \A p \in DocPages : workDir[d].page[p] # "raw"

(* What a call that runs has done, and what it may still meet. *)
RunsClean ==
    \A c \in GatewayCalls : handler[c].pc = "running" =>
        /\ handler[c].op = "render" => stage[handler[c].doc].status \in {"PREPROCESSING", "FAILED"}
        /\ handler[c].op = "inpaint" =>
              \A p \in DocPages \ handler[c].todo : workDir[handler[c].doc].page[p] # "raw"
        /\ handler[c].op = "package" =>
              NoRaw(handler[c].doc)

(* An answer that is on its way: nothing is left running for the document, *)
(* and a document that was inpainted has no raw page.                      *)
AnswersClean ==
    \A j \in Drivers : driver[j].pc = "calling" /\ handler[driver[j].call].answer = "ok" =>
        /\ \A c \in GatewayCalls : handler[c].pc = "running" => handler[c].doc # DrivesDoc[j]
        /\ driver[j].op = "inpaint" => NoRaw(DrivesDoc[j])

PackedClean == \A d \in DocTasks : stage[d].status \in {"PACKAGING", "SUCCEEDED"} => NoRaw(d)

GotClean == \A c \in GatewayCalls : \A p \in DocPages : handler[c].got[p] # "raw"

NothingRawDelivered == \A d \in DocTasks : \A p \in DocPages : delivered[d][p] # "raw"

GwInv == GwTypeOK /\ CallsMatch /\ GivenUpRuns /\ SeenIsCurrent /\ OneRuns
            /\ RunsClean /\ AnswersClean /\ PackedClean /\ GotClean /\ NothingRawDelivered

-----------------------------------------------------------------------------
(* Rows.                                                                   *)

LEMMA FreshRows ==
    /\ FreeHandler \in HandlerRow /\ IdleDriver \in DriverRow
    /\ FreeHandler.got = Blank /\ FreeHandler.pc = "free" /\ FreeHandler.op = "none" /\ FreeHandler.answer = "none"
    /\ IdleDriver.pc = "idle" /\ IdleDriver.op = "none" /\ IdleDriver.call = NoCall
<1>1. (CHOOSE d \in DocTasks : TRUE) \in DocTasks
  BY GatewayAssumption, Zenon
<1>2. Blank \in [DocPages -> Content]
  BY DEF Blank, Content
<1>3. FreeHandler \in HandlerRow
  BY <1>1, <1>2 DEF FreeHandler, HandlerRow, Op, Answer
<1> QED
  BY <1>3 DEF FreeHandler, IdleDriver, DriverRow, StageRow, DocStatus, Op

(* A call gets its answer, or is gone. *)
LEMMA AnsweredRow ==
    ASSUME GwTypeOK, NEW c \in GatewayCalls, NEW a \in Answer, GwAnswered(c, a)
    PROVE  /\ handler' \in [GatewayCalls -> HandlerRow]
           /\ \A e \in GatewayCalls : e # c => handler'[e] = handler[e]
           /\ \/ /\ \E j \in Drivers : driver[j].call = c
                 /\ handler'[c].pc = "done" /\ handler'[c].answer = a
                 /\ handler'[c].op = handler[c].op /\ handler'[c].doc = handler[c].doc /\ handler'[c].got = handler[c].got
              \/ /\ \A j \in Drivers : driver[j].call # c
                 /\ handler'[c].pc = "free" /\ handler'[c].answer = "none" /\ handler'[c].got = Blank
<1>1. handler \in [GatewayCalls -> HandlerRow]
  BY DEF GwTypeOK
<1>2. CASE \E j \in Drivers : driver[j].call = c
  <2>1. handler' = [handler EXCEPT ![c] = [@ EXCEPT !.pc = "done", !.answer = a]]
    BY <1>2, Zenon DEF GwAnswered
  <2>2. handler[c] \in HandlerRow
    BY <1>1
  <2> DEFINE h == [handler[c] EXCEPT !.pc = "done", !.answer = a]
  <2>3. h \in HandlerRow /\ h.pc = "done" /\ h.answer = a /\ h.op = handler[c].op /\ h.doc = handler[c].doc
            /\ h.got = handler[c].got
    BY <2>2 DEF HandlerRow
  <2>4. handler' = [handler EXCEPT ![c] = h]
    BY <2>1, Zenon
  <2> HIDE DEF h
  <2> QED
    BY <1>1, <1>2, <2>3, <2>4
<1>3. CASE ~ \E j \in Drivers : driver[j].call = c
  <2>1. handler' = [handler EXCEPT ![c] = FreeHandler]
    BY <1>3, Zenon DEF GwAnswered
  <2> QED
    BY <1>1, <1>3, <2>1, FreshRows
<1> QED
  BY <1>2, <1>3

-----------------------------------------------------------------------------
(* Steps of the gateway.                                                   *)

NoNewRaw == \A d \in DocTasks, p \in DocPages : workDir'[d].page[p] = "raw" => workDir[d].page[p] = "raw"

Control == CallsMatch /\ GivenUpRuns /\ SeenIsCurrent /\ OneRuns

(* A call moves on and keeps what it is about. *)
LEMMA CallMoves ==
    ASSUME GwInv, NEW c \in GatewayCalls, handler' \in [GatewayCalls -> HandlerRow],
           \A e \in GatewayCalls : e # c => handler'[e] = handler[e],
           handler'[c].op = handler[c].op, handler'[c].doc = handler[c].doc, handler'[c].answer = handler[c].answer,
           \/ handler'[c].pc = handler[c].pc
           \/ handler[c].pc = "sweep" /\ handler'[c].pc = "queued"
           \/ handler[c].pc = "queued" /\ handler'[c].pc = "running" /\ \A e \in GatewayCalls : handler[e].pc # "running",
           UNCHANGED <<stage, driver>>
    PROVE  Control'
<1>1. CallsMatch'
  BY DEF GwInv, CallsMatch
<1>2. GivenUpRuns'
  BY DEF GwInv, GivenUpRuns
<1>3. SeenIsCurrent'
  BY Zenon DEF GwInv, SeenIsCurrent
<1>4. OneRuns'
  BY DEF GwInv, OneRuns
<1> QED
  BY <1>1, <1>2, <1>3, <1>4, Zenon DEF Control

(* A call that has its answer. *)
LEMMA AnswerGiven ==
    ASSUME GwInv, NEW c \in GatewayCalls, NEW a \in Answer, a # "none",
           handler[c].pc \in {"queued", "running"}, GwAnswered(c, a), UNCHANGED <<stage, driver>>, NoNewRaw,
           a = "ok" => handler[c].pc = "running" /\ (handler[c].op = "inpaint" => NoRaw(handler[c].doc)),
           workDir' \in [DocTasks -> [converted : BOOLEAN, page : [DocPages -> Content], old : BOOLEAN]],
           delivered' \in [DocTasks -> [DocPages -> Content]], NothingRawDelivered',
           spent' \in [DOMAIN GatewayBudget -> Nat]
    PROVE  GwInv'
<1>1. /\ handler' \in [GatewayCalls -> HandlerRow]
      /\ \A e \in GatewayCalls : e # c => handler'[e] = handler[e]
      /\ \/ /\ \E j \in Drivers : driver[j].call = c
            /\ handler'[c].pc = "done" /\ handler'[c].answer = a
            /\ handler'[c].op = handler[c].op /\ handler'[c].doc = handler[c].doc /\ handler'[c].got = handler[c].got
         \/ /\ \A j \in Drivers : driver[j].call # c
            /\ handler'[c].pc = "free" /\ handler'[c].answer = "none" /\ handler'[c].got = Blank
  BY AnsweredRow DEF GwInv
<1>2. GwTypeOK'
  BY <1>1 DEF GwInv, GwTypeOK
<1>3. CallsMatch'
  BY <1>1 DEF GwInv, CallsMatch
<1>4. GivenUpRuns'
  BY <1>1 DEF GwInv, GivenUpRuns
<1>5. SeenIsCurrent'
  BY Zenon DEF GwInv, SeenIsCurrent
<1>6. OneRuns'
  BY <1>1 DEF GwInv, OneRuns
<1>7. \A d \in DocTasks : NoRaw(d) => NoRaw(d)'
  BY DEF NoRaw, NoNewRaw
<1>8. \A e \in GatewayCalls : handler'[e].pc = "running" => e # c /\ handler'[e] = handler[e]
  BY <1>1
<1>9. \A e \in GatewayCalls : handler[e].doc \in DocTasks
  BY DEF GwInv, GwTypeOK, HandlerRow
<1>10. RunsClean'
  <2> SUFFICES ASSUME NEW e \in GatewayCalls, handler'[e].pc = "running"
               PROVE  /\ handler'[e].op = "render" => stage'[handler'[e].doc].status \in {"PREPROCESSING", "FAILED"}
                      /\ handler'[e].op = "inpaint" =>
                            \A p \in DocPages \ handler'[e].todo : workDir'[handler'[e].doc].page[p] # "raw"
                      /\ handler'[e].op = "package" =>
                            /\ \A p \in DocPages : workDir'[handler'[e].doc].page[p] # "raw"
    BY DEF RunsClean, NoRaw
  <2>1. handler'[e] = handler[e] /\ handler[e].pc = "running" /\ handler[e].doc \in DocTasks /\ stage' = stage
    BY <1>8, <1>9
  <2>2. /\ handler[e].op = "render" => stage[handler[e].doc].status \in {"PREPROCESSING", "FAILED"}
        /\ handler[e].op = "inpaint" =>
              \A p \in DocPages \ handler[e].todo : workDir[handler[e].doc].page[p] # "raw"
        /\ handler[e].op = "package" =>
              /\ \A p \in DocPages : workDir[handler[e].doc].page[p] # "raw"
    BY <2>1, Zenon DEF GwInv, RunsClean, NoRaw
  <2>3. \A p \in DocPages : workDir[handler[e].doc].page[p] # "raw" => workDir'[handler[e].doc].page[p] # "raw"
    BY <2>1, Zenon DEF NoNewRaw
  <2> QED
    BY <2>1, <2>2, <2>3, Zenon
<1>11. AnswersClean'
  <2> SUFFICES ASSUME NEW j \in Drivers, driver[j].pc = "calling", handler'[driver[j].call].answer = "ok"
               PROVE  /\ \A e \in GatewayCalls : handler'[e].pc = "running" => handler'[e].doc # DrivesDoc[j]
                      /\ driver[j].op = "inpaint" => NoRaw(DrivesDoc[j])'
    BY DEF AnswersClean
  <2>1. driver[j].call \in GatewayCalls /\ handler[driver[j].call].doc = DrivesDoc[j]
            /\ handler[driver[j].call].op = driver[j].op /\ DrivesDoc[j] \in DocTasks
    BY GatewayAssumption DEF GwInv, CallsMatch
  <2>2. CASE driver[j].call # c
    BY <1>1, <1>7, <1>8, <2>1, <2>2 DEF GwInv, AnswersClean
  <2>3. CASE driver[j].call = c
    <3>1. handler[c].pc = "running" /\ (handler[c].op = "inpaint" => NoRaw(handler[c].doc))
      BY <1>1, <2>3
    <3>2. \A e \in GatewayCalls : handler'[e].pc # "running"
      BY <1>8, <3>1 DEF GwInv, OneRuns
    <3> QED
      BY <1>7, <2>1, <2>3, <3>1, <3>2
  <2> QED
    BY <2>2, <2>3
<1>12. PackedClean'
  BY <1>7 DEF GwInv, PackedClean
<1>13. GotClean'
  BY <1>1 DEF GwInv, GotClean, Blank
<1> QED
  BY <1>2, <1>3, <1>4, <1>5, <1>6, <1>10, <1>11, <1>12, <1>13 DEF GwInv

(* A call moves on and leaves no new raw page. *)
LEMMA CallMovesClean ==
    ASSUME GwInv, NEW c \in GatewayCalls, handler' \in [GatewayCalls -> HandlerRow],
           \A e \in GatewayCalls : e # c => handler'[e] = handler[e],
           handler'[c].op = handler[c].op, handler'[c].doc = handler[c].doc, handler'[c].answer = handler[c].answer,
           \/ handler'[c].pc = handler[c].pc
           \/ handler[c].pc = "sweep" /\ handler'[c].pc = "queued"
           \/ handler[c].pc = "queued" /\ handler'[c].pc = "running" /\ \A e \in GatewayCalls : handler[e].pc # "running",
           NoNewRaw, UNCHANGED <<stage, driver, delivered, spent>>,
           workDir' \in [DocTasks -> [converted : BOOLEAN, page : [DocPages -> Content], old : BOOLEAN]],
           handler'[c].pc = "running" =>
               /\ handler'[c].op = "render" => stage[handler'[c].doc].status \in {"PREPROCESSING", "FAILED"}
               /\ handler'[c].op = "inpaint" =>
                     \A p \in DocPages \ handler'[c].todo : workDir'[handler'[c].doc].page[p] # "raw"
               /\ handler'[c].op = "package" =>
                     \A p \in DocPages : workDir'[handler'[c].doc].page[p] # "raw",
           \A p \in DocPages : handler'[c].got[p] # "raw",
           handler[c].pc = "queued" /\ handler'[c].pc = "running" =>
               \A j \in Drivers : driver[j].pc = "calling" /\ handler[driver[j].call].answer = "ok" =>
                   handler[c].doc # DrivesDoc[j]
    PROVE  GwInv'
<1>1. Control'
  BY CallMoves, Zenon
<1>2. GwTypeOK'
  BY DEF GwInv, GwTypeOK
<1>3. \A d \in DocTasks : NoRaw(d) => NoRaw(d)'
  BY DEF NoRaw, NoNewRaw
<1>4. \A e \in GatewayCalls : handler[e].doc \in DocTasks
  BY DEF GwInv, GwTypeOK, HandlerRow
<1>5. RunsClean'
  <2> SUFFICES ASSUME NEW e \in GatewayCalls, handler'[e].pc = "running"
               PROVE  /\ handler'[e].op = "render" => stage'[handler'[e].doc].status \in {"PREPROCESSING", "FAILED"}
                      /\ handler'[e].op = "inpaint" =>
                            \A p \in DocPages \ handler'[e].todo : workDir'[handler'[e].doc].page[p] # "raw"
                      /\ handler'[e].op = "package" =>
                            /\ \A p \in DocPages : workDir'[handler'[e].doc].page[p] # "raw"
    BY DEF RunsClean, NoRaw
  <2>1. CASE e = c
    BY <1>4, <2>1 DEF NoNewRaw, NoRaw
  <2>2. CASE e # c
    <3>1. handler'[e] = handler[e] /\ handler[e].pc = "running" /\ handler[e].doc \in DocTasks /\ stage' = stage
      BY <1>4, <2>2
    <3>2. /\ handler[e].op = "render" => stage[handler[e].doc].status \in {"PREPROCESSING", "FAILED"}
          /\ handler[e].op = "inpaint" =>
                \A p \in DocPages \ handler[e].todo : workDir[handler[e].doc].page[p] # "raw"
          /\ handler[e].op = "package" =>
                /\ \A p \in DocPages : workDir[handler[e].doc].page[p] # "raw"
      BY <3>1, Zenon DEF GwInv, RunsClean, NoRaw
    <3>3. \A p \in DocPages : workDir[handler[e].doc].page[p] # "raw" => workDir'[handler[e].doc].page[p] # "raw"
      BY <3>1, Zenon DEF NoNewRaw
    <3> QED
      BY <3>1, <3>2, <3>3, Zenon
  <2> QED
    BY <2>1, <2>2
<1>6. AnswersClean'
  <2> SUFFICES ASSUME NEW j \in Drivers, driver[j].pc = "calling", handler'[driver[j].call].answer = "ok"
               PROVE  /\ \A e \in GatewayCalls : handler'[e].pc = "running" => handler'[e].doc # DrivesDoc[j]
                      /\ driver[j].op = "inpaint" => NoRaw(DrivesDoc[j])'
    BY DEF AnswersClean
  <2>1. driver[j].call \in GatewayCalls /\ DrivesDoc[j] \in DocTasks
    BY GatewayAssumption DEF GwInv, CallsMatch
  <2>2. handler[driver[j].call].answer = "ok"
    BY <2>1
  <2>3. /\ \A e \in GatewayCalls : handler[e].pc = "running" => handler[e].doc # DrivesDoc[j]
        /\ driver[j].op = "inpaint" => NoRaw(DrivesDoc[j])
    BY <2>2 DEF GwInv, AnswersClean
  <2> QED
    BY <1>3, <2>1, <2>2, <2>3
<1>7. PackedClean' /\ NothingRawDelivered' /\ GotClean'
  BY <1>3 DEF GwInv, PackedClean, NothingRawDelivered, GotClean
<1> QED
  BY <1>1, <1>2, <1>5, <1>6, <1>7 DEF GwInv, Control

(* Something happens to the directories only. *)
LEMMA DirMoves ==
    ASSUME GwInv, UNCHANGED <<stage, driver, handler, delivered>>, NoNewRaw,
           workDir' \in [DocTasks -> [converted : BOOLEAN, page : [DocPages -> Content], old : BOOLEAN]],
           spent' \in [DOMAIN GatewayBudget -> Nat]
    PROVE  GwInv'
<1>1. GwTypeOK'
  BY DEF GwInv, GwTypeOK
<1>2. CallsMatch' /\ GivenUpRuns' /\ SeenIsCurrent' /\ OneRuns'
  <2>1. CallsMatch /\ GivenUpRuns /\ SeenIsCurrent /\ OneRuns
    BY Zenon DEF GwInv
  <2>2. stage' = stage /\ driver' = driver /\ handler' = handler
    OBVIOUS
  <2>3. CallsMatch' /\ OneRuns'
    BY ONLY <2>1, <2>2 DEF CallsMatch, OneRuns
  <2>4. GivenUpRuns' /\ SeenIsCurrent'
    BY ONLY <2>1, <2>2 DEF GivenUpRuns, SeenIsCurrent
  <2> QED
    BY <2>3, <2>4
<1>3. \A d \in DocTasks : NoRaw(d) => NoRaw(d)'
  BY DEF NoRaw, NoNewRaw
<1>4. \A c \in GatewayCalls : handler[c].doc \in DocTasks
  BY DEF GwInv, GwTypeOK, HandlerRow
<1>5. RunsClean'
  <2> SUFFICES ASSUME NEW e \in GatewayCalls, handler[e].pc = "running"
               PROVE  /\ handler[e].op = "render" => stage[handler[e].doc].status \in {"PREPROCESSING", "FAILED"}
                      /\ handler[e].op = "inpaint" =>
                            \A p \in DocPages \ handler[e].todo : workDir'[handler[e].doc].page[p] # "raw"
                      /\ handler[e].op = "package" =>
                            /\ \A p \in DocPages : workDir'[handler[e].doc].page[p] # "raw"
    BY DEF RunsClean, NoRaw
  <2>1. /\ handler[e].op = "render" => stage[handler[e].doc].status \in {"PREPROCESSING", "FAILED"}
        /\ handler[e].op = "inpaint" =>
              \A p \in DocPages \ handler[e].todo : workDir[handler[e].doc].page[p] # "raw"
        /\ handler[e].op = "package" =>
              /\ \A p \in DocPages : workDir[handler[e].doc].page[p] # "raw"
    BY Zenon DEF GwInv, RunsClean, NoRaw
  <2>2. \A p \in DocPages : workDir[handler[e].doc].page[p] # "raw" => workDir'[handler[e].doc].page[p] # "raw"
    BY <1>4, Zenon DEF NoNewRaw
  <2> QED
    BY <2>1, <2>2, Zenon
<1>6. AnswersClean'
  <2>1. \A j \in Drivers : DrivesDoc[j] \in DocTasks
    BY GatewayAssumption
  <2> QED
    BY <1>3, <2>1 DEF GwInv, AnswersClean
<1>7. PackedClean' /\ NothingRawDelivered' /\ GotClean'
  BY <1>3 DEF GwInv, PackedClean, NothingRawDelivered, GotClean
<1> QED
  BY <1>1, <1>2, <1>5, <1>6, <1>7 DEF GwInv

LEMMA SpentTyped ==
    ASSUME GwTypeOK, NEW k \in DOMAIN GatewayBudget, SpendBudget(k)
    PROVE  spent' \in [DOMAIN GatewayBudget -> Nat]
BY DEF GwTypeOK, SpendBudget

LEMMA BudgetKinds == DOMAIN GatewayBudget = {"timeout", "crash", "failure", "aging", "rerun"}
BY GatewayAssumption

LEMMA GrowsOldKeeps ==
    ASSUME GwInv, NEW d \in DocTasks, GrowsOld(d)
    PROVE  GwInv'
<1>1. workDir' = [workDir EXCEPT ![d].old = TRUE] /\ UNCHANGED <<stage, driver, handler, delivered>>
  BY DEF GrowsOld
<1>2. spent' \in [DOMAIN GatewayBudget -> Nat]
  BY SpentTyped, BudgetKinds DEF GrowsOld, GwInv
<1>3. workDir' \in [DocTasks -> [converted : BOOLEAN, page : [DocPages -> Content], old : BOOLEAN]] /\ NoNewRaw
  BY <1>1 DEF GwInv, GwTypeOK, NoNewRaw
<1> QED
  BY <1>1, <1>2, <1>3, DirMoves

(* A thread that sweeps, and the directories under it. *)
LEMMA SweeperMoves ==
    ASSUME GwInv, NEW c \in GatewayCalls, handler[c].pc = "sweep",
           \/ \E d \in handler[c].sweep : SweepDir(c, d)
           \/ \E x \in handler[c].list : Unlink(c, x)
           \/ Swept(c)
    PROVE  GwInv'
<1>1. /\ handler \in [GatewayCalls -> HandlerRow] /\ handler[c] \in HandlerRow
      /\ workDir \in [DocTasks -> [converted : BOOLEAN, page : [DocPages -> Content], old : BOOLEAN]]
  BY DEF GwInv, GwTypeOK
<1>5. \A p \in DocPages : handler[c].got[p] # "raw"
  BY DEF GwInv, GotClean
<1>2. ASSUME NEW d \in handler[c].sweep, SweepDir(c, d)
      PROVE  GwInv'
  <2>1. d \in DocTasks
    BY <1>1 DEF HandlerRow
  <2> DEFINE h == [handler[c] EXCEPT !.sweep = @ \ {d}, !.list = {<<d, i>> : i \in Items(d)}]
  <2>2. handler' = [handler EXCEPT ![c] = h]
    BY <1>1, <1>2, Zenon DEF SweepDir
  <2>3. {<<d, i>> : i \in Items(d)} \in SUBSET (DocTasks \X (DocPages \cup {ThePdf}))
    BY <2>1 DEF Items, Present
  <2>4. h \in HandlerRow /\ h.op = handler[c].op /\ h.doc = handler[c].doc /\ h.answer = handler[c].answer /\ h.got = handler[c].got /\ h.pc = "sweep"
    BY <1>1, <2>3 DEF HandlerRow
  <2> HIDE DEF h
  <2>5. workDir' = [workDir EXCEPT ![d].old = FALSE] /\ UNCHANGED <<stage, driver, delivered, spent>>
    BY <1>2 DEF SweepDir
  <2>6. workDir' \in [DocTasks -> [converted : BOOLEAN, page : [DocPages -> Content], old : BOOLEAN]] /\ NoNewRaw
    BY <1>1, <2>1, <2>5 DEF NoNewRaw
  <2>7. handler' \in [GatewayCalls -> HandlerRow] /\ handler'[c] = h /\ \A e \in GatewayCalls : e # c => handler'[e] = handler[e]
    BY <1>1, <2>2, <2>4
  <2>8. \A p \in DocPages : handler'[c].got[p] # "raw"
    BY <1>5, <2>4, <2>7
  <2>9. handler'[c].op = handler[c].op /\ handler'[c].doc = handler[c].doc /\ handler'[c].answer = handler[c].answer
            /\ handler'[c].pc = "sweep"
    BY <2>4, <2>7
  <2> QED
    BY <2>5, <2>6, <2>7, <2>8, <2>9, CallMovesClean
<1>3. ASSUME NEW x \in handler[c].list, Unlink(c, x)
      PROVE  GwInv'
  <2>1. x \in DocTasks \X (DocPages \cup {ThePdf})
    BY <1>1 DEF HandlerRow
  <2>2. x[1] \in DocTasks /\ x[2] \in DocPages \cup {ThePdf}
    BY <2>1
  <2> DEFINE h == [handler[c] EXCEPT !.list = @ \ {x}]
  <2>3. handler' = [handler EXCEPT ![c] = h]
    BY <1>1, <1>3, Zenon DEF Unlink
  <2>4. h \in HandlerRow /\ h.op = handler[c].op /\ h.doc = handler[c].doc /\ h.answer = handler[c].answer /\ h.got = handler[c].got /\ h.pc = "sweep"
    BY <1>1 DEF HandlerRow
  <2> HIDE DEF h
  <2>5. /\ workDir' = IF x[2] = ThePdf THEN [workDir EXCEPT ![x[1]].converted = FALSE]
                      ELSE [workDir EXCEPT ![x[1]].page[x[2]] = "none"]
        /\ UNCHANGED <<stage, driver, delivered, spent>>
    BY <1>3 DEF Unlink
  <2>6. workDir' \in [DocTasks -> [converted : BOOLEAN, page : [DocPages -> Content], old : BOOLEAN]] /\ NoNewRaw
    <3>1. CASE x[2] = ThePdf
      BY <1>1, <2>2, <2>5, <3>1 DEF NoNewRaw
    <3>2. CASE x[2] # ThePdf
      <4>1. workDir' = [workDir EXCEPT ![x[1]].page[x[2]] = "none"] /\ x[2] \in DocPages
        BY <2>2, <2>5, <3>2
      <4>2. \A d \in DocTasks, p \in DocPages :
               workDir'[d].page[p] = IF d = x[1] /\ p = x[2] THEN "none" ELSE workDir[d].page[p]
        BY <1>1, <2>2, <4>1
      <4>3. NoNewRaw
        BY <4>2 DEF NoNewRaw
      <4>4. workDir' \in [DocTasks -> [converted : BOOLEAN, page : [DocPages -> Content], old : BOOLEAN]]
        BY <1>1, <2>2, <4>1 DEF Content
      <4> QED
        BY <4>3, <4>4
    <3> QED
      BY <3>1, <3>2
  <2>7. handler' \in [GatewayCalls -> HandlerRow] /\ handler'[c] = h /\ \A e \in GatewayCalls : e # c => handler'[e] = handler[e]
    BY <1>1, <2>3, <2>4
  <2>8. \A p \in DocPages : handler'[c].got[p] # "raw"
    BY <1>5, <2>4, <2>7
  <2>9. handler'[c].op = handler[c].op /\ handler'[c].doc = handler[c].doc /\ handler'[c].answer = handler[c].answer
            /\ handler'[c].pc = "sweep"
    BY <2>4, <2>7
  <2> QED
    BY <2>5, <2>6, <2>7, <2>8, <2>9, CallMovesClean
<1>4. ASSUME Swept(c)
      PROVE  GwInv'
  <2> DEFINE h == [handler[c] EXCEPT !.pc = "queued"]
  <2>1. handler' = [handler EXCEPT ![c] = h] /\ UNCHANGED <<stage, driver, workDir, delivered, spent>>
    BY <1>1, <1>4, Zenon DEF Swept
  <2>2. h \in HandlerRow /\ h.op = handler[c].op /\ h.doc = handler[c].doc /\ h.answer = handler[c].answer /\ h.got = handler[c].got /\ h.pc = "queued"
    BY <1>1 DEF HandlerRow
  <2> HIDE DEF h
  <2>3. handler' \in [GatewayCalls -> HandlerRow] /\ handler'[c] = h /\ \A e \in GatewayCalls : e # c => handler'[e] = handler[e]
    BY <1>1, <2>1, <2>2
  <2>4. NoNewRaw /\ workDir' \in [DocTasks -> [converted : BOOLEAN, page : [DocPages -> Content], old : BOOLEAN]]
    BY <1>1, <2>1 DEF NoNewRaw
  <2> QED
    BY <1>5, <2>1, <2>2, <2>3, <2>4, CallMovesClean
<1> QED
  BY <1>2, <1>3, <1>4

(* With one slot, whoever takes it is alone. *)
LEMMA AloneInSlot ==
    ASSUME OneSlot, SlotFree
    PROVE  \A c \in GatewayCalls : handler[c].pc # "running"
<1>1. Running \subseteq GatewayCalls /\ IsFiniteSet(GatewayCalls)
  BY GatewayAssumption DEF Running
<1>2. IsFiniteSet(Running) /\ Cardinality(Running) \in Nat
  BY <1>1, FS_Subset, FS_CardinalityType
<1>3. Cardinality(Running) < 1
  BY Zenon DEF SlotFree, OneSlot
<1>4. Cardinality(Running) = 0
  BY <1>2, <1>3
<1>5. Running = {}
  BY <1>2, <1>4, FS_EmptySet
<1> QED
  BY <1>5 DEF Running

(* Who waits for a slot has a job that is up to date. *)
LEMMA QueuedIsCurrent ==
    ASSUME GwInv, OneJobEach, NEW c \in GatewayCalls, handler[c].pc = "queued"
    PROVE  /\ handler[c].op \in {"convert", "render", "inpaint", "package"}
           /\ stage[handler[c].doc].status = StatusFor[handler[c].op]
           /\ \A j \in Drivers : driver[j].pc = "calling" /\ handler[driver[j].call].answer = "ok" =>
                  handler[c].doc # DrivesDoc[j]
<1>1. PICK j \in Drivers : driver[j].call = c
  BY DEF GwInv, GivenUpRuns
<1>2. driver[j] \in DriverRow /\ c # NoCall
  BY GatewayAssumption DEF GwInv, GwTypeOK
<1>3. driver[j].pc = "calling"
  BY <1>1, <1>2 DEF GwInv, CallsMatch
<1>4. driver[j].op # "none" /\ handler[c].op = driver[j].op /\ handler[c].doc = DrivesDoc[j] /\ handler[c].answer = "none"
  BY <1>1, <1>3 DEF GwInv, CallsMatch, GivenUpRuns
<1>5. stage[DrivesDoc[j]].status = StatusFor[driver[j].op]
  BY <1>3 DEF GwInv, SeenIsCurrent
<1>6. handler[c].op \in {"convert", "render", "inpaint", "package"}
  BY <1>2, <1>4 DEF DriverRow, Op
<1>7. ASSUME NEW k \in Drivers, driver[k].pc = "calling", handler[driver[k].call].answer = "ok", handler[c].doc = DrivesDoc[k]
      PROVE  FALSE
  BY <1>1, <1>4, <1>7 DEF OneJobEach
<1> QED
  BY <1>4, <1>5, <1>6, <1>7

LEMMA TakeSlotKeeps ==
    ASSUME GwInv, OneSlot, OneJobEach, NEW c \in GatewayCalls, TakeSlot(c)
    PROVE  GwInv'
<1>1. /\ handler \in [GatewayCalls -> HandlerRow] /\ handler[c] \in HandlerRow
      /\ workDir \in [DocTasks -> [converted : BOOLEAN, page : [DocPages -> Content], old : BOOLEAN]]
      /\ handler[c].doc \in DocTasks
  BY DEF GwInv, GwTypeOK, HandlerRow
<1>2. handler[c].pc = "queued" /\ SlotFree
  BY DEF TakeSlot
<1>3. /\ UNCHANGED <<stage, driver, delivered, spent>>
      /\ workDir' = IF handler[c].op = "convert" THEN [workDir EXCEPT ![handler[c].doc].converted = FALSE] ELSE workDir
  BY DEF TakeSlot
<1>4. workDir' \in [DocTasks -> [converted : BOOLEAN, page : [DocPages -> Content], old : BOOLEAN]] /\ NoNewRaw
      /\ \A d \in DocTasks : workDir'[d].page = workDir[d].page
  BY <1>1, <1>3 DEF NoNewRaw
<1>5. CASE GwAccepted(handler[c].op, handler[c].doc)
  <2> DEFINE h == [handler[c] EXCEPT !.pc = "running", !.todo = Worklist(handler[c].op, handler[c].doc)]
  <2>1. handler' = [handler EXCEPT ![c] = h]
    BY <1>1, <1>5, Zenon DEF TakeSlot
  <2>2. Worklist(handler[c].op, handler[c].doc) \in SUBSET DocPages
    <3>1. Worklist(handler[c].op, handler[c].doc) \in {{}, DocPages, Present(handler[c].doc)}
      BY Zenon DEF Worklist
    <3> QED
      BY <3>1 DEF Present
  <2>3. h \in HandlerRow /\ h.op = handler[c].op /\ h.doc = handler[c].doc /\ h.answer = handler[c].answer
            /\ h.got = handler[c].got /\ h.pc = "running" /\ h.todo = Worklist(handler[c].op, handler[c].doc)
    BY <1>1, <2>2 DEF HandlerRow
  <2> HIDE DEF h
  <2>4. handler' \in [GatewayCalls -> HandlerRow] /\ handler'[c] = h /\ \A e \in GatewayCalls : e # c => handler'[e] = handler[e]
    BY <1>1, <2>1, <2>3
  <2>5. \A p \in DocPages : handler'[c].got[p] # "raw"
    BY <2>3, <2>4 DEF GwInv, GotClean
  <2>6. /\ handler[c].op \in {"convert", "render", "inpaint", "package"}
        /\ stage[handler[c].doc].status = StatusFor[handler[c].op]
        /\ \A j \in Drivers : driver[j].pc = "calling" /\ handler[driver[j].call].answer = "ok" =>
               handler[c].doc # DrivesDoc[j]
    BY <1>2, QueuedIsCurrent
  <2>7. handler[c].op = "render" => stage[handler[c].doc].status = "PREPROCESSING"
    BY <2>6 DEF StatusFor
  <2>8. handler[c].op = "inpaint" =>
            \A p \in DocPages \ h.todo : workDir'[handler[c].doc].page[p] # "raw"
    <3>1. handler[c].op = "inpaint" => Worklist(handler[c].op, handler[c].doc) = Present(handler[c].doc)
      BY Zenon DEF Worklist
    <3> QED
      BY <1>1, <1>4, <2>3, <3>1 DEF Present
  <2>9. handler[c].op = "package" => \A p \in DocPages : workDir'[handler[c].doc].page[p] # "raw"
    BY <1>1, <1>4, <2>6 DEF StatusFor, GwInv, PackedClean, NoRaw
  <2>10. \A e \in GatewayCalls : handler[e].pc # "running"
    BY <1>2, AloneInSlot
  <2>11. handler'[c].op = handler[c].op /\ handler'[c].doc = handler[c].doc /\ handler'[c].answer = handler[c].answer
            /\ handler'[c].pc = "running" /\ handler'[c].todo = h.todo
    BY <2>3, <2>4
  <2>12. /\ handler'[c].op = "render" => stage[handler'[c].doc].status \in {"PREPROCESSING", "FAILED"}
         /\ handler'[c].op = "inpaint" =>
               \A p \in DocPages \ handler'[c].todo : workDir'[handler'[c].doc].page[p] # "raw"
         /\ handler'[c].op = "package" => \A p \in DocPages : workDir'[handler'[c].doc].page[p] # "raw"
    BY <2>7, <2>8, <2>9, <2>11
  <2> QED
    BY <1>2, <1>3, <1>4, <2>4, <2>5, <2>6, <2>10, <2>11, <2>12, CallMovesClean
<1>6. CASE ~GwAccepted(handler[c].op, handler[c].doc)
  <2>1. GwAnswered(c, "refused")
    BY <1>6, Zenon DEF TakeSlot
  <2>2. delivered' \in [DocTasks -> [DocPages -> Content]] /\ NothingRawDelivered' /\ spent' \in [DOMAIN GatewayBudget -> Nat]
    BY <1>3 DEF GwInv, GwTypeOK, NothingRawDelivered
  <2>3. "refused" \in Answer /\ "refused" # "none" /\ "refused" # "ok"
    BY DEF Answer
  <2> QED
    BY <1>2, <1>3, <1>4, <2>1, <2>2, <2>3, AnswerGiven
<1> QED
  BY <1>5, <1>6

(* A call fails, or finds the pool full. *)
LEMMA RefusalKeeps ==
    ASSUME GwInv, NEW c \in GatewayCalls, NEW a \in {"refused", "busy", "failed"},
           handler[c].pc \in {"queued", "running"}, GwAnswered(c, a),
           UNCHANGED <<stage, driver, workDir, delivered>>, spent' \in [DOMAIN GatewayBudget -> Nat]
    PROVE  GwInv'
<1>1. a \in Answer /\ a # "none" /\ a # "ok"
  BY DEF Answer
<1>2. /\ workDir' \in [DocTasks -> [converted : BOOLEAN, page : [DocPages -> Content], old : BOOLEAN]]
      /\ delivered' \in [DocTasks -> [DocPages -> Content]] /\ NothingRawDelivered' /\ NoNewRaw
  BY DEF GwInv, GwTypeOK, NothingRawDelivered, NoNewRaw
<1> QED
  BY <1>1, <1>2, AnswerGiven

LEMMA QueueBusyKeeps ==
    ASSUME GwInv, NEW c \in GatewayCalls, QueueBusy(c)
    PROVE  GwInv'
<1>1. spent' \in [DOMAIN GatewayBudget -> Nat]
  BY DEF QueueBusy, GwInv, GwTypeOK
<1> QED
  BY <1>1, RefusalKeeps DEF QueueBusy

LEMMA RunFailsKeeps ==
    ASSUME GwInv, NEW c \in GatewayCalls, RunFails(c)
    PROVE  GwInv'
<1>1. PICK a \in {"failed", "refused"} : GwAnswered(c, a)
  BY DEF RunFails
<1>2. spent' \in [DOMAIN GatewayBudget -> Nat]
  BY SpentTyped, BudgetKinds DEF RunFails, GwInv
<1> QED
  BY <1>1, <1>2, RefusalKeeps DEF RunFails

LEMMA FinishKeeps ==
    ASSUME GwInv, NEW c \in GatewayCalls, Finish(c)
    PROVE  GwInv'
<1>1. /\ handler[c] \in HandlerRow /\ handler[c].doc \in DocTasks
      /\ workDir \in [DocTasks -> [converted : BOOLEAN, page : [DocPages -> Content], old : BOOLEAN]]
      /\ delivered \in [DocTasks -> [DocPages -> Content]] /\ handler[c].got \in [DocPages -> Content]
  BY DEF GwInv, GwTypeOK, HandlerRow
<1>2. /\ handler[c].pc = "running" /\ handler[c].todo = {} /\ UNCHANGED <<stage, driver, spent>>
      /\ workDir' = IF handler[c].op = "convert" THEN [workDir EXCEPT ![handler[c].doc].converted = TRUE] ELSE workDir
      /\ delivered' = IF handler[c].op = "package" THEN [delivered EXCEPT ![handler[c].doc] = handler[c].got] ELSE delivered
  BY DEF Finish
<1>3. PICK a \in {"refused", "ok"} : GwAnswered(c, a)
  BY Zenon DEF Finish
<1>4. workDir' \in [DocTasks -> [converted : BOOLEAN, page : [DocPages -> Content], old : BOOLEAN]] /\ NoNewRaw
  BY <1>1, <1>2 DEF NoNewRaw
<1>5. delivered' \in [DocTasks -> [DocPages -> Content]] /\ NothingRawDelivered'
  BY <1>1, <1>2 DEF GwInv, GotClean, NothingRawDelivered
<1>6. handler[c].op = "inpaint" => NoRaw(handler[c].doc)
  BY <1>2 DEF GwInv, RunsClean, NoRaw
<1>7. a \in Answer /\ a # "none" /\ spent' \in [DOMAIN GatewayBudget -> Nat]
  BY <1>2 DEF Answer, GwInv, GwTypeOK
<1> QED
  BY <1>2, <1>3, <1>4, <1>5, <1>6, <1>7, AnswerGiven

LEMMA PackPageKeeps ==
    ASSUME GwInv, NEW c \in GatewayCalls, NEW p \in DocPages, PackPage(c, p)
    PROVE  GwInv'
<1>1. /\ handler \in [GatewayCalls -> HandlerRow] /\ handler[c] \in HandlerRow /\ handler[c].doc \in DocTasks
      /\ workDir \in [DocTasks -> [converted : BOOLEAN, page : [DocPages -> Content], old : BOOLEAN]]
  BY DEF GwInv, GwTypeOK, HandlerRow
<1> DEFINE content == workDir[handler[c].doc].page[p]
<1>2. content \in Content
  BY <1>1
<1>3. handler[c].pc = "running" /\ handler[c].op = "package" /\ UNCHANGED <<stage, driver, workDir, delivered, spent>>
  BY DEF PackPage
<1>4. NoRaw(handler[c].doc)
  BY <1>3 DEF GwInv, RunsClean
<1>5. content # "raw"
  BY <1>4 DEF NoRaw
<1>6. CASE content = "none"
  <2>1. GwAnswered(c, "failed")
    BY <1>6, Zenon DEF PackPage
  <2>2. spent' \in [DOMAIN GatewayBudget -> Nat]
    BY <1>3 DEF GwInv, GwTypeOK
  <2> QED
    BY <1>3, <2>1, <2>2, RefusalKeeps
<1>7. CASE content # "none"
  <2> DEFINE h == [handler[c] EXCEPT !.todo = @ \ {p}, !.got = [@ EXCEPT ![p] = content]]
  <2>1. handler' = [handler EXCEPT ![c] = h]
    <3>1. handler' = [handler EXCEPT ![c].todo = @ \ {p}, ![c].got[p] = content]
      BY <1>7, Zenon DEF PackPage
    <3> HIDE DEF content
    <3> QED
      BY <1>1, <3>1
  <2> HIDE DEF content
  <2>2. h \in HandlerRow /\ h.op = handler[c].op /\ h.doc = handler[c].doc /\ h.answer = handler[c].answer /\ h.pc = handler[c].pc
            /\ h.got = [handler[c].got EXCEPT ![p] = content]
    BY <1>1, <1>2 DEF HandlerRow
  <2>3. \A q \in DocPages : h.got[q] # "raw"
    BY <1>1, <1>5, <2>2 DEF GwInv, GotClean, HandlerRow
  <2> HIDE DEF h
  <2>4. handler' \in [GatewayCalls -> HandlerRow] /\ handler'[c] = h /\ \A e \in GatewayCalls : e # c => handler'[e] = handler[e]
    BY <1>1, <2>1, <2>2
  <2>5. NoNewRaw /\ workDir' \in [DocTasks -> [converted : BOOLEAN, page : [DocPages -> Content], old : BOOLEAN]]
    BY <1>1, <1>3 DEF NoNewRaw
  <2>6. \A q \in DocPages : workDir'[handler'[c].doc].page[q] # "raw"
    BY <1>3, <1>4, <2>2, <2>4 DEF NoRaw
  <2>7. /\ handler'[c].op = "package" /\ handler'[c].doc = handler[c].doc /\ handler'[c].answer = handler[c].answer
        /\ handler'[c].pc = "running" /\ \A q \in DocPages : handler'[c].got[q] # "raw"
    BY <1>3, <2>2, <2>3, <2>4
  <2> QED
    BY <1>3, <2>4, <2>5, <2>6, <2>7, CallMovesClean
<1> QED
  BY <1>6, <1>7

(* What PageWritten does to the call and its directory. *)
LEMMA WrittenRow ==
    ASSUME GwTypeOK, NEW c \in GatewayCalls, NEW p \in DocPages, NEW content \in Content, PageWritten(c, p, content)
    PROVE  /\ handler' \in [GatewayCalls -> HandlerRow] /\ \A e \in GatewayCalls : e # c => handler'[e] = handler[e]
           /\ handler'[c].pc = handler[c].pc /\ handler'[c].op = handler[c].op /\ handler'[c].doc = handler[c].doc
           /\ handler'[c].answer = handler[c].answer /\ handler'[c].got = handler[c].got
           /\ handler'[c].todo = handler[c].todo \ {p}
           /\ workDir' \in [DocTasks -> [converted : BOOLEAN, page : [DocPages -> Content], old : BOOLEAN]]
           /\ \A d \in DocTasks, q \in DocPages :
                  workDir'[d].page[q] = IF d = handler[c].doc /\ q = p THEN content ELSE workDir[d].page[q]
<1>1. /\ handler \in [GatewayCalls -> HandlerRow] /\ handler[c] \in HandlerRow /\ handler[c].doc \in DocTasks
      /\ workDir \in [DocTasks -> [converted : BOOLEAN, page : [DocPages -> Content], old : BOOLEAN]]
  BY DEF GwTypeOK, HandlerRow
<1> DEFINE h == [handler[c] EXCEPT !.todo = @ \ {p}]
<1>2. handler' = [handler EXCEPT ![c] = h]
  BY <1>1, Zenon DEF PageWritten
<1>3. h \in HandlerRow /\ h.op = handler[c].op /\ h.doc = handler[c].doc /\ h.answer = handler[c].answer
          /\ h.pc = handler[c].pc /\ h.got = handler[c].got /\ h.todo = handler[c].todo \ {p}
  BY <1>1 DEF HandlerRow
<1> HIDE DEF h
<1>4. workDir' = [workDir EXCEPT ![handler[c].doc].page[p] = content]
  BY DEF PageWritten
<1>5. workDir' \in [DocTasks -> [converted : BOOLEAN, page : [DocPages -> Content], old : BOOLEAN]]
  BY <1>1, <1>4
<1>6. \A d \in DocTasks, q \in DocPages :
          workDir'[d].page[q] = IF d = handler[c].doc /\ q = p THEN content ELSE workDir[d].page[q]
  BY <1>1, <1>4
<1> QED
  BY <1>1, <1>2, <1>3, <1>5, <1>6

LEMMA RenderPageKeeps ==
    ASSUME GwInv, NEW c \in GatewayCalls, NEW p \in DocPages, RenderPage(c, p)
    PROVE  GwInv'
<1>1. handler[c].pc = "running" /\ handler[c].op = "render" /\ PageWritten(c, p, "raw")
          /\ UNCHANGED <<stage, driver, delivered, spent>>
  BY DEF RenderPage
<1>2. /\ handler' \in [GatewayCalls -> HandlerRow] /\ \A e \in GatewayCalls : e # c => handler'[e] = handler[e]
      /\ handler'[c].pc = handler[c].pc /\ handler'[c].op = handler[c].op /\ handler'[c].doc = handler[c].doc
      /\ handler'[c].answer = handler[c].answer /\ handler'[c].got = handler[c].got
      /\ workDir' \in [DocTasks -> [converted : BOOLEAN, page : [DocPages -> Content], old : BOOLEAN]]
      /\ \A d \in DocTasks, q \in DocPages :
             workDir'[d].page[q] = IF d = handler[c].doc /\ q = p THEN "raw" ELSE workDir[d].page[q]
  <2>1. "raw" \in Content
    BY DEF Content
  <2> QED
    BY <1>1, <2>1, WrittenRow DEF GwInv
<1>3. Control'
  BY <1>1, <1>2, CallMoves
<1>4. GwTypeOK'
  BY <1>1, <1>2 DEF GwInv, GwTypeOK
<1>5. \A d \in DocTasks : d # handler[c].doc /\ NoRaw(d) => NoRaw(d)'
  BY <1>2 DEF NoRaw
<1>6. \A e \in GatewayCalls : handler'[e].pc = "running" => e = c
  BY <1>1, <1>2 DEF GwInv, OneRuns
<1>7. stage[handler[c].doc].status \in {"PREPROCESSING", "FAILED"}
  BY <1>1 DEF GwInv, RunsClean
<1>8. RunsClean'
  BY <1>1, <1>2, <1>6, <1>7 DEF RunsClean
<1>9. AnswersClean'
  <2> SUFFICES ASSUME NEW j \in Drivers, driver[j].pc = "calling", handler'[driver[j].call].answer = "ok"
               PROVE  /\ \A e \in GatewayCalls : handler'[e].pc = "running" => handler'[e].doc # DrivesDoc[j]
                      /\ driver[j].op = "inpaint" => NoRaw(DrivesDoc[j])'
    BY <1>1 DEF AnswersClean
  <2>1. driver[j].call \in GatewayCalls /\ DrivesDoc[j] \in DocTasks
    BY GatewayAssumption DEF GwInv, CallsMatch
  <2>2. handler[driver[j].call].answer = "ok"
    BY <1>2, <2>1
  <2>3. /\ \A e \in GatewayCalls : handler[e].pc = "running" => handler[e].doc # DrivesDoc[j]
        /\ driver[j].op = "inpaint" => NoRaw(DrivesDoc[j])
    BY <2>2 DEF GwInv, AnswersClean
  <2> QED
    BY <1>1, <1>2, <1>5, <1>6, <2>1, <2>3
<1>10. PackedClean'
  BY <1>1, <1>5, <1>7 DEF GwInv, PackedClean
<1>11. GotClean' /\ NothingRawDelivered'
  BY <1>1, <1>2 DEF GwInv, GotClean, NothingRawDelivered
<1> QED
  BY <1>3, <1>4, <1>8, <1>9, <1>10, <1>11 DEF GwInv, Control

LEMMA InpaintPageKeeps ==
    ASSUME GwInv, NEW c \in GatewayCalls, NEW p \in DocPages, InpaintPage(c, p)
    PROVE  GwInv'
<1>1. handler[c].pc = "running" /\ handler[c].op = "inpaint" /\ UNCHANGED <<stage, driver, delivered, spent>>
  BY DEF InpaintPage
<1>2. CASE PageWritten(c, p, "clean")
  <2>1. /\ handler' \in [GatewayCalls -> HandlerRow] /\ \A e \in GatewayCalls : e # c => handler'[e] = handler[e]
        /\ handler'[c].pc = handler[c].pc /\ handler'[c].op = handler[c].op /\ handler'[c].doc = handler[c].doc
        /\ handler'[c].answer = handler[c].answer /\ handler'[c].got = handler[c].got
        /\ handler'[c].todo = handler[c].todo \ {p}
        /\ workDir' \in [DocTasks -> [converted : BOOLEAN, page : [DocPages -> Content], old : BOOLEAN]]
        /\ \A d \in DocTasks, q \in DocPages :
               workDir'[d].page[q] = IF d = handler[c].doc /\ q = p THEN "clean" ELSE workDir[d].page[q]
    <3>1. "clean" \in Content
      BY DEF Content
    <3> QED
      BY <1>2, <3>1, WrittenRow DEF GwInv
  <2>2. NoNewRaw
    BY <2>1 DEF NoNewRaw
  <2>3. \A q \in DocPages \ handler'[c].todo : workDir'[handler'[c].doc].page[q] # "raw"
    <3>1. handler[c].doc \in DocTasks
      BY DEF GwInv, GwTypeOK, HandlerRow
    <3>2. \A q \in DocPages \ handler[c].todo : workDir[handler[c].doc].page[q] # "raw"
      BY <1>1 DEF GwInv, RunsClean
    <3> QED
      BY <2>1, <3>1, <3>2
  <2>4. \A q \in DocPages : handler'[c].got[q] # "raw"
    BY <2>1 DEF GwInv, GotClean
  <2>5. handler'[c].op = "inpaint" /\ handler'[c].pc = "running"
    BY <1>1, <2>1
  <2> QED
    BY <1>1, <2>1, <2>2, <2>3, <2>4, <2>5, CallMovesClean
<1>3. CASE UNCHANGED workDir /\ \E answer \in {"failed", "refused"} : GwAnswered(c, answer)
  <2>1. spent' \in [DOMAIN GatewayBudget -> Nat]
    BY <1>1 DEF GwInv, GwTypeOK
  <2> QED
    BY <1>1, <1>3, <2>1, RefusalKeeps
<1> QED
  BY <1>2, <1>3 DEF InpaintPage

(* A job no longer waits for its call.                                     *)
LEMMA JobMoves ==
    ASSUME GwInv, OneJobEach, NEW j \in Drivers, NEW r \in DriverRow, NEW d, d = DrivesDoc[j],
           driver' = [driver EXCEPT ![j] = r], r.call = NoCall, r.pc # "calling",
           stage' \in [DocTasks -> StageRow], \A e \in DocTasks : e # d => stage'[e] = stage[e],
           r.pc = "converted" => stage'[d] = r.seen /\ r.seen.status = "PREPROCESSING",
           stage'[d].status \in {"PACKAGING", "SUCCEEDED"} => NoRaw(d),
           \A c \in GatewayCalls : handler[c].pc = "running" /\ handler[c].op = "render" /\ handler[c].doc = d =>
               stage'[d].status \in {"PREPROCESSING", "FAILED"},
           handler' \in [GatewayCalls -> HandlerRow],
           \A c \in GatewayCalls :
               \/ handler'[c] = handler[c] /\ (c = driver[j].call => handler[c].pc = "running")
               \/ handler'[c] = FreeHandler /\ c = driver[j].call,
           UNCHANGED <<workDir, delivered>>, spent' \in [DOMAIN GatewayBudget -> Nat]
    PROVE  GwInv'
<1>1. /\ driver \in [Drivers -> DriverRow] /\ DrivesDoc \in [Drivers -> DocTasks] /\ NoCall \notin GatewayCalls
      /\ handler \in [GatewayCalls -> HandlerRow]
  BY GatewayAssumption DEF GwInv, GwTypeOK
<1>2. driver'[j] = r /\ \A k \in Drivers : k # j => driver'[k] = driver[k]
  BY <1>1
<1>3. FreeHandler.pc = "free" /\ FreeHandler.answer = "none" /\ FreeHandler.got = Blank
  BY FreshRows
<1>4. GwTypeOK'
  BY <1>1 DEF GwInv, GwTypeOK
<1>5. \A k \in Drivers : k # j /\ driver[k].pc = "calling" =>
          /\ driver[k].call \in GatewayCalls /\ driver[k].call # driver[j].call
          /\ handler'[driver[k].call] = handler[driver[k].call]
  <2> SUFFICES ASSUME NEW k \in Drivers, k # j, driver[k].pc = "calling"
               PROVE  /\ driver[k].call \in GatewayCalls /\ driver[k].call # driver[j].call
                      /\ handler'[driver[k].call] = handler[driver[k].call]
    OBVIOUS
  <2>1. driver[k].call \in GatewayCalls
    BY DEF GwInv, CallsMatch
  <2>2. driver[k].call # driver[j].call
    BY <1>1, <2>1 DEF GwInv, CallsMatch
  <2> QED
    BY <2>1, <2>2
<1>6. CallsMatch'
  <2> SUFFICES ASSUME NEW k \in Drivers
               PROVE  /\ driver'[k].pc # "calling" => driver'[k].call = NoCall
                      /\ driver'[k].pc = "calling" =>
                            /\ driver'[k].call \in GatewayCalls /\ driver'[k].op # "none"
                            /\ handler'[driver'[k].call].pc # "free"
                            /\ handler'[driver'[k].call].op = driver'[k].op
                            /\ handler'[driver'[k].call].doc = DrivesDoc[k]
                      /\ \A l \in Drivers : driver'[k].call = driver'[l].call /\ driver'[k].call # NoCall => k = l
    BY DEF CallsMatch
  <2>1. CASE k = j
    BY <1>2, <2>1
  <2>2. CASE k # j
    <3>1. /\ driver[k].pc # "calling" => driver[k].call = NoCall
          /\ driver[k].pc = "calling" =>
                /\ driver[k].call \in GatewayCalls /\ driver[k].op # "none"
                /\ handler[driver[k].call].pc # "free"
                /\ handler[driver[k].call].op = driver[k].op
                /\ handler[driver[k].call].doc = DrivesDoc[k]
          /\ \A l \in Drivers : driver[k].call = driver[l].call /\ driver[k].call # NoCall => k = l
      BY Zenon DEF GwInv, CallsMatch
    <3> QED
      BY <1>2, <1>5, <2>2, <3>1
  <2> QED
    BY <2>1, <2>2
<1>7. GivenUpRuns'
  <2> SUFFICES ASSUME NEW c \in GatewayCalls
               PROVE  /\ handler'[c].pc \in {"sweep", "queued", "done"} => \E k \in Drivers : driver'[k].call = c
                      /\ handler'[c].pc # "done" => handler'[c].answer = "none"
                      /\ handler'[c].pc = "free" \/ handler'[c].op # "none"
    BY DEF GivenUpRuns
  <2>1. CASE handler'[c] = FreeHandler
    BY <1>3, <2>1
  <2>2. CASE handler'[c] = handler[c] /\ (c = driver[j].call => handler[c].pc = "running")
    <3>1. /\ handler[c].pc \in {"sweep", "queued", "done"} => \E k \in Drivers : driver[k].call = c
          /\ handler[c].pc # "done" => handler[c].answer = "none"
          /\ handler[c].pc = "free" \/ handler[c].op # "none"
      BY Zenon DEF GwInv, GivenUpRuns
    <3> QED
      BY <1>2, <2>2, <3>1
  <2> QED
    BY <2>1, <2>2
<1>8. \A k \in Drivers : k # j => DrivesDoc[k] \in DocTasks /\ DrivesDoc[k] # d
  BY <1>1 DEF OneJobEach
<1>9. SeenIsCurrent'
  BY <1>2, <1>8 DEF GwInv, SeenIsCurrent
<1>10. \A c \in GatewayCalls : handler'[c].pc = "running" => handler'[c] = handler[c]
  BY <1>3
<1>11. OneRuns'
  BY <1>10 DEF GwInv, OneRuns
<1>12. RunsClean'
  <2> SUFFICES ASSUME NEW c \in GatewayCalls, handler'[c].pc = "running"
               PROVE  /\ handler'[c].op = "render" => stage'[handler'[c].doc].status \in {"PREPROCESSING", "FAILED"}
                      /\ handler'[c].op = "inpaint" =>
                            \A p \in DocPages \ handler'[c].todo : workDir[handler'[c].doc].page[p] # "raw"
                      /\ handler'[c].op = "package" =>
                            \A p \in DocPages : workDir[handler'[c].doc].page[p] # "raw"
    BY DEF RunsClean, NoRaw
  <2>1. handler'[c] = handler[c] /\ handler[c].doc \in DocTasks
    BY <1>1, <1>10 DEF HandlerRow
  <2>2. /\ handler[c].op = "render" => stage[handler[c].doc].status \in {"PREPROCESSING", "FAILED"}
        /\ handler[c].op = "inpaint" =>
              \A p \in DocPages \ handler[c].todo : workDir[handler[c].doc].page[p] # "raw"
        /\ handler[c].op = "package" =>
              \A p \in DocPages : workDir[handler[c].doc].page[p] # "raw"
    BY <2>1, Zenon DEF GwInv, RunsClean, NoRaw
  <2> QED
    BY <2>1, <2>2
<1>13. \A e : NoRaw(e)' <=> NoRaw(e)
  BY DEF NoRaw
<1>14. AnswersClean'
  <2> SUFFICES ASSUME NEW k \in Drivers, driver'[k].pc = "calling", handler'[driver'[k].call].answer = "ok"
               PROVE  /\ \A c \in GatewayCalls : handler'[c].pc = "running" => handler'[c].doc # DrivesDoc[k]
                      /\ driver'[k].op = "inpaint" => NoRaw(DrivesDoc[k])
    BY DEF AnswersClean, NoRaw
  <2>1. k # j /\ driver'[k] = driver[k]
    BY <1>2
  <2>2. handler[driver[k].call].answer = "ok" /\ driver[k].pc = "calling"
    BY <1>5, <2>1
  <2>3. /\ \A c \in GatewayCalls : handler[c].pc = "running" => handler[c].doc # DrivesDoc[k]
        /\ driver[k].op = "inpaint" => NoRaw(DrivesDoc[k])
    BY <2>2, Zenon DEF GwInv, AnswersClean
  <2> QED
    BY <1>10, <2>1, <2>3
<1>15. PackedClean'
  BY <1>13 DEF GwInv, PackedClean
<1>16. GotClean' /\ NothingRawDelivered'
  BY <1>3 DEF GwInv, GotClean, NothingRawDelivered, Blank
<1> QED
  BY <1>4, <1>6, <1>7, <1>9, <1>11, <1>12, <1>14, <1>15, <1>16 DEF GwInv

(* The job has failed, or starts over. *)
LEMMA AttemptRow ==
    ASSUME GwTypeOK, NEW j \in Drivers, AttemptSpent(j) \/ JobFails(j)
    PROVE  /\ \E r \in DriverRow : driver' = [driver EXCEPT ![j] = r] /\ r.call = NoCall /\ r.pc \in {"idle", "over"}
           /\ stage' \in [DocTasks -> StageRow]
           /\ \A e \in DocTasks : e # DrivesDoc[j] => stage'[e] = stage[e]
           /\ \/ stage'[DrivesDoc[j]] = stage[DrivesDoc[j]]
              \/ stage'[DrivesDoc[j]].status = "FAILED" /\ ~DocEnded(DrivesDoc[j])
<1>1. stage \in [DocTasks -> StageRow] /\ driver[j] \in DriverRow /\ DrivesDoc[j] \in DocTasks
  BY GatewayAssumption DEF GwTypeOK
<1>2. IdleDriver \in DriverRow /\ IdleDriver.call = NoCall /\ IdleDriver.pc = "idle"
  BY FreshRows
<1>3. CASE JobFails(j)
  <2> DEFINE r == [IdleDriver EXCEPT !.pc = "over"]
  <2>1. r \in DriverRow /\ r.call = NoCall /\ r.pc = "over"
    BY <1>2 DEF DriverRow
  <2>2. driver' = [driver EXCEPT ![j] = r]
    BY <1>3, Zenon DEF JobFails
  <2>3. \/ stage' = stage
        \/ ~DocEnded(DrivesDoc[j]) /\ stage' = [stage EXCEPT ![DrivesDoc[j]].status = "FAILED"]
    BY <1>3, Zenon DEF JobFails
  <2> HIDE DEF r
  <2>4. "FAILED" \in DocStatus
    BY DEF DocStatus
  <2>5. /\ stage' \in [DocTasks -> StageRow]
        /\ \A e \in DocTasks : e # DrivesDoc[j] => stage'[e] = stage[e]
        /\ \/ stage'[DrivesDoc[j]] = stage[DrivesDoc[j]]
           \/ stage'[DrivesDoc[j]].status = "FAILED" /\ ~DocEnded(DrivesDoc[j])
    BY <1>1, <2>3, <2>4 DEF StageRow
  <2> QED
    BY <2>1, <2>2, <2>5
<1>4. CASE AttemptSpent(j) /\ ~JobFails(j)
  <2> DEFINE r == [IdleDriver EXCEPT !.made = driver[j].made + 1]
  <2>1. driver' = [driver EXCEPT ![j] = r] /\ UNCHANGED stage
    BY <1>4, Zenon DEF AttemptSpent
  <2>2. driver[j].made + 1 \in Nat
    BY <1>1 DEF DriverRow
  <2>3. r \in DriverRow /\ r.call = NoCall /\ r.pc = "idle"
    BY <1>2, <2>2 DEF DriverRow
  <2> HIDE DEF r
  <2> QED
    BY <1>1, <2>1, <2>3
<1> QED
  BY <1>3, <1>4

LEMMA StopKeeps ==
    ASSUME GwInv, OneJobEach, NEW j \in Drivers, AttemptSpent(j) \/ JobFails(j),
           handler' \in [GatewayCalls -> HandlerRow],
           \A c \in GatewayCalls :
               \/ handler'[c] = handler[c] /\ (c = driver[j].call => handler[c].pc = "running")
               \/ handler'[c] = FreeHandler /\ c = driver[j].call,
           UNCHANGED <<workDir, delivered>>, spent' \in [DOMAIN GatewayBudget -> Nat]
    PROVE  GwInv'
<1> DEFINE d == DrivesDoc[j]
<1>1. d \in DocTasks
  BY GatewayAssumption
<1>2. PICK r \in DriverRow : driver' = [driver EXCEPT ![j] = r] /\ r.call = NoCall /\ r.pc \in {"idle", "over"}
  BY AttemptRow DEF GwInv
<1>3. /\ stage' \in [DocTasks -> StageRow]
      /\ \A e \in DocTasks : e # d => stage'[e] = stage[e]
      /\ stage'[d] = stage[d] \/ stage'[d].status = "FAILED"
  BY AttemptRow DEF GwInv
<1>4. stage'[d].status \in {"PACKAGING", "SUCCEEDED"} => NoRaw(d)
  BY <1>1, <1>3 DEF GwInv, PackedClean
<1>5. \A c \in GatewayCalls : handler[c].pc = "running" /\ handler[c].op = "render" /\ handler[c].doc = d =>
          stage'[d].status \in {"PREPROCESSING", "FAILED"}
  BY <1>3 DEF GwInv, RunsClean
<1> HIDE DEF d
<1> QED
  BY <1>1, <1>2, <1>3, <1>4, <1>5, JobMoves DEF d

LEMMA CallFreed ==
    ASSUME GwTypeOK, NEW k \in GatewayCalls, handler' = [handler EXCEPT ![k] = FreeHandler]
    PROVE  /\ handler' \in [GatewayCalls -> HandlerRow]
           /\ handler'[k] = FreeHandler
           /\ \A c \in GatewayCalls : c # k => handler'[c] = handler[c]
BY FreshRows DEF GwTypeOK

LEMMA HearErrorKeeps ==
    ASSUME GwInv, OneJobEach, NEW j \in Drivers, HearError(j)
    PROVE  GwInv'
<1>1. driver[j].call \in GatewayCalls
  BY DEF HearError, GwInv, CallsMatch
<1>2. AttemptSpent(j) \/ JobFails(j)
  BY Zenon DEF HearError
<1>3. handler' = [handler EXCEPT ![driver[j].call] = FreeHandler] /\ UNCHANGED <<workDir, delivered, spent>>
  BY DEF HearError
<1>4. spent' \in [DOMAIN GatewayBudget -> Nat] /\ GwTypeOK
  BY <1>3 DEF GwInv, GwTypeOK
<1>5. /\ handler' \in [GatewayCalls -> HandlerRow]
      /\ handler'[driver[j].call] = FreeHandler
      /\ \A c \in GatewayCalls : c # driver[j].call => handler'[c] = handler[c]
  BY <1>1, <1>3, <1>4, CallFreed
<1> QED
  BY <1>2, <1>3, <1>4, <1>5, StopKeeps

LEMMA ClientTimeoutKeeps ==
    ASSUME GwInv, OneJobEach, NEW j \in Drivers, ClientTimeout(j)
    PROVE  GwInv'
<1>1. AttemptSpent(j) /\ UNCHANGED <<handler, workDir, delivered>> /\ handler[driver[j].call].pc = "running"
  BY DEF ClientTimeout
<1>2. spent' \in [DOMAIN GatewayBudget -> Nat]
  BY SpentTyped, BudgetKinds DEF ClientTimeout, GwInv
<1>3. handler' \in [GatewayCalls -> HandlerRow]
  BY <1>1 DEF GwInv, GwTypeOK
<1> QED
  BY <1>1, <1>2, <1>3, StopKeeps

LEMMA WorkerCrashKeeps ==
    ASSUME GwInv, OneJobEach, NEW j \in Drivers, WorkerCrash(j)
    PROVE  GwInv'
<1> DEFINE r == [IdleDriver EXCEPT !.made = driver[j].made]
           d == DrivesDoc[j]
<1>1. /\ d \in DocTasks /\ driver[j] \in DriverRow /\ stage \in [DocTasks -> StageRow]
      /\ handler \in [GatewayCalls -> HandlerRow] /\ NoCall \notin GatewayCalls
  BY GatewayAssumption DEF GwInv, GwTypeOK
<1>2. r \in DriverRow /\ r.call = NoCall /\ r.pc = "idle"
  <2>1. IdleDriver \in DriverRow /\ IdleDriver.call = NoCall /\ IdleDriver.pc = "idle" /\ driver[j].made \in Nat
    BY <1>1, FreshRows DEF DriverRow
  <2> QED
    BY <2>1 DEF DriverRow
<1>3. driver' = [driver EXCEPT ![j] = r] /\ UNCHANGED <<stage, workDir, delivered>>
  BY DEF WorkerCrash
<1>4. handler' = [c \in GatewayCalls |->
                     IF c = driver[j].call /\ handler[c].pc = "done" THEN FreeHandler ELSE handler[c]]
  BY DEF WorkerCrash
<1>5. spent' \in [DOMAIN GatewayBudget -> Nat]
  BY SpentTyped, BudgetKinds DEF WorkerCrash, GwInv
<1>6. handler' \in [GatewayCalls -> HandlerRow]
  BY <1>1, <1>4, FreshRows
<1>7. \A c \in GatewayCalls : c = driver[j].call => handler[c].pc \in {"running", "done"}
  BY <1>1 DEF WorkerCrash, GwInv, CallsMatch
<1>8. \A c \in GatewayCalls :
          \/ handler'[c] = handler[c] /\ (c = driver[j].call => handler[c].pc = "running")
          \/ handler'[c] = FreeHandler /\ c = driver[j].call
  BY <1>4, <1>7
<1>9. stage'[d].status \in {"PACKAGING", "SUCCEEDED"} => NoRaw(d)
  BY <1>1, <1>3 DEF GwInv, PackedClean
<1>10. \A c \in GatewayCalls : handler[c].pc = "running" /\ handler[c].op = "render" /\ handler[c].doc = d =>
           stage'[d].status \in {"PREPROCESSING", "FAILED"}
  BY <1>3 DEF GwInv, RunsClean
<1> HIDE DEF r, d
<1> QED
  BY <1>1, <1>2, <1>3, <1>5, <1>6, <1>8, <1>9, <1>10, JobMoves DEF d

LEMMA HearOkKeeps ==
    ASSUME GwInv, OneJobEach, NEW j \in Drivers, HearOk(j)
    PROVE  GwInv'
<1> DEFINE d == DrivesDoc[j]
           k == driver[j].call
<1>1. /\ d \in DocTasks /\ driver[j] \in DriverRow /\ stage \in [DocTasks -> StageRow]
      /\ handler \in [GatewayCalls -> HandlerRow] /\ NoCall \notin GatewayCalls
  BY GatewayAssumption DEF GwInv, GwTypeOK
<1>2. driver[j].pc = "calling" /\ handler[k].answer = "ok" /\ k \in GatewayCalls /\ driver[j].op # "none"
  BY DEF HearOk, GwInv, CallsMatch
<1>3. stage[d] = driver[j].seen /\ driver[j].seen.status = StatusFor[driver[j].op]
  BY <1>2 DEF GwInv, SeenIsCurrent
<1>4. /\ \A c \in GatewayCalls : handler[c].pc = "running" => handler[c].doc # d
      /\ driver[j].op = "inpaint" => NoRaw(d)
  BY <1>2 DEF GwInv, AnswersClean
<1>5. handler' = [handler EXCEPT ![k] = FreeHandler] /\ UNCHANGED <<workDir, delivered, spent>>
  BY DEF HearOk
<1>6. /\ handler' \in [GatewayCalls -> HandlerRow]
      /\ handler'[k] = FreeHandler
      /\ \A c \in GatewayCalls : c # k => handler'[c] = handler[c]
  <2> HIDE DEF k
  <2> QED
    BY <1>2, <1>5, CallFreed DEF GwInv
<1>7. spent' \in [DOMAIN GatewayBudget -> Nat]
  BY <1>5 DEF GwInv, GwTypeOK
<1>8. \A c \in GatewayCalls :
          \/ handler'[c] = handler[c] /\ (c = driver[j].call => handler[c].pc = "running")
          \/ handler'[c] = FreeHandler /\ c = driver[j].call
  BY <1>6
<1>12. \A c \in GatewayCalls : handler[c].pc = "running" /\ handler[c].op = "render" /\ handler[c].doc = d =>
           stage'[d].status \in {"PREPROCESSING", "FAILED"}
  BY <1>4
<1>13. UNCHANGED <<workDir, delivered>>
  BY <1>5
<1>9. driver[j].op \in {"convert", "render", "inpaint", "package"}
  BY <1>1, <1>2 DEF DriverRow, Op
<1>10. CASE driver[j].op = "convert"
  <2> DEFINE r == [driver[j] EXCEPT !.pc = "converted", !.call = NoCall]
  <2>1. driver' = [driver EXCEPT ![j] = r] /\ UNCHANGED stage
    <3>1. driver' = [driver EXCEPT ![j].pc = "converted", ![j].call = NoCall] /\ UNCHANGED stage
      BY <1>10, Zenon DEF HearOk
    <3> QED
      BY <3>1 DEF GwInv, GwTypeOK
  <2>2. r \in DriverRow /\ r.call = NoCall /\ r.pc = "converted" /\ r.seen = driver[j].seen
    BY <1>1 DEF DriverRow
  <2>3. stage'[d] = r.seen /\ r.seen.status = "PREPROCESSING"
    BY <1>3, <1>10, <2>1, <2>2 DEF StatusFor
  <2>4. /\ stage' \in [DocTasks -> StageRow] /\ \A e \in DocTasks : e # d => stage'[e] = stage[e]
        /\ stage'[d].status \in {"PACKAGING", "SUCCEEDED"} => NoRaw(d)
    BY <1>1, <2>1, <2>3
  <2>5. d = DrivesDoc[j] /\ handler' \in [GatewayCalls -> HandlerRow]
    BY <1>6
  <2> HIDE DEF r, k
  <2> QED
    BY <1>7, <1>8, <1>12, <1>13, <2>1, <2>2, <2>3, <2>4, <2>5, JobMoves DEF d
<1>11. CASE driver[j].op # "convert"
  <2> DEFINE r == [driver[j] EXCEPT !.pc = "idle", !.call = NoCall]
             new == [stage[d] EXCEPT !.status = NextDocStatus[stage[d].status]]
  <2>1. driver' = [driver EXCEPT ![j] = r] /\ stage' = [stage EXCEPT ![d] = new]
    <3>1. /\ driver' = [driver EXCEPT ![j].pc = "idle", ![j].call = NoCall]
          /\ stage' = IF stage[d] = driver[j].seen THEN [stage EXCEPT ![d].status = NextDocStatus[@]] ELSE stage
      BY <1>11, Zenon DEF HearOk
    <3>2. driver' = [driver EXCEPT ![j] = r]
      BY <3>1 DEF GwInv, GwTypeOK
    <3>3. stage' = [stage EXCEPT ![d] = new]
      BY <1>3, <3>1, Zenon
    <3> QED
      BY <3>2, <3>3
  <2>2. r \in DriverRow /\ r.call = NoCall /\ r.pc = "idle"
    BY <1>1 DEF DriverRow
  <2>3. /\ new \in StageRow /\ new.status \in {"DETECTING", "PACKAGING", "SUCCEEDED"}
        /\ new.status = "PACKAGING" => driver[j].op = "inpaint"
        /\ new.status = "SUCCEEDED" => stage[d].status = "PACKAGING"
    <3>1. stage[d].status \in {"PREPROCESSING", "INPAINTING", "PACKAGING"}
              /\ (stage[d].status = "INPAINTING" => driver[j].op = "inpaint")
      BY <1>3, <1>9 DEF StatusFor
    <3>2. /\ NextDocStatus["PREPROCESSING"] = "DETECTING"
          /\ NextDocStatus["INPAINTING"] = "PACKAGING"
          /\ NextDocStatus["PACKAGING"] = "SUCCEEDED"
      BY DEF NextDocStatus
    <3>3. NextDocStatus[stage[d].status] \in {"DETECTING", "PACKAGING", "SUCCEEDED"}
      BY <3>1, <3>2
    <3>4. stage[d] \in StageRow
      BY <1>1
    <3>5. new \in StageRow /\ new.status = NextDocStatus[stage[d].status]
      BY <3>3, <3>4 DEF StageRow, DocStatus
    <3> HIDE DEF new
    <3> QED
      BY <3>1, <3>2, <3>3, <3>5
  <2> HIDE DEF r, new
  <2>4. stage' \in [DocTasks -> StageRow] /\ stage'[d] = new /\ \A e \in DocTasks : e # d => stage'[e] = stage[e]
    BY <1>1, <2>1, <2>3
  <2>5. stage'[d].status \in {"PACKAGING", "SUCCEEDED"} => NoRaw(d)
    BY <1>1, <1>4, <2>3, <2>4 DEF GwInv, PackedClean
  <2>6. d = DrivesDoc[j] /\ handler' \in [GatewayCalls -> HandlerRow]
    BY <1>6
  <2> HIDE DEF k
  <2> QED
    BY <1>7, <1>8, <1>12, <1>13, <2>1, <2>2, <2>4, <2>5, <2>6, JobMoves DEF d
<1> QED
  BY <1>10, <1>11

(* The first call of a step is for the status that was read. *)
LEMMA FirstOpFits ==
    ASSUME NEW d \in DocTasks, FirstOp(d) # "none"
    PROVE  FirstOp(d) \in {"convert", "render", "inpaint", "package"} /\ stage[d].status = StatusFor[FirstOp(d)]
<1>1. \/ stage[d].status = "PREPROCESSING" /\ FirstOp(d) \in {"convert", "render"}
      \/ stage[d].status = "INPAINTING" /\ FirstOp(d) = "inpaint"
      \/ stage[d].status = "PACKAGING" /\ FirstOp(d) = "package"
  BY Zenon DEF FirstOp
<1> QED
  BY <1>1 DEF StatusFor

LEMMA ArrivesRow ==
    ASSUME GwTypeOK, NEW c \in GatewayCalls, NEW op \in Op, NEW d \in DocTasks, Arrives(c, op, d)
    PROVE  \E h \in HandlerRow : /\ handler' = [handler EXCEPT ![c] = h] /\ h.op = op /\ h.doc = d
                                 /\ h.pc \in {"queued", "sweep"} /\ h.answer = "none" /\ h.got = Blank
<1>1. PICK dirs \in {{}, {e \in DocTasks : workDir[e].old}} :
          handler' = [handler EXCEPT ![c] =
              [FreeHandler EXCEPT !.pc = IF dirs = {} THEN "queued" ELSE "sweep", !.op = op, !.doc = d, !.sweep = dirs]]
  BY Zenon DEF Arrives
<1> DEFINE h == [FreeHandler EXCEPT !.pc = IF dirs = {} THEN "queued" ELSE "sweep", !.op = op, !.doc = d, !.sweep = dirs]
<1>2. dirs \in SUBSET DocTasks
  OBVIOUS
<1>3. h \in HandlerRow /\ h.op = op /\ h.doc = d /\ h.pc \in {"queued", "sweep"} /\ h.answer = "none" /\ h.got = Blank
  BY <1>2, FreshRows DEF HandlerRow
<1> HIDE DEF h
<1>4. handler' = [handler EXCEPT ![c] = h]
  BY <1>1 DEF h
<1> QED
  BY <1>3, <1>4

LEMMA AskKeeps ==
    ASSUME GwInv, NEW j \in Drivers, NEW c \in GatewayCalls, Ask(j, c)
    PROVE  GwInv'
<1> DEFINE d == DrivesDoc[j]
<1>1. /\ d \in DocTasks /\ driver \in [Drivers -> DriverRow] /\ driver[j] \in DriverRow
      /\ stage \in [DocTasks -> StageRow]
      /\ handler \in [GatewayCalls -> HandlerRow] /\ NoCall \notin GatewayCalls
  BY GatewayAssumption DEF GwInv, GwTypeOK
<1>2. handler[c].pc = "free" /\ UNCHANGED <<stage, workDir, delivered, spent>>
  BY DEF Ask
<1>3. PICK op \in {"convert", "render", "inpaint", "package"} :
          /\ Arrives(c, op, d) /\ stage[d].status = StatusFor[op]
          /\ \/ driver' = [driver EXCEPT ![j] = [@ EXCEPT !.pc = "calling", !.op = op, !.call = c, !.seen = stage[d]]]
             \/ /\ driver[j].pc = "converted" /\ stage[d] = driver[j].seen
                /\ driver' = [driver EXCEPT ![j] = [@ EXCEPT !.pc = "calling", !.op = op, !.call = c]]
  <2>1. CASE driver[j].pc = "idle"
    <3>1. /\ FirstOp(d) # "none" /\ Arrives(c, FirstOp(d), d)
          /\ driver' = [driver EXCEPT ![j] = [@ EXCEPT !.pc = "calling", !.op = FirstOp(d), !.call = c, !.seen = stage[d]]]
      BY <2>1, Zenon DEF Ask
    <3> HIDE DEF d
    <3> QED
      BY <1>1, <3>1, FirstOpFits, Zenon
  <2>2. CASE driver[j].pc = "converted"
    <3>1. /\ Arrives(c, "render", d)
          /\ driver' = [driver EXCEPT ![j] = [@ EXCEPT !.pc = "calling", !.op = "render", !.call = c]]
      BY <2>2, Zenon DEF Ask
    <3>2. stage[d] = driver[j].seen /\ stage[d].status = StatusFor["render"]
      BY <2>2 DEF GwInv, SeenIsCurrent, StatusFor
    <3> QED
      BY <2>2, <3>1, <3>2, Zenon
  <2> QED
    BY <2>1, <2>2, Zenon DEF Ask
<1>4. PICK r \in DriverRow : /\ driver' = [driver EXCEPT ![j] = r]
                             /\ r.pc = "calling" /\ r.op = op /\ r.call = c /\ r.seen = stage[d]
  <2>1. op \in Op /\ stage[d] \in StageRow
    BY <1>1 DEF Op
  <2>2. CASE driver' = [driver EXCEPT ![j] = [@ EXCEPT !.pc = "calling", !.op = op, !.call = c, !.seen = stage[d]]]
    <3> DEFINE r == [driver[j] EXCEPT !.pc = "calling", !.op = op, !.call = c, !.seen = stage[d]]
    <3>1. driver' = [driver EXCEPT ![j] = r]
      BY <2>2, Zenon
    <3> HIDE DEF d
    <3>2. r \in DriverRow /\ r.pc = "calling" /\ r.op = op /\ r.call = c /\ r.seen = stage[d]
      BY <1>1, <2>1 DEF DriverRow
    <3> HIDE DEF r
    <3> QED
      BY <3>1, <3>2
  <2>3. CASE /\ driver[j].pc = "converted" /\ stage[d] = driver[j].seen
             /\ driver' = [driver EXCEPT ![j] = [@ EXCEPT !.pc = "calling", !.op = op, !.call = c]]
    <3> DEFINE r == [driver[j] EXCEPT !.pc = "calling", !.op = op, !.call = c]
    <3>1. driver' = [driver EXCEPT ![j] = r]
      BY <2>3, Zenon
    <3> HIDE DEF d
    <3>2. r \in DriverRow /\ r.pc = "calling" /\ r.op = op /\ r.call = c /\ r.seen = stage[d]
      BY <1>1, <2>1, <2>3 DEF DriverRow
    <3> HIDE DEF r
    <3> QED
      BY <3>1, <3>2
  <2> QED
    BY <1>3, <2>2, <2>3
<1>5. PICK h \in HandlerRow : /\ handler' = [handler EXCEPT ![c] = h] /\ h.op = op /\ h.doc = d
                              /\ h.pc \in {"queued", "sweep"} /\ h.answer = "none" /\ h.got = Blank
  <2>1. op \in Op /\ GwTypeOK /\ d \in DocTasks /\ Arrives(c, op, d)
    BY <1>1, <1>3 DEF Op, GwInv
  <2> HIDE DEF d
  <2> QED
    BY <2>1, ArrivesRow
<1> HIDE DEF d
<1>6. /\ handler' \in [GatewayCalls -> HandlerRow] /\ handler'[c] = h /\ \A e \in GatewayCalls : e # c => handler'[e] = handler[e]
      /\ driver' \in [Drivers -> DriverRow] /\ driver'[j] = r /\ \A k \in Drivers : k # j => driver'[k] = driver[k]
  BY <1>1, <1>4, <1>5
<1>7. GwTypeOK'
  BY <1>2, <1>6 DEF GwInv, GwTypeOK
<1>8. \A k \in Drivers : driver[k].pc = "calling" => driver[k].call \in GatewayCalls /\ driver[k].call # c
  BY <1>2 DEF GwInv, CallsMatch
<1>9. \A k \in Drivers : driver[k].call # c
  BY <1>1, <1>8 DEF GwInv, CallsMatch
<1>10. CallsMatch'
  <2> SUFFICES ASSUME NEW k \in Drivers
               PROVE  /\ driver'[k].pc # "calling" => driver'[k].call = NoCall
                      /\ driver'[k].pc = "calling" =>
                            /\ driver'[k].call \in GatewayCalls /\ driver'[k].op # "none"
                            /\ handler'[driver'[k].call].pc # "free"
                            /\ handler'[driver'[k].call].op = driver'[k].op
                            /\ handler'[driver'[k].call].doc = DrivesDoc[k]
                      /\ \A l \in Drivers : driver'[k].call = driver'[l].call /\ driver'[k].call # NoCall => k = l
    BY DEF CallsMatch
  <2>1. CASE k = j
    BY <1>4, <1>5, <1>6, <1>9, <2>1 DEF d
  <2>2. CASE k # j
    <3>1. /\ driver[k].pc # "calling" => driver[k].call = NoCall
          /\ driver[k].pc = "calling" =>
                /\ driver[k].call \in GatewayCalls /\ driver[k].op # "none"
                /\ handler[driver[k].call].pc # "free"
                /\ handler[driver[k].call].op = driver[k].op
                /\ handler[driver[k].call].doc = DrivesDoc[k]
          /\ \A l \in Drivers : driver[k].call = driver[l].call /\ driver[k].call # NoCall => k = l
      BY Zenon DEF GwInv, CallsMatch
    <3> QED
      BY <1>4, <1>6, <1>8, <1>9, <2>2, <3>1
  <2> QED
    BY <2>1, <2>2
<1>11. j \in Drivers /\ driver[j].pc # "calling" /\ driver[j].call = NoCall
  <2>1. driver[j].pc # "calling"
    BY DEF Ask
  <2> QED
    BY <2>1 DEF GwInv, CallsMatch
<1>12. GivenUpRuns'
  <2> SUFFICES ASSUME NEW e \in GatewayCalls
               PROVE  /\ handler'[e].pc \in {"sweep", "queued", "done"} => \E k \in Drivers : driver'[k].call = e
                      /\ handler'[e].pc # "done" => handler'[e].answer = "none"
                      /\ handler'[e].pc = "free" \/ handler'[e].op # "none"
    BY DEF GivenUpRuns
  <2>1. CASE e = c
    BY <1>4, <1>5, <1>6, <2>1
  <2>2. CASE e # c
    <3>1. /\ handler[e].pc \in {"sweep", "queued", "done"} => \E k \in Drivers : driver[k].call = e
          /\ handler[e].pc # "done" => handler[e].answer = "none"
          /\ handler[e].pc = "free" \/ handler[e].op # "none"
      BY Zenon DEF GwInv, GivenUpRuns
    <3> QED
      BY <1>1, <1>6, <1>11, <2>2, <3>1
  <2> QED
    BY <2>1, <2>2
<1>13. SeenIsCurrent'
  BY <1>2, <1>3, <1>4, <1>6 DEF GwInv, SeenIsCurrent, d
<1>14. \A e \in GatewayCalls : handler'[e].pc = "running" => handler'[e] = handler[e]
  BY <1>5, <1>6
<1>15. OneRuns'
  BY <1>14 DEF GwInv, OneRuns
<1>16. RunsClean'
  <2> SUFFICES ASSUME NEW e \in GatewayCalls, handler'[e].pc = "running"
               PROVE  /\ handler'[e].op = "render" => stage[handler'[e].doc].status \in {"PREPROCESSING", "FAILED"}
                      /\ handler'[e].op = "inpaint" =>
                            \A p \in DocPages \ handler'[e].todo : workDir[handler'[e].doc].page[p] # "raw"
                      /\ handler'[e].op = "package" =>
                            \A p \in DocPages : workDir[handler'[e].doc].page[p] # "raw"
    BY <1>2 DEF RunsClean, NoRaw
  <2> QED
    BY <1>14, Zenon DEF GwInv, RunsClean, NoRaw
<1>17. AnswersClean'
  <2> SUFFICES ASSUME NEW k \in Drivers, driver'[k].pc = "calling", handler'[driver'[k].call].answer = "ok"
               PROVE  /\ \A e \in GatewayCalls : handler'[e].pc = "running" => handler'[e].doc # DrivesDoc[k]
                      /\ driver'[k].op = "inpaint" => NoRaw(DrivesDoc[k])
    BY <1>2 DEF AnswersClean, NoRaw
  <2>1. k # j
    BY <1>4, <1>5, <1>6
  <2>2. driver[k].pc = "calling" /\ driver'[k] = driver[k] /\ handler[driver[k].call].answer = "ok"
    BY <1>6, <1>8, <2>1
  <2>3. /\ \A e \in GatewayCalls : handler[e].pc = "running" => handler[e].doc # DrivesDoc[k]
        /\ driver[k].op = "inpaint" => NoRaw(DrivesDoc[k])
    BY <2>2, Zenon DEF GwInv, AnswersClean
  <2> QED
    BY <1>14, <2>2, <2>3
<1>18. PackedClean' /\ NothingRawDelivered'
  BY <1>2 DEF GwInv, PackedClean, NothingRawDelivered, NoRaw
<1>19. GotClean'
  BY <1>5, <1>6 DEF GwInv, GotClean, Blank
<1> QED
  BY <1>7, <1>10, <1>12, <1>13, <1>15, <1>16, <1>17, <1>18, <1>19 DEF GwInv

(* The row of a document moves on while no job is at it. *)
LEMMA RowMoves ==
    ASSUME GwInv, NEW d \in DocTasks, NEW row \in StageRow, stage' = [stage EXCEPT ![d] = row],
           row.status \in {"PREPROCESSING", "INPAINTING"}, stage[d].status \in {"DETECTING", "FAILED"},
           stage[d].status = "FAILED" => row.status = "PREPROCESSING",
           driver' \in [Drivers -> DriverRow],
           \A j \in Drivers : \/ driver'[j] = driver[j]
                              \/ driver[j].pc = "over" /\ driver'[j] = IdleDriver,
           UNCHANGED <<handler, workDir, delivered>>, spent' \in [DOMAIN GatewayBudget -> Nat]
    PROVE  GwInv'
<1>1. /\ stage \in [DocTasks -> StageRow] /\ driver \in [Drivers -> DriverRow]
      /\ IdleDriver.pc = "idle" /\ IdleDriver.call = NoCall /\ \A j \in Drivers : DrivesDoc[j] \in DocTasks
  BY FreshRows, GatewayAssumption DEF GwInv, GwTypeOK
<1>2. stage' \in [DocTasks -> StageRow] /\ stage'[d] = row /\ \A e \in DocTasks : e # d => stage'[e] = stage[e]
  BY <1>1
<1>3. GwTypeOK'
  BY <1>2 DEF GwInv, GwTypeOK
<1>4. \A j \in Drivers : driver'[j].pc \in {"calling", "converted"} => driver'[j] = driver[j]
  BY <1>1
<1>5. \A j \in Drivers : driver'[j].call = driver[j].call
  BY <1>1 DEF GwInv, CallsMatch
<1>6. CallsMatch'
  <2> SUFFICES ASSUME NEW k \in Drivers
               PROVE  /\ driver'[k].pc # "calling" => driver'[k].call = NoCall
                      /\ driver'[k].pc = "calling" =>
                            /\ driver'[k].call \in GatewayCalls /\ driver'[k].op # "none"
                            /\ handler[driver'[k].call].pc # "free"
                            /\ handler[driver'[k].call].op = driver'[k].op
                            /\ handler[driver'[k].call].doc = DrivesDoc[k]
                      /\ \A l \in Drivers : driver'[k].call = driver'[l].call /\ driver'[k].call # NoCall => k = l
    BY DEF CallsMatch
  <2>1. /\ driver[k].pc # "calling" => driver[k].call = NoCall
        /\ driver[k].pc = "calling" =>
              /\ driver[k].call \in GatewayCalls /\ driver[k].op # "none"
              /\ handler[driver[k].call].pc # "free"
              /\ handler[driver[k].call].op = driver[k].op
              /\ handler[driver[k].call].doc = DrivesDoc[k]
        /\ \A l \in Drivers : driver[k].call = driver[l].call /\ driver[k].call # NoCall => k = l
    BY Zenon DEF GwInv, CallsMatch
  <2> QED
    BY <1>1, <1>5, <2>1
<1>7. GivenUpRuns'
  BY <1>5 DEF GwInv, GivenUpRuns
<1>8. \A j \in Drivers : driver[j].pc \in {"calling", "converted"} => DrivesDoc[j] # d
  <2> SUFFICES ASSUME NEW j \in Drivers, driver[j].pc \in {"calling", "converted"}, DrivesDoc[j] = d
               PROVE  FALSE
    OBVIOUS
  <2>1. stage[d] = driver[j].seen
    BY DEF GwInv, SeenIsCurrent
  <2>2. CASE driver[j].pc = "converted"
    BY <2>1, <2>2 DEF GwInv, SeenIsCurrent
  <2>3. CASE driver[j].pc = "calling"
    <3>1. driver[j].op \in {"convert", "render", "inpaint", "package"}
      BY <1>1, <2>3 DEF GwInv, CallsMatch, DriverRow, Op
    <3>2. stage[d].status = StatusFor[driver[j].op]
      BY <2>1, <2>3 DEF GwInv, SeenIsCurrent
    <3> QED
      BY <3>1, <3>2 DEF StatusFor
  <2> QED
    BY <2>2, <2>3
<1>9. SeenIsCurrent'
  <2> SUFFICES ASSUME NEW j \in Drivers
               PROVE  /\ driver'[j].pc = "calling" =>
                             /\ stage'[DrivesDoc[j]] = driver'[j].seen
                             /\ driver'[j].seen.status = StatusFor[driver'[j].op]
                      /\ driver'[j].pc = "converted" =>
                             stage'[DrivesDoc[j]] = driver'[j].seen /\ driver'[j].seen.status = "PREPROCESSING"
    BY DEF SeenIsCurrent
  <2>1. /\ driver[j].pc = "calling" =>
               stage[DrivesDoc[j]] = driver[j].seen /\ driver[j].seen.status = StatusFor[driver[j].op]
        /\ driver[j].pc = "converted" =>
               stage[DrivesDoc[j]] = driver[j].seen /\ driver[j].seen.status = "PREPROCESSING"
    BY Zenon DEF GwInv, SeenIsCurrent
  <2> QED
    BY <1>1, <1>2, <1>4, <1>8, <2>1
<1>10. OneRuns' /\ GotClean' /\ NothingRawDelivered'
  BY Zenon DEF GwInv, OneRuns, GotClean, NothingRawDelivered
<1>11. RunsClean'
  <2> SUFFICES ASSUME NEW c \in GatewayCalls, handler[c].pc = "running"
               PROVE  /\ handler[c].op = "render" => stage'[handler[c].doc].status \in {"PREPROCESSING", "FAILED"}
                      /\ handler[c].op = "inpaint" =>
                            \A p \in DocPages \ handler[c].todo : workDir[handler[c].doc].page[p] # "raw"
                      /\ handler[c].op = "package" =>
                            \A p \in DocPages : workDir[handler[c].doc].page[p] # "raw"
    BY DEF RunsClean, NoRaw
  <2>1. /\ handler[c].op = "render" => stage[handler[c].doc].status \in {"PREPROCESSING", "FAILED"}
        /\ handler[c].op = "inpaint" =>
              \A p \in DocPages \ handler[c].todo : workDir[handler[c].doc].page[p] # "raw"
        /\ handler[c].op = "package" =>
              \A p \in DocPages : workDir[handler[c].doc].page[p] # "raw"
    BY Zenon DEF GwInv, RunsClean, NoRaw
  <2>2. handler[c].doc \in DocTasks
    BY DEF GwInv, GwTypeOK, HandlerRow
  <2> QED
    BY <1>2, <2>1, <2>2
<1>12. AnswersClean'
  <2> SUFFICES ASSUME NEW k \in Drivers, driver'[k].pc = "calling", handler[driver'[k].call].answer = "ok"
               PROVE  /\ \A e \in GatewayCalls : handler[e].pc = "running" => handler[e].doc # DrivesDoc[k]
                      /\ driver'[k].op = "inpaint" => NoRaw(DrivesDoc[k])
    BY DEF AnswersClean, NoRaw
  <2>1. driver'[k] = driver[k]
    BY <1>4
  <2> QED
    BY <2>1, Zenon DEF GwInv, AnswersClean
<1>13. PackedClean'
  BY <1>2 DEF GwInv, PackedClean, NoRaw
<1> QED
  BY <1>3, <1>6, <1>7, <1>9, <1>10, <1>11, <1>12, <1>13 DEF GwInv

LEMMA UserDrawsKeeps ==
    ASSUME GwInv, NEW d \in DocTasks, UserDraws(d)
    PROVE  GwInv'
<1> DEFINE row == [stage[d] EXCEPT !.status = "INPAINTING"]
<1>1. /\ stage[d].status = "DETECTING" /\ stage' = [stage EXCEPT ![d] = row]
      /\ UNCHANGED <<driver, handler, workDir, delivered, spent>>
  BY Zenon DEF UserDraws
<1>2. row \in StageRow /\ row.status = "INPAINTING"
  <2>1. stage[d] \in StageRow
    BY DEF GwInv, GwTypeOK
  <2> QED
    BY <2>1 DEF StageRow, DocStatus
<1> HIDE DEF row
<1>3. driver' \in [Drivers -> DriverRow] /\ spent' \in [DOMAIN GatewayBudget -> Nat]
  BY <1>1 DEF GwInv, GwTypeOK
<1> QED
  BY <1>1, <1>2, <1>3, RowMoves

LEMMA RerunKeeps ==
    ASSUME GwInv, NEW d \in DocTasks, Rerun(d)
    PROVE  GwInv'
<1> DEFINE row == [status |-> "PREPROCESSING", attempt |-> stage[d].attempt + 1]
<1>1. /\ stage[d].status = "FAILED" /\ stage' = [stage EXCEPT ![d] = row]
      /\ driver' = [j \in Drivers |-> IF DrivesDoc[j] = d /\ driver[j].pc = "over" THEN IdleDriver ELSE driver[j]]
      /\ UNCHANGED <<handler, workDir, delivered>>
  BY Zenon DEF Rerun
<1>2. row \in StageRow /\ row.status = "PREPROCESSING"
  <2>1. stage[d] \in StageRow
    BY DEF GwInv, GwTypeOK
  <2> QED
    BY <2>1 DEF StageRow, DocStatus
<1> HIDE DEF row
<1>3. /\ driver' \in [Drivers -> DriverRow]
      /\ \A j \in Drivers : \/ driver'[j] = driver[j]
                            \/ driver[j].pc = "over" /\ driver'[j] = IdleDriver
  BY <1>1, FreshRows DEF GwInv, GwTypeOK
<1>4. spent' \in [DOMAIN GatewayBudget -> Nat]
  BY SpentTyped, BudgetKinds DEF Rerun, GwInv
<1> QED
  BY <1>1, <1>2, <1>3, <1>4, RowMoves

-----------------------------------------------------------------------------
LEMMA GwInitHolds == GwInit => GwInv
<1> SUFFICES ASSUME GwInit PROVE GwInv
  OBVIOUS
<1> USE DEF GwInit
<1>1. GwTypeOK
  <2>1. stage \in [DocTasks -> StageRow]
    BY DEF StageRow, DocStatus
  <2>2. workDir \in [DocTasks -> [converted : BOOLEAN, page : [DocPages -> Content], old : BOOLEAN]]
    BY DEF Blank, Content
  <2>3. delivered \in [DocTasks -> [DocPages -> Content]]
    BY DEF Blank, Content
  <2>4. driver \in [Drivers -> DriverRow] /\ handler \in [GatewayCalls -> HandlerRow]
    BY FreshRows
  <2>5. spent \in [DOMAIN GatewayBudget -> Nat]
    OBVIOUS
  <2> QED
    BY <2>1, <2>2, <2>3, <2>4, <2>5 DEF GwTypeOK
<1>2. /\ \A j \in Drivers : driver[j].pc = "idle" /\ driver[j].call = NoCall
      /\ \A c \in GatewayCalls : handler[c].pc = "free" /\ handler[c].answer = "none" /\ handler[c].got = Blank
      /\ \A d \in DocTasks : stage[d].status = "PREPROCESSING" /\ delivered[d] = Blank
  BY FreshRows
<1>3. CallsMatch /\ GivenUpRuns /\ SeenIsCurrent /\ OneRuns /\ RunsClean
  BY <1>2 DEF CallsMatch, GivenUpRuns, SeenIsCurrent, OneRuns, RunsClean
<1>4. AnswersClean /\ PackedClean /\ GotClean /\ NothingRawDelivered
  BY <1>2 DEF AnswersClean, PackedClean, GotClean, NothingRawDelivered, Blank
<1> QED
  BY <1>1, <1>3, <1>4 DEF GwInv

LEMMA EveryGwStepKeeps ==
    ASSUME OneSlot, OneJobEach, GwInv, [GwNext]_gwVars
    PROVE  GwInv'
<1>1. \A c \in GatewayCalls : handler[c].sweep \subseteq DocTasks /\ handler[c].todo \subseteq DocPages
  BY DEF GwInv, GwTypeOK, HandlerRow
<1>2. ASSUME NEW j \in Drivers, HearOk(j) \/ HearError(j) \/ ClientTimeout(j) \/ WorkerCrash(j)
      PROVE  GwInv'
  BY <1>2, HearOkKeeps, HearErrorKeeps, ClientTimeoutKeeps, WorkerCrashKeeps, Zenon
<1>3. ASSUME NEW j \in Drivers, NEW c \in GatewayCalls, Ask(j, c)
      PROVE  GwInv'
  BY <1>3, AskKeeps, Zenon
<1>4. ASSUME NEW d \in DocTasks, UserDraws(d) \/ Rerun(d) \/ GrowsOld(d)
      PROVE  GwInv'
  BY <1>4, UserDrawsKeeps, RerunKeeps, GrowsOldKeeps, Zenon
<1>5. ASSUME NEW c \in GatewayCalls,
             \/ Swept(c)
             \/ \E d \in handler[c].sweep : SweepDir(c, d)
             \/ \E x \in handler[c].list : Unlink(c, x)
      PROVE  GwInv'
  <2>1. handler[c].pc = "sweep"
    BY <1>5, Zenon DEF Swept, SweepDir, Unlink
  <2> QED
    BY <1>5, <2>1, SweeperMoves, Zenon
<1>6. ASSUME NEW c \in GatewayCalls, QueueBusy(c) \/ TakeSlot(c) \/ Finish(c) \/ RunFails(c)
      PROVE  GwInv'
  BY <1>6, QueueBusyKeeps, TakeSlotKeeps, FinishKeeps, RunFailsKeeps, Zenon
<1>7. ASSUME NEW c \in GatewayCalls, NEW p \in handler[c].todo, RenderPage(c, p) \/ InpaintPage(c, p) \/ PackPage(c, p)
      PROVE  GwInv'
  <2>1. p \in DocPages
    BY <1>1
  <2> QED
    BY <1>7, <2>1, RenderPageKeeps, InpaintPageKeeps, PackPageKeeps, Zenon
<1>8. CASE UNCHANGED gwVars
  <2>1. UNCHANGED <<stage, driver, handler, workDir, delivered>> /\ NoNewRaw
    BY <1>8 DEF gwVars, NoNewRaw
  <2>2. /\ workDir' \in [DocTasks -> [converted : BOOLEAN, page : [DocPages -> Content], old : BOOLEAN]]
        /\ spent' \in [DOMAIN GatewayBudget -> Nat]
    BY <1>8 DEF gwVars, GwInv, GwTypeOK
  <2> QED
    BY <2>1, <2>2, DirMoves
<1> QED
  <2>1. CASE GwNext
    <3>1. CASE \E j \in Drivers : HearOk(j) \/ HearError(j) \/ ClientTimeout(j) \/ WorkerCrash(j)
      BY <1>2, <3>1, Zenon
    <3>2. CASE \E j \in Drivers, c \in GatewayCalls : Ask(j, c)
      BY <1>3, <3>2, Zenon
    <3>3. CASE \E d \in DocTasks : UserDraws(d) \/ Rerun(d) \/ GrowsOld(d)
      BY <1>4, <3>3, Zenon
    <3>4. ASSUME NEW c \in GatewayCalls,
                 \/ Swept(c) \/ QueueBusy(c) \/ TakeSlot(c) \/ Finish(c) \/ RunFails(c)
                 \/ \E d \in handler[c].sweep : SweepDir(c, d)
                 \/ \E x \in handler[c].list : Unlink(c, x)
                 \/ \E p \in handler[c].todo : RenderPage(c, p) \/ InpaintPage(c, p) \/ PackPage(c, p)
          PROVE  GwInv'
      <4>1. CASE Swept(c) \/ (\E d \in handler[c].sweep : SweepDir(c, d)) \/ (\E x \in handler[c].list : Unlink(c, x))
        BY <1>5, <4>1, Zenon
      <4>2. CASE QueueBusy(c) \/ TakeSlot(c) \/ Finish(c) \/ RunFails(c)
        BY <1>6, <4>2, Zenon
      <4>3. CASE \E p \in handler[c].todo : RenderPage(c, p) \/ InpaintPage(c, p) \/ PackPage(c, p)
        BY <1>7, <4>3, Zenon
      <4> QED
        BY <3>4, <4>1, <4>2, <4>3, Zenon
    <3> QED
      BY <2>1, <3>1, <3>2, <3>3, <3>4, Zenon DEF GwNext
  <2> QED
    BY <1>8, <2>1, Zenon

(* For any documents, pages, calls and budgets, with the pool of one slot  *)
(* and a job of its own for each document: the state keeps its types.      *)
THEOREM GatewayTypeCorrect == ASSUME OneSlot, OneJobEach PROVE GwSpec => []GwTypeOK
<1>1. GwInv /\ [GwNext]_gwVars => GwInv'
  BY EveryGwStepKeeps
<1> QED
  BY <1>1, GwInitHolds, PTL DEF GwSpec, GwInv

(* No page is delivered as it was before inpainting, however timeouts,     *)
(* deaths of workers, reruns, failures and sweeps fall together.           *)
THEOREM DeliveryStaysClean == ASSUME OneSlot, OneJobEach PROVE GwSpec => []DeliveredIsClean
<1>1. GwInv /\ [GwNext]_gwVars => GwInv'
  BY EveryGwStepKeeps
<1>2. GwInv => DeliveredIsClean
  BY DEF GwInv, NothingRawDelivered, DeliveredIsClean
<1> QED
  BY <1>1, <1>2, GwInitHolds, PTL DEF GwSpec
=============================================================================
