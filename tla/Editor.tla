------------------------------- MODULE Editor -------------------------------
(***************************************************************************)
(* The form editor: TestView of Editor/MinApp.cpp, in its window's thread. *)
(* Its children are selected, moved, resized, copied and deleted with the  *)
(* mouse and the keyboard; fPart is what was last found under the pointer. *)
(* One coordinate stands for both: a view is an interval, and it has a     *)
(* marker at either end.  Cursors are left out, and so are archives that   *)
(* are not of a view, on which Assert ends the program.                    *)
(***************************************************************************)
EXTENDS Integers, FiniteSets, FiniteSetsExt

CONSTANTS
    MaxPos,      \* bound: the pointer is in 0..MaxPos
    MaxOut,      \* bound: how far out of it a view may be dragged
    markerSize,  \* how far from the end of a view its marker reaches
    MaxViews     \* bound: views made; AddChild appends, so their numbers are in order

ASSUME EditorAssumption == MaxPos \in Nat /\ MaxOut \in Nat /\ markerSize \in Nat /\ MaxViews \in Nat

Pos == 0..MaxPos
Room == (-MaxOut)..(MaxPos + MaxOut)
Views == 1..MaxViews
None == 0
Editor == -1   \* the TestView itself, which may have the focus

VARIABLES
    frames,      \* the frame of every child
    fSelected, fPart, fTrack, fPos,
    fPos0,       \* where the mouse button went down; 0 while it is up, when nothing reads it
    focus,       \* the window's CurrentFocus
    made,        \* how many views have been made
    crashed,     \* a call on what Singleton returned, NULL
    cleared,     \* history: a key has cleared the selection since UpdatePart
    grab         \* history: what MouseDown took hold of

vars == <<frames, fSelected, fPart, fTrack, fPos, fPos0, focus, made, crashed, cleared, grab>>

Children == DOMAIN frames
AddChild(frame) ==
    /\ made < MaxViews /\ made' = made + 1
    /\ frames' = [v \in Children \cup {made'} |-> IF v = made' THEN frame ELSE frames[v]]
Part(id) == [id |-> id, obj |-> None]
NoGrab == [what |-> "nothing", views |-> [v \in {} |-> None], anchor |-> 0, at |-> 0]
Markers == {"marker0", "marker1"}
End(frame, marker) == IF marker = "marker0" THEN frame.left ELSE frame.right
Other(marker) == IF marker = "marker0" THEN "marker1" ELSE "marker0"

Contains(v, pos) == frames[v].left <= pos /\ pos <= frames[v].right
IsSingleton == Cardinality(fSelected) = 1
Singleton == CHOOSE v \in fSelected : TRUE

Init ==
    /\ frames = [v \in {} |-> None] /\ made = 0
    /\ fSelected = {} /\ fPart = Part("no") /\ fTrack = FALSE
    /\ fPos \in Pos /\ fPos0 = 0   \* fPos is not initialized
    /\ focus = Editor /\ crashed = FALSE /\ cleared = FALSE /\ grab = NoGrab

-----------------------------------------------------------------------------
\* UpdatePart, for a pointer at pos: the last marker, the selection, the last child.
PartAt(pos) ==
    LET near == {m \in Markers : IsSingleton /\ LET end == End(frames[Singleton], m) IN end - markerSize <= pos /\ pos <= end + markerSize}
        below == {v \in Children : Contains(v, pos)}
    IN  CASE "marker1" \in near -> Part("marker1")
          [] near = {"marker0"} -> Part("marker0")
          [] near = {} /\ below \cap fSelected # {} -> Part("sel")
          [] near = {} /\ below \cap fSelected = {} /\ below # {} -> [id |-> "obj", obj |-> Max(below)]
          [] OTHER -> Part("bg")

\* MouseMsgFilter: in the child that has the focus the mouse is the child's.
Mine(pos) == ~crashed /\ (focus \in Children => ~Contains(focus, pos))

MouseMoved ==
    /\ ~fTrack
    /\ \E pos \in Pos : Mine(pos) /\ fPos' = pos /\ (fPart' = PartAt(pos) \/ fPart' = [fPart EXCEPT !.id = "no"])
    /\ cleared' = (cleared /\ fPart'.id = "no")
    /\ UNCHANGED <<frames, fSelected, fTrack, fPos0, focus, made, crashed, grab>>

Moved(v, shift) == [left |-> frames[v].left + shift, right |-> frames[v].right + shift]
MoveSelection(shift) == frames' = [v \in Children |-> IF v \in fSelected THEN Moved(v, shift) ELSE frames[v]]

\* MouseMoved, with the mouse button down: the selection is moved.
Drag ==
    /\ ~crashed /\ fTrack /\ fPart.id \notin Markers
    /\ \E pos \in Pos :
          /\ IF fPart.id = "sel" THEN MoveSelection(pos - fPos) ELSE UNCHANGED frames
          /\ fPos' = pos
    /\ \A v \in Children : frames'[v].left \in Room /\ frames'[v].right \in Room
    /\ UNCHANGED <<fSelected, fPart, fTrack, fPos0, focus, made, crashed, cleared, grab>>

\* Mutant: the ends are swapped, and fPart stays.
ResizeUnswapped ==
    /\ ~crashed /\ fTrack /\ fPart.id \in Markers /\ IsSingleton
    /\ \E pos \in Pos :
          LET end == End(frames[Singleton], fPart.id) + pos - fPos
              other == End(frames[Singleton], Other(fPart.id))
          IN  frames' = [frames EXCEPT ![Singleton] = [left |-> Min({end, other}), right |-> Max({end, other})]] /\ fPos' = pos
    /\ UNCHANGED <<fSelected, fPart, fTrack, fPos0, focus, made, crashed, cleared, grab>>

\* A marker is dragged; past the other one it becomes that one.
Resize ==
    /\ ~crashed /\ fTrack /\ fPart.id \in Markers /\ IsSingleton
    /\ \E pos \in Pos :
          LET end == End(frames[Singleton], fPart.id) + pos - fPos
              other == End(frames[Singleton], Other(fPart.id))
              passed == IF fPart.id = "marker0" THEN end > other ELSE end < other
          IN  /\ frames' = [frames EXCEPT ![Singleton] = [left |-> Min({end, other}), right |-> Max({end, other})]]
              /\ fPart' = IF passed THEN Part(Other(fPart.id)) ELSE fPart
              /\ fPos' = pos
    /\ UNCHANGED <<fSelected, fTrack, fPos0, focus, made, crashed, cleared, grab>>

\* Singleton()->Frame(), of NULL.
ResizeNothing ==
    /\ ~crashed /\ fTrack /\ fPart.id \in Markers /\ ~IsSingleton
    /\ crashed' = TRUE
    /\ UNCHANGED <<frames, fSelected, fPart, fTrack, fPos, fPos0, focus, made, cleared, grab>>

-----------------------------------------------------------------------------
(* MouseDown and MouseUp.                                                  *)

Grabbed ==
    CASE fPart'.id = "sel" ->
           [NoGrab EXCEPT !.what = "move", !.views = [v \in fSelected' |-> [left |-> frames'[v].left - fPos, right |-> frames'[v].right - fPos]]]
      [] fPart'.id \in Markers /\ IsSingleton ->
           [NoGrab EXCEPT !.what = "resize", !.views = [v \in fSelected |-> frames[v]],
                          !.anchor = End(frames[Singleton], Other(fPart.id)), !.at = End(frames[Singleton], fPart.id) - fPos]
      [] OTHER -> NoGrab

Track ==
    /\ fTrack' = TRUE /\ fPos0' = fPos
    /\ grab' = Grabbed
    /\ UNCHANGED <<fPos, crashed, cleared>>

\* Mutant: fPart keeps the view that has been selected.
PressObjKept ==
    /\ Mine(fPos) /\ fPart.id = "obj"
    /\ fSelected' = {fPart.obj} /\ fPart' = fPart /\ focus' = Editor
    /\ Track
    /\ UNCHANGED <<frames, made>>

\* A view that is not selected is selected; the rest is as in PressSel.
PressObj ==
    /\ Mine(fPos) /\ fPart.id = "obj"
    /\ \/ fSelected' = {fPart.obj} /\ fPart' = Part("sel") /\ focus' = Editor /\ UNCHANGED <<frames, made>>
       \/ fSelected' = {} /\ fPart' = Part("no") /\ focus' = fPart.obj /\ UNCHANGED <<frames, made>>
       \/ /\ AddChild(frames[fPart.obj])
          /\ fSelected' = {made'} /\ fPart' = Part("sel") /\ focus' = Editor
    /\ Track

\* A double click gives the focus to the view, the command key makes copies.
PressSel ==
    /\ Mine(fPos) /\ fPart.id = "sel"
    /\ \/ focus' = Editor /\ UNCHANGED <<frames, made, fSelected, fPart>>
       \/ /\ IsSingleton
          /\ focus' = Singleton /\ fSelected' = {} /\ fPart' = Part("no")
          /\ UNCHANGED <<frames, made>>
       \/ LET copies == (made + 1)..(made + Cardinality(fSelected))
              nth(i) == CHOOSE v \in fSelected : Cardinality({w \in fSelected : w <= v}) = i - made
          IN  /\ made' = made + Cardinality(fSelected) /\ made' <= MaxViews
              /\ frames' = [v \in Children \cup copies |-> IF v \in copies THEN frames[nth(v)] ELSE frames[v]]
              /\ fSelected' = copies /\ focus' = Editor /\ UNCHANGED fPart
    /\ Track

\* The background, for a rubber band, a marker, or nothing.
PressElse ==
    /\ Mine(fPos) /\ fPart.id \in {"bg", "no"} \cup Markers
    /\ focus' = IF fPart.id = "bg" THEN Editor ELSE focus
    /\ UNCHANGED <<frames, made, fSelected, fPart>>
    /\ Track

MouseDown == PressObj \/ PressSel \/ PressElse

MouseUp ==
    /\ ~crashed /\ (fTrack \/ Mine(fPos))
    /\ fTrack' = FALSE /\ fPart' = PartAt(fPos)
    /\ cleared' = FALSE /\ grab' = NoGrab
    /\ fPos0' = 0
    /\ UNCHANGED <<frames, fSelected, fPos, focus, made, crashed>>

-----------------------------------------------------------------------------
(* The other handlers.                                                     *)

\* Escape; and Delete or Backspace, which delete what was selected.
KeyDown ==
    /\ ~crashed /\ focus = Editor
    /\ \/ UNCHANGED frames
       \/ frames' = [v \in Children \ fSelected |-> frames[v]]
    /\ fSelected' = {}
    /\ cleared' = (cleared \/ fSelected # {})
    /\ UNCHANGED <<fPart, fTrack, fPos, fPos0, focus, made, crashed, grab>>

\* MessageReceived, of a view that was dropped.
Drop ==
    /\ ~crashed /\ ~fTrack
    /\ \E l \in Pos, r \in Pos : l <= r /\ AddChild([left |-> l, right |-> r])
    /\ fSelected' = {made'} /\ focus' = Editor
    /\ UNCHANGED <<fPart, fTrack, fPos, fPos0, crashed, cleared, grab>>

\* The rubber band is selected when it is drawn, which any Invalidate may cause.
DrawAfterChildren ==
    /\ ~crashed /\ fTrack /\ fPart.id = "bg"
    /\ fSelected' = {v \in Children : Min({fPos0, fPos}) <= frames[v].left /\ frames[v].right <= Max({fPos0, fPos})}
    /\ focus' = Editor
    /\ UNCHANGED <<frames, fPart, fTrack, fPos, fPos0, made, crashed, cleared, grab>>

Next == MouseMoved \/ Drag \/ Resize \/ ResizeNothing \/ MouseDown \/ MouseUp \/ KeyDown \/ Drop \/ DrawAfterChildren

Spec == Init /\ [][Next]_vars

-----------------------------------------------------------------------------
TypeOK ==
    /\ Children \subseteq 1..made /\ made \in 0..MaxViews
    /\ \A v \in Children : frames[v] \in [left : Int, right : Int]
    /\ fPart \in [id : {"no", "bg", "sel", "obj"} \cup Markers, obj : Views \cup {None}]
    /\ fTrack \in BOOLEAN /\ fPos \in Pos /\ fPos0 \in Pos
    /\ focus \in Views \cup {Editor} /\ crashed \in BOOLEAN /\ cleared \in BOOLEAN

(***************************************************************************)
(* What fPart, fSelected and the focus name is there, although each of     *)
(* them keeps pointers while views are deleted: fPart.obj is a child that  *)
(* is not selected, so that no key can delete it before MouseDown selects  *)
(* it (MinApp.cpp:448).  A marker that is under the pointer is that of the *)
(* one selected view, unless a key has cleared the selection since; only   *)
(* then does the program crash (MinApp.cpp:496).                           *)
(***************************************************************************)
PartIsThere ==
    /\ TypeOK
    /\ fSelected \subseteq Children /\ focus \in Children \cup {Editor}
    /\ fPart.id = "obj" => fPart.obj \in Children \ fSelected /\ ~fTrack
    /\ fPart.id \in Markers => IsSingleton \/ cleared
    /\ crashed => cleared

(***************************************************************************)
(* While the mouse button is down the views that were taken hold of stay   *)
(* where they were under the pointer; of a view that is resized the end    *)
(* that fPart names does, past the other end, too (MinApp.cpp:500), which  *)
(* stays where it is.                                                      *)
(***************************************************************************)
FollowsPointer ==
    fTrack /\ fSelected = DOMAIN grab.views =>
        CASE grab.what = "move" ->
               \A v \in fSelected : frames[v] = [left |-> fPos + grab.views[v].left, right |-> fPos + grab.views[v].right]
          [] grab.what = "resize" ->
               LET at == fPos + grab.at
               IN  /\ frames[Singleton] = [left |-> Min({at, grab.anchor}), right |-> Max({at, grab.anchor})]
                   /\ End(frames[Singleton], fPart.id) = at
          [] OTHER -> TRUE
=============================================================================
