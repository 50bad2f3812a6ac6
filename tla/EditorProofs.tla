---------------------------- MODULE EditorProofs ----------------------------
(***************************************************************************)
(* Proofs about module Editor, for any room, any size of a marker and any  *)
(* number of views: what fPart, fSelected and the focus name is there, and *)
(* what is dragged stays where it was under the pointer.                   *)
(***************************************************************************)
EXTENDS Editor, FiniteSetTheorems, TLAPS

\* No view has its ends the wrong way round, although markers are dragged
\* past each other.
FramesInv == \A v \in Children : frames[v].left <= frames[v].right

\* While the mouse button is down fPart is still what MouseDown took hold of.
HoldInv ==
    fTrack =>
        /\ grab.what = "move" =>
             /\ fPart.id = "sel"
             /\ \A v \in DOMAIN grab.views : grab.views[v] \in [left : Int, right : Int]
        /\ grab.what = "resize" =>
             /\ fPart.id \in Markers /\ Cardinality(DOMAIN grab.views) = 1
             /\ grab.at \in Int /\ grab.anchor \in Int

IndInv == PartIsThere /\ FramesInv /\ HoldInv /\ FollowsPointer

-----------------------------------------------------------------------------
(* Of numbers and of finite sets of them.                                  *)

Ends == [left : Int, right : Int]
PartIds == {"no", "bg", "sel", "obj"} \cup Markers

LEMMA MinMax ==
  ASSUME NEW a \in Int, NEW b \in Int
  PROVE  /\ Min({a, b}) = IF a <= b THEN a ELSE b
         /\ Max({a, b}) = IF a <= b THEN b ELSE a
<1>1. \A x \in {a, b} : (\A y \in {a, b} : x <= y) <=> x = IF a <= b THEN a ELSE b
  OBVIOUS
<1>2. \A x \in {a, b} : (\A y \in {a, b} : x >= y) <=> x = IF a <= b THEN b ELSE a
  OBVIOUS
<1>3. /\ Min({a, b}) \in {a, b} /\ \A y \in {a, b} : Min({a, b}) <= y
  <2>1. \E x \in {a, b} : \A y \in {a, b} : x <= y
    OBVIOUS
  <2> QED BY <2>1 DEF Min
<1>4. /\ Max({a, b}) \in {a, b} /\ \A y \in {a, b} : Max({a, b}) >= y
  <2>1. \E x \in {a, b} : \A y \in {a, b} : x >= y
    OBVIOUS
  <2> QED BY <2>1 DEF Max
<1> QED BY <1>1, <1>2, <1>3, <1>4

\* The last child under the pointer, ViewAt: there is one if there is any.
LEMMA MaxIsThere ==
  ASSUME NEW n \in Nat, NEW S \in SUBSET (1..n), S # {}
  PROVE  Max(S) \in S
<1> DEFINE less == OpToRel(<, Nat)
           over == {n - x : x \in S}
<1>1. \A k, m \in Nat : <<k, m>> \in less <=> k < m
  BY DEF OpToRel
<1>2. IsWellFoundedOn(less, Nat)
  BY NatLessThanWellFounded
<1>3. over \in SUBSET Nat /\ over # {}
  <2>1. \A x \in S : n - x \in Nat
    OBVIOUS
  <2>2. PICK x \in S : TRUE
    OBVIOUS
  <2>3. n - x \in over
    BY <2>2
  <2> QED BY <2>1, <2>3
<1> HIDE DEF less
<1>4. PICK d \in over : \A e \in over : <<e, d>> \notin less
  <2> HIDE DEF over
  <2> QED BY <1>2, <1>3, WFMin
<1>5. \A e \in over : e \in Nat /\ d \in Nat /\ ~(e < d)
  BY <1>1, <1>3, <1>4
<1>6. PICK x \in S : d = n - x
  BY <1>4
<1>7. ASSUME NEW y \in S
      PROVE  x >= y
  <2>1. n - y \in over
    OBVIOUS
  <2>2. ~(n - y < n - x)
    BY <1>5, <1>6, <2>1
  <2> QED BY <2>2
<1> QED BY <1>7 DEF Max

\* The selected views are copied in the order of their numbers: each copy is
\* that of one of them.
LEMMA NthIsThere ==
  ASSUME NEW S \in SUBSET Nat, IsFiniteSet(S), NEW i \in 1..Cardinality(S)
  PROVE  \E v \in S : Cardinality({w \in S : w <= v}) = i
<1> DEFINE upto(v) == {w \in S : w <= v}
           rank == [v \in S |-> Cardinality(upto(v))]
<1>1. /\ Cardinality(S) \in Nat
      /\ IsFiniteSet(1..Cardinality(S)) /\ Cardinality(1..Cardinality(S)) = Cardinality(S)
  BY FS_CardinalityType, FS_Interval
<1>2. ASSUME NEW v \in S
      PROVE  /\ IsFiniteSet(upto(v)) /\ Cardinality(upto(v)) \in 1..Cardinality(S)
             /\ v \in upto(v)
  <2>1. upto(v) \in SUBSET S /\ v \in upto(v)
    BY <1>2
  <2>2. IsFiniteSet(upto(v)) /\ Cardinality(upto(v)) <= Cardinality(S)
    BY <2>1, FS_Subset
  <2>3. Cardinality(upto(v)) \in Nat /\ Cardinality(upto(v)) # 0
    BY <2>1, <2>2, FS_CardinalityType, FS_EmptySet
  <2> QED BY <1>1, <2>1, <2>2, <2>3
<1>3. ASSUME NEW u \in S, NEW v \in S, u < v
      PROVE  rank[u] # rank[v]
  <2>1. upto(u) \in SUBSET upto(v) /\ v \notin upto(u)
    <3>1. \A w \in S : w <= u => w <= v
      BY <1>3
    <3>2. ~(v <= u)
      BY <1>3
    <3> QED BY <3>1, <3>2
  <2>2. upto(u) # upto(v)
    BY <1>2, <2>1
  <2> QED BY <1>2, <2>1, <2>2, FS_Subset
<1>4. rank \in Injection(S, 1..Cardinality(S))
  <2>1. rank \in [S -> 1..Cardinality(S)]
    BY <1>2
  <2>2. ASSUME NEW u \in S, NEW v \in S, rank[u] = rank[v]
        PROVE  u = v
    <3> HIDE DEF rank
    <3>1. ~(u < v) /\ ~(v < u)
      BY <1>3, <2>2
    <3> QED BY <3>1
  <2> QED BY <2>1, <2>2 DEF Injection, IsInjective
<1>5. rank \in Surjection(S, 1..Cardinality(S))
  BY <1>1, <1>4, FS_Injection
<1>6. PICK v \in S : rank[v] = i
  BY <1>5 DEF Surjection
<1> QED BY <1>6

\* The one selected view.
LEMMA TheSingleton ==
  ASSUME IsSingleton
  PROVE  Singleton \in fSelected /\ (IsFiniteSet(fSelected) => fSelected = {Singleton})
<1>1. fSelected # {}
  BY FS_EmptySet DEF IsSingleton
<1>2. Singleton \in fSelected
  BY <1>1 DEF Singleton
<1>3. IsFiniteSet(fSelected) => \E x : fSelected = {x}
  BY FS_Singleton DEF IsSingleton
<1> QED BY <1>2, <1>3

\* There are finitely many views.
LEMMA FiniteSelection ==
  ASSUME PartIsThere
  PROVE  IsFiniteSet(fSelected) /\ fSelected \in SUBSET Nat /\ Cardinality(fSelected) \in Nat
<1>1. made \in Nat /\ fSelected \in SUBSET (1..made)
  BY EditorAssumption DEF PartIsThere, TypeOK
<1>2. IsFiniteSet(1..made)
  BY <1>1, FS_Interval
<1>3. IsFiniteSet(fSelected)
  BY <1>1, <1>2, FS_Subset
<1> QED BY <1>1, <1>3, FS_CardinalityType

LEMMA ChildrenAreViews == PartIsThere => Children \subseteq Views
BY EditorAssumption DEF PartIsThere, TypeOK, Views

\* UpdatePart finds a child that is not selected, or a marker of the one that is.
LEMMA WhatIsUnder ==
  ASSUME PartIsThere, NEW pos \in Pos
  PROVE  /\ PartAt(pos) \in [id : PartIds, obj : Views \cup {None}]
         /\ PartAt(pos).id = "obj" => PartAt(pos).obj \in Children \ fSelected
         /\ PartAt(pos).id \in Markers => IsSingleton
<1> DEFINE near == {m \in Markers : IsSingleton /\ LET end == End(frames[Singleton], m) IN end - markerSize <= pos /\ pos <= end + markerSize}
           below == {v \in Children : Contains(v, pos)}
<1>1. near # {} => IsSingleton
  OBVIOUS
<1>2. below # {} => Max(below) \in below
  <2>1. made \in Nat /\ Children \subseteq 1..made
    BY EditorAssumption DEF PartIsThere, TypeOK
  <2>2. below \in SUBSET (1..made)
    BY <2>1
  <2> HIDE DEF below
  <2> QED BY <2>1, <2>2, MaxIsThere
<1>3. below \subseteq Children /\ Children \subseteq Views
  BY EditorAssumption DEF PartIsThere, TypeOK, Views
<1>4. PartAt(pos) =
        CASE "marker1" \in near -> Part("marker1")
          [] near = {"marker0"} -> Part("marker0")
          [] near = {} /\ below \cap fSelected # {} -> Part("sel")
          [] near = {} /\ below \cap fSelected = {} /\ below # {} -> [id |-> "obj", obj |-> Max(below)]
          [] OTHER -> Part("bg")
  BY DEF PartAt
<1> HIDE DEF near, below
<1>5. \/ PartAt(pos) = Part("marker1") /\ near # {}
      \/ PartAt(pos) = Part("marker0") /\ near # {}
      \/ PartAt(pos) = Part("sel")
      \/ PartAt(pos) = [id |-> "obj", obj |-> Max(below)] /\ below \cap fSelected = {} /\ below # {}
      \/ PartAt(pos) = Part("bg")
  BY <1>4
<1> QED BY <1>1, <1>2, <1>3, <1>5 DEF Part, Markers, PartIds

\* A point of an interval, where the bounds are numbers.
LEMMA PosIsInt == Pos \subseteq Int /\ 0 \in Pos
BY EditorAssumption DEF Pos

-----------------------------------------------------------------------------
(* The actions.                                                            *)

LEMMA InitInv == Init => IndInv
<1> SUFFICES ASSUME Init PROVE IndInv
  OBVIOUS
<1>1. Children = {} /\ made \in 0..MaxViews
  BY EditorAssumption DEF Init, Children
<1>2. fPart \in [id : PartIds, obj : Views \cup {None}] /\ fPart.id = "no"
  BY DEF Init, Part, PartIds
<1>3. PartIsThere
  BY <1>1, <1>2, PosIsInt DEF Init, PartIsThere, TypeOK, PartIds, Markers
<1>4. FramesInv /\ HoldInv /\ FollowsPointer
  BY <1>1 DEF Init, FramesInv, HoldInv, FollowsPointer
<1> QED BY <1>3, <1>4 DEF IndInv

\* The pointer moves over the view with the mouse button up.
LEMMA MouseMovedInv ==
  ASSUME IndInv, MouseMoved
  PROVE  IndInv'
<1>1. PICK pos \in Pos : Mine(pos) /\ fPos' = pos /\ (fPart' = PartAt(pos) \/ fPart' = [fPart EXCEPT !.id = "no"])
  BY DEF MouseMoved
<1>2. PartIsThere'
  BY <1>1, WhatIsUnder DEF IndInv, MouseMoved, Mine, PartIsThere, TypeOK, Children, IsSingleton, Markers, PartIds
<1>3. FramesInv' /\ HoldInv' /\ FollowsPointer'
  BY DEF IndInv, MouseMoved, FramesInv, HoldInv, FollowsPointer, Children
<1> QED BY <1>2, <1>3 DEF IndInv

\* The selection is dragged: every view of it by as much as the pointer.
LEMMA DragInv ==
  ASSUME IndInv, Drag
  PROVE  IndInv'
<1>1. PICK pos \in Pos :
        /\ IF fPart.id = "sel" THEN MoveSelection(pos - fPos) ELSE UNCHANGED frames
        /\ fPos' = pos
  BY DEF Drag
<1>2. /\ pos \in Int /\ fPos \in Int /\ fTrack /\ fPart.id \notin Markers
      /\ UNCHANGED <<fSelected, fPart, fTrack, fPos0, focus, made, crashed, cleared, grab>>
  BY PosIsInt DEF Drag, IndInv, PartIsThere, TypeOK
<1>3. \A v \in Children : frames[v] \in Ends
  BY DEF IndInv, PartIsThere, TypeOK, Ends
<1>4. /\ Children' = Children
      /\ \A v \in Children : frames'[v] = IF fPart.id = "sel" /\ v \in fSelected THEN Moved(v, pos - fPos) ELSE frames[v]
  BY <1>1 DEF MoveSelection, Children
<1>5. ASSUME NEW v \in Children
      PROVE  frames'[v] \in Ends /\ frames'[v].left <= frames'[v].right
  <2>1. frames[v].left \in Int /\ frames[v].right \in Int /\ frames[v].left <= frames[v].right
    BY <1>3 DEF Ends, IndInv, FramesInv
  <2>2. CASE fPart.id = "sel" /\ v \in fSelected
    <3>1. frames'[v] = [left |-> frames[v].left + (pos - fPos), right |-> frames[v].right + (pos - fPos)]
      BY <1>4, <2>2 DEF Moved
    <3> QED BY <1>2, <2>1, <3>1 DEF Ends
  <2>3. CASE ~(fPart.id = "sel" /\ v \in fSelected)
    BY <1>3, <1>4, <2>1, <2>3
  <2> QED BY <2>2, <2>3
<1>6. PartIsThere'
  BY <1>1, <1>2, <1>4, <1>5 DEF IndInv, PartIsThere, TypeOK, IsSingleton, Ends
<1>7. FramesInv'
  BY <1>4, <1>5 DEF FramesInv
<1>8. HoldInv'
  BY <1>2 DEF IndInv, HoldInv
<1>9. FollowsPointer'
  <2> SUFFICES ASSUME fSelected = DOMAIN grab.views, grab.what = "move", NEW v \in fSelected
               PROVE  frames'[v] = [left |-> pos + grab.views[v].left, right |-> pos + grab.views[v].right]
    BY <1>1, <1>2 DEF FollowsPointer, IndInv, HoldInv
  <2>1. fPart.id = "sel" /\ grab.views[v] \in Ends
    BY <1>2 DEF IndInv, HoldInv, Ends
  <2>2. frames[v] = [left |-> fPos + grab.views[v].left, right |-> fPos + grab.views[v].right]
    BY <1>2 DEF IndInv, FollowsPointer
  <2>3. frames'[v] = [left |-> frames[v].left + (pos - fPos), right |-> frames[v].right + (pos - fPos)]
    BY <1>4, <2>1 DEF IndInv, PartIsThere, Moved
  <2> QED BY <1>2, <2>1, <2>2, <2>3 DEF Ends
<1> QED BY <1>6, <1>7, <1>8, <1>9 DEF IndInv

\* A marker is dragged: the end it stands for by as much as the pointer, and
\* past the other end it becomes the other marker.
LEMMA ResizeInv ==
  ASSUME IndInv, Resize
  PROVE  IndInv'
<1> DEFINE s == Singleton
           other == End(frames[s], Other(fPart.id))
           end(pos) == End(frames[s], fPart.id) + pos - fPos
<1>1. PICK pos \in Pos :
        /\ frames' = [frames EXCEPT ![s] = [left |-> Min({end(pos), other}), right |-> Max({end(pos), other})]]
        /\ fPart' = IF IF fPart.id = "marker0" THEN end(pos) > other ELSE end(pos) < other THEN Part(Other(fPart.id)) ELSE fPart
        /\ fPos' = pos
  BY DEF Resize
<1>2. /\ pos \in Int /\ fPos \in Int /\ fTrack /\ fPart.id \in Markers /\ IsSingleton
      /\ UNCHANGED <<fSelected, fTrack, fPos0, focus, made, crashed, cleared, grab>>
  BY PosIsInt DEF Resize, IndInv, PartIsThere, TypeOK
<1>3. fSelected = {s} /\ s \in Children /\ frames[s] \in Ends
  BY <1>2, TheSingleton, FiniteSelection DEF IndInv, PartIsThere, TypeOK, Ends
<1>4. other \in Int /\ end(pos) \in Int /\ s' = s
  BY <1>2, <1>3 DEF Ends, End, Other, Markers, Singleton
<1> DEFINE e == end(pos)
           frame == [left |-> IF e <= other THEN e ELSE other, right |-> IF e <= other THEN other ELSE e]
<1>5. frames' = [frames EXCEPT ![s] = frame]
  BY <1>1, <1>4, MinMax
<1>6. /\ Children' = Children /\ frames'[s] = frame /\ frame \in Ends /\ frame.left <= frame.right
      /\ \A v \in Children : v # s => frames'[v] = frames[v]
  BY <1>3, <1>4, <1>5 DEF Children, Ends
<1>7. /\ fPart' \in [id : PartIds, obj : Views \cup {None}] /\ fPart'.id \in Markers
      /\ End(frame, fPart'.id) = e
  BY <1>1, <1>2, <1>4 DEF IndInv, PartIsThere, TypeOK, Part, Other, End, Markers, PartIds
<1>8. PartIsThere'
  <2>1. \A v \in Children' : frames'[v] \in [left : Int, right : Int]
    BY <1>6 DEF IndInv, PartIsThere, TypeOK, Ends
  <2> QED BY <1>1, <1>2, <1>6, <1>7, <2>1 DEF IndInv, PartIsThere, TypeOK, IsSingleton, PartIds, Markers
<1>9. FramesInv'
  BY <1>6 DEF IndInv, FramesInv
<1>10. HoldInv'
  BY <1>2, <1>7 DEF IndInv, HoldInv, Markers
<1>11. FollowsPointer'
  <2> SUFFICES ASSUME fSelected = DOMAIN grab.views, grab.what = "resize"
               PROVE  /\ frames'[s] = [left |-> Min({pos + grab.at, grab.anchor}), right |-> Max({pos + grab.at, grab.anchor})]
                      /\ End(frames'[s], fPart'.id) = pos + grab.at
    BY <1>1, <1>2, <1>4 DEF FollowsPointer, IndInv, HoldInv, Markers
  <2>1. grab.at \in Int /\ grab.anchor \in Int
    BY <1>2 DEF IndInv, HoldInv
  <2> DEFINE at == fPos + grab.at
  <2>2. /\ frames[s] = [left |-> Min({at, grab.anchor}), right |-> Max({at, grab.anchor})]
        /\ End(frames[s], fPart.id) = at
    BY <1>2 DEF IndInv, FollowsPointer
  <2>3. frames[s] = [left |-> IF at <= grab.anchor THEN at ELSE grab.anchor, right |-> IF at <= grab.anchor THEN grab.anchor ELSE at]
    BY <1>2, <2>1, <2>2, MinMax
  <2>4. other = grab.anchor
    <3>1. at \in Int
      BY <1>2, <2>1
    <3> HIDE DEF at
    <3>2. CASE fPart.id = "marker0"
      <4>1. End(frames[s], fPart.id) = frames[s].left /\ other = frames[s].right
        BY <3>2 DEF End, Other
      <4> QED BY <2>1, <2>2, <2>3, <3>1, <4>1
    <3>3. CASE fPart.id = "marker1"
      <4>1. End(frames[s], fPart.id) = frames[s].right /\ other = frames[s].left
        BY <3>3 DEF End, Other
      <4> QED BY <2>1, <2>2, <2>3, <3>1, <4>1
    <3> QED BY <1>2, <3>2, <3>3 DEF Markers
  <2>5. e = pos + grab.at
    BY <1>2, <2>1, <2>2
  <2>6. frames'[s] = [left |-> Min({e, other}), right |-> Max({e, other})]
    BY <1>4, <1>6, MinMax
  <2> HIDE DEF e, other, frame
  <2> QED BY <1>6, <1>7, <2>4, <2>5, <2>6
<1> QED BY <1>8, <1>9, <1>10, <1>11 DEF IndInv

\* A marker is dragged, of a view that a key has deselected.
LEMMA ResizeNothingInv ==
  ASSUME IndInv, ResizeNothing
  PROVE  IndInv'
BY DEF IndInv, ResizeNothing, PartIsThere, TypeOK, FramesInv, HoldInv, FollowsPointer, Children, IsSingleton, Singleton, End

\* What fPart becomes when it names no view.
LEMMA PartIsPart ==
  \A id \in PartIds : Part(id) \in [id : PartIds, obj : Views \cup {None}] /\ Part(id).id = id
BY DEF Part

\* MouseDown remembers where the views are under the pointer.
LEMMA GrabInv ==
  ASSUME IndInv, Track, PartIsThere',
         fPart'.id \in Markers => UNCHANGED <<frames, fSelected, fPart>>
  PROVE  HoldInv' /\ FollowsPointer'
<1>1. /\ fPos' = fPos /\ fPos \in Int /\ fTrack' = TRUE /\ grab' = Grabbed
  BY PosIsInt DEF Track, IndInv, PartIsThere, TypeOK
<1>2. \A v \in fSelected' : frames'[v] \in Ends
  BY DEF PartIsThere, TypeOK, Ends
<1>3. CASE fPart'.id = "sel"
  <2>1. /\ grab'.what = "move"
        /\ grab'.views = [v \in fSelected' |-> [left |-> frames'[v].left - fPos, right |-> frames'[v].right - fPos]]
    BY <1>1, <1>3 DEF Grabbed, NoGrab, Markers
  <2>2. ASSUME NEW v \in fSelected'
        PROVE  /\ grab'.views[v] \in Ends
               /\ frames'[v] = [left |-> fPos + grab'.views[v].left, right |-> fPos + grab'.views[v].right]
    <3>1. grab'.views[v] = [left |-> frames'[v].left - fPos, right |-> frames'[v].right - fPos]
      BY <2>1
    <3>2. frames'[v] = [left |-> frames'[v].left, right |-> frames'[v].right] /\ frames'[v].left \in Int /\ frames'[v].right \in Int
      BY <1>2 DEF Ends
    <3> QED BY <1>1, <3>1, <3>2 DEF Ends
  <2>3. HoldInv'
    BY <1>3, <2>1, <2>2 DEF HoldInv, Ends
  <2>4. FollowsPointer'
    BY <1>1, <2>1, <2>2 DEF FollowsPointer
  <2> QED BY <2>3, <2>4
<1>4. CASE fPart'.id \in Markers /\ IsSingleton
  <2> DEFINE s == Singleton
             other == End(frames[s], Other(fPart.id))
             end == End(frames[s], fPart.id)
  <2>1. /\ grab'.what = "resize" /\ grab'.views = [v \in fSelected |-> frames[v]]
        /\ grab'.anchor = other /\ grab'.at = end - fPos
    BY <1>1, <1>4 DEF Grabbed, NoGrab, Markers
  <2>2. /\ UNCHANGED <<frames, fSelected, fPart>> /\ s' = s
        /\ fPart.id \in Markers
    BY <1>4 DEF Singleton
  <2>3. s \in fSelected /\ frames[s] \in Ends /\ frames[s].left <= frames[s].right
    BY <1>4, TheSingleton DEF IndInv, PartIsThere, TypeOK, FramesInv, Ends
  <2>4. other \in Int /\ end \in Int
    BY <2>2, <2>3 DEF Ends, End, Other, Markers
  <2>5. HoldInv'
    BY <1>1, <1>4, <2>1, <2>4 DEF HoldInv, IsSingleton
  <2>6. fPos' + grab'.at = end /\ grab'.anchor = other
    BY <1>1, <2>1, <2>4
  <2>7. frames[s] = [left |-> Min({end, other}), right |-> Max({end, other})]
    <3>1. frames[s] = [left |-> frames[s].left, right |-> frames[s].right] /\ frames[s].left \in Int /\ frames[s].right \in Int
      BY <2>3 DEF Ends
    <3>2. \/ end = frames[s].left /\ other = frames[s].right
          \/ end = frames[s].right /\ other = frames[s].left
      BY <2>2 DEF End, Other, Markers
    <3>3. /\ Min({end, other}) = IF end <= other THEN end ELSE other
          /\ Max({end, other}) = IF end <= other THEN other ELSE end
      BY <2>4, MinMax
    <3> QED BY <2>3, <3>1, <3>2, <3>3
  <2> HIDE DEF other, end
  <2>8. FollowsPointer'
    <3> SUFFICES ASSUME TRUE
                 PROVE  /\ frames'[s] = [left |-> Min({fPos' + grab'.at, grab'.anchor}), right |-> Max({fPos' + grab'.at, grab'.anchor})]
                        /\ End(frames'[s], fPart'.id) = fPos' + grab'.at
      BY <2>1, <2>2 DEF FollowsPointer
    <3>1. End(frames[s], fPart.id) = end
      BY DEF end
    <3> QED BY <2>2, <2>6, <2>7, <3>1
  <2> QED BY <2>5, <2>8
<1>5. CASE fPart'.id # "sel" /\ ~(fPart'.id \in Markers /\ IsSingleton)
  <2>1. grab'.what = "nothing"
    BY <1>1, <1>5 DEF Grabbed, NoGrab
  <2> QED BY <2>1 DEF HoldInv, FollowsPointer
<1> QED BY <1>3, <1>4, <1>5

\* A view that is not selected: it is selected, has the focus or is copied.
LEMMA PressObjInv ==
  ASSUME IndInv, PressObj
  PROVE  IndInv'
<1>1. /\ fPart.id = "obj" /\ fPart.obj \in Children \ fSelected /\ frames[fPart.obj] \in Ends
      /\ ~crashed /\ crashed' = crashed /\ cleared' = cleared
      /\ fPos' = fPos /\ fPos0' = fPos /\ fTrack' = TRUE /\ fPos \in Pos
      /\ Children \subseteq 1..made /\ made \in 0..MaxViews
      /\ \A v \in Children : frames[v] \in Ends
  BY DEF IndInv, PartIsThere, TypeOK, PressObj, Mine, Track, Ends
<1>2. CASE AddChild(frames[fPart.obj]) /\ fSelected' = {made'} /\ fPart' = Part("sel") /\ focus' = Editor
  <2>1. /\ made' = made + 1 /\ made' \in 0..MaxViews /\ Children' = Children \cup {made'} /\ Children' \subseteq 1..made'
        /\ \A v \in Children' : frames'[v] = IF v = made' THEN frames[fPart.obj] ELSE frames[v]
    BY <1>1, <1>2, EditorAssumption DEF AddChild, Children
  <2>2. fPart' \in [id : PartIds, obj : Views \cup {None}] /\ fPart'.id = "sel"
    BY <1>2, PartIsPart DEF PartIds
  <2>3. \A v \in Children' : frames'[v] \in Ends
    BY <1>1, <2>1
  <2>4. PartIsThere'
    BY <1>1, <1>2, <2>1, <2>2, <2>3 DEF PartIsThere, TypeOK, Markers, Ends, PartIds, IndInv
  <2>5. FramesInv'
    BY <1>1, <2>1 DEF IndInv, FramesInv
  <2> QED BY <1>2, <2>4, <2>5, GrabInv DEF IndInv, PressObj, Part, Markers
<1>3. CASE /\ UNCHANGED <<frames, made>>
           /\ \/ fSelected' = {fPart.obj} /\ fPart' = Part("sel") /\ focus' = Editor
              \/ fSelected' = {} /\ fPart' = Part("no") /\ focus' = fPart.obj
  <2>1. fPart' \in [id : PartIds, obj : Views \cup {None}] /\ fPart'.id \in {"sel", "no"}
    BY <1>3, PartIsPart DEF PartIds
  <2>2. PartIsThere'
    BY <1>1, <1>3, <2>1, ChildrenAreViews DEF IndInv, PartIsThere, TypeOK, PartIds, Markers, Ends, Children
  <2>3. FramesInv'
    BY <1>3 DEF IndInv, FramesInv, Children
  <2> QED BY <1>3, <2>2, <2>3, GrabInv DEF IndInv, PressObj, Part, Markers
<1> QED BY <1>2, <1>3 DEF PressObj

\* The selection: it stays, gives its one view the focus, or is copied.
LEMMA PressSelInv ==
  ASSUME IndInv, PressSel
  PROVE  IndInv'
<1>1. /\ fPart.id = "sel" /\ fPart \in [id : PartIds, obj : Views \cup {None}]
      /\ ~crashed /\ crashed' = crashed /\ cleared' = cleared
      /\ fPos' = fPos /\ fPos0' = fPos /\ fTrack' = TRUE /\ fPos \in Pos
      /\ Children \subseteq 1..made /\ made \in 0..MaxViews
      /\ \A v \in Children : frames[v] \in Ends
  BY DEF IndInv, PartIsThere, TypeOK, PressSel, Mine, Track, Ends, PartIds
<1> DEFINE n == Cardinality(fSelected)
           copies == (made + 1)..(made + n)
           nth(i) == CHOOSE v \in fSelected : Cardinality({w \in fSelected : w <= v}) = i - made
<1>2. CASE /\ made' = made + n /\ made' <= MaxViews
           /\ frames' = [v \in Children \cup copies |-> IF v \in copies THEN frames[nth(v)] ELSE frames[v]]
           /\ fSelected' = copies /\ focus' = Editor /\ UNCHANGED fPart
  <2>1. n \in Nat /\ made \in Nat /\ IsFiniteSet(fSelected) /\ fSelected \in SUBSET Nat
    BY <1>1, FiniteSelection, EditorAssumption DEF IndInv
  <2>2. ASSUME NEW i \in copies
        PROVE  nth(i) \in fSelected
    <3>1. i - made \in 1..Cardinality(fSelected)
      BY <2>1
    <3>2. \E v \in fSelected : Cardinality({w \in fSelected : w <= v}) = i - made
      BY <2>1, <3>1, NthIsThere
    <3> QED BY <3>2
  <2>3. /\ Children' = Children \cup copies
        /\ \A v \in Children' : \E u \in Children : frames'[v] = frames[u]
    BY <1>2, <2>2 DEF Children, IndInv, PartIsThere
  <2>4. Children' \subseteq 1..made' /\ made' \in 0..MaxViews
    <3>1. copies \subseteq 1..(made + n)
      BY <2>1
    <3>2. 1..made \subseteq 1..(made + n)
      BY <2>1
    <3>3. made + n \in 0..MaxViews
      BY <1>2, <2>1, EditorAssumption
    <3> QED BY <1>1, <1>2, <2>3, <3>1, <3>2, <3>3
  <2> HIDE DEF copies
  <2>5. \A v \in Children' : frames'[v] \in Ends
    BY <1>1, <2>3
  <2>6. PartIsThere'
    BY <1>1, <1>2, <2>3, <2>4, <2>5 DEF PartIsThere, TypeOK, Markers, Ends, PartIds, IndInv
  <2>7. FramesInv'
    BY <2>3 DEF IndInv, FramesInv
  <2> QED BY <1>1, <1>2, <2>6, <2>7, GrabInv DEF IndInv, PressSel, Markers
<1>3. CASE focus' = Editor /\ UNCHANGED <<frames, made, fSelected, fPart>>
  <2>1. PartIsThere'
    BY <1>1, <1>3 DEF IndInv, PartIsThere, TypeOK, Markers, Ends, Children
  <2>2. FramesInv'
    BY <1>3 DEF IndInv, FramesInv, Children
  <2> QED BY <1>3, <2>1, <2>2, GrabInv DEF IndInv, PressSel
<1>4. CASE IsSingleton /\ focus' = Singleton /\ fSelected' = {} /\ fPart' = Part("no") /\ UNCHANGED <<frames, made>>
  <2>1. Singleton \in Children
    BY <1>4, TheSingleton DEF IndInv, PartIsThere
  <2>2. fPart' \in [id : PartIds, obj : Views \cup {None}] /\ fPart'.id = "no"
    BY <1>4, PartIsPart DEF PartIds
  <2>3. PartIsThere'
    BY <1>1, <1>4, <2>1, <2>2, ChildrenAreViews DEF IndInv, PartIsThere, TypeOK, PartIds, Markers, Ends, Children
  <2>4. FramesInv'
    BY <1>4 DEF IndInv, FramesInv, Children
  <2> QED BY <1>4, <2>3, <2>4, GrabInv DEF IndInv, PressSel, Part, Markers
<1> HIDE DEF copies, nth
<1> QED BY <1>2, <1>3, <1>4 DEF PressSel, copies, nth

\* The background, nothing or a marker.
LEMMA PressElseInv ==
  ASSUME IndInv, PressElse
  PROVE  IndInv'
<1>1. PartIsThere'
  BY DEF IndInv, PressElse, Mine, Track, PartIsThere, TypeOK, Children, IsSingleton, Markers
<1>2. FramesInv'
  BY DEF IndInv, PressElse, FramesInv, Children
<1> QED BY <1>1, <1>2, GrabInv DEF IndInv, PressElse

LEMMA MouseUpInv ==
  ASSUME IndInv, MouseUp
  PROVE  IndInv'
<1>1. fPos \in Pos /\ fPart' = PartAt(fPos) /\ fTrack' = FALSE
  BY DEF MouseUp, IndInv, PartIsThere, TypeOK
<1>2. PartIsThere'
  BY <1>1, WhatIsUnder, PosIsInt DEF IndInv, MouseUp, PartIsThere, TypeOK, Children, IsSingleton, Markers, PartIds
<1>3. FramesInv' /\ HoldInv' /\ FollowsPointer'
  BY <1>1 DEF IndInv, MouseUp, FramesInv, HoldInv, FollowsPointer, Children
<1> QED BY <1>2, <1>3 DEF IndInv

\* A key clears the selection, whatever is being dragged, and may delete it.
LEMMA KeyDownInv ==
  ASSUME IndInv, KeyDown
  PROVE  IndInv'
<1>1. /\ Children' \subseteq Children /\ Children \ fSelected \subseteq Children'
      /\ \A v \in Children' : frames'[v] = frames[v]
      /\ fSelected' = {} /\ focus = Editor /\ cleared' = (cleared \/ fSelected # {})
      /\ UNCHANGED <<fPart, fTrack, fPos, fPos0, focus, made, crashed, grab>>
  BY DEF KeyDown, Children
<1>2. IsSingleton => fSelected # {}
  BY TheSingleton
<1>3. PartIsThere'
  BY <1>1, <1>2 DEF IndInv, PartIsThere, TypeOK
<1>4. FramesInv' /\ HoldInv'
  BY <1>1 DEF IndInv, FramesInv, HoldInv
<1>5. FollowsPointer'
  <2> SUFFICES ASSUME fTrack, DOMAIN grab.views = {}, grab.what = "resize"
               PROVE  FALSE
    BY <1>1 DEF FollowsPointer
  <2> QED BY FS_EmptySet DEF IndInv, HoldInv
<1> QED BY <1>3, <1>4, <1>5 DEF IndInv

LEMMA DropInv ==
  ASSUME IndInv, Drop
  PROVE  IndInv'
<1>1. PICK l \in Pos, r \in Pos : l <= r /\ AddChild([left |-> l, right |-> r])
  BY DEF Drop
<1>2. /\ l \in Int /\ r \in Int /\ ~fTrack /\ fSelected' = {made'} /\ focus' = Editor
      /\ UNCHANGED <<fPart, fTrack, fPos, fPos0, crashed, cleared, grab>>
      /\ Children \subseteq 1..made /\ made \in 0..MaxViews
  BY PosIsInt DEF Drop, IndInv, PartIsThere, TypeOK
<1>3. /\ made' = made + 1 /\ made' \in 0..MaxViews /\ Children' = Children \cup {made'} /\ Children' \subseteq 1..made'
      /\ made' \notin Children
      /\ \A v \in Children' : frames'[v] = IF v = made' THEN [left |-> l, right |-> r] ELSE frames[v]
  BY <1>1, <1>2, EditorAssumption DEF AddChild, Children
<1>4. Cardinality(fSelected') = 1
  BY <1>2, FS_Singleton
<1>5. PartIsThere'
  BY <1>2, <1>3, <1>4 DEF IndInv, PartIsThere, TypeOK, IsSingleton
<1>6. FramesInv' /\ HoldInv' /\ FollowsPointer'
  BY <1>1, <1>2, <1>3 DEF IndInv, FramesInv, HoldInv, FollowsPointer
<1> QED BY <1>5, <1>6 DEF IndInv

\* The rubber band selects while nothing is held.
LEMMA DrawAfterChildrenInv ==
  ASSUME IndInv, DrawAfterChildren
  PROVE  IndInv'
<1>1. fTrack /\ fPart.id = "bg" /\ fSelected' \subseteq Children /\ focus' = Editor
      /\ UNCHANGED <<frames, fPart, fTrack, fPos, fPos0, made, crashed, cleared, grab>>
  BY DEF DrawAfterChildren
<1>2. PartIsThere'
  BY <1>1 DEF IndInv, PartIsThere, TypeOK, Children, Markers
<1>3. FramesInv' /\ HoldInv'
  BY <1>1 DEF IndInv, FramesInv, HoldInv, Children
<1>4. grab.what # "move" /\ grab.what # "resize"
  BY <1>1 DEF IndInv, HoldInv, Markers
<1>5. FollowsPointer'
  BY <1>1, <1>4 DEF FollowsPointer
<1> QED BY <1>2, <1>3, <1>5 DEF IndInv

-----------------------------------------------------------------------------
(* The theorems.                                                           *)

LEMMA StutterInv ==
  ASSUME IndInv, UNCHANGED vars
  PROVE  IndInv'
BY DEF IndInv, vars, PartIsThere, TypeOK, FramesInv, HoldInv, FollowsPointer, Children, IsSingleton, Singleton, End

LEMMA Inductive == Spec => []IndInv
<1>1. IndInv /\ [Next]_vars => IndInv'
  BY MouseMovedInv, DragInv, ResizeInv, ResizeNothingInv, PressObjInv, PressSelInv, PressElseInv,
     MouseUpInv, KeyDownInv, DropInv, DrawAfterChildrenInv, StutterInv DEF Next, MouseDown
<1> QED BY InitInv, <1>1, PTL DEF Spec

\* What the editor keeps pointers to is there, although views are deleted
\* and made between two events: fPart.obj is a child that no key deletes
\* before MouseDown selects it (MinApp.cpp:448), and NULL is called only if
\* a key cleared the selection while a marker was held (MinApp.cpp:496).
THEOREM NothingDangles == Spec => []PartIsThere
<1>1. IndInv => PartIsThere
  BY DEF IndInv
<1> QED BY Inductive, <1>1, PTL

\* What was taken hold of stays where it was under the pointer until the
\* button is released, through any number of steps, and a marker that passes
\* the other end of its view (MinApp.cpp:500).
THEOREM HeldFast == Spec => []FollowsPointer
<1>1. IndInv => FollowsPointer
  BY DEF IndInv
<1> QED BY Inductive, <1>1, PTL
=============================================================================
