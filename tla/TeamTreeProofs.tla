--------------------------- MODULE TeamTreeProofs ---------------------------
(***************************************************************************)
(* Proofs about module TeamTree, for any number of teams and any scenario: *)
(* the types, that a signal goes to the team it was meant for, and that    *)
(* the list shows the teams there are.  Rows are under rows of older teams *)
(* (Forest), which makes Above what its definition says.                   *)
(***************************************************************************)
EXTENDS TeamTree, WellFoundedInduction, TLAPS

\* While an act of the user is queued, the row that was selected is selected
\* still, or no row is: nothing else moves the selection.
Waiting == picked.what # "nothing" => selection \in {None, picked.row}

IndInv == TypeOK /\ Waiting /\ SignalsChosen

\* What becomes of the selection when rows are moved or removed.
LEMMA KeptIsSelection == \A u : Kept(u) \subseteq {None, selection}
BY DEF Kept

LEMMA InitIndInv == Init => IndInv
<1> SUFFICES ASSUME Init PROVE IndInv
  OBVIOUS
<1> PICK s \in Scenario : lastTeam = s.teams /\ left = [starts |-> s.starts, picks |-> s.picks, uses |-> s.uses]
  BY DEF Init
<1>1. s \in [teams : 1..MaxTeam, starts : 0..MaxTeam, picks : Nat, uses : Nat] /\ s.teams + s.starts <= MaxTeam /\ MaxTeam \in Nat \ {0}
  BY TreeAssumption
<1>2. lastTeam \in Team /\ left \in [starts : Nat, picks : Nat, uses : Nat] /\ lastTeam + left.starts \in Team
  BY <1>1 DEF Team
<1>3. parent \in [1..lastTeam -> 0..lastTeam]
  BY DEF Init
<1>4. Alive \subseteq Team /\ parent \in [Alive -> Team \cup {None}]
  BY <1>1, <1>2, <1>3 DEF Alive, Team, None
<1>5. up \in [Rows -> Team \cup {None}] /\ field \in [Rows -> Team \cup {None}] /\ Rows = {}
  BY DEF Init, Empty, Rows
<1>6. TypeOK
  BY <1>2, <1>4, <1>5 DEF Init, TypeOK, Layouts, NotPicked
<1> QED BY <1>6 DEF Init, IndInv, Waiting, SignalsChosen, NotPicked
\* A layout moves rows, and neither makes nor removes one.
LEMMA RelayoutType ==
  ASSUME TypeOK, NEW u, DOMAIN u \subseteq Rows, u \in [DOMAIN u -> Team \cup {None}], NEW layout \in Layouts
  PROVE  Relayout(u, layout) \in [DOMAIN u -> Team \cup {None}]
<1>1. DOMAIN u \subseteq Team
  BY DEF TypeOK
<1>2. CASE layout = "flat"
  BY <1>2 DEF Relayout
<1>3. CASE layout = "tree"
  <2>1. Relayout(u, layout) = [t \in DOMAIN u |-> IF field[t] \in DOMAIN u THEN field[t] ELSE None]
    BY <1>3 DEF Relayout
  <2> QED BY <2>1, <1>1
<1>4. CASE layout = "sessions"
  BY <1>4 DEF Relayout
<1> QED BY <1>2, <1>3, <1>4 DEF Layouts

LEMMA KernelType == TypeOK /\ KernelNext => TypeOK'
<1> SUFFICES ASSUME TypeOK, KernelNext PROVE TypeOK'
  OBVIOUS
<1>0. Kernel \in Team
  BY TreeAssumption DEF Kernel, Team
<1>1. CASE TeamStarts
  <2> PICK p \in Alive : TeamsBecome([t \in Alive \cup {lastTeam'} |-> IF t = lastTeam' THEN p ELSE parent[t]])
    BY <1>1 DEF TeamStarts
  <2>1. lastTeam' = lastTeam + 1 /\ left.starts > 0 /\ left' = [left EXCEPT !.starts = left.starts - 1]
    BY <1>1 DEF TeamStarts
  <2>2. left' \in [starts : Nat, picks : Nat, uses : Nat] /\ left'.starts = left.starts - 1
    BY <2>1 DEF TypeOK
  <2>3. lastTeam' \in Team /\ lastTeam' + left'.starts \in Team
    BY <2>1, <2>2, TreeAssumption DEF TypeOK, Team
  <2>4. parent' = [t \in Alive \cup {lastTeam'} |-> IF t = lastTeam' THEN p ELSE parent[t]]
    BY DEF TeamsBecome
  <2>5. Alive' = Alive \cup {lastTeam'}
    BY <2>4 DEF Alive
  <2>6. Alive' \subseteq Team /\ parent' \in [Alive' -> Team \cup {None}]
    BY <2>3, <2>4, <2>5 DEF TypeOK
  <2> QED BY <2>2, <2>3, <2>6 DEF TeamsBecome, TypeOK, view, user, windows, Rows
<1>2. CASE TeamEnds
  <2> PICK t \in Alive \ {Kernel} :
        /\ TeamsBecome([c \in Alive \ {t} |-> IF parent[c] = t THEN Kernel ELSE parent[c]])
        /\ UNCHANGED <<lastTeam, left>>
    BY <1>2 DEF TeamEnds
  <2>1. parent' = [c \in Alive \ {t} |-> IF parent[c] = t THEN Kernel ELSE parent[c]]
    BY DEF TeamsBecome
  <2>2. Alive' = Alive \ {t}
    BY <2>1 DEF Alive
  <2>3. Alive' \subseteq Team /\ parent' \in [Alive' -> Team \cup {None}]
    BY <1>0, <2>1, <2>2 DEF TypeOK
  <2> QED BY <2>3 DEF TeamsBecome, TypeOK, view, user, windows, Rows
<1> QED BY <1>1, <1>2 DEF KernelNext

\* One step of ListTeams.
LEMMA ListType == TypeOK /\ (ListTeams \/ NextTeam \/ TeamParent \/ ListEnd) => TypeOK'
<1> SUFFICES ASSUME TypeOK, ListTeams \/ NextTeam \/ TeamParent \/ ListEnd PROVE TypeOK'
  OBVIOUS
<1> USE DEF TypeOK, Window, kernel, windows, user
<1>1. CASE ListTeams
  BY <1>1 DEF ListTeams, Idle, Began, view, Rows, Alive
<1>2. CASE NextTeam
  <2> PICK t \in Alive :
        /\ listing' = [at |-> "parent", cookie |-> t, prevRows |-> listing.prevRows \ {t}]
        /\ IF t \in listing.prevRows THEN UNCHANGED <<up, field>>
           ELSE /\ up' = [r \in Rows \cup {t} |-> IF r = t THEN None ELSE up[r]]
                /\ field' = [r \in Rows \cup {t} |-> IF r = t THEN None ELSE field[r]]
    BY <1>2 DEF NextTeam
  <2>1. t \in Team
    OBVIOUS
  <2>2. /\ Rows' \subseteq Team
        /\ up' \in [Rows' -> Team \cup {None}] /\ field' \in [Rows' -> Team \cup {None}]
    <3>1. CASE t \in listing.prevRows
      BY <3>1 DEF Rows
    <3>2. CASE t \notin listing.prevRows
      <4>1. Rows' = Rows \cup {t}
        BY <3>2 DEF Rows
      <4> QED BY <2>1, <3>2, <4>1
    <3> QED BY <3>1, <3>2
  <2>3. listing' \in [at : {"no", "next", "parent"}, cookie : Team \cup {None}, prevRows : SUBSET Team]
    BY <2>1
  <2> QED BY <1>2, <2>2, <2>3 DEF NextTeam, Alive
<1>3. CASE TeamParent
  <2>1. field' \in [Rows -> Team \cup {None}] /\ up' = up
    BY <1>3 DEF TeamParent
  <2>2. listing' \in [at : {"no", "next", "parent"}, cookie : Team \cup {None}, prevRows : SUBSET Team]
    BY <1>3 DEF TeamParent
  <2> QED BY <1>3, <2>1, <2>2 DEF TeamParent, Rows, Alive
<1>4. CASE ListEnd
  <2> DEFINE left0 == Removed(listing.prevRows).remaining
             u == [t \in left0 |-> up[t]]
  <2>1. left0 \subseteq Rows
    BY DEF Removed
  <2>2. DOMAIN u \subseteq Rows /\ u \in [DOMAIN u -> Team \cup {None}]
    BY <2>1
  <2>3. Relayout(u, fLayout) \in [left0 -> Team \cup {None}]
    BY <2>2, RelayoutType
  <2>4. up' = Relayout(u, fLayout) /\ field' = [t \in left0 |-> field[t]]
    BY <1>4 DEF ListEnd
  <2>5. Rows' = left0 /\ field' \in [left0 -> Team \cup {None}]
    BY <2>1, <2>3, <2>4 DEF Rows
  <2>6. selection' \in Team \cup {None}
    <3>1. selection' \in {None} \/ selection' \in Kept(up')
      BY <1>4 DEF ListEnd
    <3>2. Kept(up') \subseteq {None, selection}
      BY KeptIsSelection
    <3> QED BY <3>1, <3>2
  <2>7. crashed' \in BOOLEAN
    BY <1>4 DEF ListEnd
  <2> QED BY <1>4, <2>1, <2>3, <2>4, <2>5, <2>6, <2>7 DEF ListEnd, NotListing, Alive
<1> QED BY <1>1, <1>2, <1>3, <1>4

\* The user, and the other messages.
LEMMA OtherType ==
  TypeOK /\ (Select \/ SelectTab \/ PickAction \/ SetLayout \/ Signal \/ AskTerminate \/ Terminate) => TypeOK'
<1> SUFFICES ASSUME TypeOK, Select \/ SelectTab \/ PickAction \/ SetLayout \/ Signal \/ AskTerminate \/ Terminate
             PROVE  TypeOK'
  OBVIOUS
<1> USE DEF TypeOK, Rows, Alive, NotPicked, Layouts
<1>1. CASE Select
  BY <1>1 DEF Select, MayClick, Pick, Spend, windows
<1>2. CASE SelectTab
  BY <1>2 DEF SelectTab, MayClick, Pick, Spend, windows
<1>3. CASE PickAction
  BY <1>3 DEF PickAction, Pick, Spend, windows
<1>4. CASE SetLayout
  <2>1. picked.what \in Layouts /\ up' = Relayout(up, picked.what)
    BY <1>4 DEF SetLayout
  <2>2. DOMAIN up = Rows
    OBVIOUS
  <2>3. up' \in [Rows -> Team \cup {None}]
    BY <2>1, <2>2, RelayoutType
  <2>4. selection' \in Team \cup {None}
    BY <1>4, KeptIsSelection DEF SetLayout
  <2> QED BY <1>4, <2>1, <2>3, <2>4 DEF SetLayout, Idle, Window, kernel, windows
<1>5. CASE Signal
  BY <1>5 DEF Signal, Idle, Window, kernel, windows, view
<1>6. CASE AskTerminate
  BY <1>6 DEF AskTerminate, Idle, Window, kernel, windows, view
<1>7. CASE Terminate
  BY <1>7 DEF Terminate, Idle, Window, kernel, windows, view
<1> QED BY <1>1, <1>2, <1>3, <1>4, <1>5, <1>6, <1>7

\* The callers of OpenTeamWindow and the threads of the team windows.
WindowThreads ==
  \/ Invoke \/ HandleScript \/ UseTeamWindow
  \/ \E c \in Openers : OpenTeamWindow(c) \/ Activate(c)
  \/ \E t \in Team : TeamWindowNext(t)

\* They touch nothing but the windows and what was picked.
LEMMA WindowThreadsTouch ==
  ASSUME WindowThreads
  PROVE  /\ UNCHANGED <<parent, lastTeam, view, tab, fLayout, alerts, sent, history, crashed, listing, dangled>>
         /\ left' = left \/ \E deed \in {"picks", "uses"} : left[deed] > 0 /\ left' = [left EXCEPT ![deed] = left[deed] - 1]
         /\ picked' \in {picked, NotPicked}
BY DEF WindowThreads, Invoke, HandleScript, UseTeamWindow, OpenTeamWindow, Activate, TeamWindowNext, Handled, QuitTeamWindow,
       DestroyTeamWindow, TeamWindows, NoMessage, Spend, kernel, view, user

LEMMA WindowThreadsType == TypeOK /\ WindowThreads => TypeOK'
<1> SUFFICES ASSUME TypeOK, WindowThreads PROVE TypeOK'
  OBVIOUS
<1> DEFINE Phases == {"none", "waits", "handles", "stuck", "closing", "quitting"}
           Places == {NotOpening} \cup [at : {"lock", "activate"}, team : Team]
<1>1. teamWindow \in [Team -> Phases] /\ opening \in [Openers -> Places]
  BY DEF TypeOK
<1>2. NotOpening.at = "no" /\ \A c \in Openers : opening[c].at # "no" => opening[c].team \in Team
  BY <1>1 DEF NotOpening
<1>3. teamWindow' \in [Team -> Phases] /\ opening' \in [Openers -> Places]
  <2>1. CASE Invoke
    <3>1. teamWindow' = teamWindow /\ (selection # None => selection \in Team)
      BY <2>1 DEF Invoke, TypeOK
    <3>2. selection # None => [at |-> "lock", team |-> selection] \in Places
      BY <3>1
    <3> QED BY <1>1, <2>1, <3>1, <3>2 DEF Invoke
  <2>2. CASE HandleScript
    <3> PICK t \in Team : opening' = [opening EXCEPT !["application"] = [at |-> "lock", team |-> t]]
      BY <2>2 DEF HandleScript
    <3>1. [at |-> "lock", team |-> t] \in Places
      OBVIOUS
    <3> QED BY <1>1, <2>2, <3>1 DEF HandleScript
  <2>3. CASE UseTeamWindow
    BY <1>1, <2>3 DEF UseTeamWindow, Becomes
  <2>4. ASSUME NEW c \in Openers, OpenTeamWindow(c)
        PROVE  teamWindow' \in [Team -> Phases] /\ opening' \in [Openers -> Places]
    <3>1. opening[c].at = "lock" /\ opening[c].team \in Team
      BY <1>2, <2>4 DEF OpenTeamWindow
    <3>2. CASE teamWindow[opening[c].team] # "none"
      <4>1. teamWindow' = teamWindow /\ opening' = [opening EXCEPT ![c].at = "activate"]
        BY <2>4, <3>2 DEF OpenTeamWindow
      <4>2. opening[c] \in [at : {"lock", "activate"}, team : Team]
        BY <1>1, <1>2, <3>1
      <4>3. [opening[c] EXCEPT !.at = "activate"] \in Places
        BY <4>2
      <4> QED BY <1>1, <4>1, <4>3
    <3>3. CASE teamWindow[opening[c].team] = "none"
      <4>1. PICK made \in {"closing", "waits"} : teamWindow' = [teamWindow EXCEPT ![opening[c].team] = made]
        BY <2>4, <3>3 DEF OpenTeamWindow
      <4>2. opening' = [opening EXCEPT ![c] = NotOpening]
        BY <2>4, <3>3 DEF OpenTeamWindow
      <4> QED BY <1>1, <4>1, <4>2
    <3> QED BY <3>2, <3>3
  <2>5. ASSUME NEW c \in Openers, Activate(c)
        PROVE  teamWindow' \in [Team -> Phases] /\ opening' \in [Openers -> Places]
    BY <1>1, <2>5 DEF Activate
  <2>6. ASSUME NEW t \in Team, TeamWindowNext(t)
        PROVE  teamWindow' \in [Team -> Phases] /\ opening' \in [Openers -> Places]
    BY <1>1, <2>6 DEF TeamWindowNext, Handled, QuitTeamWindow, DestroyTeamWindow, Becomes
  <2> QED BY <2>1, <2>2, <2>3, <2>4, <2>5, <2>6 DEF WindowThreads
<1>4. left' \in [starts : Nat, picks : Nat, uses : Nat] /\ left'.starts = left.starts
  BY WindowThreadsTouch DEF TypeOK
<1>5. picked' \in [what : {"nothing", "terminate", "signal", "invoke"} \cup Layouts, row : Team \cup {None}]
  BY WindowThreadsTouch DEF TypeOK, NotPicked
<1> QED BY <1>3, <1>4, <1>5, WindowThreadsTouch DEF TypeOK, view, Rows, Alive

\* The list, and whatever else the window does, moves the selection nowhere.
LEMMA SelectionStays ==
  ASSUME TypeOK,
         KernelNext \/ ListTeams \/ NextTeam \/ TeamParent \/ ListEnd \/ Terminate
  PROVE  selection' \in {None, selection} /\ picked' = picked
<1>1. CASE KernelNext
  BY <1>1 DEF KernelNext, TeamStarts, TeamEnds, TeamsBecome, view, user
<1>2. CASE ListTeams \/ NextTeam \/ TeamParent
  BY <1>2 DEF ListTeams, NextTeam, TeamParent, view, user
<1>3. CASE ListEnd
  <2>1. selection' \in {None} \/ selection' \in Kept(up')
    BY <1>3 DEF ListEnd
  <2>2. Kept(up') \subseteq {None, selection}
    BY KeptIsSelection
  <2> QED BY <1>3, <2>1, <2>2 DEF ListEnd, user
<1>4. CASE Terminate
  BY <1>4 DEF Terminate, view
<1> QED BY <1>1, <1>2, <1>3, <1>4

\* The steps, by what they are about.
LEMMA NextIs ==
  ASSUME Next
  PROVE  \/ KernelNext \/ ListTeams \/ NextTeam \/ TeamParent \/ ListEnd
         \/ Select \/ SelectTab \/ PickAction \/ SetLayout \/ Signal \/ AskTerminate \/ Terminate
         \/ WindowThreads
BY DEF Next, UserNext, WindowNext, ApplicationNext, WindowThreads, Openers

\* Signals are sent by two messages only.
LEMMA SentBy ==
  ASSUME Next, sent' # sent
  PROVE  Signal \/ Terminate
<1>1. ~WindowThreads
  BY WindowThreadsTouch
<1>2. ~KernelNext /\ ~ListTeams /\ ~NextTeam /\ ~TeamParent /\ ~ListEnd
  BY DEF KernelNext, TeamStarts, TeamEnds, TeamsBecome, ListTeams, NextTeam, TeamParent, ListEnd, user
<1>3. ~Select /\ ~SelectTab /\ ~PickAction /\ ~SetLayout /\ ~AskTerminate
  BY DEF Select, SelectTab, PickAction, MayClick, Pick, SetLayout, AskTerminate
<1> QED BY <1>1, <1>2, <1>3, NextIs

LEMMA StepIndInv == IndInv /\ [Next]_vars => IndInv'
<1> SUFFICES ASSUME IndInv, [Next]_vars PROVE IndInv'
  OBVIOUS
<1> USE DEF IndInv
<1>1. CASE UNCHANGED vars
  BY <1>1 DEF vars, kernel, view, user, windows, history, TypeOK, Waiting, SignalsChosen, Rows, Alive
<1>2. CASE Next
  <2>1. TypeOK'
    BY <1>2, NextIs, KernelType, ListType, OtherType, WindowThreadsType
  <2>2. Waiting'
    <3>1. CASE Select \/ SelectTab
      BY <3>1 DEF Select, SelectTab, MayClick, NotPicked, Waiting
    <3>2. CASE PickAction
      BY <3>2 DEF PickAction, Waiting
    <3>3. CASE SetLayout \/ Signal \/ AskTerminate
      BY <3>3 DEF SetLayout, Signal, AskTerminate, NotPicked, Waiting
    <3>4. CASE KernelNext \/ ListTeams \/ NextTeam \/ TeamParent \/ ListEnd \/ Terminate
      <4>1. selection' \in {None, selection} /\ picked' = picked
        BY <3>4, SelectionStays
      <4> QED BY <4>1 DEF Waiting
    <3>5. CASE WindowThreads
      BY <3>5, WindowThreadsTouch DEF NotPicked, Waiting, view
    <3> QED BY <1>2, <3>1, <3>2, <3>3, <3>4, <3>5, NextIs
  <2>3. SignalsChosen'
    <3>1. CASE Signal
      BY <3>1 DEF Signal, Kill, Waiting, SignalsChosen
    <3>2. CASE Terminate
      BY <3>2 DEF Terminate, Kill, SignalsChosen
    <3>3. CASE sent' = sent
      BY <3>3 DEF SignalsChosen
    <3> QED BY <1>2, <3>1, <3>2, <3>3, SentBy
  <2> QED BY <2>1, <2>2, <2>3
<1> QED BY <1>1, <1>2

LEMMA Invariance == Spec => []IndInv
BY InitIndInv, StepIndInv, PTL DEF Spec

\* The types, for any number of teams.
THEOREM TypeCorrect == Spec => []TypeOK
<1>1. IndInv => TypeOK
  BY DEF IndInv
<1> QED BY Invariance, <1>1, PTL

\* A signal goes to the team that was selected when its menu item was picked,
\* or that its alert named, whatever the list does meanwhile: moving a row can
\* only drop the selection (SystemManager.cpp:610, :616).
THEOREM SignalsGoToChosen == Spec => []SignalsChosen
<1>1. IndInv => SignalsChosen
  BY DEF IndInv
<1> QED BY Invariance, <1>1, PTL

-----------------------------------------------------------------------------
(* What the list shows.                                                    *)

\* Rows are under rows of older teams.
Forest(u) ==
    /\ DOMAIN u \subseteq Team
    /\ \A t \in DOMAIN u : u[t] \in DOMAIN u \cup {None} /\ u[t] < t

\* A team is younger than its parent, and so is what the rows know of it.
KernelInv ==
    /\ Alive \subseteq 1..lastTeam /\ Kernel \in Alive
    /\ \A t \in Alive : parent[t] < t
RowsInv ==
    /\ Forest(up) /\ Forest(before) /\ DOMAIN field = Rows
    /\ \A t \in Rows : field[t] < t

\* What there was since the list was begun.
HistoryInv ==
    /\ lived \subseteq Alive /\ Alive \subseteq seen
    /\ fathers \in [Team -> SUBSET (Team \cup {None})]
    /\ \A t \in Team : \A p \in fathers[t] : p < t
    /\ \A t \in Alive : parent[t] \in fathers[t]

\* While the list is made: the teams up to the cookie have been visited, and
\* prevRows are the rows from before that have not been found.
Visited == Rows \ listing.prevRows
VisitInv ==
    listing.at # "no" =>
        /\ DOMAIN before \subseteq Rows /\ listing.prevRows \subseteq DOMAIN before
        /\ \A t \in DOMAIN before : up[t] = before[t]
        /\ \A t \in Rows \ DOMAIN before : up[t] = None
        /\ Visited \subseteq seen /\ \A t \in Visited : t <= listing.cookie
        /\ \A t \in lived : t <= listing.cookie => t \in Visited
        /\ \A t \in Visited : (listing.at = "parent" /\ t = listing.cookie) \/ field[t] \in fathers[t] \cup {None}
        /\ listing.at = "parent" => listing.cookie \in Visited

ListInv == KernelInv /\ RowsInv /\ HistoryInv /\ VisitInv /\ ListShowsTeams /\ OnlyNestedEndsDangle

-----------------------------------------------------------------------------
(* The rows above a row.                                                   *)

\* A set of numbers that is not empty has a least one.
LEMMA LeastNumber ==
  ASSUME NEW S \in SUBSET Nat, S # {}
  PROVE  \E n \in S : \A m \in S : n <= m
<1> DEFINE less == OpToRel(<, Nat)
<1>1. \A m, n \in Nat : <<m, n>> \in less <=> m < n
  BY DEF OpToRel
<1>2. IsWellFoundedOn(less, Nat)
  BY NatLessThanWellFounded
<1> HIDE DEF less
<1>3. PICK n \in S : \A m \in S : <<m, n>> \notin less
  BY <1>2, WFMin
<1>4. \A m \in S : m \in Nat /\ n \in Nat /\ ~(m < n)
  BY <1>1, <1>3
<1> QED BY <1>3, <1>4

\* The least set with the parent of a row and the parents of all in it.
Closed(u, S) == \A r \in S : u[r] # None => u[r] \in S
Ancestors(u, t) ==
    {a \in DOMAIN u : \A S \in SUBSET DOMAIN u : Closed(u, S) /\ (u[t] # None => u[t] \in S) => a \in S}

\* Above is what its definition says.
LEMMA AboveEquation ==
  ASSUME NEW u, Forest(u), NEW t \in DOMAIN u
  PROVE  Above(u, t) = IF u[t] = None THEN {} ELSE {u[t]} \cup Above(u, u[t])
<1> DEFINE Eq(f) == f = [r \in DOMAIN u |-> IF u[r] = None THEN {} ELSE {u[r]} \cup f[u[r]]]
           anc == [r \in DOMAIN u |-> Ancestors(u, r)]
           above == CHOOSE f : Eq(f)
<1>1. \A r \in DOMAIN u : Ancestors(u, r) = IF u[r] = None THEN {} ELSE {u[r]} \cup Ancestors(u, u[r])
  <2> TAKE r \in DOMAIN u
  <2>1. CASE u[r] = None
    <3>1. {} \in SUBSET DOMAIN u /\ Closed(u, {})
      BY DEF Closed
    <3> QED BY <2>1, <3>1 DEF Ancestors
  <2>2. CASE u[r] # None
    <3> DEFINE p == u[r]
    <3>1. p \in DOMAIN u
      BY <2>2 DEF Forest
    <3>2. {p} \cup Ancestors(u, p) \in SUBSET DOMAIN u
      BY <3>1 DEF Ancestors
    <3>3. Closed(u, {p} \cup Ancestors(u, p))
      BY <3>1 DEF Closed, Ancestors, Forest
    <3>4. Ancestors(u, r) \subseteq {p} \cup Ancestors(u, p)
      BY <3>2, <3>3 DEF Ancestors
    <3>5. {p} \cup Ancestors(u, p) \subseteq Ancestors(u, r)
      BY <2>2, <3>1 DEF Ancestors, Closed
    <3> QED BY <2>2, <3>4, <3>5
  <2> QED BY <2>1, <2>2
<1>2. Eq(anc)
  BY <1>1 DEF Forest
<1>3. Eq(above)
  BY <1>2
<1>4. \A r \in DOMAIN u : Above(u, r) = above[r]
  BY DEF Above
<1> HIDE DEF above
<1>5. above[t] = IF u[t] = None THEN {} ELSE {u[t]} \cup above[u[t]]
  BY <1>3
<1>6. u[t] # None => u[t] \in DOMAIN u
  BY DEF Forest
<1> QED BY <1>4, <1>5, <1>6

LEMMA AboveRows ==
  ASSUME NEW u, Forest(u)
  PROVE  \A t \in DOMAIN u : Above(u, t) \subseteq DOMAIN u
<1> DEFINE bad == {t \in DOMAIN u : ~(Above(u, t) \subseteq DOMAIN u)}
<1>1. SUFFICES ASSUME bad # {} PROVE FALSE
  OBVIOUS
<1>2. bad \in SUBSET Nat
  BY DEF Forest, Team
<1>3. PICK t \in bad : \A s \in bad : t <= s
  BY <1>1, <1>2, LeastNumber
<1>4. u[t] # None /\ u[t] \in DOMAIN u /\ u[t] \in Nat /\ u[t] < t /\ t \in Nat
  BY <1>2, <1>3, AboveEquation DEF Forest, Team
<1>5. u[t] \notin bad
  BY <1>3, <1>4
<1> QED BY <1>3, <1>4, <1>5, AboveEquation

\* More rows change nothing above the rows that were there.
LEMMA AboveStays ==
  ASSUME NEW u, NEW v, Forest(u), Forest(v), DOMAIN u \subseteq DOMAIN v, \A t \in DOMAIN u : v[t] = u[t]
  PROVE  \A t \in DOMAIN u : Above(v, t) = Above(u, t)
<1> DEFINE bad == {t \in DOMAIN u : Above(v, t) # Above(u, t)}
<1>1. SUFFICES ASSUME bad # {} PROVE FALSE
  OBVIOUS
<1>2. bad \in SUBSET Nat
  BY DEF Forest, Team
<1>3. PICK t \in bad : \A s \in bad : t <= s
  BY <1>1, <1>2, LeastNumber
<1>4. /\ Above(u, t) = IF u[t] = None THEN {} ELSE {u[t]} \cup Above(u, u[t])
      /\ Above(v, t) = IF u[t] = None THEN {} ELSE {u[t]} \cup Above(v, u[t])
  BY <1>3, AboveEquation
<1>5. u[t] # None /\ u[t] \in DOMAIN u /\ u[t] \in Nat /\ u[t] < t /\ t \in Nat
  BY <1>2, <1>3, <1>4 DEF Forest, Team
<1>6. u[t] \notin bad
  BY <1>3, <1>5
<1> QED BY <1>3, <1>4, <1>5, <1>6

-----------------------------------------------------------------------------
(* Each step keeps the list right.                                         *)

LEMMA InitListInv == Init => ListInv
<1> SUFFICES ASSUME Init PROVE ListInv
  OBVIOUS
<1> PICK s \in Scenario : lastTeam = s.teams /\ left = [starts |-> s.starts, picks |-> s.picks, uses |-> s.uses]
  BY DEF Init
<1>1. s.teams \in Nat \ {0} /\ s.teams <= MaxTeam /\ MaxTeam \in Nat
  BY TreeAssumption
<1>2. /\ parent \in [1..lastTeam -> 0..lastTeam] /\ Alive = 1..lastTeam /\ Alive \subseteq Team
      /\ \A t \in Alive : parent[t] < t
  BY <1>1 DEF Init, Alive, Team
<1>3. KernelInv
  BY <1>1, <1>2 DEF KernelInv, Kernel
<1>4. Rows = {} /\ DOMAIN field = {} /\ DOMAIN before = {}
  BY DEF Init, Empty, Rows
<1>5. RowsInv
  BY <1>4 DEF RowsInv, Forest, Rows
<1>6. \A t \in Alive : parent[t] \in Team \cup {None}
  BY <1>1, <1>2 DEF Team, None
<1>7. HistoryInv
  BY <1>2, <1>6 DEF Init, HistoryInv
<1>8. \A t \in lived : ~(t <= None)
  BY <1>2 DEF Init, None
<1>9. VisitInv
  BY <1>4, <1>8 DEF Init, VisitInv, Visited, None
<1>10. ListShowsTeams /\ OnlyNestedEndsDangle
  BY DEF Init, ListShowsTeams, Listed, OnlyNestedEndsDangle
<1> QED BY <1>3, <1>5, <1>7, <1>9, <1>10 DEF ListInv

\* Teams that start and end: what is seen only grows, and what lived shrinks.
LEMMA KernelListInv == TypeOK /\ ListInv /\ KernelNext => ListInv'
<1> SUFFICES ASSUME TypeOK, ListInv, KernelNext PROVE ListInv'
  OBVIOUS
<1> USE DEF ListInv
<1>1. PICK teams :
        /\ TeamsBecome(teams)
        /\ DOMAIN teams \subseteq 1..lastTeam' /\ Kernel \in DOMAIN teams
        /\ \A t \in DOMAIN teams : teams[t] < t /\ teams[t] \in Team \cup {None}
        /\ DOMAIN teams \subseteq Team
  <2>1. CASE TeamStarts
    <3> DEFINE n == lastTeam'
    <3>1. PICK p \in Alive : TeamsBecome([t \in Alive \cup {n} |-> IF t = n THEN p ELSE parent[t]])
      BY <2>1 DEF TeamStarts
    <3>2. n = lastTeam + 1 /\ lastTeam \in Nat /\ n \in Team
      BY <2>1, TreeAssumption DEF TeamStarts, TypeOK, Team
    <3>3. p \in Team /\ p < n /\ n \notin Alive /\ Alive \subseteq 1..n
      BY <3>2 DEF KernelInv, TypeOK, Team
    <3> HIDE DEF n
    <3> DEFINE teams == [t \in Alive \cup {n} |-> IF t = n THEN p ELSE parent[t]]
    <3>4. DOMAIN teams \subseteq 1..n /\ DOMAIN teams \subseteq Team /\ Kernel \in DOMAIN teams
      BY <3>2, <3>3 DEF KernelInv, TypeOK
    <3>5. \A t \in DOMAIN teams : teams[t] < t /\ teams[t] \in Team \cup {None}
      BY <3>3 DEF KernelInv, TypeOK
    <3> QED BY <3>1, <3>4, <3>5 DEF n
  <2>2. CASE TeamEnds
    <3>1. PICK t \in Alive \ {Kernel} :
            /\ TeamsBecome([c \in Alive \ {t} |-> IF parent[c] = t THEN Kernel ELSE parent[c]])
            /\ UNCHANGED <<lastTeam, left>>
      BY <2>2 DEF TeamEnds
    <3> DEFINE teams == [c \in Alive \ {t} |-> IF parent[c] = t THEN Kernel ELSE parent[c]]
    <3>2. lastTeam \in Nat /\ t \in 1..lastTeam /\ t > Kernel /\ Kernel \in Team
      BY <3>1, TreeAssumption DEF KernelInv, TypeOK, Kernel, Team
    <3>3. \A c \in Alive : parent[c] = t => Kernel < c
      BY <3>2 DEF KernelInv, Kernel
    <3>4. DOMAIN teams \subseteq 1..lastTeam /\ Kernel \in DOMAIN teams /\ DOMAIN teams \subseteq Team
      BY <3>1 DEF KernelInv, TypeOK
    <3>5. \A c \in DOMAIN teams : teams[c] < c /\ teams[c] \in Team \cup {None}
      BY <3>2, <3>3 DEF KernelInv, TypeOK
    <3> QED BY <3>1, <3>4, <3>5
  <2> QED BY <2>1, <2>2 DEF KernelNext
<1>2. /\ parent' = teams /\ Alive' = DOMAIN teams
      /\ lived' = lived \cap DOMAIN teams /\ seen' = seen \cup DOMAIN teams
      /\ fathers' = [t \in Team |-> fathers[t] \cup IF t \in DOMAIN teams THEN {teams[t]} ELSE {}]
      /\ UNCHANGED <<up, field, fLayout, before, crashed, listing, dangled>>
  BY <1>1 DEF TeamsBecome, Alive, view, user
<1>3. KernelInv' /\ RowsInv'
  BY <1>1, <1>2 DEF KernelInv, RowsInv, Forest, Rows
<1>4. HistoryInv'
  BY <1>1, <1>2 DEF HistoryInv
<1>5. \A t \in Team : fathers[t] \subseteq fathers'[t]
  BY <1>2
<1>6. Rows' = Rows /\ Rows \subseteq Team
  BY <1>2 DEF Rows, TypeOK
<1>7. VisitInv'
  BY <1>2, <1>5, <1>6 DEF VisitInv, Visited
<1>8. ListShowsTeams'
  <2> SUFFICES ASSUME Listed PROVE ListShowsTeams'
    BY <1>2 DEF ListShowsTeams, Listed
  <2>1. Lost' \subseteq Lost
    BY <1>2 DEF Lost
  <2> QED BY <1>2, <1>5, <1>6, <2>1 DEF ListShowsTeams
<1>9. OnlyNestedEndsDangle'
  BY <1>2 DEF OnlyNestedEndsDangle
<1> QED BY <1>3, <1>4, <1>7, <1>8, <1>9

\* The list is begun.
LEMMA BeganListInv == TypeOK /\ ListInv /\ ListTeams => ListInv'
<1> SUFFICES ASSUME TypeOK, ListInv, ListTeams PROVE ListInv'
  OBVIOUS
<1> USE DEF ListInv
<1>1. /\ UNCHANGED <<parent, lastTeam, up, field, fLayout, crashed, dangled>>
      /\ listing' = [at |-> "next", cookie |-> None, prevRows |-> Rows] /\ before' = up
      /\ lived' = Alive /\ seen' = Alive /\ fathers' = [t \in Team |-> IF t \in Alive THEN {parent[t]} ELSE {}]
      /\ crashed = FALSE
  BY DEF ListTeams, Idle, Window, Began, kernel, view, user, TypeOK
<1>2. Alive' = Alive /\ Rows' = Rows /\ Alive \subseteq Team /\ listing'.at # "no"
  BY <1>1 DEF Alive, Rows, TypeOK
<1>3. KernelInv' /\ RowsInv'
  BY <1>1, <1>2 DEF KernelInv, RowsInv, Forest, Rows
<1>4. HistoryInv'
  BY <1>1, <1>2 DEF HistoryInv, KernelInv, TypeOK
<1>5. VisitInv'
  <2>1. \A t \in Team : ~(t <= None)
    BY DEF Team, None
  <2> QED BY <1>1, <1>2, <2>1 DEF VisitInv, Visited, Rows
<1>6. ListShowsTeams' /\ OnlyNestedEndsDangle'
  BY <1>1, <1>2 DEF ListShowsTeams, Listed, OnlyNestedEndsDangle
<1> QED BY <1>3, <1>4, <1>5, <1>6

\* The next team is visited.
LEMMA NextTeamListInv == TypeOK /\ ListInv /\ NextTeam => ListInv'
<1> SUFFICES ASSUME TypeOK, ListInv, NextTeam PROVE ListInv'
  OBVIOUS
<1> USE DEF ListInv
<1>1. PICK t \in Alive :
        /\ t > listing.cookie /\ \A s \in Alive : s > listing.cookie => t <= s
        /\ listing' = [at |-> "parent", cookie |-> t, prevRows |-> listing.prevRows \ {t}]
        /\ IF t \in listing.prevRows THEN UNCHANGED <<up, field>>
           ELSE /\ up' = [r \in Rows \cup {t} |-> IF r = t THEN None ELSE up[r]]
                /\ field' = [r \in Rows \cup {t} |-> IF r = t THEN None ELSE field[r]]
  BY DEF NextTeam
<1>2. /\ UNCHANGED <<parent, lastTeam, fLayout, lived, seen, fathers, before, crashed, dangled>>
      /\ listing.at = "next" /\ crashed = FALSE
  BY DEF NextTeam, Window, kernel, user, history, TypeOK
<1>3. t \in Team /\ None < t /\ Rows \subseteq Team /\ listing.cookie \in Team \cup {None} /\ Alive' = Alive
  BY <1>2 DEF TypeOK, Team, None, Alive
<1>4. t \notin listing.prevRows => t \notin Rows
  BY <1>1, <1>2, <1>3 DEF VisitInv, Visited, Team, None
<1>5. /\ Rows' = Rows \cup {t} /\ DOMAIN field' = Rows'
      /\ \A r \in Rows : up'[r] = up[r] /\ field'[r] = field[r]
      /\ t \notin Rows => up'[t] = None /\ field'[t] = None
  <2>1. CASE t \in listing.prevRows
    BY <1>1, <1>2, <2>1 DEF Rows, RowsInv, VisitInv
  <2>2. CASE t \notin listing.prevRows
    BY <1>1, <1>4, <2>2 DEF Rows, RowsInv
  <2> QED BY <2>1, <2>2
<1>6. KernelInv' /\ HistoryInv'
  BY <1>2, <1>3 DEF KernelInv, HistoryInv
<1>7. RowsInv'
  <2>1. Forest(up)'
    BY <1>3, <1>5 DEF RowsInv, Forest, Rows
  <2>2. \A r \in Rows' : field'[r] < r
    BY <1>3, <1>5 DEF RowsInv
  <2> QED BY <1>2, <1>5, <2>1, <2>2 DEF RowsInv, Forest
<1>8. Visited' = Visited \cup {t}
  BY <1>1, <1>4, <1>5 DEF Visited
<1>9. VisitInv'
  <2>1. DOMAIN before \subseteq Rows' /\ listing'.prevRows \subseteq DOMAIN before
    BY <1>1, <1>2, <1>5 DEF VisitInv
  <2>2. /\ \A r \in DOMAIN before : up'[r] = before[r]
        /\ \A r \in Rows' \ DOMAIN before : up'[r] = None
    BY <1>1, <1>2, <1>4, <1>5 DEF VisitInv
  <2>3. Visited' \subseteq seen /\ \A r \in Visited' : r <= t
    <3>1. Visited' \subseteq seen
      BY <1>2, <1>8 DEF VisitInv, HistoryInv
    <3>2. \A r \in Visited : r \in Int
      BY <1>3 DEF Visited, Team
    <3>3. listing.cookie \in Int /\ t \in Int
      BY <1>3 DEF Team, None
    <3>4. \A r \in Visited : r <= listing.cookie
      BY <1>2 DEF VisitInv
    <3> QED BY <1>1, <1>8, <3>1, <3>2, <3>3, <3>4
  <2>4. \A r \in lived : r <= t => r \in Visited'
    <3> SUFFICES ASSUME NEW r \in lived, r <= t PROVE r \in Visited'
      OBVIOUS
    <3>1. r \in Alive /\ r \in Team
      BY DEF HistoryInv, TypeOK
    <3>2. CASE r > listing.cookie
      BY <1>1, <1>3, <1>8, <3>1, <3>2 DEF Team
    <3>3. CASE r <= listing.cookie
      BY <1>2, <1>8, <3>3 DEF VisitInv
    <3> QED BY <1>3, <3>1, <3>2, <3>3 DEF Team, None
  <2>5. \A r \in Visited' : r = t \/ field'[r] \in fathers[r] \cup {None}
    BY <1>2, <1>5, <1>8 DEF VisitInv, Visited
  <2> QED BY <1>1, <1>2, <1>8, <2>1, <2>2, <2>3, <2>4, <2>5 DEF VisitInv
<1>10. ListShowsTeams' /\ OnlyNestedEndsDangle'
  BY <1>1, <1>2 DEF ListShowsTeams, Listed, OnlyNestedEndsDangle
<1> QED BY <1>6, <1>7, <1>9, <1>10

\* The parent of a team that has been visited is read; its row may be wrong
\* until then.
LEMMA TeamParentListInv == TypeOK /\ ListInv /\ TeamParent => ListInv'
<1> SUFFICES ASSUME TypeOK, ListInv, TeamParent PROVE ListInv'
  OBVIOUS
<1> USE DEF ListInv
<1> DEFINE t == listing.cookie
           p == IF t \in Alive THEN parent[t] ELSE None
<1>1. /\ field' = [field EXCEPT ![t] = p] /\ listing' = [listing EXCEPT !.at = "next"]
      /\ UNCHANGED <<parent, lastTeam, up, fLayout, lived, seen, fathers, before, crashed, dangled>>
      /\ listing.at = "parent" /\ crashed = FALSE
  BY DEF TeamParent, Window, kernel, user, history, TypeOK
<1>2. /\ Alive' = Alive /\ Rows' = Rows /\ t \in Visited /\ t \in Rows /\ t \in Team
      /\ listing'.at = "next" /\ listing'.cookie = t /\ listing'.prevRows = listing.prevRows /\ Visited' = Visited
  BY <1>1 DEF Alive, Rows, Visited, VisitInv, TypeOK
<1>3. p < t /\ p \in fathers[t] \cup {None}
  BY <1>2 DEF KernelInv, HistoryInv, Team, None
<1> HIDE DEF p, t
<1>4. KernelInv' /\ HistoryInv'
  BY <1>1, <1>2 DEF KernelInv, HistoryInv
<1>5. RowsInv'
  BY <1>1, <1>2, <1>3 DEF RowsInv, Forest, Rows
<1>6. \A r \in Visited : field'[r] \in fathers[r] \cup {None}
  BY <1>1, <1>2, <1>3 DEF VisitInv, Visited, RowsInv, t
<1>7. VisitInv'
  BY <1>1, <1>2, <1>6 DEF VisitInv, t
<1>8. ListShowsTeams' /\ OnlyNestedEndsDangle'
  BY <1>1, <1>2 DEF ListShowsTeams, Listed, OnlyNestedEndsDangle
<1> QED BY <1>4, <1>5, <1>7, <1>8

\* The list is done: the rows of teams that are gone are removed.
LEMMA ListEndListInv == TypeOK /\ ListInv /\ ListEnd => ListInv'
<1> SUFFICES ASSUME TypeOK, ListInv, ListEnd PROVE ListInv'
  OBVIOUS
<1> USE DEF ListInv
<1> DEFINE gone == listing.prevRows
           kept == {t \in Rows : ({t} \cup Above(up, t)) \cap gone = {}}
           u == [t \in kept |-> up[t]]
<1>1. /\ UNCHANGED <<parent, lastTeam, fLayout, lived, seen, fathers, before>>
      /\ up' = Relayout(u, fLayout) /\ field' = [t \in kept |-> field[t]]
      /\ dangled' = (\E t \in gone : Above(up, t) \cap gone # {})
      /\ crashed' => dangled'
      /\ listing.at = "next" /\ listing'.at = "no"
      /\ \A t \in Alive : t <= listing.cookie
  BY DEF ListEnd, Window, kernel, user, history, Removed, NotListing
<1>2. /\ Forest(up) /\ Forest(before) /\ Rows = DOMAIN up /\ gone \subseteq DOMAIN before /\ DOMAIN before \subseteq Rows
      /\ Visited = Rows \ gone
  BY <1>1 DEF RowsInv, VisitInv, Rows, Visited
<1>3. \A t \in DOMAIN before : Above(up, t) = Above(before, t) /\ Above(up, t) \subseteq DOMAIN before
  BY <1>1, <1>2, AboveStays, AboveRows DEF VisitInv
<1>4. \A t \in Rows \ DOMAIN before : Above(up, t) = {}
  BY <1>1, <1>2, AboveEquation DEF VisitInv
<1>5. \A t \in gone : t \notin lived
  BY <1>1 DEF VisitInv, Visited, HistoryInv
<1>6. \A t \in DOMAIN before : t \notin seen => t \in gone
  BY <1>1, <1>2 DEF VisitInv
<1>7. /\ DOMAIN u = kept /\ DOMAIN up' = kept /\ Rows' = kept /\ Alive' = Alive /\ kept \subseteq Rows
      /\ kept \subseteq Team /\ Alive \subseteq Team
  <2>1. fLayout \in Layouts
    BY DEF TypeOK
  <2> QED BY <1>1, <2>1 DEF Relayout, Layouts, Rows, Alive, TypeOK
<1>8. \A t \in kept : t \in seen /\ field[t] \in fathers[t] \cup {None} /\ t \in Team
  BY <1>1, <1>2, <1>7 DEF VisitInv, Visited
<1>9. \A t \in kept : up[t] \in kept \cup {None} /\ up[t] < t
  <2> SUFFICES ASSUME NEW t \in kept, up[t] # None PROVE up[t] \in kept
    BY <1>2 DEF Forest
  <2>1. up[t] \in Rows /\ Above(up, t) = {up[t]} \cup Above(up, up[t])
    BY <1>2, AboveEquation DEF Forest
  <2> QED BY <2>1
<1>10. \A t \in kept : field[t] < t /\ None < t
  BY <1>7 DEF RowsInv, Team, None
<1>11. /\ fLayout = "flat" => \A t \in kept : up'[t] = None
       /\ fLayout = "tree" => \A t \in kept : up'[t] = IF field[t] \in kept THEN field[t] ELSE None
       /\ fLayout = "sessions" => \A t \in kept : up'[t] = up[t]
  BY <1>1, <1>7 DEF Relayout
<1>12. Forest(up)'
  <2>1. \A t \in kept : up'[t] \in kept \cup {None} /\ up'[t] < t
    BY <1>9, <1>10, <1>11 DEF TypeOK, Layouts
  <2> QED BY <1>7, <2>1 DEF Forest
<1>13. KernelInv' /\ HistoryInv' /\ VisitInv'
  BY <1>1, <1>7 DEF KernelInv, HistoryInv, VisitInv
<1>14. RowsInv'
  BY <1>1, <1>2, <1>7, <1>10, <1>12 DEF RowsInv, Forest
<1>15. ListShowsTeams'
  <2>1. \A t \in kept : field'[t] \in fathers[t] \cup {None} /\ up'[t] # t
    BY <1>1, <1>7, <1>8, <1>12 DEF Forest, Team
  <2>2. kept \cap Lost = {}
    <3> SUFFICES ASSUME NEW t \in kept, t \in DOMAIN before, NEW a \in Above(before, t), a \notin seen PROVE FALSE
      BY DEF Lost
    <3>1. a \in Above(up, t) /\ a \in gone
      BY <1>3, <1>6
    <3> QED BY <3>1
  <2>3. \A t \in lived \ kept : t \in DOMAIN before /\ Above(before, t) \ lived # {}
    <3> SUFFICES ASSUME NEW t \in lived, t \notin kept PROVE t \in DOMAIN before /\ Above(before, t) \ lived # {}
      OBVIOUS
    <3>1. t \in Rows /\ t \notin gone
      BY <1>1 DEF VisitInv, Visited, HistoryInv
    <3>2. PICK a : a \in Above(up, t) /\ a \in gone
      BY <3>1
    <3>3. t \in DOMAIN before
      BY <1>4, <3>1, <3>2
    <3> QED BY <1>3, <1>5, <3>2, <3>3
  <2>4. Lost' = Lost
    BY <1>1 DEF Lost
  <2>5. /\ fLayout = "tree" => \A t \in kept : up'[t] = IF field'[t] \in kept THEN field'[t] ELSE None
        /\ fLayout = "flat" => \A t \in kept : up'[t] = None
    BY <1>1, <1>11
  <2> QED BY <1>1, <1>7, <1>8, <2>1, <2>2, <2>3, <2>4, <2>5 DEF ListShowsTeams
<1>16. OnlyNestedEndsDangle'
  <2>1. dangled' => \E t \in DOMAIN before : t \notin lived /\ Above(before, t) \ lived # {}
    BY <1>1, <1>2, <1>3, <1>5
  <2>2. ASSUME NEW t \in DOMAIN before, t \notin seen, Above(before, t) \ seen # {} PROVE dangled'
    BY <1>1, <1>3, <1>6, <2>2
  <2> QED BY <1>1, <2>1, <2>2 DEF OnlyNestedEndsDangle
<1> QED BY <1>13, <1>14, <1>15, <1>16

\* Another layout moves the rows that there are.
LEMMA LayoutListInv == TypeOK /\ ListInv /\ SetLayout => ListInv'
<1> SUFFICES ASSUME TypeOK, ListInv, SetLayout PROVE ListInv'
  OBVIOUS
<1> USE DEF ListInv
<1>1. /\ UNCHANGED <<parent, lastTeam, field, lived, seen, fathers, before, dangled, crashed, listing>>
      /\ fLayout' \in Layouts /\ up' = Relayout(up, fLayout') /\ listing.at = "no" /\ ~crashed
  BY DEF SetLayout, Idle, Waits, Window, kernel, history
<1>2. Alive' = Alive /\ Rows' = Rows /\ DOMAIN up = Rows /\ DOMAIN up' = Rows /\ Rows \subseteq Team /\ Alive \subseteq Team
  BY <1>1 DEF Alive, Rows, Relayout, Layouts, TypeOK
<1>3. /\ fLayout' = "flat" => \A t \in Rows : up'[t] = None
      /\ fLayout' = "tree" => \A t \in Rows : up'[t] = IF field[t] \in Rows THEN field[t] ELSE None
      /\ fLayout' = "sessions" => \A t \in Rows : up'[t] = up[t]
  BY <1>1, <1>2 DEF Relayout
<1>4. \A t \in Rows : up'[t] \in Rows \cup {None} /\ up'[t] < t /\ up'[t] # t
  <2>1. \A t \in Rows : field[t] < t /\ None < t /\ up[t] < t /\ up[t] \in Rows \cup {None} /\ t \in Team
    BY <1>2 DEF RowsInv, Forest, Team, None
  <2>2. \A t \in Rows : up'[t] \in Rows \cup {None} /\ up'[t] < t
    BY <1>1, <1>3, <2>1 DEF Layouts
  <2> QED BY <2>1, <2>2 DEF Team
<1>5. KernelInv' /\ HistoryInv' /\ VisitInv' /\ OnlyNestedEndsDangle'
  BY <1>1, <1>2 DEF KernelInv, HistoryInv, VisitInv, OnlyNestedEndsDangle
<1>6. RowsInv'
  BY <1>1, <1>2, <1>4 DEF RowsInv, Forest
<1>7. ListShowsTeams'
  <2>1. Lost' = Lost
    BY <1>1 DEF Lost
  <2> QED BY <1>1, <1>2, <1>3, <1>4, <2>1 DEF ListShowsTeams, Listed
<1> QED BY <1>5, <1>6, <1>7

\* What the user does otherwise, the alerts and the team windows touch no row.
LEMMA StaysListInv ==
  ListInv /\ UNCHANGED <<parent, lastTeam, up, field, fLayout, history, crashed, listing, dangled>> => ListInv'
<1> SUFFICES ASSUME ListInv, UNCHANGED <<parent, lastTeam, up, field, fLayout, history, crashed, listing, dangled>> PROVE ListInv'
  OBVIOUS
<1> QED BY DEF ListInv, history, KernelInv, RowsInv, HistoryInv, VisitInv, Visited, Forest, Alive, Rows,
               ListShowsTeams, Listed, Lost, OnlyNestedEndsDangle

LEMMA StepListInv == TypeOK /\ ListInv /\ [Next]_vars => ListInv'
<1> SUFFICES ASSUME TypeOK, ListInv, [Next]_vars PROVE ListInv'
  OBVIOUS
<1>1. CASE KernelNext \/ ListTeams \/ NextTeam \/ TeamParent \/ ListEnd \/ SetLayout
  BY <1>1, KernelListInv, BeganListInv, NextTeamListInv, TeamParentListInv, ListEndListInv, LayoutListInv
<1>2. CASE Select \/ SelectTab \/ PickAction \/ Signal \/ AskTerminate \/ Terminate
  <2>1. UNCHANGED <<parent, lastTeam, up, field, fLayout, history, crashed, listing, dangled>>
    BY <1>2 DEF Select, SelectTab, PickAction, MayClick, Pick, Spend, Signal, AskTerminate, Terminate, Idle, Window, kernel, view
  <2> QED BY <2>1, StaysListInv
<1>3. CASE WindowThreads
  BY <1>3, WindowThreadsTouch, StaysListInv DEF view
<1>4. CASE UNCHANGED vars
  BY <1>4, StaysListInv DEF vars, kernel, view, user
<1> QED BY <1>1, <1>2, <1>3, <1>4, NextIs

LEMMA ListInvariance == Spec => []ListInv
<1>1. IndInv /\ ListInv /\ [Next]_vars => ListInv'
  BY StepListInv DEF IndInv
<1> QED BY <1>1, Invariance, InitListInv, PTL DEF Spec

\* The list shows the teams there were while it was made, under their parents,
\* but for the rows that go with a row above them (SystemManager.cpp:289).
THEOREM ListIsRight == Spec => []ListShowsTeams
<1>1. ListInv => ListShowsTeams
  BY DEF ListInv
<1> QED BY <1>1, ListInvariance, PTL

\* A row that was deleted is read only when two teams, one shown under the
\* other, have ended, and always when both had before the list was begun
\* (SystemManager.cpp:289).
THEOREM DanglesOnlySo == Spec => []OnlyNestedEndsDangle
<1>1. ListInv => OnlyNestedEndsDangle
  BY DEF ListInv
<1> QED BY <1>1, ListInvariance, PTL
=============================================================================
