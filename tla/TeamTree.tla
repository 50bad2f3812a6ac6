------------------------------ MODULE TeamTree ------------------------------
(***************************************************************************)
(* SystemManager: the main window (SystemManager.cpp), which lists the     *)
(* teams as a tree every half second, while teams start and end, and sends *)
(* signals to the one that is selected, or opens its window (the map and   *)
(* the lock of TeamWindow.cpp), as does the application's thread when a    *)
(* script asks.  The kernel gives one team per call, and its parent in a   *)
(* call of its own.  The view is a forest of rows, one per team: up[t] is  *)
(* the team whose row the row of t is under.                               *)
(***************************************************************************)
EXTENDS Integers, FiniteSets

CONSTANTS
    MaxTeam,     \* bound: team ids; they are given in ascending order
    Scenario     \* bounds: how many teams there are, how many start, what is done in the windows

ASSUME TreeAssumption ==
    /\ MaxTeam \in Nat \ {0}
    /\ Scenario \subseteq [teams : 1..MaxTeam, starts : 0..MaxTeam, picks : Nat, uses : Nat]
    /\ \A s \in Scenario : s.teams + s.starts <= MaxTeam

Kernel == 1
Team == 1..MaxTeam
None == 0         \* no team: what the kernel says of the kernel's parent; the root; no selection
Openers == {"window", "application"}   \* the threads that call OpenTeamWindow
Layouts == {"flat", "tree", "sessions"}

VARIABLES
    parent,      \* the kernel: the parent of every team there is
    lastTeam,    \* the kernel: the latest team id
    up, field,   \* the rows: where each is, and its parentIdCol
    tab, fLayout,
    selection,   \* CurrentSelection
    crashed,
    listing,     \* ListTeams: where it is, cookie and prevRows
    picked,      \* the queue: what was picked from the menu, and what was selected then
    alerts,      \* alerts[t]: how many alerts ask whether t is to be terminated
    teamWindow,  \* teamWindow[t]: the thread of the window of t, "none" when there is none
    opening,     \* opening[c]: OpenTeamWindow as c calls it, where it is and for which team
    sent,        \* history: the signals; to whom, and who had been selected
    left,        \* bounds: the teams that may start, the picks of the user, the uses of team windows
    lived, seen, \* history: what was there all the time, some of the time, since the list was begun
    fathers,     \* history: the parents each team had since then
    before,      \* history: up when the list was begun
    dangled      \* history: ListTeams has removed a row from a row that was deleted

kernel == <<parent, lastTeam, left>>
view == <<up, field, selection>>
history == <<lived, seen, fathers, before>>
user == <<tab, fLayout, picked, alerts, sent>>
windows == <<teamWindow, opening>>
vars == <<kernel, view, user, windows, history, crashed, listing, dangled>>

Empty == [t \in {} |-> None]
Alive == DOMAIN parent
Rows == DOMAIN up
NotListing == [at |-> "no", cookie |-> None, prevRows |-> {}]
NotOpening == [at |-> "no", team |-> None]
NotPicked == [what |-> "nothing", row |-> None]

\* The rows above the row of t in the forest u; a parent is older than its child.
Above(u, t) ==
    LET above[r \in DOMAIN u] == IF u[r] = None THEN {} ELSE {u[r]} \cup above[u[r]]
    IN  above[t]

Began(prev) ==
    /\ listing' = [at |-> "next", cookie |-> None, prevRows |-> prev]
    /\ lived' = Alive /\ seen' = Alive /\ fathers' = [t \in Team |-> IF t \in Alive THEN {parent[t]} ELSE {}]
    /\ before' = up

\* TestWindow, about to list the teams for the first time.
Init ==
    /\ \E s \in Scenario : lastTeam = s.teams /\ left = [starts |-> s.starts, picks |-> s.picks, uses |-> s.uses]
    /\ parent \in {p \in [1..lastTeam -> 0..lastTeam] : \A t \in 1..lastTeam : p[t] < t /\ (p[t] = None => t = Kernel)}
    /\ up = Empty /\ field = Empty /\ selection = None
    /\ tab = "teams" /\ fLayout = "tree" /\ crashed = FALSE
    /\ listing = [at |-> "next", cookie |-> None, prevRows |-> {}]
    /\ picked = NotPicked /\ alerts = [t \in Team |-> 0] /\ sent = {}
    /\ lived = Alive /\ seen = Alive /\ fathers = [t \in Team |-> IF t \in Alive THEN {parent[t]} ELSE {}]
    /\ before = up /\ dangled = FALSE
    /\ teamWindow = [t \in Team |-> "none"] /\ opening = [c \in Openers |-> NotOpening]

-----------------------------------------------------------------------------
(* The kernel.                                                             *)

TeamsBecome(teams) ==
    /\ parent' = teams
    /\ lived' = lived \cap DOMAIN teams /\ seen' = seen \cup DOMAIN teams
    /\ fathers' = [t \in Team |-> fathers[t] \cup IF t \in DOMAIN teams THEN {teams[t]} ELSE {}]
    /\ UNCHANGED <<view, user, windows, before, crashed, listing, dangled>>

TeamStarts ==
    /\ left.starts > 0 /\ left' = [left EXCEPT !.starts = @ - 1] /\ lastTeam' = lastTeam + 1
    /\ \E p \in Alive : TeamsBecome([t \in Alive \cup {lastTeam'} |-> IF t = lastTeam' THEN p ELSE parent[t]])

\* The children of a team that ends become the kernel's.
TeamEnds == \E t \in Alive \ {Kernel} :
    /\ TeamsBecome([c \in Alive \ {t} |-> IF parent[c] = t THEN Kernel ELSE parent[c]])
    /\ UNCHANGED <<lastTeam, left>>

KernelNext == ~crashed /\ (TeamStarts \/ TeamEnds)

-----------------------------------------------------------------------------
(* ListTeams and RelayoutTeams.                                            *)

Window == ~crashed /\ UNCHANGED <<kernel, windows>>
Waits == listing.at = "no" /\ opening["window"].at = "no"   \* for a message
Idle == Window /\ Waits

\* Mutant: CollectRowList does not go below the root.
ListTeamsRoots ==
    /\ Idle /\ tab = "teams"
    /\ Began({t \in Rows : up[t] = None})
    /\ UNCHANGED <<view, user, crashed, dangled>>

\* updateMsg.
ListTeams ==
    /\ Idle /\ tab = "teams"
    /\ Began(Rows)
    /\ UNCHANGED <<view, user, crashed, dangled>>

\* get_next_team_info: a row is found in prevRows, or made.
NextTeam ==
    /\ Window /\ listing.at = "next"
    /\ \E t \in Alive :
          /\ t > listing.cookie /\ \A s \in Alive : s > listing.cookie => t <= s
          /\ listing' = [at |-> "parent", cookie |-> t, prevRows |-> listing.prevRows \ {t}]
          /\ IF t \in listing.prevRows THEN UNCHANGED <<up, field>>
             ELSE /\ up' = [r \in Rows \cup {t} |-> IF r = t THEN None ELSE up[r]]
                  /\ field' = [r \in Rows \cup {t} |-> IF r = t THEN None ELSE field[r]]
    /\ UNCHANGED <<user, selection, history, crashed, dangled>>

\* _kern_process_info knows no parent of a team that has ended since.
TeamParent ==
    /\ Window /\ listing.at = "parent"
    /\ field' = [field EXCEPT ![listing.cookie] = IF listing.cookie \in Alive THEN parent[listing.cookie] ELSE None]
    /\ listing' = [listing EXCEPT !.at = "next"]
    /\ UNCHANGED <<user, up, selection, history, crashed, dangled>>

\* Mutant: without a break, flat goes on as tree.
RelayoutOn(u, layout) ==
    IF layout = "sessions" THEN u ELSE [t \in DOMAIN u |-> IF field[t] \in DOMAIN u THEN field[t] ELSE None]

\* RelayoutTeams: where the rows of the forest u come to be.
Relayout(u, layout) ==
    CASE layout = "flat" -> [t \in DOMAIN u |-> None]
      [] layout = "tree" -> [t \in DOMAIN u |-> IF field[t] \in DOMAIN u THEN field[t] ELSE None]
      [] layout = "sessions" -> u

\* SetRowParent removes the row, with the rows under it, and adds them again:
\* then it, or they, may be selected no more.
Kept(u) ==
    IF selection = None THEN {None}
    ELSE IF selection \in DOMAIN u /\ \A r \in {selection} \cup Above(u, selection) : r \in Rows /\ u[r] = up[r]
    THEN {selection}
    ELSE {None, selection}

\* Mutant: a row under another row that goes, too, is left to that one.
RemovedOuter(gone) == [remaining |-> {t \in Rows : ({t} \cup Above(up, t)) \cap gone = {}}, dangles |-> FALSE]

\* RemoveRow and delete, of each of prevRows: the rows under a row leave the
\* view with it, and to remove one of them later reads the row it was under.
Removed(gone) ==
    [remaining |-> {t \in Rows : ({t} \cup Above(up, t)) \cap gone = {}},
     dangles |-> \E t \in gone : Above(up, t) \cap gone # {}]

ListEnd ==
    /\ Window /\ listing.at = "next"
    /\ \A t \in Alive : t <= listing.cookie
    /\ LET gone == listing.prevRows
           removed == Removed(gone)
           placed == Relayout([t \in removed.remaining |-> up[t]], fLayout)
       IN  /\ up' = placed /\ field' = [t \in removed.remaining |-> field[t]]
           /\ selection' \in IF selection \in gone THEN {None} ELSE Kept(placed)
           /\ dangled' = removed.dangles
           /\ crashed' \in IF removed.dangles THEN BOOLEAN ELSE {FALSE}
    /\ listing' = NotListing
    /\ UNCHANGED <<user, history>>

-----------------------------------------------------------------------------
(* The user, and the messages of the window.                               *)

Spend(deed) ==
    /\ ~crashed /\ left[deed] > 0 /\ left' = [left EXCEPT ![deed] = @ - 1]
    /\ UNCHANGED <<parent, lastTeam, up, field, history, crashed, listing, dangled>>
Pick == Spend("picks") /\ UNCHANGED windows

MayClick == Pick /\ Waits /\ picked = NotPicked

\* The window's thread selects a row, in the order of the user's clicks.
Select == \E t \in Rows :
    /\ MayClick
    /\ selection' = t
    /\ UNCHANGED <<tab, fLayout, picked, alerts, sent>>

SelectTab ==
    /\ MayClick
    /\ tab' = IF tab = "teams" THEN "stats" ELSE "teams"
    /\ UNCHANGED <<fLayout, selection, picked, alerts, sent>>

\* The menu has a thread of its own.
PickAction == \E what \in {"terminate", "signal", "invoke"} \cup Layouts :
    /\ Pick /\ picked = NotPicked
    /\ picked' = [what |-> what, row |-> selection]
    /\ UNCHANGED <<tab, fLayout, selection, alerts, sent>>

\* setLayoutMsg.
SetLayout ==
    /\ Idle /\ picked.what \in Layouts
    /\ fLayout' = picked.what
    /\ up' = Relayout(up, picked.what)
    /\ selection' \in Kept(up')
    /\ picked' = NotPicked
    /\ UNCHANGED <<tab, alerts, sent, field, history, crashed, listing, dangled>>

Kill(team, chosen) == sent' = sent \cup {[to |-> team, chosen |-> chosen]}

\* suspendMsg, resumeMsg and sendSignalMsg; the kernel may end the team.
Signal ==
    /\ Idle /\ picked.what = "signal"
    /\ IF selection = None THEN UNCHANGED sent ELSE Kill(selection, picked.row)
    /\ picked' = NotPicked
    /\ UNCHANGED <<tab, fLayout, alerts, view, history, crashed, listing, dangled>>

\* terminateMsg without "which": an alert asks.
AskTerminate ==
    /\ Idle /\ picked.what = "terminate"
    /\ alerts' = IF selection = None THEN alerts ELSE [alerts EXCEPT ![selection] = @ + 1]
    /\ picked' = NotPicked
    /\ UNCHANGED <<tab, fLayout, sent, view, history, crashed, listing, dangled>>

\* Mutant: what is selected is killed.
TerminateSelected == \E t \in Team :
    /\ Idle /\ alerts[t] > 0
    /\ alerts' = [alerts EXCEPT ![t] = @ - 1]
    /\ sent' \in {sent} \cup IF selection = None THEN {} ELSE {sent \cup {[to |-> selection, chosen |-> t]}}
    /\ UNCHANGED <<tab, fLayout, picked, view, history, crashed, listing, dangled>>

\* terminateMsg with "which": the team is that of the message.
Terminate == \E t \in Team :
    /\ Idle /\ alerts[t] > 0
    /\ alerts' = [alerts EXCEPT ![t] = @ - 1]
    /\ UNCHANGED sent \/ Kill(t, t)
    /\ UNCHANGED <<tab, fLayout, picked, view, history, crashed, listing, dangled>>

-----------------------------------------------------------------------------
(* OpenTeamWindow, and the threads of the team windows.                    *)

NoMessage == UNCHANGED <<kernel, view, tab, fLayout, alerts, sent, history, crashed, listing, dangled>>
TeamWindows == ~crashed /\ NoMessage /\ UNCHANGED picked

\* invokeMsg: OpenTeamWindow is called for the team that is selected now.
Invoke ==
    /\ ~crashed /\ Waits /\ picked.what = "invoke" /\ picked' = NotPicked
    /\ opening' = IF selection = None THEN opening ELSE [opening EXCEPT !["window"] = [at |-> "lock", team |-> selection]]
    /\ NoMessage /\ UNCHANGED teamWindow

\* HandleScript: a script asks for a team by any number.
HandleScript == \E t \in Team :
    /\ Spend("uses") /\ opening["application"].at = "no"
    /\ opening' = [opening EXCEPT !["application"] = [at |-> "lock", team |-> t]]
    /\ UNCHANGED <<user, selection, teamWindow>>

\* Only to activate a window is teamWindowsLocker kept.
LockIsFree == \A c \in Openers : opening[c].at # "activate"

\* The window is found, or made and shown.  When the kernel gives no image of
\* the team, as of one that has ended, the constructor posts B_QUIT_REQUESTED.
OpenTeamWindow(c) ==
    /\ TeamWindows /\ opening[c].at = "lock" /\ LockIsFree
    /\ LET t == opening[c].team
       IN  \/ /\ teamWindow[t] # "none"
              /\ opening' = [opening EXCEPT ![c].at = "activate"] /\ UNCHANGED teamWindow
           \/ /\ teamWindow[t] = "none"
              /\ \E made \in {"closing"} \cup IF t \in Alive THEN {"waits"} ELSE {} :
                    teamWindow' = [teamWindow EXCEPT ![t] = made]
              /\ opening' = [opening EXCEPT ![c] = NotOpening]

\* Activate takes the looper lock of the window, which its thread keeps while it
\* handles a message, and while the window is deleted.
Activate(c) ==
    /\ TeamWindows /\ opening[c].at = "activate" /\ teamWindow[opening[c].team] \in {"waits", "closing"}
    /\ opening' = [opening EXCEPT ![c] = NotOpening]
    /\ UNCHANGED teamWindow

Becomes(t, from, to) == teamWindow[t] = from /\ teamWindow' = [teamWindow EXCEPT ![t] = to] /\ UNCHANGED opening

\* The user, or an update, gives a team window something to do, which may be to
\* open a stack window: OpenStackWindow returns or does not (StackWindows).
UseTeamWindow == \E t \in Team, does \in {"handles", "stuck", "closing"} :
    Spend("uses") /\ Becomes(t, "waits", does) /\ UNCHANGED <<user, selection>>

Handled(t) == TeamWindows /\ Becomes(t, "handles", "waits")

\* B_QUIT_REQUESTED, and ~TeamWindow.
QuitTeamWindow(t) == TeamWindows /\ Becomes(t, "closing", "quitting")
DestroyTeamWindow(t) == TeamWindows /\ LockIsFree /\ Becomes(t, "quitting", "none")

UserNext == Select \/ SelectTab \/ PickAction \/ HandleScript \/ UseTeamWindow
WindowNext ==
    \/ ListTeams \/ NextTeam \/ TeamParent \/ ListEnd
    \/ SetLayout \/ Signal \/ AskTerminate \/ Invoke
    \/ OpenTeamWindow("window") \/ Activate("window")
ApplicationNext == OpenTeamWindow("application") \/ Activate("application")
TeamWindowNext(t) == Handled(t) \/ QuitTeamWindow(t) \/ DestroyTeamWindow(t)

Next == KernelNext \/ UserNext \/ WindowNext \/ Terminate \/ ApplicationNext \/ \E t \in Team : TeamWindowNext(t)

Spec == Init /\ [][Next]_vars

\* The updates come for ever, and the threads run.
FairSpec ==
    /\ Spec /\ WF_vars(WindowNext) /\ WF_vars(ApplicationNext)
    /\ \A t \in Team : WF_vars(TeamWindowNext(t))

-----------------------------------------------------------------------------
TypeOK ==
    /\ lastTeam \in Team /\ left \in [starts : Nat, picks : Nat, uses : Nat] /\ lastTeam + left.starts \in Team
    /\ Alive \subseteq Team /\ parent \in [Alive -> Team \cup {None}]
    /\ Rows \subseteq Team /\ up \in [Rows -> Team \cup {None}] /\ field \in [Rows -> Team \cup {None}]
    /\ tab \in {"teams", "stats"} /\ fLayout \in Layouts /\ selection \in Team \cup {None} /\ crashed \in BOOLEAN
    /\ listing \in [at : {"no", "next", "parent"}, cookie : Team \cup {None}, prevRows : SUBSET Team]
    /\ picked \in [what : {"nothing", "terminate", "signal", "invoke"} \cup Layouts, row : Team \cup {None}]
    /\ alerts \in [Team -> Nat]
    /\ teamWindow \in [Team -> {"none", "waits", "handles", "stuck", "closing", "quitting"}]
    /\ opening \in [Openers -> {NotOpening} \cup [at : {"lock", "activate"}, team : Team]]

(***************************************************************************)
(* When a list has been made, the rows are those of teams that were there  *)
(* while it was made, each under the row of a team that was its parent     *)
(* then (or at the root), and every team that was there all the time has a *)
(* row, but for one case: when the team of a row above it has ended, the   *)
(* row goes with that row (SystemManager.cpp:289), though its team is      *)
(* there, and comes back with the next list.                               *)
(***************************************************************************)
Listed == listing.at = "no" /\ ~crashed
Lost == {t \in DOMAIN before : Above(before, t) \ seen # {}}
ListShowsTeams ==
    Listed =>
        /\ Rows \subseteq seen
        /\ \A t \in Rows : field[t] \in fathers[t] \cup {None} /\ up[t] # t
        /\ Rows \cap Lost = {}
        /\ \A t \in lived \ Rows : t \in DOMAIN before /\ Above(before, t) \ lived # {}
        /\ fLayout = "tree" => \A t \in Rows : up[t] = IF field[t] \in Rows THEN field[t] ELSE None
        /\ fLayout = "flat" => \A t \in Rows : up[t] = None

(***************************************************************************)
(* ListTeams deletes a row and then removes a row that was under it, which *)
(* reads memory that is free (SystemManager.cpp:289), only when of two     *)
(* teams, one shown under the other, both have ended since the list before *)
(* was made, and always when both had when the list was begun; but for     *)
(* that the window never crashes.                                          *)
(***************************************************************************)
OnlyNestedEndsDangle ==
    /\ crashed => dangled
    /\ listing.at = "no" =>
          /\ dangled => \E t \in DOMAIN before : t \notin lived /\ Above(before, t) \ lived # {}
          /\ (\E t \in DOMAIN before : t \notin seen /\ Above(before, t) \ seen # {}) => dangled

(***************************************************************************)
(* A signal goes to the team that was selected when the menu item was      *)
(* picked, or that the alert named, although the list was made anew and    *)
(* rows were moved and removed in between (SystemManager.cpp:610, :616).   *)
(***************************************************************************)
SignalsChosen ==
    \A s \in sent : s.to = s.chosen

(***************************************************************************)
(* Once teams start and end no more, the window comes to show each of them *)
(* and no other, in the tree they form, and stays so, unless it has        *)
(* crashed before or shows the other tab, or its thread waits for ever in  *)
(* OpenTeamWindow: it, or the application with teamWindowsLocker, for the  *)
(* looper of a window whose destructor waits for that lock                 *)
(* (TeamWindow.cpp:652, :757), or whose thread never comes back from       *)
(* opening a stack window (StackWindow.cpp:242, :302).                     *)
(***************************************************************************)
Hangs(states) == opening["window"].at # "no" /\ \E c \in Openers : opening[c].at = "activate" /\ teamWindow[opening[c].team] \in states
LockCycle == Hangs({"quitting"})
WaitsForTheStuck == Hangs({"stuck"})
ComesToShowThem ==
    <>[](tab = "teams") =>
        <>[](crashed \/ LockCycle \/ WaitsForTheStuck \/ (Rows = Alive /\ (fLayout = "tree" => up = parent)))
=============================================================================
