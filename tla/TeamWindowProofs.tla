--------------------------- MODULE TeamWindowProofs ---------------------------
(***************************************************************************)
(* Proofs about modules TeamWindow and StackWindows, for any threads and   *)
(* objects and any scenario.  Three invariants, each of them on top of the *)
(* types: the map of stack windows agrees with the windows because both    *)
(* change only under stacksLocker (MapInv); what ListFrames holds is told  *)
(* by how far it has come (FramesInv); and a list under way has a row for  *)
(* all that lived and lies behind the cookie (RowsInv).                    *)
(***************************************************************************)
EXTENDS TeamWindow, SequenceTheorems, TLAPS

\* The steps by what they change.
TeamChange == Handler \/ HandleScript \/ User \/ \E o \in Object : Begins(o) \/ Ends(o)
StackChange ==
  \/ Stack /\ UNCHANGED <<kernel, left, teamVars>>
  \/ AskWindows /\ UNCHANGED <<kernel, teamVars>>

\* ListFrames of one window changes its list, its messages and the program.
LEMMA FramesFrame ==
  ASSUME StackTypeOK, NEW t \in Thread, ListFrames(t) \/ ReadPortFails(t)
  PROVE  /\ UNCHANGED <<openVars, stacks, stacksLocker, phase>>
         /\ crashed' \in BOOLEAN /\ filled' \subseteq Thread /\ ports' \subseteq Thread
         /\ inbox' \in [Thread -> Seq({"update", "quit"})]
         /\ step' \in [Thread -> Steps]
         /\ debugger' \in Thread \cup {None} /\ stop' \in {"none", "asked", "told"}
<1> USE DEF StackTypeOK, Steps
<1>1. ASSUME Fail(t)
      PROVE  /\ UNCHANGED <<openVars, stacks, stacksLocker, phase>>
             /\ crashed' \in BOOLEAN /\ filled' \subseteq Thread /\ ports' \subseteq Thread
             /\ inbox' \in [Thread -> Seq({"update", "quit"})]
             /\ step' \in [Thread -> Steps]
             /\ debugger' \in Thread \cup {None} /\ stop' \in {"none", "asked", "told"}
  <2>1. Append(inbox[t], "quit") \in Seq({"update", "quit"})
    BY AppendProperties
  <2> QED BY <1>1, <2>1 DEF Fail, Undone
<1>2. CASE GetThreadInfo(t)
  BY <1>1, <1>2 DEF GetThreadInfo, Proceed, windowVars
<1>3. CASE CreatePort(t)
  BY <1>1, <1>3 DEF CreatePort, Proceed, windowVars
<1>4. CASE InstallTeamDebugger(t)
  BY <1>1, <1>4 DEF InstallTeamDebugger, Proceed, windowVars
<1>5. CASE InitDebugContext(t)
  BY <1>1, <1>5 DEF InitDebugContext, Proceed, windowVars
<1>6. CASE StopThread(t)
  BY <1>1, <1>6 DEF StopThread, Proceed, windowVars
<1>7. CASE SpawnDebugThread(t)
  BY <1>1, <1>7 DEF SpawnDebugThread, Proceed, windowVars
<1>8. CASE WaitForDebugThread(t)
  BY <1>8 DEF WaitForDebugThread, Proceed, windowVars
<1>9. CASE WriteStackTrace(t)
  BY <1>9 DEF WriteStackTrace, Undone, windowVars
<1>10. CASE ReadPortFails(t)
  BY <1>1, <1>10 DEF ReadPortFails
<1> QED BY <1>2, <1>3, <1>4, <1>5, <1>6, <1>7, <1>8, <1>9, <1>10 DEF ListFrames

------------------------------------------------------------------------------
(* Types.                                                                  *)

\* A step of the stack windows keeps their types.
LEMMA StackTypeStep == StackTypeOK /\ StackChange => StackTypeOK'
<1> SUFFICES ASSUME StackTypeOK, StackChange PROVE StackTypeOK'
  OBVIOUS
<1> USE StackAssumption DEF StackTypeOK, windowVars, openVars, listVars
<1>1. ASSUME NEW t \in Thread, ListFrames(t) \/ ReadPortFails(t), UNCHANGED left PROVE StackTypeOK'
  BY <1>1, FramesFrame
<1>2. CASE Find /\ UNCHANGED <<crashed, left>>
  BY <1>2 DEF Find, Steps
<1>3. CASE Activate /\ UNCHANGED <<crashed, left>>
  BY <1>3 DEF Activate, Return
<1>4. CASE Show /\ UNCHANGED <<crashed, left>>
  BY <1>4 DEF Show, Return
<1>5. ASSUME NEW t \in Thread, Update(t), UNCHANGED <<crashed, left>> PROVE StackTypeOK'
  <2>1. Tail(inbox[t]) \in Seq({"update", "quit"})
    BY <1>5, HeadTailProperties DEF Update, Dispatch
  <2> QED BY <1>5, <2>1 DEF Update, Dispatch, Steps
<1>6. ASSUME NEW t \in Thread, Updated(t), UNCHANGED <<crashed, left>> PROVE StackTypeOK'
  BY <1>6 DEF Updated
<1>7. ASSUME NEW t \in Thread, Quit(t), UNCHANGED <<crashed, left>> PROVE StackTypeOK'
  <2>1. Tail(inbox[t]) \in Seq({"update", "quit"})
    BY <1>7, HeadTailProperties DEF Quit, Dispatch
  <2> QED BY <1>7, <2>1 DEF Quit, Dispatch
<1>8. ASSUME NEW t \in Thread, Destroy(t), UNCHANGED <<crashed, left>> PROVE StackTypeOK'
  <2>1. <<>> \in Seq({"update", "quit"})
    OBVIOUS
  <2> QED BY <1>8, <2>1 DEF Destroy
<1>9. CASE ThreadStops /\ UNCHANGED <<crashed, left>>
  BY <1>9 DEF ThreadStops
<1>10. ASSUME NEW t \in Thread, NEW m \in {"update", "quit"}, AskWindow(t, m), UNCHANGED crashed
       PROVE  StackTypeOK'
  <2>1. Append(inbox[t], m) \in Seq({"update", "quit"})
    BY AppendProperties
  <2>2. left' \in [Deed -> Nat]
    BY <1>10 DEF AskWindow, Spend
  <2> QED BY <1>10, <2>1, <2>2 DEF AskWindow
<1> QED BY <1>1, <1>2, <1>3, <1>4, <1>5, <1>6, <1>7, <1>8, <1>9, <1>10
        DEF StackChange, Stack, Opener, Window, Stops, PortFails, AskWindows

\* A step of the team's window, of the application or of the team keeps all types.
LEMMA TeamTypeStep == TypeOK /\ TeamChange => TypeOK'
<1> SUFFICES ASSUME TypeOK, TeamChange PROVE TypeOK'
  OBVIOUS
<1> DEFINE Queue == queue \in Seq(Message)
           Views == /\ tab \in Tabs /\ menu = MenuOf(tab)
                    /\ rows \in [Kinds -> SUBSET Object] /\ \A k \in Kinds : \A o \in rows[k] : KindOf[o] = k
                    /\ current \in [Kinds -> Rows] /\ \A k \in Kinds : current[k] \in rows[k] \cup {NoRow}
           Lists == /\ lived \subseteq seen /\ seen \subseteq Object
                    /\ listing \in {NotListing}
                         \cup [kind : Kinds, prev : SUBSET Object, cookie : Nat, then : {"nothing", "show", "stack"}, id : Rows]
           Kernel == kernel \in [Object -> {"unborn", "live", "gone"}]
           Scripts == scripts \in Seq(Object)
<1>0. TypeOK <=> StackTypeOK /\ Kernel /\ Views /\ Queue /\ Scripts /\ Lists
  BY DEF TypeOK
<1> HIDE DEF Queue, Views, Lists, Kernel, Scripts
<1>f. \A d \in {"click", "open", "tick", "ask", "change"} :
        Spend(d) /\ UNCHANGED <<crashed, stackVars>> => StackTypeOK'
  BY <1>0, TeamAssumption DEF Spend, StackTypeOK, stackVars, openVars, windowVars, listVars
<1>t. Queue /\ queue # <<>> => Tail(queue) \in Seq(Message) /\ Head(queue) \in Message
  BY HeadTailProperties DEF Queue
<1>r. ASSUME NEW k \in Kinds, NEW then \in {"nothing", "show"}, NEW id \in Rows, ListView(k, then, id)
      PROVE  Lists'
  BY <1>0, <1>r DEF Lists, Views, ListView, ListImages, ListThreads, ListAreas, ListPorts, ListSems, ListFiles, List,
              LiveOf, Kinds
<1>u. UNCHANGED stackVars /\ UNCHANGED <<crashed, left>> => StackTypeOK'
  BY <1>0 DEF StackTypeOK, stackVars, openVars, windowVars, listVars
<1>v. /\ UNCHANGED kernel => Kernel'
      /\ UNCHANGED viewVars => Views'
      /\ UNCHANGED queue => Queue'
      /\ UNCHANGED scripts => Scripts'
      /\ UNCHANGED listingVars => Lists'
  BY <1>0 DEF Kernel, Views, Queue, Scripts, Lists, viewVars, listingVars
<1>l. listing # NotListing =>
        /\ listing.kind \in Kinds /\ listing.prev \subseteq Object /\ listing.cookie \in Nat /\ listing.id \in Rows
        /\ listing \in [kind : Kinds, prev : SUBSET Object, cookie : Nat, then : {"nothing", "show", "stack"}, id : Rows]
  BY <1>0 DEF Lists
<1>1. CASE ListNext
  <2> PICK o \in Ahead :
        /\ listing' = [listing EXCEPT !.prev = @ \ {o}, !.cookie = o]
        /\ rows' = [rows EXCEPT ![listing.kind] = @ \cup {o}]
    BY <1>1 DEF ListNext
  <2>o. o \in Object /\ KindOf[o] = listing.kind /\ o \in Nat
    BY TeamAssumption DEF Ahead, LiveOf
  <2>1. Views'
    BY <1>0, <1>1, <1>l, <2>o DEF ListNext, Views
  <2>2. Lists'
    BY <1>0, <1>1, <1>l, <2>o DEF ListNext, Lists
  <2>3. StackTypeOK' /\ Kernel' /\ Queue' /\ Scripts'
    BY <1>1, <1>u, <1>v, <1>0 DEF ListNext
  <2> QED BY <1>0, <2>1, <2>2, <2>3 DEF Kernel, Queue, Scripts, Views, Lists, TypeOK
<1>2. CASE ListEnd
  <2> DEFINE k == listing.kind
  <2>1. Views'
    BY <1>0, <1>2, <1>l DEF ListEnd, Views, Rows
  <2>2. Lists'
    BY <1>2 DEF ListEnd, Lists
  <2>3. Queue'
    BY <1>0, <1>2, <1>l, <2>1, AppendProperties DEF ListEnd, Queue, Views, Message
  <2>4. StackTypeOK' /\ Kernel' /\ Scripts'
    BY <1>2, <1>u, <1>v, <1>0 DEF ListEnd
  <2> QED BY <2>1, <2>2, <2>3, <2>4 DEF Kernel, Queue, Scripts, Views, Lists, TypeOK
<1>q. StackTypeOK' /\ Kernel' /\ Views' /\ Queue' /\ Scripts' /\ Lists' => TypeOK'
  BY DEF Kernel, Queue, Scripts, Views, Lists, TypeOK
<1>3. CASE UpdateMsg
  <2>1. tab \in Kinds
    BY <1>3 DEF UpdateMsg, ListView, Kinds
  <2>2. Lists'
    BY <1>3, <1>r, <2>1 DEF UpdateMsg, Rows
  <2> QED BY <1>3, <1>0, <1>f, <1>v, <1>q, <2>2 DEF UpdateMsg
<1>4. CASE Invoke
  <2>1. current["threads"] # NoRow => current["threads"] \in Thread
    BY <1>0, TeamAssumption DEF Views, Kinds
  <2>2. StackTypeOK'
    BY <1>0, <1>4, <2>1 DEF Invoke, Receive, Call, StackTypeOK, windowVars, listVars, openVars
  <2>3. Queue'
    BY <1>0, <1>4, <1>t DEF Invoke, Receive, Queue
  <2> QED BY <1>0, <1>4, <1>v, <1>q, <2>2, <2>3 DEF Invoke, Receive
<1>5. CASE Signal
  <2>1. crashed' \in BOOLEAN
    BY <1>5 DEF Signal
  <2>2. StackTypeOK'
    BY <1>0, <1>5, <2>1 DEF Signal, Receive, StackTypeOK, stackVars, windowVars, listVars, openVars
  <2>3. Queue'
    BY <1>0, <1>5, <1>t DEF Signal, Receive, Queue
  <2> QED BY <1>0, <1>5, <1>v, <1>q, <2>2, <2>3 DEF Signal, Receive
<1>s. ASSUME NEW view \in {"threads", "sems"}, Script(view) PROVE Scripts'
  <2>1. current[view] # NoRow => current[view] \in Object /\ KindOf[current[view]] = view
    BY <1>0 DEF Views, Kinds
  <2>2. current[view] # NoRow /\ Target(current[view]) # NoRow => Target(current[view]) \in Object
    BY <2>1, TeamAssumption DEF Target
  <2> QED BY <1>0, <1>s, <2>2, AppendProperties DEF Script, Scripts
<1>6. CASE ShowSem
  <2>1. Queue'
    BY <1>0, <1>6, <1>t DEF ShowSem, Receive, Queue
  <2> QED BY <1>0, <1>6, <1>s, <1>u, <1>v, <1>q, <2>1 DEF ShowSem, Receive
<1>7. CASE ShowThread
  <2>1. Queue'
    BY <1>0, <1>7, <1>t DEF ShowThread, Receive, Queue
  <2> QED BY <1>0, <1>7, <1>s, <1>u, <1>v, <1>q, <2>1 DEF ShowThread, Receive
<1>8. CASE ShowStackArea
  <2>1. Queue'
    BY <1>0, <1>8, <1>t DEF ShowStackArea, Receive, Queue
  <2>2. Lists'
    BY <1>0, <1>8, <1>v DEF ShowStackArea, ListAreas, List, Lists, LiveOf, Views, Kinds
  <2> QED BY <1>0, <1>8, <1>u, <1>v, <1>q, <2>1, <2>2 DEF ShowStackArea, Receive, viewVars
<1>9. CASE ShowItem
  <2>1. Queue'
    BY <1>0, <1>9, <1>t DEF ShowItem, Receive, Queue
  <2>2. Head(queue).kind \in Kinds /\ Head(queue).id \in Rows
    BY <1>0, <1>9, <1>t, TeamAssumption DEF ShowItem, Receive, Message, ShowMsg, Request, Rows
  <2>3. Lists'
    BY <1>9, <1>r, <2>2 DEF ShowItem
  <2>4. Views'
    BY <1>0, <1>9, <2>2 DEF ShowItem, Select, Views, Tabs
  <2> QED BY <1>0, <1>9, <1>u, <1>v, <1>q, <2>1, <2>3, <2>4 DEF ShowItem, Receive
<1>10. CASE HandleScript
  <2>1. Scripts' /\ (Head(scripts) \in Object)
    BY <1>0, <1>10, HeadTailProperties DEF HandleScript, Scripts
  <2>2. Queue'
    <3>1. ShowMsg(KindOf[Head(scripts)], Head(scripts)) \in Message
      BY <2>1 DEF Message
    <3> QED BY <1>0, <1>10, <3>1, AppendProperties DEF HandleScript, Queue
  <2> QED BY <1>0, <1>10, <1>u, <1>v, <1>q, <2>1, <2>2 DEF HandleScript
<1>11. ASSUME NEW t \in Tabs, SelectTab(t) PROVE TypeOK'
  <2>1. Views'
    BY <1>0, <1>11 DEF SelectTab, Select, Views
  <2> QED BY <1>0, <1>11, <1>f, <1>v, <1>q, <2>1 DEF SelectTab
<1>12. ASSUME NEW o \in Object, SelectRow(o) PROVE TypeOK'
  <2>1. Views'
    BY <1>0, <1>12, TeamAssumption DEF SelectRow, Views, Rows
  <2> QED BY <1>0, <1>12, <1>f, <1>v, <1>q, <2>1 DEF SelectRow
<1>13. ASSUME NEW t \in Thread, DoubleClick(t) PROVE TypeOK'
  <2>1. Views'
    BY <1>0, <1>13, TeamAssumption DEF DoubleClick, Views, Rows, Kinds
  <2>2. Queue'
    BY <1>0, <1>13, AppendProperties DEF DoubleClick, Queue, Message, Request
  <2> QED BY <1>0, <1>13, <1>f, <1>v, <1>q, <2>1, <2>2 DEF DoubleClick
<1>14. CASE Ask
  <2>1. \A m \in Offered : [what |-> m] \in Message
    BY DEF Offered, Message, Request
  <2>2. ASSUME NEW m \in Offered, queue' = Append(queue, [what |-> m]), UNCHANGED scripts
        PROVE  Queue' /\ Scripts'
    <3>1. Append(queue, [what |-> m]) \in Seq(Message)
      BY <1>0, <2>1, AppendProperties DEF Queue
    <3> QED BY <1>0, <1>v, <2>2, <3>1 DEF Queue
  <2>3. ASSUME NEW o \in Object, scripts' = Append(scripts, o), UNCHANGED queue
        PROVE  Queue' /\ Scripts'
    <3>1. Append(scripts, o) \in Seq(Object)
      BY <1>0, AppendProperties DEF Scripts
    <3> QED BY <1>0, <1>v, <2>3, <3>1 DEF Scripts
  <2>4. Queue' /\ Scripts'
    <3>1. CASE \E m \in Offered : queue' = Append(queue, [what |-> m]) /\ UNCHANGED scripts
      BY <2>2, <3>1
    <3>2. CASE \E o \in Object : scripts' = Append(scripts, o) /\ UNCHANGED queue
      BY <2>3, <3>2
    <3> HIDE DEF Queue, Scripts
    <3> QED BY <1>14, <3>1, <3>2 DEF Ask
  <2> QED BY <1>0, <1>14, <1>f, <1>v, <1>q, <2>4 DEF Ask
<1>15. ASSUME NEW o \in Object, Begins(o) \/ Ends(o) PROVE TypeOK'
  <2>1. PICK from \in {"unborn", "live"}, to \in {"live", "gone"} : Becomes(o, from, to)
    BY <1>15 DEF Begins, Ends
  <2>2. Kernel'
    BY <1>0, <2>1 DEF Becomes, Kernel
  <2>3. Lists'
    BY <1>0, <2>1 DEF Becomes, Lists
  <2> QED BY <1>0, <2>1, <1>f, <1>v, <1>q, <2>2, <2>3 DEF Begins, Ends, Becomes
<1> QED BY <1>1, <1>2, <1>3, <1>4, <1>5, <1>6, <1>7, <1>8, <1>9, <1>10, <1>11, <1>12, <1>13, <1>14, <1>15
        DEF TeamChange, Handler, User

\* The first state has the types.
LEMMA InitType == Init => TypeOK
<1> SUFFICES ASSUME Init PROVE TypeOK
  OBVIOUS
<1>1. left \in [Deed -> Nat]
  BY TeamAssumption DEF Init
<1>2. StackTypeOK
  <2>1. [t \in Thread |-> <<>>] \in [Thread -> Seq({"update", "quit"})]
    OBVIOUS
  <2> QED BY <1>1, <2>1 DEF Init, InitStacks, StackTypeOK, Steps
<1>3. kernel \in [Object -> {"unborn", "live", "gone"}]
  BY DEF Init
<1>4. tab \in Tabs /\ menu = MenuOf(tab)
  BY DEF Init, Tabs, MenuOf
<1>5. /\ rows \in [Kinds -> SUBSET Object] /\ \A k \in Kinds : \A o \in rows[k] : KindOf[o] = k
      /\ current \in [Kinds -> Rows] /\ \A k \in Kinds : current[k] \in rows[k] \cup {NoRow}
  BY DEF Init, LiveOf, Rows
<1>6. queue \in Seq(Message) /\ scripts \in Seq(Object) /\ lived \subseteq seen /\ seen \subseteq Object
  BY DEF Init
<1> QED BY <1>2, <1>3, <1>4, <1>5, <1>6 DEF Init, TypeOK

\* A step of the stack windows, or none, leaves the rest alone.
LEMMA TypeStep == TypeOK /\ [Next]_vars => TypeOK'
<1> SUFFICES ASSUME TypeOK, [Next]_vars PROVE TypeOK'
  OBVIOUS
<1>u. StackTypeOK' /\ UNCHANGED <<kernel, teamVars>> => TypeOK'
  BY DEF TypeOK, teamVars, viewVars, listingVars
<1>1. CASE TeamChange
  BY <1>1, TeamTypeStep
<1>2. CASE StackChange
  BY <1>2, <1>u, StackTypeStep DEF StackChange, TypeOK
<1>3. CASE UNCHANGED vars
  <2>1. StackTypeOK'
    BY <1>3 DEF TypeOK, StackTypeOK, vars, stackVars, openVars, windowVars, listVars
  <2> QED BY <1>3, <1>u, <2>1 DEF vars
<1> QED BY <1>1, <1>2, <1>3 DEF Next, TeamChange, StackChange

\* In every state of every behaviour the variables have their types: among them,
\* the menu is that of the selected tab, every row is in the view of its object,
\* and what is selected has a row.
THEOREM TypeCorrect == Spec => []TypeOK
<1> QED BY InitType, TypeStep, PTL DEF Spec

------------------------------------------------------------------------------
(* The map of stack windows.                                               *)

\* The thread of the team's window holds stacksLocker from the search in the map
\* until OpenStackWindow returns, and only it has a window under construction.
MapInv ==
  /\ stacksLocker = Team <=> opPc \in {"activate", "build"}
  /\ \A t \in Thread : phase[t] = "built" <=> opPc = "build" /\ opId = t
  /\ MapHoldsWindows

\* The team's window, the application and the team leave the stack windows alone;
\* only a double click calls OpenStackWindow, and a crash is not undone.
LEMMA TeamFrame ==
  ASSUME TypeOK, TeamChange
  PROVE  /\ UNCHANGED <<stacks, stacksLocker, windowVars, listVars>>
         /\ UNCHANGED openVars \/ \E t \in Thread : Call(t)
         /\ crashed => crashed'
<1>1. CASE Invoke
  <2>1. current["threads"] # NoRow => current["threads"] \in Thread
    BY TeamAssumption DEF TypeOK, Kinds
  <2> QED BY <1>1, <2>1 DEF Invoke, Receive, Idle
<1>2. CASE ListNext \/ ListEnd
  BY <1>2 DEF ListNext, ListEnd, stackVars
<1>3. CASE UpdateMsg
  BY <1>3 DEF UpdateMsg, stackVars
<1>4. CASE Signal \/ ShowSem \/ ShowThread
  BY <1>4 DEF Signal, ShowSem, ShowThread, Receive, Idle, stackVars
<1>5. CASE ShowStackArea \/ ShowItem
  BY <1>5 DEF ShowStackArea, ShowItem, stackVars
<1>6. CASE HandleScript
  BY <1>6 DEF HandleScript, stackVars
<1>7. CASE User
  BY <1>7 DEF User, SelectTab, SelectRow, DoubleClick, Ask, stackVars
<1>8. CASE \E o \in Object : Begins(o) \/ Ends(o)
  BY <1>8 DEF Begins, Ends, Becomes, stackVars
<1> QED BY <1>1, <1>2, <1>3, <1>4, <1>5, <1>6, <1>7, <1>8 DEF TeamChange, Handler

\* Every step keeps the agreement of map, lock and windows.
LEMMA MapStep == TypeOK /\ MapInv /\ [Next]_vars => MapInv'
<1> SUFFICES ASSUME TypeOK, MapInv, [Next]_vars PROVE MapInv'
  OBVIOUS
<1> USE StackAssumption DEF MapInv, MapHoldsWindows
<1>0. StackTypeOK
  BY DEF TypeOK
<1>u. UNCHANGED <<openVars, stacks, stacksLocker, phase>> => MapInv'
  BY DEF openVars
<1>1. CASE TeamChange
  <2>1. UNCHANGED <<stacks, stacksLocker, phase>>
    BY <1>1, TeamFrame DEF windowVars
  <2>2. ASSUME NEW t \in Thread, Call(t) PROVE MapInv'
    BY <2>1, <2>2 DEF Call
  <2> QED BY <1>1, <1>u, <2>1, <2>2, TeamFrame
<1>2. ASSUME NEW t \in Thread, ListFrames(t) \/ ReadPortFails(t) PROVE MapInv'
  BY <1>0, <1>2, <1>u, FramesFrame
<1>3. CASE Find
  BY <1>0, <1>3 DEF Find, StackTypeOK
<1>4. CASE Activate
  BY <1>0, <1>4 DEF Activate, Return, StackTypeOK, windowVars
<1>5. CASE Show
  BY <1>0, <1>5 DEF Show, Return, StackTypeOK
<1>6. ASSUME NEW t \in Thread, Update(t) \/ Quit(t) PROVE MapInv'
  BY <1>0, <1>6 DEF Update, Quit, Dispatch, StackTypeOK, openVars
<1>7. ASSUME NEW t \in Thread, Updated(t) PROVE MapInv'
  BY <1>0, <1>7 DEF Updated, StackTypeOK, openVars
<1>8. ASSUME NEW t \in Thread, Destroy(t) PROVE MapInv'
  BY <1>0, <1>8 DEF Destroy, StackTypeOK, openVars
<1>9. CASE Stops
  BY <1>9, <1>u DEF Stops, ThreadStops, windowVars
<1>10. CASE AskWindows
  BY <1>10, <1>u DEF AskWindows, AskWindow
<1>11. CASE UNCHANGED vars
  BY <1>11, <1>u DEF vars, stackVars, windowVars
<1> QED BY <1>1, <1>2, <1>3, <1>4, <1>5, <1>6, <1>7, <1>8, <1>9, <1>10, <1>11
        DEF Next, TeamChange, Stack, Opener, Window, PortFails

\* However windows are opened and closed, and threads end, the map of stack
\* windows holds exactly the windows whose threads run: OpenStackWindow never
\* activates a deleted window and never makes a second one for a thread.
THEOREM MapIsTrue == Spec => []MapHoldsWindows
<1>1. Init => MapInv
  BY StackAssumption DEF Init, InitStacks, MapInv, MapHoldsWindows
<1>2. MapInv => MapHoldsWindows
  BY DEF MapInv
<1> QED BY <1>1, <1>2, MapStep, TypeCorrect, PTL DEF Spec

------------------------------------------------------------------------------
(* What ListFrames holds.                                                  *)

\* ListFrames runs while its window is built or updated; a window whose list
\* failed was sent B_QUIT_REQUESTED, or the program is gone.
FramesInv ==
  /\ \A t \in Thread :
       /\ step[t] # "none" => phase[t] \in {"built", "update"}
       /\ phase[t] = "built" /\ step[t] = "none" /\ t \notin filled => inbox[t] # <<>>
       /\ phase[t] = "update" /\ step[t] = "none" => t \in filled \/ crashed
  /\ NothingLeftBehind

\* One step of ListFrames.
LEMMA ListFramesStep ==
  ASSUME StackTypeOK, FramesInv, NEW t \in Thread, ListFrames(t) \/ ReadPortFails(t),
         phase[t] \in {"built", "update"}
  PROVE  FramesInv'
<1> USE StackAssumption DEF StackTypeOK, FramesInv, NothingLeftBehind, Steps
<1>1. ASSUME Fail(t) PROVE FramesInv'
  <2>1. Append(inbox[t], "quit") # <<>>
    BY AppendProperties
  <2> QED BY <1>1, <2>1 DEF Fail, Undone
<1>2. CASE GetThreadInfo(t)
  BY <1>1, <1>2 DEF GetThreadInfo, Proceed, windowVars
<1>3. CASE CreatePort(t)
  BY <1>1, <1>3 DEF CreatePort, Proceed, windowVars
<1>4. CASE InstallTeamDebugger(t)
  <2>1. CASE debugger' = t /\ Proceed(t, "context") /\ UNCHANGED <<ports, stop>>
    <3>1. step' = [step EXCEPT ![t] = "context"] /\ UNCHANGED <<crashed, phase, inbox, filled>>
      BY <2>1 DEF Proceed, windowVars
    <3> QED BY <1>4, <2>1, <3>1 DEF InstallTeamDebugger
  <2> QED BY <1>1, <1>4, <2>1 DEF InstallTeamDebugger
<1>5. CASE InitDebugContext(t)
  BY <1>1, <1>5 DEF InitDebugContext, Proceed, windowVars
<1>6. CASE StopThread(t)
  BY <1>1, <1>6 DEF StopThread, Proceed, windowVars
<1>7. CASE SpawnDebugThread(t)
  BY <1>1, <1>7 DEF SpawnDebugThread, Proceed, windowVars
<1>8. CASE WaitForDebugThread(t)
  BY <1>8 DEF WaitForDebugThread, Proceed, windowVars
<1>9. CASE WriteStackTrace(t)
  BY <1>9 DEF WriteStackTrace, Undone, windowVars
<1>10. CASE ReadPortFails(t)
  BY <1>1, <1>10 DEF ReadPortFails
<1> QED BY <1>2, <1>3, <1>4, <1>5, <1>6, <1>7, <1>8, <1>9, <1>10 DEF ListFrames

\* Every step keeps the account of what ListFrames holds.
LEMMA FramesStep == TypeOK /\ MapInv /\ FramesInv /\ [Next]_vars => FramesInv'
<1> SUFFICES ASSUME TypeOK, MapInv, FramesInv, [Next]_vars PROVE FramesInv'
  OBVIOUS
<1>0. StackTypeOK
  BY DEF TypeOK
<1>u. UNCHANGED <<phase, inbox, filled, step, ports, debugger>> /\ (crashed => crashed') => FramesInv'
  BY DEF FramesInv, NothingLeftBehind
<1> USE StackAssumption DEF FramesInv, NothingLeftBehind, Steps
<1>1. CASE TeamChange
  BY <1>1, <1>u, TeamFrame DEF windowVars, listVars
<1>2. ASSUME NEW t \in Thread, ListFrames(t) \/ ReadPortFails(t), phase[t] \in {"built", "update"} PROVE FramesInv'
  BY <1>0, <1>2, ListFramesStep
<1>3. CASE Find /\ UNCHANGED crashed
  <2>1. opId \in Thread /\ (opId \notin stacks => phase[opId] = "none")
    BY <1>0, <1>3 DEF Find, StackTypeOK, MapInv, MapHoldsWindows
  <2> QED BY <1>0, <1>3, <2>1 DEF Find, StackTypeOK
<1>4. CASE Activate /\ UNCHANGED crashed
  BY <1>4, <1>u DEF Activate, windowVars, listVars
<1>5. CASE Show /\ UNCHANGED crashed
  <2>1. opId \in Thread /\ phase[opId] = "built"
    BY <1>0, <1>5 DEF Show, StackTypeOK, MapInv
  <2> QED BY <1>0, <1>5, <2>1 DEF Show, StackTypeOK, listVars
<1>6. ASSUME NEW t \in Thread, Update(t) \/ Quit(t), UNCHANGED crashed PROVE FramesInv'
  BY <1>0, <1>6 DEF Update, Quit, Dispatch, StackTypeOK, listVars
<1>7. ASSUME NEW t \in Thread, Updated(t), ~crashed, UNCHANGED crashed PROVE FramesInv'
  BY <1>0, <1>7 DEF Updated, StackTypeOK, listVars
<1>8. ASSUME NEW t \in Thread, Destroy(t), UNCHANGED crashed PROVE FramesInv'
  BY <1>0, <1>8 DEF Destroy, StackTypeOK
<1>9. CASE Stops
  BY <1>9, <1>u DEF Stops, ThreadStops, windowVars
<1>10. ASSUME NEW t \in Thread, NEW m \in {"update", "quit"}, AskWindow(t, m), UNCHANGED crashed
       PROVE  FramesInv'
  <2>1. inbox[t] \in Seq({"update", "quit"})
    BY <1>0 DEF StackTypeOK
  <2>2. Append(inbox[t], m) # <<>>
    BY <2>1, AppendProperties
  <2> QED BY <1>0, <1>10, <2>2 DEF AskWindow, StackTypeOK, listVars
<1>11. CASE UNCHANGED vars
  BY <1>11, <1>u DEF vars, stackVars, windowVars, listVars
<1>12. ASSUME NEW t \in Thread, ReadPortFails(t) PROVE FramesInv'
  <2>1. phase[t] \in {"built", "update"}
    BY <1>12 DEF ReadPortFails
  <2> QED BY <1>2, <1>12, <2>1
<1> QED BY <1>1, <1>2, <1>3, <1>4, <1>5, <1>6, <1>7, <1>8, <1>9, <1>10, <1>11, <1>12
        DEF Next, TeamChange, Stack, Opener, Window, PortFails, AskWindows

\* On whatever way ListFrames ends, whichever of its calls fails and whatever
\* else runs, it leaves neither a port nor a debugged team behind, and a window
\* that is shown without frames is about to close or to update.
THEOREM FramesAreUndone == Spec => []NothingLeftBehind
<1>1. Init => MapInv /\ FramesInv
  BY StackAssumption DEF Init, InitStacks, MapInv, MapHoldsWindows, FramesInv, NothingLeftBehind
<1>2. FramesInv => NothingLeftBehind
  BY DEF FramesInv
<1> QED BY <1>1, <1>2, MapStep, FramesStep, TypeCorrect, PTL DEF Spec

------------------------------------------------------------------------------
(* Lists made while the team changes.                                      *)

\* Behind the cookie, a list under way has found everything that lived all the
\* time, and it has found nothing that never lived.
Found == rows[listing.kind] \ listing.prev
RowsInv ==
  listing # NotListing =>
    /\ lived \subseteq LiveOf(listing.kind) /\ LiveOf(listing.kind) \subseteq seen
    /\ Found \subseteq seen
    /\ \A o \in lived : o <= listing.cookie => o \in Found
    /\ listing.then = "show" => tab = listing.kind

\* A List function begins with nothing found, for the view that is selected when
\* a row is to be shown.
LEMMA ListBegins ==
  ASSUME TypeOK, NEW k \in Kinds, NEW then, NEW id, ListView(k, then, id),
         UNCHANGED <<kernel, rows>>, then = "show" => tab' = k
  PROVE  RowsInv'
<1>1. /\ listing' = [kind |-> k, prev |-> rows[k], cookie |-> 0, then |-> then, id |-> id]
      /\ lived' = LiveOf(k) /\ seen' = LiveOf(k)
  BY DEF ListView, ListImages, ListThreads, ListAreas, ListPorts, ListSems, ListFiles, List, Kinds
<1>2. LiveOf(k)' = LiveOf(k)
  BY DEF LiveOf, Live
<1>3. \A o \in LiveOf(k) : ~(o <= 0)
  BY TeamAssumption DEF LiveOf
<1> QED BY <1>1, <1>2, <1>3 DEF RowsInv, Found

\* Every step keeps the account of the list under way.
LEMMA RowsStep == TypeOK /\ RowsInv /\ [Next]_vars => RowsInv'
<1> SUFFICES ASSUME TypeOK, RowsInv, [Next]_vars PROVE RowsInv'
  OBVIOUS
<1>u. UNCHANGED <<kernel, rows, listing, lived, seen>> /\ (UNCHANGED tab \/ listing = NotListing) => RowsInv'
  BY DEF RowsInv, Found, LiveOf, Live
<1>1. CASE ListNext
  <2> PICK o \in Ahead :
        /\ \A p \in Ahead : o <= p
        /\ listing' = [listing EXCEPT !.prev = @ \ {o}, !.cookie = o]
        /\ rows' = [rows EXCEPT ![listing.kind] = @ \cup {o}]
    BY <1>1 DEF ListNext
  <2>1. /\ listing # NotListing /\ UNCHANGED <<kernel, tab, lived, seen>>
        /\ listing \in [kind : Kinds, prev : SUBSET Object, cookie : Nat, then : {"nothing", "show", "stack"}, id : Rows]
        /\ rows \in [Kinds -> SUBSET Object]
    BY <1>1 DEF ListNext, TypeOK
  <2>2. /\ listing'.kind = listing.kind /\ listing'.cookie = o /\ listing'.then = listing.then
        /\ listing'.prev = listing.prev \ {o}
        /\ rows'[listing.kind] = rows[listing.kind] \cup {o}
    BY <2>1
  <2>3. o \in LiveOf(listing.kind) /\ Object \subseteq Nat
    BY TeamAssumption DEF Ahead
  <2>4. Found' = Found \cup {o}
    BY <2>2 DEF Found
  <2>5. \A p \in lived : p <= o => p \in Found'
    BY <2>1, <2>3, <2>4 DEF RowsInv, Ahead, LiveOf
  <2> QED BY <2>1, <2>2, <2>3, <2>4, <2>5 DEF RowsInv, LiveOf, Live
<1>2. CASE ListEnd
  BY <1>2 DEF ListEnd, RowsInv
<1>3. CASE UpdateMsg
  <2>1. tab \in Kinds
    BY <1>3 DEF UpdateMsg, ListView, Kinds
  <2> QED BY <1>3, <2>1, ListBegins DEF UpdateMsg, viewVars
<1>4. CASE Invoke
  BY <1>4, <1>u DEF Invoke, Receive, viewVars, listingVars
<1>5. CASE Signal \/ ShowSem \/ ShowThread
  BY <1>5, <1>u DEF Signal, ShowSem, ShowThread, Receive, viewVars, listingVars
<1>6. CASE ShowStackArea
  <2>1. CASE ListAreas("stack", current["threads"])
    BY <1>6, <2>1, ListBegins DEF ShowStackArea, Receive, ListView, viewVars, Kinds
  <2> QED BY <1>6, <1>u, <2>1 DEF ShowStackArea, Receive, viewVars, listingVars
<1>7. CASE ShowItem
  <2>1. Head(queue).kind \in Kinds
    BY <1>7 DEF ShowItem, ListView, Kinds
  <2> QED BY <1>7, <2>1, ListBegins DEF ShowItem, Receive, Select
<1>8. CASE HandleScript
  BY <1>8, <1>u DEF HandleScript, viewVars, listingVars
<1>9. ASSUME NEW t \in Tabs, SelectTab(t) PROVE RowsInv'
  BY <1>9, <1>u DEF SelectTab, Idle, listingVars
<1>10. ASSUME NEW o \in Object, SelectRow(o) PROVE RowsInv'
  BY <1>10, <1>u DEF SelectRow, listingVars
<1>11. ASSUME NEW t \in Thread, DoubleClick(t) PROVE RowsInv'
  BY <1>11, <1>u DEF DoubleClick, listingVars
<1>12. CASE Ask
  BY <1>12, <1>u DEF Ask, viewVars, listingVars
<1>13. ASSUME NEW o \in Object, Begins(o) \/ Ends(o) PROVE RowsInv'
  <2>1. PICK from \in {"unborn", "live"}, to \in {"live", "gone"} : Becomes(o, from, to)
    BY <1>13 DEF Begins, Ends
  <2>2. /\ lived' = {x \in lived : kernel'[x] = "live"}
        /\ seen' = seen \cup {x \in Object : KindOf[x] = listing.kind /\ kernel'[x] = "live"}
        /\ UNCHANGED <<tab, rows, listing>>
    BY <2>1 DEF Becomes, viewVars
  <2>3. Found' = Found
    BY <2>2 DEF Found
  <2>4. listing # NotListing => lived' \subseteq LiveOf(listing.kind)' /\ LiveOf(listing.kind)' \subseteq seen'
    BY <2>2 DEF RowsInv, LiveOf, Live
  <2> QED BY <2>2, <2>3, <2>4 DEF RowsInv, LiveOf, Live
<1>14. CASE StackChange \/ UNCHANGED vars
  BY <1>14, <1>u DEF StackChange, vars, teamVars, viewVars, listingVars
<1> QED BY <1>1, <1>2, <1>3, <1>4, <1>5, <1>6, <1>7, <1>8, <1>9, <1>10, <1>11, <1>12, <1>13, <1>14
        DEF Next, Handler, User, StackChange

\* Only ListEnd ends a list.
LEMMA ListEnds == TypeOK /\ [Next]_vars /\ listing # NotListing /\ listing' = NotListing => ListEnd
<1> SUFFICES ASSUME TypeOK, [Next]_vars, listing # NotListing, listing' = NotListing PROVE ListEnd
  OBVIOUS
<1>1. CASE ListNext
  <2>1. listing \in [kind : Kinds, prev : SUBSET Object, cookie : Nat, then : {"nothing", "show", "stack"}, id : Rows]
    BY DEF TypeOK
  <2>2. listing'.kind = listing.kind
    BY <1>1, <2>1 DEF ListNext
  <2>3. listing.kind # NotListing.kind
    BY <2>1 DEF NotListing, Kinds
  <2> QED BY <2>2, <2>3
<1>2. CASE UpdateMsg \/ User
  BY <1>2 DEF UpdateMsg, User, SelectTab, SelectRow, DoubleClick, Ask, Idle, listingVars
<1>3. CASE Invoke \/ Signal \/ ShowSem \/ ShowThread \/ ShowStackArea \/ ShowItem
  BY <1>3 DEF Invoke, Signal, ShowSem, ShowThread, ShowStackArea, ShowItem, Receive, Idle
<1>4. CASE HandleScript \/ \E o \in Object : Begins(o) \/ Ends(o)
  BY <1>4 DEF HandleScript, Begins, Ends, Becomes, listingVars
<1>5. CASE StackChange \/ UNCHANGED vars
  BY <1>5 DEF StackChange, vars, teamVars, listingVars
<1> QED BY <1>1, <1>2, <1>3, <1>4, <1>5 DEF Next, Handler, StackChange

\* However threads, areas and semaphores begin and end while they are listed, one
\* system call at a time: a finished list has a row for everything that was there
\* all the time and none for what never was, and shows what was asked for.
THEOREM ListsAreTrue == Spec => ListShowsTeam
<1> DEFINE Shows ==
      listing # NotListing /\ listing' = NotListing =>
        LET k == listing.kind IN
          /\ lived \subseteq rows'[k] /\ rows'[k] \subseteq seen
          /\ listing.then = "show" /\ listing.id \in lived => tab = k /\ current'[k] = listing.id
<1>1. Init => RowsInv
  BY DEF Init, RowsInv
<1>2. TypeOK /\ RowsInv /\ [Next]_vars => [Shows]_vars
  <2> SUFFICES ASSUME TypeOK, RowsInv, [Next]_vars, listing # NotListing, listing' = NotListing
               PROVE  Shows
    BY DEF Shows
  <2>1. ListEnd
    BY ListEnds
  <2>2. /\ listing \in [kind : Kinds, prev : SUBSET Object, cookie : Nat, then : {"nothing", "show", "stack"}, id : Rows]
        /\ rows \in [Kinds -> SUBSET Object] /\ current \in [Kinds -> Rows]
    BY DEF TypeOK
  <2>3. rows'[listing.kind] = Found
    BY <2>1, <2>2 DEF ListEnd, Found
  <2>4. \A o \in lived : o \in Found
    <3>1. \A o \in lived : o \in LiveOf(listing.kind) /\ o \in Nat
      BY TeamAssumption DEF RowsInv, LiveOf
    <3>2. \A o \in lived : o <= listing.cookie
      BY <2>1, <2>2, <3>1 DEF ListEnd, Ahead
    <3> QED BY <3>2 DEF RowsInv
  <2>5. listing.then = "show" /\ listing.id \in lived => current'[listing.kind] = listing.id
    BY <2>1, <2>2, <2>3, <2>4 DEF ListEnd
  <2> QED BY <2>3, <2>4, <2>5 DEF RowsInv
<1> QED BY <1>1, <1>2, RowsStep, TypeCorrect, PTL DEF Spec, ListShowsTeam
==============================================================================
