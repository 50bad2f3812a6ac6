------------------------------ MODULE TeamWindow ------------------------------
(***************************************************************************)
(* SystemManager: the window of one team (TeamWindow.cpp), which lists     *)
(* what the kernel holds for the team, one list per tab, and opens the     *)
(* windows of module StackWindows; and the scripting of the application    *)
(* (SystemManager.cpp) that tells it what to show.  The kernel gives one   *)
(* item per call, so the team changes while a list is made.                *)
(***************************************************************************)
EXTENDS StackWindows

CONSTANTS
  KindOf,     \* KindOf[o]: the view that lists o; the objects are their numbers
  StackArea,  \* StackArea[t]: the area that holds the stack of thread t
  Sem,        \* Sem[t]: the semaphore thread t waits for, NoRow when there is none
  Holder,     \* Holder[s]: the latest holder of semaphore s
  NoRow,      \* no object
  Scenario    \* bounds: what may be live at first, how often each thing is done

\* The views with rows that come and go; and all tabs.
Kinds == {"images", "threads", "areas", "ports", "sems", "files"}
Tabs == Kinds \cup {"info"}

ASSUME TeamAssumption ==
  /\ Object \subseteq Nat \ {0} /\ NoRow \notin Object
  /\ KindOf \in [Object -> Kinds] /\ Thread = {o \in Object : KindOf[o] = "threads"}
  /\ StackArea \in [Thread -> {o \in Object : KindOf[o] = "areas"}]
  /\ Sem \in [Thread -> {o \in Object : KindOf[o] = "sems"} \cup {NoRow}]
  /\ Holder \in [{o \in Object : KindOf[o] = "sems"} -> Thread]
  /\ Deed = {"window", "open", "click", "tick", "ask", "change"}
  /\ Scenario \subseteq [live : SUBSET Object, left : [Deed -> Nat]]

VARIABLES
  tab,      \* the selected tab
  menu,     \* fCurMenu, by the name of its view, "none" for NULL
  rows,     \* rows[k]: the objects that have a row in the view k
  current,  \* current[k]: CurrentSelection of the view k
  queue,    \* the messages of the window
  scripts,  \* the scripting messages of the application: objects to show
  listing,  \* the List function that runs
  lived,    \* history: what was live in every state since it began
  seen      \* history: what was live in some state since it began

viewVars == <<tab, menu, rows, current>>
listingVars == <<listing, lived, seen>>
teamVars == <<viewVars, queue, scripts, listingVars>>
vars == <<kernel, crashed, left, stackVars, teamVars>>

NotListing == [kind |-> "none", prev |-> {}, cookie |-> 0, then |-> "nothing", id |-> NoRow]
LiveOf(k) == {o \in Object : KindOf[o] = k /\ Live(o)}
MenuOf(t) == IF t \in {"info", "images", "threads", "sems"} THEN t ELSE "none"

\* The program has just shown the window: every view was listed, the first tab
\* is selected.
Init ==
  /\ \E s \in Scenario :
       /\ kernel = [o \in Object |-> IF o \in s.live THEN "live" ELSE "unborn"]
       /\ left = s.left
  /\ crashed = FALSE
  /\ InitStacks
  /\ tab = "info" /\ menu = "info"
  /\ rows = [k \in Kinds |-> LiveOf(k)]
  /\ current = [k \in Kinds |-> NoRow]
  /\ queue = <<>> /\ scripts = <<>>
  /\ listing = NotListing /\ lived = {} /\ seen = {}

\* The thread of the window waits for a message.
Idle == ~crashed /\ opPc = "idle" /\ listing = NotListing

------------------------------------------------------------------------------
(* The List functions.  Each first collects the ids of the rows (prev),    *)
(* then finds or makes the row of every object it is given, and at last    *)
(* removes the rows it was given no object for.                            *)

List(k, then, id) ==
  /\ listing' = [kind |-> k, prev |-> rows[k], cookie |-> 0, then |-> then, id |-> id]
  /\ lived' = LiveOf(k) /\ seen' = LiveOf(k)

ListImages(then, id) == List("images", then, id)
ListThreads(then, id) == List("threads", then, id)
ListAreas(then, id) == List("areas", then, id)
ListPorts(then, id) == List("ports", then, id)
ListSems(then, id) == List("sems", then, id)
ListFiles(then, id) == List("files", then, id)

ListView(view, then, id) ==
  \/ view = "images" /\ ListImages(then, id)
  \/ view = "threads" /\ ListThreads(then, id)
  \/ view = "areas" /\ ListAreas(then, id)
  \/ view = "ports" /\ ListPorts(then, id)
  \/ view = "sems" /\ ListSems(then, id)
  \/ view = "files" /\ ListFiles(then, id)

\* get_next_*_info: the first object of the team behind the cookie.
Ahead == {o \in LiveOf(listing.kind) : o > listing.cookie}

\* One turn of the loop.
ListNext ==
  /\ ~crashed /\ listing # NotListing
  /\ \E o \in Ahead :
       /\ \A p \in Ahead : o <= p
       /\ listing' = [listing EXCEPT !.prev = @ \ {o}, !.cookie = o]
       /\ rows' = [rows EXCEPT ![listing.kind] = @ \cup {o}]
  /\ UNCHANGED <<kernel, crashed, left, stackVars, tab, menu, current, queue, scripts, lived, seen>>

ShowMsg(k, o) == [what |-> "show", kind |-> k, id |-> o]
Request == {"invoke", "signal", "showSem", "showThread", "showStackArea"}
Message == {[what |-> m] : m \in Request} \cup {ShowMsg(KindOf[o], o) : o \in Object}

\* Mutant: the rows of what is gone stay.
ListEndKeepsRows ==
  /\ ~crashed /\ listing # NotListing /\ Ahead = {}
  /\ LET k == listing.kind IN
       /\ UNCHANGED rows
       /\ current' = [current EXCEPT ![k] =
            IF listing.then = "show" /\ listing.id \in rows'[k] THEN listing.id ELSE @]
       /\ queue' = IF listing.then = "stack" /\ StackArea[listing.id] \in rows'[k]
                   THEN Append(queue, ShowMsg(k, StackArea[listing.id])) ELSE queue
  /\ listing' = NotListing /\ lived' = {} /\ seen' = {}
  /\ UNCHANGED <<kernel, crashed, left, stackVars, tab, menu, scripts>>

\* The end of a List function, and of the handler that called it: "show" selects
\* the row that was asked for, "stack" sends the window a message to show the
\* area that holds the stack.
ListEnd ==
  /\ ~crashed /\ listing # NotListing /\ Ahead = {}
  /\ LET k == listing.kind IN
       /\ rows' = [rows EXCEPT ![k] = @ \ listing.prev]
       /\ current' = [current EXCEPT ![k] =
            IF listing.then = "show" /\ listing.id \in rows'[k] THEN listing.id
            ELSE IF @ \in listing.prev THEN NoRow ELSE @]
       /\ queue' = IF listing.then = "stack" /\ StackArea[listing.id] \in rows'[k]
                   THEN Append(queue, ShowMsg(k, StackArea[listing.id])) ELSE queue
  /\ listing' = NotListing /\ lived' = {} /\ seen' = {}
  /\ UNCHANGED <<kernel, crashed, left, stackVars, tab, menu, scripts>>

------------------------------------------------------------------------------
(* MessageReceived of the window.                                          *)

\* TabView::Select, with TabChanged and SetMenu.
Select(t) == tab' = t /\ menu' = MenuOf(t)

SelectTab(t) ==
  /\ Idle /\ t # tab /\ Spend("click")
  /\ Select(t)
  /\ UNCHANGED <<kernel, crashed, stackVars, rows, current, queue, scripts, listingVars>>

SelectRow(o) ==
  /\ Idle /\ KindOf[o] = tab /\ o \in rows[tab] /\ o # current[tab] /\ Spend("click")
  /\ current' = [current EXCEPT ![tab] = o]
  /\ UNCHANGED <<kernel, crashed, stackVars, tab, menu, rows, queue, scripts, listingVars>>

\* A double click on a thread selects its row, and the list sends the window
\* its invocation message.
DoubleClick(t) ==
  /\ Idle /\ tab = "threads" /\ t \in rows[tab] /\ Spend("open")
  /\ current' = [current EXCEPT ![tab] = t]
  /\ queue' = Append(queue, [what |-> "invoke"])
  /\ UNCHANGED <<kernel, crashed, stackVars, tab, menu, rows, scripts, listingVars>>

\* updateMsg, which the message runner sends every half second.
UpdateMsg ==
  /\ Idle /\ Spend("tick") /\ ListView(tab, "nothing", NoRow)
  /\ UNCHANGED <<kernel, crashed, stackVars, viewVars, queue, scripts>>

Receive(what) ==
  /\ Idle /\ queue # <<>> /\ Head(queue).what = what
  /\ UNCHANGED <<kernel, left>>

\* threadsInvokeMsg.
Invoke ==
  /\ Receive("invoke")
  /\ queue' = Tail(queue)
  /\ IF current["threads"] = NoRow THEN UNCHANGED openVars ELSE Call(current["threads"])
  /\ UNCHANGED <<crashed, stacks, stacksLocker, windowVars, listVars, viewVars, scripts, listingVars>>

\* threadsTerminateMsg and threadsSendSignalMsg.  The thread of the row may be
\* gone, or the kernel refuse, and nobody catches the StatusError of CheckErrno.
Signal ==
  /\ Receive("signal")
  /\ queue' = Tail(queue)
  /\ LET t == current["threads"] IN
       crashed' \in CASE tab # "threads" \/ t = NoRow -> {FALSE} [] Live(t) -> BOOLEAN [] OTHER -> {TRUE}
  /\ UNCHANGED <<stackVars, viewVars, scripts, listingVars>>

\* What is shown for a thread or a semaphore.
Target(o) == IF o \in Thread THEN Sem[o] ELSE Holder[o]

\* threadsShowSemMsg and semsShowThreadMsg, by way of the application.
Script(view) ==
  LET o == current[view] IN
    scripts' = IF tab = view /\ o # NoRow /\ Target(o) # NoRow THEN Append(scripts, Target(o))
               ELSE scripts

ShowSem ==
  /\ Receive("showSem")
  /\ queue' = Tail(queue)
  /\ Script("threads")
  /\ UNCHANGED <<crashed, stackVars, viewVars, listingVars>>

ShowThread ==
  /\ Receive("showThread")
  /\ queue' = Tail(queue)
  /\ Script("sems")
  /\ UNCHANGED <<crashed, stackVars, viewVars, listingVars>>

\* threadsShowStackAreaMsg.  (It goes on into semsShowThreadMsg, which returns,
\* as the tab is not that of the semaphores.)
ShowStackArea ==
  /\ Receive("showStackArea")
  /\ queue' = Tail(queue)
  /\ IF tab = "threads" /\ current["threads"] # NoRow
     THEN ListAreas("stack", current["threads"])
     ELSE UNCHANGED listingVars
  /\ UNCHANGED <<crashed, stackVars, viewVars, scripts>>

\* teamWindowShow...Msg.  ("refresh" is sent with AddInt32 and read with
\* FindBool, so it is never found and the areas are listed like all others.)
ShowItem ==
  /\ Receive("show")
  /\ queue' = Tail(queue)
  /\ Select(Head(queue).kind)
  /\ ListView(Head(queue).kind, "show", Head(queue).id)
  /\ UNCHANGED <<crashed, stackVars, rows, current, scripts>>

\* HandleScript, on the thread of the application: nothing when the kernel does
\* not know the object; else OpenTeamWindow finds the window, whose Activate
\* waits until its thread waits for a message, and the window is sent a message.
HandleScript ==
  /\ ~crashed /\ scripts # <<>>
  /\ scripts' = Tail(scripts)
  /\ LET o == Head(scripts) IN
       IF Live(o) THEN Idle /\ queue' = Append(queue, ShowMsg(KindOf[o], o)) ELSE UNCHANGED queue
  /\ UNCHANGED <<kernel, crashed, left, stackVars, viewVars, listingVars>>

------------------------------------------------------------------------------
(* What the user, other programs, and the team do.                         *)

\* The menu of the tab.
Offered ==
  CASE tab = "threads" -> {"signal", "showSem", "showStackArea"}
    [] tab = "sems" -> {"showThread"}
    [] OTHER -> {}

Ask ==
  /\ ~crashed /\ Spend("ask")
  /\ \/ \E m \in Offered : queue' = Append(queue, [what |-> m]) /\ UNCHANGED scripts
     \/ \E o \in Object :
          /\ KindOf[o] \in {"threads", "areas", "ports", "sems"}
          /\ scripts' = Append(scripts, o) /\ UNCHANGED queue
  /\ UNCHANGED <<kernel, crashed, stackVars, viewVars, listingVars>>

\* Something begins or ends; a thread does so with its stack.
Becomes(o, from, to) ==
  /\ ~crashed /\ kernel[o] = from /\ Spend("change")
  /\ kernel' = [x \in Object |->
       IF x = o \/ (o \in Thread /\ x = StackArea[o]) THEN to ELSE kernel[x]]
  /\ lived' = {x \in lived : kernel'[x] = "live"}
  /\ seen' = seen \cup {x \in Object : KindOf[x] = listing.kind /\ kernel'[x] = "live"}
  /\ UNCHANGED <<crashed, stackVars, viewVars, queue, scripts, listing>>

Begins(o) == (\A t \in Thread : o # StackArea[t]) /\ Becomes(o, "unborn", "live")
Ends(o) == (\A t \in Thread : o = StackArea[t] => ~Live(t)) /\ Becomes(o, "live", "gone")

------------------------------------------------------------------------------

Handler ==
  \/ ListNext
  \/ ListEnd
  \/ UpdateMsg
  \/ Invoke
  \/ Signal
  \/ ShowSem
  \/ ShowThread
  \/ ShowStackArea
  \/ ShowItem
User ==
  \/ \E t \in Tabs : SelectTab(t)
  \/ \E o \in Object : SelectRow(o)
  \/ \E t \in Thread : DoubleClick(t)
  \/ Ask
Stack ==
  \/ Opener
  \/ \E t \in Thread : Window(t)
  \/ Stops
  \/ PortFails

Next ==
  \/ Handler
  \/ HandleScript
  \/ User
  \/ Stack /\ UNCHANGED <<kernel, left, teamVars>>
  \/ AskWindows /\ UNCHANGED <<kernel, teamVars>>
  \/ \E o \in Object : Begins(o) \/ Ends(o)

\* Threads run, and the kernel stops a thread it was asked to stop.
Spec ==
  /\ Init /\ [][Next]_vars
  /\ WF_vars(Opener /\ UNCHANGED <<kernel, left, teamVars>>)
  /\ \A t \in Thread : WF_vars(Window(t) /\ UNCHANGED <<kernel, left, teamVars>>)
  /\ WF_vars(Stops /\ UNCHANGED <<kernel, left, teamVars>>)

------------------------------------------------------------------------------

Rows == Object \cup {NoRow}
TypeOK ==
  /\ StackTypeOK
  /\ kernel \in [Object -> {"unborn", "live", "gone"}]
  /\ tab \in Tabs /\ menu = MenuOf(tab)
  /\ rows \in [Kinds -> SUBSET Object] /\ \A k \in Kinds : \A o \in rows[k] : KindOf[o] = k
  /\ current \in [Kinds -> Rows] /\ \A k \in Kinds : current[k] \in rows[k] \cup {NoRow}
  /\ queue \in Seq(Message) /\ scripts \in Seq(Object) /\ lived \subseteq seen /\ seen \subseteq Object
  /\ listing \in {NotListing}
       \cup [kind : Kinds, prev : SUBSET Object, cookie : Nat, then : {"nothing", "show", "stack"}, id : Rows]

\* However the team changes while it is listed: a finished list has a row for
\* everything that was there all the time, and no row for anything that was not
\* there at any time; and what was to be shown is selected in the selected tab
\* if it was there all the time.
ListShowsTeam ==
  [][listing # NotListing /\ listing' = NotListing =>
       LET k == listing.kind IN
         /\ lived \subseteq rows'[k] /\ rows'[k] \subseteq seen
         /\ listing.then = "show" /\ listing.id \in lived => tab = k /\ current'[k] = listing.id]_vars
==============================================================================
