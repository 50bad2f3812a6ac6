---------------------------- MODULE TabletDevice ----------------------------
(***************************************************************************)
(* I2cTabletDevice: TabletDevice.cpp.  The input server calls Start and    *)
(* Stop; the watcher thread polls the pen and enqueues messages.  What is  *)
(* not initialized is any value: all of fState when the device is          *)
(* constructed (line 93), and the time and the place of a packet whose pen *)
(* is out of range (SetTabletState, line 63).  A place stands for a        *)
(* position with its pressure.                                             *)
(***************************************************************************)
EXTENDS Integers, Sequences

CONSTANTS
    Places,             \* where the pen can be
    NBits,              \* the buttons are the bits below; the pen has 0 and 1
    MaxTime,            \* bound: system_time
    AnyClicks,          \* what fState.clicks may happen to be at first
    doubleClickDelay,
    MaxDowns            \* bound: B_MOUSE_DOWN messages

ASSUME TabletAssumption ==
    /\ Places # {} /\ NBits \in Nat \ {0, 1} /\ MaxTime \in Nat
    /\ doubleClickDelay \in Nat /\ MaxDowns \in Nat
    /\ AnyClicks # {} /\ AnyClicks \subseteq Int

Bits == 0..(NBits - 1)
Times == 0..MaxTime
PenBits == {0, 1}
Place == -1   \* in untold, beside the buttons

VARIABLES
    ctl,              \* where the input server is in Start or Stop
    fWatcherThread,   \* "none", "error" (what spawn_thread returned), "watcher"
    fRun,
    thread,           \* where the watcher is in DeviceWatcher
    suspended,        \* suspend_thread has stopped it
    clock,            \* system_time
    state,            \* DeviceWatcher: the place and the buttons of the packet
    inRange,          \* DeviceWatcher: the packet was read, and the pen was in range
    bit,              \* DeviceWatcher: the next button
    fState, fLastClick, fLastClickBtn,
    server,           \* history: the buttons and the place that the messages so far tell
    untold,           \* history: what was garbage, or lost its message, since a message told it
    downs             \* history: the B_MOUSE_DOWN messages that were made

control == <<ctl, fWatcherThread, fRun>>
clicking == <<fLastClick, fLastClickBtn, downs>>
vars == <<control, thread, suspended, clock, state, inRange, bit, fState, clicking, server, untold>>

TabletState == [when : Times, place : Places, buttons : SUBSET Bits, clicks : Int]

\* The constructor, and InitCheck has found the tablet.
Init ==
    /\ ctl = "idle" /\ fWatcherThread = "none" /\ fRun = FALSE
    /\ thread = "none" /\ suspended = FALSE /\ clock = 0
    /\ \E t \in Times, p \in Places, pressed \in SUBSET Bits, n \in AnyClicks :
          /\ fState = [when |-> t, place |-> p, buttons |-> pressed, clicks |-> n]
          /\ state = [place |-> p, buttons |-> {}]
          /\ server = [pressed |-> {}, place |-> p]
          /\ untold = pressed \cup {Place}
    /\ inRange = FALSE /\ bit = 0
    /\ fLastClick = -1 /\ fLastClickBtn = -1 /\ downs = <<>>

-----------------------------------------------------------------------------
(* Start and Stop, in the input server's thread.                           *)

Control(from, to) == ctl = from /\ ctl' = to /\ UNCHANGED <<clock, state, inRange, bit, fState, clicking, server, untold>>

StartSpawn ==
    /\ fWatcherThread # "watcher"
    /\ \/ Control("idle", "run") /\ fWatcherThread' = "watcher" /\ thread' = "new"
       \/ Control("idle", "idle") /\ fWatcherThread' = "error" /\ UNCHANGED thread
    /\ UNCHANGED <<fRun, suspended>>

\* Mutant: fRun stays as Stop has left it.
StartRunForgotten == Control("run", "resume") /\ UNCHANGED <<fWatcherThread, fRun, thread, suspended>>

StartRun == Control("run", "resume") /\ fRun' = TRUE /\ UNCHANGED <<fWatcherThread, thread, suspended>>

StartResume == Control("resume", "idle") /\ thread' = "loop" /\ UNCHANGED <<fWatcherThread, fRun, suspended>>

StopSuspend ==
    /\ fWatcherThread = "watcher"
    /\ Control("idle", "clear")
    /\ suspended' = TRUE
    /\ UNCHANGED <<fWatcherThread, fRun, thread>>

\* Mutant: the watcher is not told.
StopClearNothing == Control("clear", "wait") /\ UNCHANGED <<fWatcherThread, fRun, thread, suspended>>

StopClear == Control("clear", "wait") /\ fRun' = FALSE /\ UNCHANGED <<fWatcherThread, thread, suspended>>

\* wait_for_thread resumes a suspended thread, and waits.
StopWait == Control("wait", "join") /\ suspended' = FALSE /\ UNCHANGED <<fWatcherThread, fRun, thread>>

StopJoin ==
    /\ thread = "gone"
    /\ Control("join", "idle")
    /\ fWatcherThread' = "none" /\ thread' = "none"
    /\ UNCHANGED <<fRun, suspended>>

ControlNext == StartRun \/ StartResume \/ StopClear \/ StopWait \/ StopJoin

-----------------------------------------------------------------------------
(* DeviceWatcher.                                                          *)

Watcher(at) == thread = at /\ ~suspended /\ UNCHANGED <<control, suspended>>

Loop ==
    /\ Watcher("loop")
    /\ thread' = IF fRun THEN "read" ELSE "gone"
    /\ UNCHANGED <<clock, state, inRange, bit, fState, clicking, server, untold>>

\* The pen is not read, or sends something else.
ReadFails ==
    /\ Watcher("read")
    /\ inRange' = FALSE
    /\ thread' = "snooze"
    /\ UNCHANGED <<clock, state, bit, fState, clicking, server, untold>>

\* SetTabletState, and fState takes the time.
ReadPacket ==
    /\ Watcher("read")
    /\ Len(downs) < MaxDowns
    /\ \E t \in Times, p \in Places :
          \/ \E pressed \in SUBSET PenBits :
                /\ t >= clock /\ clock' = t
                /\ state' = [place |-> p, buttons |-> pressed]
                /\ inRange' = TRUE
                /\ fState' = [fState EXCEPT !.when = t]
          \/ /\ state' = [place |-> p, buttons |-> {}]
             /\ inRange' = FALSE
             /\ fState' = [fState EXCEPT !.when = t]
             /\ UNCHANGED clock
    /\ thread' = "move"
    /\ UNCHANGED <<bit, clicking, server, untold>>

\* A message is enqueued that tells these buttons.
Sent(pressed, what) ==
    /\ server' = [pressed |-> pressed, place |-> fState'.place]
    /\ untold' = untold \ {Place, what}

\* It is not made, or EnqueueMessage refuses it: its status is ignored.
Lost(what) == untold' = untold \cup {what} /\ UNCHANGED server

\* B_MOUSE_MOVED; if it cannot be made the loop goes on with the next packet.
Move ==
    /\ Watcher("move")
    /\ fState' = [fState EXCEPT !.place = state.place]
    /\ bit' = 0
    /\ \/ fState.place = state.place /\ thread' = "buttons" /\ UNCHANGED <<server, untold>>
       \/ fState.place # state.place /\ thread' = "buttons" /\ (Sent(server.pressed, Place) \/ Lost(Place))
       \/ fState.place # state.place /\ thread' = "loop" /\ Lost(Place)
    /\ UNCHANGED <<clock, state, inRange, clicking>>

Inverted(pressed, i) == (pressed \ {i}) \cup ({i} \ pressed)

\* Mutant: the presses of another button, or of none, are counted, too.
ClicksOfAny(i) == IF fState.when - fLastClick >= doubleClickDelay THEN fState.clicks + 1 ELSE 1

Clicks(i) == IF i = fLastClickBtn /\ fState.when - fLastClick >= doubleClickDelay THEN fState.clicks + 1 ELSE 1

\* Mutant: the bit is not inverted before the message is made.
ButtonTwice ==
    /\ Watcher("buttons") /\ bit < NBits
    /\ bit' = bit + 1
    /\ IF (bit \in fState.buttons) = (bit \in state.buttons) THEN UNCHANGED <<fState, clicking, server, untold>>
       ELSE /\ UNCHANGED <<fState, clicking>>
            /\ Sent(IF bit \in fState.buttons THEN server.pressed \cup {bit} ELSE server.pressed \ {bit}, bit)
    /\ UNCHANGED <<thread, clock, state, inRange>>

\* B_MOUSE_DOWN and B_MOUSE_UP; if it cannot be made the next button comes.  A
\* press is counted before it is enqueued.
Button ==
    /\ Watcher("buttons") /\ bit < NBits
    /\ bit' = bit + 1
    /\ IF (bit \in fState.buttons) = (bit \in state.buttons) THEN UNCHANGED <<fState, clicking, server, untold>>
       ELSE \/ /\ Lost(bit)
               /\ fState' = [fState EXCEPT !.buttons = Inverted(@, bit)]
               /\ UNCHANGED clicking
            \/ /\ bit \notin fState.buttons
               /\ fState' = [fState EXCEPT !.buttons = Inverted(@, bit), !.clicks = Clicks(bit)]
               /\ fLastClickBtn' = bit /\ fLastClick' = fState.when
               /\ downs' = Append(downs, [button |-> bit, when |-> fState.when, clicks |-> Clicks(bit)])
               /\ Sent(server.pressed \cup {bit}, bit) \/ Lost(bit)
            \/ /\ bit \in fState.buttons
               /\ fState' = [fState EXCEPT !.buttons = Inverted(@, bit)]
               /\ Sent(server.pressed \ {bit}, bit)
               /\ UNCHANGED clicking
    /\ UNCHANGED <<thread, clock, state, inRange>>

ButtonsDone ==
    /\ Watcher("buttons") /\ bit = NBits
    /\ thread' = "snooze"
    /\ UNCHANGED <<clock, state, inRange, bit, fState, clicking, server, untold>>

Snooze ==
    /\ Watcher("snooze")
    /\ thread' = "loop"
    /\ UNCHANGED <<clock, state, inRange, bit, fState, clicking, server, untold>>

WatcherNext == Loop \/ ReadFails \/ ReadPacket \/ Move \/ Button \/ ButtonsDone \/ Snooze

Next == StartSpawn \/ StopSuspend \/ ControlNext \/ WatcherNext

Spec == Init /\ [][Next]_vars

\* A thread that is not suspended runs, and the input server goes on with its call.
FairSpec == Spec /\ WF_vars(WatcherNext) /\ WF_vars(ControlNext)

-----------------------------------------------------------------------------
TypeOK ==
    /\ ctl \in {"idle", "run", "resume", "clear", "wait", "join"}
    /\ fWatcherThread \in {"none", "error", "watcher"} /\ fRun \in BOOLEAN
    /\ thread \in {"none", "new", "loop", "read", "move", "buttons", "snooze", "gone"} /\ suspended \in BOOLEAN
    /\ clock \in Times /\ fState \in TabletState
    /\ state \in [place : Places, buttons : SUBSET PenBits]
    /\ inRange \in BOOLEAN /\ bit \in 0..NBits
    /\ server \in [pressed : SUBSET Bits, place : Places]
    /\ untold \subseteq Bits \cup {Place}

(***************************************************************************)
(* A tablet is watched from Start to Stop and not longer: when the input   *)
(* server is in neither, fWatcherThread names a watcher that runs and has  *)
(* not been told to end, or there is no thread that could enqueue a        *)
(* message, whichever step of its loop Stop (TabletDevice.cpp:157)         *)
(* suspended it in, and however often spawn_thread has failed.             *)
(***************************************************************************)
WatchedWhileStarted ==
    ctl = "idle" =>
        IF fWatcherThread = "watcher" THEN fRun /\ ~suspended /\ thread \notin {"none", "new", "gone"}
        ELSE thread = "none"

(***************************************************************************)
(* When the watcher has dealt with a packet of a pen in range, the         *)
(* messages so far tell the input server the place of the pen and which of *)
(* its buttons are pressed, across stops, starts and packets that are      *)
(* missed: all but what the constructor left undefined, FillMessage could  *)
(* not put into a message (TabletDevice.cpp:197, :207) or EnqueueMessage   *)
(* refused (:198, :220), and that only until the next message about it.    *)
(***************************************************************************)
ServerFollowsPen ==
    thread = "snooze" /\ inRange =>
        /\ \A b \in Bits : b \in untold \/ (b \in server.pressed <=> b \in state.buttons)
        /\ Place \in untold \/ server.place = state.place

(***************************************************************************)
(* The clicks of a B_MOUSE_DOWN count the presses of one button in a row   *)
(* that came doubleClickDelay apart or more (TabletDevice.cpp:210: fast    *)
(* presses, which are double clicks elsewhere, start again with one).  A   *)
(* press whose message EnqueueMessage refuses is one of the row (:220),    *)
(* one whose message cannot be made is not (:207).  The clicks are never   *)
(* counted from what was not initialized: neither from what clicks is at   *)
(* first nor from the time of a pen out of range.                          *)
(***************************************************************************)
Follows(k) ==
    k > 1 /\ downs[k].button = downs[k - 1].button /\ downs[k].when - downs[k - 1].when >= doubleClickDelay
ClicksAreSlow ==
    \A k \in DOMAIN downs :
        LET n == downs[k].clicks
        IN  /\ n \in 1..k
            /\ \A j \in (k - n + 2)..k : Follows(j)
            /\ ~Follows(k - n + 1)

(***************************************************************************)
(* Stop returns: the watcher, suspended anywhere, is resumed and sees fRun *)
(* (TabletDevice.cpp:157-161).                                             *)
(***************************************************************************)
StopReturns == ctl \in {"clear", "wait", "join"} ~> ctl = "idle"
=============================================================================
