---------------------------- MODULE ScreenKeyboard ----------------------------
(***************************************************************************)
(* ScreenKeyboard: the view that follows fingers (KeyboardWindow.cpp), the *)
(* handler that turns changes of its keys into messages for the input      *)
(* server (KeyboardHandler.cpp), and the calls of the input server         *)
(* (KeyboardDevice.cpp).  The window's thread handles one touch event at a *)
(* time under the looper lock; the input server's thread opens and closes  *)
(* the window and changes the locks, and shares "modifiers" with the       *)
(* window's thread without a lock.  What the constructor does not          *)
(* initialize, "modifiers", is any value until a message about it is       *)
(* enqueued.  The repeat thread is module KeyRepeat; here StartRepeating   *)
(* and StopRepeating only say which key repeats.                           *)
(***************************************************************************)
EXTENDS KeyboardKeys, FiniteSets, Naturals

CONSTANTS
  ShiftKey,      \* the keys that the key map calls shift
  CapsKey,       \* the key that it calls caps lock
  Contact,       \* "be:tablet_contact_id", which indexes "track" unchecked
  CanFail,       \* whether EnqueueMessage may fail
  MaxControl     \* bound: the number of Control calls

ASSUME ScreenKeyboardAssumption ==
  /\ ShiftKey \subseteq Key /\ CapsKey \in Key \ ShiftKey
  /\ IsFiniteSet(Contact) /\ Cardinality(Contact) <= 4   \* int32 track[4]
  /\ CanFail \in BOOLEAN /\ MaxControl \in Nat

VARIABLES
  wnd,                \* the device has a window
  track, pushed, oldPushed,  \* the view's members (pushed as sets of keys)
  todo,               \* the rest of SetPushed's diff
  pc, cur, newMods,   \* the window's thread in StateChanged: its key, its local modifiers
  state, modifiers,   \* the handler's members: the keys, the modifiers in effect
  repeating,          \* the key whose message the handler repeats
  serverPc, locks,    \* the input server's thread, and its local lock settings
  calls,              \* the number of Control calls so far
  told,               \* the modifiers the input server was last told of, if it was
  failed,             \* history: EnqueueMessage has failed
  heldAtStop,         \* history: the window was closed while the handler held keys
  late,               \* history: the thread whose message the other's followed before it has assigned
  stale,              \* history: such a thread was the last that assigned modifiers
  doubled             \* history: a contact went down twice (a mouse with two buttons)

viewVars == <<wnd, track, pushed, oldPushed, todo>>
winVars == <<pc, cur, newMods>>
serverVars == <<serverPc, locks, calls>>
history == <<failed, heldAtStop, late, stale, doubled>>
vars == <<viewVars, winVars, state, modifiers, repeating, serverVars, told, history>>

Locks == {"caps"}
Modifier == Locks \cup {"shift"}

NoTrack == [c \in Contact |-> NoKey]

\* The constructor's two calls of LocksChanged are still to come; no window yet.
\* "shift" stands for all that modifiers may happen to have beside the locks.
Init ==
  /\ wnd = FALSE /\ track = NoTrack /\ pushed = {} /\ oldPushed = {} /\ todo = {}
  /\ pc = "idle" /\ cur = NoKey /\ newMods = {}
  /\ state = {} /\ modifiers \in SUBSET Modifier /\ repeating = NoKey
  /\ serverPc = "locks1" /\ locks = {} /\ calls = 0
  /\ told = {}
  /\ failed = FALSE /\ heldAtStop = FALSE /\ late = "none" /\ stale = FALSE /\ doubled = FALSE

WindowFree == pc = "idle" /\ todo = {}

------------------------------------------------------------------------------
(* The view.                                                               *)

\* SetPushed starts its loop over the keys that differ from the last time.
SetPushed(keys) ==
  /\ pushed' = keys
  /\ todo' = (keys \ oldPushed) \cup (oldPushed \ keys)
  /\ oldPushed' = IF todo' = {} THEN keys ELSE oldPushed
  /\ UNCHANGED <<wnd, winVars, state, modifiers, repeating, serverVars, told, failed, heldAtStop, late, stale>>

\* A finger on a key that another one holds is ignored.
MouseDown(c, k) ==
  /\ wnd /\ WindowFree
  /\ \A d \in Contact : track[d] # k
  /\ track' = [track EXCEPT ![c] = k]
  /\ doubled' = (doubled \/ track[c] # NoKey)
  /\ SetPushed(pushed \cup {k})

MouseUp(c) ==
  /\ wnd /\ WindowFree /\ track[c] # NoKey
  /\ track' = [track EXCEPT ![c] = NoKey]
  /\ UNCHANGED doubled
  /\ SetPushed(pushed \ {track[c]})

MouseMoved(c, inside) ==
  /\ wnd /\ WindowFree /\ track[c] # NoKey
  /\ UNCHANGED <<track, doubled>>
  /\ SetPushed(IF inside THEN pushed \cup {track[c]} ELSE pushed \ {track[c]})

------------------------------------------------------------------------------
(* KeyChanged and StateChanged, for one key of SetPushed's loop.           *)

Enqueued(ok) == (ok \/ CanFail) /\ failed' = (failed \/ ~ok)

\* The input server's thread has sent modifiers and not assigned them.
Assigning == {"assign1", "assign2"}

Assigned(thread) == stale' = (late = thread) /\ late' = IF late = thread THEN "none" ELSE late

NewState == IF cur \in pushed THEN state \cup {cur} ELSE state \ {cur}

\* The modifiers of a new key state: the locks in effect, toggled while the
\* lock key is down, and the keys held.
ModifiersOf(keys) ==
  LET kept == modifiers \cap Locks
  IN  (IF CapsKey \in keys THEN Locks \ kept ELSE kept)
        \cup (IF keys \cap ShiftKey # {} THEN {"shift"} ELSE {})

KeyChanged(k) ==
  /\ pc = "idle" /\ k \in todo
  /\ cur' = k
  /\ newMods' = ModifiersOf(IF k \in pushed THEN state \cup {k} ELSE state \ {k})
  /\ pc' = "modifiers"
  /\ UNCHANGED <<viewVars, state, modifiers, repeating, serverVars, told, history>>

\* B_MODIFIERS_CHANGED, if they differ from the handler's at this moment.
SendModifiers ==
  /\ pc = "modifiers"
  /\ \/ newMods = modifiers /\ pc' = "repeat" /\ UNCHANGED <<told, failed, late>>
     \/ /\ newMods # modifiers
        /\ \E ok \in BOOLEAN :
             /\ Enqueued(ok)
             /\ told' = IF ok THEN {newMods} ELSE told
             /\ late' = IF ok /\ serverPc \in Assigning THEN "server" ELSE late
             /\ pc' = IF ok THEN "assign" ELSE "repeat"
  /\ UNCHANGED <<viewVars, cur, newMods, state, modifiers, repeating, serverVars, heldAtStop, stale, doubled>>

\* Mutant: the modifiers are sent and not remembered.
ForgetModifiers ==
  /\ pc = "assign" /\ pc' = "repeat"
  /\ UNCHANGED <<viewVars, cur, newMods, state, modifiers, repeating, serverVars, told, history>>

AssignModifiers ==
  /\ pc = "assign" /\ pc' = "repeat"
  /\ modifiers' = newMods
  /\ Assigned("window")
  /\ UNCHANGED <<viewVars, cur, newMods, state, repeating, serverVars, told, failed, heldAtStop, doubled>>

\* The key of the loop is done: after the last one oldPushed becomes pushed.
NextKey ==
  /\ todo' = todo \ {cur}
  /\ oldPushed' = IF todo' = {} THEN pushed ELSE oldPushed
  /\ pc' = "idle"
  /\ UNCHANGED <<wnd, track, pushed>>

\* StartRepeating or StopRepeating, before the key's own message is sent.
ChangeRepeat ==
  /\ pc = "repeat"
  /\ \/ NewState = state /\ NextKey /\ UNCHANGED repeating
     \/ /\ NewState # state
        /\ repeating' = IF cur \in pushed THEN cur ELSE NoKey
        /\ pc' = "enqueue"
        /\ UNCHANGED viewVars
  /\ UNCHANGED <<cur, newMods, state, modifiers, serverVars, told, history>>

\* Mutant: the new state is kept for key-down messages only.
SendKeyDownOnly ==
  /\ pc = "enqueue"
  /\ state' = state \cup NewState
  /\ NextKey
  /\ UNCHANGED <<cur, newMods, modifiers, repeating, serverVars, told, history>>

\* The key-down or key-up message; the new state is kept only if it was sent.
SendKey ==
  /\ pc = "enqueue"
  /\ \E ok \in BOOLEAN : Enqueued(ok) /\ state' = IF ok THEN NewState ELSE state
  /\ NextKey
  /\ UNCHANGED <<cur, newMods, modifiers, repeating, serverVars, told, heldAtStop, late, stale, doubled>>

Window ==
  \/ \E k \in Key : KeyChanged(k)
  \/ SendModifiers \/ AssignModifiers \/ ChangeRepeat \/ SendKey

------------------------------------------------------------------------------
(* The input server's thread.                                              *)

serverIdle == <<winVars, state, modifiers, repeating, told>>

Start ==
  /\ serverPc = "idle" /\ ~wnd
  /\ wnd' = TRUE
  /\ UNCHANGED <<track, pushed, oldPushed, todo, serverIdle, serverVars, history>>

\* wnd->Lock() waits for the window; Quit deletes it and its view.
Stop ==
  /\ serverPc = "idle" /\ wnd /\ WindowFree
  /\ wnd' = FALSE
  /\ track' = NoTrack /\ pushed' = {} /\ oldPushed' = {}
  /\ heldAtStop' = (heldAtStop \/ state # {})
  /\ UNCHANGED <<todo, serverIdle, serverVars, failed, late, stale, doubled>>

\* B_KEY_LOCKS_CHANGED calls LocksChanged, falls through to B_KEY_MAP_CHANGED
\* and calls it again with the settings of that moment.
Control(command) ==
  /\ serverPc = "idle" /\ calls < MaxControl
  /\ calls' = calls + 1
  /\ serverPc' = IF command = "locks" THEN "locks1" ELSE "locks2"
  /\ UNCHANGED <<viewVars, serverIdle, locks, history>>

After(point) == IF point \in {"locks1", "assign1"} THEN "locks2" ELSE "notify"

\* LocksChanged, up to EnqueueMessage: s is the lock setting of the key map, of
\* which the constructor has only one.
LocksChanged(s) ==
  /\ serverPc \in {"locks1", "locks2"}
  /\ calls = 0 /\ serverPc = "locks2" => s = locks
  /\ locks' = s
  /\ \/ modifiers = s /\ serverPc' = After(serverPc) /\ UNCHANGED <<told, failed, late>>
     \/ /\ modifiers # s
        /\ \E ok \in BOOLEAN :
             /\ Enqueued(ok)
             /\ told' = IF ok THEN {s} ELSE told
             /\ late' = IF ok /\ pc = "assign" THEN "window" ELSE late
             /\ serverPc' = IF ~ok THEN After(serverPc)
                            ELSE IF serverPc = "locks1" THEN "assign1" ELSE "assign2"
  /\ UNCHANGED <<viewVars, winVars, state, modifiers, repeating, calls, heldAtStop, stale, doubled>>

AssignLocks ==
  /\ serverPc \in Assigning
  /\ modifiers' = locks
  /\ serverPc' = After(serverPc)
  /\ Assigned("server")
  /\ UNCHANGED <<viewVars, winVars, state, repeating, locks, calls, told, failed, heldAtStop, doubled>>

\* KeymapChanged of the view's notifier waits for the looper lock.
Notify ==
  /\ serverPc = "notify" /\ (wnd => WindowFree)
  /\ serverPc' = "idle"
  /\ UNCHANGED <<viewVars, serverIdle, locks, calls, history>>

Server == Start \/ Stop \/ (\E command \in {"locks", "map"} : Control(command))
ServerReturns == (\E s \in SUBSET Locks : LocksChanged(s)) \/ AssignLocks \/ Notify

------------------------------------------------------------------------------
User ==
  \E c \in Contact :
    \/ \E k \in Key : MouseDown(c, k)
    \/ MouseUp(c)
    \/ \E inside \in BOOLEAN : MouseMoved(c, inside)

Next == User \/ Window \/ Server \/ ServerReturns

Spec == Init /\ [][Next]_vars

------------------------------------------------------------------------------
TypeOK ==
  /\ wnd \in BOOLEAN
  /\ track \in [Contact -> Key \cup {NoKey}]
  /\ pushed \in SUBSET Key /\ oldPushed \in SUBSET Key /\ todo \in SUBSET Key
  /\ pc \in {"idle", "modifiers", "assign", "repeat", "enqueue"}
  /\ cur \in Key \cup {NoKey} /\ newMods \in SUBSET Modifier
  /\ state \in SUBSET Key /\ modifiers \in SUBSET Modifier
  /\ repeating \in Key \cup {NoKey}
  /\ serverPc \in {"idle", "locks1", "assign1", "locks2", "assign2", "notify"}
  /\ locks \in SUBSET Locks /\ calls \in Nat /\ told \in SUBSET SUBSET Modifier
  /\ late \in {"none", "window", "server"}
  /\ failed \in BOOLEAN /\ heldAtStop \in BOOLEAN /\ stale \in BOOLEAN /\ doubled \in BOOLEAN

\* A key is drawn as pressed only while a finger that went down on it is still
\* down, and two fingers never share a key, so no key sticks when all are lifted.
\* (Not so for a second mouse button: it overwrites track of its contact.)
\* Between two touches the handler, and so the input server, holds exactly the
\* keys the view shows as pressed, whatever the order in which fingers pressed,
\* left, re-entered and released them; even with a second mouse button.
\* Only a key that is down repeats.
StateFollowsPushed ==
  /\ TypeOK
  /\ ~doubled => /\ pushed \subseteq {track[c] : c \in Contact}
                 /\ \A c, d \in Contact : track[c] = track[d] => c = d \/ track[c] = NoKey
  /\ WindowFree /\ ~failed /\ ~heldAtStop => state = pushed
  /\ WindowFree /\ ~failed => repeating \in state \cup {NoKey}

\* Shift is in effect exactly while a shift key is down, from the end of the
\* constructor, which replaces what modifiers happened to have (KeyboardDevice.cpp:19),
\* as long as nobody calls Control (which drops it).
ShiftFollowsKeys ==
  WindowFree /\ serverPc = "idle" /\ ~failed /\ calls = 0 => ("shift" \in modifiers <=> state \cap ShiftKey # {})

\* Whenever neither thread is between its message and its assignment, the handler
\* has the modifiers it told the input server last (KeyboardHandler.cpp:212, :289), if it
\* has told any: however the two threads read, compare, send and assign them
\* without a lock, whatever modifiers was at first, and whichever message is
\* refused.  One order breaks it: a thread assigns after the message of the other
\* has followed its own (stale), and then until one of them assigns again.
ModifiersAgree == pc # "assign" /\ serverPc \notin Assigning /\ ~stale => told \subseteq {modifiers}
==============================================================================
