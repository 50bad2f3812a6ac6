----------------------------- MODULE StackWindows -----------------------------
(***************************************************************************)
(* SystemManager: the windows that show the stack of a thread              *)
(* (StackWindow.cpp).  OpenStackWindow runs on the thread of the team's    *)
(* window, finds the window of a thread in the map "stacks" or makes one,  *)
(* and holds stacksLocker all the while.  A window lists the frames of its *)
(* thread while it is constructed, on the thread that opens it, and on     *)
(* "Update", on its own: for that it becomes the debugger of the team,     *)
(* stops the thread, and waits for the kernel's message that it stopped.   *)
(* A StatusError is caught by the constructor, and by nobody on "Update".  *)
(* One team, whose window never closes.                                    *)
(***************************************************************************)
EXTENDS Naturals, Sequences

CONSTANTS
  Thread,  \* the threads of the team that a window may be opened for
  Object,  \* everything the kernel lists for the team: the threads and more
  Team,    \* the thread of the team's window, when it holds stacksLocker
  None,    \* nobody
  Deed     \* what the user and others do, each a bounded number of times

ASSUME StackAssumption ==
  Thread \subseteq Object /\ Team \notin Thread /\ None \notin Thread \cup {Team}
  /\ "window" \in Deed

VARIABLES
  kernel,       \* kernel[o]: "unborn", "live" or "gone"
  crashed,      \* a StatusError left a message handler: the program is gone
  left,         \* left[d]: how often d may still be done
  opPc,         \* OpenStackWindow: "idle" (not called), "lock", "activate", "build"
  opId,         \* its argument
  stacks,       \* the threads whose window is in the map
  stacksLocker, \* who holds it
  phase,        \* phase[t]: the window of t, "none" when there is none
  inbox,        \* inbox[t]: its messages
  filled,       \* the windows whose list of frames is not empty
  step,         \* step[t]: where ListFrames of t's window is, "none": not running
  ports,        \* the windows that have a debugger port
  debugger,     \* the window that is the debugger of the team
  stop          \* debug_thread of the debugger: "none", "asked", or "told"

listVars == <<filled, step, ports, debugger, stop>>
openVars == <<opPc, opId>>
windowVars == <<phase, inbox>>
stackVars == <<openVars, stacks, stacksLocker, windowVars, listVars>>

Live(o) == kernel[o] = "live"

Spend(d) == left[d] > 0 /\ left' = [left EXCEPT ![d] = @ - 1]

InitStacks ==
  /\ opPc = "idle" /\ opId = None
  /\ stacks = {} /\ stacksLocker = None
  /\ phase = [t \in Thread |-> "none"]
  /\ inbox = [t \in Thread |-> <<>>]
  /\ filled = {} /\ step = [t \in Thread |-> "none"]
  /\ ports = {} /\ debugger = None /\ stop = "none"

------------------------------------------------------------------------------
(* OpenStackWindow, called by the thread of the team's window.             *)

Call(t) ==
  /\ opPc = "idle"
  /\ opPc' = "lock" /\ opId' = t

\* The lock, the search, and the beginning of the constructor.
Find ==
  /\ opPc = "lock" /\ stacksLocker = None
  /\ stacksLocker' = Team
  /\ IF opId \in stacks
     THEN opPc' = "activate" /\ UNCHANGED <<phase, step>>
     ELSE /\ opPc' = "build"
          /\ phase' = [phase EXCEPT ![opId] = "built"]
          /\ step' = [step EXCEPT ![opId] = "info"]
  /\ UNCHANGED <<opId, stacks, inbox, filled, ports, debugger, stop>>

Return == opPc' = "idle" /\ opId' = None /\ stacksLocker' = None

\* Activate takes the looper lock of the window, which its thread holds while it
\* handles a message.  A window that is gone cannot be activated.
Activate ==
  /\ opPc = "activate" /\ phase[opId] = "shown"
  /\ Return
  /\ UNCHANGED <<stacks, windowVars, listVars>>

\* The constructor returned: the window enters the map, and Show starts its thread.
Show ==
  /\ opPc = "build" /\ step[opId] = "none"
  /\ stacks' = stacks \cup {opId}
  /\ phase' = [phase EXCEPT ![opId] = "shown"]
  /\ Return
  /\ UNCHANGED <<inbox, listVars>>

------------------------------------------------------------------------------
(* ListFrames of the window of thread t.                                   *)

\* What the deleters of t's ListFrames undo when it is left.
Undone(t) ==
  /\ ports' = ports \ {t}
  /\ debugger' = IF debugger = t THEN None ELSE debugger
  /\ stop' = IF debugger = t THEN "none" ELSE stop
  /\ step' = [step EXCEPT ![t] = "none"]

\* Mutant: no teamDebuggerDeleter.
FailStillDebugger(t) ==
  /\ ports' = ports \ {t}
  /\ step' = [step EXCEPT ![t] = "none"]
  /\ IF phase[t] = "built"
     THEN inbox' = [inbox EXCEPT ![t] = Append(@, "quit")] /\ UNCHANGED crashed
     ELSE crashed' = TRUE /\ UNCHANGED inbox
  /\ UNCHANGED <<openVars, stacks, stacksLocker, phase, filled, debugger, stop>>

\* Check throws a StatusError.  The constructor shows it and posts
\* B_QUIT_REQUESTED to its own window; MessageReceived does not catch it.
Fail(t) ==
  /\ Undone(t)
  /\ IF phase[t] = "built"
     THEN inbox' = [inbox EXCEPT ![t] = Append(@, "quit")] /\ UNCHANGED crashed
     ELSE crashed' = TRUE /\ UNCHANGED inbox
  /\ UNCHANGED <<openVars, stacks, stacksLocker, phase, filled>>

Proceed(t, s) ==
  /\ step' = [step EXCEPT ![t] = s]
  /\ UNCHANGED <<crashed, openVars, stacks, stacksLocker, windowVars, filled>>

GetThreadInfo(t) ==
  /\ step[t] = "info"
  /\ IF Live(t) THEN Proceed(t, "port") /\ UNCHANGED <<ports, debugger, stop>> ELSE Fail(t)

CreatePort(t) ==
  /\ step[t] = "port"
  /\ \/ Proceed(t, "install") /\ ports' = ports \cup {t} /\ UNCHANGED <<debugger, stop>>
     \/ Fail(t)

\* A team has one debugger at most; a team that is gone has none.
InstallTeamDebugger(t) ==
  /\ step[t] = "install"
  /\ \/ debugger = None /\ Proceed(t, "context") /\ debugger' = t /\ UNCHANGED <<ports, stop>>
     \/ Fail(t)

InitDebugContext(t) ==
  /\ step[t] = "context"
  /\ \/ Proceed(t, "debug") /\ UNCHANGED <<ports, debugger, stop>>
     \/ Fail(t)

\* Mutant: the thread is not asked to stop.
StopThreadUnasked(t) ==
  /\ step[t] = "debug"
  /\ IF Live(t) THEN Proceed(t, "spawn") /\ UNCHANGED <<ports, debugger, stop>> ELSE Fail(t)

StopThread(t) ==
  /\ step[t] = "debug"
  /\ IF Live(t) THEN Proceed(t, "spawn") /\ stop' = "asked" /\ UNCHANGED <<ports, debugger>>
                ELSE Fail(t)

\* spawn_thread is not checked: when it fails nobody sets res, and Check reads
\* whatever it holds.
SpawnDebugThread(t) ==
  /\ step[t] = "spawn"
  /\ \/ Proceed(t, "wait") /\ UNCHANGED <<ports, debugger, stop>>
     \/ Proceed(t, "walk") /\ UNCHANGED <<ports, debugger, stop>>
     \/ Fail(t)

\* The debug thread leaves its loop on B_DEBUGGER_MESSAGE_THREAD_DEBUGGED only.
WaitForDebugThread(t) ==
  /\ step[t] = "wait" /\ debugger = t /\ stop = "told"
  /\ Proceed(t, "walk") /\ UNCHANGED <<ports, debugger, stop>>

\* The debug thread fails, with what read_port fails with, and Check throws.
ReadPortFails(t) == step[t] = "wait" /\ Fail(t)

\* WriteStackTrace, then the deleters.
WriteStackTrace(t) ==
  /\ step[t] = "walk"
  /\ filled' = filled \cup {t}
  /\ Undone(t)
  /\ UNCHANGED <<crashed, openVars, stacks, stacksLocker, windowVars>>

ListFrames(t) ==
  \/ GetThreadInfo(t)
  \/ CreatePort(t)
  \/ InstallTeamDebugger(t)
  \/ InitDebugContext(t)
  \/ StopThread(t)
  \/ SpawnDebugThread(t)
  \/ WaitForDebugThread(t)
  \/ WriteStackTrace(t)

\* The kernel stops the thread and tells the debugger.  (The message that a
\* thread or the team was deleted is read and ignored.)
ThreadStops ==
  /\ stop = "asked" /\ Live(debugger)
  /\ stop' = "told"
  /\ UNCHANGED <<openVars, stacks, stacksLocker, windowVars, filled, step, ports, debugger>>

------------------------------------------------------------------------------
(* The thread of the window of t.                                          *)

Dispatch(t, m) ==
  /\ phase[t] = "shown" /\ inbox[t] # <<>> /\ Head(inbox[t]) = m
  /\ inbox' = [inbox EXCEPT ![t] = Tail(@)]

\* stackUpdateMsg: the view is cleared, and ListFrames begins.
Update(t) ==
  /\ Dispatch(t, "update")
  /\ phase' = [phase EXCEPT ![t] = "update"]
  /\ filled' = filled \ {t}
  /\ step' = [step EXCEPT ![t] = "info"]
  /\ UNCHANGED <<openVars, stacks, stacksLocker, ports, debugger, stop>>

Updated(t) ==
  /\ phase[t] = "update" /\ step[t] = "none"
  /\ phase' = [phase EXCEPT ![t] = "shown"]
  /\ UNCHANGED <<openVars, stacks, stacksLocker, inbox, listVars>>

\* B_QUIT_REQUESTED: the window is deleted by its own thread, which holds the
\* looper lock.
Quit(t) ==
  /\ Dispatch(t, "quit")
  /\ phase' = [phase EXCEPT ![t] = "quitting"]
  /\ UNCHANGED <<openVars, stacks, stacksLocker, listVars>>

\* Mutant: the destructor does not take stacksLocker.
DestroyNoLock(t) ==
  /\ phase[t] = "quitting"
  /\ stacks' = stacks \ {t}
  /\ phase' = [phase EXCEPT ![t] = "none"]
  /\ inbox' = [inbox EXCEPT ![t] = <<>>]
  /\ filled' = filled \ {t}
  /\ UNCHANGED <<openVars, stacksLocker, step, ports, debugger, stop>>

\* ~StackWindow: the lock, the erase, the unlock, and the rest of the deletion.
Destroy(t) ==
  /\ phase[t] = "quitting" /\ stacksLocker = None
  /\ stacks' = stacks \ {t}
  /\ phase' = [phase EXCEPT ![t] = "none"]
  /\ inbox' = [inbox EXCEPT ![t] = <<>>]
  /\ filled' = filled \ {t}
  /\ UNCHANGED <<openVars, stacksLocker, step, ports, debugger, stop>>

\* The menu of the window, its close button: messages to a window that is shown.
AskWindow(t, m) ==
  /\ Spend("window")
  /\ phase[t] \in {"shown", "update"}
  /\ inbox' = [inbox EXCEPT ![t] = Append(@, m)]
  /\ UNCHANGED <<openVars, stacks, stacksLocker, phase, listVars>>

------------------------------------------------------------------------------
(* The steps of the threads, without those of the user.  ListFrames of a   *)
(* window that is built runs on the thread of the team's window.           *)

Opener ==
  /\ ~crashed
  /\ \/ Find /\ UNCHANGED crashed
     \/ Activate /\ UNCHANGED crashed
     \/ Show /\ UNCHANGED crashed
     \/ \E t \in Thread : phase[t] = "built" /\ ListFrames(t)

Window(t) ==
  /\ ~crashed
  /\ \/ Update(t) /\ UNCHANGED crashed
     \/ phase[t] = "update" /\ ListFrames(t)
     \/ Updated(t) /\ UNCHANGED crashed
     \/ Quit(t) /\ UNCHANGED crashed
     \/ Destroy(t) /\ UNCHANGED crashed

Stops == ~crashed /\ ThreadStops /\ UNCHANGED crashed
PortFails == ~crashed /\ \E t \in Thread : ReadPortFails(t)

AskWindows ==
  /\ ~crashed
  /\ \E t \in Thread, m \in {"update", "quit"} : AskWindow(t, m)
  /\ UNCHANGED crashed

------------------------------------------------------------------------------

Steps == {"none", "info", "port", "install", "context", "debug", "spawn", "wait", "walk"}
StackTypeOK ==
  /\ crashed \in BOOLEAN /\ left \in [Deed -> Nat]
  /\ opPc \in {"idle", "lock", "activate", "build"}
  /\ opId \in IF opPc = "idle" THEN {None} ELSE Thread
  /\ stacks \subseteq Thread /\ stacksLocker \in {Team, None}
  /\ phase \in [Thread -> {"none", "built", "shown", "update", "quitting"}]
  /\ inbox \in [Thread -> Seq({"update", "quit"})]
  /\ filled \subseteq Thread /\ step \in [Thread -> Steps] /\ ports \subseteq Thread
  /\ debugger \in Thread \cup {None} /\ stop \in {"none", "asked", "told"}

\* OpenStackWindow activates no window that was deleted, and never makes a
\* second window for a thread: the map holds the windows whose threads run, from
\* Show to the erase in the destructor.
MapHoldsWindows ==
  /\ \A t \in Thread : t \in stacks <=> phase[t] \in {"shown", "update", "quitting"}
  /\ opPc = "activate" => opId \in stacks
  /\ opPc = "build" => opId \notin stacks

\* On whatever way ListFrames is left, it leaves no debugger port and does not
\* remain the debugger of the team, which would be debugged by nobody from then
\* on; and no window is without frames because of a listing that succeeded.
NothingLeftBehind ==
  \A t \in Thread :
    /\ t \in ports => step[t] \in Steps \ {"none", "info", "port"}
    /\ debugger = t => step[t] \in {"context", "debug", "spawn", "wait", "walk"}
    /\ phase[t] = "shown" /\ t \notin filled => inbox[t] # <<>>

\* The waits that do not end: OpenStackWindow waits, with stacksLocker, for the
\* looper of a window whose thread waits for stacksLocker; or the thread whose
\* frames are listed ended before it could stop.
LockCycle == opPc = "activate" /\ phase[opId] = "quitting"
WaitsForTheDead == \E t \in Thread : step[t] = "wait" /\ stop = "asked" /\ ~Live(t)

\* Every call of OpenStackWindow returns, but for these waits and for an
\* "Update" that ended the program.
OpenReturns == (opPc # "idle") ~> (opPc = "idle" \/ crashed \/ LockCycle \/ WaitsForTheDead)
==============================================================================
