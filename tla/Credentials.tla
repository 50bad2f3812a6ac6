----------------------------- MODULE Credentials -----------------------------
(***************************************************************************)
(* The demonstration of Promises/: TestWindow (CredentialsApp.cpp) asks    *)
(* for credentials, GetCredentials opens a CredentialsWindow dialog and    *)
(* returns its promise.  Each window is a thread that handles its messages *)
(* one at a time while it holds its looper lock.  A promise is locked      *)
(* while its callbacks run, and the "update" callbacks of TestWindow take  *)
(* TestWindow's looper lock.  Each promise is the state machine of module  *)
(* Promise (ImplementsPromise).                                            *)
(***************************************************************************)
EXTENDS Sequences, Naturals, Functions

CONSTANTS
  Dialog,      \* the CredentialsWindow objects that can be created, and their threads
  App,         \* the thread of TestWindow
  None,        \* no dialog, no promise, no thread
  MaxRequest,  \* how often the user presses "Request" ...
  MaxCancel,   \* ... and "Cancel" in TestWindow, ...
  MaxLogin,    \* ... presses "Login" in one dialog ...
  MaxClose     \* ... and asks to close one dialog

ASSUME CredentialsAssumption ==
  /\ App \notin Dialog /\ None \notin Dialog \cup {App}
  /\ {MaxRequest, MaxCancel, MaxLogin, MaxClose} \subseteq Nat

VARIABLES
  prom,      \* prom[d]: the promise of dialog d
  appQ,      \* TestWindow: its message queue
  appPc,     \* what its thread is doing ("idle": waiting for a message)
  appAt,     \* the promise it is working on (the local "promise", or this)
  nextReg,   \* the registration it makes next, while appPc = "register"
  fPromise,  \* TestWindow::fPromise
  requestEnabled, cancelEnabled,  \* its buttons
  dlgQ,      \* dlgQ[d]: the message queue of dialog d
  dlgPc,     \* dlgPc[d]: what its thread is doing ("none": not created)
  fResolved, \* CredentialsWindow::fResolved
  pressed    \* how often the user did each thing

appVars == <<appQ, appPc, appAt, nextReg, fPromise, requestEnabled, cancelEnabled>>
dlgVars == <<dlgQ, dlgPc, fResolved>>
demoVars == <<prom, appVars, dlgVars, pressed>>

WindowThread == Dialog \cup {App}

\* The callbacks: CredentialsWindow's OnSet, and the four that TestWindow
\* registers, in this order, for an outcome of one kind each.
AppCallbacks == <<"printResolved", "updateResolved", "printRejected", "updateRejected">>
Callback == {"quit"} \cup Range(AppCallbacks)
Update == {"updateResolved", "updateRejected"}
KindOf(c) == IF c \in {"printResolved", "updateResolved"} THEN "resolved" ELSE "rejected"

NewPromise ==
  [outcome |-> "pending", onResolve |-> <<>>, onReject |-> <<>>, holder |-> None,
   settling |-> FALSE, due |-> <<>>, running |-> <<>>,
   want |-> [c \in Callback |-> {}], log |-> <<>>]

\* The same promise after CredentialsWindow's constructor called OnSet.
DialogPromise ==
  [NewPromise EXCEPT !.onResolve = <<"quit">>, !.onReject = <<"quit">>,
                     !.want["quit"] = {"resolved", "rejected"}]

DemoInit ==
  /\ prom = [d \in Dialog |-> NewPromise]
  /\ appQ = <<>> /\ appPc = "idle" /\ appAt = None /\ nextReg = 1
  /\ fPromise = None
  /\ requestEnabled = TRUE /\ cancelEnabled = FALSE
  /\ dlgQ = [d \in Dialog |-> <<>>]
  /\ dlgPc = [d \in Dialog |-> "none"]
  /\ fResolved = [d \in Dialog |-> FALSE]
  /\ pressed = [request |-> 0, cancel |-> 0,
                login |-> [d \in Dialog |-> 0], close |-> [d \in Dialog |-> 0]]

Crashed == appPc = "crashed"

------------------------------------------------------------------------------
(* The promise of dialog d, seen from thread t.                            *)

Free(d) == prom[d].holder = None

\* Mutant: no test of IsSet.
StartSettlingAgain(t, d, k) ==
  /\ Free(d)
  /\ prom' = [prom EXCEPT ![d].outcome = k, ![d].holder = t, ![d].settling = TRUE,
                          ![d].due = IF k = "resolved" THEN prom[d].onResolve
                                     ELSE prom[d].onReject]

\* Resolve or Reject gets the lock of an unset promise and enters its loop.
StartSettling(t, d, k) ==
  /\ Free(d) /\ prom[d].outcome = "pending"
  /\ prom' = [prom EXCEPT ![d].outcome = k, ![d].holder = t, ![d].settling = TRUE,
                          ![d].due = IF k = "resolved" THEN prom[d].onResolve
                                     ELSE prom[d].onReject]

\* Resolve or Reject gets the lock of a promise that is set and returns false.
RefusedBy(d) == Free(d) /\ prom[d].outcome # "pending"

\* The loop of Resolve or Reject reaches its next item.
CallDue(t, d) ==
  /\ ~Crashed
  /\ LET p == prom[d] IN
       /\ p.holder = t /\ p.settling /\ p.running = <<>> /\ p.due # <<>>
       /\ prom' = [prom EXCEPT ![d].running = <<Head(p.due)>>, ![d].due = Tail(p.due),
                               ![d].log = Append(p.log, Head(p.due))]
  /\ UNCHANGED <<appVars, dlgVars, pressed>>

CallbackEnds(d) ==
  prom' = [prom EXCEPT ![d].running = <<>>,
                       ![d].holder = IF prom[d].settling THEN @ ELSE None]

\* Mutant: Resolve and Reject return with the lock held.
SettlingDoneLocked(t, d) ==
  LET p == prom[d] IN
    /\ p.holder = t /\ p.settling /\ p.running = <<>> /\ p.due = <<>>
    /\ prom' = [prom EXCEPT ![d].settling = FALSE]

SettlingDone(t, d) ==
  LET p == prom[d] IN
    /\ p.holder = t /\ p.settling /\ p.running = <<>> /\ p.due = <<>>
    /\ prom' = [prom EXCEPT ![d].settling = FALSE, ![d].holder = None]

Runs(t, d, c) == ~Crashed /\ prom[d].holder = t /\ prom[d].running = <<c>>

\* The first callback of each kind only prints.
PrintCallback(t, d) ==
  /\ \E c \in {"printResolved", "printRejected"} : Runs(t, d, c)
  /\ CallbackEnds(d)
  /\ UNCHANGED <<appVars, dlgVars, pressed>>

\* The dialog's callback posts B_QUIT_REQUESTED to the dialog.
QuitCallback(t, d) ==
  /\ Runs(t, d, "quit")
  /\ CallbackEnds(d)
  /\ dlgQ' = [dlgQ EXCEPT ![d] = Append(@, "quit")]
  /\ UNCHANGED <<appVars, dlgPc, fResolved, pressed>>

\* The second callback of each kind takes TestWindow's looper lock: another
\* thread waits until TestWindow's thread is between two messages.
UpdateCallback(t, d) ==
  /\ \E c \in Update : Runs(t, d, c)
  /\ t = App \/ appPc = "idle"
  /\ CallbackEnds(d)
  /\ requestEnabled' = TRUE
  /\ cancelEnabled' = FALSE
  /\ fPromise' = None
  /\ UNCHANGED <<appQ, appPc, appAt, nextReg, dlgVars, pressed>>

------------------------------------------------------------------------------
(* TestWindow.  The user presses an enabled button while the thread is free *)
(* to look at the mouse; the button posts a message to the window.          *)

Press(button, enabled, max) ==
  /\ appPc = "idle" /\ enabled
  /\ pressed[button] < max
  /\ pressed' = [pressed EXCEPT ![button] = @ + 1]
  /\ appQ' = Append(appQ, button)
  /\ UNCHANGED <<prom, appPc, appAt, nextReg, fPromise, requestEnabled, cancelEnabled, dlgVars>>

PressRequest == Press("request", requestEnabled, MaxRequest)
PressCancel == Press("cancel", cancelEnabled, MaxCancel)

\* loginBtnPressed: GetCredentials creates the dialog, which registers its
\* callback and is shown, then TestWindow stores the promise.
ReceiveRequest ==
  /\ appPc = "idle" /\ appQ # <<>> /\ Head(appQ) = "request"
  /\ \E d \in Dialog :
       /\ dlgPc[d] = "none"
       /\ prom' = [prom EXCEPT ![d] = DialogPromise]
       /\ dlgPc' = [dlgPc EXCEPT ![d] = "idle"]
       /\ fPromise' = d
       /\ appAt' = d
  /\ appQ' = Tail(appQ)
  /\ appPc' = "register" /\ nextReg' = 1
  /\ requestEnabled' = FALSE /\ cancelEnabled' = TRUE
  /\ UNCHANGED <<dlgQ, fResolved, pressed>>

\* promise->OnResolve or promise->OnReject for the next callback: it is called
\* here and now when the dialog has already set that outcome.
RegisterNext ==
  /\ appPc = "register" /\ nextReg <= Len(AppCallbacks) /\ Free(appAt)
  /\ LET c == AppCallbacks[nextReg]
         k == KindOf(c)
         p == [prom[appAt] EXCEPT !.want[c] = {k}]
     IN  prom' = [prom EXCEPT ![appAt] =
           IF p.outcome = k
             THEN [p EXCEPT !.holder = App, !.running = <<c>>, !.log = Append(@, c)]
           ELSE IF p.outcome # "pending" THEN p
           ELSE IF k = "resolved" THEN [p EXCEPT !.onResolve = <<c>> \o @]
           ELSE [p EXCEPT !.onReject = <<c>> \o @]]
  /\ nextReg' = nextReg + 1
  /\ UNCHANGED <<appQ, appPc, appAt, fPromise, requestEnabled, cancelEnabled, dlgVars, pressed>>

AppReturns == appPc' = "idle" /\ appAt' = None

RequestDone ==
  /\ appPc = "register" /\ nextReg > Len(AppCallbacks) /\ prom[appAt].holder # App
  /\ AppReturns
  /\ UNCHANGED <<prom, appQ, nextReg, fPromise, requestEnabled, cancelEnabled, dlgVars, pressed>>

\* cancelBtnPressed: fPromise->Reject(B_ERROR), with no test of fPromise.
ReceiveCancel ==
  /\ appPc = "idle" /\ appQ # <<>> /\ Head(appQ) = "cancel"
  /\ appQ' = Tail(appQ)
  /\ appPc' = IF fPromise = None THEN "crashed" ELSE "cancel"
  /\ appAt' = fPromise
  /\ UNCHANGED <<prom, nextReg, fPromise, requestEnabled, cancelEnabled, dlgVars, pressed>>

CancelRejects ==
  /\ appPc = "cancel"
  /\ \/ StartSettling(App, appAt, "rejected") /\ appPc' = "settle" /\ UNCHANGED appAt
     \/ RefusedBy(appAt) /\ AppReturns /\ UNCHANGED prom
  /\ UNCHANGED <<appQ, nextReg, fPromise, requestEnabled, cancelEnabled, dlgVars, pressed>>

CancelDone ==
  /\ appPc = "settle"
  /\ SettlingDone(App, appAt)
  /\ AppReturns
  /\ UNCHANGED <<appQ, nextReg, fPromise, requestEnabled, cancelEnabled, dlgVars, pressed>>

------------------------------------------------------------------------------
(* The dialog.                                                             *)

Open(d) == dlgPc[d] \notin {"none", "closed"}

PressLogin(d) ==
  /\ ~Crashed /\ dlgPc[d] = "idle"
  /\ pressed.login[d] < MaxLogin
  /\ pressed' = [pressed EXCEPT !.login[d] = @ + 1]
  /\ dlgQ' = [dlgQ EXCEPT ![d] = Append(@, "login")]
  /\ UNCHANGED <<prom, appVars, dlgPc, fResolved>>

\* The close button: the app_server posts B_QUIT_REQUESTED at any time.
AskToClose(d) ==
  /\ ~Crashed /\ Open(d)
  /\ pressed.close[d] < MaxClose
  /\ pressed' = [pressed EXCEPT !.close[d] = @ + 1]
  /\ dlgQ' = [dlgQ EXCEPT ![d] = Append(@, "quit")]
  /\ UNCHANGED <<prom, appVars, dlgPc, fResolved>>

Receive(d, msg) ==
  /\ ~Crashed /\ dlgPc[d] = "idle" /\ dlgQ[d] # <<>> /\ Head(dlgQ[d]) = msg
  /\ dlgQ' = [dlgQ EXCEPT ![d] = Tail(@)]

\* loginBtnPressed of the dialog, up to the call of Resolve.
ReceiveLogin(d) ==
  /\ Receive(d, "login")
  /\ fResolved' = [fResolved EXCEPT ![d] = TRUE]
  /\ dlgPc' = [dlgPc EXCEPT ![d] = IF fResolved[d] THEN "idle" ELSE "resolve"]
  /\ UNCHANGED <<prom, appVars, pressed>>

\* Mutant: Quit never rejects.
ReceiveQuitNoReject(d) ==
  /\ Receive(d, "quit")
  /\ dlgPc' = [dlgPc EXCEPT ![d] = "closed"]
  /\ UNCHANGED <<prom, appVars, fResolved, pressed>>

\* B_QUIT_REQUESTED calls Quit, which rejects unless a login was received.
ReceiveQuit(d) ==
  /\ Receive(d, "quit")
  /\ dlgPc' = [dlgPc EXCEPT ![d] = IF fResolved[d] THEN "closed" ELSE "reject"]
  /\ UNCHANGED <<prom, appVars, fResolved, pressed>>

\* The call of Resolve or Reject; a refused Reject ends in BWindow::Quit.
DialogSettles(d) ==
  /\ ~Crashed
  /\ \/ /\ dlgPc[d] = "resolve"
        /\ \/ /\ StartSettling(d, d, "resolved")
              /\ dlgPc' = [dlgPc EXCEPT ![d] = "settle"]
           \/ /\ RefusedBy(d) /\ UNCHANGED prom
              /\ dlgPc' = [dlgPc EXCEPT ![d] = "idle"]
     \/ /\ dlgPc[d] = "reject"
        /\ \/ /\ StartSettling(d, d, "rejected")
              /\ dlgPc' = [dlgPc EXCEPT ![d] = "settleAndQuit"]
           \/ /\ RefusedBy(d) /\ UNCHANGED prom
              /\ dlgPc' = [dlgPc EXCEPT ![d] = "closed"]
  /\ UNCHANGED <<appVars, dlgQ, fResolved, pressed>>

DialogSettled(d) ==
  /\ ~Crashed
  /\ dlgPc[d] \in {"settle", "settleAndQuit"}
  /\ SettlingDone(d, d)
  /\ dlgPc' = [dlgPc EXCEPT ![d] = IF @ = "settle" THEN "idle" ELSE "closed"]
  /\ UNCHANGED <<appVars, dlgQ, fResolved, pressed>>

------------------------------------------------------------------------------
InPromise(t) ==
  \E d \in Dialog :
    CallDue(t, d) \/ PrintCallback(t, d) \/ QuitCallback(t, d) \/ UpdateCallback(t, d)

AppStep ==
  \/ ReceiveRequest \/ RegisterNext \/ RequestDone
  \/ ReceiveCancel \/ CancelRejects \/ CancelDone
  \/ InPromise(App)

DialogStep(d) ==
  ReceiveLogin(d) \/ ReceiveQuit(d) \/ DialogSettles(d) \/ DialogSettled(d) \/ InPromise(d)

User == PressRequest \/ PressCancel \/ \E d \in Dialog : PressLogin(d) \/ AskToClose(d)

DemoNext == AppStep \/ (\E d \in Dialog : DialogStep(d)) \/ User

DemoSpec == DemoInit /\ [][DemoNext]_demoVars

\* The window threads run; the user need not do anything.
DemoFairSpec == DemoSpec /\ WF_demoVars(AppStep) /\ \A d \in Dialog : WF_demoVars(DialogStep(d))

------------------------------------------------------------------------------
DemoTypeOK ==
  /\ \A d \in Dialog :
       /\ prom[d].outcome \in {"pending", "resolved", "rejected"}
       /\ prom[d].holder \in WindowThread \cup {None}
       /\ Range(prom[d].onResolve) \cup Range(prom[d].onReject) \subseteq Callback
  /\ Range(appQ) \subseteq {"request", "cancel"}
  /\ appPc \in {"idle", "register", "cancel", "settle", "crashed"}
  /\ appAt \in Dialog \cup {None} /\ fPromise \in Dialog \cup {None}
  /\ nextReg \in 1..Len(AppCallbacks) + 1
  /\ requestEnabled \in BOOLEAN /\ cancelEnabled \in BOOLEAN
  /\ \A d \in Dialog : Range(dlgQ[d]) \subseteq {"login", "quit"}
  /\ dlgPc \in [Dialog -> {"none", "idle", "resolve", "reject", "settle", "settleAndQuit", "closed"}]
  /\ fResolved \in [Dialog -> BOOLEAN]

\* The dialog's callback captures "this": whichever thread settles the promise,
\* the dialog has not been deleted when the callback posts to it.  This is what
\* Quit's Reject and fResolved are for.
DialogOutlivesCallback ==
  \A d \in Dialog : prom[d].running = <<"quit">> => Open(d)

\* A promise is used only while a reference counts it: fPromise of TestWindow,
\* the local variable of its handler, or fPromise of the dialog.  Cancel calls
\* through fPromise while the callbacks it triggers unset that very reference.
References(d) ==
  {r \in {"TestWindow", "local", "dialog"} :
     \/ r = "TestWindow" /\ fPromise = d
     \/ r = "local" /\ appPc = "register" /\ appAt = d
     \/ r = "dialog" /\ Open(d)}
PromiseOutlivesUse ==
  \A d \in Dialog :
    prom[d].holder # None \/ (appPc = "cancel" /\ appAt = d) => References(d) # {}

\* Cancel calls through fPromise without a test (CredentialsApp.cpp:104): it
\* finds nothing there only when a promise has been settled since the window
\* could be asked to cancel, and its callback has run.
CancelMeantAnother ==
  Crashed => \E d \in Dialog : prom[d].outcome # "pending" /\ Range(prom[d].log) \cap Update # {}

\* What a callback, a window or Reject goes on to use has not been deleted,
\* with the one exception of fPromise in cancelBtnPressed.
ObjectsOutliveUses == DemoTypeOK /\ DialogOutlivesCallback /\ PromiseOutlivesUse /\ CancelMeantAnother

\* If no window thread can take a step, then every window is waiting for a
\* message, or the program crashed, or TestWindow waits, holding its looper
\* lock, for the promise whose callback waits for that looper lock.
Quiet == appPc = "idle" /\ \A d \in Dialog : dlgPc[d] \in {"none", "idle", "closed"}
LockCycle ==
  /\ appPc \in {"register", "cancel"}
  /\ prom[appAt].holder = appAt
  /\ \E c \in Update : prom[appAt].running = <<c>>
OnlyLockCycleBlocks ==
  ENABLED (AppStep \/ \E d \in Dialog : DialogStep(d)) \/ Quiet \/ Crashed \/ LockCycle

\* "promise will be resolved and all resolve callbacks will be called"
\* (Promises/README.md): each callback registered for it is called.
AllResolveCallbacksCalled ==
  \A d \in Dialog, c \in Callback :
    (prom[d].outcome = "resolved" /\ "resolved" \in prom[d].want[c]) ~> c \in Range(prom[d].log)

\* Refinement: the promise of each dialog is a Promise shared by the window
\* threads, however their messages interleave.
P(d) == INSTANCE Promise WITH
  Thread <- WindowThread, NoThread <- None, Registration <- Callback,
  outcome <- prom[d].outcome, onResolve <- prom[d].onResolve, onReject <- prom[d].onReject,
  holder <- prom[d].holder, settling <- prom[d].settling, due <- prom[d].due,
  running <- prom[d].running, want <- prom[d].want, log <- prom[d].log
ImplementsPromise ==
  /\ \A d \in Dialog : P(d)!Init
  /\ [][\A d \in Dialog : P(d)!Next \/ UNCHANGED P(d)!vars]_demoVars
==============================================================================
