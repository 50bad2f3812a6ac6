# Formal models of HaikuUtils

HaikuUtils is a collection of small programs, add-ons and libraries for Haiku.
They share almost no code, so there is one group of modules per program, and
most effort goes to those in which several threads, or several calls in an order
nobody wrote down, act on shared state.

`PROJECT.json` lists every component, run, hazard and theorem, and maps every
definition to the lines of `src/` it stands for.

## 1. The system's components

| Component | State it keeps | Operations | How its parts interact; what is hard | Correct when |
|---|---|---|---|---|
| `Promises/Promises.h` | the outcome, two lists of callbacks, a recursive lock | `Resolve`, `Reject`, `OnResolve`, `OnReject`, `OnSet` | any thread calls; callbacks run under the lock and may call back | each callback is called once, for the outcome it asked for, and none is forgotten |
| `Promises/Credentials*` | two kinds of windows, each a thread with a queue and a looper lock; a promise both refer to | request, login, cancel, close | callbacks of one window run in the thread of another: lock order, lifetimes | nothing is used after its deletion; nobody blocks |
| `ScreenKeyboard` repeat thread | the thread, its semaphore, the message it repeats | `StartRepeating`, `StopRepeating` | a timed wait whose *release* means stop; thread and caller share members without a lock | one thread, repeats in order, none after the stop |
| `ScreenKeyboard` view, handler, device | the keys shown as pressed, the handler's key state and modifiers | touch down, move, up; `SetPushed`, `KeyChanged`, `StateChanged`; `Start`, `Stop`, `Control` | window thread and input server's thread share `modifiers`; sending may fail | no key sticks, modifiers agree with what was sent |
| `I2cTabletDevice` | last and current tablet state, a watcher thread | `Start`, `Stop`, the watcher's loop | stop suspends the loop anywhere; packets and messages are lost; clicks are counted by time | it is watched from start to stop; the messages tell what the pen does |
| `libGL`, `libGL2`, `OSMesaDriver`, `OpenGLTest2` | four locks, back buffer, clipping, nesting level of swaps | `LockGL`, `UnlockGL`, `SwapBuffers`, `Draw`, `FrameResized`, `DirectConnected`, the render loop | three threads; the lock order differs between them | the bitmap lives while it is used; nobody writes while stopped; no lock is kept |
| `DirectWindowTest` | a drawing thread, a semaphore, the frame buffer's clipping | draw, `DirectConnected`, the destructor | the drawing thread races the window's end | nothing is drawn after a stop |
| `EGLTest2` | a bitmap behind a mutex | draw, resize | one window thread draws and shows it | |
| `libGL` roster | renderer add-ons, reference counts | `GetRenderer`, `Acquire`, `Release` | | a renderer is deleted with its last reference |
| `SystemManager` team window | per team: six lists, a selection, menus, messages | refresh, show an item, open a stack | the kernel's tables change while they are enumerated; messages refer to rows | a list shows the team |
| `SystemManager` stack windows | a map from threads to windows, a lock, a debugger per listing | open, activate, update, close, `ListFrames` | a window is found in a map while it closes; six system calls that may fail, a thread that may die | one window per thread; nothing is left behind |
| `SystemManager` main window | the tree of teams, the selection, queued acts of the user, the map of team windows and its lock | `ListTeams`, layouts, signals, alerts, `OpenTeamWindow` | teams start, end and get other parents between two system calls; an act is handled after the list was made again | the tree is that of the teams; a signal goes to the team that was chosen |
| `PictureDumpJson2`, `PictureDumpJson`, `PictureDump` | a stream of drawing calls: binary, JSON, YAML and view writers; binary and JSON readers; the player; two older dumpers | sixty calls of a visitor | each format is written down several times, in tables made by hand; sizes and counts are patched afterwards | what is read is what was written |
| `Editor` | views and their frames, the selection, what was last found under the pointer | mouse and key events, drops | keys delete and deselect while the mouse drags | nothing names a deleted view; what is dragged follows the pointer |
| the other programs | a window with a list, a tree or nothing | | little state of their own; the work is done by a server | |

Section 6 says what is not modelled and why.

## 2. The modules

### Promises

`Promise` is one `Promise<>`: a method that calls no callback holds `fLocker` from
beginning to end and is one action; `Settle` enters the loop of `Resolve`/`Reject`,
which goes on by `CallNext`, and `CallbackReturns`; a callback may enter again
because the lock is recursive (`CanEnter`). `log` and `want` are history.
`PromiseContract` is what the class promises without lock, lists or threads;
`Promise` implements it (`ImplementsContract`).

`Credentials` composes the two windows of the demonstration with a promise per
dialog. A window's thread handles one message at a time and holds its looper lock
meanwhile; `crashed` is the state after `fPromise->Reject` through a NULL pointer.
`ImplementsPromise` shows that the promise of each dialog is a `Promise`. The loop over the
callbacks is `CallDue` and `CallbackEnds` here, so that `PromiseProofs` can extend both modules.

### Input

`KeyRepeat` is the repeat thread down to `acquire_sem_etc`, `release_sem` and
`wait_for_thread`; a timeout may expire at any time, and `spawn_thread`,
`create_sem` and `EnqueueMessage` may fail. `AutoRepeat` is the promise: at most one
key repeats, its counts rise one by one, nothing is sent after the stop.
`KeyboardKeys` has the keys that both keyboard modules know.
`ScreenKeyboard` has the view, the handler and the calls of the input server;
there, `StartRepeating` and `StopRepeating` only say which key repeats, as
`AutoRepeat` lets them. It begins inside the constructor of the device, which calls
`LocksChanged` twice while `modifiers` holds whatever the memory held (`SUBSET Modifier`);
`told` is empty until the input server takes a message. `late` and `stale` are history:
which of the two threads will assign `modifiers` after the other's message has followed its
own, and whether such an assignment was the last.
`TabletDevice` is the pen: the input server's thread (`ctl`) inside `Start` and
`Stop`, and the watcher (`thread`), which `Stop` may suspend at each of its steps.
What the C++ leaves uninitialized (all of `fState`, the time and the place of a packet out
of range) is any value. A message may fail in two ways: it cannot be made, and the loop
goes on without it, or `EnqueueMessage`, whose status nobody looks at, refuses it after
everything that goes with it was done (`Lost`). `untold` is history: what the input server
was not told since; `downs` the presses for which a message was made.

### OpenGL

`GLView` is `BGLView` with the `SoftwareRenderer`, under the client `OpenGLTest2`:
the threads of the window (`W`), of the renderer (`R`) and of the direct window
(`D`), each with a label and a stack of labels to return to, and four locks, two of
them recursive. libGL2 has the same code. The GL context, the bitmap and the
bitmap on the way to the screen are numbers of bitmaps, so that a use of a deleted
one shows.

### Pictures

A *call* is a call of the visitor that readers drive and writers implement.
`PictureFields` has the layout of every binary operation twice, as the writer writes
it and as the reader reads it; the lists of one operation all have one length, so that two counts in
each other's place would not be noticed. `PictureWriterBinary` patches sizes and counts;
`PictureBinary` adds the reader, which seeks by them, and extends the modules that are driven
with what it hears or walk through the same file: `PictureWriterYaml`; `PictureReaderPlay`, the
table of the player; `PictureDumps`, the two tables of the older dumpers and the names that they give to the values; and
`PictureWriterView`, what each call draws, with the pattern it draws with. `PictureWriterJson` and `PictureReaderJson` are the two tables of the JSON
format, on tokens; `PictureJson` runs one against the other, token by token, with
the stack of the recursive descent as state, and the call that the reader makes only when it has
the next token (`due`).

### SystemManager

`TeamTree` is the main window: `ListTeams` one system call at a time (`listing`),
between which teams start, end, and are given to the kernel's team; the rows as a forest
(`up`); the menus and alerts, of which an act is first queued (`picked`) and later
handled; and the windows of teams with `teamWindowsLocker`. `OpenTeamWindow` is called by the window's
thread and, for a script, by the application's (`opening`). A team window is made by its opener
and then lives on a thread of its own (`teamWindow`): it waits, handles a message, or is deleted, with its
looper lock in all but the first; when the kernel knows no image of the team, its constructor posts it
`B_QUIT_REQUESTED`. That a stack window may never be opened (below) is one message that is
handled for ever (`"stuck"`).

`StackWindows`: `OpenStackWindow` (on the team window's thread, `opPc`), the map and
its lock, a thread per window (`phase`, `inbox`), and `ListFrames` system call by
system call (`step`). When an action leaves `ListFrames` by an error it does what
the code's deleters undo (`Undone`); the debug thread may fail with its port
(`ReadPortFails`). `TeamWindow` extends it with the lists, the menus, the
messages and the application's scripting. One turn of a `get_next_*_info` loop is
one action (`ListNext`), so the team changes in between. A `StatusError` that no
handler catches ends the program (`crashed`).

### Editor

`Editor` is `TestView` and its mouse filter. One coordinate stands for both, so that a
view is an interval with a marker at either end. `fPart` is what `UpdatePart` last
found; `grab` and `cleared` are history.

## 3. The runs

| Run | Bounds | States | What it shows |
|---|---|---|---|
| `MCPromise` | 2 threads, 3 registrations | 12,684 | each callback is called once if the outcome is one it asked for, and not otherwise; the contract with its liveness |
| `MCCredentials` | 2 dialogs, 2 requests, 2 cancels; 1 login and 1 close each | 122,958 | dialogs and promises outlive their uses, but for a cancel that was meant for a promise that is gone; the only way to block is the lock cycle of the next run |
| `MCCredentialsDeadlock` | 1 request, 1 login | violation | a login while callbacks are registered blocks both windows |
| `MCKeyRepeat` | 2 keys, 2 threads, 3 semaphores, counts to 4 | 293,635 | one thread, no shared write, `AutoRepeat`; starting and stopping return, a held key goes on repeating |
| `MCScreenKeyboard` | 2 contacts; a letter, shift, caps lock; 1 `Control` | 10,814,546 | no key sticks, the handler follows the view, modifiers agree |
| `MCTabletDevice` | 2 places, 3 buttons, times to 2, 2 presses; `clicks` 0 or 3 at first | 1,129,200 | watched from `Start` to `Stop`, the messages tell what the pen does, clicks count slow presses, `Stop` returns |
| `MCGLView` | 2 sizes, 2 resizes, 4 direct calls, 2 keys (1 in direct mode) | 196,122 | the bitmap and the context live while used, nothing is written after a stop, locks are released, the window and the render thread return |
| `MCPictureBinary` | 4 calls, 1 kind of operation in a file, lists to 1 | 574,185 | sizes and counts fit, the reader hears what was told, number by number; documents are well formed; the player, the older dumpers and the view agree but for the cases that are named |
| `MCPictureJson` | depth 4, lists to 2 | 174,875 | the reader hears what was told, refuses only the texts that are named, and stays in step, a token ahead |
| `MCTeamWindow` | 2 threads, 2 stack areas, 1 semaphore; 3 scenarios | 686,793 | one window per thread, nothing left behind, lists that show a changing team, `OpenStackWindow` returns |
| `MCTeamTree` | up to 4 teams, up to 3 acts, up to 3 uses of team windows; 7 scenarios | 981,323 | the rows are the teams, a signal goes to the team it was meant for, the list comes to show the tree |
| `MCEditor` | 3 positions, 4 views | 11,491,407 | nothing names a deleted view, what is dragged follows the pointer |

**Why the bounds are enough.** Two threads and three registrations allow a nested
registration while another thread waits, which is as deep as one lock lets the
threads interfere. Two dialogs allow a request while the last dialog closes. Two
keys force a stop and a start, and three semaphores include a leaked one. A third
contact adds no case to `track`, which is looked up per contact. In `MCGLView` a
resize may fall into a frame, a swap and another resize; a stop into a copy.
In the binary format a size depends on what is inside, so nesting (a picture in a
picture, a block in a block) and one list of length 0 and of length 1 are the cases;
every operation occurs, `DrawRect` with each of the five gradients, the other figures
with one (`Operations`). In `MCTeamWindow` the scenarios bound what is done
(`left`), since all of it at once is too much: the first opens, updates and closes
windows while a thread ends; the second lists while the team changes; the third
mixes them. In `MCTeamTree`, four teams form a chain of three under the kernel's
team, the shortest in which a row between two others goes; the scenarios trade
teams for acts of the user and uses of team windows (two windows and two uses, or one and three, are enough
for both threads to ask for a window that is used, stuck or closing). Three buttons of `MCTabletDevice` include one that
the pen does not have, and times to 2 are before, at and after the delay. Three positions
tell the ends of a view and its inside apart, so that views overlap, touch and are turned
over; a fourth view is a copy of a copy, or the one under two others.

**What the models leave out on purpose.** Direct mode never changes while a frame is
drawn: `BGLView::EnableDirectMode` has no caller in the repository. The kernel enumerates in the
order of ids. `KeyboardDevice` does not initialize `wnd` either (`KeyboardDevice.h:24`), so the input
server is taken to call `Stop` only for what it has started; and touches to have ids below four,
which nothing checks before they index `track` (`KeyboardWindow.cpp:194`). The team's window stays open, and the file read in `PictureBinary` is
one that the writer wrote.

**Deadlock checking** is on in `MCPromise`, `MCScreenKeyboard` and
`MCTabletDevice`. It is off where the system stops by design (the user of
`MCCredentials`, `MCKeyRepeat`, `MCTeamWindow`, `MCTeamTree` and `MCEditor` has a bounded number
of things to do, pictures end) and in `MCGLView`, where the cycle of two locks below
stops it; there `WindowReturns` says that nothing else does.

**Fairness.** Threads run: weak fairness of what a thread does next, for every
thread, and none of what users and other programs do. Callbacks are assumed to
return (`Promise`). `GLView` has strong fairness for two threads, since a `BLocker` is a
benaphore whose semaphore serves waiters in order: a thread that waits again and again
gets the lock although another thread asks for it in a loop. In `TabletDevice` the watcher
runs unless it is suspended, and the input server goes on with a call it has begun; in
`TeamTree` the threads of the window, of the application and of the team windows run, but for a
team window that is stuck. In `TeamWindow` the
kernel stops, in the end, a thread it was asked to stop, if it lives.

**Exceptions stated in properties.** `ObjectsOutliveUses` excepts a cancel that meets no
promise, or another one (`CancelMeantAnother`); `WindowReturns` a stopped direct
window, whose lock the server's thread keeps, and `SwapLockCycle`, the space key in direct mode;
`ListShowsTeams` a row under that of an ended team, `ComesToShowThem` a crash on a dangling
row, `LockCycle` and `WaitsForTheStuck`, the two endless waits in `OpenTeamWindow`; `PartIsThere` a selection that a key has cleared;
`ServerFollowsPen` what could not be told (never initialized, not made, refused), until the
next message about it; `ReadsBack` and `PlaysWhatIsRead` the cases of
section 5. `OpenReturns` excepts two waits that do not
end (`LockCycle`, `WaitsForTheDead`) and an "Update" that ended the program;
`CallReturns` a `create_sem` that failed; `StateFollowsPushed` a message the server
refused and a window closed over a held key; `ModifiersAgree` one order of two threads, in
which one assigns `modifiers` although the other's message has followed its own (`stale`), until
the next assignment. Each of them is a hazard in `PROJECT.json`.

## 4. What is proved

The theorems hold for every value of the constants that the named assumptions of the
modules allow; TLC evaluates these assumptions in the runs.

`PromiseProofs` (assumption: `NoThread` is no thread). The inductive invariant has
three parts: before an outcome, the lists hold each registration once and nothing
has been called (`PendingInv`); after it, what was called and what is still due
are disjoint, and together all who asked for it (`SettledInv`); and the lock is held
exactly while somebody settles or a callback runs (`LockInv`). "None is forgotten"
alone is not inductive, since it says nothing while the loop runs. From it:
`TypeCorrect`, `NeverCalledTwice`, `NeverCalledInVain`, `NoneForgotten`, the three
together (`EachCalledOnce`), and `RefinesContract`. The lemmas about sequences without
repetitions come first.

The second half of `PromiseProofs` is about the demonstration, with any number of dialogs
and of key presses (assumption: `CredentialsAssumption`, that dialogs, `TestWindow` and
nobody are different, and the bounds natural numbers). `DemoInv` says who holds the lock of a
promise at which label of which window (`LockOf`), that a dialog is deleted only after
its promise was settled and the loop is over, since `fResolved` is set before `Resolve` and
tested before `Reject` (`DialogOf`), and that a message to cancel that finds no promise was
overtaken by an update (`AppInv`). From it `DemoIsSafe`, which is `ObjectsOutliveUses`, and
`DemoRefinesPromise`: every step of a window is, for the promise of each dialog, a step of
module `Promise` or none (`ImplementsPromise`).

`KeyboardProofs` is about both keyboard modules. The repeat thread first (the "no" values
are not among the ids): who may be alive at which
point of the caller (`PhaseInv`) is what makes `OneRepeatThread` inductive: the thread
does not run before `Resume`, and there is none from the join to the next spawn.
From it: `OnlyOneThread`, `NoDataRace` (an action property), both together
(`ThreadAlone`), `NoLeak`, and
`RefinesAutoRepeat`, the safety part of the refinement.

Then the view and the handler (`ScreenKeyboardAssumption`: `NoKey` is no key, caps lock is one, and no shift
key; at most four contacts, since `track` has four elements). The three properties speak of
the moments between two touches. What makes them inductive is what holds while
`SetPushed` walks through its diff: the keys it has still to do are those in which the view
and the handler differ (`DiffInv`), from `StartRepeating` to the key's own message the key that
repeats is not in the state yet (`RepeatInv`), and the modifiers run ahead of the state, first
in the local copy (`ShiftInv`). From it: `NoKeySticks` and `ShiftIsHeld`. `ModifiersAreTold` needs
to know, at every point of both threads, whose value the input server was told: of two threads
that are about to assign one is late, the other has what was told (`ToldInv`).

`TabletDeviceProofs` (at least two buttons; `clicks` is any integer at first). What the input server's thread knows of the
watcher at each of its steps (`PhaseInv`) gives `TabletWatched`. `TabletFollowed` needs two
halves: what was told is what `fState` has (`ToldInv`), and `fState` has what the packet
has, of the buttons the loop has passed (`SyncInv`). `TabletClicks` is about a sequence of
any length, and needs no induction over it: `DownsInv` relates `clicks` and the time of the
last press to the last element of `downs`, and `ClicksStep` shows what one more press adds.

`TeamTreeProofs` (team ids are positive). `SignalsGoToChosen` is inductive with
`Waiting`: while an act is queued, the row that was selected is selected still, or none
is. With it the types (`TypeCorrect`), which say that only rows have a row above them; the threads of
team windows, and the application's, leave the list and the signals alone (`WindowThreadsTouch`).
`ListIsRight` and `DanglesOnlySo` are about a list that is made one system call at a time:

* `VisitInv` has what is true in between: the rows visited are those of teams up to the
  cookie, all that lived up to the cookie have been visited, and the rest are left over
  from the list before (`prevRows`). `HistoryInv` and `KernelInv` have what the histories
  record.
* What is above a row is a recursive function. Rows are under rows of older teams
  (`Forest`, part of `RowsInv`), therefore it has a value on every row (`AboveEquation`), all of it
  rows (`AboveRows`), which new rows do not change (`AboveStays`). The three are shown by the
  least counterexample (`LeastNumber`), which stands in for induction.

`GLViewProofs` (`GLViewAssumption`: the three threads are different, and there is a size). Every label of the three threads has its place on the call
stack (`StackInv`), and from label and stack it is known which of the four locks the thread
holds and how often (`LooperInv`, `DisplayInv`, `DrawInv`, `LockerInv`; `swapLevel` in `LevelInv`). That
is `LocksPairUp`. What the locks are for follows: the holder of the display lock has the
bitmap in its context (`ContextInv`), a bitmap is not replaced while it is copied
(`PaintingInv`), and the draw lock, kept by the server's thread from stop to start, keeps the others
from the frame buffer (`StopInv`): `NoBitmapIsGone`, `NoStrayWrite`. There is a lemma for every
action.

`EditorProofs` (the bounds are natural numbers). `NothingDangles` is inductive nearly as it stands:
a key can take away the selection but not what is under the pointer, which is not selected.
The copies of the selection are numbered in its order, so that its elements have to be
counted (`NthIsThere`). `HeldFast` adds that ends are never the wrong way round
(`FramesInv`), which makes the dragged end the one that `fPart` names, and that `fPart` is
what was taken hold of as long as the button is down (`HoldInv`).

`TeamWindowProofs` (threads, areas and semaphores are objects, ids are positive).
`TypeCorrect`, and three arguments on top of it:

* `MapIsTrue`. `MapHoldsWindows` says nothing about `stacksLocker`, and is kept only
  since the thread that opens holds it from the search until the new window is in the
  map, and the destructor takes it before it erases (`MapInv`).
* `FramesAreUndone`. `FramesInv` adds that `ListFrames` runs only in a window that is
  built or updated, and that a window whose listing failed has a message to quit or
  belongs to a program that is gone.
* `ListsAreTrue`, an action property. `RowsInv` relates a list under way to its cookie:
  what lived all the time and lies behind the cookie was found, and what was found
  lived at some time.

`PictureBinaryProofs` (`BoundsAssumption`: the bounds are natural numbers). The file is a sequence
of any length, and a field is patched long after it was written, through a place that was kept
on a stack. `WriterInv` says what each place on the two stacks is:

* `StacksInv` (`Matches`): the writer's two stacks are the nesting of the caller, picture by picture and
  block by block, though the writer does not know which call belongs to which.
* `PicturesInv`, `BlocksInv`: what is open begins in the order in which it was opened (`Placed`), each
  inside what is around it, and the cells at those places are the ones that were left for a size or a count.
* `FieldsInv`: a finished field is `Settled`, which means that no open picture, list or block will
  patch it (`Pending`), and says what it measured. Two fields never share a cell, since all that is
  open has a place of its own.

`WriterStep` shows with it that a step changes no settled cell (`Steady`), neither a field nor any other. From it:
`WriterIsConsistent` and `SizesAndCountsHold`. `Draw` is one action for sixty operations; that none of
their payloads is longer or shorter than its chunk's size follows for all of them at once
(`ChunkFacts`), that each of them is a sequence of cells from the tables of the layouts (`OperationFacts`).

The reader follows, and its invariant is `WriterInv /\ Tracked`. `Tracked` says that there is a *log* of
what is to be heard: for each call a token with the place where the file has it and the levels
it is in, and for each level where it begins and how many pictures were met in it.

* `Chain`: each token begins where the one before it ends, in the levels that it left. `Current`: the
  last token ends where the writer is, in the levels that are open. `Says`: the calls of
  the log are those that were told, as the reader makes them of it (`Came`); this is a fold over
  everything told so far, which is taken one call at a time (`FoldAppend`).
* `Holds` is what a token says of the file: its code, its numbers, the size or count of its
  level. It stays true of every later file, because what it needs is `Settled`, or belongs to a level that
  is open and will be settled with it (`Keeps`). This is where the theorem about the writer is used.
* `ReaderInv`: what was heard is the beginning of the log, and the reader is at the next token,
  in frames of its levels (`ReaderAt`). There is a lemma for each of its steps (`ReadPictureAt`,
  `ReadOpsAt`, `ReadBlockAt`, `ReadOneAt`, `ReadEndAt`).
* `DumpReads`: each of the sixty operations, with lists of any length, is read back as
  the call it was written for, with as many numbers and of the same types. It rests on a
  lemma for every kind of layout, and on the table of codes being one to one (`WordFacts`).

From it: `ReaderHearsWhatWasTold` and `ReaderReadsEveryNumber`.

Every inductive invariant was checked by TLC, on the constants of the run, before it was
proved; that of the reader with the log as a history variable.

**Only model-checked:**

* liveness (`CallReturns`, `HeldKeyRepeats`, `StopReturns`, `WindowReturns`,
  `BufferFollowsSize`, `OpenReturns`, `ComesToShowThem`, the liveness of `PromiseContract`), and
  `OnlyLockCycleBlocks`, which uses `ENABLED`: both are out of the prover's reach;
* the other readers and outputs of pictures. `ReadsBack` and `InStep` compare JSON texts, which are
  the values of functions nested in each other over sequences of any length, for every kind of
  call; `DocumentsInStep`, `PlaysWhatIsRead` and `ViewDrawsThePicture` compare whole documents with
  exceptions; `DumpersMisread` would need, for each of the two tables of the older dumpers, as many
  lemmas as `DumpReads` has.

## 5. Disagreements with what the repository says

With a run: the deadlock of the credentials demonstration (`MCCredentialsDeadlock`),
whose README promises that all callbacks will be called.

Shown by the runs as exceptions of their properties, since no document of the repository says
what should happen instead:

* The second of two queued cancels uses a `fPromise` that is NULL, or cancels the next
  request (`CredentialsApp.cpp:104`).
* `SwapBuffers` takes `fDrawLock` and then, in the renderer, `fDisplayLock` (`GLView.cpp:95`);
  the render thread calls it with `fDisplayLock` held (`SampleGLView.cpp:323`), the space key
  without (`:64`), so that in direct mode each may wait for the other.
* `OpenTeamWindow` waits with `teamWindowsLocker` for a window whose destructor waits for
  that lock (`TeamWindow.cpp:652`, `:757`); opening a stack window has the same cycle
  (`StackWindow.cpp:302`).
* A thread that ends before it is stopped leaves the team window that opens its stack waiting for
  ever (`StackWindow.cpp:242`); whoever activates that team window waits, too, with
  `teamWindowsLocker`: the main window, or the application's thread and then every opener.
* Of two ended teams, one shown under the other, the second row is used after it was deleted
  (`SystemManager.cpp:289`).
* Escape or Delete while the pointer is over a marker, followed by a press of the button, ends
  the program (`Editor/MinApp.cpp:496`).
* `modifiers` is not initialized (`KeyboardHandler.cpp:69`): if the memory holds the lock settings,
  or the first messages are refused, the screen keyboard begins with modifiers nobody was told.
  Later the two threads that assign it can leave it different from what was told last (`:212`, `:289`).
* A message of the pen that could not be made, or that the input server refused, is never made
  up for until something changes again (`TabletDevice.cpp:198`, `:207`, `:220`); the second of two presses counts as a double click when it
  is *slow* (`:210`).
* An arc is written with two names, so that the JSON writer fails (`PictureWriterJson.cpp:848`);
  NaN and infinity are not written at all (`:108`); text with locations
  and blend layers are written as JSON that the reader refuses.
* `PictureDumpJson` shows the two deltas of a string under each other's name
  (`PictureDumpJson/PictureDump.cpp:358`), the length of a bitmap as its first bytes, four operations
  as numbers that were not written (`Misdumped`); `PictureDump` misreads six (`Mistold`).
* A polygon stroked with a gradient is played filled (`PictureReaderPlay.cpp:501`).
* A `POP_STATE` without its `PUSH_STATE` is passed on as it comes
  (`PictureReaderBinary.cpp:402`), and a view drawn on after `POP_STATE` keeps the pattern of the
  group (`PictureWriterView.cpp:143`).

Noticed while modelling, and in no property: `ListPorts` writes the capacity through the
field of the name and the queue count into the capacity; `"refresh"` is added as an int32
and looked for as a bool, so it is never found; `SetKeyMap` frees a key map that another thread
may be reading (`KeyboardHandler.cpp:85`; nobody calls it while the window is open); the lock
bit is toggled by every change while the lock key is down (`:205`); the binary reader ignores
the result of `Read` (`PictureReaderBinary.cpp:18`).

## 6. Not modelled

| Part | Why |
|---|---|
| Closing `TestWindow`; the quit sequence of applications | it is `BApplication`'s, outside this repository |
| Drawing, formatting, layout; pixel copying of `RasBuf` | nothing the properties tell apart |
| `DirectWindowTest` | left to do, see the plan; `GLView` has the same protocol of `DirectConnected` with a client of more locks |
| `EGLTest2` | a bitmap behind a mutex, drawn and shown in one window thread |
| `libGL` roster and the base of renderers | a list of add-ons that is made once, and a reference count whose only holders are the views |
| `Services`, `Users`, `Handles`, `TraverseApps`, `TraverseApps2`, `StackTrace`, `MsgDump` | a server, another program or a debugger call does the work; what they answer is not bounded by this code |
| `PictureCompileView.cpp`, `Old.cpp`, `InputCatcher`, `EnableDirectMode` | not built, or never constructed or called |
| Conversion programs of `PictureDumpJson2` | they chain a reader and a writer that are modelled, and run once |
| Samples (`DragDrop`, `TabbedWindows`, `MinApp`, `OpenGLTest`, `EGLTest`, `MenuDynItems`, `FreeTypeHarfBuzzDemo`, `PictureView`), `VideoEncoder` | no state of their own |

`PROJECT.json` has the reason of each component. Two hazards have no property:
`TestWindow` closed while a promise is pending (`CredentialsApp.cpp:79`), and
a `kill_thread` or `send_signal` that fails (`TeamWindow.cpp:844`), whose exception ends the
program in the model as in the code.

## 7. Plan

Written, in this order: the promise and its contract, the repeat thread, the
credentials demonstration, the keyboard, the GL view, the picture formats, the
stack and team windows of SystemManager; then the tablet, the older dumpers and the view
writer, the main window and the editor.

Left to model: `DirectWindowTest`, whose destructor deletes `drawing_lock` (`TestWindow.cpp:124`)
while a frame may be drawn, after which `acquire_sem` in `DirectConnected` fails at once, so
that a stop no longer waits for the frame; in `ScreenKeyboard`, `KeyString`.

Left to prove: `DocumentsInStep` and `PlaysWhatIsRead`, from the log of `PictureBinaryProofs`; and of the
JSON format what is proved of the binary one.
