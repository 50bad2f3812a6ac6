---------------------------- MODULE KeyboardProofs ----------------------------
(***************************************************************************)
(* Proofs about the two modules of ScreenKeyboard.  Module KeyRepeat, for  *)
(* any keys, threads and semaphores: everything rests on who may be alive  *)
(* at which point of the caller; the only thread is the one repeatThread   *)
(* names, it cannot run before Resume, and from the join to the next spawn *)
(* there is none.  Module ScreenKeyboard, for any layout and any number of *)
(* contacts and Control calls: what the view shows, what the handler holds *)
(* and what the input server was told belong together.                     *)
(***************************************************************************)
EXTENDS KeyRepeat, ScreenKeyboard, TLAPS

------------------------------------------------------------------------------
(* Module KeyRepeat: the repeat thread.                                    *)

\* What repeatThread says at each point of StartRepeating and StopRepeating.
PhaseInv ==
  /\ callerPc \in {"release", "join"} => repeatThread # NoTid
  /\ callerPc \in {"delete", "spawn"} => repeatThread = NoTid
  /\ callerPc \in {"spawn", "create", "resume"} => arg \in Key
  /\ callerPc \in {"create", "resume"} /\ repeatThread # NoTid => thread[repeatThread] = "suspended"

\* The message of a running repeat belongs to a key, and is below the bound
\* whenever the thread is about to raise its count.
MessageInv ==
  /\ repeatThread # NoTid => repeatMsg.key \in Key
  /\ \A t \in Tid : thread[t] = "emit" => repeatMsg.count < MaxRepeat

\* Without failures, a thread and its semaphore come and go together.
LeakInv ==
  KernelFails \/ /\ live \subseteq {repeatThreadSem}
                 /\ repeatThread = NoTid /\ callerPc # "delete" => repeatThreadSem = NoSem
                 /\ callerPc = "create" => repeatThreadSem = NoSem
                 /\ callerPc \in {"create", "resume"} => repeatThread # NoTid

ThreadInv == RepeatTypeOK /\ OneRepeatThread /\ PhaseInv /\ MessageInv /\ LeakInv

LEMMA InitThreadInv == RepeatInit => ThreadInv
BY KeysAssumption, KeyRepeatAssumption
   DEF RepeatInit, ThreadInv, RepeatTypeOK, OneRepeatThread, PhaseInv, MessageInv, LeakInv

\* Every step keeps the types.
LEMMA ThreadTypeStep == RepeatTypeOK /\ [RepeatNext]_repeatVars => RepeatTypeOK'
<1> SUFFICES ASSUME RepeatTypeOK, [RepeatNext]_repeatVars PROVE RepeatTypeOK'
  OBVIOUS
<1> USE KeysAssumption, KeyRepeatAssumption DEF RepeatTypeOK
<1>1. ASSUME NEW k \in Key, StartRepeating(k) PROVE RepeatTypeOK'
  BY <1>1 DEF StartRepeating, Call
<1>2. CASE StopRepeating
  BY <1>2 DEF StopRepeating, Call
<1>3. CASE Release
  BY <1>3 DEF Release
<1>4. CASE Join
  BY <1>4 DEF Join
<1>5. CASE Delete
  BY <1>5 DEF Delete, AfterStop
<1>6. CASE Spawn
  <2>1. repeatMsg' \in [key : Key \cup {NoKey}, count : Nat]
    BY <1>6 DEF Spawn
  <2>2. thread' \in [Tid -> {"none", "suspended", "acquire", "wait", "emit"}] /\ repeatThread' \in Tid \cup {NoTid}
    BY <1>6 DEF Spawn
  <2> QED BY <1>6, <2>1, <2>2 DEF Spawn
<1>7. CASE Create
  BY <1>7 DEF Create
<1>8. CASE Resume
  BY <1>8 DEF Resume
<1>9. ASSUME NEW t \in Tid, RepeatThread(t) PROVE RepeatTypeOK'
  <2>1. CASE BeginAcquire(t)
    BY <2>1 DEF BeginAcquire, callerVars
  <2>2. CASE Acquired(t)
    BY <2>2 DEF Acquired, CanAcquire, callerVars
  <2>3. CASE TimedOut(t)
    BY <2>3 DEF TimedOut, callerVars
  <2>4. CASE Emit(t)
    BY <2>4 DEF Emit, callerVars
  <2> QED BY <1>9, <2>1, <2>2, <2>3, <2>4 DEF RepeatThread
<1>10. CASE UNCHANGED repeatVars
  BY <1>10 DEF repeatVars, callerVars
<1> QED BY <1>1, <1>2, <1>3, <1>4, <1>5, <1>6, <1>7, <1>8, <1>9, <1>10 DEF RepeatNext, Caller

\* Every step keeps the rest of the invariant.
LEMMA ThreadStep ==
  ThreadInv /\ [RepeatNext]_repeatVars => (OneRepeatThread /\ PhaseInv /\ MessageInv /\ LeakInv)'
<1> SUFFICES ASSUME ThreadInv, [RepeatNext]_repeatVars
             PROVE  (OneRepeatThread /\ PhaseInv /\ MessageInv /\ LeakInv)'
  OBVIOUS
<1> USE KeysAssumption, KeyRepeatAssumption DEF ThreadInv, RepeatTypeOK, OneRepeatThread, PhaseInv, MessageInv, LeakInv
<1>1. ASSUME NEW k \in Key, StartRepeating(k)
      PROVE  (OneRepeatThread /\ PhaseInv /\ MessageInv /\ LeakInv)'
  BY <1>1 DEF StartRepeating, Call
<1>2. CASE StopRepeating
  BY <1>2 DEF StopRepeating, Call
<1>3. CASE Release
  BY <1>3 DEF Release
<1>4. CASE Join
  BY <1>4 DEF Join
<1>5. CASE Delete
  BY <1>5 DEF Delete, AfterStop
<1>6. CASE Spawn
  <2>1. repeatThread = NoTid /\ \A t \in Tid : thread[t] = "none"
    BY <1>6 DEF Spawn
  <2> QED BY <1>6, <2>1 DEF Spawn
<1>7. CASE Create
  BY <1>7 DEF Create
<1>8. CASE Resume
  BY <1>8 DEF Resume
<1>9. ASSUME NEW t \in Tid, RepeatThread(t)
      PROVE  (OneRepeatThread /\ PhaseInv /\ MessageInv /\ LeakInv)'
  <2>1. t = repeatThread /\ callerPc \notin {"create", "resume"}
    BY <1>9 DEF RepeatThread, BeginAcquire, Acquired, TimedOut, Emit
  <2>2. CASE BeginAcquire(t)
    BY <2>1, <2>2 DEF BeginAcquire, callerVars
  <2>3. CASE Acquired(t)
    BY <2>1, <2>3 DEF Acquired, callerVars
  <2>4. CASE TimedOut(t)
    BY <2>1, <2>4 DEF TimedOut, callerVars
  <2>5. CASE Emit(t)
    BY <2>1, <2>5 DEF Emit, callerVars
  <2> QED BY <1>9, <2>2, <2>3, <2>4, <2>5 DEF RepeatThread
<1>10. CASE UNCHANGED repeatVars
  BY <1>10 DEF repeatVars, callerVars
<1> QED BY <1>1, <1>2, <1>3, <1>4, <1>5, <1>6, <1>7, <1>8, <1>9, <1>10 DEF RepeatNext, Caller

LEMMA ThreadInvariance == RepeatSpec => []ThreadInv
<1>1. ThreadInv /\ [RepeatNext]_repeatVars => ThreadInv'
  BY ThreadTypeStep, ThreadStep DEF ThreadInv
<1> QED BY InitThreadInv, <1>1, PTL DEF RepeatSpec

\* The types of the module's RepeatTypeOK, for any number of threads and semaphores.
THEOREM TypeCorrect == RepeatSpec => []RepeatTypeOK
<1>1. ThreadInv => RepeatTypeOK
  BY DEF ThreadInv
<1> QED BY ThreadInvariance, <1>1, PTL

\* StartRepeating never leaves two repeat threads behind (KeyboardHandler.cpp:25).
THEOREM OnlyOneThread == RepeatSpec => []OneRepeatThread
<1>1. ThreadInv => OneRepeatThread
  BY DEF ThreadInv
<1> QED BY ThreadInvariance, <1>1, PTL

\* The invariant knows where the thread is while the caller writes.
LEMMA WritesWhileIdle == ThreadInv /\ Writes => Idle
BY KeysAssumption, KeyRepeatAssumption DEF ThreadInv, RepeatTypeOK, OneRepeatThread, PhaseInv, Writes, Idle

\* repeatMsg and repeatThreadSem are written, without a lock, only while no
\* repeat thread runs: there is no data race on them.
THEOREM NoDataRace == RepeatSpec => NoSharedWrite
<1>1. ThreadInv => (Writes => Idle)
  BY WritesWhileIdle
<1> QED BY ThreadInvariance, <1>1, PTL DEF NoSharedWrite

\* Stopping and starting never leaves a thread that uses what is written next.
THEOREM ThreadAlone == RepeatSpec => []ThreadIsAlone
<1>1. ThreadInv => ThreadIsAlone
  BY WritesWhileIdle DEF ThreadInv, ThreadIsAlone
<1> QED BY ThreadInvariance, <1>1, PTL

\* If spawn_thread and create_sem succeed, no semaphore leaks.
THEOREM NoLeak == RepeatSpec => []NoSemaphoreLost
<1>1. ThreadInv => NoSemaphoreLost
  BY DEF ThreadInv, LeakInv, NoSemaphoreLost
<1> QED BY ThreadInvariance, <1>1, PTL

------------------------------------------------------------------------------
(* Refinement.                                                             *)

Repeating == IF repeatThread = NoTid THEN NoKey ELSE repeatMsg.key
Count == IF repeatThread = NoTid THEN 0 ELSE repeatMsg.count

\* Spawn is the start, Join the stop, Emit a repeat; nothing else is visible.
LEMMA StepRefines == ThreadInv /\ [RepeatNext]_repeatVars => [Contract!Next]_(Contract!vars)
<1> SUFFICES ASSUME ThreadInv, [RepeatNext]_repeatVars
             PROVE  Contract!Next \/ UNCHANGED <<Repeating, Count, last>>
  BY DEF Contract!vars, Repeating, Count
<1> USE KeysAssumption, KeyRepeatAssumption DEF ThreadInv, Repeating, Count
<1>1. ASSUME NEW k \in Key, StartRepeating(k) PROVE UNCHANGED <<Repeating, Count, last>>
  BY <1>1 DEF StartRepeating, Call
<1>2. CASE StopRepeating \/ Release \/ Delete \/ Create \/ Resume
  BY <1>2 DEF StopRepeating, Call, Release, Delete, Create, Resume
<1>3. CASE Join
  <2>1. repeatThread # NoTid /\ repeatMsg.key # NoKey
    BY <1>3 DEF Join, PhaseInv, MessageInv
  <2>2. Contract!Stop
    BY <1>3, <2>1 DEF Join, Contract!Stop
  <2> QED BY <2>2 DEF Contract!Next
<1>4. CASE Spawn
  <2>1. repeatThread = NoTid /\ arg \in Key
    BY <1>4 DEF Spawn, PhaseInv
  <2>2. CASE repeatThread' = NoTid
    BY <1>4, <2>1, <2>2 DEF Spawn
  <2>3. CASE repeatThread' # NoTid
    <3>1. Contract!Start(arg)
      BY <1>4, <2>1, <2>3 DEF Spawn, Contract!Start
    <3> QED BY <2>1, <3>1 DEF Contract!Next
  <2> QED BY <2>2, <2>3
<1>5. ASSUME NEW t \in Tid, RepeatThread(t)
      PROVE  Contract!Next \/ UNCHANGED <<Repeating, Count, last>>
  <2>1. CASE BeginAcquire(t) \/ Acquired(t) \/ TimedOut(t)
    BY <2>1 DEF BeginAcquire, Acquired, TimedOut, callerVars
  <2>2. CASE Emit(t)
    <3>1. repeatThread # NoTid /\ repeatMsg.key \in Key /\ repeatMsg \in [key : Key \cup {NoKey}, count : Nat]
      BY <2>2 DEF Emit, OneRepeatThread, RepeatTypeOK, MessageInv
    <3>2. repeatMsg.count < MaxRepeat
      BY <2>2 DEF Emit, MessageInv
    <3>3. Contract!Send
      BY <2>2, <3>1, <3>2 DEF Emit, Contract!Send, callerVars
    <3> QED BY <3>3 DEF Contract!Next
  <2> QED BY <1>5, <2>1, <2>2 DEF RepeatThread
<1>6. CASE UNCHANGED repeatVars
  BY <1>6 DEF repeatVars, callerVars
<1> QED BY <1>1, <1>2, <1>3, <1>4, <1>5, <1>6 DEF RepeatNext, Caller

\* The semaphore protocol implements AutoRepeat: repeats of one key at a time,
\* counted one by one, none before the start and none after the join.
THEOREM RefinesAutoRepeat == RepeatSpec => ImplementsSafety
<1>1. RepeatInit => Contract!Init
  BY DEF RepeatInit, Contract!Init, Contract!NoRepeat
<1> QED BY ThreadInvariance, <1>1, StepRefines, PTL DEF RepeatSpec, ImplementsSafety, Contract!Safety

------------------------------------------------------------------------------
(* Module ScreenKeyboard: the view, the handler and the device.            *)

\* Where the two threads are, and what SetPushed's loop has left to do.  There is
\* no window before the constructor has returned.
LoopInv ==
  /\ pc # "idle" => cur \in todo
  /\ todo = {} => oldPushed = pushed
  /\ calls = 0 /\ serverPc # "idle" => ~wnd /\ pc = "idle" /\ todo = {} /\ state = {}

\* The keys drawn as pressed are under fingers, each under one.
FingersInv ==
  ~doubled => /\ pushed \subseteq {track[c] : c \in Contact}
              /\ \A c, d \in Contact : track[c] = track[d] => c = d \/ track[c] = NoKey

\* SetPushed has left to do exactly what view and handler differ in.
DiffInv ==
  ~failed /\ ~heldAtStop => \A k \in Key : k \in todo <=> (k \in pushed <=> k \notin state)

\* From StartRepeating to the key's own message the key is not in the state yet.
RepeatInv ==
  ~failed => IF pc = "enqueue" THEN repeating = (IF cur \in pushed THEN cur ELSE NoKey)
             ELSE repeating \in state \cup {NoKey}

\* The modifiers run ahead of the state: at first in the thread's own copy.  The
\* constructor's first message replaces what they were.
ShiftInv ==
  ~failed /\ calls = 0 =>
    IF serverPc # "idle" THEN serverPc \notin {"locks1", "assign1"} => modifiers \subseteq Locks
    ELSE /\ pc = "idle" => ("shift" \in modifiers <=> state \cap ShiftKey # {})
         /\ pc \in {"modifiers", "assign"} => ("shift" \in newMods <=> NewState \cap ShiftKey # {})
         /\ pc \in {"repeat", "enqueue"} => ("shift" \in modifiers <=> NewState \cap ShiftKey # {})

\* Of two threads that are about to assign, one is late.  What the input server was
\* told is what the other is about to assign; if there is none, it is what the
\* handler has, or a late one was the last that assigned.
WindowFresh == pc = "assign" /\ late # "window"
ServerFresh == serverPc \in Assigning /\ late # "server"
ToldInv ==
  /\ late = "window" => pc = "assign"
  /\ late = "server" => serverPc \in Assigning
  /\ ~(WindowFresh /\ ServerFresh)
  /\ WindowFresh => told = {newMods}
  /\ ServerFresh => told = {locks}
  /\ ~WindowFresh /\ ~ServerFresh => told \subseteq {modifiers} \/ (stale /\ late = "none")

IndInv == TypeOK /\ LoopInv /\ FingersInv /\ DiffInv /\ RepeatInv /\ ShiftInv /\ ToldInv

------------------------------------------------------------------------------
LEMMA InitIndInv == Init => IndInv
<1> SUFFICES ASSUME Init PROVE IndInv
  OBVIOUS
<1> USE DEF Init
<1>1. TypeOK
  BY DEF TypeOK, NoTrack, Locks, Modifier
<1>2. LoopInv /\ FingersInv /\ DiffInv /\ RepeatInv
  BY DEF LoopInv, FingersInv, DiffInv, RepeatInv, NoTrack
<1>3. ShiftInv /\ ToldInv
  BY DEF ShiftInv, ToldInv, WindowFresh, ServerFresh, Locks, Assigning
<1> QED BY <1>1, <1>2, <1>3 DEF IndInv

\* A step that changes nothing.
LEMMA StutterIndInv == IndInv /\ UNCHANGED vars => IndInv'
BY DEF IndInv, TypeOK, LoopInv, FingersInv, DiffInv, RepeatInv, ShiftInv, ToldInv, NewState, WindowFresh, ServerFresh, Assigning,
       vars, viewVars, winVars, serverVars, history

------------------------------------------------------------------------------
(* The view.                                                               *)

\* SetPushed keeps what is not about fingers, whatever keys it is given.
LEMMA SetPushedKeeps ==
  ASSUME IndInv, wnd, WindowFree, NEW keys \in SUBSET Key, SetPushed(keys),
         track' \in [Contact -> Key \cup {NoKey}], doubled' \in BOOLEAN
  PROVE  /\ TypeOK' /\ LoopInv' /\ DiffInv' /\ RepeatInv' /\ ShiftInv' /\ ToldInv'
<1> USE DEF IndInv, SetPushed, WindowFree, winVars, serverVars
<1>1. TypeOK'
  BY DEF TypeOK
<1>2. LoopInv'
  BY DEF LoopInv
<1>3. DiffInv'
  BY DEF DiffInv, LoopInv, TypeOK
<1>4. RepeatInv'
  BY DEF RepeatInv
<1>5. ShiftInv'
  BY DEF ShiftInv
<1>6. ToldInv'
  BY DEF ToldInv, WindowFresh, ServerFresh, Assigning
<1> QED BY <1>1, <1>2, <1>3, <1>4, <1>5, <1>6

LEMMA UserKeeps == ASSUME IndInv, User PROVE IndInv'
<1>1. ASSUME NEW c \in Contact, NEW k \in Key, MouseDown(c, k) PROVE IndInv'
  <2>1. pushed \cup {k} \in SUBSET Key /\ track' \in [Contact -> Key \cup {NoKey}] /\ doubled' \in BOOLEAN
    BY <1>1 DEF MouseDown, IndInv, TypeOK
  <2>2. FingersInv'
    BY <1>1, KeysAssumption, ScreenKeyboardAssumption DEF MouseDown, SetPushed, IndInv, TypeOK, FingersInv
  <2> QED BY <1>1, <2>1, <2>2, SetPushedKeeps DEF MouseDown, IndInv
<1>2. ASSUME NEW c \in Contact, MouseUp(c) PROVE IndInv'
  <2>1. pushed \ {track[c]} \in SUBSET Key /\ track' \in [Contact -> Key \cup {NoKey}] /\ doubled' \in BOOLEAN
    BY <1>2 DEF MouseUp, IndInv, TypeOK
  <2>2. FingersInv'
    BY <1>2, KeysAssumption, ScreenKeyboardAssumption DEF MouseUp, SetPushed, IndInv, TypeOK, FingersInv
  <2> QED BY <1>2, <2>1, <2>2, SetPushedKeeps DEF MouseUp, IndInv
<1>3. ASSUME NEW c \in Contact, NEW inside \in BOOLEAN, MouseMoved(c, inside) PROVE IndInv'
  <2> DEFINE keys == IF inside THEN pushed \cup {track[c]} ELSE pushed \ {track[c]}
  <2>1. keys \in SUBSET Key /\ track' \in [Contact -> Key \cup {NoKey}] /\ doubled' \in BOOLEAN
    BY <1>3 DEF MouseMoved, IndInv, TypeOK
  <2>2. FingersInv'
    BY <1>3 DEF MouseMoved, SetPushed, IndInv, TypeOK, FingersInv
  <2> QED BY <1>3, <2>1, <2>2, SetPushedKeeps DEF MouseMoved, IndInv
<1> QED BY <1>1, <1>2, <1>3 DEF User

------------------------------------------------------------------------------
(* The window's thread, in StateChanged.                                   *)

LEMMA KeyChangedKeeps == ASSUME IndInv, NEW k \in Key, KeyChanged(k) PROVE IndInv'
<1> USE DEF IndInv, KeyChanged, viewVars, serverVars, history
<1>1. TypeOK'
  BY KeysAssumption, ScreenKeyboardAssumption DEF TypeOK, ModifiersOf, Modifier, Locks
<1>2. LoopInv' /\ FingersInv' /\ DiffInv' /\ RepeatInv'
  BY DEF LoopInv, FingersInv, DiffInv, RepeatInv
<1>3. ShiftInv'
  <2>1. "shift" \in newMods' <=> NewState' \cap ShiftKey # {}
    BY DEF ModifiersOf, NewState, Locks
  <2> QED BY <2>1 DEF ShiftInv
<1>4. ToldInv'
  BY DEF ToldInv, WindowFresh, ServerFresh, Assigning
<1> QED BY <1>1, <1>2, <1>3, <1>4

LEMMA SendModifiersKeeps == ASSUME IndInv, SendModifiers PROVE IndInv'
<1> USE DEF IndInv, SendModifiers, Enqueued, viewVars, serverVars
<1>1. TypeOK'
  <2>1. told' \in SUBSET SUBSET Modifier /\ late' \in {"none", "window", "server"}
    BY DEF TypeOK
  <2> QED BY <2>1 DEF TypeOK
<1>2. LoopInv' /\ FingersInv' /\ DiffInv' /\ RepeatInv'
  BY DEF LoopInv, FingersInv, DiffInv, RepeatInv
<1>3. ShiftInv'
  BY DEF ShiftInv, LoopInv, NewState, TypeOK
<1>4. ToldInv'
  BY DEF ToldInv, WindowFresh, ServerFresh, Assigning
<1> QED BY <1>1, <1>2, <1>3, <1>4

LEMMA AssignModifiersKeeps == ASSUME IndInv, AssignModifiers PROVE IndInv'
<1> USE DEF IndInv, AssignModifiers, Assigned, viewVars, serverVars
<1>1. TypeOK'
  BY DEF TypeOK
<1>2. LoopInv' /\ FingersInv' /\ DiffInv' /\ RepeatInv'
  BY DEF LoopInv, FingersInv, DiffInv, RepeatInv
<1>3. ShiftInv'
  BY DEF ShiftInv, LoopInv, NewState
<1>4. ToldInv'
  BY DEF ToldInv, WindowFresh, ServerFresh, Assigning
<1> QED BY <1>1, <1>2, <1>3, <1>4

LEMMA ChangeRepeatKeeps == ASSUME IndInv, ChangeRepeat PROVE IndInv'
<1> USE DEF IndInv, ChangeRepeat, NextKey, viewVars, serverVars, history
<1>1. TypeOK'
  BY KeysAssumption, ScreenKeyboardAssumption DEF TypeOK
<1>2. LoopInv' /\ FingersInv'
  BY DEF LoopInv, FingersInv
<1>3. DiffInv'
  BY DEF DiffInv, NewState, LoopInv, TypeOK
<1>4. RepeatInv'
  BY DEF RepeatInv
<1>5. ShiftInv'
  BY DEF ShiftInv, LoopInv, NewState
<1>6. ToldInv'
  BY DEF ToldInv, WindowFresh, ServerFresh, Assigning
<1> QED BY <1>1, <1>2, <1>3, <1>4, <1>5, <1>6

LEMMA SendKeyKeeps == ASSUME IndInv, SendKey PROVE IndInv'
<1> USE DEF IndInv, SendKey, NextKey, Enqueued, viewVars, serverVars
<1>1. TypeOK'
  BY DEF TypeOK, NewState, LoopInv
<1>2. LoopInv' /\ FingersInv'
  BY DEF LoopInv, FingersInv
<1>3. DiffInv'
  BY DEF DiffInv, NewState, LoopInv, TypeOK
<1>4. RepeatInv'
  BY DEF RepeatInv, NewState, TypeOK
<1>5. ShiftInv'
  BY DEF ShiftInv, LoopInv, NewState, TypeOK
<1>6. ToldInv'
  BY DEF ToldInv, WindowFresh, ServerFresh, Assigning
<1> QED BY <1>1, <1>2, <1>3, <1>4, <1>5, <1>6

LEMMA WindowKeeps == ASSUME IndInv, Window PROVE IndInv'
BY KeyChangedKeeps, SendModifiersKeeps, AssignModifiersKeeps, ChangeRepeatKeeps, SendKeyKeeps DEF Window

------------------------------------------------------------------------------
(* The input server's thread.                                              *)

LEMMA ServerKeeps == ASSUME IndInv, Server PROVE IndInv'
<1> USE DEF IndInv, serverIdle, winVars
<1>1. ASSUME Start PROVE IndInv'
  BY <1>1 DEF Start, serverVars, history, TypeOK, LoopInv, FingersInv, DiffInv, RepeatInv, ShiftInv, ToldInv, NewState, WindowFresh, ServerFresh, Assigning
<1>2. ASSUME Stop PROVE IndInv'
  <2> USE <1>2 DEF Stop, serverVars, WindowFree
  <2>1. TypeOK'
    BY DEF TypeOK, NoTrack
  <2>2. LoopInv' /\ FingersInv'
    BY DEF LoopInv, FingersInv, NoTrack
  <2>3. DiffInv' /\ RepeatInv'
    BY DEF DiffInv, RepeatInv, TypeOK
  <2>4. ShiftInv' /\ ToldInv'
    BY DEF ShiftInv, ToldInv, WindowFresh, ServerFresh, Assigning
  <2> QED BY <2>1, <2>2, <2>3, <2>4
<1>3. ASSUME NEW command \in {"locks", "map"}, Control(command) PROVE IndInv'
  <2> USE <1>3 DEF Control, viewVars, history
  <2>1. TypeOK'
    BY DEF TypeOK
  <2>2. LoopInv' /\ FingersInv' /\ DiffInv' /\ RepeatInv' /\ ShiftInv'
    BY DEF LoopInv, FingersInv, DiffInv, RepeatInv, ShiftInv, TypeOK
  <2>3. ToldInv'
    BY DEF ToldInv, WindowFresh, ServerFresh, Assigning
  <2> QED BY <2>1, <2>2, <2>3
<1> QED BY <1>1, <1>2, <1>3 DEF Server

LEMMA ServerReturnsKeeps == ASSUME IndInv, ServerReturns PROVE IndInv'
<1> USE DEF IndInv, viewVars, winVars
<1>1. ASSUME NEW s \in SUBSET Locks, LocksChanged(s) PROVE IndInv'
  <2> USE <1>1 DEF LocksChanged, Enqueued, After
  <2>1. TypeOK'
    <3>1. told' \in SUBSET SUBSET Modifier /\ late' \in {"none", "window", "server"}
      BY DEF TypeOK, Modifier
    <3>2. serverPc' \in {"idle", "locks1", "assign1", "locks2", "assign2", "notify"} /\ failed' \in BOOLEAN
      BY DEF TypeOK
    <3> QED BY <3>1, <3>2 DEF TypeOK
  <2>2. LoopInv' /\ FingersInv' /\ DiffInv' /\ RepeatInv'
    <3>1. failed' \/ UNCHANGED failed
      BY DEF TypeOK
    <3>2. serverPc # "idle" /\ UNCHANGED <<viewVars, pc, cur, state, repeating, calls, heldAtStop, doubled>>
      OBVIOUS
    <3> QED BY <3>1, <3>2 DEF LoopInv, FingersInv, DiffInv, RepeatInv
  <2>3. ShiftInv'
    BY DEF ShiftInv, TypeOK
  <2>4. ToldInv'
    BY DEF ToldInv, WindowFresh, ServerFresh, Assigning, TypeOK
  <2> QED BY <2>1, <2>2, <2>3, <2>4
<1>2. ASSUME AssignLocks PROVE IndInv'
  <2> USE <1>2 DEF AssignLocks, Assigned, Assigning, After
  <2>1. TypeOK'
    BY DEF TypeOK, Modifier
  <2>2. LoopInv' /\ FingersInv' /\ DiffInv' /\ RepeatInv'
    BY DEF LoopInv, FingersInv, DiffInv, RepeatInv
  <2>3. ShiftInv'
    BY DEF ShiftInv, TypeOK
  <2>4. ToldInv'
    BY DEF ToldInv, WindowFresh, ServerFresh, Assigning, TypeOK
  <2> QED BY <2>1, <2>2, <2>3, <2>4
<1>3. ASSUME Notify PROVE IndInv'
  <2> USE <1>3 DEF Notify, serverIdle, history
  <2>1. TypeOK'
    BY DEF TypeOK
  <2>2. LoopInv' /\ FingersInv' /\ DiffInv' /\ RepeatInv'
    BY DEF LoopInv, FingersInv, DiffInv, RepeatInv
  <2>3. ShiftInv'
    BY DEF ShiftInv, LoopInv, Locks
  <2>4. ToldInv'
    BY DEF ToldInv, WindowFresh, ServerFresh, Assigning
  <2> QED BY <2>1, <2>2, <2>3, <2>4
<1> QED BY <1>1, <1>2, <1>3 DEF ServerReturns

LEMMA Invariance == Spec => []IndInv
<1>1. IndInv /\ [Next]_vars => IndInv'
  BY UserKeeps, WindowKeeps, ServerKeeps, ServerReturnsKeeps, StutterIndInv DEF Next
<1> QED BY InitIndInv, <1>1, PTL DEF Spec

------------------------------------------------------------------------------
\* However fingers press, leave, re-enter and release keys, the handler holds
\* what the view shows, and only a key that is down repeats
\* (KeyboardWindow.cpp:194, KeyboardHandler.cpp:276).
THEOREM NoKeySticks == Spec => []StateFollowsPushed
<1>1. IndInv => StateFollowsPushed
  <2> SUFFICES ASSUME IndInv PROVE StateFollowsPushed
    OBVIOUS
  <2>1. WindowFree /\ ~failed /\ ~heldAtStop => state = pushed
    BY DEF IndInv, DiffInv, WindowFree, TypeOK
  <2>2. WindowFree /\ ~failed => repeating \in state \cup {NoKey}
    BY DEF IndInv, RepeatInv, WindowFree
  <2> QED BY <2>1, <2>2 DEF IndInv, FingersInv, StateFollowsPushed
<1> QED BY Invariance, <1>1, PTL

\* Shift is in effect exactly while a shift key is down (KeyboardHandler.cpp:212).
THEOREM ShiftIsHeld == Spec => []ShiftFollowsKeys
<1>1. IndInv => ShiftFollowsKeys
  BY DEF IndInv, ShiftInv, ShiftFollowsKeys, WindowFree
<1> QED BY Invariance, <1>1, PTL

\* The two threads that assign "modifiers" without a lock leave what the input
\* server was told last (KeyboardHandler.cpp:212, :289), unless one assigned after
\* the other's message had followed its own; whatever modifiers was at first.
THEOREM ModifiersAreTold == Spec => []ModifiersAgree
<1>1. IndInv => ModifiersAgree
  BY DEF IndInv, ToldInv, WindowFresh, ServerFresh, ModifiersAgree
<1> QED BY Invariance, <1>1, PTL
==============================================================================
