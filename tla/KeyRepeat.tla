------------------------------- MODULE KeyRepeat -------------------------------
(***************************************************************************)
(* StartRepeating, StopRepeating and RepeatThread of ScreenKeyboard's      *)
(* KeyboardHandler.cpp.  The caller (one thread at a time: the window's)   *)
(* spawns a thread that enqueues a copy of the key's message whenever its  *)
(* timed wait for a semaphore runs out, and stops it by releasing the      *)
(* semaphore and joining the thread.  Timeouts may expire at any time: a   *)
(* delay is a number of microseconds only to the kernel.                   *)
(***************************************************************************)
EXTENDS KeyboardKeys, Naturals

CONSTANTS
  Tid, NoTid,   \* thread ids; NoTid is a negative repeatThread
  Sem, NoSem,   \* semaphore ids; NoSem is a negative repeatThreadSem
  MaxRepeat,    \* bound: a message repeats until it carries this count
  KernelFails   \* whether spawn_thread and create_sem may fail

ASSUME KeyRepeatAssumption ==
  /\ NoTid \notin Tid /\ NoSem \notin Sem
  /\ MaxRepeat \in Nat
  /\ KernelFails \in BOOLEAN

VARIABLES
  callerPc,   \* where the caller is in StartRepeating or StopRepeating
  arg,        \* the message StartRepeating was called with (NoKey: StopRepeating)
  repeatThread, repeatThreadSem,  \* the members of the same names
  repeatMsg,  \* the member of the same name: its key and its "be:key_repeat"
  live,       \* the semaphores that exist
  sem,        \* sem[s]: the count of semaphore s, while it exists
  thread,     \* thread[t]: where thread t is in RepeatThread ("none": no such thread)
  waitOn,     \* waitOn[t]: the semaphore that t read and waits for
  last        \* history: the last repeat that reached the input server

callerVars == <<callerPc, arg, repeatThread, repeatThreadSem>>
repeatVars == <<callerVars, repeatMsg, live, sem, thread, waitOn, last>>

RepeatInit ==
  /\ callerPc = "idle" /\ arg = NoKey
  /\ repeatThread = NoTid /\ repeatThreadSem = NoSem
  /\ repeatMsg = [key |-> NoKey, count |-> 0]
  /\ live = {}
  /\ sem = [s \in Sem |-> 0]
  /\ thread = [t \in Tid |-> "none"]
  /\ waitOn = [t \in Tid |-> NoSem]
  /\ last = [key |-> NoKey, count |-> 0]

------------------------------------------------------------------------------
(* The caller.                                                             *)

Call(k, next) ==
  /\ callerPc = "idle"
  /\ arg' = k
  /\ callerPc' = next
  /\ UNCHANGED <<repeatThread, repeatThreadSem, repeatMsg, live, sem, thread, waitOn, last>>

StartRepeating(k) == Call(k, IF repeatThread # NoTid THEN "release" ELSE "spawn")

StopRepeating == repeatThread # NoTid /\ Call(NoKey, "release")

\* Mutant: the semaphore is not released.
ReleaseNothing ==
  /\ callerPc = "release" /\ callerPc' = "join"
  /\ UNCHANGED <<arg, repeatThread, repeatThreadSem, repeatMsg, live, sem, thread, waitOn, last>>

\* release_sem fails, and is not noticed, when create_sem did.
Release ==
  /\ callerPc = "release"
  /\ sem' = IF repeatThreadSem = NoSem THEN sem
            ELSE [sem EXCEPT ![repeatThreadSem] = @ + 1]
  /\ callerPc' = "join"
  /\ UNCHANGED <<arg, repeatThread, repeatThreadSem, repeatMsg, live, thread, waitOn, last>>

\* Mutant: the caller does not wait for the thread.
JoinAtOnce ==
  /\ callerPc = "join"
  /\ repeatThread' = NoTid
  /\ callerPc' = "delete"
  /\ UNCHANGED <<arg, repeatThreadSem, repeatMsg, live, sem, thread, waitOn, last>>

Join ==
  /\ callerPc = "join"
  /\ thread[repeatThread] = "none"
  /\ repeatThread' = NoTid
  /\ callerPc' = "delete"
  /\ UNCHANGED <<arg, repeatThreadSem, repeatMsg, live, sem, thread, waitOn, last>>

AfterStop == IF arg = NoKey THEN "idle" ELSE "spawn"

Delete ==
  /\ callerPc = "delete"
  /\ live' = live \ {repeatThreadSem}
  /\ repeatThreadSem' = NoSem
  /\ callerPc' = AfterStop
  /\ UNCHANGED <<arg, repeatThread, repeatMsg, sem, thread, waitOn, last>>

\* repeatMsg = *msg, then spawn_thread: the new thread waits to be resumed.
Spawn ==
  /\ callerPc = "spawn"
  /\ repeatMsg' = [key |-> arg, count |-> 1]
  /\ \/ \E t \in Tid :
          /\ thread[t] = "none"
          /\ thread' = [thread EXCEPT ![t] = "suspended"]
          /\ repeatThread' = t
     \/ KernelFails /\ repeatThread' = NoTid /\ UNCHANGED thread
  /\ callerPc' = "create"
  /\ UNCHANGED <<arg, repeatThreadSem, live, sem, waitOn, last>>

\* A semaphore made for a thread that could not be spawned is never deleted:
\* the next create_sem overwrites its id.
Create ==
  /\ callerPc = "create"
  /\ \/ \E s \in Sem :
          /\ s \notin live
          /\ live' = live \cup {s}
          /\ sem' = [sem EXCEPT ![s] = 0]
          /\ repeatThreadSem' = s
     \/ KernelFails /\ repeatThreadSem' = NoSem /\ UNCHANGED <<live, sem>>
  /\ callerPc' = "resume"
  /\ UNCHANGED <<arg, repeatThread, repeatMsg, thread, waitOn, last>>

Resume ==
  /\ callerPc = "resume"
  /\ thread' = IF repeatThread = NoTid THEN thread
               ELSE [thread EXCEPT ![repeatThread] = "acquire"]
  /\ callerPc' = "idle" /\ arg' = NoKey
  /\ UNCHANGED <<repeatThread, repeatThreadSem, repeatMsg, live, sem, waitOn, last>>

Caller == Release \/ Join \/ Delete \/ Spawn \/ Create \/ Resume

------------------------------------------------------------------------------
(* RepeatThread.                                                           *)

\* acquire_sem_etc(h->repeatThreadSem, ...) reads the member, then waits.
BeginAcquire(t) ==
  /\ thread[t] = "acquire"
  /\ waitOn' = [waitOn EXCEPT ![t] = repeatThreadSem]
  /\ thread' = [thread EXCEPT ![t] = "wait"]
  /\ UNCHANGED <<callerVars, repeatMsg, live, sem, last>>

CanAcquire(s) == s \in live /\ sem[s] > 0

\* res >= B_OK: the thread ends.
Acquired(t) ==
  /\ thread[t] = "wait"
  /\ CanAcquire(waitOn[t])
  /\ sem' = [sem EXCEPT ![waitOn[t]] = @ - 1]
  /\ thread' = [thread EXCEPT ![t] = "none"]
  /\ UNCHANGED <<callerVars, repeatMsg, live, waitOn, last>>

\* The timeout expires, or the semaphore does not exist: any error repeats.
TimedOut(t) ==
  /\ thread[t] = "wait"
  /\ ~CanAcquire(waitOn[t])
  /\ repeatMsg.count < MaxRepeat
  /\ thread' = [thread EXCEPT ![t] = "emit"]
  /\ UNCHANGED <<callerVars, repeatMsg, live, sem, waitOn, last>>

\* Mutant: the count is raised in the copy only.
EmitSameCount(t) ==
  /\ thread[t] = "emit"
  /\ \/ last' = [repeatMsg EXCEPT !.count = @ + 1]
     \/ UNCHANGED last
  /\ thread' = [thread EXCEPT ![t] = "acquire"]
  /\ UNCHANGED <<callerVars, repeatMsg, live, sem, waitOn>>

\* Mutant: the thread gives up when a message is refused.
EmitOrEnd(t) ==
  /\ thread[t] = "emit"
  /\ repeatMsg' = [repeatMsg EXCEPT !.count = @ + 1]
  /\ last' \in {last, repeatMsg'}
  /\ thread' = [thread EXCEPT ![t] = IF last' = last THEN "none" ELSE "acquire"]
  /\ UNCHANGED <<callerVars, live, sem, waitOn>>

\* The count is raised in repeatMsg; EnqueueMessage may refuse the copy.
Emit(t) ==
  /\ thread[t] = "emit"
  /\ repeatMsg' = [repeatMsg EXCEPT !.count = @ + 1]
  /\ last' \in {last, repeatMsg'}
  /\ thread' = [thread EXCEPT ![t] = "acquire"]
  /\ UNCHANGED <<callerVars, live, sem, waitOn>>

RepeatThread(t) == BeginAcquire(t) \/ Acquired(t) \/ TimedOut(t) \/ Emit(t)

------------------------------------------------------------------------------
RepeatNext ==
  \/ \E k \in Key : StartRepeating(k)
  \/ StopRepeating
  \/ Caller
  \/ \E t \in Tid : RepeatThread(t)

RepeatSpec == RepeatInit /\ [][RepeatNext]_repeatVars

\* Both threads run; nobody has to press or release a key.
RepeatFairSpec == RepeatSpec /\ WF_repeatVars(Caller) /\ \A t \in Tid : WF_repeatVars(RepeatThread(t))

------------------------------------------------------------------------------
RepeatTypeOK ==
  /\ callerPc \in {"idle", "release", "join", "delete", "spawn", "create", "resume"}
  /\ arg \in Key \cup {NoKey}
  /\ repeatThread \in Tid \cup {NoTid}
  /\ repeatThreadSem \in Sem \cup {NoSem}
  /\ repeatMsg \in [key : Key \cup {NoKey}, count : Nat]
  /\ live \in SUBSET Sem
  /\ sem \in [Sem -> Nat]
  /\ thread \in [Tid -> {"none", "suspended", "acquire", "wait", "emit"}]
  /\ waitOn \in [Tid -> Sem \cup {NoSem}]
  /\ last \in [key : Key \cup {NoKey}, count : Nat]

\* There is never a second repeat thread, not even one that has been told to
\* stop: the only thread alive is the one repeatThread can stop.
OneRepeatThread == \A t \in Tid : thread[t] # "none" => t = repeatThread

\* The caller is where it writes repeatMsg, or the semaphore id a thread reads.
Writes == callerPc \in {"spawn", "create", "delete"}
Idle == \A t \in Tid : thread[t] \in {"none", "suspended"}

\* They are only written while no thread can be using them.
NoSharedWrite == [][Writes => Idle]_<<callerPc, repeatThreadSem, repeatMsg>>

\* Together: stopping and starting never leaves a thread that uses what the
\* caller writes next.
ThreadIsAlone == OneRepeatThread /\ (Writes => Idle)

\* When no system call fails, every semaphore that exists can still be deleted.
NoSemaphoreLost == KernelFails \/ live \subseteq {repeatThreadSem}

\* The release is never missed: StartRepeating and StopRepeating return, if
\* there was a semaphore to release.
CallReturns == (callerPc # "idle" /\ repeatThreadSem # NoSem) ~> (callerPc = "idle")

\* Refinement: the thread, its semaphore and the join implement AutoRepeat.
Contract == INSTANCE AutoRepeat WITH
  repeating <- IF repeatThread = NoTid THEN NoKey ELSE repeatMsg.key,
  count <- IF repeatThread = NoTid THEN 0 ELSE repeatMsg.count
ImplementsSafety == Contract!Safety
\* A held key keeps repeating, even when the thread has no semaphore to wait for.
HeldKeyRepeats == Contract!Liveness
==============================================================================
