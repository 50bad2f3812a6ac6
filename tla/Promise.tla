------------------------------- MODULE Promise -------------------------------
(***************************************************************************)
(* One Promise<ResolvedType, RejectedType> of Promises/Promises.h, shared  *)
(* by any number of threads.  Every method takes the recursive fLocker for *)
(* its whole body, so a method that calls no callback is one step; Resolve *)
(* and Reject call the callbacks of their list one by one while they hold  *)
(* the lock, and a callback may call methods of the same promise again     *)
(* (from the thread that holds the lock).  The values carried by the       *)
(* promise are left out: no property depends on what they are.             *)
(***************************************************************************)
EXTENDS Sequences, Naturals, Functions

CONSTANTS
  Thread,        \* the threads that use the promise
  NoThread,      \* "nobody holds fLocker"
  Registration   \* one element per OnResolve, OnReject or OnSet call

ASSUME NoThreadAssumption == NoThread \notin Thread

VARIABLES
  outcome,    \* which of fResolvedVal and fRejectedVal is set, if any
  onResolve,  \* the list fOnResolve, head first
  onReject,   \* the list fOnReject, head first
  holder,     \* the thread that holds fLocker between two steps
  settling,   \* the holder is inside Resolve or Reject, in the loop
  due,        \* the items the loop has not reached yet
  running,    \* the callbacks being executed, innermost first
  want,       \* history: the outcomes each registration asked to be told of
  log         \* history: the callbacks in the order in which they were called

vars == <<outcome, onResolve, onReject, holder, settling, due, running, want, log>>

Outcome == {"resolved", "rejected"}

Init ==
  /\ outcome = "pending"
  /\ onResolve = <<>>
  /\ onReject = <<>>
  /\ holder = NoThread
  /\ settling = FALSE
  /\ due = <<>>
  /\ running = <<>>
  /\ want = [r \in Registration |-> {}]
  /\ log = <<>>

\* fLocker is recursive: a thread gets in when the lock is free, or when it
\* holds the lock itself, which it does only while it executes a callback.
CanEnter(t) ==
  \/ holder = NoThread
  \/ holder = t /\ running # <<>>

ListFor(k) == IF k = "resolved" THEN onResolve ELSE onReject

\* Mutant: no test of IsSet.
SettleAgain(t, k) ==
  /\ CanEnter(t)
  /\ outcome' = k /\ holder' = t /\ settling' = TRUE /\ due' = ListFor(k)
  /\ UNCHANGED <<onResolve, onReject, running, want, log>>

\* Resolve (k = "resolved") and Reject (k = "rejected").
Settle(t, k) ==
  /\ CanEnter(t)
  /\ IF outcome # "pending"
     THEN UNCHANGED vars                         \* return false
     ELSE /\ outcome' = k
          /\ holder' = t
          /\ settling' = TRUE
          /\ due' = ListFor(k)
          /\ UNCHANGED <<onResolve, onReject, running, want, log>>

\* item->Do(*this) on the next item of the loop: the callback starts.
CallNext(t) ==
  /\ holder = t
  /\ settling
  /\ running = <<>>
  /\ due # <<>>
  /\ running' = <<Head(due)>>
  /\ log' = Append(log, Head(due))
  /\ due' = Tail(due)
  /\ UNCHANGED <<outcome, onResolve, onReject, holder, settling, want>>

\* The end of the loop: the lock is released and Resolve or Reject returns true.
FinishSettling(t) ==
  /\ holder = t
  /\ settling
  /\ running = <<>>
  /\ due = <<>>
  /\ settling' = FALSE
  /\ holder' = NoThread
  /\ UNCHANGED <<outcome, onResolve, onReject, due, running, want, log>>

\* "if (value is set) return callback(*this)": the callback starts inside the
\* registering call, below any callback that is already running.
CallAtOnce(t, r) ==
  /\ holder' = t
  /\ running' = <<r>> \o running
  /\ log' = Append(log, r)

OnResolve(t, r) ==
  /\ CanEnter(t)
  /\ want[r] = {}
  /\ want' = [want EXCEPT ![r] = {"resolved"}]
  /\ \/ /\ outcome = "resolved"
        /\ CallAtOnce(t, r)
        /\ UNCHANGED onResolve
     \/ /\ outcome # "resolved"
        /\ onResolve' = IF outcome = "rejected" THEN onResolve ELSE <<r>> \o onResolve
        /\ UNCHANGED <<holder, running, log>>
  /\ UNCHANGED <<outcome, onReject, settling, due>>

OnReject(t, r) ==
  /\ CanEnter(t)
  /\ want[r] = {}
  /\ want' = [want EXCEPT ![r] = {"rejected"}]
  /\ \/ /\ outcome = "rejected"
        /\ CallAtOnce(t, r)
        /\ UNCHANGED onReject
     \/ /\ outcome # "rejected"
        /\ onReject' = IF outcome = "resolved" THEN onReject ELSE <<r>> \o onReject
        /\ UNCHANGED <<holder, running, log>>
  /\ UNCHANGED <<outcome, onResolve, settling, due>>

\* OnResolve(callback); OnReject(callback) under one lock.  With an outcome set
\* exactly one of the two calls the callback and the other does nothing;
\* without one both push it, and nothing can settle the promise in between.
OnSet(t, r) ==
  /\ CanEnter(t)
  /\ want[r] = {}
  /\ want' = [want EXCEPT ![r] = Outcome]
  /\ \/ /\ outcome # "pending"
        /\ CallAtOnce(t, r)
        /\ UNCHANGED <<onResolve, onReject>>
     \/ /\ outcome = "pending"
        /\ onResolve' = <<r>> \o onResolve
        /\ onReject' = <<r>> \o onReject
        /\ UNCHANGED <<holder, running, log>>
  /\ UNCHANGED <<outcome, settling, due>>

\* Mutant: the lock is released before the loop is over.
CallbackReturnsUnlocked(t) ==
  /\ holder = t /\ running # <<>>
  /\ running' = Tail(running)
  /\ holder' = IF Tail(running) = <<>> THEN NoThread ELSE t
  /\ UNCHANGED <<outcome, onResolve, onReject, settling, due, want, log>>

\* The innermost callback returns.  If it was called by a registering method,
\* that method returns too; the outermost return releases the lock.
CallbackReturns(t) ==
  /\ holder = t
  /\ running # <<>>
  /\ running' = Tail(running)
  /\ holder' = IF Tail(running) = <<>> /\ ~settling THEN NoThread ELSE t
  /\ UNCHANGED <<outcome, onResolve, onReject, settling, due, want, log>>

Register(t, r) == OnResolve(t, r) \/ OnReject(t, r) \/ OnSet(t, r)

\* What a thread inside the promise does without asking for the lock again.
Proceed(t) == CallNext(t) \/ CallbackReturns(t) \/ FinishSettling(t)

Next ==
  \E t \in Thread :
    \/ \E k \in Outcome : Settle(t, k)
    \/ \E r \in Registration : Register(t, r)
    \/ Proceed(t)

Spec == Init /\ [][Next]_vars

\* A thread inside the promise keeps running, and the callbacks terminate.
FairSpec == Spec /\ \A t \in Thread : WF_vars(Proceed(t))

------------------------------------------------------------------------------
TypeOK ==
  /\ outcome \in Outcome \cup {"pending"}
  /\ onResolve \in Seq(Registration)
  /\ onReject \in Seq(Registration)
  /\ holder \in Thread \cup {NoThread}
  /\ settling \in BOOLEAN
  /\ due \in Seq(Registration)
  /\ running \in Seq(Registration)
  /\ want \in [Registration -> SUBSET Outcome]
  /\ log \in Seq(Registration)

\* No callback is called twice, even when it is registered for both outcomes
\* (OnSet), when Resolve races Reject, or when a callback registers another
\* one on the promise that is calling it.
CalledAtMostOnce == IsInjective(log)

\* A callback is called only after the outcome it asked for is set: never on a
\* pending promise, and never an OnReject callback of a resolved one.
CalledOnlyIfWanted == \A r \in Range(log) : outcome \in want[r]

\* When nobody is inside the promise, every registration that asked for the
\* outcome, before or after it was set, has been called: none is lost between
\* the push of one thread and the loop of another.
NobodyForgotten ==
  holder = NoThread => \A r \in Registration : outcome \in want[r] => r \in Range(log)

\* Together: as long as threads register and settle, each callback is called
\* exactly once if the outcome is one it asked for, and never otherwise.
CalledOnce == CalledAtMostOnce /\ CalledOnlyIfWanted /\ NobodyForgotten

\* Refinement: the lock, the lists and the loop implement the contract.
Contract == INSTANCE PromiseContract WITH told <- Range(log)
ImplementsContract == Contract!Spec
==============================================================================
