---------------------------- MODULE PromiseProofs ----------------------------
(***************************************************************************)
(* Proofs about module Promise, for any sets of threads and registrations: *)
(* the invariant IndInv is inductive, it implies the safety invariants     *)
(* that MCPromise.cfg checks, and with it every step is a step of          *)
(* PromiseContract.  Then proofs about module Credentials, the promises of *)
(* any number of dialogs and the windows around them: DemoInv is           *)
(* inductive, it implies that nothing is used after its deletion, and with *)
(* it every step is one of module Promise.                                 *)
(***************************************************************************)
EXTENDS Promise, Credentials, SequenceTheorems, TLAPS

-----------------------------------------------------------------------------
(* Sequences without repetitions: the callback lists of Promises.h, and    *)
(* the loop that consumes them.                                            *)

\* An element pushed in front of a list (item->next = fOnResolve): the result
\* holds it and what the list held, once each if it was not there before.
LEMMA PushFront ==
  ASSUME NEW S, NEW s \in Seq(S), NEW r \in S
  PROVE  /\ <<r>> \o s \in Seq(S)
         /\ Range(<<r>> \o s) = {r} \cup Range(s)
         /\ IsInjective(s) /\ r \notin Range(s) => IsInjective(<<r>> \o s)
<1> DEFINE q == <<r>> \o s
<1>1. /\ q \in Seq(S)
      /\ Len(q) = Len(s) + 1
      /\ DOMAIN q = 1..(Len(s) + 1)
      /\ DOMAIN s = 1..Len(s)
      /\ Len(s) \in Nat
      /\ q[1] = r
      /\ \A i \in 2..(Len(s) + 1) : q[i] = s[i - 1]
  OBVIOUS
<1>2. \A i \in DOMAIN s : i + 1 \in DOMAIN q /\ q[i + 1] = s[i]
  BY <1>1
<1> HIDE DEF q
<1>3. Range(q) = {r} \cup Range(s)
  <2>1. Range(q) \subseteq {r} \cup Range(s)
    BY <1>1 DEF Range
  <2>2. r \in Range(q) /\ Range(s) \subseteq Range(q)
    BY <1>1, <1>2 DEF Range
  <2> QED BY <2>1, <2>2
<1>4. ASSUME IsInjective(s), r \notin Range(s)
      PROVE  IsInjective(q)
  <2> SUFFICES ASSUME NEW i \in DOMAIN q, NEW j \in DOMAIN q, q[i] = q[j]
               PROVE  i = j
    BY DEF IsInjective
  <2>1. CASE i = 1 \/ j = 1
    BY <2>1, <1>1, <1>4 DEF Range
  <2>2. CASE i # 1 /\ j # 1
    <3>1. i - 1 \in DOMAIN s /\ j - 1 \in DOMAIN s /\ s[i - 1] = s[j - 1]
      BY <2>2, <1>1
    <3>2. i - 1 = j - 1
      BY <3>1, <1>4 DEF IsInjective
    <3> QED BY <3>2, <1>1
  <2> QED BY <2>1, <2>2
<1> QED BY <1>1, <1>3, <1>4 DEF q

\* An element appended to a log.
LEMMA AppendLast ==
  ASSUME NEW S, NEW s \in Seq(S), NEW r \in S
  PROVE  /\ Append(s, r) \in Seq(S)
         /\ Range(Append(s, r)) = Range(s) \cup {r}
         /\ IsInjective(s) /\ r \notin Range(s) => IsInjective(Append(s, r))
<1> DEFINE q == Append(s, r)
<1>1. /\ q \in Seq(S)
      /\ DOMAIN q = 1..(Len(s) + 1)
      /\ DOMAIN s = 1..Len(s)
      /\ Len(s) \in Nat
      /\ q[Len(s) + 1] = r
      /\ \A i \in 1..Len(s) : q[i] = s[i]
  OBVIOUS
<1> HIDE DEF q
<1>2. Range(q) = Range(s) \cup {r}
  <2>1. Range(q) \subseteq Range(s) \cup {r}
    BY <1>1 DEF Range
  <2>2. r \in Range(q) /\ Range(s) \subseteq Range(q)
    BY <1>1 DEF Range
  <2> QED BY <2>1, <2>2
<1>3. ASSUME IsInjective(s), r \notin Range(s)
      PROVE  IsInjective(q)
  <2> SUFFICES ASSUME NEW i \in DOMAIN q, NEW j \in DOMAIN q, q[i] = q[j]
               PROVE  i = j
    BY DEF IsInjective
  <2>1. CASE i = Len(s) + 1 \/ j = Len(s) + 1
    BY <2>1, <1>1, <1>3 DEF Range
  <2>2. CASE i # Len(s) + 1 /\ j # Len(s) + 1
    BY <2>2, <1>1, <1>3 DEF IsInjective
  <2> QED BY <2>1, <2>2
<1> QED BY <1>1, <1>2, <1>3 DEF q

\* The first element taken off a list without repetitions.
LEMMA TakeFirst ==
  ASSUME NEW S, NEW s \in Seq(S), s # <<>>
  PROVE  /\ Head(s) \in S
         /\ Tail(s) \in Seq(S)
         /\ Range(s) = {Head(s)} \cup Range(Tail(s))
         /\ IsInjective(s) => IsInjective(Tail(s)) /\ Head(s) \notin Range(Tail(s))
<1> DEFINE t == Tail(s)
<1>1. /\ t \in Seq(S)
      /\ DOMAIN t = 1..(Len(s) - 1)
      /\ DOMAIN s = 1..Len(s)
      /\ Len(s) \in Nat /\ Len(s) >= 1
      /\ Head(s) = s[1] /\ s[1] \in S
      /\ \A i \in 1..(Len(s) - 1) : t[i] = s[i + 1]
  BY HeadTailProperties, LenProperties, ElementOfSeq
<1>2. \A i \in 2..Len(s) : i - 1 \in DOMAIN t /\ t[i - 1] = s[i]
  BY <1>1
<1> HIDE DEF t
<1>3. Range(s) = {Head(s)} \cup Range(t)
  <2>1. Range(s) \subseteq {Head(s)} \cup Range(t)
    BY <1>1, <1>2 DEF Range
  <2>2. Head(s) \in Range(s) /\ Range(t) \subseteq Range(s)
    BY <1>1 DEF Range
  <2> QED BY <2>1, <2>2
<1>4. ASSUME IsInjective(s)
      PROVE  IsInjective(t) /\ Head(s) \notin Range(t)
  <2>1. ASSUME NEW i \in DOMAIN t, NEW j \in DOMAIN t, t[i] = t[j]
        PROVE  i = j
    <3>1. i + 1 \in DOMAIN s /\ j + 1 \in DOMAIN s /\ s[i + 1] = s[j + 1]
      BY <2>1, <1>1
    <3>2. i + 1 = j + 1
      BY <3>1, <1>4 DEF IsInjective
    <3> QED BY <3>2, <1>1
  <2>2. Head(s) \notin Range(t)
    BY <1>1, <1>4 DEF IsInjective, Range
  <2> QED BY <2>1, <2>2 DEF IsInjective
<1> QED BY <1>1, <1>3, <1>4 DEF t

\* The empty list.
LEMMA EmptyFacts ==
  /\ Range(<<>>) = {}
  /\ IsInjective(<<>>)
  /\ \A S : <<>> \in Seq(S)
BY DEF Range, IsInjective

-----------------------------------------------------------------------------
(* The inductive invariant.                                                *)

\* The registrations that asked for outcome k.
Wanting(k) == {r \in Registration : k \in want[r]}

\* Until the promise is settled nothing runs between two steps, and the two
\* lists are exactly the registrations, without repetition.
PendingInv ==
  outcome = "pending" =>
    /\ holder = NoThread
    /\ log = <<>> /\ due = <<>>
    /\ Range(onResolve) = Wanting("resolved")
    /\ Range(onReject) = Wanting("rejected")
    /\ IsInjective(onResolve) /\ IsInjective(onReject)

\* Afterwards the calls made and the calls due are disjoint, and together are
\* exactly the registrations that asked for the outcome.
SettledInv ==
  outcome # "pending" =>
    /\ Range(log) \cup Range(due) = Wanting(outcome)
    /\ Range(log) \cap Range(due) = {}

\* The lock is held while the loop has work or a callback runs.
LockInv ==
  /\ due # <<>> => settling
  /\ holder = NoThread => ~settling /\ running = <<>>

IndInv ==
  /\ TypeOK
  /\ IsInjective(log) /\ IsInjective(due)
  /\ PendingInv
  /\ SettledInv
  /\ LockInv

LEMMA InitIndInv == Init => IndInv
BY EmptyFacts
   DEF Init, IndInv, TypeOK, PendingInv, SettledInv, LockInv, Wanting, Outcome

LEMMA SettleIndInv ==
  ASSUME IndInv, NEW t \in Thread, NEW k \in Outcome, Settle(t, k)
  PROVE  IndInv'
<1>1. CASE outcome # "pending"
  BY <1>1 DEF Settle, IndInv, TypeOK, PendingInv, SettledInv, LockInv, Wanting, vars
<1>2. CASE outcome = "pending"
  <2> USE <1>2 DEF Settle
  <2>1. TypeOK'
    BY DEF IndInv, TypeOK, ListFor
  <2>2. Range(due') = Wanting(k) /\ IsInjective(due')
    BY DEF IndInv, PendingInv, ListFor, Outcome
  <2>3. IsInjective(log') /\ Range(log') = {}
    BY EmptyFacts DEF IndInv, PendingInv
  <2>4. PendingInv' /\ SettledInv'
    BY <2>2, <2>3 DEF PendingInv, SettledInv, Outcome, Wanting
  <2>5. LockInv'
    BY NoThreadAssumption DEF LockInv
  <2> QED BY <2>1, <2>2, <2>3, <2>4, <2>5 DEF IndInv
<1> QED BY <1>1, <1>2

LEMMA CallNextIndInv ==
  ASSUME IndInv, NEW t \in Thread, CallNext(t)
  PROVE  IndInv'
<1> USE DEF CallNext
<1>1. due \in Seq(Registration) /\ due # <<>> /\ log \in Seq(Registration)
  BY DEF IndInv, TypeOK
<1> DEFINE r == Head(due)
<1>2. /\ r \in Registration /\ due' \in Seq(Registration)
      /\ Range(due) = {r} \cup Range(due')
      /\ IsInjective(due') /\ r \notin Range(due')
  BY <1>1, TakeFirst DEF IndInv
<1>3. outcome # "pending" /\ r \notin Range(log)
  BY <1>2 DEF IndInv, PendingInv, SettledInv
<1>4. /\ log' \in Seq(Registration) /\ Range(log') = Range(log) \cup {r}
      /\ IsInjective(log')
  BY <1>1, <1>2, <1>3, AppendLast DEF IndInv
<1>5. TypeOK'
  BY <1>2, <1>4 DEF IndInv, TypeOK
<1>6. PendingInv'
  BY <1>3 DEF PendingInv
<1>7. SettledInv'
  BY <1>2, <1>3, <1>4 DEF IndInv, SettledInv, Wanting
<1>8. LockInv'
  BY NoThreadAssumption DEF IndInv, LockInv
<1> QED BY <1>2, <1>4, <1>5, <1>6, <1>7, <1>8 DEF IndInv

LEMMA FinishSettlingIndInv ==
  ASSUME IndInv, NEW t \in Thread, FinishSettling(t)
  PROVE  IndInv'
<1>1. TypeOK' /\ LockInv'
  BY DEF FinishSettling, IndInv, TypeOK, LockInv
<1>2. PendingInv' /\ SettledInv'
  BY NoThreadAssumption
  DEF FinishSettling, IndInv, PendingInv, SettledInv, Wanting
<1> QED BY <1>1, <1>2 DEF FinishSettling, IndInv

LEMMA CallbackReturnsIndInv ==
  ASSUME IndInv, NEW t \in Thread, CallbackReturns(t)
  PROVE  IndInv'
<1>1. running' \in Seq(Registration)
  BY TakeFirst DEF CallbackReturns, IndInv, TypeOK
<1>2. TypeOK' /\ LockInv'
  BY <1>1, NoThreadAssumption DEF CallbackReturns, IndInv, TypeOK, LockInv
<1>3. PendingInv' /\ SettledInv'
  BY NoThreadAssumption
  DEF CallbackReturns, IndInv, PendingInv, SettledInv, Wanting
<1> QED BY <1>2, <1>3 DEF CallbackReturns, IndInv

\* The three registering methods in one: a request for the outcomes in kinds
\* is answered at once if one of them is set, listed for each of them if the
\* promise is pending, and dropped otherwise.
LEMMA RegisterCases ==
  ASSUME NEW t \in Thread, NEW r \in Registration, Register(t, r), IndInv
  PROVE  \E kinds \in SUBSET Outcome :
           /\ CanEnter(t) /\ kinds # {} /\ want[r] = {}
           /\ want' = [want EXCEPT ![r] = kinds]
           /\ UNCHANGED <<outcome, settling, due>>
           /\ onResolve' = IF outcome = "pending" /\ "resolved" \in kinds
                             THEN <<r>> \o onResolve ELSE onResolve
           /\ onReject' = IF outcome = "pending" /\ "rejected" \in kinds
                            THEN <<r>> \o onReject ELSE onReject
           /\ IF outcome \in kinds
                THEN CallAtOnce(t, r) ELSE UNCHANGED <<holder, running, log>>
<1> USE DEF Outcome
<1>0. outcome \in {"pending", "resolved", "rejected"}
  BY DEF IndInv, TypeOK
<1>1. CASE OnResolve(t, r)
  <2> WITNESS {"resolved"} \in SUBSET Outcome
  <2> QED BY <1>0, <1>1 DEF OnResolve
<1>2. CASE OnReject(t, r)
  <2> WITNESS {"rejected"} \in SUBSET Outcome
  <2> QED BY <1>0, <1>2 DEF OnReject
<1>3. CASE OnSet(t, r)
  <2> WITNESS Outcome \in SUBSET Outcome
  <2> QED BY <1>0, <1>3 DEF OnSet
<1> QED BY <1>1, <1>2, <1>3 DEF Register

LEMMA RegisterIndInv ==
  ASSUME IndInv, NEW t \in Thread, NEW r \in Registration, Register(t, r)
  PROVE  IndInv'
<1> PICK kinds \in SUBSET Outcome :
       /\ CanEnter(t) /\ kinds # {} /\ want[r] = {}
       /\ want' = [want EXCEPT ![r] = kinds]
       /\ UNCHANGED <<outcome, settling, due>>
       /\ onResolve' = IF outcome = "pending" /\ "resolved" \in kinds
                         THEN <<r>> \o onResolve ELSE onResolve
       /\ onReject' = IF outcome = "pending" /\ "rejected" \in kinds
                        THEN <<r>> \o onReject ELSE onReject
       /\ IF outcome \in kinds
            THEN CallAtOnce(t, r) ELSE UNCHANGED <<holder, running, log>>
  BY RegisterCases
<1>1. /\ outcome \in {"pending", "resolved", "rejected"} /\ kinds \subseteq {"resolved", "rejected"}
      /\ onResolve \in Seq(Registration) /\ onReject \in Seq(Registration)
      /\ log \in Seq(Registration) /\ running \in Seq(Registration)
      /\ want \in [Registration -> SUBSET Outcome]
  BY DEF IndInv, TypeOK, Outcome
<1>2. \A k : Wanting(k)' = IF k \in kinds THEN Wanting(k) \cup {r} ELSE Wanting(k)
  BY <1>1 DEF Wanting
<1>3. \A k : r \notin Wanting(k)
  BY DEF Wanting
<1>4. CASE outcome = "pending"
  <2>1. UNCHANGED <<holder, running, log>> /\ outcome' = "pending"
    BY <1>1, <1>4
  <2>2. r \notin Range(onResolve) /\ r \notin Range(onReject)
    BY <1>3, <1>4 DEF IndInv, PendingInv
  <2>3. /\ onResolve' \in Seq(Registration) /\ IsInjective(onResolve')
        /\ Range(onResolve') = Wanting("resolved")'
    <3>1. CASE "resolved" \in kinds
      <4>1. onResolve' = <<r>> \o onResolve
        BY <3>1, <1>4
      <4>2. IsInjective(onResolve) /\ Range(onResolve) = Wanting("resolved")
        BY <1>4 DEF IndInv, PendingInv
      <4>3. /\ <<r>> \o onResolve \in Seq(Registration)
            /\ Range(<<r>> \o onResolve) = {r} \cup Range(onResolve)
            /\ IsInjective(<<r>> \o onResolve)
        BY <1>1, <2>2, <4>2, PushFront
      <4> QED BY <3>1, <1>2, <4>1, <4>2, <4>3
    <3>2. CASE "resolved" \notin kinds
      BY <3>2, <1>1, <1>2, <1>4 DEF IndInv, PendingInv
    <3> QED BY <3>1, <3>2
  <2>4. /\ onReject' \in Seq(Registration) /\ IsInjective(onReject')
        /\ Range(onReject') = Wanting("rejected")'
    <3>1. CASE "rejected" \in kinds
      <4>1. onReject' = <<r>> \o onReject
        BY <3>1, <1>4
      <4>2. IsInjective(onReject) /\ Range(onReject) = Wanting("rejected")
        BY <1>4 DEF IndInv, PendingInv
      <4>3. /\ <<r>> \o onReject \in Seq(Registration)
            /\ Range(<<r>> \o onReject) = {r} \cup Range(onReject)
            /\ IsInjective(<<r>> \o onReject)
        BY <1>1, <2>2, <4>2, PushFront
      <4> QED BY <3>1, <1>2, <4>1, <4>2, <4>3
    <3>2. CASE "rejected" \notin kinds
      BY <3>2, <1>1, <1>2, <1>4 DEF IndInv, PendingInv
    <3> QED BY <3>1, <3>2
  <2>5. TypeOK'
    BY <2>1, <2>3, <2>4, <1>1 DEF IndInv, TypeOK
  <2>6. PendingInv' /\ SettledInv' /\ LockInv'
    BY <2>1, <2>3, <2>4, <1>4 DEF IndInv, PendingInv, SettledInv, LockInv
  <2> QED BY <2>1, <2>5, <2>6 DEF IndInv
<1>5. CASE outcome # "pending" /\ outcome \in kinds
  <2>1. r \notin Range(log) /\ r \notin Range(due)
    BY <1>3, <1>5 DEF IndInv, SettledInv
  <2>2. /\ log' \in Seq(Registration) /\ Range(log') = Range(log) \cup {r}
        /\ IsInjective(log') /\ holder' = t
    <3>1. log' = Append(log, r) /\ holder' = t
      BY <1>5 DEF CallAtOnce
    <3>2. /\ Append(log, r) \in Seq(Registration)
          /\ Range(Append(log, r)) = Range(log) \cup {r}
          /\ IsInjective(Append(log, r))
      BY <1>1, <2>1, AppendLast DEF IndInv
    <3> QED BY <3>1, <3>2
  <2>3. running' \in Seq(Registration)
    <3>1. running' = <<r>> \o running
      BY <1>5 DEF CallAtOnce
    <3>2. <<r>> \o running \in Seq(Registration)
      BY <1>1, PushFront
    <3> QED BY <3>1, <3>2
  <2>4. TypeOK'
    BY <1>1, <1>5, <2>2, <2>3 DEF IndInv, TypeOK
  <2>5. PendingInv' /\ LockInv'
    BY <1>5, <2>2, NoThreadAssumption DEF IndInv, PendingInv, LockInv
  <2>6. SettledInv'
    BY <1>2, <1>5, <2>1, <2>2 DEF IndInv, SettledInv
  <2> QED BY <2>2, <2>4, <2>5, <2>6 DEF IndInv
<1>6. CASE outcome # "pending" /\ outcome \notin kinds
  <2>1. TypeOK'
    BY <1>1, <1>6 DEF IndInv, TypeOK
  <2>2. PendingInv' /\ LockInv'
    BY <1>6 DEF IndInv, PendingInv, LockInv
  <2>3. SettledInv'
    BY <1>2, <1>6 DEF IndInv, SettledInv
  <2> QED BY <1>6, <2>1, <2>2, <2>3 DEF IndInv
<1> QED BY <1>4, <1>5, <1>6

LEMMA NextIndInv == IndInv /\ [Next]_vars => IndInv'
<1> SUFFICES ASSUME IndInv, [Next]_vars PROVE IndInv'
  OBVIOUS
<1>1. CASE UNCHANGED vars
  BY <1>1 DEF vars, IndInv, TypeOK, PendingInv, SettledInv, LockInv, Wanting
<1>2. ASSUME NEW t \in Thread, NEW k \in Outcome, Settle(t, k) PROVE IndInv'
  BY <1>2, SettleIndInv
<1>3. ASSUME NEW t \in Thread, NEW r \in Registration, Register(t, r) PROVE IndInv'
  BY <1>3, RegisterIndInv
<1>4. ASSUME NEW t \in Thread, Proceed(t) PROVE IndInv'
  BY <1>4, CallNextIndInv, CallbackReturnsIndInv, FinishSettlingIndInv DEF Proceed
<1> QED BY <1>1, <1>2, <1>3, <1>4 DEF Next

LEMMA InductiveInvariant == Spec => []IndInv
BY InitIndInv, NextIndInv, PTL DEF Spec

\* Every variable keeps its type in every behaviour.
THEOREM TypeCorrect == Spec => []TypeOK
BY InductiveInvariant, PTL DEF IndInv

\* No callback is ever called twice, whichever threads race to settle the
\* promise and whatever the callbacks register while they run.
THEOREM NeverCalledTwice == Spec => []CalledAtMostOnce
<1>1. IndInv => CalledAtMostOnce
  BY DEF IndInv, CalledAtMostOnce
<1> QED BY <1>1, InductiveInvariant, PTL

\* A callback is called only once its outcome is set.
THEOREM NeverCalledInVain == Spec => []CalledOnlyIfWanted
<1>1. IndInv => CalledOnlyIfWanted
  <2> SUFFICES ASSUME IndInv, NEW r \in Range(log)
               PROVE  outcome \in want[r]
    BY DEF CalledOnlyIfWanted
  <2>1. outcome # "pending"
    BY EmptyFacts DEF IndInv, PendingInv
  <2> QED BY <2>1 DEF IndInv, SettledInv, Wanting
<1> QED BY <1>1, InductiveInvariant, PTL

\* Whenever the lock is free, every registration that asked for the outcome
\* has been called, whether it came before the outcome or after it.
THEOREM NoneForgotten == Spec => []NobodyForgotten
<1>1. IndInv => NobodyForgotten
  <2> SUFFICES ASSUME IndInv, holder = NoThread,
                      NEW r \in Registration, outcome \in want[r]
               PROVE  r \in Range(log)
    BY DEF NobodyForgotten
  <2>1. outcome # "pending"
    BY DEF IndInv, TypeOK, Outcome
  <2>2. Range(due) = {}
    BY EmptyFacts DEF IndInv, LockInv
  <2> QED BY <2>1, <2>2 DEF IndInv, SettledInv, Wanting
<1> QED BY <1>1, InductiveInvariant, PTL

\* Each callback is called exactly once if the outcome is one it asked for.
THEOREM EachCalledOnce == Spec => []CalledOnce
<1>1. CalledAtMostOnce /\ CalledOnlyIfWanted /\ NobodyForgotten => CalledOnce
  BY DEF CalledOnce
<1> QED BY <1>1, NeverCalledTwice, NeverCalledInVain, NoneForgotten, PTL

------------------------------------------------------------------------------
(* The safety part of the refinement.                                      *)

LEMMA StepImplements == IndInv /\ [Next]_vars => [Contract!Next]_(Contract!vars)
<1> SUFFICES ASSUME IndInv, [Next]_vars PROVE [Contract!Next]_(Contract!vars)
  OBVIOUS
<1> USE DEF Contract!Outcome
<1>1. CASE UNCHANGED vars
  BY <1>1 DEF vars, Contract!vars
<1>2. ASSUME NEW t \in Thread, NEW k \in Outcome, Settle(t, k)
      PROVE  [Contract!Next]_(Contract!vars)
  <2>1. CASE outcome # "pending"
    BY <1>2, <2>1 DEF Settle, vars, Contract!vars
  <2>2. CASE outcome = "pending"
    <3>1. Contract!Settle(k)
      BY <1>2, <2>2 DEF Settle, Contract!Settle
    <3> QED BY <3>1 DEF Contract!Next, Outcome
  <2> QED BY <2>1, <2>2
<1>3. ASSUME NEW t \in Thread, NEW r \in Registration, Register(t, r)
      PROVE  [Contract!Next]_(Contract!vars)
  <2> PICK kinds \in SUBSET Outcome :
         /\ CanEnter(t) /\ kinds # {} /\ want[r] = {}
         /\ want' = [want EXCEPT ![r] = kinds]
         /\ UNCHANGED <<outcome, settling, due>>
         /\ IF outcome \in kinds
              THEN CallAtOnce(t, r) ELSE UNCHANGED <<holder, running, log>>
    BY <1>3, RegisterCases
  <2>0. kinds \in (SUBSET Contract!Outcome) \ {{}}
    BY DEF Outcome
  <2>1. CASE outcome \in kinds
    <3>1. log' = Append(log, r)
      BY <2>1 DEF CallAtOnce
    <3>2. Range(Append(log, r)) = Range(log) \cup {r}
      BY AppendLast DEF IndInv, TypeOK
    <3>3. Contract!RegisterAndTell(r, kinds)
      BY <2>1, <3>1, <3>2 DEF Contract!RegisterAndTell
    <3> QED BY <2>0, <3>3 DEF Contract!Next
  <2>2. CASE outcome \notin kinds
    <3>1. Contract!Register(r, kinds)
      BY <2>2 DEF Contract!Register
    <3> QED BY <2>0, <3>1 DEF Contract!Next
  <2> QED BY <2>1, <2>2
<1>4. ASSUME NEW t \in Thread, CallNext(t)
      PROVE  [Contract!Next]_(Contract!vars)
  <2> DEFINE r == Head(due)
  <2>1. due \in Seq(Registration) /\ due # <<>> /\ log \in Seq(Registration)
    BY <1>4 DEF CallNext, IndInv, TypeOK
  <2>2. r \in Registration /\ r \in Range(due)
    BY <2>1, TakeFirst
  <2>3. outcome \in want[r] /\ r \notin Range(log)
    BY <2>1, <2>2 DEF IndInv, PendingInv, SettledInv, Wanting
  <2>4. Range(log') = Range(log) \cup {r}
    <3>1. log' = Append(log, r)
      BY <1>4 DEF CallNext
    <3>2. Range(Append(log, r)) = Range(log) \cup {r}
      BY <2>1, <2>2, AppendLast
    <3> QED BY <3>1, <3>2
  <2>5. Contract!Tell(r)
    BY <1>4, <2>3, <2>4 DEF CallNext, Contract!Tell
  <2> QED BY <2>2, <2>5 DEF Contract!Next
<1>5. ASSUME NEW t \in Thread, CallbackReturns(t) \/ FinishSettling(t)
      PROVE  [Contract!Next]_(Contract!vars)
  BY <1>5 DEF CallbackReturns, FinishSettling, Contract!vars
<1> QED BY <1>1, <1>2, <1>3, <1>4, <1>5 DEF Next, Proceed

\* The lock, the two lists and the loop implement the contract: a promise takes
\* one outcome, once, and calls exactly the registrations it owes a call to.
THEOREM RefinesContract == Spec => Contract!Safety
<1>1. Init => Contract!Init
  BY EmptyFacts DEF Init, Contract!Init
<1> QED BY <1>1, StepImplements, InductiveInvariant, PTL DEF Spec, Contract!Safety

------------------------------------------------------------------------------
(* The demonstration, module Credentials: what its windows go on to use is *)
(* there, and each of its promises is a Promise.                           *)

\* The promise of a dialog, whatever became of it.
DemoPromise ==
  [outcome : {"pending", "resolved", "rejected"}, onResolve : Seq(Callback), onReject : Seq(Callback),
   holder : WindowThread \cup {None}, settling : BOOLEAN, due : Seq(Callback), running : Seq(Callback),
   want : [Callback -> SUBSET {"resolved", "rejected"}], log : Seq(Callback)]
DemoTypes ==
  /\ prom \in [Dialog -> DemoPromise]
  /\ appQ \in Seq({"request", "cancel"}) /\ dlgQ \in [Dialog -> Seq({"login", "quit"})]
  /\ appPc \in {"idle", "register", "cancel", "settle", "crashed"}
  /\ appAt \in Dialog \cup {None} /\ fPromise \in Dialog \cup {None} /\ nextReg \in 1..5
  /\ requestEnabled \in BOOLEAN /\ cancelEnabled \in BOOLEAN /\ fResolved \in [Dialog -> BOOLEAN]
  /\ dlgPc \in [Dialog -> {"none", "idle", "resolve", "reject", "settle", "settleAndQuit", "closed"}]

\* The lock of a promise is held by who settles it, or by TestWindow, which
\* registers callbacks and has one of them called at once.
LockOf(d) ==
  LET p == prom[d] IN
  /\ p.due # <<>> => p.settling
  /\ p.settling \/ p.running # <<>> => p.outcome # "pending"
  /\ p.holder = None <=> ~p.settling /\ p.running = <<>>
  /\ p.running # <<>> => \E c \in Callback : p.running = <<c>> /\ c \in Range(p.log) /\ (c = "quit" => p.settling)
  /\ p.holder \in Dialog => p.holder = d /\ p.settling /\ dlgPc[d] \in {"settle", "settleAndQuit"}
  /\ p.holder = App => appAt = d /\ appPc = IF p.settling THEN "settle" ELSE "register"
LocksInv == \A d \in Dialog : LockOf(d)

\* A dialog is deleted only after its promise has been settled, and all that
\* were to be told have been called: this is what fResolved is for.
DialogOf(d) ==
  /\ dlgPc[d] = "none" => prom[d] = NewPromise /\ ~fResolved[d]
  /\ dlgPc[d] = "resolve" => fResolved[d]
  /\ dlgPc[d] \in {"reject", "settleAndQuit"} => ~fResolved[d]
  /\ dlgPc[d] = "closed" \/ (dlgPc[d] = "idle" /\ fResolved[d]) =>
       prom[d].outcome # "pending" /\ ~prom[d].settling
DialogInv == \A d \in Dialog : DialogOf(d)

\* What TestWindow works on is the promise of a dialog it has made, the one in
\* fPromise when it cancels, and a callback is registered once.
Updated == \E d \in Dialog : prom[d].outcome # "pending" /\ Range(prom[d].log) \cap Update # {}
AppInv ==
  /\ appPc \in {"register", "cancel", "settle"} => appAt \in Dialog /\ dlgPc[appAt] # "none"
  /\ appPc = "register" => \A i \in nextReg..4 : prom[appAt].want[AppCallbacks[i]] = {}
  /\ appPc = "cancel" => fPromise = appAt
  /\ fPromise # None => dlgPc[fPromise] # "none"
  /\ cancelEnabled => fPromise # None
  /\ "cancel" \in Range(appQ) /\ fPromise = None => Updated
  /\ appPc = "crashed" => Updated

DemoInv == DemoTypes /\ LocksInv /\ DialogInv /\ AppInv

\* What a step does to one promise leaves the others alone.
Only(d) == \A e \in Dialog : e # d => prom'[e] = prom[e]

DemoOutcome == {"resolved", "rejected"}

LEMMA DemoNames ==
  /\ Callback = {"quit", "printResolved", "updateResolved", "printRejected", "updateRejected"}
  /\ \A i \in 1..4 : AppCallbacks[i] \in Callback \ {"quit"}
  /\ Len(AppCallbacks) = 4
  /\ \A i \in 1..4, j \in 1..4 : AppCallbacks[i] = AppCallbacks[j] => i = j
<1>1. DOMAIN AppCallbacks = 1..4 /\ Len(AppCallbacks) = 4
  BY DEF AppCallbacks
<1>2. /\ AppCallbacks[1] = "printResolved" /\ AppCallbacks[2] = "updateResolved"
      /\ AppCallbacks[3] = "printRejected" /\ AppCallbacks[4] = "updateRejected"
  BY DEF AppCallbacks
<1>3. Range(AppCallbacks) = {"printResolved", "updateResolved", "printRejected", "updateRejected"}
  BY <1>1, <1>2 DEF Range
<1>4. Callback = {"quit"} \cup Range(AppCallbacks)
  BY DEF Callback
<1> QED BY <1>1, <1>2, <1>3, <1>4

\* Resolve or Reject begins.
Started(t, d, k) ==
  /\ prom' \in [Dialog -> DemoPromise] /\ Only(d)
  /\ prom[d].holder = None /\ prom[d].outcome = "pending"
  /\ prom'[d].outcome = k /\ prom'[d].holder = t /\ prom'[d].settling = TRUE
  /\ prom'[d].due = IF k = "resolved" THEN prom[d].onResolve ELSE prom[d].onReject
  /\ prom'[d].onResolve = prom[d].onResolve /\ prom'[d].onReject = prom[d].onReject
  /\ prom'[d].running = prom[d].running /\ prom'[d].want = prom[d].want /\ prom'[d].log = prom[d].log

LEMMA StartSettlingDoes ==
  ASSUME DemoTypes, NEW t \in WindowThread, NEW d \in Dialog, NEW k \in DemoOutcome, StartSettling(t, d, k)
  PROVE  Started(t, d, k)
<1> DEFINE p == prom[d]
           list == IF k = "resolved" THEN p.onResolve ELSE p.onReject
           new == [p EXCEPT !.outcome = k, !.holder = t, !.settling = TRUE, !.due = list]
<1>1. p \in DemoPromise /\ list \in Seq(Callback)
  BY DEF DemoTypes, DemoPromise
<1>2. prom' = [prom EXCEPT ![d] = new]
  BY DEF StartSettling, DemoTypes
<1>3. p.holder = None /\ p.outcome = "pending"
  BY DEF StartSettling, Free
<1> HIDE DEF list
<1>4. new \in DemoPromise
  BY <1>1 DEF DemoPromise, DemoOutcome
<1>5. prom' \in [Dialog -> DemoPromise] /\ Only(d) /\ prom'[d] = new
  BY <1>2, <1>4 DEF DemoTypes, Only
<1>6. /\ new.outcome = k /\ new.holder = t /\ new.settling = TRUE /\ new.due = list
      /\ new.onResolve = p.onResolve /\ new.onReject = p.onReject
      /\ new.running = p.running /\ new.want = p.want /\ new.log = p.log
  BY <1>1 DEF DemoPromise
<1> HIDE DEF new
<1> QED BY <1>3, <1>5, <1>6 DEF list, Started

\* Its loop reaches an item.
Called(t, d) ==
  /\ prom' \in [Dialog -> DemoPromise] /\ Only(d)
  /\ prom[d].holder = t /\ prom[d].settling /\ prom[d].running = <<>> /\ prom[d].due # <<>>
  /\ Head(prom[d].due) \in Callback
  /\ prom'[d].running = <<Head(prom[d].due)>> /\ prom'[d].due = Tail(prom[d].due)
  /\ prom'[d].log = Append(prom[d].log, Head(prom[d].due))
  /\ Range(prom'[d].log) = Range(prom[d].log) \cup {Head(prom[d].due)}
  /\ prom'[d].outcome = prom[d].outcome /\ prom'[d].holder = prom[d].holder /\ prom'[d].settling = prom[d].settling
  /\ prom'[d].onResolve = prom[d].onResolve /\ prom'[d].onReject = prom[d].onReject
  /\ prom'[d].want = prom[d].want

LEMMA CallNextDoes ==
  ASSUME DemoTypes, NEW t \in WindowThread, NEW d \in Dialog, CallDue(t, d)
  PROVE  Called(t, d)
<1> DEFINE p == prom[d]
           head == Head(p.due)
           new == [p EXCEPT !.running = <<head>>, !.due = Tail(p.due), !.log = Append(p.log, head)]
<1>1. p \in DemoPromise
  BY DEF DemoTypes
<1>2. p.due \in Seq(Callback) /\ p.due # <<>> /\ p.log \in Seq(Callback)
  BY <1>1 DEF DemoPromise, CallDue
<1>3. head \in Callback /\ Tail(p.due) \in Seq(Callback)
  BY <1>2, TakeFirst
<1>4. Append(p.log, head) \in Seq(Callback) /\ Range(Append(p.log, head)) = Range(p.log) \cup {head}
  BY <1>2, <1>3, AppendLast
<1>5. <<head>> \in Seq(Callback)
  BY <1>3
<1>6. prom' = [prom EXCEPT ![d] = new]
  BY DEF CallDue, DemoTypes
<1> HIDE DEF head
<1>7. new \in DemoPromise
  BY <1>1, <1>3, <1>4, <1>5 DEF DemoPromise
<1>8. prom' \in [Dialog -> DemoPromise] /\ Only(d) /\ prom'[d] = new
  BY <1>6, <1>7 DEF DemoTypes, Only
<1>9. /\ new.running = <<head>> /\ new.due = Tail(p.due) /\ new.log = Append(p.log, head)
      /\ new.outcome = p.outcome /\ new.holder = p.holder /\ new.settling = p.settling
      /\ new.onResolve = p.onResolve /\ new.onReject = p.onReject /\ new.want = p.want
  BY <1>1 DEF DemoPromise
<1>10. p.holder = t /\ p.settling /\ p.running = <<>>
  BY DEF CallDue
<1> HIDE DEF new
<1> QED BY <1>2, <1>3, <1>4, <1>8, <1>9, <1>10 DEF head, Called

\* A callback returns, and with it the lock unless the loop goes on.
Returned(d) ==
  /\ prom' \in [Dialog -> DemoPromise] /\ Only(d)
  /\ prom'[d].running = <<>> /\ prom'[d].holder = IF prom[d].settling THEN prom[d].holder ELSE None
  /\ prom'[d].due = prom[d].due /\ prom'[d].log = prom[d].log
  /\ prom'[d].outcome = prom[d].outcome /\ prom'[d].settling = prom[d].settling
  /\ prom'[d].onResolve = prom[d].onResolve /\ prom'[d].onReject = prom[d].onReject
  /\ prom'[d].want = prom[d].want

LEMMA CallbackReturnsDoes ==
  ASSUME DemoTypes, NEW d \in Dialog, CallbackEnds(d)
  PROVE  Returned(d)
<1>1. <<>> \in Seq(Callback)
  BY EmptyFacts
<1> DEFINE p == prom[d]
           keeper == IF p.settling THEN p.holder ELSE None
           new == [p EXCEPT !.running = <<>>, !.holder = keeper]
<1>2. p \in DemoPromise
  BY DEF DemoTypes
<1>3. prom' = [prom EXCEPT ![d] = new]
  BY <1>2 DEF CallbackEnds, DemoTypes, DemoPromise
<1>4. keeper \in WindowThread \cup {None}
  BY <1>2 DEF DemoPromise
<1> HIDE DEF keeper
<1>5. /\ new \in DemoPromise /\ new.running = <<>> /\ new.holder = keeper
      /\ new.due = p.due /\ new.log = p.log /\ new.outcome = p.outcome /\ new.settling = p.settling
      /\ new.onResolve = p.onResolve /\ new.onReject = p.onReject /\ new.want = p.want
  BY <1>1, <1>2, <1>4 DEF DemoPromise
<1> HIDE DEF new
<1>6. prom' \in [Dialog -> DemoPromise] /\ Only(d) /\ prom'[d] = new
  BY <1>3, <1>5 DEF DemoTypes, Only
<1> QED BY <1>5, <1>6 DEF keeper, Returned

\* The loop is over.
Done(t, d) ==
  /\ prom' \in [Dialog -> DemoPromise] /\ Only(d)
  /\ prom[d].holder = t /\ prom[d].settling /\ prom[d].running = <<>> /\ prom[d].due = <<>>
  /\ prom'[d].running = prom[d].running /\ prom'[d].holder = None /\ prom'[d].settling = FALSE
  /\ prom'[d].due = prom[d].due /\ prom'[d].log = prom[d].log
  /\ prom'[d].outcome = prom[d].outcome
  /\ prom'[d].onResolve = prom[d].onResolve /\ prom'[d].onReject = prom[d].onReject
  /\ prom'[d].want = prom[d].want

LEMMA SettlingDoneDoes ==
  ASSUME DemoTypes, NEW t \in WindowThread, NEW d \in Dialog, SettlingDone(t, d)
  PROVE  Done(t, d)
BY DEF DemoTypes, DemoPromise, Only, SettlingDone, Done

\* TestWindow makes a dialog, with the promise that its constructor made.
LEMMA ReceiveRequestDoes ==
  ASSUME DemoInv, ReceiveRequest
  PROVE  \E d \in Dialog :
           /\ prom' \in [Dialog -> DemoPromise] /\ Only(d)
           /\ prom[d] = NewPromise /\ prom'[d] = DialogPromise
           /\ dlgPc[d] = "none" /\ dlgPc' = [dlgPc EXCEPT ![d] = "idle"]
           /\ fPromise' = d /\ appAt' = d
<1>1. PICK d \in Dialog :
        /\ dlgPc[d] = "none" /\ prom' = [prom EXCEPT ![d] = DialogPromise]
        /\ dlgPc' = [dlgPc EXCEPT ![d] = "idle"] /\ fPromise' = d /\ appAt' = d
  BY DEF ReceiveRequest
<1>2. <<>> \in Seq(Callback) /\ <<"quit">> \in Seq(Callback) /\ "quit" \in Callback
  BY DemoNames, EmptyFacts
<1>3. NewPromise \in DemoPromise
  BY <1>2 DEF NewPromise, DemoPromise
<1>4. [NewPromise.want EXCEPT !["quit"] = {"resolved", "rejected"}] \in [Callback -> SUBSET {"resolved", "rejected"}]
  BY <1>2 DEF NewPromise
<1>5. DialogPromise = [NewPromise EXCEPT !.onResolve = <<"quit">>, !.onReject = <<"quit">>,
                           !.want = [NewPromise.want EXCEPT !["quit"] = {"resolved", "rejected"}]]
  BY <1>3 DEF DialogPromise, DemoPromise
<1>6. DialogPromise \in DemoPromise
  BY <1>2, <1>3, <1>4, <1>5 DEF DemoPromise
<1>7. prom[d] = NewPromise
  BY <1>1 DEF DemoInv, DialogInv, DialogOf
<1>8. prom' \in [Dialog -> DemoPromise] /\ Only(d) /\ prom'[d] = DialogPromise
  BY <1>1, <1>6 DEF DemoInv, DemoTypes, Only
<1> QED BY <1>1, <1>7, <1>8

\* TestWindow registers a callback, which is called at once if its outcome is
\* there already.
Registering(d, c, k) ==
  /\ prom[d].want[c] = {} /\ prom[d].holder = None /\ prom[d].running = <<>> /\ ~prom[d].settling
  /\ prom'[d].outcome = prom[d].outcome /\ prom'[d].settling = prom[d].settling /\ prom'[d].due = prom[d].due
  /\ prom'[d].want = [prom[d].want EXCEPT ![c] = {k}]
  /\ prom'[d].onResolve = IF prom[d].outcome = "pending" /\ k = "resolved" THEN <<c>> \o prom[d].onResolve ELSE prom[d].onResolve
  /\ prom'[d].onReject = IF prom[d].outcome = "pending" /\ k = "rejected" THEN <<c>> \o prom[d].onReject ELSE prom[d].onReject
  /\ IF prom[d].outcome = k
        THEN /\ prom'[d].holder = App /\ prom'[d].running = <<c>>
             /\ prom'[d].log = Append(prom[d].log, c) /\ Range(prom'[d].log) = Range(prom[d].log) \cup {c}
        ELSE /\ prom'[d].holder = None /\ prom'[d].running = <<>> /\ prom'[d].log = prom[d].log

LEMMA RegisterNextDoes ==
  ASSUME DemoInv, RegisterNext
  PROVE  /\ appAt \in Dialog /\ nextReg \in 1..4 /\ nextReg' = nextReg + 1
         /\ prom' \in [Dialog -> DemoPromise] /\ Only(appAt)
         /\ \E k \in {"resolved", "rejected"} : Registering(appAt, AppCallbacks[nextReg], k)
<1> DEFINE d == appAt
           c == AppCallbacks[nextReg]
           k == KindOf(c)
           p == prom[d]
           p1 == [p EXCEPT !.want[c] = {k}]
<1>1. appAt \in Dialog /\ nextReg \in 1..4 /\ nextReg' = nextReg + 1 /\ appPc = "register"
  BY DemoNames DEF DemoInv, DemoTypes, AppInv, RegisterNext
<1>2. c \in Callback \ {"quit"} /\ k \in {"resolved", "rejected"}
  BY <1>1, DemoNames DEF KindOf
<1>3. p \in DemoPromise /\ p.want[c] = {} /\ p.holder = None /\ p.running = <<>> /\ ~p.settling
  <2>1. p \in DemoPromise /\ p.holder = None
    BY <1>1 DEF DemoInv, DemoTypes, RegisterNext, Free
  <2>2. p.running = <<>> /\ ~p.settling
    BY <1>1, <2>1 DEF DemoInv, LocksInv, LockOf
  <2>3. nextReg \in nextReg..4
    BY <1>1
  <2>4. p.want[c] = {}
    BY <1>1, <2>3 DEF DemoInv, AppInv
  <2> QED BY <2>1, <2>2, <2>4
<1> DEFINE new == IF p.outcome = k THEN [p1 EXCEPT !.holder = App, !.running = <<c>>, !.log = Append(@, c)]
                  ELSE IF p.outcome # "pending" THEN p1
                  ELSE IF k = "resolved" THEN [p1 EXCEPT !.onResolve = <<c>> \o @]
                  ELSE [p1 EXCEPT !.onReject = <<c>> \o @]
<1>4. prom' = [prom EXCEPT ![d] = new]
  BY DEF RegisterNext
<1> HIDE DEF c, k
<1>5. /\ p1 \in DemoPromise /\ p1.want = [p.want EXCEPT ![c] = {k}]
      /\ p1.outcome = p.outcome /\ p1.settling = p.settling /\ p1.due = p.due /\ p1.onResolve = p.onResolve
      /\ p1.onReject = p.onReject /\ p1.holder = p.holder /\ p1.running = p.running /\ p1.log = p.log
  BY <1>2, <1>3 DEF DemoPromise
<1> HIDE DEF p1
<1>6. /\ <<c>> \in Seq(Callback)
      /\ Append(p.log, c) \in Seq(Callback) /\ Range(Append(p.log, c)) = Range(p.log) \cup {c}
      /\ <<c>> \o p.onResolve \in Seq(Callback) /\ <<c>> \o p.onReject \in Seq(Callback)
  <2>1. p.log \in Seq(Callback) /\ p.onResolve \in Seq(Callback) /\ p.onReject \in Seq(Callback)
    BY <1>3 DEF DemoPromise
  <2> QED BY <2>1, <1>2, AppendLast, PushFront
<1>7. CASE p.outcome = k
  <2>1. new = [p1 EXCEPT !.holder = App, !.running = <<c>>, !.log = Append(p.log, c)]
    BY <1>5, <1>7
  <2>2. /\ new \in DemoPromise /\ new.holder = App /\ new.running = <<c>> /\ new.log = Append(p.log, c)
        /\ new.want = p1.want /\ new.outcome = p1.outcome /\ new.settling = p1.settling /\ new.due = p1.due
        /\ new.onResolve = p1.onResolve /\ new.onReject = p1.onReject
    BY <1>5, <1>6, <2>1 DEF DemoPromise, WindowThread
  <2> HIDE DEF new
  <2>3. prom' \in [Dialog -> DemoPromise] /\ Only(d) /\ prom'[d] = new
    BY <1>1, <1>4, <2>2 DEF DemoInv, DemoTypes, Only
  <2>4. Registering(d, c, k)
    BY <1>2, <1>3, <1>5, <1>6, <1>7, <2>2, <2>3 DEF Registering
  <2> QED BY <1>1, <1>2, <2>3, <2>4 DEF c
<1>8. CASE p.outcome # k /\ p.outcome # "pending"
  <2>1. new = p1
    BY <1>8
  <2> HIDE DEF new
  <2>3. prom' \in [Dialog -> DemoPromise] /\ Only(d) /\ prom'[d] = p1
    BY <1>1, <1>4, <1>5, <2>1 DEF DemoInv, DemoTypes, Only
  <2>4. Registering(d, c, k)
    BY <1>2, <1>3, <1>5, <1>8, <2>3 DEF Registering
  <2> QED BY <1>1, <1>2, <2>3, <2>4 DEF c
<1>9. CASE p.outcome = "pending"
  <2>1. new = IF k = "resolved" THEN [p1 EXCEPT !.onResolve = <<c>> \o p.onResolve] ELSE [p1 EXCEPT !.onReject = <<c>> \o p.onReject]
    BY <1>2, <1>5, <1>9
  <2>2. /\ new \in DemoPromise /\ new.holder = p1.holder /\ new.running = p1.running /\ new.log = p1.log
        /\ new.want = p1.want /\ new.outcome = p1.outcome /\ new.settling = p1.settling /\ new.due = p1.due
        /\ new.onResolve = IF k = "resolved" THEN <<c>> \o p.onResolve ELSE p1.onResolve
        /\ new.onReject = IF k = "resolved" THEN p1.onReject ELSE <<c>> \o p.onReject
    BY <1>5, <1>6, <2>1 DEF DemoPromise
  <2> HIDE DEF new
  <2>3. prom' \in [Dialog -> DemoPromise] /\ Only(d) /\ prom'[d] = new
    BY <1>1, <1>4, <2>2 DEF DemoInv, DemoTypes, Only
  <2>4. Registering(d, c, k)
    BY <1>2, <1>3, <1>5, <1>9, <2>2, <2>3 DEF Registering
  <2> QED BY <1>1, <1>2, <2>3, <2>4 DEF c
<1> QED BY <1>7, <1>8, <1>9

------------------------------------------------------------------------------
(* The steps of the demonstration.                                         *)

LEMMA InitDemoInv == DemoInit => DemoInv
<1> SUFFICES ASSUME DemoInit PROVE DemoInv
  OBVIOUS
<1>1. NewPromise \in DemoPromise
  BY EmptyFacts DEF NewPromise, DemoPromise
<1>2. \A S : <<>> \in Seq(S)
  BY EmptyFacts
<1>3. DemoTypes
  <2>1. prom \in [Dialog -> DemoPromise]
    BY <1>1 DEF DemoInit
  <2>2. appQ \in Seq({"request", "cancel"}) /\ dlgQ \in [Dialog -> Seq({"login", "quit"})]
    BY <1>2 DEF DemoInit
  <2>3. appPc = "idle" /\ appAt = None /\ fPromise = None /\ nextReg \in 1..5
    BY DEF DemoInit
  <2>4. requestEnabled \in BOOLEAN /\ cancelEnabled \in BOOLEAN /\ fResolved \in [Dialog -> BOOLEAN]
    BY DEF DemoInit
  <2>5. dlgPc \in [Dialog -> {"none", "idle", "resolve", "reject", "settle", "settleAndQuit", "closed"}]
    BY DEF DemoInit
  <2> QED BY <2>1, <2>2, <2>3, <2>4, <2>5 DEF DemoTypes
<1>4. LocksInv /\ DialogInv
  BY CredentialsAssumption DEF DemoInit, LocksInv, LockOf, DialogInv, DialogOf, NewPromise
<1>5. AppInv
  BY EmptyFacts DEF DemoInit, AppInv
<1> QED BY <1>3, <1>4, <1>5 DEF DemoInv

\* An update that has been called has been called for good.
LEMMA UpdatedStays ==
  ASSUME Updated, \A d \in Dialog : /\ prom[d].outcome # "pending" => prom'[d].outcome # "pending"
                                    /\ Range(prom[d].log) \subseteq Range(prom'[d].log)
  PROVE  Updated'
BY DEF Updated, Update

\* What does not touch the variables of TestWindow.
LEMMA AppKept ==
  ASSUME DemoInv, UNCHANGED <<appQ, appPc, appAt, nextReg, fPromise, cancelEnabled>>, Updated => Updated',
         \A d \in Dialog : /\ prom'[d].want = prom[d].want
                           /\ dlgPc[d] # "none" => dlgPc'[d] # "none"
  PROVE  AppInv'
<1>1. fPromise \in Dialog \cup {None}
  BY DEF DemoInv, DemoTypes
<1>2. appPc \in {"register", "cancel", "settle"} => appAt \in Dialog /\ dlgPc'[appAt] # "none"
  BY DEF DemoInv, AppInv
<1>3. appPc = "register" => \A i \in nextReg..4 : prom'[appAt].want[AppCallbacks[i]] = {}
  BY <1>2 DEF DemoInv, AppInv
<1>4. fPromise # None => dlgPc'[fPromise] # "none"
  BY <1>1 DEF DemoInv, AppInv
<1> QED BY <1>2, <1>3, <1>4 DEF DemoInv, AppInv, AppCallbacks

\* Item by item, the callbacks of a promise are called.
LEMMA CallNextKeeps == ASSUME DemoInv, NEW t \in WindowThread, NEW d \in Dialog, CallDue(t, d) PROVE DemoInv'
<1>1. /\ prom' \in [Dialog -> DemoPromise] /\ Only(d)
      /\ prom[d].holder = t /\ prom[d].settling /\ prom[d].due # <<>>
      /\ Head(prom[d].due) \in Callback /\ prom'[d].running = <<Head(prom[d].due)>>
      /\ Range(prom'[d].log) = Range(prom[d].log) \cup {Head(prom[d].due)}
      /\ prom'[d].outcome = prom[d].outcome /\ prom'[d].holder = prom[d].holder /\ prom'[d].settling = prom[d].settling
      /\ prom'[d].want = prom[d].want
  <2>1. DemoTypes
    BY DEF DemoInv
  <2>2. Called(t, d)
    BY <2>1, CallNextDoes
  <2> QED BY <2>2 DEF Called
<1>2. UNCHANGED <<appQ, appPc, appAt, nextReg, fPromise, requestEnabled, cancelEnabled, dlgQ, dlgPc, fResolved>>
  BY DEF CallDue, appVars, dlgVars
<1>3. DemoTypes'
  <2>1. prom' \in [Dialog -> DemoPromise]
    BY <1>1
  <2>2. DemoTypes
    BY DEF DemoInv
  <2> QED BY <1>2, <2>1, <2>2 DEF DemoTypes
<1>4. LocksInv'
  <2> SUFFICES ASSUME NEW e \in Dialog PROVE LockOf(e)'
    BY DEF LocksInv
  <2>1. CASE e = d
    BY <1>1, <1>2, <2>1 DEF DemoInv, LocksInv, LockOf, Callback
  <2>2. CASE e # d
    BY <1>1, <1>2, <2>2 DEF DemoInv, LocksInv, LockOf, Only, Callback
  <2> QED BY <2>1, <2>2
<1>5. DialogInv'
  <2>1. dlgPc[d] # "none"
    BY <1>1 DEF DemoInv, DialogInv, DialogOf, NewPromise
  <2> QED BY <1>1, <1>2, <2>1 DEF DemoInv, DialogInv, DialogOf, Only, NewPromise
<1>6. Updated => Updated'
  BY <1>1, UpdatedStays DEF Only
<1>7. AppInv'
  BY <1>1, <1>2, <1>6, AppKept DEF Only
<1> QED BY <1>3, <1>4, <1>5, <1>7, CredentialsAssumption DEF DemoInv

\* A callback has returned.
LEMMA ReturnKeeps ==
  ASSUME DemoInv, NEW d \in Dialog, CallbackEnds(d), prom[d].running # <<>>,
         UNCHANGED <<appPc, appAt, dlgPc, fResolved>>
  PROVE  /\ prom' \in [Dialog -> DemoPromise] /\ LocksInv' /\ DialogInv'
         /\ \A e \in Dialog : prom'[e].want = prom[e].want
         /\ \A e \in Dialog : prom'[e].outcome = prom[e].outcome /\ prom'[e].log = prom[e].log
         /\ Updated => Updated'
<1>1. /\ prom' \in [Dialog -> DemoPromise] /\ Only(d)
      /\ prom'[d].running = <<>> /\ prom'[d].holder = IF prom[d].settling THEN prom[d].holder ELSE None
      /\ prom'[d].due = prom[d].due /\ prom'[d].log = prom[d].log
      /\ prom'[d].outcome = prom[d].outcome /\ prom'[d].settling = prom[d].settling
      /\ prom'[d].want = prom[d].want
  <2>1. DemoTypes
    BY DEF DemoInv
  <2>2. Returned(d)
    BY <2>1, CallbackReturnsDoes
  <2> QED BY <2>2 DEF Returned
<1>2. LocksInv'
  <2> SUFFICES ASSUME NEW e \in Dialog PROVE LockOf(e)'
    BY DEF LocksInv
  <2>1. CASE e = d
    BY <1>1, <2>1, CredentialsAssumption DEF DemoInv, LocksInv, LockOf
  <2>2. CASE e # d
    BY <1>1, <2>2 DEF DemoInv, LocksInv, LockOf, Only, Callback
  <2> QED BY <2>1, <2>2
<1>3. DialogInv'
  <2>1. dlgPc[d] # "none"
    BY DEF DemoInv, DialogInv, DialogOf, NewPromise
  <2> QED BY <1>1, <2>1 DEF DemoInv, DialogInv, DialogOf, Only, NewPromise
<1>4. \A e \in Dialog : /\ prom'[e].want = prom[e].want
                        /\ prom'[e].outcome = prom[e].outcome /\ prom'[e].log = prom[e].log
  BY <1>1 DEF Only
<1>5. Updated => Updated'
  BY <1>4, UpdatedStays
<1> QED BY <1>1, <1>2, <1>3, <1>4, <1>5

LEMMA PrintCallbackKeeps ==
  ASSUME DemoInv, NEW t \in WindowThread, NEW d \in Dialog, PrintCallback(t, d)
  PROVE  DemoInv'
<1>1. /\ CallbackEnds(d) /\ prom[d].running # <<>>
      /\ UNCHANGED <<appQ, appPc, appAt, nextReg, fPromise, requestEnabled, cancelEnabled, dlgQ, dlgPc, fResolved>>
  BY DEF PrintCallback, Runs, appVars, dlgVars
<1>2. /\ prom' \in [Dialog -> DemoPromise] /\ LocksInv' /\ DialogInv'
      /\ \A e \in Dialog : prom'[e].want = prom[e].want
      /\ Updated => Updated'
  BY <1>1, ReturnKeeps
<1>3. DemoTypes'
  BY <1>1, <1>2 DEF DemoInv, DemoTypes
<1>4. AppInv'
  BY <1>1, <1>2, AppKept
<1> QED BY <1>2, <1>3, <1>4, CredentialsAssumption DEF DemoInv

LEMMA QuitCallbackKeeps ==
  ASSUME DemoInv, NEW t \in WindowThread, NEW d \in Dialog, QuitCallback(t, d)
  PROVE  DemoInv'
<1>1. /\ CallbackEnds(d) /\ prom[d].running # <<>>
      /\ UNCHANGED <<appQ, appPc, appAt, nextReg, fPromise, requestEnabled, cancelEnabled, dlgPc, fResolved>>
      /\ dlgQ' = [dlgQ EXCEPT ![d] = Append(@, "quit")]
  BY DEF QuitCallback, Runs, appVars
<1>2. /\ prom' \in [Dialog -> DemoPromise] /\ LocksInv' /\ DialogInv'
      /\ \A e \in Dialog : prom'[e].want = prom[e].want
      /\ Updated => Updated'
  BY <1>1, ReturnKeeps
<1>3. Append(dlgQ[d], "quit") \in Seq({"login", "quit"})
  BY AppendLast DEF DemoInv, DemoTypes
<1>4. dlgQ' \in [Dialog -> Seq({"login", "quit"})]
  BY <1>1, <1>3 DEF DemoInv, DemoTypes
<1>5. DemoTypes'
  BY <1>1, <1>2, <1>4 DEF DemoInv, DemoTypes
<1>6. AppInv'
  BY <1>1, <1>2, AppKept
<1> QED BY <1>2, <1>5, <1>6, CredentialsAssumption DEF DemoInv

\* An update of TestWindow: it has been called, and nothing is left to cancel.
LEMMA UpdateCallbackKeeps ==
  ASSUME DemoInv, NEW t \in WindowThread, NEW d \in Dialog, UpdateCallback(t, d)
  PROVE  DemoInv'
<1>1. PICK c \in Update : Runs(t, d, c)
  BY DEF UpdateCallback
<1>2. /\ CallbackEnds(d) /\ prom[d].running = <<c>> /\ prom[d].holder = t
      /\ t = App \/ appPc = "idle"
      /\ UNCHANGED <<appQ, appPc, appAt, nextReg, dlgQ, dlgPc, fResolved>>
      /\ fPromise' = None /\ requestEnabled' = TRUE /\ cancelEnabled' = FALSE
  BY <1>1 DEF UpdateCallback, Runs, dlgVars
<1>3. prom[d].running # <<>>
  BY <1>2
<1>4. /\ prom' \in [Dialog -> DemoPromise] /\ LocksInv' /\ DialogInv'
      /\ \A e \in Dialog : prom'[e].want = prom[e].want
      /\ \A e \in Dialog : prom'[e].outcome = prom[e].outcome /\ prom'[e].log = prom[e].log
  BY <1>2, <1>3, ReturnKeeps
<1>5. DemoTypes'
  BY <1>2, <1>4 DEF DemoInv, DemoTypes
<1>6. prom[d].outcome # "pending" /\ c \in Range(prom[d].log)
  <2>1. prom[d].outcome # "pending" /\ \E b \in Callback : prom[d].running = <<b>> /\ b \in Range(prom[d].log)
    BY <1>3 DEF DemoInv, LocksInv, LockOf
  <2> QED BY <2>1, <1>2
<1>7. Updated'
  BY <1>4, <1>6 DEF Updated, Update
<1>8. appPc # "cancel"
  BY <1>2 DEF DemoInv, LocksInv, LockOf
<1>9. appPc \in {"register", "cancel", "settle"} => appAt \in Dialog /\ dlgPc[appAt] # "none"
  BY DEF DemoInv, AppInv
<1>10. appPc = "register" => \A i \in nextReg..4 : prom'[appAt].want[AppCallbacks[i]] = {}
  BY <1>4, <1>9 DEF DemoInv, AppInv
<1>11. AppInv'
  BY <1>2, <1>7, <1>8, <1>9, <1>10 DEF AppInv, AppCallbacks
<1> QED BY <1>4, <1>5, <1>11, CredentialsAssumption DEF DemoInv

\* TestWindow makes a dialog and remembers its promise.
LEMMA ReceiveRequestKeeps == ASSUME DemoInv, ReceiveRequest PROVE DemoInv'
<1>1. PICK d \in Dialog :
           /\ prom' \in [Dialog -> DemoPromise] /\ Only(d)
           /\ prom[d] = NewPromise /\ prom'[d] = DialogPromise
           /\ dlgPc[d] = "none" /\ dlgPc' = [dlgPc EXCEPT ![d] = "idle"]
           /\ fPromise' = d /\ appAt' = d
  BY ReceiveRequestDoes
<1>2. /\ appPc = "idle" /\ appQ # <<>> /\ appQ' = Tail(appQ) /\ appPc' = "register" /\ nextReg' = 1
      /\ requestEnabled' = FALSE /\ cancelEnabled' = TRUE /\ UNCHANGED <<dlgQ, fResolved>>
  BY DEF ReceiveRequest
<1>3. /\ dlgPc'[d] = "idle" /\ \A e \in Dialog : e # d => dlgPc'[e] = dlgPc[e]
      /\ dlgPc' \in [Dialog -> {"none", "idle", "resolve", "reject", "settle", "settleAndQuit", "closed"}]
  BY <1>1 DEF DemoInv, DemoTypes
<1>4. d # None /\ App \notin Dialog
  BY CredentialsAssumption DEF DemoInv
<1>5. Tail(appQ) \in Seq({"request", "cancel"})
  BY <1>2, TakeFirst DEF DemoInv, DemoTypes
<1>6. DemoTypes'
  <2>1. nextReg' \in 1..5 /\ appPc' = "register" /\ appQ' \in Seq({"request", "cancel"})
    BY <1>2, <1>5
  <2>2. appAt' \in Dialog /\ fPromise' \in Dialog /\ requestEnabled' \in BOOLEAN /\ cancelEnabled' \in BOOLEAN
    BY <1>1, <1>2
  <2>3. fResolved' \in [Dialog -> BOOLEAN] /\ dlgQ' \in [Dialog -> Seq({"login", "quit"})]
    BY <1>2 DEF DemoInv, DemoTypes
  <2> QED BY <1>1, <1>3, <2>1, <2>2, <2>3 DEF DemoTypes
<1>7. /\ DialogPromise.holder = None /\ DialogPromise.settling = FALSE /\ DialogPromise.running = <<>>
      /\ DialogPromise.due = <<>> /\ \A i \in 1..4 : DialogPromise.want[AppCallbacks[i]] = {}
  BY DemoNames DEF DialogPromise, NewPromise
<1>8. LocksInv'
  <2> SUFFICES ASSUME NEW e \in Dialog PROVE LockOf(e)'
    BY DEF LocksInv
  <2>1. CASE e = d
    <3>1. /\ prom'[d].holder = None /\ ~prom'[d].settling /\ prom'[d].running = <<>> /\ prom'[d].due = <<>>
      BY <1>1, <1>7
    <3>2. None \notin Dialog /\ None # App
      BY CredentialsAssumption
    <3> QED BY <2>1, <3>1, <3>2 DEF LockOf
  <2>2. CASE e # d
    <3>1. prom'[e] = prom[e] /\ dlgPc'[e] = dlgPc[e] /\ LockOf(e)
      BY <1>1, <1>3, <2>2 DEF Only, DemoInv, LocksInv
    <3>2. prom[e].holder # App
      BY <1>2, <3>1 DEF LockOf
    <3> QED BY <3>1, <3>2 DEF LockOf, Callback
  <2> QED BY <2>1, <2>2
<1>9. DialogInv'
  <2> SUFFICES ASSUME NEW e \in Dialog PROVE DialogOf(e)'
    BY DEF DialogInv
  <2>1. CASE e = d
    <3>1. ~fResolved'[d]
      BY <1>1, <1>2 DEF DemoInv, DialogInv, DialogOf
    <3> QED BY <1>3, <2>1, <3>1 DEF DialogOf
  <2>2. CASE e # d
    BY <1>1, <1>2, <1>3, <2>2 DEF Only, DemoInv, DialogInv, DialogOf, NewPromise
  <2> QED BY <2>1, <2>2
<1>10. AppInv'
  BY <1>1, <1>2, <1>3, <1>4, <1>7 DEF AppInv, AppCallbacks
<1> QED BY <1>6, <1>8, <1>9, <1>10, CredentialsAssumption DEF DemoInv

\* TestWindow registers a callback.
LEMMA RegisterNextKeeps == ASSUME DemoInv, RegisterNext PROVE DemoInv'
<1> DEFINE d == appAt
           c == AppCallbacks[nextReg]
<1>1. /\ d \in Dialog /\ nextReg \in 1..4 /\ nextReg' = nextReg + 1 /\ prom' \in [Dialog -> DemoPromise] /\ Only(d)
      /\ \E k \in {"resolved", "rejected"} : Registering(d, c, k)
  BY RegisterNextDoes
<1>2. PICK k \in {"resolved", "rejected"} : Registering(d, c, k)
  BY <1>1
<1>3. appPc = "register" /\ UNCHANGED <<appQ, appPc, appAt, fPromise, requestEnabled, cancelEnabled, dlgQ, dlgPc, fResolved>>
  BY DEF RegisterNext, dlgVars
<1>4. c \in Callback \ {"quit"} /\ dlgPc[d] # "none"
  BY <1>1, <1>3, DemoNames DEF DemoInv, AppInv
<1>5. DemoTypes'
  BY <1>1, <1>3 DEF DemoInv, DemoTypes
<1>6. LocksInv'
  <2> SUFFICES ASSUME NEW e \in Dialog PROVE LockOf(e)'
    BY DEF LocksInv
  <2>1. CASE e = d
    <3>1. prom[d].due = <<>> /\ App \notin Dialog /\ App # None
      BY <1>1, <1>2, CredentialsAssumption DEF DemoInv, LocksInv, LockOf, Registering
    <3>2. prom'[d].due = <<>> /\ ~prom'[d].settling /\ appAt' = d /\ appPc' = "register"
      BY <1>2, <1>3, <3>1 DEF Registering
    <3>3. CASE prom[d].outcome = k
      <4>1. /\ prom'[d].holder = App /\ prom'[d].running = <<c>> /\ c \in Range(prom'[d].log)
            /\ prom'[d].outcome # "pending"
        BY <1>2, <3>3 DEF Registering
      <4> HIDE DEF c, d
      <4> QED BY <1>4, <2>1, <3>1, <3>2, <4>1 DEF LockOf
    <3>4. CASE prom[d].outcome # k
      <4>1. prom'[d].holder = None /\ prom'[d].running = <<>>
        BY <1>2, <3>4 DEF Registering
      <4> HIDE DEF c, d
      <4> QED BY <1>1, <2>1, <3>1, <3>2, <4>1, CredentialsAssumption DEF LockOf, DemoInv
    <3> QED BY <3>3, <3>4
  <2>2. CASE e # d
    <3>1. prom'[e] = prom[e] /\ LockOf(e)
      BY <1>1, <2>2 DEF Only, DemoInv, LocksInv
    <3>2. prom[e].holder # App
      BY <2>2, <3>1 DEF LockOf
    <3>3. dlgPc'[e] = dlgPc[e] /\ appAt' = appAt /\ appPc' = appPc
      BY <1>3
    <3> HIDE DEF d, c
    <3> QED BY <3>1, <3>2, <3>3 DEF LockOf
  <2> QED BY <2>1, <2>2
<1>7. prom'[d].outcome = prom[d].outcome /\ prom'[d].settling = prom[d].settling /\ Range(prom[d].log) \subseteq Range(prom'[d].log)
  BY <1>2 DEF Registering
<1>8. DialogInv'
  <2> HIDE DEF d, c
  <2> QED BY <1>1, <1>3, <1>4, <1>7 DEF DemoInv, DialogInv, DialogOf, Only, NewPromise
<1>9. Updated => Updated'
  BY <1>1, <1>7, UpdatedStays DEF Only
<1>10. \A i \in nextReg'..4 : prom'[d].want[AppCallbacks[i]] = {}
  <2> SUFFICES ASSUME NEW i \in nextReg'..4 PROVE prom'[d].want[AppCallbacks[i]] = {}
    OBVIOUS
  <2>1. i \in nextReg..4 /\ i \in 1..4 /\ i # nextReg
    BY <1>1
  <2>2. AppCallbacks[i] # c /\ prom[d].want[AppCallbacks[i]] = {}
    BY <1>1, <1>3, <2>1, DemoNames DEF DemoInv, AppInv
  <2>3. prom'[d].want = [prom[d].want EXCEPT ![c] = {k}]
    BY <1>2 DEF Registering
  <2>4. AppCallbacks[i] \in Callback /\ prom[d].want \in [Callback -> SUBSET {"resolved", "rejected"}]
    BY <1>1, <2>1, DemoNames DEF DemoInv, DemoTypes, DemoPromise
  <2> QED BY <2>2, <2>3, <2>4
<1>11. AppInv'
  BY <1>1, <1>3, <1>4, <1>9, <1>10 DEF DemoInv, AppInv, AppCallbacks
<1> QED BY <1>5, <1>6, <1>8, <1>11, CredentialsAssumption DEF DemoInv

\* A step of TestWindow's thread that leaves the promises alone, while it has
\* none of their locks.
LEMMA AppAloneKeeps ==
  ASSUME DemoInv, UNCHANGED <<prom, dlgPc, fResolved>>, \A d \in Dialog : prom[d].holder # App
  PROVE  LocksInv' /\ DialogInv' /\ (Updated => Updated')
<1>1. LocksInv'
  BY DEF DemoInv, LocksInv, LockOf, Callback
<1>2. DialogInv'
  BY DEF DemoInv, DialogInv, DialogOf, NewPromise
<1>3. Updated => Updated'
  BY UpdatedStays
<1> QED BY <1>1, <1>2, <1>3

LEMMA RequestDoneKeeps == ASSUME DemoInv, RequestDone PROVE DemoInv'
<1>1. /\ appPc = "register" /\ prom[appAt].holder # App /\ appPc' = "idle" /\ appAt' = None
      /\ UNCHANGED <<prom, appQ, nextReg, fPromise, requestEnabled, cancelEnabled, dlgQ, dlgPc, fResolved>>
  BY DEF RequestDone, AppReturns, dlgVars
<1>2. \A d \in Dialog : prom[d].holder # App
  BY <1>1 DEF DemoInv, LocksInv, LockOf
<1>3. LocksInv' /\ DialogInv' /\ (Updated => Updated')
  BY <1>1, <1>2, AppAloneKeeps
<1>4. DemoTypes'
  BY <1>1 DEF DemoInv, DemoTypes
<1>5. AppInv'
  BY <1>1, <1>3 DEF DemoInv, AppInv
<1> QED BY <1>3, <1>4, <1>5, CredentialsAssumption DEF DemoInv

\* TestWindow is asked to cancel, with a promise in fPromise or without.
LEMMA ReceiveCancelKeeps == ASSUME DemoInv, ReceiveCancel PROVE DemoInv'
<1>1. /\ appPc = "idle" /\ appQ # <<>> /\ Head(appQ) = "cancel" /\ appQ' = Tail(appQ)
      /\ appPc' = IF fPromise = None THEN "crashed" ELSE "cancel"
      /\ appAt' = fPromise
      /\ UNCHANGED <<prom, nextReg, fPromise, requestEnabled, cancelEnabled, dlgQ, dlgPc, fResolved>>
  BY DEF ReceiveCancel, dlgVars
<1>2. \A d \in Dialog : prom[d].holder # App
  BY <1>1 DEF DemoInv, LocksInv, LockOf
<1>3. LocksInv' /\ DialogInv' /\ (Updated => Updated')
  BY <1>1, <1>2, AppAloneKeeps
<1>4. appQ' \in Seq({"request", "cancel"}) /\ Range(appQ) = {"cancel"} \cup Range(appQ')
  BY <1>1, TakeFirst DEF DemoInv, DemoTypes
<1>5. DemoTypes'
  BY <1>1, <1>4 DEF DemoInv, DemoTypes
<1>6. fPromise = None => Updated
  BY <1>4 DEF DemoInv, AppInv
<1>7. AppInv'
  BY <1>1, <1>3, <1>4, <1>6 DEF DemoInv, DemoTypes, AppInv
<1> QED BY <1>3, <1>5, <1>7, CredentialsAssumption DEF DemoInv

\* TestWindow rejects the promise it was asked to cancel, or finds it settled.
LEMMA CancelRejectsKeeps == ASSUME DemoInv, CancelRejects PROVE DemoInv'
<1>1. appPc = "cancel" /\ UNCHANGED <<appQ, nextReg, fPromise, requestEnabled, cancelEnabled, dlgQ, dlgPc, fResolved>>
  BY DEF CancelRejects, dlgVars
<1>2. appAt \in Dialog /\ dlgPc[appAt] # "none" /\ \A d \in Dialog : prom[d].holder # App
  BY <1>1 DEF DemoInv, AppInv, LocksInv, LockOf
<1>3. CASE StartSettling(App, appAt, "rejected") /\ appPc' = "settle" /\ UNCHANGED appAt
  <2> DEFINE d == appAt
  <2>1. App \in WindowThread /\ App # None /\ App \notin Dialog
    BY CredentialsAssumption DEF WindowThread, DemoInv
  <2>2. /\ prom' \in [Dialog -> DemoPromise] /\ Only(d)
        /\ prom[d].holder = None /\ prom[d].outcome = "pending"
        /\ prom'[d].outcome = "rejected" /\ prom'[d].holder = App /\ prom'[d].settling = TRUE
        /\ prom'[d].running = prom[d].running /\ prom'[d].want = prom[d].want /\ prom'[d].log = prom[d].log
    <3>1. DemoTypes /\ "rejected" \in DemoOutcome
      BY DEF DemoInv, DemoOutcome
    <3>2. Started(App, d, "rejected")
      BY <1>2, <1>3, <2>1, <3>1, StartSettlingDoes
    <3> QED BY <3>2 DEF Started
  <2>3. appAt' = d /\ appPc' = "settle" /\ d \in Dialog
    BY <1>2, <1>3
  <2> HIDE DEF d
  <2>4. DemoTypes'
    BY <1>1, <2>2, <2>3 DEF DemoInv, DemoTypes
  <2>5. LocksInv'
    <3> SUFFICES ASSUME NEW e \in Dialog PROVE LockOf(e)'
      BY DEF LocksInv
    <3>1. CASE e = d
      <4>1. prom[d].running = <<>>
        BY <2>2, <2>3 DEF DemoInv, LocksInv, LockOf
      <4> QED BY <2>1, <2>2, <2>3, <3>1, <4>1 DEF LockOf
    <3>2. CASE e # d
      <4>1. prom'[e] = prom[e] /\ dlgPc'[e] = dlgPc[e] /\ LockOf(e)
        BY <1>1, <2>2, <3>2 DEF Only, DemoInv, LocksInv
      <4>2. prom[e].holder # App
        BY <1>2
      <4> QED BY <4>1, <4>2 DEF LockOf, Callback
    <3> QED BY <3>1, <3>2
  <2>6. DialogInv'
    BY <1>1, <1>2, <2>2, <2>3 DEF DemoInv, DialogInv, DialogOf, Only, NewPromise, d
  <2>7. Updated => Updated'
    BY <2>2, UpdatedStays DEF Only
  <2>8. AppInv'
    BY <1>1, <1>2, <2>3, <2>7 DEF DemoInv, AppInv, d
  <2> QED BY <2>4, <2>5, <2>6, <2>8, CredentialsAssumption DEF DemoInv
<1>4. CASE RefusedBy(appAt) /\ AppReturns /\ UNCHANGED prom
  <2>1. appPc' = "idle" /\ appAt' = None
    BY <1>4 DEF AppReturns
  <2>2. LocksInv' /\ DialogInv' /\ (Updated => Updated')
    BY <1>1, <1>2, <1>4, AppAloneKeeps
  <2>3. DemoTypes'
    BY <1>1, <1>4, <2>1 DEF DemoInv, DemoTypes
  <2>4. AppInv'
    BY <1>1, <2>1, <2>2 DEF DemoInv, AppInv
  <2> QED BY <2>2, <2>3, <2>4, CredentialsAssumption DEF DemoInv
<1> QED BY <1>3, <1>4 DEF CancelRejects

LEMMA CancelDoneKeeps == ASSUME DemoInv, CancelDone PROVE DemoInv'
<1>1. /\ appPc = "settle" /\ SettlingDone(App, appAt) /\ appPc' = "idle" /\ appAt' = None
      /\ UNCHANGED <<appQ, nextReg, fPromise, requestEnabled, cancelEnabled, dlgQ, dlgPc, fResolved>>
  BY DEF CancelDone, AppReturns, dlgVars
<1>2. App \in WindowThread /\ appAt \in Dialog /\ dlgPc[appAt] # "none"
  BY <1>1 DEF DemoInv, AppInv, WindowThread
<1> PICK d \in Dialog : d = appAt
  BY <1>2
<1>3. /\ prom' \in [Dialog -> DemoPromise] /\ Only(d)
      /\ prom[d].settling /\ prom[d].running = <<>> /\ prom[d].due = <<>>
      /\ prom'[d].running = prom[d].running /\ prom'[d].holder = None /\ prom'[d].settling = FALSE
      /\ prom'[d].due = prom[d].due /\ prom'[d].log = prom[d].log
      /\ prom'[d].outcome = prom[d].outcome
  <2>1. SettlingDone(App, d)
    BY <1>1
  <2>2. DemoTypes
    BY DEF DemoInv
  <2>3. Done(App, d)
    BY <1>2, <2>1, <2>2, SettlingDoneDoes
  <2> QED BY <2>3 DEF Done
<1>4. \A e \in Dialog : e # d => prom[e].holder # App
  BY DEF DemoInv, LocksInv, LockOf
<1>5. DemoTypes'
  BY <1>1, <1>3 DEF DemoInv, DemoTypes
<1>6. LocksInv'
  <2> SUFFICES ASSUME NEW e \in Dialog PROVE LockOf(e)'
    BY DEF LocksInv
  <2>1. CASE e = d
    BY <1>3, <2>1, CredentialsAssumption DEF DemoInv, LockOf
  <2>2. CASE e # d
    <3>1. prom'[e] = prom[e] /\ dlgPc'[e] = dlgPc[e] /\ LockOf(e)
      BY <1>1, <1>3, <2>2 DEF Only, DemoInv, LocksInv
    <3>2. prom[e].holder # App
      BY <1>4, <2>2
    <3> QED BY <3>1, <3>2 DEF LockOf, Callback
  <2> QED BY <2>1, <2>2
<1>7. DialogInv'
  BY <1>1, <1>2, <1>3 DEF DemoInv, DialogInv, DialogOf, Only, NewPromise
<1>8. Updated => Updated'
  BY <1>3, UpdatedStays DEF Only
<1>9. AppInv'
  BY <1>1, <1>8 DEF DemoInv, AppInv
<1> QED BY <1>5, <1>6, <1>7, <1>9, CredentialsAssumption DEF DemoInv

\* The user presses a button of TestWindow.
LEMMA PressKeeps ==
  ASSUME DemoInv, NEW button \in {"request", "cancel"}, NEW enabled, NEW max, Press(button, enabled, max),
         button = "cancel" => (enabled <=> cancelEnabled)
  PROVE  DemoInv'
<1>1. /\ enabled /\ appQ' = Append(appQ, button)
      /\ UNCHANGED <<prom, appPc, appAt, nextReg, fPromise, requestEnabled, cancelEnabled, dlgQ, dlgPc, fResolved>>
  BY DEF Press, dlgVars
<1>2. appQ' \in Seq({"request", "cancel"}) /\ Range(appQ') = Range(appQ) \cup {button}
  BY <1>1, AppendLast DEF DemoInv, DemoTypes
<1>3. DemoTypes'
  BY <1>1, <1>2 DEF DemoInv, DemoTypes
<1>4. LocksInv' /\ DialogInv'
  BY <1>1 DEF DemoInv, LocksInv, LockOf, DialogInv, DialogOf, NewPromise, Callback
<1>5. Updated => Updated'
  BY <1>1, UpdatedStays
<1>6. button = "cancel" => fPromise # None
  BY <1>1 DEF DemoInv, AppInv
<1>7. AppInv'
  BY <1>1, <1>2, <1>5, <1>6 DEF DemoInv, AppInv, AppCallbacks
<1> QED BY <1>3, <1>4, <1>7, CredentialsAssumption DEF DemoInv

\* The user presses "Login" in a dialog, or asks to close it.
LEMMA AskDialogKeeps ==
  ASSUME DemoInv, NEW d \in Dialog, PressLogin(d) \/ AskToClose(d)
  PROVE  DemoInv'
<1>1. PICK msg \in {"login", "quit"} :
        /\ dlgQ' = [dlgQ EXCEPT ![d] = Append(@, msg)]
        /\ UNCHANGED <<prom, appQ, appPc, appAt, nextReg, fPromise, requestEnabled, cancelEnabled, dlgPc, fResolved>>
  BY DEF PressLogin, AskToClose, appVars
<1>2. Append(dlgQ[d], msg) \in Seq({"login", "quit"})
  BY AppendLast DEF DemoInv, DemoTypes
<1>3. dlgQ' \in [Dialog -> Seq({"login", "quit"})]
  BY <1>1, <1>2 DEF DemoInv, DemoTypes
<1>4. DemoTypes'
  BY <1>1, <1>3 DEF DemoInv, DemoTypes
<1>5. LocksInv' /\ DialogInv'
  BY <1>1 DEF DemoInv, LocksInv, LockOf, DialogInv, DialogOf, NewPromise, Callback
<1>6. Updated => Updated'
  BY <1>1, UpdatedStays
<1>7. AppInv'
  BY <1>1, <1>6, AppKept
<1> QED BY <1>4, <1>5, <1>7, CredentialsAssumption DEF DemoInv

\* A dialog is told to log in or to quit.
LEMMA ReceiveKeeps ==
  ASSUME DemoInv, NEW d \in Dialog, ReceiveLogin(d) \/ ReceiveQuit(d)
  PROVE  DemoInv'
<1>1. PICK msg \in {"login", "quit"} :
        /\ Receive(d, msg)
        /\ UNCHANGED <<prom, appQ, appPc, appAt, nextReg, fPromise, requestEnabled, cancelEnabled>>
        /\ \/ /\ fResolved' = [fResolved EXCEPT ![d] = TRUE]
              /\ dlgPc' = [dlgPc EXCEPT ![d] = IF fResolved[d] THEN "idle" ELSE "resolve"]
           \/ /\ fResolved' = fResolved
              /\ dlgPc' = [dlgPc EXCEPT ![d] = IF fResolved[d] THEN "closed" ELSE "reject"]
  BY DEF ReceiveLogin, ReceiveQuit, appVars
<1>2. dlgPc[d] = "idle" /\ dlgQ[d] # <<>> /\ dlgQ' = [dlgQ EXCEPT ![d] = Tail(@)]
  BY <1>1 DEF Receive
<1>3. Tail(dlgQ[d]) \in Seq({"login", "quit"})
  BY <1>2, TakeFirst DEF DemoInv, DemoTypes
<1>4. dlgQ' \in [Dialog -> Seq({"login", "quit"})]
  BY <1>2, <1>3 DEF DemoInv, DemoTypes
<1>5. /\ fResolved' \in [Dialog -> BOOLEAN]
      /\ dlgPc' \in [Dialog -> {"none", "idle", "resolve", "reject", "settle", "settleAndQuit", "closed"}]
      /\ \A e \in Dialog : e # d => dlgPc'[e] = dlgPc[e] /\ fResolved'[e] = fResolved[e]
  BY <1>1 DEF DemoInv, DemoTypes
<1>6. \/ dlgPc'[d] = "idle" /\ fResolved[d]
      \/ dlgPc'[d] = "resolve" /\ fResolved'[d]
      \/ dlgPc'[d] = "closed" /\ fResolved[d]
      \/ dlgPc'[d] = "reject" /\ ~fResolved'[d]
  BY <1>1 DEF DemoInv, DemoTypes
<1>7. DemoTypes'
  BY <1>1, <1>4, <1>5 DEF DemoInv, DemoTypes
<1>8. LocksInv'
  <2> SUFFICES ASSUME NEW e \in Dialog PROVE LockOf(e)'
    BY DEF LocksInv
  <2>1. LockOf(e) /\ prom'[e] = prom[e]
    BY <1>1 DEF DemoInv, LocksInv
  <2>2. prom[e].holder \in Dialog => prom[e].holder = e /\ dlgPc'[e] \in {"settle", "settleAndQuit"}
    BY <1>2, <1>5, <2>1 DEF LockOf
  <2> QED BY <1>1, <2>1, <2>2 DEF LockOf, Callback
<1>9. DialogInv'
  <2> SUFFICES ASSUME NEW e \in Dialog PROVE DialogOf(e)'
    BY DEF DialogInv
  <2>1. DialogOf(e) /\ prom'[e] = prom[e]
    BY <1>1 DEF DemoInv, DialogInv
  <2>2. CASE e = d
    BY <1>2, <1>6, <2>1, <2>2 DEF DialogOf
  <2>3. CASE e # d
    BY <1>5, <2>1, <2>3 DEF DialogOf, NewPromise
  <2> QED BY <2>2, <2>3
<1>10. Updated => Updated'
  BY <1>1, UpdatedStays
<1>11. \A e \in Dialog : prom'[e].want = prom[e].want /\ (dlgPc[e] # "none" => dlgPc'[e] # "none")
  BY <1>1, <1>5, <1>6
<1>12. AppInv'
  BY <1>1, <1>10, <1>11, AppKept
<1> QED BY <1>7, <1>8, <1>9, <1>12, CredentialsAssumption DEF DemoInv

\* A dialog settles its promise, or finds it settled.
LEMMA DialogSettlesKeeps == ASSUME DemoInv, NEW d \in Dialog, DialogSettles(d) PROVE DemoInv'
<1>1. /\ UNCHANGED <<appQ, appPc, appAt, nextReg, fPromise, requestEnabled, cancelEnabled, dlgQ, fResolved>>
      /\ dlgPc[d] \in {"resolve", "reject"}
  BY DEF DialogSettles, appVars
<1>2. d \in WindowThread /\ d # None /\ d # App
  BY CredentialsAssumption DEF WindowThread, DemoInv
<1>3. ASSUME NEW k \in DemoOutcome, NEW pc \in {"settle", "settleAndQuit"},
             pc = "settleAndQuit" => dlgPc[d] = "reject",
             StartSettling(d, d, k), dlgPc' = [dlgPc EXCEPT ![d] = pc]
      PROVE  DemoInv'
  <2>1. /\ prom' \in [Dialog -> DemoPromise] /\ Only(d)
        /\ prom[d].holder = None /\ prom[d].outcome = "pending"
        /\ prom'[d].outcome = k /\ prom'[d].holder = d /\ prom'[d].settling = TRUE
        /\ prom'[d].running = prom[d].running /\ prom'[d].want = prom[d].want /\ prom'[d].log = prom[d].log
    <3>1. DemoTypes
      BY DEF DemoInv
    <3>2. Started(d, d, k)
      BY <1>2, <1>3, <3>1, StartSettlingDoes
    <3> QED BY <3>2 DEF Started
  <2>2. /\ dlgPc' \in [Dialog -> {"none", "idle", "resolve", "reject", "settle", "settleAndQuit", "closed"}]
        /\ dlgPc'[d] = pc /\ \A e \in Dialog : e # d => dlgPc'[e] = dlgPc[e]
    BY <1>3 DEF DemoInv, DemoTypes
  <2>3. DemoTypes'
    BY <1>1, <2>1, <2>2 DEF DemoInv, DemoTypes
  <2>4. LocksInv'
    <3> SUFFICES ASSUME NEW e \in Dialog PROVE LockOf(e)'
      BY DEF LocksInv
    <3>1. CASE e = d
      <4>1. prom[d].running = <<>>
        BY <2>1 DEF DemoInv, LocksInv, LockOf
      <4> QED BY <1>2, <2>1, <2>2, <3>1, <4>1 DEF LockOf, DemoOutcome
    <3>2. CASE e # d
      <4>1. prom'[e] = prom[e] /\ dlgPc'[e] = dlgPc[e] /\ LockOf(e)
        BY <2>1, <2>2, <3>2 DEF Only, DemoInv, LocksInv
      <4> QED BY <1>1, <4>1 DEF LockOf, Callback
    <3> QED BY <3>1, <3>2
  <2>5. DialogInv'
    <3> SUFFICES ASSUME NEW e \in Dialog PROVE DialogOf(e)'
      BY DEF DialogInv
    <3>1. CASE e = d
      <4>1. dlgPc[d] = "reject" => ~fResolved[d]
        BY DEF DemoInv, DialogInv, DialogOf
      <4> QED BY <1>1, <1>3, <2>2, <3>1, <4>1 DEF DialogOf
    <3>2. CASE e # d
      <4>1. prom'[e] = prom[e] /\ dlgPc'[e] = dlgPc[e] /\ DialogOf(e)
        BY <2>1, <2>2, <3>2 DEF Only, DemoInv, DialogInv
      <4> QED BY <1>1, <4>1 DEF DialogOf, NewPromise
    <3> QED BY <3>1, <3>2
  <2>6. Updated => Updated'
    BY <2>1, UpdatedStays DEF Only
  <2>7. \A e \in Dialog : prom'[e].want = prom[e].want /\ (dlgPc[e] # "none" => dlgPc'[e] # "none")
    BY <2>1, <2>2 DEF Only
  <2>8. AppInv'
    BY <1>1, <2>6, <2>7, AppKept
  <2> QED BY <2>3, <2>4, <2>5, <2>8, CredentialsAssumption DEF DemoInv
<1>4. ASSUME NEW pc \in {"idle", "closed"},
             RefusedBy(d), UNCHANGED prom, dlgPc' = [dlgPc EXCEPT ![d] = pc]
      PROVE  DemoInv'
  <2>1. prom[d].holder = None /\ prom[d].outcome # "pending" /\ ~prom[d].settling
    BY <1>4 DEF RefusedBy, Free, DemoInv, LocksInv, LockOf
  <2>2. /\ dlgPc' \in [Dialog -> {"none", "idle", "resolve", "reject", "settle", "settleAndQuit", "closed"}]
        /\ dlgPc'[d] = pc /\ \A e \in Dialog : e # d => dlgPc'[e] = dlgPc[e]
    BY <1>4 DEF DemoInv, DemoTypes
  <2>3. DemoTypes'
    BY <1>1, <1>4, <2>2 DEF DemoInv, DemoTypes
  <2>4. LocksInv'
    <3> SUFFICES ASSUME NEW e \in Dialog PROVE LockOf(e)'
      BY DEF LocksInv
    <3>1. LockOf(e) /\ prom'[e] = prom[e]
      BY <1>4 DEF DemoInv, LocksInv
    <3>2. prom[e].holder \in Dialog => prom[e].holder = e /\ dlgPc'[e] \in {"settle", "settleAndQuit"}
      BY <1>1, <2>2, <3>1 DEF LockOf
    <3> QED BY <1>1, <3>1, <3>2 DEF LockOf, Callback
  <2>5. DialogInv'
    <3> SUFFICES ASSUME NEW e \in Dialog PROVE DialogOf(e)'
      BY DEF DialogInv
    <3>1. DialogOf(e) /\ prom'[e] = prom[e]
      BY <1>4 DEF DemoInv, DialogInv
    <3>2. CASE e = d
      BY <1>4, <2>1, <2>2, <3>2 DEF DialogOf
    <3>3. CASE e # d
      BY <1>1, <2>2, <3>1, <3>3 DEF DialogOf, NewPromise
    <3> QED BY <3>2, <3>3
  <2>6. Updated => Updated'
    BY <1>4, UpdatedStays
  <2>7. \A e \in Dialog : prom'[e].want = prom[e].want /\ (dlgPc[e] # "none" => dlgPc'[e] # "none")
    BY <1>4, <2>2
  <2>8. AppInv'
    BY <1>1, <2>6, <2>7, AppKept
  <2> QED BY <2>3, <2>4, <2>5, <2>8, CredentialsAssumption DEF DemoInv
<1> QED BY <1>3, <1>4 DEF DialogSettles, DemoOutcome

\* A dialog returns from Resolve or Reject.
LEMMA DialogSettledKeeps == ASSUME DemoInv, NEW d \in Dialog, DialogSettled(d) PROVE DemoInv'
<1>1. /\ UNCHANGED <<appQ, appPc, appAt, nextReg, fPromise, requestEnabled, cancelEnabled, dlgQ, fResolved>>
      /\ dlgPc[d] \in {"settle", "settleAndQuit"} /\ SettlingDone(d, d)
      /\ dlgPc' = [dlgPc EXCEPT ![d] = IF @ = "settle" THEN "idle" ELSE "closed"]
  BY DEF DialogSettled, appVars
<1>2. /\ prom' \in [Dialog -> DemoPromise] /\ Only(d)
      /\ prom[d].settling /\ prom[d].running = <<>> /\ prom[d].due = <<>>
      /\ prom'[d].running = prom[d].running /\ prom'[d].holder = None /\ prom'[d].settling = FALSE
      /\ prom'[d].due = prom[d].due /\ prom'[d].log = prom[d].log
      /\ prom'[d].outcome = prom[d].outcome /\ prom'[d].want = prom[d].want
  <2>1. DemoTypes /\ d \in WindowThread
    BY DEF DemoInv, WindowThread
  <2>2. Done(d, d)
    BY <1>1, <2>1, SettlingDoneDoes
  <2> QED BY <2>2 DEF Done
<1>3. /\ dlgPc' \in [Dialog -> {"none", "idle", "resolve", "reject", "settle", "settleAndQuit", "closed"}]
      /\ dlgPc'[d] \in {"idle", "closed"} /\ \A e \in Dialog : e # d => dlgPc'[e] = dlgPc[e]
  BY <1>1 DEF DemoInv, DemoTypes
<1>4. DemoTypes'
  BY <1>1, <1>2, <1>3 DEF DemoInv, DemoTypes
<1>5. LocksInv'
  <2> SUFFICES ASSUME NEW e \in Dialog PROVE LockOf(e)'
    BY DEF LocksInv
  <2>1. CASE e = d
    BY <1>2, <2>1, CredentialsAssumption DEF DemoInv, LockOf
  <2>2. CASE e # d
    <3>1. prom'[e] = prom[e] /\ dlgPc'[e] = dlgPc[e] /\ LockOf(e)
      BY <1>2, <1>3, <2>2 DEF Only, DemoInv, LocksInv
    <3> QED BY <1>1, <3>1 DEF LockOf, Callback
  <2> QED BY <2>1, <2>2
<1>6. DialogInv'
  <2> SUFFICES ASSUME NEW e \in Dialog PROVE DialogOf(e)'
    BY DEF DialogInv
  <2>1. CASE e = d
    <3>1. prom[d].outcome # "pending"
      BY <1>2 DEF DemoInv, LocksInv, LockOf
    <3> QED BY <1>2, <1>3, <2>1, <3>1 DEF DialogOf
  <2>2. CASE e # d
    <3>1. prom'[e] = prom[e] /\ dlgPc'[e] = dlgPc[e] /\ DialogOf(e)
      BY <1>2, <1>3, <2>2 DEF Only, DemoInv, DialogInv
    <3> QED BY <1>1, <3>1 DEF DialogOf, NewPromise
  <2> QED BY <2>1, <2>2
<1>7. Updated => Updated'
  BY <1>2, UpdatedStays DEF Only
<1>8. \A e \in Dialog : prom'[e].want = prom[e].want /\ (dlgPc[e] # "none" => dlgPc'[e] # "none")
  BY <1>2, <1>3 DEF Only
<1>9. AppInv'
  BY <1>1, <1>7, <1>8, AppKept
<1> QED BY <1>4, <1>5, <1>6, <1>9, CredentialsAssumption DEF DemoInv

LEMMA NextDemoInv == DemoInv /\ [DemoNext]_demoVars => DemoInv'
<1> SUFFICES ASSUME DemoInv, [DemoNext]_demoVars PROVE DemoInv'
  OBVIOUS
<1>1. CASE UNCHANGED demoVars
  <2>1. UNCHANGED <<prom, appQ, appPc, appAt, nextReg, fPromise, requestEnabled, cancelEnabled, dlgQ, dlgPc, fResolved>>
    BY <1>1 DEF demoVars, appVars, dlgVars
  <2>2. DemoTypes'
    BY <2>1 DEF DemoInv, DemoTypes
  <2>3. LocksInv' /\ DialogInv'
    BY <2>1 DEF DemoInv, LocksInv, LockOf, DialogInv, DialogOf, NewPromise, Callback
  <2>4. Updated => Updated'
    BY <2>1, UpdatedStays
  <2>5. AppInv'
    BY <2>1, <2>4, AppKept
  <2> QED BY <2>2, <2>3, <2>5, CredentialsAssumption DEF DemoInv
<1>2. ASSUME NEW t \in WindowThread, InPromise(t) PROVE DemoInv'
  BY <1>2, CallNextKeeps, PrintCallbackKeeps, QuitCallbackKeeps, UpdateCallbackKeeps DEF InPromise
<1>3. CASE AppStep
  <2>1. App \in WindowThread
    BY DEF WindowThread
  <2> QED BY <1>2, <1>3, <2>1, ReceiveRequestKeeps, RegisterNextKeeps, RequestDoneKeeps, ReceiveCancelKeeps,
             CancelRejectsKeeps, CancelDoneKeeps DEF AppStep
<1>4. ASSUME NEW d \in Dialog, DialogStep(d) PROVE DemoInv'
  <2>1. d \in WindowThread
    BY DEF WindowThread
  <2> QED BY <1>2, <1>4, <2>1, ReceiveKeeps, DialogSettlesKeeps, DialogSettledKeeps DEF DialogStep
<1>5. CASE User
  <2>1. PressRequest => DemoInv'
    BY PressKeeps DEF PressRequest
  <2>2. PressCancel => DemoInv'
    BY PressKeeps DEF PressCancel
  <2>3. ASSUME NEW d \in Dialog, PressLogin(d) \/ AskToClose(d) PROVE DemoInv'
    BY <2>3, AskDialogKeeps
  <2> QED BY <1>5, <2>1, <2>2, <2>3 DEF User
<1> QED BY <1>1, <1>3, <1>4, <1>5 DEF DemoNext

LEMMA DemoInvariant == DemoSpec => []DemoInv
<1>1. DemoInit => DemoInv
  BY InitDemoInv
<1> QED BY <1>1, NextDemoInv, PTL DEF DemoSpec

\* What a callback, a window or Reject goes on to use has not been deleted,
\* whichever thread settles a promise and whatever the users press meanwhile;
\* a TestWindow that is asked to cancel finds no promise only after another
\* promise has been settled and its callback has run.
THEOREM DemoIsSafe == DemoSpec => []ObjectsOutliveUses
<1>1. DemoInv => DemoTypeOK
  <2> SUFFICES ASSUME DemoInv PROVE DemoTypeOK
    OBVIOUS
  <2>1. ASSUME NEW d \in Dialog
        PROVE  /\ prom[d].outcome \in {"pending", "resolved", "rejected"}
               /\ prom[d].holder \in WindowThread \cup {None}
               /\ Range(prom[d].onResolve) \cup Range(prom[d].onReject) \subseteq Callback
               /\ Range(dlgQ[d]) \subseteq {"login", "quit"}
    <3>1. prom[d] \in DemoPromise /\ dlgQ[d] \in Seq({"login", "quit"})
      BY DEF DemoInv, DemoTypes
    <3>2. /\ Range(prom[d].onResolve) \subseteq Callback /\ Range(prom[d].onReject) \subseteq Callback
          /\ Range(dlgQ[d]) \subseteq {"login", "quit"}
      BY <3>1 DEF DemoPromise, Range
    <3> QED BY <3>1, <3>2 DEF DemoPromise
  <2>2. Range(appQ) \subseteq {"request", "cancel"}
    <3>1. Range(appQ) \subseteq {"request", "cancel"}
      BY DEF DemoInv, DemoTypes, Range
    <3> QED BY <3>1
  <2>3. nextReg \in 1..Len(AppCallbacks) + 1
    BY DemoNames DEF DemoInv, DemoTypes
  <2> QED BY <2>1, <2>2, <2>3 DEF DemoTypeOK, DemoInv, DemoTypes
<1>2. DemoInv => DialogOutlivesCallback
  <2> SUFFICES ASSUME DemoInv, NEW d \in Dialog, prom[d].running = <<"quit">> PROVE Open(d)
    BY DEF DialogOutlivesCallback
  <2>1. prom[d].settling
    <3>1. <<"quit">> # <<>> /\ \A c : <<"quit">> = <<c>> => c = "quit"
      OBVIOUS
    <3>2. \E c \in Callback : prom[d].running = <<c>> /\ (c = "quit" => prom[d].settling)
      BY <3>1 DEF DemoInv, LocksInv, LockOf
    <3> QED BY <3>1, <3>2
  <2> QED BY <2>1 DEF Open, DemoInv, DialogInv, DialogOf, NewPromise
<1>3. DemoInv => PromiseOutlivesUse
  <2> SUFFICES ASSUME DemoInv, NEW d \in Dialog, prom[d].holder # None \/ (appPc = "cancel" /\ appAt = d)
               PROVE  References(d) # {}
    BY DEF PromiseOutlivesUse
  <2>1. fPromise = d \/ (appPc = "register" /\ appAt = d) \/ Open(d)
    <3>1. CASE appPc = "cancel" /\ appAt = d
      BY <3>1 DEF DemoInv, AppInv
    <3>2. CASE prom[d].holder # None
      <4>1. prom[d].holder \in Dialog \cup {App} /\ LockOf(d) /\ DialogOf(d)
        BY <3>2 DEF DemoInv, DemoTypes, DemoPromise, LocksInv, DialogInv, WindowThread
      <4>2. prom[d].holder \in Dialog => Open(d)
        BY <4>1 DEF LockOf, Open
      <4>3. prom[d].holder = App /\ prom[d].settling => Open(d)
        BY <4>1 DEF DialogOf, Open, NewPromise
      <4>4. prom[d].holder = App /\ ~prom[d].settling => appPc = "register" /\ appAt = d
        BY <4>1 DEF LockOf
      <4> QED BY <4>1, <4>2, <4>3, <4>4
    <3> QED BY <3>1, <3>2
  <2> QED BY <2>1 DEF References
<1>4. DemoInv => CancelMeantAnother
  BY DEF DemoInv, AppInv, Updated, CancelMeantAnother, Crashed
<1>5. DemoInv => ObjectsOutliveUses
  BY <1>1, <1>2, <1>3, <1>4 DEF ObjectsOutliveUses
<1> QED BY <1>5, DemoInvariant, PTL

------------------------------------------------------------------------------
(* Each promise of the demonstration is a Promise.                         *)

PromiseSteps == \A d \in Dialog : P(d)!Next \/ UNCHANGED P(d)!vars

LEMMA OnlyOneMoves ==
  ASSUME NEW d \in Dialog, Only(d), P(d)!Next
  PROVE  PromiseSteps
<1>1. ASSUME NEW e \in Dialog, e # d PROVE UNCHANGED P(e)!vars
  BY <1>1 DEF Only, P!vars
<1> QED BY <1>1 DEF PromiseSteps

LEMMA NoneMoves == ASSUME UNCHANGED prom PROVE PromiseSteps
BY DEF PromiseSteps, P!vars

LEMMA PromiseNames == \A d \in Dialog : P(d)!Outcome = {"resolved", "rejected"}
BY DEF P!Outcome

LEMMA StartSettlingIsOne ==
  ASSUME DemoInv, NEW t \in WindowThread, NEW d \in Dialog, NEW k \in DemoOutcome, StartSettling(t, d, k)
  PROVE  PromiseSteps
<1>1. DemoTypes
  BY DEF DemoInv
<1>2. Started(t, d, k)
  BY <1>1, StartSettlingDoes
<1>3. P(d)!Settle(t, k)
  BY <1>2 DEF Started, P!Settle, P!CanEnter, P!ListFor
<1>4. P(d)!Next
  BY <1>3, PromiseNames DEF P!Next, DemoOutcome
<1> QED BY <1>2, <1>4, OnlyOneMoves DEF Started

LEMMA CallNextIsOne ==
  ASSUME DemoInv, NEW t \in WindowThread, NEW d \in Dialog, CallDue(t, d)
  PROVE  PromiseSteps
<1>1. DemoTypes
  BY DEF DemoInv
<1>2. Called(t, d)
  BY <1>1, CallNextDoes
<1>3. P(d)!CallNext(t)
  BY <1>2 DEF Called, P!CallNext
<1>4. P(d)!Next
  BY <1>3 DEF P!Next, P!Proceed
<1> QED BY <1>2, <1>4, OnlyOneMoves DEF Called

LEMMA ReturnIsOne ==
  ASSUME DemoInv, NEW t \in WindowThread, NEW d \in Dialog, NEW c, Runs(t, d, c), CallbackEnds(d)
  PROVE  PromiseSteps
<1>1. DemoTypes
  BY DEF DemoInv
<1>2. Returned(d)
  BY <1>1, CallbackReturnsDoes
<1>3. prom[d].holder = t /\ prom[d].running = <<c>>
  BY DEF Runs
<1>4. prom[d].running # <<>> /\ Tail(prom[d].running) = <<>>
  BY <1>3
<1>5. P(d)!CallbackReturns(t)
  BY <1>2, <1>3, <1>4 DEF Returned, P!CallbackReturns
<1>6. P(d)!Next
  BY <1>5 DEF P!Next, P!Proceed
<1> QED BY <1>2, <1>6, OnlyOneMoves DEF Returned

LEMMA SettlingDoneIsOne ==
  ASSUME DemoInv, NEW t \in WindowThread, NEW d \in Dialog, SettlingDone(t, d)
  PROVE  PromiseSteps
<1>1. DemoTypes
  BY DEF DemoInv
<1>2. Done(t, d)
  BY <1>1, SettlingDoneDoes
<1>3. P(d)!FinishSettling(t)
  BY <1>2 DEF Done, P!FinishSettling
<1>4. P(d)!Next
  BY <1>3 DEF P!Next, P!Proceed
<1> QED BY <1>2, <1>4, OnlyOneMoves DEF Done

\* The constructor of the dialog calls OnSet.
LEMMA ReceiveRequestIsOne == ASSUME DemoInv, ReceiveRequest PROVE PromiseSteps
<1>1. PICK d \in Dialog : Only(d) /\ prom[d] = NewPromise /\ prom'[d] = DialogPromise
  BY ReceiveRequestDoes
<1>2. App \in WindowThread /\ "quit" \in Callback
  BY DemoNames DEF WindowThread
<1>3. <<"quit">> \o <<>> = <<"quit">>
  OBVIOUS
<1>4. /\ NewPromise.outcome = "pending" /\ NewPromise.holder = None /\ NewPromise.want["quit"] = {}
      /\ NewPromise.onResolve = <<>> /\ NewPromise.onReject = <<>>
  BY <1>2 DEF NewPromise
<1>5. /\ DialogPromise.outcome = "pending" /\ DialogPromise.holder = None
      /\ DialogPromise.onResolve = <<"quit">> /\ DialogPromise.onReject = <<"quit">>
      /\ DialogPromise.settling = NewPromise.settling /\ DialogPromise.due = NewPromise.due
      /\ DialogPromise.running = NewPromise.running /\ DialogPromise.log = NewPromise.log
  BY DEF NewPromise, DialogPromise
<1>6. DialogPromise.want = [NewPromise.want EXCEPT !["quit"] = {"resolved", "rejected"}]
  BY DEF NewPromise, DialogPromise
<1>7. P(d)!OnSet(App, "quit")
  BY <1>1, <1>3, <1>4, <1>5, <1>6, PromiseNames DEF P!OnSet, P!CanEnter
<1>8. P(d)!Next
  BY <1>2, <1>7 DEF P!Next, P!Register
<1> QED BY <1>1, <1>8, OnlyOneMoves

LEMMA RegisterNextIsOne == ASSUME DemoInv, RegisterNext PROVE PromiseSteps
<1>1. appAt \in Dialog /\ nextReg \in 1..4 /\ Only(appAt)
      /\ \E k \in {"resolved", "rejected"} : Registering(appAt, AppCallbacks[nextReg], k)
  BY RegisterNextDoes
<1> PICK d \in Dialog : d = appAt
  BY <1>1
<1>2. PICK c \in Callback : c = AppCallbacks[nextReg]
  BY <1>1, DemoNames
<1>3. PICK k \in {"resolved", "rejected"} : Registering(d, c, k)
  BY <1>1, <1>2
<1>4. Only(d) /\ App \in WindowThread
  BY <1>1 DEF WindowThread
<1>5. /\ <<c>> \o <<>> = <<c>>
      /\ prom[d].outcome \in {"pending", "resolved", "rejected"}
  BY DEF DemoInv, DemoTypes, DemoPromise
<1>6. k = "resolved" => P(d)!OnResolve(App, c)
  BY <1>3, <1>5 DEF Registering, P!OnResolve, P!CanEnter, P!CallAtOnce
<1>7. k = "rejected" => P(d)!OnReject(App, c)
  BY <1>3, <1>5 DEF Registering, P!OnReject, P!CanEnter, P!CallAtOnce
<1>8. P(d)!Next
  BY <1>4, <1>6, <1>7 DEF P!Next, P!Register
<1> QED BY <1>4, <1>8, OnlyOneMoves

LEMMA DemoStepRefines == DemoInv /\ [DemoNext]_demoVars => PromiseSteps
<1> SUFFICES ASSUME DemoInv, [DemoNext]_demoVars PROVE PromiseSteps
  OBVIOUS
<1>1. CASE UNCHANGED demoVars
  BY <1>1, NoneMoves DEF demoVars
<1>2. ASSUME NEW t \in WindowThread, InPromise(t) PROVE PromiseSteps
  <2>1. PICK d \in Dialog : CallDue(t, d) \/ PrintCallback(t, d) \/ QuitCallback(t, d) \/ UpdateCallback(t, d)
    BY <1>2 DEF InPromise
  <2>2. CASE CallDue(t, d)
    BY <2>2, CallNextIsOne
  <2>3. CASE ~CallDue(t, d)
    <3>1. PICK c : Runs(t, d, c) /\ CallbackEnds(d)
      BY <2>1, <2>3 DEF PrintCallback, QuitCallback, UpdateCallback
    <3> QED BY <3>1, ReturnIsOne
  <2> QED BY <2>2, <2>3
<1>3. CASE AppStep
  <2>1. App \in WindowThread
    BY DEF WindowThread
  <2>2. RequestDone \/ ReceiveCancel => PromiseSteps
    BY NoneMoves DEF RequestDone, ReceiveCancel
  <2>3. ASSUME CancelRejects PROVE PromiseSteps
    <3>1. appPc = "cancel"
      BY <2>3 DEF CancelRejects
    <3>2. appAt \in Dialog
      BY <3>1 DEF DemoInv, AppInv
    <3> QED BY <2>1, <2>3, <3>2, NoneMoves, StartSettlingIsOne DEF CancelRejects, DemoOutcome
  <2>4. ASSUME CancelDone PROVE PromiseSteps
    <3>1. appPc = "settle"
      BY <2>4 DEF CancelDone
    <3>2. appAt \in Dialog
      BY <3>1 DEF DemoInv, AppInv
    <3> QED BY <2>1, <2>4, <3>2, SettlingDoneIsOne DEF CancelDone
  <2> QED BY <1>2, <1>3, <2>1, <2>2, <2>3, <2>4, ReceiveRequestIsOne, RegisterNextIsOne DEF AppStep
<1>4. ASSUME NEW d \in Dialog, DialogStep(d) PROVE PromiseSteps
  <2>1. d \in WindowThread
    BY DEF WindowThread
  <2>2. ReceiveLogin(d) \/ ReceiveQuit(d) => PromiseSteps
    BY NoneMoves DEF ReceiveLogin, ReceiveQuit
  <2>3. DialogSettles(d) => PromiseSteps
    BY <2>1, NoneMoves, StartSettlingIsOne DEF DialogSettles, DemoOutcome
  <2>4. DialogSettled(d) => PromiseSteps
    BY <2>1, SettlingDoneIsOne DEF DialogSettled
  <2> QED BY <1>2, <1>4, <2>1, <2>2, <2>3, <2>4 DEF DialogStep
<1>5. CASE User
  BY <1>5, NoneMoves DEF User, PressRequest, PressCancel, Press, PressLogin, AskToClose
<1> QED BY <1>1, <1>3, <1>4, <1>5 DEF DemoNext

\* However the messages of the windows interleave, each dialog's promise goes
\* through the steps of module Promise, for which the theorems above hold.
THEOREM DemoRefinesPromise == DemoSpec => ImplementsPromise
<1>1. DemoInit => \A d \in Dialog : P(d)!Init
  <2> SUFFICES ASSUME DemoInit, NEW d \in Dialog PROVE P(d)!Init
    OBVIOUS
  <2>1. prom[d] = NewPromise
    BY DEF DemoInit
  <2> QED BY <2>1 DEF NewPromise, P!Init
<1>2. DemoInv /\ [DemoNext]_demoVars => [\A d \in Dialog : P(d)!Next \/ UNCHANGED P(d)!vars]_demoVars
  BY DemoStepRefines DEF PromiseSteps
<1> QED BY <1>1, <1>2, DemoInvariant, PTL DEF DemoSpec, ImplementsPromise
==============================================================================
