--------------------------- MODULE PromiseContract ---------------------------
(***************************************************************************)
(* What Promises/Promises.h promises to its clients, without the lock, the *)
(* callback lists or the threads: the promise takes one outcome, once, and *)
(* from then on owes a call to every registration that asked for that      *)
(* outcome, whether the request came before or after the outcome did.      *)
(***************************************************************************)
CONSTANT Registration  \* one element per OnResolve, OnReject or OnSet call

VARIABLES
  outcome,  \* "pending", then "resolved" or "rejected" for ever
  want,     \* want[r]: the outcomes r asked to be told of ({}: no request yet)
  told      \* the registrations whose callback has been called

vars == <<outcome, want, told>>

Outcome == {"resolved", "rejected"}

Init ==
  /\ outcome = "pending"
  /\ want = [r \in Registration |-> {}]
  /\ told = {}

Settle(k) ==
  /\ outcome = "pending"
  /\ outcome' = k
  /\ UNCHANGED <<want, told>>

Register(r, kinds) ==
  /\ want[r] = {}
  /\ want' = [want EXCEPT ![r] = kinds]
  /\ UNCHANGED <<outcome, told>>

\* A registration made after the outcome is known may be answered at once.
RegisterAndTell(r, kinds) ==
  /\ want[r] = {}
  /\ outcome \in kinds
  /\ want' = [want EXCEPT ![r] = kinds]
  /\ told' = told \cup {r}
  /\ UNCHANGED outcome

Tell(r) ==
  /\ outcome \in want[r]
  /\ r \notin told
  /\ told' = told \cup {r}
  /\ UNCHANGED <<outcome, want>>

Next ==
  \/ \E k \in Outcome : Settle(k)
  \/ \E r \in Registration, kinds \in (SUBSET Outcome) \ {{}} :
       Register(r, kinds) \/ RegisterAndTell(r, kinds)
  \/ \E r \in Registration : Tell(r)

Safety == Init /\ [][Next]_vars

Spec == Safety /\ \A r \in Registration : WF_vars(Tell(r))
==============================================================================
