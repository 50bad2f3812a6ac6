------------------------------ MODULE AutoRepeat ------------------------------
(***************************************************************************)
(* What StartRepeating and StopRepeating of ScreenKeyboard's               *)
(* KeyboardHandler promise, without the thread and the semaphore: at most  *)
(* one key repeats; its repeats carry the counts 2, 3, ... in order, one   *)
(* each; none is sent before the start or after the stop.                  *)
(***************************************************************************)
EXTENDS Naturals

CONSTANTS
  Key,       \* the keys whose messages may repeat
  NoKey,     \* "nothing repeats"
  MaxRepeat  \* a key repeats until it carries this count

VARIABLES
  repeating,  \* the key that repeats, or NoKey
  count,      \* the "be:key_repeat" of its message (0: nothing repeats)
  last        \* history: the last repeat that reached the input server

vars == <<repeating, count, last>>

NoRepeat == [key |-> NoKey, count |-> 0]

Init == repeating = NoKey /\ count = 0 /\ last = NoRepeat

Start(k) ==
  /\ repeating = NoKey
  /\ repeating' = k /\ count' = 1
  /\ UNCHANGED last

\* One repeat; the input server may refuse it.
Send ==
  /\ repeating # NoKey
  /\ count < MaxRepeat
  /\ count' = count + 1
  /\ last' \in {last, [key |-> repeating, count |-> count + 1]}
  /\ UNCHANGED repeating

Stop ==
  /\ repeating # NoKey
  /\ repeating' = NoKey /\ count' = 0
  /\ UNCHANGED last

Next == (\E k \in Key : Start(k)) \/ Send \/ Stop

Safety == Init /\ [][Next]_vars

\* A key that keeps being held keeps repeating.
Liveness == WF_vars(Send)

Spec == Safety /\ Liveness
==============================================================================
