------------------------- MODULE TabletDeviceProofs -------------------------
(***************************************************************************)
(* Proofs about module TabletDevice, for any places, buttons and times.    *)
(* What the input server has been told is compared with fState, step by    *)
(* step (ToldInv), and fState with the packet, button by button (SyncInv); *)
(* together they give ServerFollowsPen at the end of the loop.  The clicks *)
(* in fState are those of the last B_MOUSE_DOWN that was made (DownsInv),  *)
(* from which those of the next are counted.                               *)
(***************************************************************************)
EXTENDS TabletDevice, TLAPS

Live == {"loop", "read", "move", "buttons", "snooze"}

\* What the input server's thread knows of the watcher at each of its steps.
PhaseInv ==
    /\ fWatcherThread # "watcher" => ctl = "idle" /\ thread = "none"
    /\ ctl \in {"idle", "clear"} /\ fWatcherThread = "watcher" => fRun /\ thread \in Live
    /\ ctl \in {"run", "resume"} => thread = "new"
    /\ ctl = "resume" => fRun
    /\ ctl \in {"wait", "join"} => ~fRun /\ thread \in Live \cup {"gone"}
    /\ ctl \in {"idle", "run", "resume", "join"} => ~suspended

\* Everything but what is untold has been told as fState has it.
ToldInv ==
    /\ \A b \in Bits : b \in untold \/ (b \in server.pressed <=> b \in fState.buttons)
    /\ Place \in untold \/ server.place = fState.place

\* fState has what the packet has, of the buttons that the loop has passed.
Synced(n) ==
    /\ fState.place = state.place
    /\ \A b \in Bits : b < n => (b \in fState.buttons <=> b \in state.buttons)
SyncInv ==
    /\ thread = "buttons" => Synced(bit)
    /\ thread = "snooze" /\ inRange => Synced(NBits)

IndInv == TypeOK /\ PhaseInv /\ ToldInv /\ SyncInv

LEMMA BitsFacts == /\ Place \notin Bits /\ PenBits \subseteq Bits
                   /\ \A b \in Bits : b \in Int /\ 0 <= b /\ b < NBits
BY TabletAssumption DEF Bits, Place, PenBits

LEMMA InitIndInv == Init => IndInv
<1> SUFFICES ASSUME Init PROVE IndInv
  OBVIOUS
<1>1. PICK t \in Times, p \in Places, pressed \in SUBSET Bits, n \in AnyClicks :
        /\ fState = [when |-> t, place |-> p, buttons |-> pressed, clicks |-> n]
        /\ state = [place |-> p, buttons |-> {}]
        /\ server = [pressed |-> {}, place |-> p]
        /\ untold = pressed \cup {Place}
  BY DEF Init
<1>2. 0 \in Times /\ 0 \in 0..NBits
  BY TabletAssumption DEF Times
<1>3. TypeOK
  BY <1>1, <1>2, TabletAssumption DEF Init, TypeOK, TabletState, control, clicking
<1>4. PhaseInv /\ SyncInv
  BY DEF Init, PhaseInv, SyncInv
<1>5. ToldInv
  BY <1>1 DEF ToldInv
<1> QED BY <1>3, <1>4, <1>5 DEF IndInv

\* A message tells the place and one button, and leaves the other buttons.
LEMMA SentTold ==
  ASSUME TypeOK, ToldInv, NEW what, NEW pressed, Sent(pressed, what),
         \A b \in Bits : b # what => (b \in pressed <=> b \in server.pressed) /\ (b \in fState'.buttons <=> b \in fState.buttons),
         what \in Bits => (what \in pressed <=> what \in fState'.buttons)
  PROVE  ToldInv'
<1>1. server'.pressed = pressed /\ server'.place = fState'.place
  BY DEF Sent
<1>2. \A b \in Bits : b \notin untold' => b = what \/ b \notin untold
  BY BitsFacts DEF Sent
<1>3. \A b \in Bits : b \in untold' \/ (b \in server'.pressed <=> b \in fState'.buttons)
  BY <1>1, <1>2 DEF ToldInv
<1> QED BY <1>1, <1>3 DEF ToldInv

LEMMA LostTold ==
  ASSUME ToldInv, NEW what, Lost(what),
         \A b \in Bits : b # what => (b \in fState'.buttons <=> b \in fState.buttons),
         what # Place => fState'.place = fState.place
  PROVE  ToldInv'
BY DEF Lost, ToldInv

\* Inverting a bit changes that bit and no other.
LEMMA InvertedFacts ==
  ASSUME NEW pressed, NEW i
  PROVE  /\ i \in Inverted(pressed, i) <=> i \notin pressed
         /\ \A b : b # i => (b \in Inverted(pressed, i) <=> b \in pressed)
BY DEF Inverted

LEMMA MoveStep == IndInv /\ Move => IndInv'
<1> SUFFICES ASSUME IndInv, Move PROVE IndInv'
  OBVIOUS
<1> USE DEF IndInv
<1>1. fState \in TabletState /\ state.place \in Places
  BY DEF TypeOK
<1>2. /\ fState' \in TabletState
      /\ fState'.place = state.place /\ fState'.buttons = fState.buttons
  BY <1>1 DEF Move, TabletState
<1>3. /\ UNCHANGED <<ctl, fWatcherThread, fRun, suspended, clock, state, inRange>>
      /\ thread = "move" /\ thread' \in {"buttons", "loop"} /\ bit' = 0
  BY DEF Move, Watcher, control
<1>4. TypeOK' /\ ToldInv'
  <2>1. CASE fState.place = state.place /\ UNCHANGED <<server, untold>>
    <3>1. ToldInv'
      BY <1>2, <2>1 DEF ToldInv
    <3>2. TypeOK'
      BY <1>2, <1>3, <2>1, TabletAssumption DEF TypeOK
    <3> QED BY <3>1, <3>2
  <2>2. CASE Sent(server.pressed, Place)
    <3>1. ToldInv'
      BY <1>2, <2>2, SentTold, BitsFacts
    <3>2. server' \in [pressed : SUBSET Bits, place : Places] /\ untold' \subseteq Bits \cup {Place}
      BY <1>1, <1>2, <2>2 DEF Sent, TypeOK
    <3>3. TypeOK'
      BY <1>2, <1>3, <3>2, TabletAssumption DEF TypeOK
    <3> QED BY <3>1, <3>3
  <2>3. CASE Lost(Place)
    <3>1. ToldInv'
      BY <1>2, <2>3, LostTold
    <3>2. TypeOK'
      BY <1>2, <1>3, <2>3, TabletAssumption DEF TypeOK, Lost
    <3> QED BY <3>1, <3>2
  <2> QED BY <2>1, <2>2, <2>3 DEF Move
<1>5. PhaseInv'
  BY <1>3 DEF PhaseInv, Live
<1>6. SyncInv'
  <2>1. \A b \in Bits : ~(b < 0)
    BY BitsFacts
  <2> QED BY <1>2, <1>3, <2>1 DEF SyncInv, Synced
<1> QED BY <1>4, <1>5, <1>6

LEMMA ButtonStep == IndInv /\ Button => IndInv'
<1> SUFFICES ASSUME IndInv, Button PROVE IndInv'
  OBVIOUS
<1> USE DEF IndInv
<1>1. /\ UNCHANGED <<ctl, fWatcherThread, fRun, suspended, clock, state, inRange, thread>>
      /\ thread = "buttons" /\ bit < NBits /\ bit' = bit + 1 /\ bit \in 0..NBits
  BY DEF Button, Watcher, control, TypeOK
<1>2. bit \in Bits /\ bit' \in 0..NBits
  BY <1>1, TabletAssumption DEF Bits
<1>3. /\ TypeOK' /\ ToldInv'
      /\ fState'.place = fState.place
      /\ bit \in fState'.buttons <=> bit \in state.buttons
      /\ \A b \in Bits : b # bit => (b \in fState'.buttons <=> b \in fState.buttons)
  <2> DEFINE inverted == Inverted(fState.buttons, bit)
  <2>0. fState \in TabletState /\ inverted \in SUBSET Bits
    BY <1>2 DEF TypeOK, TabletState, Inverted
  <2>1. CASE (bit \in fState.buttons) = (bit \in state.buttons)
    <3>1. UNCHANGED <<fState, clicking, server, untold>>
      BY <2>1 DEF Button
    <3>2. TypeOK' /\ ToldInv'
      BY <1>1, <1>2, <3>1 DEF TypeOK, ToldInv
    <3> QED BY <2>1, <3>1, <3>2
  <2>2. CASE (bit \in fState.buttons) # (bit \in state.buttons) /\ Lost(bit)
             /\ fState' = [fState EXCEPT !.buttons = Inverted(@, bit)]
    <3>1. fState' \in TabletState /\ fState'.buttons = inverted /\ fState'.place = fState.place
      BY <2>0, <2>2 DEF TabletState
    <3>2. ToldInv'
      BY <2>2, <3>1, LostTold, InvertedFacts
    <3>3. TypeOK'
      BY <1>1, <1>2, <2>2, <3>1 DEF TypeOK, Lost
    <3> QED BY <2>2, <3>1, <3>2, <3>3, InvertedFacts
  <2>3. CASE (bit \in fState.buttons) # (bit \in state.buttons) /\ bit \notin fState.buttons
             /\ fState' = [fState EXCEPT !.buttons = Inverted(@, bit), !.clicks = Clicks(bit)]
             /\ (Sent(server.pressed \cup {bit}, bit) \/ Lost(bit))
    <3>0. fState' = [fState EXCEPT !.buttons = Inverted(@, bit), !.clicks = Clicks(bit)]
      BY <2>3
    <3>1. Clicks(bit) \in Int
      BY <2>0 DEF Clicks, TabletState
    <3>2. fState' \in TabletState /\ fState'.buttons = inverted /\ fState'.place = fState.place
      BY <2>0, <3>0, <3>1 DEF TabletState
    <3>3. ToldInv'
      <4>1. CASE Sent(server.pressed \cup {bit}, bit)
        <5>1. bit \in fState'.buttons /\ \A b \in Bits : b # bit => (b \in fState'.buttons <=> b \in fState.buttons)
          BY <2>3, <3>2, InvertedFacts
        <5> QED BY <4>1, <5>1, SentTold
      <4>2. CASE Lost(bit)
        BY <3>2, <4>2, LostTold, InvertedFacts
      <4> QED BY <2>3, <4>1, <4>2
    <3>4. server' \in [pressed : SUBSET Bits, place : Places] /\ untold' \subseteq Bits \cup {Place}
      BY <1>2, <2>3, <3>2 DEF Sent, Lost, TypeOK, TabletState
    <3>5. TypeOK'
      BY <1>1, <1>2, <3>2, <3>4 DEF TypeOK
    <3>6. bit \notin fState.buttons /\ bit \in state.buttons
      BY <2>3
    <3> QED BY <3>2, <3>3, <3>5, <3>6, InvertedFacts
  <2>4. CASE (bit \in fState.buttons) # (bit \in state.buttons) /\ bit \in fState.buttons
             /\ fState' = [fState EXCEPT !.buttons = Inverted(@, bit)]
             /\ Sent(server.pressed \ {bit}, bit)
    <3>1. fState' \in TabletState /\ fState'.buttons = inverted /\ fState'.place = fState.place
      BY <2>0, <2>4 DEF TabletState
    <3>2. ToldInv'
      BY <2>4, <3>1, SentTold, InvertedFacts
    <3>3. server' \in [pressed : SUBSET Bits, place : Places] /\ untold' \subseteq Bits \cup {Place}
      BY <2>4, <3>1 DEF Sent, TypeOK, TabletState
    <3>4. TypeOK'
      BY <1>1, <1>2, <3>1, <3>3 DEF TypeOK
    <3> QED BY <2>4, <3>1, <3>2, <3>4, InvertedFacts
  <2> QED BY <2>1, <2>2, <2>3, <2>4 DEF Button
<1>4. PhaseInv'
  BY <1>1 DEF PhaseInv
<1>5. SyncInv'
  <2>1. Synced(bit) /\ fState'.place = state'.place
    BY <1>1, <1>3 DEF SyncInv, Synced
  <2>2. \A b \in Bits : b < bit + 1 => b = bit \/ b < bit
    BY <1>1, BitsFacts
  <2>3. \A b \in Bits : b < bit' => (b \in fState'.buttons <=> b \in state'.buttons)
    BY <1>1, <1>3, <2>1, <2>2 DEF Synced
  <2> QED BY <1>1, <2>1, <2>3 DEF SyncInv, Synced
<1> QED BY <1>3, <1>4, <1>5

LEMMA PacketStep == IndInv /\ ReadPacket => IndInv'
<1> SUFFICES ASSUME IndInv, ReadPacket PROVE IndInv'
  OBVIOUS
<1> USE DEF IndInv
<1>1. PICK t \in Times, p \in Places, pressed \in SUBSET PenBits :
        /\ state' = [place |-> p, buttons |-> pressed]
        /\ fState' = [fState EXCEPT !.when = t]
        /\ clock' \in {t, clock} /\ inRange' \in BOOLEAN
  <2>1. PICK t \in Times, p \in Places :
          \/ \E pressed \in SUBSET PenBits :
                /\ clock' = t /\ inRange' = TRUE
                /\ state' = [place |-> p, buttons |-> pressed]
                /\ fState' = [fState EXCEPT !.when = t]
          \/ /\ state' = [place |-> p, buttons |-> {}]
             /\ inRange' = FALSE
             /\ fState' = [fState EXCEPT !.when = t]
             /\ clock' = clock
    BY DEF ReadPacket
  <2>2. {} \in SUBSET PenBits
    OBVIOUS
  <2> QED BY <2>1, <2>2
<1>2. /\ UNCHANGED <<ctl, fWatcherThread, fRun, suspended, bit, server, untold>>
      /\ thread = "read" /\ thread' = "move"
  BY DEF ReadPacket, Watcher, control
<1>3. fState' \in TabletState /\ fState'.place = fState.place /\ fState'.buttons = fState.buttons
  BY <1>1 DEF TypeOK, TabletState
<1>4. TypeOK'
  BY <1>1, <1>2, <1>3 DEF TypeOK
<1>5. PhaseInv' /\ SyncInv'
  BY <1>2 DEF PhaseInv, SyncInv, Live
<1>6. ToldInv'
  BY <1>2, <1>3 DEF ToldInv
<1> QED BY <1>4, <1>5, <1>6

LEMMA NextIndInv == IndInv /\ [Next]_vars => IndInv'
<1> SUFFICES ASSUME IndInv, [Next]_vars PROVE IndInv'
  OBVIOUS
<1> USE DEF IndInv
<1>1. CASE Move
  BY <1>1, MoveStep
<1>2. CASE Button
  BY <1>2, ButtonStep
<1>3. CASE ReadPacket
  BY <1>3, PacketStep
<1>4. CASE StartSpawn \/ StopSuspend \/ ControlNext
  <2>1. UNCHANGED <<clock, state, inRange, bit, fState, server, untold>>
    BY <1>4 DEF StartSpawn, StopSuspend, ControlNext, StartRun, StartResume, StopClear, StopWait, StopJoin, Control
  <2>2. TypeOK' /\ PhaseInv'
    <3> USE <2>1 DEF TypeOK, PhaseInv, Live, Control
    <3>1. CASE StartSpawn
      BY <3>1 DEF StartSpawn
    <3>2. CASE StopSuspend
      BY <3>2 DEF StopSuspend
    <3>3. CASE StartRun
      BY <3>3 DEF StartRun
    <3>4. CASE StartResume
      BY <3>4 DEF StartResume
    <3>5. CASE StopClear
      BY <3>5 DEF StopClear
    <3>6. CASE StopWait
      BY <3>6 DEF StopWait
    <3>7. CASE StopJoin
      BY <3>7 DEF StopJoin
    <3> QED BY <1>4, <3>1, <3>2, <3>3, <3>4, <3>5, <3>6, <3>7 DEF ControlNext
  <2>3. thread' = thread \/ thread' \in {"new", "loop", "none"}
    BY <1>4 DEF StartSpawn, StopSuspend, ControlNext, StartRun, StartResume, StopClear, StopWait, StopJoin
  <2>4. ToldInv' /\ SyncInv'
    BY <2>1, <2>3 DEF ToldInv, SyncInv, Synced
  <2> QED BY <2>2, <2>4
<1>5. CASE Loop \/ ReadFails \/ ButtonsDone \/ Snooze
  <2>1. UNCHANGED <<ctl, fWatcherThread, fRun, suspended, clock, state, bit, fState, server, untold>>
    BY <1>5 DEF Loop, ReadFails, ButtonsDone, Snooze, Watcher, control
  <2>2. TypeOK' /\ PhaseInv'
    BY <1>5, <2>1 DEF TypeOK, PhaseInv, Live, Loop, ReadFails, ButtonsDone, Snooze, Watcher
  <2>3. ToldInv'
    BY <2>1 DEF ToldInv
  <2>4. SyncInv'
    BY <1>5, <2>1 DEF SyncInv, Synced, Loop, ReadFails, ButtonsDone, Snooze, Watcher
  <2> QED BY <2>2, <2>3, <2>4
<1>6. CASE UNCHANGED vars
  BY <1>6 DEF vars, control, TypeOK, PhaseInv, ToldInv, SyncInv, Synced
<1> QED BY <1>1, <1>2, <1>3, <1>4, <1>5, <1>6 DEF Next, WatcherNext

LEMMA Inductive == Spec => []IndInv
BY InitIndInv, NextIndInv, PTL DEF Spec

\* Types: every message is made of places and buttons that exist, whatever was
\* not initialized.
THEOREM TabletTypes == Spec => []TypeOK
<1>1. IndInv => TypeOK
  BY DEF IndInv
<1> QED BY Inductive, <1>1, PTL

\* The watcher lives from Start to Stop (TabletDevice.cpp:142, :156).
THEOREM TabletWatched == Spec => []WatchedWhileStarted
<1>1. IndInv => WatchedWhileStarted
  BY DEF IndInv, PhaseInv, WatchedWhileStarted, Live
<1> QED BY Inductive, <1>1, PTL

\* The messages tell where the pen is and what it presses (TabletDevice.cpp:188),
\* but for what was not told: never made, or refused by EnqueueMessage.
THEOREM TabletFollowed == Spec => []ServerFollowsPen
<1>1. IndInv => ServerFollowsPen
  <2> SUFFICES ASSUME IndInv, thread = "snooze", inRange
               PROVE  /\ \A b \in Bits : b \in untold \/ (b \in server.pressed <=> b \in state.buttons)
                      /\ Place \in untold \/ server.place = state.place
    BY DEF ServerFollowsPen
  <2>1. Synced(NBits) /\ ToldInv
    BY DEF IndInv, SyncInv
  <2> QED BY <2>1, BitsFacts DEF Synced, ToldInv
<1> QED BY Inductive, <1>1, PTL

-----------------------------------------------------------------------------
(* Clicks.                                                                 *)

Down == [button : Bits, when : Times, clicks : Int]

DownsInv ==
    /\ downs \in Seq(Down)
    /\ downs = <<>> => fLastClickBtn = -1
    /\ downs # <<>> =>
          LET last == downs[Len(downs)]
          IN  fLastClickBtn = last.button /\ fLastClick = last.when /\ fState.clicks = last.clicks

\* ClicksAreSlow, of any sequence of presses.
FollowsIn(d, k) ==
    k > 1 /\ d[k].button = d[k - 1].button /\ d[k].when - d[k - 1].when >= doubleClickDelay
SlowAt(d, k, n) ==
    n \in 1..k /\ (\A j \in (k - n + 2)..k : FollowsIn(d, j)) /\ ~FollowsIn(d, k - n + 1)
SlowIn(d) == \A k \in DOMAIN d : SlowAt(d, k, d[k].clicks)

LEMMA SlowInDowns == ClicksAreSlow <=> SlowIn(downs)
BY DEF ClicksAreSlow, Follows, SlowIn, SlowAt, FollowsIn

\* A press that follows the last one counts one more, any other counts one.
LEMMA NextPress ==
  ASSUME NEW d \in Seq(Down), SlowIn(d), NEW e \in Down,
         IF /\ d # <<>> /\ e.button = d[Len(d)].button
            /\ e.when - d[Len(d)].when >= doubleClickDelay
         THEN e.clicks = d[Len(d)].clicks + 1 ELSE e.clicks = 1
  PROVE  SlowIn(Append(d, e))
<1> DEFINE L == Len(d)
           c == Append(d, e)
<1>1. L \in Nat /\ DOMAIN d = 1..L /\ DOMAIN c = 1..(L + 1) /\ c[L + 1] = e /\ \A k \in 1..L : c[k] = d[k]
  OBVIOUS
<1>2. d # <<>> <=> L > 0
  OBVIOUS
<1> HIDE DEF c, L
<1>3. \A k \in 1..L : FollowsIn(c, k) <=> FollowsIn(d, k)
  BY <1>1 DEF FollowsIn
<1>4. FollowsIn(c, L + 1) <=> L > 0 /\ e.button = d[L].button /\ e.when - d[L].when >= doubleClickDelay
  BY <1>1 DEF FollowsIn
<1>5. ASSUME NEW k \in 1..(L + 1) PROVE SlowAt(c, k, c[k].clicks)
  <2>1. CASE k \in 1..L
    <3> DEFINE n == d[k].clicks
    <3>1. SlowAt(d, k, n) /\ c[k].clicks = n
      BY <1>1, <2>1 DEF SlowIn
    <3>2. n \in 1..k
      BY <3>1 DEF SlowAt
    <3> HIDE DEF n
    <3>3. k - n + 1 \in 1..L /\ \A j \in (k - n + 2)..k : j \in 1..L
      BY <1>1, <2>1, <3>2
    <3> QED BY <1>3, <3>1, <3>3 DEF SlowAt
  <2>2. CASE k = L + 1 /\ FollowsIn(c, L + 1)
    <3> DEFINE n == d[L].clicks
    <3>1. L \in 1..L /\ SlowAt(d, L, n)
      BY <1>1, <1>4, <2>2 DEF SlowIn
    <3>2. c[k].clicks = n + 1
      BY <1>1, <1>2, <1>4, <2>2 DEF L
    <3>3. n \in 1..L
      BY <3>1 DEF SlowAt
    <3> HIDE DEF n
    <3>4. /\ n + 1 \in 1..k
          /\ k - (n + 1) + 1 = L - n + 1 /\ L - n + 1 \in 1..L
          /\ \A j \in (k - (n + 1) + 2)..k : j = L + 1 \/ (j \in (L - n + 2)..L /\ j \in 1..L)
      BY <1>1, <2>2, <3>3
    <3> QED BY <1>3, <2>2, <3>1, <3>2, <3>4 DEF SlowAt
  <2>3. CASE k = L + 1 /\ ~FollowsIn(c, L + 1)
    <3>1. c[k].clicks = 1
      BY <1>1, <1>2, <1>4, <2>3 DEF L
    <3> QED BY <1>1, <2>3, <3>1 DEF SlowAt
  <2> QED BY <1>1, <2>1, <2>2, <2>3
<1>6. \A k \in 1..(L + 1) : SlowAt(c, k, c[k].clicks)
  BY <1>5
<1>7. SlowIn(c)
  BY <1>1, <1>6 DEF SlowIn
<1> QED BY <1>7 DEF c

\* Nothing but a B_MOUSE_DOWN counts clicks.
LEMMA CountedBy ==
  ASSUME TypeOK, [Next]_vars
  PROVE  \/ UNCHANGED <<clicking, fState.clicks>>
         \/ /\ bit \in Bits /\ fState'.clicks = Clicks(bit)
            /\ fLastClickBtn' = bit /\ fLastClick' = fState.when
            /\ downs' = Append(downs, [button |-> bit, when |-> fState.when, clicks |-> Clicks(bit)])
<1>1. CASE Move
  BY <1>1 DEF Move, TypeOK, TabletState
<1>2. CASE ReadPacket
  BY <1>2 DEF ReadPacket, TypeOK, TabletState
<1>3. CASE Button
  <2>1. bit \in Bits
    BY <1>3, TabletAssumption DEF Button, TypeOK, Bits
  <2> QED BY <1>3, <2>1 DEF Button, TypeOK, TabletState
<1>4. CASE StartSpawn \/ StopSuspend \/ ControlNext
  BY <1>4 DEF StartSpawn, StopSuspend, ControlNext, StartRun, StartResume, StopClear, StopWait, StopJoin, Control
<1>5. CASE Loop \/ ReadFails \/ ButtonsDone \/ Snooze
  BY <1>5 DEF Loop, ReadFails, ButtonsDone, Snooze
<1>6. CASE UNCHANGED vars
  BY <1>6 DEF vars
<1> QED BY <1>1, <1>2, <1>3, <1>4, <1>5, <1>6 DEF Next, WatcherNext

\* The next press follows the last one, or starts again with one.
LEMMA ClicksStep == TypeOK /\ DownsInv /\ SlowIn(downs) /\ [Next]_vars => DownsInv' /\ SlowIn(downs')
<1> SUFFICES ASSUME TypeOK, DownsInv, SlowIn(downs), [Next]_vars PROVE DownsInv' /\ SlowIn(downs')
  OBVIOUS
<1>1. CASE UNCHANGED <<clicking, fState.clicks>>
  BY <1>1 DEF clicking, DownsInv
<1>2. CASE /\ bit \in Bits /\ fState'.clicks = Clicks(bit)
           /\ fLastClickBtn' = bit /\ fLastClick' = fState.when
           /\ downs' = Append(downs, [button |-> bit, when |-> fState.when, clicks |-> Clicks(bit)])
  <2> DEFINE e == [button |-> bit, when |-> fState.when, clicks |-> Clicks(bit)]
  <2>1. fState.when \in Times /\ fState.clicks \in Int /\ Clicks(bit) \in Int
    BY DEF TypeOK, TabletState, Clicks
  <2>2. e \in Down /\ downs \in Seq(Down)
    BY <1>2, <2>1 DEF Down, DownsInv
  <2>3. downs' \in Seq(Down) /\ downs' # <<>> /\ downs'[Len(downs')] = e
    BY <1>2, <2>2
  <2>4. DownsInv'
    BY <1>2, <2>3 DEF DownsInv
  <2>5. downs = <<>> => bit # fLastClickBtn
    BY <1>2, BitsFacts DEF DownsInv
  <2>6. IF /\ downs # <<>> /\ e.button = downs[Len(downs)].button
           /\ e.when - downs[Len(downs)].when >= doubleClickDelay
        THEN e.clicks = downs[Len(downs)].clicks + 1 ELSE e.clicks = 1
    BY <2>5 DEF DownsInv, Clicks
  <2> HIDE DEF e
  <2>7. SlowIn(Append(downs, e))
    BY <2>2, <2>6, NextPress
  <2> QED BY <1>2, <2>4, <2>7 DEF e
<1> QED BY <1>1, <1>2, CountedBy

\* A B_MOUSE_DOWN tells how many presses of its button came in a row, each
\* doubleClickDelay or more after the one before (TabletDevice.cpp:210), and
\* counts from nothing that was not initialized, whatever clicks is at first.
THEOREM TabletClicks == Spec => []ClicksAreSlow
<1> DEFINE CountInv == DownsInv /\ SlowIn(downs)
<1>1. Init => CountInv
  BY DEF Init, DownsInv, SlowIn
<1>2. CountInv /\ IndInv /\ [Next]_vars => CountInv'
  BY ClicksStep DEF IndInv
<1>3. CountInv => ClicksAreSlow
  BY SlowInDowns
<1> HIDE DEF CountInv
<1> QED BY Inductive, <1>1, <1>2, <1>3, PTL DEF Spec
=============================================================================
