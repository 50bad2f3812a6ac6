----------------------------- MODULE GLViewProofs -----------------------------
(***************************************************************************)
(* Proofs about module GLView, for any sizes and any number of resizes,    *)
(* keys and calls of the direct window: what each thread holds at each of  *)
(* its labels, and what follows for the bitmaps and the frame buffer.      *)
(***************************************************************************)
EXTENDS GLView, SequenceTheorems, TLAPS

\* The threads that draw.
Drawer == {W, R}

------------------------------------------------------------------------------
(* Where the threads are.                                                  *)

\* Between the LockGL and the UnlockGL of SwapBuffers.
Inner == {"show", "askLooper", "paint", "painted", "blit", "blitted", "realloc"}
SwapBody == {"swap", "raise", "lower", "swapUnlockDraw"} \cup Inner

\* The labels at which nothing is called.
Own(t) ==
  IF t = R THEN {"run", "ended", "frame", "frameDone"}
  ELSE {"idle", "drawLock", "draw", "drawn", "drawUnlock", "resizeLock", "resize", "reshape",
        "copyRaise", "copy", "copyLower", "join", "viewport", "handled"}

Label ==
  Own(W) \cup Own(R) \cup SwapBody \cup {"lockGL", "rendererLock", "unlockGL", "callRenderer", "stopping"}

\* Where SwapBuffers, LockGL and UnlockGL return to.
Home(t) == IF t = R THEN "frameDone" ELSE "handled"
AfterLock(t) == IF t = R THEN {"frame"} ELSE {"reshape", "copy", "viewport"}
AfterUnlock(t) == IF t = R THEN {"run"} ELSE {"handled", "copyLower"}

\* A thread is at a label of its own, or SwapBuffers, LockGL or UnlockGL were
\* called from one, or LockGL or UnlockGL from SwapBuffers.
StackOf(t) ==
  \/ pc[t] \in Own(t) /\ stack[t] = <<>>
  \/ pc[t] \in SwapBody /\ stack[t] = <<Home(t)>>
  \/ pc[t] \in {"lockGL", "rendererLock"} /\ \E l \in AfterLock(t) : stack[t] = <<l>>
  \/ pc[t] \in {"lockGL", "rendererLock"} /\ stack[t] = <<"show", Home(t)>>
  \/ pc[t] = "unlockGL" /\ \E l \in AfterUnlock(t) : stack[t] = <<l>>
  \/ pc[t] = "unlockGL" /\ stack[t] = <<"lower", Home(t)>>

StackInv ==
  /\ pc \in [Thread -> Label] /\ stack \in [Thread -> Seq(Label)]
  /\ \A t \in Drawer : StackOf(t)
  /\ pc[D] \in {"idle", "callRenderer", "stopping"} /\ stack[D] = <<>>

\* The label that LockGL and UnlockGL return to.
To(t) == stack[t][1]

------------------------------------------------------------------------------
(* What they hold.                                                         *)

\* How often a thread has locked fDisplayLock.  The render thread calls
\* SwapBuffers between LockGL and UnlockGL.
Held(t) ==
  IF t = W THEN IF pc[W] \in Inner \cup {"rendererLock", "unlockGL", "reshape", "copy", "viewport"} THEN 1 ELSE 0
  ELSE IF pc[R] \in Inner \/ (pc[R] = "unlockGL" /\ To(R) = "lower") THEN 2
  ELSE IF \/ pc[R] \in {"rendererLock", "unlockGL", "frame", "frameDone", "swap", "raise", "lower", "swapUnlockDraw"}
          \/ pc[R] = "lockGL" /\ To(R) = "show"
       THEN 1 ELSE 0

\* Between LockGL and UnlockGL a thread's context is current.
Current(t) == Held(t) # 0 /\ pc[t] # "rendererLock"

\* _LockDraw and _UnlockDraw.
HoldsDraw(t) ==
  \/ pc[t] \in {"raise", "lower", "swapUnlockDraw"} \cup Inner
  \/ pc[t] \in {"lockGL", "rendererLock"} /\ To(t) = "show"
  \/ pc[t] = "unlockGL" /\ To(t) = "lower"
  \/ pc[t] \in {"draw", "drawn", "drawUnlock", "resize"}

\* fSwapBuffersLevel counts those who have to keep the bitmap.
Level(t) ==
  IF \/ pc[t] \in {"lower", "copy", "copyLower"} \cup Inner
     \/ pc[t] \in {"lockGL", "rendererLock"} /\ To(t) \in {"show", "copy"}
     \/ pc[t] = "unlockGL" /\ To(t) \in {"lower", "copyLower"}
  THEN 1 ELSE 0

LooperInv ==
  /\ looper \in {None, W, R}
  /\ looper = W <=> pc[W] # "idle"
  /\ looper = R <=> pc[R] \in {"paint", "painted"}

DisplayInv ==
  /\ display \in [owner : {None, W, R}, count : 0..2]
  /\ \A t \in Drawer : display.owner = t <=> Held(t) # 0
  /\ display.count = IF display.owner = None THEN 0 ELSE Held(display.owner)
  /\ pc[R] = "rendererLock" => To(R) = "frame"

\* In direct mode; otherwise fDrawLock is not used.
DrawInv ==
  /\ fDirectModeEnabled \in BOOLEAN
  /\ draw \in [owner : {None, W, R, D}, count : 0..1]
  /\ draw.owner = None <=> draw.count = 0
  /\ \A t \in Drawer : draw.owner = t <=> fDirectModeEnabled /\ HoldsDraw(t)
  /\ draw.owner = D => fDirectModeEnabled /\ (stopped \/ pc[D] = "stopping")

LockerInv ==
  /\ fLocker \in {None, W, R}
  /\ \A t \in Drawer : fLocker = t <=> pc[t] \in {"drawn", "blitted"}

LevelInv == swapLevel = Level(W) + Level(R)

------------------------------------------------------------------------------
(* What follows.                                                           *)

\* A thread that holds the display lock has the bitmap in its context, which
\* no other thread can replace; a frame is shown before it is replaced.
ContextInv ==
  /\ size \in Size /\ backBuf \in [id : Nat, size : Size]
  /\ current \in [Thread -> Nat \cup {None}]
  /\ \A t \in Thread : current[t] = IF t \in Drawer /\ Current(t) THEN backBuf.id ELSE None
  /\ \/ pc[R] \in {"swap", "raise"} \cup Inner
     \/ pc[R] = "lockGL" /\ To(R) = "show"
     => drawn = backBuf.id

\* A thread that copies the bitmap to the screen holds the display lock, or
\* fLocker, without which it is not replaced.
PaintingInv ==
  /\ painting \in [Thread -> Nat \cup {None}]
  /\ \A t \in Thread : painting[t] = IF t \in Drawer /\ pc[t] \in {"painted", "drawn", "blitted"} THEN backBuf.id ELSE None

\* The server is told of a stop under fDrawLock, which is kept until the start;
\* before the first start there is no frame buffer.
StopInv ==
  /\ clip \in {"empty", "rects"} /\ fInfo \in {"null", "empty", "rects"}
  /\ stopped \in BOOLEAN
  /\ pc[D] # "idle" => fDirectModeEnabled /\ ~stopped
  /\ pc[D] = "stopping" => draw.owner = D
  /\ stopped /\ draw.owner # D => clip = "empty" /\ fInfo # "rects"
  /\ \A t \in Drawer : pc[t] \in {"blit", "blitted"} => fDirectModeEnabled
  /\ \A t \in writing : t \in Drawer /\ pc[t] = "blitted" /\ ~stopped

IndInv ==
  /\ StackInv /\ LooperInv /\ DisplayInv /\ DrawInv /\ LockerInv /\ LevelInv
  /\ ContextInv /\ PaintingInv /\ StopInv

------------------------------------------------------------------------------
(* Control flow.                                                           *)

\* What SMT needs to know of sequences of one and two labels.
LEMMA Stacks ==
  ASSUME NEW a \in Label, NEW b \in Label
  PROVE  /\ <<a>> \o <<>> = <<a>> /\ <<a>> \o <<b>> = <<a, b>>
         /\ Head(<<a>>) = a /\ Tail(<<a>>) = <<>> /\ <<a>>[1] = a
         /\ Head(<<a, b>>) = a /\ Tail(<<a, b>>) = <<b>> /\ <<a, b>>[1] = a
         /\ <<>> \in Seq(Label) /\ <<a>> \in Seq(Label) /\ <<a, b>> \in Seq(Label)
         /\ <<>> # <<a>> /\ <<>> # <<a, b>>
<1>1. <<>> \in Seq(Label) /\ <<a>> \in Seq(Label) /\ <<b>> \in Seq(Label) /\ <<a, b>> \in Seq(Label)
  OBVIOUS
<1>2. <<a>> \o <<b>> = <<a, b>>
  <2>1. Len(<<a>> \o <<b>>) = Len(<<a, b>>)
    BY <1>1
  <2>2. \A i \in 1..Len(<<a>> \o <<b>>) : (<<a>> \o <<b>>)[i] = <<a, b>>[i]
    BY <1>1
  <2>3. <<a>> \o <<b>> \in Seq(Label)
    BY <1>1
  <2> QED BY <1>1, <2>1, <2>2, <2>3, SeqEqual
<1>3. <<a>> \o <<>> = <<a>>
  OBVIOUS
<1>4. Head(<<a>>) = a /\ Tail(<<a>>) = <<>> /\ <<a>>[1] = a
  OBVIOUS
<1>5. Head(<<a, b>>) = a /\ Tail(<<a, b>>) = <<b>> /\ <<a, b>>[1] = a
  OBVIOUS
<1>6. <<>> # <<a>> /\ <<>> # <<a, b>>
  OBVIOUS
<1> QED BY <1>1, <1>2, <1>3, <1>4, <1>5, <1>6

\* The labels a thread returns to are labels.
LEMMA Returns ==
  ASSUME NEW t \in Drawer
  PROVE  /\ {Home(t), "show", "lower", "lockGL", "rendererLock", "unlockGL"} \subseteq Label
         /\ Own(t) \subseteq Label /\ SwapBody \subseteq Label
         /\ AfterLock(t) \cup AfterUnlock(t) \cup {Home(t)} \subseteq Own(t)
         /\ {"show", "lower", "swap", "swapUnlockDraw"} \subseteq SwapBody
         /\ \A l \in {"lockGL", "rendererLock", "unlockGL"} : l \notin Own(t) /\ l \notin SwapBody
         /\ \A l \in Own(t) : l \notin SwapBody
BY GLViewAssumption DEF Drawer, Home, AfterLock, AfterUnlock, Own, SwapBody, Inner, Label

\* Only thread t moves, to label l.
Moves(t, l) ==
  /\ \A u \in Thread : pc'[u] = IF u = t THEN l ELSE pc[u]
  /\ \A u \in Thread \ {t} : To(u)' = To(u)

\* Thread t moves and the others do not.
LEMMA OneMoves ==
  ASSUME StackInv, NEW t \in Drawer, NEW l \in Label, NEW q \in Seq(Label),
         pc' = [pc EXCEPT ![t] = l], stack' = [stack EXCEPT ![t] = q], StackOf(t)'
  PROVE  StackInv' /\ Moves(t, l) /\ stack'[t] = q
<1> USE GLViewAssumption DEF Thread, Drawer
<1>1. pc' \in [Thread -> Label] /\ stack' \in [Thread -> Seq(Label)]
  BY DEF StackInv
<1>2. \A u \in Thread \ {t} : pc'[u] = pc[u] /\ stack'[u] = stack[u]
  BY DEF StackInv
<1>3. \A u \in Drawer : StackOf(u)'
  BY <1>2 DEF StackInv, StackOf
<1>4. pc'[t] = l /\ stack'[t] = q
  BY DEF StackInv
<1> QED BY <1>1, <1>2, <1>3, <1>4 DEF StackInv, Moves, To

LEMMA GotoMoves ==
  ASSUME StackInv, NEW t \in Drawer, NEW from, NEW to \in Label, Goto(t, from, to),
         \/ from \in Own(t) /\ to \in Own(t)
         \/ from \in SwapBody /\ to \in SwapBody
         \/ from = "lockGL" /\ to = "rendererLock"
  PROVE  StackInv' /\ Moves(t, to) /\ To(t)' = To(t)
<1>1. pc' = [pc EXCEPT ![t] = to] /\ stack' = stack /\ pc[t] = from
  BY DEF Goto
<1>2. t \in Thread /\ stack[t] \in Seq(Label) /\ stack = [stack EXCEPT ![t] = stack[t]]
  BY DEF StackInv, Thread, Drawer
<1>3. pc'[t] = to
  BY <1>1, <1>2 DEF StackInv
<1>4. StackOf(t)'
  BY <1>1, <1>3, Returns DEF StackInv, StackOf
<1> QED BY <1>1, <1>2, <1>4, OneMoves DEF To

LEMMA CallMoves ==
  ASSUME StackInv, NEW t \in Drawer, NEW from, NEW method, NEW back,
         CallFrom(t, from, method, back),
         \/ from \in Own(t) /\ method = "swap" /\ back = Home(t)
         \/ from \in Own(t) /\ method = "lockGL" /\ back \in AfterLock(t)
         \/ from \in Own(t) /\ method = "unlockGL" /\ back \in AfterUnlock(t)
         \/ from \in SwapBody /\ method = "lockGL" /\ back = "show"
         \/ from \in SwapBody /\ method = "unlockGL" /\ back = "lower"
  PROVE  StackInv' /\ Moves(t, method) /\ To(t)' = back
<1> DEFINE q == <<back>> \o stack[t]
<1>1. pc' = [pc EXCEPT ![t] = method] /\ stack' = [stack EXCEPT ![t] = q] /\ pc[t] = from
  BY DEF CallFrom
<1>2. t \in Thread /\ method \in Label /\ back \in Label /\ Home(t) \in Label
  BY Returns DEF Thread, Drawer
<1>3. stack[t] = (IF from \in Own(t) THEN <<>> ELSE <<Home(t)>>)
  BY <1>1, Returns DEF StackInv, StackOf
<1>4. q = (IF from \in Own(t) THEN <<back>> ELSE <<back, Home(t)>>) /\ q \in Seq(Label) /\ q[1] = back
  <2>1. CASE from \in Own(t)
    BY <1>2, <1>3, <2>1, Stacks
  <2>2. CASE from \notin Own(t)
    <3>1. q = <<back>> \o <<Home(t)>>
      BY <1>3, <2>2
    <3> HIDE DEF q
    <3> QED BY <1>2, <2>2, <3>1, Stacks
  <2> QED BY <2>1, <2>2
<1> HIDE DEF q
<1>5. pc'[t] = method /\ stack'[t] = q
  BY <1>1, <1>2 DEF StackInv
<1>6. StackOf(t)'
  BY <1>4, <1>5, Returns DEF StackOf
<1> QED BY <1>1, <1>2, <1>4, <1>5, <1>6, OneMoves DEF To

LEMMA ReturnMoves ==
  ASSUME StackInv, NEW t \in Drawer, NEW from \in {"lockGL", "rendererLock", "unlockGL", "swapUnlockDraw"},
         Return(t, from)
  PROVE  StackInv' /\ Moves(t, To(t))
<1> DEFINE l == Head(stack[t])  q == Tail(stack[t])
<1>1. pc' = [pc EXCEPT ![t] = l] /\ stack' = [stack EXCEPT ![t] = q] /\ pc[t] = from
  BY DEF Return
<1>2. t \in Thread /\ Home(t) \in Label /\ "show" \in Label /\ "lower" \in Label
  BY Returns DEF Thread, Drawer
<1>3. \/ \E k \in AfterLock(t) \cup AfterUnlock(t) \cup {Home(t)} : stack[t] = <<k>>
      \/ \E k \in {"show", "lower"} : stack[t] = <<k, Home(t)>>
  <2>1. from \in SwapBody => from = "swapUnlockDraw"
    BY Returns
  <2>2. from \notin Own(t)
    BY Returns
  <2> QED BY <1>1, <2>1, <2>2 DEF StackInv, StackOf
<1>4. \/ l = To(t) /\ l \in Own(t) /\ q = <<>>
      \/ l = To(t) /\ l \in SwapBody /\ q = <<Home(t)>>
  <2>1. CASE \E k \in AfterLock(t) \cup AfterUnlock(t) \cup {Home(t)} : stack[t] = <<k>>
    <3>1. PICK k \in AfterLock(t) \cup AfterUnlock(t) \cup {Home(t)} : stack[t] = <<k>>
      BY <2>1
    <3>2. k \in Own(t) /\ k \in Label
      BY Returns
    <3> QED BY <3>1, <3>2, Stacks DEF To
  <2>2. CASE \E k \in {"show", "lower"} : stack[t] = <<k, Home(t)>>
    <3>1. PICK k \in {"show", "lower"} : stack[t] = <<k, Home(t)>>
      BY <2>2
    <3>2. k \in SwapBody /\ k \in Label
      BY Returns
    <3> QED BY <1>2, <3>1, <3>2, Stacks DEF To
  <2> QED BY <1>3, <2>1, <2>2
<1> HIDE DEF l, q
<1>5. l \in Label /\ q \in Seq(Label)
  <2>1. l \in Label
    BY <1>4, Returns
  <2>2. <<>> \in Seq(Label) /\ <<Home(t)>> \in Seq(Label)
    BY <1>2, Stacks
  <2> QED BY <1>4, <2>1, <2>2
<1>6. pc'[t] = l /\ stack'[t] = q
  BY <1>1, <1>2 DEF StackInv
<1>7. StackOf(t)'
  BY <1>4, <1>6 DEF StackOf
<1> QED BY <1>1, <1>4, <1>5, <1>7, OneMoves

\* Where a thread is, and where it returns to.
LEMMA Labels ==
  ASSUME StackInv, NEW t \in Drawer
  PROVE  /\ pc[t] \in Own(t) \cup SwapBody \cup {"lockGL", "rendererLock", "unlockGL"}
         /\ pc[t] \in {"lockGL", "rendererLock"} => To(t) \in AfterLock(t) \cup {"show"}
         /\ pc[t] = "unlockGL" => To(t) \in AfterUnlock(t) \cup {"lower"}
         /\ pc[t] = "swapUnlockDraw" => To(t) = Home(t)
<1> DEFINE K == AfterLock(t) \cup AfterUnlock(t) \cup {Home(t), "show", "lower"}
<1>1. \A k \in K : <<k>>[1] = k /\ <<k, Home(t)>>[1] = k
  <2> TAKE k \in K
  <2>1. k \in Label /\ Home(t) \in Label
    BY Returns
  <2> QED BY <2>1, Stacks
<1>2. \/ pc[t] \in Own(t)
      \/ pc[t] \in SwapBody /\ To(t) = Home(t)
      \/ pc[t] \in {"lockGL", "rendererLock"} /\ To(t) \in AfterLock(t) \cup {"show"}
      \/ pc[t] = "unlockGL" /\ To(t) \in AfterUnlock(t) \cup {"lower"}
  <2>1. StackOf(t)
    BY DEF StackInv
  <2>2. \A k \in K : stack[t] = <<k>> \/ stack[t] = <<k, Home(t)>> => To(t) = k
    BY <1>1 DEF To
  <2> QED BY <2>1, <2>2 DEF StackOf
<1> QED BY <1>2, Returns

\* The direct window's thread calls nothing that is modelled in steps.
LEMMA DirectMoves ==
  ASSUME StackInv, NEW from, NEW to \in {"idle", "callRenderer", "stopping"}, Goto(D, from, to)
  PROVE  StackInv' /\ Moves(D, to)
<1> USE GLViewAssumption DEF Thread, Drawer
<1>1. pc' = [pc EXCEPT ![D] = to] /\ stack' = stack
  BY DEF Goto
<1>2. to \in Label
  BY DEF Label, Own
<1>3. \A u \in Drawer : StackOf(u)'
  BY <1>1 DEF StackInv, StackOf
<1> QED BY <1>1, <1>2, <1>3 DEF StackInv, Moves, To

------------------------------------------------------------------------------
(* One lemma per action.                                                   *)

LEMMA SwapLockDrawInv ==
  ASSUME IndInv, NEW t \in Drawer, SwapLockDraw(t)
  PROVE  IndInv'
<1> USE GLViewAssumption DEF Thread, Drawer, Inner, Own, SwapBody, AfterLock, AfterUnlock, Home,
      SwapLockDraw, LockDraw, CanLock, Locked, locks, buffers, screen, client
<1>1. StackInv' /\ Moves(t, "raise") /\ To(t)' = To(t) /\ pc[t] = "swap"
  BY GotoMoves, Returns DEF IndInv, Goto
<1>2. LooperInv' /\ LockerInv' /\ LevelInv'
  BY <1>1, Labels DEF IndInv, Moves, LooperInv, LockerInv, LevelInv, Level
<1>3. DisplayInv' /\ DrawInv'
  BY <1>1, Labels DEF IndInv, Moves, DisplayInv, DrawInv, Held, HoldsDraw
<1>4. ContextInv'
  BY <1>1, Labels DEF IndInv, Moves, ContextInv, Current, Held, DisplayInv
<1>5. PaintingInv'
  BY <1>1, Labels DEF IndInv, Moves, PaintingInv, ContextInv
<1>6. StopInv'
  BY <1>1, Labels DEF IndInv, Moves, StopInv, DrawInv, HoldsDraw
<1> QED BY <1>1, <1>2, <1>3, <1>4, <1>5, <1>6 DEF IndInv

LEMMA SwapRaiseInv ==
  ASSUME IndInv, NEW t \in Drawer, SwapRaise(t)
  PROVE  IndInv'
<1> USE GLViewAssumption DEF Thread, Drawer, Inner, Own, SwapBody, AfterLock, AfterUnlock, Home,
      SwapRaise, locks, buffers, screen, client
<1>1. StackInv' /\ Moves(t, "lockGL") /\ To(t)' = "show" /\ pc[t] = "raise"
  BY CallMoves, Returns DEF IndInv, CallFrom
<1>2. LooperInv' /\ LockerInv' /\ LevelInv'
  BY <1>1, Labels DEF IndInv, Moves, LooperInv, LockerInv, LevelInv, Level
<1>3. DisplayInv' /\ DrawInv'
  BY <1>1, Labels DEF IndInv, Moves, DisplayInv, DrawInv, Held, HoldsDraw
<1>4. ContextInv'
  BY <1>1, Labels DEF IndInv, Moves, ContextInv, Current, Held, DisplayInv
<1>5. PaintingInv'
  BY <1>1, Labels DEF IndInv, Moves, PaintingInv, ContextInv
<1>6. StopInv'
  BY <1>1, Labels DEF IndInv, Moves, StopInv, DrawInv, HoldsDraw
<1> QED BY <1>1, <1>2, <1>3, <1>4, <1>5, <1>6 DEF IndInv

LEMMA SwapChooseInv ==
  ASSUME IndInv, NEW t \in Drawer, SwapChoose(t)
  PROVE  IndInv'
<1> USE GLViewAssumption DEF Thread, Drawer, Inner, Own, SwapBody, AfterLock, AfterUnlock, Home,
      SwapChoose, locks, buffers, screen, client
<1>1. StackInv' /\ ((fDirectModeEnabled /\ Moves(t, "blit")) \/ Moves(t, "askLooper")) /\ To(t)' = To(t) /\ pc[t] = "show"
  BY GotoMoves, Returns DEF IndInv, Goto
<1>2. LooperInv' /\ LockerInv' /\ LevelInv'
  BY <1>1, Labels DEF IndInv, Moves, LooperInv, LockerInv, LevelInv, Level
<1>3. DisplayInv' /\ DrawInv'
  BY <1>1, Labels DEF IndInv, Moves, DisplayInv, DrawInv, Held, HoldsDraw
<1>4. ContextInv'
  BY <1>1, Labels DEF IndInv, Moves, ContextInv, Current, Held, DisplayInv
<1>5. PaintingInv'
  BY <1>1, Labels DEF IndInv, Moves, PaintingInv, ContextInv
<1>6. StopInv'
  BY <1>1, Labels DEF IndInv, Moves, StopInv, DrawInv, HoldsDraw
<1> QED BY <1>1, <1>2, <1>3, <1>4, <1>5, <1>6 DEF IndInv

LEMMA SwapAskLooperInv ==
  ASSUME IndInv, NEW t \in Drawer, SwapAskLooper(t)
  PROVE  IndInv'
<1> USE GLViewAssumption DEF Thread, Drawer, Inner, Own, SwapBody, AfterLock, AfterUnlock, Home,
      SwapAskLooper, locks, buffers, screen, client
<1>1. StackInv' /\ (IF looper \in {None, t} THEN Moves(t, "paint") ELSE Moves(t, "realloc")) /\ To(t)' = To(t) /\ pc[t] = "askLooper"
  BY GotoMoves, Returns DEF IndInv, Goto
<1>2. LooperInv' /\ LockerInv' /\ LevelInv'
  BY <1>1, Labels DEF IndInv, Moves, LooperInv, LockerInv, LevelInv, Level
<1>3. DisplayInv' /\ DrawInv'
  BY <1>1, Labels DEF IndInv, Moves, DisplayInv, DrawInv, Held, HoldsDraw
<1>4. ContextInv'
  BY <1>1, Labels DEF IndInv, Moves, ContextInv, Current, Held, DisplayInv
<1>5. PaintingInv'
  BY <1>1, Labels DEF IndInv, Moves, PaintingInv, ContextInv
<1>6. StopInv'
  BY <1>1, Labels DEF IndInv, Moves, StopInv, DrawInv, HoldsDraw
<1> QED BY <1>1, <1>2, <1>3, <1>4, <1>5, <1>6 DEF IndInv

LEMMA SwapPaintInv ==
  ASSUME IndInv, NEW t \in Drawer, SwapPaint(t)
  PROVE  IndInv'
<1> USE GLViewAssumption DEF Thread, Drawer, Inner, Own, SwapBody, AfterLock, AfterUnlock, Home,
      SwapPaint, locks, buffers, screen, client
<1>1. StackInv' /\ Moves(t, "painted") /\ To(t)' = To(t) /\ pc[t] = "paint"
  BY GotoMoves, Returns DEF IndInv, Goto
<1>2. LooperInv' /\ LockerInv' /\ LevelInv'
  BY <1>1, Labels DEF IndInv, Moves, LooperInv, LockerInv, LevelInv, Level
<1>3. DisplayInv' /\ DrawInv'
  BY <1>1, Labels DEF IndInv, Moves, DisplayInv, DrawInv, Held, HoldsDraw
<1>4. ContextInv'
  BY <1>1, Labels DEF IndInv, Moves, ContextInv, Current, Held, DisplayInv
<1>5. PaintingInv'
  BY <1>1, Labels DEF IndInv, Moves, PaintingInv, ContextInv
<1>6. StopInv'
  BY <1>1, Labels DEF IndInv, Moves, StopInv, DrawInv, HoldsDraw
<1> QED BY <1>1, <1>2, <1>3, <1>4, <1>5, <1>6 DEF IndInv

LEMMA SwapPaintedInv ==
  ASSUME IndInv, NEW t \in Drawer, SwapPainted(t)
  PROVE  IndInv'
<1> USE GLViewAssumption DEF Thread, Drawer, Inner, Own, SwapBody, AfterLock, AfterUnlock, Home,
      SwapPainted, locks, buffers, screen, client
<1>1. StackInv' /\ Moves(t, "realloc") /\ To(t)' = To(t) /\ pc[t] = "painted"
  BY GotoMoves, Returns DEF IndInv, Goto
<1>2. LooperInv' /\ LockerInv' /\ LevelInv'
  BY <1>1, Labels DEF IndInv, Moves, LooperInv, LockerInv, LevelInv, Level
<1>3. DisplayInv' /\ DrawInv'
  BY <1>1, Labels DEF IndInv, Moves, DisplayInv, DrawInv, Held, HoldsDraw
<1>4. ContextInv'
  BY <1>1, Labels DEF IndInv, Moves, ContextInv, Current, Held, DisplayInv
<1>5. PaintingInv'
  BY <1>1, Labels DEF IndInv, Moves, PaintingInv, ContextInv
<1>6. StopInv'
  BY <1>1, Labels DEF IndInv, Moves, StopInv, DrawInv, HoldsDraw
<1> QED BY <1>1, <1>2, <1>3, <1>4, <1>5, <1>6 DEF IndInv

LEMMA SwapBlitInv ==
  ASSUME IndInv, NEW t \in Drawer, SwapBlit(t)
  PROVE  IndInv'
<1> USE GLViewAssumption DEF Thread, Drawer, Inner, Own, SwapBody, AfterLock, AfterUnlock, Home,
      SwapBlit, locks, buffers, screen, client
<1>1. StackInv' /\ Moves(t, "blitted") /\ To(t)' = To(t) /\ pc[t] = "blit"
  BY GotoMoves, Returns DEF IndInv, Goto
<1>2. LooperInv' /\ LockerInv' /\ LevelInv'
  BY <1>1, Labels DEF IndInv, Moves, LooperInv, LockerInv, LevelInv, Level
<1>3. DisplayInv' /\ DrawInv'
  BY <1>1, Labels DEF IndInv, Moves, DisplayInv, DrawInv, Held, HoldsDraw
<1>4. ContextInv'
  BY <1>1, Labels DEF IndInv, Moves, ContextInv, Current, Held, DisplayInv
<1>5. PaintingInv'
  BY <1>1, Labels DEF IndInv, Moves, PaintingInv, ContextInv
<1>6. StopInv'
  BY <1>1, Labels DEF IndInv, Moves, StopInv, DrawInv, HoldsDraw
<1> QED BY <1>1, <1>2, <1>3, <1>4, <1>5, <1>6 DEF IndInv

LEMMA SwapBlittedInv ==
  ASSUME IndInv, NEW t \in Drawer, SwapBlitted(t)
  PROVE  IndInv'
<1> USE GLViewAssumption DEF Thread, Drawer, Inner, Own, SwapBody, AfterLock, AfterUnlock, Home,
      SwapBlitted, locks, buffers, screen, client
<1>1. StackInv' /\ Moves(t, "realloc") /\ To(t)' = To(t) /\ pc[t] = "blitted"
  BY GotoMoves, Returns DEF IndInv, Goto
<1>2. LooperInv' /\ LockerInv' /\ LevelInv'
  BY <1>1, Labels DEF IndInv, Moves, LooperInv, LockerInv, LevelInv, Level
<1>3. DisplayInv' /\ DrawInv'
  BY <1>1, Labels DEF IndInv, Moves, DisplayInv, DrawInv, Held, HoldsDraw
<1>4. ContextInv'
  BY <1>1, Labels DEF IndInv, Moves, ContextInv, Current, Held, DisplayInv
<1>5. PaintingInv'
  BY <1>1, Labels DEF IndInv, Moves, PaintingInv, ContextInv
<1>6. StopInv'
  BY <1>1, Labels DEF IndInv, Moves, StopInv, DrawInv, HoldsDraw
<1> QED BY <1>1, <1>2, <1>3, <1>4, <1>5, <1>6 DEF IndInv

LEMMA SwapReallocInv ==
  ASSUME IndInv, NEW t \in Drawer, SwapRealloc(t)
  PROVE  IndInv'
<1> USE GLViewAssumption DEF Thread, Drawer, Inner, Own, SwapBody, AfterLock, AfterUnlock, Home,
      SwapRealloc, AllocBackBuf, locks, buffers, screen, client
<1>1. StackInv' /\ Moves(t, "unlockGL") /\ To(t)' = "lower" /\ pc[t] = "realloc"
  BY CallMoves, Returns DEF IndInv, CallFrom
<1>2. LooperInv' /\ LockerInv' /\ LevelInv'
  BY <1>1, Labels DEF IndInv, Moves, LooperInv, LockerInv, LevelInv, Level
<1>3. DisplayInv' /\ DrawInv'
  BY <1>1, Labels DEF IndInv, Moves, DisplayInv, DrawInv, Held, HoldsDraw
<1>4. ContextInv'
  BY <1>1, Labels DEF IndInv, Moves, ContextInv, Current, Held, DisplayInv
<1>5. PaintingInv'
  <2>1. \A u \in Drawer \ {t} : pc[u] \notin {"painted", "drawn", "blitted"}
    BY <1>1, Labels DEF IndInv, LockerInv, DisplayInv, Held
  <2> QED BY <1>1, <2>1 DEF IndInv, Moves, PaintingInv, ContextInv
<1>6. StopInv'
  BY <1>1, Labels DEF IndInv, Moves, StopInv, DrawInv, HoldsDraw
<1> QED BY <1>1, <1>2, <1>3, <1>4, <1>5, <1>6 DEF IndInv

LEMMA SwapLowerInv ==
  ASSUME IndInv, NEW t \in Drawer, SwapLower(t)
  PROVE  IndInv'
<1> USE GLViewAssumption DEF Thread, Drawer, Inner, Own, SwapBody, AfterLock, AfterUnlock, Home,
      SwapLower, locks, buffers, screen, client
<1>1. StackInv' /\ Moves(t, "swapUnlockDraw") /\ To(t)' = To(t) /\ pc[t] = "lower"
  BY GotoMoves, Returns DEF IndInv, Goto
<1>2. LooperInv' /\ LockerInv' /\ LevelInv'
  BY <1>1, Labels DEF IndInv, Moves, LooperInv, LockerInv, LevelInv, Level
<1>3. DisplayInv' /\ DrawInv'
  BY <1>1, Labels DEF IndInv, Moves, DisplayInv, DrawInv, Held, HoldsDraw
<1>4. ContextInv'
  BY <1>1, Labels DEF IndInv, Moves, ContextInv, Current, Held, DisplayInv
<1>5. PaintingInv'
  BY <1>1, Labels DEF IndInv, Moves, PaintingInv, ContextInv
<1>6. StopInv'
  BY <1>1, Labels DEF IndInv, Moves, StopInv, DrawInv, HoldsDraw
<1> QED BY <1>1, <1>2, <1>3, <1>4, <1>5, <1>6 DEF IndInv

LEMMA SwapUnlockDrawInv ==
  ASSUME IndInv, NEW t \in Drawer, SwapUnlockDraw(t)
  PROVE  IndInv'
<1> USE GLViewAssumption DEF Thread, Drawer, Inner, Own, SwapBody, AfterLock, AfterUnlock, Home,
      SwapUnlockDraw, UnlockDraw, Released, Unlocked, locks, buffers, screen, client
<1>1. StackInv' /\ Moves(t, To(t)) /\ pc[t] = "swapUnlockDraw"
  BY ReturnMoves, Returns DEF IndInv, Return
<1>2. LooperInv' /\ LockerInv' /\ LevelInv'
  BY <1>1, Labels DEF IndInv, Moves, LooperInv, LockerInv, LevelInv, Level
<1>3. DisplayInv' /\ DrawInv'
  BY <1>1, Labels DEF IndInv, Moves, DisplayInv, DrawInv, Held, HoldsDraw
<1>4. ContextInv'
  BY <1>1, Labels DEF IndInv, Moves, ContextInv, Current, Held, DisplayInv
<1>5. PaintingInv'
  BY <1>1, Labels DEF IndInv, Moves, PaintingInv, ContextInv
<1>6. StopInv'
  BY <1>1, Labels DEF IndInv, Moves, StopInv, DrawInv, HoldsDraw
<1> QED BY <1>1, <1>2, <1>3, <1>4, <1>5, <1>6 DEF IndInv

LEMMA LockGLInv ==
  ASSUME IndInv, NEW t \in Drawer, LockGL(t)
  PROVE  IndInv'
<1> USE GLViewAssumption DEF Thread, Drawer, Inner, Own, SwapBody, AfterLock, AfterUnlock, Home,
      LockGL, CanLock, Locked, locks, buffers, screen, client
<1>1. StackInv' /\ pc[t] = "lockGL" /\ (display.count = 0 => Moves(t, "rendererLock") /\ To(t)' = To(t)) /\ (display.count # 0 => Moves(t, To(t)))
  BY GotoMoves, ReturnMoves, Returns DEF IndInv, Goto, Return
<1>2. LooperInv' /\ LockerInv' /\ LevelInv'
  BY <1>1, Labels DEF IndInv, Moves, LooperInv, LockerInv, LevelInv, Level
<1>3. DisplayInv' /\ DrawInv'
  BY <1>1, Labels DEF IndInv, Moves, DisplayInv, DrawInv, Held, HoldsDraw
<1>4. ContextInv'
  BY <1>1, Labels DEF IndInv, Moves, ContextInv, Current, Held, DisplayInv
<1>5. PaintingInv'
  BY <1>1, Labels DEF IndInv, Moves, PaintingInv, ContextInv
<1>6. StopInv'
  BY <1>1, Labels DEF IndInv, Moves, StopInv, DrawInv, HoldsDraw
<1> QED BY <1>1, <1>2, <1>3, <1>4, <1>5, <1>6 DEF IndInv

LEMMA RendererLockGLInv ==
  ASSUME IndInv, NEW t \in Drawer, RendererLockGL(t)
  PROVE  IndInv'
<1> USE GLViewAssumption DEF Thread, Drawer, Inner, Own, SwapBody, AfterLock, AfterUnlock, Home,
      RendererLockGL, AllocBackBuf, locks, buffers, screen, client
<1>1. StackInv' /\ Moves(t, To(t)) /\ pc[t] = "rendererLock"
  BY ReturnMoves, Returns DEF IndInv, Return
<1>2. LooperInv' /\ LockerInv' /\ LevelInv'
  BY <1>1, Labels DEF IndInv, Moves, LooperInv, LockerInv, LevelInv, Level
<1>3. DisplayInv' /\ DrawInv'
  BY <1>1, Labels DEF IndInv, Moves, DisplayInv, DrawInv, Held, HoldsDraw
<1>4. ContextInv'
  <2>1. \A u \in Drawer \ {t} : ~Current(u) /\ ~Current(u)'
    BY <1>1, Labels DEF IndInv, Moves, DisplayInv, Held, Current
  <2>2. Current(t)'
    BY <1>1, Labels DEF IndInv, Moves, DisplayInv, Held, Current
  <2>3. /\ pc'[R] \notin {"swap", "raise"} \cup Inner
        /\ pc'[R] = "lockGL" => To(R)' # "show"
    BY <1>1, Labels DEF IndInv, Moves, DisplayInv, Held
  <2> QED BY <1>1, <2>1, <2>2, <2>3 DEF IndInv, Moves, ContextInv
<1>5. PaintingInv'
  <2>1. \A u \in Drawer : pc[u] \notin {"painted", "drawn", "blitted"} /\ pc'[u] \notin {"painted", "drawn", "blitted"}
    BY <1>1, Labels DEF IndInv, Moves, LockerInv, DisplayInv, Held
  <2> QED BY <1>1, <2>1 DEF IndInv, Moves, PaintingInv, ContextInv
<1>6. StopInv'
  BY <1>1, Labels DEF IndInv, Moves, StopInv, DrawInv, HoldsDraw
<1> QED BY <1>1, <1>2, <1>3, <1>4, <1>5, <1>6 DEF IndInv

LEMMA UnlockGLInv ==
  ASSUME IndInv, NEW t \in Drawer, UnlockGL(t)
  PROVE  IndInv'
<1> USE GLViewAssumption DEF Thread, Drawer, Inner, Own, SwapBody, AfterLock, AfterUnlock, Home,
      UnlockGL, Released, Unlocked, locks, buffers, screen, client
<1>1. StackInv' /\ Moves(t, To(t)) /\ pc[t] = "unlockGL"
  BY ReturnMoves, Returns DEF IndInv, Return
<1>2. LooperInv' /\ LockerInv' /\ LevelInv'
  BY <1>1, Labels DEF IndInv, Moves, LooperInv, LockerInv, LevelInv, Level
<1>3. DisplayInv' /\ DrawInv'
  BY <1>1, Labels DEF IndInv, Moves, DisplayInv, DrawInv, Held, HoldsDraw
<1>4. ContextInv'
  BY <1>1, Labels DEF IndInv, Moves, ContextInv, Current, Held, DisplayInv
<1>5. PaintingInv'
  BY <1>1, Labels DEF IndInv, Moves, PaintingInv, ContextInv
<1>6. StopInv'
  BY <1>1, Labels DEF IndInv, Moves, StopInv, DrawInv, HoldsDraw
<1> QED BY <1>1, <1>2, <1>3, <1>4, <1>5, <1>6 DEF IndInv

LEMMA RenderLoopInv ==
  ASSUME IndInv, RenderLoop
  PROVE  IndInv'
<1> USE GLViewAssumption DEF Thread, Drawer, Inner, Own, SwapBody, AfterLock, AfterUnlock, Home,
      RenderLoop, locks, buffers, screen, client
<1>1. StackInv' /\ pc[R] = "run" /\ IF fRun THEN Moves(R, "lockGL") /\ To(R)' = "frame" ELSE Moves(R, "ended")
  <2>1. CASE fRun
    BY <2>1, CallMoves, Returns DEF IndInv, CallFrom
  <2>2. CASE ~fRun
    BY <2>2, GotoMoves, Returns DEF IndInv, Goto
  <2> QED BY <2>1, <2>2
<1>2. LooperInv' /\ LockerInv' /\ LevelInv'
  BY <1>1, Labels DEF IndInv, Moves, LooperInv, LockerInv, LevelInv, Level
<1>3. DisplayInv' /\ DrawInv'
  BY <1>1, Labels DEF IndInv, Moves, DisplayInv, DrawInv, Held, HoldsDraw
<1>4. ContextInv'
  BY <1>1, Labels DEF IndInv, Moves, ContextInv, Current, Held, DisplayInv
<1>5. PaintingInv'
  BY <1>1, Labels DEF IndInv, Moves, PaintingInv, ContextInv
<1>6. StopInv'
  BY <1>1, Labels DEF IndInv, Moves, StopInv, DrawInv, HoldsDraw
<1> QED BY <1>1, <1>2, <1>3, <1>4, <1>5, <1>6 DEF IndInv

LEMMA RenderFrameInv ==
  ASSUME IndInv, RenderFrame
  PROVE  IndInv'
<1> USE GLViewAssumption DEF Thread, Drawer, Inner, Own, SwapBody, AfterLock, AfterUnlock, Home,
      RenderFrame, locks, buffers, screen, client
<1>1. StackInv' /\ Moves(R, "swap") /\ To(R)' = "frameDone" /\ pc[R] = "frame"
  BY CallMoves, Returns DEF IndInv, CallFrom
<1>2. LooperInv' /\ LockerInv' /\ LevelInv'
  BY <1>1, Labels DEF IndInv, Moves, LooperInv, LockerInv, LevelInv, Level
<1>3. DisplayInv' /\ DrawInv'
  BY <1>1, Labels DEF IndInv, Moves, DisplayInv, DrawInv, Held, HoldsDraw
<1>4. ContextInv'
  BY <1>1, Labels DEF IndInv, Moves, ContextInv, Current, Held, DisplayInv
<1>5. PaintingInv'
  BY <1>1, Labels DEF IndInv, Moves, PaintingInv, ContextInv
<1>6. StopInv'
  BY <1>1, Labels DEF IndInv, Moves, StopInv, DrawInv, HoldsDraw
<1> QED BY <1>1, <1>2, <1>3, <1>4, <1>5, <1>6 DEF IndInv

LEMMA RenderUnlockInv ==
  ASSUME IndInv, RenderUnlock
  PROVE  IndInv'
<1> USE GLViewAssumption DEF Thread, Drawer, Inner, Own, SwapBody, AfterLock, AfterUnlock, Home,
      RenderUnlock, locks, buffers, screen, client
<1>1. StackInv' /\ Moves(R, "unlockGL") /\ To(R)' = "run" /\ pc[R] = "frameDone"
  BY CallMoves, Returns DEF IndInv, CallFrom
<1>2. LooperInv' /\ LockerInv' /\ LevelInv'
  BY <1>1, Labels DEF IndInv, Moves, LooperInv, LockerInv, LevelInv, Level
<1>3. DisplayInv' /\ DrawInv'
  BY <1>1, Labels DEF IndInv, Moves, DisplayInv, DrawInv, Held, HoldsDraw
<1>4. ContextInv'
  BY <1>1, Labels DEF IndInv, Moves, ContextInv, Current, Held, DisplayInv
<1>5. PaintingInv'
  BY <1>1, Labels DEF IndInv, Moves, PaintingInv, ContextInv
<1>6. StopInv'
  BY <1>1, Labels DEF IndInv, Moves, StopInv, DrawInv, HoldsDraw
<1> QED BY <1>1, <1>2, <1>3, <1>4, <1>5, <1>6 DEF IndInv

LEMMA ReceiveDrawInv ==
  ASSUME IndInv, ReceiveDraw
  PROVE  IndInv'
<1> USE GLViewAssumption DEF Thread, Drawer, Inner, Own, SwapBody, AfterLock, AfterUnlock, Home,
      ReceiveDraw, Receive, locks, buffers, screen, client
<1>1. StackInv' /\ Moves(W, "drawLock") /\ To(W)' = To(W) /\ pc[W] = "idle"
  BY GotoMoves, Returns DEF IndInv, Goto
<1>2. LooperInv' /\ LockerInv' /\ LevelInv'
  BY <1>1, Labels DEF IndInv, Moves, LooperInv, LockerInv, LevelInv, Level
<1>3. DisplayInv' /\ DrawInv'
  BY <1>1, Labels DEF IndInv, Moves, DisplayInv, DrawInv, Held, HoldsDraw
<1>4. ContextInv'
  BY <1>1, Labels DEF IndInv, Moves, ContextInv, Current, Held, DisplayInv
<1>5. PaintingInv'
  BY <1>1, Labels DEF IndInv, Moves, PaintingInv, ContextInv
<1>6. StopInv'
  BY <1>1, Labels DEF IndInv, Moves, StopInv, DrawInv, HoldsDraw
<1> QED BY <1>1, <1>2, <1>3, <1>4, <1>5, <1>6 DEF IndInv

LEMMA DrawLockDrawInv ==
  ASSUME IndInv, DrawLockDraw
  PROVE  IndInv'
<1> USE GLViewAssumption DEF Thread, Drawer, Inner, Own, SwapBody, AfterLock, AfterUnlock, Home,
      DrawLockDraw, LockDraw, CanLock, Locked, locks, buffers, screen, client
<1>1. StackInv' /\ Moves(W, "draw") /\ To(W)' = To(W) /\ pc[W] = "drawLock"
  BY GotoMoves, Returns DEF IndInv, Goto
<1>2. LooperInv' /\ LockerInv' /\ LevelInv'
  BY <1>1, Labels DEF IndInv, Moves, LooperInv, LockerInv, LevelInv, Level
<1>3. DisplayInv' /\ DrawInv'
  BY <1>1, Labels DEF IndInv, Moves, DisplayInv, DrawInv, Held, HoldsDraw
<1>4. ContextInv'
  BY <1>1, Labels DEF IndInv, Moves, ContextInv, Current, Held, DisplayInv
<1>5. PaintingInv'
  BY <1>1, Labels DEF IndInv, Moves, PaintingInv, ContextInv
<1>6. StopInv'
  BY <1>1, Labels DEF IndInv, Moves, StopInv, DrawInv, HoldsDraw
<1> QED BY <1>1, <1>2, <1>3, <1>4, <1>5, <1>6 DEF IndInv

LEMMA DrawPaintedInv ==
  ASSUME IndInv, DrawPainted
  PROVE  IndInv'
<1> USE GLViewAssumption DEF Thread, Drawer, Inner, Own, SwapBody, AfterLock, AfterUnlock, Home,
      DrawPainted, locks, buffers, screen, client
<1>1. StackInv' /\ Moves(W, "drawUnlock") /\ To(W)' = To(W) /\ pc[W] = "drawn"
  BY GotoMoves, Returns DEF IndInv, Goto
<1>2. LooperInv' /\ LockerInv' /\ LevelInv'
  BY <1>1, Labels DEF IndInv, Moves, LooperInv, LockerInv, LevelInv, Level
<1>3. DisplayInv' /\ DrawInv'
  BY <1>1, Labels DEF IndInv, Moves, DisplayInv, DrawInv, Held, HoldsDraw
<1>4. ContextInv'
  BY <1>1, Labels DEF IndInv, Moves, ContextInv, Current, Held, DisplayInv
<1>5. PaintingInv'
  BY <1>1, Labels DEF IndInv, Moves, PaintingInv, ContextInv
<1>6. StopInv'
  BY <1>1, Labels DEF IndInv, Moves, StopInv, DrawInv, HoldsDraw
<1> QED BY <1>1, <1>2, <1>3, <1>4, <1>5, <1>6 DEF IndInv

LEMMA DrawUnlockDrawInv ==
  ASSUME IndInv, DrawUnlockDraw
  PROVE  IndInv'
<1> USE GLViewAssumption DEF Thread, Drawer, Inner, Own, SwapBody, AfterLock, AfterUnlock, Home,
      DrawUnlockDraw, UnlockDraw, Released, Unlocked, locks, buffers, screen, client
<1>1. StackInv' /\ Moves(W, "handled") /\ To(W)' = To(W) /\ pc[W] = "drawUnlock"
  BY GotoMoves, Returns DEF IndInv, Goto
<1>2. LooperInv' /\ LockerInv' /\ LevelInv'
  BY <1>1, Labels DEF IndInv, Moves, LooperInv, LockerInv, LevelInv, Level
<1>3. DisplayInv' /\ DrawInv'
  BY <1>1, Labels DEF IndInv, Moves, DisplayInv, DrawInv, Held, HoldsDraw
<1>4. ContextInv'
  BY <1>1, Labels DEF IndInv, Moves, ContextInv, Current, Held, DisplayInv
<1>5. PaintingInv'
  BY <1>1, Labels DEF IndInv, Moves, PaintingInv, ContextInv
<1>6. StopInv'
  BY <1>1, Labels DEF IndInv, Moves, StopInv, DrawInv, HoldsDraw
<1> QED BY <1>1, <1>2, <1>3, <1>4, <1>5, <1>6 DEF IndInv

LEMMA ReceiveFrameResizedInv ==
  ASSUME IndInv, ReceiveFrameResized
  PROVE  IndInv'
<1> USE GLViewAssumption DEF Thread, Drawer, Inner, Own, SwapBody, AfterLock, AfterUnlock, Home,
      ReceiveFrameResized, Receive, locks, buffers, screen, client
<1>1. StackInv' /\ Moves(W, "resizeLock") /\ To(W)' = To(W) /\ pc[W] = "idle"
  BY GotoMoves, Returns DEF IndInv, Goto
<1>2. LooperInv' /\ LockerInv' /\ LevelInv'
  BY <1>1, Labels DEF IndInv, Moves, LooperInv, LockerInv, LevelInv, Level
<1>3. DisplayInv' /\ DrawInv'
  BY <1>1, Labels DEF IndInv, Moves, DisplayInv, DrawInv, Held, HoldsDraw
<1>4. ContextInv'
  BY <1>1, Labels DEF IndInv, Moves, ContextInv, Current, Held, DisplayInv
<1>5. PaintingInv'
  BY <1>1, Labels DEF IndInv, Moves, PaintingInv, ContextInv
<1>6. StopInv'
  BY <1>1, Labels DEF IndInv, Moves, StopInv, DrawInv, HoldsDraw
<1> QED BY <1>1, <1>2, <1>3, <1>4, <1>5, <1>6 DEF IndInv

LEMMA ResizeLockDrawInv ==
  ASSUME IndInv, ResizeLockDraw
  PROVE  IndInv'
<1> USE GLViewAssumption DEF Thread, Drawer, Inner, Own, SwapBody, AfterLock, AfterUnlock, Home,
      ResizeLockDraw, LockDraw, CanLock, Locked, locks, buffers, screen, client
<1>1. StackInv' /\ Moves(W, "resize") /\ To(W)' = To(W) /\ pc[W] = "resizeLock"
  BY GotoMoves, Returns DEF IndInv, Goto
<1>2. LooperInv' /\ LockerInv' /\ LevelInv'
  BY <1>1, Labels DEF IndInv, Moves, LooperInv, LockerInv, LevelInv, Level
<1>3. DisplayInv' /\ DrawInv'
  BY <1>1, Labels DEF IndInv, Moves, DisplayInv, DrawInv, Held, HoldsDraw
<1>4. ContextInv'
  BY <1>1, Labels DEF IndInv, Moves, ContextInv, Current, Held, DisplayInv
<1>5. PaintingInv'
  BY <1>1, Labels DEF IndInv, Moves, PaintingInv, ContextInv
<1>6. StopInv'
  BY <1>1, Labels DEF IndInv, Moves, StopInv, DrawInv, HoldsDraw
<1> QED BY <1>1, <1>2, <1>3, <1>4, <1>5, <1>6 DEF IndInv

LEMMA ReceiveKeyInv ==
  ASSUME IndInv, ReceiveKey
  PROVE  IndInv'
<1> USE GLViewAssumption DEF Thread, Drawer, Inner, Own, SwapBody, AfterLock, AfterUnlock, Home,
      ReceiveKey, Receive, locks, buffers, screen, client
<1>1. StackInv' /\ Moves(W, "copyRaise") /\ To(W)' = To(W) /\ pc[W] = "idle"
  BY GotoMoves, Returns DEF IndInv, Goto
<1>2. LooperInv' /\ LockerInv' /\ LevelInv'
  BY <1>1, Labels DEF IndInv, Moves, LooperInv, LockerInv, LevelInv, Level
<1>3. DisplayInv' /\ DrawInv'
  BY <1>1, Labels DEF IndInv, Moves, DisplayInv, DrawInv, Held, HoldsDraw
<1>4. ContextInv'
  BY <1>1, Labels DEF IndInv, Moves, ContextInv, Current, Held, DisplayInv
<1>5. PaintingInv'
  BY <1>1, Labels DEF IndInv, Moves, PaintingInv, ContextInv
<1>6. StopInv'
  BY <1>1, Labels DEF IndInv, Moves, StopInv, DrawInv, HoldsDraw
<1> QED BY <1>1, <1>2, <1>3, <1>4, <1>5, <1>6 DEF IndInv

LEMMA ReceiveDetachInv ==
  ASSUME IndInv, ReceiveDetach
  PROVE  IndInv'
<1> USE GLViewAssumption DEF Thread, Drawer, Inner, Own, SwapBody, AfterLock, AfterUnlock, Home,
      ReceiveDetach, Receive, locks, buffers, screen, client
<1>1. StackInv' /\ Moves(W, "join") /\ To(W)' = To(W) /\ pc[W] = "idle"
  BY GotoMoves, Returns DEF IndInv, Goto
<1>2. LooperInv' /\ LockerInv' /\ LevelInv'
  BY <1>1, Labels DEF IndInv, Moves, LooperInv, LockerInv, LevelInv, Level
<1>3. DisplayInv' /\ DrawInv'
  BY <1>1, Labels DEF IndInv, Moves, DisplayInv, DrawInv, Held, HoldsDraw
<1>4. ContextInv'
  BY <1>1, Labels DEF IndInv, Moves, ContextInv, Current, Held, DisplayInv
<1>5. PaintingInv'
  BY <1>1, Labels DEF IndInv, Moves, PaintingInv, ContextInv
<1>6. StopInv'
  BY <1>1, Labels DEF IndInv, Moves, StopInv, DrawInv, HoldsDraw
<1> QED BY <1>1, <1>2, <1>3, <1>4, <1>5, <1>6 DEF IndInv

LEMMA HandledInv ==
  ASSUME IndInv, Handled
  PROVE  IndInv'
<1> USE GLViewAssumption DEF Thread, Drawer, Inner, Own, SwapBody, AfterLock, AfterUnlock, Home,
      Handled, locks, buffers, screen, client
<1>1. StackInv' /\ Moves(W, "idle") /\ To(W)' = To(W) /\ pc[W] = "handled"
  BY GotoMoves, Returns DEF IndInv, Goto
<1>2. LooperInv' /\ LockerInv' /\ LevelInv'
  BY <1>1, Labels DEF IndInv, Moves, LooperInv, LockerInv, LevelInv, Level
<1>3. DisplayInv' /\ DrawInv'
  BY <1>1, Labels DEF IndInv, Moves, DisplayInv, DrawInv, Held, HoldsDraw
<1>4. ContextInv'
  BY <1>1, Labels DEF IndInv, Moves, ContextInv, Current, Held, DisplayInv
<1>5. PaintingInv'
  BY <1>1, Labels DEF IndInv, Moves, PaintingInv, ContextInv
<1>6. StopInv'
  BY <1>1, Labels DEF IndInv, Moves, StopInv, DrawInv, HoldsDraw
<1> QED BY <1>1, <1>2, <1>3, <1>4, <1>5, <1>6 DEF IndInv

LEMMA DrawPaintInv ==
  ASSUME IndInv, DrawPaint
  PROVE  IndInv'
<1> USE GLViewAssumption DEF Thread, Drawer, Inner, Own, SwapBody, AfterLock, AfterUnlock, Home,
      DrawPaint, locks, buffers, screen, client
<1>1. StackInv' /\ (IF fDirectModeEnabled /\ fInfo # "null" THEN Moves(W, "drawUnlock") ELSE Moves(W, "drawn")) /\ To(W)' = To(W) /\ pc[W] = "draw"
  BY GotoMoves, Returns DEF IndInv, Goto
<1>2. LooperInv' /\ LockerInv' /\ LevelInv'
  BY <1>1, Labels DEF IndInv, Moves, LooperInv, LockerInv, LevelInv, Level
<1>3. DisplayInv' /\ DrawInv'
  BY <1>1, Labels DEF IndInv, Moves, DisplayInv, DrawInv, Held, HoldsDraw
<1>4. ContextInv'
  BY <1>1, Labels DEF IndInv, Moves, ContextInv, Current, Held, DisplayInv
<1>5. PaintingInv'
  BY <1>1, Labels DEF IndInv, Moves, PaintingInv, ContextInv
<1>6. StopInv'
  BY <1>1, Labels DEF IndInv, Moves, StopInv, DrawInv, HoldsDraw
<1> QED BY <1>1, <1>2, <1>3, <1>4, <1>5, <1>6 DEF IndInv

LEMMA ResizeRendererInv ==
  ASSUME IndInv, ResizeRenderer
  PROVE  IndInv'
<1> USE GLViewAssumption DEF Thread, Drawer, Inner, Own, SwapBody, AfterLock, AfterUnlock, Home,
      ResizeRenderer, UnlockDraw, Released, Unlocked, locks, buffers, screen, client
<1>1. StackInv' /\ Moves(W, "lockGL") /\ To(W)' = "reshape" /\ pc[W] = "resize"
  BY CallMoves, Returns DEF IndInv, CallFrom
<1>2. LooperInv' /\ LockerInv' /\ LevelInv'
  BY <1>1, Labels DEF IndInv, Moves, LooperInv, LockerInv, LevelInv, Level
<1>3. DisplayInv' /\ DrawInv'
  BY <1>1, Labels DEF IndInv, Moves, DisplayInv, DrawInv, Held, HoldsDraw
<1>4. ContextInv'
  BY <1>1, Labels DEF IndInv, Moves, ContextInv, Current, Held, DisplayInv
<1>5. PaintingInv'
  BY <1>1, Labels DEF IndInv, Moves, PaintingInv, ContextInv
<1>6. StopInv'
  BY <1>1, Labels DEF IndInv, Moves, StopInv, DrawInv, HoldsDraw
<1> QED BY <1>1, <1>2, <1>3, <1>4, <1>5, <1>6 DEF IndInv

LEMMA ReshapeInv ==
  ASSUME IndInv, Reshape
  PROVE  IndInv'
<1> USE GLViewAssumption DEF Thread, Drawer, Inner, Own, SwapBody, AfterLock, AfterUnlock, Home,
      Reshape, locks, buffers, screen, client
<1>1. StackInv' /\ Moves(W, "unlockGL") /\ To(W)' = "handled" /\ pc[W] = "reshape"
  BY CallMoves, Returns DEF IndInv, CallFrom
<1>2. LooperInv' /\ LockerInv' /\ LevelInv'
  BY <1>1, Labels DEF IndInv, Moves, LooperInv, LockerInv, LevelInv, Level
<1>3. DisplayInv' /\ DrawInv'
  BY <1>1, Labels DEF IndInv, Moves, DisplayInv, DrawInv, Held, HoldsDraw
<1>4. ContextInv'
  BY <1>1, Labels DEF IndInv, Moves, ContextInv, Current, Held, DisplayInv
<1>5. PaintingInv'
  BY <1>1, Labels DEF IndInv, Moves, PaintingInv, ContextInv
<1>6. StopInv'
  BY <1>1, Labels DEF IndInv, Moves, StopInv, DrawInv, HoldsDraw
<1> QED BY <1>1, <1>2, <1>3, <1>4, <1>5, <1>6 DEF IndInv

LEMMA CopyPixelsInInv ==
  ASSUME IndInv, CopyPixelsIn
  PROVE  IndInv'
<1> USE GLViewAssumption DEF Thread, Drawer, Inner, Own, SwapBody, AfterLock, AfterUnlock, Home,
      CopyPixelsIn, locks, buffers, screen, client
<1>1. StackInv' /\ Moves(W, "lockGL") /\ To(W)' = "copy" /\ pc[W] = "copyRaise"
  BY CallMoves, Returns DEF IndInv, CallFrom
<1>2. LooperInv' /\ LockerInv' /\ LevelInv'
  BY <1>1, Labels DEF IndInv, Moves, LooperInv, LockerInv, LevelInv, Level
<1>3. DisplayInv' /\ DrawInv'
  BY <1>1, Labels DEF IndInv, Moves, DisplayInv, DrawInv, Held, HoldsDraw
<1>4. ContextInv'
  BY <1>1, Labels DEF IndInv, Moves, ContextInv, Current, Held, DisplayInv
<1>5. PaintingInv'
  BY <1>1, Labels DEF IndInv, Moves, PaintingInv, ContextInv
<1>6. StopInv'
  BY <1>1, Labels DEF IndInv, Moves, StopInv, DrawInv, HoldsDraw
<1> QED BY <1>1, <1>2, <1>3, <1>4, <1>5, <1>6 DEF IndInv

LEMMA CopyUnlockInv ==
  ASSUME IndInv, CopyUnlock
  PROVE  IndInv'
<1> USE GLViewAssumption DEF Thread, Drawer, Inner, Own, SwapBody, AfterLock, AfterUnlock, Home,
      CopyUnlock, locks, buffers, screen, client
<1>1. StackInv' /\ Moves(W, "unlockGL") /\ To(W)' = "copyLower" /\ pc[W] = "copy"
  BY CallMoves, Returns DEF IndInv, CallFrom
<1>2. LooperInv' /\ LockerInv' /\ LevelInv'
  BY <1>1, Labels DEF IndInv, Moves, LooperInv, LockerInv, LevelInv, Level
<1>3. DisplayInv' /\ DrawInv'
  BY <1>1, Labels DEF IndInv, Moves, DisplayInv, DrawInv, Held, HoldsDraw
<1>4. ContextInv'
  BY <1>1, Labels DEF IndInv, Moves, ContextInv, Current, Held, DisplayInv
<1>5. PaintingInv'
  BY <1>1, Labels DEF IndInv, Moves, PaintingInv, ContextInv
<1>6. StopInv'
  BY <1>1, Labels DEF IndInv, Moves, StopInv, DrawInv, HoldsDraw
<1> QED BY <1>1, <1>2, <1>3, <1>4, <1>5, <1>6 DEF IndInv

LEMMA CopyDoneInv ==
  ASSUME IndInv, CopyDone
  PROVE  IndInv'
<1> USE GLViewAssumption DEF Thread, Drawer, Inner, Own, SwapBody, AfterLock, AfterUnlock, Home,
      CopyDone, locks, buffers, screen, client
<1>1. StackInv' /\ Moves(W, "swap") /\ To(W)' = "handled" /\ pc[W] = "copyLower"
  BY CallMoves, Returns DEF IndInv, CallFrom
<1>2. LooperInv' /\ LockerInv' /\ LevelInv'
  BY <1>1, Labels DEF IndInv, Moves, LooperInv, LockerInv, LevelInv, Level
<1>3. DisplayInv' /\ DrawInv'
  BY <1>1, Labels DEF IndInv, Moves, DisplayInv, DrawInv, Held, HoldsDraw
<1>4. ContextInv'
  BY <1>1, Labels DEF IndInv, Moves, ContextInv, Current, Held, DisplayInv
<1>5. PaintingInv'
  BY <1>1, Labels DEF IndInv, Moves, PaintingInv, ContextInv
<1>6. StopInv'
  BY <1>1, Labels DEF IndInv, Moves, StopInv, DrawInv, HoldsDraw
<1> QED BY <1>1, <1>2, <1>3, <1>4, <1>5, <1>6 DEF IndInv

LEMMA JoinInv ==
  ASSUME IndInv, Join
  PROVE  IndInv'
<1> USE GLViewAssumption DEF Thread, Drawer, Inner, Own, SwapBody, AfterLock, AfterUnlock, Home,
      Join, locks, buffers, screen, client
<1>1. StackInv' /\ Moves(W, "lockGL") /\ To(W)' = "viewport" /\ pc[W] = "join"
  BY CallMoves, Returns DEF IndInv, CallFrom
<1>2. LooperInv' /\ LockerInv' /\ LevelInv'
  BY <1>1, Labels DEF IndInv, Moves, LooperInv, LockerInv, LevelInv, Level
<1>3. DisplayInv' /\ DrawInv'
  BY <1>1, Labels DEF IndInv, Moves, DisplayInv, DrawInv, Held, HoldsDraw
<1>4. ContextInv'
  BY <1>1, Labels DEF IndInv, Moves, ContextInv, Current, Held, DisplayInv
<1>5. PaintingInv'
  BY <1>1, Labels DEF IndInv, Moves, PaintingInv, ContextInv
<1>6. StopInv'
  BY <1>1, Labels DEF IndInv, Moves, StopInv, DrawInv, HoldsDraw
<1> QED BY <1>1, <1>2, <1>3, <1>4, <1>5, <1>6 DEF IndInv

LEMMA AttachAgainInv ==
  ASSUME IndInv, AttachAgain
  PROVE  IndInv'
<1> USE GLViewAssumption DEF Thread, Drawer, Inner, Own, SwapBody, AfterLock, AfterUnlock, Home,
      AttachAgain, locks, buffers, screen, client
<1>1. StackInv' /\ Moves(W, "unlockGL") /\ To(W)' = "handled" /\ pc[W] = "viewport"
  BY CallMoves, Returns DEF IndInv, CallFrom
<1>2. LooperInv' /\ LockerInv' /\ LevelInv'
  BY <1>1, Labels DEF IndInv, Moves, LooperInv, LockerInv, LevelInv, Level
<1>3. DisplayInv' /\ DrawInv'
  BY <1>1, Labels DEF IndInv, Moves, DisplayInv, DrawInv, Held, HoldsDraw
<1>4. ContextInv'
  BY <1>1, Labels DEF IndInv, Moves, ContextInv, Current, Held, DisplayInv
<1>5. PaintingInv'
  BY <1>1, Labels DEF IndInv, Moves, PaintingInv, ContextInv
<1>6. StopInv'
  BY <1>1, Labels DEF IndInv, Moves, StopInv, DrawInv, HoldsDraw
<1> QED BY <1>1, <1>2, <1>3, <1>4, <1>5, <1>6 DEF IndInv

LEMMA DirectStartInv ==
  ASSUME IndInv, DirectStart
  PROVE  IndInv'
<1> USE GLViewAssumption DEF Thread, Drawer, Inner, Own, SwapBody, AfterLock, AfterUnlock, Home,
      DirectStart, UnlockDraw, Released, Unlocked, locks, buffers, screen, client
<1>1. StackInv' /\ Moves(D, "callRenderer") /\ pc[D] = "idle"
  BY DirectMoves DEF IndInv, Goto
<1>2. LooperInv' /\ LockerInv' /\ LevelInv'
  BY <1>1, Labels DEF IndInv, Moves, LooperInv, LockerInv, LevelInv, Level
<1>3. DisplayInv' /\ DrawInv'
  BY <1>1, Labels DEF IndInv, Moves, DisplayInv, DrawInv, Held, HoldsDraw
<1>4. ContextInv'
  BY <1>1, Labels DEF IndInv, Moves, ContextInv, Current, Held, DisplayInv
<1>5. PaintingInv'
  BY <1>1, Labels DEF IndInv, Moves, PaintingInv, ContextInv
<1>6. StopInv'
  BY <1>1, Labels DEF IndInv, Moves, StopInv, DrawInv, HoldsDraw
<1> QED BY <1>1, <1>2, <1>3, <1>4, <1>5, <1>6 DEF IndInv

LEMMA DirectModifyInv ==
  ASSUME IndInv, DirectModify
  PROVE  IndInv'
<1> USE GLViewAssumption DEF Thread, Drawer, Inner, Own, SwapBody, AfterLock, AfterUnlock, Home,
      DirectModify, locks, buffers, screen, client
<1>1. StackInv' /\ Moves(D, "callRenderer") /\ pc[D] = "idle"
  BY DirectMoves DEF IndInv, Goto
<1>2. LooperInv' /\ LockerInv' /\ LevelInv'
  BY <1>1, Labels DEF IndInv, Moves, LooperInv, LockerInv, LevelInv, Level
<1>3. DisplayInv' /\ DrawInv'
  BY <1>1, Labels DEF IndInv, Moves, DisplayInv, DrawInv, Held, HoldsDraw
<1>4. ContextInv'
  BY <1>1, Labels DEF IndInv, Moves, ContextInv, Current, Held, DisplayInv
<1>5. PaintingInv'
  BY <1>1, Labels DEF IndInv, Moves, PaintingInv, ContextInv
<1>6. StopInv'
  BY <1>1, Labels DEF IndInv, Moves, StopInv, DrawInv, HoldsDraw
<1> QED BY <1>1, <1>2, <1>3, <1>4, <1>5, <1>6 DEF IndInv

LEMMA DirectStopInv ==
  ASSUME IndInv, DirectStop
  PROVE  IndInv'
<1> USE GLViewAssumption DEF Thread, Drawer, Inner, Own, SwapBody, AfterLock, AfterUnlock, Home,
      DirectStop, LockDraw, CanLock, Locked, locks, buffers, screen, client
<1>1. StackInv' /\ Moves(D, "stopping") /\ pc[D] = "idle"
  BY DirectMoves DEF IndInv, Goto
<1>2. LooperInv' /\ LockerInv' /\ LevelInv'
  BY <1>1, Labels DEF IndInv, Moves, LooperInv, LockerInv, LevelInv, Level
<1>3. DisplayInv' /\ DrawInv'
  BY <1>1, Labels DEF IndInv, Moves, DisplayInv, DrawInv, Held, HoldsDraw
<1>4. ContextInv'
  BY <1>1, Labels DEF IndInv, Moves, ContextInv, Current, Held, DisplayInv
<1>5. PaintingInv'
  BY <1>1, Labels DEF IndInv, Moves, PaintingInv, ContextInv
<1>6. StopInv'
  BY <1>1, Labels DEF IndInv, Moves, StopInv, DrawInv, HoldsDraw
<1> QED BY <1>1, <1>2, <1>3, <1>4, <1>5, <1>6 DEF IndInv

LEMMA DirectRendererInv ==
  ASSUME IndInv, DirectRenderer
  PROVE  IndInv'
<1> USE GLViewAssumption DEF Thread, Drawer, Inner, Own, SwapBody, AfterLock, AfterUnlock, Home,
      DirectRenderer, locks, buffers, screen, client
<1>1. StackInv' /\ Moves(D, "idle") /\ pc[D] = (IF stopped' # stopped THEN "stopping" ELSE "callRenderer")
  BY DirectMoves DEF IndInv, StopInv, Goto
<1>2. LooperInv' /\ LockerInv' /\ LevelInv'
  BY <1>1, Labels DEF IndInv, Moves, LooperInv, LockerInv, LevelInv, Level
<1>3. DisplayInv' /\ DrawInv'
  BY <1>1, Labels DEF IndInv, Moves, DisplayInv, DrawInv, Held, HoldsDraw
<1>4. ContextInv'
  BY <1>1, Labels DEF IndInv, Moves, ContextInv, Current, Held, DisplayInv
<1>5. PaintingInv'
  BY <1>1, Labels DEF IndInv, Moves, PaintingInv, ContextInv
<1>6. StopInv'
  BY <1>1, Labels DEF IndInv, Moves, StopInv, DrawInv, HoldsDraw
<1> QED BY <1>1, <1>2, <1>3, <1>4, <1>5, <1>6 DEF IndInv

------------------------------------------------------------------------------
LEMMA Start == Init => IndInv
<1> SUFFICES ASSUME Init PROVE IndInv
  OBVIOUS
<1> USE GLViewAssumption DEF Init, Thread, Drawer, Unlocked
<1>1. StackInv
  BY DEF StackInv, StackOf, Own, Label
<1>2. /\ pc[W] = "idle" /\ pc[R] = "run" /\ pc[D] = "idle"
      /\ \A t \in Drawer : Held(t) = 0 /\ ~Current(t) /\ ~HoldsDraw(t) /\ Level(t) = 0
  BY DEF Held, Current, HoldsDraw, Level, Inner
<1>3. LooperInv /\ DisplayInv /\ LockerInv /\ LevelInv /\ DrawInv
  BY <1>2 DEF LooperInv, DisplayInv, LockerInv, LevelInv, DrawInv
<1>4. ContextInv /\ PaintingInv /\ StopInv
  BY <1>2 DEF ContextInv, PaintingInv, StopInv, Inner
<1> QED BY <1>1, <1>3, <1>4 DEF IndInv

LEMMA Stutters == IndInv /\ UNCHANGED vars => IndInv'
<1> SUFFICES ASSUME IndInv, UNCHANGED vars PROVE IndInv'
  OBVIOUS
<1> USE DEF IndInv, vars, control, locks, buffers, screen, client
<1>1. StackInv'
  BY DEF StackInv, StackOf
<1>2. \A t \in Drawer : Held(t)' = Held(t) /\ Current(t)' = Current(t) /\ HoldsDraw(t)' = HoldsDraw(t) /\ Level(t)' = Level(t)
  BY DEF Held, Current, HoldsDraw, Level, To
<1>3. LooperInv' /\ DisplayInv' /\ LockerInv' /\ LevelInv' /\ DrawInv'
  BY <1>2 DEF LooperInv, DisplayInv, LockerInv, LevelInv, DrawInv, Held, Level, To, Drawer
<1>4. ContextInv' /\ PaintingInv' /\ StopInv'
  BY <1>2 DEF ContextInv, PaintingInv, StopInv, To
<1> QED BY <1>1, <1>3, <1>4

LEMMA Steps == IndInv /\ Next => IndInv'
<1> SUFFICES ASSUME IndInv, Next PROVE IndInv'
  OBVIOUS
<1>1. ASSUME NEW t \in Drawer, GL(t) PROVE IndInv'
  BY <1>1, SwapLockDrawInv, SwapRaiseInv, SwapChooseInv, SwapAskLooperInv, SwapPaintInv,
         SwapPaintedInv, SwapBlitInv, SwapBlittedInv, SwapReallocInv, SwapLowerInv,
         SwapUnlockDrawInv, LockGLInv, RendererLockGLInv, UnlockGLInv DEF GL
<1>2. CASE Render
  BY <1>1, <1>2, RenderLoopInv, RenderFrameInv, RenderUnlockInv DEF Render, Drawer
<1>3. CASE WindowReceives
  BY <1>3, ReceiveDrawInv, ReceiveFrameResizedInv, ReceiveKeyInv, ReceiveDetachInv DEF WindowReceives
<1>4. CASE WindowProceeds
  BY <1>1, <1>4, DrawLockDrawInv, DrawPaintedInv, DrawUnlockDrawInv, ResizeLockDrawInv,
         HandledInv, DrawPaintInv, ResizeRendererInv, ReshapeInv, CopyPixelsInInv,
         CopyUnlockInv, CopyDoneInv, JoinInv, AttachAgainInv
     DEF WindowProceeds, Drawer
<1>5. CASE DirectWindow
  BY <1>5, DirectStartInv, DirectModifyInv, DirectStopInv, DirectRendererInv DEF DirectWindow
<1>6. CASE Finished
  BY <1>6, Stutters DEF Finished
<1> QED BY <1>2, <1>3, <1>4, <1>5, <1>6 DEF Next

LEMMA Invariance == Spec => []IndInv
<1>1. IndInv /\ [Next]_vars => IndInv'
  BY Steps, Stutters
<1> QED BY <1>1, Start, PTL DEF Spec

------------------------------------------------------------------------------
(* Theorems.                                                               *)

\* Whichever thread resizes, draws or shows, nobody uses a bitmap that is gone:
\* a GL context draws, and DrawBitmap and the copy to the frame buffer read,
\* the bitmap that BGLView has now, and SwapBuffers shows the one the frame was
\* drawn into.
THEOREM NoBitmapIsGone == Spec => []BitmapIsLive
<1> SUFFICES IndInv => BitmapIsLive
  BY Invariance, PTL
<1> SUFFICES ASSUME IndInv PROVE BitmapIsLive
  OBVIOUS
<1> USE GLViewAssumption DEF IndInv, Thread, Drawer
<1>1. \A t \in Thread : Len(stack[t]) <= 2
  <2>1. ASSUME NEW t \in Drawer PROVE Len(stack[t]) <= 2
    <3>1. \A a, b : Len(<<>>) = 0 /\ Len(<<a>>) = 1 /\ Len(<<a, b>>) = 2
      OBVIOUS
    <3>2. StackOf(t)
      BY DEF StackInv
    <3>3. Len(stack[t]) = 0 \/ Len(stack[t]) = 1 \/ Len(stack[t]) = 2
      BY <3>1, <3>2, Zenon DEF StackOf
    <3>4. \A n : n = 0 \/ n = 1 \/ n = 2 => n <= 2
      OBVIOUS
    <3> QED BY <3>3, <3>4
  <2> QED BY <2>1 DEF StackInv
<1>2. Level(W) \in 0..1 /\ Level(R) \in 0..1
  BY DEF Level
<1>3. TypeOK
  BY <1>1, <1>2 DEF TypeOK, LooperInv, LockerInv, DisplayInv, DrawInv, LevelInv, ContextInv, StopInv
<1>4. ContextIsLive
  BY DEF ContextIsLive, ContextInv, Current, DisplayInv
<1>5. ShownIsLive
  <2>1. pc[R] # "drawn"
    BY Labels DEF Own, SwapBody, Inner
  <2> QED BY <2>1 DEF ShownIsLive, PaintingInv, ContextInv, Inner
<1> QED BY <1>3, <1>4, <1>5 DEF BitmapIsLive

\* Once the server has been told that the window is stopped, nobody writes to
\* the frame buffer until it is started again.
THEOREM NoStrayWrite == Spec => []NoWriteWhileStopped
<1>1. IndInv => NoWriteWhileStopped
  BY DEF IndInv, StopInv, NoWriteWhileStopped
<1> QED BY <1>1, Invariance, PTL

\* LockGL and UnlockGL, _LockDraw and _UnlockDraw and the looper's lock pair up
\* on every path through SwapBuffers, Draw, FrameResized and CopyPixelsIn.
THEOREM LocksPairUp == Spec => []LocksReleased
<1>1. IndInv => LocksReleased
  <2> SUFFICES ASSUME IndInv PROVE LocksReleased
    OBVIOUS
  <2>1. pc[W] = "idle" => Held(W) = 0 /\ ~HoldsDraw(W)
    BY DEF Held, HoldsDraw, Inner
  <2>2. pc[R] \in {"run", "ended"} => Held(R) = 0 /\ ~HoldsDraw(R)
    BY GLViewAssumption DEF Held, HoldsDraw, Inner
  <2> QED BY <2>1, <2>2, GLViewAssumption DEF IndInv, LocksReleased, Drawer, LooperInv, DisplayInv, DrawInv, LockerInv
<1> QED BY <1>1, Invariance, PTL
=============================================================================
