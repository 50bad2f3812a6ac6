-------------------------------- MODULE GLView --------------------------------
(***************************************************************************)
(* BGLView (libGL/GLView.cpp, and the same code in libGL2) with the        *)
(* renderer of OSMesaDriver/SoftwareRenderer.cpp, used as OpenGLTest2 uses *)
(* it: the window's thread handles messages under the looper lock, a       *)
(* render thread draws frames in a loop, and, if the window is a direct    *)
(* window, a third thread reports when the frame buffer may be written.    *)
(* Four locks are involved: the looper lock, fDisplayLock, fDrawLock and   *)
(* the renderer's fLocker.                                                 *)
(***************************************************************************)
EXTENDS Sequences, Naturals

CONSTANTS
  W, R, D,     \* the window's thread, the render thread, the direct window's thread
  None,
  Size,        \* sizes of the view
  MaxResize, MaxDirect,  \* bounds: resizes, direct modifications and stops
  MaxKey       \* bound: space keys, in direct mode and not

ASSUME GLViewAssumption ==
  /\ W # R /\ R # D /\ W # D /\ None \notin {W, R, D}
  /\ Size # {}
  /\ {MaxResize, MaxDirect} \subseteq Nat /\ MaxKey \in [BOOLEAN -> Nat]

VARIABLES
  fDirectModeEnabled,  \* set by the client before the window is shown, or never
  pc, stack,     \* where each thread is, and the labels it returns to
  looper,        \* the thread that holds the looper lock
  display, draw, \* fDisplayLock and fDrawLock: their owners and counts
  fLocker,       \* the renderer's lock, while it is held for more than one step
  size,          \* fWidth and fHeight
  backBuf,       \* fBackBuf: which of the bitmaps allocated so far, and its size
  current,       \* the bitmap that a thread's GL context draws into
  swapLevel,     \* fSwapBuffersLevel
  fInfo, clip,   \* the frame buffer the renderer knows, and the one the view knows
  painting,      \* the bitmap that a thread is copying to the screen
  writing,       \* the threads that write to the frame buffer itself
  drawn,         \* history: the bitmap into which the last frame was drawn
  fRun, attached,
  stopped,       \* the server was told that nobody writes to the frame buffer
  done           \* history: how many resizes, keys and direct calls there were

control == <<pc, stack>>
locks == <<looper, display, draw, fLocker>>
buffers == <<size, backBuf, current, swapLevel>>
screen == <<fInfo, clip, painting, writing, drawn, stopped>>
client == <<fDirectModeEnabled, fRun, attached, done>>
vars == <<control, locks, buffers, screen, client>>

Thread == {W, R, D}
Unlocked == [owner |-> None, count |-> 0]

Init ==
  /\ fDirectModeEnabled \in BOOLEAN
  /\ pc = [t \in Thread |-> IF t = R THEN "run" ELSE "idle"]
  /\ stack = [t \in Thread |-> <<>>]
  /\ looper = None /\ display = Unlocked /\ draw = Unlocked /\ fLocker = None
  /\ size \in Size
  /\ \E s \in Size : backBuf = [id |-> 1, size |-> s]
  /\ current = [t \in Thread |-> None]
  /\ swapLevel = 0
  /\ fInfo = "null" /\ clip = "empty"
  /\ painting = [t \in Thread |-> None] /\ writing = {} /\ drawn = None
  /\ fRun = TRUE /\ attached = TRUE
  /\ stopped = TRUE
  /\ done = [resize |-> 0, key |-> 0, direct |-> 0]

------------------------------------------------------------------------------
(* Control flow and locks.                                                 *)

Goto(t, from, to) ==
  pc[t] = from /\ pc' = [pc EXCEPT ![t] = to] /\ UNCHANGED stack

CallFrom(t, from, method, back) ==
  /\ pc[t] = from
  /\ pc' = [pc EXCEPT ![t] = method]
  /\ stack' = [stack EXCEPT ![t] = <<back>> \o @]

Return(t, from) ==
  /\ pc[t] = from
  /\ pc' = [pc EXCEPT ![t] = Head(stack[t])]
  /\ stack' = [stack EXCEPT ![t] = Tail(@)]

\* BLocker is recursive; Unlock by a thread that does not hold it does nothing.
CanLock(lock, t) == lock.owner \in {None, t}
Locked(lock, t) == [owner |-> t, count |-> lock.count + 1]
Released(lock, t) ==
  IF lock.owner # t THEN lock
  ELSE IF lock.count = 1 THEN Unlocked ELSE [lock EXCEPT !.count = @ - 1]

\* _LockDraw and _UnlockDraw do nothing outside direct mode.
LockDraw(t) == IF fDirectModeEnabled THEN CanLock(draw, t) /\ draw' = Locked(draw, t) ELSE UNCHANGED draw
UnlockDraw(t) == draw' = IF fDirectModeEnabled THEN Released(draw, t) ELSE draw

------------------------------------------------------------------------------
(* LockGL and UnlockGL.                                                    *)

LockGL(t) ==
  /\ CanLock(display, t)
  /\ display' = Locked(display, t)
  /\ IF display.count = 0 THEN Goto(t, "lockGL", "rendererLock") ELSE Return(t, "lockGL")
  /\ UNCHANGED <<looper, draw, fLocker, buffers, screen, client>>

\* Mutant: a bitmap that is large enough is kept.
AllocBackBufGrow ==
  /\ backBuf' = IF backBuf.size < size THEN [id |-> backBuf.id + 1, size |-> size] ELSE backBuf
  /\ UNCHANGED <<size, swapLevel>>

AllocBackBuf ==
  /\ backBuf' = IF backBuf.size # size THEN [id |-> backBuf.id + 1, size |-> size] ELSE backBuf
  /\ UNCHANGED <<size, swapLevel>>

\* SoftwareRenderer::LockGL: a bitmap of the wrong size is replaced, but not
\* on behalf of SwapBuffers, which still has to show it.
RendererLockGL(t) ==
  /\ fLocker = None
  /\ Return(t, "rendererLock")
  /\ IF swapLevel = 0 THEN AllocBackBuf ELSE UNCHANGED <<size, backBuf, swapLevel>>
  /\ current' = [current EXCEPT ![t] = backBuf'.id]
  /\ UNCHANGED <<locks, screen, client>>

UnlockGL(t) ==
  /\ Return(t, "unlockGL")
  /\ current' = IF display.count = 1 THEN [current EXCEPT ![t] = None] ELSE current
  /\ display' = Released(display, t)
  /\ UNCHANGED <<looper, draw, fLocker, size, backBuf, swapLevel, screen, client>>

------------------------------------------------------------------------------
(* BGLView::SwapBuffers and SoftwareRenderer::SwapBuffers.                 *)

\* Mutant: the draw lock is not taken.
SwapLockDrawNot(t) ==
  /\ Goto(t, "swap", "raise")
  /\ UNCHANGED <<locks, buffers, screen, client>>

SwapLockDraw(t) ==
  /\ Goto(t, "swap", "raise")
  /\ LockDraw(t)
  /\ UNCHANGED <<looper, display, fLocker, buffers, screen, client>>

\* Mutant: without LockGL.
SwapRaiseUnlocked(t) ==
  /\ Goto(t, "raise", "show")
  /\ swapLevel' = swapLevel + 1
  /\ UNCHANGED <<locks, size, backBuf, current, screen, client>>

SwapRaise(t) ==
  /\ CallFrom(t, "raise", "lockGL", "show")
  /\ swapLevel' = swapLevel + 1
  /\ UNCHANGED <<locks, size, backBuf, current, screen, client>>

SwapChoose(t) ==
  /\ Goto(t, "show", IF fDirectModeEnabled /\ fInfo # "null" THEN "blit" ELSE "askLooper")
  /\ UNCHANGED <<locks, buffers, screen, client>>

\* Mutant: LockLooper, without a timeout.
SwapWaitLooper(t) ==
  /\ looper \in {None, t} /\ looper' = t
  /\ Goto(t, "askLooper", "paint")
  /\ UNCHANGED <<display, draw, fLocker, buffers, screen, client>>

\* LockLooperWithTimeout: a looper that stays locked is given up.
SwapAskLooper(t) ==
  /\ \/ /\ looper \in {None, t}
        /\ looper' = t
        /\ Goto(t, "askLooper", "paint")
     \/ /\ looper \notin {None, t}
        /\ Goto(t, "askLooper", "realloc")
        /\ UNCHANGED looper
  /\ UNCHANGED <<display, draw, fLocker, buffers, screen, client>>

\* DrawBitmap(fBackBuf) takes its time; fLocker is not held.
SwapPaint(t) ==
  /\ Goto(t, "paint", "painted")
  /\ painting' = [painting EXCEPT ![t] = backBuf.id]
  /\ UNCHANGED <<locks, buffers, fInfo, clip, writing, drawn, stopped, client>>

SwapPainted(t) ==
  /\ Goto(t, "painted", "realloc")
  /\ painting' = [painting EXCEPT ![t] = None]
  /\ looper' = IF t = W THEN W ELSE None
  /\ UNCHANGED <<display, draw, fLocker, buffers, fInfo, clip, writing, drawn, stopped, client>>

\* The copy to the frame buffer, under fLocker; an empty clip list copies nothing.
SwapBlit(t) ==
  /\ fLocker = None /\ fLocker' = t
  /\ Goto(t, "blit", "blitted")
  /\ painting' = [painting EXCEPT ![t] = backBuf.id]
  /\ writing' = IF fInfo = "rects" THEN writing \cup {t} ELSE writing
  /\ UNCHANGED <<looper, display, draw, buffers, fInfo, clip, drawn, stopped, client>>

SwapBlitted(t) ==
  /\ Goto(t, "blitted", "realloc")
  /\ fLocker' = None
  /\ painting' = [painting EXCEPT ![t] = None]
  /\ writing' = writing \ {t}
  /\ UNCHANGED <<looper, display, draw, buffers, fInfo, clip, drawn, stopped, client>>

SwapRealloc(t) ==
  /\ fLocker = None
  /\ CallFrom(t, "realloc", "unlockGL", "lower")
  /\ AllocBackBuf
  /\ current' = IF backBuf' # backBuf THEN [current EXCEPT ![t] = backBuf'.id] ELSE current
  /\ UNCHANGED <<locks, screen, client>>

SwapLower(t) ==
  /\ Goto(t, "lower", "swapUnlockDraw")
  /\ swapLevel' = swapLevel - 1
  /\ UNCHANGED <<locks, size, backBuf, current, screen, client>>

\* Mutant: _UnlockDraw is forgotten.
SwapUnlockDrawNot(t) ==
  /\ Return(t, "swapUnlockDraw")
  /\ UNCHANGED <<locks, buffers, screen, client>>

SwapUnlockDraw(t) ==
  /\ Return(t, "swapUnlockDraw")
  /\ UnlockDraw(t)
  /\ UNCHANGED <<looper, display, fLocker, buffers, screen, client>>

GL(t) ==
  \/ LockGL(t) \/ RendererLockGL(t) \/ UnlockGL(t)
  \/ SwapLockDraw(t) \/ SwapRaise(t) \/ SwapChoose(t) \/ SwapAskLooper(t)
  \/ SwapPaint(t) \/ SwapPainted(t) \/ SwapBlit(t) \/ SwapBlitted(t)
  \/ SwapRealloc(t) \/ SwapLower(t) \/ SwapUnlockDraw(t)

------------------------------------------------------------------------------
(* The render thread of OpenGLTest2.                                       *)

RenderLoop ==
  /\ IF fRun THEN CallFrom(R, "run", "lockGL", "frame") ELSE Goto(R, "run", "ended")
  /\ UNCHANGED <<locks, buffers, screen, client>>

RenderFrame ==
  /\ CallFrom(R, "frame", "swap", "frameDone")
  /\ drawn' = current[R]
  /\ UNCHANGED <<locks, buffers, fInfo, clip, painting, writing, stopped, client>>

RenderUnlock ==
  /\ CallFrom(R, "frameDone", "unlockGL", "run")
  /\ UNCHANGED <<locks, buffers, screen, client>>

Render == RenderLoop \/ RenderFrame \/ RenderUnlock \/ GL(R)

------------------------------------------------------------------------------
(* The window's thread.                                                    *)

Receive(label) ==
  /\ attached /\ looper = None /\ looper' = W
  /\ Goto(W, "idle", label)

ReceiveDraw ==
  /\ Receive("drawLock")
  /\ UNCHANGED <<display, draw, fLocker, buffers, screen, client>>

DrawLockDraw ==
  /\ Goto(W, "drawLock", "draw")
  /\ LockDraw(W)
  /\ UNCHANGED <<looper, display, fLocker, buffers, screen, client>>

\* SoftwareRenderer::Draw paints under fLocker, except in direct mode.
DrawPaint ==
  /\ fLocker = None
  /\ IF fDirectModeEnabled /\ fInfo # "null"
     THEN Goto(W, "draw", "drawUnlock") /\ UNCHANGED <<fLocker, painting>>
     ELSE /\ Goto(W, "draw", "drawn")
          /\ fLocker' = W
          /\ painting' = [painting EXCEPT ![W] = backBuf.id]
  /\ UNCHANGED <<looper, display, draw, buffers, fInfo, clip, writing, drawn, stopped, client>>

DrawPainted ==
  /\ Goto(W, "drawn", "drawUnlock")
  /\ fLocker' = None
  /\ painting' = [painting EXCEPT ![W] = None]
  /\ UNCHANGED <<looper, display, draw, buffers, fInfo, clip, writing, drawn, stopped, client>>

DrawUnlockDraw ==
  /\ Goto(W, "drawUnlock", "handled")
  /\ UnlockDraw(W)
  /\ UNCHANGED <<looper, display, fLocker, buffers, screen, client>>

ReceiveFrameResized ==
  /\ done.resize < MaxResize
  /\ Receive("resizeLock")
  /\ done' = [done EXCEPT !.resize = @ + 1]
  /\ UNCHANGED <<display, draw, fLocker, buffers, screen, fDirectModeEnabled, fRun, attached>>

ResizeLockDraw ==
  /\ Goto(W, "resizeLock", "resize")
  /\ LockDraw(W)
  /\ UNCHANGED <<looper, display, fLocker, buffers, screen, client>>

\* _CallDirectConnected and FrameResized of the renderer, then _UnlockDraw.
ResizeRenderer ==
  /\ fLocker = None
  /\ CallFrom(W, "resize", "lockGL", "reshape")
  /\ fInfo' = IF fDirectModeEnabled THEN clip ELSE fInfo
  /\ size' \in Size
  /\ UnlockDraw(W)
  /\ UNCHANGED <<looper, display, fLocker, backBuf, current, swapLevel, clip, painting, writing, drawn, stopped, client>>

\* SampleGLView::FrameResized sets the viewport between LockGL and UnlockGL.
Reshape ==
  /\ CallFrom(W, "reshape", "unlockGL", "handled")
  /\ UNCHANGED <<locks, buffers, screen, client>>

\* The space key: CopyPixelsIn, then SwapBuffers without LockGL.
ReceiveKey ==
  /\ done.key < MaxKey[fDirectModeEnabled]
  /\ Receive("copyRaise")
  /\ done' = [done EXCEPT !.key = @ + 1]
  /\ UNCHANGED <<display, draw, fLocker, buffers, screen, fDirectModeEnabled, fRun, attached>>

CopyPixelsIn ==
  /\ CallFrom(W, "copyRaise", "lockGL", "copy")
  /\ swapLevel' = swapLevel + 1
  /\ UNCHANGED <<locks, size, backBuf, current, screen, client>>

CopyUnlock ==
  /\ CallFrom(W, "copy", "unlockGL", "copyLower")
  /\ UNCHANGED <<locks, buffers, screen, client>>

CopyDone ==
  /\ CallFrom(W, "copyLower", "swap", "handled")
  /\ swapLevel' = swapLevel - 1
  /\ UNCHANGED <<locks, size, backBuf, current, screen, client>>

\* DetachedFromWindow stops the render thread, waits for it (the suspension
\* ends with the wait) and then calls BGLView::AttachedToWindow.
ReceiveDetach ==
  /\ Receive("join")
  /\ fRun' = FALSE
  /\ UNCHANGED <<display, draw, fLocker, buffers, screen, fDirectModeEnabled, attached, done>>

Join ==
  /\ pc[R] = "ended"
  /\ CallFrom(W, "join", "lockGL", "viewport")
  /\ UNCHANGED <<locks, buffers, screen, client>>

AttachAgain ==
  /\ CallFrom(W, "viewport", "unlockGL", "handled")
  /\ fInfo' = IF fDirectModeEnabled THEN clip ELSE fInfo
  /\ attached' = FALSE
  /\ UNCHANGED <<locks, buffers, clip, painting, writing, drawn, stopped, fDirectModeEnabled, fRun, done>>

Handled ==
  /\ Goto(W, "handled", "idle")
  /\ looper' = None
  /\ UNCHANGED <<display, draw, fLocker, buffers, screen, client>>

WindowReceives == ReceiveDraw \/ ReceiveFrameResized \/ ReceiveKey \/ ReceiveDetach
WindowProceeds ==
  \/ DrawLockDraw \/ DrawPaint \/ DrawPainted \/ DrawUnlockDraw
  \/ ResizeLockDraw \/ ResizeRenderer \/ Reshape
  \/ CopyPixelsIn \/ CopyUnlock \/ CopyDone
  \/ Join \/ AttachAgain \/ Handled \/ GL(W)

------------------------------------------------------------------------------
(* DirectConnected, called by the direct window's thread.                  *)

\* A stop is always followed by a start, so only the others are bounded.
CountDirect == done.direct < MaxDirect /\ done' = [done EXCEPT !.direct = @ + 1]

\* B_DIRECT_START: the frame buffer may be written from now on.
DirectStart ==
  /\ fDirectModeEnabled /\ attached /\ stopped
  /\ Goto(D, "idle", "callRenderer")
  /\ clip' = "rects" /\ stopped' = FALSE
  /\ UnlockDraw(D)
  /\ UNCHANGED <<looper, display, fLocker, buffers, fInfo, painting, writing, drawn, client>>

\* B_DIRECT_MODIFY and B_DIRECT_STOP wait until no frame is being copied.
DirectModify ==
  /\ fDirectModeEnabled /\ attached /\ ~stopped /\ CountDirect
  /\ CanLock(draw, D)
  /\ Goto(D, "idle", "callRenderer")
  /\ UNCHANGED <<locks, buffers, screen, fDirectModeEnabled, fRun, attached>>

DirectStop ==
  /\ fDirectModeEnabled /\ attached /\ ~stopped /\ CountDirect
  /\ LockDraw(D)
  /\ Goto(D, "idle", "stopping")
  /\ UNCHANGED <<looper, display, fLocker, buffers, screen, fDirectModeEnabled, fRun, attached>>

\* _CallDirectConnected; the answer to B_DIRECT_STOP goes to the server.
DirectRenderer ==
  /\ fLocker = None
  /\ \/ Goto(D, "callRenderer", "idle") /\ UNCHANGED stopped
     \/ Goto(D, "stopping", "idle") /\ stopped' = TRUE
  /\ fInfo' = clip
  /\ UNCHANGED <<locks, buffers, clip, painting, writing, drawn, client>>

DirectWindow == DirectStart \/ DirectModify \/ DirectStop \/ DirectRenderer

------------------------------------------------------------------------------
\* The view is gone and the render thread has ended.
Finished == ~attached /\ pc[W] = "idle" /\ UNCHANGED vars

Next == Render \/ WindowReceives \/ WindowProceeds \/ DirectWindow \/ Finished

Spec == Init /\ [][Next]_vars

\* All threads run.  A BLocker hands a contended lock to its waiters in order,
\* so the window gets the display lock although the render thread asks for it
\* again and again.
FairSpec == Spec /\ SF_vars(Render) /\ SF_vars(WindowProceeds)

------------------------------------------------------------------------------
TypeOK ==
  /\ looper \in {None, W, R} /\ fLocker \in {None, W, R}
  /\ display.owner \in {None, W, R} /\ display.count \in 0..2
  /\ draw.owner \in {None, W, R, D} /\ draw.count \in 0..2
  /\ size \in Size /\ backBuf.size \in Size /\ backBuf.id \in Nat
  /\ swapLevel \in 0..2
  /\ fInfo \in {"null", "empty", "rects"} /\ clip \in {"empty", "rects"}
  /\ \A t \in Thread : Len(stack[t]) <= 2

\* A GL context is current in one thread at a time, the one that holds the
\* display lock, and draws into the bitmap that exists: resizing never leaves
\* it with a deleted one.
ContextIsLive ==
  \A t \in Thread : current[t] # None => display.owner = t /\ current[t] = backBuf.id

\* A bitmap is not replaced while a thread copies it to the screen, although
\* SwapBuffers and Draw hold different locks meanwhile, and what the render
\* thread shows is the bitmap it drew the frame into.
ShownIsLive ==
  /\ \A t \in Thread : painting[t] # None => painting[t] = backBuf.id
  /\ painting[R] # None => painting[R] = drawn

\* Whichever thread resizes, draws or shows, nobody uses a bitmap that is gone.
BitmapIsLive == TypeOK /\ ContextIsLive /\ ShownIsLive

\* After the answer to B_DIRECT_STOP and before the next B_DIRECT_START nobody
\* writes to the frame buffer.
NoWriteWhileStopped == stopped => writing = {}

\* No thread keeps a lock it does not need: between two frames and between two
\* messages only a stopped direct window holds the draw lock.
LocksReleased ==
  /\ pc[W] = "idle" => W \notin {looper, display.owner, draw.owner, fLocker}
  /\ pc[R] \in {"run", "ended"} => R \notin {looper, display.owner, draw.owner, fLocker}

\* SwapBuffers takes fDrawLock and then fDisplayLock (GLView.cpp:95).  The render
\* thread calls it with fDisplayLock held, the space key without: in direct mode
\* each can come to wait for the lock that the other one has.
SwapLockCycle == draw.owner = W /\ display.owner = R /\ pc[W] = "lockGL" /\ pc[R] = "swap"

\* The window handles every message, and the render thread finishes every frame:
\* neither the looper lock, which the render thread wants while it holds the
\* display lock, nor the join blocks them for ever.  Only two things do: the
\* cycle above, and a direct window that is stopped, until it is started again.
WindowReturns ==
  /\ (pc[W] # "idle") ~> (pc[W] = "idle" \/ SwapLockCycle \/ draw.owner = D)
  /\ (pc[R] # "run") ~> (pc[R] \in {"run", "ended"} \/ SwapLockCycle \/ draw.owner = D)

\* While frames are drawn the bitmap takes on the size of the view.
BufferFollowsSize ==
  (~fDirectModeEnabled /\ backBuf.size # size) ~> (backBuf.size = size \/ ~fRun)
==============================================================================
