----------------------------- MODULE InputPath -----------------------------
(***************************************************************************)
(* From the interrupt handlers to the desktop: keyboard, mouse and timer   *)
(* interrupts, the input queue, SYS_WAIT_EVENT and the cooperative threads *)
(* (kernel-x86/src/interrupts.rs, keyboard.rs, mouse.rs, scheduler.rs, the *)
(* Spinlock and the threads of main.rs, syscall.rs; the event loop of      *)
(* usermode-desktop/src/main.rs).                                          *)
(*                                                                         *)
(* There is one processor.  The running thread takes one step after the    *)
(* other; when the interrupt flag is on, a handler may run between two of  *)
(* them.  Handlers run to the end with interrupts off and are one step.    *)
(***************************************************************************)
EXTENDS RingBuffer

CONSTANTS
  NumThreads,    \* the main thread and those spawned at boot (4)
  ScreenWidth,   \* (1280)
  ScreenHeight,  \* (720)
  MouseBytes,    \* bytes the mouse may send
  OuterTimeout   \* milliseconds the desktop waits for an event (2)

(* What the desktop is told: a key, or where the mouse is and its button.  *)
KeyEvent(key) == <<"key", key>>
MouseEvent(x, y, left) == <<"mouse", x, y, left>>

ASSUME InputAssumption ==
  /\ \A key \in {"a", "A", "enter"} : KeyEvent(key) \in Item
  /\ \A x \in 0 .. ScreenWidth - 1, y \in 0 .. ScreenHeight - 1, left \in BOOLEAN :
       MouseEvent(x, y, left) \in Item
  /\ NumThreads \in Nat \ {0}
  /\ ScreenWidth \in Nat \ {0} /\ ScreenHeight \in Nat \ {0}
  /\ MouseBytes \subseteq 0 .. 255
  /\ OuterTimeout \in Nat

Thread == 0 .. NumThreads - 1
Main == 0

VARIABLES
  ring,       \* INPUT_QUEUE
  queueLock,  \* the spinlock around it
  schedLock,  \* the spinlock around SCHEDULER
  current,    \* current_thread_idx: the thread on the processor
  pc,         \* where each thread is
  flag,       \* the interrupt flag
  saved,      \* the flag without_interrupts will restore
  event,      \* local_event of the SYS_WAIT_EVENT in progress
  limit,      \* its ticks_to_wait
  elapsed,    \* ticks since it began; bounded by limit
  shift,      \* shift_pressed of KEYBOARD_STATE
  mouse       \* MOUSE_CYCLE, MOUSE_PACKETS, MOUSE_X and MOUSE_Y

Mouse ==
  [cycle : 0 .. 2, flags : 0 .. 255, dx : -128 .. 127,
   x : 0 .. ScreenWidth - 1, y : 0 .. ScreenHeight - 1]

threadVars == <<schedLock, current, pc>>
waitVars == <<event, limit, elapsed>>
deviceVars == <<shift, mouse>>
vars == <<ring, queueLock, threadVars, flag, saved, waitVars, deviceVars>>

(* Where the main thread is: in ring 3 before the outer wait or, having an *)
(* event, before the next wait of the inner loop; in the loop of           *)
(* SYS_WAIT_EVENT; in thread_yield.  A background thread is in its own     *)
(* code or in thread_yield.                                                *)
InUser == {"outer", "inner"}
InWait == {"pop", "popping", "check", "disable"}
InYield == {"lock", "switch", "resumed"}

Init ==
  /\ ring = EmptyRing
  /\ queueLock = FALSE /\ schedLock = FALSE
  /\ current = Main
  /\ pc = [t \in Thread |-> IF t = Main THEN "outer" ELSE "body"]
  /\ flag = TRUE /\ saved = FALSE
  /\ event = NoItem /\ limit = 0 /\ elapsed = 0
  /\ shift = FALSE
  /\ mouse = [cycle |-> 0, flags |-> 0, dx |-> 0,
              x |-> ScreenWidth \div 2, y |-> ScreenHeight \div 2]

At(t, label) == current = t /\ pc[t] = label
Goto(t, label) == pc' = [pc EXCEPT ![t] = label]
-----------------------------------------------------------------------------
(* Interrupts.  A handler that found the queue locked would spin for ever, *)
(* for its holder is the code it interrupted.                              *)
Interrupts == flag /\ ~queueLock

(* timer_interrupt_handler                                                 *)
TimerIrq ==
  /\ flag
  /\ elapsed < limit /\ elapsed' = elapsed + 1
  /\ UNCHANGED <<ring, queueLock, threadVars, flag, saved, event, limit, deviceVars>>

Scancode == {"shift", "unshift", "key", "enter", "release"}

(* handle_scancode: the event of a key press, and the shift state.         *)
Pressed(code) ==
  CASE code = "key" -> KeyEvent(IF shift THEN "A" ELSE "a")
    [] code = "enter" -> KeyEvent("enter")
    [] OTHER -> NoItem
ShiftAfter(code) ==
  CASE code = "shift" -> TRUE [] code = "unshift" -> FALSE [] OTHER -> shift

(* push_input_event, when there is an event.                               *)
Queued(item) == IF item = NoItem THEN ring ELSE Push(ring, item)

KeyboardIrq(code) ==
  /\ Interrupts
  /\ shift' = ShiftAfter(code)
  /\ ring' = Queued(Pressed(code))
  /\ UNCHANGED <<queueLock, threadVars, flag, saved, waitVars, mouse>>

(* A byte as i8.                                                           *)
Signed(byte) == IF byte < 128 THEN byte ELSE byte - 256
Synchronised(byte) == (byte \div 8) % 2 = 1

(* The new coordinate is not clamped.                                      *)
Clamp_None(n, size) == n

Clamp(n, size) == IF n < 0 THEN 0 ELSE IF n >= size THEN size - 1 ELSE n
MovedX == Clamp(mouse.x + mouse.dx, ScreenWidth)
MovedY(byte) == Clamp(mouse.y - Signed(byte), ScreenHeight)

(* The event that completes a packet.                                      *)
Moved(byte) ==
  IF mouse.cycle = 2
  THEN MouseEvent(MovedX, MovedY(byte), mouse.flags % 2 = 1)
  ELSE NoItem

(* handle_mouse_interrupt: three bytes make a packet, the first of which   *)
(* has bit 3 set.  The packet's bytes are forgotten at its end, for the    *)
(* code does not read them again.                                          *)
MouseAfter(byte) ==
  CASE mouse.cycle = 0 /\ ~Synchronised(byte) -> mouse
    [] mouse.cycle = 0 /\ Synchronised(byte) ->
         [mouse EXCEPT !.cycle = 1, !.flags = byte]
    [] mouse.cycle = 1 -> [mouse EXCEPT !.cycle = 2, !.dx = Signed(byte)]
    [] OTHER -> [cycle |-> 0, flags |-> 0, dx |-> 0, x |-> MovedX, y |-> MovedY(byte)]

MouseIrq(byte) ==
  /\ Interrupts
  /\ mouse' = MouseAfter(byte)
  /\ ring' = Queued(Moved(byte))
  /\ UNCHANGED <<queueLock, threadVars, flag, saved, waitVars, shift>>
-----------------------------------------------------------------------------
(* Milliseconds to ticks of 10 ms, rounded up.                             *)
TicksToWait(ms) == (ms + 9) \div 10

(* The desktop enters SYS_WAIT_EVENT; the processor masks interrupts.      *)
CallWait(ms) ==
  /\ Goto(Main, "pop")
  /\ flag' = FALSE
  /\ event' = NoItem /\ limit' = TicksToWait(ms) /\ elapsed' = 0
  /\ UNCHANGED <<ring, queueLock, schedLock, current, saved, deviceVars>>

WaitOuter == At(Main, "outer") /\ CallWait(OuterTimeout)
WaitInner == At(Main, "inner") /\ CallWait(0)

(* pop_input_event: interrupts off, lock, pop, unlock, flag restored.      *)
LockQueue ==
  /\ At(Main, "pop") /\ ~queueLock
  /\ queueLock' = TRUE
  /\ saved' = flag /\ flag' = FALSE
  /\ Goto(Main, "popping")
  /\ UNCHANGED <<ring, schedLock, current, waitVars, deviceVars>>

(* An event is returned to ring 3, where interrupts are on.                *)
PopEvent ==
  /\ At(Main, "popping") /\ CanPop(ring)
  /\ event' = Popped(ring) /\ ring' = Pop(ring)
  /\ queueLock' = FALSE
  /\ flag' = TRUE
  /\ Goto(Main, "inner")
  /\ UNCHANGED <<schedLock, current, saved, limit, elapsed, deviceVars>>

PopNothing ==
  /\ At(Main, "popping") /\ ~CanPop(ring)
  /\ queueLock' = FALSE
  /\ flag' = saved
  /\ Goto(Main, "check")
  /\ UNCHANGED <<ring, schedLock, current, saved, waitVars, deviceVars>>

(* The wait is over: 0 is returned, and the desktop goes round its loop.   *)
TimeOut ==
  /\ At(Main, "check") /\ elapsed >= limit
  /\ flag' = TRUE
  /\ Goto(Main, "outer")
  /\ UNCHANGED <<ring, queueLock, schedLock, current, saved, waitVars, deviceVars>>

(* The wait goes on with interrupts still off.                             *)
KeepWaiting_Masked ==
  /\ At(Main, "check") /\ elapsed < limit
  /\ Goto(Main, "lock")
  /\ UNCHANGED <<ring, queueLock, schedLock, current, flag, saved, waitVars, deviceVars>>

(* It is not: interrupts on, and yield.                                    *)
KeepWaiting ==
  /\ At(Main, "check") /\ elapsed < limit
  /\ flag' = TRUE
  /\ Goto(Main, "lock")
  /\ UNCHANGED <<ring, queueLock, schedLock, current, saved, waitVars, deviceVars>>

(* The time is looked at before the queue.                                 *)
DisableInterrupts_TimeFirst ==
  /\ At(Main, "disable")
  /\ flag' = FALSE
  /\ Goto(Main, "check")
  /\ UNCHANGED <<ring, queueLock, schedLock, current, saved, waitVars, deviceVars>>

DisableInterrupts ==
  /\ At(Main, "disable")
  /\ flag' = FALSE
  /\ Goto(Main, "pop")
  /\ UNCHANGED <<ring, queueLock, schedLock, current, saved, waitVars, deviceVars>>
-----------------------------------------------------------------------------
(* A background thread's own code; then it yields.                         *)
Body(t) ==
  /\ t # Main /\ At(t, "body")
  /\ Goto(t, "lock")
  /\ UNCHANGED <<ring, queueLock, schedLock, current, flag, saved, waitVars, deviceVars>>

(* SCHEDULER.lock() spins as long as the lock is held.                     *)
LockScheduler(t) ==
  /\ At(t, "lock") /\ ~schedLock
  /\ schedLock' = TRUE
  /\ Goto(t, "switch")
  /\ UNCHANGED <<ring, queueLock, current, flag, saved, waitVars, deviceVars>>

(* The lock is left to the guard of the thread that yields.                *)
ThreadYield_KeepsLock(t) ==
  /\ At(t, "switch")
  /\ current' = (t + 1) % NumThreads
  /\ Goto(t, "resumed")
  /\ UNCHANGED <<ring, queueLock, schedLock, flag, saved, waitVars, deviceVars>>

(* The turn goes round the background threads only.                        *)
ThreadYield_SkipsMain(t) ==
  /\ At(t, "switch")
  /\ current' = IF t + 1 < NumThreads THEN t + 1 ELSE 1
  /\ schedLock' = FALSE
  /\ Goto(t, "resumed")
  /\ UNCHANGED <<ring, queueLock, flag, saved, waitVars, deviceVars>>

(* thread_yield: the next thread in turn; the lock is released by force,   *)
(* for the guard will not be dropped until this thread resumes.            *)
ThreadYield(t) ==
  /\ At(t, "switch")
  /\ current' = (t + 1) % NumThreads
  /\ schedLock' = FALSE
  /\ Goto(t, "resumed")
  /\ UNCHANGED <<ring, queueLock, flag, saved, waitVars, deviceVars>>

(* Back from the switch, the guard is dropped.                             *)
DropGuard(t) ==
  /\ At(t, "resumed")
  /\ schedLock' = FALSE
  /\ Goto(t, IF t = Main THEN "disable" ELSE "body")
  /\ UNCHANGED <<ring, queueLock, current, flag, saved, waitVars, deviceVars>>
-----------------------------------------------------------------------------
Syscall ==
  \/ WaitOuter \/ WaitInner
  \/ LockQueue \/ PopEvent \/ PopNothing
  \/ TimeOut \/ KeepWaiting \/ DisableInterrupts

ThreadStep(t) == Body(t) \/ LockScheduler(t) \/ ThreadYield(t) \/ DropGuard(t)

Running == Syscall \/ \E t \in Thread : ThreadStep(t)

Next ==
  \/ TimerIrq
  \/ \E code \in Scancode : KeyboardIrq(code)
  \/ \E byte \in MouseBytes : MouseIrq(byte)
  \/ Running

(* The processor goes on running, and the timer interrupt is served once   *)
(* interrupts are on again: the interrupt controller keeps it pending.     *)
Spec == Init /\ [][Next]_vars /\ WF_vars(Running) /\ SF_vars(TimerIrq)
-----------------------------------------------------------------------------
TypeOK ==
  /\ ring \in Ring
  /\ queueLock \in BOOLEAN /\ schedLock \in BOOLEAN
  /\ current \in Thread
  /\ pc \in [Thread -> InUser \cup InWait \cup InYield \cup {"body"}]
  /\ flag \in BOOLEAN /\ saved \in BOOLEAN /\ shift \in BOOLEAN
  /\ event \in Item \cup {NoItem}
  /\ limit \in Nat /\ elapsed \in 0 .. limit
  /\ mouse \in Mouse

(* Handlers and system calls keep the ring packed, so that pop never meets *)
(* a None in front of queued input, which would jam the queue.             *)
QueueIsPacked == RingIsPacked(ring)

(* Nobody spins on this one processor: whenever a handler may run, the     *)
(* lock it takes is free, and a thread that locks the scheduler finds it   *)
(* free, whichever thread yielded to it.                                   *)
LocksAreFree ==
  /\ flag => ~queueLock
  /\ pc[current] = "lock" => ~schedLock

(* Input reaches the desktop in the order of the interrupts, nothing twice *)
(* and nothing lost but what finds the queue full (QueueSize - 1 events).  *)
Fifo == INSTANCE BoundedFifo
  WITH Capacity <- QueueSize - 1, queue <- Queue(ring), taken <- event
Unqueued == UNCHANGED Queue(ring)

InputIsFifo ==
  [][\/ \E code \in Scancode : KeyboardIrq(code) /\
          IF Pressed(code) = NoItem THEN Unqueued ELSE Fifo!Offer(Pressed(code))
     \/ \E byte \in MouseBytes : MouseIrq(byte) /\
          IF Moved(byte) = NoItem THEN Unqueued ELSE Fifo!Offer(Moved(byte))
     \/ PopEvent /\ Fifo!Take
     \/ (TimerIrq \/ Running) /\ Unqueued]_vars

(* SYS_WAIT_EVENT does not time out on input that is already there, even   *)
(* if it came with the last tick.                                          *)
TimeoutMeansNoInput == [][TimeOut => Queue(ring) = <<>>]_vars

(* Every SYS_WAIT_EVENT returns, whatever the other threads do.            *)
WaitReturns == pc[Main] = "pop" ~> pc[Main] \in InUser

(* Every queued event is read.                                             *)
InputIsRead ==
  \A s \in Slot : ring.data[s] # NoItem ~> ring.data[s] = NoItem
=============================================================================
