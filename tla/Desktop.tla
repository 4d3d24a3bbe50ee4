------------------------------- MODULE Desktop -------------------------------
(***************************************************************************)
(* The desktop program of ring 3: its five windows, the launchpad, the     *)
(* dock, and what its event handlers and its animation clock do to them    *)
(* (usermode-desktop/src/window.rs, input.rs, main.rs, state.rs).          *)
(*                                                                         *)
(* The screen is cut into rows of Cols columns.  The windows stand on the  *)
(* desk, which has two: one for the first 380 lines of a window, which its *)
(* backing store has room for, and one, the foot, for those below them.    *)
(* The dock is the third.  Windows move along the columns only.  Where a   *)
(* click falls within a window, a card or a dock item is a choice.         *)
(* Drawing is in Compositor, which has the other steps of the event loop.  *)
(***************************************************************************)
EXTENDS Integers, Sequences, FiniteSets, SequencesExt

CONSTANTS
  InitStack,  \* the windows, bottom first
  StartX,     \* StartX[w], the column where window w first stands
  Cols,       \* columns of the screen
  Width,      \* columns of a window that is not maximized
  Margin,     \* columns added on each side of a dirty rectangle; at least the
              \* one by which the dock swells (20 pixels for at most 17)
  AnimTop,    \* steps of a window's animation
  MenuTop,    \* steps of the launchpad's animation
  MaxRects,   \* rectangles the dirty tracker has room for
  StartOpen,  \* sets of windows, one of which is open already at the start
  MouseCells, \* cells the mouse is moved to
  MaxInputs   \* bound: input events, serial bytes and metric updates

(* Identifiers of the windows, as in the code.                             *)
Monitor == 0
Console == 1
Files == 2
Settings == 3
Windows == Range(InitStack)

Column == 0 .. Cols - 1
Desk(cols) == {"desk", "foot"} \X (cols \cap Column)
Dock(cols) == {"dock"} \X (cols \cap Column)
DeskCells == Desk(Column)
Cells == DeskCells \cup Dock(Column)

ASSUME DesktopAssumption ==
  /\ InitStack \in Seq(0 .. 4) /\ IsInjective(InitStack)
  /\ StartX \in [Windows -> Int]
  /\ Cols \in Nat \ {0} /\ Width \in 1 .. Cols /\ Margin \in Nat \ {0}
  /\ AnimTop \in Nat \ {0} /\ MenuTop \in Nat \ {0}
  /\ StartOpen \subseteq SUBSET Windows /\ StartOpen # {}
  /\ MouseCells \subseteq Cells /\ MouseCells \cap DeskCells # {}
  /\ MaxRects \in Nat /\ MaxInputs \in Nat

VARIABLES
  win,     \* win[w], the window structure
  stack,   \* the order of WINDOWS, the topmost last
  menu,    \* the launchpad: open, animating, progress
  modal,   \* whether the file manager's dialog is open
  cursor,  \* the cursor, also the previous mouse position
  held,    \* prev_left_clicked
  redraw,  \* needs_redraw
  track,   \* the dirty tracker: cells of its rectangles, count, all_dirty
  dirty,   \* dirty[w], is_dirty of the backing store
  content, \* content[w], the version of what the window has to show
  phase,   \* where the event loop is
  inputs   \* inputs so far

windowVars == <<win, stack, menu, modal>>
drawVars == <<redraw, track, dirty>>
deskVars == <<windowVars, cursor, held, drawVars, content, phase, inputs>>
-----------------------------------------------------------------------------
Span(x, width) == x .. x + width - 1
Widened(x, width) == Span(x - Margin, width + 2 * Margin)

WidthOf(w) == IF w.maximized THEN Cols ELSE Width
BodyOf(w) == Span(w.x, WidthOf(w))
AreaOf(w) == Desk(Widened(w.x, WidthOf(w)))
IsVisible(w) == w.open \/ w.animating

(* get_dock_layout: five icons in the middle, swollen under the cursor.    *)
DockSpan(at) ==
  LET middle == Cols \div 2
      reach == IF at[1] = "dock" THEN 2 ELSE 1
  IN  middle - reach .. middle + reach
DockArea(at) ==
  Dock((Min(DockSpan(at)) - Margin) .. (Max(DockSpan(at)) + Margin))
OnDock(at) == at \in Dock(DockSpan(at))

(* DirtyRectTracker: the marked cells stand for its rectangles.            *)
CleanTracker == [cells |-> {}, count |-> 0, all |-> FALSE]
MarkAll(t) == [t EXCEPT !.all = TRUE]
(* n calls of add_rect, of rectangles that together cover these cells.     *)
AddRects(t, n, cells) ==
  IF t.all THEN t
  ELSE IF t.count + n > MaxRects THEN MarkAll(t)
  ELSE [t EXCEPT !.cells = @ \cup cells, !.count = @ + n]

NewWindow(x) ==
  [open |-> FALSE, focused |-> FALSE, dragging |-> FALSE, maximized |-> FALSE,
   x |-> x, prevX |-> x, animating |-> FALSE, opening |-> TRUE,
   progress |-> AnimTop]

(* The windows of the program, or those of a user who has opened some and  *)
(* then focused the last of them, before the screen is drawn again.        *)
StartWindow(w, opened) ==
  LET Shown == SelectSeq(InitStack, LAMBDA v : v \in opened)
  IN  [NewWindow(StartX[w]) EXCEPT
         !.open = w \in opened,
         !.focused = w \in opened /\ w = Last(Shown)]

DeskInit ==
  /\ \E opened \in StartOpen :
       win = [w \in Windows |-> StartWindow(w, opened)]
  /\ stack = InitStack
  /\ menu = [open |-> FALSE, animating |-> FALSE, progress |-> 0]
  /\ modal = FALSE
  /\ cursor = (CHOOSE c \in MouseCells \cap DeskCells : TRUE) /\ held = FALSE
  /\ redraw = TRUE /\ track = MarkAll(CleanTracker)
  /\ dirty = [w \in Windows |-> TRUE]
  /\ content = [w \in Windows |-> 0]
  /\ phase = "events" /\ inputs = 0
-----------------------------------------------------------------------------
Top == stack[Len(stack)]
Rank(w) == CHOOSE i \in DOMAIN stack : stack[i] = w

(* The window is pushed on top without having been taken out.              *)
Raised_Twice(w) == Append(stack, w)

(* The windows above w move down by one, and w is put on top.              *)
Raised(w) == Append(RemoveAt(stack, Rank(w)), w)

(* A window that loses the focus goes on following the mouse.              *)
Unfocused_Drags(w) == [w EXCEPT !.focused = FALSE]

Unfocused(w) == [w EXCEPT !.focused = FALSE, !.dragging = FALSE]
Closing(w) == [w EXCEPT !.animating = TRUE, !.opening = FALSE, !.progress = AnimTop]
AllDirty == [w \in Windows |-> TRUE]
Changed(w) == [content EXCEPT ![w] = 1 - @]

(* The other windows keep what they have.                                  *)
Focus_Alone(w, changed) ==
  /\ stack' = Raised(w)
  /\ win' = [win EXCEPT ![w] = [changed EXCEPT !.focused = TRUE]]

(* Window w as changed, on top and with the focus; the others without it.  *)
Focus(w, changed) ==
  /\ stack' = Raised(w)
  /\ win' = [v \in Windows |-> IF v = w THEN [changed EXCEPT !.focused = TRUE]
                               ELSE Unfocused(win[v])]

(* focus_window_by_id, which opens a closed window.                        *)
FocusById(w) ==
  Focus(w, IF win[w].open THEN [win[w] EXCEPT !.dragging = FALSE]
           ELSE [win[w] EXCEPT !.dragging = FALSE, !.open = TRUE,
                               !.animating = TRUE, !.opening = TRUE,
                               !.progress = 0])

(* All backing stores and the whole screen are to be drawn again.          *)
Repaint == dirty' = AllDirty /\ track' = MarkAll(track)

MenuCloses == menu' = [menu EXCEPT !.open = FALSE, !.animating = TRUE]

(* Choosing an application in the launchpad.  Shut Down ends the program.  *)
Launch(w) == FocusById(w) /\ Repaint /\ MenuCloses

HasFocus(w) == w \in Windows /\ win[w].focused

TakeInput ==
  /\ phase = "events" /\ inputs < MaxInputs
  /\ inputs' = inputs + 1
  /\ UNCHANGED phase
-----------------------------------------------------------------------------
(* A keyboard event goes to the first of: the dialog, the launchpad, the   *)
(* console, the file manager.                                              *)
KeyToModal(key) ==
  /\ modal
  /\ modal' = (key # "enter")
  /\ redraw' = TRUE
  /\ content' = Changed(Files)
  /\ UNCHANGED <<win, stack, menu, track, dirty>>

(* "enter" is one that finds an application; the others edit the query or  *)
(* do nothing.                                                             *)
KeyToMenu(key) ==
  /\ ~modal /\ menu.open
  /\ \/ /\ key = "enter"
        /\ \E w \in Windows : Launch(w)
        /\ UNCHANGED <<modal, redraw, content>>
     \/ /\ key # "enter"
        /\ redraw' \in {redraw, TRUE}
        /\ UNCHANGED <<windowVars, track, dirty, content>>

KeyToConsole ==
  /\ ~modal /\ ~menu.open /\ HasFocus(Console)
  /\ content' = Changed(Console)
  /\ UNCHANGED <<windowVars, drawVars>>

KeyToFiles ==
  /\ ~modal /\ ~menu.open /\ ~HasFocus(Console) /\ HasFocus(Files)
  /\ redraw' = TRUE
  /\ content' = Changed(Files)
  /\ UNCHANGED <<windowVars, track, dirty>>

Key(key) ==
  /\ TakeInput
  /\ \/ KeyToModal(key)
     \/ KeyToMenu(key)
     \/ KeyToConsole
     \/ KeyToFiles
  /\ UNCHANGED <<cursor, held>>

(* A byte from the serial line, read once per turn of the loop.            *)
SerialToMenu(key) ==
  \/ key = "enter" /\ \E w \in Windows : FocusById(w) /\ MenuCloses
  \/ key # "enter" /\ UNCHANGED <<win, stack, menu>>

SerialInput(key) ==
  /\ phase = "events" /\ inputs < MaxInputs
  /\ inputs' = inputs + 1 /\ phase' = "update"
  /\ IF menu.open THEN SerialToMenu(key) /\ UNCHANGED content
     ELSE /\ UNCHANGED <<win, stack, menu>>
          /\ content' = IF HasFocus(Console) THEN Changed(Console) ELSE content
  /\ redraw' = TRUE
  /\ track' = MarkAll(track)
  /\ dirty' = IF menu.open /\ key = "enter" THEN AllDirty
              ELSE [w \in Windows |-> dirty[w] \/ w = Console]
  /\ UNCHANGED <<modal, cursor, held>>

NoSerialInput ==
  /\ phase = "events" /\ phase' = "update"
  /\ UNCHANGED <<windowVars, cursor, held, drawVars, content, inputs>>
-----------------------------------------------------------------------------
(* Only the dock and the launchpad ask for a frame.                        *)
MouseTo_MenuOnly(at, left) ==
  /\ TakeInput
  /\ cursor' = at /\ held' = left
  /\ redraw' = (redraw \/ menu.open \/ at[1] = "dock" \/ cursor[1] = "dock")

(* What every mouse event does: it moves the cursor and may ask for a      *)
(* frame.                                                                  *)
MouseTo(at, left) ==
  /\ TakeInput
  /\ cursor' = at /\ held' = left
  /\ redraw' = \/ redraw \/ left \/ held \/ menu.open
               \/ at[1] = "dock" \/ cursor[1] = "dock"

MouseUp(at) ==
  /\ MouseTo(at, FALSE)
  /\ win' = [w \in Windows |-> [win[w] EXCEPT !.dragging = FALSE]]
  /\ UNCHANGED <<stack, menu, modal, track, dirty, content>>

(* The button is held: a dragged window follows; the file manager, with    *)
(* the focus and not dragged, may scroll.                                  *)
DraggedBy(dx) ==
  [w \in Windows |-> IF win[w].dragging THEN [win[w] EXCEPT !.x = @ + dx]
                     ELSE win[w]]
(* Only the window's new place is marked.                                  *)
Drag_NewPlace(at) ==
  LET moved == DraggedBy(at[2] - cursor[2])
      dragged == { w \in Windows : win[w].dragging }
  IN  /\ held /\ MouseTo(at, TRUE)
      /\ win' = moved
      /\ track' = AddRects(track, Cardinality(dragged),
                           UNION { AreaOf(moved[w]) : w \in dragged })
      /\ UNCHANGED <<stack, menu, modal, dirty, content>>

Drag(at) ==
  LET moved == DraggedBy(at[2] - cursor[2])
      dragged == { w \in Windows : win[w].dragging }
  IN  /\ held /\ MouseTo(at, TRUE)
      /\ win' = moved
      /\ track' = AddRects(track, 2 * Cardinality(dragged),
                    UNION { AreaOf(win[w]) \cup AreaOf(moved[w]) : w \in dragged })
      /\ IF HasFocus(Files) /\ Files \notin dragged
         THEN content' \in {content, Changed(Files)}
         ELSE UNCHANGED content
      /\ UNCHANGED <<stack, menu, modal, dirty>>

(* A click, the button's going down.  An open launchpad that is not moving *)
(* takes it, unless it is on the dock.                                     *)
Press(at) == ~held /\ MouseTo(at, TRUE)
MenuTakes(at) == menu.open /\ ~menu.animating /\ ~OnDock(at)

PressCard(at, w) ==
  /\ Press(at) /\ MenuTakes(at)
  /\ Launch(w)
  /\ UNCHANGED <<modal, content>>

PressBesideCards(at) ==
  /\ Press(at) /\ MenuTakes(at)
  /\ MenuCloses
  /\ UNCHANGED <<win, stack, modal, track, dirty, content>>

PressLaunchpad(at) ==
  /\ Press(at) /\ OnDock(at)
  /\ menu' = [menu EXCEPT !.animating = TRUE, !.open = ~@]
  /\ UNCHANGED <<win, stack, modal, track, dirty, content>>

PressDockWindow(at, w) ==
  /\ Press(at) /\ OnDock(at)
  /\ IF menu.open THEN MenuCloses ELSE UNCHANGED menu
  /\ \/ /\ win[w].open /\ win[w].focused
        /\ win' = [win EXCEPT ![w] = Closing(@)]
        /\ UNCHANGED stack
     \/ /\ ~(win[w].open /\ win[w].focused)
        /\ FocusById(w)
  /\ Repaint
  /\ UNCHANGED <<modal, content>>

PressDockGap(at) ==
  /\ Press(at) /\ OnDock(at)
  /\ UNCHANGED <<windowVars, track, dirty, content>>
-----------------------------------------------------------------------------
(* The window under the cursor: the topmost open one.                      *)
Under(at) == { w \in Windows : win[w].open /\ at \in Desk(BodyOf(win[w])) }
IsHit(w, at) == w \in Under(at) /\ \A v \in Under(at) : Rank(v) <= Rank(w)

Maximized(w) == [w EXCEPT !.maximized = TRUE, !.prevX = w.x, !.x = 0]
Restored(w) == [w EXCEPT !.maximized = FALSE, !.x = w.prevX]

(* The close and the minimize button do the same.                          *)
Clicked(w, part) ==
  CASE part = "close" -> Closing(w)
    [] part = "maximize" -> IF w.maximized THEN Restored(w) ELSE Maximized(w)
    [] part = "title" -> [w EXCEPT !.dragging = @ \/ ~w.maximized]
    [] part = "body" -> w
Part == {"close", "maximize", "title", "body"}

OnWindows(at) == Press(at) /\ ~MenuTakes(at) /\ ~OnDock(at)

PressWindow(at, w, part) ==
  /\ OnWindows(at) /\ IsHit(w, at)
  /\ Focus(w, Clicked(win[w], part))
  /\ IF w = Files /\ part = "body"
     THEN modal' \in BOOLEAN /\ content' = Changed(Files)
     ELSE UNCHANGED <<modal, content>>
  /\ Repaint
  /\ UNCHANGED menu

PressBackground(at) ==
  /\ OnWindows(at) /\ Under(at) = {}
  /\ win' = [w \in Windows |-> Unfocused(win[w])]
  /\ Repaint
  /\ UNCHANGED <<stack, menu, modal, content>>

MouseEvent(at) ==
  \/ MouseUp(at)
  \/ Drag(at)
  \/ PressBesideCards(at)
  \/ PressLaunchpad(at)
  \/ PressDockGap(at)
  \/ PressBackground(at)
  \/ \E w \in Windows :
       \/ PressCard(at, w)
       \/ PressDockWindow(at, w)
       \/ \E part \in Part : PressWindow(at, w, part)

Event == (\E at \in MouseCells : MouseEvent(at)) \/ (\E key \in {"enter", "char"} : Key(key))
-----------------------------------------------------------------------------
(* The end of an animation is forgotten.                                   *)
WindowStep_NoEnd(w) ==
  IF ~w.animating THEN w
  ELSE IF w.opening
  THEN [w EXCEPT !.progress = IF @ < AnimTop THEN @ + 1 ELSE @,
                 !.focused = @ \/ w.progress = AnimTop]
  ELSE [w EXCEPT !.progress = IF @ > 0 THEN @ - 1 ELSE @,
                 !.open = @ /\ w.progress > 0]

(* A window that has closed keeps the focus.                               *)
WindowStep_KeepsFocus(w) ==
  IF ~w.animating THEN w
  ELSE IF w.opening
  THEN IF w.progress < AnimTop THEN [w EXCEPT !.progress = @ + 1]
       ELSE [w EXCEPT !.animating = FALSE, !.focused = TRUE]
  ELSE IF w.progress > 0 THEN [w EXCEPT !.progress = @ - 1]
       ELSE [w EXCEPT !.animating = FALSE, !.open = FALSE]

(* One step of the animations.  A window's last step ends its animation    *)
(* and moves nothing; the launchpad ends as it arrives.                    *)
WindowStep(w) ==
  IF ~w.animating THEN w
  ELSE IF w.opening
  THEN IF w.progress < AnimTop THEN [w EXCEPT !.progress = @ + 1]
       ELSE [w EXCEPT !.animating = FALSE, !.focused = TRUE]
  ELSE IF w.progress > 0 THEN [w EXCEPT !.progress = @ - 1]
       ELSE [w EXCEPT !.animating = FALSE, !.open = FALSE, !.focused = FALSE]

MenuGoal == IF menu.open THEN MenuTop ELSE 0
MenuStep ==
  IF ~menu.animating \/ menu.progress = MenuGoal THEN menu
  ELSE LET next == IF menu.open THEN menu.progress + 1 ELSE menu.progress - 1
       IN  [menu EXCEPT !.progress = next, !.animating = (next # MenuGoal)]

AnimRunning == menu.animating \/ \E w \in Windows : win[w].animating

AnimationStep ==
  /\ win' = [w \in Windows |-> WindowStep(win[w])]
  /\ menu' = MenuStep

(* The monitor's backing store is not marked.                              *)
UpdateMetrics_NotMarked ==
  /\ inputs < MaxInputs /\ inputs' = inputs + 1
  /\ content' = IF Monitor \in Windows THEN Changed(Monitor) ELSE content
  /\ redraw' = TRUE
  /\ UNCHANGED dirty

(* Every 100 ms new metrics are shown.                                     *)
UpdateMetrics ==
  /\ inputs < MaxInputs /\ inputs' = inputs + 1
  /\ dirty' = [w \in Windows |-> dirty[w] \/ w = Monitor]
  /\ content' = IF Monitor \in Windows THEN Changed(Monitor) ELSE content
  /\ redraw' = TRUE

KeepMetrics ==
  /\ redraw' = (redraw \/ AnimRunning)
  /\ UNCHANGED <<dirty, content, inputs>>

(* The part of the loop that looks at the clock; elapsed says that a tick  *)
(* has passed since the last animation step.                               *)
Update(elapsed) ==
  /\ phase = "update" /\ phase' = "render"
  /\ UpdateMetrics \/ KeepMetrics
  /\ IF AnimRunning /\ elapsed THEN AnimationStep ELSE UNCHANGED <<win, menu>>
  /\ UNCHANGED <<stack, modal, cursor, held, track>>
=============================================================================
