----------------------------- MODULE Compositor -----------------------------
(***************************************************************************)
(* What the desktop shows: the back buffer, the windows' backing stores,   *)
(* the rectangles copied to the framebuffer and the cursor drawn over it   *)
(* (usermode-desktop/src/render.rs, dirty.rs, graphics/compositor.rs), and *)
(* with them the whole event loop.                                         *)
(***************************************************************************)
EXTENDS Desktop

VARIABLES
  cache,    \* cache[w], the pixels of the backing store
  drawn,    \* what the last redraw painted
  back,     \* BACK_BUFFER, a picture of every cell
  fb,       \* the framebuffer
  shown,    \* where the cursor was last drawn
  animRan   \* anim_running of this turn of the loop

frameVars == <<cache, drawn, back, fb, shown>>
vars == <<deskVars, frameVars, animRan>>

(* The menu bar with the metrics: where their text begins, and the rest.   *)
MetricsHead == <<"bar", 0>>
MetricsTail == <<"bar", 1>>
Screen == Cells \cup {MetricsHead, MetricsTail}
Blank == <<"blank">>
Pointer == <<"pointer">>

(* The pixels of a window, by their place in it: the version of what it    *)
(* shows, black where the store was never written, or none: the monitor is *)
(* 40 lines higher than its store.                                         *)
Version == {0, 1}
Black == 2
Hole == 3
Pixel == Version \cup {Black, Hole}
Place == {"desk", "foot"} \X Column
IsKept(w, place) == w # Monitor \/ place[1] = "desk"
EmptyStore(w) == [place \in Place |-> IF IsKept(w, place) THEN Black ELSE Hole]

(* Of what a redraw painted: the windows' pixels, the cells that a store   *)
(* has left to what is below the window, the metrics and the cursor.  cut  *)
(* remembers which columns of a window the screen cut off when it was last *)
(* painted anew.                                                           *)
Init ==
  /\ DeskInit
  /\ cache = [w \in Windows |-> EmptyStore(w)]
  /\ drawn = [pixels |-> cache, cut |-> [w \in Windows |-> {}], bare |-> {},
              metrics |-> 0, cursor |-> cursor]
  /\ back = [c \in Screen |-> Blank] /\ fb = [c \in Screen |-> Blank]
  /\ shown = cursor
  /\ animRan = FALSE
-----------------------------------------------------------------------------
(* The file manager and the settings are drawn anew in every frame, with   *)
(* what is under the cursor lit up.                                        *)
IsLive(w) == w \in {Files, Settings}

PlaceOf(c, w) == <<c[1], c[2] - win[w].x>>
IsBody(w, place) == win[w].x + place[2] \in BodyOf(win[w]) \cap Column

(* What each window lays over a cell of the desk: nothing, its shadow,     *)
(* which tints what is below, or its body, which hides it (but for 20      *)
(* parts in 255 and the corners, which are left out).                      *)
Clear == <<"clear">>
Shadow == <<"shadow">>
Body(seen, c, w) ==
  LET pixel == seen.pixels[w][PlaceOf(c, w)]
  IN  IF pixel = Hole THEN Clear
      ELSE <<"window", w, pixel,
             IF win[w].animating THEN win[w].progress ELSE AnimTop,
             IF IsLive(w) THEN seen.cursor ELSE <<>> >>
Layers(seen, c) ==
  [w \in Windows |->
     IF ~IsVisible(win[w]) THEN Clear
     ELSE IF c[2] \in BodyOf(win[w]) THEN Body(seen, c, w)
     ELSE IF c[2] \in Widened(win[w].x, WidthOf(win[w])) THEN Shadow
     ELSE Clear]

Laid(layers, order) ==
  LET Paint(under, w) == CASE layers[w] = Clear -> under
                           [] layers[w] = Shadow -> <<"shadow", under>>
                           [] OTHER -> layers[w]
  IN  FoldLeft(Paint, <<"wallpaper">>, order)

(* A cell of the desk, painted from the lowest window up.                  *)
DeskCell(seen, c) == Laid(Layers(seen, c), stack)

(* The dock shows which windows are open and which have the focus.         *)
DockCell(col) ==
  IF col \in DockSpan(cursor)
  THEN <<"dock", cursor[1] = "dock", { w \in Windows : win[w].open },
         { w \in Windows : win[w].open /\ win[w].focused }>>
  ELSE <<"wallpaper">>

WithMenu(cell) ==
  IF menu.open \/ menu.animating THEN <<"menu", menu.progress, cell>> ELSE cell

(* What a redraw paints when the windows are drawn with these pixels.      *)
Picture(seen) ==
  [c \in Screen |->
     CASE c \in {MetricsHead, MetricsTail} -> <<"metrics", seen.metrics>>
       [] c \in DeskCells -> WithMenu(DeskCell(seen, c))
       [] c[1] = "dock" -> WithMenu(DockCell(c[2]))]

(* A visible window is drawn anew or restored from its store.  What is off *)
(* the screen is not painted, and a window at rest is kept in its store as *)
(* it was painted.                                                         *)
IsFresh(w) ==
  /\ IsVisible(win[w])
  /\ dirty[w] \/ win[w].animating \/ win[w].maximized \/ IsLive(w)
Painted(w) ==
  [place \in Place |-> IF IsFresh(w) /\ IsBody(w, place) THEN content[w]
                       ELSE cache[w][place]]
IsCached(w) ==
  IsFresh(w) /\ ~win[w].animating /\ ~win[w].maximized /\ ~IsLive(w)
Stored(w) ==
  IF IsCached(w)
  THEN [place \in Place |-> IF IsKept(w, place) THEN Painted(w)[place] ELSE Hole]
  ELSE cache[w]

CutOff(w) ==
  IF IsFresh(w) THEN { col \in Column : ~IsBody(w, <<"desk", col>>) } ELSE drawn.cut[w]
IsBare(c) ==
  \E w \in Windows :
    /\ IsVisible(win[w]) /\ ~IsFresh(w) /\ c[2] \in BodyOf(win[w])
    /\ ~IsKept(w, PlaceOf(c, w))

(* The rectangles of a frame: those marked by the handlers, the metrics,   *)
(* the dock, and the windows with a dirty store.                           *)
MetricsArea == {MetricsTail}
Marked == { w \in Windows : IsVisible(win[w]) /\ (dirty[w] \/ win[w].animating) }
FrameTrack ==
  IF track.all \/ animRan \/ menu.animating \/ menu.open THEN MarkAll(track)
  ELSE AddRects(track, 2 + Cardinality(Marked),
         MetricsArea \cup DockArea(cursor) \cup UNION { AreaOf(win[w]) : w \in Marked })

(* The framebuffer after these cells were copied to it from a back buffer  *)
(* and the cursor was drawn over them.                                     *)
Copied(buffer, cells) ==
  [c \in Screen |-> IF c = cursor THEN Pointer
                    ELSE IF c \in cells THEN buffer[c] ELSE fb[c]]
FrameCells(t) == IF t.all THEN Screen ELSE t.cells \cup {shown}

DrawFrame ==
  /\ redraw
  /\ \E metrics \in {0, 1} :
       drawn' = [pixels |-> [w \in Windows |-> Painted(w)],
                 cut |-> [w \in Windows |-> CutOff(w)],
                 bare |-> { c \in DeskCells : IsBare(c) },
                 metrics |-> metrics, cursor |-> cursor]
  /\ back' = Picture(drawn')
  /\ fb' = Copied(back', FrameCells(FrameTrack))
  /\ shown' = cursor
  /\ cache' = [w \in Windows |-> Stored(w)]
  /\ dirty' = [w \in Windows |-> dirty[w] /\ ~IsCached(w)]
  /\ redraw' = FALSE
  /\ track' = CleanTracker

MoveCursor ==
  /\ ~redraw /\ cursor # shown
  /\ fb' = Copied(back, {shown})
  /\ shown' = cursor
  /\ UNCHANGED <<drawVars, cache, drawn, back>>

NothingToDraw == ~redraw /\ cursor = shown /\ UNCHANGED <<drawVars, frameVars>>

(* draw_compositor_frame.                                                  *)
Render ==
  /\ phase = "render" /\ phase' = "events"
  /\ DrawFrame \/ MoveCursor \/ NothingToDraw
  /\ UNCHANGED <<windowVars, cursor, held, content, inputs, animRan>>
-----------------------------------------------------------------------------
Handle == Event /\ UNCHANGED <<frameVars, animRan>>
Serial ==
  /\ NoSerialInput \/ \E key \in {"enter", "char"} : SerialInput(key)
  /\ UNCHANGED <<frameVars, animRan>>

(* anim_running is what it was before the step of the animations.          *)
Clock(elapsed) ==
  /\ Update(elapsed) /\ animRan' = AnimRunning
  /\ UNCHANGED frameVars

Next == Handle \/ Serial \/ (\E elapsed \in BOOLEAN : Clock(elapsed)) \/ Render

(* The loop never blocks for longer than 2 ms, and the timer ticks on.     *)
Fairness ==
  /\ WF_vars(Serial) /\ WF_vars(\E elapsed \in BOOLEAN : Clock(elapsed))
  /\ WF_vars(Render) /\ SF_vars(Clock(TRUE))
Spec == Init /\ [][Next]_vars /\ Fairness
-----------------------------------------------------------------------------
Window ==
  [open : BOOLEAN, focused : BOOLEAN, dragging : BOOLEAN, maximized : BOOLEAN,
   x : Int, prevX : Int, animating : BOOLEAN, opening : BOOLEAN,
   progress : 0 .. AnimTop]

(* WINDOWS holds every window once, whatever the handlers took out and put *)
(* back.                                                                   *)
StackOK == Len(stack) = Cardinality(Windows) /\ Range(stack) = Windows

TypeOK ==
  /\ win \in [Windows -> Window] /\ StackOK
  /\ menu \in [open : BOOLEAN, animating : BOOLEAN, progress : 0 .. MenuTop]
  /\ modal \in BOOLEAN /\ held \in BOOLEAN /\ redraw \in BOOLEAN /\ animRan \in BOOLEAN
  /\ cursor \in MouseCells /\ shown \in MouseCells
  /\ track.count \in 0 .. MaxRects
  /\ dirty \in [Windows -> BOOLEAN]
  /\ content \in [Windows -> Version]
  /\ cache \in [Windows -> [Place -> Pixel]]
  /\ drawn.pixels \in [Windows -> [Place -> Pixel]]
  /\ phase \in {"events", "update", "render"} /\ inputs \in 0 .. MaxInputs
  /\ DOMAIN back = Screen /\ DOMAIN fb = Screen

(* A window with the focus, which keys are sent to, is one the user can    *)
(* see: closing, minimizing and late ends of animations never leave the    *)
(* focus on a closed window (main.rs, window.rs, input.rs).                *)
FocusedIsOpen == \A w \in Windows : win[w].focused => win[w].open

(* Only the window on top is dragged, only while the button is held, and   *)
(* never a maximized one, although windows are raised by keys, dock and    *)
(* serial line in the middle of a drag (input.rs).                         *)
DraggedIsOnTop ==
  \A w \in Windows : win[w].dragging => w = Top /\ held /\ ~win[w].maximized

(* The end of an opening animation is the only step that gives a second    *)
(* window the focus (main.rs:312); no click, key or launch does.           *)
Focused == { w \in Windows : win[w].focused }
OpeningEnds ==
  \E w \in Windows : win[w].animating /\ win[w].opening /\ ~win'[w].animating
SecondFocusIsAnOpening ==
  [][Cardinality(Focused') > Cardinality(Focused) /\ Cardinality(Focused') > 1
       => OpeningEnds]_vars

(* The rectangles cover whatever a redraw changed: outside the cursor the  *)
(* framebuffer shows the back buffer.  Excepted are the first 30 pixels of *)
(* the metrics, which are drawn at sw - 230 (taskbar.rs:88) while their    *)
(* rectangle begins at sw - 200 (render.rs:52), and the lines of a window  *)
(* that its store has no room for (compositor.rs:162).                     *)
FramebufferIsCopied ==
  /\ \A c \in Screen \ ({shown, MetricsHead} \cup drawn.bare) : fb[c] = back[c]
  /\ back[MetricsTail] # Blank => fb[shown] = Pointer

(* The next turn of the loop draws a frame: it was asked for, or something *)
(* moves.                                                                  *)
IsPending == redraw \/ AnimRunning

(* When no redraw is pending, the back buffer shows the windows, the       *)
(* launchpad and the dock as they are: no step of the loop changes them    *)
(* and forgets to ask for a frame.                                         *)
PictureIsCurrent == IsPending \/ back = Picture(drawn)

(* When no redraw is pending, a visible window shows what it has to show   *)
(* at every place of it that is on the screen, that its backing store has  *)
(* room for and that the screen did not cut off when the window was last   *)
(* drawn anew, through every capture and restore of the store.  Excepted   *)
(* is the console: keys typed on it mark nothing (input.rs:130).           *)
Shows(w, place) == drawn.pixels[w][place] = content[w]
IsCut(w, place) == place[2] \in drawn.cut[w]
WindowsShowContents ==
  IsPending \/ \A w \in Windows \ {Console}, place \in Place :
    IsVisible(win[w]) /\ IsBody(w, place) /\ IsKept(w, place) /\ ~IsCut(w, place)
      => Shows(w, place)

(* A snapshot "captures window pixel data" (graphics/compositor.rs:108): a *)
(* window dragged back onto the screen shows what it has to show, as far   *)
(* as its store has room for it.                                           *)
StoresOutliveDrags ==
  IsPending \/ \A w \in Windows \ {Console}, place \in Place :
    IsVisible(win[w]) /\ IsBody(w, place) /\ IsKept(w, place) => Shows(w, place)

(* Once the user lets go, every window's animation ends, and the           *)
(* launchpad's too, unless it was turned round before it had moved: then   *)
(* it is at its goal already and nothing ends it (main.rs:334).            *)
AnimationsSettle ==
  <>[](/\ \A w \in Windows : ~win[w].animating
       /\ menu.animating => menu.progress = MenuGoal)
=============================================================================
