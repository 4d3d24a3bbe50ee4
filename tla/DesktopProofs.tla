---------------------------- MODULE DesktopProofs ----------------------------
(***************************************************************************)
(* Proofs about the windows of the desktop (Desktop, Compositor): every    *)
(* window is in WINDOWS once, the focus is never on a closed window, and   *)
(* only the topmost window is dragged; and about the screen: what a redraw *)
(* changes is copied to the framebuffer, and what handlers change is drawn.*)
(***************************************************************************)
EXTENDS Compositor, SequenceTheorems, FiniteSetTheorems, TLAPS

(* What is true of each window by itself.  A window that is opening is     *)
(* open, or the end of its animation would put the focus on a closed one.  *)
Sound(r) ==
  /\ r \in Window
  /\ r.focused => r.open
  /\ r.animating /\ r.opening => r.open

WindowsOK == win \in [Windows -> Window] /\ \A w \in Windows : Sound(win[w])

Count == Len(InitStack)
Stacked ==
  /\ stack \in [1 .. Count -> Windows] /\ IsInjective(stack)
  /\ \A w \in Windows : \E i \in 1 .. Count : stack[i] = w

DeskInv == WindowsOK /\ Stacked /\ DraggedIsOnTop
-----------------------------------------------------------------------------
(* The order of the windows.                                               *)
LEMMA CountOfWindows ==
  /\ Count \in Nat /\ InitStack \in [1 .. Count -> Windows]
  /\ Windows = { InitStack[i] : i \in 1 .. Count }
  /\ IsFiniteSet(Windows) /\ Cardinality(Windows) = Count
<1>1. /\ Count \in Nat /\ InitStack \in [1 .. Count -> 0 .. 4]
      /\ DOMAIN InitStack = 1 .. Count
  BY DesktopAssumption, LenProperties DEF Count
<1>2. Windows = { InitStack[i] : i \in 1 .. Count }
  BY <1>1 DEF Windows, Range
<1>3. InitStack \in [1 .. Count -> Windows]
  BY <1>1, <1>2
<1>4. InitStack \in Bijection(1 .. Count, Windows)
  BY <1>1, <1>2, <1>3, DesktopAssumption
     DEF Bijection, Injection, Surjection, IsInjective
<1>5. IsFiniteSet(Windows) /\ Cardinality(Windows) = Count
  BY <1>1, <1>4, FS_NatBijection, FS_CountingElements DEF ExistsBijection
<1> QED BY <1>1, <1>2, <1>3, <1>5

LEMMA StackedLen == Stacked => stack \in Seq(Windows) /\ Len(stack) = Count
<1> SUFFICES ASSUME Stacked PROVE stack \in Seq(Windows) /\ Len(stack) = Count
  OBVIOUS
<1>1. Count \in Nat /\ stack \in [1 .. Count -> Windows]
  BY CountOfWindows DEF Stacked
<1>2. stack \in Seq(Windows)
  BY <1>1, SeqDef, Zenon
<1>3. Len(stack) \in Nat /\ DOMAIN stack = 1 .. Len(stack)
  BY <1>2, LenProperties
<1>4. 1 .. Count = 1 .. Len(stack)
  BY <1>1, <1>3
<1> QED BY <1>1, <1>2, <1>3, <1>4

(* Raising moves the windows above w down by one.                          *)
LEMMA RaisedIs ==
  ASSUME Stacked, NEW w \in Windows
  PROVE  /\ Rank(w) \in 1 .. Count /\ stack[Rank(w)] = w
         /\ Raised(w) \in Seq(Windows) /\ Len(Raised(w)) = Count
         /\ Raised(w)[Count] = w
         /\ \A i \in 1 .. Count - 1 :
              Raised(w)[i] = stack[IF i < Rank(w) THEN i ELSE i + 1]
<1> DEFINE r == Rank(w)
           low == SubSeq(stack, 1, r - 1)
           high == SubSeq(stack, r + 1, Count)
<1>1. /\ Count \in Nat /\ stack \in Seq(Windows) /\ Len(stack) = Count
      /\ DOMAIN stack = 1 .. Count /\ \A i \in 1 .. Count : stack[i] \in Windows
  BY CountOfWindows, StackedLen DEF Stacked
<1>2. r \in 1 .. Count /\ stack[r] = w
  BY <1>1 DEF Rank, Stacked
<1> HIDE DEF r
<1>3. /\ low \in Seq(Windows) /\ Len(low) = r - 1
      /\ \A i \in 1 .. r - 1 : low[i] = stack[i]
  <2>1. \A i \in 1 .. r - 1 : stack[i] \in Windows
    BY <1>1, <1>2
  <2>2. /\ SubSeq(stack, 1, r - 1) \in Seq(Windows)
        /\ Len(SubSeq(stack, 1, r - 1)) = IF 1 <= r - 1 THEN (r - 1) - 1 + 1 ELSE 0
        /\ \A i \in 1 .. (r - 1) - 1 + 1 : SubSeq(stack, 1, r - 1)[i] = stack[1 + i - 1]
    BY <1>2, <2>1, SubSeqProperties
  <2> QED BY <1>2, <2>2
<1>4. /\ high \in Seq(Windows) /\ Len(high) = Count - r
      /\ \A i \in 1 .. Count - r : high[i] = stack[r + i]
  <2>1. \A i \in r + 1 .. Count : stack[i] \in Windows
    BY <1>1, <1>2
  <2>2. /\ SubSeq(stack, r + 1, Count) \in Seq(Windows)
        /\ Len(SubSeq(stack, r + 1, Count)) = IF r + 1 <= Count THEN Count - (r + 1) + 1 ELSE 0
        /\ \A i \in 1 .. Count - (r + 1) + 1 :
             SubSeq(stack, r + 1, Count)[i] = stack[(r + 1) + i - 1]
    BY <1>1, <1>2, <2>1, SubSeqProperties
  <2> QED BY <1>1, <1>2, <2>2
<1> HIDE DEF low, high
<1>5. /\ low \o high \in Seq(Windows) /\ Len(low \o high) = Count - 1
      /\ \A i \in 1 .. Count - 1 :
           (low \o high)[i] = IF i <= r - 1 THEN low[i] ELSE high[i - (r - 1)]
  <2>1. /\ low \o high \in Seq(Windows) /\ Len(low \o high) = Len(low) + Len(high)
        /\ \A i \in 1 .. Len(low) + Len(high) :
             (low \o high)[i] = IF i <= Len(low) THEN low[i] ELSE high[i - Len(low)]
    BY <1>3, <1>4, ConcatProperties
  <2>2. Len(low) = r - 1 /\ Len(low) + Len(high) = Count - 1
    BY <1>1, <1>2, <1>3, <1>4
  <2> QED BY <2>1, <2>2
<1>6. Raised(w) = Append(low \o high, w)
  BY <1>1 DEF Raised, RemoveAt, low, high, r
<1>7. /\ Raised(w) \in Seq(Windows) /\ Len(Raised(w)) = Count /\ Raised(w)[Count] = w
      /\ \A i \in 1 .. Count - 1 : Raised(w)[i] = (low \o high)[i]
  BY <1>1, <1>5, <1>6
<1>8. ASSUME NEW i \in 1 .. Count - 1
      PROVE  (low \o high)[i] = stack[IF i < r THEN i ELSE i + 1]
  <2>1. CASE i < r
    BY <1>1, <1>2, <1>3, <1>5, <2>1
  <2>2. CASE ~(i < r)
    <3>1. (low \o high)[i] = high[i - (r - 1)] /\ i - (r - 1) \in 1 .. Count - r
      BY <1>1, <1>2, <1>5, <2>2
    <3> QED BY <1>1, <1>2, <1>4, <2>2, <3>1
  <2> QED BY <2>1, <2>2
<1> QED BY <1>2, <1>7, <1>8 DEF r

LEMMA RaisedStacked ==
  ASSUME Stacked, NEW w \in Windows, stack' = Raised(w)
  PROVE  Stacked' /\ Top' = w
<1>1. Count \in Nat
  BY CountOfWindows
<1>2. /\ Rank(w) \in 1 .. Count /\ stack[Rank(w)] = w
      /\ stack' \in Seq(Windows) /\ Len(stack') = Count /\ stack'[Count] = w
      /\ \A i \in 1 .. Count - 1 : stack'[i] = stack[IF i < Rank(w) THEN i ELSE i + 1]
  BY RaisedIs
<1>3. stack' \in [1 .. Count -> Windows]
  BY <1>2, LenProperties
<1>4. IsInjective(stack')
  <2>1. \A i, j \in 1 .. Count : stack[i] = stack[j] => i = j
    BY DEF Stacked, IsInjective
  <2>2. ASSUME NEW i \in 1 .. Count - 1 PROVE stack'[i] # w
    BY <1>1, <1>2, <2>1, <2>2
  <2>3. ASSUME NEW i \in 1 .. Count, NEW j \in 1 .. Count, stack'[i] = stack'[j]
        PROVE  i = j
    <3>1. CASE i = Count \/ j = Count
      BY <1>1, <1>2, <2>2, <2>3, <3>1
    <3>2. CASE i \in 1 .. Count - 1 /\ j \in 1 .. Count - 1
      <4> DEFINE Old(k) == IF k < Rank(w) THEN k ELSE k + 1
      <4>1. stack'[i] = stack[Old(i)] /\ stack'[j] = stack[Old(j)]
        BY <1>2, <3>2
      <4>2. Old(i) \in 1 .. Count /\ Old(j) \in 1 .. Count
        BY <1>1, <1>2, <3>2
      <4>3. Old(i) = Old(j)
        BY <2>1, <2>3, <4>1, <4>2
      <4> QED BY <1>1, <1>2, <3>2, <4>3
    <3> QED BY <1>1, <3>1, <3>2
  <2> QED BY <1>3, <2>3 DEF IsInjective
<1>5. ASSUME NEW v \in Windows PROVE \E i \in 1 .. Count : stack'[i] = v
  <2>1. PICK i \in 1 .. Count : stack[i] = v
    BY DEF Stacked
  <2>2. CASE i = Rank(w)
    BY <1>1, <1>2, <2>1, <2>2
  <2>3. CASE i < Rank(w)
    BY <1>1, <1>2, <2>1, <2>3
  <2>4. CASE i > Rank(w)
    <3>1. i - 1 \in 1 .. Count - 1 /\ stack'[i - 1] = stack[i]
      BY <1>1, <1>2, <2>4
    <3> QED BY <1>1, <2>1, <3>1
  <2> QED BY <1>1, <1>2, <2>2, <2>3, <2>4
<1> QED BY <1>2, <1>3, <1>4, <1>5 DEF Stacked, Top, Count
-----------------------------------------------------------------------------
(* What a window becomes.                                                  *)
LEMMA Edited ==
  ASSUME NEW r \in Window, NEW z,
         \/ z = [r EXCEPT !.focused = TRUE]
         \/ z = [r EXCEPT !.dragging = FALSE]
         \/ z = [r EXCEPT !.dragging = TRUE]
         \/ z = [r EXCEPT !.focused = FALSE, !.dragging = FALSE]
         \/ z = [r EXCEPT !.maximized = TRUE, !.prevX = r.x, !.x = 0]
         \/ z = [r EXCEPT !.maximized = FALSE, !.x = r.prevX]
  PROVE  z \in Window
<1>1. z = [open |-> z.open, focused |-> z.focused, dragging |-> z.dragging,
           maximized |-> z.maximized, x |-> z.x, prevX |-> z.prevX,
           animating |-> z.animating, opening |-> z.opening, progress |-> z.progress]
  BY DEF Window
<1>2. /\ z.open = r.open /\ z.animating = r.animating /\ z.opening = r.opening
      /\ z.progress = r.progress
  BY DEF Window
<1>3. z.focused \in BOOLEAN /\ z.dragging \in BOOLEAN /\ z.maximized \in BOOLEAN
  BY DEF Window
<1>4. z.x \in {r.x, r.prevX, 0} /\ z.prevX \in {r.x, r.prevX}
  BY DEF Window
<1>5. r.x \in Int /\ r.prevX \in Int
  BY DEF Window
<1>6. /\ r.open \in BOOLEAN /\ r.animating \in BOOLEAN /\ r.opening \in BOOLEAN
      /\ r.progress \in 0 .. AnimTop
  BY DEF Window
<1>7. z.x \in Int /\ z.prevX \in Int
  BY <1>4, <1>5
<1> QED BY <1>1, <1>2, <1>6, <1>3, <1>7 DEF Window

LEMMA MovedWindow ==
  ASSUME NEW r \in Window, NEW dx \in Int, NEW z, z = [r EXCEPT !.x = r.x + dx]
  PROVE  z \in Window
<1>1. z = [open |-> r.open, focused |-> r.focused, dragging |-> r.dragging,
           maximized |-> r.maximized, x |-> r.x + dx, prevX |-> r.prevX,
           animating |-> r.animating, opening |-> r.opening, progress |-> r.progress]
  BY DEF Window
<1>2. /\ r.open \in BOOLEAN /\ r.focused \in BOOLEAN /\ r.dragging \in BOOLEAN
      /\ r.maximized \in BOOLEAN /\ r.x + dx \in Int /\ r.prevX \in Int
      /\ r.animating \in BOOLEAN /\ r.opening \in BOOLEAN /\ r.progress \in 0 .. AnimTop
  BY DEF Window
<1> QED BY <1>1, <1>2 DEF Window

LEMMA Animated ==
  ASSUME NEW r \in Window, NEW n \in 0 .. AnimTop, NEW z,
         \/ z = [r EXCEPT !.animating = TRUE, !.opening = FALSE, !.progress = n]
         \/ z = [r EXCEPT !.dragging = FALSE, !.open = TRUE, !.animating = TRUE,
                          !.opening = TRUE, !.progress = n]
         \/ z = [r EXCEPT !.progress = n]
         \/ z = [r EXCEPT !.animating = FALSE, !.focused = TRUE]
         \/ z = [r EXCEPT !.animating = FALSE, !.open = FALSE, !.focused = FALSE]
  PROVE  z \in Window
<1>1. z = [open |-> z.open, focused |-> z.focused, dragging |-> z.dragging,
           maximized |-> z.maximized, x |-> z.x, prevX |-> z.prevX,
           animating |-> z.animating, opening |-> z.opening, progress |-> z.progress]
  BY DEF Window
<1>2. /\ z.open \in BOOLEAN /\ z.focused \in BOOLEAN /\ z.dragging \in BOOLEAN
      /\ z.maximized = r.maximized /\ z.x = r.x /\ z.prevX = r.prevX
      /\ z.animating \in BOOLEAN /\ z.opening \in BOOLEAN
      /\ z.progress \in {r.progress, n}
  BY DEF Window
<1>3. /\ r.maximized \in BOOLEAN /\ r.x \in Int /\ r.prevX \in Int
      /\ r.progress \in 0 .. AnimTop
  BY DEF Window
<1> QED BY <1>1, <1>2, <1>3 DEF Window

LEMMA UnfocusedSound ==
  ASSUME NEW r, Sound(r)
  PROVE  Sound(Unfocused(r)) /\ ~Unfocused(r).dragging
<1>1. Unfocused(r) \in Window
  BY Edited DEF Sound, Unfocused
<1> QED BY <1>1 DEF Sound, Unfocused, Window

LEMMA FocusedSound ==
  ASSUME NEW r, Sound(r), r.open, NEW z, z = [r EXCEPT !.focused = TRUE]
  PROVE  Sound(z) /\ z.dragging = r.dragging /\ z.maximized = r.maximized
<1>1. z \in Window
  BY Edited DEF Sound
<1> QED BY <1>1 DEF Sound, Window

LEMMA ClosingSound ==
  ASSUME NEW r, Sound(r)
  PROVE  /\ Sound(Closing(r)) /\ Closing(r).open = r.open
         /\ Closing(r).dragging = r.dragging /\ Closing(r).maximized = r.maximized
<1>1. AnimTop \in 0 .. AnimTop
  BY DesktopAssumption
<1>2. Closing(r) \in Window
  BY <1>1, Animated DEF Sound, Closing
<1> QED BY <1>2 DEF Sound, Closing, Window

LEMMA ClickedSound ==
  ASSUME NEW r, Sound(r), r.open, ~r.dragging, NEW part \in Part
  PROVE  /\ Sound(Clicked(r, part)) /\ Clicked(r, part).open
         /\ Clicked(r, part).dragging => ~Clicked(r, part).maximized
<1>1. CASE part = "close"
  BY <1>1, ClosingSound DEF Clicked
<1>2. CASE part = "maximize"
  <2>1. Maximized(r) \in Window /\ Restored(r) \in Window
    BY Edited DEF Sound, Maximized, Restored
  <2>2. Sound(Maximized(r)) /\ Maximized(r).open /\ ~Maximized(r).dragging
    BY <2>1 DEF Sound, Maximized, Window
  <2>3. Sound(Restored(r)) /\ Restored(r).open /\ ~Restored(r).dragging
    BY <2>1 DEF Sound, Restored, Window
  <2> QED BY <1>2, <2>2, <2>3 DEF Clicked
<1>3. CASE part = "title"
  <2> DEFINE z == [r EXCEPT !.dragging = ~r.maximized]
  <2>1. \/ r.maximized /\ z = [r EXCEPT !.dragging = FALSE]
        \/ ~r.maximized /\ z = [r EXCEPT !.dragging = TRUE]
    BY DEF Sound, Window
  <2>2. z \in Window
    BY <2>1, Edited DEF Sound
  <2>3. Sound(z) /\ z.open /\ (z.dragging => ~z.maximized)
    BY <2>1, <2>2 DEF Sound, Window
  <2>4. Clicked(r, part) = z
    BY <1>3 DEF Clicked, Sound, Window
  <2> QED BY <2>3, <2>4
<1>4. CASE part = "body"
  BY <1>4 DEF Clicked
<1> QED BY <1>1, <1>2, <1>3, <1>4 DEF Part

LEMMA StepSound ==
  ASSUME NEW r, Sound(r)
  PROVE  /\ Sound(WindowStep(r)) /\ WindowStep(r).dragging = r.dragging
         /\ WindowStep(r).maximized = r.maximized
<1>1. AnimTop \in Nat /\ r.progress \in 0 .. AnimTop /\ r \in Window
  BY DesktopAssumption DEF Sound, Window
<1>2. CASE ~r.animating
  BY <1>2 DEF WindowStep
<1>3. CASE r.animating /\ r.opening /\ r.progress < AnimTop
  <2> DEFINE z == [r EXCEPT !.progress = r.progress + 1]
  <2>1. WindowStep(r) = z /\ r.progress + 1 \in 0 .. AnimTop
    BY <1>1, <1>3 DEF WindowStep
  <2>2. z \in Window
    BY <1>1, <2>1, Animated
  <2> QED BY <2>1, <2>2 DEF Sound, Window
<1>4. CASE r.animating /\ r.opening /\ ~(r.progress < AnimTop)
  <2> DEFINE z == [r EXCEPT !.animating = FALSE, !.focused = TRUE]
  <2>1. WindowStep(r) = z
    BY <1>4 DEF WindowStep
  <2>2. z \in Window
    BY <1>1, Animated
  <2> QED BY <1>4, <2>1, <2>2 DEF Sound, Window
<1>5. CASE r.animating /\ ~r.opening /\ r.progress > 0
  <2> DEFINE z == [r EXCEPT !.progress = r.progress - 1]
  <2>1. WindowStep(r) = z /\ r.progress - 1 \in 0 .. AnimTop
    BY <1>1, <1>5 DEF WindowStep
  <2>2. z \in Window
    BY <1>1, <2>1, Animated
  <2> QED BY <2>1, <2>2 DEF Sound, Window
<1>6. CASE r.animating /\ ~r.opening /\ ~(r.progress > 0)
  <2> DEFINE z == [r EXCEPT !.animating = FALSE, !.open = FALSE, !.focused = FALSE]
  <2>1. WindowStep(r) = z
    BY <1>6 DEF WindowStep
  <2>2. z \in Window
    BY <1>1, Animated
  <2> QED BY <1>6, <2>1, <2>2 DEF Sound, Window
<1> QED BY <1>2, <1>3, <1>4, <1>5, <1>6

(* What FocusById makes of a window before it gives it the focus.          *)
OpenedBy(r) ==
  IF r.open THEN [r EXCEPT !.dragging = FALSE]
  ELSE [r EXCEPT !.dragging = FALSE, !.open = TRUE, !.animating = TRUE,
                 !.opening = TRUE, !.progress = 0]

LEMMA OpenedSound ==
  ASSUME NEW r, Sound(r)
  PROVE  Sound(OpenedBy(r)) /\ OpenedBy(r).open /\ ~OpenedBy(r).dragging
<1>1. CASE r.open
  <2>1. OpenedBy(r) = [r EXCEPT !.dragging = FALSE]
    BY <1>1 DEF OpenedBy
  <2>2. OpenedBy(r) \in Window
    BY <2>1, Edited DEF Sound
  <2> QED BY <1>1, <2>1, <2>2 DEF Sound, Window
<1>2. CASE ~r.open
  <2>1. OpenedBy(r) = [r EXCEPT !.dragging = FALSE, !.open = TRUE, !.animating = TRUE,
                                !.opening = TRUE, !.progress = 0]
    BY <1>2 DEF OpenedBy
  <2>2. 0 \in 0 .. AnimTop
    BY DesktopAssumption
  <2>3. OpenedBy(r) \in Window
    BY <2>1, <2>2, Animated DEF Sound
  <2> QED BY <2>1, <2>3 DEF Sound, Window
<1> QED BY <1>1, <1>2
-----------------------------------------------------------------------------
(* Steps that change each window by itself, keep their order and give none *)
(* of them to the mouse.                                                   *)
LEMMA EachKeeps ==
  ASSUME DeskInv, stack' = stack, win' = [w \in Windows |-> win'[w]],
         \A w \in Windows : Sound(win'[w]),
         \A w \in Windows : win'[w].dragging =>
            held' /\ win[w].dragging /\ win'[w].maximized = win[w].maximized
  PROVE  DeskInv'
<1>1. WindowsOK'
  BY DEF WindowsOK, Sound
<1>2. Stacked'
  BY DEF DeskInv, Stacked, Count
<1>3. DraggedIsOnTop'
  BY DEF DeskInv, DraggedIsOnTop, Top
<1> QED BY <1>1, <1>2, <1>3 DEF DeskInv

(* Window w comes on top with the focus; the others let go.                *)
LEMMA FocusKeeps ==
  ASSUME DeskInv, NEW w \in Windows, NEW c, Sound(c), c.open,
         c.dragging => held' /\ ~c.maximized, Focus(w, c)
  PROVE  DeskInv'
<1>1. Stacked' /\ Top' = w
  BY RaisedStacked DEF DeskInv, Focus
<1> DEFINE z == [c EXCEPT !.focused = TRUE]
<1>2. Sound(z) /\ z.dragging = c.dragging /\ z.maximized = c.maximized
  BY FocusedSound
<1> HIDE DEF z
<1>3. win' = [v \in Windows |-> IF v = w THEN z ELSE Unfocused(win[v])]
  BY DEF Focus, z
<1>4. \A v \in Windows : v # w => Sound(win'[v]) /\ ~win'[v].dragging
  BY <1>3, UnfocusedSound DEF DeskInv, WindowsOK
<1>5. win'[w] = z
  BY <1>3
<1>6. WindowsOK'
  BY <1>2, <1>3, <1>4, <1>5 DEF WindowsOK, Sound
<1>7. DraggedIsOnTop'
  BY <1>1, <1>2, <1>4, <1>5 DEF DraggedIsOnTop
<1> QED BY <1>1, <1>6, <1>7 DEF DeskInv

LEMMA FocusByIdKeeps ==
  ASSUME DeskInv, NEW w \in Windows, FocusById(w)
  PROVE  DeskInv'
<1>1. Sound(win[w])
  BY DEF DeskInv, WindowsOK
<1>2. Focus(w, OpenedBy(win[w]))
  BY DEF FocusById, OpenedBy
<1> QED BY <1>1, <1>2, OpenedSound, FocusKeeps

LEMMA Untouched ==
  ASSUME DeskInv, UNCHANGED <<win, stack>>, held => held'
  PROVE  DeskInv'
BY DEF DeskInv, WindowsOK, Stacked, DraggedIsOnTop, Top, Count, Sound
-----------------------------------------------------------------------------
LEMMA DeskInvInit == Init => DeskInv
<1> SUFFICES ASSUME Init PROVE DeskInv
  OBVIOUS
<1>1. PICK opened \in StartOpen : win = [w \in Windows |-> StartWindow(w, opened)]
  BY DEF Init, DeskInit
<1>2. ASSUME NEW w \in Windows
      PROVE  Sound(win[w]) /\ ~win[w].dragging
  <2> DEFINE focused == w \in opened /\
               w = Last(SelectSeq(InitStack, LAMBDA v : v \in opened))
  <2>1. win[w] = [[NewWindow(StartX[w]) EXCEPT !.open = w \in opened]
                    EXCEPT !.focused = focused]
    BY <1>1 DEF StartWindow, NewWindow
  <2>2. focused => w \in opened
    OBVIOUS
  <2>3. focused \in BOOLEAN
    OBVIOUS
  <2> HIDE DEF focused
  <2>4. win[w] = [open |-> w \in opened, focused |-> focused, dragging |-> FALSE,
                  maximized |-> FALSE, x |-> StartX[w], prevX |-> StartX[w],
                  animating |-> FALSE, opening |-> TRUE, progress |-> AnimTop]
    BY <2>1 DEF NewWindow
  <2>5. StartX[w] \in Int /\ AnimTop \in 0 .. AnimTop
    BY DesktopAssumption
  <2> QED BY <2>2, <2>3, <2>4, <2>5 DEF Sound, Window
<1>3. WindowsOK
  BY <1>1, <1>2 DEF WindowsOK, Sound
<1>4. Stacked
  BY CountOfWindows, DesktopAssumption DEF Init, DeskInit, Stacked
<1> QED BY <1>2, <1>3, <1>4 DEF DeskInv, DraggedIsOnTop
-----------------------------------------------------------------------------
CursorOK == cursor \in MouseCells

LEMMA CursorOn ==
  /\ Init => CursorOK
  /\ CursorOK /\ [Next]_vars => CursorOK'
<1>1. ASSUME Init PROVE CursorOK
  <2> DEFINE first == CHOOSE c \in MouseCells \cap DeskCells : TRUE
  <2>1. first \in MouseCells
    BY DesktopAssumption
  <2>2. cursor = first
    BY <1>1 DEF Init, DeskInit
  <2> QED BY <2>1, <2>2 DEF CursorOK
<1>2. ASSUME CursorOK, Next PROVE CursorOK'
  <2>1. ASSUME Handle PROVE CursorOK'
    <3>1. CASE \E at \in MouseCells : MouseEvent(at)
      BY <3>1 DEF CursorOK, MouseEvent, MouseUp, Drag, PressBesideCards, PressLaunchpad,
           PressDockGap, PressBackground, PressCard, PressDockWindow, PressWindow,
           OnWindows, Press, MouseTo
    <3>2. CASE \E key \in {"enter", "char"} : Key(key)
      BY <1>2, <3>2 DEF CursorOK, Key
    <3> QED BY <2>1, <3>1, <3>2 DEF Handle, Event
  <2>2. ASSUME Serial \/ (\E elapsed \in BOOLEAN : Clock(elapsed)) \/ Render
        PROVE  cursor' = cursor
    BY <2>2 DEF Serial, NoSerialInput, SerialInput, Clock, Update, Render
  <2> QED BY <1>2, <2>1, <2>2 DEF Next, CursorOK
<1>3. ASSUME CursorOK, UNCHANGED vars PROVE CursorOK'
  BY <1>3 DEF CursorOK, vars, deskVars
<1> QED BY <1>1, <1>2, <1>3

LEMMA Differences ==
  ASSUME NEW at \in MouseCells, NEW from \in MouseCells
  PROVE  at[2] - from[2] \in Int
BY DesktopAssumption DEF Cells, DeskCells, Desk, Dock, Column
-----------------------------------------------------------------------------
LEMMA KeyKeeps ==
  ASSUME DeskInv, NEW key, Key(key)
  PROVE  DeskInv'
<1>1. held' = held
  BY DEF Key
<1>2. CASE KeyToModal(key) \/ KeyToConsole \/ KeyToFiles
  BY <1>1, <1>2, Untouched DEF KeyToModal, KeyToConsole, KeyToFiles, windowVars
<1>3. CASE KeyToMenu(key)
  <2>1. CASE \E w \in Windows : Launch(w)
    BY <2>1, FocusByIdKeeps DEF Launch
  <2>2. CASE UNCHANGED windowVars
    BY <1>1, <2>2, Untouched DEF windowVars
  <2> QED BY <1>3, <2>1, <2>2 DEF KeyToMenu
<1> QED BY <1>2, <1>3 DEF Key

LEMMA SerialKeeps ==
  ASSUME DeskInv, Serial
  PROVE  DeskInv'
<1>1. held' = held
  BY DEF Serial, NoSerialInput, SerialInput
<1>2. CASE NoSerialInput
  BY <1>1, <1>2, Untouched DEF NoSerialInput, windowVars
<1>3. ASSUME NEW key, SerialInput(key) PROVE DeskInv'
  <2>1. CASE UNCHANGED <<win, stack, menu>>
    BY <1>1, <2>1, Untouched
  <2>2. CASE \E w \in Windows : FocusById(w)
    BY <2>2, FocusByIdKeeps
  <2> QED BY <1>3, <2>1, <2>2 DEF SerialInput, SerialToMenu
<1> QED BY <1>2, <1>3 DEF Serial

LEMMA ClockKeeps ==
  ASSUME DeskInv, NEW elapsed \in BOOLEAN, Clock(elapsed)
  PROVE  DeskInv'
<1>1. stack' = stack /\ held' = held
  BY DEF Clock, Update
<1>2. CASE UNCHANGED win
  BY <1>1, <1>2, Untouched
<1>3. CASE AnimationStep
  <2>1. win' = [w \in Windows |-> WindowStep(win[w])]
    BY <1>3 DEF AnimationStep
  <2>2. \A w \in Windows :
          /\ Sound(win'[w]) /\ win'[w].dragging = win[w].dragging
          /\ win'[w].maximized = win[w].maximized
    BY <2>1, StepSound DEF DeskInv, WindowsOK
  <2>3. \A w \in Windows : win[w].dragging => held
    BY DEF DeskInv, DraggedIsOnTop
  <2> QED BY <1>1, <2>1, <2>2, <2>3, EachKeeps
<1> QED BY <1>2, <1>3 DEF Clock, Update

LEMMA MouseUpKeeps ==
  ASSUME DeskInv, NEW at, MouseUp(at)
  PROVE  DeskInv'
<1>1. stack' = stack /\ win' = [w \in Windows |-> [win[w] EXCEPT !.dragging = FALSE]]
  BY DEF MouseUp
<1>2. ASSUME NEW w \in Windows PROVE Sound(win'[w]) /\ ~win'[w].dragging
  <2>1. win'[w] = [win[w] EXCEPT !.dragging = FALSE] /\ Sound(win[w])
    BY <1>1 DEF DeskInv, WindowsOK
  <2>2. win'[w] \in Window
    BY <2>1, Edited DEF Sound
  <2> QED BY <2>1, <2>2 DEF Sound, Window
<1> QED BY <1>1, <1>2, EachKeeps

LEMMA DragKeeps ==
  ASSUME DeskInv, CursorOK, NEW at \in MouseCells, Drag(at)
  PROVE  DeskInv'
<1> DEFINE dx == at[2] - cursor[2]
<1>1. dx \in Int
  BY Differences DEF CursorOK
<1>2. stack' = stack /\ held' = TRUE /\ win' = DraggedBy(dx)
  BY DEF Drag, MouseTo
<1> HIDE DEF dx
<1>3. ASSUME NEW w \in Windows
      PROVE  /\ Sound(win'[w]) /\ win'[w].dragging = win[w].dragging
             /\ win'[w].maximized = win[w].maximized
  <2>1. Sound(win[w])
    BY DEF DeskInv, WindowsOK
  <2>2. CASE win'[w] = win[w]
    BY <2>1, <2>2
  <2>3. CASE win'[w] = [win[w] EXCEPT !.x = win[w].x + dx]
    <3>1. win'[w] \in Window
      BY <1>1, <2>1, <2>3, MovedWindow DEF Sound
    <3> QED BY <2>1, <2>3, <3>1 DEF Sound, Window
  <2> QED BY <1>2, <2>2, <2>3 DEF DraggedBy
<1> QED BY <1>2, <1>3, EachKeeps DEF DraggedBy

(* The steps of a click: the button was up, so that no window is dragged.  *)
LEMMA PressFrees ==
  ASSUME DeskInv, NEW at, Press(at)
  PROVE  held' /\ \A w \in Windows : ~win[w].dragging
BY DEF Press, MouseTo, DeskInv, DraggedIsOnTop

LEMMA PressDockWindowKeeps ==
  ASSUME DeskInv, NEW at, NEW w \in Windows, PressDockWindow(at, w)
  PROVE  DeskInv'
<1>1. CASE FocusById(w)
  BY <1>1, FocusByIdKeeps
<1>2. CASE win' = [win EXCEPT ![w] = Closing(@)] /\ stack' = stack
  <2>1. \A v \in Windows : Sound(win[v]) /\ ~win[v].dragging
    BY PressFrees DEF PressDockWindow, DeskInv, WindowsOK
  <2>2. win' = [v \in Windows |-> IF v = w THEN Closing(win[w]) ELSE win[v]]
    BY <1>2 DEF DeskInv, WindowsOK
  <2>3. Sound(Closing(win[w])) /\ ~Closing(win[w]).dragging
    BY <2>1, ClosingSound
  <2>4. \A v \in Windows : Sound(win'[v]) /\ ~win'[v].dragging
    BY <2>1, <2>2, <2>3
  <2> QED BY <1>2, <2>2, <2>4, EachKeeps
<1> QED BY <1>1, <1>2 DEF PressDockWindow

LEMMA PressWindowKeeps ==
  ASSUME DeskInv, NEW at, NEW w \in Windows, NEW part \in Part, PressWindow(at, w, part)
  PROVE  DeskInv'
<1>1. held' /\ ~win[w].dragging
  BY PressFrees DEF PressWindow, OnWindows
<1>2. win[w].open /\ Sound(win[w])
  BY DEF PressWindow, IsHit, Under, DeskInv, WindowsOK
<1>3. Focus(w, Clicked(win[w], part))
  BY DEF PressWindow
<1> QED BY <1>1, <1>2, <1>3, ClickedSound, FocusKeeps

LEMMA PressBackgroundKeeps ==
  ASSUME DeskInv, NEW at, PressBackground(at)
  PROVE  DeskInv'
<1>1. stack' = stack /\ win' = [w \in Windows |-> Unfocused(win[w])]
  BY DEF PressBackground
<1>2. \A w \in Windows : Sound(win'[w]) /\ ~win'[w].dragging
  BY <1>1, UnfocusedSound DEF DeskInv, WindowsOK
<1> QED BY <1>1, <1>2, EachKeeps

LEMMA MouseKeeps ==
  ASSUME DeskInv, CursorOK, NEW at \in MouseCells, MouseEvent(at)
  PROVE  DeskInv'
<1>1. CASE MouseUp(at)
  BY <1>1, MouseUpKeeps
<1>2. CASE Drag(at)
  BY <1>2, DragKeeps
<1>3. CASE PressBesideCards(at) \/ PressLaunchpad(at) \/ PressDockGap(at)
  <2>1. UNCHANGED <<win, stack>> /\ held'
    BY <1>3 DEF PressBesideCards, PressLaunchpad, PressDockGap, Press, MouseTo, windowVars
  <2> QED BY <2>1, Untouched
<1>4. CASE PressBackground(at)
  BY <1>4, PressBackgroundKeeps
<1>5. ASSUME NEW w \in Windows, PressCard(at, w) PROVE DeskInv'
  BY <1>5, FocusByIdKeeps DEF PressCard, Launch
<1>6. ASSUME NEW w \in Windows, PressDockWindow(at, w) PROVE DeskInv'
  BY <1>6, PressDockWindowKeeps
<1>7. ASSUME NEW w \in Windows, NEW part \in Part, PressWindow(at, w, part) PROVE DeskInv'
  BY <1>7, PressWindowKeeps
<1> QED BY <1>1, <1>2, <1>3, <1>4, <1>5, <1>6, <1>7 DEF MouseEvent
-----------------------------------------------------------------------------
(* Who has the focus after a step: nobody new, or one window alone, unless *)
(* an opening animation has ended.                                         *)
LEMMA FocusTakes ==
  ASSUME DeskInv, NEW w \in Windows, NEW c, Focus(w, c)
  PROVE  Focused' \subseteq {w}
<1>1. ASSUME NEW v \in Windows, v # w PROVE ~win'[v].focused
  <2>1. win'[v] = Unfocused(win[v]) /\ win[v] \in Window
    BY <1>1 DEF Focus, DeskInv, WindowsOK
  <2> QED BY <2>1 DEF Unfocused, Window
<1> QED BY <1>1 DEF Focused

LEMMA FocusByIdTakes ==
  ASSUME DeskInv, NEW w \in Windows, FocusById(w)
  PROVE  Focused' \subseteq {w}
BY FocusTakes DEF FocusById

LEMMA ClockFocuses ==
  ASSUME DeskInv, NEW elapsed \in BOOLEAN, Clock(elapsed), ~OpeningEnds
  PROVE  Focused' \subseteq Focused
<1>1. CASE UNCHANGED win
  BY <1>1 DEF Focused
<1>2. CASE AnimationStep
  <2>1. ASSUME NEW w \in Windows, win'[w].focused PROVE win[w].focused
    <3>1. /\ win'[w] = WindowStep(win[w]) /\ win[w] \in Window
          /\ ~(win[w].animating /\ win[w].opening /\ ~win'[w].animating)
      BY <1>2 DEF AnimationStep, DeskInv, WindowsOK, OpeningEnds
    <3>2. CASE ~win[w].animating
      BY <2>1, <3>1, <3>2 DEF WindowStep
    <3>3. CASE win[w].animating /\ win[w].opening
      <4>1. win'[w] = [win[w] EXCEPT !.progress = win[w].progress + 1]
            \/ win'[w] = [win[w] EXCEPT !.animating = FALSE, !.focused = TRUE]
        BY <3>1, <3>3 DEF WindowStep
      <4> QED BY <2>1, <3>1, <3>3, <4>1 DEF Window
    <3>4. CASE win[w].animating /\ ~win[w].opening
      <4>1. win'[w] = [win[w] EXCEPT !.progress = win[w].progress - 1]
            \/ win'[w] = [win[w] EXCEPT !.animating = FALSE, !.open = FALSE, !.focused = FALSE]
        BY <3>1, <3>4 DEF WindowStep
      <4> QED BY <2>1, <3>1, <4>1 DEF Window
    <3> QED BY <3>2, <3>3, <3>4
  <2> QED BY <2>1 DEF Focused
<1> QED BY <1>1, <1>2 DEF Clock, Update

LEMMA MouseFocuses ==
  ASSUME DeskInv, NEW at \in MouseCells, MouseEvent(at)
  PROVE  Focused' \subseteq Focused \/ \E w \in Windows : Focused' \subseteq {w}
<1>1. \A w \in Windows : win[w] \in Window
  BY DEF DeskInv, WindowsOK
<1>2. CASE MouseUp(at)
  <2>1. \A w \in Windows : win'[w] = [win[w] EXCEPT !.dragging = FALSE]
    BY <1>2 DEF MouseUp
  <2>2. \A w \in Windows : win'[w].focused = win[w].focused
    BY <1>1, <2>1 DEF Window
  <2> QED BY <2>2 DEF Focused
<1>3. CASE Drag(at)
  <2> DEFINE dx == at[2] - cursor[2]
  <2>1. \A w \in Windows : win'[w] \in {win[w], [win[w] EXCEPT !.x = win[w].x + dx]}
    BY <1>3 DEF Drag, DraggedBy
  <2> HIDE DEF dx
  <2>2. \A w \in Windows : win'[w].focused = win[w].focused
    BY <1>1, <2>1 DEF Window
  <2> QED BY <2>2 DEF Focused
<1>4. CASE PressBesideCards(at) \/ PressLaunchpad(at) \/ PressDockGap(at)
  BY <1>4 DEF PressBesideCards, PressLaunchpad, PressDockGap, windowVars, Focused
<1>5. CASE PressBackground(at)
  <2>1. \A w \in Windows : win'[w] = Unfocused(win[w])
    BY <1>5 DEF PressBackground
  <2>2. \A w \in Windows : ~win'[w].focused
    BY <1>1, <2>1 DEF Unfocused, Window
  <2> QED BY <2>2 DEF Focused
<1>6. CASE \E w \in Windows : PressCard(at, w)
  BY <1>6, FocusByIdTakes DEF PressCard, Launch
<1>7. ASSUME NEW w \in Windows, PressDockWindow(at, w)
      PROVE  Focused' \subseteq Focused \/ Focused' \subseteq {w}
  <2>1. CASE FocusById(w)
    BY <2>1, FocusByIdTakes
  <2>2. CASE win' = [win EXCEPT ![w] = Closing(@)]
    <3>1. \A v \in Windows : win'[v] \in {win[v], Closing(win[v])}
      BY <2>2 DEF DeskInv, WindowsOK
    <3>2. \A v \in Windows : win'[v].focused = win[v].focused
      BY <1>1, <3>1 DEF Closing, Window
    <3> QED BY <3>2 DEF Focused
  <2> QED BY <1>7, <2>1, <2>2 DEF PressDockWindow
<1>8. CASE \E w \in Windows : \E part \in Part : PressWindow(at, w, part)
  BY <1>8, FocusTakes DEF PressWindow
<1> QED BY <1>2, <1>3, <1>4, <1>5, <1>6, <1>7, <1>8 DEF MouseEvent

LEMMA StepFocuses ==
  ASSUME DeskInv, [Next]_vars, ~OpeningEnds
  PROVE  Focused' \subseteq Focused \/ \E w \in Windows : Focused' \subseteq {w}
<1>1. CASE UNCHANGED win
  BY <1>1 DEF Focused
<1>2. ASSUME NEW key, Key(key)
      PROVE  UNCHANGED win \/ \E w \in Windows : FocusById(w)
  BY <1>2 DEF Key, KeyToModal, KeyToMenu, KeyToConsole, KeyToFiles, windowVars, Launch
<1>3. ASSUME Serial
      PROVE  UNCHANGED win \/ \E w \in Windows : FocusById(w)
  BY <1>3 DEF Serial, NoSerialInput, SerialInput, SerialToMenu, windowVars
<1>4. CASE \E w \in Windows : FocusById(w)
  BY <1>4, FocusByIdTakes
<1>5. CASE \E at \in MouseCells : MouseEvent(at)
  BY <1>5, MouseFocuses
<1>6. CASE \E elapsed \in BOOLEAN : Clock(elapsed)
  BY <1>6, ClockFocuses
<1>7. CASE Render \/ UNCHANGED vars
  BY <1>1, <1>7 DEF Render, vars, deskVars, windowVars
<1> QED BY <1>1, <1>2, <1>3, <1>4, <1>5, <1>6, <1>7 DEF Next, Handle, Event
-----------------------------------------------------------------------------
(* The inductive invariant of the desktop (window.rs, input.rs, main.rs).  *)
THEOREM DeskInvariance == Spec => [](DeskInv /\ CursorOK)
<1>1. Init => DeskInv /\ CursorOK
  BY DeskInvInit, CursorOn
<1>2. DeskInv /\ CursorOK /\ [Next]_vars => (DeskInv /\ CursorOK)'
  <2> SUFFICES ASSUME DeskInv, CursorOK, [Next]_vars PROVE DeskInv'
    BY CursorOn
  <2>1. CASE Handle
    BY <2>1, KeyKeeps, MouseKeeps DEF Handle, Event
  <2>2. CASE Serial
    BY <2>2, SerialKeeps
  <2>3. CASE \E elapsed \in BOOLEAN : Clock(elapsed)
    BY <2>3, ClockKeeps
  <2>4. CASE Render
    BY <2>4, Untouched DEF Render, windowVars
  <2>5. CASE UNCHANGED vars
    BY <2>5, Untouched DEF vars, deskVars, windowVars
  <2> QED BY <2>1, <2>2, <2>3, <2>4, <2>5 DEF Next
<1> QED BY <1>1, <1>2, PTL DEF Spec

(* Whatever is opened, closed, raised and animated, and in whatever order, *)
(* no closed window has the focus.                                         *)
THEOREM FocusStaysOpen == Spec => []FocusedIsOpen
<1>1. DeskInv => FocusedIsOpen
  BY DEF DeskInv, WindowsOK, Sound, FocusedIsOpen
<1> QED BY <1>1, DeskInvariance, PTL

(* Only the window on top is dragged, whatever raises others meanwhile.    *)
THEOREM DragStaysOnTop == Spec => []DraggedIsOnTop
<1>1. DeskInv => DraggedIsOnTop
  BY DEF DeskInv
<1> QED BY <1>1, DeskInvariance, PTL

(* Taking a window out of WINDOWS and putting it on top loses and doubles  *)
(* none.                                                                   *)
THEOREM StackStaysWhole == Spec => []StackOK
<1>1. DeskInv => StackOK
  <2> SUFFICES ASSUME DeskInv PROVE StackOK
    OBVIOUS
  <2>1. Len(stack) = Count /\ Cardinality(Windows) = Count
    BY CountOfWindows, StackedLen DEF DeskInv
  <2>2. Range(stack) = Windows
    BY DEF DeskInv, Stacked, Range
  <2> QED BY <2>1, <2>2 DEF StackOK
<1> QED BY <1>1, DeskInvariance, PTL

(* No click, key or launch gives a second window the focus: only the end   *)
(* of an opening animation does (main.rs:312).                             *)
THEOREM SecondFocusOnlyOpens == Spec => SecondFocusIsAnOpening
<1>1. IsFiniteSet(Windows)
  BY CountOfWindows
<1>2. ASSUME DeskInv, [Next]_vars, Cardinality(Focused') > Cardinality(Focused),
             Cardinality(Focused') > 1
      PROVE  OpeningEnds
  <2> SUFFICES ASSUME ~OpeningEnds PROVE FALSE
    OBVIOUS
  <2>1. IsFiniteSet(Focused)
    BY <1>1, FS_Subset DEF Focused
  <2>2. Cardinality(Focused) \in Nat
    BY <2>1, FS_CardinalityType
  <2>3. CASE Focused' \subseteq Focused
    <3>1. Cardinality(Focused') <= Cardinality(Focused) /\ Cardinality(Focused') \in Nat
      BY <2>1, <2>3, FS_Subset, FS_CardinalityType
    <3> QED BY <1>2, <2>2, <3>1
  <2>4. ASSUME NEW w \in Windows, Focused' \subseteq {w} PROVE FALSE
    <3>1. Focused' = {} \/ Focused' = {w}
      BY <2>4
    <3>2. Cardinality(Focused') \in {0, 1}
      BY <3>1, FS_EmptySet, FS_Singleton
    <3> QED BY <1>2, <3>2
  <2> QED BY <1>2, <2>3, <2>4, StepFocuses
<1> QED BY <1>2, DeskInvariance, PTL DEF Spec, SecondFocusIsAnOpening
-----------------------------------------------------------------------------
(* What the screen shows (Compositor): types, backing stores, and the      *)
(* cells that no rectangle covers.                                         *)
TypesOK ==
  /\ menu \in [open : BOOLEAN, animating : BOOLEAN, progress : 0 .. MenuTop]
  /\ modal \in BOOLEAN /\ held \in BOOLEAN /\ redraw \in BOOLEAN /\ animRan \in BOOLEAN
  /\ shown \in MouseCells
  /\ track \in [cells : SUBSET Cells, count : 0 .. MaxRects, all : BOOLEAN]
  /\ dirty \in [Windows -> BOOLEAN]
  /\ content \in [Windows -> Version] /\ cache \in [Windows -> [Place -> Pixel]]
  /\ drawn.pixels \in [Windows -> [Place -> Pixel]] /\ drawn.bare \subseteq DeskCells
  /\ phase \in {"events", "update", "render"} /\ inputs \in 0 .. MaxInputs
  /\ DOMAIN back = Screen /\ DOMAIN fb = Screen

(* A window that moves, is maximized or is drawn in every frame has no     *)
(* store to rely on; a store that is relied on holds what was drawn last   *)
(* at the places it keeps, which but for the console and what was off the  *)
(* screen is what the window has to show.                                  *)
StoresOK ==
  \A w \in Windows :
    /\ win[w].animating \/ win[w].maximized \/ IsLive(w) => dirty[w]
    /\ \A place \in Place :
         /\ ~dirty[w] /\ IsKept(w, place) => drawn.pixels[w][place] = cache[w][place]
         /\ ~dirty[w] /\ w # Console /\ IsKept(w, place) /\ ~IsCut(w, place)
              => cache[w][place] = content[w]

AnimationAsks == phase = "render" /\ animRan => redraw

(* Window w, being r, lies over a cell that its store has no room for.     *)
IsHollow(r, w, c) ==
  IsVisible(r) /\ c[2] \in BodyOf(r) /\ ~IsKept(w, <<c[1], c[2] - r.x>>)

(* The next frame copies rectangles only, and a cell in none of them shows *)
(* what the last frame has drawn there; where a store has left a hole      *)
(* then, it does so still.                                                 *)
Settled ==
  /\ ~track.all /\ ~menu.open /\ ~menu.animating
  /\ ~(phase = "render" /\ animRan)
DockReach == (Cols \div 2) - 2 .. (Cols \div 2) + 2
CoverOK ==
  Settled =>
    /\ \A c \in DeskCells \ track.cells :
         /\ back[c] = DeskCell(drawn, c)
         /\ c \in drawn.bare => \E w \in Windows : IsHollow(win[w], w, c)
    /\ \A col \in Column \ DockReach : back[<<"dock", col>>] = <<"wallpaper">>

ScreenInv ==
  /\ DeskInv /\ CursorOK /\ TypesOK /\ StoresOK /\ AnimationAsks /\ CoverOK
  /\ FramebufferIsCopied /\ PictureIsCurrent /\ WindowsShowContents
-----------------------------------------------------------------------------
(* What window w, being r, lays over a cell of the desk.                   *)
BodyIn(r, w, seen, c) ==
  LET pixel == seen.pixels[w][<<c[1], c[2] - r.x>>]
  IN  IF pixel = Hole THEN Clear
      ELSE <<"window", w, pixel, IF r.animating THEN r.progress ELSE AnimTop,
             IF IsLive(w) THEN seen.cursor ELSE <<>> >>
LayerOf(r, w, seen, c) ==
  IF ~IsVisible(r) THEN Clear
  ELSE IF c[2] \in BodyOf(r) THEN BodyIn(r, w, seen, c)
  ELSE IF c[2] \in Widened(r.x, WidthOf(r)) THEN Shadow
  ELSE Clear

LEMMA LayersAre ==
  ASSUME NEW seen, NEW c
  PROVE  Layers(seen, c) = [w \in Windows |-> LayerOf(win[w], w, seen, c)]
BY DEF Layers, LayerOf, Body, BodyIn, PlaceOf

LEMMA LayersThen ==
  ASSUME NEW seen, NEW c
  PROVE  Layers(seen, c)' = [w \in Windows |-> LayerOf(win'[w], w, seen, c)]
BY DEF Layers, LayerOf, Body, BodyIn, PlaceOf, IsVisible, BodyOf, WidthOf

LEMMA DeskRows == DeskCells = {"desk", "foot"} \X Column
BY DEF DeskCells, Desk

(* A window's body and shadow are within its rectangle.                    *)
LEMMA LayerOutside ==
  ASSUME NEW r \in Window, NEW w, NEW c \in DeskCells, c \notin AreaOf(r)
  PROVE  /\ \A seen : LayerOf(r, w, seen, c) = Clear
         /\ ~IsHollow(r, w, c)
<1>1. /\ r.x \in Int /\ WidthOf(r) \in Int /\ Margin \in Nat
      /\ c[1] \in {"desk", "foot"} /\ c[2] \in Column /\ c[2] \in Int
      /\ c = <<c[1], c[2]>>
  BY DesktopAssumption, DeskRows DEF Window, WidthOf, Column
<1>2. c[2] \notin Widened(r.x, WidthOf(r))
  BY <1>1 DEF AreaOf, Desk
<1>3. c[2] \notin BodyOf(r)
  BY <1>1, <1>2 DEF Widened, BodyOf, Span
<1> QED BY <1>2, <1>3 DEF LayerOf, IsHollow

LEMMA DeskThen ==
  ASSUME NEW seen, NEW c, stack' = stack,
         \A w \in Windows : LayerOf(win'[w], w, seen, c) = LayerOf(win[w], w, seen, c)
  PROVE  DeskCell(seen, c)' = DeskCell(seen, c)
<1>1. Layers(seen, c)' = Layers(seen, c)
  BY LayersAre, LayersThen
<1> QED BY <1>1 DEF DeskCell

(* What the rectangles of n more calls of add_rect do.                     *)
LEMMA RectsAdded ==
  ASSUME NEW t \in [cells : SUBSET Cells, count : 0 .. MaxRects, all : BOOLEAN],
         NEW n \in Nat, NEW cells \in SUBSET Cells
  PROVE  LET u == AddRects(t, n, cells)
         IN  /\ u \in [cells : SUBSET Cells, count : 0 .. MaxRects, all : BOOLEAN]
             /\ ~u.all => ~t.all /\ u.cells = t.cells \cup cells
<1> DEFINE u == AddRects(t, n, cells)
<1>1. /\ t = [cells |-> t.cells, count |-> t.count, all |-> t.all]
      /\ t.cells \subseteq Cells /\ t.count \in 0 .. MaxRects /\ t.all \in BOOLEAN
  OBVIOUS
<1>2. CASE t.all
  BY <1>1, <1>2 DEF AddRects
<1>3. CASE ~t.all /\ t.count + n > MaxRects
  <2>1. u = [cells |-> t.cells, count |-> t.count, all |-> TRUE]
    BY <1>1, <1>3 DEF AddRects, MarkAll
  <2> QED BY <1>1, <2>1
<1>4. CASE ~t.all /\ ~(t.count + n > MaxRects)
  <2>1. u = [cells |-> t.cells \cup cells, count |-> t.count + n, all |-> FALSE]
    BY <1>1, <1>4 DEF AddRects
  <2>2. t.count + n \in 0 .. MaxRects
    BY <1>1, <1>4, DesktopAssumption
  <2> HIDE DEF u
  <2>3. u.cells = t.cells \cup cells /\ u.count = t.count + n /\ u.all = FALSE
    BY <2>1
  <2>4. t.cells \cup cells \in SUBSET Cells
    BY <1>1
  <2>5. u \in [cells : SUBSET Cells, count : 0 .. MaxRects, all : BOOLEAN]
    BY <2>1, <2>2, <2>4
  <2> QED BY <1>4, <2>3, <2>5 DEF u
<1> QED BY <1>2, <1>3, <1>4

LEMMA AllMarked ==
  ASSUME NEW t \in [cells : SUBSET Cells, count : 0 .. MaxRects, all : BOOLEAN]
  PROVE  /\ MarkAll(t) \in [cells : SUBSET Cells, count : 0 .. MaxRects, all : BOOLEAN]
         /\ MarkAll(t).all
BY DEF MarkAll

LEMMA AreaCells == \A r : AreaOf(r) \in SUBSET Cells
BY DEF AreaOf, Desk, DeskCells, Cells
-----------------------------------------------------------------------------
Menu == [open : BOOLEAN, animating : BOOLEAN, progress : 0 .. MenuTop]
Tracker == [cells : SUBSET Cells, count : 0 .. MaxRects, all : BOOLEAN]

LEMMA ContentTyped ==
  ASSUME content \in [Windows -> Version], NEW w
  PROVE  /\ Changed(w) \in [Windows -> Version]
         /\ \A v \in Windows : v # w => Changed(w)[v] = content[v]
<1>1. \A x \in Version : 1 - x \in Version
  BY DEF Version
<1>2. CASE w \in Windows
  <2>1. content[w] \in Version
    BY <1>2
  <2>2. 1 - content[w] \in Version
    BY <1>1, <2>1
  <2> DEFINE new == 1 - content[w]
  <2>3. Changed(w) = [content EXCEPT ![w] = new]
    BY DEF Changed
  <2> HIDE DEF new
  <2>4. [content EXCEPT ![w] = new] = [v \in Windows |-> IF v = w THEN new ELSE content[v]]
    OBVIOUS
  <2>5. new \in Version
    BY <2>2 DEF new
  <2> QED BY <2>3, <2>4, <2>5
<1>3. CASE w \notin Windows
  <2>1. Changed(w) = content
    BY <1>3 DEF Changed
  <2> QED BY <2>1
<1> QED BY <1>2, <1>3

LEMMA MenuTyped ==
  ASSUME menu \in Menu
  PROVE  /\ MenuCloses => menu' \in Menu /\ menu'.animating
         /\ menu' = [menu EXCEPT !.animating = TRUE, !.open = ~@] =>
              menu' \in Menu /\ menu'.animating
         /\ MenuStep \in Menu
<1>1. /\ menu.open \in BOOLEAN /\ menu.animating \in BOOLEAN /\ menu.progress \in 0 .. MenuTop
      /\ menu = [open |-> menu.open, animating |-> menu.animating, progress |-> menu.progress]
  BY DEF Menu
<1>2. MenuCloses => menu' \in Menu /\ menu'.animating
  BY <1>1 DEF MenuCloses, Menu
<1>3. menu' = [menu EXCEPT !.animating = TRUE, !.open = ~@] => menu' \in Menu /\ menu'.animating
  BY <1>1 DEF Menu
<1>4. MenuStep \in Menu
  <2>1. CASE ~menu.animating \/ menu.progress = MenuGoal
    BY <2>1 DEF MenuStep
  <2>2. CASE ~(~menu.animating \/ menu.progress = MenuGoal)
    <3> DEFINE next == IF menu.open THEN menu.progress + 1 ELSE menu.progress - 1
    <3>1. next \in 0 .. MenuTop
      BY <1>1, <2>2, DesktopAssumption DEF MenuGoal
    <3>2. MenuStep = [open |-> menu.open, animating |-> (next # MenuGoal), progress |-> next]
      BY <1>1, <2>2 DEF MenuStep
    <3> HIDE DEF next
    <3> QED BY <1>1, <3>1, <3>2 DEF Menu
  <2> QED BY <2>1, <2>2
<1> QED BY <1>2, <1>3, <1>4

LEMMA TypesInit == Init => TypesOK
<1> SUFFICES ASSUME Init PROVE TypesOK
  OBVIOUS
<1>1. shown \in MouseCells
  BY CursorOn DEF Init, CursorOK
<1>2. menu \in Menu
  BY DesktopAssumption DEF Init, DeskInit, Menu
<1>3. track \in Tracker
  <2>1. track = [cells |-> {}, count |-> 0, all |-> TRUE]
    BY DEF Init, DeskInit, MarkAll, CleanTracker
  <2>2. 0 \in 0 .. MaxRects
    BY DesktopAssumption
  <2> QED BY <2>1, <2>2 DEF Tracker
<1>4. inputs \in 0 .. MaxInputs
  BY DesktopAssumption DEF Init, DeskInit
<1>5. cache \in [Windows -> [Place -> Pixel]] /\ drawn.pixels = cache /\ drawn.bare = {}
  <2>1. \A w \in Windows : EmptyStore(w) \in [Place -> Pixel]
    BY DEF EmptyStore, Pixel
  <2> QED BY <2>1 DEF Init
<1>6. content \in [Windows -> Version]
  BY DEF Init, DeskInit, Version
<1> QED BY <1>1, <1>2, <1>3, <1>4, <1>5, <1>6 DEF TypesOK, Init, DeskInit, Menu, Tracker

(* What the types of the screen's own variables are.                       *)
LEMMA TypesParts ==
  TypesOK <=>
    /\ menu \in Menu /\ track \in Tracker
    /\ modal \in BOOLEAN /\ held \in BOOLEAN /\ redraw \in BOOLEAN /\ animRan \in BOOLEAN
    /\ shown \in MouseCells /\ dirty \in [Windows -> BOOLEAN]
    /\ content \in [Windows -> Version] /\ cache \in [Windows -> [Place -> Pixel]]
    /\ drawn.pixels \in [Windows -> [Place -> Pixel]] /\ drawn.bare \subseteq DeskCells
    /\ phase \in {"events", "update", "render"} /\ inputs \in 0 .. MaxInputs
    /\ DOMAIN back = Screen /\ DOMAIN fb = Screen
BY DEF TypesOK, Menu, Tracker

LEMMA TypesPartsThen ==
  TypesOK' <=>
    /\ menu' \in Menu /\ track' \in Tracker
    /\ modal' \in BOOLEAN /\ held' \in BOOLEAN /\ redraw' \in BOOLEAN /\ animRan' \in BOOLEAN
    /\ shown' \in MouseCells /\ dirty' \in [Windows -> BOOLEAN]
    /\ content' \in [Windows -> Version] /\ cache' \in [Windows -> [Place -> Pixel]]
    /\ drawn'.pixels \in [Windows -> [Place -> Pixel]] /\ drawn'.bare \subseteq DeskCells
    /\ phase' \in {"events", "update", "render"} /\ inputs' \in 0 .. MaxInputs
    /\ DOMAIN back' = Screen /\ DOMAIN fb' = Screen
BY DEF TypesOK, Menu, Tracker

(* The events may change these.                                            *)
EventTypes ==
  /\ menu' \in Menu /\ track' \in Tracker /\ modal' \in BOOLEAN
  /\ redraw' \in BOOLEAN /\ dirty' \in [Windows -> BOOLEAN] /\ content' \in [Windows -> Version]

LEMMA RepaintTypes ==
  ASSUME TypesOK, Repaint
  PROVE  /\ track' \in Tracker /\ track'.all
         /\ dirty' \in [Windows -> BOOLEAN] /\ \A w \in Windows : dirty'[w]
<1>1. track' \in Tracker /\ track'.all
  BY AllMarked, TypesParts DEF Repaint, Tracker
<1> QED BY <1>1 DEF Repaint, AllDirty

LEMMA MouseToTypes ==
  ASSUME TypesOK, NEW at, NEW left \in BOOLEAN, MouseTo(at, left)
  PROVE  redraw' \in BOOLEAN
BY TypesParts DEF MouseTo, Menu
-----------------------------------------------------------------------------
(* The steps that draw nothing: what such a step may do to the windows,    *)
(* the stores, the marked rectangles and the wish for a frame.             *)
SameLook(r, s) == s.animating = r.animating /\ s.maximized = r.maximized
SameShape(r, s) ==
  SameLook(r, s) /\ s.open = r.open /\ s.x = r.x /\ s.progress = r.progress

StoresStep ==
  /\ \A w \in Windows : dirty'[w] \/ (~dirty[w] /\ SameLook(win[w], win'[w]))
  /\ \A w \in Windows \ {Console} : dirty'[w] \/ content'[w] = content[w]

AskStep ==
  \/ redraw' \/ menu'.animating \/ \E w \in Windows : win'[w].animating
  \/ /\ ~IsPending
     /\ UNCHANGED <<win, stack, menu>> /\ (cursor'[1] = "dock") = (cursor[1] = "dock")
     /\ \A w \in Windows \ {Console} : content'[w] = content[w]

SettledThen == ~track'.all /\ ~menu'.open /\ ~menu'.animating /\ ~(phase' = "render" /\ animRan')
CoverStep ==
  SettledThen =>
    /\ Settled /\ track.cells \subseteq track'.cells /\ stack' = stack
    /\ \A c \in DeskCells \ track'.cells, w \in Windows :
         \/ SameShape(win[w], win'[w])
         \/ c \notin AreaOf(win[w]) /\ c \notin AreaOf(win'[w])

DeskStep ==
  /\ UNCHANGED frameVars /\ StoresStep /\ AskStep /\ CoverStep
  /\ phase' = "render" /\ animRan' => redraw'

LEMMA DeskStepStores ==
  ASSUME StoresOK, DeskStep
  PROVE  StoresOK'
<1> SUFFICES ASSUME NEW w \in Windows
    PROVE  /\ win'[w].animating \/ win'[w].maximized \/ IsLive(w) => dirty'[w]
           /\ \A place \in Place : ~dirty'[w] /\ IsKept(w, place) =>
                /\ drawn'.pixels[w][place] = cache'[w][place]
                /\ w # Console /\ place[2] \notin drawn'.cut[w]
                     => cache'[w][place] = content'[w]
  BY DEF StoresOK, IsLive, IsCut
<1>1. drawn' = drawn /\ cache' = cache
  BY DEF DeskStep, frameVars
<1>2. CASE dirty'[w]
  BY <1>2
<1>3. CASE ~dirty'[w]
  <2>1. ~dirty[w] /\ SameLook(win[w], win'[w])
    BY <1>3 DEF DeskStep, StoresStep
  <2>2. w # Console => content'[w] = content[w]
    BY <1>3 DEF DeskStep, StoresStep
  <2> QED BY <1>1, <2>1, <2>2 DEF StoresOK, SameLook, IsCut
<1> QED BY <1>2, <1>3

LEMMA DeskStepAsks ==
  ASSUME PictureIsCurrent, WindowsShowContents, DeskStep
  PROVE  PictureIsCurrent' /\ WindowsShowContents' /\ AnimationAsks'
<1>1. drawn' = drawn /\ back' = back
  BY DEF DeskStep, frameVars
<1>2. AnimationAsks'
  BY DEF DeskStep, AnimationAsks
<1>3. CASE redraw' \/ menu'.animating \/ \E w \in Windows : win'[w].animating
  BY <1>2, <1>3 DEF PictureIsCurrent, WindowsShowContents, IsPending, AnimRunning
<1>4. CASE /\ ~IsPending
           /\ UNCHANGED <<win, stack, menu>> /\ (cursor'[1] = "dock") = (cursor[1] = "dock")
           /\ \A w \in Windows \ {Console} : content'[w] = content[w]
  <2>1. \A seen, c : DeskCell(seen, c)' = DeskCell(seen, c)
    BY <1>4, DeskThen
  <2>2. \A col : DockCell(col)' = DockCell(col)
    BY <1>4 DEF DockCell, DockSpan
  <2>3. \A cell : WithMenu(cell)' = WithMenu(cell)
    BY <1>4 DEF WithMenu
  <2>4. \A seen : Picture(seen)' = Picture(seen)
    BY <2>1, <2>2, <2>3 DEF Picture
  <2>5. PictureIsCurrent'
    BY <1>1, <1>4, <2>4 DEF PictureIsCurrent
  <2>6. WindowsShowContents'
    BY <1>1, <1>4 DEF WindowsShowContents, Shows, IsCut, IsBody
  <2> QED BY <1>2, <2>5, <2>6
<1> QED BY <1>3, <1>4 DEF DeskStep, AskStep

LEMMA DeskStepCover ==
  ASSUME DeskInv, DeskInv', CoverOK, DeskStep
  PROVE  CoverOK'
<1>1. drawn' = drawn /\ back' = back
  BY DEF DeskStep, frameVars
<1> SUFFICES ASSUME SettledThen
    PROVE  /\ \A c \in DeskCells \ track'.cells :
                /\ back'[c] = DeskCell(drawn, c)'
                /\ c \in drawn'.bare => \E w \in Windows : IsHollow(win'[w], w, c)
           /\ \A col \in Column \ DockReach : back'[<<"dock", col>>] = <<"wallpaper">>
  BY <1>1 DEF CoverOK, Settled, SettledThen, DockReach, IsHollow, IsVisible, BodyOf, WidthOf
<1>2. /\ Settled /\ track.cells \subseteq track'.cells /\ stack' = stack
      /\ \A c \in DeskCells \ track'.cells, w \in Windows :
           \/ SameShape(win[w], win'[w])
           \/ c \notin AreaOf(win[w]) /\ c \notin AreaOf(win'[w])
  BY DEF DeskStep, CoverStep
<1>3. ASSUME NEW c \in DeskCells \ track'.cells
      PROVE  /\ back'[c] = DeskCell(drawn, c)'
             /\ c \in drawn'.bare => \E w \in Windows : IsHollow(win'[w], w, c)
  <2>1. ASSUME NEW w \in Windows
        PROVE  /\ \A seen : LayerOf(win'[w], w, seen, c) = LayerOf(win[w], w, seen, c)
               /\ IsHollow(win[w], w, c) => IsHollow(win'[w], w, c)
    <3>1. CASE SameShape(win[w], win'[w])
      BY <3>1 DEF SameShape, SameLook, LayerOf, BodyIn, IsHollow, IsVisible, BodyOf, WidthOf
    <3>2. CASE c \notin AreaOf(win[w]) /\ c \notin AreaOf(win'[w])
      <4>1. win[w] \in Window /\ win'[w] \in Window
        BY DEF DeskInv, WindowsOK
      <4> QED BY <3>2, <4>1, LayerOutside
    <3> QED BY <1>2, <3>1, <3>2
  <2>2. DeskCell(drawn, c)' = DeskCell(drawn, c)
    <3>1. \A seen : DeskCell(seen, c)' = DeskCell(seen, c)
      BY <1>2, <2>1, DeskThen
    <3> QED BY <1>1, <3>1
  <2>3. /\ back[c] = DeskCell(drawn, c)
        /\ c \in drawn.bare => \E w \in Windows : IsHollow(win[w], w, c)
    BY <1>2 DEF CoverOK
  <2> QED BY <1>1, <2>1, <2>2, <2>3
<1> QED BY <1>1, <1>2, <1>3 DEF CoverOK

LEMMA DeskStepFrame ==
  ASSUME FramebufferIsCopied, DeskStep
  PROVE  FramebufferIsCopied'
BY DEF FramebufferIsCopied, DeskStep, frameVars
-----------------------------------------------------------------------------
(* Steps that leave the windows, the stores and the marked cells alone.    *)
LEMMA StillStep ==
  ASSUME TypesOK, StoresOK, UNCHANGED frameVars, UNCHANGED <<win, stack, menu, track, dirty>>,
         phase # "render", phase' # "render", redraw => redraw',
         redraw' \/ (cursor'[1] = "dock") = (cursor[1] = "dock"),
         \A w \in Windows \ {Console} :
           content'[w] = content[w] \/ (w = Files /\ redraw')
  PROVE  DeskStep
<1>1. StoresStep
  <2>1. \A w \in Windows : dirty'[w] \/ (~dirty[w] /\ SameLook(win[w], win'[w]))
    BY DEF SameLook
  <2>2. Files \in Windows => dirty[Files]
    BY DEF StoresOK, IsLive
  <2> QED BY <2>1, <2>2 DEF StoresStep
<1>2. AskStep
  BY DEF AskStep, IsPending, AnimRunning
<1>3. CoverStep
  BY DEF CoverStep, SettledThen, Settled, SameShape, SameLook
<1> QED BY <1>1, <1>2, <1>3 DEF DeskStep

(* Steps that ask for a frame, or start the launchpad's animation, and     *)
(* have either marked everything or leave the windows alone.               *)
LEMMA AskedStep ==
  ASSUME TypesOK, StoresOK, UNCHANGED frameVars, phase' # "render",
         redraw' \/ menu'.animating, track'.all \/ menu'.animating,
         \/ \A w \in Windows : dirty'[w]
         \/ /\ win' = win /\ \A w \in Windows : dirty[w] => dirty'[w]
            /\ \A w \in Windows \ {Console} : content'[w] = content[w]
  PROVE  DeskStep
<1>1. StoresStep
  BY DEF StoresStep, SameLook
<1>2. AskStep
  BY DEF AskStep
<1>3. CoverStep
  BY DEF CoverStep, SettledThen
<1> QED BY <1>1, <1>2, <1>3 DEF DeskStep

LEMMA PressAsks ==
  ASSUME NEW at, Press(at)
  PROVE  redraw' = TRUE /\ phase = "events" /\ phase' = "events"
BY DEF Press, MouseTo, TakeInput

LEMMA KeyScreen ==
  ASSUME TypesOK, StoresOK, NEW key, Key(key), UNCHANGED frameVars
  PROVE  EventTypes /\ DeskStep
<1>1. phase = "events" /\ phase' = "events" /\ cursor' = cursor
  BY DEF Key, TakeInput
<1>2. /\ Changed(Files) \in [Windows -> Version] /\ Changed(Console) \in [Windows -> Version]
      /\ \A v \in Windows : v # Files => Changed(Files)[v] = content[v]
      /\ \A v \in Windows : v # Console => Changed(Console)[v] = content[v]
  BY ContentTyped, TypesParts
<1>3. CASE KeyToModal(key)
  <2>1. /\ redraw' = TRUE /\ content' = Changed(Files) /\ modal' \in BOOLEAN
        /\ UNCHANGED <<win, stack, menu, track, dirty>>
    BY <1>3 DEF KeyToModal
  <2>2. EventTypes
    BY <1>2, <2>1, TypesParts DEF EventTypes
  <2> QED BY <1>1, <1>2, <2>1, <2>2, StillStep
<1>4. CASE KeyToConsole
  <2>1. /\ content' = Changed(Console) /\ UNCHANGED <<modal, redraw>>
        /\ UNCHANGED <<win, stack, menu, track, dirty>>
    BY <1>4 DEF KeyToConsole, windowVars, drawVars
  <2>2. EventTypes
    BY <1>2, <2>1, TypesParts DEF EventTypes
  <2> QED BY <1>1, <1>2, <2>1, <2>2, StillStep
<1>5. CASE KeyToFiles
  <2>1. /\ redraw' = TRUE /\ content' = Changed(Files) /\ modal' = modal
        /\ UNCHANGED <<win, stack, menu, track, dirty>>
    BY <1>5 DEF KeyToFiles, windowVars
  <2>2. EventTypes
    BY <1>2, <2>1, TypesParts DEF EventTypes
  <2> QED BY <1>1, <1>2, <2>1, <2>2, StillStep
<1>6. CASE KeyToMenu(key)
  <2>1. CASE redraw' \in {redraw, TRUE} /\ UNCHANGED <<windowVars, track, dirty, content>>
    <3>1. UNCHANGED <<win, stack, menu, modal, track, dirty, content>>
      BY <2>1 DEF windowVars
    <3>2. EventTypes
      BY <2>1, <3>1, TypesParts DEF EventTypes
    <3>3. redraw => redraw'
      BY <2>1, TypesParts
    <3>4. \A w \in Windows \ {Console} : content'[w] = content[w]
      BY <3>1
    <3> QED BY <1>1, <3>1, <3>2, <3>3, <3>4, StillStep
  <2>2. CASE Repaint /\ MenuCloses /\ UNCHANGED <<modal, redraw, content>>
    <3>1. /\ track' \in Tracker /\ track'.all /\ dirty' \in [Windows -> BOOLEAN]
          /\ \A w \in Windows : dirty'[w]
      BY <2>2, RepaintTypes
    <3>2. menu' \in Menu /\ menu'.animating
      BY <2>2, MenuTyped, TypesParts
    <3>3. EventTypes
      BY <2>2, <3>1, <3>2, TypesParts DEF EventTypes
    <3> QED BY <1>1, <2>2, <3>1, <3>2, <3>3, AskedStep
  <2> QED BY <1>6, <2>1, <2>2 DEF KeyToMenu, Launch
<1> QED BY <1>3, <1>4, <1>5, <1>6 DEF Key

LEMMA SerialScreen ==
  ASSUME TypesOK, StoresOK, Serial
  PROVE  EventTypes /\ DeskStep
<1>1. UNCHANGED frameVars /\ phase = "events" /\ phase' = "update" /\ cursor' = cursor
  BY DEF Serial, NoSerialInput, SerialInput
<1>2. CASE NoSerialInput
  <2>1. UNCHANGED <<win, stack, menu, modal, redraw, track, dirty, content>>
    BY <1>2 DEF NoSerialInput, windowVars, drawVars
  <2>2. EventTypes
    BY <2>1, TypesParts DEF EventTypes
  <2> QED BY <1>1, <2>1, <2>2, StillStep
<1>3. ASSUME NEW key \in {"enter", "char"}, SerialInput(key) PROVE EventTypes /\ DeskStep
  <2>1. redraw' = TRUE /\ track' = MarkAll(track) /\ modal' = modal
    BY <1>3 DEF SerialInput
  <2>2. track' \in Tracker /\ track'.all
    BY <2>1, AllMarked, TypesParts DEF Tracker
  <2>3. content' \in {content, Changed(Console)}
    BY <1>3 DEF SerialInput
  <2>4. /\ content' \in [Windows -> Version]
        /\ \A w \in Windows \ {Console} : content'[w] = content[w]
    BY <2>3, ContentTyped, TypesParts
  <2>5. menu' \in Menu
    BY <1>3, MenuTyped, TypesParts DEF SerialInput, SerialToMenu
  <2>6. CASE menu.open /\ key = "enter"
    <3>1. dirty' = AllDirty
      BY <1>3, <2>6 DEF SerialInput
    <3>2. dirty' \in [Windows -> BOOLEAN] /\ \A w \in Windows : dirty'[w]
      BY <3>1 DEF AllDirty
    <3> QED BY <1>1, <2>1, <2>2, <2>4, <2>5, <3>2, AskedStep, TypesParts DEF EventTypes
  <2>7. CASE ~(menu.open /\ key = "enter")
    <3>1. win' = win /\ dirty' = [w \in Windows |-> dirty[w] \/ w = Console]
      BY <1>3, <2>7 DEF SerialInput, SerialToMenu
    <3>2. dirty' \in [Windows -> BOOLEAN] /\ \A w \in Windows : dirty[w] => dirty'[w]
      BY <3>1, TypesParts
    <3> QED BY <1>1, <2>1, <2>2, <2>4, <2>5, <3>1, <3>2, AskedStep, TypesParts DEF EventTypes
  <2> QED BY <2>6, <2>7
<1> QED BY <1>2, <1>3 DEF Serial

LEMMA ClockScreen ==
  ASSUME DeskInv, TypesOK, StoresOK, NEW elapsed \in BOOLEAN, Clock(elapsed)
  PROVE  EventTypes /\ DeskStep
<1>1. /\ UNCHANGED frameVars /\ phase = "update" /\ phase' = "render"
      /\ UNCHANGED <<stack, modal, cursor, track>> /\ animRan' = AnimRunning
  BY DEF Clock, Update
<1>2. /\ Changed(Monitor) \in [Windows -> Version]
      /\ \A v \in Windows : v # Monitor => Changed(Monitor)[v] = content[v]
  BY ContentTyped, TypesParts
<1>3. /\ redraw' \in BOOLEAN /\ dirty' \in [Windows -> BOOLEAN]
      /\ content' \in [Windows -> Version]
      /\ \A w \in Windows : dirty[w] => dirty'[w]
      /\ \A w \in Windows \ {Console} : dirty'[w] \/ content'[w] = content[w]
      /\ AnimRunning => redraw'
      /\ redraw' \/ (~redraw /\ content' = content)
  <2>1. CASE UpdateMetrics
    <3>1. /\ redraw' = TRUE /\ dirty' = [w \in Windows |-> dirty[w] \/ w = Monitor]
          /\ content' \in {content, Changed(Monitor)}
      BY <2>1 DEF UpdateMetrics
    <3>2. dirty' \in [Windows -> BOOLEAN]
      BY <3>1, TypesParts
    <3>3. \A w \in Windows : dirty'[w] = (dirty[w] \/ w = Monitor)
      BY <3>1
    <3> QED BY <1>2, <3>1, <3>2, <3>3, TypesParts
  <2>2. CASE KeepMetrics
    <3>1. redraw' = (redraw \/ AnimRunning) /\ UNCHANGED <<dirty, content>>
      BY <2>2 DEF KeepMetrics
    <3>2. redraw' \in BOOLEAN
      BY <3>1, TypesParts
    <3> QED BY <3>1, <3>2, TypesParts
  <2> QED BY <2>1, <2>2 DEF Clock, Update
<1>4. menu' \in Menu
  BY MenuTyped, TypesParts DEF Clock, Update, AnimationStep
<1>5. EventTypes
  BY <1>1, <1>3, <1>4, TypesParts DEF EventTypes
<1>6. CASE AnimRunning
  <2>1. StoresStep
    <3>1. ASSUME NEW w \in Windows, ~dirty'[w] PROVE ~dirty[w] /\ SameLook(win[w], win'[w])
      <4>1. ~dirty[w] /\ ~win[w].animating
        BY <1>3, <3>1 DEF StoresOK
      <4>2. win'[w] = win[w]
        BY <4>1 DEF Clock, Update, AnimationStep, WindowStep
      <4> QED BY <4>1, <4>2 DEF SameLook
    <3> QED BY <1>3, <3>1 DEF StoresStep
  <2>2. AskStep
    BY <1>3, <1>6 DEF AskStep
  <2>3. CoverStep
    BY <1>1, <1>6 DEF CoverStep, SettledThen
  <2> QED BY <1>1, <1>3, <1>5, <1>6, <2>1, <2>2, <2>3 DEF DeskStep
<1>7. CASE ~AnimRunning
  <2>1. UNCHANGED <<win, menu>>
    BY <1>7 DEF Clock, Update
  <2>2. StoresStep
    BY <1>3, <2>1 DEF StoresStep, SameLook
  <2>3. AskStep
    BY <1>1, <1>3, <1>7, <2>1 DEF AskStep, IsPending
  <2>4. CoverStep
    BY <1>1, <2>1 DEF CoverStep, SettledThen, Settled, SameShape, SameLook
  <2> QED BY <1>1, <1>5, <1>7, <2>2, <2>3, <2>4 DEF DeskStep
<1> QED BY <1>6, <1>7

(* A click marks everything, or moves the launchpad only, or does nothing. *)
LEMMA PressScreen ==
  ASSUME TypesOK, StoresOK, NEW at, Press(at), MouseEvent(at),
         ~Drag(at), ~MouseUp(at), UNCHANGED frameVars
  PROVE  EventTypes /\ DeskStep
<1>1. redraw' = TRUE /\ phase = "events" /\ phase' = "events"
  BY PressAsks
<1>2. Changed(Files) \in [Windows -> Version]
  BY ContentTyped, TypesParts
<1>3. CASE /\ Repaint /\ modal' \in BOOLEAN /\ content' \in {content, Changed(Files)}
           /\ menu' \in Menu
  <2>1. /\ track' \in Tracker /\ track'.all /\ dirty' \in [Windows -> BOOLEAN]
        /\ \A w \in Windows : dirty'[w]
    BY <1>3, RepaintTypes
  <2>2. EventTypes
    BY <1>1, <1>2, <1>3, <2>1, TypesParts DEF EventTypes
  <2> QED BY <1>1, <2>1, <2>2, AskedStep
<1>4. CASE /\ UNCHANGED <<win, stack, modal, track, dirty, content>>
           /\ menu' \in Menu /\ menu'.animating
  <2>1. EventTypes
    BY <1>1, <1>4, TypesParts DEF EventTypes
  <2> QED BY <1>1, <1>4, <2>1, AskedStep
<1>5. CASE UNCHANGED <<win, stack, menu, modal, track, dirty, content>>
  <2>1. EventTypes
    BY <1>1, <1>5, TypesParts DEF EventTypes
  <2> QED BY <1>1, <1>5, <2>1, StillStep
<1>6. menu \in Menu /\ modal \in BOOLEAN
  BY TypesParts
<1>7. CASE PressBesideCards(at)
  BY <1>4, <1>6, <1>7, MenuTyped DEF PressBesideCards
<1>8. CASE PressLaunchpad(at)
  BY <1>4, <1>6, <1>8, MenuTyped DEF PressLaunchpad
<1>9. CASE PressDockGap(at)
  BY <1>5, <1>9 DEF PressDockGap, windowVars
<1>10. CASE PressBackground(at)
  BY <1>3, <1>6, <1>10 DEF PressBackground
<1>11. ASSUME NEW w \in Windows, PressCard(at, w) PROVE EventTypes /\ DeskStep
  BY <1>3, <1>6, <1>11, MenuTyped DEF PressCard, Launch
<1>12. ASSUME NEW w \in Windows, PressDockWindow(at, w) PROVE EventTypes /\ DeskStep
  BY <1>3, <1>6, <1>12, MenuTyped DEF PressDockWindow
<1>13. ASSUME NEW w \in Windows, NEW part \in Part, PressWindow(at, w, part)
       PROVE  EventTypes /\ DeskStep
  BY <1>3, <1>6, <1>13 DEF PressWindow
<1> QED BY <1>7, <1>8, <1>9, <1>10, <1>11, <1>12, <1>13 DEF MouseEvent

(* Letting go: nothing is seen of it but a frame, unless nothing was held. *)
LEMMA MouseUpScreen ==
  ASSUME DeskInv, CursorOK, TypesOK, StoresOK, NEW at \in MouseCells, MouseUp(at),
         UNCHANGED frameVars
  PROVE  EventTypes /\ DeskStep
<1>1. /\ phase = "events" /\ phase' = "events" /\ MouseTo(at, FALSE)
      /\ UNCHANGED <<stack, menu, modal, track, dirty, content>>
      /\ win' = [w \in Windows |-> [win[w] EXCEPT !.dragging = FALSE]]
  BY DEF MouseUp, MouseTo, TakeInput
<1>2. EventTypes
  BY <1>1, MouseToTypes, TypesParts DEF EventTypes
<1>3. ASSUME NEW w \in Windows
      PROVE  SameShape(win[w], win'[w])
  <2>1. win[w] \in Window /\ win'[w] = [win[w] EXCEPT !.dragging = FALSE]
    BY <1>1 DEF DeskInv, WindowsOK
  <2>2. /\ win'[w].open = win[w].open /\ win'[w].animating = win[w].animating
        /\ win'[w].maximized = win[w].maximized /\ win'[w].x = win[w].x
        /\ win'[w].progress = win[w].progress
    BY <2>1 DEF Window
  <2> QED BY <2>2 DEF SameShape, SameLook
<1>4. StoresStep
  BY <1>1, <1>3 DEF StoresStep, SameShape
<1>5. CoverStep
  BY <1>1, <1>3 DEF CoverStep, SettledThen, Settled
<1>6. AskStep
  <2>1. CASE redraw'
    BY <2>1 DEF AskStep
  <2>2. CASE ~redraw'
    <3>1. ~redraw /\ ~held /\ at[1] # "dock" /\ cursor[1] # "dock" /\ cursor' = at
      BY <1>1, <2>2 DEF MouseTo
    <3>2. (cursor'[1] = "dock") = (cursor[1] = "dock")
      BY <3>1
    <3>3. ASSUME NEW w \in Windows PROVE win'[w] = win[w]
      <4>1. win[w] \in Window /\ ~win[w].dragging
        BY <3>1 DEF DeskInv, WindowsOK, DraggedIsOnTop
      <4>2. win'[w] = [win[w] EXCEPT !.dragging = FALSE]
        BY <1>1
      <4>3. win[w].dragging = FALSE
        BY <4>1 DEF Window
      <4> QED BY <4>1, <4>2, <4>3 DEF Window
    <3>4. win' = win
      BY <1>1, <3>3 DEF DeskInv, WindowsOK
    <3> QED BY <1>1, <3>1, <3>2, <3>4 DEF AskStep, IsPending, AnimRunning
  <2> QED BY <2>1, <2>2
<1> QED BY <1>1, <1>2, <1>4, <1>5, <1>6 DEF DeskStep

(* A dragged window's old and new places are marked.                       *)
LEMMA DragScreen ==
  ASSUME DeskInv, DeskInv', CursorOK, TypesOK, StoresOK, NEW at \in MouseCells, Drag(at),
         UNCHANGED frameVars
  PROVE  EventTypes /\ DeskStep
<1> DEFINE dx == at[2] - cursor[2]
           moved == DraggedBy(dx)
           dragged == { w \in Windows : win[w].dragging }
           marked == UNION { AreaOf(win[w]) \cup AreaOf(moved[w]) : w \in dragged }
<1>1. /\ phase = "events" /\ phase' = "events" /\ redraw' = TRUE /\ win' = moved
      /\ track' = AddRects(track, 2 * Cardinality(dragged), marked)
      /\ UNCHANGED <<stack, menu, modal, dirty>>
      /\ content' \in {content, Changed(Files)}
  BY DEF Drag, MouseTo, TakeInput
<1>2. 2 * Cardinality(dragged) \in Nat
  <2>1. IsFiniteSet(dragged)
    BY CountOfWindows, FS_Subset
  <2>2. Cardinality(dragged) \in Nat
    BY <2>1, FS_CardinalityType
  <2> HIDE DEF dragged
  <2> QED BY <2>2
<1>3. marked \in SUBSET Cells
  <2>1. \A w \in dragged : AreaOf(win[w]) \cup AreaOf(moved[w]) \in SUBSET Cells
    BY AreaCells
  <2> HIDE DEF dragged, moved
  <2> QED BY <2>1
<1>4. \A w \in Windows : win'[w] = win[w] \/ (w \in dragged /\ win'[w] = moved[w])
  BY <1>1 DEF DraggedBy
<1>5. \A w \in dragged : AreaOf(win[w]) \subseteq marked /\ AreaOf(moved[w]) \subseteq marked
  OBVIOUS
<1>6. \A w \in Windows :
        /\ win'[w].animating = win[w].animating /\ win'[w].maximized = win[w].maximized
        /\ win'[w].open = win[w].open
  <2> HIDE DEF dx
  <2>1. \A w \in Windows : win'[w] \in {win[w], [win[w] EXCEPT !.x = win[w].x + dx]}
    BY <1>1 DEF DraggedBy
  <2> QED BY <2>1 DEF DeskInv, WindowsOK, Window
<1> HIDE DEF dx, moved, dragged, marked
<1>7. track' \in Tracker /\ (~track'.all => ~track.all /\ track'.cells = track.cells \cup marked)
  BY <1>1, <1>2, <1>3, RectsAdded, TypesParts DEF Tracker
<1>8. /\ content' \in [Windows -> Version]
      /\ \A w \in Windows : w # Files => content'[w] = content[w]
  BY <1>1, ContentTyped, TypesParts
<1>9. EventTypes
  BY <1>1, <1>7, <1>8, TypesParts DEF EventTypes
<1>10. StoresStep
  <2>1. Files \in Windows => dirty[Files]
    BY DEF StoresOK, IsLive
  <2> QED BY <1>1, <1>6, <1>8, <2>1 DEF StoresStep, SameLook
<1>11. AskStep
  BY <1>1 DEF AskStep
<1>12. CoverStep
  <2> SUFFICES ASSUME ~track'.all, NEW c \in DeskCells \ track'.cells, NEW w \in Windows
      PROVE  \/ SameShape(win[w], win'[w])
             \/ c \notin AreaOf(win[w]) /\ c \notin AreaOf(win'[w])
    BY <1>1, <1>7 DEF CoverStep, SettledThen, Settled
  <2>1. c \notin marked
    BY <1>7
  <2>2. CASE w \in dragged /\ win'[w] = moved[w]
    BY <1>5, <2>1, <2>2
  <2> QED BY <1>4, <2>2 DEF SameShape, SameLook
<1> QED BY <1>1, <1>9, <1>10, <1>11, <1>12 DEF DeskStep
-----------------------------------------------------------------------------
(* Drawing.  The dock's rectangle reaches as far as the dock ever swells.  *)
LEMMA DockReaches ==
  ASSUME NEW at, NEW col \in Column
  PROVE  /\ <<"dock", col>> \notin DockArea(at) => col \notin DockReach
         /\ col \notin DockReach => col \notin DockSpan(at)
<1> DEFINE m == Cols \div 2
           reach == IF at[1] = "dock" THEN 2 ELSE 1
<1>1. m \in Int /\ reach \in {1, 2} /\ Margin \in Nat \ {0} /\ col \in Int
  BY DesktopAssumption DEF Column
<1>2. DockSpan(at) = (m - reach) .. (m + reach) /\ DockReach = (m - 2) .. (m + 2)
  BY DEF DockSpan, DockReach
<1> HIDE DEF m, reach
<1>3. Min(DockSpan(at)) = m - reach
  <2>1. m - reach \in DockSpan(at) /\ \A y \in DockSpan(at) : m - reach =< y
    BY <1>1, <1>2
  <2>2. \A x \in DockSpan(at) : (\A y \in DockSpan(at) : x =< y) => x = m - reach
    BY <1>1, <1>2, <2>1
  <2> QED BY <2>1, <2>2 DEF Min
<1>4. Max(DockSpan(at)) = m + reach
  <2>1. m + reach \in DockSpan(at) /\ \A y \in DockSpan(at) : m + reach >= y
    BY <1>1, <1>2
  <2>2. \A x \in DockSpan(at) : (\A y \in DockSpan(at) : x >= y) => x = m + reach
    BY <1>1, <1>2, <2>1
  <2> QED BY <2>1, <2>2 DEF Max
<1>5. <<"dock", col>> \notin DockArea(at) => col \notin (m - reach - Margin) .. (m + reach + Margin)
  BY <1>3, <1>4 DEF DockArea, Dock
<1> QED BY <1>1, <1>2, <1>5

(* The pixels the next frame paints, and those it keeps.                   *)
LEMMA NextPixels ==
  ASSUME TypesOK, StoresOK, NEW w \in Windows
  PROVE  /\ Painted(w) \in [Place -> Pixel] /\ Stored(w) \in [Place -> Pixel]
         /\ ~dirty[w] => ~IsFresh(w)
         /\ \A place \in Place :
              /\ IsFresh(w) /\ IsBody(w, place) => Painted(w)[place] = content[w]
              /\ ~IsFresh(w) => Painted(w)[place] = cache[w][place]
              /\ IsCached(w) /\ IsKept(w, place) => Stored(w)[place] = Painted(w)[place]
              /\ ~IsCached(w) => Stored(w)[place] = cache[w][place]
<1>1. content[w] \in Pixel /\ cache[w] \in [Place -> Pixel] /\ Hole \in Pixel
  BY TypesParts DEF Pixel
<1>2. ~dirty[w] => ~IsFresh(w)
  BY DEF IsFresh, StoresOK
<1>3. /\ Painted(w) \in [Place -> Pixel]
      /\ \A place \in Place :
           /\ IsFresh(w) /\ IsBody(w, place) => Painted(w)[place] = content[w]
           /\ ~IsFresh(w) => Painted(w)[place] = cache[w][place]
  BY <1>1 DEF Painted
<1>4. CASE IsCached(w)
  <2>1. Stored(w) = [place \in Place |-> IF IsKept(w, place) THEN Painted(w)[place] ELSE Hole]
    BY <1>4 DEF Stored
  <2> HIDE DEF Painted
  <2> QED BY <1>1, <1>2, <1>3, <1>4, <2>1
<1>5. CASE ~IsCached(w)
  BY <1>1, <1>2, <1>3, <1>5 DEF Stored
<1> QED BY <1>4, <1>5

(* What a redraw does to the variables of the screen.                      *)
LEMMA Drawing ==
  ASSUME DrawFrame, Render
  PROVE  /\ phase = "render" /\ phase' = "events"
         /\ UNCHANGED <<win, stack, menu, modal, cursor, held, content, inputs, animRan>>
         /\ shown' = cursor /\ redraw' = FALSE /\ track' = CleanTracker
         /\ drawn'.pixels = [w \in Windows |-> Painted(w)]
         /\ drawn'.cut = [w \in Windows |-> CutOff(w)]
         /\ drawn'.bare = { c \in DeskCells : IsBare(c) }
         /\ cache' = [w \in Windows |-> Stored(w)]
         /\ dirty' = [w \in Windows |-> dirty[w] /\ ~IsCached(w)]
         /\ back' = Picture(drawn')
         /\ fb' = Copied(back', FrameCells(FrameTrack))
BY DEF DrawFrame, Render, windowVars

LEMMA DrawTypes ==
  ASSUME TypesOK, StoresOK, CursorOK, DrawFrame, Render
  PROVE  TypesOK'
<1>1. track' \in Tracker
  <2>1. track' = [cells |-> {}, count |-> 0, all |-> FALSE]
    BY Drawing DEF CleanTracker
  <2>2. 0 \in 0 .. MaxRects
    BY DesktopAssumption
  <2> QED BY <2>1, <2>2 DEF Tracker
<1>2. DOMAIN back' = Screen /\ DOMAIN fb' = Screen
  BY Drawing DEF Picture, Copied
<1>3. /\ drawn'.pixels \in [Windows -> [Place -> Pixel]]
      /\ cache' \in [Windows -> [Place -> Pixel]]
  BY Drawing, NextPixels
<1>4. dirty' \in [Windows -> BOOLEAN] /\ drawn'.bare \subseteq DeskCells
  BY Drawing, TypesParts
<1> QED BY <1>1, <1>2, <1>3, <1>4, Drawing, TypesParts, TypesPartsThen DEF CursorOK

LEMMA DrawStores ==
  ASSUME TypesOK, StoresOK, DrawFrame, Render
  PROVE  /\ StoresOK'
         /\ \A w \in Windows \ {Console}, place \in Place :
              IsVisible(win[w]) /\ IsBody(w, place) /\ IsKept(w, place)
                  /\ place[2] \notin drawn'.cut[w]
                => drawn'.pixels[w][place] = content[w]
<1>1. ASSUME NEW w \in Windows, NEW place \in Place
      PROVE  /\ drawn'.pixels[w][place] = Painted(w)[place]
             /\ cache'[w][place] = Stored(w)[place]
             /\ IsFresh(w) /\ place[2] \notin drawn'.cut[w] => IsBody(w, place)
             /\ ~IsFresh(w) => drawn'.cut[w] = drawn.cut[w]
  <2>1. /\ drawn'.pixels[w] = Painted(w) /\ cache'[w] = Stored(w)
        /\ drawn'.cut[w] = CutOff(w)
    BY Drawing
  <2>2. place[2] \in Column
    BY DEF Place
  <2>3. IsFresh(w) /\ place[2] \notin CutOff(w) => IsBody(w, place)
    BY <2>2 DEF CutOff, IsBody
  <2>4. ~IsFresh(w) => CutOff(w) = drawn.cut[w]
    BY DEF CutOff
  <2> QED BY <2>1, <2>3, <2>4
<1>2. ASSUME NEW w \in Windows
      PROVE  /\ dirty'[w] = (dirty[w] /\ ~IsCached(w))
             /\ win[w].animating \/ win[w].maximized \/ IsLive(w) => dirty[w] /\ ~IsCached(w)
             /\ IsCached(w) => IsFresh(w)
  BY Drawing DEF StoresOK, IsCached
<1>3. ASSUME NEW w \in Windows, NEW place \in Place, ~dirty'[w], IsKept(w, place)
      PROVE  /\ drawn'.pixels[w][place] = cache'[w][place]
             /\ w # Console /\ place[2] \notin drawn'.cut[w] => cache'[w][place] = content[w]
  <2>1. CASE IsCached(w)
    BY <1>1, <1>2, <1>3, <2>1, NextPixels
  <2>2. CASE ~IsCached(w)
    <3>1. ~dirty[w] /\ ~IsFresh(w)
      BY <1>2, <1>3, <2>2, NextPixels
    <3> QED BY <1>1, <1>3, <2>2, <3>1, NextPixels DEF StoresOK, IsCut
  <2> QED BY <2>1, <2>2
<1>4. StoresOK'
  <2>1. \A w \in Windows : win'[w].animating \/ win'[w].maximized \/ IsLive(w) => dirty'[w]
    BY <1>2, Drawing
  <2>2. \A w \in Windows, place \in Place : ~dirty'[w] /\ IsKept(w, place) =>
          /\ drawn'.pixels[w][place] = cache'[w][place]
          /\ w # Console /\ place[2] \notin drawn'.cut[w]
               => cache'[w][place] = content'[w]
    BY <1>3, Drawing
  <2> QED BY <2>1, <2>2 DEF StoresOK, IsLive, IsCut
<1>5. ASSUME NEW w \in Windows \ {Console}, NEW place \in Place, IsVisible(win[w]),
             IsBody(w, place), IsKept(w, place), place[2] \notin drawn'.cut[w]
      PROVE  drawn'.pixels[w][place] = content[w]
  <2>1. CASE IsFresh(w)
    BY <1>1, <1>5, <2>1, NextPixels
  <2>2. CASE ~IsFresh(w)
    <3>1. ~dirty[w]
      BY <1>5, <2>2 DEF IsFresh
    <3> QED BY <1>1, <1>5, <2>2, <3>1, NextPixels DEF StoresOK, IsCut
  <2> QED BY <2>1, <2>2
<1> QED BY <1>4, <1>5

(* The picture of windows, launchpad and dock that stay as they are.       *)
LEMMA PictureStays ==
  ASSUME UNCHANGED <<win, stack, menu, cursor>>
  PROVE  /\ \A seen : Picture(seen)' = Picture(seen)
         /\ \A seen, c : DeskCell(seen, c)' = DeskCell(seen, c)
<1>1. \A seen, c : DeskCell(seen, c)' = DeskCell(seen, c)
  BY DeskThen
<1>2. \A col : DockCell(col)' = DockCell(col)
  BY DEF DockCell, DockSpan
<1>3. \A cell : WithMenu(cell)' = WithMenu(cell)
  BY DEF WithMenu
<1>4. \A seen : Picture(seen)' = Picture(seen)
  BY <1>1, <1>2, <1>3 DEF Picture
<1> QED BY <1>1, <1>4

(* The cells of a picture without the launchpad.                           *)
LEMMA PictureCells ==
  ASSUME NEW seen, ~menu.open, ~menu.animating
  PROVE  /\ \A c \in DeskCells : Picture(seen)[c] = DeskCell(seen, c)
         /\ \A col \in Column : Picture(seen)[<<"dock", col>>] = DockCell(col)
<1>1. \A cell : WithMenu(cell) = cell
  BY DEF WithMenu
<1>2. ASSUME NEW c \in DeskCells PROVE Picture(seen)[c] = DeskCell(seen, c)
  <2>1. c \in Screen /\ c \notin {MetricsHead, MetricsTail}
    BY <1>2, DeskRows DEF Screen, Cells, MetricsHead, MetricsTail
  <2>2. c[1] # "dock"
    BY <1>2, DeskRows
  <2>3. Picture(seen)[c] = WithMenu(DeskCell(seen, c))
    BY <1>2, <2>1, <2>2 DEF Picture
  <2> QED BY <1>1, <2>3
<1>3. ASSUME NEW col \in Column PROVE Picture(seen)[<<"dock", col>>] = DockCell(col)
  <2>1. <<"dock", col>> \in Screen
    BY DEF Screen, Cells, Dock
  <2>2. <<"dock", col>> \notin DeskCells /\ <<"dock", col>> \notin {MetricsHead, MetricsTail}
    BY DeskRows DEF MetricsHead, MetricsTail
  <2>3. Picture(seen)[<<"dock", col>>] = WithMenu(DockCell(col))
    BY <2>1, <2>2 DEF Picture
  <2> QED BY <1>1, <2>3
<1> QED BY <1>2, <1>3

LEMMA DrawCover ==
  ASSUME DrawFrame, Render
  PROVE  CoverOK'
<1>1. /\ UNCHANGED <<win, stack, menu, cursor>> /\ back' = Picture(drawn')
      /\ drawn'.bare = { c \in DeskCells : IsBare(c) }
  BY Drawing
<1> SUFFICES ASSUME Settled'
    PROVE  /\ \A c \in DeskCells :
                /\ back'[c] = DeskCell(drawn, c)'
                /\ c \in drawn'.bare => \E w \in Windows : IsHollow(win'[w], w, c)
           /\ \A col \in Column \ DockReach : back'[<<"dock", col>>] = <<"wallpaper">>
  BY DEF CoverOK, DockReach, IsHollow, IsVisible, BodyOf, WidthOf
<1>2. ~menu.open /\ ~menu.animating
  BY <1>1 DEF Settled
<1>3. \A seen, c : DeskCell(seen, c)' = DeskCell(seen, c)
  BY <1>1, PictureStays
<1>4. \A c \in DeskCells : back'[c] = DeskCell(drawn, c)'
  <2>1. \A c \in DeskCells : back'[c] = DeskCell(drawn', c)
    BY <1>1, <1>2, PictureCells
  <2>2. \A c : DeskCell(drawn, c)' = DeskCell(drawn', c)
    BY <1>1 DEF DeskCell, Layers, Body, PlaceOf
  <2> QED BY <2>1, <2>2
<1>5. \A c \in drawn'.bare : \E w \in Windows : IsHollow(win'[w], w, c)
  BY <1>1 DEF IsBare, IsHollow, PlaceOf
<1>6. \A col \in Column \ DockReach : back'[<<"dock", col>>] = <<"wallpaper">>
  <2>1. \A col \in Column : back'[<<"dock", col>>] = DockCell(col)
    BY <1>1, <1>2, PictureCells
  <2>2. \A col \in Column \ DockReach : DockCell(col) = <<"wallpaper">>
    BY DockReaches DEF DockCell
  <2> QED BY <2>1, <2>2
<1> QED BY <1>4, <1>5, <1>6

(* A frame that copies rectangles: the cells in none of them are drawn as  *)
(* they were.                                                              *)
LEMMA FrameTracks ==
  ASSUME track \in Tracker, ~FrameTrack.all, phase = "render"
  PROVE  /\ Settled
         /\ FrameTrack.cells = track.cells \cup MetricsArea \cup DockArea(cursor)
                                 \cup UNION { AreaOf(win[w]) : w \in Marked }
<1> DEFINE n == 2 + Cardinality(Marked)
           cells == MetricsArea \cup DockArea(cursor)
                      \cup UNION { AreaOf(win[w]) : w \in Marked }
<1>1. track = [cells |-> track.cells, count |-> track.count, all |-> track.all]
  BY DEF Tracker
<1>2. \A t : t = [cells |-> t.cells, count |-> t.count, all |-> t.all] => MarkAll(t).all
  BY DEF MarkAll
<1>3. ~(track.all \/ animRan \/ menu.animating \/ menu.open)
  BY <1>1, <1>2 DEF FrameTrack
<1>4. FrameTrack = AddRects(track, n, cells)
  BY <1>3 DEF FrameTrack
<1> HIDE DEF n, cells
<1>5. ~(track.count + n > MaxRects)
  BY <1>1, <1>2, <1>3, <1>4 DEF AddRects
<1>6. FrameTrack = [track EXCEPT !.cells = @ \cup cells, !.count = @ + n]
  BY <1>3, <1>4, <1>5 DEF AddRects
<1>7. FrameTrack.cells = track.cells \cup cells
  BY <1>1, <1>6
<1> QED BY <1>3, <1>7 DEF cells, Settled

(* A cell of a window's body is one of its places.                         *)
LEMMA PlacesOf ==
  ASSUME NEW r \in Window, NEW c \in DeskCells, c[2] \in BodyOf(r)
  PROVE  <<c[1], c[2] - r.x>> \in Place
<1>1. /\ r.x \in Int /\ WidthOf(r) \in 1 .. Cols /\ Cols \in Nat
      /\ c[1] \in {"desk", "foot"} /\ c[2] \in Int
  BY DesktopAssumption, DeskRows DEF Window, WidthOf, Column
<1>2. c[2] \in r.x .. r.x + WidthOf(r) - 1
  BY DEF BodyOf, Span
<1>3. c[2] - r.x \in 0 .. Cols - 1
  BY <1>1, <1>2
<1> QED BY <1>1, <1>3 DEF Place, Column

LEMMA UnmarkedCells ==
  ASSUME DeskInv, TypesOK, StoresOK, CoverOK, DrawFrame, Render, ~FrameTrack.all,
         NEW c \in Screen \ FrameTrack.cells, c # MetricsHead, c \notin drawn'.bare
  PROVE  back'[c] = back[c] /\ c \notin drawn.bare
<1>1. /\ back' = Picture(drawn') /\ drawn'.pixels = [w \in Windows |-> Painted(w)]
      /\ phase = "render" /\ drawn'.bare = { d \in DeskCells : IsBare(d) }
  BY Drawing
<1>2. /\ Settled
      /\ FrameTrack.cells = track.cells \cup MetricsArea \cup DockArea(cursor)
                              \cup UNION { AreaOf(win[w]) : w \in Marked }
  BY <1>1, FrameTracks, TypesParts
<1>3. c \in Cells
  BY <1>2 DEF Screen, MetricsArea
<1>4. ~menu.open /\ ~menu.animating
  BY <1>2 DEF Settled
<1>5. ASSUME c \in DeskCells PROVE back'[c] = back[c] /\ c \notin drawn.bare
  <2>1. back'[c] = DeskCell(drawn', c)
    BY <1>1, <1>4, <1>5, PictureCells
  <2>2. /\ back[c] = DeskCell(drawn, c)
        /\ c \in drawn.bare => \E w \in Windows : IsHollow(win[w], w, c)
    BY <1>2, <1>5 DEF CoverOK
  <2>3. ASSUME NEW w \in Windows
        PROVE  /\ LayerOf(win[w], w, drawn', c) = LayerOf(win[w], w, drawn, c)
               /\ ~IsHollow(win[w], w, c)
    <3>1. win[w] \in Window
      BY DEF DeskInv, WindowsOK
    <3>2. CASE w \in Marked
      <4>1. c \notin AreaOf(win[w])
        BY <1>2, <3>2
      <4> QED BY <1>5, <3>1, <4>1, LayerOutside
    <3>3. CASE ~IsVisible(win[w])
      BY <3>3 DEF LayerOf, IsHollow
    <3>4. CASE w \notin Marked /\ IsVisible(win[w])
      <4>1. ~dirty[w] /\ ~IsFresh(w) /\ ~IsLive(w)
        BY <3>4, NextPixels DEF Marked, StoresOK
      <4>2. CASE c[2] \notin BodyOf(win[w])
        BY <4>2 DEF LayerOf, IsHollow
      <4>3. CASE c[2] \in BodyOf(win[w])
        <5> DEFINE place == <<c[1], c[2] - win[w].x>>
        <5>1. place \in Place
          BY <1>5, <3>1, <4>3, PlacesOf
        <5>2. IsKept(w, place)
          BY <1>1, <1>5, <3>4, <4>1, <4>3 DEF IsBare, PlaceOf
        <5>3. drawn'.pixels[w][place] = drawn.pixels[w][place]
          BY <1>1, <4>1, <5>1, <5>2, NextPixels DEF StoresOK
        <5> HIDE DEF place
        <5>4. BodyIn(win[w], w, drawn', c) = BodyIn(win[w], w, drawn, c)
          BY <4>1, <5>3 DEF BodyIn, place
        <5> QED BY <3>4, <4>3, <5>2, <5>4 DEF LayerOf, IsHollow, place
      <4> QED BY <4>2, <4>3
    <3> QED BY <3>2, <3>3, <3>4
  <2>4. Layers(drawn', c) = Layers(drawn, c)
    BY <2>3, LayersAre
  <2> QED BY <2>1, <2>2, <2>3, <2>4 DEF DeskCell
<1>6. ASSUME NEW col \in Column, c = <<"dock", col>>
      PROVE  back'[c] = back[c] /\ c \notin drawn.bare
  <2>1. col \notin DockReach /\ col \notin DockSpan(cursor)
    BY <1>2, <1>6, DockReaches
  <2>2. back[c] = <<"wallpaper">>
    BY <1>2, <1>6, <2>1 DEF CoverOK
  <2>3. back'[c] = DockCell(col)
    BY <1>1, <1>4, <1>6, PictureCells
  <2>4. c \notin DeskCells
    BY <1>6, DeskRows
  <2> QED BY <2>1, <2>2, <2>3, <2>4, TypesParts DEF DockCell
<1> QED BY <1>3, <1>5, <1>6 DEF Cells, Dock

LEMMA PointerIsShown == CursorOK => cursor \in Screen
BY DesktopAssumption DEF CursorOK, Screen

LEMMA DrawCopies ==
  ASSUME DeskInv, CursorOK, TypesOK, StoresOK, CoverOK, FramebufferIsCopied, DrawFrame, Render
  PROVE  FramebufferIsCopied'
<1>1. fb' = Copied(back', FrameCells(FrameTrack)) /\ shown' = cursor
  BY DEF DrawFrame
<1> DEFINE cells == FrameCells(FrameTrack)
<1>2. \A c \in Screen : fb'[c] = IF c = cursor THEN Pointer
                                 ELSE IF c \in cells THEN back'[c] ELSE fb[c]
  BY <1>1 DEF Copied
<1>3. ASSUME NEW c \in Screen \ ({shown', MetricsHead} \cup drawn'.bare) PROVE fb'[c] = back'[c]
  <2>1. CASE c \in cells
    BY <1>1, <1>2, <1>3, <2>1
  <2>2. CASE c \notin cells
    <3>1. ~FrameTrack.all /\ c \notin FrameTrack.cells /\ c # shown
      BY <2>2 DEF FrameCells
    <3>2. fb'[c] = fb[c]
      BY <1>1, <1>2, <2>2
    <3>3. back'[c] = back[c] /\ c \notin drawn.bare
      BY <1>3, <3>1, UnmarkedCells
    <3>4. fb[c] = back[c]
      BY <1>3, <3>1, <3>3 DEF FramebufferIsCopied
    <3> QED BY <3>2, <3>3, <3>4
  <2> QED BY <2>1, <2>2
<1>4. fb'[shown'] = Pointer
  BY <1>1, <1>2, PointerIsShown
<1> QED BY <1>3, <1>4 DEF FramebufferIsCopied

LEMMA DrawScreen ==
  ASSUME ScreenInv, DrawFrame, Render
  PROVE  /\ TypesOK' /\ StoresOK' /\ AnimationAsks' /\ CoverOK' /\ FramebufferIsCopied'
         /\ PictureIsCurrent' /\ WindowsShowContents'
<1>1. /\ UNCHANGED <<win, stack, menu, cursor, content>>
      /\ back' = Picture(drawn') /\ phase' = "events"
  BY DEF DrawFrame, Render, windowVars
<1>2. TypesOK' /\ StoresOK' /\ CoverOK' /\ FramebufferIsCopied'
  BY DrawTypes, DrawStores, DrawCover, DrawCopies DEF ScreenInv
<1>3. PictureIsCurrent'
  <2>1. Picture(drawn)' = Picture(drawn')
    BY <1>1, PictureStays
  <2> QED BY <1>1, <2>1 DEF PictureIsCurrent
<1>4. WindowsShowContents'
  <2>1. \A w \in Windows \ {Console}, place \in Place :
          IsVisible(win[w]) /\ IsBody(w, place) /\ IsKept(w, place)
              /\ place[2] \notin drawn'.cut[w]
            => drawn'.pixels[w][place] = content[w]
    BY DrawStores DEF ScreenInv
  <2> QED BY <1>1, <2>1 DEF WindowsShowContents, Shows, IsCut, IsBody, IsVisible, BodyOf, WidthOf
<1> QED BY <1>1, <1>2, <1>3, <1>4 DEF AnimationAsks

(* Nothing of what is drawn changes but, perhaps, the cursor's place.      *)
LEMMA UndrawnScreen ==
  ASSUME ScreenInv,
         UNCHANGED <<windowVars, drawVars, cursor, held, content, inputs, animRan>>,
         UNCHANGED <<cache, drawn, back>>, phase' \in {phase, "events"},
         phase' = phase \/ (phase = "render" /\ ~redraw),
         \/ UNCHANGED <<fb, shown>>
         \/ fb' = Copied(back, {shown}) /\ shown' = cursor
  PROVE  /\ TypesOK' /\ StoresOK' /\ AnimationAsks' /\ CoverOK' /\ FramebufferIsCopied'
         /\ PictureIsCurrent' /\ WindowsShowContents'
<1>1. /\ UNCHANGED <<win, stack, menu, modal, redraw, track, dirty, cursor, held, content,
                     inputs, animRan, cache, drawn, back>>
  BY DEF windowVars, drawVars
<1>2. DOMAIN fb' = Screen /\ shown' \in MouseCells /\ phase' \in {"events", "update", "render"}
  BY TypesParts DEF Copied, ScreenInv, CursorOK
<1>3. TypesOK'
  BY <1>1, <1>2, TypesParts, TypesPartsThen DEF ScreenInv
<1>4. StoresOK' /\ AnimationAsks'
  BY <1>1 DEF ScreenInv, StoresOK, AnimationAsks, IsCut, IsLive
<1>5. (\A seen : Picture(seen)' = Picture(seen)) /\ \A seen, c : DeskCell(seen, c)' = DeskCell(seen, c)
  BY <1>1, PictureStays
<1>6. CoverOK'
  <2> SUFFICES ASSUME Settled'
      PROVE  /\ \A c \in DeskCells \ track'.cells :
                  /\ back'[c] = DeskCell(drawn, c)'
                  /\ c \in drawn'.bare => \E w \in Windows : IsHollow(win'[w], w, c)
             /\ \A col \in Column \ DockReach : back'[<<"dock", col>>] = <<"wallpaper">>
    BY DEF CoverOK, DockReach, IsHollow, IsVisible, BodyOf, WidthOf
  <2>1. Settled
    BY <1>1 DEF Settled, ScreenInv, AnimationAsks
  <2>2. \A c : DeskCell(drawn, c)' = DeskCell(drawn, c)
    BY <1>1, <1>5
  <2> QED BY <1>1, <2>1, <2>2 DEF ScreenInv, CoverOK
<1>7. FramebufferIsCopied'
  <2>1. CASE UNCHANGED <<fb, shown>>
    BY <1>1, <2>1 DEF ScreenInv, FramebufferIsCopied
  <2>2. CASE fb' = Copied(back, {shown}) /\ shown' = cursor
    <3>1. \A c \in Screen : fb'[c] = IF c = cursor THEN Pointer
                                     ELSE IF c = shown THEN back[c] ELSE fb[c]
      BY <2>2 DEF Copied
    <3>2. fb'[shown'] = Pointer
      BY <2>2, <3>1, PointerIsShown DEF ScreenInv
    <3> QED BY <1>1, <2>2, <3>1, <3>2 DEF ScreenInv, FramebufferIsCopied
  <2> QED BY <2>1, <2>2
<1>8. PictureIsCurrent'
  <2>1. Picture(drawn)' = Picture(drawn)
    BY <1>1, <1>5
  <2> QED BY <1>1, <2>1 DEF ScreenInv, PictureIsCurrent, IsPending, AnimRunning
<1>9. WindowsShowContents'
  BY <1>1 DEF ScreenInv, WindowsShowContents, IsPending, AnimRunning, Shows, IsCut, IsBody
<1> QED BY <1>3, <1>4, <1>6, <1>7, <1>8, <1>9

LEMMA RenderScreen ==
  ASSUME ScreenInv, Render
  PROVE  /\ TypesOK' /\ StoresOK' /\ AnimationAsks' /\ CoverOK' /\ FramebufferIsCopied'
         /\ PictureIsCurrent' /\ WindowsShowContents'
<1>1. CASE DrawFrame
  BY <1>1, DrawScreen
<1>2. CASE MoveCursor
  <2>1. UNCHANGED drawVars
    BY <1>2 DEF MoveCursor
  <2> QED BY <1>2, <2>1, UndrawnScreen DEF Render, MoveCursor
<1>3. CASE NothingToDraw
  <2>1. UNCHANGED drawVars /\ UNCHANGED <<cache, drawn, back, fb, shown>>
    BY <1>3 DEF NothingToDraw, frameVars
  <2> QED BY <1>3, <2>1, UndrawnScreen DEF Render, NothingToDraw
<1> QED BY <1>1, <1>2, <1>3 DEF Render
-----------------------------------------------------------------------------
LEMMA EventScreen ==
  ASSUME ScreenInv, DeskInv', Handle \/ Serial \/ (\E elapsed \in BOOLEAN : Clock(elapsed))
  PROVE  EventTypes /\ DeskStep /\ TypesOK'
<1>1. EventTypes /\ DeskStep
  <2>1. ASSUME Handle, NEW key, Key(key) PROVE EventTypes /\ DeskStep
    BY <2>1, KeyScreen DEF Handle, ScreenInv
  <2>2. ASSUME Handle, NEW at \in MouseCells, MouseEvent(at) PROVE EventTypes /\ DeskStep
    <3>1. UNCHANGED frameVars
      BY <2>2 DEF Handle
    <3>2. CASE MouseUp(at)
      BY <3>1, <3>2, MouseUpScreen DEF ScreenInv
    <3>3. CASE Drag(at)
      BY <3>1, <3>3, DragScreen DEF ScreenInv
    <3>4. CASE ~MouseUp(at) /\ ~Drag(at)
      <4>1. Press(at)
        BY <2>2, <3>4 DEF MouseEvent, PressBesideCards, PressLaunchpad, PressDockGap,
             PressBackground, PressCard, PressDockWindow, PressWindow, OnWindows
      <4> QED BY <2>2, <3>1, <3>4, <4>1, PressScreen DEF ScreenInv
    <3> QED BY <3>2, <3>3, <3>4
  <2>3. CASE Handle
    BY <2>1, <2>2, <2>3 DEF Handle, Event
  <2>4. CASE Serial
    BY <2>4, SerialScreen DEF ScreenInv
  <2>5. CASE \E elapsed \in BOOLEAN : Clock(elapsed)
    BY <2>5, ClockScreen DEF ScreenInv
  <2> QED BY <2>3, <2>4, <2>5
<1>2. held' \in BOOLEAN /\ phase' \in {"events", "update", "render"} /\ inputs' \in 0 .. MaxInputs
      /\ animRan' \in BOOLEAN
  <2>1. held \in BOOLEAN /\ animRan \in BOOLEAN /\ inputs \in 0 .. MaxInputs /\ MaxInputs \in Nat
    BY TypesParts, DesktopAssumption DEF ScreenInv
  <2>2. CASE Handle
    <3>1. phase' = "events" /\ inputs' = inputs + 1 /\ inputs < MaxInputs /\ animRan' = animRan
      BY <2>2 DEF Handle, Event, Key, MouseEvent, MouseUp, Drag, PressBesideCards, PressLaunchpad,
           PressDockGap, PressBackground, PressCard, PressDockWindow, PressWindow,
           OnWindows, Press, MouseTo, TakeInput
    <3>2. held' \in {held, TRUE, FALSE}
      BY <2>2 DEF Handle, Event, Key, MouseEvent, MouseUp, Drag, PressBesideCards, PressLaunchpad,
           PressDockGap, PressBackground, PressCard, PressDockWindow, PressWindow,
           OnWindows, Press, MouseTo
    <3>3. inputs' \in 0 .. MaxInputs
      BY <2>1, <3>1
    <3>4. held' \in BOOLEAN
      BY <2>1, <3>2
    <3> QED BY <2>1, <3>1, <3>3, <3>4
  <2>3. CASE Serial
    <3>1. /\ phase' = "update" /\ held' = held /\ animRan' = animRan
          /\ inputs' = inputs \/ (inputs' = inputs + 1 /\ inputs < MaxInputs)
      BY <2>3 DEF Serial, NoSerialInput, SerialInput
    <3> QED BY <2>1, <3>1
  <2>4. CASE \E elapsed \in BOOLEAN : Clock(elapsed)
    <3>1. /\ phase' = "render" /\ held' = held /\ animRan' = AnimRunning
          /\ inputs' = inputs \/ (inputs' = inputs + 1 /\ inputs < MaxInputs)
      BY <2>4 DEF Clock, Update, UpdateMetrics, KeepMetrics
    <3>2. AnimRunning \in BOOLEAN
      BY TypesParts DEF AnimRunning, ScreenInv, Menu
    <3> QED BY <2>1, <3>1, <3>2
  <2> QED BY <2>2, <2>3, <2>4
<1>3. UNCHANGED <<cache, drawn, back, fb, shown>>
  BY <1>1 DEF DeskStep, frameVars
<1>4. TypesOK'
  BY <1>1, <1>2, <1>3, TypesParts, TypesPartsThen DEF EventTypes, ScreenInv
<1> QED BY <1>1, <1>4

LEMMA ScreenInit == Init => ScreenInv
<1> SUFFICES ASSUME Init PROVE ScreenInv
  OBVIOUS
<1>1. DeskInv /\ CursorOK /\ TypesOK
  BY DeskInvInit, CursorOn, TypesInit
<1>2. StoresOK
  BY DEF Init, DeskInit, StoresOK
<1>3. AnimationAsks
  BY DEF Init, DeskInit, AnimationAsks
<1>4. track.all /\ redraw
  BY DEF Init, DeskInit, MarkAll, CleanTracker
<1>5. CoverOK
  BY <1>4 DEF CoverOK, Settled
<1>6. FramebufferIsCopied
  <2>1. \A c \in Screen : fb[c] = Blank /\ back[c] = Blank
    BY DEF Init
  <2> QED BY <2>1 DEF FramebufferIsCopied, Screen
<1>7. PictureIsCurrent /\ WindowsShowContents
  BY <1>4 DEF PictureIsCurrent, WindowsShowContents, IsPending
<1> QED BY <1>1, <1>2, <1>3, <1>5, <1>6, <1>7 DEF ScreenInv

(* The inductive invariant of the screen (render.rs, dirty.rs).            *)
THEOREM ScreenInvariance == Spec => []ScreenInv
<1>1. ScreenInv /\ (DeskInv /\ CursorOK)' /\ [Next]_vars => ScreenInv'
  <2> SUFFICES ASSUME ScreenInv, DeskInv', CursorOK', [Next]_vars PROVE ScreenInv'
    OBVIOUS
  <2>1. CASE Handle \/ Serial \/ (\E elapsed \in BOOLEAN : Clock(elapsed))
    <3>1. DeskStep /\ TypesOK'
      BY <2>1, EventScreen
    <3> QED BY <3>1, DeskStepStores, DeskStepAsks, DeskStepCover, DeskStepFrame DEF ScreenInv
  <2>2. CASE Render
    BY <2>2, RenderScreen DEF ScreenInv
  <2>3. CASE UNCHANGED vars
    <3>1. /\ UNCHANGED <<windowVars, drawVars, cursor, held, content, inputs, animRan, phase>>
          /\ UNCHANGED <<cache, drawn, back, fb, shown>>
      BY <2>3 DEF vars, deskVars, frameVars
    <3> QED BY <3>1, UndrawnScreen DEF ScreenInv
  <2> QED BY <2>1, <2>2, <2>3 DEF Next
<1> QED BY <1>1, ScreenInit, DeskInvariance, PTL DEF Spec

(* Every variable of the desktop and the screen keeps its type: the        *)
(* rectangles never outnumber their room, the stack keeps every window.    *)
THEOREM ScreenTypes == Spec => []TypeOK
<1>1. ScreenInv /\ StackOK => TypeOK
  <2> SUFFICES ASSUME ScreenInv, StackOK PROVE TypeOK
    OBVIOUS
  <2>1. track.count \in 0 .. MaxRects
    BY TypesParts DEF ScreenInv, Tracker
  <2> QED BY <2>1 DEF TypeOK, ScreenInv, TypesOK, DeskInv, WindowsOK, CursorOK
<1> QED BY <1>1, ScreenInvariance, StackStaysWhole, PTL

(* The rectangles that the handlers, the dock, the metrics and the dirty   *)
(* stores mark cover whatever a redraw changes: but for the cursor and the *)
(* head of the metrics the framebuffer shows the back buffer (dirty.rs,    *)
(* render.rs:40).                                                          *)
THEOREM FramebufferFollows == Spec => []FramebufferIsCopied
<1>1. ScreenInv => FramebufferIsCopied
  BY DEF ScreenInv
<1> QED BY <1>1, ScreenInvariance, PTL

(* No handler changes windows, launchpad or dock and forgets to ask for a  *)
(* frame (input.rs, main.rs).                                              *)
THEOREM PictureStaysCurrent == Spec => []PictureIsCurrent
<1>1. ScreenInv => PictureIsCurrent
  BY DEF ScreenInv
<1> QED BY <1>1, ScreenInvariance, PTL

(* Through every capture and restore of its backing store a visible window *)
(* but the console shows what it has to show (compositor.rs, render.rs:75).*)
THEOREM WindowsStayCurrent == Spec => []WindowsShowContents
<1>1. ScreenInv => WindowsShowContents
  BY DEF ScreenInv
<1> QED BY <1>1, ScreenInvariance, PTL
=============================================================================
