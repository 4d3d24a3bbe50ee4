SPECIFICATION Spec
CONSTANTS
  InitStack <- MCStack
  StartX <- MCStartX
  StartOpen <- MCOne
  MouseCells <- MCMouseCells
  Cols = 4
  Width = 2
  Margin = 1
  AnimTop = 2
  MenuTop = 1
  MaxRects = 5
  MaxInputs = 4
INVARIANTS
  TypeOK
  FocusedIsOpen
  DraggedIsOnTop
  FramebufferIsCopied
  PictureIsCurrent
  
PROPERTIES
  SecondFocusIsAnOpening
  AnimationsSettle

