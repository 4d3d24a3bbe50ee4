SPECIFICATION Spec
CONSTANTS
  InitStack <- MCStack
  StartX <- MCStartX
  StartOpen <- MCTwo
  MouseCells <- MCMouseCells
  Cols = 4
  Width = 2
  Margin = 1
  AnimTop = 1
  MenuTop = 1
  MaxRects = 5
  MaxInputs = 4
INVARIANTS
  StoresOutliveDrags
