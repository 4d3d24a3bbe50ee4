\* The blocks: two files, up to two bit flips and the scrubber between calls.
SPECIFICATION Spec
CONSTANTS
  TotalPages = 4
  PageSize = 2
  Tolerance = 2
  Names = {a, b}
  Data <- MCBlockData
  MaxInodes = 3
  MaxDepth = 1
  MaxFlips = 2
INVARIANTS
  TypeOK
  FilesOwnTheirBlocks
  ReadsRecover
SYMMETRY MCPermutations
