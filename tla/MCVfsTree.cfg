\* The tree: four inodes, no bit flips, memory that runs out.
SPECIFICATION Spec
CONSTANTS
  TotalPages = 3
  PageSize = 1
  Tolerance = 2
  Names = {a, b}
  Data <- MCTreeData
  MaxInodes = 4
  MaxDepth = 2
  MaxFlips = 0
INVARIANTS
  TreeIsSound
  FilesOwnTheirBlocks
SYMMETRY MCPermutations
