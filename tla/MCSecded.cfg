\* 46 bytes, all 16 bit positions, at most two effective flips of a word.
SPECIFICATION Spec
CONSTANTS
  Stored <- MCStored
  Inputs <- MCInputs
INVARIANTS
  NoSilentCorruption
  SingleFlipIsLocated
PROPERTIES
  FramesPicturesWords
