CONSTANTS
  BlockSize = 8
  HeaderSize = 20
  OldKeyBytes = 2
  Flags = {0, 5}
  Sizes = {0, 1, 3, 12}
  MaxFrames = 2
SPECIFICATION Spec
INVARIANTS
  TypeOK
  InStep
  NoMaskTwice
CHECK_DEADLOCK FALSE
