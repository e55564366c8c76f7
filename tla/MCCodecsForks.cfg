CONSTANTS
  Base = 4
  LoginFieldSize = 2
  FlatFileTag <- BinaryTag
  ResumeTag <- BinaryTag
  ResumeFile = 2
  TrackerTag <- BinaryTag
  Samples <- LargeForks
  Oversized = {}
  Tails = {}
  MaxDamaged = 0
  ArchiveTag <- BinaryTag
  ArchiveNameField = 2
  RawTag = 1
  ZlibTag = 5
  MaxDecompressed = 100
  IvarTag <- BinaryTag
  HmacSha1Name <- BinaryTag
  HmacMd5Name <- BinaryText
  BlowfishName <- BinaryText
  FieldIdOf <- FieldNumbers
  HopeVersion = 13
  MinSessionKeySize = 2
  BlockSize = 12
  Inflatable <- BinaryText
SPECIFICATION Spec
INVARIANT LargeForksAreRefused
CHECK_DEADLOCK FALSE
