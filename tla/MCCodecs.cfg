CONSTANTS
  Base = 8
  LoginFieldSize = 4
  FlatFileTag <- FLATFILE
  ResumeTag <- RESUME
  ResumeFile = 2
  TrackerTag <- HTRK
  Samples <- MCSamples
  Oversized <- MCOversized
  Tails <- MCTails
  MaxDamaged = 90
  ArchiveTag <- HARC
  ArchiveNameField = 4
  RawTag = 1
  ZlibTag = 5
  MaxDecompressed = 100
  IvarTag <- IVA1
  HmacSha1Name <- Sha1Name
  HmacMd5Name <- Md5Name
  BlowfishName <- Blowfish
  FieldIdOf <- FieldNumbers
  HopeVersion = 61
  MinSessionKeySize = 4
  BlockSize = 12
  Inflatable <- MCInflatable
SPECIFICATION Spec
INVARIANTS
  TypeOK
  RoundTrip
  RefusesOnlyTheLarge
  NothingSkipped
  EndsWhereItSays
  MaskHasItsBits
  ItemsInOrder
  SameAlgorithm
  FewestBlocks
  NothingMadeUp
CHECK_DEADLOCK FALSE
