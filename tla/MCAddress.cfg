CONSTANTS
  Dot = Dot
  Colon = Colon
  Open = Open
  Close = Close
  Other = Other
  Decimal = 2
  Radix = 3
  OctetCount = 4
  MaxOctet = 3
  GroupCount = 5
  GroupDigits = 2
  MaxPort = 7
  PortDigits = 4
  MaxNumeral = 4
  Addresses <- MCAddresses
SPECIFICATION Spec
INVARIANTS
  TypeOK
  ReadsExactly
  SameAddress
  PrintsShortest
CHECK_DEADLOCK FALSE
