SPECIFICATION Spec
CONSTANTS
  section = section
  device = device
  code = code
  off = off
  on = on
  Key <- MCKey
  Body <- MCBody
  Secret <- MCSecret
  Blank <- off
  InReport <- MCInReport
  OutReport <- MCOutReport
  Limit = 2
  Repeat = 2
  MaxPackets = 6
INVARIANTS
  TypeOK
  Conserved
  LogShowsLatest
  RecentKept
  TableBound
