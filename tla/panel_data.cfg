SPECIFICATION Spec
CONSTANTS
  None = None
  Refused = Refused
  address = address
  Definitions <- MCDefinitions
  Outputs = 2
  Packet <- MCPacket
  MaxPackets = 2
  Pass = {p1, p2}
  MaxAbandoned = 1
  DiagnosticTypes = {"thermometer", "thermostat"}
SYMMETRY Passes
CONSTRAINT OnePacketWhenGivenUp
INVARIANTS
  TypeOK
  ListenersFollow
  BatteryWhole
  StatelessStay
  OnHasKeeper
PROPERTY
  KnownStaysKnown
