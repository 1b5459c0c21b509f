SPECIFICATION LiveSpec
CONSTANTS
  Writers = {w1, w2}
  Runs = {r1, r2}
  Nobody = Nobody
  MaxTorn = 1
INVARIANTS
  TypeOK
  AtMostOneTerminalEvent
  ReturnMeansRecorded
  RefusalIsJustified
PROPERTIES
  CallsReturn
  ImplementsTerminalOnce
