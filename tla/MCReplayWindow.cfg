CONSTANTS
  Words = 3
  WordBits = 3
  CounterLimit = 13
SPECIFICATION Spec
INVARIANT TypeOK
INVARIANT WindowExact
PROPERTY ImplementsReplaySpec
