SPECIFICATION Spec
CONSTANTS
  Askers = {a1, a2}
  MaxFaults = 4
INVARIANTS TypeOK ServingMeansReady KnownStaysKnown
PROPERTIES Recovers
