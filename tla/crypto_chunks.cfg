SPECIFICATION Spec
CONSTANTS
  Sizes <- Around
  Chunk = 16384
INVARIANTS TypeOK WritesFit RoundTrip
