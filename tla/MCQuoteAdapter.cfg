SPECIFICATION Spec
CONSTANTS
  Codes = {c1, c2}
  Batches = {{c1, c2}}
  Calls = {k1, k2}
SYMMETRY Symmetry
INVARIANTS FallbackExhausted LastGoodWasLive
