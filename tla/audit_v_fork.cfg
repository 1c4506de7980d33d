SPECIFICATION Spec
CONSTANTS
  r1 = r1
  r2 = r2
  float = float
  integer = integer
  Resources = {r1}
  Payloads = {float, integer}
  Jsonb <- Rewriting
  Writers = {w1,w2}
  MaxEvents = 3
  Limit = 4
SYMMETRY Interchangeable
INVARIANTS ChainLinked
