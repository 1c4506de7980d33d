SPECIFICATION Spec
CONSTANTS
  r1 = r1
  r2 = r2
  float = float
  integer = integer
  Resources = {r1,r2}
  Payloads = {float, integer}
  Jsonb <- Rewriting
  Writers = {w1,w2,w3}
  MaxEvents = 4
  Limit = 3
SYMMETRY Interchangeable
INVARIANTS TypeOK LinkedFromGenesis NoDanglingLink BreaksOnlyOnRewriting
