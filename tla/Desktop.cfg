\* Two operations, two wallets, two calls at a time.
SPECIFICATION Spec
CONSTANTS
  Ops = {o1, o2}
  Keys = {k1, k2}
  None = None
  Slots = {1, 2}
SYMMETRY MCSymmetry
INVARIANTS
  PostedOnce
  SignsWithStoredKey
PROPERTIES
  PostedIsConfirmed
