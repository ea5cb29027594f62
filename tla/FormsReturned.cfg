\* Two operations, three imports: two copies of one form and a rival beside them.
SPECIFICATION Spec
CONSTANTS
  ballot = ballot
  value = value
  theme = theme
  Refs = {o1, o2}
  ForeignRef = ForeignRef
  Subjects = {ballot, value}
  Votes = {ballot}
  Scaled = {value}
  Fills = {yes, no}
  Deployments = {d1, d2}
  Scales = {s1, s2}
  Imports = {i1, i2, i3}
  None = None
SYMMETRY MCSymmetry
INVARIANTS
  TypeOK
  OneImportPerIdentity
  ImportedIsWhatIsStored
  FilesAndRowsAgree
PROPERTIES
  ReturnedIsFrozen
  ImplementsLedger
