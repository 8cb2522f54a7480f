SPECIFICATION MCSpec
CONSTANTS
  None = None
  Enquiries = {e1}
  Contracts = {c1}
  Purchases = {p1}
  Workers = {w1, w2}
SYMMETRY Symmetry
INVARIANTS
  TypeOK
  ReferencesSound
  InheritsReference
  ReferencedSerially
PROPERTIES
  LinksImmutable
  AllocatedWhenLive
  ImplementsRegistry
