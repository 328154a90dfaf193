SPECIFICATION Spec
CONSTANTS
  Uploads = {u1, u2}
  Callers = {c1, c2, c3}
INVARIANTS
  TypeOK
  NoOrphanObject
  OpenIsPending
  ReadyIsStored
PROPERTIES
  Lifecycle
