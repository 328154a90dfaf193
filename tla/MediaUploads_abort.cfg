SPECIFICATION Spec
CONSTANTS
  Uploads = {u1}
  Callers = {c1, c2}
PROPERTIES
  AbortDiscards
