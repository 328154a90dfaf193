SPECIFICATION Spec
SYMMETRY Interchangeable
CONSTANTS
  Ids = {i1, i2}
  Values = {a, b}
  Times = {1, 2}
  Pagers = {p1}
  Txs = {x1}
  Others = {application}
  Limit = 1
  MaxSeq = 3
INVARIANTS
  TypeOK
  CursorsUnique
  WalkAdvances
  SurvivorsYielded
PROPERTIES
  RollbackUndoesOwn
