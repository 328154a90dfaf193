SPECIFICATION Spec
CONSTANTS
  Ids = {i1}
  Values = {a}
  Times = {1}
  Pagers = {}
  Txs = {x1, x2}
  Others = {}
  Limit = 1
  MaxSeq = 2
PROPERTIES
  RollbackSparesEnded
