CONSTANTS
  IdMax = 4
  Req = {r1, r2, r3}
  Resp = Resp
  Nil = Nil
  p = p
  q = q
  s = s
  Paths = {p}
  Ancestors <- AboveOne
  Tasks = {"add", "remove"}
  FreshPids <- NoProcess
  MaxServing = 2
  AddMayFail = FALSE
  WalkMayFail = TRUE
SYMMETRY Symmetric
SPECIFICATION Spec
INVARIANTS TypeOK UniqueIds CountCoherent
CHECK_DEADLOCK FALSE
