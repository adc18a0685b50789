CONSTANTS
  IdMax = 3
  Req = {r1, r2}
  Resp = Resp
  Nil = Nil
  p = p
  q = q
  s = s
  Paths <- TwoPaths
  Ancestors <- Above
  Tasks = {"add"}
  FreshPids <- NoProcess
  MaxServing = 2
  AddMayFail = FALSE
  WalkMayFail = FALSE
SPECIFICATION Spec
PROPERTY NoOverlap
CHECK_DEADLOCK FALSE
