CONSTANTS
  IdMax = 3
  Req = {r1, r2}
  Resp = Resp
  Nil = Nil
  p = p
  q = q
  s = s
  Paths = {p}
  Ancestors <- AboveOne
  Tasks = {"add", "list"}
  FreshPids <- NoProcess
  MaxServing = 1
  AddMayFail = FALSE
  WalkMayFail = FALSE
SPECIFICATION Spec
PROPERTY CompletionIsFinal
CHECK_DEADLOCK FALSE
