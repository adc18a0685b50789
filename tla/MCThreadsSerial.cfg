CONSTANTS
  IdMax = 3
  Req = {r1, r2, r3, r4}
  Resp = Resp
  Nil = Nil
  p = p
  q = q
  s = s
  Paths <- ThreePaths
  Ancestors <- AboveThree
  Tasks = {"add", "suspend", "resume", "remove", "list"}
  FreshPids <- AnyFresh
  MaxServing = 1
  AddMayFail = TRUE
  WalkMayFail = FALSE
SYMMETRY Symmetric
SPECIFICATION Spec
INVARIANTS PathsAgree SuspendAgreement ListExact NeverCrashes
PROPERTY NoOverlap
CHECK_DEADLOCK FALSE
