CONSTANTS
  Clients = {c1, c2}
  Nobody = Nobody
  Lines <- SmallLines
  Paths = {"p", "q"}
  Ids = {3, 1234}
  OldTables <- SmallTables
  Junk = {0}
SPECIFICATION Spec
INVARIANTS TypeOK TaskArrives Framing WholeReply DeathHasCause
  
CHECK_DEADLOCK FALSE
