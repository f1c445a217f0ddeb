SPECIFICATION AccountsSpec
CONSTANTS
  People = {p1, p2, p3}
  Codes = {c1, c2, c3}
  AuthReqs = {r1, r2}
  NoUser = NoUser
  MovedTables = {"analyses"}
  OtherTables = {"uploaded_files"}
  MaxActions = 2
INVARIANT AllHistoryFollows
CHECK_DEADLOCK FALSE
