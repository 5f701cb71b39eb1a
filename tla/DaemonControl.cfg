SPECIFICATION ControlSpec
CONSTANTS
  sh1 = sh1
  sh2 = sh2
  p1 = p1
  p2 = p2
  u1 = u1
  u2 = u2
  ByHand = ByHand
  None = None
  MaxRows = 3
  Shells = {sh1, sh2}
  Services = {"scheduler"}
  Pids = {p1, p2}
  Users = {u1, u2}
SYMMETRY Alike
INVARIANTS
  OneDaemonPerShell
  RunsAsRequester
  RowsAreTrue
