SPECIFICATION AccessSpec
CONSTANTS
  u1 = u1
  sh1 = sh1
  d1 = d1
  by1 = by1
  by2 = by2
  NoLogin = NoLogin
  Logins = {u1}
  Sessions = {sh1}
  Daemons = {d1}
  Admins = {by1, by2}
SYMMETRY AnyAdmin
INVARIANTS
  OneRolePerUser
  SchedulerPreflightSuffices
  WorkerPreflightSuffices
  MenuIsHonest
CHECK_DEADLOCK FALSE
