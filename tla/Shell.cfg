SPECIFICATION FairShellSpec
CONSTANTS
  u1 = u1
  u2 = u2
  NoLogin = NoLogin
  Logins = {u1, u2}
INVARIANTS
  NoSuperuserInShell
  PromptIsTrue
  RefusalsAreDue
  EarlyEndsReachNothing
PROPERTY PipedNeverBlocks
