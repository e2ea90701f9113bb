\* One server: three crashes, two of which mark it, with two handlers or resets
\* and the attempts of the reconnection service between them.
SPECIFICATION FairRecoverySpec
CONSTANTS
  Servers = {s1}
  States = {o1, o2}
  Attempts = {a1, a2}
  MaxAttempts = 2
  None = None
  Calls = {k1, k2}
  CrashLimit = 2
  MaxCrashes = 3
PROPERTIES ErrorClears ImplementsAutoReconnect
