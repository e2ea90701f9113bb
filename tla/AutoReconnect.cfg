\* Crashes, failed health checks and the whole interface of the service, under
\* fair scheduling; attempts overlap cancellations and manual reconnections.
SPECIFICATION FairSpec
CONSTANTS
  Servers = {s1, s2}
  States = {o1, o2, o3}
  Attempts = {a1, a2}
  MaxAttempts = 2
  None = None
INVARIANTS TypeOK DriverPresent OneAttempt
PROPERTIES SuccessSticks ReconnectionEnds
