\* Progress of calls that overlap, in the default modes; no symmetry.
SPECIFICATION FairSpec
CONSTANTS
  Sessions = {s}
  Servers = {x, y}
  Clients = {c1, c2}
  Objects = {o1, o2}
  Calls = {k1, k2}
  MaxWarm = 1
  Lazy = TRUE
  SingleActive = TRUE
  MayCrash = TRUE
  Overlap = TRUE
  None = None
INVARIANT FocusHonest
PROPERTY CallsReturn
