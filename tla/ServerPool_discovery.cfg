\* Tool discovery: one session asks for two servers at once, in the default modes.
SPECIFICATION Spec
CONSTANTS
  Sessions = {s}
  Servers = {x, y}
  Clients = {c1, c2}
  Objects = {o1}
  Calls = {k1, k2}
  MaxWarm = 1
  Lazy = TRUE
  SingleActive = TRUE
  MayCrash = FALSE
  Overlap = TRUE
  None = None
INVARIANT OneServer
