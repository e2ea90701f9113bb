\* Eager and single-active mode; one call at a time, and crashes only between calls.
SPECIFICATION Spec
CONSTANTS
  Sessions = {s, t}
  Servers = {x, y}
  Clients = {c1, c2, c3, c4}
  Objects = {o1, o2}
  Calls = {k1, k2}
  MaxWarm = 1
  Lazy = FALSE
  SingleActive = TRUE
  MayCrash = TRUE
  Overlap = FALSE
  None = None
SYMMETRY BoundSymmetry
INVARIANTS NoSharing MarkHasWorker OneServer NoLeak
PROPERTY HandsOutOpen
