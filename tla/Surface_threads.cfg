\* Three threads share the surface; each may configure it, acquire a texture,
\* and present or drop it.  A panic ends its thread, so the model may stop.
CONSTANTS
  Threads = {t1, t2, t3}
  Configs = {c1, c2, c3}
  NoConfig = NoConfig
SPECIFICATION Spec
SYMMETRY SurfaceSymmetry
INVARIANTS
  TypeOK
PROPERTY
  ExpectFiresOnlyMidConfigure
CHECK_DEADLOCK FALSE
