\* Two threads share the surface: one may reconfigure while the other acquires.
CONSTANTS
  Threads = {t1, t2}
  Configs = {c1, c2}
  NoConfig = NoConfig
SPECIFICATION Spec
SYMMETRY SurfaceSymmetry
INVARIANTS
  DescriptorMatchesTexture
CHECK_DEADLOCK FALSE
