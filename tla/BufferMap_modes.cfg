\* Two threads share a buffer of three units; in one set of behaviours a
\* panic unwinds one thread, in the other it aborts the process.
CONSTANTS
  Threads = {t1, t2}
  Size = 3
SPECIFICATION FairSpec
INVARIANTS
  TypeOK
  NoAliasing
  ContextTracksViews
  ViewsWithinMapped
PROPERTY
  ImplementsContract
  MapSettles
