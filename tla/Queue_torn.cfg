\* Two threads write a buffer of two units through one queue, up to three
\* writes.  A panic ends its thread, so a run may stop when both threads
\* have panicked.
CONSTANTS
  Threads = {t1, t2}
  Size = 2
  MaxWrites = 3
SPECIFICATION Spec
SYMMETRY ThreadSymmetry
INVARIANT
  NoTornData
CHECK_DEADLOCK FALSE
