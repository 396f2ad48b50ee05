\* Two threads write a buffer of two units through one queue; three writes
\* let two views overlap while a write_buffer lands between them.  A panic
\* ends its thread, so a run may stop when both threads have panicked.
CONSTANTS
  Threads = {t1, t2}
  Size = 2
  MaxWrites = 3
SPECIFICATION Spec
SYMMETRY ThreadSymmetry
INVARIANTS
  TypeOK
  WritesLandInFinishOrder
CHECK_DEADLOCK FALSE
