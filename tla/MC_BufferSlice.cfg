\* Three-bit addresses (u64::MAX is 7): a buffer of the largest size, where
\* every bound at the top of the range overflows, and a smaller one.
CONSTANTS
  W = 3
  BufSizes = {5, 7}
SPECIFICATION Spec
INVARIANTS
  TypeOK
  SliceWithinParent
  SliceIsRangeWritten
  ReleaseAcceptsOnlyWrappedStart
\* A panic ends the program's slicing calls: a final state.
CHECK_DEADLOCK FALSE
