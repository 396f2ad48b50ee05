\* Two threads, abort on panic: unmap racing map_async and get_mapped_range.
CONSTANTS
  Threads = {t1, t2}
  Size = 3
  Unwind = FALSE
SPECIFICATION Spec
INVARIANT ViewImpliesInnerMapped
