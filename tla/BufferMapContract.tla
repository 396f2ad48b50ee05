-------------------------- MODULE BufferMapContract --------------------------
(* What wgpu's MapContext promises (src/wgpu/src/api/buffer.rs, the doc     *)
(* comments of MapContext and BufferSlice::get_mapped_range): a buffer is   *)
(* mapped over one range at a time; every outstanding view lies inside the  *)
(* mapped range; no two views overlap, mutable or not; a buffer can only be *)
(* unmapped when no view remains.  Ranges are pairs <<offset, end>>.        *)
EXTENDS Integers

CONSTANTS
  Threads,  \* threads that hold views
  Size      \* the buffer's size in bytes

VARIABLES
  mapped,   \* the mapped range, or NoRange
  held      \* held[t]: the ranges of the views thread t holds

vars == <<mapped, held>>

NoRange == <<0, 0>>

Ranges == {r \in (0 .. Size - 1) \X (1 .. Size) : r[1] < r[2]}

Inside(r, outer) == outer[1] <= r[1] /\ r[2] <= outer[2]

Apart(r, q) == r[2] <= q[1] \/ r[1] >= q[2]

Init ==
  /\ mapped \in {NoRange, <<0, Size>>}
  /\ held = [t \in Threads |-> {}]

Map(r) ==
  /\ mapped = NoRange
  /\ mapped' = r
  /\ UNCHANGED held

Acquire(t, r) ==
  /\ Inside(r, mapped)
  /\ \A u \in Threads : \A q \in held[u] : Apart(r, q)
  /\ held' = [held EXCEPT ![t] = @ \cup {r}]
  /\ UNCHANGED mapped

Release(t, r) ==
  /\ r \in held[t]
  /\ held' = [held EXCEPT ![t] = @ \ {r}]
  /\ UNCHANGED mapped

Unmap ==
  /\ \A t \in Threads : held[t] = {}
  /\ mapped' = NoRange
  /\ UNCHANGED held

Next ==
  \/ \E r \in Ranges : Map(r)
  \/ \E t \in Threads, r \in Ranges : Acquire(t, r) \/ Release(t, r)
  \/ Unmap

Spec == Init /\ [][Next]_vars
=============================================================================
