----------------------------- MODULE BufferSlice -----------------------------
(* How wgpu turns the bounds a program writes into a BufferSlice           *)
(* (src/wgpu/src/api/buffer.rs): Buffer::slice, and BufferSlice::slice for  *)
(* a slice of a slice.  Both run range_to_offset_size, which reads the      *)
(* RangeBounds into an offset and a non-zero size, and check_buffer_bounds, *)
(* which panics unless the slice fits.  Buffer::map_async and               *)
(* get_mapped_range(_mut) with bounds go through Buffer::slice too.         *)
(* BufferAddress is a u64, here a W-bit word.  The unchecked `+` and `-` of *)
(* range_to_offset_size and BufferSlice::slice panic on overflow in a build *)
(* with overflow checks and wrap in one without: `build` is that choice.    *)
(* A panic ends the program's sequence of slicing calls.                    *)
EXTENDS Integers

CONSTANTS
  W,         \* bits of a BufferAddress (64 in the code)
  BufSizes   \* sizes of the buffers the program slices

Word == 2^W
MaxAddr == Word - 1          \* u64::MAX

VARIABLES
  build,     \* "debug" (overflow checks) or "release" (wrapping)
  bufSize,   \* Buffer::size
  parent,    \* the slice being sliced: the whole buffer, or a BufferSlice
  bounds,    \* the RangeBounds of the last slice call
  cur,       \* the BufferSlice it returned (offset, size)
  panicked   \* the last slice call panicked

vars == <<build, bufSize, parent, bounds, cur, panicked>>

Builds == {"debug", "release"}
Addr == 0 .. MaxAddr

(* A Bound<&BufferAddress>: Included, Excluded or Unbounded. *)
BoundSet == [kind : {"incl", "excl"}, v : Addr] \cup {[kind |-> "unb", v |-> 0]}
RangeBoundsSet == [start : BoundSet, end : BoundSet]

NoSlice == [offset |-> 0, size |-> 0]
Panic == -1                                \* a u64 operation that panicked
PanicSlice == [offset |-> Panic, size |-> Panic]

(* u64 `+` and `-` as the build evaluates them. *)
WAdd(b, x, y) ==
  CASE x = Panic \/ y = Panic -> Panic
    [] x + y <= MaxAddr       -> x + y
    [] b = "debug"            -> Panic
    [] OTHER                  -> (x + y) % Word

(* Mutant: the difference taken as a signed number, negative when y > x. *)
WSubSigned(b, x, y) ==
  IF x = Panic \/ y = Panic THEN Panic ELSE x - y

WSub(b, x, y) ==
  CASE x = Panic \/ y = Panic -> Panic
    [] x >= y                 -> x - y
    [] b = "debug"            -> Panic
    [] OTHER                  -> (x + Word - y) % Word

(* Mutant: Included(bound) on the end read as bound - offset, as Excluded. *)
RangeToOffsetSizeInclusiveAsExcluded(b, r, whole) ==
  LET offset == CASE r.start.kind = "incl" -> r.start.v
                  [] r.start.kind = "excl" -> WAdd(b, r.start.v, 1)
                  [] OTHER                 -> 0
      size == CASE r.end.kind = "unb" -> WSub(b, whole, offset)
                [] OTHER              -> WSub(b, r.end.v, offset)
  IN IF offset = Panic \/ size \in {Panic, 0} THEN PanicSlice
     ELSE [offset |-> offset, size |-> size]

(* range_to_offset_size: the start bound gives the offset, the end bound  *)
(* the size; BufferSize::new(0) is None, and the expect panics.           *)
RangeToOffsetSize(b, r, whole) ==
  LET offset == CASE r.start.kind = "incl" -> r.start.v
                  [] r.start.kind = "excl" -> WAdd(b, r.start.v, 1)
                  [] OTHER                 -> 0
      size == CASE r.end.kind = "incl" -> WSub(b, WAdd(b, r.end.v, 1), offset)
                [] r.end.kind = "excl" -> WSub(b, r.end.v, offset)
                [] OTHER               -> WSub(b, whole, offset)
  IN IF offset = Panic \/ size \in {Panic, 0} THEN PanicSlice
     ELSE [offset |-> offset, size |-> size]

(* Mutant: the end is computed with a wrapping add, without checked_add. *)
CheckBufferBoundsWrapping(bufferSize, s) ==
  /\ s.offset < bufferSize
  /\ (s.offset + s.size) % Word <= bufferSize

(* check_buffer_bounds: the offset lies below the size, and checked_add   *)
(* of offset and size neither overflows nor passes the size.              *)
CheckBufferBounds(bufferSize, s) ==
  /\ s.offset < bufferSize
  /\ s.offset + s.size <= MaxAddr
  /\ s.offset + s.size <= bufferSize

(* One slice call on `whole` (a parent of offset base and that size). *)
SliceOf(b, r, base, whole) ==
  LET s == RangeToOffsetSize(b, r, whole)
  IN IF s = PanicSlice \/ ~CheckBufferBounds(whole, s) THEN PanicSlice
     ELSE IF WAdd(b, base, s.offset) = Panic THEN PanicSlice
     ELSE [offset |-> WAdd(b, base, s.offset), size |-> s.size]

(* A program holding a Buffer of one of the sizes, built either way. *)
Init ==
  /\ build \in Builds
  /\ bufSize \in BufSizes
  /\ parent = NoSlice
  /\ bounds = [start |-> [kind |-> "unb", v |-> 0], end |-> [kind |-> "unb", v |-> 0]]
  /\ cur = NoSlice
  /\ panicked = FALSE

Step(p, r, base, whole) ==
  LET s == SliceOf(build, r, base, whole)
  IN /\ parent' = p
     /\ bounds' = r
     /\ cur' = IF s = PanicSlice THEN NoSlice ELSE s
     /\ panicked' = (s = PanicSlice)
     /\ UNCHANGED <<build, bufSize>>

(* Buffer::slice(bounds): the parent is the whole buffer. *)
SliceBuffer(r) ==
  /\ ~panicked
  /\ Step([offset |-> 0, size |-> bufSize], r, 0, bufSize)

(* BufferSlice::slice(bounds) on the slice last returned: the result's    *)
(* offset is self.offset + offset.                                         *)
SubSlice(r) ==
  /\ ~panicked
  /\ cur # NoSlice
  /\ Step(cur, r, cur.offset, cur.size)

Next == \E r \in RangeBoundsSet : SliceBuffer(r) \/ SubSlice(r)

Spec == Init /\ [][Next]_vars

------------------------------------------------------------------------------
(* Properties. *)

TypeOK ==
  /\ build \in Builds
  /\ bufSize \in BufSizes
  /\ bounds \in RangeBoundsSet
  /\ {parent.offset, parent.size, cur.offset, cur.size} \subseteq Addr
  /\ panicked \in BOOLEAN

(* The range the bounds denote within the parent, in unbounded integers. *)
Lo(r) == CASE r.start.kind = "incl" -> r.start.v
           [] r.start.kind = "excl" -> r.start.v + 1
           [] OTHER                 -> 0
Hi(r, whole) == CASE r.end.kind = "incl" -> r.end.v + 1
                  [] r.end.kind = "excl" -> r.end.v
                  [] OTHER               -> whole
Fits(r, whole) == Lo(r) < Hi(r, whole) /\ Hi(r, whole) <= whole

(* Every BufferSlice that Buffer::slice or BufferSlice::slice returns, in  *)
(* either build, is non-empty and lies inside the slice it was taken from  *)
(* (so inside the buffer): the overflow check of check_buffer_bounds and   *)
(* the comment "check_buffer_bounds ensures this does not overflow" on     *)
(* self.offset + offset hold together for every bound at the edge of u64.  *)
SliceWithinParent ==
  cur # NoSlice =>
    /\ cur.size >= 1
    /\ parent.offset <= cur.offset
    /\ cur.offset + cur.size <= parent.offset + parent.size

(* The slice is the range written: bounds that denote a non-empty range   *)
(* inside the parent give exactly that slice in either build, and, in a   *)
(* build with overflow checks, bounds that do not panic.                  *)
SliceIsRangeWritten ==
  parent # NoSlice =>
    /\ Fits(bounds, parent.size) =>
         /\ ~panicked
         /\ cur = [offset |-> parent.offset + Lo(bounds), size |-> Hi(bounds, parent.size) - Lo(bounds)]
    /\ build = "debug" /\ ~Fits(bounds, parent.size) => panicked

(* A build without overflow checks accepts bounds that denote no range   *)
(* inside the parent in exactly one way: a start bound of Excluded(u64::  *)
(* MAX), whose `+ 1` wraps to offset 0.  Every other wrap (an inclusive   *)
(* end of u64::MAX, an end before the start, an offset past the parent)   *)
(* still ends in the panic of range_to_offset_size or check_buffer_bounds. *)
ReleaseAcceptsOnlyWrappedStart ==
  parent # NoSlice /\ ~panicked /\ ~Fits(bounds, parent.size) =>
    bounds.start = [kind |-> "excl", v |-> MaxAddr]

====
