------------------------------ MODULE BufferMap ------------------------------
(* wgpu's buffer mapping (src/wgpu/src/api/buffer.rs).  A Buffer is Send +  *)
(* Sync and Clone, so several threads share its Arc<Mutex<MapContext>>.    *)
(* Each MapContext method runs under the mutex and is one step here.        *)
(* map_async keeps the guard `mc` alive across inner.map_async, so that is  *)
(* one step too.  unmap and get_mapped_range drop the guard before they     *)
(* call into `inner`, so each of them is two steps, and other threads can   *)
(* run in between.  `inner`, the backend buffer, is not in this repository; *)
(* it is modelled from the documentation as unmapped, pending (a map_async  *)
(* awaiting the device poll), mapped or destroyed.  A failed assert is a    *)
(* panic.  When Unwind is TRUE the panic unwinds its own thread: the mutex  *)
(* guard is dropped, the thread's caller (catch_unwind) goes on, and so do  *)
(* the other threads.  When Unwind is FALSE the panic aborts the process.   *)
(* Ranges are pairs <<offset, end>> in MAP_ALIGNMENT units.                 *)
EXTENDS Integers, Sequences, FiniteSets, Functions

CONSTANTS
  Threads,  \* threads sharing one Buffer
  Size,     \* the buffer's size
  Unwind    \* does a panic unwind one thread (TRUE) or abort (FALSE)?

VARIABLES
  initial_range,  \* MapContext.initial_range
  sub_ranges,     \* MapContext.sub_ranges, a Vec in its order
  inner,          \* the backend buffer: "unmapped", "pending", "mapped" or "destroyed"
  pc,             \* pc[t]: "idle", "adding" (add done, inner call not yet)
                  \* or "unmapping" (reset done, inner.unmap not yet)
  slice,          \* slice[t]: the range of t's get_mapped_range in progress
  views,          \* views[t]: ranges of the BufferView(Mut)s t owns
  leaked,         \* ranges recorded by add whose view was never built
  halted          \* the process aborted on a panic

vars == <<initial_range, sub_ranges, inner, pc, slice, views, leaked, halted>>

NotMapped == <<0, 0>>

(* The slices BufferSlice can denote: range_to_offset_size rejects an empty *)
(* range and check_buffer_bounds one that does not fit in the buffer.       *)
Slices == {r \in (0 .. Size - 1) \X (1 .. Size) : r[1] < r[2]}

(* add's first assert: the slice lies inside the mapped range. *)
Within(r, range) == range[1] <= r[1] /\ r[2] <= range[2]

(* add's loop: the slice ends before sub or starts after it. *)
Disjoint(r, sub) == r[2] <= sub[1] \/ r[1] >= sub[2]

(* The first index whose range equals r: Iterator::position. *)
Position(s, r) ==
  CHOOSE i \in DOMAIN s : s[i] = r /\ \A j \in 1 .. i - 1 : s[j] # r

(* Mutant: pop the last range instead of the one found. *)
SwapRemovePop(s, i) == SubSeq(s, 1, Len(s) - 1)

(* Vec::swap_remove: the last element takes index i. *)
SwapRemove(s, i) == SubSeq([s EXCEPT ![i] = s[Len(s)]], 1, Len(s) - 1)

(* A buffer starts unmapped (MapContext::new), or, when created with       *)
(* mapped_at_creation, mapped over its whole size.                         *)
Init ==
  /\ \/ initial_range = NotMapped /\ inner = "unmapped"
     \/ initial_range = <<0, Size>> /\ inner = "mapped"
  /\ sub_ranges = <<>>
  /\ pc = [t \in Threads |-> "idle"]
  /\ slice = [t \in Threads |-> NotMapped]
  /\ views = [t \in Threads |-> {}]
  /\ leaked = {}
  /\ halted = FALSE

(* A panic that aborts: the process stops and nothing more happens. *)
Abort ==
  /\ ~Unwind
  /\ halted' = TRUE
  /\ UNCHANGED <<initial_range, sub_ranges, inner, pc, slice, views, leaked>>

Idle(t) == ~halted /\ pc[t] = "idle"

(* inner.map_async: the backend starts a map only of an unmapped buffer;    *)
(* otherwise it reports an error and changes nothing.                       *)
InnerMapAsync == IF inner = "unmapped" THEN "pending" ELSE inner

(* BufferSlice::map_async, under the lock throughout.  A failed assert     *)
(* that unwinds changes nothing, so only its abort is a step.  The error   *)
(* of a rejected inner.map_async goes to the callback, or to the           *)
(* uncaptured-error handler, whose default panics after initial_range was *)
(* set; an unwinding panic then leaves the same state as the callback.     *)
MapAsync(t, s) ==
  /\ Idle(t)
  /\ \/ /\ initial_range = NotMapped
        /\ initial_range' = s
        /\ inner' = InnerMapAsync
        /\ UNCHANGED <<sub_ranges, pc, slice, views, leaked, halted>>
     \/ /\ initial_range = NotMapped
        /\ inner # "unmapped"
        /\ Abort
     \/ /\ initial_range # NotMapped
        /\ Abort

(* A device poll completes the pending map: the callback gets Ok. *)
Poll ==
  /\ ~halted
  /\ inner = "pending"
  /\ inner' = "mapped"
  /\ UNCHANGED <<initial_range, sub_ranges, pc, slice, views, leaked, halted>>

(* Mutants of add: no overlap loop; no bounds assert; the range pushed as *)
(* offset..size instead of offset..end.                                   *)
AddNoOverlapCheck(t, s) ==
  /\ Idle(t)
  /\ Within(s, initial_range)
  /\ sub_ranges' = Append(sub_ranges, s)
  /\ pc' = [pc EXCEPT ![t] = "adding"]
  /\ slice' = [slice EXCEPT ![t] = s]
  /\ UNCHANGED <<initial_range, inner, views, leaked, halted>>

AddNoBoundsCheck(t, s) ==
  /\ Idle(t)
  /\ \A i \in DOMAIN sub_ranges : Disjoint(s, sub_ranges[i])
  /\ sub_ranges' = Append(sub_ranges, s)
  /\ pc' = [pc EXCEPT ![t] = "adding"]
  /\ slice' = [slice EXCEPT ![t] = s]
  /\ UNCHANGED <<initial_range, inner, views, leaked, halted>>

AddPushSize(t, s) ==
  /\ Idle(t)
  /\ Within(s, initial_range)
  /\ \A i \in DOMAIN sub_ranges : Disjoint(s, sub_ranges[i])
  /\ sub_ranges' = Append(sub_ranges, <<s[1], s[2] - s[1]>>)
  /\ pc' = [pc EXCEPT ![t] = "adding"]
  /\ slice' = [slice EXCEPT ![t] = s]
  /\ UNCHANGED <<initial_range, inner, views, leaked, halted>>

(* get_mapped_range(_mut), first statement: lock().add(offset, size). *)
Add(t, s) ==
  /\ Idle(t)
  /\ \/ /\ Within(s, initial_range)
        /\ \A i \in DOMAIN sub_ranges : Disjoint(s, sub_ranges[i])
        /\ sub_ranges' = Append(sub_ranges, s)
        /\ pc' = [pc EXCEPT ![t] = "adding"]
        /\ slice' = [slice EXCEPT ![t] = s]
        /\ UNCHANGED <<initial_range, inner, views, leaked, halted>>
     \/ /\ ~Within(s, initial_range)
          \/ \E i \in DOMAIN sub_ranges : ~Disjoint(s, sub_ranges[i])
        /\ Abort

(* get_mapped_range(_mut), second statement, after the lock is dropped:    *)
(* inner.get_mapped_range.  It succeeds on a mapped buffer and the view is *)
(* built; otherwise it panics after add, and no view exists to remove the  *)
(* range again.                                                            *)
GetInnerRange(t) ==
  /\ ~halted
  /\ pc[t] = "adding"
  /\ \/ /\ inner = "mapped"
        /\ views' = [views EXCEPT ![t] = @ \cup {slice[t]}]
        /\ pc' = [pc EXCEPT ![t] = "idle"]
        /\ UNCHANGED <<initial_range, sub_ranges, inner, slice, leaked, halted>>
     \/ /\ inner # "mapped"
        /\ \/ /\ Unwind
              /\ leaked' = leaked \cup {slice[t]}
              /\ pc' = [pc EXCEPT ![t] = "idle"]
              /\ UNCHANGED <<initial_range, sub_ranges, inner, slice, views, halted>>
           \/ Abort

(* Drop of BufferView(Mut): lock().remove(offset, size). *)
DropView(t, v) ==
  /\ ~halted
  /\ v \in views[t]
  /\ sub_ranges' = SwapRemove(sub_ranges, Position(sub_ranges, v))
  /\ views' = [views EXCEPT ![t] = @ \ {v}]
  /\ UNCHANGED <<initial_range, inner, pc, slice, leaked, halted>>

(* Mutant: unmap resets the context and returns without inner.unmap. *)
UnmapResetOnly(t) ==
  /\ Idle(t)
  /\ sub_ranges = <<>>
  /\ initial_range' = NotMapped
  /\ UNCHANGED <<sub_ranges, inner, pc, slice, views, leaked, halted>>

(* Mutant: reset without its assert. *)
UnmapNoAssert(t) ==
  /\ Idle(t)
  /\ initial_range' = NotMapped
  /\ pc' = [pc EXCEPT ![t] = "unmapping"]
  /\ UNCHANGED <<sub_ranges, inner, slice, views, leaked, halted>>

(* Buffer::unmap, first statement: lock().reset().  reset clears the range *)
(* before it asserts that no view is outstanding, so an unwinding panic    *)
(* leaves the range cleared and inner.unmap never called.                  *)
Unmap(t) ==
  /\ Idle(t)
  /\ \/ /\ sub_ranges = <<>>
        /\ initial_range' = NotMapped
        /\ pc' = [pc EXCEPT ![t] = "unmapping"]
        /\ UNCHANGED <<sub_ranges, inner, slice, views, leaked, halted>>
     \/ /\ sub_ranges # <<>>
        /\ \/ /\ Unwind
              /\ initial_range' = NotMapped
              /\ UNCHANGED <<sub_ranges, inner, pc, slice, views, leaked, halted>>
           \/ Abort

(* Buffer::unmap, second statement: inner.unmap, after the lock is dropped. *)
(* A pending map is cancelled (its callback gets an error).                *)
InnerUnmap(t) ==
  /\ ~halted
  /\ pc[t] = "unmapping"
  /\ inner' = IF inner = "destroyed" THEN inner ELSE "unmapped"
  /\ pc' = [pc EXCEPT ![t] = "idle"]
  /\ UNCHANGED <<initial_range, sub_ranges, slice, views, leaked, halted>>

(* Buffer::destroy: inner.destroy(), without the MapContext lock.  The     *)
(* backend cancels a pending map (its callback gets an error) and unmaps a *)
(* mapped buffer; the buffer stays destroyed.  The MapContext keeps its     *)
(* range and sub-ranges, and views already handed out stay alive.           *)
Destroy(t) ==
  /\ Idle(t)
  /\ inner' = "destroyed"
  /\ UNCHANGED <<initial_range, sub_ranges, pc, slice, views, leaked, halted>>

(* After an abort the process is gone: the behaviour stutters. *)
Halted == halted /\ UNCHANGED vars

Next ==
  \/ \E t \in Threads, s \in Slices : MapAsync(t, s) \/ Add(t, s)
  \/ \E t \in Threads : GetInnerRange(t) \/ Unmap(t) \/ InnerUnmap(t) \/ Destroy(t)
  \/ \E t \in Threads : \E v \in views[t] : DropView(t, v)
  \/ Poll
  \/ Halted

Spec == Init /\ [][Next]_vars

(* The application polls the device (the map_async documentation requires *)
(* queue.submit, instance.poll_all or device.poll to be called for the     *)
(* callback to complete), and a thread between the two statements of      *)
(* Buffer::unmap goes on to the second.                                   *)
FairSpec == Spec /\ WF_vars(Poll) /\ \A t \in Threads : WF_vars(InnerUnmap(t))

------------------------------------------------------------------------------
(* Properties *)

AllViews == UNION {views[t] : t \in Threads}

InFlight == {slice[t] : t \in {u \in Threads : pc[u] = "adding"}}

TypeOK ==
  /\ initial_range \in Slices \cup {NotMapped}
  /\ sub_ranges \in Seq(Slices)
  /\ inner \in {"unmapped", "pending", "mapped", "destroyed"}
  /\ pc \in [Threads -> {"idle", "adding", "unmapping"}]
  /\ slice \in [Threads -> Slices \cup {NotMapped}]
  /\ views \in [Threads -> SUBSET Slices]
  /\ leaked \subseteq Slices
  /\ halted \in BOOLEAN

(* No two views that threads own overlap, whichever threads own them: the  *)
(* check in MapContext::add is the only thing that keeps `&mut [u8]` views *)
(* from aliasing (its comment), across interleaved get_mapped_range,       *)
(* drops, unmaps and panics.                                               *)
NoAliasing ==
  \A t, u \in Threads : \A v \in views[t], w \in views[u] :
    <<t, v>> # <<u, w>> => Disjoint(v, w)

(* MapContext.sub_ranges records each outstanding range exactly once: the  *)
(* views threads own, the adds whose view is not built yet, and the ranges *)
(* leaked by a panic in inner.get_mapped_range, and nothing else; so the   *)
(* `expect` in remove never fires when a view is dropped.                  *)
ContextTracksViews ==
  /\ IsInjective(sub_ranges)
  /\ Range(sub_ranges) = AllViews \cup InFlight \cup leaked
  /\ \A t, u \in Threads : t # u => views[t] \cap views[u] = {}

(* A map the backend has started settles into a state the wrapper and the *)
(* backend agree on: the callback runs and the buffer is mapped over a     *)
(* range the MapContext records, or an unmap or destroy cancels it, or the *)
(* process aborts.  It takes unmap's second statement to bring the backend *)
(* in line with a reset MapContext.                                        *)
Settled ==
  halted \/ inner \in {"unmapped", "destroyed"} \/ (inner = "mapped" /\ initial_range # NotMapped)

MapSettles == inner = "pending" ~> Settled

(* The MapContext comment: every outstanding view lies inside             *)
(* initial_range.                                                          *)
ViewsWithinMapped ==
  \A v \in AllViews \cup InFlight : Within(v, initial_range)

(* The Buffer documentation: "at all times, either the GPU or the CPU has  *)
(* exclusive access to the contents of the buffer"; while a thread owns a  *)
(* view, the GPU has no access: the backend buffer is mapped (or          *)
(* destroyed, when neither side uses it any more).                         *)
ViewImpliesInnerMapped ==
  AllViews # {} => inner \in {"mapped", "destroyed"}

(* The detailed steps implement the MapContext contract: initial_range is  *)
(* the mapped range, and a thread holds a view from its add on.            *)
ContractHeld ==
  [t \in Threads |-> views[t] \cup (IF pc[t] = "adding" THEN {slice[t]} ELSE {})]

Contract == INSTANCE BufferMapContract WITH mapped <- initial_range, held <- ContractHeld

ImplementsContract == Contract!Spec
=============================================================================
