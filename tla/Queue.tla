-------------------------------- MODULE Queue --------------------------------
(* wgpu's buffer writes through a Queue (src/wgpu/src/api/queue.rs).  A    *)
(* Queue and a Buffer are Send + Sync, so several threads write one buffer *)
(* through one queue.  Queue::write_buffer hands the data to the backend   *)
(* at once.  Queue::write_buffer_with validates the range and allocates a  *)
(* staging buffer, returning None if either fails, and otherwise a         *)
(* QueueWriteBufferView that the thread fills and whose Drop hands the     *)
(* staging buffer to the backend (write_staging_buffer).  The backend (not *)
(* in this repository; modelled from the documentation of write_buffer and *)
(* write_buffer_with) keeps the handed-over writes in order and executes    *)
(* them on the next Queue::submit, before the submitted commands.  A panic *)
(* while a thread holds a view unwinds that thread, and unwinding drops    *)
(* the view.  Ranges are offsets and sizes in COPY_BUFFER_ALIGNMENT units;  *)
(* a write's data is its id, and `whole` tells whether the thread finished *)
(* filling it.                                                             *)
EXTENDS Integers, Sequences, SequencesExt

CONSTANTS
  Threads,    \* threads sharing the Queue and the Buffer
  Size,       \* the buffer's size
  MaxWrites   \* bound on the writes the threads start

ASSUME Size \in Nat \ {0} /\ MaxWrites \in Nat

VARIABLES
  pc,        \* pc[t]: "idle", "holding" (owns a view) or "panicked"
  view,      \* view[t]: t's QueueWriteBufferView (offset, size, id, filled)
  staged,    \* the backend's pending writes, in the order handed over
  contents,  \* contents[c]: the write whose data cell c holds on the GPU
  nextId,    \* the id of the next write started
  finished,  \* history: the writes in the order the program finished them
  flushed    \* history: how many of them were finished at the last submit

vars == <<pc, view, staged, contents, nextId, finished, flushed>>

Cells == 0 .. Size - 1
Ids == 0 .. MaxWrites
NoView == [offset |-> 0, size |-> 0, id |-> 0, filled |-> FALSE]
Initial == [id |-> 0, whole |-> TRUE]      \* the buffer's contents at creation

(* A write handed to the backend: its range, its data and whether that    *)
(* data is the whole of what the thread meant to write.                   *)
Write(offset, size, id, whole) ==
  [offset |-> offset, size |-> size, id |-> id, whole |-> whole]

Covers(w, c) == w.offset <= c /\ c < w.offset + w.size

(* The backend's validation of a write range (validate_write_buffer, and  *)
(* the same check inside write_buffer): it lies inside the buffer.        *)
InBounds(offset, size) == offset + size <= Size

Init ==
  /\ pc = [t \in Threads |-> "idle"]
  /\ view = [t \in Threads |-> NoView]
  /\ staged = <<>>
  /\ contents = [c \in Cells |-> Initial]
  /\ nextId = 1
  /\ finished = <<>>
  /\ flushed = 0

Idle(t) == pc[t] = "idle"

(* Queue::write_buffer: the data is copied into staging memory and handed  *)
(* over at once; a range outside the buffer is a validation error and     *)
(* nothing is written.                                                     *)
WriteBuffer(t, offset, size) ==
  /\ Idle(t)
  /\ nextId <= MaxWrites
  /\ nextId' = nextId + 1
  /\ IF InBounds(offset, size)
       THEN LET w == Write(offset, size, nextId, TRUE)
            IN /\ staged' = Append(staged, w)
               /\ finished' = Append(finished, w)
       ELSE UNCHANGED <<staged, finished>>
  /\ UNCHANGED <<pc, view, contents, flushed>>

(* Mutant: the write handed over when the view is created, as if          *)
(* write_buffer_with copied the (unfilled) staging buffer at once.        *)
WriteBufferWithEager(t, offset, size) ==
  /\ Idle(t)
  /\ nextId <= MaxWrites
  /\ nextId' = nextId + 1
  /\ \/ /\ InBounds(offset, size)
        /\ pc' = [pc EXCEPT ![t] = "holding"]
        /\ view' = [view EXCEPT ![t] = [offset |-> offset, size |-> size, id |-> nextId, filled |-> FALSE]]
        /\ staged' = Append(staged, Write(offset, size, nextId, FALSE))
     \/ UNCHANGED <<pc, view, staged>>
  /\ UNCHANGED <<contents, finished, flushed>>

(* Mutant: without the validate_write_buffer(..)? early return. *)
WriteBufferWithUnchecked(t, offset, size) ==
  /\ Idle(t)
  /\ nextId <= MaxWrites
  /\ nextId' = nextId + 1
  /\ \/ /\ pc' = [pc EXCEPT ![t] = "holding"]
        /\ view' = [view EXCEPT ![t] = [offset |-> offset, size |-> size, id |-> nextId, filled |-> FALSE]]
     \/ UNCHANGED <<pc, view>>
  /\ UNCHANGED <<staged, contents, finished, flushed>>

(* Queue::write_buffer_with: validate_write_buffer(..)? and              *)
(* create_staging_buffer(size)? return None (an out-of-bounds range, or a *)
(* failed allocation); otherwise the thread holds a view of `size` units  *)
(* for `offset`.                                                           *)
WriteBufferWith(t, offset, size) ==
  /\ Idle(t)
  /\ nextId <= MaxWrites
  /\ nextId' = nextId + 1
  /\ \/ /\ InBounds(offset, size)
        /\ pc' = [pc EXCEPT ![t] = "holding"]
        /\ view' = [view EXCEPT ![t] = [offset |-> offset, size |-> size, id |-> nextId, filled |-> FALSE]]
     \/ UNCHANGED <<pc, view>>
  /\ UNCHANGED <<staged, contents, finished, flushed>>

(* The thread writes its data through DerefMut / AsMut. *)
Fill(t) ==
  /\ pc[t] = "holding"
  /\ ~view[t].filled
  /\ view' = [view EXCEPT ![t].filled = TRUE]
  /\ UNCHANGED <<pc, staged, contents, nextId, finished, flushed>>

(* Drop for QueueWriteBufferView: write_staging_buffer(buffer, offset,    *)
(* staging) hands the view's contents, as they are, to the backend.       *)
DropStaging(t) ==
  LET w == Write(view[t].offset, view[t].size, view[t].id, view[t].filled)
  IN /\ staged' = Append(staged, w)
     /\ finished' = Append(finished, w)
     /\ view' = [view EXCEPT ![t] = NoView]

(* The view goes out of scope once the thread has filled it. *)
DropView(t) ==
  /\ pc[t] = "holding"
  /\ view[t].filled
  /\ DropStaging(t)
  /\ pc' = [pc EXCEPT ![t] = "idle"]
  /\ UNCHANGED <<contents, nextId, flushed>>

(* A panic while the thread holds a view, filled or not: unwinding runs   *)
(* the view's Drop, and the thread ends.                                   *)
Panic(t) ==
  /\ pc[t] = "holding"
  /\ DropStaging(t)
  /\ pc' = [pc EXCEPT ![t] = "panicked"]
  /\ UNCHANGED <<contents, nextId, flushed>>

(* One pending write executed on the GPU. *)
Execute(cs, w) ==
  [c \in Cells |-> IF Covers(w, c) THEN [id |-> w.id, whole |-> w.whole] ELSE cs[c]]

(* Queue::submit (with no command buffers, or commands that do not touch  *)
(* the buffer): the backend executes the pending writes in order.         *)
Submit(t) ==
  /\ Idle(t)
  /\ contents' = FoldLeft(Execute, contents, staged)
  /\ staged' = <<>>
  /\ flushed' = Len(finished)
  /\ UNCHANGED <<pc, view, nextId, finished>>

Next ==
  \E t \in Threads :
    \/ \E offset \in Cells, size \in 1 .. Size :
         \/ WriteBuffer(t, offset, size)
         \/ WriteBufferWith(t, offset, size)
    \/ Fill(t)
    \/ DropView(t)
    \/ Panic(t)
    \/ Submit(t)

Spec == Init /\ [][Next]_vars

------------------------------------------------------------------------------
(* Properties. *)

Holding(t) == pc[t] = "holding"

TypeOK ==
  /\ pc \in [Threads -> {"idle", "holding", "panicked"}]
  /\ \A t \in Threads : Holding(t) <=> view[t] # NoView
  /\ \A t \in Threads : Holding(t) => view[t].id \in 1 .. nextId - 1 /\ InBounds(view[t].offset, view[t].size)
  /\ contents \in [Cells -> [id : Ids, whole : BOOLEAN]]
  /\ nextId \in 1 .. MaxWrites + 1
  /\ flushed \in 0 .. Len(finished)

(* The write that a cell should hold: the last write covering it among    *)
(* those the program had finished (write_buffer returned, view dropped)   *)
(* when the last submit ran.                                              *)
LastFinished(c) ==
  LET ws == SelectSeq(SubSeq(finished, 1, flushed), LAMBDA w : Covers(w, c))
  IN IF ws = <<>> THEN Initial ELSE [id |-> Last(ws).id, whole |-> Last(ws).whole]

(* The write_buffer(_with) documentation: writes begin on the next submit  *)
(* after write_buffer returns or the view is dropped.  So after every     *)
(* submit each cell holds the data of the write finished last before it,  *)
(* whatever order threads created, filled and dropped their views in, and *)
(* a view still alive at a submit has no effect on it.                    *)
WritesLandInFinishOrder ==
  \A c \in Cells : contents[c] = LastFinished(c)

(* Data a thread did not finish writing never reaches the buffer.  The    *)
(* Drop of QueueWriteBufferView hands the staging buffer over whatever    *)
(* state its contents are in, and unwinding runs that Drop.               *)
NoTornData ==
  \A c \in Cells : contents[c].whole
==============================================================================
