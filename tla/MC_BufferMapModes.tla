-------------------------- MODULE MC_BufferMapModes --------------------------
(* BufferMap under both panic strategies in one run.  An initial choice of *)
(* `mode` fixes, for the whole behaviour, whether a panic unwinds its own  *)
(* thread (Unwind = TRUE) or aborts the process (Unwind = FALSE).          *)
EXTENDS TLC

CONSTANTS Threads, Size

VARIABLES
  mode,  \* "unwind" or "abort"
  initial_range, sub_ranges, inner, pc, slice, views, leaked, halted

vars == <<mode, initial_range, sub_ranges, inner, pc, slice, views, leaked, halted>>

U == INSTANCE BufferMap WITH Unwind <- TRUE
A == INSTANCE BufferMap WITH Unwind <- FALSE

Init == mode \in {"unwind", "abort"} /\ U!Init

Next ==
  /\ UNCHANGED mode
  /\ \/ mode = "unwind" /\ U!Next
     \/ mode = "abort" /\ A!Next

(* BufferMap's fairness: the application polls, and a thread inside       *)
(* Buffer::unmap finishes it.                                              *)
FairSpec ==
  Init /\ [][Next]_vars
    /\ WF_vars(UNCHANGED mode /\ U!Poll)
    /\ \A t \in Threads : /\ WF_vars(UNCHANGED mode /\ mode = "unwind" /\ U!InnerUnmap(t))
                         /\ WF_vars(UNCHANGED mode /\ mode = "abort" /\ A!InnerUnmap(t))

(* Each property is BufferMap's, in the modes where the code promises it;  *)
(* BufferMap states what each one says of the code.                        *)

TypeOK == mode \in {"unwind", "abort"} /\ U!TypeOK

(* No two views that threads own overlap, in either mode. *)
NoAliasing == U!NoAliasing

(* sub_ranges records exactly the outstanding, in-flight and leaked ranges, *)
(* in either mode.                                                          *)
ContextTracksViews == U!ContextTracksViews

(* With abort on panic, every view lies inside initial_range. *)
ViewsWithinMapped == mode = "abort" => A!ViewsWithinMapped

(* With abort on panic, the detailed steps implement the MapContext        *)
(* contract; the behaviours that unwind are mapped to a contract that      *)
(* never changes.                                                          *)
Contract == INSTANCE BufferMapContract WITH
  mapped <- IF mode = "abort" THEN initial_range ELSE A!NotMapped,
  held <- IF mode = "abort" THEN A!ContractHeld ELSE [t \in Threads |-> {}]

ImplementsContract == Contract!Spec

(* With abort on panic, every started map settles. *)
MapSettles == mode = "abort" /\ inner = "pending" ~> A!Settled
================================================================================
