--------------------------- MODULE MC_LiteralWidths ---------------------------
(* LiteralOps at two widths in one run.  An initial choice of `width`      *)
(* fixes the instance for the whole behaviour: "narrow" has 4-bit          *)
(* "32-bit" and 5-bit "64-bit" integers for the operator, cast, vector and  *)
(* integer-math tables; "wide" has 8-bit "32-bit" integers in 2-bit lanes   *)
(* for the bit builtins and the packed dot products, whose signed lanes    *)
(* need at least two bits to tell sign extension from zero extension.      *)
EXTENDS Integers

VARIABLES
  width,  \* which instance this behaviour runs: "narrow" or "wide"
  last    \* the instance's last evaluated operation

Narrow == INSTANCE MC_LiteralOps WITH
  W32 <- 4, W64 <- 5, Lane <- 1,
  BinKinds <- {"i32", "u32", "abstract_int", "bool"},
  CastKinds <- {"i32", "u32", "i64", "u64", "abstract_int", "bool"},
  UnaryKinds <- {"i32", "u32", "i64", "u64", "abstract_int", "bool"},
  BinOps <- {"Less", "LessEqual", "Greater", "GreaterEqual", "Equal", "NotEqual",
             "Add", "Subtract", "Multiply", "Divide", "Modulo",
             "And", "ExclusiveOr", "InclusiveOr", "ShiftLeft", "ShiftRight",
             "LogicalAnd", "LogicalOr"},
  MathFuns <- {"Abs", "Min", "Max", "Clamp", "Sign"},
  MathKinds <- {"i32", "u32", "abstract_int", "i64"},
  DotFuns <- {}, VecSizes <- {2, 3, 4}, NestedSelect <- FALSE

Wide == INSTANCE MC_LiteralOps WITH
  W32 <- 8, W64 <- 9, Lane <- 2,
  BinKinds <- {}, CastKinds <- {}, UnaryKinds <- {}, BinOps <- {},
  MathFuns <- {"CountTrailingZeros", "CountLeadingZeros", "CountOneBits", "ReverseBits",
               "FirstTrailingBit", "FirstLeadingBit", "Abs", "Sign"},
  MathKinds <- {"i32", "u32"},
  DotFuns <- {"Dot4I8Packed", "Dot4U8Packed"}, VecSizes <- {}, NestedSelect <- FALSE

vars == <<width, last>>

Init ==
  \/ width = "narrow" /\ Narrow!Init
  \/ width = "wide" /\ Wide!Init

Next ==
  /\ UNCHANGED width
  /\ \/ width = "narrow" /\ Narrow!Next
     \/ width = "wide" /\ Wide!Next

Spec == Init /\ [][Next]_vars

(* Each property is the LiteralOps property of the instance the behaviour  *)
(* runs; LiteralOps states what each one says of the code.                 *)

TypeOK ==
  /\ width \in {"narrow", "wide"}
  /\ width = "narrow" => Narrow!TypeOK
  /\ width = "wide" => Wide!TypeOK

(* The binary_op literal table against its reference (narrow). *)
BinaryMatchesReference == width = "narrow" => Narrow!BinaryMatchesReference

(* The integer math builtins against their references, at both widths. *)
MathMatchesReference ==
  /\ width = "narrow" => Narrow!MathMatchesReference
  /\ width = "wide" => Wide!MathMatchesReference

(* The integer casts against the conversion rules (narrow). *)
CastMatchesConversionRules == width = "narrow" => Narrow!CastMatchesConversionRules

(* The vector forms of the operations against leafwise references (narrow). *)
VectorOpsMatchReference == width = "narrow" => Narrow!VectorOpsMatchReference

(* The unary_op literal table against its reference (narrow). *)
UnaryMatchesReference == width = "narrow" => Narrow!UnaryMatchesReference

(* packed_dot_product against the lane-by-lane reference (wide). *)
PackedDotMatchesReference == width = "wide" => Wide!PackedDotMatchesReference
================================================================================
