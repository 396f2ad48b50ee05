---------------------------- MODULE MC_LiteralOps ----------------------------
(* LiteralOps for TLC, its constants given by a cfg or by MC_LiteralWidths, *)
(* with the operator and builtin sets the cfgs name.                       *)
EXTENDS LiteralOps

ArithOps == Comparisons \cup Arith \cup Bits \cup Shifts \cup {"LogicalAnd", "LogicalOr"}

TableMath == {"Abs", "Min", "Max", "Clamp", "Sign"}

=============================================================================
