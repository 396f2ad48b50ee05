CONSTANTS
  W32 = 4
  W64 = 5
  Lane = 1
  BinKinds = {"i32", "u32", "abstract_int", "bool"}
  CastKinds = {"i32", "u32", "i64", "u64", "abstract_int", "bool"}
  UnaryKinds = {"i32", "u32", "i64", "u64", "abstract_int", "bool"}
  BinOps <- ArithOps
  MathFuns <- TableMath
  MathKinds = {"i32", "u32", "abstract_int", "i64"}
  DotFuns = {}
  VecSizes = {}
  NestedSelect = FALSE
INIT Init
NEXT Next

INVARIANT ShiftPastWidthRejected
