CONSTANTS
  W32 = 4
  W64 = 5
  Lane = 1
  BinKinds = {}
  CastKinds = {}
  UnaryKinds = {"i32", "u32", "i64", "u64", "abstract_int", "bool"}
  BinOps = {}
  MathFuns = {}
  MathKinds = {}
  DotFuns = {}
  VecSizes = {4}
  NestedSelect = TRUE
INIT Init
NEXT Next
INVARIANT SelectAcceptsNestedOperands
