CONSTANTS
  Behaviors = {"WgslRuntime", "WgslConstFn"}
  GlobalInit <- MCGlobalInit
  ConstInit <- MCConstInit
  Overrides = {"o"}
  Literals <- MCLiterals
  Ops <- AllOps
  IntBits = 4
  MaxGlobal = 3
  MaxLocal = 40
  MaxCalls = 2
INIT Init
NEXT Next
INVARIANT
  ConstOperandsConst
CHECK_DEADLOCK FALSE
