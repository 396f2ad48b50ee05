CONSTANTS
  Behaviors = {"WgslRuntime", "WgslConstFn", "WgslConst", "WgslOverride", "GlslConst", "GlslRuntime"}
  GlobalInit <- MCGlobalInit
  ConstInit <- MCConstInit
  Overrides = {"o"}
  Literals <- MCLiterals
  Ops <- AllOps
  IntBits = 4
  MaxGlobal = 40
  MaxLocal = 40
  MaxCalls = 3
INIT Init
NEXT Next
INVARIANTS
  TypeOK
  FoldPreservesValue
  TrackerSound
  
CHECK_DEADLOCK FALSE
