--------------------------- MODULE MC_ConstEval ---------------------------
(* Instances of ConstEval for TLC: a global arena holding a scalar, a      *)
(* vector Compose and a Splat constant, and a handful of literals.         *)
EXTENDS ConstEval, TLC

MCGlobalInit ==
  << Node("Literal", Lit("i32", 1), <<>>),
     Node("Compose", VecTy("i32"), <<1, 1>>),
     Node("Splat", 2, <<1>>) >>

MCConstInit == ("c_one" :> 1) @@ ("c_vec" :> 2) @@ ("c_splat" :> 3)

MCLiterals == {Lit("i32", 1), Lit("i32", -8), Lit("i64", 1), Lit("bool", TRUE)}

AllOps == {"Literal", "ZeroValue", "Constant", "Override", "FunctionArgument", "Compose",
           "Splat", "AccessIndex", "Unary", "Binary", "Math"}
=============================================================================
