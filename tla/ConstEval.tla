----------------------------- MODULE ConstEval -----------------------------
(***************************************************************************)
(* naga's constant evaluator (src/naga/src/proc/constant_evaluator.rs).    *)
(*                                                                         *)
(* A front-end hands `try_eval_and_append` one expression at a time, whose *)
(* operands are handles of earlier entries of the arena the evaluator      *)
(* writes to: the module's global expression arena (WGSL const / override  *)
(* context, GLSL const) or a function's expression arena (WGSL runtime or  *)
(* function-local const, GLSL runtime).  The ExpressionKindTracker keeps   *)
(* one ExpressionKind per entry.  An expression classified Const is folded *)
(* into a tree of Literal / Compose / ZeroValue / Splat entries, appended  *)
(* one `register_evaluated_expr` at a time; the rest is appended           *)
(* unevaluated or rejected, depending on the Behavior.                     *)
(*                                                                         *)
(* Data is abstracted to three scalar types (i32, i64, bool), scalars and  *)
(* 2-vectors, and the operators listed in `Inputs`; integers wrap at       *)
(* IntBits bits.  Types are values (the type arena interns them).          *)
(***************************************************************************)
EXTENDS Integers, Sequences, FiniteSets, SequencesExt

CONSTANTS
  Behaviors,    \* the Behavior variants the front-end uses in this run
  GlobalInit,   \* the global expression arena before this run
  ConstInit,    \* Constant -> handle of its initializer in GlobalInit
  Overrides,    \* pipeline-overridable constants (WGSL)
  Literals,     \* literal values a front-end hands in
  Ops,          \* expression variants a front-end hands in
  IntBits,      \* width of the integer scalar types in this model
  MaxGlobal,    \* bound on the length of the global arena
  MaxLocal,     \* bound on the length of the function arena
  MaxCalls      \* bound on the number of try_eval_and_append calls

VARIABLES
  gexprs,   \* module.global_expressions
  gkinds,   \* global ExpressionKindTracker
  lexprs,   \* function.expressions
  lkinds,   \* the function's ExpressionKindTracker
  emitter,  \* Emitter.start_len of the function: NoRun or an arena length
  block,    \* Emit ranges flushed into the function's block
  gheld,    \* global handles the front-end holds (results it was given)
  lheld,    \* function handles the front-end holds
  last,     \* history: the last try_eval_and_append call and its outcome
  calls     \* number of try_eval_and_append calls so far

vars == <<gexprs, gkinds, lexprs, lkinds, emitter, block, gheld, lheld, last, calls>>

NoRun == -1

-----------------------------------------------------------------------------
(* Expressions.  Every entry is [op, x, args]: x is the variant's payload   *)
(* (literal, type, size, operator, constant, index), args its operands.     *)

ScalarTy(s) == [k |-> "scalar", s |-> s]
VecTy(s) == [k |-> "vec", n |-> 2, s |-> s]
Lit(s, v) == [s |-> s, v |-> v]
Node(op, x, args) == [op |-> op, x |-> x, args |-> args]

IntTypes == {"i32", "i64"}
AllScalars == {"i32", "i64", "bool"}

GlobalBehaviors == {"WgslConst", "WgslOverride", "GlslConst"}
WgslBehaviors == {"WgslConst", "WgslConstFn", "WgslOverride", "WgslRuntime"}

\* ConstantEvaluator::is_global_arena
IsGlobalArena(b) == b \in GlobalBehaviors

\* Behavior::has_runtime_restrictions
HasRuntimeRestrictions(b) == b \in {"WgslRuntime", "GlslRuntime"}

\* Expression::needs_pre_emit
PreEmitOps == {"Literal", "Constant", "Override", "ZeroValue", "FunctionArgument"}

\* i32/i64 two's complement wrapping at IntBits bits
Wrap(v) == ((v + 2^(IntBits - 1)) % 2^IntBits) - 2^(IntBits - 1)

-----------------------------------------------------------------------------
(* ExpressionKindTracker                                                     *)

\* ExpressionKind's derived Ord (Const < Override < Runtime), as a max over a set
MaxKind(S) ==
  IF "Runtime" \in S THEN "Runtime" ELSE IF "Override" \in S THEN "Override" ELSE "Const"

\* ExpressionKindTracker::type_of_with_expr
TypeOfWithExpr(kd, n) ==
  CASE n.op \in {"Literal", "ZeroValue", "Constant"} -> "Const"
    [] n.op = "Override" -> "Override"
    [] n.op \in {"Compose", "Splat", "AccessIndex", "Unary", "Binary", "Math"} ->
         MaxKind({kd[a] : a \in ToSet(n.args)})
    [] OTHER -> "Runtime"

\* the tracker kd with the kind of a further entry n inserted
Tracked(kd, n) == Append(kd, TypeOfWithExpr(kd, n))

\* ExpressionKindTracker::from_arena
RECURSIVE FromArena(_)
FromArena(ar) ==
  IF ar = <<>> THEN <<>> ELSE Tracked(FromArena(Front(ar)), Last(ar))

-----------------------------------------------------------------------------
(* Evaluator state and results.  E is the arena the evaluator contributes   *)
(* to, its tracker, and (function arenas) the emitter and block; E.b is the *)
(* Behavior.  A result carries the state after the call, whether it is Ok,  *)
(* the handle, and the error.                                               *)

Ok(e, h) == [e |-> e, ok |-> TRUE, h |-> h, err |-> "none"]
Fail(e, x) == [e |-> e, ok |-> FALSE, h |-> 0, err |-> x]

\* fault variant of EmitFinish: the run ends one past the arena
EmitFinishPastEnd(start, len) ==
  IF start # len THEN <<[lo |-> start + 1, hi |-> len + 1]>> ELSE <<>>

\* Emitter::finish: the run [start+1 .. len] if it is not empty
EmitFinish(start, len) == IF start # len THEN <<[lo |-> start + 1, hi |-> len]>> ELSE <<>>

AppendExprNoInsert(e, n, kind) ==
  LET flush == ~IsGlobalArena(e.b) /\ e.em # NoRun /\ n.op \in PreEmitOps
  IN [e EXCEPT !.ar = Append(e.ar, n),
               !.blk = IF flush THEN e.blk \o EmitFinish(e.em, Len(e.ar)) ELSE e.blk,
               !.em = IF flush THEN Len(e.ar) + 1 ELSE e.em]

\* ConstantEvaluator::append_expr
AppendExpr(e, n, kind) ==
  LET flush == ~IsGlobalArena(e.b) /\ e.em # NoRun /\ n.op \in PreEmitOps
      ar == Append(e.ar, n)
  IN [e EXCEPT !.ar = ar,
               !.kd = Append(e.kd, kind),
               !.blk = IF flush THEN e.blk \o EmitFinish(e.em, Len(e.ar)) ELSE e.blk,
               !.em = IF flush THEN Len(ar) ELSE e.em]

\* AppendExpr followed by the handle it returns
Appended(e, n, kind) == Ok(AppendExpr(e, n, kind), Len(e.ar) + 1)

\* the type of a Constant (module.constants[c].ty), read off its initializer
RECURSIVE TypeOf(_, _)
ConstTy(c) == TypeOf(GlobalInit, ConstInit[c])

\* the front-end's typifier, used only to hand in well-typed expressions
TypeOf(ar, h) ==
  LET n == ar[h] IN
  CASE n.op = "Literal" -> ScalarTy(n.x.s)
    [] n.op \in {"ZeroValue", "Compose"} -> n.x
    [] n.op = "Splat" -> VecTy(TypeOf(ar, n.args[1]).s)
    [] n.op = "Constant" -> ConstTy(n.x)
    [] n.op \in {"Override", "FunctionArgument"} -> ScalarTy("i32")
    [] n.op = "AccessIndex" -> ScalarTy(TypeOf(ar, n.args[1]).s)
    [] n.op = "Binary" /\ n.x = "Equal" -> [TypeOf(ar, n.args[1]) EXCEPT !.s = "bool"]
    [] n.op = "Binary" -> IF TypeOf(ar, n.args[1]).k = "vec" THEN TypeOf(ar, n.args[1])
                                                            ELSE TypeOf(ar, n.args[2])
    [] n.op = "Math" /\ n.x = "Dot" -> ScalarTy(TypeOf(ar, n.args[1]).s)
    [] OTHER -> TypeOf(ar, n.args[1])

\* ConstantEvaluator::resolve_type, reduced to the component count that
\* vector_compose_flattened_size takes from it
ComponentCount(e, h) ==
  LET n == e.ar[h]
      size(t) == IF t.k = "scalar" THEN [ok |-> TRUE, n |-> 1, err |-> "none"]
                 ELSE [ok |-> TRUE, n |-> t.n, err |-> "none"]
  IN CASE n.op = "Literal" -> size(ScalarTy(n.x.s))
       [] n.op = "Constant" -> size(ConstTy(n.x))
       [] n.op \in {"ZeroValue", "Compose"} -> size(n.x)
       [] n.op = "Splat" /\ e.ar[n.args[1]].op = "Literal" -> size(VecTy("any"))
       [] n.op = "Splat" -> [ok |-> FALSE, n |-> 0, err |-> "SplatScalarOnly"]
       [] OTHER -> [ok |-> FALSE, n |-> 0, err |-> "SubexpressionsAreNotConstant"]

\* ConstantEvaluator::vector_compose_flattened_size: the components' sizes
\* summed in order, the first error returned (its try_fold)
RECURSIVE FlattenedSize(_, _)
AddSize(c, rest) == IF ~c.ok THEN c ELSE IF ~rest.ok THEN rest ELSE [c EXCEPT !.n = c.n + rest.n]
FlattenedSize(e, args) ==
  IF args = <<>> THEN [ok |-> TRUE, n |-> 0, err |-> "none"]
  ELSE AddSize(ComponentCount(e, Head(args)), FlattenedSize(e, Tail(args)))

\* ConstantEvaluator::register_evaluated_expr
Register(e, n) ==
  IF n.op = "Compose" /\ n.x.k = "vec"
  THEN LET fs == FlattenedSize(e, n.args) IN
       IF ~fs.ok THEN Fail(e, fs.err)
       ELSE IF fs.n # n.x.n THEN Fail(e, "InvalidVectorComposeLength")
       ELSE Appended(e, n, "Const")
  ELSE Appended(e, n, "Const")

\* The evaluator's methods call one another through Call(f, e, a): method f
\* of the evaluator in state e with the argument record a.  Call is defined
\* after the methods, at the end of this section.  A method that goes on
\* with the result r of a call (the `let x = self.f(..)?;` idiom) is split
\* at the call: the rest is an operator that takes r and returns r itself
\* when it is an error.
RECURSIVE Call(_, _, _)

\* the argument records of methods that take one expression handle
OnHandle(h) == [h |-> h]
OnHandles(hs) == [i \in DOMAIN hs |-> OnHandle(hs[i])]

\* call method f on each argument record of as in turn, threading the
\* state; stop at the first error (the `.collect::<Result<Vec<_>, _>>()?`
\* idiom).  The Ok value is the sequence of handles.
RECURSIVE MapArgs(_, _, _), MapArgsRest(_, _, _)
MapArgs(f, e, as) ==
  IF as = <<>> THEN [e |-> e, ok |-> TRUE, hs |-> <<>>, err |-> "none"]
  ELSE MapArgsRest(f, Call(f, e, Head(as)), Tail(as))

ConsHandle(h, m) == [m EXCEPT !.hs = <<h>> \o m.hs]

MapArgsRest(f, r, as) ==
  IF ~r.ok THEN [e |-> r.e, ok |-> FALSE, hs |-> <<>>, err |-> r.err]
  ELSE ConsHandle(r.h, MapArgs(f, r.e, as))

\* register the variant n with the operands m.hs that a MapArgs produced
Rebuilt(n, m) == IF m.ok THEN Register(m.e, [n EXCEPT !.args = m.hs]) ELSE Fail(m.e, m.err)

\* register the variant n with its operands replaced by the results of
\* method f on the argument records as (one per operand)
RebuildWith(e, n, f, as) == Rebuilt(n, MapArgs(f, e, as))

\* ConstantEvaluator::check
Check(e, h) == IF e.kd[h] = "Const" THEN Ok(e, h) ELSE Fail(e, "SubexpressionsAreNotConstant")

\* ConstantEvaluator::copy_from (from the global arena, which starts with GlobalInit)
CopyFrom(e, g) ==
  LET n == GlobalInit[g] IN
  CASE n.op \in {"Literal", "Constant", "ZeroValue"} -> Register(e, n)
    [] n.op \in {"Compose", "Splat"} -> RebuildWith(e, n, "copy_from", OnHandles(n.args))
    [] OTHER -> Fail(e, "SubexpressionsAreNotConstant")

\* ConstantEvaluator::check_and_get
CheckAndGet(e, h) ==
  IF e.ar[h].op = "Constant"
  THEN IF IsGlobalArena(e.b) THEN Ok(e, ConstInit[e.ar[h].x])
       ELSE Call("copy_from", e, OnHandle(ConstInit[e.ar[h].x]))
  ELSE Check(e, h)

Zero(s) == IF s = "bool" THEN FALSE ELSE 0

\* the vector arm of eval_zero_value_impl, given the scalar zero el
ZeroVector(t, el) ==
  IF el.ok THEN Register(el.e, Node("Compose", t, [i \in 1..t.n |-> el.h])) ELSE el

\* ConstantEvaluator::eval_zero_value_impl (scalar and vector arms)
EvalZeroValueImpl(e, t) ==
  IF t.k = "scalar" THEN Register(e, Node("Literal", Lit(t.s, Zero(t.s)), <<>>))
  ELSE ZeroVector(t, Call("eval_zero_value_impl", e, [t |-> ScalarTy(t.s)]))

\* ConstantEvaluator::splat
SplatFn(e, v, size) ==
  LET n == e.ar[v] IN
  CASE n.op = "Literal" -> Register(e, Node("Compose", VecTy(n.x.s), [i \in 1..size |-> v]))
    [] n.op = "ZeroValue" /\ n.x.k = "scalar" -> Register(e, Node("ZeroValue", VecTy(n.x.s), <<>>))
    [] OTHER -> Fail(e, "SplatScalarOnly")

\* the second step of eval_zero_value_and_splat: a Splat is lowered
LowerSplat(r) ==
  IF r.ok /\ r.e.ar[r.h].op = "Splat" THEN SplatFn(r.e, r.e.ar[r.h].args[1], r.e.ar[r.h].x)
  ELSE r

\* the third step of eval_zero_value_and_splat: a ZeroValue is lowered
LowerZeroValue(r) ==
  IF r.ok /\ r.e.ar[r.h].op = "ZeroValue"
  THEN Call("eval_zero_value_impl", r.e, [t |-> r.e.ar[r.h].x])
  ELSE r

\* ConstantEvaluator::eval_zero_value_and_splat: rebuild a Compose with its
\* components lowered, then lower a Splat, then a ZeroValue
EvalZeroValueAndSplat(e, h) ==
  LowerZeroValue(LowerSplat(
    IF e.ar[h].op = "Compose"
    THEN RebuildWith(e, e.ar[h], "eval_zero_value_and_splat", OnHandles(e.ar[h].args))
    ELSE Ok(e, h)))

\* ConstantEvaluator::access; a vector Compose of scalars flattens to its operands
Access(e, base, i) ==
  LET n == e.ar[base] IN
  CASE n.op = "ZeroValue" /\ n.x.k = "vec" /\ i < n.x.n ->
         Register(e, Node("ZeroValue", ScalarTy(n.x.s), <<>>))
    [] n.op = "Splat" /\ i < n.x -> Ok(e, n.args[1])
    [] n.op = "Compose" /\ n.x.k = "vec" ->
         IF i < Len(n.args) THEN Ok(e, n.args[i + 1]) ELSE Fail(e, "InvalidAccessIndex")
    [] OTHER -> Fail(e, "InvalidAccessBase")

\* the literal arms of unary_op
UnaryLit(op, l) ==
  LET ok(v) == [ok |-> TRUE, lit |-> Lit(l.s, v), err |-> "none"]
      bad == [ok |-> FALSE, lit |-> l, err |-> "InvalidUnaryOpArg"]
  IN CASE op = "Negate" /\ l.s \in {"i32", "i64"} -> ok(Wrap(-l.v))
       [] op = "BitwiseNot" /\ l.s \in {"i32", "i64"} -> ok(-l.v - 1)
       [] op = "LogicalNot" /\ l.s = "bool" -> ok(~l.v)
       [] OTHER -> bad

\* a folded literal, or the error of the literal table
LitResult(e, v) == IF v.ok THEN Register(e, Node("Literal", v.lit, <<>>)) ELSE Fail(e, v.err)

\* the match of unary_op on its lowered operand s
UnaryOpOn(op, s) ==
  LET n == s.e.ar[s.h] IN
  CASE ~s.ok -> s
    [] n.op = "Literal" -> LitResult(s.e, UnaryLit(op, n.x))
    [] n.op = "Compose" ->
         RebuildWith(s.e, n, "unary_op", [i \in DOMAIN n.args |-> [op |-> op, h |-> n.args[i]]])
    [] OTHER -> Fail(s.e, "InvalidUnaryOpArg")

\* ConstantEvaluator::unary_op
UnaryOp(e, op, h) == UnaryOpOn(op, Call("eval_zero_value_and_splat", e, OnHandle(h)))

LitEq(a, b) == a.s = b.s /\ a.v = b.v

\* the Literal x Literal arm of binary_op (no i64 arm exists)
BinaryLit(op, a, b) ==
  LET ok(l) == [ok |-> TRUE, lit |-> l, err |-> "none"]
      bad == [ok |-> FALSE, lit |-> a, err |-> "InvalidBinaryOpArgs"]
  IN CASE op = "Equal" -> ok(Lit("bool", LitEq(a, b)))
       [] a.s = "i32" /\ b.s = "i32" /\ op = "Add" -> ok(Lit("i32", Wrap(a.v + b.v)))
       [] a.s = "i32" /\ b.s = "i32" /\ op = "Subtract" -> ok(Lit("i32", Wrap(a.v - b.v)))
       [] a.s = "bool" /\ b.s = "bool" /\ op = "LogicalAnd" -> ok(Lit("bool", a.v /\ b.v))
       [] OTHER -> bad

\* the match of binary_op on its lowered operands lh and sr.h: the four shapes
BinaryOpOn(op, lh, sr) ==
  LET e == sr.e
      ln == e.ar[lh]
      rn == e.ar[sr.h]
  IN CASE ~sr.ok -> sr
       [] ln.op = "Literal" /\ rn.op = "Literal" -> LitResult(e, BinaryLit(op, ln.x, rn.x))
       [] ln.op = "Compose" /\ rn.op = "Literal" ->
            RebuildWith(e, ln, "binary_op", [i \in DOMAIN ln.args |-> [op |-> op, l |-> ln.args[i], r |-> sr.h]])
       [] ln.op = "Literal" /\ rn.op = "Compose" ->
            RebuildWith(e, rn, "binary_op", [i \in DOMAIN rn.args |-> [op |-> op, l |-> lh, r |-> rn.args[i]]])
       [] ln.op = "Compose" /\ rn.op = "Compose" /\ ln.x.k = "vec" /\ rn.x.k = "vec" /\ ln.x.n = rn.x.n ->
            Call("binary_op_vector", e, [op |-> op, ln |-> ln, rn |-> rn])
       [] OTHER -> Fail(e, "InvalidBinaryOpArgs")

\* binary_op after its left operand is lowered to sl: lower the right one
BinaryOpRight(op, r, sl) ==
  IF sl.ok THEN BinaryOpOn(op, sl.h, Call("eval_zero_value_and_splat", sl.e, OnHandle(r))) ELSE sl

\* ConstantEvaluator::binary_op: both operands are lowered by
\* eval_zero_value_and_splat, left first
BinaryOp(e, op, l, r) == BinaryOpRight(op, r, Call("eval_zero_value_and_splat", e, OnHandle(l)))

\* the Compose of binary_op_vector's type over the component results m
ComposeOf(ty, m) == IF m.ok THEN Register(m.e, Node("Compose", ty, m.hs)) ELSE Fail(m.e, m.err)

\* fault variant of BinaryOpVector: the left components zipped with themselves
BinaryOpVectorSelfZip(e, op, ln, rn) ==
  IF op = "LogicalAnd" THEN Fail(e, "InvalidBinaryOpArgs")
  ELSE ComposeOf(IF op = "Equal" THEN VecTy("bool") ELSE ln.x,
                 MapArgs("binary_op", e, [i \in 1..Min({Len(ln.args), Len(rn.args)}) |->
                                            [op |-> op, l |-> ln.args[i], r |-> ln.args[i]]]))

\* ConstantEvaluator::binary_op_vector: zip the components, apply binary_op
BinaryOpVector(e, op, ln, rn) ==
  IF op = "LogicalAnd" THEN Fail(e, "InvalidBinaryOpArgs")
  ELSE ComposeOf(IF op = "Equal" THEN VecTy("bool") ELSE ln.x,
                 MapArgs("binary_op", e, [i \in 1..Min({Len(ln.args), Len(rn.args)}) |->
                                            [op |-> op, l |-> ln.args[i], r |-> rn.args[i]]]))

\* the Abs handler of math: wrapping_abs
AbsLit(l) == Lit(l.s, IF l.v < 0 THEN Wrap(-l.v) ELSE l.v)

\* the match of component_wise_scalar on its lowered operand s
ComponentWiseScalarOn(s) ==
  LET n == s.e.ar[s.h] IN
  CASE ~s.ok -> s
    [] n.op = "Literal" /\ n.x.s \in IntTypes -> Register(s.e, Node("Literal", AbsLit(n.x), <<>>))
    [] n.op = "Compose" /\ n.x.k = "vec" /\ n.x.s \in IntTypes ->
         RebuildWith(s.e, n, "component_wise_scalar", OnHandles(n.args))
    [] OTHER -> Fail(s.e, "InvalidMathArg")

\* the instance of gen_component_wise_extractor for component_wise_scalar,
\* with one operand (N = 1) and the Abs handler: a Literal of a numeric
\* scalar, or a vector Compose whose components are handled one by one
ComponentWiseScalar(e, h) ==
  ComponentWiseScalarOn(Call("eval_zero_value_and_splat", e, OnHandle(h)))

ArgumentCount(fun) == IF fun = "Abs" THEN 1 ELSE 2

\* ConstantEvaluator::math: the argument-count check, Abs, and Dot among
\* the functions that are not implemented
Math(e, fun, args) ==
  CASE Len(args) # ArgumentCount(fun) -> Fail(e, "InvalidMathArgCount")
    [] fun = "Abs" -> Call("component_wise_scalar", e, OnHandle(args[1]))
    [] OTHER -> Fail(e, "NotImplemented")

\* the arms of try_eval_and_append_impl after `self.check_and_get(..)?` of
\* the first operand gave a
ImplAccessIndex(index, a) == IF a.ok THEN Access(a.e, a.h, index) ELSE a
ImplUnary(op, a) == IF a.ok THEN Call("unary_op", a.e, [op |-> op, h |-> a.h]) ELSE a
ImplBinaryOn(op, lh, b) == IF b.ok THEN Call("binary_op", b.e, [op |-> op, l |-> lh, r |-> b.h]) ELSE b
ImplBinary(op, right, a) == IF a.ok THEN ImplBinaryOn(op, a.h, CheckAndGet(a.e, right)) ELSE a
ImplMath(fun, m) == IF m.ok THEN Math(m.e, fun, m.hs) ELSE Fail(m.e, m.err)

\* ConstantEvaluator::try_eval_and_append_impl
TryEvalAndAppendImpl(e, n) ==
  CASE n.op = "Constant" /\ IsGlobalArena(e.b) -> Ok(e, ConstInit[n.x])
    [] n.op = "Override" -> Fail(e, "Override")
    [] n.op \in {"Literal", "ZeroValue", "Constant"} -> Register(e, n)
    [] n.op \in {"Compose", "Splat"} -> RebuildWith(e, n, "check_and_get", OnHandles(n.args))
    [] n.op = "FunctionArgument" -> Fail(e, "FunctionArg")
    [] n.op = "AccessIndex" -> ImplAccessIndex(n.x, CheckAndGet(e, n.args[1]))
    [] n.op = "Unary" -> ImplUnary(n.x, CheckAndGet(e, n.args[1]))
    [] n.op = "Binary" -> ImplBinary(n.x, n.args[2], CheckAndGet(e, n.args[1]))
    [] n.op = "Math" -> ImplMath(n.x, MapArgs("check_and_get", e, OnHandles(n.args)))

Call(f, e, a) ==
  CASE f = "try_eval_and_append_impl" -> TryEvalAndAppendImpl(e, a.n)
    [] f = "check_and_get" -> CheckAndGet(e, a.h)
    [] f = "copy_from" -> CopyFrom(e, a.h)
    [] f = "eval_zero_value_and_splat" -> EvalZeroValueAndSplat(e, a.h)
    [] f = "eval_zero_value_impl" -> EvalZeroValueImpl(e, a.t)
    [] f = "unary_op" -> UnaryOp(e, a.op, a.h)
    [] f = "binary_op" -> BinaryOp(e, a.op, a.l, a.r)
    [] f = "binary_op_vector" -> BinaryOpVector(e, a.op, a.ln, a.rn)
    [] f = "component_wise_scalar" -> ComponentWiseScalar(e, a.h)

FallbackErrors == {"NotImplemented", "InvalidBinaryOpArgs"}

\* fault variant of Fallback: the fallback ignores the Behavior
FallbackAnywhere(b, n, r) ==
  IF ~r.ok /\ r.err \in FallbackErrors THEN Appended(r.e, n, "Runtime") ELSE r

\* fault variant of Fallback: the fallback tags its entry Const
FallbackConst(b, n, r) ==
  IF HasRuntimeRestrictions(b) /\ ~r.ok /\ r.err \in FallbackErrors
  THEN Appended(r.e, n, "Const") ELSE r

\* the Const arm of try_eval_and_append: a fold that failed with a whitelisted
\* error is appended unevaluated as Runtime, where the Behavior allows that
Fallback(b, n, r) ==
  IF HasRuntimeRestrictions(b) /\ ~r.ok /\ r.err \in FallbackErrors
  THEN Appended(r.e, n, "Runtime") ELSE r

\* ConstantEvaluator::try_eval_and_append: classify, then fold, append
\* unevaluated, or reject
TryEvalAndAppend(e, n) ==
  CASE TypeOfWithExpr(e.kd, n) = "Const" ->
         Fallback(e.b, n, Call("try_eval_and_append_impl", e, [n |-> n]))
    [] TypeOfWithExpr(e.kd, n) = "Override" ->
         IF e.b \in {"WgslOverride", "WgslRuntime"} THEN Appended(e, n, "Override")
         ELSE Fail(e, "OverrideExpr")
    [] TypeOfWithExpr(e.kd, n) = "Runtime" ->
         IF HasRuntimeRestrictions(e.b) THEN Appended(e, n, "Runtime")
         ELSE Fail(e, "RuntimeExpr")

-----------------------------------------------------------------------------
(* The front-end.  It hands in well-typed expressions whose operands are     *)
(* handles it was given back earlier; an error ends the lowering.           *)


Inputs(ar, held, b) ==
  LET sc(s) == {h \in held : TypeOf(ar, h) = ScalarTy(s)}
      ve(s) == {h \in held : TypeOf(ar, h) = VecTy(s)}
      any(s) == sc(s) \cup ve(s)
      leaves ==
        {Node("Literal", l, <<>>) : l \in Literals}
        \cup {Node("ZeroValue", t, <<>>) : t \in {ScalarTy("i32"), VecTy("i32")}}
        \cup {Node("Constant", c, <<>>) : c \in DOMAIN ConstInit}
        \cup (IF b \in WgslBehaviors THEN {Node("Override", o, <<>>) : o \in Overrides} ELSE {})
        \cup (IF IsGlobalArena(b) THEN {} ELSE {Node("FunctionArgument", 0, <<>>)})
      composites ==
        UNION {{Node("Compose", VecTy(s), <<x, y>>) : x, y \in sc(s)} : s \in AllScalars}
        \cup {Node("Splat", 2, <<x>>) : x \in UNION {sc(s) : s \in AllScalars}}
        \cup {Node("AccessIndex", i, <<x>>) : x \in UNION {ve(s) : s \in AllScalars}, i \in 0..1}
        \cup {Node("Unary", "Negate", <<x>>) : x \in any("i32") \cup any("i64")}
        \cup {Node("Unary", "LogicalNot", <<x>>) : x \in any("bool")}
        \cup UNION {{Node("Binary", op, <<x, y>>) : op \in {"Add", "Subtract"}, x, y \in any(s)}
                    : s \in IntTypes}
        \cup UNION {{Node("Binary", "Equal", <<x, y>>) : x, y \in sc(s)} \cup
                    {Node("Binary", "Equal", <<x, y>>) : x, y \in ve(s)} : s \in AllScalars}
        \cup {Node("Binary", "LogicalAnd", <<x, y>>) : x, y \in sc("bool")}
        \cup {Node("Math", "Abs", <<x>>) : x \in any("i32") \cup any("i64")}
        \cup UNION {{Node("Math", "Dot", <<x, y>>) : x, y \in ve(s)} : s \in IntTypes}
  IN {n \in leaves \cup composites : n.op \in Ops}

GlobalEnv(b) == [ar |-> gexprs, kd |-> gkinds, em |-> NoRun, blk |-> <<>>, b |-> b]
LocalEnv(b) == [ar |-> lexprs, kd |-> lkinds, em |-> emitter, blk |-> block, b |-> b]

Outcome(scope, b, n, k, r, before) ==
  [scope |-> scope, b |-> b, node |-> n, kind |-> k, ok |-> r.ok, h |-> r.h, err |-> r.err,
   before |-> before, after |-> Len(r.e.ar), forced |-> FALSE]

Init ==
  /\ gexprs = GlobalInit
  /\ gkinds = FromArena(GlobalInit)
  /\ lexprs = <<>>
  /\ lkinds = <<>>
  /\ emitter = NoRun
  /\ block = <<>>
  /\ gheld = {}
  /\ lheld = {}
  /\ last = [scope |-> "none", b |-> "none", node |-> Node("none", 0, <<>>), kind |-> "Const",
             ok |-> TRUE, h |-> 0, err |-> "none", before |-> 0, after |-> 0, forced |-> FALSE]
  /\ calls = 0

\* the state a try_eval_and_append call r into the global arena leaves
GlobalCall(b, n, r) ==
  /\ Len(r.e.ar) <= MaxGlobal
  /\ calls' = calls + 1
  /\ gexprs' = r.e.ar
  /\ gkinds' = r.e.kd
  /\ gheld' = IF r.ok THEN gheld \cup {r.h} ELSE gheld
  /\ last' = Outcome("global", b, n, TypeOfWithExpr(gkinds, n), r, Len(gexprs))
  /\ UNCHANGED <<lexprs, lkinds, emitter, block, lheld>>

\* try_eval_and_append into the module's global expression arena
EvalGlobal(b) ==
  /\ last.ok /\ calls < MaxCalls
  /\ \E n \in Inputs(gexprs, gheld, b) : GlobalCall(b, n, TryEvalAndAppend(GlobalEnv(b), n))

\* the state a try_eval_and_append call r into the function arena leaves
LocalCall(b, n, r) ==
  /\ Len(r.e.ar) <= MaxLocal
  /\ calls' = calls + 1
  /\ lexprs' = r.e.ar
  /\ lkinds' = r.e.kd
  /\ emitter' = r.e.em
  /\ block' = r.e.blk
  /\ lheld' = IF r.ok THEN lheld \cup {r.h} ELSE lheld
  /\ last' = Outcome("function", b, n, TypeOfWithExpr(lkinds, n), r, Len(lexprs))
  /\ UNCHANGED <<gexprs, gkinds, gheld>>

\* try_eval_and_append into a function's expression arena
EvalLocal(b) ==
  /\ last.ok /\ calls < MaxCalls
  /\ \E n \in Inputs(lexprs, lheld, b) : LocalCall(b, n, TryEvalAndAppend(LocalEnv(b), n))

\* Emitter::start, by the front-end before it lowers a statement's operands
StartEmit ==
  /\ last.ok
  /\ emitter = NoRun
  /\ emitter' = Len(lexprs)
  /\ UNCHANGED <<gexprs, gkinds, lexprs, lkinds, block, gheld, lheld, last, calls>>

\* Emitter::finish, pushing the open run into the block
FinishEmit ==
  /\ emitter # NoRun
  /\ block' = block \o EmitFinish(emitter, Len(lexprs))
  /\ emitter' = NoRun
  /\ UNCHANGED <<gexprs, gkinds, lexprs, lkinds, gheld, lheld, last, calls>>

\* ExpressionKindTracker::force_non_const, applied by the WGSL front-end to
\* the value of a `let` declaration just evaluated in the function
ForceNonConst ==
  /\ last.scope = "function" /\ last.b = "WgslRuntime" /\ last.ok /\ ~last.forced
  /\ lkinds' = [lkinds EXCEPT ![last.h] = "Runtime"]
  /\ last' = [last EXCEPT !.forced = TRUE]
  /\ UNCHANGED <<gexprs, gkinds, lexprs, emitter, block, gheld, lheld, calls>>

Next ==
  \/ \E b \in Behaviors \cap GlobalBehaviors : EvalGlobal(b)
  \/ \E b \in Behaviors \ GlobalBehaviors : EvalLocal(b)
  \/ StartEmit
  \/ FinishEmit
  \/ ForceNonConst

Spec == Init /\ [][Next]_vars

-----------------------------------------------------------------------------
(* Reference meaning of an entry: a shape and its scalar components, read   *)
(* off the expression tree with scalar operands broadcast over vectors.     *)

Scalar(l) == [shape |-> "scalar", c |-> <<l>>]
Vector(cs) == [shape |-> "vec", c |-> cs]
\* the scalar meaning of the Unary, Binary or Math node n on components l, r
ScalarOp(n, l, r) ==
  CASE n.op = "Unary" -> UnaryLit(n.x, l).lit
    [] n.op = "Binary" -> BinaryLit(n.x, l, r).lit
    [] n.op = "Math" -> AbsLit(l)

\* n applied component-wise to a and b, a scalar operand broadcast
Lift(a, b, n) ==
  LET len == IF Len(a.c) >= Len(b.c) THEN Len(a.c) ELSE Len(b.c)
      at(v, i) == v.c[IF Len(v.c) = 1 THEN 1 ELSE i]
  IN [shape |-> IF a.shape = "vec" \/ b.shape = "vec" THEN "vec" ELSE "scalar",
      c |-> [i \in 1..len |-> ScalarOp(n, at(a, i), at(b, i))]]

RECURSIVE Val(_, _), ValNode(_, _)
Val(ar, h) == ValNode(ar, ar[h])
ValNode(ar, n) ==
  LET arg(i) == Val(ar, n.args[i]) IN
  CASE n.op = "Literal" -> Scalar(n.x)
    [] n.op = "ZeroValue" /\ n.x.k = "scalar" -> Scalar(Lit(n.x.s, Zero(n.x.s)))
    [] n.op = "ZeroValue" -> Vector([i \in 1..n.x.n |-> Lit(n.x.s, Zero(n.x.s))])
    [] n.op = "Constant" -> Val(GlobalInit, ConstInit[n.x])
    [] n.op = "Compose" -> Vector([i \in 1..Len(n.args) |-> arg(i).c[1]])
    [] n.op = "Splat" -> Vector([i \in 1..n.x |-> arg(1).c[1]])
    [] n.op = "AccessIndex" -> Scalar(arg(1).c[n.x + 1])
    [] n.op \in {"Unary", "Math"} -> Lift(arg(1), arg(1), n)
    [] n.op = "Binary" -> Lift(arg(1), arg(2), n)

Kinds == {"Const", "Override", "Runtime"}
Arena(scope) == IF scope = "global" THEN gexprs ELSE lexprs
EvaluatedOps == {"Literal", "Compose", "ZeroValue", "Splat", "Constant"}

-----------------------------------------------------------------------------
(* Properties                                                                *)

\* Type invariant: arenas and trackers have one kind per entry, operands
\* precede their users, emit ranges and held handles lie in the arena.
TypeOK ==
  /\ Len(gkinds) = Len(gexprs) /\ Len(lkinds) = Len(lexprs)
  /\ \A h \in DOMAIN gexprs : \A i \in DOMAIN gexprs[h].args : gexprs[h].args[i] < h
  /\ \A h \in DOMAIN lexprs : \A i \in DOMAIN lexprs[h].args : lexprs[h].args[i] < h
  /\ \A h \in DOMAIN gkinds : gkinds[h] \in Kinds
  /\ \A h \in DOMAIN lkinds : lkinds[h] \in Kinds
  /\ emitter \in {NoRun} \cup 0..Len(lexprs)
  /\ \A i \in DOMAIN block : 1 <= block[i].lo /\ block[i].lo <= block[i].hi /\ block[i].hi <= Len(lexprs)
  /\ gheld \subseteq DOMAIN gexprs /\ lheld \subseteq DOMAIN lexprs

\* Folding preserves meaning: when try_eval_and_append returns Ok for an
\* expression the tracker classified Const, the entry it returns has the
\* value of the expression it was given (eval_zero_value_and_splat, splat,
\* copy_from, the broadcast arms of binary_op, access and the component-wise
\* extractor must all keep the operand order and the component count).
FoldPreservesValue ==
  (last.scope # "none" /\ last.ok /\ last.kind = "Const")
    => Val(Arena(last.scope), last.h) = ValNode(Arena(last.scope), last.node)

\* The tracker only claims what folding established: an entry tagged Const is
\* an evaluated form (a tree of Literal / Compose / ZeroValue / Splat /
\* Constant), so the fallback in try_eval_and_append never tags Const; and the
\* global arena, built only in const and override behaviors, holds no Runtime
\* entry.
TrackerSound ==
  /\ \A h \in DOMAIN lkinds : lkinds[h] = "Const" => lexprs[h].op \in EvaluatedOps
  /\ \A h \in DOMAIN gkinds : gkinds[h] = "Const" => gexprs[h].op \in EvaluatedOps
  /\ \A h \in DOMAIN gkinds : gkinds[h] # "Runtime"

ConstOperandsConst ==
  \A h \in DOMAIN lkinds : lkinds[h] = "Const" =>
    \A i \in DOMAIN lexprs[h].args : lkinds[lexprs[h].args[i]] = "Const"

=============================================================================
