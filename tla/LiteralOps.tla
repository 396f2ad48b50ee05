------------------------------ MODULE LiteralOps ------------------------------
(* The literal tables of naga's constant evaluator                          *)
(* (src/naga/src/proc/constant_evaluator.rs) on integer and boolean         *)
(* literals: the Literal x Literal arms of binary_op, the literal arms of   *)
(* unary_op, the integer math builtins, first_trailing_bit /                *)
(* first_leading_bit, packed_dot_product, the integer arms of cast and      *)
(* TryFromAbstract<i64>.  Widths are reduced: W32 bits stand for the 32-bit *)
(* types and W64 bits for i64, u64 and AbstractInt; the code's bit tricks   *)
(* (leading_zeros, 31 - idx, lane masks) are written for any width.  Each   *)
(* step evaluates one operation on literal inputs and records it in `last`; *)
(* the properties compare it with reference definitions written from the    *)
(* rules spec.md states.  Floats are left out.                              *)
EXTENDS Integers, FiniteSets, Sequences, Bitwise

CONSTANTS
  W32,        \* bits standing for 32
  W64,        \* bits standing for 64
  Lane,       \* bits of one packed lane (8 in the code; W32 = 4 * Lane)
  BinKinds,   \* literal kinds given to binary_op
  CastKinds,  \* literal kinds given to cast, and its targets
  UnaryKinds  \* literal kinds given to unary_op

VARIABLE last  \* the last operation evaluated: its inputs and result

------------------------------------------------------------------------------
(* Rust integer semantics (core), on two's complement bit patterns. *)

Width(k) == IF k \in {"i32", "u32"} THEN W32 ELSE W64

Signed(k) == k \in {"i32", "i64", "abstract_int"}

MinOf(k) == IF Signed(k) THEN -(2 ^ (Width(k) - 1)) ELSE 0

MaxOf(k) == IF Signed(k) THEN 2 ^ (Width(k) - 1) - 1 ELSE 2 ^ Width(k) - 1

Fits(k, x) == MinOf(k) <= x /\ x <= MaxOf(k)

(* A bool literal holds 0 (false) or 1 (true), so that every literal     *)
(* value is an integer.                                                   *)
(* cross_product's results are AbstractFloat (f64), which holds every     *)
(* product of these small integers exactly.                               *)
Values(k) == CASE k = "bool" -> 0 .. 1
               [] k = "abstract_float" -> Int
               [] OTHER -> MinOf(k) .. MaxOf(k)

AsBool(c) == IF c THEN 1 ELSE 0

Lit(k, v) == [kind |-> k, v |-> v]

LiteralsOf(ks) == UNION {{Lit(k, v) : v \in Values(k)} : k \in ks}

(* The unsigned bit pattern of a value, and the value of a pattern. *)
Pattern(k, v) == v % (2 ^ Width(k))

FromPattern(k, p) ==
  IF Signed(k) /\ p >= 2 ^ (Width(k) - 1) THEN p - 2 ^ Width(k) ELSE p

(* `as` into a type of the same or another width: keep the low bits. *)
Wrap(k, x) == FromPattern(k, x % (2 ^ Width(k)))

Bit(p, i) == (p \div (2 ^ i)) % 2

AbsInt(x) == IF x < 0 THEN -x ELSE x

(* Integer `/` rounds toward zero. *)
Quot(a, b) == IF (a < 0) = (b < 0) THEN AbsInt(a) \div AbsInt(b)
                                   ELSE -(AbsInt(a) \div AbsInt(b))

RECURSIVE ZerosDown(_, _)
ZerosDown(p, i) == IF i < 0 \/ Bit(p, i) = 1 THEN 0 ELSE 1 + ZerosDown(p, i - 1)

RECURSIVE ZerosUp(_, _, _)
ZerosUp(p, i, w) == IF i >= w \/ Bit(p, i) = 1 THEN 0 ELSE 1 + ZerosUp(p, i + 1, w)

LeadingZeros(k, v) == ZerosDown(Pattern(k, v), Width(k) - 1)

TrailingZeros(k, v) == ZerosUp(Pattern(k, v), 0, Width(k))

BitNot(k, v) == FromPattern(k, 2 ^ Width(k) - 1 - Pattern(k, v))

(* leading_ones is the leading zeros of the complement. *)
LeadingOnes(k, v) == LeadingZeros(k, BitNot(k, v))

CountOnes(k, v) == Cardinality({i \in 0 .. Width(k) - 1 : Bit(Pattern(k, v), i) = 1})

RECURSIVE Reversed(_, _, _)
Reversed(p, i, w) ==
  IF i >= w THEN 0 ELSE Bit(p, i) * 2 ^ (w - 1 - i) + Reversed(p, i + 1, w)

ReverseBits(k, v) == FromPattern(k, Reversed(Pattern(k, v), 0, Width(k)))

BitAnd(k, a, b) == FromPattern(k, Pattern(k, a) & Pattern(k, b))
BitOr(k, a, b) == FromPattern(k, Pattern(k, a) | Pattern(k, b))
BitXor(k, a, b) == FromPattern(k, Pattern(k, a) ^^ Pattern(k, b))

(* checked_shl / checked_shr: None when the amount reaches the width;      *)
(* shl keeps the low bits, shr is arithmetic for signed types.             *)
ShiftOk(k, b) == b < Width(k)
Shl(k, a, b) == Wrap(k, a * 2 ^ b)
Shr(k, a, b) == a \div (2 ^ b)

------------------------------------------------------------------------------
(* Results: Ok(literal) or Err(error). *)

NoLit == Lit("none", 0)

Ok(l) == [ok |-> TRUE, lit |-> l, err |-> "none"]

Err(e) == [ok |-> FALSE, lit |-> NoLit, err |-> e]

OkInt(k, v) == Ok(Lit(k, v))

(* The variants of ConstantEvaluatorError, their payloads left out. *)
ConstantEvaluatorError ==
  {"FunctionArg", "GlobalVariable", "LocalVariable", "InvalidArrayLengthArg",
   "ArrayLengthDynamic", "ArrayLengthOverridden", "Call", "WorkGroupUniformLoadResult",
   "Atomic", "Derivative", "Load", "ImageExpression", "RayQueryExpression",
   "SubgroupExpression", "InvalidAccessBase", "InvalidAccessIndex", "InvalidAccessIndexTy",
   "ArrayLength", "InvalidCastArg", "InvalidUnaryOpArg", "InvalidBinaryOpArgs",
   "InvalidMathArg", "InvalidMathArgCount", "InvalidRelationalArg", "InvalidClamp",
   "InvalidVectorComposeLength", "InvalidVectorComposeComponent", "SplatScalarOnly",
   "SwizzleVectorOnly", "SwizzleOutOfBounds", "TypeNotConstructible",
   "SubexpressionsAreNotConstant", "NotImplemented", "Overflow", "AutomaticConversionLossy",
   "DivisionByZero", "RemainderByZero", "ShiftedMoreThan32Bits", "Literal", "Override",
   "RuntimeExpr", "OverrideExpr", "SelectScalarConditionNotABool",
   "SelectVecRejectAcceptSizeMismatch", "SelectConditionNotAVecBool",
   "SelectConditionVecSizeMismatch", "SelectAcceptRejectTypeMismatch"}

------------------------------------------------------------------------------
(* binary_op, Literal x Literal. *)

Comparisons == {"Equal", "NotEqual", "Less", "LessEqual", "Greater", "GreaterEqual"}

(* The derived PartialOrd of two literals of one kind. *)
LitLess(a, b) == a.v < b.v

Compare(op, a, b) ==
  Lit("bool", AsBool(CASE op = "Equal" -> a = b
                [] op = "NotEqual" -> a # b
                [] op = "Less" -> LitLess(a, b)
                [] op = "LessEqual" -> LitLess(a, b) \/ a = b
                [] op = "Greater" -> LitLess(b, a)
                [] op = "GreaterEqual" -> LitLess(b, a) \/ a = b))

Bitwise(k, op, a, b) ==
  CASE op = "And" -> OkInt(k, BitAnd(k, a, b))
    [] op = "ExclusiveOr" -> OkInt(k, BitXor(k, a, b))
    [] op = "InclusiveOr" -> OkInt(k, BitOr(k, a, b))
    [] OTHER -> Err("InvalidBinaryOpArgs")

(* Mutant: an overflow test of the upper bound only. *)
CheckedUpperOnly(k, x) == IF x <= MaxOf(k) THEN OkInt(k, x) ELSE Err("Overflow")

(* checked_add / checked_sub / checked_mul, with the Overflow error. *)
Checked(k, x) == IF Fits(k, x) THEN OkInt(k, x) ELSE Err("Overflow")

(* (I32, I32): wrapping arithmetic, zero divisors rejected. *)
I32Arm(op, a, b) ==
  CASE op = "Add" -> OkInt("i32", Wrap("i32", a + b))
    [] op = "Subtract" -> OkInt("i32", Wrap("i32", a - b))
    [] op = "Multiply" -> OkInt("i32", Wrap("i32", a * b))
    [] op = "Divide" ->
         IF b = 0 THEN Err("DivisionByZero") ELSE OkInt("i32", Wrap("i32", Quot(a, b)))
    [] op = "Modulo" ->
         IF b = 0 THEN Err("RemainderByZero")
         ELSE OkInt("i32", Wrap("i32", a - b * Quot(a, b)))
    [] OTHER -> Bitwise("i32", op, a, b)

(* The shift-left overflow test of the (I32, U32) and (AbstractInt, U32)   *)
(* arms: (if a < 0 { !a } else { a }).leading_zeros() <= b.                *)
ShlOverflowsLess(k, a, b) == LeadingZeros(k, IF a < 0 THEN BitNot(k, a) ELSE a) < b

ShlOverflows(k, a, b) == LeadingZeros(k, IF a < 0 THEN BitNot(k, a) ELSE a) <= b

(* (I32, U32): the shifts. *)
I32ShiftArm(op, a, b) ==
  CASE op = "ShiftLeft" ->
         IF ShlOverflows("i32", a, b) THEN Err("Overflow")
         ELSE IF ShiftOk("i32", b) THEN OkInt("i32", Shl("i32", a, b))
         ELSE Err("ShiftedMoreThan32Bits")
    [] op = "ShiftRight" ->
         IF ShiftOk("i32", b) THEN OkInt("i32", Shr("i32", a, b))
         ELSE Err("ShiftedMoreThan32Bits")
    [] OTHER -> Err("InvalidBinaryOpArgs")

(* (U32, U32): checked arithmetic; << is a * (1 << b). *)
U32Arm(op, a, b) ==
  CASE op \in {"Add", "Subtract", "Multiply"} ->
         Checked("u32", CASE op = "Add" -> a + b [] op = "Subtract" -> a - b
                          [] op = "Multiply" -> a * b)
    [] op = "Divide" -> IF b = 0 THEN Err("DivisionByZero") ELSE OkInt("u32", a \div b)
    [] op = "Modulo" -> IF b = 0 THEN Err("RemainderByZero") ELSE OkInt("u32", a % b)
    [] op = "ShiftLeft" ->
         IF ShiftOk("u32", b) THEN Checked("u32", a * 2 ^ b)
         ELSE Err("ShiftedMoreThan32Bits")
    [] op = "ShiftRight" ->
         IF ShiftOk("u32", b) THEN OkInt("u32", Shr("u32", a, b))
         ELSE Err("ShiftedMoreThan32Bits")
    [] OTHER -> Bitwise("u32", op, a, b)

(* (AbstractInt, U32): checked_shl / checked_shr with unwrap_or(0). *)
AbstractIntShiftArm(op, a, b) ==
  CASE op = "ShiftLeft" ->
         IF ShlOverflows("abstract_int", a, b) THEN Err("Overflow")
         ELSE OkInt("abstract_int",
                    IF ShiftOk("abstract_int", b) THEN Shl("abstract_int", a, b) ELSE 0)
    [] op = "ShiftRight" ->
         OkInt("abstract_int",
               IF ShiftOk("abstract_int", b) THEN Shr("abstract_int", a, b) ELSE 0)
    [] OTHER -> Err("InvalidBinaryOpArgs")

(* (AbstractInt, AbstractInt): checked arithmetic; checked_div and         *)
(* checked_rem fail on a zero divisor and on MIN / -1.                     *)
AbstractIntArm(op, a, b) ==
  LET k == "abstract_int"
      overflowing == a = MinOf(k) /\ b = -1
  IN CASE op \in {"Add", "Subtract", "Multiply"} ->
            Checked(k, CASE op = "Add" -> a + b [] op = "Subtract" -> a - b
                         [] op = "Multiply" -> a * b)
       [] op = "Divide" ->
            IF b = 0 THEN Err("DivisionByZero")
            ELSE IF overflowing THEN Err("Overflow") ELSE OkInt(k, Quot(a, b))
       [] op = "Modulo" ->
            IF b = 0 THEN Err("RemainderByZero")
            ELSE IF overflowing THEN Err("Overflow") ELSE OkInt(k, a - b * Quot(a, b))
       [] OTHER -> Bitwise(k, op, a, b)

BoolArm(op, a, b) ==
  CASE op = "LogicalAnd" -> Ok(Lit("bool", AsBool(a = 1 /\ b = 1)))
    [] op = "LogicalOr" -> Ok(Lit("bool", AsBool(a = 1 \/ b = 1)))
    [] OTHER -> Err("InvalidBinaryOpArgs")

BinaryLiteral(op, l, r) ==
  IF op \in Comparisons THEN Ok(Compare(op, l, r))
  ELSE CASE <<l.kind, r.kind>> = <<"i32", "i32">> -> I32Arm(op, l.v, r.v)
         [] <<l.kind, r.kind>> = <<"i32", "u32">> -> I32ShiftArm(op, l.v, r.v)
         [] <<l.kind, r.kind>> = <<"u32", "u32">> -> U32Arm(op, l.v, r.v)
         [] <<l.kind, r.kind>> = <<"abstract_int", "u32">> -> AbstractIntShiftArm(op, l.v, r.v)
         [] <<l.kind, r.kind>> = <<"abstract_int", "abstract_int">> -> AbstractIntArm(op, l.v, r.v)
         [] <<l.kind, r.kind>> = <<"bool", "bool">> -> BoolArm(op, l.v, r.v)
         [] OTHER -> Err("InvalidBinaryOpArgs")

------------------------------------------------------------------------------
(* math: the integer arms.  Arguments are literals of one kind (the        *)
(* extractor macros reject mixed kinds); the kinds each extractor accepts. *)

ScalarIntKinds == {"abstract_int", "u32", "i32", "u64", "i64"}  \* component_wise_scalar
SignedIntKinds == {"abstract_int", "i32"}                       \* component_wise_signed
ConcreteIntKinds == {"u32", "i32"}                              \* component_wise_concrete_int

Arity(f) == CASE f \in {"Min", "Max", "Dot4I8Packed", "Dot4U8Packed"} -> 2
              [] f = "Clamp" -> 3
              [] OTHER -> 1

(* Mutant: u32::MAX handed back without the `as i32`. *)
FirstTrailingBitNoCast(k, v) ==
  LET e == TrailingZeros(k, v)
  IN IF e <= W32 - 1 THEN e ELSE MaxOf("u32")

(* first_trailing_bit: trailing_zeros_to_bit_idx, then `as i32`. *)
FirstTrailingBit(k, v) ==
  LET e == TrailingZeros(k, v)
      idx == IF e <= W32 - 1 THEN e ELSE MaxOf("u32")
  IN IF k = "u32" THEN idx ELSE Wrap("i32", idx)

(* Mutant: leading_zeros for negative inputs too. *)
FirstLeadingBitZeros(k, v) ==
  LET e == LeadingZeros(k, v)
      idx == IF e <= W32 - 1 THEN W32 - 1 - e ELSE MaxOf("u32")
  IN IF k = "u32" THEN idx ELSE Wrap("i32", idx)

(* first_leading_bit: leading_ones for negative i32, else leading_zeros,   *)
(* then rtl_to_ltr_bit_idx (31 - idx, 32 => u32::MAX) and `as i32`.       *)
FirstLeadingBit(k, v) ==
  LET e == IF k = "i32" /\ v < 0 THEN LeadingOnes(k, v) ELSE LeadingZeros(k, v)
      idx == IF e <= W32 - 1 THEN W32 - 1 - e ELSE MaxOf("u32")
  IN IF k = "u32" THEN idx ELSE Wrap("i32", idx)

(* Mutant: low = high rejected as well. *)
ClampLitNotEqual(k, e, low, high) ==
  IF low >= high THEN Err("InvalidClamp")
  ELSE OkInt(k, IF e < low THEN low ELSE IF e > high THEN high ELSE e)

(* The Clamp closure: InvalidClamp when low > high, else e.clamp(low, high). *)
ClampLit(k, e, low, high) ==
  IF low > high THEN Err("InvalidClamp")
  ELSE OkInt(k, IF e < low THEN low ELSE IF e > high THEN high ELSE e)

MathLiteral(f, args) ==
  LET k == args[1].kind
      a == args[1].v
      b == args[2].v
      hi == args[3].v
  IN CASE f \in {"Abs", "Min", "Max", "Clamp"} /\ k \notin ScalarIntKinds -> Err("InvalidMathArg")
       [] f = "Abs" -> OkInt(k, IF Signed(k) THEN Wrap(k, AbsInt(a)) ELSE a)
       [] f = "Min" -> OkInt(k, IF a <= b THEN a ELSE b)
       [] f = "Max" -> OkInt(k, IF a >= b THEN a ELSE b)
       [] f = "Clamp" -> ClampLit(k, a, b, hi)
       [] f = "Sign" ->
            IF k \in SignedIntKinds THEN OkInt(k, IF a > 0 THEN 1 ELSE IF a < 0 THEN -1 ELSE 0)
            ELSE Err("InvalidMathArg")
       [] k \notin ConcreteIntKinds -> Err("InvalidMathArg")
       [] f = "CountTrailingZeros" -> OkInt(k, TrailingZeros(k, a))
       [] f = "CountLeadingZeros" -> OkInt(k, LeadingZeros(k, a))
       [] f = "CountOneBits" -> OkInt(k, CountOnes(k, a))
       [] f = "ReverseBits" -> OkInt(k, ReverseBits(k, a))
       [] f = "FirstTrailingBit" -> OkInt(k, FirstTrailingBit(k, a))
       [] f = "FirstLeadingBit" -> OkInt(k, FirstLeadingBit(k, a))

(* packed_dot_product: lane i of a u32 is (a >> (Lane * i)) & mask; the   *)
(* signed form reads each lane `as i8 as i32`.                            *)
LaneOf(a, i) == (a \div 2 ^ (Lane * i)) % 2 ^ Lane

AsLaneUnsigned(x) == x

AsLaneSigned(x) == IF x >= 2 ^ (Lane - 1) THEN x - 2 ^ Lane ELSE x

PackedDotProduct(signed, a, b) ==
  LET ln(x, i) == IF signed THEN AsLaneSigned(LaneOf(x, i)) ELSE LaneOf(x, i)
      sum == ln(a, 0) * ln(b, 0) + ln(a, 1) * ln(b, 1)
             + ln(a, 2) * ln(b, 2) + ln(a, 3) * ln(b, 3)
  IN OkInt(IF signed THEN "i32" ELSE "u32", sum)

(* The math entry for the packed builtins: both arguments must be U32     *)
(* literals.                                                              *)
PackedDotLiteral(f, args) ==
  IF args[1].kind = "u32" /\ args[2].kind = "u32"
  THEN PackedDotProduct(f = "Dot4I8Packed", args[1].v, args[2].v)
  ELSE Err("InvalidMathArg")

------------------------------------------------------------------------------
(* cast: the integer and boolean arms, and TryFromAbstract<i64>. *)

(* Mutant: `v as T` in place of T::try_from(v). *)
TryFromAbstractAs(t, v) == OkInt(t, Wrap(t, v))

TryFromAbstract(t, v) ==
  IF t = "i64" \/ Fits(t, v) THEN OkInt(t, v) ELSE Err("AutomaticConversionLossy")

CastLiteral(l, t) ==
  LET k == l.kind
      v == l.v
  IN CASE t = "bool" ->
            IF k \in {"i64", "u64"} THEN Err("InvalidCastArg")
            ELSE Ok(Lit("bool", AsBool(v # 0)))
       [] t = "abstract_int" -> IF k = "abstract_int" THEN Ok(l) ELSE Err("InvalidCastArg")
       [] k = "bool" -> OkInt(t, v)
       [] k = "abstract_int" -> TryFromAbstract(t, v)
       [] t \in {"i32", "u32"} /\ k \in {"i64", "u64"} -> Err("InvalidCastArg")
       [] OTHER -> OkInt(t, Wrap(t, v))

(* Mutant: negation with checked_neg, an error where the result does not fit. *)
NegateChecked(k, v) == Checked(k, -v)

(* wrapping_neg: the two's complement negation, MIN for MIN. *)
Negate(k, v) == OkInt(k, Wrap(k, -v))

(* unary_op's Literal arm: Negate for the signed kinds, LogicalNot for    *)
(* bool, BitwiseNot for the integer kinds; any other pairing is           *)
(* InvalidUnaryOpArg.                                                     *)
UnaryLiteral(op, l) ==
  CASE op = "Negate" /\ l.kind \in {"i32", "i64", "abstract_int"} -> Negate(l.kind, l.v)
    [] op = "LogicalNot" /\ l.kind = "bool" -> Ok(Lit("bool", 1 - l.v))
    [] op = "BitwiseNot" /\ l.kind \in ScalarIntKinds -> OkInt(l.kind, BitNot(l.kind, l.v))
    [] OTHER -> Err("InvalidUnaryOpArg")

------------------------------------------------------------------------------
(* Vector operands.  An operand is a Literal expression or a vector Compose *)
(* whose components are Literals or, as the front-ends build vec4(v2, v2),  *)
(* smaller vector Composes; `size` is the vector type's size.  Results of   *)
(* the vector operations carry an expression, an error, or a panic.         *)

LitE(l) == [shape |-> "lit", lit |-> l, size |-> 1, comps |-> <<>>]

ComposeE(n, cs) == [shape |-> "compose", lit |-> NoLit, size |-> n, comps |-> cs]

NoE == LitE(NoLit)

(* A Compose of array type, and ZeroValues of arrays whose size is an     *)
(* override (ArraySize::Pending) or runtime (ArraySize::Dynamic).          *)
ArrayE(n, cs) == [shape |-> "array", lit |-> NoLit, size |-> n, comps |-> cs]

PendingArray == [shape |-> "pending_array", lit |-> NoLit, size |-> 0, comps |-> <<>>]

DynamicArray == [shape |-> "dynamic_array", lit |-> NoLit, size |-> 0, comps |-> <<>>]

OkE(e) == [ok |-> TRUE, e |-> e, err |-> "none"]

ErrE(err) == [ok |-> FALSE, e |-> NoE, err |-> err]

(* unreachable!() *)
Panic == ErrE("panic")

(* crate::proc::flatten_compose: the scalar leaves of a Compose, nested     *)
(* vector components spliced in.                                           *)
RECURSIVE Flatten(_), FlatComps(_, _)
Flatten(e) == IF e.shape = "lit" THEN <<e.lit>> ELSE FlatComps(e.comps, 1)
FlatComps(cs, i) == IF i > Len(cs) THEN <<>> ELSE Flatten(cs[i]) \o FlatComps(cs, i + 1)

(* The scalar of an operand's type. *)
KindOf(e) == Flatten(e)[1].kind

IsBoolLit(e) == e.shape = "lit" /\ e.lit.kind = "bool"

(* The first failed result of rs, in the order the code's loop runs. *)
FirstFailure(rs) == rs[CHOOSE i \in DOMAIN rs : ~rs[i].ok /\ \A j \in 1 .. i - 1 : rs[j].ok]

(* cast, Literal and Compose arms: a Compose is cast component by         *)
(* component, nested Composes recursively, the first error returned.      *)
RECURSIVE CastE(_, _)
CastE(e, t) ==
  IF e.shape = "lit"
  THEN LET r == CastLiteral(e.lit, t) IN IF r.ok THEN OkE(LitE(r.lit)) ELSE ErrE(r.err)
  ELSE LET rs == [i \in DOMAIN e.comps |-> CastE(e.comps[i], t)]
       IN IF \A i \in DOMAIN rs : rs[i].ok
          THEN OkE(ComposeE(e.size, [i \in DOMAIN rs |-> rs[i].e]))
          ELSE FirstFailure(rs)

(* select_single_component: accept is cast to reject's scalar, then one   *)
(* of the two is chosen.                                                  *)
SelectSingle(reject, accept, c) ==
  LET a == CastE(accept, reject.lit.kind)
  IN IF ~a.ok THEN a ELSE IF c = 1 THEN a ELSE OkE(reject)

(* The Compose arm's zip of reject's, accept's and the condition's        *)
(* components (each as written, not flattened), stopping at the shortest; *)
(* a reject component that is not a Literal is unreachable!().            *)
SelectZip(reject, accept, cs) ==
  LET m == IF Len(reject.comps) <= Len(accept.comps) THEN Len(reject.comps) ELSE Len(accept.comps)
      n == IF m <= Len(cs) THEN m ELSE Len(cs)
      rs == [i \in 1 .. n |-> IF reject.comps[i].shape # "lit" THEN Panic
                              ELSE SelectSingle(reject.comps[i], accept.comps[i], cs[i])]
  IN IF \A i \in 1 .. n : rs[i].ok
     THEN OkE(ComposeE(reject.size, [i \in 1 .. n |-> rs[i].e]))
     ELSE FirstFailure(rs)

(* Operands whose components are all Literals. *)
FlatOperand(e) == \A i \in DOMAIN e.comps : e.comps[i].shape = "lit"

Select(reject, accept, cond) ==
  CASE reject.shape = "lit" /\ accept.shape = "lit" ->
         IF IsBoolLit(cond) THEN SelectSingle(reject, accept, cond.lit.v)
         ELSE ErrE("SelectScalarConditionNotABool")
    [] reject.shape = "compose" /\ accept.shape = "compose" ->
         CASE reject.size # accept.size -> ErrE("SelectVecRejectAcceptSizeMismatch")
           [] IsBoolLit(cond) -> SelectZip(reject, accept, [i \in 1 .. reject.size |-> cond.lit.v])
           [] cond.shape = "compose" /\ KindOf(cond) # "bool" -> ErrE("SelectConditionNotAVecBool")
           [] cond.shape = "compose" /\ cond.size # reject.size -> ErrE("SelectConditionVecSizeMismatch")
           [] cond.shape = "compose" ->
                IF \E i \in DOMAIN cond.comps : cond.comps[i].shape # "lit" THEN Panic
                ELSE SelectZip(reject, accept, [i \in DOMAIN cond.comps |-> cond.comps[i].lit.v])
           [] OTHER -> ErrE("SelectConditionNotAVecBool")
    [] OTHER -> ErrE("SelectAcceptRejectTypeMismatch")

(* relational All / Any: a bool Literal is its own result; a vector is    *)
(* flattened and every leaf must be a bool.                               *)
Relational(fun, arg) ==
  LET flat == Flatten(arg)
  IN CASE IsBoolLit(arg) -> OkE(arg)
       [] arg.shape = "compose" /\ \A i \in DOMAIN flat : flat[i].kind = "bool" ->
            OkE(LitE(Lit("bool", IF fun = "All" THEN AsBool(\A i \in DOMAIN flat : flat[i].v = 1)
                                              ELSE AsBool(\E i \in DOMAIN flat : flat[i].v = 1))))
       [] OTHER -> ErrE("InvalidRelationalArg")

(* Mutant: the pattern indexes the Compose's components as written. *)
SwizzleUnflattened(size, pattern, src) ==
  CASE src.shape # "compose" -> ErrE("SwizzleVectorOnly")
    [] \E i \in 1 .. size : pattern[i] >= Len(src.comps) -> ErrE("SwizzleOutOfBounds")
    [] OTHER -> OkE(ComposeE(size, [i \in 1 .. size |-> src.comps[pattern[i] + 1]]))

(* swizzle on a Compose: pattern[..size] indexes the flattened components. *)
Swizzle(size, pattern, src) ==
  LET flat == Flatten(src)
  IN CASE src.shape # "compose" -> ErrE("SwizzleVectorOnly")
       [] \E i \in 1 .. size : pattern[i] >= Len(flat) -> ErrE("SwizzleOutOfBounds")
       [] OTHER -> OkE(ComposeE(size, [i \in 1 .. size |-> LitE(flat[pattern[i] + 1])]))

(* extract_vec::<N>: the first N flattened leaves of a vector Compose,   *)
(* padded with Literal::Bool(false) when it has fewer.                    *)
ExtractVec(e, n) ==
  LET flat == Flatten(e)
  IN IF e.shape # "compose" THEN ErrE("InvalidMathArg")
     ELSE OkE([i \in 1 .. n |-> IF i <= Len(flat) THEN flat[i] ELSE Lit("bool", 0)])

(* cross_product: AbstractInt vectors are crossed as f64 and give         *)
(* AbstractFloat; the float arms are not modelled; other kinds are       *)
(* InvalidMathArg.  The result Compose has the type of the first operand. *)
CrossProduct(a, b) ==
  LET x == ExtractVec(a, 3)
      y == ExtractVec(b, 3)
      u == x.e
      w == y.e
      af(v) == LitE(Lit("abstract_float", v))
  IN CASE ~x.ok -> x
       [] ~y.ok -> y
       [] \A i \in 1 .. 3 : u[i].kind = "abstract_int" /\ w[i].kind = "abstract_int" ->
            OkE(ComposeE(a.size, <<af(u[2].v * w[3].v - u[3].v * w[2].v),
                                   af(u[3].v * w[1].v - u[1].v * w[3].v),
                                   af(u[1].v * w[2].v - u[2].v * w[1].v)>>))
       [] OTHER -> ErrE("InvalidMathArg")

(* array_length (GLSL only) of a ZeroValue or Compose of array type. *)
ArrayLength(e) ==
  CASE e.shape = "array" -> OkE(LitE(Lit("u32", e.size)))
    [] e.shape = "pending_array" -> ErrE("ArrayLengthOverridden")
    [] e.shape = "dynamic_array" -> ErrE("ArrayLengthDynamic")
    [] OTHER -> ErrE("InvalidArrayLengthArg")

(* cast_array: an array Compose is cast element by element, nested arrays *)
(* recursively, the first error returned; anything else goes to cast.     *)
RECURSIVE CastArray(_, _)
CastArray(e, t) ==
  IF e.shape # "array" THEN CastE(e, t)
  ELSE LET rs == [i \in DOMAIN e.comps |-> CastArray(e.comps[i], t)]
       IN IF \A i \in DOMAIN rs : rs[i].ok
          THEN OkE(ArrayE(e.size, [i \in DOMAIN rs |-> rs[i].e]))
          ELSE FirstFailure(rs)

(* A ZeroValue expression of a scalar type, as an index operand. *)
ZeroE(k) == [shape |-> "zero", lit |-> Lit(k, 0), size |-> 1, comps |-> <<>>]

(* constant_index: a ZeroValue of an unsigned scalar type is 0, a u32     *)
(* Literal its value; anything else is InvalidAccessIndexTy (here -1).    *)
ConstantIndex(ix) ==
  CASE ix.shape = "zero" /\ ix.lit.kind \in {"u32", "u64"} -> 0
    [] ix.shape = "lit" /\ ix.lit.kind = "u32"              -> ix.lit.v
    [] OTHER                                               -> -1

(* flatten_compose: a vector Compose yields its leaves, vector operands   *)
(* expanded; any other Compose (an array) its components as written.      *)
FlattenCompose(e) ==
  IF e.shape = "array" THEN e.comps
  ELSE [i \in DOMAIN Flatten(e) |-> LitE(Flatten(e)[i])]

(* Mutant: the components as written, without flatten_compose. *)
AccessUnflattened(base, i) ==
  IF i < Len(base.comps) THEN OkE(base.comps[i + 1]) ELSE ErrE("InvalidAccessIndex")

(* access's Compose arm: the index-th component of flatten_compose, or    *)
(* InvalidAccessIndex past the end.                                       *)
AccessCompose(base, i) ==
  IF i < Len(FlattenCompose(base)) THEN OkE(FlattenCompose(base)[i + 1])
  ELSE ErrE("InvalidAccessIndex")

(* try_eval_and_append_impl's Access arm: access(base,                    *)
(* constant_index(index)?): the index is checked first; a base that is     *)
(* not a Compose (a Literal here) is InvalidAccessBase.                    *)
AccessE(base, ix) ==
  CASE ConstantIndex(ix) < 0                  -> ErrE("InvalidAccessIndexTy")
    [] base.shape \notin {"compose", "array"} -> ErrE("InvalidAccessBase")
    [] OTHER                                  -> AccessCompose(base, ConstantIndex(ix))

(* Types for ZeroValue: scalars, vectors and matrices of a kind, arrays of *)
(* a constant size, runtime-sized and override-sized arrays, and structs   *)
(* (elems: the member types, or the element type).                         *)
ScalarT(k) == [tag |-> "scalar", kind |-> k, size |-> 1, elems |-> <<>>]
VectorT(n, k) == [tag |-> "vector", kind |-> k, size |-> n, elems |-> <<>>]
MatrixT(c, r, k) == [tag |-> "matrix", kind |-> k, size |-> c, elems |-> <<VectorT(r, k)>>]
ArrayT(n, base) == [tag |-> "array", kind |-> "none", size |-> n, elems |-> <<base>>]
UnsizedArrayT(tag, base) == [tag |-> tag, kind |-> "none", size |-> 0, elems |-> <<base>>]
StructT(ms) == [tag |-> "struct", kind |-> "none", size |-> Len(ms), elems |-> ms]

MatrixE(c, cs) == [shape |-> "matrix", lit |-> NoLit, size |-> c, comps |-> cs]
StructE(cs) == [shape |-> "struct", lit |-> NoLit, size |-> Len(cs), comps |-> cs]

(* n copies of the one element handle: vec![el; n]. *)
Copies(el, n) == [i \in 1 .. n |-> el]

RECURSIVE ZeroValueImpl(_), ZeroValueStructSkipping(_)

(* Mutant: a struct member that fails is left out instead of returned. *)
ZeroValueStructSkipping(ty) ==
  LET el == ZeroValueStructSkipping(IF ty.tag = "vector" THEN ScalarT(ty.kind) ELSE ty.elems[1])
      ok == SelectSeq([i \in DOMAIN ty.elems |-> ZeroValueStructSkipping(ty.elems[i])], LAMBDA x : x.ok)
  IN CASE ty.tag = "scalar" -> OkE(LitE(Lit(ty.kind, 0)))
       [] ty.tag \in {"vector", "matrix", "array"} /\ ~el.ok -> el
       [] ty.tag = "vector" -> OkE(ComposeE(ty.size, Copies(el.e, ty.size)))
       [] ty.tag = "matrix" -> OkE(MatrixE(ty.size, Copies(el.e, ty.size)))
       [] ty.tag = "array" -> OkE(ArrayE(ty.size, Copies(el.e, ty.size)))
       [] ty.tag = "struct" -> OkE(StructE([i \in DOMAIN ok |-> ok[i].e]))
       [] OTHER -> ErrE("TypeNotConstructible")

(* eval_zero_value_impl: a scalar's Literal::zero; a vector, matrix or     *)
(* constant-size array Compose of copies of its element's zero value; a    *)
(* struct Compose of its members' zero values, the first error returned;   *)
(* TypeNotConstructible for anything else (runtime-sized or override-sized *)
(* arrays).                                                                *)
ZeroValueImpl(ty) ==
  LET el == ZeroValueImpl(IF ty.tag = "vector" THEN ScalarT(ty.kind) ELSE ty.elems[1])
      ms == [i \in DOMAIN ty.elems |-> ZeroValueImpl(ty.elems[i])]
  IN CASE ty.tag = "scalar" -> OkE(LitE(Lit(ty.kind, 0)))
       [] ty.tag \in {"vector", "matrix", "array"} /\ ~el.ok -> el
       [] ty.tag = "vector" -> OkE(ComposeE(ty.size, Copies(el.e, ty.size)))
       [] ty.tag = "matrix" -> OkE(MatrixE(ty.size, Copies(el.e, ty.size)))
       [] ty.tag = "array" -> OkE(ArrayE(ty.size, Copies(el.e, ty.size)))
       [] ty.tag = "struct" ->
            IF \A i \in DOMAIN ms : ms[i].ok
            THEN OkE(StructE([i \in DOMAIN ms |-> ms[i].e]))
            ELSE FirstFailure(ms)
       [] OTHER -> ErrE("TypeNotConstructible")

(* binary_op on the lowered operands: a Compose (of any type) and a      *)
(* literal broadcast the literal over the Compose's components as written, *)
(* each through binary_op again; two Composes of vector type and equal size *)
(* are flattened, zipped and handed to binary_op_vector.                   *)
RECURSIVE BinaryE(_, _, _), BinaryEach(_, _, _)

IsCompose(e) == e.shape \in {"compose", "array"}

ZipLength(a, b) == IF Len(a) <= Len(b) THEN Len(a) ELSE Len(b)

(* Mutant: the components zipped as written, without flatten_compose. *)
BinaryVectorPairsUnflattened(l, r) ==
  [i \in 1 .. ZipLength(l.comps, r.comps) |-> <<l.comps[i], r.comps[i]>>]

(* left_flattened.zip(right_flattened). *)
BinaryVectorPairs(l, r) ==
  LET lf == Flatten(l)
      rf == Flatten(r)
  IN [i \in 1 .. ZipLength(lf, rf) |-> <<LitE(lf[i]), LitE(rf[i])>>]

(* binary_op_vector: LogicalAnd and LogicalOr are not supported on vectors; *)
(* every other operator maps binary_op over the pairs.                    *)
BinaryOpVector(op, pairs, n) ==
  IF op \in {"LogicalAnd", "LogicalOr"} THEN ErrE("InvalidBinaryOpArgs")
  ELSE BinaryEach(op, pairs, ComposeE(n, <<>>))

BinaryE(op, l, r) ==
  CASE l.shape = "lit" /\ r.shape = "lit" ->
         LET x == BinaryLiteral(op, l.lit, r.lit)
         IN IF x.ok THEN OkE(LitE(x.lit)) ELSE ErrE(x.err)
    [] IsCompose(l) /\ r.shape = "lit" -> BinaryEach(op, [i \in DOMAIN l.comps |-> <<l.comps[i], r>>], l)
    [] l.shape = "lit" /\ IsCompose(r) -> BinaryEach(op, [i \in DOMAIN r.comps |-> <<l, r.comps[i]>>], r)
    [] l.shape = "compose" /\ r.shape = "compose" /\ l.size = r.size ->
         BinaryOpVector(op, BinaryVectorPairs(l, r), l.size)
    [] OTHER -> ErrE("InvalidBinaryOpArgs")

(* binary_op over each pair, the first error returned (`?`, and collect   *)
(* into a Result); the Compose keeps the shape of `like`.                  *)
BinaryEach(op, pairs, like) ==
  LET rs == [i \in DOMAIN pairs |-> BinaryE(op, pairs[i][1], pairs[i][2])]
  IN IF \A i \in DOMAIN rs : rs[i].ok
     THEN OkE([like EXCEPT !.comps = [i \in DOMAIN rs |-> rs[i].e]])
     ELSE FirstFailure(rs)

------------------------------------------------------------------------------
(* The evaluator as a sequence of calls.  Each step is one call of         *)
(* binary_op, math, packed_dot_product or cast on literal operands, of the *)
(* operand kinds the caller passes (binary_op's operands are one kind, or  *)
(* a u32 shift amount; math's operands are one kind).                      *)

CONSTANTS
  BinOps,     \* binary operators given to binary_op
  MathFuns,   \* math functions given to math (besides the packed dots)
  MathKinds,  \* literal kinds given to math
  DotFuns,    \* the packed dot builtins given to math
  VecSizes,   \* vector sizes given to select, relational, swizzle and cast
  NestedSelect  \* whether select's operands include vectors written from vec2s

UnaryOps == {"Negate", "LogicalNot", "BitwiseNot"}

AllKinds == {"i32", "u32", "i64", "u64", "abstract_int", "bool"}

None == [call |-> "none", op |-> "none", args |-> <<>>, res |-> Err("none")]

Call(c, op, args, res) == [call |-> c, op |-> op, args |-> args, res |-> res]

BinaryInputs(op) ==
  {lr \in LiteralsOf(BinKinds) \X LiteralsOf(BinKinds) :
      lr[1].kind = lr[2].kind \/ (op \notin Comparisons /\ lr[2].kind = "u32")}

Init == last = None

EvalBinary(op) ==
  /\ last = None
  /\ \E lr \in BinaryInputs(op) :
      last' = Call("binary", op, lr, BinaryLiteral(op, lr[1], lr[2]))

EvalMath(f) ==
  /\ last = None
  /\ \E k \in MathKinds :
    \E args \in [1 .. Arity(f) -> LiteralsOf({k})] :
      last' = Call("math", f, args, MathLiteral(f, args))

EvalPackedDot(f) ==
  /\ last = None
  /\ \E args \in [1 .. 2 -> LiteralsOf(MathKinds)] :
    last' = Call("math", f, args, PackedDotLiteral(f, args))

EvalUnary(op) ==
  /\ last = None
  /\ \E l \in LiteralsOf(UnaryKinds) :
       last' = Call("unary", op, <<l>>, UnaryLiteral(op, l))

EvalCast ==
  /\ last = None
  /\ \E l \in LiteralsOf(CastKinds), t \in CastKinds :
    last' = Call("cast", t, <<l>>, CastLiteral(l, t))

(* Vector operands: every way of writing a vector of a size in VecSizes   *)
(* from scalars and vec2s, with given leaves.                             *)
Shapes == {s \in {<<1, 1>>, <<1, 1, 1>>, <<2, 1>>, <<1, 2>>, <<1, 1, 1, 1>>,
                  <<2, 2>>, <<2, 1, 1>>, <<1, 2, 1>>, <<1, 1, 2>>} :
             (IF Len(s) = 2 THEN s[1] + s[2] ELSE IF Len(s) = 3 THEN s[1] + s[2] + s[3] ELSE 4)
               \in VecSizes}

RECURSIVE Offset(_, _)
Offset(s, i) == IF i = 1 THEN 0 ELSE Offset(s, i - 1) + s[i - 1]

ShapeSize(s) == Offset(s, Len(s)) + s[Len(s)]

Build(s, leaves) ==
  ComposeE(Len(leaves),
           [i \in DOMAIN s |-> IF s[i] = 1 THEN LitE(leaves[Offset(s, i) + 1])
                               ELSE ComposeE(2, [j \in 1 .. 2 |-> LitE(leaves[Offset(s, i) + j])])])

Filled(k, v) == {Build(s, [i \in 1 .. ShapeSize(s) |-> Lit(k, v)]) : s \in Shapes}

(* Leaves first - 1, first, first + 1, ...: distinct values. *)
Counting(k, first) == {Build(s, [i \in 1 .. ShapeSize(s) |-> Lit(k, first + i - 1)]) : s \in Shapes}

BoolVectors ==
  UNION {{Build(s, f) : f \in [1 .. ShapeSize(s) -> LiteralsOf({"bool"})]} : s \in Shapes}

ScalarOperands(ks) == {LitE(l) : l \in {Lit(k, 1) : k \in ks}}

SelectOperands(es) == {e \in es : NestedSelect \/ FlatOperand(e)}

EvalSelect ==
  /\ last = None
  /\ \E reject \in SelectOperands(Filled("i32", 0) \cup {LitE(Lit("i32", 0))}),
       accept \in SelectOperands(Filled("i32", 1) \cup {LitE(Lit("i32", 1))}),
       cond \in SelectOperands(BoolVectors \cup {LitE(Lit("bool", 0))} \cup ScalarOperands({"bool", "i32"})) :
       last' = Call("vector", "select", <<reject, accept, cond>>, Select(reject, accept, cond))

EvalRelational(fun) ==
  /\ last = None
  /\ \E arg \in BoolVectors \cup Counting("i32", 0) \cup ScalarOperands({"bool", "i32"}) :
       last' = Call("vector", fun, <<arg>>, Relational(fun, arg))

EvalSwizzle(size) ==
  /\ last = None
  /\ \E pattern \in [1 .. size -> 0 .. 3], src \in Counting("i32", 0) \cup ScalarOperands({"i32"}) :
       last' = Call("vector", "swizzle", <<src, pattern>>, Swizzle(size, pattern, src))

EvalCastVector ==
  /\ last = None
  /\ \E e \in Counting("abstract_int", -1) \cup Counting("i32", -1), t \in CastKinds :
       last' = Call("vector", "cast", <<e, t>>, CastE(e, t))

(* cross's operands are vec3s (the WGSL front-end resolves the overload   *)
(* before folding).                                                       *)
EvalCross ==
  /\ last = None
  /\ \E a, b \in {e \in Counting("abstract_int", -1) \cup Counting("abstract_int", 1)
                          \cup Counting("i32", 0) : e.size = 3} :
       last' = Call("vector", "cross", <<a, b>>, CrossProduct(a, b))

(* Arrays of two scalars, of two vec2s (written flat or not), of two      *)
(* such arrays, and the arrays of non-constant size.                      *)
Arrays(k, first) ==
  LET elems == {LitE(Lit(k, first))} \cup {v \in Counting(k, first) : v.size = 2}
      inner == {ArrayE(2, <<e, e>>) : e \in elems}
  IN inner \cup {ArrayE(2, <<i, i>>) : i \in inner}

EvalArrayLength ==
  /\ last = None
  /\ \E e \in Arrays("i32", 0) \cup {PendingArray, DynamicArray} \cup Counting("i32", 0)
              \cup ScalarOperands({"u32"}) :
       last' = Call("vector", "arrayLength", <<e>>, ArrayLength(e))

EvalCastArray ==
  /\ last = None
  /\ \E e \in Arrays("abstract_int", -1) \cup Arrays("i32", -1) \cup Counting("i32", -1),
       t \in CastKinds :
       last' = Call("vector", "cast_array", <<e, t>>, CastArray(e, t))

(* Index operands: u32 literals up to one past a vec4, and literals and   *)
(* ZeroValues of other integer kinds. *)
IndexOperands ==
  {LitE(Lit("u32", v)) : v \in 0 .. 4} \cup {LitE(Lit(k, 1)) : k \in {"i32", "u64", "abstract_int"}}
    \cup {ZeroE(k) : k \in {"u32", "u64", "i32"}}

EvalAccess ==
  /\ last = None
  /\ \E base \in Counting("i32", 0) \cup Arrays("i32", 0) \cup ScalarOperands({"u32"}),
       ix \in IndexOperands :
       last' = Call("vector", "access", <<base, ix>>, AccessE(base, ix))

(* Types to take the zero value of: every arm, nested two deep. *)
ZeroTypes ==
  LET leaf == {ScalarT("i32"), ScalarT("bool"), VectorT(2, "u32"), MatrixT(2, 3, "abstract_float")}
      unsized == {UnsizedArrayT(t, ScalarT("i32")) : t \in {"dynamic_array", "pending_array"}}
      one == leaf \cup unsized \cup {ArrayT(2, b) : b \in leaf}
  IN one \cup {ArrayT(2, b) : b \in unsized} \cup {StructT(<<a, b>>) : a \in leaf, b \in one}

EvalZeroValue ==
  /\ last = None
  /\ \E ty \in ZeroTypes :
       last' = Call("vector", "zero_value", <<ty>>, ZeroValueImpl(ty))

(* Operands of binary_op: vectors of i32 and u32 written every way, bool *)
(* vectors, an i32 array, and scalar literals.                           *)
BinaryOperands ==
  Counting("i32", 1) \cup Counting("u32", 0) \cup Filled("bool", 1)
    \cup {ArrayE(2, <<LitE(Lit("i32", 1)), LitE(Lit("i32", 2))>>)}
    \cup {LitE(Lit(k, v)) : k \in {"i32", "u32"}, v \in 0 .. 1} \cup {LitE(Lit("bool", 1))}

EvalBinaryE(op) ==
  /\ last = None
  /\ \E l, r \in BinaryOperands :
       last' = Call("vector", "binary", <<op, l, r>>, BinaryE(op, l, r))

(* The result is handed back to the caller, which evaluates the next     *)
(* expression.                                                            *)
Return ==
  /\ last # None
  /\ last' = None

Next ==
  \/ Return
  \/ \E op \in BinOps : EvalBinary(op)
  \/ \E f \in MathFuns : EvalMath(f)
  \/ \E f \in DotFuns : EvalPackedDot(f)
  \/ \E op \in UnaryOps : EvalUnary(op)
  \/ EvalCast
  \/ EvalSelect
  \/ \E fun \in {"All", "Any"} : EvalRelational(fun)
  \/ \E size \in VecSizes : EvalSwizzle(size)
  \/ EvalCastVector
  \/ EvalCross
  \/ EvalArrayLength
  \/ EvalCastArray
  \/ EvalAccess
  \/ EvalZeroValue
  \/ \E op \in BinOps : EvalBinaryE(op)

Spec == Init /\ [][Next]_last

------------------------------------------------------------------------------
(* Reference definitions, written from the rules spec.md states (section  *)
(* 4, binary operators and casts; section 8, the first-bit truth tables)   *)
(* in terms of the mathematical value, not of bit tricks.                  *)

(* The operator table: which operand kinds each operator accepts. *)
Arith == {"Add", "Subtract", "Multiply", "Divide", "Modulo"}
Bits == {"And", "ExclusiveOr", "InclusiveOr"}
Shifts == {"ShiftLeft", "ShiftRight"}

Accepts(op, kl, kr) ==
  \/ op \in Comparisons /\ kl = kr
  \/ op \in Arith \cup Bits /\ kl = kr /\ kl \in {"i32", "u32", "abstract_int"}
  \/ op \in Shifts /\ kr = "u32" /\ kl \in {"i32", "u32", "abstract_int"}
  \/ op \in {"LogicalAnd", "LogicalOr"} /\ kl = "bool" /\ kr = "bool"

(* Signed 32-bit arithmetic wraps; everything else is checked: the exact  *)
(* result, or Overflow when it does not fit.                              *)
Exact(k, x) ==
  IF k = "i32" THEN OkInt(k, Wrap(k, x))
  ELSE IF Fits(k, x) THEN OkInt(k, x) ELSE Err("Overflow")

RefBinary(op, l, r) ==
  LET k == l.kind
      a == l.v
      b == r.v
  IN CASE ~Accepts(op, k, r.kind) -> Err("InvalidBinaryOpArgs")
       [] op \in Comparisons \cup {"LogicalAnd", "LogicalOr"} \cup Bits -> BinaryLiteral(op, l, r)
       [] op = "Add" -> Exact(k, a + b)
       [] op = "Subtract" -> Exact(k, a - b)
       [] op = "Multiply" -> Exact(k, a * b)
       [] op = "Divide" -> IF b = 0 THEN Err("DivisionByZero") ELSE Exact(k, Quot(a, b))
       [] op = "Modulo" ->
            \* a remainder is checked with its quotient (checked_rem)
            IF b = 0 THEN Err("RemainderByZero")
            ELSE IF Exact(k, Quot(a, b)).ok THEN Exact(k, a - b * Quot(a, b))
            ELSE Err("Overflow")
       [] b >= Width(k) -> Err("ShiftedMoreThan32Bits")
       [] op = "ShiftLeft" -> IF Fits(k, a * 2 ^ b) THEN OkInt(k, a * 2 ^ b) ELSE Err("Overflow")
       [] op = "ShiftRight" -> OkInt(k, a \div 2 ^ b)

(* A shift of a signed value by its width or more. *)
PastWidthShift(op, l, r) ==
  op \in Shifts /\ r.kind = "u32" /\ Signed(l.kind) /\ r.v >= Width(l.kind)

(* Casts: abstract to concrete is exact or AutomaticConversionLossy; to   *)
(* bool is != 0; same-width conversions reinterpret the bits; narrowing   *)
(* saturates; widening keeps the low bits of the sign-extended value.     *)
Narrowing(k, t) ==
  k \in {"i64", "u64"} /\ t \in {"i32", "u32", "bool"}

RefCast(l, t) ==
  LET k == l.kind
      v == l.v
  IN CASE t = "abstract_int" -> IF k = t THEN Ok(l) ELSE Err("InvalidCastArg")
       [] t = "bool" -> Ok(Lit("bool", IF v = 0 THEN 0 ELSE 1))
       [] k = "abstract_int" -> IF Fits(t, v) THEN OkInt(t, v) ELSE Err("AutomaticConversionLossy")
       [] k = "bool" -> OkInt(t, IF v = 0 THEN 0 ELSE 1)
       [] Narrowing(k, t) -> OkInt(t, IF v < MinOf(t) THEN MinOf(t) ELSE IF v > MaxOf(t) THEN MaxOf(t) ELSE v)
       [] OTHER -> OkInt(t, Wrap(t, v))

(* Bit positions by value: the highest and the lowest set bit of p > 0. *)
HighestOne(p) == CHOOSE i \in 0 .. W64 : 2 ^ i <= p /\ p < 2 ^ (i + 1)
LowestOne(p) == CHOOSE i \in 0 .. W64 : p % 2 ^ (i + 1) = 2 ^ i

NoBit(k) == IF k = "u32" THEN MaxOf("u32") ELSE -1

(* firstTrailingBit: the lowest set bit, or all ones for 0. *)
RefFirstTrailingBit(k, v) == IF v = 0 THEN NoBit(k) ELSE LowestOne(Pattern(k, v))

(* firstLeadingBit: the highest bit that differs from the sign bit (the   *)
(* highest set bit when unsigned), or all ones when there is none.        *)
RefFirstLeadingBit(k, v) ==
  CASE v = 0 \/ (k = "i32" /\ v = -1) -> NoBit(k)
    [] v > 0 -> HighestOne(v)
    [] OTHER -> HighestOne(-v - 1)

RefMath(f, args) ==
  LET k == args[1].kind
      vs == {args[i].v : i \in DOMAIN args}
      a == args[1].v
      p == Pattern(k, a)
  IN CASE f \in {"Abs", "Min", "Max", "Clamp"} /\ k \notin ScalarIntKinds -> Err("InvalidMathArg")
       [] f = "Abs" -> OkInt(k, Wrap(k, AbsInt(a)))
       [] f = "Min" -> OkInt(k, CHOOSE x \in vs : \A y \in vs : x <= y)
       [] f = "Max" -> OkInt(k, CHOOSE x \in vs : \A y \in vs : x >= y)
       [] f = "Clamp" ->
            IF args[2].v > args[3].v THEN Err("InvalidClamp")
            ELSE OkInt(k, CHOOSE x \in args[2].v .. args[3].v :
                            \A y \in args[2].v .. args[3].v : AbsInt(x - a) <= AbsInt(y - a))
       [] f = "Sign" /\ k \notin SignedIntKinds -> Err("InvalidMathArg")
       [] f = "Sign" -> OkInt(k, IF a = 0 THEN 0 ELSE a \div AbsInt(a))
       [] k \notin ConcreteIntKinds -> Err("InvalidMathArg")
       [] f = "CountTrailingZeros" -> OkInt(k, IF p = 0 THEN W32 ELSE LowestOne(p))
       [] f = "CountLeadingZeros" -> OkInt(k, IF p = 0 THEN W32 ELSE W32 - 1 - HighestOne(p))
       [] f = "CountOneBits" -> OkInt(k, Cardinality({i \in 0 .. W32 - 1 : Bit(p, i) = 1}))
       [] f = "ReverseBits" ->
            OkInt(k, CHOOSE x \in Values(k) : \A i \in 0 .. W32 - 1 :
                                 Bit(Pattern(k, x), i) = Bit(p, W32 - 1 - i))
       [] f = "FirstTrailingBit" -> OkInt(k, RefFirstTrailingBit(k, a))
       [] f = "FirstLeadingBit" -> OkInt(k, RefFirstLeadingBit(k, a))

(* The lanes of a packed u32 as digits in base 2^Lane, and their value   *)
(* as Lane-bit two's complement numbers.                                 *)
Digit(a, i) == (a % 2 ^ (Lane * (i + 1))) \div 2 ^ (Lane * i)

SignedDigit(a, i) ==
  CHOOSE x \in -(2 ^ (Lane - 1)) .. 2 ^ (Lane - 1) - 1 : (x - Digit(a, i)) % 2 ^ Lane = 0

RefPackedDot(f, args) ==
  LET a == args[1].v
      b == args[2].v
      signed == f = "Dot4I8Packed"
      lane(x, i) == IF signed THEN SignedDigit(x, i) ELSE Digit(x, i)
      RECURSIVE sum(_)
      sum(n) == IF n = 0 THEN 0 ELSE lane(a, n - 1) * lane(b, n - 1) + sum(n - 1)
  IN IF args[1].kind = "u32" /\ args[2].kind = "u32"
     THEN OkInt(IF signed THEN "i32" ELSE "u32", sum(4))
     ELSE Err("InvalidMathArg")

(* Vector operations by their leaves: select picks leaf i of accept where  *)
(* leaf i of the condition (or the scalar condition) is true, else leaf i  *)
(* of reject, for operands WGSL types accept: equal sizes, a bool scalar   *)
(* or a bool vector of the same size as the condition.                     *)
ValidSelect(r, a, c) ==
  \/ r.shape = "lit" /\ a.shape = "lit" /\ IsBoolLit(c)
  \/ /\ r.shape = "compose" /\ a.shape = "compose" /\ r.size = a.size
     /\ IsBoolLit(c) \/ (c.shape = "compose" /\ KindOf(c) = "bool" /\ c.size = r.size)

RefSelect(r, a, c) ==
  LET fc == IF IsBoolLit(c) THEN [i \in 1 .. Len(Flatten(r)) |-> c.lit] ELSE Flatten(c)
  IN [i \in 1 .. Len(Flatten(r)) |-> IF fc[i].v = 1 THEN Flatten(a)[i] ELSE Flatten(r)[i]]

SelectMatches(args, res) ==
  res.ok /\ Flatten(res.e) = RefSelect(args[1], args[2], args[3]) /\ res.e.size = args[1].size

RefSwizzle(size, pattern, src) ==
  IF \A i \in 1 .. size : pattern[i] < src.size
  THEN [i \in 1 .. size |-> Flatten(src)[pattern[i] + 1]]
  ELSE <<>>

(* cross(a, b)[i] = a[j] b[k] - a[k] b[j] for (i, j, k) a cyclic order of *)
(* 1, 2, 3; defined for AbstractInt vec3s (converted to AbstractFloat).   *)
RefCross(a, b) ==
  LET u == Flatten(a)
      w == Flatten(b)
      nx(i) == (i % 3) + 1
  IN IF \A i \in 1 .. 3 : u[i].kind = "abstract_int" /\ w[i].kind = "abstract_int"
     THEN [i \in 1 .. 3 |-> Lit("abstract_float", u[nx(i)].v * w[nx(nx(i))].v - u[nx(nx(i))].v * w[nx(i)].v)]
     ELSE <<>>

------------------------------------------------------------------------------
(* Properties. *)

(* Every result is a literal of its kind holding a value of its type: the *)
(* code's arithmetic never produces an out-of-range value (in particular  *)
(* packed_dot_product's lane sums, which the code adds without a check).  *)
(* A vector result has exactly as many leaves as its type's size.          *)
TypeOK ==
  /\ last.call \in {"none", "unary", "binary", "math", "cast", "vector"}
  /\ last.call # "none" /\ ~last.res.ok => last.res.err \in ConstantEvaluatorError \cup {"panic"}
  /\ last.call # "vector" =>
       /\ last.res.ok => last.res.lit.kind \in AllKinds /\ last.res.lit.v \in Values(last.res.lit.kind)
       /\ ~last.res.ok => last.res.lit = NoLit
  /\ last.call = "vector" /\ last.res.ok =>
       /\ \A i \in DOMAIN Flatten(last.res.e) :
            Flatten(last.res.e)[i].v \in Values(Flatten(last.res.e)[i].kind)
       /\ last.res.e.shape = "compose" => Len(Flatten(last.res.e)) = last.res.e.size

(* binary_op on two literals gives what section 4 of the spec defines:    *)
(* wrapping i32 add/sub/mul, checked everything else, distinct zero-      *)
(* divisor errors, Overflow exactly when a shift left loses bits (the     *)
(* leading_zeros test of the code), for every shift short of the width.   *)
BinaryMatchesReference ==
  last.call = "binary" /\ ~PastWidthShift(last.op, last.args[1], last.args[2])
    => last.res = RefBinary(last.op, last.args[1], last.args[2])

(* The integer math builtins (abs/min/max/clamp/sign, the bit counts,     *)
(* reverseBits, firstTrailingBit and firstLeadingBit through the code's   *)
(* leading_ones / 31 - idx / u32::MAX mappings) give the value their      *)
(* definition by bit positions gives.                                     *)
MathMatchesReference ==
  last.call = "math" /\ last.op \in MathFuns
    => last.res = RefMath(last.op, last.args)

(* packed_dot_product's shifts, masks and `as i8` casts compute the dot   *)
(* product of the four lanes read as (signed) base-2^Lane digits.         *)
PackedDotMatchesReference ==
  last.call = "math" /\ last.op \in DotFuns
    => last.res = RefPackedDot(last.op, last.args)

(* cast agrees with the conversion rules of spec section 4 wherever no    *)
(* 64-bit value is narrowed: try_from_abstract is exact-or-error, bool is *)
(* != 0, and same-width or widening casts keep the bits.  (Where a 64-bit *)
(* value is narrowed, the spec says the cast saturates; the code's cast   *)
(* arms return InvalidCastArg.)                                           *)
CastMatchesConversionRules ==
  last.call = "cast" /\ ~Narrowing(last.args[1].kind, last.op)
    => last.res = RefCast(last.args[1], last.op)

(* Spec section 4: a shift by the width or more is an error ("shifted >=  *)
(* 32 bits" for i32, and abstract-int shifts use "the same error          *)
(* taxonomy" over 64 bits).  Which error is left open: the leading_zeros  *)
(* test of << reports Overflow first, as the spec's overflow rule allows. *)
(* The code's AbstractInt >> past the width, checked_shr(..).unwrap_or(0),*)
(* returns a value instead.                                               *)
ShiftPastWidthRejected ==
  last.call = "binary" /\ PastWidthShift(last.op, last.args[1], last.args[2])
    => ~last.res.ok

(* unary_op on a literal never panics, also on MIN (spec: integer negate  *)
(* and bitwise-not wrap): the negation of v is the value that adds to v   *)
(* to 0, and its bitwise complement the one that adds to v to -1, modulo  *)
(* 2^width; LogicalNot flips a bool; any other pairing of operator and    *)
(* kind (a negated u32, a complemented bool) is InvalidUnaryOpArg.         *)
UnaryMatchesReference ==
  last.call = "unary" =>
    LET k == last.args[1].kind
        v == last.args[1].v
        inverse(d) == CHOOSE x \in Values(k) : (x + v + d) % 2 ^ Width(k) = 0
    IN last.res =
         CASE last.op = "Negate" /\ Signed(k) -> OkInt(k, inverse(0))
           [] last.op = "BitwiseNot" /\ k # "bool" -> OkInt(k, inverse(1))
           [] last.op = "LogicalNot" /\ k = "bool" -> Ok(Lit(k, IF v = 0 THEN 1 ELSE 0))
           [] OTHER -> Err("InvalidUnaryOpArg")

(* The vector and array operations (swizzle, relational All/Any, cast of *)
(* a Compose, cast_array, cross, array_length, access, select of literal-  *)
(* component vectors) act leaf by leaf on the flattened operands: access   *)
(* with a u32 (or unsigned zero) index n gives leaf n of a vector and      *)
(* element n of an array, whatever vec2s the vector was written from, and  *)
(* fails exactly when n is past the type's size; swizzle fails             *)
(* exactly when an index is outside the vector, a cast fails exactly when  *)
(* some leaf's cast does, cross gives the cyclic cross product of the      *)
(* leaves, array_length the element count of a constant-size array, and    *)
(* select picks leaves as RefSelect says.                                  *)
(* A type has a zero value unless some part of it is a runtime-sized or  *)
(* override-sized array; its leaves are that many zero literals.         *)
RECURSIVE Constructible(_), ZeroLeaves(_), ZeroLeavesOf(_, _)
Constructible(ty) ==
  /\ ty.tag \notin {"dynamic_array", "pending_array"}
  /\ \A i \in DOMAIN ty.elems : Constructible(ty.elems[i])
ZeroLeaves(ty) ==
  CASE ty.tag = "scalar" -> <<Lit(ty.kind, 0)>>
    [] ty.tag = "vector" -> [i \in 1 .. ty.size |-> Lit(ty.kind, 0)]
    [] ty.tag = "struct" -> ZeroLeavesOf(ty.elems, 1)
    [] OTHER -> ZeroLeavesOf([i \in 1 .. ty.size |-> ty.elems[1]], 1)
ZeroLeavesOf(ts, i) == IF i > Len(ts) THEN <<>> ELSE ZeroLeaves(ts[i]) \o ZeroLeavesOf(ts, i + 1)

VectorOpsMatchReference ==
  last.call = "vector" =>
    LET a == last.args
        r == last.res
    IN CASE last.op = "select" ->
              ValidSelect(a[1], a[2], a[3]) /\ FlatOperand(a[1]) /\ FlatOperand(a[2])
                /\ FlatOperand(a[3]) => SelectMatches(a, r)
         [] last.op = "swizzle" ->
              a[1].shape = "compose" =>
                /\ r.ok = (RefSwizzle(Len(a[2]), a[2], a[1]) # <<>>)
                /\ r.ok => Flatten(r.e) = RefSwizzle(Len(a[2]), a[2], a[1])
         [] last.op \in {"All", "Any"} ->
              r.ok /\ a[1].shape = "compose" =>
                r.e.lit.v = AsBool(IF last.op = "All" THEN ~\E i \in DOMAIN Flatten(a[1]) : Flatten(a[1])[i].v = 0
                                                     ELSE \E i \in DOMAIN Flatten(a[1]) : Flatten(a[1])[i].v = 1)
         [] last.op = "cross" ->
              /\ r.ok = (RefCross(a[1], a[2]) # <<>>)
              /\ r.ok => Flatten(r.e) = RefCross(a[1], a[2])
         [] last.op = "access" ->
              LET n == a[2].lit.v
                  unsigned == a[2].lit.kind = "u32" \/ (a[2].shape = "zero" /\ a[2].lit.kind = "u64")
              IN CASE ~unsigned -> r = ErrE("InvalidAccessIndexTy")
                   [] a[1].shape = "lit" -> r = ErrE("InvalidAccessBase")
                   [] a[1].shape = "array" ->
                        /\ r.ok = (n < a[1].size)
                        /\ r.ok => r.e = a[1].comps[n + 1]
                   [] OTHER ->
                        /\ r.ok = (n < a[1].size)
                        /\ r.ok => r.e = LitE(Flatten(a[1])[n + 1])
         [] last.op = "arrayLength" ->
              /\ r.ok = (a[1].shape = "array")
              /\ r.ok => r.e.lit = Lit("u32", Len(a[1].comps))
         [] last.op = "binary" ->
              LET op == a[1]
                  lf == Flatten(a[2])
                  rf == Flatten(a[3])
                  pairs == CASE a[2].shape = "lit" -> [i \in DOMAIN rf |-> <<lf[1], rf[i]>>]
                             [] a[3].shape = "lit" -> [i \in DOMAIN lf |-> <<lf[i], rf[1]>>]
                             [] OTHER -> [i \in DOMAIN lf |-> <<lf[i], rf[i]>>]
                  leaves == [i \in DOMAIN pairs |-> BinaryLiteral(op, pairs[i][1], pairs[i][2])]
                  bad == {i \in DOMAIN leaves : ~leaves[i].ok}
                  vectors == a[2].shape # "lit" /\ a[3].shape # "lit"
              IN IF vectors /\ ({a[2].shape, a[3].shape} # {"compose"} \/ Len(lf) # Len(rf)
                                \/ op \in {"LogicalAnd", "LogicalOr"})
                 THEN r = ErrE("InvalidBinaryOpArgs")
                 ELSE /\ r.ok = (bad = {})
                      /\ r.ok => Flatten(r.e) = [i \in DOMAIN leaves |-> leaves[i].lit]
                      /\ ~r.ok => \E i \in bad : r.err = leaves[i].err /\ \A j \in bad : i <= j
         [] last.op = "zero_value" ->
              /\ r.ok = Constructible(a[1])
              /\ r.ok => Flatten(r.e) = ZeroLeaves(a[1]) /\ r.e.size = a[1].size
              /\ ~r.ok => r.err = "TypeNotConstructible"
         [] last.op \in {"cast", "cast_array"} ->
              /\ r.ok = \A i \in DOMAIN Flatten(a[1]) : CastLiteral(Flatten(a[1])[i], a[2]).ok
              /\ r.ok => Flatten(r.e) = [i \in DOMAIN Flatten(a[1]) |-> CastLiteral(Flatten(a[1])[i], a[2]).lit]

(* WGSL's select takes any two vectors of one type and a bool condition;  *)
(* a vector written as vec4(vec2, vec2) is such an operand.  select zips  *)
(* the Compose components as written and reaches unreachable!() on a      *)
(* component that is itself a vector.                                     *)
SelectAcceptsNestedOperands ==
  last.call = "vector" /\ last.op = "select" /\ ValidSelect(last.args[1], last.args[2], last.args[3])
    => SelectMatches(last.args, last.res)

====
