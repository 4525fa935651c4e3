-------------------------------- MODULE FoldRules --------------------------------
(***************************************************************************)
(* The folding rules of the constant propagations and the semantics they   *)
(* are judged by, on integers of Width bits.                               *)
(***************************************************************************)
EXTENDS IR, Integers, Bitwise

CONSTANT Width
ASSUME WidthAssumption == Width \in Nat \ {0}

Words == 0 .. 2^Width - 1
Wrap(x) == x % 2^Width
Signed(a) == IF a >= 2^(Width - 1) THEN a - 2^Width ELSE a
InRange(x) == -(2^(Width - 1)) <= x /\ x < 2^(Width - 1)

Abs(x) == IF x < 0 THEN -x ELSE x

\* C's division: towards zero
Quotient(x, y) == LET q == Abs(x) \div Abs(y)
                  IN  IF (x < 0) = (y < 0) THEN q ELSE -q
Remainder(x, y) == x - y * Quotient(x, y)

(***************************************************************************)
(* llvm::APInt.  Its operations are total but for the divisions, which     *)
(* assert that the divisor is not zero; a shift by Width or more shifts    *)
(* every bit out.                                                          *)
(***************************************************************************)
Shl(a, b)  == IF b >= Width THEN 0 ELSE Wrap(a * 2^b)
LShr(a, b) == IF b >= Width THEN 0 ELSE a \div 2^b
AShr(a, b) == IF b >= Width THEN Wrap(IF Signed(a) < 0 THEN -1 ELSE 0)
              ELSE Wrap(Signed(a) \div 2^b)
SDiv(a, b) == IF b = 0 THEN Crash ELSE Wrap(Quotient(Signed(a), Signed(b)))
UDiv(a, b) == IF b = 0 THEN Crash ELSE a \div b

SolutionCases == {"Add", "Sub", "Mul", "SDiv", "UDiv", "Shl", "LShr", "AShr", "And", "Or", "Xor"}
BinaryOperators == SolutionCases \cup {"SRem", "URem"}

\* the operators that mean the same to APInt and to the language reference
Modular(op, a, b) ==
  CASE op = "Add" -> Wrap(a + b)
    [] op = "Sub" -> Wrap(a - b)
    [] op = "Mul" -> Wrap(a * b)
    [] op = "And" -> a & b
    [] op = "Or"  -> a | b
    [] op = "Xor" -> a ^^ b

(***************************************************************************)
(* The lambdas of buggyConstantPropagation (ch10): SDiv divides unchecked. *)
(***************************************************************************)
\* mutant: shifting by the width asserts
MutBuggyShiftAsserts(op, a, b) ==
  CASE op \in {"Shl", "LShr", "AShr"} /\ b >= Width -> Crash
    [] op = "SDiv" -> SDiv(a, b)
    [] op = "UDiv" -> IF b = 0 THEN None ELSE UDiv(a, b)
    [] op = "Shl"  -> Shl(a, b)
    [] op = "LShr" -> LShr(a, b)
    [] op = "AShr" -> AShr(a, b)
    [] OTHER -> Modular(op, a, b)

BuggyComputation(op, a, b) ==
  CASE op = "SDiv" -> SDiv(a, b)
    [] op = "UDiv" -> IF b = 0 THEN None ELSE UDiv(a, b)
    [] op = "Shl"  -> Shl(a, b)
    [] op = "LShr" -> LShr(a, b)
    [] op = "AShr" -> AShr(a, b)
    [] OTHER -> Modular(op, a, b)

(***************************************************************************)
(* The lambdas of solutionConstantPropagation (ch4) check both divisors.   *)
(***************************************************************************)
SolutionComputation(op, a, b) ==
  CASE op = "SDiv" -> IF b = 0 THEN None ELSE SDiv(a, b)
    [] op = "UDiv" -> IF b = 0 THEN None ELSE UDiv(a, b)
    [] op = "Shl"  -> Shl(a, b)
    [] op = "LShr" -> LShr(a, b)
    [] op = "AShr" -> AShr(a, b)
    [] OTHER -> Modular(op, a, b)

\* the rules of the one and of the other
FoldComputation(rules, op, a, b) ==
  IF rules = "solution" THEN SolutionComputation(op, a, b) ELSE BuggyComputation(op, a, b)

(***************************************************************************)
(* What executing "op a, b" yields according to LLVM's language reference. *)
(* nsw makes a signed overflow of Add, Sub, Mul or Shl poison; "ICmp" is   *)
(* "icmp ne".                                                              *)
(***************************************************************************)
Division == {"SDiv", "UDiv", "SRem", "URem"}
Shift    == {"Shl", "LShr", "AShr"}

Overflow(op, a, b) ==
  CASE op = "Add" -> ~InRange(Signed(a) + Signed(b))
    [] op = "Sub" -> ~InRange(Signed(a) - Signed(b))
    [] op = "Mul" -> ~InRange(Signed(a) * Signed(b))
    [] op = "Shl" -> ~InRange(Signed(a) * 2^b)
    [] OTHER -> FALSE

Undefined(op, a, b) ==
  \/ op \in Division /\ b \in {0, Poison}
  \/ op \in {"SDiv", "SRem"} /\ a \in {2^(Width - 1), Poison} /\ b = 2^Width - 1

Exact(op, a, b) ==
  CASE op = "SDiv" -> Wrap(Quotient(Signed(a), Signed(b)))
    [] op = "SRem" -> Wrap(Remainder(Signed(a), Signed(b)))
    [] op = "UDiv" -> a \div b
    [] op = "URem" -> a % b
    [] op = "Shl"  -> Wrap(a * 2^b)
    [] op = "LShr" -> a \div 2^b
    [] op = "AShr" -> Wrap(Signed(a) \div 2^b)
    [] op = "ICmp" -> IF a # b THEN 1 ELSE 0
    [] OTHER -> Modular(op, a, b)

LLVMEval(op, nsw, a, b) ==
  IF Undefined(op, a, b) THEN UB
  ELSE IF \/ Poison \in {a, b}
          \/ op \in Shift /\ b >= Width
          \/ nsw /\ Overflow(op, a, b)
       THEN Poison
       ELSE Exact(op, a, b)

(***************************************************************************)
(* ConstantExpr::get, which LocalConstPropPass (ch4/sccppass) calls: the   *)
(* value where there is one, and poison where there is none.               *)
(***************************************************************************)
ConstantExprGet(op, a, b) ==
  LET v == LLVMEval(op, FALSE, a, b) IN IF v = UB THEN Poison ELSE v
==================================================================================
