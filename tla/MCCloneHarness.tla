----------------------------- MODULE MCCloneHarness -----------------------------
(***************************************************************************)
(* Instances of CloneHarness: modules of two functions whose instructions  *)
(* fold to values that the next function has among its constants.          *)
(***************************************************************************)
EXTENDS CloneHarness, FoldRules

MCIns == 1 .. 4

I(op, a, b) == [op |-> op, nsw |-> FALSE, args |-> <<a, b>>, bbs |-> <<>>]
C(v) == ConstOp(v)
U(i) == UseOp(i)

Code1 == { [i \in 1 .. 2 |-> IF i = 1 THEN f ELSE s] :
             f \in { I("Shl", C(1), C(1)), I("SRem", C(3), C(2)), I("Sub", C(0), C(1)) },
             s \in { I("Add", U(1), C(1)), I("URem", U(1), C(2)), I("SDiv", C(2), U(1)) } }

Code2 == { [i \in 3 .. 4 |-> IF i = 3 THEN f ELSE s] :
             f \in { I("Add", C(2), C(3)), I("Xor", C(1), C(0)), I("URem", C(3), C(2)) },
             s \in { I("Mul", U(3), U(3)), I("UDiv", C(3), U(3)), I("Or", C(2), C(1)) } }

MCModules == {None, <<>>} \cup { <<c>> : c \in Code1 } \cup { <<c, d>> : c \in Code1, d \in Code2 }

Reference(op, a, b) == IF op \in SolutionCases THEN SolutionComputation(op, a, b) ELSE None

\* a sound implementation that supports more cases than the reference
Better(op, a, b) == ConstantExprGet(op, a, b)
================================================================================
