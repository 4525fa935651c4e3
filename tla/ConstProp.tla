------------------------------- MODULE ConstProp -------------------------------
(***************************************************************************)
(* solutionConstantPropagation of                                          *)
(* ch4/simple_cst_propagation/solution/populate_function.cpp, and its copy *)
(* buggyConstantPropagation of ch10/incorrect_optimization, which differs  *)
(* only in the rules.  These are the lambdas the code hands to             *)
(* visitBinary: the constant operator Computation.                         *)
(***************************************************************************)
EXTENDS Propagate

CONSTANTS
  Cases,                   \* the opcodes the switch has a case for
  Computation(_, _, _, _)  \* Computation(r, op, a, b): a Word, None or Crash

ASSUME CasesAssumption == Cases \subseteq BinaryOperator

ASSUME SSAAssumption == \A f \in Functions : DefinedBeforeUsed(f)

Rules == {"solution", "buggy"}

ASSUME ComputationAssumption ==
  \A r \in Rules, op \in Cases, a, b \in Word :
    LET v == Computation(r, op, a, b)
    IN  /\ v \in Word \cup {None, Crash}
        /\ v \in Word => \A nsw \in BOOLEAN : Refines(v, Eval(op, nsw, a, b))

VARIABLES
  rules,        \* whose propagation it is
  bb,           \* blocks of the traversal entered so far
  it,           \* position of the early-incremented iterator in the block
  madeChanges,  \* MadeChanges, and the value returned
  pc            \* "entry", "blocks", "instrs", "done" or "crashed"

vars == <<rules, fn, code, repl, bb, it, madeChanges, pc>>

Init == /\ PInit
        /\ rules \in Rules
        /\ bb = 0 /\ it = 1
        /\ madeChanges = FALSE
        /\ pc = "entry"

\* mutant: the blocks are visited in the order of the file
MutBBInFileOrder == fn.list[fn.layout[bb]]

BB == fn.list[fn.rpo[bb]]

(***************************************************************************)
(* visitBinary: only two ConstantInts are handed to the computation.       *)
(***************************************************************************)
\* mutant: the operands are swapped
MutVisitBinarySwapped(r, x) == IF BothConstant(x)
                            THEN Computation(r, x.op, x.args[2].val, x.args[1].val)
                            ELSE None

VisitBinary(r, x) == IF BothConstant(x)
                  THEN Computation(r, x.op, x.args[1].val, x.args[2].val)
                  ELSE None

NewConstant(r, x) == IF x.op \in Cases THEN VisitBinary(r, x) ELSE None

\* if (Foo.empty()) return false
SkipEmpty == /\ pc = "entry" /\ fn.layout = <<>>
             /\ pc' = "done"
             /\ UNCHANGED <<rules, fn, code, repl, bb, it, madeChanges>>

StartTraversal == /\ pc = "entry" /\ fn.layout # <<>>
                  /\ pc' = "blocks"
                  /\ UNCHANGED <<rules, fn, code, repl, bb, it, madeChanges>>

\* mutant: one block too many
MutEnterBlockPastEnd == /\ pc = "blocks" /\ bb <= Len(fn.rpo)
                        /\ bb' = bb + 1 /\ it' = 1
                        /\ pc' = "instrs"
                        /\ UNCHANGED <<rules, fn, code, repl, madeChanges>>

EnterBlock == /\ pc = "blocks" /\ bb < Len(fn.rpo)
              /\ bb' = bb + 1 /\ it' = 1
              /\ pc' = "instrs"
              /\ UNCHANGED <<rules, fn, code, repl, madeChanges>>

(***************************************************************************)
(* The body of the inner loop.  make_early_inc_range moves the iterator    *)
(* past an instruction before the body runs on it.                         *)
(***************************************************************************)
AtInstr == pc = "instrs" /\ it <= Len(BB)

\* mutants: the uses are not replaced; the iterator moves on only after the
\* body; MadeChanges is not set
MutFoldWithoutRAUW == /\ AtInstr
                      /\ LET i == BB[it]
                             v == NewConstant(rules, code[i])
                         IN  /\ v \notin {None, Crash}
                             /\ code' = EraseFromParent(code, i)
                             /\ repl' = [repl EXCEPT ![i] = v]
                      /\ it' = it + 1
                      /\ madeChanges' = TRUE
                      /\ UNCHANGED <<rules, fn, bb, pc>>

MutFoldLateIncrement == /\ AtInstr
                        /\ LET i == BB[it]
                               v == NewConstant(rules, code[i])
                           IN  v \notin {None, Crash} /\ Replace(i, v)
                        /\ madeChanges' = TRUE
                        /\ UNCHANGED <<rules, bb, it, pc>>

MutFoldUnreported == /\ AtInstr
                     /\ LET i == BB[it]
                            v == NewConstant(rules, code[i])
                        IN  v \notin {None, Crash} /\ Replace(i, v)
                     /\ it' = it + 1
                     /\ UNCHANGED <<rules, bb, madeChanges, pc>>

FoldInstr == /\ AtInstr
             /\ LET i == BB[it]
                    v == NewConstant(rules, code[i])
                IN  v \notin {None, Crash} /\ Replace(i, v)
             /\ it' = it + 1
             /\ madeChanges' = TRUE
             /\ UNCHANGED <<rules, bb, pc>>

\* mutant: only a fold moves the iterator
MutKeepWithoutIncrement == /\ AtInstr
                           /\ NewConstant(rules, code[BB[it]]) = None
                           /\ UNCHANGED <<rules, fn, code, repl, bb, it, madeChanges, pc>>

KeepInstr == /\ AtInstr
             /\ NewConstant(rules, code[BB[it]]) = None
             /\ it' = it + 1
             /\ UNCHANGED <<rules, fn, code, repl, bb, madeChanges, pc>>

\* an assertion inside APInt ends the process
AbortInstr == /\ AtInstr
              /\ NewConstant(rules, code[BB[it]]) = Crash
              /\ pc' = "crashed"
              /\ UNCHANGED <<rules, fn, code, repl, bb, it, madeChanges>>

LeaveBlock == /\ pc = "instrs" /\ it > Len(BB)
              /\ pc' = "blocks"
              /\ UNCHANGED <<rules, fn, code, repl, bb, it, madeChanges>>

Return == /\ pc = "blocks" /\ bb = Len(fn.rpo)
          /\ pc' = "done"
          /\ UNCHANGED <<rules, fn, code, repl, bb, it, madeChanges>>

\* the call is over; the function stays as it is
Terminated == pc \in {"done", "crashed"} /\ UNCHANGED vars

Next == \/ SkipEmpty \/ StartTraversal \/ EnterBlock
        \/ FoldInstr \/ KeepInstr \/ AbortInstr
        \/ LeaveBlock \/ Return \/ Terminated

Spec == Init /\ [][Next]_vars /\ WF_vars(Next)

(***************************************************************************)
(* Properties                                                              *)
(***************************************************************************)

(* The types of the variables. *)
TypeOK ==
  /\ IsFunction(fn) /\ IsCode(code) /\ DOMAIN code \subseteq DOMAIN fn.code
  /\ repl \in [Ins -> Value \cup {None}]
  /\ bb \in 0 .. Len(fn.rpo) /\ it \in Nat \ {0}
  /\ madeChanges \in BOOLEAN /\ rules \in Rules
  /\ pc \in {"entry", "blocks", "instrs", "done", "crashed"}
  /\ pc = "instrs" => bb > 0 /\ it <= Len(BB) + 1

(* eraseFromParent (populate_function.cpp:143-145) never deletes an          *)
(* instruction that is still used, in any block, reachable or not.          *)
NoDanglingUse == Closed(code)

(* The early-incremented iterator (populate_function.cpp:52-55) never        *)
(* designates a deleted instruction while the loop goes on.                  *)
IteratorValid == AtInstr => BB[it] \in DOMAIN code

(* One traversal is enough: when the function returns, no reachable          *)
(* instruction is left that its own rules could fold, because the reverse    *)
(* post-order (populate_function.cpp:50-51) visits every definition before   *)
(* the binary operators that use it.                                         *)
Complete ==
  pc = "done" =>
    \A b \in DOMAIN fn.rpo : \A p \in DOMAIN fn.list[fn.rpo[b]] :
      LET i == fn.list[fn.rpo[b]][p]
      IN  i \in DOMAIN code => NewConstant(rules, code[i]) = None

(* "\returns true if Foo was modified, false otherwise"                      *)
(* (populate_function.cpp:38-39), at every point of the traversal.           *)
MadeChangesExact == madeChanges <=> (code # fn.code)

(* The solution ends without an assertion failing in APInt                   *)
(* (populate_function.cpp:83-84 and 92-93 check the divisors).               *)
NoCrash == rules = "solution" => pc # "crashed"

(* The compiler crashes only on an instruction whose execution is undefined  *)
(* anyway (ch10/incorrect_optimization/populate_function.cpp:77-83): the     *)
(* missing check never rejects a function that has a meaning there.          *)
CrashOnlyOnUB ==
  pc = "crashed" =>
    LET y == code[BB[it]] IN Eval(y.op, y.nsw, y.args[1].val, y.args[2].val) = UB

(* The passes change no block and no edge                                    *)
(* (your_first_pass/solution/passWithNewPM.cpp:15-18 reports the CFG         *)
(* analyses as preserved on this ground): terminators stay, with the same    *)
(* targets, and a conditional branch stays conditional.                      *)
CFGPreserved ==
  \A i \in DOMAIN fn.code :
    fn.code[i].op = "Br" =>
      /\ i \in DOMAIN code
      /\ code[i].bbs = fn.code[i].bbs
      /\ Len(code[i].args) = Len(fn.code[i].args)

(* Whatever the traversal does is a sequence of sound replacements: the      *)
(* abstract specification of module Propagate.                               *)
Promise == PSpec

(* The traversal ends (the loops of populate_function.cpp:51 and 55).        *)
Termination == <>(pc \in {"done", "crashed"})
================================================================================
