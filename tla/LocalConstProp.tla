----------------------------- MODULE LocalConstProp -----------------------------
(***************************************************************************)
(* LocalConstPropPass::run of ch4/sccppass/ConstProp.cpp: blocks in the    *)
(* order of the file, reachable or not, and every binary operator whose    *)
(* operands are two constant integers replaced by what ConstantExpr::get   *)
(* returns for it.                                                         *)
(***************************************************************************)
EXTENDS Propagate

CONSTANT ConstantFold(_, _, _)   \* ConstantFold(op, a, b): ConstantExpr::get

ASSUME ConstantFoldAssumption ==
  \A op \in BinaryOperator, a, b \in Word :
    /\ ConstantFold(op, a, b) \in Value
    /\ \A nsw \in BOOLEAN : Refines(ConstantFold(op, a, b), Eval(op, nsw, a, b))

\* an instruction of a function is in one of its blocks
ASSUME PlacedAssumption ==
  \A f \in Functions : \A i \in DOMAIN f.code :
    \E a \in DOMAIN f.layout : \E p \in DOMAIN f.list[f.layout[a]] :
      f.list[f.layout[a]][p] = i

ASSUME AnswerAssumption == None \notin {"all", "none"}

VARIABLES
  bb,         \* blocks entered so far
  I,          \* position of the iterator I in the block
  changed,    \* the local variable changed
  preserved   \* the PreservedAnalyses returned: "all" or "none", None before

vars == <<fn, code, repl, bb, I, changed, preserved>>

Init == PInit /\ bb = 0 /\ I = 1 /\ changed = FALSE /\ preserved = None

BB == IF bb = 0 THEN <<>> ELSE fn.list[fn.layout[bb]]
Inst == code[BB[I]]

\* I == E, or no block was entered yet
EnterBlock == /\ preserved = None /\ I > Len(BB) /\ bb < Len(fn.layout)
              /\ bb' = bb + 1 /\ I' = 1
              /\ UNCHANGED <<fn, code, repl, changed, preserved>>

\* mutants: the uses are not replaced; I is moved after the body; the next
\* instruction is skipped; the operands are swapped
MutFoldWithoutRAUW == /\ preserved = None /\ I <= Len(BB)
                      /\ BothConstant(Inst)
                      /\ code' = EraseFromParent(code, BB[I])
                      /\ repl' = [repl EXCEPT ![BB[I]] =
                                   ConstantFold(Inst.op, Inst.args[1].val, Inst.args[2].val)]
                      /\ I' = I + 1
                      /\ changed' = TRUE
                      /\ UNCHANGED <<fn, bb, preserved>>

MutFoldLateIncrement == /\ preserved = None /\ I <= Len(BB)
                        /\ BothConstant(Inst)
                        /\ Replace(BB[I], ConstantFold(Inst.op, Inst.args[1].val, Inst.args[2].val))
                        /\ changed' = TRUE
                        /\ UNCHANGED <<bb, I, preserved>>

MutFoldSkipsNext == /\ preserved = None /\ I <= Len(BB)
                    /\ BothConstant(Inst)
                    /\ Replace(BB[I], ConstantFold(Inst.op, Inst.args[1].val, Inst.args[2].val))
                    /\ I' = IF I + 1 < Len(BB) THEN I + 2 ELSE I + 1
                    /\ changed' = TRUE
                    /\ UNCHANGED <<bb, preserved>>

MutFoldSwapped == /\ preserved = None /\ I <= Len(BB)
                  /\ BothConstant(Inst)
                  /\ Replace(BB[I], ConstantFold(Inst.op, Inst.args[2].val, Inst.args[1].val))
                  /\ I' = I + 1
                  /\ changed' = TRUE
                  /\ UNCHANGED <<bb, preserved>>

FoldInst == /\ preserved = None /\ I <= Len(BB)
            /\ BothConstant(Inst)
            /\ Replace(BB[I], ConstantFold(Inst.op, Inst.args[1].val, Inst.args[2].val))
            /\ I' = I + 1
            /\ changed' = TRUE
            /\ UNCHANGED <<bb, preserved>>

\* mutant: I is moved twice
MutKeepTwice == /\ preserved = None /\ I <= Len(BB)
                /\ ~BothConstant(Inst)
                /\ I' = I + 2
                /\ UNCHANGED <<fn, code, repl, bb, changed, preserved>>

KeepInst == /\ preserved = None /\ I <= Len(BB)
            /\ ~BothConstant(Inst)
            /\ I' = I + 1
            /\ UNCHANGED <<fn, code, repl, bb, changed, preserved>>

\* mutant: every analysis is reported as preserved
MutReturnAll == /\ preserved = None /\ I > Len(BB) /\ bb = Len(fn.layout)
                /\ preserved' = "all"
                /\ UNCHANGED <<fn, code, repl, bb, I, changed>>

Return == /\ preserved = None /\ I > Len(BB) /\ bb = Len(fn.layout)
          /\ preserved' = IF changed THEN "none" ELSE "all"
          /\ UNCHANGED <<fn, code, repl, bb, I, changed>>

\* the pass manager has its answer
Terminated == preserved # None /\ UNCHANGED vars

Next == EnterBlock \/ FoldInst \/ KeepInst \/ Return \/ Terminated

Spec == Init /\ [][Next]_vars

(***************************************************************************)
(* Properties                                                              *)
(***************************************************************************)

(* The types of the variables. *)
TypeOK ==
  /\ IsFunction(fn) /\ IsCode(code) /\ DOMAIN code \subseteq DOMAIN fn.code
  /\ repl \in [Ins -> Value \cup {None}]
  /\ bb \in 0 .. Len(fn.layout) /\ I \in 1 .. Len(BB) + 1
  /\ changed \in BOOLEAN /\ preserved \in {"all", "none", None}

(* eraseFromParent (ConstProp.cpp:27-28) never deletes an instruction that   *)
(* is still used, though blocks are visited in an order in which a use may   *)
(* come before its definition.                                               *)
NoDanglingUse == Closed(code)

(* The iterator I, moved on before the body runs (ConstProp.cpp:20), never   *)
(* designates a deleted instruction.                                         *)
IteratorValid == preserved = None /\ I <= Len(BB) => BB[I] \in DOMAIN code

(* "changed ? PreservedAnalyses::none() : PreservedAnalyses::all()"          *)
(* (ConstProp.cpp:35): cached analyses are kept only for a function the pass *)
(* left as it was.                                                           *)
PreservedSound == preserved = "all" => code = fn.code

(* An instruction with two constant operands is left behind only where the   *)
(* order of the file (ConstProp.cpp:18) puts it before a definition that was *)
(* folded later: a file that defines before it uses needs one run.           *)
Precedes(i, j) ==
  \E a, b \in DOMAIN fn.layout :
    \E p \in DOMAIN fn.list[fn.layout[a]], q \in DOMAIN fn.list[fn.layout[b]] :
      /\ fn.list[fn.layout[a]][p] = i /\ fn.list[fn.layout[b]][q] = j
      /\ a < b \/ (a = b /\ p < q)

LeftoverExplained ==
  preserved # None =>
    \A i \in DOMAIN code : BothConstant(code[i]) =>
      \E j \in Uses(fn.code[i]) : repl[j] # None /\ Precedes(i, j)

(* Whatever the pass does is a sequence of sound replacements: the abstract  *)
(* specification of module Propagate.                                        *)
Promise == PSpec
==================================================================================
