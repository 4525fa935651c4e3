------------------------------- MODULE Propagate -------------------------------
(***************************************************************************)
(* What a constant propagation promises, whatever the order it works in:   *)
(* it repeatedly takes one binary operator whose operands are both         *)
(* constants, gives every user of it a constant it may evaluate to, and    *)
(* deletes it.  ConstProp (ch4, ch10) and LocalConstProp (ch4/sccppass)    *)
(* implement this specification.                                           *)
(***************************************************************************)
EXTENDS IR

CONSTANT Functions   \* the input functions
ASSUME FunctionsAssumption == \A f \in Functions : IsFunction(f)

VARIABLES
  fn,    \* the function as it was given to the pass
  code,  \* its instructions now
  repl   \* history: the constant each deleted instruction was replaced by

pvars == <<fn, code, repl>>

PInit == /\ fn \in Functions
         /\ code = fn.code
         /\ repl = [i \in Ins |-> None]

\* mutants: the incoming values of phis are forgotten; what is left with
\* constant operands only is deleted as well
MutReplaceNotInPhi(i, v) ==
  /\ code' = [j \in DOMAIN code \ {i} |->
                IF code[j].op = "Phi" THEN code[j] ELSE ReplaceUses(code[j], i, v)]
  /\ repl' = [repl EXCEPT ![i] = v]
  /\ UNCHANGED fn

MutReplaceConstantUsers(i, v) ==
  /\ LET c == ReplaceAllUsesWith(code, i, v)
     IN  code' = [j \in { n \in DOMAIN c \ {i} : \/ c[n].op = "Ret"
                                               \/ \E k \in DOMAIN c[n].args : c[n].args[k].tag # "const" }
                   |-> c[j]]
  /\ repl' = [repl EXCEPT ![i] = v]
  /\ UNCHANGED fn

Replace(i, v) ==
  /\ code' = EraseFromParent(ReplaceAllUsesWith(code, i, v), i)
  /\ repl' = [repl EXCEPT ![i] = v]
  /\ UNCHANGED fn

\* mutant: undefined behaviour is folded to a constant of its own
MutPropagateUB ==
  \E i \in DOMAIN code : \E v \in Value \cup {UB} :
    /\ BothConstant(code[i])
    /\ Refines(v, Eval(code[i].op, code[i].nsw, code[i].args[1].val, code[i].args[2].val))
    /\ Replace(i, v)

Propagate ==
  \E i \in DOMAIN code : \E v \in Value :
    /\ BothConstant(code[i])
    /\ Refines(v, Eval(code[i].op, code[i].nsw, code[i].args[1].val, code[i].args[2].val))
    /\ Replace(i, v)

PSpec == PInit /\ [][Propagate]_pvars
================================================================================
