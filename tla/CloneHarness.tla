------------------------------ MODULE CloneHarness ------------------------------
(***************************************************************************)
(* main of ch4/simple_cst_propagation/main.cpp: every function of a module *)
(* is cloned, the reference implementation optimizes the clone and the     *)
(* reader's implementation the function itself, and both are verified.     *)
(*                                                                         *)
(* One ValueToValueMapTy, VMap, serves all the clonings.  Its entries are  *)
(* weak handles: when a key is replaced (replaceAllUsesWith) its entry     *)
(* moves to the new value, unless that one has an entry already, and when  *)
(* what a key stands for is replaced, the entry follows.  CloneFunction    *)
(* looks every operand up in VMap first, constants included; a constant    *)
(* without an entry stands for itself from then on.                        *)
(***************************************************************************)
EXTENDS IR

CONSTANTS
  Modules,                   \* the modules read; None where there is none
  SolutionFolds(_, _, _),    \* what solutionConstantPropagation folds, or None
  MineFolds(_, _, _)         \* what myConstantPropagation folds, or None

\* the functions of a module, in order; each instruction belongs to one of them
ASSUME ModulesAssumption ==
  \A m \in Modules \ {None} :
    /\ m \in Seq({ m[n] : n \in DOMAIN m })
    /\ \A n \in DOMAIN m : /\ m[n] = [i \in DOMAIN m[n] |-> m[n][i]]
                           /\ IsCode(m[n]) /\ Closed(m[n])
    /\ \A n, o \in DOMAIN m : n # o => DOMAIN m[n] \cap DOMAIN m[o] = {}

ASSUME FoldsAssumption ==
  \A op \in BinaryOperator, a, b \in Word :
    {SolutionFolds(op, a, b), MineFolds(op, a, b)} \subseteq Value \cup {None}

Key == [tag : {"const"}, val : Value] \cup [tag : {"ins"}, val : Ins]

ASSUME NoneAssumption == None \notin {0, 1, 255} \cup Key

VARIABLES
  module,    \* MyModule as it was read
  funcs,     \* the functions in MyModule now: those read, then the clones
  worklist,  \* Worklist: positions of functions in funcs
  cur,       \* how many functions of the worklist are begun
  given,     \* history: what the reference implementation was given
  vmap,      \* VMap: an operand for a key, or None
  hadError,
  status,    \* the exit status, None before
  pc         \* "build", "next", "solution" or "mine"

vars == <<module, funcs, worklist, cur, given, vmap, hadError, status, pc>>

Init == /\ module \in Modules
        /\ funcs = <<>> /\ worklist = <<>> /\ cur = 0 /\ given = <<>>
        /\ vmap = [key \in Key |-> None]
        /\ hadError = FALSE /\ status = None
        /\ pc = "build"

Unbuilt == /\ pc = "build" /\ module = None
           /\ status' = 255 /\ pc' = "exited"
           /\ UNCHANGED <<module, funcs, worklist, cur, given, vmap, hadError>>

Build == /\ pc = "build" /\ module # None
         /\ funcs' = module
         /\ worklist' = [n \in DOMAIN module |-> n]
         /\ pc' = "next"
         /\ UNCHANGED <<module, cur, given, vmap, hadError, status>>

Func  == worklist[cur]
Clone == Len(funcs)

(***************************************************************************)
(* CloneFunction(Func, VMap).  The clone's instruction i is named as the   *)
(* original's; a name that is not the clone's own stands for the           *)
(* instruction of another clone.                                           *)
(***************************************************************************)
Constants(c) ==
  { o \in UNION { { c[i].args[k] : k \in DOMAIN c[i].args } : i \in DOMAIN c } : o.tag = "const" }

\* VMap with the clone's instructions, and the constants met for the first time
Mapped(c) == [key \in Key |->
                IF \/ key.tag = "ins" /\ key.val \in DOMAIN c
                   \/ vmap[key] = None /\ key \in Constants(c)
                THEN key ELSE vmap[key]]

MapOperand(o) == IF o.tag = "const" /\ vmap[o] # None THEN vmap[o] ELSE o

Cloned(c) == [i \in DOMAIN c |->
                [c[i] EXCEPT !.args = [k \in DOMAIN c[i].args |-> MapOperand(c[i].args[k])]]]

\* mutant: the loop is over the module, which the clones are added to
MutCloneFunction == /\ pc = "next" /\ cur < Len(funcs)
                    /\ cur' = cur + 1
                    /\ funcs' = Append(funcs, Cloned(funcs[cur']))
                    /\ worklist' = [n \in DOMAIN funcs' |-> n]
                    /\ given' = Cloned(funcs[cur'])
                    /\ vmap' = Mapped(funcs[cur'])
                    /\ pc' = "solution"
                    /\ UNCHANGED <<module, hadError, status>>

CloneFunction == /\ pc = "next" /\ cur < Len(worklist)
                 /\ cur' = cur + 1
                 /\ LET c == funcs[worklist[cur']]
                    IN  /\ funcs' = Append(funcs, Cloned(c))
                        /\ given' = Cloned(c)
                        /\ vmap' = Mapped(c)
                 /\ pc' = "solution"
                 /\ UNCHANGED <<module, worklist, hadError, status>>

Rewrite(c, i, v) == EraseFromParent(ReplaceAllUsesWith(c, i, v), i)

Foldable(c, folds(_, _, _)) ==
  { i \in DOMAIN c : BothConstant(c[i])
                     /\ folds(c[i].op, c[i].args[1].val, c[i].args[2].val) # None }

(***************************************************************************)
(* The reference implementation on the clone: entries that stand for the   *)
(* replaced instruction follow to the constant.                            *)
(***************************************************************************)
\* mutant: only the instruction is replaced, the entry is left behind
MutSolutionFold ==
  /\ pc = "solution"
  /\ \E i \in Foldable(funcs[Clone], SolutionFolds) :
       LET x == funcs[Clone][i]
           v == SolutionFolds(x.op, x.args[1].val, x.args[2].val)
       IN  funcs' = [funcs EXCEPT ![Clone] = Rewrite(@, i, v)]
  /\ UNCHANGED <<module, worklist, cur, given, vmap, hadError, status, pc>>

SolutionFold ==
  /\ pc = "solution"
  /\ \E i \in Foldable(funcs[Clone], SolutionFolds) :
       LET x == funcs[Clone][i]
           v == SolutionFolds(x.op, x.args[1].val, x.args[2].val)
       IN  /\ funcs' = [funcs EXCEPT ![Clone] = Rewrite(@, i, v)]
           /\ vmap' = [key \in Key |-> IF vmap[key] = UseOp(i) THEN ConstOp(v) ELSE vmap[key]]
  /\ UNCHANGED <<module, worklist, cur, given, hadError, status, pc>>

SolutionDone == /\ pc = "solution" /\ Foldable(funcs[Clone], SolutionFolds) = {}
                /\ pc' = "mine"
                /\ UNCHANGED <<module, funcs, worklist, cur, given, vmap, hadError, status>>

(***************************************************************************)
(* The reader's implementation on the function: it may stop at any point.  *)
(* The entry of the replaced instruction moves to the constant.            *)
(***************************************************************************)
MineFold ==
  /\ pc = "mine"
  /\ \E i \in Foldable(funcs[Func], MineFolds) :
       LET x == funcs[Func][i]
           v == MineFolds(x.op, x.args[1].val, x.args[2].val)
           moved == IF vmap[ConstOp(v)] = None THEN vmap[UseOp(i)] ELSE vmap[ConstOp(v)]
       IN  /\ funcs' = [funcs EXCEPT ![Func] = Rewrite(@, i, v)]
           /\ vmap' = [vmap EXCEPT ![ConstOp(v)] = moved, ![UseOp(i)] = None]
  /\ UNCHANGED <<module, worklist, cur, given, hadError, status, pc>>

\* mutant: verifyFunction's result is the other way round
MutVerifies(c) == ~Closed(c)

\* verifyFunction finds an operand that is not of the function
Verifies(c) == Closed(c)

Report == /\ pc = "mine"
          /\ hadError' = (hadError \/ ~(Verifies(funcs[Clone]) /\ Verifies(funcs[Func])))
          /\ pc' = "next"
          /\ UNCHANGED <<module, funcs, worklist, cur, given, vmap, status>>

Return == /\ pc = "next" /\ cur = Len(worklist)
          /\ status' = IF hadError THEN 1 ELSE 0
          /\ pc' = "exited"
          /\ UNCHANGED <<module, funcs, worklist, cur, given, vmap, hadError>>

Exited == pc = "exited" /\ UNCHANGED vars

Next == \/ Unbuilt \/ Build \/ CloneFunction
        \/ SolutionFold \/ SolutionDone \/ MineFold \/ Report
        \/ Return \/ Exited

Spec == Init /\ [][Next]_vars

(***************************************************************************)
(* Properties                                                              *)
(***************************************************************************)

(* "Clone the function before the optimization to make sure each             *)
(* implementation sees the same input" (main.cpp:101-102): what the          *)
(* reference implementation is given is the function as it was read, though  *)
(* the functions before it were rewritten with the same VMap watching.       *)
SameInput ==
  pc = "solution" \/ pc = "mine" => given = module[Func]

(* Two implementations that only do sound replacements are never blamed      *)
(* (main.cpp:113-121): both results of every function verify, so the         *)
(* program ends with status 0.                                               *)
NoFalseAlarm == status # 1

(* "we don't want to process cloned functions afterwards and clone them and  *)
(* so on" (main.cpp:88-89): each function read has one clone, a clone none.  *)
ClonesNotCloned ==
  module # None /\ funcs # <<>> =>
    /\ Len(funcs) = Len(module) + cur
    /\ \A n \in 1 .. cur : worklist[n] \in DOMAIN module
================================================================================
