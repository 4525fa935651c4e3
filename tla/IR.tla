---------------------------------- MODULE IR ----------------------------------
(***************************************************************************)
(* The part of LLVM's IR the passes of ch4 and ch10 rewrite.  A function   *)
(* is a set of instructions, each in one block; an operand is a constant,  *)
(* an argument of the function or the result of an instruction.  LLVM      *)
(* itself is not part of the repository: these definitions say what the    *)
(* passes' calls into it (replaceAllUsesWith, eraseFromParent, the value   *)
(* of a binary operator) do.                                               *)
(***************************************************************************)
EXTENDS Naturals, Sequences

CONSTANTS
  Ins,             \* names of instructions
  Block,           \* names of basic blocks
  Arg,             \* the arguments of a function
  Word,            \* the integers of the function's type
  Poison,          \* LLVM's poison value
  UB,              \* the outcome of an operation with undefined behaviour
  None,            \* no value: std::nullopt, nullptr
  Crash,           \* the outcome of a call that trips an assertion
  BinaryOperator,  \* the opcodes of class BinaryOperator
  Eval(_, _, _, _) \* Eval(op, nsw, a, b): what executing "op a, b" yields

Value == Word \cup {Poison}

ASSUME SpecialAssumption ==
  /\ Word \cap {Poison, UB, None, Crash} = {}
  /\ Poison \notin {UB, None, Crash}
  /\ UB \notin {None, Crash}
  /\ None # Crash

ASSUME OpcodeAssumption ==
  BinaryOperator \cap {"ICmp", "Phi", "Br", "Ret", "Alloca", "Load", "Store"} = {}

PureOp   == BinaryOperator \cup {"ICmp"}
MemoryOp == {"Alloca", "Load", "Store"}
Opcode   == PureOp \cup {"Phi", "Br", "Ret"} \cup MemoryOp

ConstOp(v) == [tag |-> "const", val |-> v]
ArgOp(a)   == [tag |-> "arg", val |-> a]
UseOp(i)   == [tag |-> "ins", val |-> i]

Operand == [tag : {"const"}, val : Value] \cup [tag : {"arg"}, val : Arg]
             \cup [tag : {"ins"}, val : Ins]

Instruction ==
  { x \in [op : Opcode, nsw : BOOLEAN, args : Seq(Operand), bbs : Seq(Block)] :
      /\ x.op \in PureOp => Len(x.args) = 2
      /\ x.op = "Phi" => Len(x.bbs) = Len(x.args)
      /\ x.op = "Br"  => Len(x.args) \in {0, 1} /\ Len(x.bbs) = Len(x.args) + 1
      /\ x.op = "Ret" => Len(x.args) = 1 }

(***************************************************************************)
(* The code of a function: its instructions that are still in a block.     *)
(***************************************************************************)
IsCode(c) == /\ DOMAIN c \subseteq Ins
             /\ \A i \in DOMAIN c : c[i] \in Instruction

Uses(x) == { x.args[k].val : k \in { n \in DOMAIN x.args : x.args[n].tag = "ins" } }

\* a binary operator whose operands are two ConstantInts
BothConstant(x) == /\ x.op \in BinaryOperator
                   /\ \A k \in 1 .. 2 : x.args[k].tag = "const" /\ x.args[k].val \in Word

Closed(c) == \A i \in DOMAIN c : Uses(c[i]) \subseteq DOMAIN c

(***************************************************************************)
(* A function as the passes find it.  layout is the order of its blocks in *)
(* the file, rpo the reverse post-order LLVM computes from the entry; the  *)
(* two differ in order, and rpo leaves out unreachable blocks.             *)
(***************************************************************************)
IsFunction(f) ==
  /\ f = [layout |-> f.layout, rpo |-> f.rpo, list |-> f.list, code |-> f.code]
  /\ f.layout \in Seq(Block) /\ f.rpo \in Seq(Block)
  /\ f.list \in [Block -> Seq(Ins)]
  /\ IsCode(f.code) /\ Closed(f.code)
  /\ \A b \in Block : \A p \in DOMAIN f.list[b] : f.list[b][p] \in DOMAIN f.code
  /\ \A b, c \in Block : \A p \in DOMAIN f.list[b], q \in DOMAIN f.list[c] :
       f.list[b][p] = f.list[c][q] => b = c /\ p = q
  /\ \A p, q \in DOMAIN f.rpo : f.rpo[p] = f.rpo[q] => p = q
  /\ \A p, q \in DOMAIN f.layout : f.layout[p] = f.layout[q] => p = q
  /\ \A p \in DOMAIN f.rpo : \E q \in DOMAIN f.layout : f.layout[q] = f.rpo[p]

(***************************************************************************)
(* What SSA form gives the traversal.  A definition dominates its uses,    *)
(* and a dominator comes first in reverse post-order: in a reachable block *)
(* the binary operators an instruction takes operands from come before it. *)
(* Only a phi may use what comes later, round a loop.                      *)
(***************************************************************************)
Earlier(m, q, n, p) == m < n \/ (m = n /\ q < p)

DefinedBeforeUsed(f) ==
  \A n \in DOMAIN f.rpo : \A p \in DOMAIN f.list[f.rpo[n]] :
    LET i == f.list[f.rpo[n]][p]
    IN  f.code[i].op \in BinaryOperator =>
          \A u \in Uses(f.code[i]) : f.code[u].op \in BinaryOperator =>
            \E m \in DOMAIN f.rpo : \E q \in DOMAIN f.list[f.rpo[m]] :
              f.list[f.rpo[m]][q] = u /\ Earlier(m, q, n, p)

(***************************************************************************)
(* Instr.replaceAllUsesWith(constant v): every operand that was the result *)
(* of i becomes the constant.                                              *)
(***************************************************************************)
ReplaceUses(y, i, v) ==
  [y EXCEPT !.args = [k \in DOMAIN y.args |->
     IF y.args[k] = UseOp(i) THEN ConstOp(v) ELSE y.args[k]]]

ReplaceAllUsesWith(c, i, v) == [j \in DOMAIN c |-> ReplaceUses(c[j], i, v)]

EraseFromParent(c, i) == [j \in DOMAIN c \ {i} |-> c[j]]

(***************************************************************************)
(* t may stand where s is expected: undefined behaviour may do anything,   *)
(* poison may be any value.                                                *)
(***************************************************************************)
Refines(t, s) == \/ t = s
                 \/ s = UB
                 \/ s = Poison /\ t # UB

ASSUME EvalAssumption ==
  \A op \in PureOp, nsw \in BOOLEAN, a, b \in Value :
    /\ Eval(op, nsw, a, b) \in Value \cup {UB}
    /\ \A x, y \in Value : Refines(a, x) /\ Refines(b, y)
         => Refines(Eval(op, nsw, a, b), Eval(op, nsw, x, y))
===============================================================================
