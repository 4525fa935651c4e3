--------------------------------- MODULE Lowered ---------------------------------
(***************************************************************************)
(* Running the code the exercises of ch3 build for foo.  Code is a         *)
(* sequence of instructions for each block; registers are the values of    *)
(* LLVM IR or the virtual and physical registers of Machine IR, slots are  *)
(* the allocas or the stack object.  The calls of bar and baz may change   *)
(* the physical registers, which pass arguments and results ("The proposed *)
(* ABI", ch3/machineir/solution/populate_function.cpp:28-31).              *)
(***************************************************************************)
EXTENDS Naturals, Sequences, Functions

CONSTANTS
  Word, Plus(_, _), Magic, None,  \* as in Foo
  Programs   \* the functions built, see IsProgram

ASSUME LoweredAssumption ==
  /\ {0, 1, Magic} \subseteq Word /\ None \notin Word
  /\ \A x, y \in Word : Plus(x, y) \in Word

(***************************************************************************)
(* A function: its blocks in order, the entry first; the code and the      *)
(* declared successors of each; the registers, the physical ones among     *)
(* them and the two the arguments arrive in; the slots on the stack, and   *)
(* the one var lives in.                                                   *)
(***************************************************************************)
IsProgram(p) ==
  /\ DOMAIN p.code = Range(p.layout) /\ DOMAIN p.successors = Range(p.layout)
  /\ p.physical \subseteq p.register /\ Range(p.parameters) \subseteq p.register
  /\ p.varSlot \in p.slots

ASSUME ProgramsAssumption == \A p \in Programs : IsProgram(p)

Copy(d, s)    == [op |-> "copy", dst |-> d, src |-> <<s>>]
Constant(d)   == [op |-> "constant", dst |-> d, src |-> <<>>]
AddOf(d, x, y) == [op |-> "add", dst |-> d, src |-> <<x, y>>]
ICmpEQ(d, x, y) == [op |-> "icmp", dst |-> d, src |-> <<x, y>>]
Store(x, s)   == [op |-> "store", dst |-> s, src |-> <<x>>]
Load(d, s)    == [op |-> "load", dst |-> d, from |-> s, src |-> <<>>]
BrCond(x, t)  == [op |-> "brcond", dst |-> t, src |-> <<x>>]
Br(t)         == [op |-> "br", dst |-> t, src |-> <<>>]
CallBar(x)    == [op |-> "bar", dst |-> None, src |-> <<x>>]
CallBaz(d)    == [op |-> "baz", dst |-> d, src |-> <<>>]
Ret           == [op |-> "ret", dst |-> None, src |-> <<>>]

VARIABLES
  prog,    \* the function that is called
  a, b,    \* the arguments of the call
  blk,     \* the block being executed
  pos,     \* the position in it
  prev,    \* history: the block control came from
  reg,     \* the registers
  mem,     \* the slots
  calls,   \* the calls made
  returned \* foo has returned

vars == <<prog, a, b, blk, pos, prev, reg, mem, calls, returned>>

Init == /\ prog \in Programs
        /\ a \in Word /\ b \in Word
        /\ blk = prog.layout[1] /\ pos = 1 /\ prev = None
        /\ reg = [r \in prog.register |-> CASE r = prog.parameters[1] -> a
                                     [] r = prog.parameters[2] -> b
                                     [] OTHER -> None]
        /\ mem = [s \in prog.slots |-> None]
        /\ calls = <<>> /\ returned = FALSE

InBlock == ~returned /\ pos \in DOMAIN prog.code[blk]
Instr   == prog.code[blk][pos]

Source(n) == reg[Instr.src[n]]

\* every operand has a value; otherwise what is built has no meaning, and
\* the execution is stuck
Defined == /\ \A n \in DOMAIN Instr.src : Source(n) # None
           /\ Instr.op = "load" => mem[Instr.from] # None

Advance == pos' = pos + 1 /\ UNCHANGED <<blk, prev, returned>>

Goto(t) == blk' = t /\ pos' = 1 /\ prev' = blk /\ UNCHANGED returned

Result == CASE Instr.op = "copy"     -> Source(1)
            [] Instr.op = "constant" -> Magic
            [] Instr.op = "add"      -> Plus(Source(1), Source(2))
            [] Instr.op = "icmp"     -> IF Source(1) = Source(2) THEN 1 ELSE 0
            [] Instr.op = "load"     -> mem[Instr.from]

Compute == /\ InBlock /\ Defined
           /\ Instr.op \in {"copy", "constant", "add", "icmp", "load"}
           /\ reg' = [reg EXCEPT ![Instr.dst] = Result]
           /\ Advance
           /\ UNCHANGED <<prog, a, b, mem, calls>>

StoreSlot == /\ InBlock /\ Defined /\ Instr.op = "store"
             /\ mem' = [mem EXCEPT ![Instr.dst] = Source(1)]
             /\ Advance
             /\ UNCHANGED <<prog, a, b, reg, calls>>

Branch == /\ InBlock /\ Defined /\ Instr.op \in {"br", "brcond"}
          /\ IF Instr.op = "br" \/ Source(1) = 1 THEN Goto(Instr.dst) ELSE Advance
          /\ UNCHANGED <<prog, a, b, reg, mem, calls>>

\* a call leaves what it likes in the physical registers
CallBarInstr == /\ InBlock /\ Defined /\ Instr.op = "bar"
                /\ calls' = Append(calls, <<"bar", Source(1)>>)
                /\ \E left \in [prog.physical -> Word] :
                     reg' = [r \in prog.register |-> IF r \in prog.physical THEN left[r] ELSE reg[r]]
                /\ Advance
                /\ UNCHANGED <<prog, a, b, mem>>

CallBazInstr == /\ InBlock /\ Instr.op = "baz"
                /\ \E v \in Word, left \in [prog.physical -> Word] :
                     /\ calls' = Append(calls, <<"baz", v>>)
                     /\ reg' = [r \in prog.register |-> IF r = Instr.dst THEN v
                                                 ELSE IF r \in prog.physical THEN left[r] ELSE reg[r]]
                /\ Advance
                /\ UNCHANGED <<prog, a, b, mem>>

Return == /\ InBlock /\ Instr.op = "ret"
          /\ returned' = TRUE
          /\ UNCHANGED <<prog, a, b, blk, pos, prev, reg, mem, calls>>

\* a block without a terminator goes on into the one that follows it
FallThrough == /\ ~returned /\ pos \notin DOMAIN prog.code[blk]
               /\ \E n \in DOMAIN prog.layout : /\ prog.layout[n] = blk /\ n + 1 \in DOMAIN prog.layout
                                           /\ Goto(prog.layout[n + 1])
               /\ UNCHANGED <<prog, a, b, reg, mem, calls>>

Halted == returned /\ UNCHANGED vars

Next == \/ Compute \/ StoreSlot \/ Branch \/ CallBarInstr \/ CallBazInstr
        \/ Return \/ FallThrough \/ Halted

Spec == Init /\ [][Next]_vars /\ WF_vars(Next)

(***************************************************************************)
(* Properties                                                              *)
(***************************************************************************)

(* The line of the C function that comes next, and its variable: baz's       *)
(* result is the value of var before it is stored.                           *)
SourceLine ==
  CASE mem[prog.varSlot] = None -> "add"
    [] mem[prog.varSlot] # None /\ blk = prog.layout[1] -> "test"
    [] blk = prog.layout[2] /\ Len(calls) = 0 -> "bar"
    [] blk = prog.layout[2] /\ Len(calls) = 1 -> "baz"
    [] blk = prog.layout[2] /\ Len(calls) = 2 -> "last_bar"
    [] blk = prog.layout[3] /\ Len(calls) \in {0, 2} -> "last_bar"
    [] blk = prog.layout[3] /\ Len(calls) \in {1, 3} -> "end"

SourceVar == IF Len(calls) = 2 THEN calls[2][2] ELSE mem[prog.varSlot]

CFoo == INSTANCE Foo WITH var <- SourceVar, line <- SourceLine

(* "represents the lowering of the following foo"                            *)
(* (ch3/llvm_ir/solution/populate_function.cpp:16-27): whatever the          *)
(* arguments, whatever baz returns and whatever the calls leave in the       *)
(* registers, the code makes the calls of the C function, with the same      *)
(* values and in the same order.                                             *)
LowersFoo == CFoo!FSpec

(* Control only moves along the edges of the CFG that was declared for the   *)
(* function (addSuccessor, solution/populate_function.cpp:46-49).            *)
FollowsCFG == prev # None => blk \in prog.successors[prev]

(* The call of foo returns. *)
Termination == <>returned
===================================================================================
