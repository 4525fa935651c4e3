------------------------------ MODULE LoweredProofs ------------------------------
(***************************************************************************)
(* Proofs about the functions that the exercises of ch3 and the example    *)
(* ch10/use_after_free build: for every width of the words, every value    *)
(* of the arguments, every result of baz and everything a call may leave   *)
(* in W0 and W1, they make the calls of the C function foo, never read a   *)
(* register or a slot without a value, and move along the edges of the     *)
(* CFG.  The C function's local variable is followed instruction by        *)
(* instruction through the registers and the slot (IRInv, MIRInv); what    *)
(* that says of the calls made is one of seven phases (Phased), the same   *)
(* for both functions, and the phases step as the C function does.         *)
(***************************************************************************)
EXTENDS BuiltIR, MachineIR, SequenceTheorems, TLAPS

(* What each instruction does, as a fact about the step it takes.            *)
LEMMA StepCopy ==
  ASSUME NEW d, NEW s, InBlock, Instr = Copy(d, s), Next
  PROVE  /\ reg' = [reg EXCEPT ![d] = reg[s]] /\ pos' = pos + 1
         /\ UNCHANGED <<prog, a, b, blk, prev, mem, calls, returned>>
BY DEF Next, Compute, StoreSlot, Branch, CallBarInstr, CallBazInstr, Return, FallThrough, Halted,
       InBlock, Copy, Result, Source, Advance

LEMMA StepConstant ==
  ASSUME NEW d, InBlock, Instr = Constant(d), Next
  PROVE  /\ reg' = [reg EXCEPT ![d] = Magic] /\ pos' = pos + 1
         /\ UNCHANGED <<prog, a, b, blk, prev, mem, calls, returned>>
BY DEF Next, Compute, StoreSlot, Branch, CallBarInstr, CallBazInstr, Return, FallThrough, Halted,
       InBlock, Constant, Result, Source, Advance

LEMMA StepAdd ==
  ASSUME NEW d, NEW x, NEW y, InBlock, Instr = AddOf(d, x, y), Next
  PROVE  /\ reg' = [reg EXCEPT ![d] = Plus(reg[x], reg[y])] /\ pos' = pos + 1
         /\ UNCHANGED <<prog, a, b, blk, prev, mem, calls, returned>>
BY DEF Next, Compute, StoreSlot, Branch, CallBarInstr, CallBazInstr, Return, FallThrough, Halted,
       InBlock, AddOf, Result, Source, Advance

LEMMA StepICmp ==
  ASSUME NEW d, NEW x, NEW y, InBlock, Instr = ICmpEQ(d, x, y), Next
  PROVE  /\ reg' = [reg EXCEPT ![d] = IF reg[x] = reg[y] THEN 1 ELSE 0] /\ pos' = pos + 1
         /\ UNCHANGED <<prog, a, b, blk, prev, mem, calls, returned>>
BY DEF Next, Compute, StoreSlot, Branch, CallBarInstr, CallBazInstr, Return, FallThrough, Halted,
       InBlock, ICmpEQ, Result, Source, Advance

LEMMA StepLoad ==
  ASSUME NEW d, NEW s, InBlock, Instr = Load(d, s), Next
  PROVE  /\ reg' = [reg EXCEPT ![d] = mem[s]] /\ pos' = pos + 1
         /\ UNCHANGED <<prog, a, b, blk, prev, mem, calls, returned>>
BY DEF Next, Compute, StoreSlot, Branch, CallBarInstr, CallBazInstr, Return, FallThrough, Halted,
       InBlock, Load, Result, Source, Advance

LEMMA StepStore ==
  ASSUME NEW x, NEW s, InBlock, Instr = Store(x, s), Next
  PROVE  /\ mem' = [mem EXCEPT ![s] = reg[x]] /\ pos' = pos + 1
         /\ UNCHANGED <<prog, a, b, blk, prev, reg, calls, returned>>
BY DEF Next, Compute, StoreSlot, Branch, CallBarInstr, CallBazInstr, Return, FallThrough, Halted,
       InBlock, Store, Source, Advance

LEMMA StepBrCond ==
  ASSUME NEW x, NEW t, InBlock, Instr = BrCond(x, t), Next
  PROVE  /\ IF reg[x] = 1 THEN blk' = t /\ pos' = 1 /\ prev' = blk
            ELSE pos' = pos + 1 /\ UNCHANGED <<blk, prev>>
         /\ UNCHANGED <<prog, a, b, reg, mem, calls, returned>>
BY DEF Next, Compute, StoreSlot, Branch, CallBarInstr, CallBazInstr, Return, FallThrough, Halted,
       InBlock, BrCond, Source, Advance, Goto

LEMMA StepBr ==
  ASSUME NEW t, InBlock, Instr = Br(t), Next
  PROVE  /\ blk' = t /\ pos' = 1 /\ prev' = blk
         /\ UNCHANGED <<prog, a, b, reg, mem, calls, returned>>
BY DEF Next, Compute, StoreSlot, Branch, CallBarInstr, CallBazInstr, Return, FallThrough, Halted,
       InBlock, Br, Source, Advance, Goto

LEMMA StepBar ==
  ASSUME NEW x, InBlock, Instr = CallBar(x), Next
  PROVE  /\ calls' = Append(calls, <<"bar", reg[x]>>) /\ pos' = pos + 1
         /\ DOMAIN reg' = prog.register
         /\ \A r \in prog.register \ prog.physical : reg'[r] = reg[r]
         /\ UNCHANGED <<prog, a, b, blk, prev, mem, returned>>
BY DEF Next, Compute, StoreSlot, Branch, CallBarInstr, CallBazInstr, Return, FallThrough, Halted,
       InBlock, CallBar, Source, Advance

LEMMA StepBaz ==
  ASSUME NEW d \in prog.register, InBlock, Instr = CallBaz(d), Next
  PROVE  /\ \E v \in Word : calls' = Append(calls, <<"baz", v>>) /\ reg'[d] = v
         /\ DOMAIN reg' = prog.register
         /\ \A r \in prog.register \ (prog.physical \cup {d}) : reg'[r] = reg[r]
         /\ pos' = pos + 1
         /\ UNCHANGED <<prog, a, b, blk, prev, mem, returned>>
BY DEF Next, Compute, StoreSlot, Branch, CallBarInstr, CallBazInstr, Return, FallThrough, Halted,
       InBlock, CallBaz, Source, Advance

LEMMA StepRet ==
  ASSUME InBlock, Instr = Ret, Next
  PROVE  returned' = TRUE /\ UNCHANGED <<prog, a, b, blk, pos, prev, reg, mem, calls>>
BY DEF Next, Compute, StoreSlot, Branch, CallBarInstr, CallBazInstr, Return, FallThrough, Halted,
       InBlock, Ret

(* The sequence of calls, when one more is made.                             *)
LEMMA FirstCall == ASSUME NEW x PROVE Append(<<>>, x) = <<x>>
OBVIOUS

LEMMA SecondCall == ASSUME NEW x, NEW y PROVE Append(<<x>>, y) = <<x, y>>
<1> DEFINE S == {x, y}
           s == Append(<<x>>, y)
           t == <<x, y>>
<1>1. <<x>> \in Seq(S) /\ Len(<<x>>) = 1 /\ t \in Seq(S) /\ Len(t) = 2 /\ t[1] = x /\ t[2] = y
  OBVIOUS
<1>2. s \in Seq(S) /\ Len(s) = 2 /\ s[1] = x /\ s[2] = y
  BY <1>1, AppendProperties
<1>3. \A i \in 1 .. Len(s) : s[i] = t[i]
  BY <1>1, <1>2
<1> HIDE DEF s, t
<1>4. s = t
  BY <1>1, <1>2, <1>3, SeqEqual
<1> QED BY <1>4 DEF s, t

LEMMA ThirdCall == ASSUME NEW x, NEW y, NEW z PROVE Append(<<x, y>>, z) = <<x, y, z>>
<1> DEFINE S == {x, y, z}
           s == Append(<<x, y>>, z)
           t == <<x, y, z>>
<1>1. /\ <<x, y>> \in Seq(S) /\ Len(<<x, y>>) = 2
      /\ t \in Seq(S) /\ Len(t) = 3 /\ t[1] = x /\ t[2] = y /\ t[3] = z
  OBVIOUS
<1>2. s \in Seq(S) /\ Len(s) = 3 /\ s[1] = x /\ s[2] = y /\ s[3] = z
  BY <1>1, AppendProperties
<1>3. \A i \in 1 .. Len(s) : s[i] = t[i]
  BY <1>1, <1>2
<1> HIDE DEF s, t
<1>4. s = t
  BY <1>1, <1>2, <1>3, SeqEqual
<1> QED BY <1>4 DEF s, t

(***************************************************************************)
(* The C function's progress, in terms of the calls made and of the value  *)
(* v that var has: the call of bar and baz was skipped, or taken.          *)
(***************************************************************************)
Sum == Plus(a, b)

Skipped(v) == Sum # Magic /\ v = Sum /\ calls = <<>>
Taken(v)   == Sum = Magic /\ v \in Word /\ calls = <<<<"bar", Sum>>, <<"baz", v>>>>
Joined(v)  == Skipped(v) \/ Taken(v)

\* the last call of bar was made
Ended(v) == \/ Sum # Magic /\ v = Sum /\ calls = <<<<"bar", v>>>>
            \/ Sum = Magic /\ v \in Word /\ calls = <<<<"bar", Sum>>, <<"baz", v>>, <<"bar", v>>>>

Flag == IF Sum = Magic THEN 1 ELSE 0

(* The last call of bar passes var.                                          *)
LEMMA LastCall ==
  ASSUME NEW v, Joined(v), calls' = Append(calls, <<"bar", v>>), UNCHANGED <<a, b>>
  PROVE  Ended(v)'
<1>1. CASE Skipped(v)
  <2>1. calls' = <<<<"bar", v>>>>
    BY <1>1, FirstCall DEF Skipped
  <2> QED BY <1>1, <2>1 DEF Skipped, Ended, Sum
<1>2. CASE Taken(v)
  <2>1. calls' = <<<<"bar", Sum>>, <<"baz", v>>, <<"bar", v>>>>
    BY <1>2, ThirdCall DEF Taken
  <2> QED BY <1>2, <2>1 DEF Taken, Ended, Sum
<1> QED BY <1>1, <1>2 DEF Joined

(***************************************************************************)
(* The IR of foo: what its values and allocas hold at each instruction.    *)
(***************************************************************************)
\* what the code never changes: the arguments
IRState ==
  /\ prog = BuiltFoo /\ a \in Word /\ b \in Word
  /\ DOMAIN reg = IRValues /\ DOMAIN mem = IRAllocas
  /\ reg["Arg"] = a /\ reg["Arg1"] = b

\* the add and the test: pos says how far the entry has come
InBB ==
  /\ blk = "bb" /\ pos \in 1 .. 11 /\ prev = None /\ ~returned /\ calls = <<>>
  /\ pos > 1 => mem["I"] = a
  /\ pos > 2 => mem["I2"] = b
  /\ pos > 3 => reg["I4"] = a
  /\ pos > 4 => reg["I5"] = b
  /\ pos > 5 => reg["I6"] = Sum
  /\ mem["I3"] = IF pos > 6 THEN Sum ELSE None
  /\ pos > 7 => reg["I7"] = Sum
  /\ pos > 8 => reg["Cst255"] = Magic
  /\ pos > 9 => reg["I8"] = Flag
  /\ pos > 10 => Sum # Magic

\* var is Magic: bar, baz, and baz's result into var
InBB9 ==
  /\ blk = "bb9" /\ pos \in 1 .. 5 /\ prev = "bb" /\ ~returned /\ Sum = Magic
  /\ pos \in {1, 2} => calls = <<>> /\ mem["I3"] = Sum
  /\ pos = 2 => reg["I10"] = Sum
  /\ pos = 3 => calls = <<<<"bar", Sum>>>> /\ mem["I3"] = Sum
  /\ pos = 4 => Taken(reg["I11"]) /\ mem["I3"] = Sum
  /\ pos = 5 => Taken(mem["I3"])

\* the last bar, whether bb9 was run or not
InBB12 ==
  /\ blk = "bb12" /\ pos \in 1 .. 3 /\ prev \in {"bb", "bb9"}
  /\ pos \in {1, 2} => Joined(mem["I3"]) /\ ~returned
  /\ pos = 2 => reg["I13"] = mem["I3"]
  /\ pos = 3 => Ended(mem["I3"])

IRInv == IRState /\ (InBB \/ InBB9 \/ InBB12)

(* The instruction that comes next, read off the builder's calls.            *)
LEMMA IRInstr ==
  ASSUME IRInv
  PROVE  /\ prog.layout = <<"bb", "bb9", "bb12">> /\ prog.varSlot = "I3"
         /\ prog.physical = {} /\ prog.register = IRValues
         /\ blk = "bb" =>
              /\ pos \in DOMAIN prog.code[blk]
              /\ pos = 1 => Instr = Store("Arg", "I")
              /\ pos = 2 => Instr = Store("Arg1", "I2")
              /\ pos = 3 => Instr = Load("I4", "I")
              /\ pos = 4 => Instr = Load("I5", "I2")
              /\ pos = 5 => Instr = AddOf("I6", "I4", "I5")
              /\ pos = 6 => Instr = Store("I6", "I3")
              /\ pos = 7 => Instr = Load("I7", "I3")
              /\ pos = 8 => Instr = Constant("Cst255")
              /\ pos = 9 => Instr = ICmpEQ("I8", "I7", "Cst255")
              /\ pos = 10 => Instr = BrCond("I8", "bb9")
              /\ pos = 11 => Instr = Br("bb12")
         /\ blk = "bb9" =>
              /\ pos \in DOMAIN prog.code[blk]
              /\ pos = 1 => Instr = Load("I10", "I3")
              /\ pos = 2 => Instr = CallBar("I10")
              /\ pos = 3 => Instr = CallBaz("I11")
              /\ pos = 4 => Instr = Store("I11", "I3")
              /\ pos = 5 => Instr = Br("bb12")
         /\ blk = "bb12" =>
              /\ pos \in DOMAIN prog.code[blk]
              /\ pos = 1 => Instr = Load("I13", "I3")
              /\ pos = 2 => Instr = CallBar("I13")
              /\ pos = 3 => Instr = Ret
<1>1. prog = BuiltFoo
  BY DEF IRInv, IRState
<1>2. /\ BuiltFoo.code["bb"] = PopulateBB /\ BuiltFoo.code["bb9"] = PopulateBB9
      /\ BuiltFoo.code["bb12"] = PopulateBB12
      /\ BuiltFoo.layout = <<"bb", "bb9", "bb12">> /\ BuiltFoo.varSlot = "I3"
      /\ BuiltFoo.physical = {} /\ BuiltFoo.register = IRValues
  BY DEF BuiltFoo, IRCode, IRLayout
<1>3. CASE InBB
  BY <1>1, <1>2, <1>3 DEF InBB, Instr, PopulateBB
<1>4. CASE InBB9
  BY <1>1, <1>2, <1>4 DEF InBB9, Instr, PopulateBB9
<1>5. CASE InBB12
  BY <1>1, <1>2, <1>5 DEF InBB12, Instr, PopulateBB12
<1> QED BY <1>3, <1>4, <1>5 DEF IRInv

(* The invariant of the IR, established by the call of foo and preserved by  *)
(* each instruction of each block.                                           *)
LEMMA IRInit == ASSUME Init, prog = BuiltFoo PROVE IRInv
BY DEF Init, BuiltFoo, IRInv, IRState, InBB, IRLayout, IRParameters, IRValues, IRAllocas

LEMMA IRStepBB ==
  ASSUME IRState, InBB, Next
  PROVE  IRInv'
<1>1. IRInv
  BY DEF IRInv
<1>2. InBlock
  BY <1>1, IRInstr DEF InBB, InBlock
<1>3. Sum \in Word /\ None \notin Word /\ Magic \in Word
  BY LoweredAssumption DEF IRState, Sum
<1> USE <1>1, <1>2, <1>3, IRInstr DEF IRInv, IRState, InBB, Sum, Flag, IRValues, IRAllocas
<1>11. CASE pos = 1
  BY <1>11, StepStore
<1>12. CASE pos = 2
  BY <1>12, StepStore
<1>13. CASE pos = 3
  BY <1>13, StepLoad
<1>14. CASE pos = 4
  BY <1>14, StepLoad
<1>15. CASE pos = 5
  BY <1>15, StepAdd
<1>16. CASE pos = 6
  BY <1>16, StepStore
<1>17. CASE pos = 7
  BY <1>17, StepLoad
<1>18. CASE pos = 8
  BY <1>18, StepConstant
<1>19. CASE pos = 9
  BY <1>19, StepICmp
<1>20. CASE pos = 10
  BY <1>20, StepBrCond DEF InBB9
<1>21. CASE pos = 11
  BY <1>21, StepBr DEF InBB12, Joined, Skipped
<1> QED BY <1>11, <1>12, <1>13, <1>14, <1>15, <1>16, <1>17, <1>18, <1>19, <1>20, <1>21

LEMMA IRStepBB9 ==
  ASSUME IRState, InBB9, Next
  PROVE  IRInv'
<1>1. IRInv
  BY DEF IRInv
<1>2. InBlock
  BY <1>1, IRInstr DEF InBB9, InBlock
<1>3. Sum \in Word /\ None \notin Word
  BY LoweredAssumption DEF IRState, Sum
<1>4. CASE pos \in {1, 4, 5}
  BY <1>1, <1>2, <1>3, <1>4, IRInstr, StepLoad, StepStore, StepBr
  DEF IRInv, IRState, InBB9, InBB12, Sum, Taken, Joined, IRValues, IRAllocas
<1>5. CASE pos = 2
  <2>1. Instr = CallBar("I10") /\ prog.physical = {} /\ prog.register = IRValues
    BY <1>1, <1>5, IRInstr DEF InBB9
  <2>2. /\ calls' = Append(calls, <<"bar", reg["I10"]>>) /\ pos' = 3
        /\ DOMAIN reg' = IRValues /\ \A r \in IRValues : reg'[r] = reg[r]
        /\ UNCHANGED <<prog, a, b, blk, prev, mem, returned>>
    BY <1>2, <1>5, <2>1, StepBar
  <2>3. calls' = <<<<"bar", Sum>>>>
    BY <1>5, <2>2, FirstCall DEF InBB9
  <2> QED BY <1>5, <2>2, <2>3 DEF IRInv, IRState, InBB9, Sum, IRValues
<1>6. CASE pos = 3
  <2>1. Instr = CallBaz("I11") /\ prog.physical = {} /\ prog.register = IRValues
    BY <1>1, <1>6, IRInstr DEF InBB9
  <2>2. PICK v \in Word : calls' = Append(calls, <<"baz", v>>) /\ reg'["I11"] = v
    BY <1>2, <1>6, <2>1, StepBaz DEF IRValues
  <2>3. /\ DOMAIN reg' = IRValues /\ \A r \in IRValues \ {"I11"} : reg'[r] = reg[r]
        /\ pos' = 4 /\ UNCHANGED <<prog, a, b, blk, prev, mem, returned>>
    BY <1>2, <1>6, <2>1, StepBaz DEF IRValues
  <2>4. calls' = <<<<"bar", Sum>>, <<"baz", v>>>>
    BY <1>6, <2>2, SecondCall DEF InBB9
  <2>5. Taken(reg["I11"])'
    BY <2>2, <2>3, <2>4 DEF InBB9, Taken, Sum
  <2> QED BY <1>6, <2>3, <2>5 DEF IRInv, IRState, InBB9, Sum, IRValues
<1> QED BY <1>4, <1>5, <1>6 DEF InBB9

LEMMA IRStepBB12 ==
  ASSUME IRState, InBB12, Next
  PROVE  IRInv'
<1>1. IRInv
  BY DEF IRInv
<1>2. InBlock \/ returned
  BY <1>1, IRInstr DEF InBB12, InBlock
<1>3. CASE pos = 1
  BY <1>1, <1>2, <1>3, IRInstr, StepLoad
  DEF IRInv, IRState, InBB12, Sum, Joined, Skipped, Taken, IRValues, IRAllocas
<1>4. CASE pos = 2
  <2>1. Instr = CallBar("I13") /\ prog.physical = {} /\ prog.register = IRValues /\ InBlock
    BY <1>1, <1>2, <1>4, IRInstr DEF InBB12
  <2>2. /\ calls' = Append(calls, <<"bar", reg["I13"]>>) /\ pos' = 3
        /\ DOMAIN reg' = IRValues /\ \A r \in IRValues : reg'[r] = reg[r]
        /\ UNCHANGED <<prog, a, b, blk, prev, mem, returned>>
    BY <1>4, <2>1, StepBar
  <2>3. Ended(mem["I3"])'
    BY <1>4, <2>2, LastCall DEF InBB12
  <2> QED BY <1>4, <2>2, <2>3 DEF IRInv, IRState, InBB12, IRValues
<1>5. CASE pos = 3 /\ ~returned
  <2>1. UNCHANGED <<prog, a, b, blk, pos, prev, reg, mem, calls>>
    BY <1>1, <1>2, <1>5, IRInstr, StepRet DEF InBB12
  <2> QED BY <1>5, <2>1 DEF IRInv, IRState, InBB12, Ended, Sum
<1>6. CASE pos = 3 /\ returned
  <2>1. UNCHANGED vars
    BY <1>6 DEF Next, Compute, StoreSlot, Branch, CallBarInstr, CallBazInstr, Return,
                FallThrough, Halted, InBlock
  <2> QED BY <2>1, <1>6 DEF vars, IRInv, IRState, InBB12, Ended, Sum
<1> QED BY <1>3, <1>4, <1>5, <1>6 DEF InBB12

(***************************************************************************)
(* The Machine IR of foo, whatever successors were declared.               *)
(***************************************************************************)
MIRState ==
  /\ prog.code = MIRCode /\ prog.layout = MIRLayout /\ prog.physical = {"W0", "W1"}
  /\ prog.register = MIRRegisters /\ prog.varSlot = "FrameIndex"
  /\ a \in Word /\ b \in Word
  /\ DOMAIN reg = MIRRegisters /\ DOMAIN mem = MIRSlots

InEntryBB ==
  /\ blk = "EntryBB" /\ pos \in 1 .. 9 /\ prev = None /\ ~returned /\ calls = <<>>
  /\ reg["W0"] = a /\ reg["W1"] = b
  /\ pos > 1 => reg["A"] = a
  /\ pos > 2 => reg["B"] = b
  /\ pos > 3 => reg["ResAdd"] = Sum
  /\ mem["FrameIndex"] = IF pos > 4 THEN Sum ELSE None
  /\ pos > 5 => reg["Cst0xFF"] = Magic
  /\ pos > 6 => reg["ReloadedVar0"] = Sum
  /\ pos > 7 => reg["Cmp"] = Flag
  /\ pos > 8 => Sum # Magic

InThenBB ==
  /\ blk = "ThenBB" /\ pos \in 1 .. 7 /\ prev = "EntryBB" /\ ~returned /\ Sum = Magic
  /\ pos \in 1 .. 3 => calls = <<>>
  /\ pos \in 1 .. 6 => mem["FrameIndex"] = Sum
  /\ pos = 2 => reg["ReloadedVar1"] = Sum
  /\ pos = 3 => reg["W0"] = Sum
  /\ pos = 4 => calls = <<<<"bar", Sum>>>>
  /\ pos = 5 => Taken(reg["W0"])
  /\ pos = 6 => Taken(reg["ResOfBaz"])
  /\ pos = 7 => Taken(mem["FrameIndex"])

InExitBB ==
  /\ blk = "ExitBB" /\ pos \in 1 .. 4 /\ prev \in {"EntryBB", "ThenBB"}
  /\ pos \in 1 .. 3 => Joined(mem["FrameIndex"]) /\ ~returned
  /\ pos = 2 => reg["ReloadedVar2"] = mem["FrameIndex"]
  /\ pos = 3 => reg["W0"] = mem["FrameIndex"]
  /\ pos = 4 => Ended(mem["FrameIndex"])

MIRInv == MIRState /\ (InEntryBB \/ InThenBB \/ InExitBB)

(* The instruction that comes next; only ThenBB ends without a terminator.   *)
LEMMA MIRInstr ==
  ASSUME MIRInv
  PROVE  /\ blk = "EntryBB" =>
              /\ pos \in DOMAIN prog.code[blk]
              /\ pos = 1 => Instr = Copy("A", "W0")
              /\ pos = 2 => Instr = Copy("B", "W1")
              /\ pos = 3 => Instr = AddOf("ResAdd", "A", "B")
              /\ pos = 4 => Instr = Store("ResAdd", "FrameIndex")
              /\ pos = 5 => Instr = Constant("Cst0xFF")
              /\ pos = 6 => Instr = Load("ReloadedVar0", "FrameIndex")
              /\ pos = 7 => Instr = ICmpEQ("Cmp", "ReloadedVar0", "Cst0xFF")
              /\ pos = 8 => Instr = BrCond("Cmp", "ThenBB")
              /\ pos = 9 => Instr = Br("ExitBB")
         /\ blk = "ThenBB" =>
              /\ pos \in DOMAIN prog.code[blk] <=> pos # 7
              /\ pos = 1 => Instr = Load("ReloadedVar1", "FrameIndex")
              /\ pos = 2 => Instr = Copy("W0", "ReloadedVar1")
              /\ pos = 3 => Instr = CallBar("W0")
              /\ pos = 4 => Instr = CallBaz("W0")
              /\ pos = 5 => Instr = Copy("ResOfBaz", "W0")
              /\ pos = 6 => Instr = Store("ResOfBaz", "FrameIndex")
         /\ blk = "ExitBB" =>
              /\ pos \in DOMAIN prog.code[blk]
              /\ pos = 1 => Instr = Load("ReloadedVar2", "FrameIndex")
              /\ pos = 2 => Instr = Copy("W0", "ReloadedVar2")
              /\ pos = 3 => Instr = CallBar("W0")
              /\ pos = 4 => Instr = Ret
<1>1. prog.code = MIRCode
  BY DEF MIRInv, MIRState
<1>2. /\ MIRCode["EntryBB"] = PopulateEntry /\ MIRCode["ThenBB"] = PopulateThen
      /\ MIRCode["ExitBB"] = PopulateExit
  BY DEF MIRCode
<1>3. CASE InEntryBB
  BY <1>1, <1>2, <1>3 DEF InEntryBB, Instr, PopulateEntry
<1>4. CASE InThenBB
  BY <1>1, <1>2, <1>4 DEF InThenBB, Instr, PopulateThen
<1>5. CASE InExitBB
  BY <1>1, <1>2, <1>5 DEF InExitBB, Instr, PopulateExit
<1> QED BY <1>3, <1>4, <1>5 DEF MIRInv

(* The invariant of the Machine IR, established by the call and preserved by *)
(* each instruction and by the fall through into ExitBB.                     *)
LEMMA MIRInit == ASSUME Init, NEW cfg, prog = MachineFoo(cfg) PROVE MIRInv
BY DEF Init, MachineFoo, MIRInv, MIRState, InEntryBB, MIRLayout, MIRLiveIns, MIRRegisters, MIRSlots

LEMMA MIRStepEntryBB ==
  ASSUME MIRState, InEntryBB, Next
  PROVE  MIRInv'
<1>1. MIRInv
  BY DEF MIRInv
<1>2. InBlock
  BY <1>1, MIRInstr DEF InEntryBB, InBlock
<1>3. Sum \in Word /\ None \notin Word /\ Magic \in Word
  BY LoweredAssumption DEF MIRState, Sum
<1> USE <1>1, <1>2, <1>3, MIRInstr
    DEF MIRInv, MIRState, InEntryBB, Sum, Flag, MIRRegisters, MIRSlots
<1>11. CASE pos = 1
  BY <1>11, StepCopy
<1>12. CASE pos = 2
  BY <1>12, StepCopy
<1>13. CASE pos = 3
  BY <1>13, StepAdd
<1>14. CASE pos = 4
  BY <1>14, StepStore
<1>15. CASE pos = 5
  BY <1>15, StepConstant
<1>16. CASE pos = 6
  BY <1>16, StepLoad
<1>17. CASE pos = 7
  BY <1>17, StepICmp
<1>18. CASE pos = 8
  BY <1>18, StepBrCond DEF InThenBB
<1>19. CASE pos = 9
  BY <1>19, StepBr DEF InExitBB, Joined, Skipped
<1> QED BY <1>11, <1>12, <1>13, <1>14, <1>15, <1>16, <1>17, <1>18, <1>19

LEMMA MIRStepThenBB ==
  ASSUME MIRState, InThenBB, Next
  PROVE  MIRInv'
<1>1. MIRInv
  BY DEF MIRInv
<1>2. pos # 7 => InBlock
  BY <1>1, MIRInstr DEF InThenBB, InBlock
<1>3. Sum \in Word /\ None \notin Word
  BY LoweredAssumption DEF MIRState, Sum
<1>4. CASE pos \in {1, 2, 5, 6}
  BY <1>1, <1>2, <1>3, <1>4, MIRInstr, StepLoad, StepCopy, StepStore
  DEF MIRInv, MIRState, InThenBB, Sum, Taken, MIRRegisters, MIRSlots
<1>5. CASE pos = 3
  <2>1. Instr = CallBar("W0") /\ InBlock
    BY <1>1, <1>2, <1>5, MIRInstr DEF InThenBB
  <2>2. /\ calls' = Append(calls, <<"bar", reg["W0"]>>) /\ pos' = 4
        /\ DOMAIN reg' = MIRRegisters
        /\ UNCHANGED <<prog, a, b, blk, prev, mem, returned>>
    BY <1>5, <2>1, StepBar DEF MIRState
  <2>3. calls' = <<<<"bar", Sum>>>>
    BY <1>5, <2>2, FirstCall DEF InThenBB
  <2> QED BY <1>5, <2>2, <2>3 DEF MIRInv, MIRState, InThenBB, Sum
<1>6. CASE pos = 4
  <2>1. Instr = CallBaz("W0") /\ InBlock /\ prog.register = MIRRegisters
    BY <1>1, <1>2, <1>6, MIRInstr DEF InThenBB, MIRState
  <2>2. PICK v \in Word : calls' = Append(calls, <<"baz", v>>) /\ reg'["W0"] = v
    BY <1>6, <2>1, StepBaz DEF MIRRegisters
  <2>3. /\ DOMAIN reg' = MIRRegisters /\ pos' = 5
        /\ UNCHANGED <<prog, a, b, blk, prev, mem, returned>>
    BY <1>6, <2>1, StepBaz DEF MIRRegisters
  <2>4. calls' = <<<<"bar", Sum>>, <<"baz", v>>>>
    BY <1>6, <2>2, SecondCall DEF InThenBB
  <2>5. Taken(reg["W0"])'
    BY <2>2, <2>3, <2>4 DEF InThenBB, Taken, Sum
  <2> QED BY <1>6, <2>3, <2>5 DEF MIRInv, MIRState, InThenBB, Sum
<1>7. CASE pos = 7
  <2>1. FallThrough
    BY <1>1, <1>7, MIRInstr
    DEF InThenBB, Next, Compute, StoreSlot, Branch, CallBarInstr, CallBazInstr, Return, Halted,
        InBlock
  <2>2. blk' = "ExitBB" /\ pos' = 1 /\ prev' = "ThenBB"
    BY <1>7, <2>1 DEF FallThrough, Goto, InThenBB, MIRState, MIRLayout
  <2> QED BY <1>7, <2>1, <2>2
          DEF FallThrough, Goto, MIRInv, MIRState, InThenBB, InExitBB, Joined, Taken, Sum
<1> QED BY <1>4, <1>5, <1>6, <1>7 DEF InThenBB

LEMMA MIRStepExitBB ==
  ASSUME MIRState, InExitBB, Next
  PROVE  MIRInv'
<1>1. MIRInv
  BY DEF MIRInv
<1>2. InBlock \/ returned
  BY <1>1, MIRInstr DEF InExitBB, InBlock
<1>3. CASE pos \in {1, 2}
  BY <1>1, <1>2, <1>3, MIRInstr, StepLoad, StepCopy
  DEF MIRInv, MIRState, InExitBB, Sum, Joined, Skipped, Taken, MIRRegisters, MIRSlots
<1>4. CASE pos = 3
  <2>1. Instr = CallBar("W0") /\ InBlock
    BY <1>1, <1>2, <1>4, MIRInstr DEF InExitBB
  <2>2. /\ calls' = Append(calls, <<"bar", reg["W0"]>>) /\ pos' = 4
        /\ DOMAIN reg' = MIRRegisters
        /\ UNCHANGED <<prog, a, b, blk, prev, mem, returned>>
    BY <1>4, <2>1, StepBar DEF MIRState
  <2>3. Ended(mem["FrameIndex"])'
    BY <1>4, <2>2, LastCall DEF InExitBB
  <2> QED BY <1>4, <2>2, <2>3 DEF MIRInv, MIRState, InExitBB
<1>5. CASE pos = 4 /\ ~returned
  <2>1. UNCHANGED <<prog, a, b, blk, pos, prev, reg, mem, calls>>
    BY <1>1, <1>2, <1>5, MIRInstr, StepRet DEF InExitBB
  <2> QED BY <1>5, <2>1 DEF MIRInv, MIRState, InExitBB, Ended, Sum
<1>6. CASE pos = 4 /\ returned
  <2>1. UNCHANGED vars
    BY <1>6 DEF Next, Compute, StoreSlot, Branch, CallBarInstr, CallBazInstr, Return,
                FallThrough, Halted, InBlock
  <2> QED BY <2>1, <1>6 DEF vars, MIRInv, MIRState, InExitBB, Ended, Sum
<1> QED BY <1>3, <1>4, <1>5, <1>6 DEF InExitBB

(***************************************************************************)
(* The phases of either program, each at one line of the C function.       *)
(***************************************************************************)
\* the slot of the C function's variable
Var == mem[prog.varSlot]

\* the three blocks are different
Shape == \E l1, l2, l3 : l1 # l2 /\ l1 # l3 /\ l2 # l3 /\ prog.layout = <<l1, l2, l3>>

Adding  == blk = prog.layout[1] /\ Var = None /\ calls = <<>>
Testing == blk = prog.layout[1] /\ Var = Sum /\ calls = <<>>
Barring == blk = prog.layout[2] /\ Var = Sum /\ Sum = Magic /\ calls = <<>>
Bazzing == blk = prog.layout[2] /\ Var = Sum /\ Sum = Magic /\ calls = <<<<"bar", Sum>>>>
Storing == blk = prog.layout[2] /\ Var \in Word /\ \E v \in Word : Taken(v)
Joining == blk = prog.layout[3] /\ Joined(Var)
Ending  == blk = prog.layout[3] /\ Ended(Var)

\* a function is in one of the phases
Phased ==
  /\ Shape /\ a \in Word /\ b \in Word
  /\ Adding \/ Testing \/ Barring \/ Bazzing \/ Storing \/ Joining \/ Ending

\* the line and the variable of the C function in each phase
Sourced ==
  /\ Adding \/ Testing => blk = prog.layout[1]
  /\ Barring \/ Bazzing \/ Storing => blk = prog.layout[2] /\ Sum = Magic
  /\ Joining \/ Ending => blk = prog.layout[3]
  /\ Adding  => SourceLine = "add" /\ SourceVar = None /\ Len(calls) = 0
  /\ Testing => SourceLine = "test" /\ SourceVar = Sum /\ Len(calls) = 0
  /\ Barring => SourceLine = "bar" /\ SourceVar = Sum /\ Len(calls) = 0
  /\ Bazzing => SourceLine = "baz" /\ SourceVar = Sum /\ Len(calls) = 1
  /\ Storing => SourceLine = "last_bar" /\ Taken(SourceVar) /\ Len(calls) = 2
  /\ Joining => SourceLine = "last_bar" /\ SourceVar = Var
                /\ Len(calls) = IF Sum = Magic THEN 2 ELSE 0
  /\ Ending  => SourceLine = "end" /\ SourceVar = Var
                /\ Len(calls) = IF Sum = Magic THEN 3 ELSE 1
  /\ IF Adding THEN Var = None ELSE Var \in Word
  /\ calls \in Seq({"bar", "baz"} \X Word)

(* A phase determines the line of the C function that comes next.            *)
LEMMA PhaseSource == Phased => Sourced
<1> SUFFICES ASSUME Phased PROVE Sourced
  OBVIOUS
<1>1. PICK l1, l2, l3 : l1 # l2 /\ l1 # l3 /\ l2 # l3 /\ prog.layout = <<l1, l2, l3>>
  BY DEF Phased, Shape
<1>2. prog.layout[1] = l1 /\ prog.layout[2] = l2 /\ prog.layout[3] = l3
  BY <1>1
<1>3. Sum \in Word /\ None \notin Word
  BY LoweredAssumption DEF Phased, Sum
<1>4. Adding => SourceLine = "add" /\ SourceVar = None /\ Len(calls) = 0
  BY <1>1, <1>2 DEF Adding, SourceLine, SourceVar, Var
<1>5. Testing => SourceLine = "test" /\ SourceVar = Sum /\ Len(calls) = 0
  BY <1>1, <1>2, <1>3 DEF Testing, SourceLine, SourceVar, Var
<1>6. Barring => SourceLine = "bar" /\ SourceVar = Sum /\ Len(calls) = 0
  BY <1>1, <1>2, <1>3 DEF Barring, SourceLine, SourceVar, Var
<1>7. ASSUME Bazzing PROVE SourceLine = "baz" /\ SourceVar = Sum /\ Len(calls) = 1
  <2>1. Len(calls) = 1
    BY <1>7 DEF Bazzing
  <2> QED BY <1>1, <1>2, <1>3, <1>7, <2>1 DEF Bazzing, SourceLine, SourceVar, Var
<1>8. ASSUME Storing PROVE SourceLine = "last_bar" /\ Taken(SourceVar) /\ Len(calls) = 2
  <2>1. PICK v \in Word : Taken(v)
    BY <1>8 DEF Storing
  <2>2. Len(calls) = 2 /\ calls[2][2] = v
    BY <2>1 DEF Taken
  <2>3. SourceVar = v
    BY <2>2 DEF SourceVar
  <2>4. SourceLine = "last_bar"
    BY <1>1, <1>2, <1>3, <1>8, <2>2 DEF Storing, SourceLine, Var
  <2> QED BY <2>1, <2>2, <2>3, <2>4
<1>9. ASSUME Joining
      PROVE  /\ SourceLine = "last_bar" /\ SourceVar = Var
             /\ Len(calls) = IF Sum = Magic THEN 2 ELSE 0
  <2>1. /\ Len(calls) = IF Sum = Magic THEN 2 ELSE 0
        /\ Len(calls) = 2 => calls[2][2] = Var
        /\ Var \in Word
    <3>1. CASE Skipped(Var)
      BY <1>3, <3>1 DEF Skipped
    <3>2. CASE Taken(Var)
      BY <3>2 DEF Taken
    <3> QED BY <1>9, <3>1, <3>2 DEF Joining, Joined
  <2>2. SourceVar = Var
    BY <2>1 DEF SourceVar, Var
  <2>3. SourceLine = "last_bar"
    <3>1. blk = l3 /\ mem[prog.varSlot] # None
      BY <1>2, <1>3, <1>9, <2>1 DEF Joining, Var
    <3> QED BY <1>1, <1>2, <2>1, <3>1 DEF SourceLine
  <2> QED BY <2>1, <2>2, <2>3
<1>10. ASSUME Ending
       PROVE  /\ SourceLine = "end" /\ SourceVar = Var
              /\ Len(calls) = IF Sum = Magic THEN 3 ELSE 1
  <2>1. Len(calls) = (IF Sum = Magic THEN 3 ELSE 1) /\ Var \in Word
    BY <1>3, <1>10 DEF Ending, Ended
  <2>2. SourceVar = Var
    BY <2>1 DEF SourceVar, Var
  <2>3. SourceLine = "end"
    BY <1>1, <1>2, <1>3, <1>10, <2>1 DEF Ending, SourceLine, Var
  <2> QED BY <2>1, <2>2, <2>3
<1>11. IF Adding THEN Var = None ELSE Var \in Word
  BY <1>3 DEF Phased, Adding, Testing, Barring, Bazzing, Storing, Joining, Joined, Skipped, Taken,
              Ending, Ended
<1>12. calls \in Seq({"bar", "baz"} \X Word)
  <2>1. CASE calls = <<>>
    BY <2>1
  <2>2. CASE calls = <<<<"bar", Sum>>>>
    BY <1>3, <2>2
  <2>3. ASSUME NEW v \in Word, calls = <<<<"bar", Sum>>, <<"baz", v>>>>
        PROVE  calls \in Seq({"bar", "baz"} \X Word)
    BY <1>3, <2>3
  <2>4. ASSUME NEW v \in Word, calls = <<<<"bar", Sum>>, <<"baz", v>>, <<"bar", v>>>>
        PROVE  calls \in Seq({"bar", "baz"} \X Word)
    BY <1>3, <2>4
  <2> QED BY <2>1, <2>2, <2>3, <2>4
          DEF Phased, Adding, Testing, Barring, Bazzing, Storing, Joining, Joined, Skipped, Taken,
              Ending, Ended
<1>13. /\ Adding \/ Testing => blk = prog.layout[1]
       /\ Barring \/ Bazzing \/ Storing => blk = prog.layout[2] /\ Sum = Magic
       /\ Joining \/ Ending => blk = prog.layout[3]
  BY DEF Adding, Testing, Barring, Bazzing, Storing, Taken, Joining, Ending
<1> QED BY <1>4, <1>5, <1>6, <1>7, <1>8, <1>9, <1>10, <1>11, <1>12, <1>13 DEF Sourced

(* A step makes a call, or moves to another block, or changes the slots; it  *)
(* never leaves a slot without a value again.                                *)
Moves ==
  /\ UNCHANGED <<prog, a, b>>
  /\ \/ blk' = blk /\ calls' = calls
     \/ UNCHANGED <<blk, mem>> /\ \E x : calls' = Append(calls, x)
     \/ UNCHANGED <<calls, mem>>
  /\ Var # None => Var' # None

(* Every step of a function is of that kind.                                 *)
LEMMA NextMoves ==
  ASSUME prog.varSlot \in DOMAIN mem, Next,
         InBlock /\ Instr.op = "store" => 1 \in DOMAIN Instr.src
  PROVE  Moves
<1>1. CASE Compute
  BY <1>1 DEF Compute, Advance, Moves, Var
<1>2. CASE StoreSlot
  BY <1>2 DEF StoreSlot, Advance, Moves, Var, Defined, InBlock, Store
<1>3. CASE Branch
  BY <1>3 DEF Branch, Moves, Var
<1>4. CASE CallBarInstr
  BY <1>4 DEF CallBarInstr, Advance, Moves, Var
<1>5. CASE CallBazInstr
  BY <1>5 DEF CallBazInstr, Advance, Moves, Var
<1>6. CASE Return
  BY <1>6 DEF Return, Moves, Var
<1>7. CASE FallThrough
  BY <1>7 DEF FallThrough, Moves, Var
<1>8. CASE Halted
  BY <1>8 DEF Halted, vars, Moves, Var
<1> QED BY <1>1, <1>2, <1>3, <1>4, <1>5, <1>6, <1>7, <1>8 DEF Next

\* control goes to a block further down
Forward == \/ blk' = blk
           \/ blk = prog.layout[1] /\ blk' \in {prog.layout[2], prog.layout[3]}
           \/ blk = prog.layout[2] /\ blk' = prog.layout[3]

(* A step from one phase to another is a step of the C function, or none.    *)
LEMMA PhaseStep ==
  ASSUME Phased, Phased', Moves, Forward
  PROVE  [CFoo!FNext]_CFoo!fvars
<1>1. PICK l1, l2, l3 : l1 # l2 /\ l1 # l3 /\ l2 # l3 /\ prog.layout = <<l1, l2, l3>>
  BY DEF Phased, Shape
<1>2. prog.layout[1] = l1 /\ prog.layout[2] = l2 /\ prog.layout[3] = l3 /\ prog' = prog
  BY <1>1 DEF Moves
<1>3. Sum \in Word /\ None \notin Word /\ Sum' = Sum /\ a' = a /\ b' = b
  BY LoweredAssumption DEF Phased, Moves, Sum
<1>4. Sourced /\ Sourced'
  BY PhaseSource, PTL
<1>5. /\ Adding  => blk = l1 /\ Len(calls) = 0
      /\ Testing => blk = l1 /\ Len(calls) = 0
      /\ Barring => blk = l2 /\ Len(calls) = 0 /\ Sum = Magic
      /\ Bazzing => blk = l2 /\ Len(calls) = 1 /\ Sum = Magic
      /\ Storing => blk = l2 /\ Len(calls) = 2 /\ Sum = Magic
      /\ Joining => blk = l3 /\ Len(calls) = IF Sum = Magic THEN 2 ELSE 0
      /\ Ending  => blk = l3 /\ Len(calls) = IF Sum = Magic THEN 3 ELSE 1
      /\ Var = None <=> Adding
  BY <1>2, <1>3, <1>4 DEF Sourced
<1>6. /\ Adding'  => blk' = l1 /\ Len(calls') = 0
      /\ Testing' => blk' = l1 /\ Len(calls') = 0
      /\ Barring' => blk' = l2 /\ Len(calls') = 0 /\ Sum = Magic
      /\ Bazzing' => blk' = l2 /\ Len(calls') = 1 /\ Sum = Magic
      /\ Storing' => blk' = l2 /\ Len(calls') = 2 /\ Sum = Magic
      /\ Joining' => blk' = l3 /\ Len(calls') = IF Sum = Magic THEN 2 ELSE 0
      /\ Ending'  => blk' = l3 /\ Len(calls') = IF Sum = Magic THEN 3 ELSE 1
      /\ Var' = None <=> Adding'
  BY <1>2, <1>3, <1>4 DEF Sourced
<1>7. calls' = calls \/ (blk' = blk /\ Var' = Var /\ Len(calls') = Len(calls) + 1)
  <2> SUFFICES ASSUME NEW x, calls' = Append(calls, x), UNCHANGED <<blk, mem>>
               PROVE  blk' = blk /\ Var' = Var /\ Len(calls') = Len(calls) + 1
    BY DEF Moves
  <2>1. calls \in Seq({"bar", "baz"} \X Word \cup {x}) /\ x \in {"bar", "baz"} \X Word \cup {x}
    BY <1>4, SeqMonotonic DEF Sourced
  <2> QED BY <1>2, <2>1, AppendProperties DEF Var
<1>8. (calls' = calls /\ blk' = blk) \/ Var' = Var
  BY <1>2 DEF Moves, Var
<1>9. Var # None => Var' # None
  BY DEF Moves
<1> DEFINE Stays == SourceLine' = SourceLine /\ SourceVar' = SourceVar /\ calls' = calls
<1>10. Stays => UNCHANGED CFoo!fvars
  BY <1>3 DEF CFoo!fvars
<1> DEFINE Blocks == /\ blk = l1 => blk' \in {l1, l2, l3}
                     /\ blk = l2 => blk' \in {l2, l3}
                     /\ blk = l3 => blk' = l3
<1>11. Blocks
  BY <1>1, <1>2 DEF Forward
<1>12. Adding' \/ Testing' \/ Barring' \/ Bazzing' \/ Storing' \/ Joining' \/ Ending'
  BY DEF Phased
<1>13. blk' # blk => calls' = calls /\ Var' = Var
  BY <1>7, <1>8
<1>14. Len(calls') \in {Len(calls), Len(calls) + 1}
  BY <1>7
<1>15. CASE Adding
  <2>1. Adding' \/ Testing'
    BY <1>1, <1>5, <1>6, <1>9, <1>11, <1>12, <1>13, <1>14, <1>15
  <2> QED BY <1>3, <1>4, <1>10, <1>15, <2>1
          DEF Sourced, Adding, Testing, Sum, CFoo!FNext, CFoo!Add
<1>16. CASE Testing
  <2>1. ~Adding
    BY <1>3, <1>16 DEF Testing, Adding
  <2>2. Testing' \/ Barring' \/ Joining'
    BY <1>1, <1>5, <1>6, <1>9, <1>11, <1>12, <1>13, <1>14, <1>16, <2>1
  <2>3. CASE Testing'
    BY <1>3, <1>4, <1>10, <1>16, <2>3 DEF Sourced, Testing
  <2>4. CASE Barring' \/ Joining'
    <3>1. calls' = calls /\ SourceVar' = SourceVar
      BY <1>1, <1>3, <1>4, <1>5, <1>6, <1>7, <1>8, <1>16, <2>4 DEF Sourced, Testing
    <3>2. SourceLine' = IF SourceVar = Magic THEN "bar" ELSE "last_bar"
      BY <1>3, <1>4, <1>5, <1>6, <1>16, <2>4, <3>1 DEF Sourced
    <3> QED BY <1>3, <1>4, <1>16, <3>1, <3>2 DEF Sourced, CFoo!FNext, CFoo!Test
  <2> QED BY <2>2, <2>3, <2>4
<1>17. CASE Barring
  <2>1. Barring' \/ Bazzing'
    BY <1>1, <1>5, <1>6, <1>9, <1>11, <1>12, <1>13, <1>14, <1>17
  <2> QED BY <1>3, <1>4, <1>10, <1>17, <2>1, FirstCall
          DEF Sourced, Barring, Bazzing, CFoo!FNext, CFoo!Bar, CFoo!Call
<1>18. CASE Bazzing
  <2>1. Bazzing' \/ Storing'
    BY <1>1, <1>5, <1>6, <1>9, <1>11, <1>12, <1>13, <1>14, <1>18
  <2> QED BY <1>3, <1>4, <1>10, <1>18, <2>1, SecondCall
          DEF Sourced, Bazzing, Storing, Taken, CFoo!FNext, CFoo!Baz, CFoo!Call
<1>19. CASE Storing
  <2>1. Storing' \/ Joining'
    <3>1. blk = l2 /\ Len(calls) = 2 /\ Sum = Magic /\ Len(calls') \in {2, 3}
      <4>1. blk = l2 /\ Len(calls) = 2 /\ Sum = Magic
        BY <1>5, <1>19
      <4> QED BY <1>14, <4>1
    <3>2. ~Adding' /\ ~Testing' /\ ~Barring' /\ ~Bazzing'
      BY <1>1, <1>6, <1>11, <3>1
    <3>3. ~Ending'
      BY <1>1, <1>6, <1>13, <3>1
    <3> QED BY <1>12, <3>2, <3>3
  <2>2. SourceLine' = "last_bar" /\ calls' = calls
    BY <1>3, <1>4, <1>5, <1>6, <1>7, <1>19, <2>1 DEF Sourced
  <2>3. SourceVar = calls[2][2] /\ SourceVar' = calls'[2][2]
    BY <1>4, <1>5, <1>6, <1>19, <2>1 DEF SourceVar
  <2> QED BY <1>4, <1>10, <1>19, <2>2, <2>3 DEF Sourced
<1>20. CASE Joining
  <2>1. Joining' \/ Ending'
    BY <1>1, <1>5, <1>6, <1>9, <1>11, <1>12, <1>13, <1>14, <1>20
  <2>2. CASE Joining'
    <3>1. calls' = calls
      BY <1>5, <1>6, <1>7, <1>20, <2>2
    <3>2. SourceVar' = SourceVar
      BY <1>3, <1>4, <1>20, <2>2, <3>1 DEF Joining, Joined, Skipped, Taken, Sourced
    <3> QED BY <1>4, <1>10, <1>20, <2>2, <3>1, <3>2 DEF Sourced
  <2>3. CASE Ending'
    <3>1. calls' # calls
      BY <1>5, <1>6, <1>20, <2>3
    <3>2. PICK x : calls' = Append(calls, x)
      BY <3>1 DEF Moves
    <3>3. SourceVar' = SourceVar /\ SourceVar = Var
      BY <1>4, <1>7, <1>20, <2>3, <3>1 DEF Sourced
    <3>4. x = <<"bar", Var>>
      <4>1. CASE Skipped(Var)
        <5>1. calls' = <<x>>
          BY <3>2, <4>1, FirstCall DEF Skipped
        <5> QED BY <1>3, <1>7, <2>3, <3>1, <4>1, <5>1 DEF Ending, Ended, Skipped
      <4>2. CASE Taken(Var)
        <5>1. calls' = <<<<"bar", Sum>>, <<"baz", Var>>, x>>
          BY <3>2, <4>2, ThirdCall DEF Taken
        <5>2. calls'[3] = x /\ calls'[3] = <<"bar", Var>>
          BY <1>3, <1>7, <2>3, <3>1, <4>2, <5>1 DEF Ending, Ended, Taken
        <5> QED BY <5>2
      <4> QED BY <1>20, <4>1, <4>2 DEF Joining, Joined
    <3> QED BY <1>3, <1>4, <1>20, <2>3, <3>2, <3>3, <3>4
            DEF Sourced, CFoo!FNext, CFoo!LastBar, CFoo!Call
  <2> QED BY <2>1, <2>2, <2>3
<1>21. CASE Ending
  <2>1. Ending'
    <3>1. blk = l3 /\ blk' = l3
      BY <1>5, <1>11, <1>21
    <3>2. ~Joining'
      <4>1. Len(calls) = IF Sum = Magic THEN 3 ELSE 1
        BY <1>5, <1>21
      <4>2. Joining' => Len(calls') = IF Sum = Magic THEN 2 ELSE 0
        BY <1>6
      <4>3. CASE Sum = Magic
        BY <1>14, <4>1, <4>2, <4>3
      <4>4. CASE Sum # Magic
        BY <1>14, <4>1, <4>2, <4>4
      <4> QED BY <4>3, <4>4
    <3> QED BY <1>1, <1>6, <1>12, <3>1, <3>2
  <2>2. calls' = calls
    BY <1>5, <1>6, <1>7, <1>21, <2>1
  <2>3. Var' = Var
    BY <1>3, <1>21, <2>1, <2>2 DEF Ending, Ended
  <2> QED BY <1>4, <1>10, <1>21, <2>1, <2>2, <2>3 DEF Sourced
<1> QED BY <1>15, <1>16, <1>17, <1>18, <1>19, <1>20, <1>21 DEF Phased

(* Each position in the code is in a phase.                                  *)
LEMMA IRPhased == ASSUME IRInv PROVE Phased /\ prog.varSlot \in DOMAIN mem
<1>1. /\ prog.layout = <<"bb", "bb9", "bb12">> /\ Var = mem["I3"] /\ prog.varSlot \in DOMAIN mem
      /\ a \in Word /\ b \in Word
  BY IRInstr DEF Var, IRInv, IRState, IRAllocas
<1>2. Sum \in Word
  BY <1>1, LoweredAssumption DEF Sum
<1>3. CASE InBB
  BY <1>1, <1>2, <1>3 DEF InBB, Phased, Shape, Adding, Testing
<1>4. CASE InBB9
  <2>1. CASE pos \in {1, 2}
    BY <1>1, <1>2, <1>4, <2>1 DEF InBB9, Phased, Shape, Barring
  <2>2. CASE pos = 3
    BY <1>1, <1>2, <1>4, <2>2 DEF InBB9, Phased, Shape, Bazzing
  <2>3. CASE pos = 4
    <3>1. Taken(reg["I11"]) /\ reg["I11"] \in Word
      BY <1>4, <2>3 DEF InBB9, Taken
    <3> QED BY <1>1, <1>2, <1>4, <2>3, <3>1 DEF InBB9, Phased, Shape, Storing
  <2>4. CASE pos = 5
    <3>1. Taken(Var) /\ Var \in Word
      BY <1>1, <1>4, <2>4 DEF InBB9, Taken
    <3> QED BY <1>1, <1>4, <2>4, <3>1 DEF InBB9, Phased, Shape, Storing
  <2> QED BY <1>4, <2>1, <2>2, <2>3, <2>4 DEF InBB9
<1>5. CASE InBB12
  BY <1>1, <1>5 DEF InBB12, Phased, Shape, Joining, Ending
<1> QED BY <1>1, <1>3, <1>4, <1>5 DEF IRInv

LEMMA MIRPhased == ASSUME MIRInv PROVE Phased /\ prog.varSlot \in DOMAIN mem
<1>1. /\ prog.layout = <<"EntryBB", "ThenBB", "ExitBB">> /\ Var = mem["FrameIndex"]
      /\ prog.varSlot \in DOMAIN mem /\ a \in Word /\ b \in Word
  BY DEF Var, MIRInv, MIRState, MIRLayout, MIRSlots
<1>2. Sum \in Word
  BY <1>1, LoweredAssumption DEF Sum
<1>3. CASE InEntryBB
  BY <1>1, <1>2, <1>3 DEF InEntryBB, Phased, Shape, Adding, Testing
<1>4. CASE InThenBB
  <2>1. CASE pos \in {1, 2, 3}
    BY <1>1, <1>2, <1>4, <2>1 DEF InThenBB, Phased, Shape, Barring
  <2>2. CASE pos = 4
    BY <1>1, <1>2, <1>4, <2>2 DEF InThenBB, Phased, Shape, Bazzing
  <2>3. CASE pos \in {5, 6}
    <3>1. \E v \in Word : Taken(v)
      BY <1>4, <2>3 DEF InThenBB, Taken
    <3> QED BY <1>1, <1>2, <1>4, <2>3, <3>1 DEF InThenBB, Phased, Shape, Storing
  <2>4. CASE pos = 7
    <3>1. Taken(Var) /\ Var \in Word
      BY <1>1, <1>4, <2>4 DEF InThenBB, Taken
    <3> QED BY <1>1, <1>4, <2>4, <3>1 DEF InThenBB, Phased, Shape, Storing
  <2> QED BY <1>4, <2>1, <2>2, <2>3, <2>4 DEF InThenBB
<1>5. CASE InExitBB
  BY <1>1, <1>5 DEF InExitBB, Phased, Shape, Joining, Ending
<1> QED BY <1>1, <1>3, <1>4, <1>5 DEF MIRInv

(* What a step of each function does, for PhaseStep.                         *)
LEMMA IRForward == ASSUME IRInv, Next PROVE Moves /\ Forward
<1>1. prog.layout = <<"bb", "bb9", "bb12">> /\ prog.varSlot \in DOMAIN mem
  BY IRInstr, IRPhased
<1>2. ASSUME InBlock
      PROVE  /\ Instr.op = "store" => 1 \in DOMAIN Instr.src
             /\ Instr.op \in {"br", "brcond"} =>
                  \/ blk = "bb" /\ Instr.dst \in {"bb9", "bb12"}
                  \/ blk = "bb9" /\ Instr.dst = "bb12"
  <2>1. CASE InBB
    BY <2>1, IRInstr DEF InBB, Store, Load, AddOf, Constant, ICmpEQ, BrCond, Br
  <2>2. CASE InBB9
    BY <2>2, IRInstr DEF InBB9, Load, CallBar, CallBaz, Store, Br
  <2>3. CASE InBB12
    BY <2>3, IRInstr DEF InBB12, Load, CallBar, Ret
  <2> QED BY <2>1, <2>2, <2>3 DEF IRInv
<1>3. ~FallThrough
  BY IRInstr DEF FallThrough, IRInv, InBB, InBB9, InBB12
<1>4. Moves
  BY <1>1, <1>2, NextMoves
<1>5. blk' = blk \/ (InBlock /\ Instr.op \in {"br", "brcond"} /\ blk' = Instr.dst)
  BY <1>3 DEF Next, Compute, StoreSlot, Branch, CallBarInstr, CallBazInstr, Return, Halted, Advance,
              Goto, vars
<1> QED BY <1>1, <1>2, <1>4, <1>5 DEF Forward

LEMMA MIRForward == ASSUME MIRInv, Next PROVE Moves /\ Forward
<1>1. prog.layout = <<"EntryBB", "ThenBB", "ExitBB">> /\ prog.varSlot \in DOMAIN mem
  BY MIRPhased DEF MIRInv, MIRState, MIRLayout
<1>2. ASSUME InBlock
      PROVE  /\ Instr.op = "store" => 1 \in DOMAIN Instr.src
             /\ Instr.op \in {"br", "brcond"} =>
                  blk = "EntryBB" /\ Instr.dst \in {"ThenBB", "ExitBB"}
  <2>1. CASE InEntryBB
    BY <2>1, MIRInstr DEF InEntryBB, Store, Load, AddOf, Constant, ICmpEQ, BrCond, Br, Copy
  <2>2. CASE InThenBB
    BY <1>2, <2>2, MIRInstr DEF InThenBB, InBlock, Load, CallBar, CallBaz, Store, Copy
  <2>3. CASE InExitBB
    BY <2>3, MIRInstr DEF InExitBB, Load, CallBar, Ret, Copy
  <2> QED BY <2>1, <2>2, <2>3 DEF MIRInv
<1>3. FallThrough => blk = "ThenBB" /\ blk' = "ExitBB"
  BY <1>1, MIRInstr DEF FallThrough, Goto, MIRInv, InEntryBB, InThenBB, InExitBB
<1>4. Moves
  BY <1>1, <1>2, NextMoves
<1>5. \/ blk' = blk \/ FallThrough
      \/ InBlock /\ Instr.op \in {"br", "brcond"} /\ blk' = Instr.dst
  BY DEF Next, Compute, StoreSlot, Branch, CallBarInstr, CallBazInstr, Return, Halted, Advance,
         Goto, vars
<1> QED BY <1>1, <1>2, <1>3, <1>4, <1>5 DEF Forward

(***************************************************************************)
(* The functions the exercises build, and what holds while they run.       *)
(***************************************************************************)
\* every function called was built by an exercise, with any declared CFG
Built == \A p \in Programs : p = BuiltFoo \/ \E cfg : p = MachineFoo(cfg)

Inv == prog \in Programs /\ (IRInv \/ MIRInv)

(* The invariant is established, and kept by every step.                     *)
LEMMA InvInit == ASSUME Built, Init PROVE Inv
<1>1. prog \in Programs
  BY DEF Init
<1> QED BY <1>1, IRInit, MIRInit DEF Built, Inv

LEMMA InvNext == ASSUME Inv, Next PROVE Inv'
<1>1. prog' = prog
  BY IRForward, MIRForward DEF Inv, Moves
<1>2. CASE IRInv
  BY <1>1, <1>2, IRStepBB, IRStepBB9, IRStepBB12 DEF Inv, IRInv
<1>3. CASE MIRInv
  BY <1>1, <1>3, MIRStepEntryBB, MIRStepThenBB, MIRStepExitBB DEF Inv, MIRInv
<1> QED BY <1>2, <1>3 DEF Inv

LEMMA InvStutter == ASSUME Inv, UNCHANGED vars PROVE Inv'
BY DEF vars, Inv, IRInv, IRState, InBB, InBB9, InBB12, MIRInv, MIRState, InEntryBB, InThenBB,
       InExitBB, Joined, Skipped, Taken, Ended, Sum, Flag

(* While a function that was built runs, its registers and its slots hold    *)
(* what the C function computed so far.                                      *)
THEOREM InvHolds == ASSUME Built PROVE Spec => []Inv
<1>1. Init => Inv
  BY InvInit
<1>2. Inv /\ [Next]_vars => Inv'
  BY InvNext, InvStutter
<1> QED BY <1>1, <1>2, PTL DEF Spec

(* "represents the lowering of the following foo"                            *)
(* (ch3/llvm_ir/solution/populate_function.cpp:16-27): the IR and the        *)
(* Machine IR, whatever CFG was declared for the latter, implement the C     *)
(* function: each of their steps is a step of it or changes nothing of it.   *)
THEOREM LowersFooHolds == ASSUME Built PROVE Spec => LowersFoo
<1>1. Inv => Phased
  BY IRPhased, MIRPhased DEF Inv
<1>2. Init => CFoo!FInit
  <2> SUFFICES ASSUME Init PROVE CFoo!FInit
    OBVIOUS
  <2>1. prog.varSlot \in prog.slots /\ a \in Word /\ b \in Word
    BY ProgramsAssumption DEF Init, IsProgram
  <2>2. mem[prog.varSlot] = None /\ calls = <<>>
    BY <2>1 DEF Init
  <2>3. Phased /\ Sourced /\ Var = None
    BY <1>1, <2>2, InvInit, PhaseSource DEF Var
  <2>4. SourceLine = "add" /\ SourceVar = None
    BY <2>3, LoweredAssumption DEF Phased, Sourced
  <2> QED BY <2>1, <2>2, <2>4 DEF CFoo!FInit
<1>3. Inv /\ Inv' /\ [Next]_vars => [CFoo!FNext]_CFoo!fvars
  <2> SUFFICES ASSUME Inv, Inv', [Next]_vars PROVE [CFoo!FNext]_CFoo!fvars
    OBVIOUS
  <2>1. CASE Next
    <3>1. Phased /\ Phased'
      BY <1>1, PTL
    <3>2. Moves /\ Forward
      BY <2>1, IRForward, MIRForward DEF Inv
    <3> QED BY <3>1, <3>2, PhaseStep
  <2>2. CASE UNCHANGED vars
    BY <2>2 DEF vars, CFoo!fvars, SourceLine, SourceVar
  <2> QED BY <2>1, <2>2
<1> QED BY <1>2, <1>3, InvHolds, PTL DEF Spec, LowersFoo, CFoo!FSpec

(* With the edges solutionPopulateMachineIR declares (EntryBB->addSuccessor, *)
(* solution/populate_function.cpp:46-49) and in the IR, control moves only   *)
(* along declared edges.  The CFG of your_turn is left out: FollowsCFG fails *)
(* there, as the run yourturncfg shows.                                      *)
THEOREM FollowsCFGHolds ==
  ASSUME Programs \subseteq {BuiltFoo, MachineFoo(SolutionCFG)}
  PROVE  Spec => []FollowsCFG
<1>1. Built
  BY DEF Built
<1>2. Inv => FollowsCFG
  <2>1. ASSUME IRInv PROVE FollowsCFG
    <3>1. prog.successors = IRSuccessors
      BY <2>1 DEF IRInv, IRState, BuiltFoo
    <3>2. DOMAIN IRCode = {"bb", "bb9", "bb12"} /\ IRCode["bb"] = PopulateBB
          /\ IRCode["bb9"] = PopulateBB9
      BY DEF IRCode
    <3>3. {"bb9", "bb12"} \subseteq IRSuccessors["bb"]
      <4>1. /\ 10 \in DOMAIN PopulateBB /\ PopulateBB[10] = BrCond("I8", "bb9")
            /\ 11 \in DOMAIN PopulateBB /\ PopulateBB[11] = Br("bb12")
        BY DEF PopulateBB
      <4> QED BY <3>2, <4>1 DEF IRSuccessors, BrCond, Br
    <3>4. "bb12" \in IRSuccessors["bb9"]
      <4>1. 5 \in DOMAIN PopulateBB9 /\ PopulateBB9[5] = Br("bb12")
        BY DEF PopulateBB9
      <4> QED BY <3>2, <4>1 DEF IRSuccessors, Br
    <3> QED BY <2>1, <3>1, <3>3, <3>4 DEF IRInv, InBB, InBB9, InBB12, FollowsCFG
  <2>2. ASSUME MIRInv, prog = MachineFoo(SolutionCFG) PROVE FollowsCFG
    BY <2>2 DEF MIRInv, InEntryBB, InThenBB, InExitBB, FollowsCFG, MachineFoo, SolutionCFG
  <2>3. ASSUME prog = BuiltFoo PROVE ~MIRInv
    BY <2>3 DEF MIRInv, MIRState, BuiltFoo
  <2> QED BY <2>1, <2>2, <2>3 DEF Inv
<1> QED BY <1>1, <1>2, InvHolds, PTL

(* No instruction reads a register or a slot that has no value: the calls of *)
(* the builder define every value on every path to its uses.                 *)
THEOREM NeverStuck == ASSUME Built PROVE Spec => [](InBlock => Defined)
<1>1. Inv => (InBlock => Defined)
  <2> SUFFICES ASSUME Inv, InBlock PROVE Defined
    OBVIOUS
  <2>1. a # None /\ b # None /\ Sum # None /\ Magic # None /\ Flag # None
    BY LoweredAssumption DEF Inv, IRInv, IRState, MIRInv, MIRState, Sum, Flag
  <2>2. CASE IRInv /\ InBB
    BY <2>1, <2>2, IRInstr DEF InBB, IRInv, IRState, IRAllocas, Defined, Source,
       Store, Load, AddOf, Constant, ICmpEQ, BrCond, Br
  <2>3. CASE IRInv /\ InBB9
    BY <2>1, <2>3, LoweredAssumption, IRInstr DEF InBB9, Taken, Defined, Source,
       Load, CallBar, CallBaz, Store, Br
  <2>4. CASE IRInv /\ InBB12
    BY <2>1, <2>4, LoweredAssumption, IRInstr DEF InBB12, Joined, Skipped, Taken, Defined, Source,
       Load, CallBar, Ret
  <2>5. CASE MIRInv /\ InEntryBB
    BY <2>1, <2>5, MIRInstr DEF InEntryBB, Defined, Source,
       Store, Load, AddOf, Constant, ICmpEQ, BrCond, Br, Copy
  <2>6. CASE MIRInv /\ InThenBB
    BY <2>1, <2>6, LoweredAssumption, MIRInstr DEF InThenBB, InBlock, Taken, Defined, Source,
       Load, CallBar, CallBaz, Store, Copy
  <2>7. CASE MIRInv /\ InExitBB
    BY <2>1, <2>7, LoweredAssumption, MIRInstr DEF InExitBB, Joined, Skipped, Taken, Defined,
       Source, Load, CallBar, Ret, Copy
  <2> QED BY <2>2, <2>3, <2>4, <2>5, <2>6, <2>7 DEF Inv, IRInv, MIRInv
<1> QED BY <1>1, InvHolds, PTL
===================================================================================
