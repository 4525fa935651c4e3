---------------------------- MODULE PropagateProofs ----------------------------
(***************************************************************************)
(* Propagate and CoExec.  The invariant of Propagate: the rewritten        *)
(* function is the given one with the deleted instructions' constants in   *)
(* place of their uses, and each of these constants is one the instruction *)
(* may evaluate to.  From it, constant propagation preserves the behaviour *)
(* of every function without memory, on every argument, through loops, for *)
(* every word size and every semantics of the operators in which poison is *)
(* contagious (EvalAssumption).                                            *)
(***************************************************************************)
EXTENDS CoExec, TLAPS

Subst(o) == IF o.tag = "ins" /\ repl[o.val] # None THEN ConstOp(repl[o.val]) ELSE o

Substituted(x) == [x EXCEPT !.args = [k \in DOMAIN x.args |-> Subst(x.args[k])]]

PTypeOK == /\ fn \in Functions
           /\ IsCode(code)
           /\ DOMAIN code \subseteq DOMAIN fn.code
           /\ repl \in [Ins -> Value \cup {None}]

\* an instruction is deleted exactly when it has a replacement
ErasedReplaced == \A i \in DOMAIN fn.code : i \in DOMAIN code <=> repl[i] = None

Rewritten == \A j \in DOMAIN code : code[j] = Substituted(fn.code[j])

Justified ==
  \A i \in DOMAIN fn.code \ DOMAIN code :
    /\ fn.code[i].op \in BinaryOperator
    /\ \E a, b \in Word :
         /\ Subst(fn.code[i].args[1]) = ConstOp(a)
         /\ Subst(fn.code[i].args[2]) = ConstOp(b)
         /\ Refines(repl[i], Eval(fn.code[i].op, fn.code[i].nsw, a, b))

PInv == PTypeOK /\ ErasedReplaced /\ Rewritten /\ Justified

(* Replacing the uses of i by a constant leaves an instruction with operands *)
(* of the same number.                                                       *)
LEMMA ReplaceInstruction ==
  ASSUME NEW y \in Instruction, NEW i \in Ins, NEW v \in Value
  PROVE  LET r == ReplaceUses(y, i, v)
         IN  /\ r \in Instruction
             /\ DOMAIN r.args = DOMAIN y.args
             /\ r.op = y.op /\ r.nsw = y.nsw /\ r.bbs = y.bbs
             /\ \A k \in DOMAIN y.args :
                  r.args[k] = IF y.args[k] = UseOp(i) THEN ConstOp(v) ELSE y.args[k]
<1> DEFINE s == [k \in DOMAIN y.args |->
                   IF y.args[k] = UseOp(i) THEN ConstOp(v) ELSE y.args[k]]
<1>1. y \in [op : Opcode, nsw : BOOLEAN, args : Seq(Operand), bbs : Seq(Block)]
  BY DEF Instruction
<1>2. ConstOp(v) \in Operand
  BY DEF ConstOp, Operand
<1>3. s \in Seq(Operand) /\ Len(s) = Len(y.args) /\ DOMAIN s = DOMAIN y.args
  <2>1. y.args \in Seq(Operand) /\ DOMAIN y.args = 1 .. Len(y.args) /\ Len(y.args) \in Nat
    BY <1>1
  <2>2. \A k \in 1 .. Len(y.args) : y.args[k] \in Operand
    BY <2>1
  <2>3. s \in [1 .. Len(y.args) -> Operand]
    BY <1>2, <2>1, <2>2
  <2> QED BY <2>1, <2>3
<1>4. [y EXCEPT !.args = s] \in [op : Opcode, nsw : BOOLEAN, args : Seq(Operand), bbs : Seq(Block)]
  BY <1>1, <1>3
<1> QED BY <1>1, <1>3, <1>4 DEF Instruction, ReplaceUses

(* What one replacement does to the code, instruction by instruction.        *)
LEMMA ReplaceCode ==
  ASSUME IsCode(code), NEW i \in DOMAIN code, NEW v \in Value, Replace(i, v)
  PROVE  /\ IsCode(code')
         /\ DOMAIN code' = DOMAIN code \ {i}
         /\ \A j \in DOMAIN code' : code'[j] = ReplaceUses(code[j], i, v)
<1>1. code' = [j \in DOMAIN code \ {i} |-> ReplaceUses(code[j], i, v)]
  BY DEF Replace, EraseFromParent, ReplaceAllUsesWith
<1>2. \A j \in DOMAIN code : ReplaceUses(code[j], i, v) \in Instruction
  <2> SUFFICES ASSUME NEW j \in DOMAIN code PROVE ReplaceUses(code[j], i, v) \in Instruction
    OBVIOUS
  <2>1. code[j] \in Instruction /\ i \in Ins
    BY DEF IsCode
  <2> QED BY <2>1, ReplaceInstruction
<1>3. IsCode(code')
  BY <1>1, <1>2 DEF IsCode
<1> QED BY <1>1, <1>3

(* A function given to the pass has well-typed, closed code.                 *)
LEMMA FunctionCode ==
  ASSUME NEW f \in Functions
  PROVE  IsCode(f.code) /\ Closed(f.code)
BY FunctionsAssumption DEF IsFunction

LEMMA SpecialValues ==
  /\ None \notin Value /\ Crash \notin Value /\ UB \notin Value
  /\ Word \subseteq Value /\ Poison \notin Word /\ None # Crash
BY SpecialAssumption DEF Value

LEMMA PInitInv == PInit => PInv
<1> SUFFICES ASSUME PInit PROVE PInv
  OBVIOUS
<1> USE DEF PInit
<1>1. IsCode(fn.code)
  BY FunctionCode
<1>2. PTypeOK
  BY <1>1 DEF PTypeOK
<1>3. ErasedReplaced
  BY <1>1 DEF ErasedReplaced, IsCode
<1>4. Rewritten
  <2> SUFFICES ASSUME NEW j \in DOMAIN code PROVE code[j] = Substituted(fn.code[j])
    BY DEF Rewritten
  <2> DEFINE y == code[j]
  <2>1. y \in [op : Opcode, nsw : BOOLEAN, args : Seq(Operand), bbs : Seq(Block)]
    BY <1>1 DEF IsCode, Instruction
  <2>2. \A k \in DOMAIN y.args : Subst(y.args[k]) = y.args[k]
    <3> SUFFICES ASSUME NEW k \in DOMAIN y.args, y.args[k].tag = "ins"
                 PROVE  repl[y.args[k].val] = None
      BY DEF Subst
    <3>1. y.args[k] \in Operand
      BY <2>1
    <3>2. y.args[k].val \in Ins
      BY <3>1 DEF Operand
    <3> QED BY <3>2
  <2>3. [k \in DOMAIN y.args |-> Subst(y.args[k])] = y.args
    BY <2>1, <2>2
  <2>4. [y EXCEPT !.args = y.args] = y
    BY <2>1
  <2> QED BY <2>3, <2>4 DEF Substituted
<1>5. Justified
  BY DEF Justified
<1> QED BY <1>2, <1>3, <1>4, <1>5 DEF PInv

(* Replacing i by v turns one substitution into the next.                    *)
LEMMA SubstStep ==
  ASSUME repl \in [Ins -> Value \cup {None}], NEW i \in Ins, repl[i] = None,
         NEW v \in Value, repl' = [repl EXCEPT ![i] = v], NEW o \in Operand
  PROVE  /\ Subst(o)' = IF Subst(o) = UseOp(i) THEN ConstOp(v) ELSE Subst(o)
         /\ Subst(o).tag = "const" => Subst(o)' = Subst(o)
<1>1. v # None
  BY SpecialValues
<1>2. CASE o = UseOp(i)
  <2>1. Subst(o) = o /\ Subst(o)' = ConstOp(v)
    BY <1>1, <1>2 DEF Subst, UseOp
  <2> QED BY <1>2, <2>1 DEF UseOp
<1>3. CASE o # UseOp(i)
  <2>1. ~(o.tag = "ins" /\ o.val = i)
    BY <1>3 DEF Operand, UseOp
  <2>2. Subst(o)' = Subst(o)
    <3>1. CASE o.tag = "ins"
      <4>1. o.val \in Ins
        BY <3>1 DEF Operand
      <4>2. repl'[o.val] = repl[o.val]
        BY <2>1, <3>1, <4>1
      <4> QED BY <4>2 DEF Subst
    <3>2. CASE o.tag # "ins"
      BY <3>2 DEF Subst
    <3> QED BY <3>1, <3>2
  <2>3. Subst(o) # UseOp(i)
    BY <1>3 DEF Subst, UseOp, ConstOp
  <2> QED BY <2>2, <2>3
<1> QED BY <1>2, <1>3

(* A constant integer operand is determined by its value.                    *)
LEMMA ConstOperand ==
  ASSUME NEW o \in Operand, o.tag = "const"
  PROVE  o = ConstOp(o.val)
BY DEF Operand, ConstOp

(* The invariant is preserved by each replacement.                           *)
LEMMA PInvStep == PInv /\ Propagate => PInv'
<1> SUFFICES ASSUME PInv,
                    NEW i \in DOMAIN code, NEW v \in Value,
                    BothConstant(code[i]),
                    Refines(v, Eval(code[i].op, code[i].nsw, code[i].args[1].val, code[i].args[2].val)),
                    Replace(i, v)
             PROVE  PInv'
  BY DEF Propagate
<1>1. /\ fn \in Functions /\ IsCode(code) /\ DOMAIN code \subseteq DOMAIN fn.code
      /\ repl \in [Ins -> Value \cup {None}]
      /\ ErasedReplaced /\ Rewritten /\ Justified
  BY DEF PInv, PTypeOK
<1>2. IsCode(fn.code)
  BY <1>1, FunctionCode
<1>3. i \in Ins /\ i \in DOMAIN fn.code /\ DOMAIN fn.code \subseteq Ins
  BY <1>1, <1>2 DEF IsCode
<1>4. fn' = fn /\ repl' = [repl EXCEPT ![i] = v]
  BY DEF Replace
<1>5. v # None /\ repl[i] = None
  BY <1>1, <1>3, SpecialValues DEF ErasedReplaced
<1>6. DOMAIN code' = DOMAIN code \ {i} /\ IsCode(code')
  BY <1>1, ReplaceCode
<1>7. PTypeOK'
  BY <1>1, <1>3, <1>4, <1>6 DEF PTypeOK
<1>8. ErasedReplaced'
  BY <1>1, <1>3, <1>4, <1>5, <1>6 DEF ErasedReplaced
<1>9. \A o \in Operand :
        /\ Subst(o)' = IF Subst(o) = UseOp(i) THEN ConstOp(v) ELSE Subst(o)
        /\ Subst(o).tag = "const" => Subst(o)' = Subst(o)
  <2> SUFFICES ASSUME NEW o \in Operand
               PROVE  /\ Subst(o)' = IF Subst(o) = UseOp(i) THEN ConstOp(v) ELSE Subst(o)
                      /\ Subst(o).tag = "const" => Subst(o)' = Subst(o)
    OBVIOUS
  <2> QED BY <1>1, <1>3, <1>4, <1>5, SubstStep
<1>10. \A j \in DOMAIN fn.code :
         /\ fn.code[j] \in [op : Opcode, nsw : BOOLEAN, args : Seq(Operand), bbs : Seq(Block)]
         /\ \A k \in DOMAIN fn.code[j].args : fn.code[j].args[k] \in Operand
  BY <1>2 DEF IsCode, Instruction
<1>11. Rewritten'
  <2> SUFFICES ASSUME NEW j \in DOMAIN code'
               PROVE  code'[j] = Substituted(fn.code[j])'
    BY <1>4 DEF Rewritten
  <2> DEFINE y == fn.code[j]
             s == [k \in DOMAIN y.args |-> Subst(y.args[k])]
             z == [y EXCEPT !.args = s]
  <2>1. j \in DOMAIN code /\ j \in DOMAIN fn.code /\ code[j] = z
    BY <1>1, <1>6 DEF Rewritten, Substituted
  <2>2. y \in [op : Opcode, nsw : BOOLEAN, args : Seq(Operand), bbs : Seq(Block)]
    BY <1>10, <2>1
  <2>3. z.args = s
    BY <2>2
  <2>4. code'[j] = [z EXCEPT !.args = [k \in DOMAIN s |->
                      IF s[k] = UseOp(i) THEN ConstOp(v) ELSE s[k]]]
    <3>1. code'[j] = ReplaceUses(z, i, v)
      BY <1>1, <2>1, ReplaceCode
    <3>2. ReplaceUses(z, i, v) = [z EXCEPT !.args = [k \in DOMAIN z.args |->
                      IF z.args[k] = UseOp(i) THEN ConstOp(v) ELSE z.args[k]]]
      BY DEF ReplaceUses
    <3> HIDE DEF s, z
    <3> QED BY <2>3, <3>1, <3>2
  <2>5. [k \in DOMAIN s |-> IF s[k] = UseOp(i) THEN ConstOp(v) ELSE s[k]]
          = [k \in DOMAIN y.args |-> Subst(y.args[k])']
    <3> DEFINE T(o) == IF Subst(o) = UseOp(i) THEN ConstOp(v) ELSE Subst(o)
    <3>1. \A k \in DOMAIN y.args : y.args[k] \in Operand /\ y'.args[k] = y.args[k]
      BY <1>4, <1>10, <2>1
    <3>2. \A o \in Operand : Subst(o)' = T(o)
      BY <1>9
    <3>3. \A k \in DOMAIN y.args : Subst(y.args[k])' = T(y.args[k])
      <4> HIDE DEF y, T
      <4> QED BY <3>1, <3>2
    <3>4. [k \in DOMAIN s |-> IF s[k] = UseOp(i) THEN ConstOp(v) ELSE s[k]]
            = [k \in DOMAIN y.args |-> T(y.args[k])]
      OBVIOUS
    <3> HIDE DEF y, T, s
    <3> QED BY <3>3, <3>4
  <2>6. code'[j] = [y EXCEPT !.args = [k \in DOMAIN y.args |-> Subst(y.args[k])']]
    <3> DEFINE t == [k \in DOMAIN y.args |-> Subst(y.args[k])']
    <3>1. code'[j] = [z EXCEPT !.args = t]
      BY <2>4, <2>5
    <3>2. [z EXCEPT !.args = t] = [y EXCEPT !.args = t]
      <4> HIDE DEF t, s
      <4> QED BY <2>2
    <3> QED BY <3>1, <3>2
  <2> QED BY <1>4, <2>6 DEF Substituted
<1>12. Justified'
  <2> SUFFICES ASSUME NEW e \in DOMAIN fn.code, e \notin DOMAIN code'
               PROVE  /\ fn.code[e].op \in BinaryOperator
                      /\ \E a, b \in Word :
                           /\ Subst(fn.code[e].args[1])' = ConstOp(a)
                           /\ Subst(fn.code[e].args[2])' = ConstOp(b)
                           /\ Refines(repl'[e], Eval(fn.code[e].op, fn.code[e].nsw, a, b))
    BY <1>4 DEF Justified
  <2>1. fn.code[e].op \in PureOp =>
           fn.code[e].args[1] \in Operand /\ fn.code[e].args[2] \in Operand
    <3>1. fn.code[e].op \in PureOp => Len(fn.code[e].args) = 2
      BY <1>2 DEF IsCode, Instruction
    <3> QED BY <1>10, <3>1
  <2>2. CASE e # i
    <3>1. e \in DOMAIN fn.code \ DOMAIN code
      BY <1>6, <2>2
    <3>2. PICK a, b \in Word :
            /\ Subst(fn.code[e].args[1]) = ConstOp(a)
            /\ Subst(fn.code[e].args[2]) = ConstOp(b)
            /\ Refines(repl[e], Eval(fn.code[e].op, fn.code[e].nsw, a, b))
      BY <1>1, <3>1 DEF Justified
    <3>3. fn.code[e].op \in BinaryOperator /\ fn.code[e].op \in PureOp
      BY <1>1, <3>1 DEF Justified, PureOp
    <3>4. Subst(fn.code[e].args[1]).tag = "const" /\ Subst(fn.code[e].args[2]).tag = "const"
      BY <3>2 DEF ConstOp
    <3>5. /\ Subst(fn.code[e].args[1])' = ConstOp(a)
          /\ Subst(fn.code[e].args[2])' = ConstOp(b)
      BY <1>4, <1>9, <2>1, <3>2, <3>3, <3>4
    <3>6. repl'[e] = repl[e]
      BY <1>1, <1>3, <1>4, <2>2
    <3> QED BY <3>2, <3>3, <3>5, <3>6
  <2>3. CASE e = i
    <3> DEFINE y == fn.code[i]
    <3>1. code[i] = [y EXCEPT !.args = [k \in DOMAIN y.args |-> Subst(y.args[k])]]
      BY <1>1 DEF Rewritten, Substituted
    <3>2. y \in [op : Opcode, nsw : BOOLEAN, args : Seq(Operand), bbs : Seq(Block)]
      BY <1>3, <1>10
    <3>3. code[i].op = y.op /\ code[i].nsw = y.nsw
          /\ code[i].args = [k \in DOMAIN y.args |-> Subst(y.args[k])]
      BY <3>1, <3>2
    <3>4. y.op \in BinaryOperator /\ y.op \in PureOp
      BY <3>3 DEF BothConstant, PureOp
    <3>5. Len(y.args) = 2
      BY <1>2, <1>3, <3>4 DEF IsCode, Instruction
    <3>6. 1 \in DOMAIN y.args /\ 2 \in DOMAIN y.args
      BY <3>2, <3>5
    <3>7. code[i].args[1] = Subst(y.args[1]) /\ code[i].args[2] = Subst(y.args[2])
      BY <3>3, <3>6
    <3>8. code[i].args[1] \in Operand /\ code[i].args[2] \in Operand
      BY <1>1, <3>3, <3>6 DEF IsCode, Instruction
    <3> DEFINE a == code[i].args[1].val
               b == code[i].args[2].val
    <3>9. /\ a \in Word /\ code[i].args[1].tag = "const"
          /\ b \in Word /\ code[i].args[2].tag = "const"
      BY DEF BothConstant
    <3>10. code[i].args[1] = ConstOp(a) /\ code[i].args[2] = ConstOp(b)
      BY <3>8, <3>9, ConstOperand
    <3>11. Subst(y.args[1])' = ConstOp(a) /\ Subst(y.args[2])' = ConstOp(b)
      BY <1>4, <1>9, <2>1, <2>3, <3>4, <3>7, <3>9, <3>10
    <3>12. repl'[i] = v
      BY <1>1, <1>3, <1>4
    <3>13. Refines(repl'[i], Eval(y.op, y.nsw, a, b))
      BY <3>3, <3>12
    <3> HIDE DEF a, b
    <3> QED BY <2>3, <3>4, <3>9, <3>11, <3>13
  <2> QED BY <2>2, <2>3
<1> QED BY <1>7, <1>8, <1>11, <1>12 DEF PInv

LEMMA PInvStutter == PInv /\ UNCHANGED pvars => PInv'
<1> SUFFICES ASSUME PInv, UNCHANGED pvars PROVE PInv'
  OBVIOUS
<1>1. fn' = fn /\ code' = code /\ repl' = repl
  BY DEF pvars
<1> QED BY <1>1 DEF PInv, PTypeOK, ErasedReplaced, Rewritten, Justified, Substituted, Subst

THEOREM PropagateInvariant == PSpec => []PInv
BY PInitInv, PInvStep, PInvStutter, PTL DEF PSpec

(* An operand of the rewritten code that is the result of an instruction was *)
(* that operand in the given code, and the instruction is still there.       *)
LEMMA LiveUse ==
  ASSUME PInv, NEW j \in DOMAIN code, NEW u \in Uses(code[j])
  PROVE  u \in Uses(fn.code[j]) /\ u \in DOMAIN code
<1> DEFINE y == fn.code[j]
<1>1. /\ j \in DOMAIN fn.code /\ IsCode(fn.code) /\ Closed(fn.code)
      /\ code[j] = [y EXCEPT !.args = [k \in DOMAIN y.args |-> Subst(y.args[k])]]
  BY FunctionCode DEF PInv, PTypeOK, Rewritten, Substituted
<1>2. y \in [op : Opcode, nsw : BOOLEAN, args : Seq(Operand), bbs : Seq(Block)]
  BY <1>1 DEF IsCode, Instruction
<1>3. code[j].args = [k \in DOMAIN y.args |-> Subst(y.args[k])]
  BY <1>1, <1>2
<1>4. PICK k \in DOMAIN y.args : Subst(y.args[k]).tag = "ins" /\ Subst(y.args[k]).val = u
  BY <1>3 DEF Uses
<1> DEFINE o == y.args[k]
<1>5. o.tag = "ins" /\ repl[o.val] = None /\ o.val = u
  <2> HIDE DEF o
  <2> QED BY <1>4 DEF Subst, ConstOp, o
<1>6. u \in Uses(y)
  BY <1>5 DEF Uses
<1>7. u \in DOMAIN fn.code
  BY <1>1, <1>6 DEF Closed
<1> QED BY <1>5, <1>6, <1>7 DEF PInv, ErasedReplaced

(* No instruction uses a deleted one.                                        *)
LEMMA PInvClosed == PInv => Closed(code)
BY LiveUse DEF Closed

(* What an instruction of the rewritten function looks like.                 *)
LEMMA LiveInstruction ==
  ASSUME PInv, NEW i \in DOMAIN code
  PROVE  LET y == fn.code[i]
         IN  /\ i \in DOMAIN fn.code /\ i \in Ins /\ y \in Instruction
             /\ y.op \in Opcode /\ y.nsw \in BOOLEAN
             /\ y.args \in Seq(Operand) /\ y.bbs \in Seq(Block)
             /\ code[i].op = y.op /\ code[i].nsw = y.nsw /\ code[i].bbs = y.bbs
             /\ DOMAIN code[i].args = DOMAIN y.args /\ Len(code[i].args) = Len(y.args)
             /\ \A k \in DOMAIN y.args : code[i].args[k] = Subst(y.args[k])
<1> DEFINE y == fn.code[i]
<1>1. i \in DOMAIN fn.code /\ IsCode(fn.code) /\ IsCode(code)
  BY FunctionCode DEF PInv, PTypeOK
<1>2. i \in Ins /\ y \in Instruction /\ code[i] \in Instruction
  BY <1>1 DEF IsCode
<1>3. y \in [op : Opcode, nsw : BOOLEAN, args : Seq(Operand), bbs : Seq(Block)]
  BY <1>2 DEF Instruction
<1>4. code[i] = [y EXCEPT !.args = [k \in DOMAIN y.args |-> Subst(y.args[k])]]
  BY DEF PInv, Rewritten, Substituted
<1>5. /\ code[i].op = y.op /\ code[i].nsw = y.nsw /\ code[i].bbs = y.bbs
      /\ code[i].args = [k \in DOMAIN y.args |-> Subst(y.args[k])]
  BY <1>3, <1>4
<1>6. code[i].args \in Seq(Operand)
  BY <1>2 DEF Instruction
<1>7. DOMAIN code[i].args = DOMAIN y.args /\ Len(code[i].args) = Len(y.args)
  <2>1. DOMAIN code[i].args = DOMAIN y.args
    BY <1>5
  <2>2. \A m, n \in Nat : 1 .. m = 1 .. n => m = n
    <3> SUFFICES ASSUME NEW m \in Nat, NEW n \in Nat, 1 .. m = 1 .. n PROVE m = n
      OBVIOUS
    <3>1. m <= n
      <4>1. CASE m = 0
        BY <4>1
      <4>2. CASE m > 0
        <5>1. m \in 1 .. n
          BY <4>2
        <5> QED BY <5>1
      <4> QED BY <4>1, <4>2
    <3>2. n <= m
      <4>1. CASE n = 0
        BY <4>1
      <4>2. CASE n > 0
        <5>1. n \in 1 .. m
          BY <4>2
        <5> QED BY <5>1
      <4> QED BY <4>1, <4>2
    <3> QED BY <3>1, <3>2
  <2>3. DOMAIN code[i].args = 1 .. Len(code[i].args) /\ Len(code[i].args) \in Nat
    BY <1>6
  <2>4. DOMAIN y.args = 1 .. Len(y.args) /\ Len(y.args) \in Nat
    BY <1>3
  <2> QED BY <2>1, <2>2, <2>3, <2>4
<1> QED BY <1>1, <1>2, <1>3, <1>5, <1>7

(***************************************************************************)
(* The two executions agree: they are at the same place, what the target   *)
(* has computed refines what the source has, and so does the constant that *)
(* replaced a deleted instruction.                                         *)
(***************************************************************************)
EnvAgree(es, et) ==
  /\ \A j \in DOMAIN code : Refines(et[j], es[j])
  /\ \A j \in DOMAIN fn.code \ DOMAIN code : Refines(repl[j], es[j])

Agree(s, t) ==
  s.out # UB =>
    /\ t.blk = s.blk /\ t.pos = s.pos /\ t.prev = s.prev
    /\ (s.out = None) <=> (t.out = None)
    /\ Refines(t.out, s.out)
    /\ EnvAgree(s.env, t.env)
    /\ EnvAgree(s.atEntry, t.atEntry)

XInv == /\ PInv
        /\ running \in BOOLEAN /\ arg \in [Arg -> Word]
        /\ src \in State /\ tgt \in State
        /\ running => src.blk \in Block
        /\ ~running => src = Entry /\ tgt = Entry
        /\ Agree(src, tgt)

LEMMA RefinesTransitive ==
  ASSUME NEW a, NEW b, NEW c, Refines(a, b), Refines(b, c)
  PROVE  Refines(a, c)
BY SpecialAssumption DEF Refines

(* An operand of the rewritten function refines the operand it came from.    *)
LEMMA OperandRefines ==
  ASSUME PInv, arg \in [Arg -> Word],
         NEW es \in [Ins -> Value], NEW et \in [Ins -> Value], EnvAgree(es, et),
         NEW i \in DOMAIN fn.code, NEW k \in DOMAIN fn.code[i].args
  PROVE  LET o == fn.code[i].args[k]
         IN  /\ ValueOf(o, es) \in Value
             /\ ValueOf(Subst(o), et) \in Value
             /\ Refines(ValueOf(Subst(o), et), ValueOf(o, es))
<1> DEFINE o == fn.code[i].args[k]
<1> SUFFICES /\ ValueOf(o, es) \in Value
             /\ ValueOf(Subst(o), et) \in Value
             /\ Refines(ValueOf(Subst(o), et), ValueOf(o, es))
  OBVIOUS
<1>1. /\ fn \in Functions /\ DOMAIN code \subseteq DOMAIN fn.code
      /\ repl \in [Ins -> Value \cup {None}] /\ ErasedReplaced
  BY DEF PInv, PTypeOK
<1>2. IsCode(fn.code) /\ Closed(fn.code)
  BY <1>1, FunctionCode
<1>3. o \in Operand
  BY <1>2 DEF IsCode, Instruction
<1>4. CASE o.tag = "const"
  <2>1. o.val \in Value /\ Subst(o) = o
    BY <1>3, <1>4 DEF Operand, Subst
  <2> HIDE DEF o
  <2> QED BY <1>4, <2>1 DEF ValueOf, Refines
<1>5. CASE o.tag = "arg"
  <2>1. o.val \in Arg /\ Subst(o) = o
    BY <1>3, <1>5 DEF Operand, Subst
  <2>2. arg[o.val] \in Value
    BY <2>1, SpecialValues
  <2> HIDE DEF o
  <2> QED BY <1>5, <2>1, <2>2 DEF ValueOf, Refines
<1>6. CASE o.tag = "ins"
  <2>1. o.val \in Ins
    BY <1>3, <1>6 DEF Operand
  <2>2. o.val \in DOMAIN fn.code
    BY <1>2, <1>6 DEF Closed, Uses
  <2>3. ValueOf(o, es) = es[o.val] /\ es[o.val] \in Value
    BY <1>6, <2>1 DEF ValueOf
  <2>4. CASE repl[o.val] # None
    <3>1. Subst(o) = ConstOp(repl[o.val])
      BY <1>6, <2>4 DEF Subst
    <3>2. ValueOf(Subst(o), et) = repl[o.val]
      BY <3>1 DEF ValueOf, ConstOp
    <3>3. repl[o.val] \in Value
      BY <1>1, <2>1, <2>4
    <3>4. o.val \notin DOMAIN code
      BY <1>1, <2>2, <2>4 DEF ErasedReplaced
    <3>5. Refines(repl[o.val], es[o.val])
      BY <2>2, <3>4 DEF EnvAgree
    <3> QED BY <2>3, <3>2, <3>3, <3>5
  <2>5. CASE repl[o.val] = None
    <3>1. Subst(o) = o
      BY <2>5 DEF Subst
    <3>2. ValueOf(Subst(o), et) = et[o.val] /\ et[o.val] \in Value
      BY <1>6, <2>1, <3>1 DEF ValueOf
    <3>3. o.val \in DOMAIN code
      BY <1>1, <2>2, <2>5 DEF ErasedReplaced
    <3>4. Refines(et[o.val], es[o.val])
      BY <3>3 DEF EnvAgree
    <3> QED BY <2>3, <3>2, <3>4
  <2> QED BY <2>4, <2>5
<1>7. o.tag \in {"const", "arg", "ins"}
  BY <1>3 DEF Operand
<1> QED BY <1>4, <1>5, <1>6, <1>7

(* The fields of a state after each way an instruction may end.              *)
LEMMA StateUpdates ==
  ASSUME NEW s \in State
  PROVE  /\ \A v \in Value \cup {UB} :
              /\ Stop(s, v) \in State
              /\ Stop(s, v).blk = s.blk /\ Stop(s, v).pos = s.pos
              /\ Stop(s, v).prev = s.prev /\ Stop(s, v).atEntry = s.atEntry
              /\ Stop(s, v).env = s.env /\ Stop(s, v).out = v
         /\ \A i \in Ins, v \in Value :
              /\ Define(s, i, v) \in State
              /\ Define(s, i, v).blk = s.blk /\ Define(s, i, v).pos = s.pos + 1
              /\ Define(s, i, v).prev = s.prev /\ Define(s, i, v).atEntry = s.atEntry
              /\ Define(s, i, v).env = [s.env EXCEPT ![i] = v]
              /\ Define(s, i, v).out = s.out
         /\ \A b \in Block :
              /\ Goto(s, b) \in State
              /\ Goto(s, b).blk = b /\ Goto(s, b).pos = 1
              /\ Goto(s, b).prev = s.blk /\ Goto(s, b).atEntry = s.env
              /\ Goto(s, b).env = s.env /\ Goto(s, b).out = s.out
<1>1. ASSUME NEW v \in Value \cup {UB}
      PROVE  /\ Stop(s, v) \in State
             /\ Stop(s, v).blk = s.blk /\ Stop(s, v).pos = s.pos
             /\ Stop(s, v).prev = s.prev /\ Stop(s, v).atEntry = s.atEntry
             /\ Stop(s, v).env = s.env /\ Stop(s, v).out = v
  BY DEF State, Stop
<1>2. ASSUME NEW i \in Ins, NEW v \in Value
      PROVE  /\ Define(s, i, v) \in State
             /\ Define(s, i, v).blk = s.blk /\ Define(s, i, v).pos = s.pos + 1
             /\ Define(s, i, v).prev = s.prev /\ Define(s, i, v).atEntry = s.atEntry
             /\ Define(s, i, v).env = [s.env EXCEPT ![i] = v]
             /\ Define(s, i, v).out = s.out
  <2> DEFINE e == [s.env EXCEPT ![i] = v]
             p == s.pos + 1
             r == [s EXCEPT !.env = e, !.pos = p]
  <2>1. e \in [Ins -> Value] /\ p \in Nat
    BY DEF State
  <2>2. Define(s, i, v) = r
    BY DEF Define
  <2>3. /\ r \in State
        /\ r.blk = s.blk /\ r.pos = p /\ r.prev = s.prev
        /\ r.atEntry = s.atEntry /\ r.env = e /\ r.out = s.out
    <3> HIDE DEF e, p
    <3> QED BY <2>1 DEF State
  <2> HIDE DEF r
  <2> QED BY <2>2, <2>3
<1>3. ASSUME NEW b \in Block
      PROVE  /\ Goto(s, b) \in State
             /\ Goto(s, b).blk = b /\ Goto(s, b).pos = 1
             /\ Goto(s, b).prev = s.blk /\ Goto(s, b).atEntry = s.env
             /\ Goto(s, b).env = s.env /\ Goto(s, b).out = s.out
  BY DEF State, Goto
<1> QED BY <1>1, <1>2, <1>3

(* Two agreeing executions that define a live instruction still agree.       *)
LEMMA DefineAgree ==
  ASSUME PInv, NEW s \in State, NEW t \in State, Agree(s, t), s.out = None,
         NEW i \in DOMAIN code, NEW v \in Value, NEW w \in Value, Refines(w, v)
  PROVE  Agree(Define(s, i, v), Define(t, i, w))
<1>1. i \in Ins /\ IsCode(code) /\ DOMAIN code \subseteq Ins
  BY DEF PInv, PTypeOK, IsCode
<1>2. s.out # UB
  BY SpecialAssumption
<1>3. s.env \in [Ins -> Value] /\ t.env \in [Ins -> Value]
  BY DEF State
<1>4. \A j \in DOMAIN fn.code : j \in Ins
  BY FunctionCode DEF PInv, PTypeOK, IsCode
<1>5. EnvAgree([s.env EXCEPT ![i] = v], [t.env EXCEPT ![i] = w])
  BY <1>1, <1>2, <1>3, <1>4 DEF Agree, EnvAgree
<1> QED BY <1>1, <1>2, <1>5, StateUpdates DEF Agree

(* The result of an instruction that both functions still have.              *)
LEMMA YieldAgree ==
  ASSUME PInv, NEW s \in State, NEW t \in State, Agree(s, t), s.out = None,
         NEW i \in DOMAIN code,
         NEW v \in Value \cup {UB}, NEW w \in Value \cup {UB}, Refines(w, v)
  PROVE  /\ Yield(s, i, v) \in State /\ Yield(t, i, w) \in State
         /\ Yield(s, i, v).blk = s.blk
         /\ Agree(Yield(s, i, v), Yield(t, i, w))
<1>1. i \in Ins
  BY DEF PInv, PTypeOK, IsCode
<1>2. /\ Yield(s, i, v) \in State /\ Yield(t, i, w) \in State
      /\ Yield(s, i, v).blk = s.blk
  <2>1. \A u \in State, z \in Value \cup {UB} :
          Yield(u, i, z) \in State /\ Yield(u, i, z).blk = u.blk
    BY <1>1, StateUpdates DEF Yield
  <2> QED BY <2>1
<1>3. CASE v = UB
  <2>1. Yield(s, i, v).out = UB
    BY <1>3, StateUpdates DEF Yield
  <2> QED BY <1>2, <2>1 DEF Agree
<1>4. CASE v # UB
  <2>1. w # UB /\ v \in Value /\ w \in Value
    BY <1>4, SpecialAssumption DEF Refines
  <2> QED BY <1>2, <1>4, <2>1, DefineAgree DEF Yield
<1> QED BY <1>2, <1>3, <1>4

(* One live instruction executed by both functions.                          *)
LEMMA ExecuteAgree ==
  ASSUME MemoryFree, PInv, arg \in [Arg -> Word],
         NEW s \in State, NEW t \in State, Agree(s, t), s.out = None, s.blk \in Block,
         NEW i \in DOMAIN code
  PROVE  LET s2 == Execute(fn.code[i], i, s)
             t2 == Execute(code[i], i, t)
         IN  /\ s2 \in State /\ t2 \in State /\ s2.blk \in Block
             /\ Agree(s2, t2)
<1> DEFINE y == fn.code[i]
           z == code[i]
           s2 == Execute(y, i, s)
           t2 == Execute(z, i, t)
<1> SUFFICES s2 \in State /\ t2 \in State /\ s2.blk \in Block /\ Agree(s2, t2)
  OBVIOUS
<1>1. /\ i \in DOMAIN fn.code /\ i \in Ins /\ y \in Instruction
      /\ y.op \in Opcode /\ y.nsw \in BOOLEAN
      /\ y.args \in Seq(Operand) /\ y.bbs \in Seq(Block)
      /\ z.op = y.op /\ z.nsw = y.nsw /\ z.bbs = y.bbs
      /\ DOMAIN z.args = DOMAIN y.args /\ Len(z.args) = Len(y.args)
      /\ \A k \in DOMAIN y.args : z.args[k] = Subst(y.args[k])
  BY LiveInstruction
<1>2. y.op \notin MemoryOp
  BY <1>1 DEF MemoryFree, PInv, PTypeOK
<1>3. /\ s.out # UB /\ t.out = None
      /\ t.blk = s.blk /\ t.pos = s.pos /\ t.prev = s.prev
      /\ EnvAgree(s.env, t.env) /\ EnvAgree(s.atEntry, t.atEntry)
  BY SpecialAssumption DEF Agree
<1>4. /\ s.env \in [Ins -> Value] /\ t.env \in [Ins -> Value]
      /\ s.atEntry \in [Ins -> Value] /\ t.atEntry \in [Ins -> Value]
  BY DEF State
<1>5. \A k \in DOMAIN y.args :
        /\ ValueOf(y.args[k], s.env) \in Value /\ ValueOf(z.args[k], t.env) \in Value
        /\ Refines(ValueOf(z.args[k], t.env), ValueOf(y.args[k], s.env))
        /\ ValueOf(y.args[k], s.atEntry) \in Value /\ ValueOf(z.args[k], t.atEntry) \in Value
        /\ Refines(ValueOf(z.args[k], t.atEntry), ValueOf(y.args[k], s.atEntry))
  BY <1>1, <1>3, <1>4, OperandRefines
<1> HIDE DEF y, z
<1>6. CASE y.op \in PureOp
  <2>1. 1 \in DOMAIN y.args /\ 2 \in DOMAIN y.args
    <3>1. Len(y.args) = 2
      BY <1>1, <1>6 DEF Instruction
    <3> QED BY <1>1, <3>1
  <2> DEFINE v == Eval(y.op, y.nsw, ValueOf(y.args[1], s.env), ValueOf(y.args[2], s.env))
             w == Eval(z.op, z.nsw, ValueOf(z.args[1], t.env), ValueOf(z.args[2], t.env))
  <2>2. v \in Value \cup {UB} /\ w \in Value \cup {UB} /\ Refines(w, v)
    BY <1>1, <1>5, <1>6, <2>1, EvalAssumption
  <2>3. s2 = Yield(s, i, v) /\ t2 = Yield(t, i, w)
    <3>1. z.op \in PureOp /\ y.op \notin {"Phi", "Ret", "Br"}
      BY <1>1, <1>6, OpcodeAssumption DEF PureOp
    <3> QED BY <1>1, <1>6, <3>1 DEF Execute
  <2> HIDE DEF v, w, s2, t2
  <2> QED BY <2>2, <2>3, YieldAgree
<1>7. CASE y.op = "Phi"
  <2>1. z.op = "Phi" /\ y.op \notin PureOp
    BY <1>1, <1>7, OpcodeAssumption DEF PureOp
  <2>2. Incoming(z, t.prev) = Incoming(y, s.prev)
    BY <1>1, <1>3 DEF Incoming
  <2>3. CASE Incoming(y, s.prev) = {}
    <3>1. s2 = Yield(s, i, UB) /\ t2 = Yield(t, i, UB)
      BY <1>7, <2>1, <2>2, <2>3 DEF Execute, Yield
    <3> HIDE DEF s2, t2
    <3> QED BY <3>1, YieldAgree DEF Refines
  <2>4. CASE Incoming(y, s.prev) # {}
    <3> DEFINE k == CHOOSE n \in Incoming(y, s.prev) : TRUE
               v == ValueOf(y.args[k], s.atEntry)
               w == ValueOf(z.args[k], t.atEntry)
    <3>1. k \in DOMAIN y.bbs
      BY <2>4 DEF Incoming
    <3>2. k \in DOMAIN y.args
      <4>1. Len(y.bbs) = Len(y.args)
        BY <1>1, <1>7 DEF Instruction
      <4> HIDE DEF k
      <4> QED BY <1>1, <3>1, <4>1
    <3> HIDE DEF k
    <3>3. v \in Value /\ w \in Value /\ Refines(w, v)
      BY <1>5, <3>2
    <3>4. v # UB /\ w # UB
      BY <3>3, SpecialValues
    <3>5. s2 = Define(s, i, v) /\ t2 = Define(t, i, w)
      BY <1>7, <2>1, <2>2, <2>4 DEF Execute, k
    <3>6. s2 = Yield(s, i, v) /\ t2 = Yield(t, i, w)
      BY <3>4, <3>5 DEF Yield
    <3> HIDE DEF v, w, s2, t2
    <3> QED BY <3>3, <3>6, YieldAgree
  <2> QED BY <2>3, <2>4
<1>8. CASE y.op = "Ret"
  <2>1. z.op = "Ret" /\ y.op \notin PureOp
    BY <1>1, <1>8, OpcodeAssumption DEF PureOp
  <2>2. 1 \in DOMAIN y.args
    <3>1. Len(y.args) = 1
      BY <1>1, <1>8 DEF Instruction
    <3> QED BY <1>1, <3>1
  <2> DEFINE v == ValueOf(y.args[1], s.env)
             w == ValueOf(z.args[1], t.env)
  <2>3. v \in Value /\ w \in Value /\ Refines(w, v)
    BY <1>5, <2>2
  <2>4. s2 = Stop(s, v) /\ t2 = Stop(t, w)
    BY <1>8, <2>1 DEF Execute
  <2> HIDE DEF v, w, s2, t2
  <2>5. /\ s2 \in State /\ s2.blk = s.blk /\ s2.pos = s.pos /\ s2.prev = s.prev
        /\ s2.atEntry = s.atEntry /\ s2.env = s.env /\ s2.out = v
    <3>1. v \in Value \cup {UB}
      BY <2>3
    <3> QED BY <2>4, <3>1, StateUpdates
  <2>6. /\ t2 \in State /\ t2.blk = t.blk /\ t2.pos = t.pos /\ t2.prev = t.prev
        /\ t2.atEntry = t.atEntry /\ t2.env = t.env /\ t2.out = w
    BY <2>3, <2>4, StateUpdates
  <2>7. v # None /\ w # None
    BY <2>3, SpecialValues
  <2>8. Agree(s2, t2)
    BY <1>3, <2>3, <2>5, <2>6, <2>7 DEF Agree
  <2> QED BY <2>5, <2>6, <2>8
<1>9. CASE y.op = "Br"
  <2>1. z.op = "Br" /\ y.op \notin PureOp
    BY <1>1, <1>9, OpcodeAssumption DEF PureOp
  <2>2. Len(y.args) \in {0, 1} /\ Len(y.bbs) = Len(y.args) + 1
    BY <1>1, <1>9 DEF Instruction
  <2>3. ASSUME NEW b \in Block, s2 = Goto(s, b), t2 = Goto(t, b)
        PROVE  s2 \in State /\ t2 \in State /\ s2.blk \in Block /\ Agree(s2, t2)
    <3> HIDE DEF s2, t2
    <3>1. /\ s2 \in State /\ s2.blk = b /\ s2.pos = 1 /\ s2.prev = s.blk
          /\ s2.atEntry = s.env /\ s2.env = s.env /\ s2.out = s.out
      BY <2>3, StateUpdates
    <3>2. /\ t2 \in State /\ t2.blk = b /\ t2.pos = 1 /\ t2.prev = t.blk
          /\ t2.atEntry = t.env /\ t2.env = t.env /\ t2.out = t.out
      BY <2>3, StateUpdates
    <3>3. Agree(s2, t2)
      BY <1>3, <3>1, <3>2 DEF Agree, Refines
    <3> QED BY <3>1, <3>2, <3>3
  <2>4. CASE Len(y.args) = 0
    <3>1. y.bbs[1] \in Block
      BY <1>1, <2>2, <2>4
    <3>2. s2 = Goto(s, y.bbs[1]) /\ t2 = Goto(t, y.bbs[1])
      BY <1>1, <1>9, <2>1, <2>4 DEF Execute
    <3> HIDE DEF s2, t2
    <3> QED BY <2>3, <3>1, <3>2
  <2>5. CASE Len(y.args) = 1
    <3>1. 1 \in DOMAIN y.args /\ y.bbs[1] \in Block /\ y.bbs[2] \in Block
      BY <1>1, <2>2, <2>5
    <3> DEFINE v == ValueOf(y.args[1], s.env)
               w == ValueOf(z.args[1], t.env)
    <3>2. v \in Value /\ w \in Value /\ Refines(w, v)
      BY <1>5, <3>1
    <3>3. /\ s2 = IF v = Poison THEN Stop(s, UB) ELSE Goto(s, y.bbs[IF v # 0 THEN 1 ELSE 2])
          /\ t2 = IF w = Poison THEN Stop(t, UB) ELSE Goto(t, y.bbs[IF w # 0 THEN 1 ELSE 2])
      BY <1>1, <1>9, <2>1, <2>5 DEF Execute
    <3> HIDE DEF v, w, s2, t2
    <3>4. CASE v = Poison
      <4>1. s2 \in State /\ s2.blk = s.blk /\ s2.out = UB
        BY <3>3, <3>4, StateUpdates
      <4>2. t2 \in State
        BY <3>1, <3>3, StateUpdates
      <4> QED BY <4>1, <4>2 DEF Agree
    <3>5. CASE v # Poison
      <4>1. w = v
        BY <3>2, <3>5, SpecialValues DEF Refines
      <4>2. PICK b \in Block : b = y.bbs[IF v # 0 THEN 1 ELSE 2]
        BY <3>1
      <4> QED BY <2>3, <3>3, <3>5, <4>1, <4>2
    <3> QED BY <3>4, <3>5
  <2> QED BY <2>2, <2>4, <2>5
<1> QED BY <1>1, <1>2, <1>6, <1>7, <1>8, <1>9 DEF Opcode

(* An instruction only the given function still has: its value is refined by *)
(* the constant that replaced it.                                            *)
LEMMA ErasedAgree ==
  ASSUME PInv, arg \in [Arg -> Word],
         NEW s \in State, NEW t \in State, Agree(s, t), s.out = None, s.blk \in Block,
         NEW i \in DOMAIN fn.code, i \notin DOMAIN code
  PROVE  LET s2 == Execute(fn.code[i], i, s)
             t2 == [t EXCEPT !.pos = @ + 1]
         IN  /\ s2 \in State /\ t2 \in State /\ s2.blk \in Block
             /\ Agree(s2, t2)
<1> DEFINE y == fn.code[i]
           s2 == Execute(y, i, s)
           t2 == [t EXCEPT !.pos = @ + 1]
<1> SUFFICES s2 \in State /\ t2 \in State /\ s2.blk \in Block /\ Agree(s2, t2)
  OBVIOUS
<1>1. fn \in Functions /\ IsCode(fn.code) /\ i \in Ins /\ y \in Instruction
  BY FunctionCode DEF PInv, PTypeOK, IsCode
<1>2. y.nsw \in BOOLEAN /\ y.args \in Seq(Operand)
  BY <1>1 DEF Instruction
<1>3. /\ s.out # UB /\ t.out = None
      /\ t.blk = s.blk /\ t.pos = s.pos /\ t.prev = s.prev
      /\ EnvAgree(s.env, t.env) /\ EnvAgree(s.atEntry, t.atEntry)
  BY SpecialAssumption DEF Agree
<1>4. s.env \in [Ins -> Value] /\ t.env \in [Ins -> Value]
  BY DEF State
<1>5. y.op \in BinaryOperator /\ y.op \in PureOp
  BY DEF PInv, Justified, PureOp
<1>6. PICK a, b \in Word : /\ Subst(y.args[1]) = ConstOp(a) /\ Subst(y.args[2]) = ConstOp(b)
                          /\ Refines(repl[i], Eval(y.op, y.nsw, a, b))
  BY DEF PInv, Justified
<1>7. 1 \in DOMAIN y.args /\ 2 \in DOMAIN y.args
  <2>1. Len(y.args) = 2
    BY <1>1, <1>5 DEF Instruction
  <2> QED BY <1>2, <2>1
<1> DEFINE va == ValueOf(y.args[1], s.env)
           vb == ValueOf(y.args[2], s.env)
           v  == Eval(y.op, y.nsw, va, vb)
<1>8. va \in Value /\ Refines(a, va)
  <2>1. ValueOf(Subst(y.args[1]), t.env) = a
    BY <1>6 DEF ValueOf, ConstOp
  <2> QED BY <1>3, <1>4, <1>7, <2>1, OperandRefines
<1>9. vb \in Value /\ Refines(b, vb)
  <2>1. ValueOf(Subst(y.args[2]), t.env) = b
    BY <1>6 DEF ValueOf, ConstOp
  <2> QED BY <1>3, <1>4, <1>7, <2>1, OperandRefines
<1> HIDE DEF va, vb
<1>10. v \in Value \cup {UB} /\ Refines(repl[i], v)
  <2>1. a \in Value /\ b \in Value
    BY SpecialValues
  <2>2. /\ Refines(Eval(y.op, y.nsw, a, b), v)
        /\ v \in Value \cup {UB}
    BY <1>2, <1>5, <1>8, <1>9, <2>1, EvalAssumption
  <2> QED BY <1>6, <2>2, RefinesTransitive
<1>11. s2 = Yield(s, i, v)
  <2>1. y.op \notin {"Phi", "Ret", "Br"}
    BY <1>5, OpcodeAssumption
  <2> QED BY <1>5, <2>1 DEF Execute, va, vb
<1> HIDE DEF v, s2
<1>12. /\ t2 \in State /\ t2.blk = t.blk /\ t2.pos = t.pos + 1 /\ t2.prev = t.prev
       /\ t2.atEntry = t.atEntry /\ t2.env = t.env /\ t2.out = t.out
  BY DEF State
<1> HIDE DEF t2
<1>13. CASE v = UB
  <2>1. s2 \in State /\ s2.blk = s.blk /\ s2.out = UB
    BY <1>11, <1>13, StateUpdates DEF Yield
  <2> QED BY <1>12, <2>1 DEF Agree
<1>14. CASE v # UB
  <2>1. v \in Value
    BY <1>10, <1>14
  <2>2. s2 = Define(s, i, v)
    BY <1>11, <1>14 DEF Yield
  <2>3. /\ s2 \in State /\ s2.blk = s.blk /\ s2.pos = s.pos + 1 /\ s2.prev = s.prev
        /\ s2.atEntry = s.atEntry /\ s2.env = [s.env EXCEPT ![i] = v] /\ s2.out = s.out
    BY <1>1, <2>1, <2>2, StateUpdates
  <2>4. EnvAgree(s2.env, t2.env)
    <3>1. DOMAIN fn.code \subseteq Ins /\ DOMAIN code \subseteq Ins
      BY <1>1 DEF IsCode, PInv, PTypeOK
    <3> QED BY <1>3, <1>4, <1>10, <1>12, <2>3, <3>1 DEF EnvAgree
  <2>5. Refines(t2.out, s2.out)
    BY <1>3, <1>12, <2>3 DEF Refines
  <2> QED BY <1>3, <1>12, <2>3, <2>4, <2>5 DEF Agree
<1> QED BY <1>13, <1>14

(* At the entry nothing has been computed.                                   *)
EntryAgrees == Agree(Entry, Entry)

LEMMA EntryLemma == PInv => EntryAgrees
<1> SUFFICES ASSUME PInv PROVE Agree(Entry, Entry)
  BY DEF EntryAgrees
<1>1. DOMAIN fn.code \subseteq Ins /\ DOMAIN code \subseteq Ins
  BY FunctionCode DEF PInv, PTypeOK, IsCode
<1>2. \A j \in DOMAIN fn.code \ DOMAIN code : repl[j] \in Value
  BY <1>1 DEF PInv, PTypeOK, ErasedReplaced
<1>3. \A j \in Ins : Entry.env[j] = Poison /\ Entry.atEntry[j] = Poison
  BY DEF Entry
<1>4. EnvAgree(Entry.env, Entry.env) /\ EnvAgree(Entry.atEntry, Entry.atEntry)
  <2> HIDE DEF Entry
  <2> QED BY <1>1, <1>2, <1>3, SpecialValues DEF EnvAgree, Refines
<1> QED BY <1>4 DEF Agree, Refines

LEMMA EntryState == Entry \in State
<1> DEFINE e == [j \in Ins |-> Poison]
<1>1. e \in [Ins -> Value]
  BY DEF Value
<1>2. Entry = [blk |-> None, pos |-> 1, prev |-> None, atEntry |-> e, env |-> e, out |-> None]
  BY DEF Entry
<1> HIDE DEF e
<1> QED BY <1>1, <1>2 DEF State

LEMMA XInitInv == XInit => XInv
BY PInitInv, EntryLemma, EntryState DEF XInit, XInv, EntryAgrees

LEMMA XRewrite == XInv /\ Rewrite => XInv'
<1> SUFFICES ASSUME XInv, Rewrite PROVE XInv'
  OBVIOUS
<1>1. PInv'
  BY PInvStep DEF XInv, Rewrite
<1>2. (PInv => EntryAgrees)'
  BY EntryLemma, PTL
<1>3. src' = Entry /\ tgt' = Entry /\ arg' = arg /\ running' = running /\ src' = src /\ tgt' = tgt
  BY DEF XInv, Rewrite
<1>4. Agree(src, tgt)'
  BY <1>1, <1>2, <1>3 DEF EntryAgrees, Agree, EnvAgree, Entry
<1> QED BY <1>1, <1>3, <1>4 DEF XInv

LEMMA XCall == XInv /\ Call => XInv'
<1> SUFFICES ASSUME XInv, Call PROVE XInv'
  OBVIOUS
<1>1. PInv'
  BY PInvStutter DEF XInv, Call, pvars
<1>2. fn' = fn /\ code' = code /\ repl' = repl /\ arg' = arg /\ running'
  BY DEF Call
<1>3. fn.layout[1] \in Block
  <2>1. fn.layout \in Seq(Block)
    BY FunctionsAssumption DEF XInv, PInv, PTypeOK, IsFunction
  <2> QED BY <2>1 DEF Call
<1> DEFINE b == fn.layout[1]
           e == [Entry EXCEPT !.blk = b]
<1>4. src' = e /\ tgt' = e
  BY DEF XInv, Call
<1>5. /\ e \in State /\ e.blk = b
      /\ e.out = Entry.out /\ e.env = Entry.env /\ e.atEntry = Entry.atEntry
  <2>1. b \in Block
    BY <1>3
  <2> HIDE DEF b
  <2> QED BY <2>1, EntryState DEF State
<1>6. EnvAgree(Entry.env, Entry.env) /\ EnvAgree(Entry.atEntry, Entry.atEntry)
  <2>1. Entry.out # UB
    BY SpecialAssumption DEF Entry
  <2> QED BY <2>1, EntryLemma DEF XInv, EntryAgrees, Agree
<1> HIDE DEF b, e
<1>7. EnvAgree(e.env, e.env) /\ EnvAgree(e.atEntry, e.atEntry)
  BY <1>5, <1>6
<1>8. Agree(src, tgt)'
  BY <1>2, <1>4, <1>7 DEF Agree, EnvAgree, Refines
<1> QED BY <1>1, <1>2, <1>3, <1>4, <1>5, <1>8 DEF XInv, b

LEMMA XStep == ASSUME MemoryFree PROVE XInv /\ Step => XInv'
<1> SUFFICES ASSUME XInv, Step PROVE XInv'
  OBVIOUS
<1>1. PInv'
  BY PInvStutter DEF XInv, Step, pvars
<1>2. fn' = fn /\ code' = code /\ repl' = repl /\ arg' = arg /\ running' = running /\ running
  BY DEF Step
<1>3. /\ src \in State /\ tgt \in State /\ Agree(src, tgt) /\ src.blk \in Block
      /\ src.out = None /\ src.pos \in DOMAIN fn.list[src.blk]
  BY DEF XInv, Step, Running
<1>4. tgt.blk = src.blk /\ tgt.pos = src.pos
  BY <1>3, SpecialAssumption DEF Agree
<1> DEFINE i == At(src)
<1>5. At(tgt) = i /\ i \in DOMAIN fn.code
  <2>1. IsFunction(fn)
    BY FunctionsAssumption DEF XInv, PInv, PTypeOK
  <2> QED BY <1>3, <1>4, <2>1 DEF At, IsFunction
<1>6. src' = Execute(fn.code[i], i, src)
  BY <1>5 DEF Step, StepOn
<1>7. /\ src' \in State /\ tgt' \in State /\ src'.blk \in Block
      /\ Agree(src', tgt')
  <2>1. CASE i \in DOMAIN code
    <3>1. tgt' = Execute(code[i], i, tgt)
      BY <1>5, <2>1 DEF Step, StepOn
    <3> HIDE DEF i
    <3> QED BY <1>3, <1>6, <2>1, <3>1, ExecuteAgree DEF XInv
  <2>2. CASE i \notin DOMAIN code
    <3>1. tgt' = [tgt EXCEPT !.pos = @ + 1]
      BY <1>5, <2>2 DEF Step, StepOn
    <3> HIDE DEF i
    <3> QED BY <1>3, <1>5, <1>6, <2>2, <3>1, ErasedAgree DEF XInv
  <2> QED BY <2>1, <2>2
<1>8. Agree(src, tgt)'
  BY <1>2, <1>7 DEF Agree, EnvAgree
<1> QED BY <1>1, <1>2, <1>7, <1>8 DEF XInv

LEMMA XStutter == XInv /\ UNCHANGED xvars => XInv'
<1> SUFFICES ASSUME XInv, UNCHANGED xvars PROVE XInv'
  OBVIOUS
<1>1. PInv'
  BY PInvStutter DEF XInv, xvars, pvars
<1>2. /\ fn' = fn /\ code' = code /\ repl' = repl /\ arg' = arg
      /\ running' = running /\ src' = src /\ tgt' = tgt
  BY DEF xvars
<1> QED BY <1>1, <1>2 DEF XInv, Agree, EnvAgree, Entry

(* The inductive invariant of the two executions.                            *)
THEOREM XInvariant == ASSUME MemoryFree PROVE XSpec => []XInv
<1>1. XInv /\ [XNext]_xvars => XInv'
  BY XRewrite, XCall, XStep, XStutter DEF XNext, Halted
<1> QED BY XInitInv, <1>1, PTL DEF XSpec

(* The types of the variables of CoExec, for all functions.                  *)
THEOREM XTypeCorrect == ASSUME MemoryFree PROVE XSpec => []XTypeOK
<1>1. XInv => XTypeOK
  BY FunctionsAssumption DEF XInv, XTypeOK, PInv, PTypeOK
<1> QED BY <1>1, XInvariant, PTL

(* Constant propagation preserves behaviour (populate_function.cpp:143-147): *)
(* for all functions, arguments, words and fold orders.                      *)
THEOREM BehaviourPreserved == ASSUME MemoryFree PROVE XSpec => []SameBehaviour
<1>1. XInv => SameBehaviour
  BY DEF XInv, Agree, SameBehaviour
<1> QED BY <1>1, XInvariant, PTL
===================================================================================
