-------------------------- MODULE LocalConstPropProofs --------------------------
(***************************************************************************)
(* The local pass implements Propagate, never touches a deleted            *)
(* instruction, keeps analyses only of a function it did not change, and   *)
(* leaves an instruction it could fold only where a use stands before its  *)
(* definition: for all functions, reachable blocks or not, in any order.   *)
(***************************************************************************)
EXTENDS LocalConstProp, PropagateProofs

\* the loop is past position p of the n-th block of the file
Passed(n, p) == n \in 1 .. bb /\ (n = bb => p < I)

InsAt(n, p) == fn.list[fn.layout[n]][p]

\* only visited instructions are ever deleted
Untouched ==
  \A b \in Block : \A p \in DOMAIN fn.list[b] :
    fn.list[b][p] \in DOMAIN code \/ \E n \in 1 .. bb : fn.layout[n] = b /\ Passed(n, p)

\* a later fold is the reason why i can be folded although it was kept
FoldedLater(i) == \E j \in Uses(fn.code[i]) : repl[j] # None /\ Precedes(i, j)

Leftover ==
  \A n \in DOMAIN fn.layout : \A p \in DOMAIN fn.list[fn.layout[n]] :
    Passed(n, p) /\ InsAt(n, p) \in DOMAIN code /\ BothConstant(code[InsAt(n, p)])
      => FoldedLater(InsAt(n, p))

Control ==
  /\ bb \in 0 .. Len(fn.layout) /\ I \in Nat \ {0} /\ I <= Len(BB) + 1
  /\ changed \in BOOLEAN /\ preserved \in {"all", "none", None}
  /\ ~changed => code = fn.code
  /\ preserved = "all" => ~changed
  /\ preserved # None => bb = Len(fn.layout) /\ I > Len(BB)

LInv == PInv /\ Control /\ Untouched /\ Leftover

(* What the assumptions say of the function at hand.                         *)
LEMMA FunctionFacts ==
  ASSUME PInv
  PROVE  /\ IsFunction(fn)
         /\ fn.layout \in Seq(Block) /\ Len(fn.layout) \in Nat
         /\ DOMAIN fn.layout = 1 .. Len(fn.layout)
         /\ \A b \in Block : /\ fn.list[b] \in Seq(Ins) /\ Len(fn.list[b]) \in Nat
                             /\ DOMAIN fn.list[b] = 1 .. Len(fn.list[b])
<1>1. IsFunction(fn)
  BY FunctionsAssumption DEF PInv, PTypeOK
<1>2. fn.layout \in Seq(Block) /\ fn.list \in [Block -> Seq(Ins)]
  BY <1>1 DEF IsFunction
<1> QED BY <1>1, <1>2

(* The block the loop is in.                                                 *)
LEMMA BlockFacts ==
  ASSUME PInv, Control
  PROVE  /\ bb \in Nat /\ I \in Nat /\ Len(BB) \in Nat
         /\ bb > 0 => /\ bb \in DOMAIN fn.layout /\ fn.layout[bb] \in Block
                      /\ BB = fn.list[fn.layout[bb]]
         /\ bb = 0 => I = 1 /\ Len(BB) = 0
<1>1. bb \in Nat /\ I \in Nat /\ I >= 1 /\ I <= Len(BB) + 1
  BY FunctionFacts DEF Control
<1>2. CASE bb = 0
  <2>1. BB = <<>>
    BY <1>2 DEF BB
  <2> QED BY <1>1, <1>2, <2>1
<1>3. CASE bb > 0
  <2>1. bb \in DOMAIN fn.layout
    BY <1>1, <1>3, FunctionFacts DEF Control
  <2>2. fn.layout[bb] \in Block
    BY <2>1, FunctionFacts
  <2>3. BB = fn.list[fn.layout[bb]]
    BY <1>3 DEF BB
  <2> QED BY <1>1, <1>3, <2>1, <2>2, <2>3, FunctionFacts
<1> QED BY <1>1, <1>2, <1>3

(* The instruction I designates is still there.                              *)
LEMMA IteratorLive ==
  ASSUME LInv, I <= Len(BB)
  PROVE  /\ bb \in DOMAIN fn.layout /\ fn.layout[bb] \in Block
         /\ I \in DOMAIN fn.list[fn.layout[bb]]
         /\ BB[I] = InsAt(bb, I)
         /\ BB[I] \in DOMAIN code /\ BB[I] \in DOMAIN fn.code /\ BB[I] \in Ins
<1>1. PInv /\ Control /\ Untouched
  BY DEF LInv
<1>2. bb > 0 /\ bb \in Nat /\ I \in Nat /\ I >= 1
  BY <1>1, BlockFacts DEF Control
<1>3. bb \in DOMAIN fn.layout /\ fn.layout[bb] \in Block /\ BB = fn.list[fn.layout[bb]]
  BY <1>1, <1>2, BlockFacts
<1>4. I \in DOMAIN fn.list[fn.layout[bb]]
  BY <1>1, <1>2, <1>3, FunctionFacts
<1>5. BB[I] \in DOMAIN code
  <2> SUFFICES ASSUME BB[I] \notin DOMAIN code PROVE FALSE
    OBVIOUS
  <2>1. PICK n \in 1 .. bb : fn.layout[n] = fn.layout[bb] /\ Passed(n, I)
    BY <1>1, <1>3, <1>4 DEF Untouched
  <2>2. n \in DOMAIN fn.layout
    BY <1>1, <1>3, <2>1, FunctionFacts
  <2>3. n = bb
    BY <1>1, <1>3, <2>1, <2>2, FunctionFacts DEF IsFunction
  <2> QED BY <1>2, <2>1, <2>3 DEF Passed
<1>6. DOMAIN code \subseteq DOMAIN fn.code /\ DOMAIN code \subseteq Ins
  BY <1>1 DEF PInv, PTypeOK, IsCode
<1> QED BY <1>3, <1>4, <1>5, <1>6 DEF InsAt

(* A fold of the loop is a step of the abstract specification.               *)
LEMMA FoldPropagates ==
  ASSUME LInv, FoldInst
  PROVE  /\ Propagate
         /\ \E v \in Value : BothConstant(code[BB[I]]) /\ Replace(BB[I], v)
<1> DEFINE i == BB[I]
           v == ConstantFold(code[i].op, code[i].args[1].val, code[i].args[2].val)
<1>1. i \in DOMAIN code
  BY IteratorLive DEF FoldInst
<1>2. BothConstant(code[i]) /\ Replace(i, v)
  BY DEF FoldInst, Inst
<1>3. code[i].nsw \in BOOLEAN
  BY <1>1 DEF LInv, PInv, PTypeOK, IsCode, Instruction
<1>4. /\ code[i].op \in BinaryOperator
      /\ code[i].args[1].val \in Word /\ code[i].args[2].val \in Word
  BY <1>2 DEF BothConstant
<1>5. /\ v \in Value
      /\ Refines(v, Eval(code[i].op, code[i].nsw, code[i].args[1].val, code[i].args[2].val))
  BY <1>3, <1>4, ConstantFoldAssumption
<1> HIDE DEF i, v
<1>6. Propagate
  BY <1>1, <1>2, <1>5 DEF Propagate
<1> QED BY <1>2, <1>5, <1>6 DEF i

LEMMA LInitInv == Init => LInv
<1> SUFFICES ASSUME Init PROVE LInv
  OBVIOUS
<1>1. PInv
  BY PInitInv DEF Init
<1>2. bb = 0 /\ I = 1 /\ changed = FALSE /\ preserved = None /\ code = fn.code
  BY DEF Init, PInit
<1>3. Len(BB) = 0
  <2>1. BB = <<>>
    BY <1>2 DEF BB
  <2> QED BY <2>1
<1>4. Control
  <2>1. Len(fn.layout) \in Nat
    BY <1>1, FunctionFacts
  <2>2. bb \in 0 .. Len(fn.layout) /\ I \in Nat \ {0} /\ I <= Len(BB) + 1
    BY <1>2, <1>3, <2>1
  <2>3. changed \in BOOLEAN /\ preserved # "all" /\ ~changed
    BY <1>2, AnswerAssumption
  <2> QED BY <1>2, <2>2, <2>3, Zenon DEF Control
<1>5. Untouched
  BY <1>1, <1>2, FunctionFacts DEF Untouched, IsFunction
<1>6. Leftover
  BY <1>2 DEF Leftover, Passed
<1> QED BY <1>1, <1>4, <1>5, <1>6 DEF LInv

(* Entering the next block: the one before is behind the loop.               *)
LEMMA EnterStep ==
  ASSUME LInv, EnterBlock
  PROVE  LInv'
<1>1. /\ fn' = fn /\ code' = code /\ repl' = repl /\ changed' = changed
      /\ preserved' = preserved /\ preserved = None
      /\ bb' = bb + 1 /\ I' = 1 /\ I > Len(BB) /\ bb < Len(fn.layout)
  BY DEF EnterBlock
<1>2. PInv'
  BY <1>1, PInvStutter DEF LInv, pvars
<1>3. /\ PInv /\ Control /\ bb \in Nat /\ Len(fn.layout) \in Nat /\ I \in Nat
  BY <1>1, FunctionFacts, BlockFacts DEF LInv
<1>4. \A n \in 1 .. bb : \A p \in DOMAIN fn.list[fn.layout[n]] : Passed(n, p) /\ Passed(n, p)'
  <2> SUFFICES ASSUME NEW n \in 1 .. bb, NEW p \in DOMAIN fn.list[fn.layout[n]]
               PROVE  Passed(n, p) /\ Passed(n, p)'
    OBVIOUS
  <2>1. n = bb => p < I
    <3> SUFFICES ASSUME n = bb PROVE p < I
      OBVIOUS
    <3>1. fn.layout[bb] \in Block /\ BB = fn.list[fn.layout[bb]]
      BY <1>3, BlockFacts
    <3>2. p \in 1 .. Len(BB) /\ Len(BB) \in Nat
      BY <1>3, <3>1, FunctionFacts
    <3> QED BY <1>1, <1>3, <3>2
  <2>2. n \in 1 .. bb' /\ n # bb'
    BY <1>1, <1>3
  <2> QED BY <2>1, <2>2 DEF Passed
<1>5. Untouched'
  <2> SUFFICES ASSUME NEW b \in Block, NEW p \in DOMAIN fn.list[b], fn.list[b][p] \notin DOMAIN code
               PROVE  \E n \in 1 .. bb' : fn.layout[n] = b /\ Passed(n, p)'
    BY <1>1 DEF Untouched
  <2>1. PICK n \in 1 .. bb : fn.layout[n] = b /\ Passed(n, p)
    BY DEF LInv, Untouched
  <2>2. n \in 1 .. bb'
    BY <1>1, <1>3
  <2> QED BY <1>4, <2>1, <2>2
<1>6. Leftover'
  <2> SUFFICES ASSUME NEW n \in DOMAIN fn.layout, NEW p \in DOMAIN fn.list[fn.layout[n]],
                      Passed(n, p)', InsAt(n, p) \in DOMAIN code, BothConstant(code[InsAt(n, p)])
               PROVE  FoldedLater(InsAt(n, p))
    <3>1. \A i : FoldedLater(i)' <=> FoldedLater(i)
      BY <1>1 DEF FoldedLater, Precedes
    <3> QED BY <1>1, <3>1 DEF Leftover, InsAt
  <2>1. n \in 1 .. bb
    <3>1. fn.layout[n] \in Block /\ n \in Nat
      BY <1>3, FunctionFacts
    <3>2. p \in Nat /\ p >= 1
      BY <1>3, <3>1, FunctionFacts
    <3> QED BY <1>1, <1>3, <3>1, <3>2 DEF Passed
  <2> QED BY <1>4, <2>1 DEF LInv, Leftover
<1>7. Control'
  <2>1. bb + 1 > 0 /\ bb + 1 \in DOMAIN fn.layout
    BY <1>1, <1>3, FunctionFacts
  <2>2. fn.layout[bb + 1] \in Block
    BY <1>3, <2>1, FunctionFacts
  <2>3. BB' = fn.list[fn.layout[bb + 1]]
    BY <1>1, <1>3, <2>1 DEF BB
  <2>4. Len(BB') \in Nat
    BY <1>3, <2>2, <2>3, FunctionFacts
  <2>5. bb' \in 0 .. Len(fn'.layout) /\ I' \in Nat \ {0} /\ I' <= Len(BB') + 1
    BY <1>1, <1>3, <2>4
  <2> QED BY <1>1, <1>3, <2>5, Zenon DEF Control
<1> QED BY <1>2, <1>5, <1>6, <1>7 DEF LInv

(* I moves past the instruction it designates.                               *)
LEMMA Advance ==
  ASSUME LInv, I <= Len(BB), fn' = fn, bb' = bb, I' = I + 1
  PROVE  /\ I' \in Nat \ {0} /\ I' <= Len(BB') + 1
         /\ \A n \in DOMAIN fn.layout : \A p \in DOMAIN fn.list[fn.layout[n]] :
              Passed(n, p)' <=> Passed(n, p) \/ (n = bb /\ p = I)
<1>1. PInv /\ Control
  BY DEF LInv
<1>2. bb \in DOMAIN fn.layout /\ bb \in Nat /\ bb > 0 /\ I \in Nat /\ Len(BB) \in Nat
  BY <1>1, IteratorLive, FunctionFacts
<1>3. BB' = BB
  BY DEF BB
<1>4. I' \in Nat \ {0} /\ I' <= Len(BB') + 1
  BY <1>2, <1>3
<1>5. ASSUME NEW n \in DOMAIN fn.layout, NEW p \in DOMAIN fn.list[fn.layout[n]]
      PROVE  Passed(n, p)' <=> Passed(n, p) \/ (n = bb /\ p = I)
  <2>1. fn.layout[n] \in Block /\ n \in Nat /\ n >= 1
    BY <1>1, FunctionFacts
  <2>2. p \in Nat
    BY <1>1, <2>1, FunctionFacts
  <2> QED BY <1>2, <2>1, <2>2 DEF Passed
<1> QED BY <1>4, <1>5

LEMMA KeepStep ==
  ASSUME LInv, KeepInst
  PROVE  LInv'
<1>1. /\ fn' = fn /\ code' = code /\ repl' = repl /\ changed' = changed
      /\ preserved' = preserved /\ preserved = None
      /\ bb' = bb /\ I' = I + 1 /\ I <= Len(BB) /\ ~BothConstant(code[BB[I]])
  BY DEF KeepInst, Inst
<1>2. PInv'
  BY <1>1, PInvStutter DEF LInv, pvars
<1>3. /\ I' \in Nat \ {0} /\ I' <= Len(BB') + 1
      /\ \A n \in DOMAIN fn.layout : \A p \in DOMAIN fn.list[fn.layout[n]] :
           Passed(n, p)' <=> Passed(n, p) \/ (n = bb /\ p = I)
  BY <1>1, Advance
<1>4. Control'
  BY <1>1, <1>3 DEF LInv, Control
<1>5. Untouched'
  <2> SUFFICES ASSUME NEW b \in Block, NEW p \in DOMAIN fn.list[b], fn.list[b][p] \notin DOMAIN code
               PROVE  \E n \in 1 .. bb : fn.layout[n] = b /\ Passed(n, p)'
    BY <1>1 DEF Untouched
  <2>1. PICK n \in 1 .. bb : fn.layout[n] = b /\ Passed(n, p)
    BY DEF LInv, Untouched
  <2>2. n \in DOMAIN fn.layout
    BY <2>1, FunctionFacts DEF LInv, Control
  <2> QED BY <1>3, <2>1, <2>2
<1>6. Leftover'
  <2> SUFFICES ASSUME NEW n \in DOMAIN fn.layout, NEW p \in DOMAIN fn.list[fn.layout[n]],
                      Passed(n, p)', InsAt(n, p) \in DOMAIN code, BothConstant(code[InsAt(n, p)])
               PROVE  FoldedLater(InsAt(n, p))
    <3>1. \A i : FoldedLater(i)' <=> FoldedLater(i)
      BY <1>1 DEF FoldedLater, Precedes
    <3> QED BY <1>1, <3>1 DEF Leftover, InsAt
  <2>1. CASE Passed(n, p)
    BY <2>1 DEF LInv, Leftover
  <2>2. CASE n = bb /\ p = I
    BY <1>1, <2>2, IteratorLive
  <2> QED BY <1>3, <2>1, <2>2
<1> QED BY <1>2, <1>4, <1>5, <1>6 DEF LInv

(* A fold can only make an instruction foldable that uses the folded one; if *)
(* the loop is past that instruction, it stands before the folded one.       *)
LEMMA FoldBehind ==
  ASSUME LInv, I <= Len(BB), NEW v \in Value, Replace(BB[I], v),
         NEW n \in DOMAIN fn.layout, NEW p \in DOMAIN fn.list[fn.layout[n]],
         Passed(n, p), InsAt(n, p) \in DOMAIN code, InsAt(n, p) # BB[I],
         BothConstant(code'[InsAt(n, p)]), ~BothConstant(code[InsAt(n, p)])
  PROVE  BB[I] \in Uses(fn.code[InsAt(n, p)]) /\ Precedes(InsAt(n, p), BB[I])
<1> DEFINE j == InsAt(n, p)
           i == BB[I]
<1>1. PInv /\ Control /\ IsCode(code)
  BY DEF LInv, PInv, PTypeOK
<1>2. /\ bb \in DOMAIN fn.layout /\ fn.layout[bb] \in Block
      /\ I \in DOMAIN fn.list[fn.layout[bb]] /\ i = InsAt(bb, I) /\ i \in DOMAIN code /\ i \in Ins
  BY IteratorLive
<1>3. /\ j \in DOMAIN code' /\ code'[j] = ReplaceUses(code[j], i, v)
  BY <1>1, <1>2, ReplaceCode
<1>4. code[j] \in Instruction
  BY <1>1 DEF IsCode
<1>5. /\ code'[j].op = code[j].op
      /\ \A k \in DOMAIN code[j].args :
           code'[j].args[k] = IF code[j].args[k] = UseOp(i) THEN ConstOp(v) ELSE code[j].args[k]
  BY <1>2, <1>3, <1>4, ReplaceInstruction
<1>6. code[j].op \in BinaryOperator
  BY <1>5 DEF BothConstant
<1>7. 1 \in DOMAIN code[j].args /\ 2 \in DOMAIN code[j].args
  <2>1. Len(code[j].args) = 2 /\ code[j].args \in Seq(Operand)
    BY <1>4, <1>6 DEF Instruction, PureOp
  <2> QED BY <2>1
<1>8. PICK k \in DOMAIN code[j].args : code[j].args[k] = UseOp(i)
  <2> SUFFICES ASSUME \A k \in DOMAIN code[j].args : code[j].args[k] # UseOp(i) PROVE FALSE
    OBVIOUS
  <2>1. code'[j].args[1] = code[j].args[1] /\ code'[j].args[2] = code[j].args[2]
    BY <1>5, <1>7
  <2>2. code'[j].op = code[j].op
    BY <1>5
  <2>3. BothConstant(code'[j]) /\ ~BothConstant(code[j])
    OBVIOUS
  <2> HIDE DEF j
  <2> QED BY <2>1, <2>2, <2>3 DEF BothConstant
<1>9. i \in Uses(code[j])
  BY <1>8 DEF Uses, UseOp
<1>10. i \in Uses(fn.code[j])
  BY <1>1, <1>9, LiveUse
<1>11. n \in Nat /\ bb \in Nat /\ p \in Nat /\ I \in Nat /\ n <= bb /\ (n = bb => p < I)
  <2>1. fn.layout[n] \in Block
    BY <1>1, FunctionFacts
  <2> QED BY <1>1, <1>2, <2>1, FunctionFacts, BlockFacts DEF Passed
<1>12. n < bb \/ (n = bb /\ p < I)
  BY <1>11
<1>13. Precedes(j, i)
  BY <1>2, <1>12 DEF Precedes, InsAt
<1> QED BY <1>10, <1>13

LEMMA FoldStep ==
  ASSUME LInv, FoldInst
  PROVE  LInv'
<1> DEFINE i == BB[I]
<1>1. /\ fn' = fn /\ bb' = bb /\ I' = I + 1 /\ I <= Len(BB) /\ changed' = TRUE
      /\ preserved' = preserved /\ preserved = None
  BY DEF FoldInst, Replace
<1>2. PICK v \in Value : BothConstant(code[i]) /\ Replace(i, v)
  BY FoldPropagates
<1>3. /\ bb \in DOMAIN fn.layout /\ fn.layout[bb] \in Block
      /\ I \in DOMAIN fn.list[fn.layout[bb]]
      /\ i = InsAt(bb, I) /\ i \in DOMAIN code /\ i \in DOMAIN fn.code /\ i \in Ins
  BY <1>1, IteratorLive
<1>4. /\ DOMAIN code' = DOMAIN code \ {i}
      /\ \A j \in DOMAIN code' : code'[j] = ReplaceUses(code[j], i, v)
  BY <1>2, <1>3, ReplaceCode DEF LInv, PInv, PTypeOK
<1>5. PInv'
  BY FoldPropagates, PInvStep DEF LInv
<1>6. /\ I' \in Nat \ {0} /\ I' <= Len(BB') + 1
      /\ \A n \in DOMAIN fn.layout : \A p \in DOMAIN fn.list[fn.layout[n]] :
           Passed(n, p)' <=> Passed(n, p) \/ (n = bb /\ p = I)
  BY <1>1, Advance
<1>7. Control'
  <2>1. preserved # "all"
    BY <1>1, AnswerAssumption
  <2> QED BY <1>1, <1>6, <2>1 DEF LInv, Control
<1>8. Untouched'
  <2> SUFFICES ASSUME NEW b \in Block, NEW p \in DOMAIN fn.list[b], fn.list[b][p] \notin DOMAIN code'
               PROVE  \E n \in 1 .. bb : fn.layout[n] = b /\ Passed(n, p)'
    BY <1>1 DEF Untouched
  <2>1. CASE fn.list[b][p] \notin DOMAIN code
    <3>1. PICK n \in 1 .. bb : fn.layout[n] = b /\ Passed(n, p)
      BY <2>1 DEF LInv, Untouched
    <3>2. n \in DOMAIN fn.layout
      BY <3>1, FunctionFacts DEF LInv, Control
    <3> QED BY <1>6, <3>1, <3>2
  <2>2. CASE fn.list[b][p] \in DOMAIN code
    <3>1. fn.list[b][p] = fn.list[fn.layout[bb]][I]
      BY <1>3, <1>4, <2>2 DEF InsAt
    <3>2. b = fn.layout[bb] /\ p = I
      BY <1>3, <3>1, FunctionFacts DEF LInv, IsFunction
    <3>3. bb \in 1 .. bb
      BY <1>3, FunctionFacts DEF LInv
    <3> QED BY <1>3, <1>6, <3>2, <3>3
  <2> QED BY <2>1, <2>2
<1>9. repl' = [repl EXCEPT ![i] = v] /\ v # None /\ repl \in [Ins -> Value \cup {None}]
  BY <1>2, SpecialValues DEF Replace, LInv, PInv, PTypeOK
<1>10. \A e \in Ins : repl[e] # None => repl'[e] # None
  BY <1>3, <1>9
<1>11. repl'[i] # None
  BY <1>3, <1>9
<1>12. Leftover'
  <2> SUFFICES ASSUME NEW n \in DOMAIN fn.layout, NEW p \in DOMAIN fn.list[fn.layout[n]],
                      Passed(n, p)', InsAt(n, p) \in DOMAIN code', BothConstant(code'[InsAt(n, p)])
               PROVE  \E e \in Uses(fn.code[InsAt(n, p)]) : repl'[e] # None /\ Precedes(InsAt(n, p), e)
    <3>1. \A c, d : Precedes(c, d)' <=> Precedes(c, d)
      BY <1>1 DEF Precedes
    <3> QED BY <1>1, <3>1 DEF Leftover, InsAt, FoldedLater
  <2> DEFINE j == InsAt(n, p)
  <2>1. j \in DOMAIN code /\ j # i
    BY <1>4
  <2>2. Passed(n, p)
    BY <1>3, <1>6, <2>1
  <2>3. CASE BothConstant(code[j])
    <3>1. PICK e \in Uses(fn.code[j]) : repl[e] # None /\ Precedes(j, e)
      BY <2>1, <2>2, <2>3 DEF LInv, Leftover, FoldedLater
    <3>2. e \in Ins
      <4>1. Closed(fn.code) /\ IsCode(fn.code) /\ j \in DOMAIN fn.code
        BY <2>1, FunctionCode DEF LInv, PInv, PTypeOK
      <4> QED BY <4>1 DEF Closed, IsCode
    <3> QED BY <1>10, <3>1, <3>2
  <2>4. CASE ~BothConstant(code[j])
    <3>1. i \in Uses(fn.code[j]) /\ Precedes(j, i)
      BY <1>1, <1>2, <2>1, <2>2, <2>4, FoldBehind
    <3> QED BY <1>11, <3>1
  <2> QED BY <2>3, <2>4
<1> QED BY <1>5, <1>7, <1>8, <1>12 DEF LInv

LEMMA ReturnStep ==
  ASSUME LInv, Return
  PROVE  LInv'
<1>1. /\ fn' = fn /\ code' = code /\ repl' = repl /\ bb' = bb /\ I' = I /\ changed' = changed
      /\ preserved' = (IF changed THEN "none" ELSE "all") /\ I > Len(BB) /\ bb = Len(fn.layout)
  BY DEF Return
<1>2. PInv'
  BY <1>1, PInvStutter DEF LInv, pvars
<1>3. Untouched' /\ Leftover'
  BY <1>1 DEF LInv, Untouched, Leftover, Passed, InsAt, FoldedLater, Precedes
<1>4. Control'
  <2>1. BB' = BB
    BY <1>1 DEF BB
  <2> QED BY <1>1, <2>1 DEF LInv, Control
<1> QED BY <1>2, <1>3, <1>4 DEF LInv

(* The inductive invariant of the loop.                                      *)
THEOREM LInvariant == Spec => []LInv
<1>1. LInv /\ [Next]_vars => LInv'
  <2> SUFFICES ASSUME LInv, [Next]_vars PROVE LInv'
    OBVIOUS
  <2>1. CASE EnterBlock
    BY <2>1, EnterStep
  <2>2. CASE FoldInst
    BY <2>2, FoldStep
  <2>3. CASE KeepInst
    BY <2>3, KeepStep
  <2>4. CASE Return
    BY <2>4, ReturnStep
  <2>5. CASE UNCHANGED vars
    <3>1. /\ fn' = fn /\ code' = code /\ repl' = repl /\ bb' = bb /\ I' = I
          /\ changed' = changed /\ preserved' = preserved
      BY <2>5 DEF vars
    <3>2. PInv'
      BY <3>1, PInvStutter DEF LInv, pvars
    <3>3. Untouched' /\ Leftover'
      BY <3>1 DEF LInv, Untouched, Leftover, Passed, InsAt, FoldedLater, Precedes
    <3>4. Control'
      BY <3>1 DEF LInv, Control, BB
    <3> QED BY <3>2, <3>3, <3>4 DEF LInv
  <2> QED BY <2>1, <2>2, <2>3, <2>4, <2>5 DEF Next, Terminated
<1> QED BY LInitInv, <1>1, PTL DEF Spec

(* The types of LocalConstProp's variables, for all functions.               *)
THEOREM LocalTypeCorrect == Spec => []TypeOK
<1>1. LInv => TypeOK
  <2> SUFFICES ASSUME LInv PROVE TypeOK
    OBVIOUS
  <2>1. PInv /\ Control
    BY DEF LInv
  <2>2. I \in 1 .. Len(BB) + 1
    BY <2>1, BlockFacts DEF Control
  <2> QED BY <2>1, <2>2, FunctionFacts DEF PInv, PTypeOK, Control, TypeOK
<1> QED BY <1>1, LInvariant, PTL

(* No deleted instruction is still used, whatever the order of the blocks    *)
(* (ConstProp.cpp:27-28).                                                    *)
THEOREM LocalNoDanglingUse == Spec => []NoDanglingUse
<1>1. LInv => NoDanglingUse
  BY PInvClosed DEF LInv, NoDanglingUse
<1> QED BY <1>1, LInvariant, PTL

(* The iterator, moved on before the body runs, never designates a deleted   *)
(* instruction (ConstProp.cpp:20).                                           *)
THEOREM LocalIteratorValid == Spec => []IteratorValid
<1>1. LInv => IteratorValid
  BY IteratorLive DEF IteratorValid
<1> QED BY <1>1, LInvariant, PTL

(* Analyses are kept only for a function that did not change                 *)
(* (ConstProp.cpp:35).                                                       *)
THEOREM LocalPreservedSound == Spec => []PreservedSound
<1>1. LInv => PreservedSound
  BY DEF LInv, Control, PreservedSound
<1> QED BY <1>1, LInvariant, PTL

(* What can still be folded stands before a definition folded later          *)
(* (ConstProp.cpp:18).                                                       *)
THEOREM LocalLeftoverExplained == Spec => []LeftoverExplained
<1>1. LInv => LeftoverExplained
  <2> SUFFICES ASSUME LInv, preserved # None,
                      NEW i \in DOMAIN code, BothConstant(code[i])
               PROVE  FoldedLater(i)
    BY DEF LeftoverExplained, FoldedLater
  <2>1. PInv /\ Control /\ Leftover /\ fn \in Functions /\ i \in DOMAIN fn.code
    BY DEF LInv, PInv, PTypeOK
  <2>2. PICK n \in DOMAIN fn.layout : \E p \in DOMAIN fn.list[fn.layout[n]] :
          fn.list[fn.layout[n]][p] = i
    BY <2>1, PlacedAssumption
  <2>3. PICK p \in DOMAIN fn.list[fn.layout[n]] : fn.list[fn.layout[n]][p] = i
    BY <2>2
  <2>4. /\ n \in 1 .. bb /\ bb > 0 /\ I > Len(BB) /\ I \in Nat
    BY <2>1, FunctionFacts, BlockFacts DEF Control
  <2>5. n = bb => p < I
    <3> SUFFICES ASSUME n = bb PROVE p < I
      OBVIOUS
    <3>1. fn.layout[bb] \in Block /\ BB = fn.list[fn.layout[bb]]
      BY <2>1, <2>4, BlockFacts
    <3>2. p \in 1 .. Len(BB) /\ Len(BB) \in Nat
      BY <2>1, <3>1, FunctionFacts
    <3> QED BY <2>4, <3>2
  <2> QED BY <2>1, <2>3, <2>4, <2>5 DEF Passed, Leftover, InsAt
<1> QED BY <1>1, LInvariant, PTL

(* The local pass implements the abstract specification, so that what is     *)
(* proved of every run of Propagate (module PropagateProofs) holds of it.       *)
THEOREM LocalImplementsPropagate == Spec => Promise
<1>1. Init => PInit
  BY DEF Init
<1>2. LInv /\ [Next]_vars => [Propagate]_pvars
  <2> SUFFICES ASSUME LInv, [Next]_vars PROVE [Propagate]_pvars
    OBVIOUS
  <2>1. CASE FoldInst
    BY <2>1, FoldPropagates
  <2>2. CASE ~FoldInst
    BY <2>2 DEF Next, vars, pvars, EnterBlock, KeepInst, Return, Terminated
  <2> QED BY <2>1, <2>2
<1> QED BY <1>1, <1>2, LInvariant, PTL DEF Spec, Promise, PSpec
==================================================================================
