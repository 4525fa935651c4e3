----------------------------- MODULE ConstPropProofs -----------------------------
(***************************************************************************)
(* The traversal of constant propagation implements Propagate, never       *)
(* touches a deleted instruction, reports its changes exactly and leaves   *)
(* nothing to fold, for all functions and all folding rules that satisfy   *)
(* ComputationAssumption: those of ch4 and those of ch10.                  *)
(***************************************************************************)
EXTENDS ConstProp, PropagateProofs

\* the inner loop is past position p of the n-th block of the traversal
Visited(n, p) == n \in 1 .. bb /\ (n = bb => p < it)

InsAt(n, p) == fn.list[fn.rpo[n]][p]

\* only visited instructions are ever deleted
Untouched ==
  \A b \in Block : \A p \in DOMAIN fn.list[b] :
    fn.list[b][p] \in DOMAIN code \/ \E n \in 1 .. bb : fn.rpo[n] = b /\ Visited(n, p)

\* what was visited and kept cannot be folded, now or later
NoneLeft ==
  \A n \in DOMAIN fn.rpo : \A p \in DOMAIN fn.list[fn.rpo[n]] :
    Visited(n, p) /\ InsAt(n, p) \in DOMAIN code => NewConstant(rules, code[InsAt(n, p)]) = None

ChangeInv == IF madeChanges THEN DOMAIN code # DOMAIN fn.code ELSE code = fn.code

Control ==
  /\ bb \in 0 .. Len(fn.rpo) /\ it \in Nat \ {0}
  /\ madeChanges \in BOOLEAN /\ rules \in Rules
  /\ pc \in {"entry", "blocks", "instrs", "done", "crashed"}
  /\ pc = "entry" => bb = 0
  /\ pc = "instrs" => bb > 0 /\ it <= Len(BB) + 1
  /\ pc \in {"blocks", "done"} /\ bb > 0 => it > Len(BB)
  /\ pc = "done" => bb = Len(fn.rpo)

CInv == PInv /\ Control /\ Untouched /\ NoneLeft /\ ChangeInv

(* What the assumptions say of the function at hand.                         *)
LEMMA FunctionFacts ==
  ASSUME PInv
  PROVE  /\ IsFunction(fn) /\ DefinedBeforeUsed(fn)
         /\ fn.rpo \in Seq(Block) /\ Len(fn.rpo) \in Nat /\ DOMAIN fn.rpo = 1 .. Len(fn.rpo)
         /\ \A b \in Block : /\ fn.list[b] \in Seq(Ins) /\ Len(fn.list[b]) \in Nat
                             /\ DOMAIN fn.list[b] = 1 .. Len(fn.list[b])
<1>1. IsFunction(fn) /\ DefinedBeforeUsed(fn)
  BY FunctionsAssumption, SSAAssumption DEF PInv, PTypeOK
<1>2. fn.rpo \in Seq(Block) /\ fn.list \in [Block -> Seq(Ins)]
  BY <1>1 DEF IsFunction
<1> QED BY <1>1, <1>2

(* The instruction the iterator designates is still there.                   *)
LEMMA IteratorLive ==
  ASSUME CInv, AtInstr
  PROVE  /\ bb \in DOMAIN fn.rpo /\ fn.rpo[bb] \in Block
         /\ it \in DOMAIN fn.list[fn.rpo[bb]]
         /\ BB[it] = InsAt(bb, it)
         /\ BB[it] \in DOMAIN code /\ BB[it] \in DOMAIN fn.code
<1>1. PInv /\ Control /\ Untouched
  BY DEF CInv
<1>2. bb \in DOMAIN fn.rpo /\ bb \in Nat
  BY <1>1, FunctionFacts DEF Control, AtInstr
<1>3. fn.rpo[bb] \in Block
  BY <1>1, <1>2, FunctionFacts
<1>4. it \in DOMAIN fn.list[fn.rpo[bb]]
  BY <1>1, <1>3, FunctionFacts DEF Control, AtInstr, BB
<1>5. BB[it] \in DOMAIN code
  <2> SUFFICES ASSUME BB[it] \notin DOMAIN code PROVE FALSE
    OBVIOUS
  <2>1. PICK n \in 1 .. bb : fn.rpo[n] = fn.rpo[bb] /\ Visited(n, it)
    BY <1>1, <1>3, <1>4 DEF Untouched, BB
  <2>2. n \in DOMAIN fn.rpo
    BY <1>1, <1>2, <2>1, FunctionFacts
  <2>3. n = bb
    BY <1>1, <1>2, <2>1, <2>2, FunctionFacts DEF IsFunction
  <2> QED BY <1>1, <2>1, <2>3 DEF Visited, Control
<1> QED BY <1>1, <1>2, <1>3, <1>4, <1>5 DEF InsAt, BB, PInv, PTypeOK

(* A fold of the traversal is a step of the abstract specification.          *)
LEMMA FoldPropagates ==
  ASSUME CInv, FoldInstr
  PROVE  /\ Propagate
         /\ \E v \in Value : BothConstant(code[BB[it]]) /\ Replace(BB[it], v)
<1> DEFINE i == BB[it]
           v == NewConstant(rules, code[i])
<1>1. i \in DOMAIN code
  BY IteratorLive DEF FoldInstr
<1>2. v \notin {None, Crash} /\ Replace(i, v)
  BY DEF FoldInstr
<1>3. /\ code[i].op \in Cases /\ BothConstant(code[i])
      /\ v = Computation(rules, code[i].op, code[i].args[1].val, code[i].args[2].val)
  BY <1>2 DEF NewConstant, VisitBinary
<1>4. code[i].nsw \in BOOLEAN
  BY <1>1 DEF CInv, PInv, PTypeOK, IsCode, Instruction
<1>5. code[i].args[1].val \in Word /\ code[i].args[2].val \in Word
  BY <1>3 DEF BothConstant
<1>6. v \in Word /\ Refines(v, Eval(code[i].op, code[i].nsw, code[i].args[1].val, code[i].args[2].val))
  <2>1. rules \in Rules
    BY DEF CInv, Control
  <2> QED BY <2>1, <1>2, <1>3, <1>4, <1>5, ComputationAssumption
<1>7. v \in Value
  BY <1>6, SpecialValues
<1> HIDE DEF i, v
<1>8. Propagate
  BY <1>1, <1>2, <1>3, <1>6, <1>7 DEF Propagate
<1> QED BY <1>2, <1>3, <1>7, <1>8 DEF i

LEMMA CInitInv == Init => CInv
<1> SUFFICES ASSUME Init PROVE CInv
  OBVIOUS
<1>1. PInv
  BY PInitInv DEF Init
<1>2. bb = 0 /\ it = 1 /\ madeChanges = FALSE /\ pc = "entry" /\ code = fn.code
  BY DEF Init, PInit
<1>3. Control
  <2>1. Len(fn.rpo) \in Nat
    BY <1>1, FunctionFacts
  <2>2. bb \in 0 .. Len(fn.rpo) /\ it \in Nat \ {0}
    BY <1>2, <2>1
  <2>3. madeChanges \in BOOLEAN /\ rules \in Rules
    BY <1>2 DEF Init
  <2>4. pc \notin {"instrs", "blocks", "done"} /\ bb = 0
    BY <1>2
  <2> QED BY <1>2, <2>2, <2>3, <2>4, Zenon DEF Control
<1>4. Untouched
  BY <1>1, <1>2, FunctionFacts DEF Untouched, IsFunction
<1>5. NoneLeft
  BY <1>2 DEF NoneLeft, Visited
<1>6. ChangeInv
  BY <1>2 DEF ChangeInv
<1> QED BY <1>1, <1>3, <1>4, <1>5, <1>6 DEF CInv

(* Steps that leave the function alone: the parts of the invariant that      *)
(* speak of the code.                                                        *)
LEMMA SameCode ==
  ASSUME CInv, UNCHANGED <<fn, code, repl, madeChanges>>
  PROVE  PInv' /\ ChangeInv'
BY PInvStutter DEF CInv, ChangeInv, pvars

(* Steps that move neither the block nor the iterator.                       *)
LEMMA ControlStep ==
  ASSUME CInv, SkipEmpty \/ StartTraversal \/ AbortInstr \/ LeaveBlock \/ Return
  PROVE  CInv'
<1>1. /\ rules' = rules /\ fn' = fn /\ code' = code /\ repl' = repl /\ madeChanges' = madeChanges
      /\ bb' = bb /\ it' = it
  BY DEF SkipEmpty, StartTraversal, AbortInstr, LeaveBlock, Return
<1>2. PInv' /\ ChangeInv'
  BY <1>1, SameCode
<1>3. Untouched'
  BY <1>1 DEF CInv, Untouched, Visited
<1>4. NoneLeft'
  BY <1>1 DEF CInv, NoneLeft, Visited, InsAt
<1>5. Control'
  <2>1. PInv /\ Control
    BY DEF CInv
  <2>2. Len(fn.rpo) \in Nat /\ (pc = "entry" => bb = 0)
    BY <2>1, FunctionFacts DEF Control
  <2>3. fn.layout = <<>> => fn.rpo = <<>>
    <3> SUFFICES ASSUME fn.layout = <<>> PROVE fn.rpo = <<>>
      OBVIOUS
    <3>1. DOMAIN fn.rpo = {}
      BY <2>1, FunctionFacts DEF IsFunction
    <3> QED BY <2>1, <3>1, FunctionFacts
  <2>4. CASE SkipEmpty
    BY <1>1, <2>1, <2>2, <2>3, <2>4 DEF SkipEmpty, Control, BB
  <2>5. CASE StartTraversal
    BY <1>1, <2>1, <2>2, <2>5 DEF StartTraversal, Control, BB
  <2>6. CASE AbortInstr
    BY <1>1, <2>1, <2>6 DEF AbortInstr, AtInstr, Control, BB
  <2>7. CASE LeaveBlock
    BY <1>1, <2>1, <2>7 DEF LeaveBlock, Control, BB
  <2>8. CASE Return
    BY <1>1, <2>1, <2>8 DEF Return, Control, BB
  <2> QED BY <2>4, <2>5, <2>6, <2>7, <2>8
<1> QED BY <1>2, <1>3, <1>4, <1>5 DEF CInv

(* Entering the next block: the one before is behind the traversal.          *)
LEMMA EnterStep ==
  ASSUME CInv, EnterBlock
  PROVE  CInv'
<1>1. /\ rules' = rules /\ fn' = fn /\ code' = code /\ repl' = repl /\ madeChanges' = madeChanges
      /\ bb' = bb + 1 /\ it' = 1 /\ pc = "blocks" /\ pc' = "instrs" /\ bb < Len(fn.rpo)
  BY DEF EnterBlock
<1>2. PInv' /\ ChangeInv'
  BY <1>1, SameCode
<1>3. /\ PInv /\ bb \in Nat /\ Len(fn.rpo) \in Nat /\ it \in Nat /\ (bb > 0 => it > Len(BB))
      /\ bb <= Len(fn.rpo)
  BY <1>1, FunctionFacts DEF CInv, Control
<1>4. \A n \in 1 .. bb : \A p \in DOMAIN fn.list[fn.rpo[n]] : Visited(n, p) /\ Visited(n, p)'
  <2> SUFFICES ASSUME NEW n \in 1 .. bb, NEW p \in DOMAIN fn.list[fn.rpo[n]]
               PROVE  Visited(n, p) /\ Visited(n, p)'
    OBVIOUS
  <2>1. n = bb => p < it
    <3> SUFFICES ASSUME n = bb PROVE p < it
      OBVIOUS
    <3>1. fn.rpo[n] \in Block
      BY <1>3, FunctionFacts
    <3>2. p \in 1 .. Len(BB) /\ Len(BB) \in Nat
      BY <1>3, <3>1, FunctionFacts DEF BB
    <3> QED BY <1>3, <3>2
  <2>2. n \in 1 .. bb' /\ n # bb'
    BY <1>1, <1>3
  <2> QED BY <2>1, <2>2 DEF Visited
<1>5. Untouched'
  <2> SUFFICES ASSUME NEW b \in Block, NEW p \in DOMAIN fn.list[b], fn.list[b][p] \notin DOMAIN code
               PROVE  \E n \in 1 .. bb' : fn.rpo[n] = b /\ Visited(n, p)'
    BY <1>1 DEF Untouched
  <2>1. PICK n \in 1 .. bb : fn.rpo[n] = b /\ Visited(n, p)
    BY DEF CInv, Untouched
  <2>2. n \in 1 .. bb'
    BY <1>1, <1>3
  <2> QED BY <1>4, <2>1, <2>2
<1>6. NoneLeft'
  <2> SUFFICES ASSUME NEW n \in DOMAIN fn.rpo, NEW p \in DOMAIN fn.list[fn.rpo[n]],
                      Visited(n, p)', InsAt(n, p) \in DOMAIN code
               PROVE  NewConstant(rules, code[InsAt(n, p)]) = None
    BY <1>1 DEF NoneLeft, InsAt
  <2>1. n \in 1 .. bb
    <3>1. fn.rpo[n] \in Block /\ n \in Nat
      BY <1>3, FunctionFacts
    <3>2. p \in Nat /\ p >= 1
      BY <1>3, <3>1, FunctionFacts
    <3> QED BY <1>1, <1>3, <3>1, <3>2 DEF Visited
  <2> QED BY <1>4, <2>1 DEF CInv, NoneLeft
<1>7. Control'
  <2>1. fn.rpo[bb + 1] \in Block
    BY <1>1, <1>3, FunctionFacts
  <2>2. Len(BB') \in Nat
    BY <1>1, <1>3, <2>1, FunctionFacts DEF BB
  <2>3. madeChanges \in BOOLEAN /\ rules \in Rules
    BY DEF CInv, Control
  <2> QED BY <1>1, <1>3, <2>2, <2>3 DEF Control
<1> QED BY <1>2, <1>5, <1>6, <1>7 DEF CInv

(* The iterator moves past the instruction it designates.                    *)
LEMMA Advance ==
  ASSUME CInv, AtInstr, rules' = rules, fn' = fn, bb' = bb, it' = it + 1, pc' = pc, madeChanges' \in BOOLEAN
  PROVE  /\ Control'
         /\ \A n \in DOMAIN fn.rpo : \A p \in DOMAIN fn.list[fn.rpo[n]] :
              Visited(n, p)' <=> Visited(n, p) \/ (n = bb /\ p = it)
<1>1. Control /\ PInv /\ pc = "instrs" /\ it <= Len(BB)
  BY DEF CInv, AtInstr
<1>2. bb \in DOMAIN fn.rpo /\ fn.rpo[bb] \in Block /\ it \in Nat /\ bb \in Nat /\ bb > 0
  BY <1>1, IteratorLive DEF Control
<1>3. Len(BB) \in Nat /\ BB' = BB
  BY <1>1, <1>2, FunctionFacts DEF BB
<1>4. Control'
  BY <1>1, <1>2, <1>3 DEF Control
<1>5. ASSUME NEW n \in DOMAIN fn.rpo, NEW p \in DOMAIN fn.list[fn.rpo[n]]
      PROVE  Visited(n, p)' <=> Visited(n, p) \/ (n = bb /\ p = it)
  <2>1. fn.rpo[n] \in Block /\ n \in Nat /\ n >= 1
    BY <1>1, FunctionFacts
  <2>2. p \in Nat
    BY <1>1, <2>1, FunctionFacts
  <2> QED BY <1>2, <2>1, <2>2 DEF Visited
<1> QED BY <1>4, <1>5

LEMMA KeepStep ==
  ASSUME CInv, KeepInstr
  PROVE  CInv'
<1>1. /\ rules' = rules /\ fn' = fn /\ code' = code /\ repl' = repl /\ madeChanges' = madeChanges
      /\ bb' = bb /\ it' = it + 1 /\ pc' = pc /\ AtInstr /\ NewConstant(rules, code[BB[it]]) = None
  BY DEF KeepInstr
<1>2. PInv' /\ ChangeInv'
  BY <1>1, SameCode
<1>3. madeChanges' \in BOOLEAN
  BY <1>1 DEF CInv, Control
<1>4. Control' /\ \A n \in DOMAIN fn.rpo : \A p \in DOMAIN fn.list[fn.rpo[n]] :
              Visited(n, p)' <=> Visited(n, p) \/ (n = bb /\ p = it)
  BY <1>1, <1>3, Advance
<1>5. Untouched'
  <2> SUFFICES ASSUME NEW b \in Block, NEW p \in DOMAIN fn.list[b], fn.list[b][p] \notin DOMAIN code
               PROVE  \E n \in 1 .. bb : fn.rpo[n] = b /\ Visited(n, p)'
    BY <1>1 DEF Untouched
  <2>1. PICK n \in 1 .. bb : fn.rpo[n] = b /\ Visited(n, p)
    BY DEF CInv, Untouched
  <2>2. n \in DOMAIN fn.rpo
    BY <2>1, FunctionFacts DEF CInv, Control
  <2> QED BY <1>4, <2>1, <2>2
<1>6. NoneLeft'
  <2> SUFFICES ASSUME NEW n \in DOMAIN fn.rpo, NEW p \in DOMAIN fn.list[fn.rpo[n]],
                      Visited(n, p)', InsAt(n, p) \in DOMAIN code
               PROVE  NewConstant(rules, code[InsAt(n, p)]) = None
    BY <1>1 DEF NoneLeft, InsAt
  <2>1. CASE Visited(n, p)
    BY <2>1 DEF CInv, NoneLeft
  <2>2. CASE n = bb /\ p = it
    BY <1>1, <2>2, IteratorLive
  <2> QED BY <1>4, <2>1, <2>2
<1> QED BY <1>2, <1>4, <1>5, <1>6 DEF CInv

(* A fold leaves the instructions behind it as they were: none of them may   *)
(* use the folded one, which they precede.                                   *)
LEMMA FoldBehind ==
  ASSUME CInv, AtInstr, code[BB[it]].op \in BinaryOperator,
         NEW n \in DOMAIN fn.rpo, NEW p \in DOMAIN fn.list[fn.rpo[n]],
         Visited(n, p), InsAt(n, p) \in DOMAIN code, code[InsAt(n, p)].op \in BinaryOperator
  PROVE  BB[it] \notin Uses(code[InsAt(n, p)])
<1> SUFFICES ASSUME BB[it] \in Uses(code[InsAt(n, p)]) PROVE FALSE
  OBVIOUS
<1> DEFINE j == InsAt(n, p)
           i == InsAt(bb, it)
<1>1. PInv /\ Control
  BY DEF CInv
<1>2. bb \in DOMAIN fn.rpo /\ it \in DOMAIN fn.list[fn.rpo[bb]] /\ BB[it] = i /\ i \in DOMAIN code
  BY IteratorLive
<1>3. i \in Uses(fn.code[j])
  BY <1>1, <1>2, LiveUse
<1>4. fn.code[j].op \in BinaryOperator /\ fn.code[i].op \in BinaryOperator
  <2>1. \A e \in DOMAIN code : code[e].op = fn.code[e].op
    BY <1>1, LiveInstruction
  <2> QED BY <1>2, <2>1
<1>5. PICK m \in DOMAIN fn.rpo : \E q \in DOMAIN fn.list[fn.rpo[m]] :
        InsAt(m, q) = i /\ Earlier(m, q, n, p)
  BY <1>1, <1>3, <1>4, FunctionFacts DEF DefinedBeforeUsed, InsAt
<1>6. PICK q \in DOMAIN fn.list[fn.rpo[m]] : InsAt(m, q) = i /\ Earlier(m, q, n, p)
  BY <1>5
<1>7. m = bb /\ q = it
  <2>1. fn.rpo[m] \in Block /\ fn.rpo[bb] \in Block
    BY <1>1, <1>2, FunctionFacts
  <2>2. fn.rpo[m] = fn.rpo[bb] /\ q = it
    BY <1>1, <1>2, <1>6, <2>1, FunctionFacts DEF IsFunction, InsAt
  <2> QED BY <1>1, <1>2, <2>2, FunctionFacts DEF IsFunction
<1>8. n <= bb /\ (n = bb => p < it) /\ n \in Nat /\ bb \in Nat /\ it \in Nat
  BY <1>1, FunctionFacts DEF Visited, Control
<1>9. p \in Nat
  <2>1. fn.rpo[n] \in Block
    BY <1>1, FunctionFacts
  <2> QED BY <1>1, <2>1, FunctionFacts
<1> QED BY <1>6, <1>7, <1>8, <1>9 DEF Earlier

LEMMA FoldStep ==
  ASSUME CInv, FoldInstr
  PROVE  CInv'
<1> DEFINE i == BB[it]
<1>1. /\ rules' = rules /\ fn' = fn /\ bb' = bb /\ it' = it + 1 /\ pc' = pc /\ madeChanges' = TRUE /\ AtInstr
  BY DEF FoldInstr, Replace
<1>2. PICK v \in Value : BothConstant(code[i]) /\ Replace(i, v)
  BY FoldPropagates
<1>3. /\ bb \in DOMAIN fn.rpo /\ it \in DOMAIN fn.list[fn.rpo[bb]]
      /\ i = InsAt(bb, it) /\ i \in DOMAIN code /\ i \in DOMAIN fn.code
  BY <1>1, IteratorLive
<1>4. /\ DOMAIN code' = DOMAIN code \ {i}
      /\ \A j \in DOMAIN code' : code'[j] = ReplaceUses(code[j], i, v)
  BY <1>2, <1>3, ReplaceCode DEF CInv, PInv, PTypeOK
<1>5. PInv'
  BY FoldPropagates, PInvStep DEF CInv
<1>6. ChangeInv'
  BY <1>1, <1>3, <1>4 DEF ChangeInv
<1>7. Control' /\ \A n \in DOMAIN fn.rpo : \A p \in DOMAIN fn.list[fn.rpo[n]] :
              Visited(n, p)' <=> Visited(n, p) \/ (n = bb /\ p = it)
  <2>1. madeChanges' \in BOOLEAN
    BY <1>1
  <2> QED BY <1>1, <2>1, Advance
<1>8. Untouched'
  <2> SUFFICES ASSUME NEW b \in Block, NEW p \in DOMAIN fn.list[b], fn.list[b][p] \notin DOMAIN code'
               PROVE  \E n \in 1 .. bb : fn.rpo[n] = b /\ Visited(n, p)'
    BY <1>1 DEF Untouched
  <2>1. CASE fn.list[b][p] \notin DOMAIN code
    <3>1. PICK n \in 1 .. bb : fn.rpo[n] = b /\ Visited(n, p)
      BY <2>1 DEF CInv, Untouched
    <3>2. n \in DOMAIN fn.rpo
      BY <3>1, FunctionFacts DEF CInv, Control
    <3> QED BY <1>7, <3>1, <3>2
  <2>2. CASE fn.list[b][p] \in DOMAIN code
    <3>1. fn.list[b][p] = fn.list[fn.rpo[bb]][it]
      BY <1>3, <1>4, <2>2 DEF InsAt
    <3>2. fn.rpo[bb] \in Block
      BY <1>1, IteratorLive
    <3>3. b = fn.rpo[bb] /\ p = it
      BY <1>3, <3>1, <3>2, FunctionFacts DEF CInv, IsFunction
    <3>4. bb \in 1 .. bb
      BY <1>3, FunctionFacts DEF CInv
    <3> QED BY <1>3, <1>7, <3>3, <3>4
  <2> QED BY <2>1, <2>2
<1>9. NoneLeft'
  <2> SUFFICES ASSUME NEW n \in DOMAIN fn.rpo, NEW p \in DOMAIN fn.list[fn.rpo[n]],
                      Visited(n, p)', InsAt(n, p) \in DOMAIN code'
               PROVE  NewConstant(rules, code'[InsAt(n, p)]) = None
    BY <1>1 DEF NoneLeft, InsAt
  <2> DEFINE j == InsAt(n, p)
  <2>1. j \in DOMAIN code /\ j # i /\ code'[j] = ReplaceUses(code[j], i, v)
    BY <1>4
  <2>2. Visited(n, p)
    BY <1>3, <1>7, <2>1
  <2>3. NewConstant(rules, code[j]) = None
    BY <2>1, <2>2 DEF CInv, NoneLeft
  <2>4. /\ code[j] \in Instruction /\ i \in Ins
        /\ code'[j].op = code[j].op
        /\ \A k \in DOMAIN code[j].args :
             code'[j].args[k] = IF code[j].args[k] = UseOp(i) THEN ConstOp(v) ELSE code[j].args[k]
    <3>1. code[j] \in Instruction /\ i \in Ins
      BY <1>3, <2>1 DEF CInv, PInv, PTypeOK, IsCode
    <3> QED BY <2>1, <3>1, ReplaceInstruction
  <2>5. CASE code[j].op \notin Cases
    BY <2>4, <2>5 DEF NewConstant
  <2>6. CASE code[j].op \in Cases
    <3>1. code[j].op \in BinaryOperator /\ code[i].op \in BinaryOperator
      BY <1>2, <2>6, CasesAssumption DEF BothConstant
    <3>2. i \notin Uses(code[j])
      BY <1>1, <2>1, <2>2, <3>1, FoldBehind
    <3>3. 1 \in DOMAIN code[j].args /\ 2 \in DOMAIN code[j].args
      <4>1. Len(code[j].args) = 2 /\ code[j].args \in Seq(Operand)
        BY <2>4, <3>1 DEF Instruction, PureOp
      <4> QED BY <4>1
    <3>4. \A k \in DOMAIN code[j].args : code[j].args[k] # UseOp(i)
      BY <3>2 DEF Uses, UseOp
    <3>5. code'[j].args[1] = code[j].args[1] /\ code'[j].args[2] = code[j].args[2]
      BY <2>4, <3>3, <3>4
    <3>6. NewConstant(rules, code'[j]) = NewConstant(rules, code[j])
      <4> HIDE DEF j
      <4>1. BothConstant(code'[j]) <=> BothConstant(code[j])
        BY <2>4, <3>5 DEF BothConstant
      <4> QED BY <2>4, <3>5, <4>1 DEF NewConstant, VisitBinary
    <3> QED BY <2>3, <3>6
  <2> QED BY <2>5, <2>6
<1> QED BY <1>5, <1>6, <1>7, <1>8, <1>9 DEF CInv

(* The inductive invariant of the traversal.                                 *)
THEOREM CInvariant == Spec => []CInv
<1>1. CInv /\ [Next]_vars => CInv'
  <2> SUFFICES ASSUME CInv, [Next]_vars PROVE CInv'
    OBVIOUS
  <2>1. CASE SkipEmpty \/ StartTraversal \/ AbortInstr \/ LeaveBlock \/ Return
    BY <2>1, ControlStep
  <2>2. CASE EnterBlock
    BY <2>2, EnterStep
  <2>3. CASE FoldInstr
    BY <2>3, FoldStep
  <2>4. CASE KeepInstr
    BY <2>4, KeepStep
  <2>5. CASE UNCHANGED vars
    <3>1. /\ rules' = rules /\ fn' = fn /\ code' = code /\ repl' = repl /\ madeChanges' = madeChanges
          /\ bb' = bb /\ it' = it /\ pc' = pc
      BY <2>5 DEF vars
    <3>2. PInv' /\ ChangeInv'
      BY <3>1, SameCode
    <3>3. Untouched' /\ NoneLeft'
      BY <3>1 DEF CInv, Untouched, NoneLeft, Visited, InsAt
    <3>4. Control'
      BY <3>1 DEF CInv, Control, BB
    <3> QED BY <3>2, <3>3, <3>4 DEF CInv
  <2> QED BY <2>1, <2>2, <2>3, <2>4, <2>5 DEF Next, Terminated
<1> QED BY CInitInv, <1>1, PTL DEF Spec

(* The types of ConstProp's variables, for all functions.                    *)
THEOREM TypeCorrect == Spec => []TypeOK
<1>1. CInv => TypeOK
  BY FunctionFacts DEF CInv, PInv, PTypeOK, Control, TypeOK
<1> QED BY <1>1, CInvariant, PTL

(* No deleted instruction is still used (populate_function.cpp:143-145).     *)
THEOREM NoDanglingUseHolds == Spec => []NoDanglingUse
<1>1. CInv => NoDanglingUse
  BY PInvClosed DEF CInv, NoDanglingUse
<1> QED BY <1>1, CInvariant, PTL

(* The early-incremented iterator never designates a deleted instruction     *)
(* (populate_function.cpp:52-55).                                            *)
THEOREM IteratorValidHolds == Spec => []IteratorValid
<1>1. CInv => IteratorValid
  BY IteratorLive DEF IteratorValid
<1> QED BY <1>1, CInvariant, PTL

(* The value returned says whether the function was modified                 *)
(* (populate_function.cpp:38-39).                                            *)
THEOREM MadeChangesExactHolds == Spec => []MadeChangesExact
<1>1. CInv => MadeChangesExact
  BY DEF CInv, ChangeInv, MadeChangesExact
<1> QED BY <1>1, CInvariant, PTL

(* One traversal leaves nothing to fold (populate_function.cpp:50-51).       *)
THEOREM CompleteHolds == Spec => []Complete
<1>1. CInv => Complete
  <2> SUFFICES ASSUME CInv, pc = "done",
                      NEW n \in DOMAIN fn.rpo, NEW p \in DOMAIN fn.list[fn.rpo[n]],
                      InsAt(n, p) \in DOMAIN code
               PROVE  NewConstant(rules, code[InsAt(n, p)]) = None
    BY DEF Complete, InsAt
  <2>1. PInv /\ Control /\ NoneLeft
    BY DEF CInv
  <2>2. /\ n \in 1 .. bb /\ bb > 0 /\ bb = Len(fn.rpo) /\ it > Len(BB) /\ it \in Nat /\ bb \in Nat
    BY <2>1, FunctionFacts DEF Control
  <2>3. n = bb => p < it
    <3> SUFFICES ASSUME n = bb PROVE p < it
      OBVIOUS
    <3>1. fn.rpo[n] \in Block
      BY <2>1, FunctionFacts
    <3>2. p \in 1 .. Len(BB) /\ Len(BB) \in Nat
      BY <2>1, <3>1, FunctionFacts DEF BB
    <3> QED BY <2>2, <3>2
  <2> QED BY <2>1, <2>2, <2>3 DEF Visited, NoneLeft
<1> QED BY <1>1, CInvariant, PTL

(* A crash is the answer the rules give for the instruction designated.      *)
CrashExplained ==
  pc = "crashed" => BB[it] \in DOMAIN code /\ NewConstant(rules, code[BB[it]]) = Crash

LEMMA CrashInvariant == Spec => [](CInv /\ CrashExplained)
<1>1. Init => CrashExplained
  BY DEF Init, CrashExplained
<1>2. CInv /\ CrashExplained /\ [Next]_vars => CrashExplained'
  <2> SUFFICES ASSUME CInv, CrashExplained, [Next]_vars, pc' = "crashed"
               PROVE  BB'[it'] \in DOMAIN code' /\ NewConstant(rules', code'[BB'[it']]) = Crash
    BY DEF CrashExplained
  <2>1. CASE AbortInstr
    <3>1. /\ AtInstr /\ NewConstant(rules, code[BB[it]]) = Crash
          /\ rules' = rules /\ code' = code /\ it' = it /\ BB' = BB
      BY <2>1 DEF AbortInstr, BB
    <3> QED BY <3>1, IteratorLive
  <2>2. CASE ~AbortInstr
    <3>1. pc = "crashed" /\ UNCHANGED vars
      BY <2>2 DEF Next, vars, SkipEmpty, StartTraversal, EnterBlock, FoldInstr, KeepInstr,
                  LeaveBlock, Return, Terminated, AtInstr
    <3>2. rules' = rules /\ code' = code /\ it' = it /\ BB' = BB
      BY <3>1 DEF vars, BB
    <3> QED BY <3>1, <3>2 DEF CrashExplained
  <2> QED BY <2>1, <2>2
<1> QED BY <1>1, <1>2, CInvariant, PTL DEF Spec

(* The operands an answer of the rules was computed from.                    *)
LEMMA CrashComputed ==
  ASSUME CInv, CrashExplained, pc = "crashed"
  PROVE  LET y == code[BB[it]]
         IN  /\ y.op \in Cases /\ y.nsw \in BOOLEAN
             /\ y.args[1].val \in Word /\ y.args[2].val \in Word
             /\ Computation(rules, y.op, y.args[1].val, y.args[2].val) = Crash
<1> DEFINE y == code[BB[it]]
<1>1. BB[it] \in DOMAIN code /\ NewConstant(rules, y) = Crash
  BY DEF CrashExplained
<1>2. y.nsw \in BOOLEAN
  BY <1>1 DEF CInv, PInv, PTypeOK, IsCode, Instruction
<1> HIDE DEF y
<1>3. y.op \in Cases /\ BothConstant(y) /\ Computation(rules, y.op, y.args[1].val, y.args[2].val) = Crash
  BY <1>1, SpecialValues DEF NewConstant, VisitBinary
<1> QED BY <1>2, <1>3 DEF BothConstant, y

(* The solution never trips an assertion of APInt, on any function, if its   *)
(* rules check every divisor (populate_function.cpp:83-84 and 92-93).        *)
THEOREM NoCrashHolds ==
  ASSUME \A op \in Cases, a, b \in Word : Computation("solution", op, a, b) # Crash
  PROVE  Spec => []NoCrash
<1>1. CInv /\ CrashExplained => NoCrash
  BY CrashComputed DEF NoCrash
<1> QED BY <1>1, CrashInvariant, PTL

(* The compiler of ch10 crashes only on an instruction that is undefined, on *)
(* any function, if its rules crash only on operands that are                *)
(* (ch10/incorrect_optimization/populate_function.cpp:77-83).                *)
THEOREM CrashOnlyOnUBHolds ==
  ASSUME \A r \in Rules, op \in Cases, nsw \in BOOLEAN, a, b \in Word :
           Computation(r, op, a, b) = Crash => Eval(op, nsw, a, b) = UB
  PROVE  Spec => []CrashOnlyOnUB
<1>1. CInv /\ CrashExplained => CrashOnlyOnUB
  <2> SUFFICES ASSUME CInv, CrashExplained, pc = "crashed"
               PROVE  LET y == code[BB[it]]
                      IN  Eval(y.op, y.nsw, y.args[1].val, y.args[2].val) = UB
    BY DEF CrashOnlyOnUB
  <2>1. rules \in Rules
    BY DEF CInv, Control
  <2> QED BY <2>1, CrashComputed
<1> QED BY <1>1, CrashInvariant, PTL

(* No terminator is deleted or retargeted                                    *)
(* (your_first_pass/solution/passWithNewPM.cpp:15-18).                       *)
THEOREM CFGPreservedHolds == Spec => []CFGPreserved
<1>1. CInv => CFGPreserved
  <2> SUFFICES ASSUME CInv, NEW i \in DOMAIN fn.code, fn.code[i].op = "Br"
               PROVE  /\ i \in DOMAIN code /\ code[i].bbs = fn.code[i].bbs
                      /\ Len(code[i].args) = Len(fn.code[i].args)
    BY DEF CFGPreserved
  <2>1. PInv
    BY DEF CInv
  <2>2. i \in DOMAIN code
    <3>1. "Br" \notin BinaryOperator
      BY OpcodeAssumption
    <3> QED BY <2>1, <3>1 DEF PInv, Justified
  <2> QED BY <2>1, <2>2, LiveInstruction
<1> QED BY <1>1, CInvariant, PTL

(* The traversal implements the abstract specification, so that what is      *)
(* proved of every run of Propagate (module PropagateProofs) holds of it.       *)
THEOREM ImplementsPropagate == Spec => Promise
<1>1. Init => PInit
  BY DEF Init
<1>2. CInv /\ [Next]_vars => [Propagate]_pvars
  <2> SUFFICES ASSUME CInv, [Next]_vars PROVE [Propagate]_pvars
    OBVIOUS
  <2>1. CASE FoldInstr
    BY <2>1, FoldPropagates
  <2>2. CASE ~FoldInstr
    BY <2>2 DEF Next, vars, pvars, SkipEmpty, StartTraversal, EnterBlock, KeepInstr,
                AbortInstr, LeaveBlock, Return, Terminated
  <2> QED BY <2>1, <2>2
<1> QED BY <1>1, <1>2, CInvariant, PTL DEF Spec, Promise, PSpec
==================================================================================
