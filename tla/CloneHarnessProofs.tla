--------------------------- MODULE CloneHarnessProofs ---------------------------
(***************************************************************************)
(* The comparison program of ch4, for every module and all sound folds:    *)
(* if the reader's implementation folds no more than the reference does,   *)
(* VMap does no harm.  What a key stands for is then the instruction       *)
(* itself or the constant both implementations replace it by, so a         *)
(* constant stands for itself.                                             *)
(***************************************************************************)
EXTENDS CloneHarness, TLAPS

Code == UNION { [D -> Instruction] : D \in SUBSET Ins }
Repl == [Ins -> Value \cup {None}]

\* operand o, instruction x and code g when r says what has been replaced
SubstBy(r, o) == IF o.tag = "ins" /\ r[o.val] # None THEN ConstOp(r[o.val]) ELSE o
SubstitutedBy(r, x) == [x EXCEPT !.args = [k \in DOMAIN x.args |-> SubstBy(r, x.args[k])]]
RewrittenBy(g, r) == [i \in { j \in DOMAIN g : r[j] = None } |-> SubstitutedBy(r, g[i])]

\* each replacement is what the reference folds its operator to
JustifiedBy(g, r) ==
  \A j \in DOMAIN g : r[j] # None =>
    LET x == SubstitutedBy(r, g[j])
    IN  BothConstant(x) /\ r[j] = SolutionFolds(x.op, x.args[1].val, x.args[2].val)

\* q replaces nothing that r does not replace by the same
Within(q, r) == \A i \in Ins : q[i] = None \/ q[i] = r[i]

Entry(r, i) == IF r[i] = None THEN UseOp(i) ELSE ConstOp(r[i])

(* An instruction remains one when operands are replaced.                    *)
LEMMA SubstitutedInstruction ==
  ASSUME NEW y \in Instruction, NEW r \in Repl
  PROVE  LET z == SubstitutedBy(r, y)
         IN  /\ z \in Instruction
             /\ z.op = y.op /\ DOMAIN z.args = DOMAIN y.args
             /\ \A k \in DOMAIN y.args : z.args[k] = SubstBy(r, y.args[k])
<1> DEFINE s == [k \in DOMAIN y.args |-> SubstBy(r, y.args[k])]
<1>1. y \in [op : Opcode, nsw : BOOLEAN, args : Seq(Operand), bbs : Seq(Block)]
  BY DEF Instruction
<1>2. \A o \in Operand : SubstBy(r, o) \in Operand
  <2> SUFFICES ASSUME NEW o \in Operand, o.tag = "ins", r[o.val] # None
               PROVE  ConstOp(r[o.val]) \in Operand
    BY DEF SubstBy
  <2>1. o.val \in Ins
    BY DEF Operand
  <2>2. r[o.val] \in Value
    BY <2>1 DEF Repl
  <2> QED BY <2>2 DEF ConstOp, Operand
<1>3. s \in Seq(Operand) /\ Len(s) = Len(y.args) /\ DOMAIN s = DOMAIN y.args
  <2>1. y.args \in Seq(Operand) /\ DOMAIN y.args = 1 .. Len(y.args) /\ Len(y.args) \in Nat
    BY <1>1
  <2>2. \A k \in 1 .. Len(y.args) : y.args[k] \in Operand
    BY <2>1
  <2>3. s \in [1 .. Len(y.args) -> Operand]
    BY <1>2, <2>1, <2>2
  <2> QED BY <2>1, <2>3
<1>4. [y EXCEPT !.args = s] \in [op : Opcode, nsw : BOOLEAN, args : Seq(Operand), bbs : Seq(Block)]
  BY <1>1, <1>3
<1> QED BY <1>1, <1>3, <1>4 DEF Instruction, SubstitutedBy

(* The instructions of a function.                                           *)
LEMMA CodeFacts ==
  ASSUME NEW g \in Code
  PROVE  /\ DOMAIN g \subseteq Ins /\ g = [i \in DOMAIN g |-> g[i]]
         /\ \A i \in DOMAIN g : g[i] \in Instruction
BY DEF Code

(* Two sets of replacements, one within the other, leave the same operands   *)
(* where the smaller leaves two constants.                                   *)
LEMMA SameOperands ==
  ASSUME NEW y \in Instruction, NEW q \in Repl, NEW r \in Repl, Within(q, r),
         BothConstant(SubstitutedBy(q, y))
  PROVE  /\ BothConstant(SubstitutedBy(r, y))
         /\ SubstitutedBy(r, y).op = SubstitutedBy(q, y).op
         /\ \A k \in 1 .. 2 : SubstitutedBy(r, y).args[k] = SubstitutedBy(q, y).args[k]
<1> DEFINE x == SubstitutedBy(q, y)
           z == SubstitutedBy(r, y)
<1>1. /\ x \in Instruction /\ x.op = y.op /\ z.op = y.op
      /\ \A k \in DOMAIN y.args : /\ x.args[k] = SubstBy(q, y.args[k])
                                  /\ z.args[k] = SubstBy(r, y.args[k])
  BY SubstitutedInstruction
<1>2. y.op \in BinaryOperator /\ y.op \in PureOp
  BY <1>1 DEF BothConstant, PureOp
<1>3. y.args \in Seq(Operand) /\ Len(y.args) = 2
  BY <1>2 DEF Instruction
<1>4. \A k \in 1 .. 2 : k \in DOMAIN y.args /\ y.args[k] \in Operand
  BY <1>3
<1>5. \A k \in 1 .. 2 : x.args[k].tag = "const" /\ x.args[k].val \in Word
  BY DEF BothConstant
<1>6. \A k \in 1 .. 2 : z.args[k] = x.args[k]
  <2> SUFFICES ASSUME NEW k \in 1 .. 2 PROVE z.args[k] = x.args[k]
    OBVIOUS
  <2> DEFINE o == y.args[k]
  <2>1. x.args[k] = SubstBy(q, o) /\ z.args[k] = SubstBy(r, o) /\ o \in Operand
    BY <1>1, <1>4
  <2>2. CASE o.tag = "ins"
    <3>1. o.val \in Ins
      BY <2>1, <2>2 DEF Operand
    <3>2. q[o.val] # None
      <4> HIDE DEF x, z, o
      <4> QED BY <1>5, <2>1, <2>2 DEF SubstBy
    <3>3. r[o.val] = q[o.val]
      BY <3>1, <3>2 DEF Within
    <3> HIDE DEF x, z, o
    <3> QED BY <2>1, <3>3 DEF SubstBy
  <2>3. CASE o.tag # "ins"
    <3> HIDE DEF x, z, o
    <3> QED BY <2>1, <2>3 DEF SubstBy
  <2> QED BY <2>2, <2>3
<1>7. BothConstant(z)
  <2> HIDE DEF x, z
  <2> QED BY <1>1, <1>2, <1>5, <1>6 DEF BothConstant
<1> QED BY <1>1, <1>6, <1>7

(* Code without replacements is the given code.                              *)
LEMMA RewrittenByNothing ==
  ASSUME NEW g \in Code, NEW r \in Repl, \A i \in Ins : r[i] = None
  PROVE  RewrittenBy(g, r) = g
<1>1. \A i \in DOMAIN g : SubstitutedBy(r, g[i]) = g[i]
  <2> SUFFICES ASSUME NEW i \in DOMAIN g PROVE SubstitutedBy(r, g[i]) = g[i]
    OBVIOUS
  <2> DEFINE y == g[i]
  <2>1. y \in [op : Opcode, nsw : BOOLEAN, args : Seq(Operand), bbs : Seq(Block)]
    BY CodeFacts DEF Instruction
  <2>2. \A k \in DOMAIN y.args : y.args[k] \in Operand
    BY <2>1
  <2>3. \A k \in DOMAIN y.args : SubstBy(r, y.args[k]) = y.args[k]
    BY <2>2 DEF SubstBy, Operand
  <2>4. [k \in DOMAIN y.args |-> SubstBy(r, y.args[k])] = y.args
    BY <2>1, <2>3
  <2>5. [y EXCEPT !.args = y.args] = y
    BY <2>1
  <2> QED BY <2>4, <2>5 DEF SubstitutedBy
<1>2. { j \in DOMAIN g : r[j] = None } = DOMAIN g
  BY CodeFacts
<1> QED BY <1>1, <1>2, CodeFacts DEF RewrittenBy

LEMMA SpecialValues == None \notin Value
BY SpecialAssumption DEF Value

(* One more replacement.                                                     *)
LEMMA RewriteStep ==
  ASSUME NEW g \in Code, NEW r \in Repl, NEW i \in DOMAIN RewrittenBy(g, r), NEW v \in Value
  PROVE  /\ [r EXCEPT ![i] = v] \in Repl /\ r[i] = None /\ i \in Ins
         /\ Rewrite(RewrittenBy(g, r), i, v) = RewrittenBy(g, [r EXCEPT ![i] = v])
<1> DEFINE rr == [r EXCEPT ![i] = v]
           c  == RewrittenBy(g, r)
           D  == { j \in DOMAIN g : r[j] = None }
<1>1. i \in DOMAIN g /\ r[i] = None /\ i \in Ins /\ v # None
  BY CodeFacts, SpecialValues DEF RewrittenBy
<1>2. rr \in Repl
  BY <1>1 DEF Repl
<1>3. Rewrite(c, i, v) = [j \in DOMAIN c \ {i} |-> ReplaceUses(c[j], i, v)]
  BY DEF Rewrite, EraseFromParent, ReplaceAllUsesWith
<1>4. DOMAIN c = D /\ \A j \in D : c[j] = SubstitutedBy(r, g[j])
  BY DEF RewrittenBy
<1>5. D \ {i} = { j \in DOMAIN g : rr[j] = None }
  <2>1. \A j \in Ins : rr[j] = IF j = i THEN v ELSE r[j]
    BY <1>1 DEF Repl
  <2> QED BY <1>1, <2>1, CodeFacts
<1>6. \A j \in D : ReplaceUses(SubstitutedBy(r, g[j]), i, v) = SubstitutedBy(rr, g[j])
  <2> SUFFICES ASSUME NEW j \in D
               PROVE  ReplaceUses(SubstitutedBy(r, g[j]), i, v) = SubstitutedBy(rr, g[j])
    OBVIOUS
  <2> DEFINE y == g[j]
             s == [k \in DOMAIN y.args |-> SubstBy(r, y.args[k])]
             z == [y EXCEPT !.args = s]
             T(o) == IF o = UseOp(i) THEN ConstOp(v) ELSE o
  <2>1. y \in [op : Opcode, nsw : BOOLEAN, args : Seq(Operand), bbs : Seq(Block)]
    BY CodeFacts DEF Instruction
  <2>2. \A k \in DOMAIN y.args : y.args[k] \in Operand
    BY <2>1
  <2>3. \A o \in Operand : T(SubstBy(r, o)) = SubstBy(rr, o)
    <3> SUFFICES ASSUME NEW o \in Operand PROVE T(SubstBy(r, o)) = SubstBy(rr, o)
      OBVIOUS
    <3>1. CASE o = UseOp(i)
      <4>1. o.tag = "ins" /\ o.val = i
        BY <3>1 DEF UseOp
      <4>2. SubstBy(r, o) = o
        BY <1>1, <4>1 DEF SubstBy
      <4>3. rr[i] = v
        BY <1>1 DEF Repl
      <4>4. SubstBy(rr, o) = ConstOp(v)
        <5> HIDE DEF rr
        <5> QED BY <1>1, <4>1, <4>3 DEF SubstBy
      <4> QED BY <3>1, <4>2, <4>4
    <3>2. CASE o # UseOp(i)
      <4>1. ~(o.tag = "ins" /\ o.val = i)
        BY <3>2 DEF Operand, UseOp
      <4>2. o.tag = "ins" => rr[o.val] = r[o.val]
        BY <1>1, <4>1 DEF Operand, Repl
      <4>3. SubstBy(rr, o) = SubstBy(r, o)
        <5> HIDE DEF rr
        <5> QED BY <4>2 DEF SubstBy
      <4>4. SubstBy(r, o) # UseOp(i)
        BY <3>2 DEF SubstBy, UseOp, ConstOp
      <4> QED BY <4>3, <4>4
    <3> QED BY <3>1, <3>2
  <2>4. z.args = s /\ DOMAIN s = DOMAIN y.args
    BY <2>1
  <2>5. ReplaceUses(z, i, v) = [z EXCEPT !.args = [k \in DOMAIN s |-> T(s[k])]]
    <3>1. ReplaceUses(z, i, v) = [z EXCEPT !.args = [k \in DOMAIN z.args |->
                      IF z.args[k] = UseOp(i) THEN ConstOp(v) ELSE z.args[k]]]
      BY DEF ReplaceUses
    <3> HIDE DEF s, z
    <3> QED BY <2>4, <3>1
  <2>6. [k \in DOMAIN s |-> T(s[k])] = [k \in DOMAIN y.args |-> SubstBy(rr, y.args[k])]
    <3>1. \A k \in DOMAIN y.args : T(s[k]) = SubstBy(rr, y.args[k])
      <4> HIDE DEF T, rr, y
      <4> QED BY <2>2, <2>3
    <3> HIDE DEF T, rr, y, s
    <3> QED BY <2>4, <3>1
  <2> DEFINE t == [k \in DOMAIN y.args |-> SubstBy(rr, y.args[k])]
  <2>7. ReplaceUses(z, i, v) = [z EXCEPT !.args = t]
    BY <2>5, <2>6
  <2>8. [z EXCEPT !.args = t] = [y EXCEPT !.args = t]
    <3> HIDE DEF t, s
    <3> QED BY <2>1
  <2> QED BY <2>7, <2>8 DEF SubstitutedBy
<1>7. Rewrite(c, i, v) = [j \in D \ {i} |-> SubstitutedBy(rr, g[j])]
  <2>1. \A j \in D \ {i} : ReplaceUses(c[j], i, v) = SubstitutedBy(rr, g[j])
    BY <1>4, <1>6
  <2> HIDE DEF c, D, rr
  <2> QED BY <1>3, <1>4, <2>1
<1>8. Rewrite(c, i, v) = RewrittenBy(g, rr)
  <2> HIDE DEF c, D, rr
  <2> QED BY <1>5, <1>7 DEF RewrittenBy
<1> QED BY <1>1, <1>2, <1>8

(* Rewriting keeps a function closed.                                        *)
LEMMA RewrittenClosed ==
  ASSUME NEW g \in Code, NEW r \in Repl, Closed(g)
  PROVE  Closed(RewrittenBy(g, r))
<1> DEFINE c == RewrittenBy(g, r)
<1> SUFFICES ASSUME NEW j \in DOMAIN c, NEW u \in Uses(c[j]) PROVE u \in DOMAIN c
  BY DEF Closed
<1>1. j \in DOMAIN g /\ c[j] = SubstitutedBy(r, g[j])
  BY DEF RewrittenBy
<1>2. g[j] \in Instruction
  BY <1>1, CodeFacts
<1>3. /\ DOMAIN c[j].args = DOMAIN g[j].args
      /\ \A k \in DOMAIN g[j].args : c[j].args[k] = SubstBy(r, g[j].args[k])
  <2> HIDE DEF c
  <2> QED BY <1>1, <1>2, SubstitutedInstruction
<1>4. PICK k \in DOMAIN g[j].args : SubstBy(r, g[j].args[k]).tag = "ins"
                                  /\ SubstBy(r, g[j].args[k]).val = u
  <2> HIDE DEF c
  <2> QED BY <1>3 DEF Uses
<1> DEFINE o == g[j].args[k]
<1>5. o.tag = "ins" /\ r[o.val] = None /\ o.val = u
  <2> HIDE DEF o
  <2> QED BY <1>4 DEF SubstBy, ConstOp, o
<1>6. u \in Uses(g[j])
  BY <1>5 DEF Uses
<1>7. u \in DOMAIN g
  BY <1>1, <1>6 DEF Closed
<1> QED BY <1>5, <1>7 DEF RewrittenBy

(* The reference's next replacement is what it folds the operator to.        *)
LEMMA JustifiedStep ==
  ASSUME NEW g \in Code, NEW r \in Repl, JustifiedBy(g, r),
         NEW i \in DOMAIN RewrittenBy(g, r), NEW v \in Value,
         BothConstant(RewrittenBy(g, r)[i]),
         v = SolutionFolds(RewrittenBy(g, r)[i].op, RewrittenBy(g, r)[i].args[1].val,
                           RewrittenBy(g, r)[i].args[2].val)
  PROVE  JustifiedBy(g, [r EXCEPT ![i] = v]) /\ Within(r, [r EXCEPT ![i] = v])
<1> DEFINE rr == [r EXCEPT ![i] = v]
<1>1. rr \in Repl /\ r[i] = None /\ i \in Ins /\ i \in DOMAIN g
  BY RewriteStep DEF RewrittenBy
<1>2. \A j \in Ins : rr[j] = IF j = i THEN v ELSE r[j]
  BY DEF Repl
<1>3. Within(r, rr)
  BY <1>1, <1>2 DEF Within
<1>4. RewrittenBy(g, r)[i] = SubstitutedBy(r, g[i])
  BY DEF RewrittenBy
<1>5. \A j \in DOMAIN g : j \in Ins /\ g[j] \in Instruction
  BY CodeFacts
<1>6. JustifiedBy(g, rr)
  <2> SUFFICES ASSUME NEW j \in DOMAIN g, rr[j] # None
               PROVE  LET z == SubstitutedBy(rr, g[j])
                      IN  BothConstant(z) /\ rr[j] = SolutionFolds(z.op, z.args[1].val, z.args[2].val)
    BY DEF JustifiedBy
  <2> DEFINE x == SubstitutedBy(r, g[j])
             z == SubstitutedBy(rr, g[j])
  <2> HIDE DEF rr
  <2>1. BothConstant(x) /\ rr[j] = SolutionFolds(x.op, x.args[1].val, x.args[2].val)
    <3>1. CASE j = i
      BY <1>2, <1>4, <1>5, <3>1
    <3>2. CASE j # i
      BY <1>2, <1>5, <3>2 DEF JustifiedBy
    <3> QED BY <3>1, <3>2
  <2>2. BothConstant(z) /\ z.op = x.op /\ z.args[1] = x.args[1] /\ z.args[2] = x.args[2]
    BY <1>1, <1>3, <1>5, <2>1, SameOperands
  <2> QED BY <2>1, <2>2
<1> QED BY <1>3, <1>6

(* When the reference is done, what the reader folds the reference has       *)
(* folded, to the same value.                                                *)
LEMMA Agreement ==
  ASSUME NEW g \in Code, NEW q \in Repl, NEW r \in Repl, Within(q, r), JustifiedBy(g, r),
         Foldable(RewrittenBy(g, r), SolutionFolds) = {},
         NEW i \in DOMAIN RewrittenBy(g, q), NEW v,
         BothConstant(RewrittenBy(g, q)[i]), v # None,
         v = SolutionFolds(RewrittenBy(g, q)[i].op, RewrittenBy(g, q)[i].args[1].val,
                           RewrittenBy(g, q)[i].args[2].val)
  PROVE  r[i] = v
<1> DEFINE x == SubstitutedBy(q, g[i])
           z == SubstitutedBy(r, g[i])
<1>1. RewrittenBy(g, q)[i] = x /\ i \in DOMAIN g
  BY DEF RewrittenBy
<1>2. g[i] \in Instruction
  BY <1>1, CodeFacts
<1>3. BothConstant(z) /\ z.op = x.op /\ z.args[1] = x.args[1] /\ z.args[2] = x.args[2]
  BY <1>1, <1>2, SameOperands
<1>4. v = SolutionFolds(z.op, z.args[1].val, z.args[2].val)
  BY <1>1, <1>3
<1>5. r[i] # None
  <2> SUFFICES ASSUME r[i] = None PROVE FALSE
    OBVIOUS
  <2>1. i \in DOMAIN RewrittenBy(g, r) /\ RewrittenBy(g, r)[i] = z
    BY <1>1 DEF RewrittenBy
  <2>2. i \in Foldable(RewrittenBy(g, r), SolutionFolds)
    <3> HIDE DEF z
    <3> QED BY <1>3, <1>4, <2>1 DEF Foldable
  <2> QED BY <2>2
<1> QED BY <1>1, <1>4, <1>5 DEF JustifiedBy

(***************************************************************************)
(* The invariants                                                          *)
(***************************************************************************)
Counted == /\ worklist = [n \in DOMAIN module |-> n]
           /\ cur <= Len(module)
           /\ Len(funcs) = Len(module) + cur

CountInv ==
  /\ module \in Modules /\ funcs \in Seq(Code) /\ cur \in Nat
  /\ pc \in {"build", "next", "solution", "mine", "exited"}
  /\ vmap \in [Key -> Key \cup {None}]
  /\ pc = "build" => funcs = <<>> /\ cur = 0
  /\ module = None => pc \in {"build", "exited"} /\ funcs = <<>>
  /\ module # None /\ pc # "build" => Counted
  /\ pc \in {"solution", "mine"} => cur > 0

\* in VMap, a constant stands for itself
ConstKeys == \A v \in Value : vmap[ConstOp(v)] \in {None, ConstOp(v)}

\* functions not yet begun are as they were read
Pending == module # None /\ pc # "build" =>
             \A n \in DOMAIN module : n > cur => funcs[n] = module[n]

\* the clone as the reference has rewritten it, and VMap with it
Followed(r) == /\ funcs[Clone] = RewrittenBy(given, r)
               /\ JustifiedBy(given, r)

OnSolution ==
  pc = "solution" =>
    /\ given = module[cur] /\ funcs[cur] = given
    /\ \E r \in Repl : /\ Followed(r)
                       /\ \A i \in DOMAIN given : vmap[UseOp(i)] = Entry(r, i)

OnMine ==
  pc = "mine" =>
    /\ given = module[cur] /\ Foldable(funcs[Clone], SolutionFolds) = {}
    /\ \E r, q \in Repl :
         /\ Followed(r) /\ Within(q, r)
         /\ funcs[cur] = RewrittenBy(given, q)
         /\ \A i \in DOMAIN given : q[i] = None => vmap[UseOp(i)] = Entry(r, i)

NoAlarm == ~hadError /\ status # 1

HarnessInv == CountInv /\ ConstKeys /\ Pending /\ OnSolution /\ OnMine /\ NoAlarm

(* What the assumption says of the module that was read.                     *)
LEMMA ModuleFacts ==
  ASSUME NEW m \in Modules, m # None
  PROVE  m \in Seq(Code) /\ \A n \in DOMAIN m : Closed(m[n])
<1>1. m \in Seq({ m[n] : n \in DOMAIN m })
  BY ModulesAssumption
<1>2. \A n \in DOMAIN m : m[n] \in Code /\ Closed(m[n])
  <2> SUFFICES ASSUME NEW n \in DOMAIN m PROVE m[n] \in Code /\ Closed(m[n])
    OBVIOUS
  <2>1. m[n] = [i \in DOMAIN m[n] |-> m[n][i]] /\ IsCode(m[n]) /\ Closed(m[n])
    BY ModulesAssumption
  <2>2. m[n] \in [DOMAIN m[n] -> Instruction] /\ DOMAIN m[n] \subseteq Ins
    BY <2>1 DEF IsCode
  <2> QED BY <2>1, <2>2 DEF Code
<1> QED BY <1>1, <1>2

LEMMA RewrittenCode ==
  ASSUME NEW g \in Code, NEW r \in Repl
  PROVE  RewrittenBy(g, r) \in Code
<1> DEFINE D == { j \in DOMAIN g : r[j] = None }
<1>1. D \subseteq Ins /\ \A j \in D : g[j] \in Instruction
  BY CodeFacts
<1>2. \A j \in D : SubstitutedBy(r, g[j]) \in Instruction
  BY <1>1, SubstitutedInstruction
<1>3. RewrittenBy(g, r) \in [D -> Instruction]
  <2> HIDE DEF D
  <2>1. RewrittenBy(g, r) = [i \in D |-> SubstitutedBy(r, g[i])]
    BY DEF RewrittenBy, D
  <2> QED BY <1>2, <2>1
<1> QED BY <1>1, <1>3 DEF Code

(* A replacement leaves code.                                                *)
LEMMA RewriteCode ==
  ASSUME NEW g \in Code, NEW i \in DOMAIN g, NEW v \in Value
  PROVE  Rewrite(g, i, v) \in Code
<1> DEFINE r == [j \in Ins |-> None]
<1>1. r \in Repl /\ \A j \in Ins : r[j] = None
  BY DEF Repl
<1> HIDE DEF r
<1>2. RewrittenBy(g, r) = g
  BY <1>1, RewrittenByNothing
<1>3. /\ [r EXCEPT ![i] = v] \in Repl
      /\ Rewrite(g, i, v) = RewrittenBy(g, [r EXCEPT ![i] = v])
  BY <1>1, <1>2, RewriteStep
<1> QED BY <1>3, RewrittenCode

(* What CloneFunction makes of a function.                                   *)
LEMMA ClonedCode ==
  ASSUME NEW c \in Code, vmap \in [Key -> Key \cup {None}]
  PROVE  Cloned(c) \in Code /\ (ConstKeys => Cloned(c) = c)
<1>1. /\ DOMAIN c \subseteq Ins /\ c = [i \in DOMAIN c |-> c[i]]
      /\ \A i \in DOMAIN c : c[i] \in Instruction
  BY CodeFacts
<1>2. \A o \in Operand : MapOperand(o) \in Operand /\ (ConstKeys => MapOperand(o) = o)
  <2> SUFFICES ASSUME NEW o \in Operand, o.tag = "const", vmap[o] # None
               PROVE  vmap[o] \in Operand /\ (ConstKeys => vmap[o] = o)
    BY DEF MapOperand
  <2>1. o.val \in Value /\ o = ConstOp(o.val)
    BY DEF Operand, ConstOp
  <2>2. o \in Key
    BY <2>1 DEF Key, ConstOp
  <2>3. vmap[o] \in Key
    BY <2>2
  <2>4. vmap[o] \in Operand
    BY <2>3 DEF Key, Operand
  <2>5. ConstKeys => vmap[o] = o
    BY <2>1 DEF ConstKeys
  <2> QED BY <2>4, <2>5
<1> DEFINE M(y) == [y EXCEPT !.args = [k \in DOMAIN y.args |-> MapOperand(y.args[k])]]
<1>3. \A y \in Instruction : M(y) \in Instruction /\ (ConstKeys => M(y) = y)
  <2> SUFFICES ASSUME NEW y \in Instruction
               PROVE  M(y) \in Instruction /\ (ConstKeys => M(y) = y)
    OBVIOUS
  <2> DEFINE s == [k \in DOMAIN y.args |-> MapOperand(y.args[k])]
  <2>1. y \in [op : Opcode, nsw : BOOLEAN, args : Seq(Operand), bbs : Seq(Block)]
    BY DEF Instruction
  <2>2. y.args \in Seq(Operand) /\ DOMAIN y.args = 1 .. Len(y.args) /\ Len(y.args) \in Nat
    BY <2>1
  <2>3. \A k \in DOMAIN y.args : y.args[k] \in Operand
    BY <2>2
  <2>4. s \in [1 .. Len(y.args) -> Operand]
    BY <1>2, <2>2, <2>3
  <2>5. s \in Seq(Operand) /\ Len(s) = Len(y.args)
    BY <2>2, <2>4
  <2>6. [y EXCEPT !.args = s] \in Instruction
    <3> HIDE DEF s
    <3> QED BY <2>1, <2>5 DEF Instruction
  <2>7. ConstKeys => s = y.args
    <3> SUFFICES ASSUME ConstKeys PROVE s = y.args
      OBVIOUS
    <3>1. \A k \in DOMAIN y.args : MapOperand(y.args[k]) = y.args[k]
      BY <1>2, <2>3
    <3> QED BY <2>2, <3>1
  <2>8. [y EXCEPT !.args = y.args] = y
    BY <2>1
  <2> QED BY <2>6, <2>7, <2>8
<1>4. Cloned(c) = [i \in DOMAIN c |-> M(c[i])]
  BY DEF Cloned
<1> HIDE DEF M
<1>5. Cloned(c) \in [DOMAIN c -> Instruction]
  BY <1>1, <1>3, <1>4
<1>6. ConstKeys => Cloned(c) = c
  BY <1>1, <1>3, <1>4
<1> QED BY <1>1, <1>5, <1>6 DEF Code

LEMMA SolutionFolded ==
  ASSUME NEW c, NEW i \in Foldable(c, SolutionFolds)
  PROVE  /\ i \in DOMAIN c /\ BothConstant(c[i])
         /\ SolutionFolds(c[i].op, c[i].args[1].val, c[i].args[2].val) \in Value
<1>1. /\ i \in DOMAIN c /\ BothConstant(c[i])
      /\ SolutionFolds(c[i].op, c[i].args[1].val, c[i].args[2].val) # None
  BY DEF Foldable
<1>2. c[i].op \in BinaryOperator /\ c[i].args[1].val \in Word /\ c[i].args[2].val \in Word
  BY <1>1 DEF BothConstant
<1> QED BY <1>1, <1>2, FoldsAssumption

LEMMA MineFolded ==
  ASSUME NEW c, NEW i \in Foldable(c, MineFolds)
  PROVE  /\ i \in DOMAIN c /\ BothConstant(c[i])
         /\ MineFolds(c[i].op, c[i].args[1].val, c[i].args[2].val) \in Value
         /\ c[i].op \in BinaryOperator
         /\ c[i].args[1].val \in Word /\ c[i].args[2].val \in Word
<1>1. /\ i \in DOMAIN c /\ BothConstant(c[i])
      /\ MineFolds(c[i].op, c[i].args[1].val, c[i].args[2].val) # None
  BY DEF Foldable
<1>2. c[i].op \in BinaryOperator /\ c[i].args[1].val \in Word /\ c[i].args[2].val \in Word
  BY <1>1 DEF BothConstant
<1> QED BY <1>1, <1>2, FoldsAssumption

(* The positions of the function and of its clone.                           *)
LEMMA Positions ==
  ASSUME CountInv, pc \in {"solution", "mine"}
  PROVE  /\ module # None /\ module \in Seq(Code) /\ Counted
         /\ cur \in DOMAIN module /\ Func = cur
         /\ cur \in DOMAIN funcs /\ Clone \in DOMAIN funcs /\ Clone > Len(module)
         /\ DOMAIN module = 1 .. Len(module) /\ Len(module) \in Nat
         /\ DOMAIN funcs = 1 .. Len(funcs)
         /\ funcs[Clone] \in Code /\ funcs[cur] \in Code
<1>1. module # None /\ module \in Seq(Code) /\ Counted
  BY ModuleFacts DEF CountInv
<1>2. cur \in Nat /\ cur > 0 /\ funcs \in Seq(Code)
  BY DEF CountInv
<1>3. DOMAIN module = 1 .. Len(module) /\ Len(module) \in Nat
  BY <1>1
<1>4. DOMAIN funcs = 1 .. Len(funcs) /\ Len(funcs) = Len(module) + cur
  BY <1>1, <1>2 DEF Counted
<1>5. cur \in DOMAIN module
  BY <1>1, <1>2, <1>3 DEF Counted
<1>6. Func = cur
  BY <1>1, <1>5 DEF Counted, Func
<1>7. Clone \in DOMAIN funcs /\ cur \in DOMAIN funcs /\ Clone > Len(module)
  BY <1>2, <1>3, <1>4, <1>5 DEF Clone
<1> QED BY <1>1, <1>2, <1>3, <1>4, <1>5, <1>6, <1>7

LEMMA CountStep == CountInv /\ [Next]_vars => CountInv'
<1> SUFFICES ASSUME CountInv, [Next]_vars PROVE CountInv'
  OBVIOUS
<1> USE DEF CountInv
<1>1. CASE Unbuilt
  BY <1>1 DEF Unbuilt
<1>2. CASE Build
  <2>1. module \in Seq(Code) /\ cur = 0
    BY <1>2, ModuleFacts DEF Build
  <2>2. Counted'
    BY <1>2, <2>1 DEF Build, Counted
  <2> QED BY <1>2, <2>1, <2>2 DEF Build
<1>3. CASE CloneFunction
  <2>1. /\ module # None /\ Counted /\ module \in Seq(Code) /\ Len(worklist) = Len(module)
        /\ cur < Len(module) /\ cur' = cur + 1
    <3>1. module # None /\ Counted
      BY <1>3 DEF CloneFunction
    <3>2. module \in Seq(Code)
      BY <3>1, ModuleFacts
    <3>3. Len(worklist) = Len(module)
      BY <3>1, <3>2 DEF Counted
    <3> QED BY <1>3, <3>1, <3>2, <3>3 DEF CloneFunction
  <2>2. cur' \in DOMAIN funcs /\ worklist[cur'] = cur'
    BY <2>1 DEF Counted
  <2>3. funcs[cur'] \in Code
    BY <2>2
  <2>4. Cloned(funcs[cur']) \in Code
    BY <2>3, ClonedCode
  <2>5. funcs' = Append(funcs, Cloned(funcs[cur']))
    BY <1>3, <2>2 DEF CloneFunction
  <2>6. funcs' \in Seq(Code) /\ Len(funcs') = Len(funcs) + 1
    BY <2>4, <2>5
  <2>7. vmap' \in [Key -> Key \cup {None}]
    <3>1. vmap' = Mapped(funcs[cur'])
      BY <1>3, <2>2 DEF CloneFunction
    <3> QED BY <3>1 DEF Mapped
  <2>8. module' = module /\ worklist' = worklist /\ pc' = "solution"
    BY <1>3 DEF CloneFunction
  <2>9. Counted'
    BY <2>1, <2>6, <2>8 DEF Counted
  <2> QED BY <2>1, <2>6, <2>7, <2>8, <2>9
<1>4. CASE SolutionFold
  <2>1. PICK i \in Foldable(funcs[Clone], SolutionFolds) :
          LET x == funcs[Clone][i]
              v == SolutionFolds(x.op, x.args[1].val, x.args[2].val)
          IN  /\ funcs' = [funcs EXCEPT ![Clone] = Rewrite(funcs[Clone], i, v)]
              /\ vmap' = [key \in Key |-> IF vmap[key] = UseOp(i) THEN ConstOp(v) ELSE vmap[key]]
    BY <1>4 DEF SolutionFold
  <2> DEFINE x == funcs[Clone][i]
             v == SolutionFolds(x.op, x.args[1].val, x.args[2].val)
  <2>2. i \in DOMAIN funcs[Clone] /\ v \in Value
    BY SolutionFolded
  <2> HIDE DEF v
  <2>3. pc = "solution" /\ Clone \in DOMAIN funcs /\ funcs[Clone] \in Code
    BY <1>4, Positions DEF SolutionFold
  <2>4. Rewrite(funcs[Clone], i, v) \in Code
    BY <2>2, <2>3, RewriteCode
  <2>5. funcs' = [funcs EXCEPT ![Clone] = Rewrite(funcs[Clone], i, v)]
    BY <2>1 DEF v
  <2>6. funcs' \in Seq(Code) /\ Len(funcs') = Len(funcs)
    BY <2>3, <2>4, <2>5
  <2>7. ConstOp(v) \in Key
    BY <2>2 DEF ConstOp, Key
  <2>8. vmap' \in [Key -> Key \cup {None}]
    <3>1. vmap' = [key \in Key |-> IF vmap[key] = UseOp(i) THEN ConstOp(v) ELSE vmap[key]]
      BY <2>1 DEF v
    <3> QED BY <2>7, <3>1
  <2>9. UNCHANGED <<module, worklist, cur, pc>>
    BY <1>4 DEF SolutionFold
  <2> QED BY <2>3, <2>6, <2>8, <2>9 DEF Counted
<1>5. CASE SolutionDone
  BY <1>5 DEF SolutionDone, Counted
<1>6. CASE MineFold
  <2>1. PICK i \in Foldable(funcs[Func], MineFolds) :
          LET x == funcs[Func][i]
              v == MineFolds(x.op, x.args[1].val, x.args[2].val)
              moved == IF vmap[ConstOp(v)] = None THEN vmap[UseOp(i)] ELSE vmap[ConstOp(v)]
          IN  /\ funcs' = [funcs EXCEPT ![Func] = Rewrite(funcs[Func], i, v)]
              /\ vmap' = [vmap EXCEPT ![ConstOp(v)] = moved, ![UseOp(i)] = None]
    BY <1>6 DEF MineFold
  <2> DEFINE x == funcs[Func][i]
             v == MineFolds(x.op, x.args[1].val, x.args[2].val)
             moved == IF vmap[ConstOp(v)] = None THEN vmap[UseOp(i)] ELSE vmap[ConstOp(v)]
  <2>2. i \in DOMAIN funcs[Func] /\ v \in Value
    BY MineFolded
  <2> HIDE DEF v
  <2>3. pc = "mine" /\ Func = cur /\ cur \in DOMAIN funcs /\ funcs[cur] \in Code
    BY <1>6, Positions DEF MineFold
  <2>4. Rewrite(funcs[cur], i, v) \in Code /\ i \in Ins
    BY <2>2, <2>3, RewriteCode, CodeFacts
  <2>5. funcs' = [funcs EXCEPT ![cur] = Rewrite(funcs[cur], i, v)]
    BY <2>1, <2>3 DEF v
  <2>6. funcs' \in Seq(Code) /\ Len(funcs') = Len(funcs)
    BY <2>3, <2>4, <2>5
  <2>7. ConstOp(v) \in Key /\ UseOp(i) \in Key
    BY <2>2, <2>4 DEF ConstOp, UseOp, Key
  <2>8. vmap' \in [Key -> Key \cup {None}]
    <3>1. vmap' = [vmap EXCEPT ![ConstOp(v)] = moved, ![UseOp(i)] = None]
      BY <2>1 DEF v
    <3>2. moved \in Key \cup {None}
      BY <2>7
    <3> HIDE DEF moved
    <3> QED BY <3>1, <3>2
  <2>9. UNCHANGED <<module, worklist, cur, pc>>
    BY <1>6 DEF MineFold
  <2> QED BY <2>3, <2>6, <2>8, <2>9 DEF Counted
<1>7. CASE Report
  BY <1>7 DEF Report, Counted
<1>8. CASE Return
  BY <1>8 DEF Return, Counted
<1>9. CASE UNCHANGED vars
  BY <1>9 DEF vars, Counted
<1> QED BY <1>1, <1>2, <1>3, <1>4, <1>5, <1>6, <1>7, <1>8, <1>9 DEF Next, Exited

LEMMA CountInit == Init => CountInv
BY DEF Init, CountInv

(* However the folds are made, every function read has one clone and a clone *)
(* has none (main.cpp:88-92).                                                *)
THEOREM ClonesNotClonedHolds == Spec => []ClonesNotCloned
<1>1. CountInv => ClonesNotCloned
  <2> SUFFICES ASSUME CountInv, module # None, funcs # <<>>
               PROVE  /\ Len(funcs) = Len(module) + cur
                      /\ \A n \in 1 .. cur : worklist[n] \in DOMAIN module
    BY DEF ClonesNotCloned
  <2>1. Counted /\ module \in Seq(Code) /\ cur \in Nat
    BY ModuleFacts DEF CountInv
  <2> QED BY <2>1 DEF Counted
<1> QED BY <1>1, CountInit, CountStep, PTL DEF Spec

(* Both results verify: a rewritten closed function is closed.               *)
LEMMA BothVerify ==
  ASSUME CountInv, OnMine, pc = "mine"
  PROVE  Verifies(funcs[Clone]) /\ Verifies(funcs[Func])
<1>1. module # None /\ cur \in DOMAIN module /\ Func = cur /\ module \in Seq(Code)
  BY Positions
<1>2. PICK r \in Repl, q \in Repl :
        funcs[Clone] = RewrittenBy(given, r) /\ funcs[cur] = RewrittenBy(given, q)
  BY DEF OnMine, Followed
<1>3. given \in Code /\ Closed(given)
  <2>1. module \in Modules
    BY DEF CountInv
  <2> QED BY <1>1, <2>1, ModuleFacts DEF OnMine
<1> QED BY <1>1, <1>2, <1>3, RewrittenClosed DEF Verifies

LEMMA HarnessInit == Init => HarnessInv
<1> SUFFICES ASSUME Init PROVE HarnessInv
  OBVIOUS
<1>1. CountInv
  BY CountInit
<1>2. ConstKeys
  BY DEF Init, ConstKeys, ConstOp, Key
<1>3. NoAlarm
  BY NoneAssumption DEF Init, NoAlarm
<1> QED BY <1>1, <1>2, <1>3 DEF Init, HarnessInv, Pending, OnSolution, OnMine

(* CloneFunction gives the reference the function as it was read.            *)
LEMMA CloneFunctionStep == HarnessInv /\ CloneFunction => HarnessInv'
<1> SUFFICES ASSUME HarnessInv, CloneFunction PROVE HarnessInv'
  OBVIOUS
<1> USE DEF HarnessInv
<1>1. CountInv'
  BY CountStep DEF Next
<1>2. /\ module # None /\ Counted /\ module \in Seq(Code) /\ pc = "next"
      /\ cur < Len(module) /\ cur' = cur + 1 /\ cur \in Nat /\ funcs \in Seq(Code)
  <2>1. module # None /\ Counted /\ module \in Seq(Code)
    BY ModuleFacts DEF CountInv, CloneFunction
  <2>2. Len(worklist) = Len(module)
    BY <2>1 DEF Counted
  <2> QED BY <2>1, <2>2 DEF CloneFunction, CountInv
<1>3. worklist[cur'] = cur' /\ cur' \in DOMAIN module /\ cur' \in DOMAIN funcs
  BY <1>2 DEF Counted
<1> DEFINE c == funcs[cur']
<1>4. c = module[cur'] /\ c \in Code
  BY <1>2, <1>3 DEF Pending
<1>5. Cloned(c) = c
  BY <1>4, ClonedCode DEF CountInv
<1>6. funcs' = Append(funcs, c) /\ given' = c
  BY <1>3, <1>5 DEF CloneFunction
<1>7. /\ \A key \in Key : vmap'[key] \in {key, vmap[key]}
      /\ \A key \in Key : key.tag = "ins" => vmap'[key] = IF key.val \in DOMAIN c THEN key ELSE vmap[key]
  <2>1. vmap' = Mapped(c)
    BY <1>3 DEF CloneFunction
  <2>2. \A key \in Constants(c) : key.tag # "ins"
    BY DEF Constants
  <2> HIDE DEF c
  <2> QED BY <2>1, <2>2 DEF Mapped
<1>8. UNCHANGED <<module, worklist, hadError, status>> /\ pc' = "solution"
  BY DEF CloneFunction
<1>9. /\ \A n \in DOMAIN funcs : funcs'[n] = funcs[n]
      /\ funcs'[Len(funcs')] = c
  BY <1>2, <1>4, <1>6
<1> HIDE DEF c
<1>10. ConstKeys'
  <2> SUFFICES ASSUME NEW v \in Value PROVE vmap'[ConstOp(v)] \in {None, ConstOp(v)}
    BY DEF ConstKeys
  <2>1. ConstOp(v) \in Key /\ ConstOp(v).tag = "const"
    BY DEF ConstOp, Key
  <2>2. vmap'[ConstOp(v)] \in {ConstOp(v), vmap[ConstOp(v)]}
    BY <1>7, <2>1
  <2> QED BY <2>2 DEF ConstKeys
<1>11. Pending'
  <2> SUFFICES ASSUME NEW n \in DOMAIN module, n > cur' PROVE funcs'[n] = module[n]
    BY <1>8 DEF Pending
  <2>1. n \in DOMAIN funcs /\ n > cur
    BY <1>2 DEF Counted
  <2>2. funcs[n] = module[n]
    BY <1>2, <2>1 DEF Pending
  <2> QED BY <1>9, <2>1, <2>2
<1>12. OnSolution'
  <2> DEFINE r == [i \in Ins |-> None]
  <2>1. r \in Repl /\ \A i \in Ins : r[i] = None
    BY DEF Repl
  <2>2. \A i \in DOMAIN c : i \in Ins
    BY <1>4, CodeFacts
  <2> HIDE DEF r
  <2>3. RewrittenBy(c, r) = c
    BY <1>4, <2>1, RewrittenByNothing
  <2>4. funcs'[Len(funcs')] = RewrittenBy(given', r) /\ JustifiedBy(given', r)
    BY <1>6, <1>9, <2>1, <2>2, <2>3 DEF JustifiedBy
  <2>5. \A i \in DOMAIN c : vmap'[UseOp(i)] = Entry(r, i)
    <3> SUFFICES ASSUME NEW i \in DOMAIN c PROVE vmap'[UseOp(i)] = Entry(r, i)
      OBVIOUS
    <3>1. UseOp(i) \in Key /\ UseOp(i).tag = "ins" /\ UseOp(i).val = i
      BY <2>2 DEF UseOp, Key
    <3>2. vmap'[UseOp(i)] = UseOp(i)
      BY <1>7, <3>1
    <3> QED BY <2>1, <2>2, <3>2 DEF Entry
  <2>6. given' = module'[cur'] /\ funcs'[cur'] = given'
    BY <1>3, <1>4, <1>6, <1>8, <1>9 DEF c
  <2> QED BY <1>6, <2>1, <2>4, <2>5, <2>6 DEF OnSolution, Followed, Clone
<1>13. OnMine' /\ NoAlarm'
  BY <1>8 DEF OnMine, NoAlarm
<1> QED BY <1>1, <1>10, <1>11, <1>12, <1>13

(* A fold of the reference, followed by VMap.                                *)
LEMMA SolutionFoldStep == HarnessInv /\ SolutionFold => HarnessInv'
<1> SUFFICES ASSUME HarnessInv,  SolutionFold PROVE HarnessInv'
  OBVIOUS
<1> USE DEF HarnessInv
<1>1. CountInv'
  BY CountStep DEF Next
<1>2. PICK i \in Foldable(funcs[Clone], SolutionFolds) :
        LET x == funcs[Clone][i]
            v == SolutionFolds(x.op, x.args[1].val, x.args[2].val)
        IN  /\ funcs' = [funcs EXCEPT ![Clone] = Rewrite(funcs[Clone], i, v)]
            /\ vmap' = [key \in Key |-> IF vmap[key] = UseOp(i) THEN ConstOp(v) ELSE vmap[key]]
  BY DEF SolutionFold
<1> DEFINE x == funcs[Clone][i]
           v == SolutionFolds(x.op, x.args[1].val, x.args[2].val)
<1>3. i \in DOMAIN funcs[Clone] /\ BothConstant(x) /\ v \in Value
  BY SolutionFolded
<1>4. /\ funcs' = [funcs EXCEPT ![Clone] = Rewrite(funcs[Clone], i, v)]
      /\ vmap' = [key \in Key |-> IF vmap[key] = UseOp(i) THEN ConstOp(v) ELSE vmap[key]]
  BY <1>2
<1>5. /\ pc = "solution" /\ UNCHANGED <<module, worklist, cur, given, hadError, status, pc>>
      /\ Clone \in DOMAIN funcs /\ cur \in DOMAIN module /\ cur \in DOMAIN funcs
      /\ Clone > Len(module) /\ funcs \in Seq(Code) /\ module \in Seq(Code) /\ cur # Clone
      /\ Clone' = Clone
  <2>1. /\ pc = "solution" /\ UNCHANGED <<module, worklist, cur, given, hadError, status, pc>>
    BY DEF SolutionFold
  <2>2. /\ Clone \in DOMAIN funcs /\ cur \in DOMAIN module /\ cur \in DOMAIN funcs
        /\ Clone > Len(module) /\ module \in Seq(Code) /\ funcs \in Seq(Code)
    BY <2>1, Positions DEF CountInv
  <2>3. cur # Clone
    BY <2>2
  <2>4. Len(funcs') = Len(funcs)
    BY <1>4, <2>2
  <2> QED BY <2>1, <2>2, <2>3, <2>4 DEF Clone
<1>6. PICK r \in Repl : Followed(r) /\ \A j \in DOMAIN given : vmap[UseOp(j)] = Entry(r, j)
  BY <1>5 DEF OnSolution
<1>7. given = module[cur] /\ funcs[cur] = given /\ given \in Code
  BY <1>5 DEF OnSolution
<1> DEFINE rr == [r EXCEPT ![i] = v]
<1>8. funcs[Clone] = RewrittenBy(given, r) /\ JustifiedBy(given, r)
  BY <1>6 DEF Followed
<1> HIDE DEF v
<1>9. /\ rr \in Repl /\ r[i] = None /\ i \in Ins
      /\ Rewrite(funcs[Clone], i, v) = RewrittenBy(given, rr)
  BY <1>3, <1>7, <1>8, RewriteStep
<1>10. JustifiedBy(given, rr)
  BY <1>3, <1>7, <1>8, JustifiedStep DEF v
<1>11. /\ \A n \in DOMAIN funcs : n # Clone => funcs'[n] = funcs[n]
       /\ funcs'[Clone] = RewrittenBy(given, rr)
  <2> HIDE DEF rr
  <2> QED BY <1>4, <1>5, <1>9
<1>12. \A j \in DOMAIN given : vmap'[UseOp(j)] = Entry(rr, j)
  <2> SUFFICES ASSUME NEW j \in DOMAIN given PROVE vmap'[UseOp(j)] = Entry(rr, j)
    OBVIOUS
  <2>1. j \in Ins
    BY <1>7, CodeFacts
  <2>2. UseOp(j) \in Key
    BY <2>1 DEF UseOp, Key
  <2>3. vmap'[UseOp(j)] = IF Entry(r, j) = UseOp(i) THEN ConstOp(v) ELSE Entry(r, j)
    BY <1>4, <1>6, <2>2
  <2>4. rr[j] = IF j = i THEN v ELSE r[j]
    BY <1>9, <2>1 DEF Repl
  <2>5. v # None
    BY <1>3, SpecialValues
  <2> HIDE DEF rr
  <2>6. CASE j = i
    BY <1>9, <2>3, <2>4, <2>5, <2>6 DEF Entry
  <2>7. CASE j # i
    <3>1. Entry(r, j) # UseOp(i)
      BY <2>7 DEF Entry, UseOp, ConstOp
    <3> QED BY <2>3, <2>4, <2>7, <3>1 DEF Entry
  <2> QED BY <2>6, <2>7
<1>13. OnSolution'
  <2> HIDE DEF rr
  <2>1. funcs'[cur] = given
    BY <1>5, <1>7, <1>11
  <2>2. funcs'[Clone'] = RewrittenBy(given', rr) /\ JustifiedBy(given', rr)
    BY <1>5, <1>10, <1>11
  <2>3. given' = module'[cur'] /\ funcs'[cur'] = given'
    BY <1>5, <1>7, <2>1
  <2>4. \A j \in DOMAIN given' : vmap'[UseOp(j)] = Entry(rr, j)
    BY <1>5, <1>12
  <2> QED BY <1>9, <2>2, <2>3, <2>4 DEF OnSolution, Followed
<1>14. ConstKeys'
  <2> SUFFICES ASSUME NEW w \in Value PROVE vmap'[ConstOp(w)] \in {None, ConstOp(w)}
    BY DEF ConstKeys
  <2>1. ConstOp(w) \in Key /\ ConstOp(w) # UseOp(i)
    BY DEF ConstOp, UseOp, Key
  <2>2. vmap[ConstOp(w)] \in {None, ConstOp(w)}
    BY DEF ConstKeys
  <2>3. UseOp(i) # None
    BY <1>9, NoneAssumption DEF UseOp, Key
  <2> QED BY <1>4, <2>1, <2>2, <2>3
<1>15. Pending'
  <2> SUFFICES ASSUME module # None, NEW n \in DOMAIN module, n > cur PROVE funcs'[n] = module[n]
    BY <1>5 DEF Pending
  <2>1. n \in DOMAIN funcs /\ n # Clone
    <3>1. Counted
      BY <1>5, Positions
    <3>2. cur \in Nat
      BY DEF CountInv
    <3> QED BY <1>5, <3>1, <3>2 DEF Counted
  <2>2. funcs[n] = module[n]
    BY <1>5 DEF Pending
  <2> QED BY <1>11, <2>1, <2>2
<1>16. OnMine' /\ NoAlarm'
  BY <1>5 DEF OnMine, NoAlarm
<1> QED BY <1>1, <1>13, <1>14, <1>15, <1>16

\* the reader's implementation folds nothing but what the reference folds
NoMoreFolds == \A op \in BinaryOperator, a, b \in Word :
                 MineFolds(op, a, b) \in {None, SolutionFolds(op, a, b)}

(* A fold of the reader's implementation: its entry moves to a constant that *)
(* it stood for already.                                                     *)
LEMMA MineFoldStep == NoMoreFolds /\ HarnessInv /\ MineFold => HarnessInv'
<1> SUFFICES ASSUME NoMoreFolds, HarnessInv, MineFold PROVE HarnessInv'
  OBVIOUS
<1> USE DEF HarnessInv
<1>1. CountInv'
  BY CountStep DEF Next
<1>2. PICK i \in Foldable(funcs[Func], MineFolds) :
        LET x == funcs[Func][i]
            v == MineFolds(x.op, x.args[1].val, x.args[2].val)
            moved == IF vmap[ConstOp(v)] = None THEN vmap[UseOp(i)] ELSE vmap[ConstOp(v)]
        IN  /\ funcs' = [funcs EXCEPT ![Func] = Rewrite(funcs[Func], i, v)]
            /\ vmap' = [vmap EXCEPT ![ConstOp(v)] = moved, ![UseOp(i)] = None]
  BY DEF MineFold
<1> DEFINE x == funcs[Func][i]
           v == MineFolds(x.op, x.args[1].val, x.args[2].val)
           moved == IF vmap[ConstOp(v)] = None THEN vmap[UseOp(i)] ELSE vmap[ConstOp(v)]
<1>3. /\ i \in DOMAIN funcs[Func] /\ BothConstant(x) /\ v \in Value
      /\ v = SolutionFolds(x.op, x.args[1].val, x.args[2].val)
  <2>1. /\ i \in DOMAIN funcs[Func] /\ BothConstant(x) /\ v \in Value
        /\ x.op \in BinaryOperator /\ x.args[1].val \in Word /\ x.args[2].val \in Word
    BY MineFolded
  <2>2. v # None
    BY <2>1, SpecialValues
  <2> QED BY <2>1, <2>2 DEF NoMoreFolds
<1>4. /\ pc = "mine" /\ UNCHANGED <<module, worklist, cur, given, hadError, status, pc>>
      /\ Func = cur /\ Clone \in DOMAIN funcs /\ cur \in DOMAIN module /\ cur \in DOMAIN funcs
      /\ Clone > Len(module) /\ funcs \in Seq(Code) /\ module \in Seq(Code) /\ cur # Clone
  <2>1. /\ pc = "mine" /\ UNCHANGED <<module, worklist, cur, given, hadError, status, pc>>
    BY DEF MineFold
  <2>2. /\ Clone \in DOMAIN funcs /\ cur \in DOMAIN module /\ cur \in DOMAIN funcs
        /\ Clone > Len(module) /\ module \in Seq(Code) /\ funcs \in Seq(Code) /\ Func = cur
    BY <2>1, Positions DEF CountInv
  <2>3. cur # Clone
    BY <2>2
  <2> QED BY <2>1, <2>2, <2>3
<1> HIDE DEF v
<1>5. /\ funcs' = [funcs EXCEPT ![cur] = Rewrite(funcs[cur], i, v)]
      /\ vmap' = [vmap EXCEPT ![ConstOp(v)] = moved, ![UseOp(i)] = None]
  BY <1>2, <1>4 DEF v
<1>6. PICK r \in Repl, q \in Repl :
        /\ Followed(r) /\ Within(q, r)
        /\ funcs[cur] = RewrittenBy(given, q)
        /\ \A j \in DOMAIN given : q[j] = None => vmap[UseOp(j)] = Entry(r, j)
  BY <1>4 DEF OnMine
<1>7. given = module[cur] /\ given \in Code /\ Foldable(funcs[Clone], SolutionFolds) = {}
  BY <1>4 DEF OnMine
<1>8. funcs[Clone] = RewrittenBy(given, r) /\ JustifiedBy(given, r)
  BY <1>6 DEF Followed
<1> DEFINE qq == [q EXCEPT ![i] = v]
<1>9. /\ qq \in Repl /\ q[i] = None /\ i \in Ins
      /\ Rewrite(funcs[cur], i, v) = RewrittenBy(given, qq)
  BY <1>3, <1>4, <1>6, <1>7, RewriteStep
<1>10. r[i] = v /\ v # None
  <2>1. v # None
    BY <1>3, SpecialValues
  <2> QED BY <1>3, <1>4, <1>6, <1>7, <1>8, <2>1, Agreement
<1>11. \A j \in Ins : qq[j] = IF j = i THEN v ELSE q[j]
  BY <1>9 DEF Repl
<1>12. Within(qq, r)
  <2> HIDE DEF qq
  <2> QED BY <1>6, <1>10, <1>11 DEF Within
<1>13. i \in DOMAIN given
  BY <1>3, <1>4, <1>6 DEF RewrittenBy
<1>14. vmap[UseOp(i)] = ConstOp(v)
  BY <1>6, <1>9, <1>10, <1>13 DEF Entry
<1>15. moved = ConstOp(v)
  BY <1>3, <1>14 DEF ConstKeys
<1> HIDE DEF moved
<1>16. /\ \A n \in DOMAIN funcs : n # cur => funcs'[n] = funcs[n]
       /\ funcs'[cur] = RewrittenBy(given, qq) /\ Clone' = Clone
  <2> HIDE DEF qq
  <2>1. Len(funcs') = Len(funcs)
    BY <1>4, <1>5
  <2> QED BY <1>4, <1>5, <1>9, <2>1 DEF Clone
<1>17. \A key \in Key : key # UseOp(i) /\ key # ConstOp(v) => vmap'[key] = vmap[key]
  BY <1>5 DEF CountInv
<1>18. ConstKeys'
  <2> SUFFICES ASSUME NEW w \in Value PROVE vmap'[ConstOp(w)] \in {None, ConstOp(w)}
    BY DEF ConstKeys
  <2>1. ConstOp(w) \in Key /\ ConstOp(w) # UseOp(i) /\ (w # v => ConstOp(w) # ConstOp(v))
    BY DEF ConstOp, UseOp, Key
  <2>2. CASE w = v
    <3>1. vmap'[ConstOp(v)] = moved
      BY <1>5, <2>1, <2>2 DEF CountInv
    <3> QED BY <1>15, <2>2, <3>1
  <2>3. CASE w # v
    BY <1>17, <2>1, <2>3 DEF ConstKeys
  <2> QED BY <2>2, <2>3
<1>19. Pending'
  <2> SUFFICES ASSUME module # None, NEW n \in DOMAIN module, n > cur PROVE funcs'[n] = module[n]
    BY <1>4 DEF Pending
  <2>1. n \in DOMAIN funcs /\ n # cur
    <3>1. Counted
      BY <1>4, Positions
    <3>2. cur \in Nat
      BY DEF CountInv
    <3> QED BY <1>4, <3>1, <3>2 DEF Counted
  <2>2. funcs[n] = module[n]
    BY <1>4 DEF Pending
  <2> QED BY <1>16, <2>1, <2>2
<1>20. OnMine'
  <2> HIDE DEF qq
  <2>1. \A j \in DOMAIN given : qq[j] = None => vmap'[UseOp(j)] = Entry(r, j)
    <3> SUFFICES ASSUME NEW j \in DOMAIN given, qq[j] = None PROVE vmap'[UseOp(j)] = Entry(r, j)
      OBVIOUS
    <3>1. j \in Ins
      BY <1>7, CodeFacts
    <3>2. j # i /\ q[j] = None
      BY <1>10, <1>11, <3>1
    <3>3. UseOp(j) \in Key /\ UseOp(j) # UseOp(i) /\ UseOp(j) # ConstOp(v)
      BY <3>1, <3>2 DEF UseOp, ConstOp, Key
    <3> QED BY <1>6, <1>17, <3>2, <3>3
  <2>2. funcs'[Clone'] = funcs[Clone]
    BY <1>4, <1>16
  <2>3. given' = module'[cur'] /\ funcs'[cur'] = RewrittenBy(given', qq)
    BY <1>4, <1>7, <1>16
  <2>4. funcs'[Clone'] = RewrittenBy(given', r) /\ JustifiedBy(given', r)
    BY <1>4, <1>8, <2>2
  <2>5. Foldable(funcs'[Clone'], SolutionFolds) = {}
    BY <1>7, <2>2
  <2>6. \A j \in DOMAIN given' : qq[j] = None => vmap'[UseOp(j)] = Entry(r, j)
    BY <1>4, <2>1
  <2> QED BY <1>9, <1>12, <2>3, <2>4, <2>5, <2>6 DEF OnMine, Followed
<1>21. OnSolution' /\ NoAlarm'
  BY <1>4 DEF OnSolution, NoAlarm
<1> QED BY <1>1, <1>18, <1>19, <1>20, <1>21

LEMMA HarnessStep == NoMoreFolds /\ HarnessInv /\ [Next]_vars => HarnessInv'
<1> SUFFICES ASSUME NoMoreFolds, HarnessInv, [Next]_vars PROVE HarnessInv'
  OBVIOUS
<1> USE DEF HarnessInv
<1>0. CountInv'
  BY CountStep
<1>1. CASE Unbuilt
  BY <1>0, <1>1 DEF Unbuilt, ConstKeys, Pending, OnSolution, OnMine, NoAlarm
<1>2. CASE Build
  BY <1>0, <1>2 DEF Build, ConstKeys, Pending, OnSolution, OnMine, NoAlarm
<1>3. CASE CloneFunction
  BY <1>3, CloneFunctionStep
<1>4. CASE SolutionFold
  BY <1>4, SolutionFoldStep
<1>5. CASE SolutionDone
  <2>1. /\ pc = "solution" /\ pc' = "mine" /\ Foldable(funcs[Clone], SolutionFolds) = {}
        /\ UNCHANGED <<module, funcs, worklist, cur, given, vmap, hadError, status>>
    BY <1>5 DEF SolutionDone
  <2>2. cur \in DOMAIN module /\ module \in Seq(Code)
    BY <2>1, Positions
  <2>3. given = module[cur] /\ funcs[cur] = given /\ given \in Code
    BY <2>1, <2>2 DEF OnSolution
  <2>4. PICK r \in Repl : Followed(r) /\ \A i \in DOMAIN given : vmap[UseOp(i)] = Entry(r, i)
    BY <2>1 DEF OnSolution
  <2> DEFINE q == [i \in Ins |-> None]
  <2>5. q \in Repl /\ \A i \in Ins : q[i] = None
    BY DEF Repl
  <2> HIDE DEF q
  <2>6. RewrittenBy(given, q) = given /\ Within(q, r)
    BY <2>3, <2>5, RewrittenByNothing DEF Within
  <2>7. OnMine'
    <3>1. /\ given' = module'[cur'] /\ funcs'[cur'] = RewrittenBy(given', q)
          /\ funcs'[Clone'] = RewrittenBy(given', r) /\ JustifiedBy(given', r)
          /\ Foldable(funcs'[Clone'], SolutionFolds) = {}
          /\ \A i \in DOMAIN given' : q[i] = None => vmap'[UseOp(i)] = Entry(r, i)
      BY <2>1, <2>3, <2>4, <2>6 DEF Followed, Clone
    <3> QED BY <2>4, <2>5, <2>6, <3>1 DEF OnMine, Followed
  <2>8. ConstKeys' /\ Pending' /\ OnSolution' /\ NoAlarm'
    BY <2>1 DEF ConstKeys, Pending, OnSolution, NoAlarm
  <2> QED BY <1>0, <2>7, <2>8
<1>6. CASE MineFold
  BY <1>6, MineFoldStep
<1>7. CASE Report
  <2>1. /\ pc = "mine" /\ pc' = "next"
        /\ hadError' = (hadError \/ ~(Verifies(funcs[Clone]) /\ Verifies(funcs[Func])))
        /\ UNCHANGED <<module, funcs, worklist, cur, given, vmap, status>>
    BY <1>7 DEF Report
  <2>2. Verifies(funcs[Clone]) /\ Verifies(funcs[Func])
    BY <2>1, BothVerify
  <2>3. NoAlarm'
    BY <2>1, <2>2, Zenon DEF NoAlarm
  <2>4. ConstKeys' /\ Pending' /\ OnSolution' /\ OnMine'
    BY <2>1 DEF ConstKeys, Pending, OnSolution, OnMine
  <2> QED BY <1>0, <2>3, <2>4
<1>8. CASE Return
  <2>1. NoAlarm'
    <3>1. hadError' = hadError /\ status' = IF hadError THEN 1 ELSE 0
      BY <1>8 DEF Return
    <3>2. status' = 0
      BY <3>1 DEF NoAlarm
    <3> QED BY <3>1, <3>2 DEF NoAlarm
  <2> QED BY <1>0, <1>8, <2>1 DEF Return, ConstKeys, Pending, OnSolution, OnMine
<1>9. CASE UNCHANGED vars
  <2>1. UNCHANGED <<module, funcs, worklist, cur, given, vmap, hadError, status, pc>>
    BY <1>9 DEF vars
  <2>2. ConstKeys' /\ Pending' /\ NoAlarm'
    BY <2>1 DEF ConstKeys, Pending, NoAlarm
  <2>3. OnSolution' /\ OnMine'
    BY <2>1 DEF OnSolution, OnMine, Followed, Clone, Foldable
  <2> QED BY <1>0, <2>2, <2>3
<1> QED BY <1>1, <1>2, <1>3, <1>4, <1>5, <1>6, <1>7, <1>8, <1>9 DEF Next, Exited

(* "each implementation sees the same input" (main.cpp:101-102), for every   *)
(* module, if the reader's implementation folds nothing but what the         *)
(* reference folds; the run clonebetter shows that the hypothesis is needed. *)
THEOREM SameInputHolds ==
  ASSUME NoMoreFolds
  PROVE  Spec => []SameInput
<1>1. HarnessInv => SameInput
  <2> SUFFICES ASSUME HarnessInv, pc \in {"solution", "mine"} PROVE given = module[Func]
    BY DEF SameInput
  <2>1. Func = cur
    BY Positions DEF HarnessInv
  <2> QED BY <2>1 DEF HarnessInv, OnSolution, OnMine
<1> QED BY <1>1, HarnessInit, HarnessStep, PTL DEF Spec

(* Under the same hypothesis nobody is blamed (main.cpp:113-121).            *)
THEOREM NoFalseAlarmHolds ==
  ASSUME NoMoreFolds
  PROVE  Spec => []NoFalseAlarm
<1>1. HarnessInv => NoFalseAlarm
  BY DEF HarnessInv, NoAlarm, NoFalseAlarm
<1> QED BY <1>1, HarnessInit, HarnessStep, PTL DEF Spec
=================================================================================
