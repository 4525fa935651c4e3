---------------------------- MODULE PassManagerProofs ----------------------------
(***************************************************************************)
(* For all programs, functions and passes: the safety of module            *)
(* PassManager, and that its steps are steps of module AnalysisManager.    *)
(*                                                                         *)
(* A program is a list of statements, and what is true of its state is     *)
(* true because of the order of those statements.  So the proof is in      *)
(* three parts.                                                            *)
(*                                                                         *)
(*   1. Rules for the statements of a main function, over a shadow of the  *)
(*      state, and the inductive invariant MInv: the statements still to   *)
(*      come obey the rules (Running), and what they were obeyed for holds *)
(*      of the state.  Each action of PassManager keeps it.                *)
(*   2. Every program obeys the rules (ProgramsWired): each main function, *)
(*      and each of its loops, is led through from the empty shadow, for   *)
(*      all command lines.                                                 *)
(*   3. The theorems.                                                      *)
(*                                                                         *)
(* Between the two, the analysis managers: if every pass reports as        *)
(* preserved only what it leaves as it is, no result is ever stale.        *)
(***************************************************************************)
EXTENDS PassManager, WellFoundedInduction, SequenceTheorems, TLAPS

(***************************************************************************)
(* The rules for the statements of a main function, in terms of the        *)
(* statements alone: one for each kind of statement, over a shadow of the  *)
(* state that says which objects exist, which analyses are registered,     *)
(* whether a function may fail to verify that no verification has met, and *)
(* how the exit status was set.  The functions of the module, what its     *)
(* passes do and what the managers do when they run do not appear.         *)
(***************************************************************************)

\* the mains whose exit status is to tell of damage
Telling == {"your_first_pass", "your_first_pipeline", "llvm_ir", "machineir"}

Shadow ==
  [ alive : Seq(Objects),                      \* the objects that exist
    regs : SUBSET (Manager \X Analysis),      \* what is registered
    unverified : BOOLEAN,                     \* something may be broken, unnoticed
    untouched : BOOLEAN,                      \* no pass has run on the module
    status : {"open", "returned", "early"} ]  \* how the exit status was set, if it was

Start == [ alive |-> <<>>, regs |-> {}, unverified |-> FALSE, untouched |-> TRUE,
           status |-> "open" ]

Has(d, o) == \E i \in DOMAIN d.alive : d.alive[i] = o

(***************************************************************************)
(* The analyses a main function has for its passes.                        *)
(***************************************************************************)
Offered(main) ==
  {<<"MAM", "PassInstrumentation">>, <<"MAM", "FunctionProxy">>}
  \cup IF main = "your_first_pass" THEN {}
       ELSE {<<"MAM", "ProfileSummary">>, <<"FAM", "PassInstrumentation">>, <<"FAM", "DominatorTree">>}
            \cup IF main = "your_first_pipeline" THEN {} ELSE {<<"FAM", "FnStats">>}

Served(main, p, m) ==
  \A i \in DOMAIN Requires(p) : {<<m, Requires(p)[i]>>, <<m, "PassInstrumentation">>} \subseteq Offered(main)

FunctionPass(main) == { p \in Pass : Served(main, p, "FAM") }

Element(main) ==
  { e \in [kind : {"module", "function", "manager"}, passes : Seq(Pass)] :
      CASE e.kind = "module"   -> e.passes # <<>> /\ Served(main, e.passes[1], "MAM")
        [] e.kind = "function" -> e.passes # <<>> /\ Served(main, e.passes[1], "FAM")
        [] e.kind = "manager"  -> /\ <<"FAM", "PassInstrumentation">> \in Offered(main)
                                  /\ e.passes \in Seq(FunctionPass(main)) }

(***************************************************************************)
(* The rules: x may be the next statement when the shadow is d.            *)
(***************************************************************************)
DeclareRule(main, d, x) ==
  /\ x.do = "declare" /\ x.obj \in Objects /\ Len(d.alive) < 11
  /\ x.obj = "MAM" => Has(d, "FAM") /\ ~Has(d, "MAM")
  /\ x.obj \in Modules /\ main # "use_after_free" => Has(d, "Context")
  /\ x.obj = "PIC" /\ main = "your_first_pipeline" => d.untouched

ModuleRule(main, d, x) ==
  /\ x.do = "module" /\ x.obj \in Modules /\ Len(d.alive) < 11 /\ x.sound \in BOOLEAN
  /\ ~Has(d, "MAM")
  /\ main # "use_after_free" => Has(d, "Context")
  /\ x.status \in {None, 1, 255}
  /\ main \in Telling => ~d.unverified /\ x.status # 1

RegisterRule(main, d, x) ==
  /\ x.do = "register" /\ x.mgr \in Manager /\ x.key \in Analysis /\ x.by # None
  /\ x.mgr = "MAM" /\ x.key = "FunctionProxy" => x.by = "FAM"
  /\ main = "your_first_pipeline" /\ x.key = "PassInstrumentation"
     => x.by = "PIC" \/ <<x.mgr, x.key>> \in d.regs

PipelineRule(main, d, x) ==
  \/ x.do = "add" /\ x.elem \in Element(main)
  \/ x.do = "addToFPM" /\ x.pass \in FunctionPass(main)
  \/ x.do = "moveFPM" /\ <<"FAM", "PassInstrumentation">> \in Offered(main)

RunRule(main, d, x) == x.do = "run" /\ Has(d, "MAM") /\ Offered(main) \subseteq d.regs

RunLegacyRule(main, d, x) ==
  /\ x.do = "runLegacy" /\ x.passes \in Seq(Pass)
  /\ ~Has(d, "MAM")
  /\ main = "your_first_pipeline" => ~Has(d, "PIC")

VerifyRule(main, d, x) == x.do = "verify" /\ (Has(d, "Context") \/ main = "use_after_free")

ReturnRule(main, d, x) == x.do = "return" /\ (main \in Telling => ~d.unverified)

ExitRule(main, d, x) ==
  \/ x.do = "exit" /\ x.status \in {0, 1} /\ main \notin Telling
  \/ x.do = "mayReturn" /\ x.status = 255

LeaveRule(d, x) == x.do = "leave" /\ x.keep \in Nat

\* when the exit status is set, only destructors are left
Allowed(main, d, x) ==
  \/ LeaveRule(d, x)
  \/ /\ d.status = "open"
     /\ \/ DeclareRule(main, d, x) \/ ModuleRule(main, d, x)
        \/ RegisterRule(main, d, x) \/ PipelineRule(main, d, x)
        \/ RunRule(main, d, x) \/ RunLegacyRule(main, d, x)
        \/ VerifyRule(main, d, x) \/ ReturnRule(main, d, x) \/ ExitRule(main, d, x)

(***************************************************************************)
(* The shadow after x.                                                     *)
(***************************************************************************)
After(d, x) ==
  CASE x.do = "declare"   -> [d EXCEPT !.alive = Append(@, x.obj),
                                       !.regs = { r \in @ : r[1] # x.obj }]
    [] x.do = "module"    -> [d EXCEPT !.alive = IF Has(d, x.obj) THEN @ ELSE Append(@, x.obj),
                                       !.unverified = ~x.sound, !.untouched = TRUE]
    [] x.do = "register"  -> [d EXCEPT !.regs = @ \cup {<<x.mgr, x.key>>}]
    [] x.do \in {"run", "runLegacy"} -> [d EXCEPT !.unverified = TRUE, !.untouched = FALSE]
    [] x.do = "verify"    -> [d EXCEPT !.unverified = FALSE]
    [] x.do \in {"return", "exit"} -> [d EXCEPT !.status = "returned"]
    [] x.do = "leave"     -> [d EXCEPT !.alive = IF Len(@) > x.keep THEN SubSeq(@, 1, x.keep) ELSE @]
    [] OTHER              -> d

\* the status is set on another path, if it is
Early(d, code) == IF code = None THEN d ELSE [d EXCEPT !.status = "early"]

\* the module's context is gone: the program ends here
Dangles(main, d, x) == x.do = "verify" /\ main = "use_after_free" /\ ~Has(d, "Context")

Ends(main, d) == main # "use_after_free" /\ (main \in Telling => d.status # "open")

(***************************************************************************)
(* A set of pairs of a shadow and the statements still to come, each of    *)
(* which is allowed to go on, and goes on in the set.                      *)
(***************************************************************************)
GoesOn(main, S, d, c) ==
  /\ Allowed(main, d, c[1])
  /\ Dangles(main, d, c[1]) \/ <<After(d, c[1]), Tail(c)>> \in S
  /\ c[1].do = "module" /\ c[1].orelse # <<>> => <<Early(d, c[1].status), c[1].orelse>> \in S
  /\ c[1].do = "mayReturn" => <<Early(d, c[1].status), <<EndScope(0)>>>> \in S

Closed(main, S) ==
  \A d, c : <<d, c>> \in S =>
    /\ d \in Shadow
    /\ \E T : c \in Seq(T)
    /\ IF c = <<>> THEN Ends(main, d) ELSE GoesOn(main, S, d, c)

\* the statements c may follow when the shadow is d
Fits(main, d, c) == \E S : Closed(main, S) /\ <<d, c>> \in S

(* The program is wired right. *)
WellWired(p) == Fits(p.main, Start, Code(p))

(***************************************************************************)
(* Sequences                                                               *)
(***************************************************************************)
NatOrder == {ss \in Nat \X Nat : ss[1] < ss[2]}

(* A nonempty set of numbers has a least element.                           *)
LEMMA LeastNumber ==
  ASSUME NEW S, S \subseteq Nat, S # {}
  PROVE \E n \in S : \A m \in S : n <= m
<1>1. IsWellFoundedOn(NatOrder, Nat)
  BY NatLessThanWellFounded DEF OpToRel, NatOrder
<1>2. PICK x \in S : \A y \in S : ~ (<<y, x>> \in NatOrder)
  BY <1>1, WFMin
<1>3. \A y, z \in Nat : <<y, z>> \in NatOrder <=> y < z
  BY DEF NatOrder
<1>4. ASSUME NEW y \in S PROVE x <= y
  <2>1. x \in Nat /\ y \in Nat
    OBVIOUS
  <2>2. ~(y < x)
    BY <1>2, <1>3, <2>1
  <2> QED BY <2>1, <2>2
<1> QED BY <1>4

(* Induction over numbers, for a property given by a set.                   *)
LEMMA SetInduction ==
  ASSUME NEW S, 0 \in S, \A n \in S \cap Nat : n + 1 \in S
  PROVE Nat \subseteq S
<1> SUFFICES ASSUME Nat \ S # {} PROVE FALSE
  OBVIOUS
<1>1. PICK n \in Nat \ S : \A m \in Nat \ S : n <= m
  BY LeastNumber
<1>2. n # 0 /\ n - 1 \in Nat
  BY <1>1
<1>3. n - 1 \in S
  BY <1>1, <1>2
<1>4. (n - 1) + 1 = n
  BY <1>1
<1> QED BY <1>1, <1>2, <1>3, <1>4

(* h is the function by which FlattenSeq puts the first n parts together.   *)
Joins(ss, h, n) == h = [i \in 1 .. n |-> IF i = 1 THEN ss[i] ELSE h[i - 1] \o ss[i]]

(* There is such a function, however many parts there are.                  *)
LEMMA JoinsExists == ASSUME NEW ss, NEW n \in Nat PROVE \E h : Joins(ss, h, n)
<1> DEFINE S == { m \in Nat : \E h : Joins(ss, h, m) }
<1>1. 0 \in S
  <2>1. Joins(ss, [i \in 1 .. 0 |-> ss[i]], 0)
    BY DEF Joins
  <2> QED BY <2>1
<1>2. ASSUME NEW m \in S \cap Nat PROVE m + 1 \in S
  <2>1. PICK h : Joins(ss, h, m)
    OBVIOUS
  <2> DEFINE last == IF m + 1 = 1 THEN ss[m + 1] ELSE h[m] \o ss[m + 1]
             g == [i \in 1 .. m + 1 |-> IF i = m + 1 THEN last ELSE h[i]]
  <2>2. ASSUME NEW i \in 1 .. m + 1
        PROVE  g[i] = IF i = 1 THEN ss[i] ELSE g[i - 1] \o ss[i]
    <3>1. CASE i = m + 1
      <4>1. m # 0 => g[m] = h[m]
        OBVIOUS
      <4> QED BY <3>1, <4>1
    <3>2. CASE i # m + 1
      <4>1. i \in 1 .. m /\ g[i] = h[i]
        BY <3>2
      <4>2. h[i] = IF i = 1 THEN ss[i] ELSE h[i - 1] \o ss[i]
        BY <4>1, <2>1 DEF Joins
      <4>3. i # 1 => g[i - 1] = h[i - 1]
        BY <4>1
      <4> QED BY <4>1, <4>2, <4>3
    <3> QED BY <3>1, <3>2
  <2>3. g = [i \in 1 .. m + 1 |-> g[i]]
    OBVIOUS
  <2> HIDE DEF g
  <2>4. Joins(ss, g, m + 1)
    BY <2>2, <2>3 DEF Joins
  <2> QED BY <2>4
<1>3. Nat \subseteq S
  <2> HIDE DEF S
  <2> QED BY <1>1, <1>2, SetInduction
<1> QED BY <1>3

(* Sequences over a set, joined, are a sequence over that set.              *)
LEMMA FlattenSeqType ==
  ASSUME NEW W, NEW ss \in Seq(Seq(W))
  PROVE FlattenSeq(ss) \in Seq(W)
<1>1. CASE Len(ss) = 0
  BY <1>1 DEF FlattenSeq
<1>2. CASE Len(ss) # 0
  <2> DEFINE h == CHOOSE g : Joins(ss, g, Len(ss))
  <2>1. FlattenSeq(ss) = h[Len(ss)]
    BY <1>2 DEF FlattenSeq, Joins
  <2>2. Joins(ss, h, Len(ss))
    <3>1. Len(ss) \in Nat
      OBVIOUS
    <3>2. \E g : Joins(ss, g, Len(ss))
      BY <3>1, JoinsExists
    <3> QED BY <3>2
  <2> HIDE DEF h
  <2> DEFINE S == { n \in Nat : n \in 1 .. Len(ss) => h[n] \in Seq(W) }
  <2>3. ASSUME NEW n \in S \cap Nat PROVE n + 1 \in S
    <3> SUFFICES ASSUME n + 1 \in 1 .. Len(ss) PROVE h[n + 1] \in Seq(W)
      OBVIOUS
    <3>1. h[n + 1] = IF n + 1 = 1 THEN ss[n + 1] ELSE h[n] \o ss[n + 1]
      <4>1. \A i \in 1 .. Len(ss) : h[i] = IF i = 1 THEN ss[i] ELSE h[i - 1] \o ss[i]
        BY <2>2 DEF Joins
      <4>2. (n + 1) - 1 = n
        OBVIOUS
      <4> QED BY <4>1, <4>2
    <3>2. ss[n + 1] \in Seq(W)
      OBVIOUS
    <3>3. n + 1 # 1 => h[n] \in Seq(W)
      OBVIOUS
    <3> QED BY <3>1, <3>2, <3>3
  <2>4. 0 \in S
    OBVIOUS
  <2>5. Nat \subseteq S
    <3> HIDE DEF S
    <3> QED BY <2>3, <2>4, SetInduction
  <2>6. Len(ss) \in Nat /\ Len(ss) \in 1 .. Len(ss)
    BY <1>2
  <2>7. Len(ss) \in S
    BY <2>5, <2>6
  <2> QED BY <2>1, <2>6, <2>7
<1> QED BY <1>1, <1>2

main == program.main

(***************************************************************************)
(* The invariant                                                           *)
(***************************************************************************)
Types ==
  /\ program \in Programs
  /\ alive \in Seq(Objects) /\ Len(alive) <= 11
  /\ DOMAIN reg = Manager /\ \A m \in Manager : DOMAIN reg[m] = Analysis
  /\ ran \in [Fun -> Seq(Pass)]
  /\ logged \subseteq Pass \X Fun /\ broken \subseteq Fun
  /\ damage \in BOOLEAN /\ hadError \in BOOLEAN /\ status \in {None, 0, 1, 255}
  /\ outcome \in {"running", "exited", "dangling"}

AHeld == ATypeOK /\ (~proxied => cache = Cleared)

\* what an object needs when it dies is older than it
Ordered ==
  \A i \in DOMAIN alive :
    /\ alive[i] = "MAM" => \E j \in 1 .. i - 1 : alive[j] = "FAM"
    /\ alive[i] \in Modules /\ main # "use_after_free" => \E j \in 1 .. i - 1 : alive[j] = "Context"

Wires ==
  /\ proxied => Object("MAM") /\ reg["MAM"]["FunctionProxy"] = "FAM"
  /\ reg["MAM"]["FunctionProxy"] \in {None, "FAM"}
  /\ main = "your_first_pipeline" => \A m \in Manager : reg[m]["PassInstrumentation"] \in {None, "PIC"}
  /\ mpm \in Seq(Element(main)) /\ fpm \in Seq(FunctionPass(main))

Tells == main \in Telling => /\ hadError \/ broken # {} <=> damage

\* the statements the managers put in front of the program's
Queries ==
  { x \in [do : {"query"}, mgr : Manager, fun : Fun \cup {None}, key : Analysis] :
      /\ {<<x.mgr, x.key>>, <<x.mgr, "PassInstrumentation">>} \subseteq Offered(main)
      /\ x.mgr = "FAM" => x.fun \in Fun }
PassesOn(ms) == [do : {"pass"}, pass : Pass, fun : Fun \cup {None}, mgr : ms]

Busy(d, w) ==
  /\ \/ w \in Seq(Queries \cup PassesOn(Manager))
        /\ (w # <<>> => Has(d, "MAM") /\ Offered(main) \subseteq d.regs)
     \/ w \in Seq(PassesOn({"Legacy"}))
        /\ (w # <<>> => ~Has(d, "MAM") /\ (main = "your_first_pipeline" => ~Has(d, "PIC")))
  /\ w # <<>> => d.unverified /\ ~d.untouched /\ d.status = "open"

Matches(d) ==
  /\ \A r \in d.regs : reg[r[1]][r[2]] # None
  /\ d.untouched => ran = Untouched
  /\ main \in Telling =>
       /\ ~d.unverified => (damage => hadError)
       /\ d.status = "returned" => status \in {0, 1} /\ (status = 1 <=> damage)
       /\ d.status = "early" => status = 255

\* while a scope is left, some of its objects are dead already
Leaving(d, c) ==
  /\ c # <<>> /\ c[1].do = "leave"
  /\ \E n \in Nat : c[1].keep <= n /\ n < Len(d.alive) /\ alive = SubSeq(d.alive, 1, n)

Mirrors(S, d, c, w) ==
  /\ Closed(main, S) /\ <<d, c>> \in S
  /\ todo = w \o c /\ Busy(d, w) /\ Matches(d)
  /\ alive = d.alive \/ (w = <<>> /\ Leaving(d, c))

Running == outcome = "running" => \E S, d, c, w : Mirrors(S, d, c, w)

Over ==
  /\ outcome = "dangling" => main = "use_after_free"
  /\ outcome = "exited" => /\ main # "use_after_free"
                           /\ main \in Telling /\ status # 255 => (status = 1 <=> damage)

MInv == Types /\ AHeld /\ Ordered /\ Wires /\ Tells /\ PipelinesLogged /\ Running /\ Over

(***************************************************************************)
(* The next statement                                                      *)
(***************************************************************************)
LEMMA NotWork ==
  ASSUME NEW d, NEW x, Allowed(main, d, x)
  PROVE  x.do \notin {"query", "pass"}
BY DEF Allowed, LeaveRule, DeclareRule, ModuleRule, RegisterRule, PipelineRule, RunRule,
       RunLegacyRule, VerifyRule, ReturnRule, ExitRule

(* The managers' statements are queries and passes, of one kind of          *)
(* manager.                                                                 *)
LEMMA IsWork ==
  ASSUME NEW w, NEW d, Busy(d, w), w # <<>>
  PROVE  /\ w[1].do \in {"query", "pass"}
         /\ w[1] \in Queries \cup PassesOn(Manager) \/ w[1] \in PassesOn({"Legacy"})
<1>1. w[1] \in Queries \cup PassesOn(Manager) \/ w[1] \in PassesOn({"Legacy"})
  <2>1. ASSUME NEW R, w \in Seq(R) PROVE w[1] \in R
    BY <2>1, EmptySeq, ElementOfSeq
  <2> QED BY <2>1 DEF Busy
<1>2. \A x \in Queries : x.do = "query"
  BY DEF Queries
<1>3. \A x \in PassesOn(Manager) \cup PassesOn({"Legacy"}) : x.do = "pass"
  BY DEF PassesOn
<1> QED BY <1>1, <1>2, <1>3

(* The managers' statements are a sequence.                                 *)
LEMMA BusySeq == ASSUME NEW d, NEW w, Busy(d, w) PROVE \E W : w \in Seq(W)
BY DEF Busy

(* Concatenation in front of a rest.                                        *)
LEMMA ConcatFirst ==
  ASSUME NEW W, NEW T, NEW w \in Seq(W), NEW c \in Seq(T)
  PROVE  /\ w = <<>> => w \o c = c
         /\ w # <<>> => /\ w \o c # <<>> /\ (w \o c)[1] = w[1]
                        /\ Tail(w \o c) = Tail(w) \o c
<1>1. w \in Seq(W \cup T) /\ c \in Seq(W \cup T)
  BY SeqMonotonic
<1>2. CASE w = <<>>
  BY <1>1, <1>2, ConcatEmptySeq
<1>3. CASE w # <<>>
  <2>1. /\ Len(w) \in Nat /\ Len(w) >= 1 /\ Len(c) \in Nat
        /\ w \o c \in Seq(W \cup T) /\ Len(w \o c) = Len(w) + Len(c)
        /\ \A i \in 1 .. Len(w) + Len(c) : (w \o c)[i] = IF i <= Len(w) THEN w[i] ELSE c[i - Len(w)]
    BY <1>1, <1>3, EmptySeq, ConcatProperties
  <2>2. w \o c # <<>> /\ (w \o c)[1] = w[1]
    BY <2>1, EmptySeq
  <2> DEFINE s == Tail(w \o c)
             t == Tail(w) \o c
  <2>3. s \in Seq(W \cup T) /\ Len(s) = Len(w) + Len(c) - 1
    BY <2>1, <2>2, HeadTailProperties
  <2>4. \A i \in 1 .. Len(s) : s[i] = (w \o c)[i + 1]
    BY <2>1, <2>2, <2>3, HeadTailProperties
  <2>5. Tail(w) \in Seq(W \cup T) /\ Len(Tail(w)) = Len(w) - 1 /\ \A i \in 1 .. Len(w) - 1 : Tail(w)[i] = w[i + 1]
    BY <1>1, <1>3, HeadTailProperties
  <2>6. t \in Seq(W \cup T) /\ Len(t) = Len(w) - 1 + Len(c)
        /\ \A i \in 1 .. Len(w) - 1 + Len(c) : t[i] = IF i <= Len(w) - 1 THEN Tail(w)[i] ELSE c[i - (Len(w) - 1)]
    BY <1>1, <2>5, ConcatProperties
  <2>7. \A i \in 1 .. Len(s) : s[i] = t[i]
    <3> SUFFICES ASSUME NEW i \in 1 .. Len(s) PROVE s[i] = t[i]
      OBVIOUS
    <3>1. CASE i <= Len(w) - 1
      BY <2>1, <2>3, <2>4, <2>5, <2>6, <3>1
    <3>2. CASE ~(i <= Len(w) - 1)
      <4>1. s[i] = c[i + 1 - Len(w)]
        <5> HIDE DEF s, t
        <5> QED BY <2>1, <2>3, <2>4, <3>2
      <4>2. t[i] = c[i - (Len(w) - 1)]
        BY <2>1, <2>3, <2>6, <3>2
      <4>3. i + 1 - Len(w) = i - (Len(w) - 1)
        BY <2>1, <2>3
      <4> QED BY <4>1, <4>2, <4>3
    <3> QED BY <3>1, <3>2
  <2> HIDE DEF s, t
  <2>8. s = t
    BY <2>1, <2>3, <2>6, <2>7, SeqEqual
  <2> QED BY <1>3, <2>2, <2>8 DEF s, t
<1> QED BY <1>2, <1>3

(* When the next statement is none of the managers', it is the program's    *)
(* own, which its shadow allows.                                            *)
LEMMA AtProgram ==
  ASSUME MInv, outcome = "running", todo # <<>>, todo[1].do \notin {"query", "pass"}
  PROVE  \E S, d : /\ Mirrors(S, d, todo, <<>>)
                   /\ d \in Shadow /\ GoesOn(main, S, d, todo)
<1>1. PICK S, d, c, w : Mirrors(S, d, c, w)
  BY DEF MInv, Running
<1>2. PICK T : c \in Seq(T)
  BY <1>1 DEF Mirrors, Closed
<1>3. PICK W : w \in Seq(W)
  BY <1>1, BusySeq DEF Mirrors
<1>4. w = <<>>
  <2> SUFFICES ASSUME w # <<>> PROVE FALSE
    OBVIOUS
  <2>1. todo[1] = w[1]
    BY <1>1, <1>2, <1>3, ConcatFirst DEF Mirrors
  <2> QED BY <1>1, <2>1, IsWork DEF Mirrors
<1>5. todo = c
  BY <1>1, <1>2, <1>3, <1>4, ConcatFirst DEF Mirrors
<1>6. d \in Shadow /\ GoesOn(main, S, d, c)
  BY <1>1, <1>5 DEF Mirrors, Closed
<1>7. Mirrors(S, d, todo, <<>>)
  BY <1>1, <1>4, <1>5
<1> QED BY <1>5, <1>6, <1>7

(* When the next statement is one of the managers', the rest of them and    *)
(* the program follow it, and no object has died.                           *)
LEMMA AtWork ==
  ASSUME MInv, outcome = "running", todo # <<>>, todo[1].do \in {"query", "pass"}
  PROVE  \E S, d, c, w :
           /\ Mirrors(S, d, c, w) /\ d \in Shadow /\ w # <<>> /\ alive = d.alive
           /\ todo[1] = w[1] /\ Tail(todo) = Tail(w) \o c /\ Busy(d, Tail(w))
<1>1. PICK S, d, c, w : Mirrors(S, d, c, w)
  BY DEF MInv, Running
<1>2. PICK T : c \in Seq(T)
  BY <1>1 DEF Mirrors, Closed
<1>3. PICK W : w \in Seq(W)
  BY <1>1, BusySeq DEF Mirrors
<1>4. w # <<>>
  <2> SUFFICES ASSUME w = <<>> PROVE FALSE
    OBVIOUS
  <2>1. todo = c
    BY <1>1, <1>2, <1>3, ConcatFirst DEF Mirrors
  <2>2. Allowed(main, d, c[1])
    BY <1>1, <2>1 DEF Mirrors, Closed, GoesOn
  <2> QED BY <2>1, <2>2, NotWork
<1>5. d \in Shadow
  BY <1>1 DEF Mirrors, Closed
<1>6. todo[1] = w[1] /\ Tail(todo) = Tail(w) \o c
  BY <1>1, <1>2, <1>3, <1>4, ConcatFirst DEF Mirrors
<1>7. Busy(d, Tail(w))
  <2>1. ASSUME NEW R, w \in Seq(R) PROVE Tail(w) \in Seq(R)
    BY <1>4, <2>1, HeadTailProperties
  <2> QED BY <1>1, <1>4, <2>1 DEF Mirrors, Busy
<1> QED BY <1>1, <1>4, <1>5, <1>6, <1>7 DEF Mirrors

(* Without a module manager nothing is cached.                              *)
LEMMA NotManaged ==
  ASSUME MInv, ~Object("MAM")
  PROVE  ~proxied /\ cache = Cleared
BY DEF MInv, Wires, AHeld

(* What is offered on functions are analyses of functions.                  *)
LEMMA OfferedToFunctions ==
  ASSUME NEW k, <<"FAM", k>> \in Offered(main)
  PROVE  k \in FunctionAnalyses
BY DEF Offered, FunctionAnalyses

(***************************************************************************)
(* The analysis managers: every step is one of AnalysisManager's.          *)
(***************************************************************************)
LEMMA ObtainManaged == ASSUME MInv, Obtain PROVE NewFunctions
<1>1. PICK S, d : /\ Mirrors(S, d, todo, <<>>) /\ d \in Shadow /\ GoesOn(main, S, d, todo)
  BY AtProgram DEF Obtain, At
<1>2. todo[1].do = "module"
  BY DEF Obtain, At
<1>3. ModuleRule(main, d, todo[1])
  BY <1>1, <1>2 DEF GoesOn, Allowed, LeaveRule, DeclareRule, ModuleRule, RegisterRule,
     PipelineRule, RunRule, RunLegacyRule, VerifyRule, ReturnRule, ExitRule
<1>4. alive = d.alive
  BY <1>1, <1>2 DEF Mirrors, Leaving
<1>5. ~Object("MAM")
  BY <1>3, <1>4 DEF ModuleRule, Has, Object
<1>6. cache = Cleared
  BY <1>5, NotManaged
<1> QED BY <1>6 DEF NewFunctions, Obtain, Given

(* A query is one of those the managers ask, its analysis is registered     *)
(* and its manager lives.                                                   *)
LEMMA QueryAsked ==
  ASSUME MInv, Query
  PROVE  /\ Now \in Queries /\ Registered(Now.mgr, Now.key)
         /\ Object("MAM")
<1>1. PICK S, d, c, w :
           /\ Mirrors(S, d, c, w) /\ d \in Shadow /\ w # <<>> /\ alive = d.alive
           /\ todo[1] = w[1] /\ Tail(todo) = Tail(w) \o c /\ Busy(d, Tail(w))
  BY AtWork DEF Query, At
<1>2. todo[1] \in Queries /\ Has(d, "MAM") /\ Offered(main) \subseteq d.regs
  <2>1. todo[1].do = "query"
    BY DEF Query, At
  <2>2. \A x \in PassesOn(Manager) \cup PassesOn({"Legacy"}) : x.do = "pass"
    BY DEF PassesOn
  <2>3. ASSUME NEW R, w \in Seq(R) PROVE w[1] \in R
    BY <1>1, <2>3, EmptySeq, ElementOfSeq
  <2> QED BY <1>1, <2>1, <2>2, <2>3 DEF Mirrors, Busy
<1>3. Registered(Now.mgr, Now.key)
  <2>1. {<<Now.mgr, Now.key>>, <<Now.mgr, "PassInstrumentation">>} \subseteq d.regs
    BY <1>2 DEF Queries, Now
  <2>2. \A r \in d.regs : reg[r[1]][r[2]] # None
    BY <1>1 DEF Mirrors, Matches
  <2> QED BY <2>1, <2>2 DEF Registered
<1> QED BY <1>1, <1>2, <1>3 DEF Has, Object, Now

(* Asking for a result is a step of the analysis managers.                  *)
LEMMA QueryManaged == ASSUME MInv, Query PROVE [ANext]_avars
<1>1. Now \in Queries
  BY QueryAsked
<1>2. Now.mgr \in Manager /\ (Now.mgr = "FAM" => Now.fun \in Fun /\ Now.key \in Key)
  <2>1. Now.mgr \in Manager /\ (Now.mgr = "FAM" => Now.fun \in Fun)
        /\ <<Now.mgr, Now.key>> \in Offered(main)
    BY <1>1 DEF Queries
  <2> QED BY <2>1, OfferedToFunctions, KeyAssumption
<1>3. CASE Now.mgr = "FAM"
  BY <1>2, <1>3 DEF Query, ANext
<1>4. CASE Now.mgr # "FAM" /\ Now.key = "FunctionProxy"
  BY <1>4 DEF Query, ANext
<1>5. CASE Now.mgr # "FAM" /\ Now.key # "FunctionProxy"
  BY <1>5 DEF Query
<1> QED BY <1>3, <1>4, <1>5

(* A pass that runs is known, and the instrumentation it runs under is the  *)
(* one its manager was given.                                               *)
LEMMA AtPass ==
  ASSUME MInv, At("pass")
  PROVE  /\ Now.pass \in Pass /\ Now.fun \in Fun \cup {None}
         /\ Now.mgr \in Manager \cup {"Legacy"}
         /\ Now.mgr = "Legacy" => ~Object("MAM")
         /\ main = "your_first_pipeline" /\ Object("PIC") =>
              Now.mgr \in Manager /\ reg[Now.mgr]["PassInstrumentation"] = "PIC"
<1>1. PICK S, d, c, w :
           /\ Mirrors(S, d, c, w) /\ d \in Shadow /\ w # <<>> /\ alive = d.alive
           /\ todo[1] = w[1] /\ Tail(todo) = Tail(w) \o c /\ Busy(d, Tail(w))
  BY AtWork DEF At
<1>2. \A o : Object(o) <=> Has(d, o)
  BY <1>1 DEF Object, Has
<1>3. todo[1] \notin Queries
  BY DEF At, Queries
<1>4. ASSUME NEW R, w \in Seq(R) PROVE todo[1] \in R
  BY <1>1, <1>4, EmptySeq, ElementOfSeq
<1>5. CASE todo[1] \in PassesOn({"Legacy"}) /\ ~Has(d, "MAM") /\ (main = "your_first_pipeline" => ~Has(d, "PIC"))
  BY <1>2, <1>5 DEF PassesOn, Now
<1>6. CASE todo[1] \in PassesOn(Manager) /\ Offered(main) \subseteq d.regs
  <2>1. main = "your_first_pipeline" =>
          {<<"MAM", "PassInstrumentation">>, <<"FAM", "PassInstrumentation">>} \subseteq d.regs
    BY <1>6 DEF Offered
  <2>2. \A r \in d.regs : reg[r[1]][r[2]] # None
    BY <1>1 DEF Mirrors, Matches
  <2>3. main = "your_first_pipeline" => \A m \in Manager : reg[m]["PassInstrumentation"] = "PIC"
    BY <2>1, <2>2 DEF MInv, Wires, Manager
  <2> QED BY <1>6, <2>3 DEF PassesOn, Now, Manager
<1> QED BY <1>1, <1>3, <1>4, <1>5, <1>6 DEF Mirrors, Busy

(* Of nothing, nothing is dropped.                                          *)
LEMMA InvalidateNothing == ASSUME NEW o PROVE Invalidate(Nothing, o) = Nothing
BY DEF Invalidate, Nothing

(* A pass that runs on a function is a step of the analysis managers.       *)
LEMMA FunctionPassManaged == ASSUME MInv, RunFunctionPass PROVE ANext
<1>1. PICK o \in Outcomes(Now.pass) : Apply(Now.mgr, Now.fun, o)
  BY DEF RunFunctionPass
<1>2. Now.pass \in Pass /\ Now.fun \in Fun /\ (Now.mgr = "Legacy" => ~Object("MAM"))
  BY AtPass DEF RunFunctionPass
<1>3. RunOn(Now.fun, o)
  <2>1. CASE Now.mgr = "Legacy"
    <3>1. ~proxied /\ cache = Cleared
      BY <1>2, <2>1, NotManaged
    <3>2. [cache EXCEPT ![Now.fun] = Invalidate(@, o)] = cache
      <4>1. [Cleared EXCEPT ![Now.fun] = Invalidate(@, o)] = Cleared
        BY <1>2, InvalidateNothing DEF Cleared
      <4> QED BY <3>1, <4>1
    <3> QED BY <1>1, <2>1, <3>2 DEF Apply, Unmanaged, RunOn
  <2>2. CASE Now.mgr # "Legacy"
    BY <1>1, <2>2 DEF Apply
  <2> QED BY <2>1, <2>2
<1> QED BY <1>2, <1>3 DEF ANext

(* A pass that runs on the module is a step of the analysis managers.       *)
LEMMA ModulePassManaged == ASSUME MInv, RunModulePass PROVE ANext
<1>1. PICK o \in Outcomes(Now.pass) :
        IF Now.mgr = "Legacy"
        THEN /\ version' = [f \in Fun |-> Touch(version[f], o)]
             /\ UNCHANGED <<cache, proxied>>
        ELSE RunOnModule(o)
  BY DEF RunModulePass
<1>2. Now.pass \in Pass /\ (Now.mgr = "Legacy" => ~Object("MAM"))
  BY AtPass DEF RunModulePass
<1>3. RunOnModule(o)
  <2>1. CASE Now.mgr = "Legacy"
    <3>1. ~proxied /\ cache = Cleared
      BY <1>2, <2>1, NotManaged
    <3> QED BY <1>1, <2>1, <3>1 DEF RunOnModule
  <2> QED BY <1>1, <2>1
<1> QED BY <1>2, <1>3 DEF ANext

(* A step of a program is a step of the analysis managers, or leaves them   *)
(* as they are.                                                             *)
LEMMA NextManaged == ASSUME MInv, Next PROVE [ANext]_avars
<1>1. CASE Destroy
  BY <1>1 DEF Destroy, ANext
<1>2. CASE Obtain
  BY <1>2, ObtainManaged DEF ANext
<1>3. CASE Terminated
  BY <1>3 DEF Terminated, vars
<1>4. CASE ~(Destroy \/ Obtain \/ Query \/ RunFunctionPass \/ RunModulePass \/ Terminated)
  BY <1>4 DEF Next, Construct, ObtainNull, RegisterPass, AddPass, AddFunctionPass, MoveFPM, Run,
     RunLegacy, Verify, Return, ReturnEarly, GoOn, ExitWith, Exit, LeaveScope
<1> QED BY <1>1, <1>2, <1>3, <1>4, QueryManaged, FunctionPassManaged, ModulePassManaged

(* The managers' steps keep their part of the invariant.                    *)
LEMMA AHeldStep == ASSUME AHeld, [ANext]_avars PROVE AHeld'
<1>0. /\ version \in [Fun -> [Aspect -> Nat]]
      /\ DOMAIN cache = Fun /\ \A f \in Fun : DOMAIN cache[f] = Key
      /\ proxied \in BOOLEAN /\ (~proxied => cache = Cleared)
  BY DEF AHeld, ATypeOK
<1> SUFFICES /\ version' \in [Fun -> [Aspect -> Nat]]
             /\ DOMAIN cache' = Fun /\ \A f \in Fun : DOMAIN cache'[f] = Key
             /\ proxied' \in BOOLEAN /\ (~proxied' => cache' = Cleared)
  BY DEF AHeld, ATypeOK, Cleared, Nothing
<1>1. \A o : \A v \in [Aspect -> Nat] : Touch(v, o) \in [Aspect -> Nat]
  BY DEF Touch
<1>2. DOMAIN Cleared = Fun /\ \A f \in Fun : DOMAIN Cleared[f] = Key
  BY DEF Cleared, Nothing
<1>3. CASE \E f \in Fun, k \in Key : GetResult(f, k)
  <2>1. PICK f \in Fun, k \in Key : GetResult(f, k)
    BY <1>3
  <2>2. DOMAIN cache' = Fun /\ \A g \in Fun : DOMAIN cache'[g] = Key
    BY <1>0, <2>1 DEF GetResult
  <2> QED BY <1>0, <2>1, <2>2 DEF GetResult
<1>4. CASE \E f \in Fun, p \in Pass : \E o \in Outcomes(p) : RunOn(f, o)
  <2>0. PICK f \in Fun : \E o : RunOn(f, o)
    BY <1>4
  <2>1. PICK o : RunOn(f, o)
    BY <2>0
  <2>2. DOMAIN cache' = Fun /\ \A g \in Fun : DOMAIN cache'[g] = Key
    BY <1>0, <2>1 DEF RunOn, Invalidate
  <2>3. version' \in [Fun -> [Aspect -> Nat]]
    BY <1>0, <1>1, <2>1 DEF RunOn
  <2>4. ~proxied' => cache' = Cleared
    <3> SUFFICES ASSUME ~proxied' PROVE cache' = Cleared
      OBVIOUS
    <3>1. cache = Cleared /\ cache[f] = Nothing
      BY <1>0, <2>1 DEF RunOn, Cleared
    <3>2. [Cleared EXCEPT ![f] = Nothing] = Cleared
      BY DEF Cleared
    <3> QED BY <2>1, <3>1, <3>2, InvalidateNothing DEF RunOn
  <2> QED BY <1>0, <2>1, <2>2, <2>3, <2>4 DEF RunOn
<1>5. CASE \E p \in Pass : \E o \in Outcomes(p) : RunOnModule(o)
  <2>1. PICK o : RunOnModule(o)
    BY <1>5
  <2>2. version' \in [Fun -> [Aspect -> Nat]]
    BY <1>0, <1>1, <2>1 DEF RunOnModule
  <2> QED BY <1>0, <1>2, <2>1, <2>2 DEF RunOnModule
<1>6. CASE GetProxy \/ UNCHANGED avars
  BY <1>0, <1>6 DEF GetProxy, avars
<1>7. CASE DropResults \/ DropProxy
  BY <1>0, <1>2, <1>7 DEF DropResults, DropProxy
<1>8. CASE NewFunctions
  <2>1. [f \in Fun |-> [a \in Aspect |-> 0]] \in [Fun -> [Aspect -> Nat]]
    OBVIOUS
  <2> QED BY <1>0, <1>8, <2>1 DEF NewFunctions
<1> QED BY <1>3, <1>4, <1>5, <1>6, <1>7, <1>8 DEF ANext

(***************************************************************************)
(* The rest of the invariant, action by action                             *)
(***************************************************************************)
Rest == Types /\ Ordered /\ Wires /\ Tells /\ PipelinesLogged /\ Running /\ Over

\* the objects are those of the shadow
LEMMA AtRule ==
  ASSUME MInv, outcome = "running", todo # <<>>,
         todo[1].do \notin {"query", "pass", "leave"}
  PROVE  \E S, d : /\ Mirrors(S, d, todo, <<>>) /\ d \in Shadow /\ GoesOn(main, S, d, todo)
                   /\ alive = d.alive /\ \A o : Has(d, o) <=> Object(o)
                   /\ d.status = "open"
                   /\ \/ DeclareRule(main, d, Now) \/ ModuleRule(main, d, Now)
                      \/ RegisterRule(main, d, Now) \/ PipelineRule(main, d, Now)
                      \/ RunRule(main, d, Now) \/ RunLegacyRule(main, d, Now)
                      \/ VerifyRule(main, d, Now) \/ ReturnRule(main, d, Now)
                      \/ ExitRule(main, d, Now)
<1>1. PICK S, d : Mirrors(S, d, todo, <<>>) /\ d \in Shadow /\ GoesOn(main, S, d, todo)
  BY AtProgram
<1>2. alive = d.alive
  BY <1>1 DEF Mirrors, Leaving
<1>3. \A o : Has(d, o) <=> Object(o)
  BY <1>2 DEF Has, Object
<1>4. ~LeaveRule(d, Now)
  BY DEF LeaveRule, Now
<1> QED BY <1>1, <1>2, <1>3, <1>4 DEF GoesOn, Allowed, Now

(* A statement of the program that changes the shadow as the rules say      *)
(* leads to a pair of the same closed set.                                  *)
LEMMA StepOn ==
  ASSUME NEW S, NEW d, NEW e, Mirrors(S, d, todo, <<>>), GoesOn(main, S, d, todo), todo # <<>>,
         ~Dangles(main, d, Now), e = After(d, Now),
         todo' = Tail(todo), program' = program, alive' = e.alive, Matches(e)'
  PROVE  Running'
<1>1. PICK c : c = Tail(todo)
  OBVIOUS
<1>2. Closed(main, S) /\ <<e, c>> \in S
  BY <1>1 DEF Mirrors, GoesOn, Now
<1>3. \E T : c \in Seq(T)
  BY <1>2 DEF Closed
<1>4. todo' = <<>> \o c
  BY <1>1, <1>3, ConcatEmptySeq
<1>5. Busy(e, <<>>)'
  BY DEF Busy
<1>6. Mirrors(S, e, c, <<>>)'
  BY <1>2, <1>4, <1>5 DEF Mirrors, main
<1> QED BY <1>6 DEF Running

(* Declaring an object keeps the invariant.                                 *)
LEMMA ConstructInv == ASSUME MInv, Construct PROVE Rest'
<1>1. PICK S, d : /\ Mirrors(S, d, todo, <<>>) /\ d \in Shadow /\ GoesOn(main, S, d, todo)
                  /\ alive = d.alive /\ (\A o : Has(d, o) <=> Object(o))
                  /\ d.status = "open" /\ DeclareRule(main, d, Now)
  BY AtRule DEF Construct, At, Now, ModuleRule, RegisterRule, PipelineRule, RunRule,
     RunLegacyRule, VerifyRule, ReturnRule, ExitRule
<1>2. Now.do = "declare" /\ outcome = "running" /\ todo # <<>>
  BY DEF Construct, At, Now
<1>3. /\ program' = program /\ todo' = Tail(todo) /\ outcome' = outcome
      /\ alive' = Append(alive, Now.obj)
      /\ UNCHANGED <<asked, ran, logged, broken, damage, hadError, status, proxied>>
  BY DEF Construct, Step, work, result, avars
<1>4. main' = main
  BY <1>3 DEF main
<1>5. /\ alive \in Seq(Objects) /\ Now.obj \in Objects /\ Len(alive) < 11
  BY <1>1 DEF MInv, Types, DeclareRule
<1>6. /\ alive' \in Seq(Objects) /\ Len(alive') = Len(alive) + 1
      /\ \A i \in 1 .. Len(alive) : alive'[i] = alive[i]
      /\ alive'[Len(alive) + 1] = Now.obj
  BY <1>3, <1>5, AppendProperties
<1>7. \A o : Object(o)' <=> Object(o) \/ o = Now.obj
  BY <1>5, <1>6 DEF Object
<1>8. reg' = IF Now.obj \in Manager THEN [reg EXCEPT ![Now.obj] = Unregistered[Now.obj]] ELSE reg
  BY DEF Construct
<1>9. \A m \in Manager, k \in Analysis :
        reg'[m][k] = IF m = Now.obj THEN None ELSE reg[m][k]
  BY <1>8 DEF MInv, Types, Unregistered
<1>10. Types'
  <2>1. DOMAIN reg' = Manager /\ \A m \in Manager : DOMAIN reg'[m] = Analysis
    BY <1>8 DEF MInv, Types, Unregistered
  <2> QED BY <1>3, <1>5, <1>6, <2>1 DEF MInv, Types
<1>11. Ordered'
  <2> SUFFICES ASSUME NEW i \in 1 .. Len(alive) + 1
               PROVE  /\ alive'[i] = "MAM" => \E j \in 1 .. i - 1 : alive'[j] = "FAM"
                      /\ alive'[i] \in Modules /\ main # "use_after_free"
                           => \E j \in 1 .. i - 1 : alive'[j] = "Context"
    BY <1>4, <1>6 DEF Ordered
  <2>1. CASE i \in 1 .. Len(alive)
    <3>1. \A j \in 1 .. i - 1 : alive'[j] = alive[j]
      BY <2>1, <1>5, <1>6
    <3> QED BY <2>1, <3>1, <1>5, <1>6 DEF MInv, Ordered
  <2>2. CASE i = Len(alive) + 1
    <3>1. \A o : Object(o) => \E j \in 1 .. i - 1 : alive'[j] = o
      BY <2>2, <1>5, <1>6 DEF Object
    <3> QED BY <2>2, <3>1, <1>1, <1>6 DEF DeclareRule
  <2> QED BY <2>1, <2>2, <1>5
<1>12. Wires'
  <2>1. proxied => Object("MAM")' /\ reg'["MAM"]["FunctionProxy"] = "FAM"
    <3> SUFFICES ASSUME proxied PROVE Object("MAM")' /\ reg'["MAM"]["FunctionProxy"] = "FAM"
      OBVIOUS
    <3>1. Object("MAM") /\ reg["MAM"]["FunctionProxy"] = "FAM"
      BY DEF MInv, Wires
    <3>2. Now.obj # "MAM"
      BY <3>1, <1>1 DEF DeclareRule
    <3> QED BY <3>1, <3>2, <1>7, <1>9 DEF Manager, Analysis
  <2>2. reg'["MAM"]["FunctionProxy"] \in {None, "FAM"}
    BY <1>9 DEF MInv, Wires, Manager, Analysis
  <2>3. main = "your_first_pipeline" => \A m \in Manager : reg'[m]["PassInstrumentation"] \in {None, "PIC"}
    BY <1>9 DEF MInv, Wires, Analysis
  <2>4. mpm' \in Seq(Element(main)) /\ fpm' \in Seq(FunctionPass(main))
    BY DEF MInv, Wires, Construct
  <2> HIDE DEF main
  <2>5. Element(main') = Element(main) /\ FunctionPass(main') = FunctionPass(main)
    BY <1>4
  <2> QED BY <1>3, <1>4, <2>1, <2>2, <2>3, <2>4, <2>5 DEF Wires
<1>13. Tells'
  BY <1>3, <1>4 DEF MInv, Tells
<1>14. PipelinesLogged'
  <2> SUFFICES ASSUME main = "your_first_pipeline", Object("PIC")', NEW f \in Fun, NEW i \in DOMAIN ran'[f]
               PROVE  <<ran'[f][i], f>> \in logged'
    BY <1>4 DEF PipelinesLogged, EachPassLogged, main
  <2>1. CASE Object("PIC")
    BY <1>3, <2>1 DEF MInv, PipelinesLogged, EachPassLogged, main
  <2>2. CASE Now.obj = "PIC"
    <3>1. ran = Untouched
      BY <1>1, <2>2 DEF DeclareRule, Mirrors, Matches
    <3> QED BY <3>1, <1>3 DEF Untouched
  <2> QED BY <2>1, <2>2, <1>7
<1>15. Running'
  <2>1. PICK e : e = After(d, Now)
    OBVIOUS
  <2>2. e = [d EXCEPT !.alive = Append(@, Now.obj), !.regs = { r \in @ : r[1] # Now.obj }]
    BY <1>2, <2>1 DEF After
  <2>3. /\ e.alive = Append(d.alive, Now.obj) /\ e.regs = { r \in d.regs : r[1] # Now.obj }
        /\ e.unverified = d.unverified /\ e.untouched = d.untouched /\ e.status = d.status
    BY <2>2, <1>1 DEF Shadow
  <2>4. \A r \in e.regs : r[1] \in Manager /\ r[2] \in Analysis
    BY <2>3, <1>1 DEF Shadow
  <2>5. Matches(e)'
    BY <2>3, <2>4, <1>1, <1>3, <1>4, <1>9 DEF Mirrors, Matches
  <2>6. ~Dangles(main, d, Now)
    BY <1>2 DEF Dangles
  <2> QED BY <1>1, <1>2, <1>3, <2>1, <2>3, <2>5, <2>6, StepOn
<1>16. Over'
  BY <1>2, <1>3 DEF Over
<1> QED BY <1>10, <1>11, <1>12, <1>13, <1>14, <1>15, <1>16 DEF Rest

(***************************************************************************)
(* What the managers put in front of a program                             *)
(***************************************************************************)
LEMMA RequiresType == ASSUME NEW p PROVE Requires(p) \in Seq(Analysis)
<1>1. CASE p \in {"Promote", "InstCombine"}
  BY <1>1 DEF Requires, Analysis
<1>2. CASE p = "PrintFnStats"
  BY <1>2 DEF Requires, Analysis
<1>3. CASE p = "AlwaysInliner"
  BY <1>3 DEF Requires, Analysis
<1>4. CASE p \notin {"Promote", "InstCombine", "PrintFnStats", "AlwaysInliner"}
  BY <1>4 DEF Requires, Analysis
<1> QED BY <1>1, <1>2, <1>3, <1>4

\* the statements of the managers of the new kind
NewWork == Queries \cup PassesOn(Manager)

(* What a pass asks for and the pass itself are work the managers may put   *)
(* in front.                                                                *)
LEMMA PassWithNeedsType ==
  ASSUME NEW p \in Pass, NEW f \in Fun \cup {None}, NEW m \in Manager,
         Served(main, p, IF f = None THEN "MAM" ELSE "FAM")
  PROVE  PassWithNeeds(p, f, m) \in Seq(NewWork)
<1> DEFINE n == IF f = None THEN "MAM" ELSE "FAM"
           s == [i \in DOMAIN Requires(p) |-> Ask(n, f, Requires(p)[i])]
<1>1. Requires(p) \in Seq(Analysis)
  BY RequiresType
<1>2. ASSUME NEW i \in DOMAIN Requires(p) PROVE Ask(n, f, Requires(p)[i]) \in Queries
  <2>1. Requires(p)[i] \in Analysis
    BY <1>1
  <2>2. {<<n, Requires(p)[i]>>, <<n, "PassInstrumentation">>} \subseteq Offered(main)
    BY DEF Served
  <2>3. n \in Manager /\ (n = "FAM" => f \in Fun)
    BY DEF Manager
  <2> QED BY <2>1, <2>2, <2>3 DEF Queries, Ask
<1>3. s \in Seq(NewWork)
  <2> HIDE DEF n
  <2>1. DOMAIN Requires(p) = 1 .. Len(Requires(p)) /\ Len(Requires(p)) \in Nat
    BY <1>1
  <2> QED BY <1>2, <2>1, IsASeq DEF NewWork
<1>4. PassOn(p, f, m) \in NewWork
  BY DEF NewWork, PassesOn, PassOn
<1>5. <<PassOn(p, f, m)>> \in Seq(NewWork)
  <2> HIDE DEF NewWork
  <2> QED BY <1>4
<1>6. PassWithNeeds(p, f, m) = s \o <<PassOn(p, f, m)>>
  BY DEF PassWithNeeds
<1> HIDE DEF s
<1> QED BY <1>3, <1>5, <1>6, ConcatProperties

(* The question for the instrumentation is such work too.                   *)
LEMMA InstrumentationAsked ==
  ASSUME NEW m \in Manager, NEW f \in Fun \cup {None}, m = "FAM" => f \in Fun,
         <<m, "PassInstrumentation">> \in Offered(main)
  PROVE  Ask(m, f, "PassInstrumentation") \in NewWork
BY DEF NewWork, Queries, Ask, Analysis

(* Every main offers the instrumentation and the proxy on the module.       *)
LEMMA ManagerOffers ==
  {<<"MAM", "PassInstrumentation">>, <<"MAM", "FunctionProxy">>} \subseteq Offered(main)
BY DEF Offered

(* A function pass manager's run on a function is such work.                *)
LEMMA FunctionManagerRunType ==
  ASSUME NEW ps \in Seq(FunctionPass(main)), NEW f \in Fun,
         <<"FAM", "PassInstrumentation">> \in Offered(main)
  PROVE  FunctionManagerRun(ps, f) \in Seq(NewWork)
<1> DEFINE ss == [i \in DOMAIN ps |-> PassWithNeeds(ps[i], f, "FAM")]
<1>1. ASSUME NEW i \in DOMAIN ps PROVE PassWithNeeds(ps[i], f, "FAM") \in Seq(NewWork)
  <2>1. ps[i] \in FunctionPass(main)
    OBVIOUS
  <2>2. f # None
    BY NoneAssumption
  <2> QED BY <2>1, <2>2, PassWithNeedsType DEF FunctionPass, Manager
<1>2. ss \in Seq(Seq(NewWork))
  <2>1. DOMAIN ps = 1 .. Len(ps) /\ Len(ps) \in Nat
    OBVIOUS
  <2> QED BY <1>1, <2>1, IsASeq
<1>3. FlattenSeq(ss) \in Seq(NewWork)
  BY <1>2, FlattenSeqType
<1>4. Ask("FAM", f, "PassInstrumentation") \in NewWork
  BY InstrumentationAsked DEF Manager
<1>5. <<Ask("FAM", f, "PassInstrumentation")>> \in Seq(NewWork)
  <2> HIDE DEF NewWork
  <2> QED BY <1>4
<1>6. FunctionManagerRun(ps, f) = <<Ask("FAM", f, "PassInstrumentation")>> \o FlattenSeq(ss)
  BY DEF FunctionManagerRun, Each
<1> HIDE DEF ss
<1> QED BY <1>3, <1>5, <1>6, ConcatProperties

(* An adaptor's run on the functions of the module is such work.            *)
LEMMA AdaptorRunType ==
  ASSUME NEW e \in Element(main), e.kind # "module"
  PROVE  AdaptorRun(e, Layout) \in Seq(NewWork)
<1> DEFINE run(f) == IF e.kind = "manager" THEN FunctionManagerRun(e.passes, f)
                     ELSE PassWithNeeds(e.passes[1], f, "MAM")
           ss == [i \in DOMAIN Layout |-> run(Layout[i])]
<1>1. ASSUME NEW i \in DOMAIN Layout PROVE run(Layout[i]) \in Seq(NewWork)
  <2>1. Layout[i] \in Fun /\ Layout[i] # None
    BY LayoutAssumption, NoneAssumption
  <2>2. CASE e.kind = "manager"
    BY <2>1, <2>2, FunctionManagerRunType DEF Element
  <2>3. CASE e.kind = "function"
    <3>1. e.passes \in Seq(Pass) /\ e.passes # <<>> /\ Served(main, e.passes[1], "FAM")
      BY <2>3 DEF Element
    <3>2. e.passes[1] \in Pass
      BY <3>1, EmptySeq, ElementOfSeq
    <3> QED BY <2>1, <2>3, <3>1, <3>2, PassWithNeedsType DEF Manager
  <2> QED BY <2>2, <2>3 DEF Element
<1>2. ss \in Seq(Seq(NewWork))
  <2> HIDE DEF run
  <2>1. DOMAIN Layout = 1 .. Len(Layout) /\ Len(Layout) \in Nat
    BY LayoutAssumption
  <2> QED BY <1>1, <2>1, IsASeq
<1>3. FlattenSeq(ss) \in Seq(NewWork)
  BY <1>2, FlattenSeqType
<1>4. Ask("MAM", None, "FunctionProxy") \in NewWork
  BY ManagerOffers DEF NewWork, Queries, Ask, Analysis, Manager
<1>5. Ask("MAM", None, "PassInstrumentation") \in NewWork
  BY ManagerOffers, InstrumentationAsked DEF Manager
<1>6. <<Ask("MAM", None, "FunctionProxy"), Ask("MAM", None, "PassInstrumentation")>> \in Seq(NewWork)
  <2> HIDE DEF NewWork
  <2> QED BY <1>4, <1>5
<1>7. AdaptorRun(e, Layout)
      = <<Ask("MAM", None, "FunctionProxy"), Ask("MAM", None, "PassInstrumentation")>> \o FlattenSeq(ss)
  BY DEF AdaptorRun, Each
<1> HIDE DEF ss
<1> QED BY <1>3, <1>6, <1>7, ConcatProperties

(* The module pass manager's run is such work.                              *)
LEMMA ModuleManagerRunType ==
  ASSUME mpm \in Seq(Element(main))
  PROVE  ModuleManagerRun(mpm, Layout) \in Seq(NewWork)
<1> DEFINE run(e) == IF e.kind = "module" THEN PassWithNeeds(e.passes[1], None, "MAM")
                     ELSE AdaptorRun(e, Layout)
           ss == [i \in DOMAIN mpm |-> run(mpm[i])]
<1>1. ASSUME NEW e \in Element(main) PROVE run(e) \in Seq(NewWork)
  <2>1. CASE e.kind = "module"
    <3>1. e.passes \in Seq(Pass) /\ e.passes # <<>> /\ Served(main, e.passes[1], "MAM")
      BY <2>1 DEF Element
    <3>2. e.passes[1] \in Pass
      BY <3>1, EmptySeq, ElementOfSeq
    <3> QED BY <2>1, <3>1, <3>2, PassWithNeedsType DEF Manager
  <2> QED BY <2>1, AdaptorRunType
<1>2. ss \in Seq(Seq(NewWork))
  <2> HIDE DEF run
  <2>1. DOMAIN mpm = 1 .. Len(mpm) /\ Len(mpm) \in Nat /\ \A i \in DOMAIN mpm : mpm[i] \in Element(main)
    OBVIOUS
  <2> QED BY <1>1, <2>1, IsASeq
<1>3. FlattenSeq(ss) \in Seq(NewWork)
  BY <1>2, FlattenSeqType
<1>4. Ask("MAM", None, "PassInstrumentation") \in NewWork
  BY ManagerOffers, InstrumentationAsked DEF Manager
<1>5. <<Ask("MAM", None, "PassInstrumentation")>> \in Seq(NewWork)
  <2> HIDE DEF NewWork
  <2> QED BY <1>4
<1>6. ModuleManagerRun(mpm, Layout) = <<Ask("MAM", None, "PassInstrumentation")>> \o FlattenSeq(ss)
  BY DEF ModuleManagerRun, Each
<1> HIDE DEF ss
<1> QED BY <1>3, <1>5, <1>6, ConcatProperties

(* The legacy manager's run is passes of the legacy kind.                   *)
LEMMA LegacyManagerRunType ==
  ASSUME NEW ps \in Seq(Pass)
  PROVE  LegacyManagerRun(ps, Layout) \in Seq(PassesOn({"Legacy"}))
<1> DEFINE W == PassesOn({"Legacy"})
           upto == { i \in DOMAIN ps : ps[i] \in ModulePasses }
           n == IF upto = {} THEN Len(ps) ELSE (CHOOSE i \in upto : \A j \in upto : i <= j) - 1
           batch(f) == [i \in DOMAIN SubSeq(ps, 1, n) |-> PassOn(SubSeq(ps, 1, n)[i], f, "Legacy")]
           ss == [i \in DOMAIN Layout |-> batch(Layout[i])]
           rest == [i \in 1 .. Len(ps) - n |-> PassOn(ps[n + i], None, "Legacy")]
<1>1. \A p \in Pass, f \in Fun \cup {None} : PassOn(p, f, "Legacy") \in W
  BY DEF PassesOn, PassOn
<1>2. n \in 0 .. Len(ps)
  <2>1. CASE upto = {}
    BY <2>1
  <2>2. CASE upto # {}
    <3>1. upto \subseteq Nat
      OBVIOUS
    <3>2. \E i \in upto : \A j \in upto : i <= j
      BY <2>2, <3>1, LeastNumber
    <3>3. (CHOOSE i \in upto : \A j \in upto : i <= j) \in 1 .. Len(ps)
      BY <3>2
    <3> QED BY <2>2, <3>3
  <2> QED BY <2>1, <2>2
<1> HIDE DEF n, W
<1>3. SubSeq(ps, 1, n) \in Seq(Pass)
  BY <1>2, SubSeqProperties
<1>4. ASSUME NEW f \in Fun PROVE batch(f) \in Seq(W)
  <2>1. PICK t : t = SubSeq(ps, 1, n)
    OBVIOUS
  <2>2. t \in Seq(Pass) /\ DOMAIN t = 1 .. Len(t) /\ Len(t) \in Nat
    BY <1>3, <2>1
  <2>3. [i \in DOMAIN t |-> PassOn(t[i], f, "Legacy")] \in Seq(W)
    BY <1>1, <2>2, IsASeq
  <2> QED BY <2>1, <2>3
<1>5. ss \in Seq(Seq(W))
  <2> HIDE DEF batch
  <2>1. DOMAIN Layout = 1 .. Len(Layout) /\ Len(Layout) \in Nat /\ \A i \in DOMAIN Layout : Layout[i] \in Fun
    BY LayoutAssumption
  <2> QED BY <1>4, <2>1, IsASeq
<1>6. FlattenSeq(ss) \in Seq(W)
  BY <1>5, FlattenSeqType
<1>7. rest \in Seq(W)
  <2>1. Len(ps) - n \in Nat /\ \A i \in 1 .. Len(ps) - n : ps[n + i] \in Pass
    BY <1>2
  <2> QED BY <1>1, <2>1, IsASeq
<1>8. LegacyManagerRun(ps, Layout) = FlattenSeq(ss) \o rest
  BY DEF LegacyManagerRun, LegacyBatch, Each, n
<1> HIDE DEF ss, rest
<1> QED BY <1>6, <1>7, <1>8, ConcatProperties DEF W

(***************************************************************************)
(* The rest of the invariant, action by action                             *)
(***************************************************************************)
(* A program arrives at a pair of a closed set.                             *)
LEMMA Arrive ==
  ASSUME NEW S, NEW e, NEW c, Closed(main, S), <<e, c>> \in S,
         todo' = c, program' = program, alive' = e.alive, Matches(e)'
  PROVE  Running'
<1>1. \E T : c \in Seq(T)
  BY DEF Closed
<1>2. todo' = <<>> \o c
  BY <1>1, ConcatEmptySeq
<1>3. Busy(e, <<>>)'
  BY DEF Busy
<1>4. Mirrors(S, e, c, <<>>)'
  BY <1>2, <1>3 DEF Mirrors, main
<1> QED BY <1>4 DEF Running

(* What relates the objects to what is registered holds as long as neither  *)
(* changes.                                                                 *)
LEMMA KeepWires ==
  ASSUME MInv, UNCHANGED <<program, alive, reg, mpm, fpm, proxied>>
  PROVE  Ordered' /\ Wires'
<1>1. main' = main
  BY DEF main
<1> HIDE DEF main
<1>2. Element(main') = Element(main) /\ FunctionPass(main') = FunctionPass(main)
  BY <1>1
<1> QED BY <1>1, <1>2 DEF MInv, Ordered, Wires, Object

(* What is said of the work done holds as long as no pass runs.             *)
LEMMA KeepWork ==
  ASSUME MInv, UNCHANGED <<program, alive, ran, logged, broken, damage>>
  PROVE  PipelinesLogged' /\ (hadError' = hadError => Tells')
BY DEF MInv, PipelinesLogged, EachPassLogged, Object, Tells, main

(* Types hold as long as nothing they are about changes.                    *)
LEMMA KeepTypes ==
  ASSUME MInv,
         UNCHANGED <<program, alive, reg, ran, logged, broken, damage, hadError, status, outcome>>
  PROVE  Types'
BY DEF MInv, Types

(* A shadow stands for the state as long as nothing it tells of changes.    *)
LEMMA KeepMatches ==
  ASSUME NEW d, Matches(d), UNCHANGED <<program, reg, ran, damage, hadError, status>>
  PROVE  Matches(d)'
BY DEF Matches, main

(* A program that runs is not over.                                         *)
LEMMA KeepOver == ASSUME outcome = "running", outcome' = "running" PROVE Over'
BY DEF Over

(* Obtaining another module to work on keeps the invariant.                 *)
LEMMA ObtainInv == ASSUME MInv, Obtain PROVE Rest'
<1>1. PICK S, d : /\ Mirrors(S, d, todo, <<>>) /\ d \in Shadow /\ GoesOn(main, S, d, todo)
                  /\ alive = d.alive /\ (\A o : Has(d, o) <=> Object(o))
                  /\ d.status = "open" /\ ModuleRule(main, d, Now)
  BY AtRule DEF Obtain, At, Now, DeclareRule, RegisterRule, PipelineRule, RunRule,
     RunLegacyRule, VerifyRule, ReturnRule, ExitRule
<1>2. Now.do = "module" /\ outcome = "running" /\ todo # <<>>
  BY DEF Obtain, At, Now
<1>3. /\ program' = program /\ todo' = Tail(todo) /\ outcome' = outcome
      /\ alive' = IF Object(Now.obj) THEN alive ELSE Append(alive, Now.obj)
      /\ ran' = Untouched /\ logged' = {} /\ broken' \subseteq Fun
      /\ Now.sound => broken' = {}
      /\ damage' = (damage \/ broken' # {})
      /\ UNCHANGED <<reg, mpm, fpm, hadError, status, proxied>>
  BY DEF Obtain, Step, wiring, result
<1>4. main' = main
  BY <1>3 DEF main
<1>5. /\ alive \in Seq(Objects) /\ Now.obj \in Objects /\ Len(alive) < 11
  <2>1. \A o \in Modules : o \in Objects
    BY DEF Modules, Objects
  <2> QED BY <2>1, <1>1 DEF MInv, Types, ModuleRule
<1>6. ASSUME ~Object(Now.obj)
      PROVE  /\ alive' \in Seq(Objects) /\ Len(alive') = Len(alive) + 1
             /\ \A i \in 1 .. Len(alive) : alive'[i] = alive[i]
             /\ alive'[Len(alive) + 1] = Now.obj
  BY <1>3, <1>5, <1>6, AppendProperties
<1>7. \A o : Object(o) => Object(o)'
  BY <1>3, <1>5, <1>6 DEF Object
<1>8. Types'
  <2>1. ran' \in [Fun -> Seq(Pass)]
    BY <1>3 DEF Untouched
  <2>2. alive' \in Seq(Objects) /\ Len(alive') <= 11
    BY <1>3, <1>5, <1>6
  <2> QED BY <1>3, <2>1, <2>2 DEF MInv, Types
<1>9. Ordered'
  <2>1. CASE Object(Now.obj)
    BY <1>3, <1>4, <2>1 DEF MInv, Ordered
  <2>2. CASE ~Object(Now.obj)
    <3> SUFFICES ASSUME NEW i \in 1 .. Len(alive) + 1
                 PROVE  /\ alive'[i] = "MAM" => \E j \in 1 .. i - 1 : alive'[j] = "FAM"
                        /\ alive'[i] \in Modules /\ main # "use_after_free"
                             => \E j \in 1 .. i - 1 : alive'[j] = "Context"
      BY <1>4, <1>6, <2>2 DEF Ordered
    <3>1. CASE i \in 1 .. Len(alive)
      <4>1. \A j \in 1 .. i - 1 : alive'[j] = alive[j]
        BY <2>2, <3>1, <1>5, <1>6
      <4> QED BY <2>2, <3>1, <4>1, <1>5, <1>6 DEF MInv, Ordered
    <3>2. CASE i = Len(alive) + 1
      <4>1. \A o : Object(o) => \E j \in 1 .. i - 1 : alive'[j] = o
        BY <2>2, <3>2, <1>5, <1>6 DEF Object
      <4>2. Now.obj # "MAM"
        BY <1>1 DEF ModuleRule, Modules
      <4> QED BY <2>2, <3>2, <4>1, <4>2, <1>1, <1>6 DEF ModuleRule
    <3> QED BY <3>1, <3>2, <1>5
  <2> QED BY <2>1, <2>2
<1>10. Wires'
  <2> HIDE DEF main
  <2>1. Element(main') = Element(main) /\ FunctionPass(main') = FunctionPass(main)
    BY <1>4
  <2> QED BY <1>3, <1>4, <1>7, <2>1 DEF MInv, Wires
<1>11. main \in Telling => (damage <=> hadError)
  BY <1>1 DEF ModuleRule, Mirrors, Matches, MInv, Tells, Types
<1>12. Tells'
  BY <1>3, <1>4, <1>11 DEF Tells
<1>13. PipelinesLogged'
  BY <1>3 DEF PipelinesLogged, EachPassLogged, Untouched
<1>14. Running'
  <2>1. PICK e : e = After(d, Now)
    OBVIOUS
  <2>2. e = [d EXCEPT !.alive = IF Has(d, Now.obj) THEN @ ELSE Append(@, Now.obj),
                      !.unverified = ~Now.sound, !.untouched = TRUE]
    BY <1>2, <2>1 DEF After
  <2>3. /\ e.alive = alive' /\ e.regs = d.regs /\ e.unverified = ~Now.sound /\ e.status = d.status
    BY <2>2, <1>1, <1>3 DEF Shadow
  <2>4. Matches(e)'
    BY <2>3, <1>1, <1>3, <1>4, <1>11 DEF Mirrors, Matches
  <2>5. ~Dangles(main, d, Now)
    BY <1>2 DEF Dangles
  <2> QED BY <1>1, <1>2, <1>3, <2>1, <2>3, <2>4, <2>5, StepOn
<1>15. Over'
  BY <1>2, <1>3, KeepOver
<1> QED BY <1>8, <1>9, <1>10, <1>12, <1>13, <1>14, <1>15 DEF Rest

(* So does finding no module, and taking another path.                      *)
LEMMA ObtainNullInv == ASSUME MInv, ObtainNull PROVE Rest'
<1>1. PICK S, d : /\ Mirrors(S, d, todo, <<>>) /\ d \in Shadow /\ GoesOn(main, S, d, todo)
                  /\ alive = d.alive
                  /\ d.status = "open" /\ ModuleRule(main, d, Now)
  BY AtRule DEF ObtainNull, At, Now, DeclareRule, RegisterRule, PipelineRule, RunRule,
     RunLegacyRule, VerifyRule, ReturnRule, ExitRule
<1>2. Now.do = "module" /\ outcome = "running" /\ todo # <<>> /\ Now.orelse # <<>>
  BY DEF ObtainNull, At, Now
<1>3. /\ todo' = Now.orelse /\ status' = Now.status
      /\ UNCHANGED <<program, outcome, alive, reg, mpm, fpm, ran, logged, broken, damage, hadError, proxied>>
  BY DEF ObtainNull, wiring, work, avars
<1>4. PICK e, c : e = Early(d, Now.status) /\ c = Now.orelse
  OBVIOUS
<1>5. <<e, c>> \in S
  BY <1>1, <1>2, <1>4 DEF GoesOn, Now
<1>6. /\ e.alive = alive /\ e.regs = d.regs /\ e.unverified = d.unverified /\ e.untouched = d.untouched
      /\ e.status = IF Now.status = None THEN "open" ELSE "early"
  BY <1>1, <1>4 DEF Early, Shadow
<1>7. Matches(e)'
  <2>1. main' = main
    BY <1>3 DEF main
  <2>2. Now.status \in {None, 1, 255} /\ (main \in Telling => Now.status # 1)
    BY <1>1 DEF ModuleRule
  <2> QED BY <2>1, <2>2, <1>1, <1>3, <1>6 DEF Mirrors, Matches
<1>8. Running'
  BY <1>1, <1>3, <1>4, <1>5, <1>6, <1>7, Arrive DEF Mirrors
<1>9. Types'
  BY <1>1, <1>3 DEF MInv, Types, ModuleRule
<1> QED BY <1>2, <1>3, <1>8, <1>9, KeepWires, KeepWork, KeepOver DEF Rest

(* So does registering an analysis.                                         *)
LEMMA RegisterInv == ASSUME MInv, RegisterPass PROVE Rest'
<1>1. PICK S, d : /\ Mirrors(S, d, todo, <<>>) /\ d \in Shadow /\ GoesOn(main, S, d, todo)
                  /\ alive = d.alive
                  /\ d.status = "open" /\ RegisterRule(main, d, Now)
  BY AtRule DEF RegisterPass, At, Now, DeclareRule, ModuleRule, PipelineRule, RunRule,
     RunLegacyRule, VerifyRule, ReturnRule, ExitRule
<1>2. Now.do = "register" /\ outcome = "running" /\ todo # <<>>
  BY DEF RegisterPass, At, Now
<1>3. /\ todo' = Tail(todo)
      /\ UNCHANGED <<program, outcome, alive, mpm, fpm, ran, logged, broken, damage, hadError, status, proxied>>
  BY DEF RegisterPass, Step, work, result, avars
<1>4. Now.mgr \in Manager /\ Now.key \in Analysis /\ Now.by # None
  BY <1>1 DEF RegisterRule
<1>5. /\ DOMAIN reg' = Manager /\ \A m \in Manager : DOMAIN reg'[m] = Analysis
      /\ \A m \in Manager, k \in Analysis :
           reg'[m][k] = IF m = Now.mgr /\ k = Now.key /\ reg[m][k] = None THEN Now.by ELSE reg[m][k]
  BY <1>4 DEF RegisterPass, MInv, Types
<1>6. main' = main
  BY <1>3 DEF main
<1>7. Types'
  BY <1>3, <1>5 DEF MInv, Types
<1>8. Ordered'
  BY <1>3, <1>6 DEF MInv, Ordered
<1>9. \A r \in d.regs : r[1] \in Manager /\ r[2] \in Analysis /\ reg[r[1]][r[2]] # None
  BY <1>1 DEF Shadow, Mirrors, Matches
<1>10. Wires'
  <2>1. proxied => reg'["MAM"]["FunctionProxy"] = "FAM"
    BY <1>5, NoneAssumption DEF MInv, Wires, Manager, Analysis
  <2>2. reg'["MAM"]["FunctionProxy"] \in {None, "FAM"}
    BY <1>1, <1>5 DEF MInv, Wires, RegisterRule, Manager, Analysis
  <2>3. ASSUME main = "your_first_pipeline", NEW m \in Manager
        PROVE  reg'[m]["PassInstrumentation"] \in {None, "PIC"}
    <3>1. reg[m]["PassInstrumentation"] \in {None, "PIC"}
      BY <2>3 DEF MInv, Wires
    <3>2. CASE m = Now.mgr /\ Now.key = "PassInstrumentation" /\ reg[m]["PassInstrumentation"] = None
      <4>1. Now.by = "PIC"
        BY <2>3, <3>2, <1>1, <1>9 DEF RegisterRule
      <4> QED BY <4>1, <3>2, <1>5 DEF Analysis
    <3>3. CASE ~(m = Now.mgr /\ Now.key = "PassInstrumentation" /\ reg[m]["PassInstrumentation"] = None)
      BY <3>1, <3>3, <1>5 DEF Analysis
    <3> QED BY <3>2, <3>3
  <2>4. mpm' \in Seq(Element(main)) /\ fpm' \in Seq(FunctionPass(main))
    BY <1>3 DEF MInv, Wires
  <2>5. Object("MAM")' <=> Object("MAM")
    BY <1>3 DEF Object
  <2> HIDE DEF main
  <2>6. Element(main') = Element(main) /\ FunctionPass(main') = FunctionPass(main)
    BY <1>6
  <2> QED BY <1>3, <1>6, <2>1, <2>2, <2>3, <2>4, <2>5, <2>6 DEF MInv, Wires
<1>11. Running'
  <2>1. PICK e : e = After(d, Now)
    OBVIOUS
  <2>2. e = [d EXCEPT !.regs = @ \cup {<<Now.mgr, Now.key>>}]
    BY <1>2, <2>1 DEF After
  <2>3. /\ e.alive = alive' /\ e.regs = d.regs \cup {<<Now.mgr, Now.key>>}
        /\ e.unverified = d.unverified /\ e.untouched = d.untouched /\ e.status = d.status
    BY <2>2, <1>1, <1>3 DEF Shadow
  <2>4. \A r \in e.regs : reg'[r[1]][r[2]] # None
    BY <2>3, <1>4, <1>5, <1>9
  <2>5. Matches(e)'
    BY <2>3, <2>4, <1>1, <1>3, <1>6 DEF Mirrors, Matches
  <2>6. ~Dangles(main, d, Now)
    BY <1>2 DEF Dangles
  <2> QED BY <1>1, <1>2, <1>3, <2>1, <2>3, <2>5, <2>6, StepOn
<1> QED BY <1>2, <1>3, <1>7, <1>8, <1>10, <1>11, KeepWork, KeepOver DEF Rest

(* So does adding to a pipeline.                                            *)
LEMMA AddInv == ASSUME MInv, AddPass \/ AddFunctionPass \/ MoveFPM PROVE Rest'
<1>0. /\ Now.do \in {"add", "addToFPM", "moveFPM"} /\ outcome = "running" /\ todo # <<>>
      /\ todo' = Tail(todo)
      /\ UNCHANGED <<program, outcome, alive, reg, ran, logged, broken, damage, hadError, status, proxied>>
  BY DEF AddPass, AddFunctionPass, MoveFPM, At, Now, Step, work, result, avars
<1>1. PICK S, d : /\ Mirrors(S, d, todo, <<>>) /\ d \in Shadow /\ GoesOn(main, S, d, todo)
                  /\ alive = d.alive /\ PipelineRule(main, d, Now)
  BY <1>0, AtRule DEF Now, DeclareRule, ModuleRule, RegisterRule, RunRule,
     RunLegacyRule, VerifyRule, ReturnRule, ExitRule
<1>2. main' = main
  BY <1>0 DEF main
<1>3. mpm' \in Seq(Element(main)) /\ fpm' \in Seq(FunctionPass(main))
  <2>0. mpm \in Seq(Element(main)) /\ fpm \in Seq(FunctionPass(main))
    BY DEF MInv, Wires
  <2>1. CASE AddPass
    <3>1. Now.elem \in Element(main)
      BY <1>1, <2>1 DEF AddPass, At, Now, PipelineRule
    <3> QED BY <2>0, <2>1, <3>1, AppendProperties DEF AddPass
  <2>2. CASE AddFunctionPass
    <3>1. Now.pass \in FunctionPass(main)
      BY <1>1, <2>2 DEF AddFunctionPass, At, Now, PipelineRule
    <3> QED BY <2>0, <2>2, <3>1, AppendProperties DEF AddFunctionPass
  <2>3. CASE MoveFPM
    <3>1. <<"FAM", "PassInstrumentation">> \in Offered(main)
      BY <1>1, <2>3 DEF MoveFPM, At, Now, PipelineRule
    <3>2. fpm \in Seq(Pass)
      <4>1. FunctionPass(main) \subseteq Pass
        BY DEF FunctionPass
      <4> QED BY <2>0, <4>1, SeqMonotonic
    <3>3. Managed(fpm) \in Element(main)
      BY <2>0, <3>1, <3>2 DEF Managed, Element
    <3> QED BY <2>0, <2>3, <3>3, AppendProperties DEF MoveFPM
  <2> QED BY <2>1, <2>2, <2>3
<1>4. Ordered' /\ Wires'
  <2>1. Object("MAM")' <=> Object("MAM")
    BY <1>0 DEF Object
  <2>2. Ordered'
    BY <1>0, <1>2 DEF MInv, Ordered
  <2> HIDE DEF main
  <2>3. Element(main') = Element(main) /\ FunctionPass(main') = FunctionPass(main)
    BY <1>2
  <2> QED BY <1>0, <1>2, <1>3, <2>1, <2>2, <2>3 DEF MInv, Wires
<1>5. Running'
  <2>1. After(d, Now) = d /\ ~Dangles(main, d, Now)
    BY <1>0 DEF After, Dangles
  <2>2. Matches(d)'
    BY <1>0, <1>1, KeepMatches DEF Mirrors
  <2> QED BY <1>0, <1>1, <2>1, <2>2, StepOn
<1> QED BY <1>0, <1>4, <1>5, KeepWork, KeepTypes, KeepOver DEF Rest

(* The managers' work is put in front of the rest of the program.           *)
LEMMA Dispatch ==
  ASSUME NEW S, NEW d, NEW e, NEW w, MInv,
         Mirrors(S, d, todo, <<>>), d \in Shadow, GoesOn(main, S, d, todo), todo # <<>>,
         Now.do \in {"run", "runLegacy"}, e = After(d, Now),
         alive = d.alive, outcome = "running",
         todo' = w \o Tail(todo), Busy(e, w),
         UNCHANGED <<program, outcome, alive, wiring, work, result, avars>>
  PROVE  Rest'
<1>1. main' = main
  BY DEF main
<1>2. e = [d EXCEPT !.unverified = TRUE, !.untouched = FALSE]
  BY DEF After
<1>3. /\ e.alive = alive /\ e.regs = d.regs /\ e.unverified = TRUE /\ e.untouched = FALSE
      /\ e.status = d.status
  BY <1>2 DEF Shadow
<1>4. /\ UNCHANGED <<alive, reg, mpm, fpm, proxied, ran, logged, broken, damage, hadError, status>>
  BY DEF wiring, work, result, avars
<1>5. PICK c : c = Tail(todo)
  OBVIOUS
<1>6. Closed(main, S) /\ <<e, c>> \in S
  <2>1. ~Dangles(main, d, Now)
    BY DEF Dangles
  <2> QED BY <1>5, <2>1 DEF Mirrors, GoesOn, Now
<1>7. Matches(e)'
  BY <1>1, <1>3, <1>4 DEF Mirrors, Matches
<1>8. Busy(e, w)'
  <2> HIDE DEF main
  <2>1. Queries' = Queries
    BY <1>1 DEF Queries
  <2> QED BY <1>1, <2>1 DEF Busy
<1>9. Mirrors(S, e, c, w)'
  BY <1>1, <1>3, <1>5, <1>6, <1>7, <1>8 DEF Mirrors
<1>10. Running'
  BY <1>9 DEF Running
<1> QED BY <1>4, <1>10, KeepWires, KeepWork, KeepTypes, KeepOver DEF Rest

(* Running the module pass manager keeps the invariant.                     *)
LEMMA RunInv == ASSUME MInv, Run PROVE Rest'
<1>1. Now.do = "run" /\ outcome = "running" /\ todo # <<>>
  BY DEF Run, At, Now
<1>2. PICK S, d : /\ Mirrors(S, d, todo, <<>>) /\ d \in Shadow /\ GoesOn(main, S, d, todo)
                  /\ alive = d.alive /\ d.status = "open" /\ RunRule(main, d, Now)
  BY <1>1, AtRule DEF Now, DeclareRule, ModuleRule, RegisterRule, PipelineRule,
     RunLegacyRule, VerifyRule, ReturnRule, ExitRule
<1>3. PICK w : w = ModuleManagerRun(mpm, Layout)
  OBVIOUS
<1>4. w \in Seq(Queries \cup PassesOn(Manager))
  BY <1>3, ModuleManagerRunType DEF MInv, Wires, NewWork
<1>5. PICK e : e = After(d, Now)
  OBVIOUS
<1>6. e = [d EXCEPT !.unverified = TRUE, !.untouched = FALSE]
  BY <1>1, <1>5 DEF After
<1>7. Busy(e, w)
  BY <1>2, <1>4, <1>6 DEF Busy, RunRule, Has, Shadow
<1> QED BY <1>1, <1>2, <1>3, <1>5, <1>7, Dispatch DEF Run

(* So does running the legacy pass manager.                                 *)
LEMMA RunLegacyInv == ASSUME MInv, RunLegacy PROVE Rest'
<1>1. Now.do = "runLegacy" /\ outcome = "running" /\ todo # <<>>
  BY DEF RunLegacy, At, Now
<1>2. PICK S, d : /\ Mirrors(S, d, todo, <<>>) /\ d \in Shadow /\ GoesOn(main, S, d, todo)
                  /\ alive = d.alive /\ d.status = "open" /\ RunLegacyRule(main, d, Now)
  BY <1>1, AtRule DEF Now, DeclareRule, ModuleRule, RegisterRule, PipelineRule, RunRule,
     VerifyRule, ReturnRule, ExitRule
<1>3. PICK w : w = LegacyManagerRun(Now.passes, Layout)
  OBVIOUS
<1>4. w \in Seq(PassesOn({"Legacy"}))
  BY <1>2, <1>3, LegacyManagerRunType DEF RunLegacyRule
<1>5. PICK e : e = After(d, Now)
  OBVIOUS
<1>6. e = [d EXCEPT !.unverified = TRUE, !.untouched = FALSE]
  BY <1>1, <1>5 DEF After
<1>7. Busy(e, w)
  BY <1>2, <1>4, <1>6 DEF Busy, RunLegacyRule, Has, Shadow
<1> QED BY <1>1, <1>2, <1>3, <1>5, <1>7, Dispatch DEF RunLegacy

(* So does verifying the module: what is broken is told from here on.       *)
LEMMA VerifyInv == ASSUME MInv, Verify PROVE Rest'
<1>1. /\ Now.do = "verify" /\ outcome = "running" /\ todo # <<>> /\ todo' = Tail(todo)
      /\ outcome' = IF Object("Context") THEN outcome ELSE "dangling"
      /\ hadError' = (hadError \/ broken # {})
      /\ UNCHANGED <<program, alive, reg, mpm, fpm, ran, logged, broken, damage, status, proxied>>
  BY DEF Verify, At, Now, Proceed, wiring, work, avars
<1>2. PICK S, d : /\ Mirrors(S, d, todo, <<>>) /\ d \in Shadow /\ GoesOn(main, S, d, todo)
                  /\ alive = d.alive /\ (\A o : Has(d, o) <=> Object(o))
                  /\ d.status = "open" /\ VerifyRule(main, d, Now)
  BY <1>1, AtRule DEF Now, DeclareRule, ModuleRule, RegisterRule, PipelineRule, RunRule,
     RunLegacyRule, ReturnRule, ExitRule
<1>3. main' = main
  BY <1>1 DEF main
<1>4. Types'
  BY <1>1 DEF MInv, Types
<1>5. main \in Telling => (hadError' <=> damage)
  BY <1>1 DEF MInv, Tells, Types
<1>6. Tells'
  BY <1>1, <1>3 DEF MInv, Tells
<1>7. Over'
  BY <1>1, <1>2, <1>3 DEF Over, VerifyRule
<1>8. Running'
  <2>1. CASE ~Object("Context")
    BY <1>1, <2>1 DEF Running
  <2>2. CASE Object("Context")
    <3>1. PICK e : e = After(d, Now)
      OBVIOUS
    <3>2. e = [d EXCEPT !.unverified = FALSE]
      BY <1>1, <3>1 DEF After
    <3>3. /\ e.alive = alive /\ e.regs = d.regs /\ e.untouched = d.untouched /\ e.status = "open"
      BY <1>2, <3>2 DEF Shadow
    <3>4. Matches(e)'
      BY <1>1, <1>2, <1>3, <1>5, <3>3 DEF Mirrors, Matches
    <3>5. ~Dangles(main, d, Now)
      BY <1>2, <2>2 DEF Dangles
    <3> QED BY <1>1, <1>2, <3>1, <3>3, <3>4, <3>5, StepOn
  <2> QED BY <2>1, <2>2
<1> QED BY <1>1, <1>4, <1>6, <1>7, <1>8, KeepWires, KeepWork DEF Rest

(* So does setting the exit status.                                         *)
LEMMA ReturnInv == ASSUME MInv, Return \/ ExitWith PROVE Rest'
<1>1. /\ Now.do \in {"return", "exit"} /\ outcome = "running" /\ todo # <<>> /\ todo' = Tail(todo)
      /\ status' = IF Now.do = "return" THEN IF hadError THEN 1 ELSE 0 ELSE Now.status
      /\ UNCHANGED <<program, outcome, alive, reg, mpm, fpm, ran, logged, broken, damage, hadError, proxied>>
  BY DEF Return, ExitWith, At, Now, Step, wiring, work, avars
<1>2. PICK S, d : /\ Mirrors(S, d, todo, <<>>) /\ d \in Shadow /\ GoesOn(main, S, d, todo)
                  /\ alive = d.alive /\ d.status = "open"
                  /\ ReturnRule(main, d, Now) \/ ExitRule(main, d, Now)
  BY <1>1, AtRule DEF Now, DeclareRule, ModuleRule, RegisterRule, PipelineRule, RunRule,
     RunLegacyRule, VerifyRule
<1>3. main' = main
  BY <1>1 DEF main
<1>4. Types'
  BY <1>1, <1>2 DEF MInv, Types, ReturnRule, ExitRule
<1>5. main \in Telling => status' = (IF hadError THEN 1 ELSE 0) /\ (hadError <=> damage)
  BY <1>1, <1>2 DEF MInv, Types, Tells, ReturnRule, ExitRule, Mirrors, Matches
<1>6. Running'
  <2>1. PICK e : e = After(d, Now)
    OBVIOUS
  <2>2. e = [d EXCEPT !.status = "returned"]
    BY <1>1, <2>1 DEF After
  <2>3. /\ e.alive = alive /\ e.regs = d.regs /\ e.untouched = d.untouched /\ e.status = "returned"
        /\ e.unverified = d.unverified
    BY <1>2, <2>2 DEF Shadow
  <2>4. Matches(e)'
    BY <1>1, <1>2, <1>3, <1>5, <2>3 DEF Mirrors, Matches
  <2>5. ~Dangles(main, d, Now)
    BY <1>1 DEF Dangles
  <2> QED BY <1>1, <1>2, <2>1, <2>3, <2>4, <2>5, StepOn
<1> QED BY <1>1, <1>4, <1>6, KeepWires, KeepWork, KeepOver DEF Rest

(* So does a return that may be taken or not.                               *)
LEMMA MayReturnInv == ASSUME MInv, ReturnEarly \/ GoOn PROVE Rest'
<1>1. /\ Now.do = "mayReturn" /\ outcome = "running" /\ todo # <<>>
      /\ UNCHANGED <<program, outcome, alive, reg, mpm, fpm, ran, logged, broken, damage, hadError, proxied>>
  BY DEF ReturnEarly, GoOn, At, Now, Step, wiring, work, result, avars
<1>2. PICK S, d : /\ Mirrors(S, d, todo, <<>>) /\ d \in Shadow /\ GoesOn(main, S, d, todo)
                  /\ alive = d.alive /\ d.status = "open" /\ ExitRule(main, d, Now)
  BY <1>1, AtRule DEF Now, DeclareRule, ModuleRule, RegisterRule, PipelineRule, RunRule,
     RunLegacyRule, VerifyRule, ReturnRule
<1>3. main' = main
  BY <1>1 DEF main
<1>4. CASE ReturnEarly
  <2>1. todo' = <<EndScope(0)>> /\ status' = Now.status /\ Now.status = 255
    BY <1>1, <1>2, <1>4 DEF ReturnEarly, ExitRule
  <2>2. PICK e, c : e = Early(d, Now.status) /\ c = <<EndScope(0)>>
    OBVIOUS
  <2>3. <<e, c>> \in S
    BY <1>1, <1>2, <2>2 DEF GoesOn, Now
  <2>4. /\ e.alive = alive /\ e.regs = d.regs /\ e.untouched = d.untouched /\ e.status = "early"
        /\ e.unverified = d.unverified
    BY <1>2, <2>1, <2>2, NoneAssumption DEF Early, Shadow
  <2>5. Matches(e)'
    BY <1>1, <1>2, <1>3, <2>1, <2>4 DEF Mirrors, Matches
  <2>6. Running'
    BY <1>1, <1>2, <2>1, <2>2, <2>3, <2>4, <2>5, Arrive DEF Mirrors
  <2>7. Types'
    BY <1>1, <2>1 DEF MInv, Types
  <2> QED BY <1>1, <2>6, <2>7, KeepWires, KeepWork, KeepOver DEF Rest
<1>5. CASE GoOn
  <2>1. todo' = Tail(todo) /\ status' = status
    BY <1>5 DEF GoOn, Step, result
  <2>2. After(d, Now) = d /\ ~Dangles(main, d, Now)
    BY <1>1 DEF After, Dangles
  <2>3. Matches(d)'
    BY <1>1, <1>2, <2>1, KeepMatches DEF Mirrors
  <2>4. Running'
    BY <1>1, <1>2, <2>1, <2>2, <2>3, StepOn
  <2> QED BY <1>1, <2>1, <2>4, KeepTypes, KeepWires, KeepWork, KeepOver DEF Rest
<1> QED BY <1>4, <1>5

(* So does the end of the program.                                          *)
LEMMA ExitInv == ASSUME MInv, Exit PROVE Rest'
<1>1. /\ outcome = "running" /\ todo = <<>> /\ outcome' = "exited"
      /\ UNCHANGED <<program, todo, alive, reg, mpm, fpm, ran, logged, broken, damage, hadError,
                     status, proxied>>
  BY DEF Exit, wiring, work, result, avars
<1>2. main' = main
  BY <1>1 DEF main
<1>3. PICK S, d, c, w : Mirrors(S, d, c, w)
  BY <1>1 DEF MInv, Running
<1>4. PICK T : c \in Seq(T)
  BY <1>3 DEF Mirrors, Closed
<1>5. PICK W : w \in Seq(W)
  BY <1>3, BusySeq DEF Mirrors
<1>6. w = <<>> /\ c = <<>>
  BY <1>1, <1>3, <1>4, <1>5, ConcatFirst DEF Mirrors
<1>7. Ends(main, d) /\ d \in Shadow
  BY <1>3, <1>6 DEF Mirrors, Closed
<1>8. main \in Telling /\ status # 255 => (status = 1 <=> damage)
  BY <1>3, <1>7 DEF Ends, Shadow, Mirrors, Matches
<1>9. Over'
  BY <1>1, <1>2, <1>7, <1>8 DEF Over, Ends
<1>10. Types'
  BY <1>1 DEF MInv, Types
<1>11. Running'
  BY <1>1 DEF Running
<1> QED BY <1>1, <1>9, <1>10, <1>11, KeepWires, KeepWork DEF Rest

(* A program that is over, or waits, keeps the invariant.                   *)
LEMMA TerminatedInv == ASSUME MInv, UNCHANGED vars PROVE MInv'
<1>1. UNCHANGED <<program, todo, alive, reg, mpm, fpm, asked, ran, logged, broken, damage,
                  hadError, status, outcome, version, cache, proxied>>
  BY DEF vars, wiring, work, result, avars
<1>2. main' = main
  BY <1>1 DEF main
<1>3. AHeld'
  BY <1>1, AHeldStep DEF MInv, avars
<1>4. Over'
  BY <1>1, <1>2 DEF MInv, Over
<1>5. Running'
  <2> SUFFICES ASSUME outcome = "running" PROVE \E S, d, c, w : Mirrors(S, d, c, w)'
    BY <1>1 DEF Running
  <2>1. PICK S, d, c, w : Mirrors(S, d, c, w)
    BY DEF MInv, Running
  <2>2. Matches(d)'
    BY <1>1, <2>1, KeepMatches DEF Mirrors
  <2>3. Leaving(d, c)' <=> Leaving(d, c)
    BY <1>1 DEF Leaving
  <2>4. Busy(d, w)'
    <3> HIDE DEF main
    <3>1. Queries' = Queries
      BY <1>2 DEF Queries
    <3> QED BY <1>2, <2>1, <3>1 DEF Busy, Mirrors
  <2>5. Mirrors(S, d, c, w)'
    BY <1>1, <1>2, <2>1, <2>2, <2>3, <2>4 DEF Mirrors
  <2> QED BY <2>5
<1> QED BY <1>1, <1>3, <1>4, <1>5, KeepTypes, KeepWires, KeepWork DEF MInv

(* When one of the managers' statements is done, the rest of them is still  *)
(* their work.                                                              *)
LEMMA WorkOn ==
  ASSUME MInv, outcome = "running", todo # <<>>, todo[1].do \in {"query", "pass"},
         todo' = Tail(todo), UNCHANGED <<program, alive, reg, hadError, status>>,
         Now.do = "query" => UNCHANGED <<ran, damage>>
  PROVE  Running'
<1>1. PICK S, d, c, w :
           /\ Mirrors(S, d, c, w) /\ d \in Shadow /\ w # <<>> /\ alive = d.alive
           /\ todo[1] = w[1] /\ Tail(todo) = Tail(w) \o c /\ Busy(d, Tail(w))
  BY AtWork
<1>2. main' = main
  BY DEF main
<1>3. PICK t : t = Tail(w)
  OBVIOUS
<1>4. d.unverified /\ ~d.untouched /\ d.status = "open"
  BY <1>1 DEF Mirrors, Busy
<1>5. Matches(d)'
  BY <1>1, <1>2, <1>4 DEF Mirrors, Matches
<1>6. Busy(d, t)'
  <2> HIDE DEF main
  <2>1. Queries' = Queries
    BY <1>2 DEF Queries
  <2> QED BY <1>1, <1>2, <1>3, <2>1 DEF Busy
<1>7. Mirrors(S, d, c, t)'
  BY <1>1, <1>2, <1>3, <1>5, <1>6 DEF Mirrors
<1> QED BY <1>7 DEF Running

(* Asking for a result keeps the rest of the invariant.                     *)
LEMMA QueryInv == ASSUME MInv, Query PROVE Rest'
<1>1. Now \in Queries /\ Registered(Now.mgr, Now.key) /\ Object("MAM")
  BY QueryAsked
<1>2. /\ outcome = "running" /\ todo # <<>> /\ todo[1].do = "query" /\ Now.do = "query"
      /\ todo' = Tail(todo) /\ outcome' = outcome
      /\ UNCHANGED <<program, alive, reg, mpm, fpm, ran, logged, broken, damage, hadError, status>>
  BY <1>1 DEF Query, At, Now, Proceed, wiring, work, result
<1>3. Running'
  BY <1>2, WorkOn
<1>4. main' = main
  BY <1>2 DEF main
<1>5. Now.mgr \in Manager
  BY <1>1 DEF Queries
<1>6. Ordered' /\ Wires'
  <2>1. Object("MAM")' <=> Object("MAM")
    BY <1>2 DEF Object
  <2>2. Ordered'
    BY <1>2, <1>4 DEF MInv, Ordered
  <2>3. proxied' => reg["MAM"]["FunctionProxy"] = "FAM"
    <3>1. CASE Now.mgr = "FAM"
      <4>0. Now.key # "FunctionProxy"
        BY <1>1, <3>1, OfferedToFunctions DEF Queries, FunctionAnalyses
      <4>1. PICK f, k : GetResult(f, k)
        BY <3>1, <4>0 DEF Query
      <4>2. proxied' = proxied
        BY <4>1 DEF GetResult
      <4> QED BY <4>2 DEF MInv, Wires
    <3>2. CASE Now.mgr # "FAM" /\ Now.key = "FunctionProxy"
      BY <1>1, <1>5, <3>2 DEF Manager, MInv, Wires, Registered
    <3>3. CASE Now.mgr # "FAM" /\ Now.key # "FunctionProxy"
      BY <3>3 DEF Query, avars, MInv, Wires
    <3> QED BY <3>1, <3>2, <3>3
  <2> HIDE DEF main
  <2>4. Element(main') = Element(main) /\ FunctionPass(main') = FunctionPass(main)
    BY <1>4
  <2> QED BY <1>1, <1>2, <1>4, <2>1, <2>2, <2>3, <2>4 DEF MInv, Wires
<1> QED BY <1>2, <1>3, <1>6, KeepTypes, KeepWork, KeepOver DEF Rest

(* So does a pass, on a function or on the module, that records the work    *)
(* it does.                                                                 *)
LEMMA PassInv ==
  ASSUME MInv, At("pass"), todo' = Tail(todo),
         UNCHANGED <<program, outcome, alive, reg, mpm, fpm, hadError, status>>,
         proxied' => proxied,
         NEW F \in SUBSET Fun, NEW L,
         ran' = [f \in Fun |-> IF f \in F THEN Append(ran[f], Now.pass) ELSE ran[f]],
         logged' = logged \cup L, L \subseteq { <<Now.pass, f>> : f \in F },
         \A f \in F : Log(Now.mgr, Now.pass, f) \subseteq L,
         broken' \subseteq Fun, broken \subseteq broken',
         damage' \in BOOLEAN, main \in Telling => (damage' <=> damage \/ broken' # {})
  PROVE  Rest'
<1>1. /\ Now.pass \in Pass
      /\ main = "your_first_pipeline" /\ Object("PIC") =>
              Now.mgr \in Manager /\ reg[Now.mgr]["PassInstrumentation"] = "PIC"
  BY AtPass
<1>2. outcome = "running" /\ todo # <<>> /\ todo[1].do = "pass" /\ Now.do = "pass"
  BY DEF At, Now
<1>3. main' = main
  BY DEF main
<1>4. ran \in [Fun -> Seq(Pass)]
  BY DEF MInv, Types
<1>5. ran' \in [Fun -> Seq(Pass)]
  <2>1. \A f \in Fun : Append(ran[f], Now.pass) \in Seq(Pass)
    BY <1>1, <1>4, AppendProperties
  <2> QED BY <1>4, <2>1
<1>6. Types'
  <2>1. logged' \subseteq Pass \X Fun
    BY <1>1 DEF MInv, Types
  <2> QED BY <1>5, <2>1 DEF MInv, Types
<1>7. Ordered' /\ Wires'
  <2>1. Object("MAM")' <=> Object("MAM")
    BY DEF Object
  <2>2. Ordered'
    BY <1>3 DEF MInv, Ordered
  <2> HIDE DEF main
  <2>3. Element(main') = Element(main) /\ FunctionPass(main') = FunctionPass(main)
    BY <1>3
  <2> QED BY <1>3, <2>1, <2>2, <2>3 DEF MInv, Wires
<1>8. Tells'
  BY <1>3 DEF MInv, Tells, Types
<1>9. PipelinesLogged'
  <2> SUFFICES ASSUME main = "your_first_pipeline", Object("PIC"), NEW f \in Fun, NEW i \in DOMAIN ran'[f]
               PROVE  <<ran'[f][i], f>> \in logged'
    BY <1>3 DEF PipelinesLogged, EachPassLogged, Object, main
  <2>1. \A j \in DOMAIN ran[f] : <<ran[f][j], f>> \in logged
    BY DEF MInv, PipelinesLogged, EachPassLogged, main
  <2>2. CASE f \notin F
    BY <2>1, <2>2
  <2>3. CASE f \in F
    <3>1. ran'[f] = Append(ran[f], Now.pass) /\ ran[f] \in Seq(Pass)
      BY <1>4, <2>3
    <3>2. \/ i \in DOMAIN ran[f] /\ ran'[f][i] = ran[f][i]
          \/ ran'[f][i] = Now.pass
      BY <1>1, <3>1, AppendProperties
    <3>3. <<Now.pass, f>> \in logged'
      BY <1>1, <2>3 DEF Log
    <3> QED BY <2>1, <3>2, <3>3
  <2> QED BY <2>2, <2>3
<1>10. Running'
  BY <1>2, WorkOn
<1> QED BY <1>2, <1>6, <1>7, <1>8, <1>9, <1>10, KeepOver DEF Rest

(* So does a pass that runs on a function.                                  *)
LEMMA FunctionPassInv == ASSUME MInv, RunFunctionPass PROVE Rest'
<1>1. PICK o \in Outcomes(Now.pass) :
       /\ Apply(Now.mgr, Now.fun, o)
       /\ broken' = IF o.breaks THEN broken \cup {Now.fun} ELSE broken
       /\ damage' = (damage \/ o.breaks)
  BY DEF RunFunctionPass
<1>2. /\ At("pass") /\ Now.fun \in Fun /\ todo' = Tail(todo)
      /\ UNCHANGED <<program, outcome, alive, reg, mpm, fpm, hadError, status>>
      /\ ran' = [ran EXCEPT ![Now.fun] = Append(@, Now.pass)]
      /\ logged' = logged \cup Log(Now.mgr, Now.pass, Now.fun)
  BY DEF RunFunctionPass, Step, wiring, result
<1>3. Now.pass \in Pass /\ o.breaks \in BOOLEAN
  BY <1>2, AtPass, BreaksAssumption
<1>4. proxied' = proxied
  BY <1>1 DEF Apply, Unmanaged, RunOn
<1>5. ran' = [f \in Fun |-> IF f \in {Now.fun} THEN Append(ran[f], Now.pass) ELSE ran[f]]
  BY <1>2 DEF MInv, Types
<1>6. Log(Now.mgr, Now.pass, Now.fun) \subseteq { <<Now.pass, f>> : f \in {Now.fun} }
  BY DEF Log
<1>7. broken \subseteq Fun /\ damage \in BOOLEAN /\ (main \in Telling => (broken # {} => damage))
  BY DEF MInv, Types, Tells
<1>8. /\ broken' \subseteq Fun /\ broken \subseteq broken' /\ damage' \in BOOLEAN
      /\ main \in Telling => (damage' <=> damage \/ broken' # {})
  BY <1>1, <1>2, <1>3, <1>7
<1>9. \A f \in {Now.fun} : Log(Now.mgr, Now.pass, f) \subseteq Log(Now.mgr, Now.pass, Now.fun)
  OBVIOUS
<1>10. {Now.fun} \in SUBSET Fun
  BY <1>2
<1>11. PICK F, L : F \in SUBSET Fun /\ F = {Now.fun} /\ L = Log(Now.mgr, Now.pass, Now.fun)
  BY <1>10
<1> QED BY <1>2, <1>4, <1>5, <1>6, <1>8, <1>9, <1>11, PassInv

(* So does a pass that runs on the module.                                  *)
LEMMA ModulePassInv == ASSUME MInv, RunModulePass PROVE Rest'
<1>1. /\ At("pass") /\ todo' = Tail(todo)
      /\ UNCHANGED <<program, outcome, alive, reg, mpm, fpm, hadError, status, broken, damage>>
      /\ ran' = [f \in Fun |-> Append(ran[f], Now.pass)]
      /\ logged' = logged \cup UNION { Log(Now.mgr, Now.pass, f) : f \in Fun }
  BY DEF RunModulePass, Step, wiring, result
<1>2. PICK F, L : F \in SUBSET Fun /\ F = Fun /\ L = UNION { Log(Now.mgr, Now.pass, f) : f \in Fun }
  OBVIOUS
<1>3. \A f \in Fun : Log(Now.mgr, Now.pass, f) \subseteq {<<Now.pass, f>>}
  BY DEF Log
<1>4. L \subseteq { <<Now.pass, f>> : f \in F } /\ \A f \in F : Log(Now.mgr, Now.pass, f) \subseteq L
  BY <1>2, <1>3
<1>5. proxied' => proxied
  <2>1. PICK o : IF Now.mgr = "Legacy"
        THEN /\ version' = [f \in Fun |-> Touch(version[f], o)]
             /\ UNCHANGED <<cache, proxied>>
        ELSE RunOnModule(o)
    BY DEF RunModulePass
  <2> QED BY <2>1 DEF RunOnModule
<1>6. /\ broken' \subseteq Fun /\ broken \subseteq broken' /\ damage' \in BOOLEAN
      /\ main \in Telling => (damage' <=> damage \/ broken' # {})
  BY <1>1 DEF MInv, Types, Tells
<1>7. ran' = [f \in Fun |-> IF f \in F THEN Append(ran[f], Now.pass) ELSE ran[f]]
  BY <1>1, <1>2
<1> QED BY <1>1, <1>2, <1>4, <1>5, <1>6, <1>7, PassInv

(* While a scope is left, the objects are the first of those in the         *)
(* shadow.                                                                  *)
LEMMA AtLeave ==
  ASSUME MInv, At("leave")
  PROVE  \E S, d : /\ Mirrors(S, d, todo, <<>>) /\ d \in Shadow /\ GoesOn(main, S, d, todo)
                   /\ Now.keep \in Nat
                   /\ \E n \in Nat : /\ n <= Len(d.alive) /\ alive = SubSeq(d.alive, 1, n)
                                     /\ n < Len(d.alive) => Now.keep <= n
<1>1. outcome = "running" /\ todo # <<>> /\ Now.do = "leave" /\ todo[1].do = "leave"
  BY DEF At, Now
<1>2. PICK S, d : Mirrors(S, d, todo, <<>>) /\ d \in Shadow /\ GoesOn(main, S, d, todo)
  BY <1>1, AtProgram
<1>3. Allowed(main, d, Now)
  BY <1>2 DEF GoesOn, Now
<1>4. Now.keep \in Nat
  BY <1>1, <1>3 DEF Allowed, LeaveRule, DeclareRule, ModuleRule, RegisterRule, PipelineRule, RunRule,
     RunLegacyRule, VerifyRule, ReturnRule, ExitRule
<1>5. d.alive \in Seq(Objects)
  BY <1>2 DEF Shadow
<1>6. Len(d.alive) \in Nat /\ SubSeq(d.alive, 1, Len(d.alive)) = d.alive
  BY <1>5, SubSeqFull
<1>7. \E n \in Nat : /\ n <= Len(d.alive) /\ alive = SubSeq(d.alive, 1, n)
                     /\ n < Len(d.alive) => Now.keep <= n
  <2>1. CASE alive = d.alive
    BY <1>6, <2>1
  <2>2. CASE Leaving(d, todo)
    BY <1>6, <2>2 DEF Leaving, Now
  <2> QED BY <1>2, <2>1, <2>2 DEF Mirrors
<1> QED BY <1>2, <1>4, <1>7

(* The death of an object keeps the invariant: what it needs is older and   *)
(* lives.                                                                   *)
LEMMA DestroyInv == ASSUME MInv, Destroy PROVE Rest'
<1>1. /\ At("leave") /\ outcome = "running" /\ todo # <<>> /\ Len(alive) > Now.keep
      /\ outcome' = IF \A o \in Needs : Object(o) THEN outcome ELSE "dangling"
      /\ alive' = SubSeq(alive, 1, Len(alive) - 1)
      /\ UNCHANGED <<program, todo, reg, mpm, fpm, ran, logged, broken, damage, hadError, status>>
      /\ proxied' => proxied
      /\ Dying = "MAM" => ~proxied'
  <2>1. /\ proxied' => proxied
        /\ Dying = "MAM" => ~proxied'
    BY DEF Destroy, DropResults, DropProxy, avars
  <2> QED BY <2>1 DEF Destroy, At, wiring, work, result
<1>2. PICK S, d : /\ Mirrors(S, d, todo, <<>>) /\ d \in Shadow /\ GoesOn(main, S, d, todo)
                  /\ Now.keep \in Nat
                  /\ \E n \in Nat : /\ n <= Len(d.alive) /\ alive = SubSeq(d.alive, 1, n)
                                    /\ n < Len(d.alive) => Now.keep <= n
  BY <1>1, AtLeave
<1>3. main' = main
  BY <1>1 DEF main
<1>4. alive \in Seq(Objects) /\ Len(alive) \in Nat /\ Len(alive) >= 1 /\ Len(alive) <= 11
  BY <1>1, <1>2 DEF MInv, Types
<1>5. /\ alive' \in Seq(Objects) /\ Len(alive') = Len(alive) - 1
      /\ \A i \in 1 .. Len(alive) - 1 : alive'[i] = alive[i]
  <2>1. \A i \in 1 .. Len(alive) - 1 : alive[i] \in Objects
    BY <1>4
  <2>2. PICK m \in Int : m = Len(alive) - 1
    BY <1>4
  <2>3. /\ SubSeq(alive, 1, m) \in Seq(Objects)
        /\ Len(SubSeq(alive, 1, m)) = IF 1 <= m THEN m - 1 + 1 ELSE 0
        /\ \A i \in 1 .. m - 1 + 1 : SubSeq(alive, 1, m)[i] = alive[1 + i - 1]
    BY <2>1, <2>2, SubSeqProperties
  <2>4. alive' = SubSeq(alive, 1, m)
    BY <1>1, <2>2
  <2>5. \A i \in 1 .. m : 1 + i - 1 = i
    OBVIOUS
  <2> QED BY <2>2, <2>3, <2>4, <2>5, <1>4
<1>6. \A o : Object(o) <=> Object(o)' \/ o = Dying
  BY <1>4, <1>5 DEF Object, Dying
<1>7. Ordered'
  <2> SUFFICES ASSUME NEW i \in 1 .. Len(alive) - 1
               PROVE  /\ alive'[i] = "MAM" => \E j \in 1 .. i - 1 : alive'[j] = "FAM"
                      /\ alive'[i] \in Modules /\ main # "use_after_free"
                           => \E j \in 1 .. i - 1 : alive'[j] = "Context"
    BY <1>3, <1>5 DEF Ordered
  <2>1. \A j \in 1 .. i - 1 : alive'[j] = alive[j]
    BY <1>4, <1>5
  <2>2. i \in DOMAIN alive /\ alive'[i] = alive[i]
    BY <1>4, <1>5
  <2>3. /\ alive[i] = "MAM" => \E j \in 1 .. i - 1 : alive[j] = "FAM"
        /\ alive[i] \in Modules /\ main # "use_after_free" => \E j \in 1 .. i - 1 : alive[j] = "Context"
    BY <2>2 DEF MInv, Ordered
  <2> QED BY <2>1, <2>2, <2>3
<1>8. Wires'
  <2> HIDE DEF main
  <2>1. Element(main') = Element(main) /\ FunctionPass(main') = FunctionPass(main)
    BY <1>3
  <2> QED BY <1>1, <1>3, <1>6, <2>1 DEF MInv, Wires
<1>9. Tells'
  BY <1>1, <1>3 DEF MInv, Tells
<1>10. PipelinesLogged'
  BY <1>1, <1>6 DEF MInv, PipelinesLogged, EachPassLogged
<1>11. main # "use_after_free" => outcome' = "running"
  <2> SUFFICES ASSUME main # "use_after_free", NEW o \in Needs PROVE Object(o)
    BY <1>1
  <2>1. Len(alive) \in DOMAIN alive
    BY <1>4
  <2>2. CASE Dying = "MAM" /\ proxied
    <3>1. o = "FAM"
      BY <2>2 DEF Needs, MInv, Wires, Modules
    <3> QED BY <2>1, <2>2, <3>1, <1>4 DEF MInv, Ordered, Dying, Object
  <2>3. CASE Dying \in Modules
    <3>1. o = "Context"
      BY <2>3 DEF Needs, Modules
    <3> QED BY <2>1, <2>3, <3>1, <1>4 DEF MInv, Ordered, Dying, Object
  <2>4. CASE ~(Dying = "MAM" /\ proxied) /\ Dying \notin Modules
    BY <2>4 DEF Needs
  <2> QED BY <2>2, <2>3, <2>4
<1>12. Over' /\ Types'
  BY <1>1, <1>3, <1>4, <1>5, <1>11 DEF Over, MInv, Types
<1>13. Running'
  <2>1. PICK n \in Nat : /\ n <= Len(d.alive) /\ alive = SubSeq(d.alive, 1, n)
                         /\ n < Len(d.alive) => Now.keep <= n
    BY <1>2
  <2>2. d.alive \in Seq(Objects) /\ Len(d.alive) \in Nat
    BY <1>2 DEF Shadow
  <2>3. /\ Len(alive) = n /\ \A i \in 1 .. n : alive[i] = d.alive[i]
    BY <2>1, <2>2, SubSeqProperties
  <2>4. n - 1 \in Nat /\ n - 1 < Len(d.alive) /\ Now.keep <= n - 1
    BY <1>1, <1>2, <1>4, <2>1, <2>2, <2>3
  <2>5. alive' = SubSeq(d.alive, 1, n - 1)
    <3>1. /\ SubSeq(d.alive, 1, n - 1) \in Seq(Objects) /\ Len(SubSeq(d.alive, 1, n - 1)) = n - 1
          /\ \A i \in 1 .. n - 1 : SubSeq(d.alive, 1, n - 1)[i] = d.alive[i]
      BY <2>2, <2>4, SubSeqProperties
    <3> QED BY <3>1, <1>5, <2>3, SeqEqual
  <2>6. PICK c : c = todo
    OBVIOUS
  <2>7. Leaving(d, c)'
    BY <1>1, <2>4, <2>5, <2>6 DEF Leaving, At, Now
  <2>8. Matches(d)'
    BY <1>1, <1>2, KeepMatches DEF Mirrors
  <2>9. Busy(d, <<>>)'
    BY DEF Busy
  <2>10. Mirrors(S, d, c, <<>>)'
    BY <1>1, <1>2, <1>3, <2>6, <2>7, <2>8, <2>9 DEF Mirrors
  <2> QED BY <2>10 DEF Running
<1> QED BY <1>7, <1>8, <1>9, <1>10, <1>12, <1>13 DEF Rest

(* So does the end of a scope whose objects are gone.                       *)
LEMMA LeaveInv == ASSUME MInv, LeaveScope PROVE Rest'
<1>1. /\ At("leave") /\ outcome = "running" /\ todo # <<>> /\ Now.do = "leave" /\ Len(alive) <= Now.keep
      /\ todo' = Tail(todo)
      /\ UNCHANGED <<program, outcome, alive, reg, mpm, fpm, ran, logged, broken, damage, hadError,
                     status, proxied>>
  BY DEF LeaveScope, At, Now, Step, wiring, work, result, avars
<1>2. PICK S, d : /\ Mirrors(S, d, todo, <<>>) /\ d \in Shadow /\ GoesOn(main, S, d, todo)
                  /\ Now.keep \in Nat
                  /\ \E n \in Nat : /\ n <= Len(d.alive) /\ alive = SubSeq(d.alive, 1, n)
                                    /\ n < Len(d.alive) => Now.keep <= n
  BY <1>1, AtLeave
<1>3. PICK e : e = After(d, Now)
  OBVIOUS
<1>4. e = [d EXCEPT !.alive = IF Len(@) > Now.keep THEN SubSeq(@, 1, Now.keep) ELSE @]
  BY <1>1, <1>3 DEF After
<1>5. /\ e.alive = IF Len(d.alive) > Now.keep THEN SubSeq(d.alive, 1, Now.keep) ELSE d.alive
      /\ e.regs = d.regs /\ e.untouched = d.untouched /\ e.status = d.status /\ e.unverified = d.unverified
  BY <1>2, <1>4 DEF Shadow
<1>6. alive = e.alive
  <2>1. PICK n \in Nat : /\ n <= Len(d.alive) /\ alive = SubSeq(d.alive, 1, n)
                         /\ n < Len(d.alive) => Now.keep <= n
    BY <1>2
  <2>2. d.alive \in Seq(Objects) /\ Len(d.alive) \in Nat
    BY <1>2 DEF Shadow
  <2>3. Len(alive) = n
    BY <2>1, <2>2, SubSeqProperties
  <2>4. CASE n < Len(d.alive)
    BY <1>1, <1>2, <1>5, <2>1, <2>2, <2>3, <2>4
  <2>5. CASE n = Len(d.alive)
    BY <1>1, <1>2, <1>5, <2>1, <2>2, <2>3, <2>5, SubSeqFull
  <2> QED BY <2>1, <2>2, <2>4, <2>5
<1>7. Matches(e)'
  <2>1. main' = main
    BY <1>1 DEF main
  <2> QED BY <2>1, <1>1, <1>2, <1>5 DEF Mirrors, Matches
<1>8. ~Dangles(main, d, Now)
  BY <1>1 DEF Dangles
<1>9. Running'
  BY <1>1, <1>2, <1>3, <1>6, <1>7, <1>8, StepOn
<1> QED BY <1>1, <1>9, KeepTypes, KeepWires, KeepWork, KeepOver DEF Rest

(* The invariant holds at first, if the programs are wired right.           *)
LEMMA MInit == ASSUME \A p \in Programs : WellWired(p), Init PROVE MInv
<1>1. /\ program \in Programs /\ todo = Code(program) /\ alive = <<>> /\ reg = Unregistered
      /\ mpm = <<>> /\ fpm = <<>> /\ ran = Untouched /\ logged = {} /\ broken = {} /\ damage = FALSE
      /\ hadError = FALSE /\ status = None /\ outcome = "running"
      /\ proxied = FALSE /\ cache = Cleared /\ version = [f \in Fun |-> [a \in Aspect |-> 0]]
  BY DEF Init, AInit
<1>2. Types
  <2>1. alive \in Seq(Objects) /\ Len(alive) = 0 /\ <<>> \in Seq(Pass)
    BY <1>1
  <2>2. DOMAIN reg = Manager /\ \A m \in Manager : DOMAIN reg[m] = Analysis
    BY <1>1 DEF Unregistered
  <2>3. ran \in [Fun -> Seq(Pass)]
    BY <1>1, <2>1 DEF Untouched
  <2>4. damage \in BOOLEAN /\ hadError \in BOOLEAN
    BY <1>1
  <2>5. /\ program \in Programs /\ Len(alive) <= 11 /\ logged \subseteq Pass \X Fun /\ broken \subseteq Fun
        /\ status \in {None, 0, 1, 255} /\ outcome \in {"running", "exited", "dangling"}
    <3>1. PICK n : n = Len(alive)
      OBVIOUS
    <3>2. n <= 11
      BY <2>1, <3>1
    <3> QED BY <1>1, <3>1, <3>2
  <2> QED BY <2>1, <2>2, <2>3, <2>4, <2>5 DEF Types
<1>3. AHeld
  <2>1. version \in [Fun -> [Aspect -> Nat]]
    BY <1>1
  <2> QED BY <1>1, <2>1 DEF AHeld, ATypeOK, Cleared, Nothing
<1>4. Ordered /\ Over
  BY <1>1 DEF Ordered, Over
<1>5. Wires
  BY <1>1 DEF Wires, Unregistered, Manager, Analysis
<1>6. Tells
  BY <1>1 DEF Tells
<1>7. PipelinesLogged
  BY <1>1 DEF PipelinesLogged, EachPassLogged, Object
<1>8. Running
  <2>1. PICK S : Closed(main, S) /\ <<Start, todo>> \in S
    BY <1>1 DEF WellWired, Fits, main
  <2>2. PICK T : todo \in Seq(T)
    BY <2>1 DEF Closed
  <2>3. todo = <<>> \o todo
    BY <2>2, ConcatEmptySeq
  <2>4. Busy(Start, <<>>)
    BY DEF Busy
  <2>5. Matches(Start) /\ alive = Start.alive
    BY <1>1 DEF Matches, Start
  <2>6. Mirrors(S, Start, todo, <<>>)
    BY <2>1, <2>3, <2>4, <2>5 DEF Mirrors
  <2> QED BY <2>6 DEF Running
<1> QED BY <1>2, <1>3, <1>4, <1>5, <1>6, <1>7, <1>8 DEF MInv

(* Every step keeps the invariant.                                          *)
LEMMA MStep == ASSUME MInv, [Next]_vars PROVE MInv'
<1>1. CASE UNCHANGED vars
  BY <1>1, TerminatedInv
<1>2. CASE Terminated
  BY <1>2, TerminatedInv DEF Terminated
<1>3. CASE Next /\ ~Terminated
  <2>1. Rest'
    BY <1>3, ConstructInv, ObtainInv, ObtainNullInv, RegisterInv, AddInv, RunInv, RunLegacyInv,
       VerifyInv, ReturnInv, MayReturnInv, ExitInv, QueryInv, FunctionPassInv, ModulePassInv,
       DestroyInv, LeaveInv DEF Next
  <2>2. AHeld'
    BY <1>3, NextManaged, AHeldStep DEF MInv
  <2> QED BY <2>1, <2>2 DEF Rest, MInv
<1> QED BY <1>1, <1>2, <1>3

(***************************************************************************)
(* The analysis managers by themselves                                     *)
(***************************************************************************)

(* The function manager holds results only while the module manager holds   *)
(* its proxy: without that, a module pass that invalidates would leave      *)
(* results behind that nothing clears.                                      *)
AInv == /\ ATypeOK
        /\ FreshResults
        /\ ~proxied => cache = Cleared

(* Initially nothing is cached. *)
LEMMA AInitInv == AInit => AInv
<1> SUFFICES ASSUME AInit PROVE AInv
  OBVIOUS
<1>1. version \in [Fun -> [Aspect -> Nat]]
  BY DEF AInit
<1>2. \A f \in Fun : cache[f] = Nothing
  BY DEF AInit, Cleared
<1>3. ATypeOK
  BY <1>1, <1>2 DEF AInit, ATypeOK, Cleared, Nothing
<1>4. FreshResults
  BY <1>2 DEF FreshResults, Nothing
<1> QED BY <1>3, <1>4 DEF AInit, AInv

(* Touching a function keeps its versions natural numbers, and those of the *)
(* aspects that do not change.                                              *)
LEMMA TouchType ==
  ASSUME NEW v \in [Aspect -> Nat], NEW o
  PROVE  /\ Touch(v, o) \in [Aspect -> Nat]
         /\ \A a \in Aspect : a \notin o.changes => Touch(v, o)[a] = v[a]
BY DEF Touch

(* A pass does not change the view of the analyses it soundly preserves.    *)
LEMMA ViewKept ==
  ASSUME ReportsSound, version \in [Fun -> [Aspect -> Nat]],
         NEW f \in Fun, NEW p \in Pass, NEW o \in Outcomes(p),
         NEW k \in Key, k \in o.preserves,
         version'[f] = Touch(version[f], o)
  PROVE  View(f, k)' = View(f, k)
<1>1. Depends(k) \cap o.changes = {}
  BY DEF ReportsSound
<1>2. \A a \in Depends(k) : version'[f][a] = version[f][a]
  BY <1>1, TouchType, DependsAssumption
<1> QED BY <1>2 DEF View

(* A query leaves what is cached fresh: it adds a view of the present.      *)
LEMMA GetResultInv ==
  ASSUME AInv, NEW f \in Fun, NEW k \in Key, GetResult(f, k)
  PROVE  AInv'
<1>1. version' = version /\ proxied /\ proxied' = proxied
  BY DEF GetResult
<1>2. DOMAIN cache = Fun /\ \A g \in Fun : DOMAIN cache[g] = Key
  BY DEF AInv, ATypeOK
<1>3. CASE cache[f][k] # NoResult
  <2>1. cache' = cache
    BY <1>3 DEF GetResult
  <2> QED BY <1>1, <2>1 DEF AInv, ATypeOK, FreshResults, View, Cleared, Nothing
<1>4. CASE cache[f][k] = NoResult
  <2>1. cache' = [cache EXCEPT ![f] = [cache[f] EXCEPT ![k] = View(f, k)]]
    BY <1>4 DEF GetResult
  <2>2. /\ cache'[f] = [cache[f] EXCEPT ![k] = View(f, k)]
        /\ \A g \in Fun : g # f => cache'[g] = cache[g]
    BY <1>2, <2>1
  <2>3. DOMAIN cache' = Fun /\ \A g \in Fun : DOMAIN cache'[g] = Key
    BY <1>2, <2>1, <2>2
  <2>4. ATypeOK'
    BY <1>1, <2>3 DEF AInv, ATypeOK
  <2>5. \A g \in Fun, j \in Key : View(g, j)' = View(g, j)
    BY <1>1 DEF View
  <2>6. FreshResults'
    <3> SUFFICES ASSUME NEW g \in Fun, NEW j \in Key
                 PROVE  cache'[g][j] \in {NoResult, View(g, j)'}
      BY DEF FreshResults
    <3>1. cache[g][j] \in {NoResult, View(g, j)}
      BY DEF AInv, FreshResults
    <3>2. CASE g = f /\ j = k
      BY <1>2, <3>2, <2>2, <2>5
    <3>3. CASE ~(g = f /\ j = k)
      BY <1>2, <3>1, <3>3, <2>2, <2>5
    <3> QED BY <3>2, <3>3
  <2> QED BY <1>1, <2>4, <2>6 DEF AInv
<1> QED BY <1>3, <1>4

(* A pass on a function leaves cached only what it preserves.               *)
LEMMA RunOnInv ==
  ASSUME ReportsSound, AInv,
         NEW f \in Fun, NEW p \in Pass, NEW o \in Outcomes(p), RunOn(f, o)
  PROVE  AInv'
<1>1. /\ version' = [version EXCEPT ![f] = Touch(version[f], o)]
      /\ cache' = [cache EXCEPT ![f] = Invalidate(cache[f], o)]
      /\ proxied' = proxied
  BY DEF RunOn
<1>2. /\ version \in [Fun -> [Aspect -> Nat]] /\ DOMAIN cache = Fun
      /\ \A g \in Fun : DOMAIN cache[g] = Key
  BY DEF AInv, ATypeOK
<1>3. /\ version'[f] = Touch(version[f], o) /\ cache'[f] = Invalidate(cache[f], o)
      /\ \A g \in Fun : g # f => version'[g] = version[g] /\ cache'[g] = cache[g]
  BY <1>1, <1>2
<1>4. Touch(version[f], o) \in [Aspect -> Nat]
  BY <1>2, TouchType
<1>5. version' \in [Fun -> [Aspect -> Nat]]
  BY <1>1, <1>2, <1>4
<1>6. DOMAIN cache' = Fun /\ \A g \in Fun : DOMAIN cache'[g] = Key
  BY <1>1, <1>2, <1>3 DEF Invalidate
<1>7. ATypeOK'
  BY <1>1, <1>5, <1>6 DEF AInv, ATypeOK
<1>8. FreshResults'
  <2> SUFFICES ASSUME NEW g \in Fun, NEW j \in Key
               PROVE  cache'[g][j] \in {NoResult, View(g, j)'}
    BY DEF FreshResults
  <2>1. cache[g][j] \in {NoResult, View(g, j)}
    BY DEF AInv, FreshResults
  <2>2. CASE g # f
    <3>1. View(g, j)' = View(g, j)
      BY <1>3, <2>2 DEF View
    <3> QED BY <2>1, <2>2, <3>1, <1>3
  <2>3. CASE g = f /\ j \notin o.preserves
    BY <2>3, <1>3 DEF Invalidate
  <2>4. CASE g = f /\ j \in o.preserves
    <3>1. View(g, j)' = View(g, j)
      BY <1>2, <1>3, <2>4, ViewKept
    <3>2. cache'[g][j] = cache[g][j]
      BY <1>3, <2>4 DEF Invalidate
    <3> QED BY <2>1, <3>1, <3>2
  <2> QED BY <2>2, <2>3, <2>4
<1>9. ~proxied' => cache' = Cleared'
  <2> SUFFICES ASSUME ~proxied PROVE cache' = Cleared
    BY <1>1 DEF Cleared, Nothing
  <2>1. cache = Cleared
    BY DEF AInv
  <2>2. Invalidate(cache[f], o) = Nothing
    BY <2>1 DEF Cleared, Nothing, Invalidate
  <2> QED BY <1>1, <2>1, <2>2 DEF Cleared
<1> QED BY <1>7, <1>8, <1>9 DEF AInv

(* A pass on the module leaves cached all or nothing.                       *)
LEMMA RunOnModuleInv ==
  ASSUME ReportsSound, AInv, NEW p \in Pass, NEW o \in Outcomes(p), RunOnModule(o)
  PROVE  AInv'
<1>1. version' = [g \in Fun |-> Touch(version[g], o)]
  BY DEF RunOnModule
<1>2. version \in [Fun -> [Aspect -> Nat]]
  BY DEF AInv, ATypeOK
<1>3. version' \in [Fun -> [Aspect -> Nat]]
  BY <1>1, <1>2, TouchType
<1>4. CASE Key \subseteq o.preserves
  <2>1. cache' = cache /\ proxied' = proxied
    BY <1>4 DEF RunOnModule
  <2>2. \A g \in Fun, j \in Key : View(g, j)' = View(g, j)
    BY <1>1, <1>2, <1>4, ViewKept
  <2> QED BY <1>3, <2>1, <2>2 DEF AInv, ATypeOK, FreshResults, Cleared, Nothing
<1>5. CASE ~(Key \subseteq o.preserves)
  <2>1. cache' = Cleared /\ proxied' = FALSE
    BY <1>5 DEF RunOnModule, AInv
  <2> QED BY <1>3, <2>1 DEF AInv, ATypeOK, FreshResults, Cleared, Nothing
<1> QED BY <1>4, <1>5

(* The invariant is inductive.                                              *)
LEMMA AStepInv == ASSUME ReportsSound, AInv, [ANext]_avars PROVE AInv'
<1>1. CASE GetProxy
  BY <1>1 DEF GetProxy, AInv, ATypeOK, FreshResults, View
<1>2. CASE \E f \in Fun, k \in Key : GetResult(f, k)
  BY <1>2, GetResultInv
<1>3. CASE \E f \in Fun, p \in Pass : \E o \in Outcomes(p) : RunOn(f, o)
  BY <1>3, RunOnInv
<1>4. CASE \E p \in Pass : \E o \in Outcomes(p) : RunOnModule(o)
  BY <1>4, RunOnModuleInv
<1>5. CASE DropResults
  BY <1>5 DEF DropResults, AInv, ATypeOK, FreshResults, Cleared, Nothing
<1>6. CASE DropProxy
  <2>1. cache' = Cleared /\ version' = version /\ proxied' = FALSE
    BY <1>6 DEF DropProxy, AInv
  <2> QED BY <2>1 DEF AInv, ATypeOK, FreshResults, Cleared, Nothing
<1>7. CASE NewFunctions
  BY <1>7 DEF NewFunctions, AInv, ATypeOK, FreshResults, Cleared, Nothing
<1>8. CASE UNCHANGED avars
  BY <1>8 DEF avars, AInv, ATypeOK, FreshResults, View, Cleared, Nothing
<1> QED BY <1>1, <1>2, <1>3, <1>4, <1>5, <1>6, <1>7, <1>8 DEF ANext

(* No pass sees a stale result, in whatever order passes and queries come,   *)
(* provided the passes report soundly what they preserve.                    *)
THEOREM FreshResultsHold == ASSUME ReportsSound PROVE ASpec => []FreshResults
<1>1. AInv /\ [ANext]_avars => AInv'
  BY AStepInv
<1>2. AInv => FreshResults
  BY DEF AInv
<1> QED BY <1>1, <1>2, AInitInv, PTL DEF ASpec

(* Statements may follow a shadow, and are a sequence.                      *)
LEMMA FitsShadow ==
  ASSUME NEW m, NEW d, NEW c, Fits(m, d, c)
  PROVE  d \in Shadow /\ \E T : c \in Seq(T)
BY DEF Fits, Closed

(* Closed sets together are closed.                                         *)
LEMMA ClosedUnion ==
  ASSUME NEW m, NEW S, NEW T, Closed(m, S), Closed(m, T)
  PROVE  Closed(m, S \cup T)
<1> SUFFICES ASSUME NEW d, NEW c, <<d, c>> \in S \cup T
             PROVE  /\ d \in Shadow
                    /\ \E U : c \in Seq(U)
                    /\ IF c = <<>> THEN Ends(m, d) ELSE GoesOn(m, S \cup T, d, c)
  BY DEF Closed
<1>1. CASE <<d, c>> \in S
  BY <1>1 DEF Closed, GoesOn
<1>2. CASE <<d, c>> \in T
  BY <1>2 DEF Closed, GoesOn
<1> QED BY <1>1, <1>2

(* Nothing more may follow where a program may end.                         *)
LEMMA FitsEnd == ASSUME NEW m, NEW d \in Shadow, Ends(m, d) PROVE Fits(m, d, <<>>)
<1>1. PICK S : S = {<<d, <<>>>>}
  OBVIOUS
<1>2. <<>> \in Seq({})
  OBVIOUS
<1>3. Closed(m, S)
  <2> SUFFICES ASSUME NEW e, NEW c, <<e, c>> \in S
               PROVE  e \in Shadow /\ (\E U : c \in Seq(U)) /\ c = <<>> /\ Ends(m, e)
    BY DEF Closed
  <2> QED BY <1>1, <1>2
<1> QED BY <1>1, <1>3 DEF Fits

\* c may follow the statement x, in all the ways it may go on
Follows(m, d, x, c) ==
  /\ Allowed(m, d, x)
  /\ Dangles(m, d, x) \/ Fits(m, After(d, x), c)
  /\ x.do = "module" /\ x.orelse # <<>> => Fits(m, Early(d, x.status), x.orelse)
  /\ x.do = "mayReturn" => Fits(m, Early(d, x.status), <<EndScope(0)>>)

(* Statements may follow a shadow, if the first may and all it goes on      *)
(* with may follow it.                                                      *)
LEMMA FitsStep ==
  ASSUME NEW m, NEW d \in Shadow, NEW T, NEW c \in Seq(T), c # <<>>, Follows(m, d, c[1], Tail(c))
  PROVE  Fits(m, d, c)
<1> DEFINE x == c[1]
           Witness(S, e, t) == Closed(m, S) /\ <<e, t>> \in S
<1>1. PICK S1 : Closed(m, S1) /\ (Dangles(m, d, x) \/ <<After(d, x), Tail(c)>> \in S1)
  <2>1. Closed(m, {})
    BY DEF Closed
  <2> QED BY <2>1 DEF Follows, Fits
<1>2. PICK S2 : Closed(m, S2) /\ (x.do = "module" /\ x.orelse # <<>> => <<Early(d, x.status), x.orelse>> \in S2)
  <2>1. Closed(m, {})
    BY DEF Closed
  <2> QED BY <2>1 DEF Follows, Fits
<1>3. PICK S3 : Closed(m, S3) /\ (x.do = "mayReturn" => <<Early(d, x.status), <<EndScope(0)>>>> \in S3)
  <2>1. Closed(m, {})
    BY DEF Closed
  <2> QED BY <2>1 DEF Follows, Fits
<1>4. PICK S : S = (S1 \cup S2) \cup S3
  OBVIOUS
<1>5. Closed(m, S)
  BY <1>1, <1>2, <1>3, <1>4, ClosedUnion
<1>6. PICK R : R = S \cup {<<d, c>>}
  OBVIOUS
<1>7. GoesOn(m, R, d, c)
  BY <1>1, <1>2, <1>3, <1>4, <1>6 DEF GoesOn, Follows
<1>8. Closed(m, R)
  <2> SUFFICES ASSUME NEW e, NEW t, <<e, t>> \in R
               PROVE  /\ e \in Shadow
                      /\ \E U : t \in Seq(U)
                      /\ IF t = <<>> THEN Ends(m, e) ELSE GoesOn(m, R, e, t)
    BY DEF Closed
  <2>1. CASE <<e, t>> \in S
    BY <2>1, <1>5, <1>6 DEF Closed, GoesOn
  <2>2. CASE e = d /\ t = c
    BY <2>2, <1>7
  <2> QED BY <2>1, <2>2, <1>6
<1> QED BY <1>6, <1>8 DEF Fits

(***************************************************************************)
(* The statements s lead from the shadows in P to those in Q: whatever may *)
(* follow all of these may follow s.                                       *)
(***************************************************************************)
Leads(m, P, s, Q) ==
  /\ \E T : s \in Seq(T)
  /\ \A c : (\E T : c \in Seq(T)) /\ (\A e \in Q : Fits(m, e, c)) => \A d \in P : Fits(m, d, s \o c)

\* one statement does
Statement(m, P, x, Q) ==
  /\ P \subseteq Shadow
  /\ \A d \in P :
       /\ Allowed(m, d, x)
       /\ Dangles(m, d, x) \/ After(d, x) \in Q
       /\ x.do = "module" /\ x.orelse # <<>> => Fits(m, Early(d, x.status), x.orelse)
       /\ x.do = "mayReturn" => Fits(m, Early(d, x.status), <<EndScope(0)>>)

(* No statement leads nowhere else.                                         *)
LEMMA LeadsNowhere == ASSUME NEW m, NEW P PROVE Leads(m, P, <<>>, P)
<1>1. <<>> \in Seq({})
  OBVIOUS
<1> QED BY <1>1, ConcatEmptySeq DEF Leads

(* One statement does what it does.                                         *)
LEMMA LeadsOne ==
  ASSUME NEW m, NEW P, NEW Q, NEW x, Statement(m, P, x, Q)
  PROVE  Leads(m, P, <<x>>, Q)
<1>1. <<x>> \in Seq({x})
  OBVIOUS
<1>2. ASSUME NEW c, NEW T, c \in Seq(T), \A e \in Q : Fits(m, e, c), NEW d \in P PROVE Fits(m, d, <<x>> \o c)
  <2>1. /\ <<x>> \o c # <<>> /\ (<<x>> \o c)[1] = x
        /\ Tail(<<x>> \o c) = c
    <3>1. /\ <<x>> # <<>> => <<x>> \o c # <<>> /\ (<<x>> \o c)[1] = <<x>>[1]
                             /\ Tail(<<x>> \o c) = Tail(<<x>>) \o c
      BY <1>1, <1>2, ConcatFirst
    <3>2. Tail(<<x>>) = <<>> /\ <<>> \o c = c
      BY <1>2, ConcatEmptySeq
    <3> QED BY <3>1, <3>2
  <2>2. <<x>> \o c \in Seq({x} \cup T)
    <3>1. <<x>> \in Seq({x} \cup T) /\ c \in Seq({x} \cup T)
      BY <1>1, <1>2, SeqMonotonic
    <3> QED BY <3>1, ConcatProperties
  <2>3. d \in Shadow /\ Follows(m, d, x, c)
    BY <1>2 DEF Statement, Follows
  <2> QED BY <2>1, <2>2, <2>3, FitsStep
<1> QED BY <1>1, <1>2 DEF Leads

(* Statements after statements lead on.                                     *)
LEMMA LeadsThrough ==
  ASSUME NEW m, NEW P, NEW Q, NEW R, NEW s, NEW t, Leads(m, P, s, Q), Leads(m, Q, t, R)
  PROVE  Leads(m, P, s \o t, R)
<1>1. PICK T, U : s \in Seq(T) /\ t \in Seq(U)
  BY DEF Leads
<1>2. s \in Seq(T \cup U) /\ t \in Seq(T \cup U) /\ s \o t \in Seq(T \cup U)
  <2>1. s \in Seq(T \cup U) /\ t \in Seq(T \cup U)
    BY <1>1, SeqMonotonic
  <2> QED BY <2>1, ConcatProperties
<1>3. ASSUME NEW c, NEW V, c \in Seq(V), \A e \in R : Fits(m, e, c), NEW d \in P PROVE Fits(m, d, (s \o t) \o c)
  <2>1. PICK X : X = (T \cup U) \cup V
    OBVIOUS
  <2>2. s \in Seq(X) /\ t \in Seq(X) /\ c \in Seq(X) /\ t \o c \in Seq(X)
    <3>1. s \in Seq(X) /\ t \in Seq(X) /\ c \in Seq(X)
      BY <1>2, <1>3, <2>1, SeqMonotonic
    <3> QED BY <3>1, ConcatProperties
  <2>3. \A e \in Q : Fits(m, e, t \o c)
    BY <1>3 DEF Leads
  <2>4. Fits(m, d, s \o (t \o c))
    BY <1>3, <2>2, <2>3 DEF Leads
  <2>5. (s \o t) \o c = s \o (t \o c)
    BY <2>2, ConcatAssociative
  <2> QED BY <2>4, <2>5
<1> QED BY <1>2, <1>3 DEF Leads

(* Statements lead from fewer shadows, and to more.                         *)
LEMMA LeadsFrom ==
  ASSUME NEW m, NEW P, NEW Q, NEW O, NEW R, NEW s, Leads(m, P, s, Q), O \subseteq P, Q \subseteq R
  PROVE  Leads(m, O, s, R)
BY DEF Leads

(* A list of statements, with the shadows between them: PP[i] before s[i].  *)
LEMMA LeadsBlock ==
  ASSUME NEW m, NEW T, NEW s \in Seq(T), NEW PP,
         \A i \in 1 .. Len(s) : Statement(m, PP[i], s[i], PP[i + 1])
  PROVE  Leads(m, PP[1], s, PP[Len(s) + 1])
<1>1. Len(s) \in Nat
  OBVIOUS
<1> DEFINE S == { n \in Nat : n <= Len(s) => Leads(m, PP[1], SubSeq(s, 1, n), PP[n + 1]) }
<1>2. 0 \in S
  <2>1. SubSeq(s, 1, 0) = <<>>
    BY SubSeqEmpty
  <2>2. Leads(m, PP[1], SubSeq(s, 1, 0), PP[1])
    BY <2>1, LeadsNowhere
  <2>3. 0 + 1 = 1
    OBVIOUS
  <2> QED BY <2>2, <2>3
<1>3. ASSUME NEW n \in S \cap Nat PROVE n + 1 \in S
  <2> SUFFICES ASSUME n + 1 <= Len(s) PROVE Leads(m, PP[1], SubSeq(s, 1, n + 1), PP[(n + 1) + 1])
    OBVIOUS
  <2>1. Leads(m, PP[1], SubSeq(s, 1, n), PP[n + 1])
    BY <1>1
  <2>2. n + 1 \in 1 .. Len(s)
    BY <1>1
  <2>3. Leads(m, PP[n + 1], <<s[n + 1]>>, PP[(n + 1) + 1])
    BY <2>2, LeadsOne
  <2>4. SubSeq(s, 1, n + 1) = SubSeq(s, 1, n) \o <<s[n + 1]>>
    <3>1. PICK k : k = n + 1
      OBVIOUS
    <3>2. 1 \in 1 .. Len(s) /\ k \in 1 .. Len(s) /\ k - 1 = n
      BY <1>1, <2>2, <3>1
    <3>3. SubSeq(s, 1, k) = SubSeq(s, 1, k - 1) \o <<s[k]>>
      BY <3>2, SubSeqRecursiveSecond
    <3> QED BY <3>1, <3>2, <3>3
  <2> HIDE DEF S
  <2> QED BY <2>1, <2>3, <2>4, LeadsThrough
<1>4. Len(s) \in S
  <2>1. Nat \subseteq S
    <3> HIDE DEF S
    <3> QED BY <1>2, <1>3, SetInduction
  <2> HIDE DEF S
  <2> QED BY <1>1, <2>1
<1>5. SubSeq(s, 1, Len(s)) = s
  BY SubSeqFull
<1>6. Leads(m, PP[1], SubSeq(s, 1, Len(s)), PP[Len(s) + 1])
  <2>1. PICK n \in Nat : n = Len(s) /\ n \in S
    BY <1>1, <1>4
  <2>2. n <= Len(s)
    BY <1>1, <2>1
  <2>3. Leads(m, PP[1], SubSeq(s, 1, n), PP[n + 1])
    BY <2>1, <2>2
  <2> HIDE DEF S
  <2> QED BY <2>1, <2>3
<1> HIDE DEF S
<1> QED BY <1>5, <1>6

(* Two statements.                                                          *)
LEMMA LeadsTwo ==
  ASSUME NEW m, NEW x1, NEW x2, NEW P1, NEW P2, NEW P3,
         Statement(m, P1, x1, P2), Statement(m, P2, x2, P3)
  PROVE  Leads(m, P1, <<x1, x2>>, P3)
<1> DEFINE s == <<x1, x2>>
           PP == <<P1, P2, P3>>
<1>1. s \in Seq({x1, x2}) /\ Len(s) = 2
  OBVIOUS
<1>2. \A i \in 1 .. Len(s) : Statement(m, PP[i], s[i], PP[i + 1])
  OBVIOUS
<1>3. Leads(m, PP[1], s, PP[Len(s) + 1])
  BY <1>1, <1>2, LeadsBlock
<1> QED BY <1>1, <1>3

(* Four statements.                                                         *)
LEMMA LeadsFour ==
  ASSUME NEW m, NEW x1, NEW x2, NEW x3, NEW x4, NEW P1, NEW P2, NEW P3, NEW P4, NEW P5,
         Statement(m, P1, x1, P2), Statement(m, P2, x2, P3), Statement(m, P3, x3, P4), Statement(m, P4, x4, P5)
  PROVE  Leads(m, P1, <<x1, x2, x3, x4>>, P5)
<1>1. Leads(m, P1, <<x1, x2>>, P3) /\ Leads(m, P3, <<x3, x4>>, P5)
  BY LeadsTwo
<1>2. <<x1, x2, x3, x4>> = <<x1, x2>> \o <<x3, x4>>
  OBVIOUS
<1> QED BY <1>1, <1>2, LeadsThrough

(* Statements that all stay within the same shadows.                        *)
LEMMA LeadsStay ==
  ASSUME NEW m, NEW P, NEW X, NEW s \in Seq(X), \A x \in X : Statement(m, P, x, P)
  PROVE  Leads(m, P, s, P)
<1>1. PICK PP : PP = [i \in 1 .. Len(s) + 1 |-> P]
  OBVIOUS
<1>2. Len(s) \in Nat /\ PP[1] = P /\ PP[Len(s) + 1] = P
  BY <1>1
<1>3. ASSUME NEW i \in 1 .. Len(s) PROVE Statement(m, PP[i], s[i], PP[i + 1])
  <2>1. PP[i] = P /\ PP[i + 1] = P /\ s[i] \in X
    BY <1>1, <1>2
  <2> QED BY <2>1
<1> QED BY <1>2, <1>3, LeadsBlock

Held(s) == { s[i] : i \in DOMAIN s }

\* the objects in s exist, in this order, before any others
Extends(t, s) == Len(s) <= Len(t) /\ \A i \in 1 .. Len(s) : t[i] = s[i]

(***************************************************************************)
(* The shadows before an exit status is set, in which the objects are      *)
(* those in s, and then others, n at most and H together, the analyses R   *)
(* are registered, and F says what is known of the module.                 *)
(***************************************************************************)
Facing(s, H, n, R, F) ==
  { d \in Shadow :
      /\ d.status = "open"
      /\ Extends(d.alive, s) /\ Held(d.alive) = H /\ Len(d.alive) <= n
      /\ R \subseteq d.regs
      /\ "sound" \in F => ~d.unverified
      /\ "untouched" \in F => d.untouched }

(* An object is in the shadow if it is held there.                          *)
LEMMA HasHeld == ASSUME NEW d, NEW o PROVE Has(d, o) <=> o \in Held(d.alive)
BY DEF Has, Held

(* What is known of the objects when one more is declared.                  *)
LEMMA Grown ==
  ASSUME NEW t \in Seq(Objects), NEW o \in Objects, NEW s, Len(s) \in Nat, Extends(t, s)
  PROVE  /\ Append(t, o) \in Seq(Objects) /\ Len(Append(t, o)) = Len(t) + 1
         /\ Extends(Append(t, o), s) /\ Held(Append(t, o)) = Held(t) \cup {o}
<1>1. PICK u : u = Append(t, o)
  OBVIOUS
<1>2. /\ u \in Seq(Objects) /\ Len(u) = Len(t) + 1 /\ Len(t) \in Nat
      /\ u[Len(t) + 1] = o /\ \A i \in 1 .. Len(t) : u[i] = t[i]
  BY <1>1
<1>3. Extends(u, s)
  BY <1>2 DEF Extends
<1>4. DOMAIN u = DOMAIN t \cup {Len(t) + 1} /\ DOMAIN t = 1 .. Len(t)
  BY <1>2
<1>5. Held(u) = Held(t) \cup {o}
  BY <1>2, <1>4 DEF Held
<1> QED BY <1>1, <1>2, <1>3, <1>5

(* Declaring an object.                                                     *)
LEMMA Declares ==
  ASSUME NEW m, NEW s, Len(s) \in Nat, NEW H, NEW n \in Nat, n < 11, NEW R, NEW F, NEW o \in Objects,
         o = "MAM" => "FAM" \in H /\ "MAM" \notin H,
         o \in Modules /\ m # "use_after_free" => "Context" \in H,
         o = "PIC" /\ m = "your_first_pipeline" => "untouched" \in F,
         NEW I, \A z : z \in I <=> z \in H \/ z = o, NEW k, k = n + 1,
         NEW Q, Q \subseteq R, \A r \in Q : r[1] # o
  PROVE  Statement(m, Facing(s, H, n, R, F), Declare(o), Facing(s, I, k, Q, F))
<1>0. I = H \cup {o}
  OBVIOUS
<1>1. PICK x : x = Declare(o)
  OBVIOUS
<1>2. x.do = "declare" /\ x.obj = o
  BY <1>1 DEF Declare
<1>3. ASSUME NEW d \in Facing(s, H, n, R, F)
      PROVE  Allowed(m, d, x) /\ After(d, x) \in Facing(s, I, k, Q, F)
  <2>1. /\ d \in Shadow /\ d.status = "open" /\ Extends(d.alive, s) /\ Held(d.alive) = H
        /\ Len(d.alive) <= n /\ R \subseteq d.regs
        /\ "sound" \in F => ~d.unverified
        /\ "untouched" \in F => d.untouched
    BY DEF Facing
  <2>2. d.alive \in Seq(Objects) /\ d.regs \subseteq Manager \X Analysis
    BY <2>1 DEF Shadow
  <2>3. DeclareRule(m, d, x)
    BY <1>2, <2>1, <2>2, HasHeld DEF DeclareRule
  <2>4. PICK e : e = After(d, x)
    OBVIOUS
  <2>5. e = [d EXCEPT !.alive = Append(@, x.obj), !.regs = { r \in @ : r[1] # x.obj }]
    BY <1>2, <2>4 DEF After
  <2>6. /\ e.alive = Append(d.alive, o) /\ e.regs = { r \in d.regs : r[1] # o }
        /\ e.status = d.status /\ e.unverified = d.unverified /\ e.untouched = d.untouched
    BY <1>2, <2>1, <2>5 DEF Shadow
  <2>7. e.alive \in Seq(Objects) /\ Len(e.alive) <= n + 1 /\ Extends(e.alive, s) /\ Held(e.alive) = H \cup {o}
    BY <2>1, <2>2, <2>6, Grown
  <2>8. e \in Shadow
    BY <2>1, <2>2, <2>5, <2>6, <2>7 DEF Shadow
  <2>9. e \in Facing(s, I, k, Q, F)
    BY <2>1, <2>6, <2>7, <2>8 DEF Facing
  <2> QED BY <2>1, <2>3, <2>4, <2>9 DEF Allowed
<1> QED BY <1>0, <1>1, <1>2, <1>3 DEF Statement, Facing

\* where there is no module, the status tells nothing about one
MayFail(m, x) == x.status \in {None, 1, 255} /\ (m \in Telling => x.status # 1)

(* Obtaining a module, with a place for it that is free.                    *)
LEMMA Makes ==
  ASSUME NEW m, NEW s, Len(s) \in Nat, NEW H, NEW n \in Nat, n < 11, NEW R, NEW F, NEW o \in Modules,
         NEW G, NEW I, \A z : z \in I <=> z \in H \/ z = o, NEW k, k = n + 1,
         NEW x, x.do = "module", x.obj = o, x.sound \in BOOLEAN, MayFail(m, x),
         "MAM" \notin H, m # "use_after_free" => "Context" \in H,
         m \in Telling => "sound" \in F,
         G \subseteq {"sound", "untouched"}, "sound" \in G => x.sound,
         x.orelse # <<>> => \A d \in Facing(s, H, n, R, F) : Fits(m, Early(d, x.status), x.orelse)
  PROVE  Statement(m, Facing(s, H, n, R, F), x, Facing(s, I, k, R, G))
<1>0. I = H \cup {o}
  OBVIOUS
<1>3. ASSUME NEW d \in Facing(s, H, n, R, F)
      PROVE  Allowed(m, d, x) /\ After(d, x) \in Facing(s, I, k, R, G)
  <2>1. /\ d \in Shadow /\ d.status = "open" /\ Extends(d.alive, s) /\ Held(d.alive) = H
        /\ Len(d.alive) <= n /\ R \subseteq d.regs
        /\ "sound" \in F => ~d.unverified
    BY DEF Facing
  <2>2. d.alive \in Seq(Objects) /\ d.regs \subseteq Manager \X Analysis /\ o \in Objects
    BY <2>1 DEF Shadow, Objects
  <2>3. ModuleRule(m, d, x)
    BY <2>1, <2>2, HasHeld DEF ModuleRule, MayFail
  <2>4. PICK e : e = After(d, x)
    OBVIOUS
  <2>5. e = [d EXCEPT !.alive = IF Has(d, x.obj) THEN @ ELSE Append(@, x.obj),
                      !.unverified = ~x.sound, !.untouched = TRUE]
    BY <2>4 DEF After
  <2>6. /\ e.alive = IF Has(d, o) THEN d.alive ELSE Append(d.alive, o)
        /\ e.regs = d.regs /\ e.status = d.status /\ e.unverified = ~x.sound /\ e.untouched = TRUE
    BY <2>1, <2>5 DEF Shadow
  <2>7. e.alive \in Seq(Objects) /\ Len(e.alive) <= n + 1 /\ Extends(e.alive, s) /\ Held(e.alive) = H \cup {o}
    <3>1. CASE Has(d, o)
      BY <2>1, <2>2, <2>6, <3>1, HasHeld
    <3>2. CASE ~Has(d, o)
      BY <2>1, <2>2, <2>6, <3>2, Grown
    <3> QED BY <3>1, <3>2
  <2>8. e \in Shadow
    BY <2>1, <2>2, <2>5, <2>6, <2>7 DEF Shadow
  <2>9. "sound" \in G => ~e.unverified
    BY <2>6
  <2>10. e \in Facing(s, I, k, R, G)
    BY <2>1, <2>6, <2>7, <2>8, <2>9 DEF Facing
  <2> QED BY <2>1, <2>3, <2>4, <2>10 DEF Allowed
<1> QED BY <1>3 DEF Statement, Facing

(* Registering an analysis.                                                 *)
LEMMA Registers ==
  ASSUME NEW m, NEW s, NEW H, NEW n, NEW R, NEW F, NEW g \in Manager, NEW k \in Analysis, NEW b, b # None,
         g = "MAM" /\ k = "FunctionProxy" => b = "FAM",
         m = "your_first_pipeline" /\ k = "PassInstrumentation" => b = "PIC" \/ <<g, k>> \in R,
         NEW Q, Q \subseteq R \cup {<<g, k>>}
  PROVE  Statement(m, Facing(s, H, n, R, F), Register(g, k, b), Facing(s, H, n, Q, F))
<1>1. PICK x : x = Register(g, k, b)
  OBVIOUS
<1>2. x.do = "register" /\ x.mgr = g /\ x.key = k /\ x.by = b
  BY <1>1 DEF Register
<1>3. ASSUME NEW d \in Facing(s, H, n, R, F)
      PROVE  Allowed(m, d, x) /\ After(d, x) \in Facing(s, H, n, Q, F)
  <2>1. d \in Shadow /\ d.status = "open" /\ R \subseteq d.regs /\ d.regs \subseteq Manager \X Analysis
    BY DEF Facing, Shadow
  <2>2. RegisterRule(m, d, x)
    BY <1>2, <2>1 DEF RegisterRule
  <2>3. PICK e : e = After(d, x)
    OBVIOUS
  <2>4. e = [d EXCEPT !.regs = @ \cup {<<g, k>>}]
    BY <1>2, <2>3 DEF After
  <2>5. /\ e.regs = d.regs \cup {<<g, k>>} /\ e.alive = d.alive
        /\ e.status = d.status /\ e.unverified = d.unverified /\ e.untouched = d.untouched
    BY <2>1, <2>4 DEF Shadow
  <2>6. e \in Shadow
    BY <2>1, <2>4, <2>5 DEF Shadow
  <2>7. e \in Facing(s, H, n, Q, F)
    BY <2>1, <2>5, <2>6 DEF Facing
  <2> QED BY <2>1, <2>2, <2>3, <2>7 DEF Allowed
<1> QED BY <1>1, <1>2, <1>3 DEF Statement, Facing

(* Filling a pipeline keeps the shadow.                                     *)
LEMMA Fills ==
  ASSUME NEW m, NEW s, NEW H, NEW n, NEW R, NEW F, NEW x, \A d : PipelineRule(m, d, x)
  PROVE  Statement(m, Facing(s, H, n, R, F), x, Facing(s, H, n, R, F))
<1>1. x.do \in {"add", "addToFPM", "moveFPM"}
  BY DEF PipelineRule
<1>2. ASSUME NEW d \in Facing(s, H, n, R, F) PROVE Allowed(m, d, x) /\ After(d, x) = d
  BY <1>1 DEF Facing, Allowed, After
<1> QED BY <1>1, <1>2 DEF Statement, Facing

(* Running passes leaves a module that may be broken.                       *)
LEMMA Works ==
  ASSUME NEW m, NEW s, NEW H, NEW n, NEW R, NEW F, NEW x,
         x.do \in {"run", "runLegacy"},
         \A d \in Facing(s, H, n, R, F) : RunRule(m, d, x) \/ RunLegacyRule(m, d, x)
  PROVE  Statement(m, Facing(s, H, n, R, F), x, Facing(s, H, n, R, {}))
<1>1. ASSUME NEW d \in Facing(s, H, n, R, F)
      PROVE  Allowed(m, d, x) /\ After(d, x) \in Facing(s, H, n, R, {})
  <2>1. d \in Shadow /\ d.status = "open"
    BY DEF Facing
  <2>2. PICK e : e = After(d, x)
    OBVIOUS
  <2>3. e = [d EXCEPT !.unverified = TRUE, !.untouched = FALSE]
    BY <2>2 DEF After
  <2>4. e \in Shadow /\ e.alive = d.alive /\ e.regs = d.regs /\ e.status = d.status
    BY <2>1, <2>3 DEF Shadow
  <2>5. e \in Facing(s, H, n, R, {})
    BY <2>4 DEF Facing
  <2> QED BY <2>1, <2>2, <2>5 DEF Allowed
<1> QED BY <1>1 DEF Statement, Facing

(* Running the module pass manager, once all that is offered is             *)
(* registered.                                                              *)
LEMMA Runs ==
  ASSUME NEW m, NEW s, NEW H, NEW n, NEW R, NEW F, "MAM" \in H, Offered(m) \subseteq R
  PROVE  Statement(m, Facing(s, H, n, R, F), RunMPM, Facing(s, H, n, R, {}))
<1>1. RunMPM.do = "run"
  BY DEF RunMPM
<1>2. \A d \in Facing(s, H, n, R, F) : RunRule(m, d, RunMPM)
  BY <1>1, HasHeld DEF RunRule, Facing
<1> QED BY <1>1, <1>2, Works

(* Running the legacy manager, where there is none of the new ones.         *)
LEMMA RunsLegacy ==
  ASSUME NEW m, NEW s, NEW H, NEW n, NEW R, NEW F, NEW ps \in Seq(Pass),
         "MAM" \notin H, m = "your_first_pipeline" => "PIC" \notin H
  PROVE  Statement(m, Facing(s, H, n, R, F), RunLegacyPM(ps), Facing(s, H, n, R, {}))
<1>1. RunLegacyPM(ps).do = "runLegacy" /\ RunLegacyPM(ps).passes = ps
  BY DEF RunLegacyPM
<1>2. \A d \in Facing(s, H, n, R, F) : RunLegacyRule(m, d, RunLegacyPM(ps))
  BY <1>1, HasHeld DEF RunLegacyRule, Facing
<1> QED BY <1>1, <1>2, Works

(* Verifying the module, whose context exists.                              *)
LEMMA Verifies ==
  ASSUME NEW m, NEW s, NEW H, NEW n, NEW R, NEW F, "Context" \in H,
         NEW G, G \subseteq F \cup {"sound"}
  PROVE  Statement(m, Facing(s, H, n, R, F), VerifyModule, Facing(s, H, n, R, G))
<1>1. PICK x : x = VerifyModule
  OBVIOUS
<1>2. x.do = "verify"
  BY <1>1 DEF VerifyModule
<1>3. ASSUME NEW d \in Facing(s, H, n, R, F)
      PROVE  Allowed(m, d, x) /\ After(d, x) \in Facing(s, H, n, R, G)
  <2>1. d \in Shadow /\ d.status = "open" /\ VerifyRule(m, d, x)
    BY <1>2, HasHeld DEF Facing, VerifyRule
  <2>2. PICK e : e = After(d, x)
    OBVIOUS
  <2>3. e = [d EXCEPT !.unverified = FALSE]
    BY <1>2, <2>2 DEF After
  <2>4. /\ e \in Shadow /\ e.alive = d.alive /\ e.regs = d.regs /\ e.status = d.status
        /\ e.untouched = d.untouched /\ e.unverified = FALSE
    BY <2>1, <2>3 DEF Shadow
  <2>5. e \in Facing(s, H, n, R, G)
    BY <2>4 DEF Facing
  <2> QED BY <2>1, <2>2, <2>5 DEF Allowed
<1> QED BY <1>1, <1>2, <1>3 DEF Statement, Facing

(* The scope of the objects after t is left.                                *)
LEMMA Leaves ==
  ASSUME NEW m, NEW s, NEW t \in Seq(Objects), Extends(s, t), NEW H, NEW n, NEW R, NEW F,
         NEW k, k = Len(t), NEW I, \A z : z \in I <=> z \in Held(t)
  PROVE  Statement(m, Facing(s, H, n, R, F), EndScope(k), Facing(t, I, k, R, F))
<1>0. I = Held(t)
  OBVIOUS
<1>1. PICK x : x = EndScope(k)
  OBVIOUS
<1>2. x.do = "leave" /\ x.keep = k /\ k \in Nat
  BY <1>1 DEF EndScope
<1>3. ASSUME NEW d \in Facing(s, H, n, R, F)
      PROVE  Allowed(m, d, x) /\ After(d, x) \in Facing(t, I, k, R, F)
  <2>1. d \in Shadow /\ d.status = "open" /\ d.alive \in Seq(Objects) /\ Extends(d.alive, s)
    BY DEF Facing, Shadow
  <2>2. k <= Len(d.alive) /\ \A i \in 1 .. k : d.alive[i] = t[i]
    BY <1>2, <2>1 DEF Extends
  <2>3. SubSeq(d.alive, 1, k) = t
    <3>1. \A i \in 1 .. k : d.alive[i] \in Objects /\ 1 + i - 1 = i
      BY <2>1, <2>2
    <3>2. /\ SubSeq(d.alive, 1, k) \in Seq(Objects)
          /\ Len(SubSeq(d.alive, 1, k)) = IF 1 <= k THEN k - 1 + 1 ELSE 0
          /\ \A i \in 1 .. k - 1 + 1 : SubSeq(d.alive, 1, k)[i] = d.alive[1 + i - 1]
      BY <1>2, <3>1, SubSeqProperties
    <3>3. Len(SubSeq(d.alive, 1, k)) = k /\ \A i \in 1 .. k : SubSeq(d.alive, 1, k)[i] = t[i]
      BY <1>2, <2>2, <3>1, <3>2
    <3> QED BY <3>2, <3>3, SeqEqual
  <2>4. PICK e : e = After(d, x)
    OBVIOUS
  <2>5. e = [d EXCEPT !.alive = IF Len(@) > k THEN SubSeq(@, 1, k) ELSE @]
    BY <1>2, <2>4 DEF After
  <2>6. /\ e.alive = IF Len(d.alive) > k THEN SubSeq(d.alive, 1, k) ELSE d.alive
        /\ e.regs = d.regs /\ e.untouched = d.untouched /\ e.status = d.status /\ e.unverified = d.unverified
    BY <2>1, <2>5 DEF Shadow
  <2>7. e.alive = t
    <3>1. CASE Len(d.alive) > k
      BY <2>3, <2>6, <3>1
    <3>2. CASE Len(d.alive) = k
      BY <2>1, <2>3, <2>6, <3>2, SubSeqFull
    <3> QED BY <1>2, <2>1, <2>2, <3>1, <3>2
  <2>8. e \in Shadow
    BY <2>1, <2>5, <2>6, <2>7 DEF Shadow
  <2>9. Extends(e.alive, t) /\ Held(e.alive) = I /\ Len(e.alive) <= k
    BY <2>7, <1>0, <1>2 DEF Extends
  <2>10. e \in Facing(t, I, k, R, F)
    BY <2>6, <2>8, <2>9 DEF Facing
  <2> QED BY <1>2, <2>4, <2>10 DEF Allowed, LeaveRule
<1> QED BY <1>1, <1>2, <1>3 DEF Statement, Facing

(* There are more shadows where less is known.                              *)
LEMMA FacingMore ==
  ASSUME NEW s, NEW H, NEW n \in Nat, NEW R, NEW F, NEW k \in Nat, n <= k, NEW Q, Q \subseteq R, NEW G, G \subseteq F
  PROVE  Facing(s, H, n, R, F) \subseteq Facing(s, H, k, Q, G)
<1> SUFFICES ASSUME NEW d \in Facing(s, H, n, R, F) PROVE d \in Facing(s, H, k, Q, G)
  OBVIOUS
<1>1. /\ d \in Shadow /\ d.status = "open" /\ Extends(d.alive, s) /\ Held(d.alive) = H
      /\ Len(d.alive) <= n /\ R \subseteq d.regs
      /\ "sound" \in F => ~d.unverified
      /\ "untouched" \in F => d.untouched
  BY DEF Facing
<1>2. Len(d.alive) \in Nat
  BY <1>1 DEF Shadow
<1> QED BY <1>1, <1>2 DEF Facing

(* The object declared last has its place.                                  *)
LEMMA Pins ==
  ASSUME NEW s \in Seq(Objects), NEW o \in Objects, o \notin Held(s), NEW t, t = Append(s, o),
         NEW n, n = Len(t), NEW R, NEW F, NEW I, \A z : z \in I <=> z \in Held(s) \/ z = o
  PROVE  Facing(s, I, n, R, F) \subseteq Facing(t, I, n, R, F)
<1> SUFFICES ASSUME NEW d \in Facing(s, I, n, R, F) PROVE d \in Facing(t, I, n, R, F)
  OBVIOUS
<1>1. /\ d \in Shadow /\ Extends(d.alive, s) /\ Held(d.alive) = I /\ Len(d.alive) <= n /\ d.alive \in Seq(Objects)
  BY DEF Facing, Shadow
<1>2. /\ t \in Seq(Objects) /\ Len(t) = Len(s) + 1 /\ n \in Nat /\ t[Len(s) + 1] = o
      /\ \A i \in 1 .. Len(s) : t[i] = s[i]
  OBVIOUS
<1>3. PICK i \in DOMAIN d.alive : d.alive[i] = o
  BY <1>1 DEF Held
<1>4. i \notin 1 .. Len(s)
  BY <1>1, <1>3 DEF Extends, Held
<1>5. i = Len(s) + 1 /\ Len(d.alive) = Len(s) + 1
  BY <1>1, <1>2, <1>3, <1>4 DEF Extends
<1>6. Extends(d.alive, t)
  <2> SUFFICES ASSUME NEW j \in 1 .. Len(t) PROVE d.alive[j] = t[j]
    BY <1>2, <1>5 DEF Extends
  <2>1. CASE j = Len(s) + 1
    BY <2>1, <1>2, <1>3, <1>5
  <2>2. CASE j # Len(s) + 1
    BY <2>2, <1>1, <1>2 DEF Extends
  <2> QED BY <2>1, <2>2
<1> QED BY <1>6 DEF Facing

(* When the exit status is set, the scope of main is left.                  *)
LEMMA FitsLast ==
  ASSUME NEW m, m # "use_after_free", NEW d \in Shadow, d.status # "open"
  PROVE  Fits(m, d, <<EndScope(0)>>)
<1>1. PICK x : x = EndScope(0)
  OBVIOUS
<1>2. x.do = "leave" /\ x.keep = 0
  BY <1>1 DEF EndScope
<1>3. PICK e : e = After(d, x)
  OBVIOUS
<1>4. e = [d EXCEPT !.alive = IF Len(@) > 0 THEN SubSeq(@, 1, 0) ELSE @]
  BY <1>2, <1>3 DEF After
<1>5. e \in Shadow /\ e.status = d.status
  <2>1. SubSeq(d.alive, 1, 0) = <<>>
    BY SubSeqEmpty
  <2>2. e.alive \in Seq(Objects) /\ e.regs = d.regs /\ e.untouched = d.untouched
        /\ e.status = d.status /\ e.unverified = d.unverified
    BY <1>4, <2>1 DEF Shadow
  <2> QED BY <1>4, <2>2 DEF Shadow
<1>6. Fits(m, e, <<>>)
  BY <1>5, FitsEnd DEF Ends
<1>7. <<x>> \in Seq({x}) /\ <<x>> # <<>> /\ <<x>>[1] = x /\ Tail(<<x>>) = <<>>
  OBVIOUS
<1>8. Follows(m, d, x, <<>>)
  BY <1>2, <1>3, <1>6 DEF Follows, Allowed, LeaveRule
<1>9. Fits(m, d, <<x>>)
  BY <1>7, <1>8, FitsStep
<1> QED BY <1>1, <1>9

(* And so it is when the exit status is set on another path.                *)
LEMMA FitsEarly ==
  ASSUME NEW m, m # "use_after_free", NEW d \in Shadow, NEW code, code # None
  PROVE  Fits(m, Early(d, code), <<EndScope(0)>>)
<1>1. Early(d, code) \in Shadow /\ Early(d, code).status # "open"
  BY DEF Early, Shadow
<1> QED BY <1>1, FitsLast

(* The exit status may be returned once the module was verified.            *)
LEMMA FitsReturn ==
  ASSUME NEW m, m # "use_after_free", NEW s, NEW H, NEW n, NEW R, NEW F, m \in Telling => "sound" \in F,
         NEW d \in Facing(s, H, n, R, F)
  PROVE  Fits(m, d, <<ReturnHadError, EndScope(0)>>)
<1>1. PICK x, y : x = ReturnHadError /\ y = EndScope(0)
  OBVIOUS
<1>2. x.do = "return"
  BY <1>1 DEF ReturnHadError
<1>3. d \in Shadow /\ d.status = "open" /\ ReturnRule(m, d, x)
  BY <1>2 DEF Facing, ReturnRule
<1>4. PICK e : e = After(d, x)
  OBVIOUS
<1>5. e = [d EXCEPT !.status = "returned"]
  BY <1>2, <1>4 DEF After
<1>6. e \in Shadow /\ e.status # "open"
  BY <1>3, <1>5 DEF Shadow
<1>7. Fits(m, e, <<y>>)
  BY <1>1, <1>6, FitsLast
<1>8. <<x, y>> \in Seq({x, y}) /\ <<x, y>> # <<>> /\ <<x, y>>[1] = x /\ Tail(<<x, y>>) = <<y>>
  OBVIOUS
<1>9. Follows(m, d, x, <<y>>)
  BY <1>2, <1>3, <1>4, <1>7 DEF Follows, Allowed
<1>10. Fits(m, d, <<x, y>>)
  BY <1>3, <1>8, <1>9, FitsStep
<1> QED BY <1>1, <1>10

(* A program that opens a context and reads its module.                     *)
CM == <<"Context", "MyModule">>

(* Two statements are one and another.                                      *)
LEMMA Pair == ASSUME NEW x, NEW y PROVE <<x, y>> = <<x>> \o <<y>>
<1>1. <<x>> \in Seq({x, y}) /\ <<y>> \in Seq({x, y}) /\ <<x, y>> \in Seq({x, y})
  OBVIOUS
<1>2. Len(<<x>>) = 1 /\ Len(<<y>>) = 1 /\ Len(<<x, y>>) = 2
  OBVIOUS
<1>3. PICK s : s = <<x>> \o <<y>>
  OBVIOUS
<1>4. s \in Seq({x, y}) /\ Len(s) = 2 /\ s[1] = x /\ s[2] = y
  BY <1>1, <1>2, <1>3, ConcatProperties
<1>5. s = <<x, y>>
  BY <1>1, <1>2, <1>4, SeqEqual
<1> QED BY <1>3, <1>5

\* a context is all there is
Alone == Facing(<<"Context">>, {"Context"}, 1, {}, {"sound", "untouched"})

\* a context and a module, and H, n objects in all
Opened(H, n, R, F) == Facing(CM, {"Context", "MyModule"} \cup H, n, R, F)

(* Declaring the context.                                                   *)
LEMMA OpensContext ==
  ASSUME NEW m, m # "use_after_free"
  PROVE  Leads(m, {Start}, <<Declare("Context")>>, Alone)
<1> DEFINE F0 == {"sound", "untouched"}
           s0 == <<>>
           s1 == <<"Context">>
<1>1. "Context" \in Objects /\ "Context" \notin Modules
  BY DEF Objects, Modules
<1>2. s0 \in Seq(Objects) /\ Len(s0) \in Nat /\ s1 = Append(s0, "Context") /\ Len(s1) = 1 /\ Held(s0) = {}
  BY DEF Held
<1>3. Start \in Facing(s0, {}, 0, {}, F0)
  <2>1. /\ Start.alive = <<>> /\ Start.regs = {} /\ Start.unverified = FALSE /\ Start.untouched = TRUE
        /\ Start.status = "open"
    BY DEF Start
  <2>2. Start \in Shadow
    BY DEF Start, Shadow
  <2>3. Extends(<<>>, <<>>) /\ Len(<<>>) = 0
    BY DEF Extends
  <2> QED BY <1>2, <2>1, <2>2, <2>3 DEF Facing
<1> HIDE DEF F0, s0, s1
<1>4. Statement(m, Facing(s0, {}, 0, {}, F0), Declare("Context"), Facing(s0, {"Context"}, 1, {}, F0))
  <2>1. 0 \in Nat /\ 0 < 11 /\ 1 = 0 + 1
    OBVIOUS
  <2>2. \A z : z \in {"Context"} <=> z \in {} \/ z = "Context"
    OBVIOUS
  <2> QED BY <1>1, <1>2, <2>1, <2>2, Declares
<1>5. Facing(s0, {"Context"}, 1, {}, F0) \subseteq Facing(s1, {"Context"}, 1, {}, F0)
  <2>1. \A z : z \in {"Context"} <=> z \in Held(s0) \/ z = "Context"
    BY <1>2
  <2>2. "Context" \notin Held(s0)
    BY <1>2
  <2> QED BY <1>1, <1>2, <2>1, <2>2, Pins
<1>6. Leads(m, Facing(s0, {}, 0, {}, F0), <<Declare("Context")>>, Facing(s0, {"Context"}, 1, {}, F0))
  BY <1>4, LeadsOne
<1>7. Leads(m, {Start}, <<Declare("Context")>>, Facing(s1, {"Context"}, 1, {}, F0))
  BY <1>3, <1>5, <1>6, LeadsFrom
<1> QED BY <1>7 DEF Alone, F0, s1

(* Reading the module, or leaving main at once.                             *)
LEMMA OpensModule ==
  ASSUME NEW m, m # "use_after_free",
         NEW x, x.do = "module", x.obj = "MyModule", x.sound = TRUE, x.orelse = <<EndScope(0)>>,
         x.status # None, MayFail(m, x)
  PROVE  Leads(m, Alone, <<x>>, Opened({}, 2, {}, {"sound", "untouched"}))
<1> DEFINE F0 == {"sound", "untouched"}
           s1 == <<"Context">>
           H1 == {"Context"}
           H2 == {"Context", "MyModule"} \cup {}
<1>1. "MyModule" \in Modules /\ "MyModule" \in Objects /\ "Context" \in Objects
  BY DEF Objects, Modules
<1>2. s1 \in Seq(Objects) /\ Len(s1) \in Nat /\ CM = Append(s1, "MyModule") /\ Len(CM) = 2 /\ Held(s1) = H1
  BY <1>1 DEF Held, CM
<1>3. /\ \A z : z \in H2 <=> z \in H1 \/ z = "MyModule"
      /\ "Context" \in H1 /\ "MAM" \notin H1 /\ "MyModule" \notin H1
  OBVIOUS
<1>4. "sound" \in F0 /\ F0 \subseteq {"sound", "untouched"}
  OBVIOUS
<1> HIDE DEF F0, s1, H1, H2
<1>5. \A d \in Facing(s1, H1, 1, {}, F0) : Fits(m, Early(d, x.status), x.orelse)
  BY FitsEarly, NoneAssumption DEF Facing
<1>6. Statement(m, Facing(s1, H1, 1, {}, F0), x, Facing(s1, H2, 2, {}, F0))
  <2>1. 1 \in Nat /\ 1 < 11 /\ 2 = 1 + 1
    OBVIOUS
  <2> QED BY <1>1, <1>2, <1>3, <1>4, <1>5, <2>1, Makes
<1>7. Facing(s1, H2, 2, {}, F0) \subseteq Facing(CM, H2, 2, {}, F0)
  <2>1. \A z : z \in H2 <=> z \in Held(s1) \/ z = "MyModule"
    BY <1>2, <1>3
  <2>2. "MyModule" \notin Held(s1)
    BY <1>2, <1>3
  <2> QED BY <1>1, <1>2, <2>1, <2>2, Pins
<1>8. Leads(m, Facing(s1, H1, 1, {}, F0), <<x>>, Facing(CM, H2, 2, {}, F0))
  BY <1>6, <1>7, LeadsOne, LeadsFrom
<1> QED BY <1>8 DEF Alone, Opened, s1, H1, H2, F0

(* The kinds of statements once there are a context and a module.           *)
Simple == {"Context", "LAM", "CGAM", "MPM", "FPM", "LegacyPM", "SI", "PB", "MMIWP"}

(* The kinds are all kinds of objects.                                      *)
LEMMA Known == ASSUME NEW o PROVE o \in Simple \cup Modules \cup {"FAM", "MAM", "PIC"} <=> o \in Objects
BY DEF Simple, Objects

(* The context and the module are two objects.                              *)
LEMMA CMLength == Len(CM) \in Nat /\ CM \in Seq(Objects) /\ Len(CM) = 2
  /\ \A z : z \in Held(CM) <=> z \in {"Context", "MyModule"}
BY DEF CM, Held, Objects, Modules

\* there are at most eleven objects
Another(n, k) == n \in Nat /\ n < 11 /\ k = n + 1

(* Counting to eleven.                                                      *)
LEMMA Counts ==
  /\ Another(2, 3) /\ Another(3, 4) /\ Another(4, 5) /\ Another(5, 6) /\ Another(6, 7)
  /\ Another(7, 8) /\ Another(8, 9) /\ Another(9, 10) /\ Another(10, 11)
BY DEF Another

(* Declaring an object that is no module.                                   *)
LEMMA OpenedDeclares ==
  ASSUME NEW m, NEW o \in Objects, o \notin Modules, NEW H, NEW n, NEW R, NEW F,
         o = "MAM" => "FAM" \in H /\ "MAM" \notin H,
         o = "PIC" /\ m = "your_first_pipeline" => "untouched" \in F,
         NEW k, Another(n, k), NEW Q, Q \subseteq R, \A r \in Q : r[1] # o
  PROVE  Statement(m, Opened(H, n, R, F), Declare(o), Opened(H \cup {o}, k, Q, F))
<1> DEFINE H0 == {"Context", "MyModule"} \cup H
           I0 == {"Context", "MyModule"} \cup (H \cup {o})
<1>1. /\ \A z : z \in I0 <=> z \in H0 \/ z = o
      /\ o = "MAM" => "FAM" \in H0 /\ "MAM" \notin H0
  OBVIOUS
<1>3. n \in Nat /\ n < 11 /\ k = n + 1
  BY DEF Another
<1> HIDE DEF H0, I0
<1>2. Statement(m, Facing(CM, H0, n, R, F), Declare(o), Facing(CM, I0, k, Q, F))
  BY <1>1, <1>3, CMLength, Declares
<1> QED BY <1>2 DEF Opened, H0, I0

(* Declaring an object that has no rule of its own.                         *)
LEMMA OpenedSimple ==
  ASSUME NEW m, NEW o \in Simple, NEW H, NEW n, NEW R, R \subseteq Manager \X Analysis, NEW F,
         NEW k, Another(n, k)
  PROVE  Statement(m, Opened(H, n, R, F), Declare(o), Opened(H \cup {o}, k, R, F))
<1>1. o \in Objects /\ o \notin Modules /\ o # "MAM" /\ o # "PIC"
  BY DEF Simple, Objects, Modules
<1>2. \A r \in R : r[1] # o
  BY DEF Simple, Manager
<1> QED BY <1>1, <1>2, OpenedDeclares

(* Cloning the module.                                                      *)
LEMMA OpenedClones ==
  ASSUME NEW m, NEW o \in Modules, NEW ps, NEW H, NEW n, NEW R, NEW F,
         "MAM" \notin H, m \in Telling => "sound" \in F, NEW k, Another(n, k)
  PROVE  Statement(m, Opened(H, n, R, F), Module(o, ps),
                   Opened(H \cup {o}, k, R, {"sound", "untouched"}))
<1> DEFINE H0 == {"Context", "MyModule"} \cup H
           I0 == {"Context", "MyModule"} \cup (H \cup {o})
           G0 == {"sound", "untouched"}
           x == Module(o, ps)
<1>1. /\ \A z : z \in I0 <=> z \in H0 \/ z = o
      /\ "MAM" \notin H0 /\ "Context" \in H0 /\ G0 \subseteq {"sound", "untouched"}
  OBVIOUS
<1>2. x.do = "module" /\ x.obj = o /\ x.sound = TRUE /\ x.orelse = <<>> /\ MayFail(m, x)
  <2>1. x.do = "module" /\ x.obj = o /\ x.sound = TRUE /\ x.orelse = <<>> /\ x.status = None
    BY DEF Module
  <2> QED BY <2>1, NoneAssumption DEF MayFail
<1>3. n \in Nat /\ n < 11 /\ k = n + 1
  BY DEF Another
<1> HIDE DEF H0, I0, G0, x
<1>4. Statement(m, Facing(CM, H0, n, R, F), x, Facing(CM, I0, k, R, G0))
  BY <1>1, <1>2, <1>3, CMLength, Makes
<1> QED BY <1>4 DEF Opened, H0, I0, G0, x

(* Registering an analysis.                                                 *)
LEMMA OpenedRegisters ==
  ASSUME NEW m, NEW g \in Manager, NEW k \in Analysis, NEW b, b # None, NEW H, NEW n, NEW R, NEW F,
         g = "MAM" /\ k = "FunctionProxy" => b = "FAM",
         m = "your_first_pipeline" /\ k = "PassInstrumentation" => b = "PIC" \/ <<g, k>> \in R
  PROVE  Statement(m, Opened(H, n, R, F), Register(g, k, b), Opened(H, n, R \cup {<<g, k>>}, F))
BY Registers DEF Opened

(* Filling a pipeline.                                                      *)
LEMMA OpenedFills ==
  ASSUME NEW m, NEW x, \A d : PipelineRule(m, d, x), NEW H, NEW n, NEW R, NEW F
  PROVE  Statement(m, Opened(H, n, R, F), x, Opened(H, n, R, F))
BY Fills DEF Opened

(* Running the module pass manager.                                         *)
LEMMA OpenedRuns ==
  ASSUME NEW m, NEW H, NEW n, NEW R, NEW F, "MAM" \in H, Offered(m) \subseteq R
  PROVE  Statement(m, Opened(H, n, R, F), RunMPM, Opened(H, n, R, {}))
BY Runs DEF Opened

(* Running the legacy pass manager.                                         *)
LEMMA OpenedRunsLegacy ==
  ASSUME NEW m, NEW ps \in Seq(Pass), NEW H, NEW n, NEW R, NEW F,
         "MAM" \notin H, m = "your_first_pipeline" => "PIC" \notin H
  PROVE  Statement(m, Opened(H, n, R, F), RunLegacyPM(ps), Opened(H, n, R, {}))
BY RunsLegacy DEF Opened

(* Verifying the module.                                                    *)
LEMMA OpenedVerifies ==
  ASSUME NEW m, NEW H, NEW n, NEW R, NEW F
  PROVE  Statement(m, Opened(H, n, R, F), VerifyModule, Opened(H, n, R, {"sound"}))
BY Verifies DEF Opened

(* Leaving the scope of all but the context and the module.                 *)
LEMMA OpenedLeaves ==
  ASSUME NEW m, NEW H, NEW n, NEW R, NEW F
  PROVE  Statement(m, Opened(H, n, R, F), EndScope(2), Opened({}, 2, R, F))
<1> DEFINE H0 == {"Context", "MyModule"} \cup H
           I0 == {"Context", "MyModule"} \cup {}
<1>1. \A z : z \in I0 <=> z \in Held(CM)
  BY CMLength
<1>2. Extends(CM, CM) /\ 2 = Len(CM)
  BY CMLength DEF Extends
<1> HIDE DEF H0, I0
<1>3. Statement(m, Facing(CM, H0, n, R, F), EndScope(2), Facing(CM, I0, 2, R, F))
  BY <1>1, <1>2, CMLength, Leaves
<1> QED BY <1>3 DEF Opened, H0, I0

(***************************************************************************)
(* your_first_pass                                                         *)
(***************************************************************************)
(* The legacy half of a round, on a clone: its passes, and the              *)
(* verification.                                                            *)
LEMMA LegacyPartLeads ==
  ASSUME NEW ps \in Seq(Pass), NEW R, R \subseteq Manager \X Analysis, NEW F, "sound" \in F
  PROVE  Leads("your_first_pass", Opened({}, 2, R, F), LegacyPart(ps),
               Opened(({} \cup {"ModuleForLegacyPM"}) \cup {"LegacyPM"}, 4, R, {"sound"}))
<1> DEFINE m  == "your_first_pass"
           H1 == {} \cup {"ModuleForLegacyPM"}
           H2 == H1 \cup {"LegacyPM"}
           P1 == Opened({}, 2, R, F)
           P2 == Opened(H1, 3, R, {"sound", "untouched"})
           P3 == Opened(H2, 4, R, {"sound", "untouched"})
           P4 == Opened(H2, 4, R, {})
           P5 == Opened(H2, 4, R, {"sound"})
           x1 == Module("ModuleForLegacyPM", ps)
           x2 == Declare("LegacyPM")
           x3 == RunLegacyPM(ps)
           x4 == VerifyModule
<1>1. Statement(m, P1, x1, P2)
  BY OpenedClones, Counts DEF Modules
<1>2. Statement(m, P2, x2, P3)
  BY OpenedSimple, Counts DEF Simple
<1>3. Statement(m, P3, x3, P4)
  BY OpenedRunsLegacy
<1>4. Statement(m, P4, x4, P5)
  BY OpenedVerifies
<1> HIDE DEF P1, P2, P3, P4, P5, x1, x2, x3, x4, m
<1>5. Leads(m, P1, <<x1, x2, x3, x4>>, P5)
  BY <1>1, <1>2, <1>3, <1>4, LeadsFour
<1> QED BY <1>5 DEF LegacyPart, P1, P5, x1, x2, x3, x4, m

(* An adaptor may be in a pipeline if its pass is served.                   *)
LEMMA AdaptorElement ==
  ASSUME NEW m, NEW p \in Pass, Served(m, p, "FAM")
  PROVE  Adaptor(p) \in Element(m)
<1>1. PICK e : e = Adaptor(p)
  OBVIOUS
<1>2. e.kind = "function" /\ e.passes = <<p>> /\ e.passes # <<>> /\ e.passes[1] = p
      /\ e = [kind |-> e.kind, passes |-> e.passes]
  BY <1>1 DEF Adaptor
<1>3. e \in [kind : {"module", "function", "manager"}, passes : Seq(Pass)]
  <2>1. <<p>> \in Seq(Pass)
    OBVIOUS
  <2>2. PICK q : q = <<p>> /\ q \in Seq(Pass)
    BY <2>1
  <2>3. [kind |-> "function", passes |-> q] \in [kind : {"module", "function", "manager"}, passes : Seq(Pass)]
    BY <2>2
  <2> QED BY <1>1, <2>2, <2>3 DEF Adaptor
<1> QED BY <1>1, <1>2, <1>3 DEF Element

(* What your_first_pass offers to its passes.                               *)
LEMMA OfferedFirst == Offered("your_first_pass") = {<<"MAM", "PassInstrumentation">>, <<"MAM", "FunctionProxy">>}
BY DEF Offered

(* The new half of a round, on another clone, with managers of its own.     *)
LEMMA NewPartLeads ==
  ASSUME NEW ps \in Seq({ p \in Pass : Served("your_first_pass", p, "FAM") }),
         NEW H, "MAM" \notin H, NEW R
  PROVE  Leads("your_first_pass", Opened(H, 4, R, {"sound"}), NewPart(ps),
               Opened(((((H \cup {"ModuleForNewPM"}) \cup {"FAM"}) \cup {"MAM"}) \cup {"MPM"}), 8,
                      (({} \cup {<<"MAM", "PassInstrumentation">>}) \cup {<<"MAM", "FunctionProxy">>})
                      \cup {<<"FAM", "ModuleProxy">>}, {"sound"}))
<1> DEFINE m  == "your_first_pass"
           H1 == H \cup {"ModuleForNewPM"}
           H2 == H1 \cup {"FAM"}
           H3 == H2 \cup {"MAM"}
           H4 == H3 \cup {"MPM"}
           R1 == {} \cup {<<"MAM", "PassInstrumentation">>}
           R2 == R1 \cup {<<"MAM", "FunctionProxy">>}
           R3 == R2 \cup {<<"FAM", "ModuleProxy">>}
           F0 == {"sound", "untouched"}
           P0 == Opened(H, 4, R, {"sound"})
           P1 == Opened(H1, 5, R, F0)
           P2 == Opened(H2, 6, {}, F0)
           P3 == Opened(H3, 7, {}, F0)
           P4 == Opened(H3, 7, R1, F0)
           P5 == Opened(H3, 7, R2, F0)
           P6 == Opened(H3, 7, R3, F0)
           P7 == Opened(H4, 8, R3, F0)
           P8 == Opened(H4, 8, R3, {})
           P9 == Opened(H4, 8, R3, {"sound"})
<1>1. Statement(m, P0, Module("ModuleForNewPM", ps), P1)
  BY OpenedClones, Counts DEF Modules
<1>2. Statement(m, P1, Declare("FAM"), P2)
  BY OpenedDeclares, Counts DEF Modules, Objects
<1>3. Statement(m, P2, Declare("MAM"), P3)
  BY OpenedDeclares, Counts DEF Modules, Objects
<1>4. Statement(m, P3, Register("MAM", "PassInstrumentation", "own"), P4)
  BY OpenedRegisters, NoneAssumption DEF Manager, Analysis
<1>5. Statement(m, P4, Register("MAM", "FunctionProxy", "FAM"), P5)
  BY OpenedRegisters, NoneAssumption DEF Manager, Analysis
<1>6. Statement(m, P5, Register("FAM", "ModuleProxy", "MAM"), P6)
  BY OpenedRegisters, NoneAssumption DEF Manager, Analysis
<1>7. Statement(m, P6, Declare("MPM"), P7)
  <2>1. R3 \subseteq Manager \X Analysis
    BY DEF Manager, Analysis
  <2>2. "MPM" \in Simple
    BY DEF Simple
  <2> HIDE DEF R3
  <2> QED BY <2>1, <2>2, OpenedSimple, Counts
<1> DEFINE X == { Add(Adaptor(p)) : p \in { p \in Pass : Served(m, p, "FAM") } }
           adds == [i \in DOMAIN ps |-> Add(Adaptor(ps[i]))]
<1>8. \A x \in X : Statement(m, P7, x, P7)
  <2> SUFFICES ASSUME NEW p \in Pass, Served(m, p, "FAM") PROVE Statement(m, P7, Add(Adaptor(p)), P7)
    OBVIOUS
  <2>1. Adaptor(p) \in Element(m)
    BY AdaptorElement
  <2>2. \A d : PipelineRule(m, d, Add(Adaptor(p)))
    BY <2>1 DEF PipelineRule, Add
  <2> QED BY <2>2, OpenedFills
<1>9. adds \in Seq(X)
  OBVIOUS
<1>10. Leads(m, P7, adds, P7)
  BY <1>8, <1>9, LeadsStay
<1>11. Statement(m, P7, RunMPM, P8)
  BY OfferedFirst, OpenedRuns
<1>12. Statement(m, P8, VerifyModule, P9)
  BY OpenedVerifies
<1> HIDE DEF P0, P1, P2, P3, P4, P5, P6, P7, P8, P9, adds, X
<1>13. Leads(m, P0, <<Module("ModuleForNewPM", ps)>>, P1)
  BY <1>1, LeadsOne
<1>14. Leads(m, P1, Managers, P3)
  BY <1>2, <1>3, LeadsTwo DEF Managers
<1>15. Leads(m, P3, <<Register("MAM", "PassInstrumentation", "own")>>, P4)
  BY <1>4, LeadsOne
<1>16. Leads(m, P4, Proxies, P6)
  BY <1>5, <1>6, LeadsTwo DEF Proxies
<1>17. Leads(m, P6, <<Declare("MPM")>>, P7)
  BY <1>7, LeadsOne
<1>18. Leads(m, P7, <<RunMPM, VerifyModule>>, P9)
  BY <1>11, <1>12, LeadsTwo
<1> DEFINE t1 == <<Module("ModuleForNewPM", ps)>> \o Managers
           t2 == t1 \o <<Register("MAM", "PassInstrumentation", "own")>>
           t3 == t2 \o Proxies
           t4 == t3 \o <<Declare("MPM")>>
           t5 == t4 \o adds
           t6 == t5 \o <<RunMPM, VerifyModule>>
<1>19. Leads(m, P0, t1, P3)
  BY <1>13, <1>14, LeadsThrough
<1>20. Leads(m, P0, t2, P4)
  <2> HIDE DEF t1
  <2> QED BY <1>15, <1>19, LeadsThrough
<1>21. Leads(m, P0, t3, P6)
  <2> HIDE DEF t2
  <2> QED BY <1>16, <1>20, LeadsThrough
<1>22. Leads(m, P0, t4, P7)
  <2> HIDE DEF t3
  <2> QED BY <1>17, <1>21, LeadsThrough
<1>23. Leads(m, P0, t5, P7)
  <2> HIDE DEF t4
  <2> QED BY <1>10, <1>22, LeadsThrough
<1>24. Leads(m, P0, t6, P9)
  <2> HIDE DEF t5
  <2> QED BY <1>18, <1>23, LeadsThrough
<1>25. NewPart(ps) = t6
  BY DEF NewPart, adds
<1> HIDE DEF t6
<1>26. Leads(m, P0, NewPart(ps), P9)
  BY <1>24, <1>25
<1> QED BY <1>26 DEF P0, P9

(* Statements in front of what may follow them.                             *)
LEMMA FitsAfter ==
  ASSUME NEW m, NEW P, NEW Q, NEW s, Leads(m, P, s, Q), NEW T, NEW c \in Seq(T), \A d \in Q : Fits(m, d, c)
  PROVE  \A d \in P : Fits(m, d, s \o c)
BY DEF Leads

(* What is left of a program, once its managers are gone.                   *)
Ending == <<ReturnHadError, EndScope(0)>>

(* The rest may follow, if the module was verified.                         *)
LEMMA FitsOpened ==
  ASSUME NEW m, m # "use_after_free", NEW H, NEW n, NEW R, NEW F, m \in Telling => "sound" \in F
  PROVE  Ending \in Seq({ReturnHadError, EndScope(0)}) /\ \A d \in Opened(H, n, R, F) : Fits(m, d, Ending)
<1>1. Ending \in Seq({ReturnHadError, EndScope(0)})
  BY DEF Ending
<1>2. \A d \in Opened(H, n, R, F) : Fits(m, d, Ending)
  BY FitsReturn DEF Opened, Ending
<1> QED BY <1>1, <1>2

(* A program made of statements that lead to it, and of the rest, is one    *)
(* from the start.                                                          *)
LEMMA FitsWhole ==
  ASSUME NEW m, m # "use_after_free", NEW H, NEW n, NEW R, NEW F, m \in Telling => "sound" \in F,
         NEW s, Leads(m, {Start}, s, Opened(H, n, R, F))
  PROVE  Fits(m, Start, s \o Ending)
<1>1. Ending \in Seq({ReturnHadError, EndScope(0)}) /\ \A d \in Opened(H, n, R, F) : Fits(m, d, Ending)
  BY FitsOpened
<1>2. \A d \in {Start} : Fits(m, d, s \o Ending)
  <2>1. \A d \in Opened(H, n, R, F) : Fits(m, d, Ending)
    BY <1>1
  <2>2. PICK T : T = {ReturnHadError, EndScope(0)}
    OBVIOUS
  <2>3. Ending \in Seq(T)
    BY <1>1, <2>2
  <2>4. PICK L : L = Ending
    OBVIOUS
  <2>5. L \in Seq(T) /\ \A d \in Opened(H, n, R, F) : Fits(m, d, L)
    BY <2>1, <2>3, <2>4
  <2> QED BY <2>4, <2>5, FitsAfter
<1> QED BY <1>2

(* Two statements, each of which leads on.                                  *)
LEMMA LeadsPair ==
  ASSUME NEW m, NEW P, NEW Q, NEW R, NEW x, NEW y, Leads(m, P, <<x>>, Q), Leads(m, Q, <<y>>, R)
  PROVE  Leads(m, P, <<x, y>>, R)
<1>1. Leads(m, P, <<x>> \o <<y>>, R)
  BY LeadsThrough
<1>2. <<x, y>> = <<x>> \o <<y>>
  BY Pair
<1> QED BY <1>1, <1>2

(* How a program opens: a context, and the module or the way out.           *)
LEMMA Opening ==
  ASSUME NEW m, m # "use_after_free", NEW ps, NEW code \in {1, 255}, m \in Telling => code # 1
  PROVE  Leads(m, {Start}, <<Declare("Context"), ModuleOrElse("MyModule", ps, <<EndScope(0)>>, code)>>,
               Opened({}, 2, {}, {"sound", "untouched"}))
<1> DEFINE x == ModuleOrElse("MyModule", ps, <<EndScope(0)>>, code)
           y == Declare("Context")
           P == Opened({}, 2, {}, {"sound", "untouched"})
<1>1. x.do = "module" /\ x.obj = "MyModule" /\ x.sound = TRUE /\ x.orelse = <<EndScope(0)>> /\ x.status = code
  BY DEF ModuleOrElse, Module
<1>2. MayFail(m, x) /\ x.status # None
  <2> HIDE DEF x
  <2> QED BY <1>1, NoneAssumption DEF MayFail
<1> HIDE DEF x, P
<1>3. Leads(m, {Start}, <<y>>, Alone)
  BY OpensContext
<1>4. Leads(m, Alone, <<x>>, P)
  BY <1>1, <1>2, OpensModule DEF P
<1> HIDE DEF y
<1>5. Leads(m, {Start}, <<y, x>>, P)
  BY <1>3, <1>4, LeadsPair
<1> QED BY <1>5 DEF x, y, P

FirstRegs == (({} \cup {<<"MAM", "PassInstrumentation">>}) \cup {<<"MAM", "FunctionProxy">>})
             \cup {<<"FAM", "ModuleProxy">>}

(* A round of your_first_pass more.                                         *)
LEMMA LeadsRound ==
  ASSUME NEW s, NEW R, R \subseteq Manager \X Analysis, NEW F, "sound" \in F,
         Leads("your_first_pass", {Start}, s, Opened({}, 2, R, F)), NEW ps \in Seq(Pass),
         NEW qs \in Seq({ p \in Pass : Served("your_first_pass", p, "FAM") })
  PROVE  Leads("your_first_pass", {Start}, s \o LegacyPart(ps) \o NewPart(qs) \o <<EndScope(2)>>,
               Opened({}, 2, FirstRegs, {"sound"}))
<1> DEFINE m  == "your_first_pass"
           H1 == ({} \cup {"ModuleForLegacyPM"}) \cup {"LegacyPM"}
           H2 == (((H1 \cup {"ModuleForNewPM"}) \cup {"FAM"}) \cup {"MAM"}) \cup {"MPM"}
           s1 == s \o LegacyPart(ps)
           s2 == s1 \o NewPart(qs)
<1>1. "MAM" \notin H1
  OBVIOUS
<1>2. Leads(m, Opened({}, 2, R, F), LegacyPart(ps), Opened(H1, 4, R, {"sound"}))
  BY LegacyPartLeads
<1> HIDE DEF H1
<1>3. Leads(m, {Start}, s1, Opened(H1, 4, R, {"sound"}))
  BY <1>2, LeadsThrough
<1>4. Leads(m, Opened(H1, 4, R, {"sound"}), NewPart(qs), Opened(H2, 8, FirstRegs, {"sound"}))
  BY <1>1, NewPartLeads DEF FirstRegs
<1> HIDE DEF H2, s1
<1>5. Leads(m, {Start}, s2, Opened(H2, 8, FirstRegs, {"sound"}))
  BY <1>3, <1>4, LeadsThrough
<1>6. Leads(m, Opened(H2, 8, FirstRegs, {"sound"}), <<EndScope(2)>>, Opened({}, 2, FirstRegs, {"sound"}))
  BY OpenedLeaves, LeadsOne
<1> HIDE DEF s2
<1>7. Leads(m, {Start}, s2 \o <<EndScope(2)>>, Opened({}, 2, FirstRegs, {"sound"}))
  BY <1>5, <1>6, LeadsThrough
<1> QED BY <1>7 DEF s2, s1

(* your_first_pass obeys the rules, whichever passes are ready.             *)
LEMMA FirstPassFits ==
  ASSUME NEW legacyReady, NEW newReady
  PROVE  Fits("your_first_pass", Start, FirstPassMain(legacyReady, newReady))
<1> DEFINE m  == "your_first_pass"
           G0 == {"sound", "untouched"}
           T == { p \in Pass : Served(m, p, "FAM") }
           s0 == << Declare("Context"), ModuleOrElse("MyModule", <<>>, <<EndScope(0)>>, 255) >>
           s1 == s0 \o LegacyPart(Solution) \o NewPart(Solution) \o <<EndScope(2)>>
           s2 == s1 \o LegacyPart(YourTurn(legacyReady)) \o NewPart(YourTurn(newReady)) \o <<EndScope(2)>>
<1>1. /\ "SolutionConstantPropagation" \in T /\ "YourTurnConstantPropagation" \in T
  <2>1. Requires("SolutionConstantPropagation") = <<>> /\ Requires("YourTurnConstantPropagation") = <<>>
    BY DEF Requires
  <2> QED BY <2>1, PassAssumption DEF Served
<1>2. Solution \in Seq(T) /\ YourTurn(legacyReady) \in Seq(T) /\ YourTurn(newReady) \in Seq(T)
  <2> HIDE DEF T
  <2> QED BY <1>1 DEF Solution, YourTurn
<1>3. Solution \in Seq(Pass) /\ YourTurn(legacyReady) \in Seq(Pass)
  <2>1. T \subseteq Pass
    OBVIOUS
  <2> HIDE DEF T
  <2> QED BY <1>2, <2>1, SeqMonotonic
<1>4. {} \subseteq Manager \X Analysis /\ "sound" \in G0 /\ "sound" \in {"sound"}
  OBVIOUS
<1>5. FirstRegs \subseteq Manager \X Analysis
  BY DEF FirstRegs, Manager, Analysis
<1> HIDE DEF T, G0
<1>6. Leads(m, {Start}, s0, Opened({}, 2, {}, G0))
  <2>1. m # "use_after_free" /\ 255 \in {1, 255} /\ 255 # 1
    OBVIOUS
  <2> QED BY <2>1, Opening DEF G0
<1> HIDE DEF s0
<1>7. Leads(m, {Start}, s1, Opened({}, 2, FirstRegs, {"sound"}))
  BY <1>2, <1>3, <1>4, <1>6, LeadsRound DEF T
<1> HIDE DEF s1
<1>8. Leads(m, {Start}, s2, Opened({}, 2, FirstRegs, {"sound"}))
  BY <1>2, <1>3, <1>4, <1>5, <1>7, LeadsRound DEF T
<1> HIDE DEF s2
<1>9. Fits(m, Start, s2 \o Ending)
  BY <1>8, FitsWhole
<1> QED BY <1>9 DEF FirstPassMain, Ending, s2, s1, s0

(* Three statements.                                                        *)
LEMMA LeadsThree ==
  ASSUME NEW m, NEW x1, NEW x2, NEW x3, NEW P1, NEW P2, NEW P3, NEW P4,
         Statement(m, P1, x1, P2), Statement(m, P2, x2, P3), Statement(m, P3, x3, P4)
  PROVE  Leads(m, P1, <<x1, x2, x3>>, P4)
<1>1. Leads(m, P1, <<x1, x2>>, P3) /\ Leads(m, P3, <<x3>>, P4)
  BY LeadsTwo, LeadsOne
<1>2. <<x1, x2, x3>> = <<x1, x2>> \o <<x3>>
  OBVIOUS
<1> QED BY <1>1, <1>2, LeadsThrough

\* a context, a module, and some other objects
Within(R, F) ==
  { d \in Shadow : /\ d.status = "open" /\ Extends(d.alive, CM) /\ R \subseteq d.regs
                   /\ "sound" \in F => ~d.unverified
                   /\ "untouched" \in F => d.untouched }

(* Leaving a scope behind a third object.                                   *)
LEMMA WithinLeaves3 ==
  ASSUME NEW m, NEW H, NEW n, NEW R, NEW F
  PROVE  Statement(m, Opened(H, n, R, F), EndScope(3), Within(R, F))
<1>1. PICK x : x = EndScope(3)
  OBVIOUS
<1>2. x.do = "leave" /\ x.keep = 3
  BY <1>1 DEF EndScope
<1>3. ASSUME NEW d \in Opened(H, n, R, F) PROVE Allowed(m, d, x) /\ After(d, x) \in Within(R, F)
  <2>1. /\ d \in Shadow /\ d.status = "open" /\ d.alive \in Seq(Objects) /\ Extends(d.alive, CM)
        /\ R \subseteq d.regs
        /\ "sound" \in F => ~d.unverified
        /\ "untouched" \in F => d.untouched
    BY DEF Opened, Facing, Shadow
  <2>2. PICK e : e = After(d, x)
    OBVIOUS
  <2>3. e = [d EXCEPT !.alive = IF Len(@) > 3 THEN SubSeq(@, 1, 3) ELSE @]
    BY <1>2, <2>2 DEF After
  <2>4. /\ e.alive = IF Len(d.alive) > 3 THEN SubSeq(d.alive, 1, 3) ELSE d.alive
        /\ e.regs = d.regs /\ e.untouched = d.untouched /\ e.status = d.status /\ e.unverified = d.unverified
    BY <2>1, <2>3 DEF Shadow
  <2>5. e.alive \in Seq(Objects) /\ Extends(e.alive, CM)
    <3>1. CASE Len(d.alive) > 3
      <4>1. \A i \in 1 .. 3 : d.alive[i] \in Objects /\ 1 + i - 1 = i
        BY <2>1, <3>1
      <4>2. /\ SubSeq(d.alive, 1, 3) \in Seq(Objects)
            /\ Len(SubSeq(d.alive, 1, 3)) = 3
            /\ \A i \in 1 .. 3 : SubSeq(d.alive, 1, 3)[i] = d.alive[1 + i - 1]
        BY <4>1, SubSeqProperties
      <4>3. e.alive = SubSeq(d.alive, 1, 3)
        BY <2>4, <3>1
      <4>4. \A i \in 1 .. 2 : e.alive[i] = CM[i]
        BY <2>1, <4>1, <4>2, <4>3, CMLength DEF Extends
      <4> QED BY <4>2, <4>3, <4>4, CMLength DEF Extends
    <3>2. CASE ~(Len(d.alive) > 3)
      BY <2>1, <2>4, <3>2
    <3> QED BY <3>1, <3>2
  <2>6. e \in Shadow
    BY <2>1, <2>3, <2>4, <2>5 DEF Shadow
  <2>7. e \in Within(R, F)
    BY <2>1, <2>4, <2>5, <2>6 DEF Within
  <2> QED BY <1>2, <2>2, <2>7 DEF Allowed, LeaveRule
<1> QED BY <1>1, <1>2, <1>3 DEF Statement, Opened, Facing

(* What is known of such a shadow.                                          *)
LEMMA WithinFacing ==
  ASSUME NEW R, NEW F, NEW d \in Within(R, F)
  PROVE  d \in Facing(CM, Held(d.alive), Len(d.alive), R, F) /\ "Context" \in Held(d.alive)
<1>1. "Context" \in Held(d.alive)
  <2>1. 1 \in DOMAIN d.alive /\ d.alive[1] = "Context"
    BY CMLength DEF Within, Shadow, Extends, CM
  <2> QED BY <2>1 DEF Held
<1>2. Len(d.alive) <= Len(d.alive)
  BY DEF Within, Shadow
<1> QED BY <1>1, <1>2 DEF Within, Facing

(* Less is known within.                                                    *)
LEMMA FacingWithin == ASSUME NEW H, NEW n, NEW R, NEW F PROVE Facing(CM, H, n, R, F) \subseteq Within(R, F)
BY DEF Facing, Within

(* Verifying the module there.                                              *)
LEMMA WithinVerifies ==
  ASSUME NEW m, NEW R, NEW F
  PROVE  Statement(m, Within(R, F), VerifyModule, Within(R, {"sound"}))
<1>1. ASSUME NEW d \in Within(R, F)
      PROVE  Statement(m, Facing(CM, Held(d.alive), Len(d.alive), R, F), VerifyModule,
                       Facing(CM, Held(d.alive), Len(d.alive), R, {"sound"}))
  BY WithinFacing, Verifies
<1>2. VerifyModule.do = "verify"
  BY DEF VerifyModule
<1> QED BY <1>1, <1>2, WithinFacing, FacingWithin DEF Statement, Within

(* Leaving the scope of the others.                                         *)
LEMMA WithinLeaves ==
  ASSUME NEW m, NEW R, NEW F
  PROVE  Statement(m, Within(R, F), EndScope(2), Opened({}, 2, R, F))
<1>1. ASSUME NEW d \in Within(R, F)
      PROVE  Statement(m, Facing(CM, Held(d.alive), Len(d.alive), R, F), EndScope(2), Opened({}, 2, R, F))
  <2> DEFINE I0 == {"Context", "MyModule"} \cup {}
  <2>1. \A z : z \in I0 <=> z \in Held(CM)
    BY CMLength
  <2>2. Extends(CM, CM) /\ 2 = Len(CM)
    BY CMLength DEF Extends
  <2> HIDE DEF I0
  <2>3. Statement(m, Facing(CM, Held(d.alive), Len(d.alive), R, F), EndScope(2), Facing(CM, I0, 2, R, F))
    BY <2>1, <2>2, CMLength, Leaves
  <2> QED BY <2>3 DEF Opened, I0
<1>2. EndScope(2).do = "leave"
  BY DEF EndScope
<1> QED BY <1>1, <1>2, WithinFacing DEF Statement, Within

(***************************************************************************)
(* your_first_pipeline                                                     *)
(***************************************************************************)
(* The passes of the pipelines are known.                                   *)
LEMMA NamedPassesExist ==
  /\ ThreeOptimizations \in Seq(Pass)
  /\ <<"Promote", "InstCombine", "AlwaysInliner">> \in Seq(Pass)
  /\ {"Promote", "InstCombine", "AlwaysInliner", "CountGlobals"} \subseteq Pass
<1>1. {"Promote", "InstCombine", "AlwaysInliner", "CountGlobals"} \subseteq Pass
  BY PassAssumption DEF ModulePasses
<1> QED BY <1>1 DEF ThreeOptimizations

(* The mains that use them have what these passes ask for.                  *)
LEMMA ServedByAll ==
  ASSUME NEW m, m # "your_first_pass"
  PROVE  /\ Served(m, "Promote", "FAM") /\ Served(m, "InstCombine", "FAM")
         /\ Served(m, "AlwaysInliner", "MAM") /\ Served(m, "CountGlobals", "MAM")
         /\ <<"FAM", "PassInstrumentation">> \in Offered(m)
<1>1. /\ Requires("Promote") = <<"DominatorTree">> /\ Requires("InstCombine") = <<"DominatorTree">>
      /\ Requires("AlwaysInliner") = <<"FunctionProxy", "ProfileSummary">> /\ Requires("CountGlobals") = <<>>
  BY DEF Requires
<1>2. {<<"MAM", "PassInstrumentation">>, <<"MAM", "FunctionProxy">>, <<"MAM", "ProfileSummary">>,
       <<"FAM", "PassInstrumentation">>, <<"FAM", "DominatorTree">>} \subseteq Offered(m)
  BY DEF Offered
<1> QED BY <1>1, <1>2 DEF Served

(* A pass on the module may be in a pipeline if it is served.               *)
LEMMA ModuleElement ==
  ASSUME NEW m, NEW p \in Pass, Served(m, p, "MAM")
  PROVE  ModuleElem(p) \in Element(m)
<1>1. PICK e : e = ModuleElem(p)
  OBVIOUS
<1>2. e.kind = "module" /\ e.passes = <<p>> /\ e.passes # <<>> /\ e.passes[1] = p
  BY <1>1 DEF ModuleElem
<1>3. e \in [kind : {"module", "function", "manager"}, passes : Seq(Pass)]
  <2>1. <<p>> \in Seq(Pass)
    OBVIOUS
  <2>2. PICK q : q = <<p>> /\ q \in Seq(Pass)
    BY <2>1
  <2>3. [kind |-> "module", passes |-> q] \in [kind : {"module", "function", "manager"}, passes : Seq(Pass)]
    BY <2>2
  <2> QED BY <1>1, <2>2, <2>3 DEF ModuleElem
<1> QED BY <1>1, <1>2, <1>3 DEF Element

(* Statements that fill a pass manager keep the shadow.                     *)
(* Adding a pass on the module keeps the shadow.                            *)
LEMMA AddsModule ==
  ASSUME NEW m, NEW p \in Pass, Served(m, p, "MAM"), NEW H, NEW n, NEW R, NEW F
  PROVE  Statement(m, Opened(H, n, R, F), Add(ModuleElem(p)), Opened(H, n, R, F))
<1>1. ModuleElem(p) \in Element(m)
  BY ModuleElement
<1>2. \A d : PipelineRule(m, d, Add(ModuleElem(p)))
  BY <1>1 DEF PipelineRule, Add
<1> QED BY <1>2, OpenedFills

(* So does adding a pass on functions.                                      *)
LEMMA AddsAdaptor ==
  ASSUME NEW m, NEW p \in Pass, Served(m, p, "FAM"), NEW H, NEW n, NEW R, NEW F
  PROVE  Statement(m, Opened(H, n, R, F), Add(Adaptor(p)), Opened(H, n, R, F))
<1>1. Adaptor(p) \in Element(m)
  BY AdaptorElement
<1>2. \A d : PipelineRule(m, d, Add(Adaptor(p)))
  BY <1>1 DEF PipelineRule, Add
<1> QED BY <1>2, OpenedFills

(* So does adding to the function pass manager.                             *)
LEMMA AddsFunction ==
  ASSUME NEW m, NEW p \in Pass, Served(m, p, "FAM"), NEW H, NEW n, NEW R, NEW F
  PROVE  Statement(m, Opened(H, n, R, F), AddToFPM(p), Opened(H, n, R, F))
<1>1. \A d : PipelineRule(m, d, AddToFPM(p))
  BY DEF PipelineRule, AddToFPM, FunctionPass
<1> QED BY <1>1, OpenedFills

(* So does moving that into the module's pipeline.                          *)
LEMMA Moves ==
  ASSUME NEW m, m # "your_first_pass", NEW H, NEW n, NEW R, NEW F
  PROVE  Statement(m, Opened(H, n, R, F), AddMovedFPM, Opened(H, n, R, F))
<1>1. \A d : PipelineRule(m, d, AddMovedFPM)
  BY ServedByAll DEF PipelineRule, AddMovedFPM
<1> QED BY <1>1, OpenedFills

(* What a PassBuilder registers, whatever instrumentation it was given.     *)
FunctionRegs(R) == (R \cup {<<"FAM", "PassInstrumentation">>}) \cup {<<"FAM", "DominatorTree">>}
ModuleRegs(R)   == (R \cup {<<"MAM", "PassInstrumentation">>}) \cup {<<"MAM", "ProfileSummary">>}
ProxyRegs(R)    == (R \cup {<<"MAM", "FunctionProxy">>}) \cup {<<"FAM", "ModuleProxy">>}

(* Registering the analyses of functions.                                   *)
LEMMA RegistersFunctions ==
  ASSUME NEW m, NEW b \in {"own", "PIC"}, NEW H, NEW n, NEW R, NEW F,
         m = "your_first_pipeline" => <<"FAM", "PassInstrumentation">> \in R
  PROVE  Leads(m, Opened(H, n, R, F), RegisterFunctionAnalyses(b), Opened(H, n, FunctionRegs(R), F))
<1> DEFINE R1 == R \cup {<<"FAM", "PassInstrumentation">>}
           R2 == R1 \cup {<<"FAM", "DominatorTree">>}
<1>1. Statement(m, Opened(H, n, R, F), Register("FAM", "PassInstrumentation", b), Opened(H, n, R1, F))
  BY OpenedRegisters, NoneAssumption DEF Manager, Analysis
<1>2. Statement(m, Opened(H, n, R1, F), Register("FAM", "DominatorTree", "own"), Opened(H, n, R2, F))
  BY OpenedRegisters, NoneAssumption DEF Manager, Analysis
<1> HIDE DEF R1, R2
<1>3. Leads(m, Opened(H, n, R, F), RegisterFunctionAnalyses(b), Opened(H, n, R2, F))
  BY <1>1, <1>2, LeadsTwo DEF RegisterFunctionAnalyses
<1> QED BY <1>3 DEF R1, R2, FunctionRegs

(* Registering the analyses of the module.                                  *)
LEMMA RegistersModule ==
  ASSUME NEW m, NEW b \in {"own", "PIC"}, NEW H, NEW n, NEW R, NEW F,
         m = "your_first_pipeline" => <<"MAM", "PassInstrumentation">> \in R
  PROVE  Leads(m, Opened(H, n, R, F), RegisterModuleAnalyses(b), Opened(H, n, ModuleRegs(R), F))
<1> DEFINE R1 == R \cup {<<"MAM", "PassInstrumentation">>}
           R2 == R1 \cup {<<"MAM", "ProfileSummary">>}
<1>1. Statement(m, Opened(H, n, R, F), Register("MAM", "PassInstrumentation", b), Opened(H, n, R1, F))
  BY OpenedRegisters, NoneAssumption DEF Manager, Analysis
<1>2. Statement(m, Opened(H, n, R1, F), Register("MAM", "ProfileSummary", "own"), Opened(H, n, R2, F))
  BY OpenedRegisters, NoneAssumption DEF Manager, Analysis
<1> HIDE DEF R1, R2
<1>3. Leads(m, Opened(H, n, R, F), RegisterModuleAnalyses(b), Opened(H, n, R2, F))
  BY <1>1, <1>2, LeadsTwo DEF RegisterModuleAnalyses
<1> QED BY <1>3 DEF R1, R2, ModuleRegs

(* Registering the proxies.                                                 *)
LEMMA RegistersProxies ==
  ASSUME NEW m, NEW H, NEW n, NEW R, NEW F
  PROVE  Leads(m, Opened(H, n, R, F), Proxies, Opened(H, n, ProxyRegs(R), F))
<1> DEFINE R1 == R \cup {<<"MAM", "FunctionProxy">>}
           R2 == R1 \cup {<<"FAM", "ModuleProxy">>}
<1>1. Statement(m, Opened(H, n, R, F), Register("MAM", "FunctionProxy", "FAM"), Opened(H, n, R1, F))
  BY OpenedRegisters, NoneAssumption DEF Manager, Analysis
<1>2. Statement(m, Opened(H, n, R1, F), Register("FAM", "ModuleProxy", "MAM"), Opened(H, n, R2, F))
  BY OpenedRegisters, NoneAssumption DEF Manager, Analysis
<1> HIDE DEF R1, R2
<1>3. Leads(m, Opened(H, n, R, F), Proxies, Opened(H, n, R2, F))
  BY <1>1, <1>2, LeadsTwo DEF Proxies
<1> QED BY <1>3 DEF R1, R2, ProxyRegs

(* All of these are registered with a manager, on top of what was.          *)
LEMMA Regs ==
  ASSUME NEW R, R \subseteq Manager \X Analysis
  PROVE  /\ FunctionRegs(R) \subseteq Manager \X Analysis /\ R \subseteq FunctionRegs(R)
         /\ ModuleRegs(R) \subseteq Manager \X Analysis /\ R \subseteq ModuleRegs(R)
         /\ ProxyRegs(R) \subseteq Manager \X Analysis /\ R \subseteq ProxyRegs(R)
BY DEF FunctionRegs, ModuleRegs, ProxyRegs, Manager, Analysis

LogRegs == ({} \cup {<<"MAM", "PassInstrumentation">>}) \cup {<<"FAM", "PassInstrumentation">>}
PipelineRegs == ModuleRegs(FunctionRegs(ProxyRegs(LogRegs)))

(* All that your_first_pipeline offers is registered.                       *)
LEMMA PipelineRegsOffered ==
  /\ LogRegs \subseteq Manager \X Analysis
  /\ PipelineRegs \subseteq Manager \X Analysis
  /\ Offered("your_first_pipeline") \subseteq PipelineRegs
<1>1. LogRegs \subseteq Manager \X Analysis
  BY DEF LogRegs, Manager, Analysis
<1>2. ProxyRegs(LogRegs) \subseteq Manager \X Analysis /\ LogRegs \subseteq ProxyRegs(LogRegs)
  BY <1>1, Regs
<1>3. PipelineRegs \subseteq Manager \X Analysis
  BY <1>2, Regs DEF PipelineRegs
<1>4. Offered("your_first_pipeline")
      = {<<"MAM", "PassInstrumentation">>, <<"MAM", "FunctionProxy">>, <<"MAM", "ProfileSummary">>,
         <<"FAM", "PassInstrumentation">>, <<"FAM", "DominatorTree">>}
  BY DEF Offered
<1>5. Offered("your_first_pipeline") \subseteq PipelineRegs
  BY <1>4 DEF PipelineRegs, ModuleRegs, FunctionRegs, ProxyRegs, LogRegs
<1> QED BY <1>1, <1>3, <1>5

(* The pipeline of the new kind, with the reader's instrumentation.         *)
LEMMA NewPipelineLeads ==
  ASSUME NEW u, NEW H, "MAM" \notin H, NEW R
  PROVE  Leads("your_first_pipeline", Opened(H, 3, R, {"sound", "untouched"}), NewPipeline(u),
               Within(PipelineRegs, {}))
<1> DEFINE m  == "your_first_pipeline"
           F0 == {"sound", "untouched"}
           H1 == H \cup {"FAM"}
           H2 == H1 \cup {"MAM"}
           H3 == H2 \cup {"PIC"}
           H4 == H3 \cup {"SI"}
           H5 == H4 \cup {"MPM"}
           H6 == H5 \cup {"FPM"}
           H7 == H6 \cup {"PB"}
           L1 == {} \cup {<<"MAM", "PassInstrumentation">>}
           L2 == LogRegs
           L3 == ProxyRegs(L2)
           L4 == FunctionRegs(L3)
           L5 == ModuleRegs(L4)
           P0 == Opened(H, 3, R, F0)
           P1 == Opened(H1, 4, {}, F0)
           P2 == Opened(H2, 5, {}, F0)
           P3 == Opened(H3, 6, {}, F0)
           P4 == Opened(H4, 7, {}, F0)
           P5 == Opened(H4, 7, L1, F0)
           P6 == Opened(H4, 7, L2, F0)
           P7 == Opened(H4, 7, L3, F0)
           P8 == Opened(H5, 8, L3, F0)
           P9 == Opened(H6, 9, L3, F0)
           P10 == Opened(H7, 10, L3, F0)
           P11 == Opened(H7, 10, L4, F0)
           P12 == Opened(H7, 10, L5, F0)
           P13 == Opened(H7, 10, L5, {})
           P14 == Within(L5, {})
<1>1. Statement(m, P0, Declare("FAM"), P1)
  BY OpenedDeclares, Counts DEF Modules, Objects
<1>2. Statement(m, P1, Declare("MAM"), P2)
  BY OpenedDeclares, Counts DEF Modules, Objects
<1>3. Statement(m, P2, Declare("PIC"), P3)
  BY OpenedDeclares, Counts DEF Modules, Objects
<1>4. Statement(m, P3, Declare("SI"), P4)
  BY OpenedSimple, Counts DEF Simple
<1>5. Statement(m, P4, Register("MAM", "PassInstrumentation", "PIC"), P5)
  BY OpenedRegisters, NoneAssumption DEF Manager, Analysis
<1>6. Statement(m, P5, Register("FAM", "PassInstrumentation", "PIC"), P6)
  BY OpenedRegisters, NoneAssumption DEF Manager, Analysis, LogRegs
<1>7. Leads(m, P6, Proxies, P7)
  BY RegistersProxies
<1>8. L3 \subseteq Manager \X Analysis
  BY PipelineRegsOffered, Regs
<1>9. /\ <<"FAM", "PassInstrumentation">> \in L3 /\ <<"MAM", "PassInstrumentation">> \in L4
      /\ Offered(m) \subseteq L5
  BY PipelineRegsOffered DEF PipelineRegs, LogRegs, ProxyRegs, FunctionRegs
<1>10. "MPM" \in Simple /\ "FPM" \in Simple /\ "PB" \in Simple
  BY DEF Simple
<1> HIDE DEF L2, L3
<1>11. Statement(m, P7, Declare("MPM"), P8)
  BY <1>8, <1>10, OpenedSimple, Counts
<1>12. Statement(m, P8, Declare("FPM"), P9)
  BY <1>8, <1>10, OpenedSimple, Counts
<1>13. Statement(m, P9, Declare("PB"), P10)
  BY <1>8, <1>10, OpenedSimple, Counts
<1>14. Leads(m, P10, RegisterFunctionAnalyses("own"), P11)
  BY <1>9, RegistersFunctions
<1> HIDE DEF L4
<1>15. Leads(m, P11, RegisterModuleAnalyses("own"), P12)
  BY <1>9, RegistersModule
<1> HIDE DEF L5
<1>16. m # "your_first_pass"
  OBVIOUS
<1>17. Leads(m, P12, FunctionPasses(u), P12)
  <2>1. Statement(m, P12, Add(Adaptor("Promote")), P12) /\ Statement(m, P12, Add(Adaptor("InstCombine")), P12)
    BY <1>16, ServedByAll, NamedPassesExist, AddsAdaptor
  <2>2. Statement(m, P12, AddToFPM("Promote"), P12) /\ Statement(m, P12, AddToFPM("InstCombine"), P12)
    BY <1>16, ServedByAll, NamedPassesExist, AddsFunction
  <2> HIDE DEF m, P12
  <2>3. CASE u
    BY <2>1, <2>3, LeadsTwo DEF FunctionPasses
  <2>4. CASE ~u
    BY <2>2, <2>4, LeadsTwo DEF FunctionPasses
  <2> QED BY <2>3, <2>4
<1>18. Statement(m, P12, AddMovedFPM, P12)
  BY <1>16, Moves
<1>19. Statement(m, P12, Add(ModuleElem("AlwaysInliner")), P12)
  BY <1>16, ServedByAll, NamedPassesExist, AddsModule
<1>20. Statement(m, P12, RunMPM, P13)
  BY <1>9, OpenedRuns
<1>21. Statement(m, P13, EndScope(3), P14)
  BY WithinLeaves3
<1> HIDE DEF m, P0, P1, P2, P3, P4, P5, P6, P7, P8, P9, P10, P11, P12, P13, P14
<1> DEFINE t1 == Managers \o <<Declare("PIC"), Declare("SI")>>
           t2 == t1 \o Logging
           t3 == t2 \o Proxies
           t4 == t3 \o <<Declare("MPM"), Declare("FPM"), Declare("PB")>>
           t5 == t4 \o RegisterFunctionAnalyses("own")
           t6 == t5 \o RegisterModuleAnalyses("own")
           t7 == t6 \o FunctionPasses(u)
           t8 == t7 \o <<AddMovedFPM, Add(ModuleElem("AlwaysInliner")), RunMPM, EndScope(3)>>
<1>22. Leads(m, P0, t1, P4)
  <2>1. Leads(m, P0, Managers, P2)
    BY <1>1, <1>2, LeadsTwo DEF Managers
  <2>2. Leads(m, P2, <<Declare("PIC"), Declare("SI")>>, P4)
    BY <1>3, <1>4, LeadsTwo
  <2> QED BY <2>1, <2>2, LeadsThrough
<1>23. Leads(m, P0, t2, P6)
  <2>1. Leads(m, P4, Logging, P6)
    BY <1>5, <1>6, LeadsTwo DEF Logging
  <2> HIDE DEF t1
  <2> QED BY <1>22, <2>1, LeadsThrough
<1>24. Leads(m, P0, t3, P7)
  <2> HIDE DEF t2
  <2> QED BY <1>7, <1>23, LeadsThrough
<1>25. Leads(m, P0, t4, P10)
  <2>1. Leads(m, P7, <<Declare("MPM"), Declare("FPM"), Declare("PB")>>, P10)
    BY <1>11, <1>12, <1>13, LeadsThree
  <2> HIDE DEF t3
  <2> QED BY <1>24, <2>1, LeadsThrough
<1>26. Leads(m, P0, t5, P11)
  <2> HIDE DEF t4
  <2> QED BY <1>14, <1>25, LeadsThrough
<1>27. Leads(m, P0, t6, P12)
  <2> HIDE DEF t5
  <2> QED BY <1>15, <1>26, LeadsThrough
<1>28. Leads(m, P0, t7, P12)
  <2> HIDE DEF t6
  <2> QED BY <1>17, <1>27, LeadsThrough
<1>29. Leads(m, P0, t8, P14)
  <2>1. Leads(m, P12, <<AddMovedFPM, Add(ModuleElem("AlwaysInliner")), RunMPM, EndScope(3)>>, P14)
    BY <1>18, <1>19, <1>20, <1>21, LeadsFour
  <2> HIDE DEF t7
  <2> QED BY <1>28, <2>1, LeadsThrough
<1>30. NewPipeline(u) = t8
  BY DEF NewPipeline
<1> HIDE DEF t8
<1>31. Leads(m, P0, NewPipeline(u), P14)
  BY <1>29, <1>30
<1>32. L5 = PipelineRegs
  BY DEF L5, L4, L3, L2, PipelineRegs
<1> QED BY <1>31, <1>32 DEF m, P0, P14

(* A pipeline on a clone of the module, and the verification of that        *)
(* clone.                                                                   *)
LEMMA OnCloneLeads ==
  ASSUME NEW R, NEW F, "sound" \in F, NEW Q, NEW G, NEW ps, NEW pipeline,
         Leads("your_first_pipeline", Opened({} \cup {"ModuleForLegacyPM"}, 3, R, {"sound", "untouched"}),
               pipeline, Within(Q, G))
  PROVE  Leads("your_first_pipeline", Opened({}, 2, R, F), OnClone(ps, pipeline), Opened({}, 2, Q, {"sound"}))
<1> DEFINE m  == "your_first_pipeline"
           P0 == Opened({}, 2, R, F)
           P1 == Opened({} \cup {"ModuleForLegacyPM"}, 3, R, {"sound", "untouched"})
           P2 == Within(Q, G)
           P3 == Within(Q, {"sound"})
           P4 == Opened({}, 2, Q, {"sound"})
           t1 == <<Module("ModuleForLegacyPM", ps)>> \o pipeline
           t2 == t1 \o <<VerifyModule, EndScope(2)>>
<1>1. Statement(m, P0, Module("ModuleForLegacyPM", ps), P1)
  BY OpenedClones, Counts DEF Modules
<1>2. Statement(m, P2, VerifyModule, P3)
  BY WithinVerifies
<1>3. Statement(m, P3, EndScope(2), P4)
  BY WithinLeaves
<1>4. Leads(m, P1, pipeline, P2)
  OBVIOUS
<1> HIDE DEF m, P0, P1, P2, P3, P4
<1>5. Leads(m, P0, t1, P2)
  BY <1>1, <1>4, LeadsOne, LeadsThrough
<1>6. Leads(m, P2, <<VerifyModule, EndScope(2)>>, P4)
  BY <1>2, <1>3, LeadsTwo
<1>7. Leads(m, P0, t2, P4)
  <2> HIDE DEF t1
  <2> QED BY <1>5, <1>6, LeadsThrough
<1>8. OnClone(ps, pipeline) = t2
  BY DEF OnClone
<1> HIDE DEF t2
<1>9. Leads(m, P0, OnClone(ps, pipeline), P4)
  BY <1>7, <1>8
<1> QED BY <1>9 DEF m, P0, P4

(* The solution's legacy pipeline.                                          *)
LEMMA LegacyPipelineLeads ==
  ASSUME NEW R, R \subseteq Manager \X Analysis
  PROVE  Leads("your_first_pipeline", Opened({} \cup {"ModuleForLegacyPM"}, 3, R, {"sound", "untouched"}),
               SolutionLegacyPipeline, Within(R, {}))
<1> DEFINE m  == "your_first_pipeline"
           F0 == {"sound", "untouched"}
           H1 == {} \cup {"ModuleForLegacyPM"}
           H2 == H1 \cup {"LegacyPM"}
           P1 == Opened(H1, 3, R, F0)
           P2 == Opened(H2, 4, R, F0)
           P3 == Opened(H2, 4, R, {})
           P4 == Within(R, {})
           ps == <<"Promote", "InstCombine", "AlwaysInliner">>
<1>1. Statement(m, P1, Declare("LegacyPM"), P2)
  BY OpenedSimple, Counts DEF Simple
<1>2. "MAM" \notin H2 /\ "PIC" \notin H2
  OBVIOUS
<1>3. ps \in Seq(Pass)
  BY NamedPassesExist
<1> HIDE DEF ps, H2
<1>4. Statement(m, P2, RunLegacyPM(ps), P3)
  BY <1>2, <1>3, OpenedRunsLegacy
<1>5. Statement(m, P3, EndScope(3), P4)
  BY WithinLeaves3
<1> HIDE DEF m, P1, P2, P3, P4
<1>6. Leads(m, P1, <<Declare("LegacyPM"), RunLegacyPM(ps), EndScope(3)>>, P4)
  BY <1>1, <1>4, <1>5, LeadsThree
<1> QED BY <1>6 DEF SolutionLegacyPipeline, m, P1, P4, ps

(* The reader's legacy pipeline: nothing yet.                               *)
LEMMA YourTurnLegacyLeads ==
  ASSUME NEW R
  PROVE  Leads("your_first_pipeline", Opened({} \cup {"ModuleForLegacyPM"}, 3, R, {"sound", "untouched"}),
               YourTurnLegacyPipeline, Within(R, {"sound", "untouched"}))
<1>1. PICK P : P = Opened({} \cup {"ModuleForLegacyPM"}, 3, R, {"sound", "untouched"})
  OBVIOUS
<1>2. P \subseteq Within(R, {"sound", "untouched"})
  BY <1>1, FacingWithin DEF Opened
<1>3. Leads("your_first_pipeline", P, <<>>, P)
  BY LeadsNowhere
<1>4. Leads("your_first_pipeline", P, <<>>, Within(R, {"sound", "untouched"}))
  BY <1>2, <1>3, LeadsFrom
<1> QED BY <1>1, <1>4 DEF YourTurnLegacyPipeline

(* your_first_pipeline obeys the rules, in the solution and as the reader   *)
(* finds it.                                                                *)
LEMMA PipelineFits ==
  ASSUME NEW u
  PROVE  Fits("your_first_pipeline", Start, PipelineMain(u))
<1> DEFINE m  == "your_first_pipeline"
           G0 == {"sound", "untouched"}
           S0 == {"sound"}
           Q0 == {}
           P0 == Opened({}, 2, {}, G0)
           P1 == Opened({}, 2, {}, S0)
           P2 == Opened({}, 2, PipelineRegs, S0)
           s0 == << Declare("Context"), ModuleOrElse("MyModule", <<>>, <<EndScope(0)>>, 255) >>
           x1 == OnClone(ThreeOptimizations, SolutionLegacyPipeline)
           x2 == OnClone(ThreeOptimizations, NewPipeline(u))
           x3 == OnClone(<<>>, YourTurnLegacyPipeline)
           t1 == s0 \o x1
           t2 == t1 \o x2
           t3 == t2 \o x3
           t4 == t3 \o x2
<1>1. Leads(m, {Start}, s0, P0)
  <2>1. m # "use_after_free" /\ 255 \in {1, 255} /\ 255 # 1
    OBVIOUS
  <2> QED BY <2>1, Opening
<1>2. "sound" \in G0 /\ "sound" \in S0 /\ {} \subseteq Manager \X Analysis
  OBVIOUS
<1>3. Leads(m, P0, x1, P1)
  BY <1>2, LegacyPipelineLeads, OnCloneLeads
<1>4. Leads(m, P1, x2, P2)
  BY <1>2, NewPipelineLeads, OnCloneLeads
<1>5. Leads(m, P2, x3, P2)
  BY <1>2, YourTurnLegacyLeads, OnCloneLeads
<1>6. Leads(m, P2, x2, P2)
  BY <1>2, NewPipelineLeads, OnCloneLeads
<1> HIDE DEF P0, P1, s0, x1, x2, x3
<1>7. Leads(m, {Start}, t1, P1)
  BY <1>1, <1>3, LeadsThrough
<1>8. Leads(m, {Start}, t2, P2)
  <2> HIDE DEF t1, P2
  <2> QED BY <1>4, <1>7, LeadsThrough
<1>9. Leads(m, {Start}, t3, P2)
  <2> HIDE DEF t2, P2
  <2> QED BY <1>5, <1>8, LeadsThrough
<1>10. Leads(m, {Start}, t4, P2)
  <2> HIDE DEF t3, P2
  <2> QED BY <1>6, <1>9, LeadsThrough
<1> HIDE DEF t4
<1>11. Fits(m, Start, t4 \o Ending)
  <2> HIDE DEF S0
  <2> QED BY <1>2, <1>10, FitsWhole
<1> QED BY <1>11 DEF PipelineMain, Ending, t4, t3, t2, t1, s0, x1, x2, x3

(* Eleven statements.                                                       *)
LEMMA LeadsEleven ==
  ASSUME NEW m, NEW P0, NEW P1, NEW P2, NEW P3, NEW P4, NEW x1, NEW x2, NEW x3, NEW x4, NEW x5, NEW x6,
         NEW x7, NEW x8, NEW x9, NEW x10, NEW x11,
         Leads(m, P0, <<x1, x2>>, P1), Leads(m, P1, <<x3, x4, x5>>, P2),
         Leads(m, P2, <<x6, x7, x8>>, P3), Leads(m, P3, <<x9, x10, x11>>, P4)
  PROVE  Leads(m, P0, <<x1, x2, x3, x4, x5, x6, x7, x8, x9, x10, x11>>, P4)
<1>1. Leads(m, P0, <<x1, x2>> \o <<x3, x4, x5>>, P2)
  BY LeadsThrough
<1>2. Leads(m, P0, <<x1, x2>> \o <<x3, x4, x5>> \o <<x6, x7, x8>>, P3)
  BY <1>1, LeadsThrough
<1>3. Leads(m, P0, <<x1, x2>> \o <<x3, x4, x5>> \o <<x6, x7, x8>> \o <<x9, x10, x11>>, P4)
  BY <1>2, LeadsThrough
<1>4. <<x1, x2, x3, x4, x5, x6, x7, x8, x9, x10, x11>>
      = <<x1, x2>> \o <<x3, x4, x5>> \o <<x6, x7, x8>> \o <<x9, x10, x11>>
  OBVIOUS
<1> QED BY <1>3, <1>4

(* Eight statements, and the last two.                                      *)
LEMMA FitsTen ==
  ASSUME NEW m, NEW P0, NEW P1, NEW P2, NEW x1, NEW x2, NEW x3, NEW x4, NEW x5, NEW x6,
         NEW x7, NEW x8, NEW x9, NEW x10,
         Leads(m, P0, <<x1, x2, x3, x4>>, P1), Leads(m, P1, <<x5, x6, x7, x8>>, P2),
         \A d \in P2 : Fits(m, d, <<x9, x10>>)
  PROVE  \A d \in P0 : Fits(m, d, <<x1, x2, x3, x4, x5, x6, x7, x8, x9, x10>>)
<1>1. Leads(m, P0, <<x1, x2, x3, x4>> \o <<x5, x6, x7, x8>>, P2)
  BY LeadsThrough
<1>2. <<x9, x10>> \in Seq({x9, x10})
  OBVIOUS
<1>3. \A d \in P0 : Fits(m, d, <<x1, x2, x3, x4>> \o <<x5, x6, x7, x8>> \o <<x9, x10>>)
  BY <1>1, <1>2, FitsAfter
<1>4. <<x1, x2, x3, x4, x5, x6, x7, x8, x9, x10>> = <<x1, x2, x3, x4>> \o <<x5, x6, x7, x8>> \o <<x9, x10>>
  OBVIOUS
<1> QED BY <1>3, <1>4

(* RunPipeline and opt have what the passes on functions ask for.           *)
LEMMA FunctionPassServed ==
  ASSUME NEW m, m \notin {"your_first_pass", "your_first_pipeline"}
  PROVE  /\ {"Hello", "PrintFnStats", "Dump"} \subseteq Pass
         /\ \A p \in {"Hello", "PrintFnStats", "Dump", "LocalConstProp", "Promote"} : p \in Pass /\ Served(m, p, "FAM")
<1>1. /\ Requires("Hello") = <<>> /\ Requires("Dump") = <<>> /\ Requires("LocalConstProp") = <<>>
      /\ Requires("PrintFnStats") = <<"FnStats">>
  BY DEF Requires
<1>2. {<<"FAM", "PassInstrumentation">>, <<"FAM", "FnStats">>} \subseteq Offered(m)
  BY DEF Offered
<1>3. Served(m, "Promote", "FAM")
  BY ServedByAll
<1>4. Served(m, "Hello", "FAM") /\ Served(m, "Dump", "FAM") /\ Served(m, "LocalConstProp", "FAM")
      /\ Served(m, "PrintFnStats", "FAM")
  BY <1>1, <1>2 DEF Served
<1>5. {"Hello", "PrintFnStats", "Dump", "LocalConstProp", "Promote"} \subseteq Pass
  BY PassAssumption
<1> QED BY <1>3, <1>4, <1>5

StatsRegs == {} \cup {<<"FAM", "FnStats">>}
RunRegs == ProxyRegs(FunctionRegs(ModuleRegs(StatsRegs \cup {<<"MAM", "PassInstrumentation">>})))

(* All that RunPipeline offers is registered.                               *)
LEMMA RunRegsOffered ==
  /\ StatsRegs \subseteq Manager \X Analysis
  /\ StatsRegs \cup {<<"MAM", "PassInstrumentation">>} \subseteq Manager \X Analysis
  /\ RunRegs \subseteq Manager \X Analysis
  /\ Offered("RunPipeline") \subseteq RunRegs
<1>1. /\ StatsRegs \subseteq Manager \X Analysis
      /\ StatsRegs \cup {<<"MAM", "PassInstrumentation">>} \subseteq Manager \X Analysis
  BY DEF StatsRegs, Manager, Analysis
<1>2. RunRegs \subseteq Manager \X Analysis
  BY <1>1, Regs DEF RunRegs
<1>4. Offered("RunPipeline")
      = {<<"MAM", "PassInstrumentation">>, <<"MAM", "FunctionProxy">>, <<"MAM", "ProfileSummary">>,
         <<"FAM", "PassInstrumentation">>, <<"FAM", "DominatorTree">>, <<"FAM", "FnStats">>}
  BY DEF Offered
<1>5. Offered("RunPipeline") \subseteq RunRegs
  BY <1>4 DEF RunRegs, ModuleRegs, FunctionRegs, ProxyRegs, StatsRegs
<1> QED BY <1>1, <1>2, <1>5

(* RunPipeline obeys the rules.                                             *)
LEMMA RunPipelineFits == Fits("RunPipeline", Start, RunPipelineMain)
<1> DEFINE m  == "RunPipeline"
           F0 == {"sound", "untouched"}
           H0 == {}
           H1 == H0 \cup {"PB"}
           H2 == H1 \cup {"LAM"}
           H3 == H2 \cup {"FAM"}
           H4 == H3 \cup {"CGAM"}
           H5 == H4 \cup {"MAM"}
           H6 == H5 \cup {"PIC"}
           H7 == H6 \cup {"SI"}
           H8 == H7 \cup {"MPM"}
           H9 == H8 \cup {"FPM"}
           R0 == {}
           R1 == StatsRegs
           R2 == R1 \cup {<<"MAM", "PassInstrumentation">>}
           R3 == ModuleRegs(R2)
           R4 == FunctionRegs(R3)
           R5 == ProxyRegs(R4)
           P0 == Opened(H0, 2, R0, F0)
           P1 == Opened(H1, 3, R0, F0)
           P2 == Opened(H2, 4, R0, F0)
           P3 == Opened(H3, 5, R0, F0)
           P4 == Opened(H4, 6, R0, F0)
           P5 == Opened(H5, 7, R0, F0)
           P6 == Opened(H5, 7, R1, F0)
           P7 == Opened(H6, 8, R1, F0)
           P8 == Opened(H7, 9, R1, F0)
           P9 == Opened(H7, 9, R2, F0)
           P10 == Opened(H7, 9, R3, F0)
           P11 == Opened(H7, 9, R4, F0)
           P12 == Opened(H7, 9, R5, F0)
           P13 == Opened(H8, 10, R5, F0)
           P14 == Opened(H9, 11, R5, F0)
           P15 == Opened(H9, 11, R5, {})
           a1 == Declare("Context")
           a2 == ModuleOrElse("MyModule", <<"CountGlobals", "Hello", "PrintFnStats", "Dump">>, <<EndScope(0)>>, 1)
           a3 == Declare("PB")
           a4 == Declare("LAM")
           a5 == Declare("FAM")
           a6 == Declare("CGAM")
           a7 == Declare("MAM")
           a8 == Register("FAM", "FnStats", "own")
           a9 == Declare("PIC")
           a10 == Declare("SI")
           a11 == Register("MAM", "PassInstrumentation", "PIC")
           b1 == Declare("MPM")
           b2 == Add(ModuleElem("CountGlobals"))
           b3 == Declare("FPM")
           b4 == AddToFPM("Hello")
           b5 == AddToFPM("PrintFnStats")
           b6 == AddToFPM("Dump")
           c1 == RegisterModuleAnalyses("own")
           c2 == RegisterFunctionAnalyses("own")
<1>1. Leads(m, {Start}, <<a1, a2>>, P0)
  <2>1. m # "use_after_free" /\ 1 \in {1, 255} /\ m \notin Telling
    BY DEF Telling
  <2> QED BY <2>1, Opening
<1>2. {"PB", "LAM", "CGAM", "SI", "MPM", "FPM"} \subseteq Simple /\ R0 \subseteq Manager \X Analysis
  BY DEF Simple
<1>3. Statement(m, P0, a3, P1)
  BY <1>2, OpenedSimple, Counts
<1>4. Statement(m, P1, a4, P2)
  BY <1>2, OpenedSimple, Counts
<1>5. Statement(m, P2, a5, P3)
  BY OpenedDeclares, Counts DEF Modules, Objects
<1>6. Statement(m, P3, a6, P4)
  BY <1>2, OpenedSimple, Counts
<1>7. Statement(m, P4, a7, P5)
  BY OpenedDeclares, Counts DEF Modules, Objects
<1>8. Statement(m, P5, a8, P6)
  BY OpenedRegisters, NoneAssumption DEF Manager, Analysis, StatsRegs
<1>9. Statement(m, P6, a9, P7)
  <2>1. \A r \in R1 : r[1] # "PIC"
    BY DEF StatsRegs
  <2>2. "PIC" \in Objects /\ "PIC" \notin Modules
    BY DEF Modules, Objects
  <2> HIDE DEF R1
  <2> QED BY <2>1, <2>2, OpenedDeclares, Counts
<1>10. R1 \subseteq Manager \X Analysis /\ R5 \subseteq Manager \X Analysis /\ Offered(m) \subseteq R5
  BY RunRegsOffered DEF RunRegs
<1> HIDE DEF R1, R5
<1>11. Statement(m, P7, a10, P8)
  BY <1>2, <1>10, OpenedSimple, Counts
<1>12. Statement(m, P8, a11, P9)
  BY OpenedRegisters, NoneAssumption DEF Manager, Analysis
<1> HIDE DEF R2
<1>13. Leads(m, P9, c1, P10)
  BY RegistersModule
<1> HIDE DEF R3
<1>14. Leads(m, P10, c2, P11)
  BY RegistersFunctions
<1> HIDE DEF R4
<1>15. Leads(m, P11, Proxies, P12)
  BY RegistersProxies DEF R5
<1>16. Statement(m, P12, b1, P13)
  BY <1>2, <1>10, OpenedSimple, Counts
<1>17. m # "your_first_pass" /\ m \notin {"your_first_pass", "your_first_pipeline"}
  OBVIOUS
<1>18. Statement(m, P13, b2, P13)
  BY <1>17, ServedByAll, NamedPassesExist, AddsModule
<1>19. Statement(m, P13, b3, P14)
  BY <1>2, <1>10, OpenedSimple, Counts
<1>20. Statement(m, P14, b4, P14) /\ Statement(m, P14, b5, P14) /\ Statement(m, P14, b6, P14)
  BY <1>17, FunctionPassServed, AddsFunction
<1>21. Statement(m, P14, AddMovedFPM, P14)
  BY <1>17, Moves
<1>22. Statement(m, P14, RunMPM, P15)
  BY <1>10, OpenedRuns
<1>23. \A d \in P15 : Fits(m, d, <<ReturnHadError, EndScope(0)>>)
  <2>1. m # "use_after_free" /\ m \notin Telling
    BY DEF Telling
  <2> HIDE DEF m
  <2> QED BY <2>1, FitsOpened DEF Ending
<1> HIDE DEF m, P0, P1, P2, P3, P4, P5, P6, P7, P8, P9, P10, P11, P12, P13, P14, P15,
             a1, a2, a3, a4, a5, a6, a7, a8, a9, a10, a11, b1, b2, b3, b4, b5, b6, c1, c2
<1> DEFINE h  == <<a1, a2, a3, a4, a5, a6, a7, a8, a9, a10, a11>>
           t1 == h \o c1
           t2 == t1 \o c2
           t3 == t2 \o Proxies
           e  == <<b1, b2, b3, b4, b5, b6, AddMovedFPM, RunMPM, ReturnHadError, EndScope(0)>>
<1>24. Leads(m, {Start}, h, P9)
  <2>1. Leads(m, P0, <<a3, a4, a5>>, P3)
    BY <1>3, <1>4, <1>5, LeadsThree
  <2>2. Leads(m, P3, <<a6, a7, a8>>, P6)
    BY <1>6, <1>7, <1>8, LeadsThree
  <2>3. Leads(m, P6, <<a9, a10, a11>>, P9)
    BY <1>9, <1>11, <1>12, LeadsThree
  <2> QED BY <1>1, <2>1, <2>2, <2>3, LeadsEleven
<1>25. Leads(m, {Start}, t1, P10)
  <2> HIDE DEF h
  <2> QED BY <1>13, <1>24, LeadsThrough
<1>26. Leads(m, {Start}, t2, P11)
  <2> HIDE DEF t1
  <2> QED BY <1>14, <1>25, LeadsThrough
<1>27. Leads(m, {Start}, t3, P12)
  <2> HIDE DEF t2
  <2> QED BY <1>15, <1>26, LeadsThrough
<1>28. \A d \in P12 : Fits(m, d, e)
  <2>1. Leads(m, P12, <<b1, b2, b3, b4>>, P14)
    BY <1>16, <1>18, <1>19, <1>20, LeadsFour
  <2>2. Leads(m, P14, <<b5, b6, AddMovedFPM, RunMPM>>, P15)
    BY <1>20, <1>21, <1>22, LeadsFour
  <2> QED BY <1>23, <2>1, <2>2, FitsTen
<1>29. \E T : e \in Seq(T)
  <2>1. e \in Seq({b1, b2, b3, b4, b5, b6, AddMovedFPM, RunMPM, ReturnHadError, EndScope(0)})
    OBVIOUS
  <2> QED BY <2>1
<1> HIDE DEF t3, e
<1>30. \A d \in {Start} : Fits(m, d, t3 \o e)
  BY <1>27, <1>28, <1>29, FitsAfter
<1> HIDE DEF h
<1>31. RunPipelineMain = t3 \o e
  BY DEF RunPipelineMain, t3, t2, t1, h, e, c1, c2, a1, a2, a3, a4, a5, a6, a7, a8, a9, a10, a11,
     b1, b2, b3, b4, b5, b6
<1> QED BY <1>30, <1>31 DEF m

(* The passes opt knows, and what a group of them adds to a pipeline.       *)
FunctionNames == {"Promote", "Hello", "PrintFnStats", "LocalConstProp"}

(* A name is that of a pass on functions, of one on the module, or of       *)
(* none.                                                                    *)
LEMMA NamedPassRange == \A name : NamedPass(name) \in FunctionNames \cup ModulePasses \cup {None}
<1> SUFFICES ASSUME NEW name PROVE NamedPass(name) \in FunctionNames \cup ModulePasses \cup {None}
  OBVIOUS
<1>1. HelloPass(name) \in {"Hello", "PrintFnStats", "CountGlobals", None}
  BY DEF HelloPass
<1>2. LocalConstPropPlugin(name) \in {"LocalConstProp", None}
  BY DEF LocalConstPropPlugin
<1>3. NamedPass(name) \in {"Promote", "AlwaysInliner", HelloPass(name), LocalConstPropPlugin(name)}
  <2>1. \/ name = "mem2reg" /\ NamedPass(name) = "Promote"
        \/ name = "always-inline" /\ NamedPass(name) = "AlwaysInliner"
        \/ name # "mem2reg" /\ name # "always-inline" /\ HelloPass(name) # None /\ NamedPass(name) = HelloPass(name)
        \/ name # "mem2reg" /\ name # "always-inline" /\ HelloPass(name) = None
           /\ NamedPass(name) = LocalConstPropPlugin(name)
    BY DEF NamedPass, HelloPass
  <2> QED BY <2>1
<1> QED BY <1>1, <1>2, <1>3 DEF FunctionNames, ModulePasses

\* what opt is called with
Groups(groups) ==
  /\ \E T : groups \in Seq(Seq(T))
  /\ \A i \in DOMAIN groups :
       \/ Len(groups[i]) = 1 /\ NamedPass(groups[i][1]) \in ModulePasses
       \/ groups[i] # <<>> /\ \A j \in DOMAIN groups[i] : NamedPass(groups[i][j]) \notin ModulePasses \cup {None}

Additions == { Add(ModuleElem(p)) : p \in ModulePasses } \cup { AddToFPM(p) : p \in FunctionNames } \cup {AddMovedFPM}

(* Groups of named passes add nothing else.                                 *)
LEMMA GroupsAdd ==
  ASSUME NEW groups, Groups(groups)
  PROVE  Each(NamedPasses(groups), AddGroup) \in Seq(Additions)
<1> DEFINE passes == NamedPasses(groups)
           parts  == [i \in DOMAIN passes |-> AddGroup(passes[i])]
<1>1. PICK T : groups \in Seq(Seq(T)) /\ DOMAIN groups = 1 .. Len(groups) /\ Len(groups) \in Nat
  BY DEF Groups
<1>2. DOMAIN passes = DOMAIN groups
  BY DEF NamedPasses
<1>3. ASSUME NEW i \in DOMAIN groups PROVE AddGroup(passes[i]) \in Seq(Additions)
  <2> DEFINE gr == groups[i]
             ps == [j \in DOMAIN gr |-> NamedPass(gr[j])]
  <2>1. passes[i] = ps
    BY DEF NamedPasses
  <2>2. gr \in Seq(T) /\ DOMAIN gr = 1 .. Len(gr) /\ Len(gr) \in Nat
    BY <1>1
  <2>3. \/ Len(gr) = 1 /\ NamedPass(gr[1]) \in ModulePasses
        \/ gr # <<>> /\ \A j \in DOMAIN gr : NamedPass(gr[j]) \in FunctionNames /\ NamedPass(gr[j]) \notin ModulePasses
    BY NamedPassRange DEF Groups
  <2> HIDE DEF gr
  <2>4. CASE Len(gr) = 1 /\ NamedPass(gr[1]) \in ModulePasses
    <3>1. ps[1] \in ModulePasses
      BY <2>2, <2>4
    <3>2. Add(ModuleElem(ps[1])) \in Additions
      BY <3>1 DEF Additions
    <3> HIDE DEF ps
    <3>3. AddGroup(ps) = <<Add(ModuleElem(ps[1]))>>
      BY <3>1 DEF AddGroup
    <3> QED BY <2>1, <3>2, <3>3
  <2>5. CASE gr # <<>> /\ \A j \in DOMAIN gr : NamedPass(gr[j]) \in FunctionNames /\ NamedPass(gr[j]) \notin ModulePasses
    <3>1. 1 \in DOMAIN gr
      BY <2>2, <2>5
    <3>2. ps[1] \notin ModulePasses /\ \A j \in DOMAIN ps : ps[j] \in FunctionNames
      BY <2>5, <3>1
    <3>3. ps \in Seq(FunctionNames) /\ DOMAIN ps = 1 .. Len(ps) /\ Len(ps) \in Nat
      BY <2>2, <3>2
    <3> HIDE DEF ps
    <3> DEFINE adds == [j \in DOMAIN ps |-> AddToFPM(ps[j])]
    <3>4. AddGroup(ps) = adds \o <<AddMovedFPM>>
      BY <3>2 DEF AddGroup
    <3>5. \A j \in DOMAIN ps : AddToFPM(ps[j]) \in Additions
      BY <3>2 DEF Additions
    <3>6. adds \in Seq(Additions)
      BY <3>3, <3>5
    <3>7. <<AddMovedFPM>> \in Seq(Additions)
      BY DEF Additions
    <3> HIDE DEF adds
    <3>8. adds \o <<AddMovedFPM>> \in Seq(Additions)
      BY <3>6, <3>7, ConcatProperties
    <3> QED BY <2>1, <3>4, <3>8
  <2> QED BY <2>3, <2>4, <2>5
<1>4. parts \in Seq(Seq(Additions))
  BY <1>1, <1>2, <1>3
<1>5. Each(passes, AddGroup) = FlattenSeq(parts)
  BY DEF Each
<1> HIDE DEF parts, passes
<1>6. Each(passes, AddGroup) \in Seq(Additions)
  BY <1>4, <1>5, FlattenSeqType
<1> QED BY <1>6 DEF passes

OptRegs == ProxyRegs(FunctionRegs(ModuleRegs({})) \cup {<<"FAM", "FnStats">>})

(* All that opt offers is registered.                                       *)
LEMMA OptRegsOffered ==
  ASSUME NEW m, m \notin {"your_first_pass", "your_first_pipeline"}
  PROVE  OptRegs \subseteq Manager \X Analysis /\ Offered(m) \subseteq OptRegs
<1>1. {} \subseteq Manager \X Analysis
  OBVIOUS
<1>2. ModuleRegs({}) \subseteq Manager \X Analysis
  BY <1>1, Regs
<1>3. FunctionRegs(ModuleRegs({})) \subseteq Manager \X Analysis
  BY <1>2, Regs
<1>4. FunctionRegs(ModuleRegs({})) \cup {<<"FAM", "FnStats">>} \subseteq Manager \X Analysis
  BY <1>3 DEF Manager, Analysis
<1>5. OptRegs \subseteq Manager \X Analysis
  BY <1>4, Regs DEF OptRegs
<1>6. Offered(m)
      = {<<"MAM", "PassInstrumentation">>, <<"MAM", "FunctionProxy">>, <<"MAM", "ProfileSummary">>,
         <<"FAM", "PassInstrumentation">>, <<"FAM", "DominatorTree">>, <<"FAM", "FnStats">>}
  BY DEF Offered
<1>7. Offered(m) \subseteq OptRegs
  BY <1>6 DEF OptRegs, ModuleRegs, FunctionRegs, ProxyRegs
<1> QED BY <1>5, <1>7

(* What they add keeps the shadow.                                          *)
LEMMA AdditionsStay ==
  ASSUME NEW m, m \notin {"your_first_pass", "your_first_pipeline"}, NEW H, NEW n, NEW R, NEW F, NEW x \in Additions
  PROVE  Statement(m, Opened(H, n, R, F), x, Opened(H, n, R, F))
<1>1. CASE \E p \in ModulePasses : x = Add(ModuleElem(p))
  <2>1. \A p \in ModulePasses : p \in Pass /\ Served(m, p, "MAM")
    BY ServedByAll, NamedPassesExist DEF ModulePasses
  <2> QED BY <1>1, <2>1, AddsModule
<1>2. CASE \E p \in FunctionNames : x = AddToFPM(p)
  <2>1. \A p \in FunctionNames : p \in Pass /\ Served(m, p, "FAM")
    BY FunctionPassServed DEF FunctionNames
  <2> QED BY <1>2, <2>1, AddsFunction
<1>3. CASE x = AddMovedFPM
  BY <1>3, Moves
<1> QED BY <1>1, <1>2, <1>3 DEF Additions

(* Nine statements.                                                         *)
LEMMA LeadsNine ==
  ASSUME NEW m, NEW P0, NEW P1, NEW P2, NEW P3, NEW x1, NEW x2, NEW x3, NEW x4, NEW x5, NEW x6,
         NEW x7, NEW x8, NEW x9,
         Leads(m, P0, <<x1, x2>>, P1), Leads(m, P1, <<x3, x4, x5>>, P2), Leads(m, P2, <<x6, x7, x8, x9>>, P3)
  PROVE  Leads(m, P0, <<x1, x2, x3, x4, x5, x6, x7, x8, x9>>, P3)
<1>1. Leads(m, P0, <<x1, x2>> \o <<x3, x4, x5>>, P2)
  BY LeadsThrough
<1>2. Leads(m, P0, <<x1, x2>> \o <<x3, x4, x5>> \o <<x6, x7, x8, x9>>, P3)
  BY <1>1, LeadsThrough
<1>3. <<x1, x2, x3, x4, x5, x6, x7, x8, x9>> = <<x1, x2>> \o <<x3, x4, x5>> \o <<x6, x7, x8, x9>>
  OBVIOUS
<1> QED BY <1>2, <1>3

(* A statement, and the last two.                                           *)
LEMMA FitsThree ==
  ASSUME NEW m, NEW P, NEW Q, NEW x, NEW y, NEW z, Statement(m, P, x, Q), \A d \in Q : Fits(m, d, <<y, z>>)
  PROVE  \A d \in P : Fits(m, d, <<x, y, z>>)
<1>1. Leads(m, P, <<x>>, Q)
  BY LeadsOne
<1>2. <<y, z>> \in Seq({y, z})
  OBVIOUS
<1>3. \A d \in P : Fits(m, d, <<x>> \o <<y, z>>)
  BY <1>1, <1>2, FitsAfter
<1>4. <<x, y, z>> = <<x>> \o <<y, z>>
  OBVIOUS
<1> QED BY <1>3, <1>4

(* opt obeys the rules, with and without the plugin, whatever is asked of   *)
(* it.                                                                      *)
LEMMA OptFits ==
  ASSUME NEW m \in {"opt", "run.sh"}, NEW groups, Groups(groups), NEW wanted
  PROVE  Fits(m, Start, OptMain(groups, wanted))
<1> DEFINE F0 == {"sound", "untouched"}
           H0 == {}
           H1 == H0 \cup {"PIC"}
           H2 == H1 \cup {"SI"}
           H3 == H2 \cup {"PB"}
           H4 == H3 \cup {"LAM"}
           H5 == H4 \cup {"FAM"}
           H6 == H5 \cup {"CGAM"}
           H7 == H6 \cup {"MAM"}
           H8 == H7 \cup {"MPM"}
           R0 == {}
           R1 == ModuleRegs(R0)
           R2 == FunctionRegs(R1)
           R3 == R2 \cup {<<"FAM", "FnStats">>}
           R4 == ProxyRegs(R3)
           P0 == Opened(H0, 2, R0, F0)
           P1 == Opened(H1, 3, R0, F0)
           P2 == Opened(H2, 4, R0, F0)
           P3 == Opened(H3, 5, R0, F0)
           P4 == Opened(H4, 6, R0, F0)
           P5 == Opened(H5, 7, R0, F0)
           P6 == Opened(H6, 8, R0, F0)
           P7 == Opened(H7, 9, R0, F0)
           P8 == Opened(H7, 9, R1, F0)
           P9 == Opened(H7, 9, R2, F0)
           P10 == Opened(H7, 9, R3, F0)
           P11 == Opened(H7, 9, R4, F0)
           P12 == Opened(H8, 10, R4, F0)
           P13 == Opened(H8, 10, R4, {})
           a1 == Declare("Context")
           a2 == ModuleOrElse("MyModule", FlattenSeq(NamedPasses(wanted)), <<EndScope(0)>>, 1)
           a3 == Declare("PIC")
           a4 == Declare("SI")
           a5 == Declare("PB")
           a6 == Declare("LAM")
           a7 == Declare("FAM")
           a8 == Declare("CGAM")
           a9 == Declare("MAM")
           c1 == RegisterModuleAnalyses("PIC")
           c2 == RegisterFunctionAnalyses("PIC")
           c3 == Each(NamedPasses(groups), AddGroup)
<1>1. /\ m # "use_after_free" /\ m \notin Telling /\ m # "your_first_pass"
      /\ m # "your_first_pipeline" /\ m \notin {"your_first_pass", "your_first_pipeline"}
  BY DEF Telling
<1>2. Leads(m, {Start}, <<a1, a2>>, P0)
  BY <1>1, Opening
<1>3. {"PB", "LAM", "CGAM", "SI", "MPM"} \subseteq Simple /\ R0 \subseteq Manager \X Analysis
  BY DEF Simple
<1>4. Statement(m, P0, a3, P1)
  BY OpenedDeclares, Counts DEF Modules, Objects
<1>5. Statement(m, P1, a4, P2)
  BY <1>3, OpenedSimple, Counts
<1>6. Statement(m, P2, a5, P3)
  BY <1>3, OpenedSimple, Counts
<1>7. Statement(m, P3, a6, P4)
  BY <1>3, OpenedSimple, Counts
<1>8. Statement(m, P4, a7, P5)
  BY OpenedDeclares, Counts DEF Modules, Objects
<1>9. Statement(m, P5, a8, P6)
  BY <1>3, OpenedSimple, Counts
<1>10. Statement(m, P6, a9, P7)
  BY OpenedDeclares, Counts DEF Modules, Objects
<1>11. Leads(m, P7, c1, P8)
  BY <1>1, RegistersModule
<1>12. R4 \subseteq Manager \X Analysis /\ Offered(m) \subseteq R4
  BY <1>1, OptRegsOffered DEF OptRegs
<1> HIDE DEF R1
<1>13. Leads(m, P8, c2, P9)
  BY <1>1, RegistersFunctions
<1> HIDE DEF R2
<1>14. Statement(m, P9, Register("FAM", "FnStats", "own"), P10)
  BY OpenedRegisters, NoneAssumption DEF Manager, Analysis
<1> HIDE DEF R3
<1>15. Leads(m, P10, Proxies, P11)
  BY RegistersProxies
<1> HIDE DEF R4
<1>16. Statement(m, P11, Declare("MPM"), P12)
  BY <1>3, <1>12, OpenedSimple, Counts
<1>17. c3 \in Seq(Additions)
  BY GroupsAdd
<1>18. Leads(m, P12, c3, P12)
  <2>1. \A x \in Additions : Statement(m, P12, x, P12)
    BY <1>1, AdditionsStay
  <2> HIDE DEF c3, P12
  <2> QED BY <1>17, <2>1, LeadsStay
<1>19. Statement(m, P12, RunMPM, P13)
  BY <1>12, OpenedRuns
<1>20. \A d \in P13 : Fits(m, d, <<ReturnHadError, EndScope(0)>>)
  BY <1>1, FitsOpened DEF Ending
<1> HIDE DEF P0, P1, P2, P3, P4, P5, P6, P7, P8, P9, P10, P11, P12, P13,
             a1, a2, a3, a4, a5, a6, a7, a8, a9, c1, c2, c3
<1> DEFINE h  == <<a1, a2, a3, a4, a5, a6, a7, a8, a9>>
           t1 == h \o c1
           t2 == t1 \o c2
           t3 == t2 \o RegisterPluginAnalyses
           t4 == t3 \o Proxies
           t5 == t4 \o <<Declare("MPM")>>
           t6 == t5 \o c3
           e  == <<RunMPM, ReturnHadError, EndScope(0)>>
<1>21. Leads(m, {Start}, h, P7)
  <2>1. Leads(m, P0, <<a3, a4, a5>>, P3)
    BY <1>4, <1>5, <1>6, LeadsThree
  <2>2. Leads(m, P3, <<a6, a7, a8, a9>>, P7)
    BY <1>7, <1>8, <1>9, <1>10, LeadsFour
  <2> QED BY <1>2, <2>1, <2>2, LeadsNine
<1>22. Leads(m, {Start}, t1, P8)
  <2> HIDE DEF h
  <2> QED BY <1>11, <1>21, LeadsThrough
<1>23. Leads(m, {Start}, t2, P9)
  <2> HIDE DEF t1
  <2> QED BY <1>13, <1>22, LeadsThrough
<1>24. Leads(m, {Start}, t3, P10)
  <2>1. Leads(m, P9, RegisterPluginAnalyses, P10)
    BY <1>14, LeadsOne DEF RegisterPluginAnalyses
  <2> HIDE DEF t2
  <2> QED BY <1>23, <2>1, LeadsThrough
<1>25. Leads(m, {Start}, t4, P11)
  <2> HIDE DEF t3
  <2> QED BY <1>15, <1>24, LeadsThrough
<1>26. Leads(m, {Start}, t5, P12)
  <2>1. Leads(m, P11, <<Declare("MPM")>>, P12)
    BY <1>16, LeadsOne
  <2> HIDE DEF t4
  <2> QED BY <1>25, <2>1, LeadsThrough
<1>27. Leads(m, {Start}, t6, P12)
  <2> HIDE DEF t5
  <2> QED BY <1>18, <1>26, LeadsThrough
<1>28. \A d \in P12 : Fits(m, d, e)
  BY <1>19, <1>20, FitsThree
<1>29. \E T : e \in Seq(T)
  <2>1. e \in Seq({RunMPM, ReturnHadError, EndScope(0)})
    OBVIOUS
  <2> QED BY <2>1
<1> HIDE DEF t6, e
<1>30. \A d \in {Start} : Fits(m, d, t6 \o e)
  BY <1>27, <1>28, <1>29, FitsAfter
<1> HIDE DEF h
<1>31. OptMain(groups, wanted) = t6 \o e
  BY DEF OptMain, t6, t5, t4, t3, t2, t1, h, e, c1, c2, c3, a1, a2, a3, a4, a5, a6, a7, a8, a9
<1> QED BY <1>30, <1>31

(***************************************************************************)
(* run.sh                                                                  *)
(***************************************************************************)
Variables == {"SRC_DIR", "LIB_BASE", "PIPELINE", "OPT_BIN", "OUTFILE", "LEGACY_PIPE"}

(* The options of run.sh that take an argument assign it to a variable.     *)
LEMMA AssignedRange == \A w : Assigned(w) \in Variables \cup {None}
BY DEF Assigned, Variables

\* the script's variables, one of which says whether it is over
Variable(s) == /\ s = [x \in DOMAIN s |-> s[x]]
               /\ "exit" \in DOMAIN s /\ s.exit \in {None, 0, 1}

Looking(at) == /\ at = [expects |-> at.expects, set |-> at.set]
               /\ at.expects \in {"word", "rest", "over"} \cup Variables
               /\ Variable(at.set)

(* Assigning to a variable leaves the variables as they should be.          *)
LEMMA Assigns ==
  ASSUME NEW s, Variable(s), NEW x, NEW v, x = "exit" => v \in {0, 1}
  PROVE  Variable([s EXCEPT ![x] = v])
<1>1. PICK t : t = [s EXCEPT ![x] = v]
  OBVIOUS
<1>2. DOMAIN t = DOMAIN s /\ t = [y \in DOMAIN t |-> t[y]]
  BY <1>1 DEF Variable
<1>3. t["exit"] = IF x = "exit" THEN v ELSE s["exit"]
  BY <1>1 DEF Variable
<1> QED BY <1>1, <1>2, <1>3 DEF Variable

(* So does looking at a word.                                               *)
LEMMA Looks ==
  ASSUME NEW at, Looking(at), NEW w
  PROVE  Looking(LookAt(at, w))
<1>0. at = [expects |-> at.expects, set |-> at.set]
  BY DEF Looking
<1>1. /\ at.expects \in {"word", "rest", "over"} \cup Variables
      /\ Variable(at.set)
  BY DEF Looking
<1>2. ASSUME NEW e \in {"word", "rest", "over"} \cup Variables, NEW s, Variable(s)
      PROVE  Looking([expects |-> e, set |-> s])
  BY <1>2 DEF Looking
<1>3. Looking(Positional(at, w))
  <2>1. PICK s : s = [at.set EXCEPT !.args = Append(@, w)]
    OBVIOUS
  <2>2. Variable(s)
    BY <1>1, <2>1, Assigns
  <2>3. Positional(at, w) = [at EXCEPT !.set = s]
    BY <1>0, <2>1 DEF Positional
  <2>4. Positional(at, w) = [expects |-> at.expects, set |-> s]
    BY <1>0, <2>3
  <2> QED BY <1>1, <1>2, <2>2, <2>4
<1>4. ASSUME NEW code \in {0, 1} PROVE Looking(ExitAt(at, code))
  <2>1. PICK s : s = [at.set EXCEPT !.exit = code]
    OBVIOUS
  <2>2. Variable(s)
    BY <1>1, <2>1, Assigns
  <2>3. ExitAt(at, code) = [at EXCEPT !.expects = "over", !.set = s]
    BY <1>0, <2>1 DEF ExitAt
  <2>4. ExitAt(at, code) = [expects |-> "over", set |-> s]
    BY <1>0, <2>3
  <2> QED BY <1>2, <2>2, <2>4
<1>5. ASSUME NEW e \in {"word", "rest", "over"} \cup Variables PROVE Looking([at EXCEPT !.expects = e])
  <2>1. [at EXCEPT !.expects = e] = [expects |-> e, set |-> at.set]
    BY <1>0
  <2> QED BY <1>1, <1>2, <2>1
<1>6. CASE at.expects = "over"
  BY <1>6 DEF LookAt
<1>7. CASE at.expects = "rest"
  BY <1>3, <1>7 DEF LookAt
<1>8. CASE at.expects \notin {"word", "rest", "over"}
  <2>1. at.expects # "exit"
    BY <1>1, <1>8 DEF Variables
  <2>2. Variable([at.set EXCEPT ![at.expects] = w])
    BY <1>1, <2>1, Assigns
  <2>3. LookAt(at, w) = [at EXCEPT !.expects = "word", !.set[at.expects] = w]
    BY <1>8 DEF LookAt
  <2>4. LookAt(at, w) = [expects |-> "word", set |-> [at.set EXCEPT ![at.expects] = w]]
    BY <1>0, <2>3
  <2> QED BY <1>2, <2>2, <2>4
<1>9. CASE at.expects = "word"
  <2>1. CASE Assigned(w) # None
    <3>1. LookAt(at, w) = [at EXCEPT !.expects = Assigned(w)]
      BY <1>9, <2>1 DEF LookAt, Assigned, Unknown
    <3> QED BY <1>5, <2>1, <3>1, AssignedRange
  <2>2. CASE Assigned(w) = None
    <3>1. LookAt(at, w) \in {at, ExitAt(at, 0), [at EXCEPT !.expects = "rest"], ExitAt(at, 1), Positional(at, w)}
      BY <1>9, <2>2 DEF LookAt
    <3> QED BY <1>3, <1>4, <1>5, <3>1
  <2> QED BY <2>1, <2>2
<1> QED BY <1>1, <1>6, <1>7, <1>8, <1>9

\* h is the loop over the first n words, one by one
Loops(set, argv, h, n) ==
  h = [k \in 0 .. n |-> IF k = 0 THEN [expects |-> "word", set |-> set] ELSE LookAt(h[k - 1], argv[k])]

(* There is such a loop, however many words there are.                      *)
LEMMA LoopsExist == ASSUME NEW set, NEW argv, NEW n \in Nat PROVE \E h : Loops(set, argv, h, n)
<1> DEFINE S == { m \in Nat : \E h : Loops(set, argv, h, m) }
           first == [expects |-> "word", set |-> set]
<1>1. 0 \in S
  <2>1. PICK h : h = [k \in 0 .. 0 |-> first]
    OBVIOUS
  <2>2. \A k \in 0 .. 0 : k = 0
    OBVIOUS
  <2> HIDE DEF first
  <2>3. h = [k \in 0 .. 0 |-> IF k = 0 THEN first ELSE LookAt(h[k - 1], argv[k])]
    BY <2>1, <2>2
  <2>4. Loops(set, argv, h, 0)
    BY <2>3 DEF Loops, first
  <2> QED BY <2>4
<1>2. ASSUME NEW m \in S \cap Nat PROVE m + 1 \in S
  <2>1. PICK h : Loops(set, argv, h, m)
    OBVIOUS
  <2> DEFINE g == [k \in 0 .. m + 1 |-> IF k = m + 1 THEN LookAt(h[m], argv[m + 1]) ELSE h[k]]
  <2> HIDE DEF first
  <2>2. ASSUME NEW k \in 0 .. m + 1
        PROVE  g[k] = IF k = 0 THEN first ELSE LookAt(g[k - 1], argv[k])
    <3>1. CASE k = m + 1
      <4>1. g[m] = h[m] /\ k # 0 /\ k - 1 = m
        BY <3>1
      <4> QED BY <3>1, <4>1
    <3>2. CASE k # m + 1
      <4>1. k \in 0 .. m /\ g[k] = h[k]
        BY <3>2
      <4>2. h[k] = IF k = 0 THEN first ELSE LookAt(h[k - 1], argv[k])
        BY <4>1, <2>1 DEF Loops, first
      <4>3. k # 0 => g[k - 1] = h[k - 1]
        BY <4>1
      <4> QED BY <4>1, <4>2, <4>3
    <3> QED BY <3>1, <3>2
  <2>3. g = [k \in 0 .. m + 1 |-> g[k]]
    OBVIOUS
  <2> HIDE DEF g
  <2>4. Loops(set, argv, g, m + 1)
    BY <2>2, <2>3 DEF Loops, first
  <2> QED BY <2>4
<1>3. Nat \subseteq S
  <2> HIDE DEF S
  <2> QED BY <1>1, <1>2, SetInduction
<1> QED BY <1>3

(* The loop over the arguments ends with variables as they should be.       *)
LEMMA ParseExit ==
  ASSUME NEW set, Variable(set), NEW argv, Len(argv) \in Nat
  PROVE  Variable(ParseArgs(set, argv))
<1> DEFINE n == Len(argv)
           h == CHOOSE g : Loops(set, argv, g, n)
           end == h[n]
<1>1. Loops(set, argv, h, n)
  <2>1. \E g : Loops(set, argv, g, n)
    BY LoopsExist
  <2> QED BY <2>1
<1>2. ParseArgs(set, argv)
      = IF end.expects \in {"word", "rest", "over"} THEN end.set ELSE [end.set EXCEPT !.exit = 1]
  BY DEF ParseArgs, Loops
<1> HIDE DEF h
<1>3. Looking(end)
  <2> DEFINE S == { k \in Nat : k \in 0 .. n => Looking(h[k]) }
  <2>1. 0 \in S
    <3>1. h[0] = [expects |-> "word", set |-> set]
      BY <1>1 DEF Loops
    <3>2. Looking(h[0])
      BY <3>1 DEF Looking
    <3> QED BY <3>2
  <2>2. ASSUME NEW k \in S \cap Nat PROVE k + 1 \in S
    <3> SUFFICES ASSUME k + 1 \in 0 .. n PROVE Looking(h[k + 1])
      OBVIOUS
    <3>1. k \in 0 .. n /\ k + 1 # 0 /\ (k + 1) - 1 = k
      OBVIOUS
    <3>2. h[k + 1] = LookAt(h[k], argv[k + 1])
      BY <1>1, <3>1 DEF Loops
    <3>3. Looking(h[k])
      BY <3>1
    <3> QED BY <3>2, <3>3, Looks
  <2>3. Nat \subseteq S
    <3> HIDE DEF S
    <3> QED BY <2>1, <2>2, SetInduction
  <2> QED BY <2>3
<1> HIDE DEF end
<1>4. Variable(end.set)
  BY <1>3 DEF Looking
<1>5. Variable([end.set EXCEPT !.exit = 1])
  BY <1>4, Assigns
<1> QED BY <1>2, <1>4, <1>5

(* run.sh goes on, ends well or fails.                                      *)
LEMMA ScriptExit ==
  ASSUME NEW argv, Len(argv) \in Nat, NEW env, NEW host
  PROVE  RunScript(argv, env, host).exit \in {None, 0, 1}
<1>1. Variable(Defaults(env))
  BY DEF Defaults, Variable
<1>2. PICK set : set = ParseArgs(Defaults(env), argv)
  OBVIOUS
<1>3. Variable(set)
  BY <1>1, <1>2, ParseExit
<1>4. PICK in : in = Input(set)
  OBVIOUS
<1>5. Variable(in)
  <2>1. Variable([set EXCEPT !.INPUT = set.args[Len(set.args)]])
    BY <1>3, Assigns
  <2> QED BY <1>3, <1>4, <2>1 DEF Input
<1>6. Variable([in EXCEPT !.exit = 1])
  BY <1>5, Assigns
<1>7. RunScript(argv, env, host) \in {in, [in EXCEPT !.exit = 1]}
  BY <1>2, <1>4 DEF RunScript
<1>8. Variable(RunScript(argv, env, host))
  BY <1>5, <1>6, <1>7
<1> QED BY <1>8 DEF Variable

(* A program starts with a shadow.                                          *)
LEMMA StartShadow == Start \in Shadow /\ Start.status = "open"
BY DEF Start, Shadow

(* run.sh may leave at once.                                                *)
LEMMA LeaveFits ==
  ASSUME NEW code \in {0, 1}
  PROVE  Fits("run.sh", Start, <<Leave(code)>>)
<1>1. PICK x : x = Leave(code)
  OBVIOUS
<1>2. x.do = "exit" /\ x.status = code
  BY <1>1 DEF Leave
<1>3. PICK e : e = After(Start, x)
  OBVIOUS
<1>4. e = [Start EXCEPT !.status = "returned"]
  BY <1>2, <1>3 DEF After
<1>5. e \in Shadow
  BY <1>4, StartShadow DEF Shadow
<1>6. Fits("run.sh", e, <<>>)
  BY <1>5, FitsEnd DEF Ends, Telling
<1>7. Allowed("run.sh", Start, x)
  BY <1>2, StartShadow DEF Allowed, ExitRule, Telling
<1>8. <<x>> \in Seq({x}) /\ <<x>> # <<>> /\ <<x>>[1] = x /\ Tail(<<x>>) = <<>>
  OBVIOUS
<1>9. Follows("run.sh", Start, x, <<>>)
  BY <1>2, <1>3, <1>6, <1>7 DEF Follows
<1>10. Fits("run.sh", Start, <<x>>)
  BY <1>8, <1>9, StartShadow, FitsStep
<1> QED BY <1>1, <1>10

(* What run.sh asks opt for are groups of passes.                           *)
LEMMA PipelineGroupsAre ==
  ASSUME NEW text, PipelineGroups(text) # <<>>
  PROVE  Groups(PipelineGroups(text))
<1>1. CASE text = "default"
  <2>1. PipelineGroups(text) = <<<<"module-count-globals">>, <<"hello-func", "fn-stats">>>>
    BY <1>1 DEF PipelineGroups, NamedPass, HelloPass, LocalConstPropPlugin
  <2>2. /\ NamedPass("module-count-globals") \in ModulePasses
        /\ NamedPass("hello-func") \notin ModulePasses \cup {None}
        /\ NamedPass("fn-stats") \notin ModulePasses \cup {None}
    <3>1. {"Hello", "PrintFnStats", "CountGlobals"} \subseteq Pass /\ None \notin Pass
      BY PassAssumption, NoneAssumption DEF ModulePasses
    <3>2. HelloPass("hello-func") = "Hello" /\ HelloPass("fn-stats") = "PrintFnStats"
          /\ HelloPass("module-count-globals") = "CountGlobals"
      BY DEF HelloPass
    <3>3. NamedPass("hello-func") = "Hello" /\ NamedPass("fn-stats") = "PrintFnStats"
          /\ NamedPass("module-count-globals") = "CountGlobals"
      BY <3>1, <3>2 DEF NamedPass
    <3> QED BY <3>1, <3>3 DEF ModulePasses
  <2> DEFINE T == {"module-count-globals", "hello-func", "fn-stats"}
             g1 == <<"module-count-globals">>
             g2 == <<"hello-func", "fn-stats">>
             gs == <<g1, g2>>
  <2>3. g1 \in Seq(T) /\ Len(g1) = 1 /\ g1[1] = "module-count-globals"
    OBVIOUS
  <2>6. g2 \in Seq(T) /\ Len(g2) = 2 /\ g2[1] = "hello-func" /\ g2[2] = "fn-stats"
    OBVIOUS
  <2> HIDE DEF g1, g2
  <2>7. DOMAIN g2 = 1 .. 2 /\ g2 # <<>>
    BY <2>6
  <2>4. gs \in Seq(Seq(T)) /\ DOMAIN gs = 1 .. 2 /\ gs[1] = g1 /\ gs[2] = g2
    BY <2>3, <2>6
  <2> HIDE DEF gs
  <2>5. Groups(gs)
    <3>1. \E U : gs \in Seq(Seq(U))
      BY <2>4
    <3>2. Len(gs[1]) = 1 /\ NamedPass(gs[1][1]) \in ModulePasses
      BY <2>2, <2>3, <2>4
    <3>3. gs[2] # <<>> /\ \A j \in DOMAIN gs[2] : NamedPass(gs[2][j]) \notin ModulePasses \cup {None}
      <4> SUFFICES ASSUME NEW j \in 1 .. 2 PROVE NamedPass(g2[j]) \notin ModulePasses \cup {None}
        BY <2>4, <2>7
      <4>1. j = 1 \/ j = 2
        OBVIOUS
      <4> QED BY <2>2, <2>6, <4>1
    <3>4. \A i \in DOMAIN gs : i = 1 \/ i = 2
      BY <2>4
    <3> QED BY <3>1, <3>2, <3>3, <3>4 DEF Groups
  <2> QED BY <2>1, <2>5 DEF gs, g1, g2
<1>2. CASE text # "default"
  <2>1. NamedPass(text) # None /\ PipelineGroups(text) = <<<<text>>>>
    BY <1>2 DEF PipelineGroups
  <2>2. PICK g : g = <<text>>
    OBVIOUS
  <2>3. g \in Seq({text}) /\ Len(g) = 1 /\ g # <<>> /\ DOMAIN g = {1} /\ g[1] = text
    BY <2>2
  <2>4. PICK gs : gs = <<g>>
    OBVIOUS
  <2>5. gs \in Seq(Seq({text})) /\ DOMAIN gs = {1} /\ gs[1] = g
    BY <2>3, <2>4
  <2>6. Groups(gs)
    BY <2>1, <2>3, <2>5 DEF Groups
  <2> QED BY <2>1, <2>2, <2>4, <2>6
<1> QED BY <1>1, <1>2

(* run.sh obeys the rules, whatever its arguments, environment and          *)
(* machine.                                                                 *)
LEMMA ScriptFits ==
  ASSUME NEW argv, Len(argv) \in Nat, NEW env, NEW host
  PROVE  Fits("run.sh", Start, ScriptMain(argv, env, host))
<1>1. PICK set : set = RunScript(argv, env, host)
  OBVIOUS
<1>2. set.exit \in {None, 0, 1}
  BY <1>1, ScriptExit
<1>3. ScriptMain(argv, env, host) =
        IF set.exit # None THEN <<Leave(set.exit)>>
        ELSE IF set.LEGACY_PIPE # None \/ PipelineGroups(set.PIPELINE) = <<>> THEN <<Leave(1)>>
        ELSE OptMain(PipelineGroups(set.PIPELINE), PipelineGroups(Asked(argv, env)))
  BY <1>1 DEF ScriptMain
<1>4. CASE set.exit # None
  BY <1>2, <1>3, <1>4, LeaveFits
<1>5. CASE set.exit = None /\ (set.LEGACY_PIPE # None \/ PipelineGroups(set.PIPELINE) = <<>>)
  BY <1>3, <1>5, LeaveFits
<1>6. CASE set.exit = None /\ ~(set.LEGACY_PIPE # None \/ PipelineGroups(set.PIPELINE) = <<>>)
  BY <1>3, <1>6, PipelineGroupsAre, OptFits
<1> QED BY <1>4, <1>5, <1>6

(* At the start there is no object, and nothing is broken.                  *)
LEMMA StartFacing == {Start} \subseteq Facing(<<>>, {}, 0, {}, {"sound", "untouched"})
<1>1. /\ Start.alive = <<>> /\ Start.regs = {} /\ Start.unverified = FALSE /\ Start.untouched = TRUE
      /\ Start.status = "open"
  BY DEF Start
<1>2. Start \in Shadow
  BY DEF Start, Shadow
<1>3. Extends(<<>>, <<>>) /\ Len(<<>>) = 0 /\ Held(<<>>) = {}
  BY DEF Extends, Held
<1> QED BY <1>1, <1>2, <1>3 DEF Facing

(* A return that may be taken, before the exit status is set.               *)
LEMMA Stays ==
  ASSUME NEW m, m # "use_after_free", NEW s, NEW H, NEW n, NEW R, NEW F
  PROVE  Statement(m, Facing(s, H, n, R, F), MayReturn(255), Facing(s, H, n, R, F))
<1>1. PICK x : x = MayReturn(255)
  OBVIOUS
<1>2. x.do = "mayReturn" /\ x.status = 255
  BY <1>1 DEF MayReturn
<1>3. ASSUME NEW d \in Facing(s, H, n, R, F)
      PROVE  Allowed(m, d, x) /\ After(d, x) = d /\ Fits(m, Early(d, 255), <<EndScope(0)>>)
  <2>1. d \in Shadow /\ d.status = "open"
    BY DEF Facing
  <2>2. Fits(m, Early(d, 255), <<EndScope(0)>>)
    BY <2>1, FitsEarly, NoneAssumption
  <2> QED BY <1>2, <2>1, <2>2 DEF Allowed, ExitRule, After
<1> QED BY <1>1, <1>2, <1>3 DEF Statement, Facing

(***************************************************************************)
(* ch3/llvm_ir                                                             *)
(***************************************************************************)
(* A builder that may find no module, and what it built is verified.        *)
LEMMA BuildsCurModule ==
  ASSUME NEW orelse, NEW F, "sound" \in F,
         \A d \in Facing(<<"Context">>, {"Context"}, 1, {}, F) : Fits("llvm_ir", d, orelse)
  PROVE  Leads("llvm_ir", Facing(<<"Context">>, {"Context"}, 1, {}, F),
               <<BuiltModule(orelse, None), VerifyModule>>,
               Facing(<<"Context">>, {"Context", "CurModule"}, 2, {}, {"sound"}))
<1> DEFINE m == "llvm_ir"
           s1 == <<"Context">>
           H1 == {"Context"}
           H2 == {"Context", "CurModule"}
           x  == BuiltModule(orelse, None)
           P1 == Facing(s1, H1, 1, {}, F)
           P2 == Facing(s1, H2, 2, {}, {})
           P3 == Facing(s1, H2, 2, {}, {"sound"})
<1>1. "CurModule" \in Modules
  BY DEF Modules
<1>2. x.do = "module" /\ x.obj = "CurModule" /\ x.sound = FALSE /\ x.orelse = orelse /\ x.status = None /\ MayFail(m, x)
  <2>1. x.do = "module" /\ x.obj = "CurModule" /\ x.sound = FALSE /\ x.orelse = orelse /\ x.status = None
    BY DEF BuiltModule, ModuleOrElse, Module
  <2> HIDE DEF x, m
  <2> QED BY <2>1, NoneAssumption DEF MayFail
<1>3. /\ \A z : z \in H2 <=> z \in H1 \/ z = "CurModule"
      /\ "Context" \in H1 /\ "MAM" \notin H1 /\ "Context" \in H2
      /\ Len(s1) \in Nat /\ 1 \in Nat /\ 1 < 11 /\ 2 = 1 + 1
  OBVIOUS
<1>4. \A d : Early(d, None) = d
  BY DEF Early
<1>5. x.orelse # <<>> => \A d \in P1 : Fits(m, Early(d, x.status), x.orelse)
  BY <1>2, <1>4
<1> HIDE DEF x, H1, H2, s1
<1>6. Statement(m, P1, x, P2)
  <2>1. {} \subseteq {"sound", "untouched"} /\ ("sound" \in {} => x.sound) /\ x.sound \in BOOLEAN
    BY <1>2
  <2> QED BY <1>1, <1>2, <1>3, <1>5, <2>1, Makes
<1>7. Statement(m, P2, VerifyModule, P3)
  BY <1>3, Verifies
<1> HIDE DEF P1, P2, P3
<1>8. Leads(m, P1, <<x, VerifyModule>>, P3)
  BY <1>6, <1>7, LeadsTwo
<1> QED BY <1>8 DEF P1, P3, x, s1, H1, H2

(* The builder of ch3/llvm_ir obeys the rules.                              *)
LEMMA BuildFits == Fits("llvm_ir", Start, BuildMain)
<1> DEFINE m == "llvm_ir"
           s1 == <<"Context">>
           S0 == {"sound"}
           A1 == Facing(s1, {"Context"}, 1, {}, S0)
           A2 == Facing(s1, {"Context", "CurModule"}, 2, {}, S0)
           e  == <<ReturnHadError, EndScope(0)>>
           x1 == BuiltModule(e, None)
           second == <<EndScope(1), x1, VerifyModule>> \o e
           x2 == BuiltModule(second, None)
<1>1. /\ m # "use_after_free" /\ "sound" \in S0
      /\ s1 \in Seq(Objects) /\ Len(s1) = 1 /\ Extends(s1, s1) /\ \A z : z \in {"Context"} <=> z \in Held(s1)
  BY DEF Extends, Held, Objects
<1>2. \A d \in A1 : Fits(m, d, e)
  BY <1>1, FitsReturn
<1>3. \A d \in A2 : Fits(m, d, e)
  BY <1>1, FitsReturn
<1>4. ASSUME NEW H, NEW n PROVE \A d \in Facing(s1, H, n, {}, S0) : Fits(m, d, second)
  <2> DEFINE P == Facing(s1, H, n, {}, S0)
  <2>1. Statement(m, P, EndScope(1), A1)
    BY <1>1, Leaves
  <2>2. Leads(m, A1, <<x1, VerifyModule>>, A2)
    BY <1>1, <1>2, BuildsCurModule
  <2> HIDE DEF A1, A2, P, x1, m
  <2>3. Leads(m, P, <<EndScope(1)>>, A1)
    BY <2>1, LeadsOne
  <2>4. Leads(m, P, <<EndScope(1)>> \o <<x1, VerifyModule>>, A2)
    BY <2>2, <2>3, LeadsThrough
  <2>5. <<EndScope(1), x1, VerifyModule>> = <<EndScope(1)>> \o <<x1, VerifyModule>>
    OBVIOUS
  <2>6. Leads(m, P, <<EndScope(1), x1, VerifyModule>>, A2)
    BY <2>4, <2>5
  <2>7. e \in Seq({ReturnHadError, EndScope(0)})
    OBVIOUS
  <2> HIDE DEF e
  <2>8. \A d \in P : Fits(m, d, <<EndScope(1), x1, VerifyModule>> \o e)
    BY <1>3, <2>6, <2>7, FitsAfter
  <2> QED BY <2>8 DEF P
<1>5. Alone \subseteq A1
  <2>1. {"sound"} \subseteq {"sound", "untouched"} /\ 1 \in Nat /\ 1 <= 1 /\ {} \subseteq {}
    OBVIOUS
  <2> QED BY <2>1, FacingMore DEF Alone
<1>6. \A d \in A1 : Fits(m, d, second)
  BY <1>4
<1>7. \E T : second \in Seq(T)
  <2>1. second \in Seq({EndScope(1), x1, VerifyModule, ReturnHadError, EndScope(0)})
    <3> HIDE DEF x1
    <3> QED OBVIOUS
  <2> QED BY <2>1
<1>8. \A d \in A2 : Fits(m, d, second)
  BY <1>4
<1> HIDE DEF second
<1>9. Leads(m, A1, <<x2, VerifyModule>>, A2)
  BY <1>1, <1>6, BuildsCurModule
<1>10. Leads(m, {Start}, <<Declare("Context")>>, A1)
  BY <1>1, <1>5, OpensContext, LeadsFrom
<1> HIDE DEF A1, A2, x2, m
<1>11. Leads(m, {Start}, <<Declare("Context")>> \o <<x2, VerifyModule>>, A2)
  BY <1>9, <1>10, LeadsThrough
<1>12. <<Declare("Context"), x2, VerifyModule>> = <<Declare("Context")>> \o <<x2, VerifyModule>>
  OBVIOUS
<1>13. Leads(m, {Start}, <<Declare("Context"), x2, VerifyModule>>, A2)
  BY <1>11, <1>12
<1>14. \A d \in {Start} : Fits(m, d, <<Declare("Context"), x2, VerifyModule>> \o second)
  BY <1>7, <1>8, <1>13, FitsAfter
<1>15. BuildMain = <<Declare("Context"), x2, VerifyModule>> \o second
  BY DEF BuildMain, second, x1, x2, e
<1> QED BY <1>14, <1>15 DEF m

(***************************************************************************)
(* ch3/machineir                                                           *)
(***************************************************************************)
LEMMA BuildsMachineFunction ==
  ASSUME NEW n, NEW k, Another(n, k), NEW H, "Context" \in H, "MAM" \notin H, "MyModule" \in H
  PROVE  Leads("machineir", Facing(<<>>, H, n, {}, {"sound"}),
               <<[Module("MyModule", <<>>) EXCEPT !.sound = FALSE], VerifyModule>>,
               Facing(<<>>, H, k, {}, {"sound"}))
<1> DEFINE m  == "machineir"
           s0 == <<>>
           x  == [Module("MyModule", <<>>) EXCEPT !.sound = FALSE]
           P1 == Facing(s0, H, n, {}, {"sound"})
           P2 == Facing(s0, H, k, {}, {})
           P3 == Facing(s0, H, k, {}, {"sound"})
<1>1. "MyModule" \in Modules /\ m # "use_after_free"
  BY DEF Modules
<1>2. x.do = "module" /\ x.obj = "MyModule" /\ x.sound = FALSE /\ x.orelse = <<>> /\ MayFail(m, x)
  <2>1. x.do = "module" /\ x.obj = "MyModule" /\ x.sound = FALSE /\ x.orelse = <<>> /\ x.status = None
    BY DEF Module
  <2> HIDE DEF x, m
  <2> QED BY <2>1, NoneAssumption DEF MayFail
<1>3. Len(s0) \in Nat /\ \A z : z \in H <=> z \in H \/ z = "MyModule"
  OBVIOUS
<1>4. n \in Nat /\ n < 11 /\ k = n + 1
  BY DEF Another
<1> HIDE DEF x, s0
<1>5. Statement(m, P1, x, P2)
  <2>1. {} \subseteq {"sound", "untouched"} /\ ("sound" \in {} => x.sound) /\ x.sound \in BOOLEAN
    BY <1>2
  <2>2. x.orelse # <<>> => \A d \in P1 : Fits(m, Early(d, x.status), x.orelse)
    BY <1>2
  <2> QED BY <1>1, <1>2, <1>3, <1>4, <2>1, <2>2, Makes
<1>6. Statement(m, P2, VerifyModule, P3)
  BY Verifies
<1> HIDE DEF P1, P2, P3
<1>7. Leads(m, P1, <<x, VerifyModule>>, P3)
  BY <1>5, <1>6, LeadsTwo
<1> QED BY <1>7 DEF P1, P3, x, s0

(* The builder of ch3/machineir obeys the rules.                            *)
LEMMA MachineFits == Fits("machineir", Start, MachineMain)
<1> DEFINE m  == "machineir"
           s0 == <<>>
           F0 == {"sound", "untouched"}
           S0 == {"sound"}
           H1 == {"MMIWP"}
           H2 == {"MMIWP", "Context"}
           H3 == {"MMIWP", "Context", "MyModule"}
           P0 == Facing(s0, {}, 0, {}, F0)
           P1 == Facing(s0, H1, 1, {}, F0)
           P2 == Facing(s0, H2, 2, {}, F0)
           P3 == Facing(s0, H3, 3, {}, F0)
           Q3 == Facing(s0, H3, 3, {}, S0)
           Q4 == Facing(s0, H3, 4, {}, S0)
           Q5 == Facing(s0, H3, 5, {}, S0)
           x0 == MayReturn(255)
           x1 == Declare("MMIWP")
           x2 == Declare("Context")
           x3 == Declare("MyModule")
           b  == <<[Module("MyModule", <<>>) EXCEPT !.sound = FALSE], VerifyModule>>
           e  == <<ReturnHadError, EndScope(0)>>
<1>1. m # "use_after_free" /\ {"MMIWP", "Context", "MyModule"} \subseteq Objects /\ "MMIWP" \notin Modules
      /\ "Context" \notin Modules
  BY DEF Objects, Modules
<1>2. /\ Len(s0) \in Nat /\ 0 \in Nat /\ 1 \in Nat /\ 2 \in Nat /\ 0 < 11 /\ 1 < 11 /\ 2 < 11
      /\ 1 = 0 + 1 /\ 2 = 1 + 1 /\ 3 = 2 + 1
  OBVIOUS
<1>3. /\ \A z : z \in H1 <=> z \in {} \/ z = "MMIWP"
      /\ \A z : z \in H2 <=> z \in H1 \/ z = "Context"
      /\ \A z : z \in H3 <=> z \in H2 \/ z = "MyModule"
      /\ "Context" \in H2 /\ "Context" \in H3 /\ "MyModule" \in H3 /\ "MAM" \notin H3
  OBVIOUS
<1>4. Statement(m, P0, x0, P0) /\ Statement(m, P3, x0, P3)
  BY <1>1, Stays
<1> HIDE DEF H1, H2, H3, s0, F0
<1>5. Statement(m, P0, x1, P1)
  BY <1>1, <1>2, <1>3, Declares
<1>6. Statement(m, P1, x2, P2)
  BY <1>1, <1>2, <1>3, Declares
<1>7. Statement(m, P2, x3, P3)
  BY <1>1, <1>2, <1>3, Declares
<1>8. P3 \subseteq Q3
  <2>1. S0 \subseteq F0 /\ 3 \in Nat /\ 3 <= 3 /\ {} \subseteq {}
    BY DEF F0
  <2> HIDE DEF S0
  <2> QED BY <2>1, FacingMore
<1>9. Leads(m, Q3, b, Q4)
  BY <1>3, Counts, BuildsMachineFunction DEF s0
<1>10. Leads(m, Q4, b, Q5)
  BY <1>3, Counts, BuildsMachineFunction DEF s0
<1>11. \A d \in Q5 : Fits(m, d, e)
  <2>1. "sound" \in S0
    OBVIOUS
  <2> HIDE DEF S0
  <2> QED BY <1>1, <2>1, FitsReturn
<1>12. Start \in P0
  BY StartFacing DEF s0, F0
<1> HIDE DEF m, P0, P1, P2, P3, Q3, Q4, Q5, x0, x1, x2, x3, b
<1> DEFINE h  == <<x0, x1, x2, x3, x0>>
           t1 == h \o b
           t2 == t1 \o b
<1>13. Leads(m, P0, h, P3)
  <2>1. Leads(m, P0, <<x0, x1>>, P1) /\ Leads(m, P1, <<x2, x3, x0>>, P3)
    BY <1>4, <1>5, <1>6, <1>7, LeadsTwo, LeadsThree
  <2>2. Leads(m, P0, <<x0, x1>> \o <<x2, x3, x0>>, P3)
    BY <2>1, LeadsThrough
  <2>3. <<x0, x1, x2, x3, x0>> = <<x0, x1>> \o <<x2, x3, x0>>
    OBVIOUS
  <2> QED BY <2>2, <2>3
<1>14. Leads(m, P0, h, Q3)
  <2> HIDE DEF h
  <2> QED BY <1>8, <1>13, LeadsFrom
<1>15. Leads(m, P0, t1, Q4)
  <2> HIDE DEF h
  <2> QED BY <1>9, <1>14, LeadsThrough
<1>16. Leads(m, P0, t2, Q5)
  <2> HIDE DEF t1
  <2> QED BY <1>10, <1>15, LeadsThrough
<1>17. e \in Seq({ReturnHadError, EndScope(0)})
  OBVIOUS
<1> HIDE DEF t2, e
<1>18. \A d \in P0 : Fits(m, d, t2 \o e)
  BY <1>11, <1>16, <1>17, FitsAfter
<1> HIDE DEF h
<1>19. MachineMain = t2 \o e
  BY DEF MachineMain, t2, t1, h, e, b, x0, x1, x2, x3
<1> QED BY <1>12, <1>18, <1>19 DEF m

(***************************************************************************)
(* ch10/use_after_free: the module is printed when its context is gone     *)
(***************************************************************************)
LEMMA Dangling ==
  ASSUME NEW R, NEW F
  PROVE  Statement("use_after_free", Facing(<<"CurModule">>, {"CurModule"}, 1, R, F), VerifyModule, {})
<1>1. PICK x : x = VerifyModule
  OBVIOUS
<1>2. x.do = "verify"
  BY <1>1 DEF VerifyModule
<1>3. ASSUME NEW d \in Facing(<<"CurModule">>, {"CurModule"}, 1, R, F)
      PROVE  Allowed("use_after_free", d, x) /\ Dangles("use_after_free", d, x)
  <2>1. d.status = "open" /\ ~Has(d, "Context")
    BY HasHeld DEF Facing
  <2> QED BY <1>2, <2>1 DEF Allowed, VerifyRule, Dangles
<1> QED BY <1>1, <1>2, <1>3 DEF Statement, Facing

(* The program of ch10/use_after_free obeys the rules: it is over where it  *)
(* verifies a module whose context is gone.                                 *)
LEMMA UseAfterFreeFits == Fits("use_after_free", Start, UseAfterFreeMain)
<1> DEFINE m  == "use_after_free"
           s0 == <<>>
           s1 == <<"CurModule">>
           F0 == {"sound", "untouched"}
           H1 == {"CurModule"}
           H2 == {"CurModule", "Context"}
           P0 == Facing(s0, {}, 0, {}, F0)
           P1 == Facing(s0, H1, 1, {}, F0)
           Q1 == Facing(s1, H1, 1, {}, F0)
           Q2 == Facing(s1, H2, 2, {}, F0)
           Q3 == Facing(s1, H2, 3, {}, {})
           Q4 == Facing(s1, H1, 1, {}, {})
           x1 == Declare("CurModule")
           x2 == Declare("Context")
           x3 == [Module("CurModule", <<>>) EXCEPT !.sound = FALSE]
           x4 == EndScope(1)
           e  == <<ReturnHadError, EndScope(0)>>
<1>1. {"Context", "CurModule"} \subseteq Objects /\ "CurModule" \in Modules /\ "Context" \notin Modules
  BY DEF Objects, Modules
<1>2. /\ Len(s0) \in Nat /\ s0 \in Seq(Objects) /\ Held(s0) = {} /\ s1 = Append(s0, "CurModule")
      /\ s1 \in Seq(Objects) /\ Len(s1) \in Nat /\ Len(s1) = 1 /\ Extends(s1, s1) /\ Held(s1) = H1
  BY <1>1 DEF Held, Extends
<1>3. /\ \A z : z \in H1 <=> z \in {} \/ z = "CurModule"
      /\ \A z : z \in H2 <=> z \in H1 \/ z = "Context"
      /\ \A z : z \in H2 <=> z \in H2 \/ z = "CurModule"
      /\ "MAM" \notin H2
      /\ 0 \in Nat /\ 1 \in Nat /\ 2 \in Nat /\ 0 < 11 /\ 1 < 11 /\ 2 < 11 /\ 1 = 0 + 1 /\ 2 = 1 + 1 /\ 3 = 2 + 1
  OBVIOUS
<1>4. x3.do = "module" /\ x3.obj = "CurModule" /\ x3.sound = FALSE /\ x3.orelse = <<>> /\ MayFail(m, x3)
  <2>1. x3.do = "module" /\ x3.obj = "CurModule" /\ x3.sound = FALSE /\ x3.orelse = <<>> /\ x3.status = None
    BY DEF Module
  <2> HIDE DEF x3, m
  <2> QED BY <2>1, NoneAssumption DEF MayFail
<1>5. m \notin Telling /\ ~(m # "use_after_free")
  BY DEF Telling
<1>6. Start \in P0
  BY StartFacing
<1> HIDE DEF s0, s1, H1, H2, F0
<1>7. Statement(m, P0, x1, P1)
  BY <1>1, <1>2, <1>3, Declares
<1>8. P1 \subseteq Q1
  <2>1. \A z : z \in H1 <=> z \in Held(s0) \/ z = "CurModule"
    BY <1>2, <1>3
  <2>2. "CurModule" \notin Held(s0)
    BY <1>2
  <2>3. "CurModule" \in Objects /\ 1 = Len(s1)
    BY <1>1, <1>2
  <2>4. s0 \in Seq(Objects) /\ s1 = Append(s0, "CurModule")
    BY <1>2
  <2>5. Facing(s0, H1, 1, {}, F0) \subseteq Facing(s1, H1, 1, {}, F0)
    BY <2>1, <2>2, <2>3, <2>4, Pins
  <2> QED BY <2>5
<1>9. Statement(m, Q1, x2, Q2)
  BY <1>1, <1>2, <1>3, Declares
<1> HIDE DEF x3
<1>10. Statement(m, Q2, x3, Q3)
  <2>1. {} \subseteq {"sound", "untouched"} /\ ("sound" \in {} => x3.sound) /\ x3.sound \in BOOLEAN
    BY <1>4
  <2>2. x3.orelse # <<>> => \A d \in Q2 : Fits(m, Early(d, x3.status), x3.orelse)
    BY <1>4
  <2> QED BY <1>1, <1>2, <1>3, <1>4, <1>5, <2>1, <2>2, Makes
<1>11. Statement(m, Q3, x4, Q4)
  <2>1. \A z : z \in H1 <=> z \in Held(s1)
    BY <1>2
  <2> QED BY <1>2, <2>1, Leaves
<1>12. Statement(m, Q4, VerifyModule, {})
  BY Dangling DEF s1, H1
<1> HIDE DEF m, P0, P1, Q1, Q2, Q3, Q4, x1, x2, x4
<1>13. Leads(m, P0, <<x1>>, Q1)
  BY <1>7, <1>8, LeadsOne, LeadsFrom
<1>14. Leads(m, Q1, <<x2, x3, x4, VerifyModule>>, {})
  BY <1>9, <1>10, <1>11, <1>12, LeadsFour
<1> DEFINE t == <<x1>> \o <<x2, x3, x4, VerifyModule>>
<1>15. Leads(m, P0, t, {})
  BY <1>13, <1>14, LeadsThrough
<1>16. e \in Seq({ReturnHadError, EndScope(0)})
  OBVIOUS
<1>17. \A d \in P0 : Fits(m, d, t \o e)
  <2> HIDE DEF t, e
  <2>1. \A d \in {} : Fits(m, d, e)
    OBVIOUS
  <2> QED BY <1>15, <1>16, <2>1, FitsAfter
<1>18. <<x1, x2, x3, x4, VerifyModule, ReturnHadError, EndScope(0)>> = t \o e
  OBVIOUS
<1> HIDE DEF e, t
<1>19. UseAfterFreeMain = t \o e
  BY <1>18 DEF UseAfterFreeMain, x1, x2, x3, x4
<1> QED BY <1>6, <1>17, <1>19 DEF m

(* Every program is wired right: the order of its main's statements is      *)
(* such that what a pass asks for is registered before the managers run,    *)
(* what is used exists, and the exit status is set after the module is      *)
(* verified.                                                                *)
THEOREM ProgramsWired == \A p \in Programs : WellWired(p)
<1> SUFFICES ASSUME NEW p \in Programs PROVE Fits(p.main, Start, Code(p))
  BY DEF WellWired
<1>1. CASE p.main = "your_first_pass"
  <2>1. \E l, n : Code(p) = FirstPassMain(l, n)
    BY <1>1 DEF Code
  <2> QED BY <1>1, <2>1, FirstPassFits
<1>2. CASE p.main = "your_first_pipeline"
  <2>1. \E u : Code(p) = PipelineMain(u)
    BY <1>2 DEF Code
  <2> QED BY <1>2, <2>1, PipelineFits
<1>3. CASE p.main = "RunPipeline"
  <2>1. Code(p) = RunPipelineMain
    BY <1>3 DEF Code
  <2> QED BY <1>3, <2>1, RunPipelineFits
<1>4. CASE p.main = "opt"
  <2>1. Code(p) = OptMain(p.with, p.with)
    BY <1>4 DEF Code
  <2>2. Groups(p.with)
    BY <1>4, ProgramsAssumption DEF Groups
  <2> QED BY <1>4, <2>1, <2>2, OptFits
<1>5. CASE p.main = "run.sh"
  <2>1. Code(p) = ScriptMain(p.with, p.env, p.host)
    BY <1>5 DEF Code
  <2>2. Len(p.with) \in Nat
    <3>1. p.with \in Seq(STRING)
      BY <1>5, ProgramsAssumption
    <3> QED BY <3>1
  <2> QED BY <1>5, <2>1, <2>2, ScriptFits
<1>6. CASE p.main = "llvm_ir"
  <2>1. Code(p) = BuildMain
    BY <1>6 DEF Code
  <2> QED BY <1>6, <2>1, BuildFits
<1>7. CASE p.main = "machineir"
  <2>1. Code(p) = MachineMain
    BY <1>7 DEF Code
  <2> QED BY <1>7, <2>1, MachineFits
<1>8. CASE p.main = "use_after_free"
  <2>1. Code(p) = UseAfterFreeMain
    BY <1>8 DEF Code
  <2> QED BY <1>8, <2>1, UseAfterFreeFits
<1> QED BY <1>1, <1>2, <1>3, <1>4, <1>5, <1>6, <1>7, <1>8, ProgramsAssumption

(***************************************************************************)
(* The theorems                                                            *)
(***************************************************************************)
(* The invariant holds in every state of every program.                     *)
THEOREM Invariance == Spec => []MInv
<1>1. Init => MInv
  BY MInit, ProgramsWired
<1>2. MInv /\ [Next]_vars => MInv'
  BY MStep
<1> QED BY <1>1, <1>2, PTL DEF Spec

(* Every variable has its type: no more than eleven objects exist, and the  *)
(* managers hold results of the analyses they may hold.                     *)
THEOREM TypeCorrect == Spec => []TypeOK
<1>1. MInv => TypeOK
  <2> SUFFICES ASSUME MInv PROVE TypeOK
    OBVIOUS
  <2>1. Types /\ ATypeOK
    BY DEF MInv, AHeld
  <2>2. \A f \in Fun : ran[f] \in Seq(Pass)
    BY <2>1 DEF Types
  <2> QED BY <2>1, <2>2 DEF Types, TypeOK
<1> QED BY <1>1, Invariance, PTL

(* No pass asks a manager for an analysis nobody registered with it, which  *)
(* would end the program on an assertion.                                   *)
THEOREM AlwaysRegistered == Spec => []RegisteredBeforeQueried
<1>1. MInv => RegisteredBeforeQueried
  BY DEF MInv, Types, RegisteredBeforeQueried
<1> QED BY <1>1, Invariance, PTL

(* What an object uses when it dies outlives it, and only the program of    *)
(* ch10/use_after_free reads a module whose context is gone.                *)
THEOREM AlwaysAlive == Spec => []UsedWhileAlive
<1>1. MInv => UsedWhileAlive
  BY DEF MInv, Over, UsedWhileAlive, main
<1> QED BY <1>1, Invariance, PTL

(* A driver that verifies what its passes left exits with 1 if, and only    *)
(* if, a pass broke a function of one of its modules.                       *)
THEOREM DamageTold == Spec => []StatusTellsDamage
<1>1. MInv => StatusTellsDamage
  BY DEF MInv, Over, StatusTellsDamage, Telling, main
<1> QED BY <1>1, Invariance, PTL

(* With the reader's instrumentation registered before the PassBuilder's,   *)
(* every pass of your_first_pipeline is logged on every function.           *)
THEOREM AllLogged == Spec => []PipelinesLogged
<1>1. MInv => PipelinesLogged
  BY DEF MInv
<1> QED BY <1>1, Invariance, PTL

(* Every step of a program is a step of the analysis managers, or leaves    *)
(* them as they are: PassManager implements AnalysisManager.                *)
THEOREM ManagersKeepPromise == Spec => AnalysesManaged
<1>1. Init => AInit
  BY DEF Init
<1>2. MInv /\ [Next]_vars => [ANext]_avars
  <2> SUFFICES ASSUME MInv, [Next]_vars PROVE [ANext]_avars
    OBVIOUS
  <2>1. CASE Next
    BY <2>1, NextManaged
  <2>2. CASE UNCHANGED vars
    BY <2>2 DEF vars
  <2> QED BY <2>1, <2>2
<1> QED BY <1>1, <1>2, Invariance, PTL DEF Spec, AnalysesManaged, ASpec

\* the passes whose reports module Drivers tells
KnownPasses == ModulePasses \cup {"SolutionConstantPropagation", "YourTurnConstantPropagation",
                                  "LocalConstProp", "Promote", "InstCombine", "Hello",
                                  "PrintFnStats", "Dump"}

(* If every pass reports as preserved only what it leaves as it is, no      *)
(* program is ever given a stale result.                                    *)
THEOREM NeverStale == ASSUME ReportsSound PROVE Spec => []FreshResults
<1> QED BY ManagersKeepPromise, FreshResultsHold, PTL DEF AnalysesManaged

(* The passes of the repository, and those of LLVM that the programs run,   *)
(* do report soundly.                                                       *)
LEMMA PassesReportSoundly ==
  ASSUME Key = FunctionAnalyses, \A k \in Key : Depends(k) = Computed(k),
         \A p \in Pass : Outcomes(p) = PassOutcomes(p) /\ p \in KnownPasses
  PROVE  ReportsSound
<1> SUFFICES ASSUME NEW p \in Pass, NEW o \in Outcomes(p), NEW k \in Key, k \in o.preserves
             PROVE  Computed(k) \cap o.changes = {}
  BY DEF ReportsSound
<1>1. o \in {AllPreserved, CFGPreserved, [CFGPreserved EXCEPT !.breaks = TRUE],
             Outcome({"insts"}, NeverInvalid), NonePreserved}
  <2>1. o \in PassOutcomes(p) /\ p \in KnownPasses
    OBVIOUS
  <2>2. CASE p = "SolutionConstantPropagation"
    BY <2>1, <2>2 DEF PassOutcomes, SolutionPass
  <2>3. CASE p = "YourTurnConstantPropagation"
    BY <2>1, <2>3 DEF PassOutcomes, YourTurnPass
  <2>4. CASE p = "LocalConstProp"
    BY <2>1, <2>4 DEF PassOutcomes, LocalConstPropPass
  <2>5. CASE p \in {"Hello", "PrintFnStats", "Dump", "CountGlobals"}
    BY <2>1, <2>5 DEF PassOutcomes, ReadOnlyPass
  <2>6. CASE p \in {"Promote", "InstCombine"}
    BY <2>1, <2>6 DEF PassOutcomes
  <2>7. CASE p = "AlwaysInliner"
    BY <2>1, <2>7 DEF PassOutcomes
  <2> QED BY <2>1, <2>2, <2>3, <2>4, <2>5, <2>6, <2>7 DEF KnownPasses, ModulePasses
<1>2. CASE o = AllPreserved
  BY <1>2 DEF AllPreserved, Outcome
<1>3. CASE o = CFGPreserved \/ o = [CFGPreserved EXCEPT !.breaks = TRUE]
  <2>1. o.changes = {"insts"} /\ o.preserves = NeverInvalid \cup {"DominatorTree"}
    BY <1>3 DEF CFGPreserved, Outcome
  <2> QED BY <2>1 DEF Computed, NeverInvalid
<1>4. CASE o = Outcome({"insts"}, NeverInvalid)
  BY <1>4 DEF Outcome, Computed, NeverInvalid
<1>5. CASE o = NonePreserved
  BY <1>5 DEF NonePreserved, Outcome
<1> QED BY <1>1, <1>2, <1>3, <1>4, <1>5

(* So whatever the programs and the functions: a program made of these      *)
(* passes is never given a stale result.                                    *)
THEOREM KnownPassesNeverStale ==
  ASSUME Key = FunctionAnalyses, \A k \in Key : Depends(k) = Computed(k),
         \A p \in Pass : Outcomes(p) = PassOutcomes(p) /\ p \in KnownPasses
  PROVE  Spec => []FreshResults
<1>1. ReportsSound
  BY PassesReportSoundly
<1> QED BY <1>1, NeverStale
==================================================================================
