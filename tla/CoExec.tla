--------------------------------- MODULE CoExec ---------------------------------
(***************************************************************************)
(* A function before and after constant propagation, run side by side on   *)
(* the same arguments.  Propagate rewrites the function for as long as it  *)
(* likes; then the given function (src) and the rewritten one (tgt) each   *)
(* execute one position of their block per step, as the two clones of      *)
(* ch4/simple_cst_propagation/main.cpp would if they were compiled and     *)
(* called.  The semantics of the instructions is that of LLVM's language   *)
(* reference.                                                              *)
(***************************************************************************)
EXTENDS Propagate

\* the functions keep no value in memory
MemoryFree ==
  \A f \in Functions : \A i \in DOMAIN f.code : f.code[i].op \notin MemoryOp

VARIABLES
  running,  \* the rewriting is over and the two functions execute
  arg,      \* the arguments of the call
  src,      \* the execution of the function as given
  tgt       \* the execution of the rewritten function

xvars == <<fn, code, repl, running, arg, src, tgt>>

State == [blk : Block \cup {None}, pos : Nat, prev : Block \cup {None},
          atEntry : [Ins -> Value], env : [Ins -> Value], out : Value \cup {UB, None}]

Entry == [blk |-> None, pos |-> 1, prev |-> None, atEntry |-> [i \in Ins |-> Poison],
          env |-> [i \in Ins |-> Poison], out |-> None]

XInit == /\ PInit
         /\ running = FALSE
         /\ arg \in [Arg -> Word]
         /\ src = Entry /\ tgt = Entry

Rewrite == ~running /\ Propagate /\ UNCHANGED <<running, arg, src, tgt>>

(***************************************************************************)
(* Executing an instruction x named i.  A phi reads the values its         *)
(* operands had when the block was entered, all phis of a block at once.   *)
(* Branching on poison is undefined behaviour.                             *)
(***************************************************************************)
ValueOf(o, env) == CASE o.tag = "const" -> o.val
                     [] o.tag = "arg"   -> arg[o.val]
                     [] o.tag = "ins"   -> env[o.val]

Stop(s, v)      == [s EXCEPT !.out = v]
Define(s, i, v) == [s EXCEPT !.env = [@ EXCEPT ![i] = v], !.pos = @ + 1]
Goto(s, b)      == [s EXCEPT !.blk = b, !.pos = 1, !.prev = s.blk, !.atEntry = s.env]

Yield(s, i, v) == IF v = UB THEN Stop(s, UB) ELSE Define(s, i, v)

Incoming(y, b) == { k \in DOMAIN y.bbs : y.bbs[k] = b }

Execute(y, i, s) ==
  CASE y.op \in PureOp ->
         Yield(s, i, Eval(y.op, y.nsw, ValueOf(y.args[1], s.env), ValueOf(y.args[2], s.env)))
    [] y.op = "Phi" ->
         IF Incoming(y, s.prev) = {} THEN Stop(s, UB)
         ELSE Define(s, i, ValueOf(y.args[CHOOSE k \in Incoming(y, s.prev) : TRUE], s.atEntry))
    [] y.op = "Ret" ->
         Stop(s, ValueOf(y.args[1], s.env))
    [] y.op = "Br" ->
         IF Len(y.args) = 0 THEN Goto(s, y.bbs[1])
         ELSE LET c == ValueOf(y.args[1], s.env)
              IN  IF c = Poison THEN Stop(s, UB)
                  ELSE Goto(s, y.bbs[IF c # 0 THEN 1 ELSE 2])

At(s) == fn.list[s.blk][s.pos]

\* a position whose instruction was erased is no longer in the block
StepOn(c, s) == IF At(s) \in DOMAIN c THEN Execute(c[At(s)], At(s), s)
                ELSE [s EXCEPT !.pos = @ + 1]

Call == /\ ~running /\ fn.layout # <<>>
        /\ running' = TRUE
        /\ src' = [src EXCEPT !.blk = fn.layout[1]]
        /\ tgt' = [tgt EXCEPT !.blk = fn.layout[1]]
        /\ UNCHANGED <<fn, code, repl, arg>>

Running(s) == s.out = None /\ s.pos \in DOMAIN fn.list[s.blk]

Step == /\ running /\ Running(src) /\ Running(tgt)
        /\ src' = StepOn(fn.code, src)
        /\ tgt' = StepOn(code, tgt)
        /\ UNCHANGED <<fn, code, repl, running, arg>>

\* the given function returned, or its behaviour is undefined
Halted == running /\ ~Running(src) /\ UNCHANGED xvars

XNext == Rewrite \/ Call \/ Step \/ Halted

XSpec == XInit /\ [][XNext]_xvars

(***************************************************************************)
(* Properties                                                              *)
(***************************************************************************)
(* The types of the variables. *)
XTypeOK ==
  /\ IsFunction(fn) /\ IsCode(code) /\ DOMAIN code \subseteq DOMAIN fn.code
  /\ repl \in [Ins -> Value \cup {None}]
  /\ running \in BOOLEAN /\ arg \in [Arg -> Word]
  /\ src \in State /\ tgt \in State
  /\ running => src.blk \in Block

(* Constant propagation preserves the meaning of the function               *)
(* (populate_function.cpp:143-147): whatever was folded, and in whatever    *)
(* order, the rewritten function takes the same branches as the given one   *)
(* and ends with the same result, a defined one where the given function's  *)
(* is poison, unless the given function's behaviour is undefined.           *)
SameBehaviour ==
  src.out # UB =>
    /\ tgt.blk = src.blk /\ tgt.pos = src.pos /\ tgt.prev = src.prev
    /\ (src.out = None) <=> (tgt.out = None)
    /\ Refines(tgt.out, src.out)
=================================================================================
