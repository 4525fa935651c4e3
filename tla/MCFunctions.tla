------------------------------- MODULE MCFunctions -------------------------------
(***************************************************************************)
(* Small functions for the runs of the constant propagations, in blocks    *)
(* B1 .. B4 with instructions 1 .. 9: the diamond of the default InputIR   *)
(* of ch4/simple_cst_propagation/main.cpp with its phi, a loop, a function *)
(* with an unreachable block, a straight line and a declaration.  Every    *)
(* shape comes with all choices of a few opcodes and operands.             *)
(***************************************************************************)
EXTENDS FoldRules, Rpo, FiniteSets

CONSTANTS B1, B2, B3, B4, x   \* model values: the blocks, the argument

MCIns   == 1 .. 9
MCBlock == {B1, B2, B3, B4}
MCArg   == {x}

Bin(op, a, b) == [op |-> op, nsw |-> FALSE, args |-> <<a, b>>, bbs |-> <<>>]
Nsw(op, a, b) == [Bin(op, a, b) EXCEPT !.nsw = TRUE]
Mem(op, as)   == [op |-> op, nsw |-> FALSE, args |-> as, bbs |-> <<>>]
Phi(as, bs)   == [op |-> "Phi", nsw |-> FALSE, args |-> as, bbs |-> bs]
Br(b)         == [op |-> "Br", nsw |-> FALSE, args |-> <<>>, bbs |-> <<b>>]
CondBr(a, b, c) == [op |-> "Br", nsw |-> FALSE, args |-> <<a>>, bbs |-> <<b, c>>]
Ret(a)        == [op |-> "Ret", nsw |-> FALSE, args |-> <<a>>, bbs |-> <<>>]

C(v) == ConstOp(v)
U(i) == UseOp(i)
X    == ArgOp(x)

(***************************************************************************)
(* A function from its blocks' instructions, in the order of the file.     *)
(***************************************************************************)
Function(layout, list, c) ==
  LET succ == [b \in MCBlock |-> IF list[b] = <<>> THEN <<>> ELSE c[Last(list[b])].bbs]
  IN  [layout |-> layout, list |-> list, code |-> c,
       rpo |-> IF layout = <<>> THEN <<>> ELSE ReversePostOrder(succ, layout[1])]

Blocks(l1, l2, l3, l4) ==
  (B1 :> l1) @@ (B2 :> l2) @@ (B3 :> l3) @@ (B4 :> l4)

\* no body: a declaration
Declaration == Function(<<>>, Blocks(<<>>, <<>>, <<>>, <<>>), <<>>)

\* bb -> bb2 | bb4 -> bb6, in two orders of the blocks
Diamond(layout, first, cond, then, else, last) ==
  Function(layout, Blocks(<<1, 2>>, <<3, 4>>, <<5, 6>>, <<7, 8, 9>>),
    <<first, CondBr(cond, B2, B3), then, Br(B4), else, Br(B4),
      Phi(<<U(3), U(5)>>, <<B2, B3>>), last, Ret(U(8))>>)

DiamondLayouts == {<<B1, B2, B3, B4>>, <<B1, B4, B3, B2>>}

Diamonds(firsts, conds, thens, elses, lasts) ==
  { Diamond(l, f, c, t, e, z) : l \in DiamondLayouts, f \in firsts, c \in conds,
      t \in thens, e \in elses, z \in lasts }

\* bb -> header <-> body, header -> exit; the body adds to the phi
Loop(layout, step, cond, tail) ==
  Function(layout, Blocks(<<1, 2>>, <<3, 4, 5>>, <<6, 7>>, <<8, 9>>),
    <<step, Br(B2),
      Phi(<<C(0), U(6)>>, <<B1, B3>>), Bin("ICmp", U(3), C(2)), CondBr(cond, B3, B4),
      Bin("Add", U(3), U(1)), Br(B2),
      tail, Ret(U(8))>>)

LoopLayouts == {<<B1, B2, B3, B4>>, <<B1, B4, B3, B2>>}

Loops(steps, conds, tails) ==
  { Loop(l, s, c, t) : l \in LoopLayouts, s \in steps, c \in conds, t \in tails }

\* B2 has no predecessor and uses its own results, as unreachable code may;
\* B3 is reached and takes a phi value from it
Unreachable(dead, live) ==
  Function(<<B1, B2, B3>>, Blocks(<<1, 2>>, <<3, 4, 5>>, <<6, 7>>, <<>>),
    <<live, Br(B3), dead, Bin("Add", U(3), U(4)), Br(B3),
      Phi(<<U(1), U(3)>>, <<B1, B2>>), Ret(U(6))>>)

Unreachables(deads, lives) == { Unreachable(d, l) : d \in deads, l \in lives }

\* one block: %1 = first, %2 = second, %3 = %1 third %2, %4 = %3 fourth %3
Straight(first, second, third, fourth, result) ==
  Function(<<B1>>, Blocks(<<1, 2, 3, 4, 5>>, <<>>, <<>>, <<>>),
    <<first, second, third, fourth, Ret(result)>>)

Straights(fs, ss, ts, us) ==
  { Straight(f, s, t, u, U(4)) : f \in fs, s \in ss, t \in ts, u \in us }

\* three blocks in a row, each using the one before; in the second order of
\* the file the last block comes before the definition it uses
Chain(layout, first, second, third) ==
  Function(layout, Blocks(<<1, 2>>, <<3, 4>>, <<5, 6>>, <<>>),
    <<first, Br(B2), second, Br(B3), third, Ret(U(5))>>)

ChainLayouts == {<<B1, B2, B3>>, <<B1, B3, B2>>}

Chains(firsts, seconds, thirds) ==
  { Chain(l, f, s, t) : l \in ChainLayouts, f \in firsts, s \in seconds, t \in thirds }

\* @test of ch4/sccppass/tests/Inputs/sample.ll: 2 + 3 is already 5 (here 1),
\* the times 4 (here 2) and the sum go through memory
Sample ==
  Function(<<B1>>, Blocks(<<1, 2, 3, 4, 5, 6, 7, 8, 9>>, <<>>, <<>>, <<>>),
    << Mem("Alloca", <<>>), Mem("Store", <<C(1), U(1)>>), Mem("Load", <<U(1)>>),
       Nsw("Mul", U(3), C(2)), Mem("Store", <<U(4), U(1)>>), Mem("Load", <<U(1)>>),
       Mem("Load", <<U(1)>>), Nsw("Add", U(6), U(7)), Ret(U(8)) >>)
==================================================================================
