----------------------------------- MODULE Rpo -----------------------------------
(***************************************************************************)
(* The block order of LLVM's ReversePostOrderTraversal: depth first from   *)
(* the entry, a block's successors in the order of its terminator, each    *)
(* block listed after its successors, and the list reversed.               *)
(***************************************************************************)
EXTENDS Sequences, SequencesExt

RECURSIVE Visit(_, _, _)
Visit(succ, st, b) ==
  IF b \in st.seen THEN st
  ELSE LET s == FoldLeft(LAMBDA acc, next : Visit(succ, acc, next),
                         [st EXCEPT !.seen = @ \cup {b}], succ[b])
       IN  [s EXCEPT !.post = Append(@, b)]

\* succ[b] is the sequence of b's successors
ReversePostOrder(succ, entry) ==
  Reverse(Visit(succ, [seen |-> {}, post |-> <<>>], entry).post)
==================================================================================
