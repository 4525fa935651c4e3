--------------------------------- MODULE Pipeline ---------------------------------
(***************************************************************************)
(* What a pass pipeline of ch5 promises, whichever pass manager runs it:   *)
(* every function gets the passes that were asked for, each once and in    *)
(* that order, and a pass over the module runs when all functions have had *)
(* what comes before it.  In which order the functions are served is open: *)
(* pass by pass, or function by function.                                  *)
(***************************************************************************)
EXTENDS Naturals, Sequences

CONSTANTS
  Fun,         \* the functions with a body
  Pass,        \* the passes
  ModulePass   \* the passes that run on the module as a whole

VARIABLES
  asked,     \* the passes asked for
  ran,       \* the passes each function has had
  finished   \* the program is over

pipevars == <<asked, ran, finished>>

PInit == asked = <<>> /\ ran = [f \in Fun |-> <<>>] /\ finished = FALSE

Complete == \A f \in Fun : ran[f] = asked

Due(f) == IF Len(ran[f]) < Len(asked) THEN {asked[Len(ran[f]) + 1]} ELSE {}

\* the next module to work on, when this one has had everything
NewModule == /\ Complete
             /\ asked' \in Seq(Pass)
             /\ ran' = [f \in Fun |-> <<>>]
             /\ UNCHANGED finished

Serve(f) == \E p \in Due(f) \ ModulePass :
              /\ ran' = [ran EXCEPT ![f] = Append(@, p)]
              /\ UNCHANGED <<asked, finished>>

ServeModule == \E p \in ModulePass :
                 /\ \A f \in Fun : Due(f) = {p}
                 /\ ran' = [f \in Fun |-> Append(ran[f], p)]
                 /\ UNCHANGED <<asked, finished>>

Finish == Complete /\ finished' = TRUE /\ UNCHANGED <<asked, ran>>

PNext == ~finished /\ (NewModule \/ Finish \/ ServeModule \/ \E f \in Fun : Serve(f))

PSpec == PInit /\ [][PNext]_pipevars
==================================================================================
