-------------------------------- MODULE MCReduce --------------------------------
(* Instances of Reduce: bugged_input.ll has two functions, the second of     *)
(* which divides by zero; others crash in the first or nowhere.              *)
EXTENDS Reduce

CONSTANTS sdiv, broken, add, or

MCInstr    == {sdiv, broken, add, or}
MCCrashing == {sdiv}
MCBreaking == {broken}

MCInputs == { <<{add, or}, {sdiv, add}>>, <<{broken, add}, {or, sdiv}, {add}>>,
              <<{sdiv, broken}>>, <<{broken}, {add}>>, <<{add}>>, <<>>,
              Missing, Malformed }
==================================================================================
