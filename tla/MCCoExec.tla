-------------------------------- MODULE MCCoExec --------------------------------
(* Instances of CoExec on the functions of MCFunctions. *)
EXTENDS CoExec, MCFunctions

\* what a fold may be replaced by: any word where the value is poison
MCFunctionSet ==
  Diamonds({ Bin("Shl", C(1), C(2)), Nsw("Add", C(1), C(1)), Bin("Sub", C(0), C(1)) }, {X, U(1)},
         { Bin("SDiv", C(2), U(1)), Bin("Add", U(1), X) },
         { Bin("AShr", C(2), U(1)), Bin("Or", U(1), C(1)) },
         { Bin("Add", U(7), U(1)) })
  \cup Loops({ Bin("Shl", C(1), C(2)), Bin("UDiv", C(3), C(2)) }, {U(4), U(1)}, { Bin("SDiv", U(1), U(1)) })
  \cup Straights({ Bin("SDiv", C(2), C(3)), Bin("Mul", X, C(2)), Bin("LShr", C(3), C(3)) },
         { Bin("Add", U(1), C(1)), Bin("SDiv", C(1), C(0)) },
         { Bin("Sub", U(1), U(2)) },
         { Bin("Xor", U(3), U(3)), Bin("SDiv", C(1), U(3)) })

\* Execute has no case for loads and stores
ASSUME MemoryFree
==================================================================================
