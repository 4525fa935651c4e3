------------------------------- MODULE MCConstProp -------------------------------
(* Instances of ConstProp on the functions of MCFunctions. *)
EXTENDS ConstProp, MCFunctions

Firsts == { Bin("Shl", C(1), C(1)), Bin("Shl", C(3), C(2)), Bin("Sub", C(0), C(1)),
            Bin("Xor", C(3), C(3)), Bin("Add", X, C(1)), Nsw("Add", C(1), C(1)),
            Bin("URem", C(3), C(2)) }

MCFunctionSet ==
  {Declaration}
  \cup Diamonds(Firsts, {X, U(1)},
         { Bin("SDiv", U(1), C(3)), Bin("SDiv", C(2), U(1)), Bin("UDiv", U(1), C(0)) },
         { Bin("Or", U(1), C(1)), Bin("AShr", C(2), U(1)) },
         { Bin("Add", U(7), C(1)), Bin("And", U(1), C(3)) })
  \cup Loops(Firsts, {U(4), U(1), C(0)}, { Bin("Mul", U(1), U(1)), Bin("LShr", U(3), U(1)) })
  \cup Unreachables({ Bin("Add", U(3), C(1)), Bin("Sub", C(3), C(1)), Bin("Add", U(1), C(1)) }, Firsts)
  \cup Chains(Firsts, { Bin("Or", U(1), C(1)), Bin("SDiv", C(3), U(1)) },
         { Bin("Sub", U(3), U(1)), Bin("UDiv", C(3), U(3)) })
  \cup Straights({ Bin("SDiv", C(2), C(3)), Bin("UDiv", C(3), C(0)), Bin("Mul", X, C(2)) },
         { Bin("Add", U(1), C(1)), Bin("SDiv", C(1), C(0)), Bin("SDiv", C(2), U(1)) },
         { Bin("Sub", U(1), U(2)), Bin("SDiv", U(2), U(1)) },
         { Bin("Xor", U(3), U(3)), Bin("Shl", U(3), U(2)) })
==================================================================================
