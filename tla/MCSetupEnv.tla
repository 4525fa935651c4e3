------------------------------- MODULE MCSetupEnv -------------------------------
(* Instances of SetupEnv: systems with nothing, with Xcode, with all but the *)
(* archives, with Ninja and no Xcode, with everything.                       *)
EXTENDS SetupEnv

MCSystems == { {}, {"git", "clang"}, {"git", "clang", "python3"},
               {"ninja", "python3"}, Tools }
==================================================================================
