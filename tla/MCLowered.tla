-------------------------------- MODULE MCLowered --------------------------------
(* Instances of Lowered on the functions of BuiltIR and MachineIR: two-bit   *)
(* words, the greatest of which stands for 0xFF.                             *)
EXTENDS BuiltIR, MachineIR

MCWord == 0 .. 3
MCPlus(x, y) == (x + y) % 4
MCMagic == 3

Solutions == {BuiltFoo, MachineFoo(SolutionCFG)}
==================================================================================
