--------------------------------- MODULE BuiltIR ---------------------------------
(***************************************************************************)
(* The IR of foo that solutionBuildModule (ch3/llvm_ir/solution),          *)
(* myBuildModule (ch3/llvm_ir/your_turn) and buggyBuildModule              *)
(* (ch10/use_after_free) build: the three make the same calls of the       *)
(* builder.  Values and allocas have the names of the source.              *)
(***************************************************************************)
EXTENDS Lowered

IRLayout == <<"bb", "bb9", "bb12">>
IRValues == {"Arg", "Arg1", "I4", "I5", "I6", "I7", "Cst255", "I8", "I10", "I11", "I13"}
IRAllocas == {"I", "I2", "I3"}
IRParameters == <<"Arg", "Arg1">>

PopulateBB == << Store("Arg", "I"), Store("Arg1", "I2"),
                 Load("I4", "I"), Load("I5", "I2"),
                 AddOf("I6", "I4", "I5"), Store("I6", "I3"),
                 Load("I7", "I3"), Constant("Cst255"), ICmpEQ("I8", "I7", "Cst255"),
                 BrCond("I8", "bb9"), Br("bb12") >>

PopulateBB9 == << Load("I10", "I3"), CallBar("I10"),
                  CallBaz("I11"), Store("I11", "I3"), Br("bb12") >>

\* mutant: jumps where it should return
MutPopulateBB12 == << Load("I13", "I3"), Br("bb12") >>

PopulateBB12 == << Load("I13", "I3"), CallBar("I13"), Ret >>

IRCode == [bb |-> PopulateBB, bb9 |-> PopulateBB9, bb12 |-> PopulateBB12]

\* the edges of an IR function are those of its terminators
IRSuccessors == [from \in DOMAIN IRCode |->
  { IRCode[from][n].dst : n \in { m \in DOMAIN IRCode[from] : IRCode[from][m].op \in {"br", "brcond"} } }]

BuiltFoo == [layout |-> IRLayout, code |-> IRCode, successors |-> IRSuccessors,
             register |-> IRValues, physical |-> {}, parameters |-> IRParameters,
             slots |-> IRAllocas, varSlot |-> "I3"]
===================================================================================
