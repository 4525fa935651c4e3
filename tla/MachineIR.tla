-------------------------------- MODULE MachineIR --------------------------------
(***************************************************************************)
(* The Machine IR of foo that solutionPopulateMachineIR                    *)
(* (ch3/machineir/solution) and populateMachineIR (ch3/machineir/your_turn)*)
(* build.  The two build the same instructions, and differ in the          *)
(* successors they declare.  checkFunctionCorrectness makes W0 and W1      *)
(* live into the entry: the arguments are there.                           *)
(***************************************************************************)
EXTENDS Lowered

MIRLayout == <<"EntryBB", "ThenBB", "ExitBB">>
MIRRegisters == {"A", "B", "ResAdd", "Cst0xFF", "ReloadedVar0", "Cmp",
               "ReloadedVar1", "ResOfBaz", "ReloadedVar2", "W0", "W1"}
MIRLiveIns == <<"W0", "W1">>
MIRSlots   == {"FrameIndex"}

PopulateEntry == << Copy("A", "W0"), Copy("B", "W1"),
                    AddOf("ResAdd", "A", "B"), Store("ResAdd", "FrameIndex"),
                    Constant("Cst0xFF"), Load("ReloadedVar0", "FrameIndex"),
                    ICmpEQ("Cmp", "ReloadedVar0", "Cst0xFF"),
                    BrCond("Cmp", "ThenBB"), Br("ExitBB") >>

\* mutant: W0 is taken to hold var still
MutPopulateThen == << CallBar("W0"),
                      CallBaz("W0"), Copy("ResOfBaz", "W0"), Store("ResOfBaz", "FrameIndex") >>

PopulateThen == << Load("ReloadedVar1", "FrameIndex"), Copy("W0", "ReloadedVar1"), CallBar("W0"),
                   CallBaz("W0"), Copy("ResOfBaz", "W0"), Store("ResOfBaz", "FrameIndex") >>

PopulateExit == << Load("ReloadedVar2", "FrameIndex"), Copy("W0", "ReloadedVar2"), CallBar("W0"),
                   Ret >>

MIRCode == [EntryBB |-> PopulateEntry, ThenBB |-> PopulateThen, ExitBB |-> PopulateExit]

\* EntryBB->addSuccessor(EntryBB), where EntryBB branches to ThenBB
YourTurnCFG == [EntryBB |-> {"EntryBB", "ExitBB"}, ThenBB |-> {"ExitBB"}, ExitBB |-> {}]

SolutionCFG == [EntryBB |-> {"ThenBB", "ExitBB"}, ThenBB |-> {"ExitBB"}, ExitBB |-> {}]

MachineFoo(cfg) == [layout |-> MIRLayout, code |-> MIRCode, successors |-> cfg,
                    register |-> MIRRegisters, physical |-> {"W0", "W1"},
                    parameters |-> MIRLiveIns, slots |-> MIRSlots, varSlot |-> "FrameIndex"]
===================================================================================
