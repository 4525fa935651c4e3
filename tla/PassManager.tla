------------------------------- MODULE PassManager -------------------------------
(***************************************************************************)
(* The programs of ch5, the drivers of ch3 and ch10/use_after_free, and    *)
(* run.sh, step by step.  A program (module Drivers) is the sequence of    *)
(* its statements; todo holds those still to be executed.  Running a pass  *)
(* manager puts what LLVM's managers then do in front of them, and         *)
(* leaving a scope the destructors.                                        *)
(***************************************************************************)
EXTENDS AnalysisManager, Drivers

CONSTANTS
  Programs,  \* the programs that run here
  Layout     \* the functions with a body, in the order of the module

ASSUME LayoutAssumption == Layout \in Seq(Fun) /\ Fun = { Layout[i] : i \in DOMAIN Layout }

ASSUME NoneAssumption == /\ None \notin Fun /\ None \notin Pass
                         /\ None \notin {"FAM", "MAM", "own", "PIC"} /\ None \notin {0, 1, 255}

ASSUME KeyAssumption == FunctionAnalyses \subseteq Key

ASSUME PassAssumption ==
  ModulePasses \cup {"SolutionConstantPropagation", "YourTurnConstantPropagation", "LocalConstProp",
                     "Promote", "InstCombine", "Hello", "PrintFnStats", "Dump"} \subseteq Pass

\* opt and run.sh are called with words, opt with groups of them: one pass
\* on the module, or passes on functions
ASSUME ProgramsAssumption == \A p \in Programs :
  /\ p.main \in {"your_first_pass", "your_first_pipeline", "RunPipeline", "opt", "run.sh",
                 "llvm_ir", "machineir", "use_after_free"}
  /\ p.main = "run.sh" => p.with \in Seq(STRING)
  /\ p.main = "opt" =>
       /\ p.with \in Seq(Seq(STRING))
       /\ \A i \in DOMAIN p.with :
            \/ Len(p.with[i]) = 1 /\ NamedPass(p.with[i][1]) \in ModulePasses
            \/ /\ p.with[i] # <<>>
               /\ \A j \in DOMAIN p.with[i] : NamedPass(p.with[i][j]) \notin ModulePasses \cup {None}

ASSUME BreaksAssumption == \A p \in Pass : \A o \in Outcomes(p) : o.breaks \in BOOLEAN

VARIABLES
  program,   \* the program that runs
  todo,      \* its statements still to be executed
  alive,     \* the objects that exist, in the order of their declaration
  reg,       \* reg[m][k]: what manager m was given for analysis k
  mpm, fpm,  \* the elements of the module and of the function pass manager
  asked,     \* the passes the module worked on is to have
  ran,       \* the passes each of its functions has had
  logged,    \* the passes the instrumentation reported on it
  broken,    \* its functions that do not verify
  damage,    \* some function of some module did not verify
  hadError,  \* hadError
  status,    \* the exit status, once a return statement has set it
  outcome    \* "running", "exited", "asserted" or "dangling"

wiring == <<reg, mpm, fpm>>
work   == <<asked, ran, logged, broken, damage>>
result == <<hadError, status>>
vars == <<program, todo, alive, wiring, work, result, outcome, avars>>

At(do) == outcome = "running" /\ todo # <<>> /\ todo[1].do = do
Now  == todo[1]
Step == todo' = Tail(todo) /\ UNCHANGED <<program, outcome>>

\* where it must be so, or the program ends there
Proceed(ok, otherwise) == /\ todo' = Tail(todo) /\ UNCHANGED program
                          /\ outcome' = IF ok THEN outcome ELSE otherwise

Object(o) == \E i \in DOMAIN alive : alive[i] = o
Unregistered == [m \in Manager |-> [k \in Analysis |-> None]]
Given == [f \in Fun |-> [a \in Aspect |-> 0]]
Untouched == [f \in Fun |-> <<>>]

Init == /\ AInit
        /\ program \in Programs /\ todo = Code(program)
        /\ alive = <<>>
        /\ reg = Unregistered /\ mpm = <<>> /\ fpm = <<>>
        /\ asked = <<>> /\ ran = Untouched /\ logged = {} /\ broken = {} /\ damage = FALSE
        /\ hadError = FALSE /\ status = None /\ outcome = "running"

(***************************************************************************)
(* The statements of a program                                             *)
(***************************************************************************)
\* a variable comes to life; a manager's registry is empty
Construct == /\ At("declare") /\ Step
             /\ alive' = Append(alive, Now.obj)
             /\ reg' = IF Now.obj \in Manager
                       THEN [reg EXCEPT ![Now.obj] = Unregistered[Now.obj]] ELSE reg
             /\ mpm' = IF Now.obj = "MPM" THEN <<>> ELSE mpm
             /\ fpm' = IF Now.obj = "FPM" THEN <<>> ELSE fpm
             /\ UNCHANGED <<work, result, avars>>

\* parseIRFile, parseAssemblyString, CloneModule, or a module builder
Obtain == /\ At("module") /\ Step
          /\ alive' = IF Object(Now.obj) THEN alive ELSE Append(alive, Now.obj)
          /\ asked' = Now.asked /\ ran' = Untouched /\ logged' = {}
          /\ broken' \in IF Now.sound THEN {{}} ELSE SUBSET Fun
          /\ damage' = (damage \/ broken' # {})
          /\ version' = Given
          /\ UNCHANGED <<wiring, result, cache, proxied>>

\* there is no module
ObtainNull == /\ At("module") /\ Now.orelse # <<>>
              /\ todo' = Now.orelse /\ status' = Now.status
              /\ UNCHANGED <<program, outcome, alive, wiring, work, hadError, avars>>

\* registerPass: the first registration of an analysis counts
RegisterPass == /\ At("register") /\ Step
                /\ reg' = [reg EXCEPT ![Now.mgr][Now.key] = IF @ = None THEN Now.by ELSE @]
                /\ UNCHANGED <<alive, mpm, fpm, work, result, avars>>

AddPass == /\ At("add") /\ Step
           /\ mpm' = Append(mpm, Now.elem)
           /\ UNCHANGED <<alive, reg, fpm, work, result, avars>>

AddFunctionPass == /\ At("addToFPM") /\ Step
                   /\ fpm' = Append(fpm, Now.pass)
                   /\ UNCHANGED <<alive, reg, mpm, work, result, avars>>

MoveFPM == /\ At("moveFPM") /\ Step
           /\ mpm' = Append(mpm, Managed(fpm)) /\ fpm' = <<>>
           /\ UNCHANGED <<alive, reg, work, result, avars>>

Run == /\ At("run")
       /\ todo' = ModuleManagerRun(mpm, Layout) \o Tail(todo)
       /\ UNCHANGED <<program, outcome, alive, wiring, work, result, avars>>

RunLegacy == /\ At("runLegacy")
             /\ todo' = LegacyManagerRun(Now.passes, Layout) \o Tail(todo)
             /\ UNCHANGED <<program, outcome, alive, wiring, work, result, avars>>

\* mutant: only the last verification counts
MutVerify == /\ At("verify")
             /\ Proceed(Object("Context"), "dangling")
             /\ hadError' = (broken # {})
             /\ UNCHANGED <<alive, wiring, work, status, avars>>

\* printing or verifying a module reads types of its context
Verify == /\ At("verify")
          /\ Proceed(Object("Context"), "dangling")
          /\ hadError' = (hadError \/ broken # {})
          /\ UNCHANGED <<alive, wiring, work, status, avars>>

Return == /\ At("return") /\ Step
          /\ status' = IF hadError THEN 1 ELSE 0
          /\ UNCHANGED <<alive, wiring, work, hadError, avars>>

\* a script ends before it calls anything
ExitWith == /\ At("exit") /\ Step
            /\ status' = Now.status
            /\ UNCHANGED <<alive, wiring, work, hadError, avars>>

ReturnEarly == /\ At("mayReturn")
               /\ status' = Now.status /\ todo' = <<EndScope(0)>>
               /\ UNCHANGED <<program, outcome, alive, wiring, work, hadError, avars>>

GoOn == At("mayReturn") /\ Step /\ UNCHANGED <<alive, wiring, work, result, avars>>

Exit == /\ outcome = "running" /\ todo = <<>>
        /\ outcome' = "exited"
        /\ UNCHANGED <<program, todo, alive, wiring, work, result, avars>>

(***************************************************************************)
(* What the pass managers do: an analysis is asked for, or a pass runs.    *)
(***************************************************************************)
\* the instrumentation is asked for before any other analysis is computed;
\* "This analysis pass was not registered prior to being queried"
Registered(m, k) == reg[m][k] # None /\ reg[m]["PassInstrumentation"] # None

Query == /\ At("query")
         /\ Proceed(Registered(Now.mgr, Now.key), "asserted")
         /\ CASE Now.mgr = "FAM" -> GetResult(Now.fun, Now.key)
              [] Now.key = "FunctionProxy" -> GetProxy
              [] OTHER -> UNCHANGED avars
         /\ UNCHANGED <<alive, wiring, work, result>>

Log(m, p, f) == IF m \in Manager /\ reg[m]["PassInstrumentation"] = "PIC"
                THEN {<<p, f>>} ELSE {}

\* the legacy manager knows nothing of the analysis managers
Unmanaged(f, o) == /\ version' = [version EXCEPT ![f] = Touch(@, o)]
                   /\ UNCHANGED <<cache, proxied>>

\* mutant: only the adaptor invalidates, once all passes of the group have run
MutApply(m, f, o) == IF m = "MAM" THEN RunOn(f, o) ELSE Unmanaged(f, o)

Apply(m, f, o) == IF m = "Legacy" THEN Unmanaged(f, o) ELSE RunOn(f, o)

RunFunctionPass ==
  /\ At("pass") /\ Now.fun \in Fun /\ Step
  /\ \E o \in Outcomes(Now.pass) :
       /\ Apply(Now.mgr, Now.fun, o)
       /\ broken' = IF o.breaks THEN broken \cup {Now.fun} ELSE broken
       /\ damage' = (damage \/ o.breaks)
  /\ ran' = [ran EXCEPT ![Now.fun] = Append(@, Now.pass)]
  /\ logged' = logged \cup Log(Now.mgr, Now.pass, Now.fun)
  /\ UNCHANGED <<alive, wiring, asked, result>>

RunModulePass ==
  /\ At("pass") /\ Now.fun = None /\ Step
  /\ \E o \in Outcomes(Now.pass) :
       IF Now.mgr = "Legacy"
       THEN /\ version' = [f \in Fun |-> Touch(version[f], o)]
            /\ UNCHANGED <<cache, proxied>>
       ELSE RunOnModule(o)
  /\ ran' = [f \in Fun |-> Append(ran[f], Now.pass)]
  /\ logged' = logged \cup UNION { Log(Now.mgr, Now.pass, f) : f \in Fun }
  /\ UNCHANGED <<alive, wiring, asked, broken, damage, result>>

(***************************************************************************)
(* The end of a scope: its objects die, the last declared first.  The      *)
(* proxy the module manager holds clears the function manager as it dies,  *)
(* and a module leaves its context.                                        *)
(***************************************************************************)
Dying == alive[Len(alive)]

Needs == CASE Dying = "MAM" /\ proxied -> {reg["MAM"]["FunctionProxy"]}
           [] Dying \in Modules        -> {"Context"}
           [] OTHER                   -> {}

Destroy == /\ At("leave") /\ Len(alive) > Now.keep
           /\ outcome' = IF \A o \in Needs : Object(o) THEN outcome ELSE "dangling"
           /\ alive' = SubSeq(alive, 1, Len(alive) - 1)
           /\ CASE Dying = "FAM" -> DropResults
                [] Dying = "MAM" -> DropProxy
                [] OTHER -> UNCHANGED avars
           /\ UNCHANGED <<program, todo, wiring, work, result>>

\* mutant: nothing is destroyed
MutLeaveNothing == At("leave") /\ Step /\ UNCHANGED <<alive, wiring, work, result, avars>>

LeaveScope == /\ At("leave") /\ Len(alive) <= Now.keep /\ Step
              /\ UNCHANGED <<alive, wiring, work, result, avars>>

Terminated == outcome # "running" /\ UNCHANGED vars

Next == \/ Construct \/ Obtain \/ ObtainNull \/ RegisterPass
        \/ AddPass \/ AddFunctionPass \/ MoveFPM \/ Run \/ RunLegacy
        \/ Verify \/ Return \/ ReturnEarly \/ GoOn \/ ExitWith \/ Exit
        \/ Query \/ RunFunctionPass \/ RunModulePass
        \/ Destroy \/ LeaveScope \/ Terminated

Spec == Init /\ [][Next]_vars

(***************************************************************************)
(* Properties                                                              *)
(***************************************************************************)

(* The types of the variables. *)
TypeOK ==
  /\ ATypeOK
  /\ alive \in Seq(Objects) /\ Len(alive) <= 11
  /\ \A m \in Manager : DOMAIN reg[m] = Analysis
  /\ \A f \in Fun : ran[f] \in Seq(Pass)
  /\ logged \subseteq Pass \X Fun /\ broken \subseteq Fun
  /\ {hadError, damage} \subseteq BOOLEAN /\ status \in {None, 0, 1, 255}
  /\ outcome \in {"running", "exited", "asserted", "dangling"}

(* No program asks an analysis manager for what was not registered with it:  *)
(* "this one is not as implicit, we ask for it with the call to the adaptor  *)
(* below" (your_first_pass/main.cpp:121), whose function manager gets along  *)
(* without an instrumentation only because no pass and no function pass      *)
(* manager asks it for anything.                                             *)
RegisteredBeforeQueried == outcome # "asserted"

(* "the destructor needs to be called in the right order otherwise it will   *)
(* crash" (your_first_pass/main.cpp:115): no object is used after it died,   *)
(* except in the program of ch10 that has just this bug, which always meets  *)
(* it.                                                                       *)
UsedWhileAlive ==
  /\ outcome = "dangling" => program.main = "use_after_free"
  /\ program.main = "use_after_free" => outcome # "exited"

(* The exit status reports a function that does not verify, in whichever of  *)
(* the runs it was met (hadError of your_first_pass/main.cpp:110 and 140).   *)
StatusTellsDamage ==
  /\ program.main \in {"your_first_pass", "your_first_pipeline", "llvm_ir", "machineir"}
  /\ outcome = "exited" /\ status # 255
  => (status = 1 <=> damage)

(* Every pass the instrumentation is enabled for is reported                 *)
(* (RunPipeline.cpp:58: "`true` enables debug logging to stderr for each     *)
(* pass").                                                                   *)
EachPassLogged ==
  Object("PIC") => \A f \in Fun : \A i \in DOMAIN ran[f] : <<ran[f][i], f>> \in logged

(* The pipelines of your_first_pipeline log what they run, built either way  *)
(* ("And enable logging", solution/passPipelineWithNewPM.cpp:28).            *)
PipelinesLogged == program.main = "your_first_pipeline" => EachPassLogged

(* The managers keep the promise of module AnalysisManager, and no result    *)
(* outlives the module it is about.                                          *)
AnalysesManaged == ASpec

Pipe == INSTANCE Pipeline WITH finished <- outcome = "exited", ModulePass <- ModulePasses

(* Every function gets the passes asked for, in their order ("in this        *)
(* order", your_first_pipeline/README.md:8), from both managers and both     *)
(* builds, before the program verifies it and goes on; run.sh is asked by -p *)
(* or by the variable it says it respects (run.sh:5, 34-35).                 *)
PipelineAsAsked == Pipe!PSpec
==================================================================================
