--------------------------------- MODULE Drivers ---------------------------------
(***************************************************************************)
(* The main functions that create managers, contexts and modules, as       *)
(* sequences of statements, and what LLVM's pass managers make of a        *)
(* pipeline.  FAM and MAM are the analysis managers of functions and of    *)
(* the module, FPM and MPM the pass managers, PIC the instrumentation      *)
(* callbacks; what a statement says otherwise is in its fields.            *)
(***************************************************************************)
EXTENDS OptScript, SequencesExt

Manager  == {"FAM", "MAM"}
Analysis == {"PassInstrumentation", "DominatorTree", "FnStats", "ModuleProxy",
             "FunctionProxy", "ProfileSummary"}
Modules  == {"MyModule", "ModuleForLegacyPM", "ModuleForNewPM", "CurModule"}
Objects  == Modules \cup {"Context", "FAM", "MAM", "LAM", "CGAM", "MPM", "FPM", "LegacyPM",
                         "PIC", "SI", "PB", "MMIWP"}

(***************************************************************************)
(* Statements                                                              *)
(***************************************************************************)
Declare(o)         == [do |-> "declare", obj |-> o]
\* o becomes a module, which is to have the passes asked for
Module(o, passes)  == [do |-> "module", obj |-> o, asked |-> passes,
                       orelse |-> <<>>, status |-> None, sound |-> TRUE]
\* there may be none: the program goes on with other statements
ModuleOrElse(o, passes, statements, code) ==
  [Module(o, passes) EXCEPT !.orelse = statements, !.status = code]
Register(m, k, by) == [do |-> "register", mgr |-> m, key |-> k, by |-> by]
Add(elem)          == [do |-> "add", elem |-> elem]
AddToFPM(p)        == [do |-> "addToFPM", pass |-> p]
AddMovedFPM        == [do |-> "moveFPM"]
RunMPM             == [do |-> "run"]
RunLegacyPM(ps)    == [do |-> "runLegacy", passes |-> ps]
VerifyModule       == [do |-> "verify"]
EndScope(n)        == [do |-> "leave", keep |-> n]
ReturnHadError     == [do |-> "return"]
Leave(code)        == [do |-> "exit", status |-> code]
\* something is missing, or not: with a status, main returns
MayReturn(code)    == [do |-> "mayReturn", status |-> code]

\* the elements of a module pass manager
ModuleElem(p) == [kind |-> "module", passes |-> <<p>>]
Adaptor(p)    == [kind |-> "function", passes |-> <<p>>]
Managed(ps)   == [kind |-> "manager", passes |-> ps]

(***************************************************************************)
(* The passes: what each asks the analysis managers for, what it changes   *)
(* and reports.                                                            *)
(***************************************************************************)
ModulePasses == {"CountGlobals", "AlwaysInliner"}

Requires(p) == CASE p \in {"Promote", "InstCombine"} -> <<"DominatorTree">>
                 [] p = "PrintFnStats"  -> <<"FnStats">>
                 [] p = "AlwaysInliner" -> <<"FunctionProxy", "ProfileSummary">>
                 [] OTHER -> <<>>

FunctionAnalyses == {"PassInstrumentation", "ModuleProxy", "DominatorTree", "FnStats"}
NeverInvalid     == {"PassInstrumentation", "ModuleProxy"}

Computed(k) == CASE k = "DominatorTree" -> {"cfg"}
                 [] k = "FnStats"       -> {"cfg", "insts"}
                 [] OTHER               -> {}

Outcome(changes, preserves) ==
  [changes |-> changes, preserves |-> preserves, breaks |-> FALSE]
AllPreserved == Outcome({}, FunctionAnalyses)
CFGPreserved == Outcome({"insts"}, NeverInvalid \cup {"DominatorTree"})
NonePreserved == Outcome({"cfg", "insts"}, {})

SolutionPass == {AllPreserved, CFGPreserved}
\* the reader's pass, written or not yet right: what it leaves may not verify
YourTurnPass == {AllPreserved, CFGPreserved, [CFGPreserved EXCEPT !.breaks = TRUE]}
ReadOnlyPass == {AllPreserved}

\* mutant: what has changed is reported as preserved
MutLocalConstPropPass == {AllPreserved, [AllPreserved EXCEPT !.changes = {"insts"}]}
LocalConstPropPass == {AllPreserved, Outcome({"insts"}, NeverInvalid)}

PassOutcomes(p) ==
  CASE p = "SolutionConstantPropagation" -> SolutionPass
    [] p = "YourTurnConstantPropagation" -> YourTurnPass
    [] p = "LocalConstProp" -> LocalConstPropPass
    [] p \in {"Hello", "PrintFnStats", "Dump", "CountGlobals"} -> ReadOnlyPass
    [] p \in {"Promote", "InstCombine"} -> {AllPreserved, CFGPreserved}
    [] p = "AlwaysInliner" -> {AllPreserved, NonePreserved}

(***************************************************************************)
(* What the pass managers do with a pipeline on a module whose functions   *)
(* are fs: the analyses they and the passes ask for, and the passes.       *)
(***************************************************************************)
Ask(m, f, k)     == [do |-> "query", mgr |-> m, fun |-> f, key |-> k]
PassOn(p, f, m)  == [do |-> "pass", pass |-> p, fun |-> f, mgr |-> m]
Each(s, Op(_))   == FlattenSeq([i \in DOMAIN s |-> Op(s[i])])

PassWithNeeds(p, f, m) ==
  [i \in DOMAIN Requires(p) |-> Ask(IF f = None THEN "MAM" ELSE "FAM", f, Requires(p)[i])]
  \o <<PassOn(p, f, m)>>

FunctionManagerRun(ps, f) ==
  <<Ask("FAM", f, "PassInstrumentation")>>
  \o Each(ps, LAMBDA p : PassWithNeeds(p, f, "FAM"))

AdaptorRun(elem, fs) ==
  <<Ask("MAM", None, "FunctionProxy"), Ask("MAM", None, "PassInstrumentation")>>
  \o Each(fs, LAMBDA f : IF elem.kind = "manager" THEN FunctionManagerRun(elem.passes, f)
                         ELSE PassWithNeeds(elem.passes[1], f, "MAM"))

ModuleManagerRun(elems, fs) ==
  <<Ask("MAM", None, "PassInstrumentation")>>
  \o Each(elems, LAMBDA e : IF e.kind = "module" THEN PassWithNeeds(e.passes[1], None, "MAM")
                            ELSE AdaptorRun(e, fs))

(***************************************************************************)
(* The legacy pass manager serves consecutive function passes function by  *)
(* function.                                                               *)
(***************************************************************************)
LegacyBatch(ps, fs) ==
  Each(fs, LAMBDA f : [i \in DOMAIN ps |-> PassOn(ps[i], f, "Legacy")])

LegacyManagerRun(ps, fs) ==
  LET upto == { i \in DOMAIN ps : ps[i] \in ModulePasses }
      n    == IF upto = {} THEN Len(ps) ELSE (CHOOSE i \in upto : \A j \in upto : i <= j) - 1
  IN  LegacyBatch(SubSeq(ps, 1, n), fs)
      \o [i \in 1 .. Len(ps) - n |-> PassOn(ps[n + i], None, "Legacy")]

(***************************************************************************)
(* your_first_pass/main.cpp: both passes, under both managers              *)
(***************************************************************************)
LegacyPart(ps) ==
  <<Module("ModuleForLegacyPM", ps), Declare("LegacyPM"), RunLegacyPM(ps), VerifyModule>>

\* mutant: the module manager is declared first, and dies last
MutManagers == <<Declare("MAM"), Declare("FAM")>>

\* "CAREFUL the order of the manager is important here"
Managers == <<Declare("FAM"), Declare("MAM")>>

Proxies == <<Register("MAM", "FunctionProxy", "FAM"), Register("FAM", "ModuleProxy", "MAM")>>

\* mutant: the pass is put in a function pass manager first
MutNewPart(ps) ==
  <<Module("ModuleForNewPM", ps)>> \o Managers
  \o <<Register("MAM", "PassInstrumentation", "own")>> \o Proxies \o <<Declare("MPM")>>
  \o [i \in DOMAIN ps |-> Add(Managed(<<ps[i]>>))] \o <<RunMPM, VerifyModule>>

NewPart(ps) ==
  <<Module("ModuleForNewPM", ps)>> \o Managers
  \o <<Register("MAM", "PassInstrumentation", "own")>> \o Proxies \o <<Declare("MPM")>>
  \o [i \in DOMAIN ps |-> Add(Adaptor(ps[i]))] \o <<RunMPM, VerifyModule>>

Solution == <<"SolutionConstantPropagation">>
YourTurn(ready) == IF ready THEN <<"YourTurnConstantPropagation">> ELSE <<>>

FirstPassMain(legacyReady, newReady) ==
  << Declare("Context"), ModuleOrElse("MyModule", <<>>, <<EndScope(0)>>, 255) >>
  \o LegacyPart(Solution) \o NewPart(Solution) \o <<EndScope(2)>>
  \o LegacyPart(YourTurn(legacyReady)) \o NewPart(YourTurn(newReady)) \o <<EndScope(2)>>
  \o <<ReturnHadError, EndScope(0)>>

(***************************************************************************)
(* your_first_pipeline: three optimizations "in this order" (README.md),   *)
(* under both managers, the new one built in one of two ways               *)
(***************************************************************************)
ThreeOptimizations == <<"Promote", "InstCombine", "AlwaysInliner">>

SolutionLegacyPipeline ==
  <<Declare("LegacyPM"), RunLegacyPM(<<"Promote", "InstCombine", "AlwaysInliner">>), EndScope(3)>>
YourTurnLegacyPipeline == <<>>

\* what a PassBuilder with instrumentation callbacks pic registers
RegisterFunctionAnalyses(pic) ==
  <<Register("FAM", "PassInstrumentation", pic), Register("FAM", "DominatorTree", "own")>>
RegisterModuleAnalyses(pic) ==
  <<Register("MAM", "PassInstrumentation", pic), Register("MAM", "ProfileSummary", "own")>>
\* mutant: the function manager is left to the PassBuilder
MutLogging == <<Register("MAM", "PassInstrumentation", "PIC")>>

\* "And enable logging."
Logging == <<Register("MAM", "PassInstrumentation", "PIC"), Register("FAM", "PassInstrumentation", "PIC")>>

\* mutant: the #else is missing
MutFunctionPasses(useModuleMgr) ==
  (IF useModuleMgr THEN <<Add(Adaptor("Promote")), Add(Adaptor("InstCombine"))>> ELSE <<>>)
  \o <<AddToFPM("Promote"), AddToFPM("InstCombine")>>

FunctionPasses(useModuleMgr) ==
  IF useModuleMgr THEN <<Add(Adaptor("Promote")), Add(Adaptor("InstCombine"))>>
  ELSE <<AddToFPM("Promote"), AddToFPM("InstCombine")>>

NewPipeline(useModuleMgr) ==
  Managers \o <<Declare("PIC"), Declare("SI")>> \o Logging \o Proxies
  \o <<Declare("MPM"), Declare("FPM"), Declare("PB")>>
  \o RegisterFunctionAnalyses("own") \o RegisterModuleAnalyses("own")
  \o FunctionPasses(useModuleMgr)
  \o <<AddMovedFPM, Add(ModuleElem("AlwaysInliner")), RunMPM, EndScope(3)>>

OnClone(ps, pipeline) ==
  <<Module("ModuleForLegacyPM", ps)>> \o pipeline \o <<VerifyModule, EndScope(2)>>

PipelineMain(useModuleMgr) ==
  << Declare("Context"), ModuleOrElse("MyModule", <<>>, <<EndScope(0)>>, 255) >>
  \o OnClone(ThreeOptimizations, SolutionLegacyPipeline)
  \o OnClone(ThreeOptimizations, NewPipeline(useModuleMgr))
  \o OnClone(<<>>, YourTurnLegacyPipeline)
  \o OnClone(ThreeOptimizations, NewPipeline(useModuleMgr))
  \o <<ReturnHadError, EndScope(0)>>

(***************************************************************************)
(* my_first_pass_n_first_pipeline/RunPipeline.cpp; its PassBuilder has no  *)
(* callbacks                                                               *)
(***************************************************************************)
RunPipelineMain ==
  << Declare("Context"),
     ModuleOrElse("MyModule", <<"CountGlobals", "Hello", "PrintFnStats", "Dump">>, <<EndScope(0)>>, 1),
     Declare("PB"), Declare("LAM"), Declare("FAM"), Declare("CGAM"), Declare("MAM"),
     Register("FAM", "FnStats", "own"), Declare("PIC"), Declare("SI"),
     Register("MAM", "PassInstrumentation", "PIC") >>
  \o RegisterModuleAnalyses("own") \o RegisterFunctionAnalyses("own") \o Proxies
  \o << Declare("MPM"), Add(ModuleElem("CountGlobals")),
        Declare("FPM"), AddToFPM("Hello"), AddToFPM("PrintFnStats"), AddToFPM("Dump"),
        AddMovedFPM, RunMPM, ReturnHadError, EndScope(0) >>

(***************************************************************************)
(* opt with the plugins of MyFirstPass.cpp and of ch4/sccppass, for        *)
(* pipelines that alternate passes on the module and function(...) groups. *)
(* PassBuilder calls them back for analyses and for names it does not know.*)
(***************************************************************************)
RegisterPluginAnalyses == <<Register("FAM", "FnStats", "own")>>

HelloPass(name) == CASE name = "hello-func"           -> "Hello"
                     [] name = "fn-stats"             -> "PrintFnStats"
                     [] name = "module-count-globals" -> "CountGlobals"
                     [] OTHER                         -> None

LocalConstPropPlugin(name) == IF name = "local-constprop" THEN "LocalConstProp" ELSE None

\* the built-in names first, then the plugins
NamedPass(name) == CASE name = "mem2reg"          -> "Promote"
                     [] name = "always-inline"    -> "AlwaysInliner"
                     [] HelloPass(name) # None    -> HelloPass(name)
                     [] OTHER                     -> LocalConstPropPlugin(name)

AddGroup(ps) == IF ps[1] \in ModulePasses THEN <<Add(ModuleElem(ps[1]))>>
                ELSE [i \in DOMAIN ps |-> AddToFPM(ps[i])] \o <<AddMovedFPM>>

NamedPasses(groups) ==
  [i \in DOMAIN groups |-> [j \in DOMAIN groups[i] |-> NamedPass(groups[i][j])]]

OptMain(groups, wanted) ==
  LET passes == NamedPasses(groups)
  IN  << Declare("Context"),
         ModuleOrElse("MyModule", FlattenSeq(NamedPasses(wanted)), <<EndScope(0)>>, 1),
         Declare("PIC"), Declare("SI"), Declare("PB"), Declare("LAM"), Declare("FAM"),
         Declare("CGAM"), Declare("MAM") >>
      \o RegisterModuleAnalyses("PIC") \o RegisterFunctionAnalyses("PIC") \o RegisterPluginAnalyses
      \o Proxies
      \o <<Declare("MPM")>> \o Each(passes, AddGroup) \o <<RunMPM, ReturnHadError, EndScope(0)>>

(***************************************************************************)
(* run.sh of my_first_pass_n_first_pipeline.  With --legacy, opt gets the  *)
(* option of a pass that the plugin does not have, and refuses, as it      *)
(* refuses a pipeline of names that it does not know.                      *)
(***************************************************************************)
PipelineGroups(text) ==
  CASE text = "default" -> <<<<"module-count-globals">>, <<"hello-func", "fn-stats">>>>
    [] NamedPass(text) # None -> <<<<text>>>>
    [] OTHER -> <<>>

ScriptMain(argv, env, host) ==
  LET set == RunScript(argv, env, host)
  IN  IF set.exit # None THEN <<Leave(set.exit)>>
      ELSE IF set.LEGACY_PIPE # None \/ PipelineGroups(set.PIPELINE) = <<>> THEN <<Leave(1)>>
      ELSE OptMain(PipelineGroups(set.PIPELINE), PipelineGroups(Asked(argv, env)))

(***************************************************************************)
(* The drivers of the IR builders: ch3/llvm_ir/main.cpp, and               *)
(* ch10/use_after_free, whose builder has the context as a local variable  *)
(***************************************************************************)
BuiltModule(orelse, code) ==
  [ModuleOrElse("CurModule", <<>>, orelse, code) EXCEPT !.sound = FALSE]

BuildMain ==
  LET End == <<ReturnHadError, EndScope(0)>>
      Second == <<EndScope(1), BuiltModule(End, None), VerifyModule>> \o End
  IN  <<Declare("Context"), BuiltModule(Second, None), VerifyModule>> \o Second

UseAfterFreeMain ==
  << Declare("CurModule"), Declare("Context"), [Module("CurModule", <<>>) EXCEPT !.sound = FALSE],
     EndScope(1), VerifyModule, ReturnHadError, EndScope(0) >>

(***************************************************************************)
(* ch3/machineir/main.cpp: the target or its registers W0 and W1 may not   *)
(* be there; each builder makes one function, which is verified.           *)
(***************************************************************************)
MachineMain ==
  LET Built == <<[Module("MyModule", <<>>) EXCEPT !.sound = FALSE], VerifyModule>>
  IN  << MayReturn(255), Declare("MMIWP"), Declare("Context"), Declare("MyModule"), MayReturn(255) >>
      \o Built \o Built \o <<ReturnHadError, EndScope(0)>>

(***************************************************************************)
(* A program is named by its main function and what its build or its       *)
(* command line adds.                                                      *)
(***************************************************************************)
Code(p) ==
  LET Has(w) == \E i \in DOMAIN p.with : p.with[i] = w
  IN  CASE p.main = "your_first_pass"     -> FirstPassMain(Has("legacy"), Has("new"))
        [] p.main = "your_first_pipeline" -> PipelineMain(Has("USE_MODULE_MGR"))
        [] p.main = "RunPipeline"         -> RunPipelineMain
        [] p.main = "opt"                 -> OptMain(p.with, p.with)
        [] p.main = "run.sh"              -> ScriptMain(p.with, p.env, p.host)
        [] p.main = "llvm_ir"             -> BuildMain
        [] p.main = "machineir"           -> MachineMain
        [] p.main = "use_after_free"      -> UseAfterFreeMain
==================================================================================
