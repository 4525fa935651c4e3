# TLA+ models of *LLVM Code Generation*'s programs

The repository holds the programs of a book: small LLVM passes and drivers, IR and Machine IR
builders, reader exercises with their solutions, and the scripts around them. There is no
single application; each program has a core of its own. This directory models the ones whose
core is an algorithm that rewrites a shared structure, a protocol between a script and the
disk, or a promise one representation makes about another. Paths below are relative to `src/`.

- [Inventory](#inventory): the parts, their state, how they interact, what is hard
- [Modules](#modules): which module stands for which code
- [Runs](#runs): what TLC checks, the bounds, the fairness
- [Theorems](#theorems): what TLAPS proves, from what, and along which argument
- [Findings](#findings) and [observations](#observations)
- [What is not modelled](#what-is-not-modelled) and the [plan](#plan)

## Inventory

| part | state | operations | hard behaviour | what makes it correct |
|---|---|---|---|---|
| reference constant propagation, `ch4/simple_cst_propagation/solution/populate_function.cpp` | the function; the traversal's position; `MadeChanges` | walk the blocks in reverse post-order, fold a binary operator of two constants, replace its uses, erase it | it erases from the list it walks; one traversal must suffice; a fold feeds the next through phis and branch conditions; shifts by the width, division by zero, the least integer divided by -1 | no dangling use, a valid iterator, completeness, an exact return value, an unchanged CFG, the same behaviour |
| its copy with a bug, `ch10/incorrect_optimization/populate_function.cpp` | the same | the same, dividing unchecked | the compiler dies on a program that may never divide | it dies only on undefined behaviour |
| local pass, `ch4/sccppass/ConstProp.cpp` | the function, the iterator, `changed` | walk the blocks in the order of the file, fold through `ConstantExpr::get`, report the analyses preserved | a use may be visited before its definition is folded; unreachable code is rewritten too; a wrong report leaves stale analyses | the same, and a sound `PreservedAnalyses` |
| comparison program, `ch4/simple_cst_propagation/main.cpp` | the module, the worklist, one `VMap` for all clonings, `hadError` | clone, run both implementations, verify both, exit | handles in `VMap` follow replacements made between two clonings; clones land in the module that is walked | both implementations see the same input; no false alarm |
| reduction, `ch10/incorrect_optimization/{main.cpp,check.sh,bugpoint-check.sh}` | the file being reduced, the driver's loop and exit status | drop something, run the driver, read its status | a reduction may drift to another failure; without a built driver every file looks interesting | what is kept still crashes; the result is minimal |
| setup script, `ch1/setup_env.sh` | the packages and binaries on the disk, `-e`, the exit status | probe, download, unpack, start installers | it fails or is interrupted between any two steps, and the next run finds what the last one left; `set +e` in a helper | nothing present is overwritten; status 0 means installed; a broken disk can be recovered |
| IR and Machine IR builders, `ch3/llvm_ir`, `ch3/machineir`, `ch10/use_after_free` | the function being built | create blocks, registers, instructions, edges | a call may change W0; declared edges and branches must agree; the context may die before the module | the code does what the C function in their comments does |
| passes and pass managers, `ch5/your_first_pass`, `ch5/my_first_pass_n_first_pipeline/MyFirstPass.cpp` | what is registered with each analysis manager, the cached results, the objects alive, `hadError` | register, ask for an analysis, run a pass, invalidate, verify, destroy | an analysis nobody registered; a result that outlives what it is about; managers that refer to each other and die in turn; one error flag for several runs | no unregistered or stale analysis, no object used after its death, an exit status that tells |
| pipelines and their runners, `ch5/your_first_pipeline`, `RunPipeline.cpp`, `run.sh`, `opt` with the plugins | the elements of the module and function pass managers, the passes each function has had, what the instrumentation reported; the script's settings | add passes, move one manager into another, run, report; parse a command line | one manager goes pass by pass, another function by function; the first registration counts; options swallow the next word | every function gets the passes asked for, each once and in order; what runs is logged |

How they interact: the comparison program calls two propagations on the two halves of a clone
pair, and they share the `VMap` without knowing it. The driver of ch10 calls the buggy
propagation; `check.sh` reads only its exit status; `llvm-reduce` reads only that of
`check.sh`. The main functions of ch5 wire passes, analyses and managers together, and LLVM's managers
call them back; `run.sh` hands its pipeline to `opt`, which asks the plugins of `MyFirstPass.cpp` and
`ch4/sccppass` for the names it does not know. The runs of `setup_env.sh` talk to each other through the disk alone. The builders
share one source program, the C function `foo` of their comments. Nothing in the repository
runs two threads; what interleaves is a program with its interruption, a script with its user,
and a loop with the structure it rewrites.

## Modules

### The propagations

- **`IR`**: the part of LLVM's IR that the passes rewrite. A function is `layout` (blocks in
  the order of the file), `rpo` (reverse post-order from the entry), `list` (each block's
  instructions) and `code` (the instructions that are still there). `ReplaceAllUsesWith`,
  `EraseFromParent` and the relation `Refines` (what may stand for what when poison and
  undefined behaviour are around) are LLVM's, external to the repository. The meaning of an
  operator is the constant `Eval`; `EvalAssumption` says that it is monotone in `Refines`.
- **`Propagate`**: the abstract specification. `code` changes only by giving all users of one
  binary operator of two constants a constant it may evaluate to, and deleting it. In what
  order, and when to stop, is open.
- **`ConstProp`**: `solutionConstantPropagation` and `buggyConstantPropagation`. One action
  per path through the loops: `SkipEmpty`, `StartTraversal`, `EnterBlock`, `FoldInstr`,
  `KeepInstr`, `AbortInstr` (an assertion of `APInt`), `LeaveBlock`, `Return`. The iterator `it`
  is on the position the early-increment range will give next, and moves before the body.
  `Promise` says that the module implements `Propagate`.
- **`LocalConstProp`**: `LocalConstPropPass::run`, with the position of `I` and the
  `PreservedAnalyses` returned. It implements `Propagate` too.
- **`CoExec`**: what `Propagate` does to meaning. After any number of folds the given function
  (`src`) and the rewritten one (`tgt`) execute side by side on the same arguments, phis and
  branches included.
- **`FoldRules`**: the lambdas of both propagations, `APInt`'s operations (C's division, shifts
  by the width or more, assertions on a zero divisor), `ConstantExpr::get`, and the operators'
  meaning in the language reference, on integers of `Width` bits. **`Rpo`**: the reverse
  post-order. Both use what the prover cannot (`Bitwise`, `RECURSIVE`), so they enter the other
  modules only as values of constants.
- **`MCFunctions`**: the functions of the runs: the diamond of the default `InputIR` of
  `main.cpp`, a loop, unreachable code that uses itself, a chain of blocks in two file orders,
  straight lines, a declaration, and `@test` of `ch4/sccppass/tests/Inputs/sample.ll`.

### The programs around them

- **`CloneHarness`**: `main` of ch4. `vmap` is `VMap`: `CloneFunction` reads and extends it
  (with the clone's instructions, and with each constant it meets for the first time, which then
  stands for itself), and both implementations' replacements move its entries, as `ValueMap` and its
  weak handles do. The reader's implementation may do any part of the folds `MineFolds` allows, in any order.
- **`Reduce`**: the driver's loop over the functions of a file, `check.sh` (with `built` saying
  whether there is a driver to call: the shell's 127 passes its test) and `llvm-reduce`.
- **`SetupEnv`**: one action per step of the script; every step that may fail has its failing
  branches, `Fail` ends the run only under `-e`, `Interrupt` may come between any two steps, and
  what was being written is then cut off. The user's side (`AddToPath`, `RemovePackage`,
  `RemoveBinary`, `FinishInstaller`) happens between runs, the installers at any time.

### Passes, managers and pipelines

- **`AnalysisManager`**: what LLVM's two analysis managers promise and keep. `version` counts, per
  function, the changes to each aspect of it (its CFG, its instructions); `cache` holds a result
  with the versions it was computed from; `proxied` says whether the module manager holds the
  proxy through which an invalidation reaches the functions' results. `FreshResults` is the promise.
- **`Pipeline`**: the abstract specification of a pipeline: every function gets what was asked for,
  each pass once and in order; a pass over the module waits for all functions. Function by
  function or pass by pass is left open.
- **`OptScript`**: `run.sh` up to its call of `opt`: the defaults, the loop over the arguments, the
  last positional word as the input, what the script looks at before it goes on. `Asked` says by
  positions, without the loop, and with the environment as the help text promises it, which
  pipeline the user asks for.
- **`Drivers`**: the main functions, as sequences of statements (declare, register, add, run, verify,
  leave a scope, return), for every build option and every state of the reader's exercises; the
  passes by what they ask for, may change and report; and what LLVM's managers make of a
  pipeline, as sequences of queries and passes.
- **`PassManager`**: executes a program of `Drivers` statement by statement. `todo` is the rest of
  the program; `Run` puts the managers' work in front of it, `Destroy` ends one object's life.
  It implements both `AnalysisManager` (`AnalysesManaged`) and `Pipeline` (`PipelineAsAsked`).
  The drivers of `ch3/llvm_ir`, `ch3/machineir` and `ch10/use_after_free` run here too.

### The builders

- **`Foo`**: the C function of the builders' comments, line by line; its observable behaviour
  is the sequence of its calls.
- **`Lowered`**: a machine that executes the code a builder made, where a call leaves what it
  likes in the physical registers. `LowersFoo` maps its state to `Foo`'s.
- **`BuiltIR`**, **`MachineIR`**: the code built by the three IR builders (which agree) and by
  the two Machine IR builders (which differ in the CFG they declare), one operator per block.

`MC*` modules give the constants their values; `*Proofs` modules hold theorems
(`PropagateProofs` those of `Propagate` and `CoExec`, `PassManagerProofs` those of `AnalysisManager`
and `PassManager`, `LoweredProofs` those of `Lowered` with the code of both builders). Definitions
named `Mut*` are deliberate mistakes, one next to the definition each would replace; they say
which mistake a property would catch and are used nowhere else.

## Runs

Each run is `tlc -config <run>.cfg <module>.tla`; deadlock is checked in all of them, and a
program that is over has an explicit step that changes nothing.

| run | module | states | shows |
|---|---|---|---|
| `constprop` | `MCConstProp` | 19294 | Both sets of rules, ch4's and ch10's, on every function: `Complete` (one traversal leaves nothing its rules could fold), `NoDanglingUse`, `IteratorValid`, `MadeChangesExact`, `CFGPreserved`, `NoCrash` (the solution), `CrashOnlyOnUB` (the copy of ch10), `Termination`, and `Promise` (it implements `Propagate`) |
| `coexec` | `MCCoExec` | 36792 | `SameBehaviour` after any sequence of sound folds, executed on every argument |
| `localconstprop` | `MCLocalConstProp` | 4962 | The local pass: `PreservedSound`, `LeftoverExplained` (what could still be folded stands before a definition folded later), and the properties it shares with the traversal |
| `setupenv` | `MCSetupEnv` | 32061 | `NeverOverwritten`, `ZeroMeansInstalled`, and `Recovers` under the user's fairness |
| `cloneharness` | `MCCloneHarness` | 2598 | `SameInput`, `NoFalseAlarm`, `ClonesNotCloned`, when the reader folds no more than the reference does |
| `reduce` | `MCReduce` | 2781 | `KeepsCrash`, `Minimal`, `Termination` |
| `lowered` | `MCLowered` | 1860 | `LowersFoo`, `FollowsCFG`, `Termination` for the IR builders and the Machine IR solution |
| `pipelines` | `MCPassManager` | 34129 | Every program of ch5 and the IR builders' drivers: `RegisteredBeforeQueried`, `UsedWhileAlive`, `FreshResults`, `StatusTellsDamage`, `PipelinesLogged`, and both refinements, `AnalysesManaged` and `PipelineAsAsked` |
| `setupexit`, `clonebetter`, `pipelinelog`, `pipelineenv` | | | violations: see [Findings](#findings) |

### Bounds

- **Integers have two bits** (`Width = 2`). Every boundary of the rules exists there: a shift
  by the width and past it, the least integer and -1, signed overflow, a zero divisor. `Lowered`
  uses two bits as well, with 3 in the place of `0xFF`: the sum can miss it, meet it and wrap
  round to it.
- **Functions have at most four blocks and nine instructions.** That is enough for a join with a
  phi, a back edge, an unreachable predecessor of a reachable phi, a file order that differs from
  the reverse post-order, and four folds in a row that feed each other. The shapes are fixed; the
  operators and operands vary.
- **Modules of `CloneHarness` have at most two functions.** Damage through `VMap` is done by one
  function and seen by the next.
- **`MaxFaults = 2`** in `SetupEnv`: the number of failures and interrupts over all runs. Two
  allow a broken package *and* a broken binary, or a second failure while recovering; the number
  of runs is not bounded.
- **`Reduce`** has four instructions, one that crashes and one that breaks the function, in up
  to three functions: enough for a candidate of each verdict, and for dropping to drift.
- **`PassManager`** has two functions with a body (pass by pass and function by function differ from
  two on), `opt` pipelines of a module pass and up to three function passes on either side of it,
  and command lines of up to three words, plus longer ones picked for an option that takes another
  option for its argument. A pass may change a function or not each time it runs. No function is
  `optnone`, which would skip passes. The user of `run.sh` sets `PIPELINE` together with `-p` in
  `pipelines`, and without it in `pipelineenv`, where the script does not do what it says.

### Fairness

The traversal of `ConstProp`, the reduction and the lowered code are sequential programs: weak
fairness of `Next` says that the process goes on. `SetupEnv` assumes that a script that runs
goes on (`WF_vars(pc # "prompt" /\ Script)`), and two things of the *user*, not of the code: the
script is run again (`WF_vars(Invoke)`), and a package or binary that is broken is removed
(`SF_vars`, because a running script keeps interrupting the chance). Without the removal
`Recovers` does not hold: every run takes the broken file for a whole one. `LocalConstProp`,
`CloneHarness`, `PassManager` and `CoExec` claim safety only and assume no fairness.

## Theorems

`tlapm <module>.tla` proves each of these for every value of the constants.

**`PropagateProofs`**: `PropagateInvariant` (`PSpec => []PInv`). `NoDanglingUse` is not inductive:
it does not say why the users of a deleted instruction no longer name it. `PInv` does: the code
is the *given* code with the constants of the deleted instructions substituted (`Rewritten`), an
instruction is deleted exactly when it has a replacement (`ErasedReplaced`), and each
replacement is one its operator may evaluate to on its substituted operands (`Justified`).
`ReplaceCode`, `SubstStep`, `LiveUse` and `LiveInstruction` are the lemmas about one
replacement; `PInvClosed` gives `NoDanglingUse`.

**`ConstPropProofs`**, for all functions and all folding rules that satisfy
`ComputationAssumption` (so for those of ch4 and of ch10): `TypeCorrect`, `NoDanglingUseHolds`,
`IteratorValidHolds`, `MadeChangesExactHolds`, `CompleteHolds`, `CFGPreservedHolds`,
`ImplementsPropagate`, and, from a hypothesis on the rules that the run `constprop` bears out on
two-bit words, `NoCrashHolds` and `CrashOnlyOnUBHolds`. The inductive invariant `CInv` adds to `PInv` the loop's control, that
only visited positions are deleted (`Untouched`, the reason the iterator stays valid, and the
place where the positions' being distinct is needed), that nothing visited can be folded
(`NoneLeft`), and what `madeChanges` means. The hard step is that a fold does not make an
instruction *behind* the traversal foldable (`FoldBehind`): it would have to use the folded
one, and `SSAAssumption` (definitions come before uses in reverse post-order, phis apart) puts it
ahead.

**`LocalConstPropProofs`**, without `SSAAssumption`, for blocks in any order:
`LocalTypeCorrect`, `LocalNoDanglingUse`, `LocalIteratorValid`, `LocalPreservedSound`,
`LocalLeftoverExplained`, `LocalImplementsPropagate`. Its `LInv` has `Leftover` where `CInv` has
`NoneLeft`: what is behind the loop and can be folded uses an instruction that was folded later
and stands after it.

Also in `PropagateProofs`: `XTypeCorrect` and `BehaviourPreserved`, the meaning of it all: for every
function without memory operations (`MemoryFree`), every argument and every behaviour of `Propagate`, the
rewritten function takes the same branches and returns the same value, or a defined one where
the given function returns poison, unless the given function's behaviour is undefined. The
invariant relates the two environments instruction by instruction: a surviving instruction's
value refines the original's, and the constant of a deleted one refines what the original has
computed (poison, until it has run); monotonicity of `Eval` carries that through operators, the
snapshot taken at a block's entry through phis. With `ImplementsPropagate` and
`LocalImplementsPropagate` it speaks of both passes.

**`SetupEnvProofs`**, for every set of systems and every number of faults and runs:
`SetupTypeCorrect`, `NeverOverwrittenHolds`, `ZeroMeansInstalledHolds`. The last needs to know,
at every line of the script, what a run without a failed command has achieved so far
(`SetupInv`): from the probe on a tool that is not needed is there, past the step that installs
a tool the tool is there unless a command failed, and while the script runs there is no status.

**`PassManagerProofs`**, for every module, every set of functions and passes, whatever a pass changes
each time it runs, and all programs of `Drivers`: each build option, each state of the exercises,
each `opt` pipeline and each command line of `run.sh`. The argument has three parts.

*The rules.* That a query finds its analysis registered is not a matter of one step: it is so
because `main` registered it many statements before. So the proof first says what a program must be
like, in terms of its statements alone (`WellWired`). There is one rule per kind of statement
(`DeclareRule`, `RegisterRule`, `RunRule`, `ReturnRule`, ...), over a *shadow* of the state:
which objects exist and in what order, what is registered, whether the module may be broken without
a verification having met it, whether any pass has run on it, how the exit status was set. The
functions, what the passes do and what the managers put in front of the program are not in it. Since
a program may leave on another path, what may follow is a set of pairs of a shadow and a rest of
the program that is closed under going on (`Closed`, `Fits`).

*Every program obeys the rules* (`ProgramsWired`). A block of statements `Leads` from a set of
shadows to another, and blocks compose, as in Hoare's logic; `Declares`, `Makes`, `Registers`,
`Works`, `Verifies`, `Leaves` are the rules for single statements. Each main function is led
through from the empty shadow: `FirstPassFits`, `PipelineFits`, `RunPipelineFits`, `OptFits` (for
pipelines of any length), `ScriptFits`, `BuildFits`, `MachineFits`, `UseAfterFreeFits`. For `run.sh`
the loop over the arguments is proved to end with an exit status of 0, 1 or none (`ParseExit`).

*The inductive invariant* `MInv`. Its heart is `Running`: the statements still to come are some
work of the managers (`Busy`), followed by a rest that fits a shadow which stands for the state
(`Matches`), or for a state with more objects while a scope is being left (`Leaving`). Around it:
what an object needs when it dies is older than it (`Ordered`), the proxy is only held while its
manager lives (`Wires`), and `hadError` or a broken function means damage (`Tells`). `MStep` has
one lemma per action; the work that `Run` puts in front is typed by `ModuleManagerRunType`, whose
folds over sequences (`FlattenSeq`) are handled by `FlattenSeqType`.

From `MInv`: `TypeCorrect`, `AlwaysRegistered`, `AlwaysAlive`, `DamageTold`, `AllLogged`; and
`ManagersKeepPromise`: every step is a step of `AnalysisManager` or leaves its variables alone. For
that module by itself, and any order of queries and passes, `FreshResultsHold`: no result is stale if
what a pass reports as preserved it leaves as it was (`ReportsSound`). That is not inductive either:
`AInv` adds that results exist only while the module manager holds the proxy, without which an
invalidation of the module would not reach them. The two together are `NeverStale`; and
`KnownPassesNeverStale` discharges the hypothesis for the passes of the repository and those of LLVM
that its programs run (`PassOutcomes`).

**`LoweredProofs`**, for every width of the words, every argument, every result of `baz` and
everything a call may leave in the physical registers, for the functions of the three IR builders
and of the Machine IR builders (`Built`): `LowersFooHolds` (the calls made are those of the C
function `foo`), `FollowsCFGHolds` (control moves along the declared edges, if the declared edges are
the solution's) and `NeverStuck` (no register or slot is read before it has a value). `IRInv` and
`MIRInv` follow the C function's variable instruction by instruction through the registers and the
slot; what both say of the calls made is one of seven phases (`Phased`), and `PhaseStep` shows once
that the phases step as `Foo` does.

**`ReduceProofs`**, for every file, driver verdict and order of candidates: `ReduceTypeCorrect`,
`KeepsCrashHolds`, `MinimalHolds`. The invariant `RInv` says what the driver's loop has seen of the
candidate so far (`Survived`), so that its status when it ends is the candidate's verdict
(`Verdict`), and what the reduction knows of its file and of what it refused (`Learned`).

**`CloneHarnessProofs`**, for every module: `ClonesNotClonedHolds`; and, if the reader's
implementation folds nothing but what the reference folds (`NoMoreFolds`), `SameInputHolds` and
`NoFalseAlarmHolds`. That the clone equals the original rests on `ConstKeys`, a constant stands for
itself in `VMap`. To keep that when the reader's fold moves an entry, the invariant describes both
rewritten codes by replacement maps, `q` for the reader's within `r` for the reference's; when the
reader folds an instruction, the reference, being done, has folded it to the same constant
(`Agreement`), so its entry already stands for that constant. The run `clonebetter` shows what
happens without `NoMoreFolds`.

**Assumptions.** `FunctionsAssumption` (functions are well formed: `IsFunction`),
`PlacedAssumption` (an instruction is in a block), `SSAAssumption`, `EvalAssumption`,
`ComputationAssumption` and `ConstantFoldAssumption` (a rule's answer refines the
operator's meaning), `CasesAssumption`, `SpecialAssumption`, `OpcodeAssumption`,
`AnswerAssumption`, `SetupAssumption`, and those of `AnalysisManager`, `Reduce`, `CloneHarness` and
`Lowered`. `PassManager` assumes that `Layout` lists the functions (`LayoutAssumption`), that `None` is
none of the values it stands beside (`NoneAssumption`), that the managers know the analyses of
functions (`KeyAssumption`), that the passes named by the programs exist (`PassAssumption`), that
programs are the mains of `Code`, `opt`'s called with groups of known passes and `run.sh` with words
(`ProgramsAssumption`), and that a pass breaks a function or does not (`BreaksAssumption`). TLC
evaluates all of them on the instances of the runs: in particular, that the rules of `FoldRules`
satisfy `ComputationAssumption` and `ConstantFoldAssumption` is checked on all operators and all pairs
of two-bit words, and not proved for every width. Hypotheses that single theorems have:
`MemoryFree`, which `MCCoExec` assumes and TLC evaluates, `NoMoreFolds`, `ReportsSound`, `Built`, and
those on the rules of `NoCrashHolds` and `CrashOnlyOnUBHolds`.

**Only model-checked.** The liveness properties (`Termination`, `Recovers`): fairness and
`ENABLED` are out of the prover's reach. That the particular rules satisfy the hypotheses of
`NoCrashHolds` and `CrashOnlyOnUBHolds`: `FoldRules` uses bitwise operators the prover cannot see.
The reverse post-order of `Rpo`, a `RECURSIVE` operator. `PipelineAsAsked`, the refinement of `Pipeline`:
it relates what the statements ask for to what the managers make of them, which the shadow does not
say. Where a definition computes over numbers (`FlattenSeq`, the argument loop of `OptScript`), the
proofs use induction over a *set* of numbers (`SetInduction`, from the least element of its
complement), because the library's induction theorems take an operator as a parameter, which the
provers cannot instantiate; what such a definition computes exactly is proved only as far as types
and exit statuses go.

## Findings

- **`setupexit` / `ExitOnFailure`** (`ch1/setup_env.sh:29`). Line 5 says of `set -e` "Exit if any
  command fails." `needs_binary` turns `-e` off in the shell of the script and nothing turns it
  on again, so from the first probe on a failed `curl`, `unzip`, `tar` or `open` is followed by
  the next step and by status 0.
- **`clonebetter` / `SameInput`** (`ch4/simple_cst_propagation/main.cpp:95`). "Clone the function
  before the optimization to make sure each implementation sees the same input." The one `VMap`
  remembers the previous function. If the reader's implementation folds an instruction the
  reference kept, which the exercise invites, to a constant that no function cloned so far has
  among its operands, the entry moves to that constant, and the next function's clone has the
  previous clone's instruction in its place. On TLC's trace the reader folds a remainder, which the
  reference does not support, and then a sum to 0; the next function uses 0, the first did not.
  (A constant that `CloneFunction` has met stands for itself in `VMap`, and a moved entry does not
  overwrite that.)
- **`pipelinelog` / `EachPassLogged`** (`ch5/my_first_pass_n_first_pipeline/RunPipeline.cpp:65`).
  Line 58 says "`true` enables debug logging to stderr for each pass", and line 101 adds a pass that
  "shows that PIC works". The callbacks are registered with the module's analysis manager only; the
  function manager gets the instrumentation of a `PassBuilder` that was given no callbacks, so no
  function pass is reported. `ch5/your_first_pipeline` registers them with both.
- **`pipelineenv` / `PipelineAsAsked`** (`ch5/my_first_pass_n_first_pipeline/run.sh:8`). Lines 34-35
  list `PIPELINE` among the "Environment vars respected", and line 5 says of the defaults that they
  "can be overridden by flags/env". Line 8 assigns `PIPELINE` whatever the environment says; without
  `-p` every function gets the default pipeline.

### Observations

Met while modelling, without a run of their own:

- `ch4/sccppass/tests/Inputs/sample.c:13` expects the multiplication to be folded; in
  `sample.ll`, which is not optimized, its operand is a load, and the local pass leaves it
  (`Sample` in `MCFunctions`).
- `check.sh:5-6` expects an empty file to make the driver fail; an empty file is a valid module
  without functions, on which the driver ends with status 0 (`Inputs` of `Reduce` has it). The
  verdict, "not interesting", is the same.
- A binary that was cut off while it was unpacked is taken for an installed one by every later
  run (`setup_env.sh:114`, `128`): the exception in `ZeroMeansInstalled`.
- "Install python if needed." (`setup_env.sh:161`): line 163 uses `python_url`, which is assigned
  nowhere, so there is nothing to open (`Urls` of `SetupEnv`).
- Without a built driver `check.sh` calls every file interesting and the reduction ends with an
  empty file: `KeepsCrash` and `Minimal` of `Reduce` distinguish the case.
- `ch3/machineir/your_turn/populate_function.cpp:66` declares the entry block its own successor in
  the place of `ThenBB`, to which line 93 branches, although the comment above wants the graph of the
  `llvm_ir` exercise. With `YourTurnCFG` in the place of `SolutionCFG` the run `lowered` finds
  `FollowsCFG` violated.
- The legacy pass of `ch5/your_first_pass/your_turn` registers the argument name of the solution's
  (`legacy-solution`), and "Going Further" in the README of `your_first_pipeline` has the default
  build and `USE_MODULE_MGR` the other way round than the code (`FunctionPasses` of `Drivers`).
- The function manager of `ch5/your_first_pass` never gets an instrumentation of its own. It gets
  along, because no pass asks it for anything; a `FunctionPassManager` in the place of the adaptor
  would trip an assertion (`MutNewPart` of `Drivers`, `RegisteredBeforeQueried`).

## What is not modelled

- The wording of output and path handling.
- What ch5's passes print, and the constant propagation they call: that is `ConstProp`. Of LLVM's
  managers, what these programs reach: no CGSCC or loop passes, no `optnone`, no abandoned analyses.
- `ch4/implicit_func_scope_change`: a walk over the users of a global that changes nothing.
- `ch10/undefined_behavior`: one shift whose amount is not checked, in a function without state (its
  comment says "shift left", the code shifts right).
- ch6 (TableGen emitters), ch7 (types and data layout), ch11 (generated tables): straight-line
  programs that print what LLVM's libraries compute. ch8, ch13 and the `.ll`, `.mir` and `.td`
  files elsewhere are inputs to LLVM's own tools. Build scripts are declarative.
- Memory in `CoExec` (`MemoryFree`): the propagations never touch a load or a store, but the
  argument that a rewritten function stores what the given one stores is not made.
- Assertions of LLVM that depend on its version and build: `ConstantExpr::get` of LLVM 20 refuses,
  with assertions enabled, the operators it no longer supports; `FoldInst` of `LocalConstProp` has the
  build without them, where the fold is made.
- In `SetupEnv`, a `cmake` executable that was unpacked whole from a tarball that was cut off counts
  as usable, though other files of CMake may be missing.
- `run.sh --legacy` with an option that `opt` would accept without the plugin, such as one that
  prints and exits: `ScriptMain` has the option of a pass, which `opt` refuses.
- A module file that parses and does not verify: `Obtain` of `PassManager` takes a module that was
  read as sound. Of the analyses `InstCombine` and `AlwaysInliner` ask for, `Requires` names one kind
  of each manager; those it leaves out come from the same `PassBuilder` calls.
- What the machine verifier and `verifyFunction` look for, beyond operands that exist: they may say
  either of the code of a builder.

## Plan

The modules were written in this order: the propagations with their abstract specification, the
programs around them, the builders, the pass managers and pipelines; each was model-checked first
and most were then proved about. What is left:

1. **Proof** of `PipelineAsAsked` (`PassManager` implements `Pipeline`), for every program but
   `run.sh` with `PIPELINE` set and no `-p`: a second shadow, of the
   passes asked for and of what the elements of the pass managers add up to, and the invariant that
   what each function has had, followed by the work still in front of it, is what was asked for.
2. **Memory** in `CoExec`: loads and stores in order, and the same memory at the end.
3. Register units (ch11), if their laws turn out to be worth stating.
