-------------------------------- MODULE OptScript --------------------------------
(***************************************************************************)
(* ch5/my_first_pass_n_first_pipeline/run.sh: what the script makes of its *)
(* command line, its environment and the host, up to the call of opt.      *)
(* A word of the command line is an option, the name of a pipeline, of a   *)
(* file or of a directory; env holds the variables the user has set.       *)
(***************************************************************************)
EXTENDS Naturals, Sequences

CONSTANT None

\* the variable an option's argument is assigned to
Assigned(w) == CASE w \in {"-s", "--src-dir"}  -> "SRC_DIR"
                 [] w \in {"-b", "--lib-base"} -> "LIB_BASE"
                 [] w \in {"-p", "--pipeline"} -> "PIPELINE"
                 [] w \in {"-O", "--opt"}      -> "OPT_BIN"
                 [] w \in {"-o", "--out"}      -> "OUTFILE"
                 [] w = "--legacy"             -> "LEGACY_PIPE"
                 [] OTHER                      -> None

Unknown == {"-x"}   \* stands for any other word that begins with "-"

\* PIPELINE is assigned whatever env.PIPELINE is, the others may come from outside
Defaults(env) ==
  [ SRC_DIR |-> IF env.SRC_DIR = None THEN "./build" ELSE env.SRC_DIR,
    LIB_BASE |-> IF env.LIB_BASE = None THEN "MyFirstPass" ELSE env.LIB_BASE,
    PIPELINE |-> "default",
    INPUT |-> IF env.INPUT = None THEN "./test.ll" ELSE env.INPUT,
    OPT_BIN |-> IF env.OPT_BIN = None THEN "opt" ELSE env.OPT_BIN,
    OUTFILE |-> None, LEGACY_PIPE |-> None, args |-> <<>>, exit |-> None ]

(***************************************************************************)
(* The loop over the arguments, word by word.  expects is what the next    *)
(* word is: a "word" to look at, the argument of an option that is         *)
(* assigned to a variable, the "rest" after "--"; or it is "over".  An     *)
(* option without its argument ends the script: "$2" is unbound under      *)
(* set -u.                                                                 *)
(***************************************************************************)
Positional(at, w) == [at EXCEPT !.set.args = Append(@, w)]
ExitAt(at, code)  == [at EXCEPT !.expects = "over", !.set.exit = code]

LookAt(at, w) ==
  CASE at.expects = "over" -> at
    [] at.expects = "rest" -> Positional(at, w)
    [] at.expects \notin {"word", "rest", "over"} ->
         [at EXCEPT !.expects = "word", !.set[at.expects] = w]
    [] at.expects = "word" ->
         CASE Assigned(w) # None           -> [at EXCEPT !.expects = Assigned(w)]
           [] w \in {"-v", "--verbose"}    -> at
           [] w \in {"-h", "--help"}       -> ExitAt(at, 0)
           [] w = "--"                     -> [at EXCEPT !.expects = "rest"]
           [] w \in Unknown                -> ExitAt(at, 1)
           [] OTHER                        -> Positional(at, w)

ParseArgs(set, argv) ==
  LET Looked[n \in 0 .. Len(argv)] ==
        IF n = 0 THEN [expects |-> "word", set |-> set] ELSE LookAt(Looked[n - 1], argv[n])
      end == Looked[Len(argv)]
  IN  IF end.expects \in {"word", "rest", "over"} THEN end.set ELSE [end.set EXCEPT !.exit = 1]

\* "Input file: last positional"
Input(set) == IF set.args = <<>> THEN set ELSE [set EXCEPT !.INPUT = set.args[Len(set.args)]]

(***************************************************************************)
(* What the script looks at before it calls opt.  host.working are the     *)
(* commands that can say their version; host.version is opt's major        *)
(* version, or None where none can be read from its output.                *)
(***************************************************************************)
Valid(set, host) ==
  /\ set.OPT_BIN \in host.commands \cap host.working
  /\ set.INPUT \in host.readable
  /\ <<set.SRC_DIR, set.LIB_BASE>> \in host.plugins
  /\ ~(host.version # None /\ host.version < 11 /\ set.LEGACY_PIPE = None)

RunScript(argv, env, host) ==
  LET set == Input(ParseArgs(Defaults(env), argv))
  IN  IF set.exit = None /\ ~Valid(set, host) THEN [set EXCEPT !.exit = 1] ELSE set

(***************************************************************************)
(* The pipeline the user asks for, by positions: the argument of the last  *)
(* -p that the loop looks at; without one, what the help text says of the  *)
(* environment (PIPELINE is among the "vars respected"), then the default. *)
(***************************************************************************)
Asked(argv, env) ==
  LET Looked[i \in 1 .. Len(argv)] ==
        \/ i = 1
        \/ i > 1 /\ Looked[i - 1] /\ Assigned(argv[i - 1]) = None /\ argv[i - 1] # "--"
        \/ i > 2 /\ Looked[i - 2] /\ Assigned(argv[i - 2]) # None
      P == { i \in 1 .. Len(argv) - 1 : Looked[i] /\ Assigned(argv[i]) = "PIPELINE" }
  IN  IF P # {} THEN argv[1 + CHOOSE i \in P : \A j \in P : j <= i]
      ELSE IF env.PIPELINE # None THEN env.PIPELINE ELSE "default"
==================================================================================
