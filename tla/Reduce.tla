--------------------------------- MODULE Reduce ---------------------------------
(***************************************************************************)
(* The reduction of bugged_input.ll in ch10/incorrect_optimization: the    *)
(* driver main.cpp runs buggyConstantPropagation on every function of the  *)
(* file it is given, check.sh turns the driver's exit status into whether  *)
(* the file is interesting, and llvm-reduce drops instructions for as long *)
(* as the file stays interesting.  bugpoint-check.sh is check.sh with the  *)
(* two answers swapped, for a tool that reads them swapped.  A user may    *)
(* also run check.sh by hand, on a file the tools would not read, and all  *)
(* of it may happen before the driver is built.                            *)
(*                                                                         *)
(* A file is the sequence of its functions, each the set of its            *)
(* instructions; the propagation crashes on one of Crashing, and leaves a  *)
(* function of Broken that does not verify.                                *)
(***************************************************************************)
EXTENDS Naturals, Sequences

CONSTANTS
  Instr,       \* instructions
  Crashing,    \* those the propagation's assertion fails on
  Breaking,    \* those that do not verify after the propagation
  Inputs,      \* the files a user starts from
  Missing,     \* a file that cannot be read
  Malformed,   \* a file that cannot be parsed
  None

ASSUME ReduceAssumption ==
  /\ Crashing \subseteq Instr /\ Breaking \subseteq Instr
  /\ Crashing \cap Breaking = {}
  /\ Inputs \subseteq Seq(SUBSET Instr) \cup {Missing, Malformed}
  /\ {Missing, Malformed} \cap Seq(SUBSET Instr) = {}

VARIABLES
  built,      \* ./build/buggy_cst_propagation exists
  byHand,     \* check.sh is run once, by hand
  file,       \* the best file so far
  candidate,  \* the file the driver is running on, or None
  func,       \* how many functions the driver has processed
  hadError,   \* of the driver
  status,     \* its exit status, None while it runs
  tried,      \* candidates of the current file that were not interesting
  pc          \* "pick", "driver", "check", "reduced", "rejected" or "answered"

vars == <<built, byHand, file, candidate, func, hadError, status, tried, pc>>

Init == /\ file \in Inputs
        /\ built \in BOOLEAN /\ byHand \in BOOLEAN
        /\ file \in {Missing, Malformed} => byHand
        /\ candidate = file
        /\ func = 0 /\ hadError = FALSE /\ status = None
        /\ tried = {} /\ pc = "driver"

(***************************************************************************)
(* The driver.  A file that is empty is a module without functions.        *)
(***************************************************************************)
NoModule == candidate \in {Missing, Malformed}

Starts == pc = "driver" /\ built

\* the shell's status for a command it does not find
Unavailable == /\ pc = "driver" /\ ~built
               /\ status' = 127 /\ pc' = "check"
               /\ UNCHANGED <<built, byHand, file, candidate, func, hadError, tried>>

\* mutant: no test for a module; SIGSEGV on the null pointer, the shell's 128 + 11
MutUnbuilt == /\ Starts /\ NoModule
              /\ status' = 139 /\ pc' = "check"
              /\ UNCHANGED <<built, byHand, file, candidate, func, hadError, tried>>

Unbuilt == /\ Starts /\ NoModule
           /\ status' = 255 /\ pc' = "check"
           /\ UNCHANGED <<built, byHand, file, candidate, func, hadError, tried>>

\* mutant: the loop does not move on
MutOptimize == /\ Starts /\ ~NoModule /\ func < Len(candidate)
               /\ candidate[func + 1] \cap Crashing = {}
               /\ hadError' = (hadError \/ candidate[func + 1] \cap Breaking # {})
               /\ UNCHANGED <<built, byHand, file, candidate, func, status, tried, pc>>

Optimize == /\ Starts /\ ~NoModule /\ func < Len(candidate)
            /\ candidate[func + 1] \cap Crashing = {}
            /\ func' = func + 1
            /\ hadError' = (hadError \/ candidate[func'] \cap Breaking # {})
            /\ UNCHANGED <<built, byHand, file, candidate, status, tried, pc>>

\* SIGABRT: the shell's 128 + 6
Abort == /\ Starts /\ ~NoModule /\ func < Len(candidate)
         /\ candidate[func + 1] \cap Crashing # {}
         /\ status' = 134 /\ pc' = "check"
         /\ UNCHANGED <<built, byHand, file, candidate, func, hadError, tried>>

Return == /\ Starts /\ ~NoModule /\ func = Len(candidate)
          /\ status' = IF hadError THEN 1 ELSE 0
          /\ pc' = "check"
          /\ UNCHANGED <<built, byHand, file, candidate, func, hadError, tried>>

(***************************************************************************)
(* check.sh.                                                               *)
(***************************************************************************)
\* mutant: the status is not filtered
MutInteresting == status # 0

Interesting == status # 0 /\ status # 1

Answer == /\ pc = "check" /\ byHand
          /\ pc' = "answered"
          /\ UNCHANGED <<built, byHand, file, candidate, func, hadError, status, tried>>

Accept == /\ pc = "check" /\ ~byHand /\ Interesting
          /\ file' = candidate /\ tried' = {}
          /\ pc' = "pick"
          /\ UNCHANGED <<built, byHand, candidate, func, hadError, status>>

\* llvm-reduce refuses to start on a file that is not interesting
Reject == /\ pc = "check" /\ ~byHand /\ ~Interesting
          /\ tried' = tried \cup {candidate}
          /\ pc' = IF candidate = file THEN "rejected" ELSE "pick"
          /\ UNCHANGED <<built, byHand, file, candidate, func, hadError, status>>

(***************************************************************************)
(* llvm-reduce: one instruction or one function less.                      *)
(***************************************************************************)
DropAt(s, n) == [m \in 1 .. Len(s) - 1 |-> IF m < n THEN s[m] ELSE s[m + 1]]

RemoveFrom(s, n, i) == [s EXCEPT ![n] = @ \ {i}]

Smaller(s) == { DropAt(s, n) : n \in DOMAIN s }
                \cup { RemoveFrom(s, n, i) : n \in DOMAIN s, i \in Instr }

Candidates == Smaller(file) \ (tried \cup {file})

Pick == /\ pc = "pick"
        /\ candidate' \in Candidates
        /\ func' = 0 /\ hadError' = FALSE /\ status' = None
        /\ pc' = "driver"
        /\ UNCHANGED <<built, byHand, file, tried>>

Finish == /\ pc = "pick" /\ Candidates = {}
          /\ pc' = "reduced"
          /\ UNCHANGED <<built, byHand, file, candidate, func, hadError, status, tried>>

Finished == pc \in {"reduced", "rejected", "answered"} /\ UNCHANGED vars

Next == \/ Unavailable \/ Unbuilt \/ Optimize \/ Abort \/ Return
        \/ Answer \/ Accept \/ Reject \/ Pick \/ Finish \/ Finished

Spec == Init /\ [][Next]_vars /\ WF_vars(Next)

(***************************************************************************)
(* Properties                                                              *)
(***************************************************************************)

Crashes(s) == \E n \in DOMAIN s : s[n] \cap Crashing # {}

(* The types of the variables. *)
TypeOK ==
  /\ file \in Inputs \/ file \in Seq(SUBSET Instr)
  /\ ~NoModule => func \in 0 .. Len(candidate)
  /\ {built, byHand, hadError} \subseteq BOOLEAN
  /\ status \in {None, 0, 1, 127, 134, 255}
  /\ pc \in {"pick", "driver", "check", "reduced", "rejected", "answered"}

(* The file llvm-reduce holds crashes the propagation: check.sh (check.sh:8) *)
(* never lets it drift to a file that only fails to verify, or to an empty   *)
(* one.  It tells a crash from other failures only if there is a driver.     *)
KeepsCrash == pc = "pick" /\ built => Crashes(file)

(* The reduction gets to the end: one function, with nothing but one         *)
(* instruction that crashes the propagation (README.md:75-82), or, where the *)
(* driver is not built and every file looks interesting, nothing at all.     *)
Minimal ==
  pc = "reduced" => IF built THEN \E i \in Crashing : file = <<{i}>> ELSE file = <<>>

(* The reduction ends. *)
Termination == <>(pc \in {"reduced", "rejected", "answered"})
=================================================================================
