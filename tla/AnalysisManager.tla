----------------------------- MODULE AnalysisManager -----------------------------
(***************************************************************************)
(* What the analysis managers of the programs of ch5 promise to passes: a  *)
(* result handed out is the one the analysis would compute now, whatever   *)
(* passes changed since, and in whatever order passes and queries come.    *)
(* The contents of a function are versions: one counter for its blocks and *)
(* edges, one for its instructions.                                        *)
(***************************************************************************)
EXTENDS Naturals

CONSTANTS
  Fun,          \* the functions with a body
  Pass,         \* the passes
  Key,          \* the analyses of functions
  Depends(_),   \* Depends(k): the aspects of a function that k is computed from
  Outcomes(_),  \* Outcomes(p): what a run of p may change, and what it reports
  NoResult

Aspect == {"cfg", "insts"}

ASSUME DependsAssumption == \A k \in Key : Depends(k) \subseteq Aspect

ASSUME NoResultAssumption == \A A \in SUBSET Aspect : NoResult \notin [A -> Nat]

(***************************************************************************)
(* Every pass reports as preserved only what its changes leave as it is.   *)
(***************************************************************************)
ReportsSound ==
  \A p \in Pass : \A o \in Outcomes(p) :
    \A k \in Key : k \in o.preserves => Depends(k) \cap o.changes = {}

VARIABLES
  version,  \* the function's contents
  cache,    \* the results the function analysis manager holds
  proxied   \* the module analysis manager holds the proxy of the function one

avars == <<version, cache, proxied>>

Nothing == [k \in Key |-> NoResult]
Cleared == [f \in Fun |-> Nothing]

AInit == /\ version = [f \in Fun |-> [a \in Aspect |-> 0]]
         /\ cache = Cleared
         /\ proxied = FALSE

\* what analysis k computes on function f as it is
View(f, k) == [a \in Depends(k) |-> version[f][a]]

(***************************************************************************)
(* getResult<FunctionAnalysisManagerModuleProxy>: the only way to the      *)
(* function analysis manager.                                              *)
(***************************************************************************)
GetProxy == proxied' = TRUE /\ UNCHANGED <<version, cache>>

GetResult(f, k) ==
  /\ proxied
  /\ cache' = IF cache[f][k] = NoResult THEN [cache EXCEPT ![f][k] = View(f, k)] ELSE cache
  /\ UNCHANGED <<version, proxied>>

Touch(v, o) == [a \in Aspect |-> IF a \in o.changes THEN v[a] + 1 ELSE v[a]]

\* AnalysisManager::invalidate
Invalidate(c, o) == [k \in Key |-> IF k \in o.preserves THEN c[k] ELSE NoResult]

\* mutant: the results stay in the cache
MutInvalidate(c, o) == c

RunOn(f, o) ==
  /\ version' = [version EXCEPT ![f] = Touch(@, o)]
  /\ cache' = [cache EXCEPT ![f] = Invalidate(@, o)]
  /\ UNCHANGED proxied

(***************************************************************************)
(* A module pass: the proxy, once invalidated, clears the function         *)
(* analysis manager it stands for and must be asked for again.             *)
(***************************************************************************)
RunOnModule(o) ==
  /\ version' = [f \in Fun |-> Touch(version[f], o)]
  /\ IF Key \subseteq o.preserves THEN UNCHANGED <<cache, proxied>>
     ELSE /\ cache' = IF proxied THEN Cleared ELSE cache
          /\ proxied' = FALSE

\* the function analysis manager is destroyed
DropResults == cache' = Cleared /\ UNCHANGED <<version, proxied>>

\* the module analysis manager is: the proxy clears the other one as it dies
DropProxy == /\ proxied' = FALSE
             /\ cache' = IF proxied THEN Cleared ELSE cache
             /\ UNCHANGED version

\* another module is worked on: nothing may be known about its functions yet
NewFunctions == /\ cache = Cleared
                /\ version' = [f \in Fun |-> [a \in Aspect |-> 0]]
                /\ UNCHANGED <<cache, proxied>>

ANext == \/ GetProxy
         \/ \E f \in Fun, k \in Key : GetResult(f, k)
         \/ \E f \in Fun, p \in Pass : \E o \in Outcomes(p) : RunOn(f, o)
         \/ \E p \in Pass : \E o \in Outcomes(p) : RunOnModule(o)
         \/ DropResults \/ DropProxy \/ NewFunctions

ASpec == AInit /\ [][ANext]_avars

(* The types of the variables. *)
ATypeOK ==
  /\ version \in [Fun -> [Aspect -> Nat]]
  /\ DOMAIN cache = Fun /\ \A f \in Fun : DOMAIN cache[f] = Key
  /\ proxied \in BOOLEAN

(* No pass ever sees a result computed for another state of the function:   *)
(* what a pass reports (your_first_pass/solution/passWithNewPM.cpp:14-22)   *)
(* and what the managers throw away agree with what it changed.             *)
FreshResults == \A f \in Fun, k \in Key : cache[f][k] \in {NoResult, View(f, k)}
==================================================================================
