------------------------------ MODULE ReduceProofs ------------------------------
(***************************************************************************)
(* For every set of instructions and every file: the reduction keeps the   *)
(* crash it was started for, and ends with one crashing instruction.       *)
(***************************************************************************)
EXTENDS Reduce, TLAPS

File == Seq(SUBSET Instr)

\* the driver got past these functions
Survived == \A n \in 1 .. func : candidate[n] \cap Crashing = {}

\* what the driver's exit status says of the file it ran on
Verdict == /\ status \in {0, 1, 127, 134, 255}
           /\ status = 127 <=> ~built
           /\ status = 255 => NoModule
           /\ status = 134 => Crashes(candidate)
           /\ status \in {0, 1} => ~Crashes(candidate)

\* what llvm-reduce knows: its file crashes, what it refused does not
Learned == /\ pc \in {"pick", "reduced"} => Crashes(file)
           /\ pc \in {"driver", "check"} /\ candidate # file => Crashes(file)
           /\ pc # "rejected" => \A c \in tried : ~Crashes(c)

Types ==
  /\ {built, byHand, hadError} \subseteq BOOLEAN
  /\ status \in {None, 0, 1, 127, 134, 255}
  /\ pc \in {"pick", "driver", "check", "reduced", "rejected", "answered"}
  /\ file \in Inputs \/ file \in File
  /\ candidate \in File \/ (byHand /\ NoModule)
  /\ ~byHand => file \in File
  /\ candidate \in File => func \in 0 .. Len(candidate)

(* The inductive invariant: the types, the driver's progress, its verdict    *)
(* and what the verdicts on earlier candidates have taught.                  *)
RInv ==
  /\ Types
  /\ candidate \in File => Survived
  /\ pc = "check" => Verdict
  /\ pc \in {"pick", "reduced"} => ~byHand
  /\ pc = "reduced" => Candidates = {}
  /\ ~byHand => IF built THEN Learned ELSE tried = {}

(* One function less.                                                        *)
LEMMA DropFacts ==
  ASSUME NEW s \in File, NEW n \in DOMAIN s
  PROVE  /\ DropAt(s, n) \in File /\ Len(DropAt(s, n)) = Len(s) - 1
         /\ \A m \in DOMAIN s : m # n =>
              \E k \in DOMAIN DropAt(s, n) : DropAt(s, n)[k] = s[m]
<1>1. Len(s) \in Nat /\ DOMAIN s = 1 .. Len(s) /\ n \in 1 .. Len(s)
  BY DEF File
<1>2. \A m \in 1 .. Len(s) - 1 : (IF m < n THEN s[m] ELSE s[m + 1]) \in SUBSET Instr
  BY <1>1 DEF File
<1>3. Len(s) - 1 \in Nat
  BY <1>1
<1>4. DropAt(s, n) \in [1 .. Len(s) - 1 -> SUBSET Instr]
  BY <1>2 DEF DropAt
<1>5. DropAt(s, n) \in File /\ Len(DropAt(s, n)) = Len(s) - 1
  BY <1>3, <1>4 DEF File
<1>6. ASSUME NEW m \in DOMAIN s, m # n
      PROVE  \E k \in DOMAIN DropAt(s, n) : DropAt(s, n)[k] = s[m]
  <2>1. DOMAIN DropAt(s, n) = 1 .. Len(s) - 1
    BY DEF DropAt
  <2>2. CASE m < n
    <3>1. m \in 1 .. Len(s) - 1
      BY <1>1, <2>2
    <3>2. DropAt(s, n)[m] = s[m]
      BY <2>2, <3>1 DEF DropAt
    <3> QED BY <2>1, <3>1, <3>2
  <2>3. CASE ~(m < n)
    <3>1. m - 1 \in 1 .. Len(s) - 1 /\ ~(m - 1 < n) /\ (m - 1) + 1 = m
      BY <1>1, <1>6, <2>3
    <3>2. DropAt(s, n)[m - 1] = s[m]
      BY <3>1 DEF DropAt
    <3> QED BY <2>1, <3>1, <3>2
  <2> QED BY <2>2, <2>3
<1> QED BY <1>5, <1>6

(* What llvm-reduce tries is a file.                                         *)
LEMMA SmallerFiles == ASSUME NEW s \in File PROVE Smaller(s) \subseteq File
<1> SUFFICES ASSUME NEW t \in Smaller(s) PROVE t \in File
  OBVIOUS
<1>1. CASE \E n \in DOMAIN s : t = DropAt(s, n)
  BY <1>1, DropFacts
<1>2. CASE \E n \in DOMAIN s, i \in Instr : t = RemoveFrom(s, n, i)
  BY <1>2 DEF File, RemoveFrom
<1> QED BY <1>1, <1>2 DEF Smaller

(* A crashing file of which nothing can be dropped without losing the crash. *)
LEMMA NothingToDrop ==
  ASSUME NEW s \in File, Crashes(s), \A t \in Smaller(s) \ {s} : ~Crashes(t)
  PROVE  \E i \in Crashing : s = <<{i}>>
<1>1. PICK n \in DOMAIN s : s[n] \cap Crashing # {}
  BY DEF Crashes
<1>2. PICK i \in Crashing : i \in s[n]
  BY <1>1
<1>3. Len(s) \in Nat /\ DOMAIN s = 1 .. Len(s) /\ s[n] \in SUBSET Instr
  BY <1>1 DEF File
<1>4. Len(s) = 1
  <2> SUFFICES ASSUME Len(s) # 1 PROVE FALSE
    OBVIOUS
  <2>1. PICK m \in DOMAIN s : m # n
    BY <1>1, <1>3
  <2>2. Crashes(DropAt(s, m))
    BY <1>1, <2>1, DropFacts DEF Crashes
  <2>3. DropAt(s, m) # s
    BY <1>3, DropFacts
  <2> QED BY <2>2, <2>3 DEF Smaller
<1>5. n = 1
  BY <1>1, <1>3, <1>4
<1>6. s[n] = {i}
  <2> SUFFICES ASSUME NEW j \in s[n], j # i PROVE FALSE
    BY <1>2
  <2> DEFINE t == RemoveFrom(s, n, j)
  <2>1. t[n] = s[n] \ {j} /\ n \in DOMAIN t
    BY <1>1 DEF RemoveFrom
  <2>2. Crashes(t)
    BY <1>2, <2>1 DEF Crashes
  <2>3. t # s
    BY <2>1
  <2>4. j \in Instr
    BY <1>3
  <2>5. t \in Smaller(s)
    BY <1>1, <2>4 DEF Smaller
  <2> QED BY <2>2, <2>3, <2>5
<1>7. s = <<s[1]>>
  BY <1>4 DEF File
<1> QED BY <1>5, <1>6, <1>7

(* A file of which nothing can be dropped at all.                            *)
LEMMA NothingLeft ==
  ASSUME NEW s \in File, Smaller(s) \subseteq {s}
  PROVE  s = <<>>
<1> SUFFICES ASSUME s # <<>> PROVE FALSE
  OBVIOUS
<1>1. Len(s) \in Nat /\ 1 \in DOMAIN s
  BY DEF File
<1>2. DropAt(s, 1) \in Smaller(s)
  BY <1>1 DEF Smaller
<1> QED BY <1>1, <1>2, DropFacts

LEMMA RInitInv == Init => RInv
<1> SUFFICES ASSUME Init PROVE RInv
  OBVIOUS
<1>1. file \in File \/ (byHand /\ NoModule)
  BY ReduceAssumption DEF Init, NoModule, File
<1>2. Types
  <2>1. candidate \in File => func \in 0 .. Len(candidate)
    BY DEF Init, File
  <2>2. ~byHand => file \in File
    BY ReduceAssumption DEF Init, File
  <2> QED BY <1>1, <2>1, <2>2 DEF Init, Types
<1>3. candidate \in File => Survived
  BY DEF Init, Survived
<1> QED BY <1>2, <1>3 DEF Init, RInv, Learned

(* The driver leaves llvm-reduce's knowledge alone.                          *)
LEMMA DriverStep ==
  ASSUME RInv, Unavailable \/ Unbuilt \/ Optimize \/ Abort \/ Return
  PROVE  RInv'
<1>1. /\ built' = built /\ byHand' = byHand /\ file' = file /\ candidate' = candidate
      /\ tried' = tried /\ pc = "driver" /\ pc' \in {"driver", "check"}
  BY DEF Unavailable, Unbuilt, Optimize, Abort, Return, Starts
<1>2. ~byHand => IF built' THEN Learned' ELSE tried' = {}
  BY <1>1 DEF RInv, Learned, Crashes
<1>3. candidate \in File \/ NoModule
  BY DEF RInv, Types
<1>4. candidate \in File => Len(candidate) \in Nat /\ DOMAIN candidate = 1 .. Len(candidate)
  BY DEF File
<1>5. Types' /\ (candidate' \in File => Survived') /\ (pc' = "check" => Verdict')
  <2>1. CASE Unavailable
    <3>1. status' = 127 /\ func' = func /\ hadError' = hadError /\ ~built
      BY <2>1 DEF Unavailable
    <3> QED BY <1>1, <3>1 DEF RInv, Types, Survived, Verdict, NoModule
  <2>2. CASE Unbuilt
    <3>1. status' = 255 /\ func' = func /\ hadError' = hadError /\ built /\ NoModule
      BY <2>2 DEF Unbuilt, Starts
    <3> QED BY <1>1, <3>1 DEF RInv, Types, Survived, Verdict, NoModule
  <2>3. CASE Optimize
    <3>1. /\ func' = func + 1 /\ status' = status /\ pc' = pc /\ ~NoModule /\ func < Len(candidate)
          /\ candidate[func + 1] \cap Crashing = {} /\ hadError' \in BOOLEAN
      BY <2>3 DEF Optimize, Starts, RInv, Types
    <3>2. func \in Nat /\ func' \in 0 .. Len(candidate) /\ Survived
      BY <1>3, <1>4, <3>1 DEF RInv, Types
    <3>3. Survived'
      BY <1>1, <3>1, <3>2 DEF Survived
    <3> QED BY <1>1, <3>1, <3>2, <3>3 DEF RInv, Types, NoModule
  <2>4. CASE Abort
    <3>1. /\ func' = func /\ status' = 134 /\ hadError' = hadError /\ built /\ ~NoModule
          /\ func < Len(candidate) /\ candidate[func + 1] \cap Crashing # {}
      BY <2>4 DEF Abort, Starts
    <3>2. func + 1 \in DOMAIN candidate
      BY <1>3, <1>4, <3>1 DEF RInv, Types
    <3>3. Crashes(candidate)
      BY <3>1, <3>2 DEF Crashes
    <3> QED BY <1>1, <3>1, <3>3 DEF RInv, Types, Survived, Verdict, NoModule, Crashes
  <2>5. CASE Return
    <3>1. /\ func' = func /\ status' \in {0, 1} /\ hadError' = hadError /\ built /\ ~NoModule
          /\ func = Len(candidate)
      BY <2>5 DEF Return, Starts
    <3>2. ~Crashes(candidate)
      BY <1>3, <1>4, <3>1 DEF RInv, Survived, Crashes
    <3> QED BY <1>1, <3>1, <3>2 DEF RInv, Types, Survived, Verdict, NoModule, Crashes
  <2> QED BY <2>1, <2>2, <2>3, <2>4, <2>5
<1> QED BY <1>1, <1>2, <1>5 DEF RInv

(* check.sh accepts a file only if it crashes, where there is a driver.      *)
LEMMA AcceptStep ==
  ASSUME RInv, Accept
  PROVE  RInv'
<1>1. /\ built' = built /\ byHand' = byHand /\ candidate' = candidate /\ func' = func
      /\ hadError' = hadError /\ status' = status /\ ~byHand
      /\ file' = candidate /\ tried' = {} /\ pc = "check" /\ pc' = "pick" /\ Interesting
  BY DEF Accept
<1>2. candidate \in File
  BY <1>1 DEF RInv, Types
<1>3. ~NoModule
  BY <1>2, ReduceAssumption DEF NoModule, File
<1>4. built => Crashes(candidate)
  BY <1>1, <1>3 DEF RInv, Verdict, Interesting
<1>5. Types'
  BY <1>1, <1>2 DEF RInv, Types
<1>6. Survived'
  BY <1>1, <1>2 DEF RInv, Survived
<1>7. IF built THEN Learned' ELSE tried' = {}
  BY <1>1, <1>4 DEF Learned, Crashes
<1> QED BY <1>1, <1>5, <1>6, <1>7 DEF RInv

LEMMA RejectStep ==
  ASSUME RInv, Reject
  PROVE  RInv'
<1>1. /\ built' = built /\ byHand' = byHand /\ candidate' = candidate /\ func' = func
      /\ hadError' = hadError /\ status' = status /\ ~byHand /\ file' = file
      /\ tried' = tried \cup {candidate} /\ pc = "check" /\ ~Interesting
      /\ pc' = IF candidate = file THEN "rejected" ELSE "pick"
  BY DEF Reject
<1>2. built /\ ~Crashes(candidate)
  BY <1>1 DEF RInv, Verdict, Interesting
<1>3. Types'
  BY <1>1 DEF RInv, Types, NoModule
<1>4. candidate' \in File => Survived'
  BY <1>1 DEF RInv, Survived
<1>5. Learned'
  BY <1>1, <1>2 DEF RInv, Learned, Crashes
<1> QED BY <1>1, <1>2, <1>3, <1>4, <1>5 DEF RInv

LEMMA PickStep ==
  ASSUME RInv, Pick
  PROVE  RInv'
<1>1. /\ built' = built /\ byHand' = byHand /\ file' = file /\ tried' = tried
      /\ func' = 0 /\ hadError' = FALSE /\ status' = None /\ pc = "pick" /\ pc' = "driver"
      /\ candidate' \in Candidates
  BY DEF Pick
<1>2. ~byHand /\ file \in File
  BY <1>1 DEF RInv, Types
<1>3. candidate' \in File
  BY <1>1, <1>2, SmallerFiles DEF Candidates
<1>4. Len(candidate') \in Nat
  BY <1>3 DEF File
<1>5. Types'
  <2>1. Types
    BY DEF RInv
  <2>2. {built', byHand', hadError'} \subseteq BOOLEAN
    BY <1>1, <2>1 DEF Types
  <2>3. func' \in 0 .. Len(candidate')
    BY <1>1, <1>4
  <2> QED BY <1>1, <1>2, <1>3, <2>1, <2>2, <2>3 DEF Types
<1>6. Survived'
  BY <1>1 DEF Survived
<1>7. IF built THEN Learned' ELSE tried' = {}
  BY <1>1, <1>2 DEF RInv, Learned, Crashes
<1> QED BY <1>1, <1>5, <1>6, <1>7 DEF RInv

(* The reduction only ever knows the truth.                                  *)
THEOREM RInvariant == Spec => []RInv
<1>1. RInv /\ [Next]_vars => RInv'
  <2> SUFFICES ASSUME RInv, [Next]_vars PROVE RInv'
    OBVIOUS
  <2>1. CASE Unavailable \/ Unbuilt \/ Optimize \/ Abort \/ Return
    BY <2>1, DriverStep
  <2>2. CASE Answer
    BY <2>2 DEF Answer, RInv, Types, NoModule, Survived, Learned, Crashes
  <2>3. CASE Accept
    BY <2>3, AcceptStep
  <2>4. CASE Reject
    BY <2>4, RejectStep
  <2>5. CASE Pick
    BY <2>5, PickStep
  <2>6. CASE Finish
    BY <2>6 DEF Finish, RInv, Types, NoModule, Survived, Learned, Crashes, Candidates
  <2>7. CASE UNCHANGED vars
    BY <2>7 DEF vars, RInv, Types, NoModule, Survived, Verdict, Learned, Crashes, Candidates
  <2> QED BY <2>1, <2>2, <2>3, <2>4, <2>5, <2>6, <2>7 DEF Next, Finished
<1> QED BY RInitInv, <1>1, PTL DEF Spec

(* The types of Reduce's variables.                                          *)
THEOREM ReduceTypeCorrect == Spec => []TypeOK
<1>1. RInv => TypeOK
  BY DEF RInv, Types, TypeOK, File
<1> QED BY <1>1, RInvariant, PTL

(* The file held crashes the propagation, whatever was dropped (check.sh:8). *)
THEOREM KeepsCrashHolds == Spec => []KeepsCrash
<1>1. RInv => KeepsCrash
  BY DEF RInv, Learned, KeepsCrash
<1> QED BY <1>1, RInvariant, PTL

(* The reduction ends with one crashing instruction, or, without a driver,   *)
(* with nothing (README.md:75-82, check.sh:2).                               *)
THEOREM MinimalHolds == Spec => []Minimal
<1>1. RInv => Minimal
  <2> SUFFICES ASSUME RInv, pc = "reduced"
               PROVE  IF built THEN \E i \in Crashing : file = <<{i}>> ELSE file = <<>>
    BY DEF Minimal
  <2>1. ~byHand /\ file \in File /\ Smaller(file) \subseteq tried \cup {file}
    BY DEF RInv, Types, Candidates
  <2>2. CASE built
    <3>1. Crashes(file) /\ \A t \in tried : ~Crashes(t)
      BY <2>1, <2>2 DEF RInv, Learned
    <3>2. \A t \in Smaller(file) \ {file} : ~Crashes(t)
      BY <2>1, <3>1
    <3> QED BY <2>1, <2>2, <3>1, <3>2, NothingToDrop
  <2>3. CASE ~built
    <3>1. Smaller(file) \subseteq {file}
      BY <2>1, <2>3 DEF RInv
    <3> QED BY <2>1, <2>3, <3>1, NothingLeft
  <2> QED BY <2>2, <2>3
<1> QED BY <1>1, RInvariant, PTL
=================================================================================
