----------------------------- MODULE SetupEnvProofs -----------------------------
(***************************************************************************)
(* Proofs about module SetupEnv: its types, that a run never overwrites    *)
(* what earlier runs left, and that a clean status 0 means Ninja and CMake *)
(* are there, whatever the number of runs, faults and systems.             *)
(***************************************************************************)
EXTENDS SetupEnv, TLAPS

(***************************************************************************)
(* The truth values and the rest of the types are treated apart: Zenon     *)
(* knows the former, SMT the latter.                                       *)
(***************************************************************************)
BoolTypes == /\ onPath \in BOOLEAN /\ need \in [Tools -> BOOLEAN]
             /\ errexit \in BOOLEAN /\ failed \in BOOLEAN

DataTypes ==
  /\ system \subseteq Tools /\ gui \subseteq {"python", "xcode"}
  /\ pkg \in [Packages -> {"absent", "good"} \cup Broken]
  /\ tree \in {"absent", "partial", "good"}
  /\ bin \in [Archives -> {"absent", "partial", "good"}]
  /\ exit \in {None, 0, 1, 130, 255} /\ faults \in 0 .. MaxFaults
  /\ pc \in {"prompt", "mkdir", "probe", "download_ninja", "install_ninja",
             "download_cmake", "install_cmake", "all_found", "python", "open",
             "any_key", "xcode"}

(* The two parts make up the type invariant. *)
LEMMA TypeParts == TypeOK <=> BoolTypes /\ DataTypes
  BY Zenon DEF TypeOK, BoolTypes, DataTypes

(* The initial states have the types. *)
LEMMA InitTypes == Init => TypeOK
<1>1. Init => BoolTypes
  BY Zenon DEF Init, BoolTypes
<1>2. Init => DataTypes
  BY SetupAssumption DEF Init, DataTypes
<1> QED
  BY <1>1, <1>2, TypeParts

(* Every step keeps the truth values. *)
LEMMA StepBoolTypes == BoolTypes /\ [Next]_vars => BoolTypes'
<1> SUFFICES ASSUME BoolTypes, [Next]_vars PROVE BoolTypes'
  OBVIOUS
<1> USE DEF BoolTypes, disk, user, Exit, Succeed, Fail, Interrupted
<1>1. CASE Usage \/ Invoke \/ MakeBinDir
  BY <1>1, Zenon DEF Usage, Invoke, MakeBinDir
<1>2. CASE NeedsBinary
  BY <1>2, Zenon DEF NeedsBinary
<1>3. CASE SkipNinja \/ SkipCMake \/ SkipPython
  BY <1>3, Zenon DEF SkipNinja, SkipCMake, SkipPython, Skip
<1>4. CASE DownloadNinja \/ DownloadCMake \/ DownloadPython
  BY <1>4, ZenonT(30) DEF DownloadNinja, DownloadCMake, DownloadPython, DownloadArtifact
<1>5. CASE InstallNinja
  BY <1>5, Zenon DEF InstallNinja
<1>6. CASE InstallCMake
  BY <1>6, ZenonT(30) DEF InstallCMake
<1>7. CASE ExitEarly \/ Continue \/ OpenPython \/ AnyKey \/ Interrupt
  BY <1>7, Zenon DEF ExitEarly, Continue, OpenPython, AnyKey, Interrupt
<1>8. CASE InstallXcode
  BY <1>8, Zenon DEF InstallXcode
<1>9. CASE User
  BY <1>9, Zenon DEF User, AddToPath, FinishInstaller, RemovePackage, RemoveBinary
<1>10. CASE UNCHANGED vars
  BY <1>10 DEF vars
<1> QED
  BY <1>1, <1>2, <1>3, <1>4, <1>5, <1>6, <1>7, <1>8, <1>9, <1>10 DEF Next, Script

(* Every step keeps the other types. *)
LEMMA StepDataTypes == DataTypes /\ [Next]_vars => DataTypes'
<1> SUFFICES ASSUME DataTypes, [Next]_vars PROVE DataTypes'
  OBVIOUS
<1> USE DEF DataTypes, Exit, Succeed, Fail, Interrupted
<1> DEFINE PC == {"prompt", "mkdir", "probe", "download_ninja", "install_ninja",
                  "download_cmake", "install_cmake", "all_found", "python", "open",
                  "any_key", "xcode"}
<1>0. Fault \/ NoFault => faults' \in 0 .. MaxFaults
  BY SetupAssumption DEF Fault, NoFault
<1>1. CASE Usage \/ Invoke \/ ExitEarly \/ Continue \/ AnyKey \/ NeedsBinary
  <2>1. UNCHANGED <<system, gui, pkg, tree, bin, faults>>
    BY <1>1 DEF Usage, Invoke, ExitEarly, Continue, AnyKey, NeedsBinary, disk, user
  <2>2. pc' \in PC /\ exit' \in {None, exit, 0, 255}
    BY <1>1 DEF Usage, Invoke, ExitEarly, Continue, AnyKey, NeedsBinary
  <2> QED
    BY <2>1, <2>2
<1>2. CASE MakeBinDir \/ Interrupt
  <2>1. UNCHANGED <<system, gui, pkg, tree, bin>> /\ (Fault \/ NoFault)
    BY <1>2 DEF MakeBinDir, Interrupt, disk, user
  <2>2. pc' \in PC /\ exit' \in {exit, 1, 130}
    BY <1>2 DEF MakeBinDir, Interrupt
  <2> QED
    BY <2>1, <2>2, <1>0
<1>3. CASE SkipNinja \/ SkipCMake \/ SkipPython
  <2>1. UNCHANGED <<system, gui, pkg, tree, bin, exit, faults>>
    BY <1>3 DEF SkipNinja, SkipCMake, SkipPython, Skip, disk, user
  <2>2. pc' \in PC
    BY <1>3 DEF SkipNinja, SkipCMake, SkipPython, Skip
  <2> QED
    BY <2>1, <2>2
<1>4. CASE DownloadNinja
  BY <1>4, SetupAssumption DEF DownloadNinja, DownloadArtifact, Broken, user, Fault, NoFault
<1>5. CASE DownloadCMake
  BY <1>5, SetupAssumption DEF DownloadCMake, DownloadArtifact, Broken, user, Fault, NoFault
<1>6. CASE DownloadPython
  BY <1>6, SetupAssumption DEF DownloadPython, DownloadArtifact, Broken, user, Fault, NoFault
<1>7. CASE InstallNinja
  BY <1>7, SetupAssumption DEF InstallNinja, Broken, user, Fault, NoFault
<1>8. CASE InstallCMake
  BY <1>8, SetupAssumption DEF InstallCMake, Broken, user, Fault, NoFault
<1>9. CASE OpenPython
  <2>1. UNCHANGED <<system, pkg, tree, bin, faults>>
    BY <1>9, Zenon DEF OpenPython, disk
  <2>2. gui' \in {gui, gui \cup {"python"}}
    BY <1>9, Zenon DEF OpenPython
  <2>3. pc' \in PC /\ exit' \in {exit, 1}
    BY <1>9 DEF OpenPython
  <2> QED
    BY <2>1, <2>2, <2>3
<1>10. CASE InstallXcode
  <2>1. UNCHANGED <<system, pkg, tree, bin>> /\ (Fault \/ NoFault)
    BY <1>10 DEF InstallXcode, disk
  <2>2. gui' \in {gui, gui \cup {"xcode"}} /\ pc' \in PC /\ exit' = 0
    BY <1>10 DEF InstallXcode
  <2> QED
    BY <2>1, <2>2, <1>0
<1>11. CASE AddToPath \/ FinishInstaller
  <2>1. UNCHANGED <<pkg, tree, bin, exit, faults, pc>>
    BY <1>11 DEF AddToPath, FinishInstaller, disk
  <2>2. system' \subseteq Tools /\ gui' \subseteq {"python", "xcode"}
    BY <1>11 DEF AddToPath, FinishInstaller, Tools
  <2> QED
    BY <2>1, <2>2
<1>12. ASSUME NEW p \in Packages, RemovePackage(p) PROVE DataTypes'
  <2>1. UNCHANGED <<system, gui, tree, bin, faults, pc>> /\ exit' = None
    BY <1>12 DEF RemovePackage, user
  <2>2. pkg' \in [Packages -> {"absent", "good"} \cup Broken]
    BY <1>12 DEF RemovePackage
  <2> QED
    BY <2>1, <2>2
<1>13. ASSUME NEW t \in Archives, RemoveBinary(t) PROVE DataTypes'
  <2>1. UNCHANGED <<system, gui, pkg, tree, faults, pc>> /\ exit' = None
    BY <1>13 DEF RemoveBinary, user
  <2>2. bin' \in [Archives -> {"absent", "partial", "good"}]
    BY <1>13 DEF RemoveBinary
  <2> QED
    BY <2>1, <2>2
<1>14. CASE UNCHANGED vars
  BY <1>14 DEF vars
<1> HIDE DEF DataTypes
<1> QED
  BY <1>1, <1>2, <1>3, <1>4, <1>5, <1>6, <1>7, <1>8, <1>9, <1>10, <1>11, <1>12,
     <1>13, <1>14 DEF Next, Script, User

(* Every step keeps the types. *)
LEMMA StepTypes == TypeOK /\ [Next]_vars => TypeOK'
  BY StepBoolTypes, StepDataTypes, TypeParts, PTL

(* The variables of the setup script keep their types. *)
THEOREM SetupTypeCorrect == Spec => []TypeOK
  BY InitTypes, StepTypes, PTL DEF Spec

(***************************************************************************)
(* What one step may do to the disk.                                       *)
(***************************************************************************)
KeepsDisk ==
  pc # "prompt" =>
    /\ \A p \in Packages : pkg[p] # "absent" => pkg'[p] = pkg[p]
    /\ \A t \in Archives : bin[t] # "absent" => bin'[t] = bin[t]

(* A step of the script writes only where nothing is. *)
LEMMA StepKeepsDisk == TypeOK /\ Next => KeepsDisk
<1> SUFFICES ASSUME TypeOK, Next, pc # "prompt"
             PROVE  /\ \A p \in Packages : pkg[p] # "absent" => pkg'[p] = pkg[p]
                    /\ \A t \in Archives : bin[t] # "absent" => bin'[t] = bin[t]
  BY DEF KeepsDisk
<1>1. CASE UNCHANGED disk
  BY <1>1 DEF disk
<1>2. CASE DownloadNinja \/ DownloadCMake \/ DownloadPython
  BY <1>2 DEF DownloadNinja, DownloadCMake, DownloadPython, DownloadArtifact, TypeOK
<1>3. CASE InstallNinja
  BY <1>3 DEF InstallNinja, TypeOK, Archives
<1>4. CASE InstallCMake
  BY <1>4 DEF InstallCMake, TypeOK, Archives
<1> QED
  BY <1>1, <1>2, <1>3, <1>4
  DEF Next, Script, User, Usage, Invoke, MakeBinDir, NeedsBinary, SkipNinja, SkipCMake,
      SkipPython, Skip, ExitEarly, Continue, OpenPython, AnyKey, InstallXcode, Interrupt,
      AddToPath, FinishInstaller, RemovePackage, RemoveBinary

(* A run never touches what an earlier run left at a place it wants to use:   *)
(* whatever faults happened, a package or a binary changes only at the prompt *)
(* (setup_env.sh:99-104, 114-118, 128-132).                                   *)
THEOREM NeverOverwrittenHolds == Spec => NeverOverwritten
<1>1. TypeOK /\ [Next]_vars => [KeepsDisk]_vars
  BY StepKeepsDisk
<1> QED
  BY <1>1, SetupTypeCorrect, PTL DEF Spec, NeverOverwritten, KeepsDisk

(***************************************************************************)
(* Why a clean status 0 means both tools are there.  While the script runs *)
(* there is no status; from the probe on, a tool that is not needed is     *)
(* there; past the step that installs a tool, the tool is there unless a   *)
(* command failed.  ZeroMeansInstalled alone is not inductive: it says     *)
(* nothing of the states before the script exits.                          *)
(***************************************************************************)
Installed(t) == Usable(t) \/ bin[t] = "partial"

PastCMake == {"all_found", "python", "open", "any_key", "xcode"}
PastNinja == {"download_cmake", "install_cmake"} \cup PastCMake
PastProbe == {"download_ninja", "install_ninja"} \cup PastNinja

SetupInv ==
  /\ pc # "prompt" => exit # 0
  /\ pc \in PastProbe => \A t \in Archives : ~need[t] => Installed(t)
  /\ pc \in PastNinja /\ ~failed => Installed("ninja")
  /\ pc \in PastCMake /\ ~failed => Installed("cmake")
  /\ ZeroMeansInstalled

(* What is installed stays, until the user removes it. *)
LEMMA InstalledStays ==
  ASSUME TypeOK, [Next]_vars, NEW t \in Archives, Installed(t),
         ~(\E u \in Archives : RemoveBinary(u))
  PROVE  Installed(t)'
<1>1. system \subseteq system'
  BY DEF Next, Script, User, Usage, Invoke, MakeBinDir, NeedsBinary, SkipNinja, SkipCMake,
      SkipPython, Skip, ExitEarly, Continue, OpenPython, AnyKey, InstallXcode, Interrupt,
      DownloadNinja, DownloadCMake, DownloadPython, InstallNinja, InstallCMake,
      AddToPath, FinishInstaller, RemovePackage, user, vars
<1>2. bin[t] # "absent" => bin'[t] = bin[t]
  <2>1. CASE pc # "prompt" /\ Next
    BY <2>1, StepKeepsDisk DEF KeepsDisk
  <2>2. CASE pc = "prompt" /\ Next
    BY <2>2 DEF Next, Script, User, Usage, Invoke, MakeBinDir, NeedsBinary, SkipNinja,
        SkipCMake, SkipPython, Skip, ExitEarly, Continue, OpenPython, AnyKey, InstallXcode,
        Interrupt, DownloadNinja, DownloadCMake, DownloadPython, InstallNinja, InstallCMake,
        AddToPath, FinishInstaller, RemovePackage, disk
  <2>3. CASE UNCHANGED vars
    BY <2>3 DEF vars
  <2> QED
    BY <2>1, <2>2, <2>3
<1> QED
  BY <1>1, <1>2 DEF Installed, Usable

(* Nothing has run initially. *)
LEMMA InitSetupInv == Init => SetupInv
  BY SetupAssumption DEF Init, SetupInv, ZeroMeansInstalled, PastProbe, PastNinja, PastCMake

(* Every step keeps the reason. *)
LEMMA StepSetupInv == TypeOK /\ SetupInv /\ [Next]_vars => SetupInv'
<1> SUFFICES ASSUME TypeOK, SetupInv, [Next]_vars PROVE SetupInv'
  OBVIOUS
<1> USE SetupAssumption DEF SetupInv, PastProbe, PastNinja, PastCMake,
        ZeroMeansInstalled, Exit, Succeed, Fail, Interrupted
<1>1. CASE \E u \in Archives : RemoveBinary(u)
  BY <1>1 DEF RemoveBinary
<1> SUFFICES ASSUME ~(\E u \in Archives : RemoveBinary(u)) PROVE SetupInv'
  BY <1>1
<1>0. \A t \in Archives : Installed(t) => Installed(t)'
  BY InstalledStays
<1> DEFINE Z == Installed("ninja")' /\ Installed("cmake")'
<1>z. Z => ZeroMeansInstalled'
  BY DEF Installed, Archives
<1>2. CASE Usage \/ Invoke \/ MakeBinDir \/ Interrupt
  BY <1>2 DEF Usage, Invoke, MakeBinDir, Interrupt
<1>3. CASE NeedsBinary
  <2>1. \A t \in Archives : ~need'[t] => Installed(t)
    BY <1>3 DEF NeedsBinary, Found, Installed, Usable, Archives, Tools
  <2> QED
    BY <2>1, <1>0, <1>3 DEF NeedsBinary
<1>4. CASE SkipNinja
  BY <1>4, <1>0 DEF SkipNinja, Skip, Archives
<1>5. CASE SkipCMake
  BY <1>5, <1>0 DEF SkipCMake, Skip, Archives
<1>6. CASE DownloadNinja
  BY <1>6, <1>0 DEF DownloadNinja, DownloadArtifact, TypeOK
<1>7. CASE DownloadCMake
  BY <1>7, <1>0 DEF DownloadCMake, DownloadArtifact, TypeOK, Archives
<1>8. CASE InstallNinja
  <2>1. ~failed' /\ pc' = "download_cmake" => Installed("ninja")'
    BY <1>8 DEF InstallNinja, TypeOK, Archives, Installed, Usable, Broken
  <2> QED
    BY <1>8, <2>1, <1>0 DEF InstallNinja, TypeOK
<1>9. CASE InstallCMake
  <2>1. ~failed' /\ pc' = "all_found" => Installed("cmake")'
    BY <1>9 DEF InstallCMake, TypeOK, Archives, Installed, Usable, Broken
  <2> QED
    BY <1>9, <2>1, <1>0 DEF InstallCMake, TypeOK, Archives
<1>10. CASE ExitEarly \/ Continue
  BY <1>10, <1>0, <1>z DEF ExitEarly, Continue, Archives
<1>11. CASE SkipPython
  BY <1>11, <1>0 DEF SkipPython, Skip, Archives
<1>12. CASE DownloadPython
  BY <1>12, <1>0 DEF DownloadPython, DownloadArtifact, Archives
<1>13. CASE OpenPython \/ AnyKey
  BY <1>13, <1>0 DEF OpenPython, AnyKey, Archives
<1>14. CASE InstallXcode
  BY <1>14, <1>0, <1>z DEF InstallXcode, Archives
<1>15. CASE AddToPath \/ FinishInstaller \/ \E p \in Packages : RemovePackage(p)
  <2>1. UNCHANGED <<need, failed, pc>> /\ (exit' = exit \/ exit' = None)
    BY <1>15 DEF AddToPath, FinishInstaller, RemovePackage
  <2> QED
    BY <2>1, <1>0 DEF Archives, Installed
<1>16. CASE UNCHANGED vars
  BY <1>16 DEF vars, Installed, Usable
<1> QED
  BY <1>2, <1>3, <1>4, <1>5, <1>6, <1>7, <1>8, <1>9, <1>10, <1>11, <1>12, <1>13, <1>14,
     <1>15, <1>16 DEF Next, Script, User

(* A run that ends with status 0, none of whose commands failed, leaves       *)
(* Ninja and CMake usable or cut off by an earlier run, however many runs,    *)
(* faults and interrupts there were (setup_env.sh:110-138).                   *)
THEOREM ZeroMeansInstalledHolds == Spec => []ZeroMeansInstalled
<1>1. SetupInv => ZeroMeansInstalled
  BY DEF SetupInv
<1> QED
  BY <1>1, InitSetupInv, StepSetupInv, SetupTypeCorrect, PTL DEF Spec
=================================================================================
