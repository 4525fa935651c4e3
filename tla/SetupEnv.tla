-------------------------------- MODULE SetupEnv --------------------------------
(***************************************************************************)
(* ch1/setup_env.sh, run any number of times by one user: it probes for    *)
(* five tools, downloads and unpacks Ninja and CMake into a prefix, and    *)
(* starts the installers of Python and Xcode.  What a run leaves on the    *)
(* disk is what the next run finds, so a run that fails or is interrupted  *)
(* matters to the runs after it.                                           *)
(***************************************************************************)
EXTENDS Naturals

CONSTANTS
  None,        \* no exit status yet
  Systems,     \* the sets of tools a system may come with
  MaxFaults    \* bound on the steps that fail or are interrupted

Tools    == {"git", "cmake", "clang", "ninja", "python3"}
Archives == {"ninja", "cmake"}
Packages == Archives \cup {"python"}
Urls     == Archives   \* python_url is not assigned anywhere

ASSUME SetupAssumption ==
  /\ Systems \subseteq SUBSET Tools /\ MaxFaults \in Nat
  /\ None \notin {0, 1, 130, 255}

VARIABLES
  system,   \* tools on the PATH that the script did not install
  onPath,   \* the user added final_bin_dir to the PATH
  pkg,      \* what is at ninja_pkg, cmake_pkg and python_pkg
  tree,     \* the cmake executable unpacked under install_prefix
  bin,      \* what is at final_bin_dir/ninja and final_bin_dir/cmake
  gui,      \* installers started and not finished
  need,     \* need_git .. need_python, TRUE for 1
  errexit,  \* the shell's -e option
  failed,   \* a command of this run returned an error
  exit,     \* the exit status of the run that ended last
  faults,   \* faults so far
  pc        \* "prompt": the script is not running

disk == <<pkg, tree, bin>>
user == <<system, onPath, gui>>
vars == <<system, onPath, pkg, tree, bin, gui, need, errexit, failed, exit, faults, pc>>

Broken == {"partial", "wrong"}   \* cut off; not the package but an error page

Init ==
  /\ system \in Systems /\ onPath = FALSE /\ gui = {}
  /\ pkg = [p \in Packages |-> "absent"] /\ tree = "absent"
  /\ bin = [t \in Archives |-> "absent"]
  /\ need = [t \in Tools |-> FALSE] /\ errexit = FALSE
  /\ failed = FALSE /\ exit = None /\ faults = 0 /\ pc = "prompt"

(***************************************************************************)
(* How a step ends.  A command that fails ends the run only under -e.      *)
(***************************************************************************)
Exit(status) == pc' = "prompt" /\ exit' = status

Succeed(next) == pc' = next /\ UNCHANGED <<exit, failed>>

Fail(next) == /\ failed' = TRUE
              /\ IF errexit THEN Exit(1) ELSE pc' = next /\ UNCHANGED exit

Interrupted == Exit(130) /\ UNCHANGED failed

Fault   == faults < MaxFaults /\ faults' = faults + 1
NoFault == UNCHANGED faults

Usage == /\ pc = "prompt"
         /\ Exit(255)
         /\ UNCHANGED <<disk, user, need, errexit, failed, faults>>

Invoke == /\ pc = "prompt"
          /\ pc' = "mkdir" /\ exit' = None
          /\ errexit' = TRUE /\ failed' = FALSE
          /\ UNCHANGED <<disk, user, need, faults>>

MakeBinDir == /\ pc = "mkdir"
              /\ \/ Succeed("probe") /\ NoFault
                 \/ Fail("probe") /\ Fault
              /\ UNCHANGED <<disk, user, need, errexit>>

(***************************************************************************)
(* needs_binary for the five tools.  It turns -e off and never on again.   *)
(* Whether a file that was cut off is already executable, which decides    *)
(* whether `which` finds it, depends on the tool that was unpacking it.    *)
(***************************************************************************)
Found(runnable) == system \cup { t \in Archives : onPath /\ (bin[t] = "good" \/ t \in runnable) }

\* mutant: the results of needs_binary are swapped
MutNeedsBinary == /\ pc = "probe"
                  /\ \E runnable \in SUBSET { t \in Archives : bin[t] = "partial" } :
                       need' = [t \in Tools |-> t \in Found(runnable)]
                  /\ errexit' = FALSE
                  /\ Succeed("download_ninja")
                  /\ UNCHANGED <<disk, user, faults>>

NeedsBinary == /\ pc = "probe"
               /\ \E runnable \in SUBSET { t \in Archives : bin[t] = "partial" } :
                    need' = [t \in Tools |-> t \notin Found(runnable)]
               /\ errexit' = FALSE
               /\ Succeed("download_ninja")
               /\ UNCHANGED <<disk, user, faults>>

(***************************************************************************)
(* download_artifact: any file at the place of the package is taken for    *)
(* it.  curl without --fail stores an error page as if it were the file;   *)
(* without a URL it stores nothing.                                        *)
(***************************************************************************)
\* mutant: what is there is downloaded again
MutDownloadArtifact(p, next) ==
  \/ p \in Urls /\ pkg' = [pkg EXCEPT ![p] = "good"] /\ Succeed(next) /\ NoFault
  \/ p \in Urls /\ pkg' = [pkg EXCEPT ![p] = "partial"] /\ Fail(next) /\ Fault
  \/ p \notin Urls /\ Fail(next) /\ NoFault /\ UNCHANGED pkg

DownloadArtifact(p, next) ==
  \/ pkg[p] # "absent" /\ Succeed(next) /\ NoFault /\ UNCHANGED pkg
  \/ pkg[p] = "absent" /\ p \notin Urls /\ Fail(next) /\ NoFault /\ UNCHANGED pkg
  \/ /\ pkg[p] = "absent" /\ p \in Urls
     /\ \/ pkg' = [pkg EXCEPT ![p] = "good"] /\ Succeed(next) /\ NoFault
        \/ pkg' = [pkg EXCEPT ![p] = "wrong"] /\ Succeed(next) /\ Fault
        \/ \E got \in {"absent", "partial"} :
             /\ pkg' = [pkg EXCEPT ![p] = got]
             /\ Fail(next) \/ Interrupted
             /\ Fault

Skip(tool, at, next) == /\ pc = at /\ ~need[tool]
                        /\ Succeed(next)
                        /\ UNCHANGED <<disk, user, need, errexit, faults>>

SkipNinja == Skip("ninja", "download_ninja", "download_cmake")
SkipCMake == Skip("cmake", "download_cmake", "all_found")

DownloadNinja == /\ pc = "download_ninja" /\ need["ninja"]
                 /\ DownloadArtifact("ninja", "install_ninja")
                 /\ UNCHANGED <<tree, bin, user, need, errexit>>

DownloadCMake == /\ pc = "download_cmake" /\ need["cmake"]
                 /\ DownloadArtifact("cmake", "install_cmake")
                 /\ UNCHANGED <<tree, bin, user, need, errexit>>

(***************************************************************************)
(* unzip reads the directory at the end of the archive first: of a package *)
(* that is not whole it unpacks nothing.                                   *)
(***************************************************************************)
\* mutant: looks for the package in place of the binary
MutInstallNinja ==
  /\ pc = "install_ninja"
  /\ \/ pkg["ninja"] # "absent" /\ Succeed("download_cmake") /\ NoFault /\ UNCHANGED bin
     \/ pkg["ninja"] = "absent" /\ Fail("download_cmake") /\ NoFault /\ UNCHANGED bin
  /\ UNCHANGED <<pkg, tree, user, need, errexit>>

\* mutant: the unzip is missing, the package is put in the binary's place as it is
MutInstallUnpacked ==
  /\ pc = "install_ninja"
  /\ \/ bin["ninja"] # "absent" /\ Succeed("download_cmake") /\ NoFault /\ UNCHANGED bin
     \/ /\ bin["ninja"] = "absent" /\ pkg["ninja"] # "absent"
        /\ bin' = [bin EXCEPT !["ninja"] = "wrong"]
        /\ Succeed("download_cmake") /\ NoFault
     \/ /\ bin["ninja"] = "absent" /\ pkg["ninja"] = "absent"
        /\ Fail("download_cmake") /\ NoFault /\ UNCHANGED bin
  /\ UNCHANGED <<pkg, tree, user, need, errexit>>

InstallNinja ==
  /\ pc = "install_ninja"
  /\ \/ bin["ninja"] # "absent" /\ Succeed("download_cmake") /\ NoFault /\ UNCHANGED bin
     \/ /\ bin["ninja"] = "absent"
        /\ \/ /\ pkg["ninja"] = "good"
              /\ bin' = [bin EXCEPT !["ninja"] = "good"]
              /\ Succeed("download_cmake") /\ NoFault
           \/ /\ pkg["ninja"] = "good"
              /\ \E got \in {"absent", "partial"} : bin' = [bin EXCEPT !["ninja"] = got]
              /\ Fail("download_cmake") \/ Interrupted
              /\ Fault
           \/ pkg["ninja"] # "good" /\ Fail("download_cmake") /\ NoFault /\ UNCHANGED bin
  /\ UNCHANGED <<pkg, tree, user, need, errexit>>

(***************************************************************************)
(* tar unpacks as it reads: a package that was cut off may give a part of  *)
(* CMake, or the executable whole.  The link goes to whatever find then    *)
(* sees under install_prefix, even after tar failed.                       *)
(***************************************************************************)
InstallCMake ==
  /\ pc = "install_cmake"
  /\ \/ bin["cmake"] # "absent" /\ Succeed("all_found") /\ NoFault /\ UNCHANGED <<tree, bin>>
     \/ /\ bin["cmake"] = "absent"
        /\ \/ /\ pkg["cmake"] = "good" /\ tree' = "good"
              /\ Succeed("all_found") /\ NoFault
           \/ /\ pkg["cmake"] = "good" /\ tree' \in {tree, "partial", "good"}
              /\ Fail("all_found") /\ Fault
           \/ /\ pkg["cmake"] = "partial" /\ tree' \in {tree, "partial", "good"}
              /\ Fail("all_found") /\ NoFault
           \/ /\ pkg["cmake"] \in {"wrong", "absent"} /\ tree' = tree
              /\ Fail("all_found") /\ NoFault
        /\ bin' = [bin EXCEPT !["cmake"] = tree']
     \/ /\ bin["cmake"] = "absent" /\ pkg["cmake"] \in {"good", "partial"}
        /\ tree' \in {tree, "partial", "good"}
        /\ Interrupted /\ Fault /\ UNCHANGED bin
  /\ UNCHANGED <<pkg, user, need, errexit>>

AllFound == ~need["python3"] /\ ~need["git"] /\ ~need["clang"]

ExitEarly == /\ pc = "all_found" /\ AllFound
             /\ Exit(0)
             /\ UNCHANGED <<disk, user, need, errexit, failed, faults>>

Continue == /\ pc = "all_found" /\ ~AllFound
            /\ \/ pc' = "python" /\ UNCHANGED exit   \* y, Y or nothing
               \/ Exit(0)                            \* n or N
               \/ Exit(255)                          \* anything else
            /\ UNCHANGED <<disk, user, need, errexit, failed, faults>>

SkipPython == Skip("python3", "python", "any_key")

DownloadPython == /\ pc = "python" /\ need["python3"]
                  /\ DownloadArtifact("python", "open")
                  /\ UNCHANGED <<tree, bin, user, need, errexit>>

\* open starts the installer of a package that is there
OpenPython == /\ pc = "open"
              /\ IF pkg["python"] = "good"
                 THEN gui' = gui \cup {"python"} /\ Succeed("any_key")
                 ELSE Fail("any_key") /\ UNCHANGED gui
              /\ UNCHANGED <<disk, system, onPath, need, errexit, faults>>

AnyKey == /\ pc = "any_key"
          /\ Succeed("xcode")
          /\ UNCHANGED <<disk, user, need, errexit, faults>>

\* the last command's failure does not change the status
InstallXcode == /\ pc = "xcode"
                /\ IF need["git"] \/ need["clang"]
                   THEN \/ gui' = gui \cup {"xcode"} /\ UNCHANGED failed /\ NoFault
                        \/ failed' = TRUE /\ UNCHANGED gui /\ Fault
                   ELSE UNCHANGED <<gui, failed>> /\ NoFault
                /\ Exit(0)
                /\ UNCHANGED <<disk, system, onPath, need, errexit>>

\* control-C between two commands, or at a question
Interrupt == /\ pc # "prompt"
             /\ Interrupted /\ Fault
             /\ UNCHANGED <<disk, user, need, errexit>>

Script == \/ Usage \/ Invoke \/ MakeBinDir \/ NeedsBinary
          \/ SkipNinja \/ DownloadNinja \/ InstallNinja
          \/ SkipCMake \/ DownloadCMake \/ InstallCMake
          \/ ExitEarly \/ Continue
          \/ SkipPython \/ DownloadPython \/ OpenPython \/ AnyKey \/ InstallXcode
          \/ Interrupt

(***************************************************************************)
(* What the user does between runs, on the advice the script prints.  A    *)
(* status says nothing of a disk changed by hand: exit is forgotten.       *)
(***************************************************************************)
AddToPath == /\ pc = "prompt" /\ ~onPath
             /\ onPath' = TRUE
             /\ UNCHANGED <<disk, system, gui, need, errexit, failed, exit, faults, pc>>

RemovePackage(p) == /\ pc = "prompt" /\ pkg[p] \in Broken
                    /\ pkg' = [pkg EXCEPT ![p] = "absent"]
                    /\ exit' = None
                    /\ UNCHANGED <<tree, bin, user, need, errexit, failed, faults, pc>>

RemoveBinary(t) == /\ pc = "prompt" /\ bin[t] = "partial"
                   /\ bin' = [bin EXCEPT ![t] = "absent"]
                   /\ exit' = None
                   /\ UNCHANGED <<pkg, tree, user, need, errexit, failed, faults, pc>>

\* an installer ends whenever it likes, a run of the script or not
FinishInstaller == /\ gui # {}
                   /\ gui' = {}
                   /\ system' = system \cup (IF "xcode" \in gui THEN {"git", "clang"} ELSE {})
                                       \cup (IF "python" \in gui THEN {"python3"} ELSE {})
                   /\ UNCHANGED <<disk, onPath, need, errexit, failed, exit, faults, pc>>

User == \/ AddToPath \/ FinishInstaller
        \/ \E p \in Packages : RemovePackage(p)
        \/ \E t \in Archives : RemoveBinary(t)

Next == Script \/ User

(***************************************************************************)
(* The script goes on while it runs; the user runs it again and again, and *)
(* does remove what is broken.                                             *)
(***************************************************************************)
Fairness == /\ WF_vars(pc # "prompt" /\ Script)
            /\ WF_vars(Invoke)
            /\ \A p \in Packages : SF_vars(RemovePackage(p))
            /\ \A t \in Archives : SF_vars(RemoveBinary(t))

Spec == Init /\ [][Next]_vars /\ Fairness

(***************************************************************************)
(* Properties                                                              *)
(***************************************************************************)

Usable(t) == t \in system \/ bin[t] = "good"

(* The types of the variables.  A package may be an error page that was      *)
(* stored as if it were the file; what is unpacked or installed never is: it *)
(* is there whole, cut off, or not at all (setup_env.sh:114-133).            *)
TypeOK ==
  /\ system \subseteq Tools /\ onPath \in BOOLEAN /\ gui \subseteq {"python", "xcode"}
  /\ pkg \in [Packages -> {"absent", "good"} \cup Broken]
  /\ tree \in {"absent", "partial", "good"}
  /\ bin \in [Archives -> {"absent", "partial", "good"}]
  /\ need \in [Tools -> BOOLEAN] /\ errexit \in BOOLEAN /\ failed \in BOOLEAN
  /\ exit \in {None, 0, 1, 130, 255} /\ faults \in 0 .. MaxFaults
  /\ pc \in {"prompt", "mkdir", "probe", "download_ninja", "install_ninja",
             "download_cmake", "install_cmake", "all_found", "python", "open",
             "any_key", "xcode"}

(* A run never touches what an earlier run downloaded or installed           *)
(* (setup_env.sh:99-104, 114-118, 128-132), whole or cut off: a package or a *)
(* binary that is there changes only at the prompt.                          *)
NeverOverwritten ==
  [][pc # "prompt" =>
       /\ \A p \in Packages : pkg[p] # "absent" => pkg'[p] = pkg[p]
       /\ \A t \in Archives : bin[t] # "absent" => bin'[t] = bin[t]]_vars

(* A run that ends with status 0 and in which no command failed leaves Ninja *)
(* and CMake usable, whatever the runs before it left behind; the one        *)
(* exception is a binary cut off earlier, which the -f tests of              *)
(* setup_env.sh:114 and 128 take for an installed one.                       *)
ZeroMeansInstalled ==
  pc = "prompt" /\ exit = 0 /\ ~failed =>
    \A t \in Archives : Usable(t) \/ bin[t] = "partial"

(* A user who removes what is broken, as the script advises                  *)
(* (setup_env.sh:102, 116, 130), and runs the script again gets Ninja and    *)
(* CMake, whatever failed or was interrupted before.                         *)
Recovers == <>[](\A t \in Archives : Usable(t))

(* "Exit if any command fails." (setup_env.sh:5): no run in which a command  *)
(* failed ends with status 0.                                                *)
ExitOnFailure == pc = "prompt" /\ exit = 0 => ~failed
=================================================================================
