------------------------------ MODULE MCPassManager ------------------------------
(* The programs of ch5, the drivers of ch3 and ch10/use_after_free on two functions. *)
EXTENDS PassManager

CONSTANTS f, g
MCFun == {f, g}
MCLayout == <<f, g>>

MCPass == {"SolutionConstantPropagation", "YourTurnConstantPropagation", "Hello", "PrintFnStats",
           "Dump", "CountGlobals", "LocalConstProp", "Promote", "InstCombine", "AlwaysInliner"}

Program(main, withs) == { [main |-> main, with |-> w] : w \in withs }

FunctionGroups == SeqOf({"fn-stats", "mem2reg", "local-constprop"}, 3) \ {<<>>}

\* run.sh: command lines, the user's variables, and two hosts
CommandLines ==
  SeqOf({"-p", "--", "-v", "hello-func", "main.ll"}, 3)
  \cup { <<"-p", "hello-func", "-p", "fn-stats">>, <<"-o", "-p", "fn-stats">>, <<"-p", "-o", "-h">>,
         <<"--legacy", "-p", "main.ll">>, <<"-x">>, <<"-s", "./out", "-p", "fn-stats", "main.ll">>,
         <<"-O", "opt-14", "-b", "Other">>, <<"--", "-p", "fn-stats", "main.ll">> }
\* command lines with a pipeline of their own, whatever the environment says
Overrides == { <<"-p", "hello-func">>, <<"-p", "--", "-p", "fn-stats">>, <<"-v", "-p", "fn-stats", "main.ll">> }

Environment(dir, pipeline) ==
  [SRC_DIR |-> dir, LIB_BASE |-> None, PIPELINE |-> pipeline, INPUT |-> None, OPT_BIN |-> None]
Host(major) ==
  [ commands |-> {"opt", "opt-14"}, working |-> {"opt"}, readable |-> {"./test.ll", "main.ll"},
    plugins |-> {<<"./build", "MyFirstPass">>, <<"./out", "MyFirstPass">>}, version |-> major ]

Script == { [main |-> "run.sh", with |-> w, env |-> Environment(d, None), host |-> Host(v)] :
              w \in CommandLines, d \in {None, "./gone"}, v \in {None, 10} }
          \cup { [main |-> "run.sh", with |-> w, env |-> Environment(None, p), host |-> Host(None)] :
                   w \in Overrides, p \in {"hello-func", "mem2reg"} }

MCPrograms ==
  Script \cup Program("your_first_pass", {<<>>, <<"legacy">>, <<"new">>, <<"legacy", "new">>})
  \cup Program("your_first_pipeline", {<<>>, <<"USE_MODULE_MGR">>})
  \cup Program("RunPipeline", {<<>>})
  \cup Program("opt", { <<<<"module-count-globals">>, <<"hello-func", "fn-stats">>, fs>> : fs \in FunctionGroups }
                      \cup { <<fs, <<"always-inline">>, <<"fn-stats">>>> : fs \in FunctionGroups })
  \cup Program("llvm_ir", {<<>>})
  \cup Program("machineir", {<<>>})
  \cup Program("use_after_free", {<<>>})

\* the user's PIPELINE, and no -p
MCPipelineSet == { [main |-> "run.sh", with |-> w, env |-> Environment(None, "hello-func"), host |-> Host(None)] :
                     w \in { <<>>, <<"-v">>, <<"main.ll">> } }

MCLogged == Program("RunPipeline", {<<>>})
==================================================================================
