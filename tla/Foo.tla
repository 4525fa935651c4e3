----------------------------------- MODULE Foo -----------------------------------
(***************************************************************************)
(* The C function the exercises of ch3 lower by hand, as the comments of   *)
(* ch3/llvm_ir and ch3/machineir give it:                                  *)
(*     void foo(int a, int b) {                                            *)
(*       int var = a + b;                                                  *)
(*       if (var == 0xFF) { bar(var); var = baz(); }                       *)
(*       bar(var);                                                         *)
(*     }                                                                   *)
(* What a caller sees of it is the sequence of its calls.                  *)
(***************************************************************************)
EXTENDS Naturals, Sequences

CONSTANTS
  Word,         \* int
  Plus(_, _),   \* its addition, which wraps round
  Magic,        \* 0xFF
  None          \* no value yet

VARIABLES
  a, b,   \* the arguments
  var,    \* the local variable
  line,   \* "add", "test", "bar", "baz", "last_bar" or "end"
  calls   \* the calls made, each with its argument or its result

fvars == <<a, b, var, line, calls>>

Call(f, v) == calls' = Append(calls, <<f, v>>)

FInit == /\ a \in Word /\ b \in Word
         /\ var = None /\ line = "add" /\ calls = <<>>

Add == /\ line = "add" /\ line' = "test"
       /\ var' = Plus(a, b)
       /\ UNCHANGED <<a, b, calls>>

Test == /\ line = "test"
        /\ line' = IF var = Magic THEN "bar" ELSE "last_bar"
        /\ UNCHANGED <<a, b, var, calls>>

Bar == /\ line = "bar" /\ line' = "baz"
       /\ Call("bar", var)
       /\ UNCHANGED <<a, b, var>>

Baz == /\ line = "baz" /\ line' = "last_bar"
       /\ var' \in Word
       /\ Call("baz", var')
       /\ UNCHANGED <<a, b>>

LastBar == /\ line = "last_bar" /\ line' = "end"
           /\ Call("bar", var)
           /\ UNCHANGED <<a, b, var>>

FNext == Add \/ Test \/ Bar \/ Baz \/ LastBar

FSpec == FInit /\ [][FNext]_fvars
===================================================================================
