------------------------------- MODULE MCHooks -------------------------------
(* Which calls call back into the program, for TLC. *)
EXTENDS Hooks

\* every tool may make any call from inside
AllCallBack == [c \in Calls |-> Calls]
=============================================================================
