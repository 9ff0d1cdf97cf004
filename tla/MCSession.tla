------------------------------ MODULE MCSession ------------------------------
(* Registrations of Session's tools for TLC: a cfg cannot write a function. *)
EXTENDS Session, TLC

Judged == "fetch" :> "policy"
Early == "kv" :> "early"
UsersAlike == Permutations(Users)
=============================================================================
