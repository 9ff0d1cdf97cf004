----------------------------- MODULE PlainRepl -----------------------------
(***************************************************************************)
(* What a turn of SpecRepl promises the program it runs (repl.py, module    *)
(* docstring): the code runs once, in program order, and every call sees    *)
(* the effects of exactly the state-changing calls the program made before  *)
(* it.  No planner, no early starts, no threads.                            *)
(***************************************************************************)
EXTENDS Naturals, Sequences, FiniteSets

CONSTANTS Programs, Always, Judged

VARIABLES
  prog,      \* the program
  at, nth,   \* the next statement, and the next call in it
  history,   \* the calls made: key, whether it may change state, writes it has seen
  outcome    \* "none" until the turn ends

vars == <<prog, at, nth, history, outcome>>

Statement == prog.stmts[at]
Writes == Cardinality({j \in DOMAIN history : history[j].writes})

Init == /\ prog \in Programs /\ at = 1 /\ nth = 1
        /\ history = << >> /\ outcome = "none"

Live == outcome = "none" /\ at <= Len(prog.stmts)

\* the next call of the program; it may raise, which ends the turn unless caught
Call ==
  /\ Live /\ nth <= Len(Statement.runs)
  /\ \E writes \in BOOLEAN :
       /\ IF writes THEN Statement.runs[nth] \notin Always /\ prog.parses
                    ELSE Statement.runs[nth] \in Always \cup Judged
       /\ history' = Append(history, [key |-> Statement.runs[nth], writes |-> writes,
                                      world |-> Writes])
  /\ \/ nth' = nth + 1 /\ UNCHANGED outcome
     \/ ~Statement.swallows /\ outcome' = "error" /\ UNCHANGED nth
  /\ UNCHANGED <<prog, at>>

\* a call the turn refuses to make raises; only a bare `except:` goes on
Refuse ==
  /\ Live /\ nth <= Len(Statement.runs)
  /\ IF Statement.swallows THEN nth' = nth + 1 /\ UNCHANGED outcome
                           ELSE outcome' \in {"error", "aborted"} /\ UNCHANGED nth
  /\ UNCHANGED <<prog, at, history>>

Finish ==
  /\ Live /\ nth > Len(Statement.runs)
  /\ IF Statement.fails THEN outcome' = "error" /\ UNCHANGED <<at, nth>>
                        ELSE at' = at + 1 /\ nth' = 1 /\ UNCHANGED outcome
  /\ UNCHANGED <<prog, history>>

\* between statements: the end of the program, or of a turn that was aborted
Stop ==
  /\ outcome = "none" /\ nth = 1
  /\ \/ at > Len(prog.stmts) /\ prog.parses /\ outcome' = "ok"
     \/ outcome' = "aborted"
  /\ UNCHANGED <<prog, at, nth, history>>

Next == Call \/ Refuse \/ Finish \/ Stop

Spec == Init /\ [][Next]_vars
=============================================================================
