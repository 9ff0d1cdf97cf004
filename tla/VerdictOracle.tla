---------------------------- MODULE VerdictOracle ----------------------------
(***************************************************************************)
(* What a caller of JudgeWorker is promised (worker.py, "Guarantees"): a   *)
(* request is answered once, for good, by what its judge said or by a      *)
(* refusal; after close, new requests are refused at once.                 *)
(***************************************************************************)
CONSTANT Requests
VARIABLES
  open,    \* requests are taken
  said,    \* what the judge said of each request
  answer   \* what the caller of each request was told

vars == <<open, said, answer>>

Init == /\ open = TRUE
        /\ said = [r \in Requests |-> "none"]
        /\ answer = [r \in Requests |-> "none"]

Ask(r) ==
  /\ answer[r] = "none"
  /\ answer' = [answer EXCEPT ![r] = IF open THEN "pending" ELSE "refused"]
  /\ UNCHANGED <<open, said>>

\* a judge may speak too late
Say(r) ==
  /\ answer[r] # "none" /\ said[r] = "none"
  /\ \E v \in {"yes", "no", "raised", "exited"} : said' = [said EXCEPT ![r] = v]
  /\ UNCHANGED <<open, answer>>

\* only the judge's own word allows a call
Answer(r) ==
  /\ answer[r] = "pending"
  /\ \E v \in {"refused"} \cup ({said[r]} \cap {"yes", "no"}) : answer' = [answer EXCEPT ![r] = v]
  /\ UNCHANGED <<open, said>>

Close == open /\ open' = FALSE /\ UNCHANGED <<said, answer>>

Next == Close \/ \E r \in Requests : Ask(r) \/ Say(r) \/ Answer(r)

Spec == Init /\ [][Next]_vars
=============================================================================
