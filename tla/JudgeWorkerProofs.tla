-------------------------- MODULE JudgeWorkerProofs --------------------------
(***************************************************************************)
(* Theorems about JudgeWorker, for any number of requests, any mix of      *)
(* judges, any concurrency, and every fault.                               *)
(***************************************************************************)
EXTENDS JudgeWorker, TLAPS

\* The request in hand, and no other, is between the two halves of _finish, and
\* a verdict in hand is the judge's own.
HandInv ==
  /\ \A r \in Requests : at[r] = "settling" <=> r = hand
  /\ hand # Nobody /\ decision \in {"yes", "no", "exited"} => said[hand] = decision

\* A request is known to the worker from its submission on.
SubmitInv ==
  \A r \in Requests : /\ future[r] = "none" <=> at[r] = "none"
                      /\ at[r] = "none" => thread[r] = "none" /\ said[r] = "none"

\* What each stage of close has achieved.
CloseInv ==
  /\ closed <=> closer # "none"
  /\ closed => outstanding = {}
  /\ closer # "settling" => sweep = {}
  /\ loop \in {"stopping", "unwinding", "closed"} => closer \in {"joining", "returned"}
  /\ loop = "closed" => hand = Nobody

WorkerInv == TypeOK /\ HandInv /\ SubmitInv /\ CloseInv /\ NothingLost

-----------------------------------------------------------------------------

LEMMA WorkerInit == Init => WorkerInv
BY Kinds DEF Init, WorkerInv, TypeOK, HandInv, SubmitInv, CloseInv, NothingLost, Labels

LEMMA SubmitStep ==
  ASSUME WorkerInv, NEW r \in Requests, SubmitRefused(r) \/ SubmitAdds(r) \/ SubmitPosts(r)
  PROVE  WorkerInv'
<1>. USE Kinds DEF WorkerInv, closing, judging, finishing, tasks, Goes, Settled, Labels
<1>1. CASE SubmitRefused(r)
  BY <1>1 DEF SubmitRefused, TypeOK, HandInv, SubmitInv, CloseInv, NothingLost
<1>2. CASE SubmitAdds(r)
  BY <1>2 DEF SubmitAdds, TypeOK, HandInv, SubmitInv, CloseInv, NothingLost
<1>3. CASE SubmitPosts(r)
  BY <1>3 DEF SubmitPosts, TypeOK, HandInv, SubmitInv, CloseInv, NothingLost
<1>. QED
  BY <1>1, <1>2, <1>3

LEMMA CloseStep ==
  ASSUME WorkerInv, Close
  PROVE  WorkerInv'
<1>. USE Kinds DEF WorkerInv, closing, judging, finishing, tasks, Settled, Labels
<1>1. CASE CloseBegins
  BY <1>1 DEF CloseBegins, Pending, TypeOK, HandInv, SubmitInv, CloseInv, NothingLost
<1>2. CASE CloseSettles
  BY <1>2 DEF CloseSettles, TypeOK, HandInv, SubmitInv, CloseInv, NothingLost
<1>3. CASE ClosePosts
  BY <1>3 DEF ClosePosts, TypeOK, HandInv, SubmitInv, CloseInv, NothingLost
<1>4. CASE CloseReturns
  BY <1>4 DEF CloseReturns, TypeOK, HandInv, SubmitInv, CloseInv, NothingLost
<1>. QED
  BY <1>1, <1>2, <1>3, <1>4 DEF Close

\* _finish takes a request off the list and into the loop's hand.
LEMMA FinishStep ==
  ASSUME WorkerInv, NEW r \in Requests, NEW d \in {"yes", "no", "refused", "exited"},
         Free, at[r] \notin {"none", "settling"}, Finish(r, d),
         d \in {"yes", "no", "exited"} => said[r] = d,
         UNCHANGED <<closing, future, cancelled, late, judging, loop>>
  PROVE  WorkerInv'
BY Kinds DEF Finish, Free, Goes, WorkerInv, closing, judging, Labels,
   TypeOK, HandInv, SubmitInv, CloseInv, NothingLost

LEMMA TaskStep ==
  ASSUME WorkerInv, NEW r \in Requests,
         \/ DrainTakes(r) \/ TaskStarts(r) \/ TaskNeverStarts(r) \/ TaskAsks(r)
         \/ TaskTimesOut(r) \/ TaskCancelled(r) \/ TaskAnswered(r)
  PROVE  WorkerInv'
\* a step that only moves the request on
<1>1. ASSUME NEW label \in Labels \ {"none", "settling"}, Goes(r, label), at[r] \notin {"none", "settling"},
             UNCHANGED <<closing, outstanding, future, cancelled, late, judging, finishing, loop>>
      PROVE  WorkerInv'
  BY <1>1, Kinds DEF Goes, WorkerInv, closing, judging, finishing, Labels,
     TypeOK, HandInv, SubmitInv, CloseInv, NothingLost
<1>2. CASE DrainTakes(r)
  BY <1>1, <1>2 DEF DrainTakes, Labels
<1>3. CASE TaskStarts(r)
  <2>1. CASE r \in late
    BY <1>3, <2>1, FinishStep DEF TaskStarts
  <2>2. CASE r \notin late
    BY <1>1, <1>3, <2>2 DEF TaskStarts, Labels
  <2>. QED
    BY <2>1, <2>2
<1>4. CASE TaskNeverStarts(r)
  BY <1>1, <1>4 DEF TaskNeverStarts, Labels
<1>5. CASE TaskAsks(r)
  <2>1. CASE r \in Sync /\ closer = "returned"
    BY <1>5, <2>1, FinishStep DEF TaskAsks, judging
  <2>2. CASE ~(r \in Sync /\ closer = "returned")
    BY <1>5, <2>2, Kinds DEF TaskAsks, Goes, WorkerInv, closing, judging, finishing, Labels,
       TypeOK, HandInv, SubmitInv, CloseInv, NothingLost
  <2>. QED
    BY <2>1, <2>2
<1>6. CASE TaskTimesOut(r)
  BY <1>6, FinishStep DEF TaskTimesOut, TimesOut
<1>7. CASE TaskCancelled(r)
  BY <1>7, FinishStep DEF TaskCancelled
<1>8. CASE TaskAnswered(r)
  <2>1. Decided(r) \in {"yes", "no", "refused", "exited"}
        /\ (Decided(r) \in {"yes", "no", "exited"} => said[r] = Decided(r))
    BY DEF Decided
  <2>. QED
    BY <1>8, <2>1, FinishStep DEF TaskAnswered
<1>. QED
  BY <1>2, <1>3, <1>4, <1>5, <1>6, <1>7, <1>8

LEMMA SettlesStep ==
  ASSUME WorkerInv, Settles
  PROVE  WorkerInv'
BY Kinds DEF Settles, Settled, Goes, WorkerInv, closing, judging, Labels,
   TypeOK, HandInv, SubmitInv, CloseInv, NothingLost

LEMMA LoopStep ==
  ASSUME WorkerInv, StopRuns \/ LoopUnwinds \/ LoopCloses
  PROVE  WorkerInv'
<1>. USE Kinds DEF WorkerInv, closing, judging, finishing, tasks, Labels, Free, Started, Leftovers
<1>1. CASE StopRuns
  BY <1>1 DEF StopRuns, TypeOK, HandInv, SubmitInv, CloseInv, NothingLost
<1>2. CASE LoopUnwinds
  BY <1>2 DEF LoopUnwinds, TypeOK, HandInv, SubmitInv, CloseInv, NothingLost
<1>3. CASE LoopCloses
  BY <1>3 DEF LoopCloses, TypeOK, HandInv, SubmitInv, CloseInv, NothingLost
<1>. QED
  BY <1>1, <1>2, <1>3

LEMMA EnvironmentStep ==
  ASSUME WorkerInv, Environment
  PROVE  WorkerInv'
<1>. USE Kinds DEF WorkerInv, closing, judging, finishing, tasks, Labels
<1>1. CASE DeadlinePasses
  BY <1>1 DEF DeadlinePasses, TypeOK, HandInv, SubmitInv, CloseInv, NothingLost
<1>2. CASE PoolBegins
  BY <1>2 DEF PoolBegins, TypeOK, HandInv, SubmitInv, CloseInv, NothingLost
<1>3. CASE PoolDrops
  BY <1>3 DEF PoolDrops, TypeOK, HandInv, SubmitInv, CloseInv, NothingLost
<1>4. CASE JudgeSays
  BY <1>4 DEF JudgeSays, TypeOK, HandInv, SubmitInv, CloseInv, NothingLost
<1>. QED
  BY <1>1, <1>2, <1>3, <1>4 DEF Environment

LEMMA WorkerStep == WorkerInv /\ [Next]_vars => WorkerInv'
<1>. SUFFICES ASSUME WorkerInv, [Next]_vars PROVE WorkerInv'
  OBVIOUS
<1>1. CASE UNCHANGED vars
  BY <1>1 DEF vars, closing, judging, finishing, tasks, WorkerInv, TypeOK, HandInv, SubmitInv,
     CloseInv, NothingLost
<1>. QED
  BY <1>1, SubmitStep, CloseStep, TaskStep, SettlesStep, LoopStep, EnvironmentStep
  DEF Next, Submit, Loop

\* The worker's state is always well formed, and no request is ever lost.
THEOREM WorkerCorrect == Spec => []WorkerInv
BY WorkerInit, WorkerStep, PTL DEF Spec

\* Every reachable state is well formed.
THEOREM TypeSafe == Spec => []TypeOK
<1>1. WorkerInv => TypeOK
  BY DEF WorkerInv
<1>. QED
  BY <1>1, WorkerCorrect, PTL

\* Nothing is lost: whoever is not settled is where somebody will settle it.
THEOREM NeverLost == Spec => []NothingLost
<1>1. WorkerInv => NothingLost
  BY DEF WorkerInv
<1>. QED
  BY <1>1, WorkerCorrect, PTL

\* Once close has stopped the loop every request ever made is settled.
THEOREM CloseSettlesEverything == Spec => []ClosedSettlesAll
<1>1. WorkerInv => ClosedSettlesAll
  BY Kinds DEF WorkerInv, CloseInv, NothingLost, ClosedSettlesAll
<1>. QED
  BY <1>1, WorkerCorrect, PTL

-----------------------------------------------------------------------------
(* The worker implements the oracle. *)

LEMMA OracleInit == Init => Oracle!Init
BY DEF Init, Oracle!Init

\* Settling a request answers it, or finds it answered.
LEMMA OracleSettles ==
  ASSUME WorkerInv, NEW r \in Requests, NEW d \in {"yes", "no", "refused"},
         d # "refused" => said[r] = d,
         future' = Settled(r, d), UNCHANGED <<closed, said>>
  PROVE  Oracle!Next \/ UNCHANGED Oracle!vars
<1>1. CASE future[r] = "pending"
  <2>1. d \in {"refused"} \cup ({said[r]} \cap {"yes", "no"})
    OBVIOUS
  <2>2. Oracle!Answer(r)
    BY <1>1, <2>1 DEF Settled, Oracle!Answer
  <2>. QED
    BY <2>2 DEF Oracle!Next
<1>2. CASE future[r] # "pending"
  BY <1>2 DEF Settled, Oracle!vars
<1>. QED
  BY <1>1, <1>2

LEMMA OracleStep == WorkerInv /\ [Next]_vars => Oracle!Next \/ UNCHANGED Oracle!vars
<1>. SUFFICES ASSUME WorkerInv, [Next]_vars PROVE Oracle!Next \/ UNCHANGED Oracle!vars
  OBVIOUS
<1>. USE DEF closing, judging, finishing, tasks
<1>1. ASSUME UNCHANGED <<closed, future, said>>
      PROVE  UNCHANGED Oracle!vars
  BY <1>1 DEF Oracle!vars
<1>2. ASSUME NEW r \in Requests, SubmitRefused(r) \/ SubmitAdds(r)
      PROVE  Oracle!Next
  <2>1. future[r] = "none" /\ UNCHANGED <<closed, said>>
        /\ future' = [future EXCEPT ![r] = IF ~closed THEN "pending" ELSE "refused"]
    BY <1>2 DEF SubmitRefused, SubmitAdds, WorkerInv, SubmitInv
  <2>2. Oracle!Ask(r)
    BY <2>1 DEF Oracle!Ask
  <2>. QED
    BY <2>2 DEF Oracle!Next
<1>3. ASSUME NEW r \in Requests, SubmitPosts(r)
      PROVE  Oracle!Next \/ UNCHANGED Oracle!vars
  BY <1>1, <1>3, OracleSettles DEF SubmitPosts
<1>4. CASE CloseBegins
  <2>1. Oracle!Close
    BY <1>4 DEF CloseBegins, WorkerInv, TypeOK, Oracle!Close
  <2>. QED
    BY <2>1 DEF Oracle!Next
<1>5. CASE CloseSettles
  BY <1>5, OracleSettles DEF CloseSettles, WorkerInv, TypeOK
<1>6. CASE ClosePosts \/ CloseReturns
  BY <1>1, <1>6 DEF ClosePosts, CloseReturns
<1>7. CASE Settles
  <2>. DEFINE d == IF decision = "exited" THEN "refused" ELSE decision
  <2>1. hand \in Requests /\ d \in {"yes", "no", "refused"} /\ (d # "refused" => said[hand] = d)
    BY <1>7 DEF Settles, WorkerInv, TypeOK, HandInv
  <2>2. future' = Settled(hand, d) /\ UNCHANGED <<closed, said>>
    BY <1>7 DEF Settles
  <2>. HIDE DEF d
  <2>. QED
    BY <2>1, <2>2, OracleSettles
<1>8. ASSUME NEW r \in Requests,
             \/ DrainTakes(r) \/ TaskStarts(r) \/ TaskNeverStarts(r) \/ TaskAsks(r)
             \/ TaskTimesOut(r) \/ TaskCancelled(r) \/ TaskAnswered(r)
      PROVE  UNCHANGED Oracle!vars
  BY <1>1, <1>8 DEF DrainTakes, TaskStarts, TaskNeverStarts, TaskAsks, TaskTimesOut,
     TaskCancelled, TaskAnswered
<1>9. CASE StopRuns \/ LoopUnwinds \/ LoopCloses
  BY <1>1, <1>9 DEF StopRuns, LoopUnwinds, LoopCloses
<1>10. CASE DeadlinePasses \/ PoolBegins \/ PoolDrops
  BY <1>1, <1>10 DEF DeadlinePasses, PoolBegins, PoolDrops
<1>11. CASE JudgeSays
  <2>1. PICK r \in Requests, v \in {"yes", "no", "raised", "exited"} :
          /\ said[r] = "none" /\ said' = [said EXCEPT ![r] = v]
          /\ thread[r] = "running" \/ at[r] = "asking"
          /\ UNCHANGED <<closed, future>>
    BY <1>11 DEF JudgeSays
  <2>2. future[r] # "none"
    BY <2>1 DEF WorkerInv, SubmitInv
  <2>3. Oracle!Say(r)
    BY <2>1, <2>2 DEF Oracle!Say
  <2>. QED
    BY <2>3 DEF Oracle!Next
<1>12. CASE UNCHANGED vars
  BY <1>1, <1>12 DEF vars
<1>. QED
  BY <1>2, <1>3, <1>4, <1>5, <1>6, <1>7, <1>8, <1>9, <1>10, <1>11, <1>12, Zenon
  DEF Next, Submit, Close, Loop, Environment

\* Whatever callers see of the worker they could see of the oracle: one answer
\* for each request, the judge's own word or a refusal.
THEOREM ImplementsOracle == Spec => OracleSpec
<1>1. Spec => Oracle!Init /\ [][Oracle!Next]_(Oracle!vars)
  BY OracleInit, OracleStep, WorkerCorrect, PTL DEF Spec
<1>. QED
  BY <1>1 DEF OracleSpec, Oracle!Spec

-----------------------------------------------------------------------------

\* A request on its way to a refusal has a cause for it.
Cause(r) == closed \/ r \in late \/ said[r] \in {"raised", "exited"}
CauseInv ==
  /\ RefusedForCause
  /\ hand # Nobody /\ decision \in {"refused", "exited"} => Cause(hand)
  /\ cancelled # {} => closed
  /\ \A r \in Requests : PoolForgot(r) => closed

\* A cause stays one.
LEMMA CauseStays ==
  ASSUME WorkerInv, [Next]_vars, NEW r \in Requests, Cause(r)
  PROVE  Cause(r)'
<1>. USE DEF closing, judging, finishing, tasks, Cause
<1>1. CASE Submit
  BY <1>1 DEF Submit, SubmitRefused, SubmitAdds, SubmitPosts
<1>2. CASE Close
  BY <1>2 DEF Close, CloseBegins, CloseSettles, ClosePosts, CloseReturns
<1>3. CASE Loop
  <2>1. UNCHANGED <<closed, late, said>>
    BY <1>3, Zenon DEF Loop, DrainTakes, TaskStarts, TaskNeverStarts, TaskAsks, TaskTimesOut,
       TaskCancelled, TaskAnswered, Settles, StopRuns, LoopUnwinds, LoopCloses
  <2>. QED
    BY <2>1
<1>4. CASE Environment
  BY <1>4 DEF Environment, DeadlinePasses, PoolBegins, PoolDrops, JudgeSays, WorkerInv, TypeOK
<1>5. CASE UNCHANGED vars
  BY <1>5 DEF vars
<1>. QED
  BY <1>1, <1>2, <1>3, <1>4, <1>5 DEF Next

LEMMA CauseStep ==
  ASSUME WorkerInv, CauseInv, [Next]_vars
  PROVE  CauseInv'
<1>. USE DEF closing, judging, finishing, tasks
<1>1. \A r \in Requests : Cause(r) => Cause(r)'
  BY CauseStays
<1>2. ASSUME UNCHANGED finishing
      PROVE  hand' # Nobody /\ decision' \in {"refused", "exited"} => Cause(hand)'
  BY <1>1, <1>2 DEF CauseInv, WorkerInv, TypeOK
<1>3. CASE Submit
  <2>1. PICK r \in Requests : SubmitRefused(r) \/ SubmitAdds(r) \/ SubmitPosts(r)
    BY <1>3 DEF Submit
  <2>2. RefusedForCause'
    <3>1. \A q \in Requests : future'[q] = "refused" => future[q] = "refused" \/ closed
      BY <2>1 DEF SubmitRefused, SubmitAdds, SubmitPosts, Settled, WorkerInv, TypeOK, CloseInv
    <3>2. closed' = closed
      BY <2>1 DEF SubmitRefused, SubmitAdds, SubmitPosts
    <3>. QED
      BY <1>1, <3>1, <3>2 DEF CauseInv, RefusedForCause, Cause
  <2>3. UNCHANGED finishing
    BY <2>1 DEF SubmitRefused, SubmitAdds, SubmitPosts
  <2>4. /\ cancelled' # {} => closed'
        /\ \A q \in Requests : PoolForgot(q)' => closed'
    BY <2>1 DEF SubmitRefused, SubmitAdds, SubmitPosts, Goes, CauseInv, PoolForgot, WorkerInv, TypeOK
  <2>. QED
    BY <1>2, <2>2, <2>3, <2>4 DEF CauseInv, RefusedForCause
<1>4. CASE Close
  <2>1. closed' /\ UNCHANGED finishing
    BY <1>4 DEF Close, CloseBegins, CloseSettles, ClosePosts, CloseReturns, WorkerInv, CloseInv
  <2>. QED
    BY <1>2, <2>1 DEF CauseInv, RefusedForCause
<1>5. ASSUME NEW r \in Requests, NEW d \in {"yes", "no", "refused", "exited"},
             Finish(r, d), d \in {"refused", "exited"} => Cause(r),
             UNCHANGED <<closed, future, cancelled, late, judging>>
      PROVE  CauseInv'
  BY <1>1, <1>5 DEF CauseInv, RefusedForCause, Cause, PoolForgot, Finish, Goes, WorkerInv, TypeOK
<1>6. ASSUME NEW r \in Requests, NEW label \in {"born", "slot", "over"}, Goes(r, label),
             UNCHANGED <<closed, future, cancelled, late, judging, finishing>>
      PROVE  CauseInv'
  BY <1>6 DEF CauseInv, RefusedForCause, Cause, PoolForgot, Goes, WorkerInv, TypeOK
<1>7. ASSUME NEW r \in Requests, DrainTakes(r) \/ TaskStarts(r) \/ TaskNeverStarts(r)
      PROVE  CauseInv'
  <2>1. CASE DrainTakes(r) \/ TaskNeverStarts(r)
    BY <1>6, <2>1 DEF DrainTakes, TaskNeverStarts
  <2>2. CASE TaskStarts(r) /\ r \in late
    BY <1>5, <2>2 DEF TaskStarts, Cause
  <2>3. CASE TaskStarts(r) /\ r \notin late
    BY <1>6, <2>3 DEF TaskStarts
  <2>. QED
    BY <1>7, <2>1, <2>2, <2>3
<1>8. ASSUME NEW r \in Requests, TaskAsks(r)
       PROVE  CauseInv'
  <2>1. CASE r \in Sync /\ closer = "returned"
    <3>1. closed
      BY <2>1 DEF WorkerInv, CloseInv
    <3>. QED
      BY <1>5, <1>8, <2>1, <3>1 DEF TaskAsks, Cause
  <2>2. CASE ~(r \in Sync /\ closer = "returned")
    BY <1>8, <2>2 DEF TaskAsks, CauseInv, RefusedForCause, Cause, PoolForgot, Goes, WorkerInv, TypeOK
  <2>. QED
    BY <2>1, <2>2
<1>9. ASSUME NEW r \in Requests, TaskTimesOut(r) \/ TaskCancelled(r) \/ TaskAnswered(r)
       PROVE  CauseInv'
  <2>1. CASE TaskTimesOut(r)
    BY <1>5, <2>1 DEF TaskTimesOut, TimesOut, Cause
  <2>2. CASE TaskCancelled(r)
    <3>1. closed
      BY <2>2 DEF TaskCancelled, CauseInv
    <3>. QED
      BY <1>5, <2>2, <3>1 DEF TaskCancelled, Cause
  <2>3. CASE TaskAnswered(r)
    <3>1. Decided(r) \in {"yes", "no", "refused", "exited"}
          /\ (Decided(r) \in {"refused", "exited"} => said[r] \in {"raised", "exited"})
      BY <2>3 DEF TaskAnswered, Decided, WorkerInv, TypeOK
    <3>. QED
      BY <1>5, <2>3, <3>1 DEF TaskAnswered, Cause
  <2>. QED
    BY <1>9, <2>1, <2>2, <2>3
<1>10. CASE Settles
  <2>1. /\ hand \in Requests /\ hand # Nobody /\ hand' = Nobody
        /\ UNCHANGED <<closed, late, said, cancelled, thread>>
        /\ \A r \in Requests : future'[r] = "refused" =>
             future[r] = "refused" \/ (r = hand /\ decision \in {"refused", "exited"})
    BY <1>10 DEF Settles, Settled, WorkerInv, TypeOK
  <2>2. RefusedForCause'
    BY <1>1, <2>1 DEF CauseInv, RefusedForCause, Cause
  <2>3. \A r \in Requests : PoolForgot(r)' => PoolForgot(r)
    <3>1. \A r \in Requests : at'[r] = "asking" => at[r] = "asking"
      BY <1>10 DEF Settles, Goes, WorkerInv, TypeOK
    <3>. QED
      BY <2>1, <3>1 DEF PoolForgot
  <2>. QED
    BY <2>1, <2>2, <2>3 DEF CauseInv
<1>11. CASE StopRuns \/ LoopUnwinds \/ LoopCloses
  <2>1. closed /\ closed' /\ UNCHANGED finishing
    BY <1>11 DEF StopRuns, LoopUnwinds, LoopCloses, WorkerInv, CloseInv
  <2>. QED
    BY <1>2, <2>1 DEF CauseInv, RefusedForCause
<1>12. CASE Environment
  <2>1. UNCHANGED <<closed, future, finishing, at, cancelled>>
    BY <1>12, Zenon DEF Environment, DeadlinePasses, PoolBegins, PoolDrops, JudgeSays
  <2>2. \A r \in Requests : PoolForgot(r)' => PoolForgot(r)
    <3>1. CASE DeadlinePasses \/ PoolBegins
      <4>1. UNCHANGED <<at, said>> /\ \A r \in Requests : thread'[r] = "over" => thread[r] = "over"
        BY <3>1 DEF DeadlinePasses, PoolBegins, WorkerInv, TypeOK
      <4>. QED
        BY <4>1 DEF PoolForgot
    <3>2. CASE PoolDrops
      BY <3>2 DEF PoolDrops, PoolForgot, WorkerInv, TypeOK
    <3>3. CASE JudgeSays
      BY <3>3 DEF JudgeSays, PoolForgot, WorkerInv, TypeOK
    <3>. QED
      BY <1>12, <3>1, <3>2, <3>3 DEF Environment
  <2>3. RefusedForCause'
    BY <1>1, <2>1 DEF CauseInv, RefusedForCause, Cause
  <2>. QED
    BY <1>2, <2>1, <2>2, <2>3 DEF CauseInv
<1>13. CASE UNCHANGED vars
  BY <1>13 DEF vars, CauseInv, RefusedForCause, Cause, PoolForgot
<1>. QED
  BY <1>3, <1>4, <1>7, <1>8, <1>9, <1>10, <1>11, <1>12, <1>13 DEF Next, Loop

LEMMA CauseInit == Init => CauseInv
BY Kinds DEF Init, CauseInv, RefusedForCause, PoolForgot

\* No verdict is lost without a cause, however many requests there are.
THEOREM RefusalsHaveCauses == Spec => []RefusedForCause
<1>1. CauseInv => RefusedForCause
  BY DEF CauseInv
<1>. QED
  BY <1>1, CauseInit, CauseStep, WorkerCorrect, PTL DEF Spec
=============================================================================
