----------------------------- MODULE JudgeWorker -----------------------------
(***************************************************************************)
(* The judge worker (worker.py).  Any thread submits requests and gets a   *)
(* future; ONE event loop on its own thread starts a task for each, which  *)
(* waits for a slot, asks the judge and settles the future; close() settles *)
(* what is outstanding and stops the loop.                                 *)
(*                                                                         *)
(* The loop runs one callback at a time; what other threads can get        *)
(* between is _finish, which first takes the request off `_requests` (under *)
(* the lock) and then settles its future.  The order of requests in the    *)
(* queue and at the slots is left open.  Time is which deadlines passed.   *)
(***************************************************************************)
EXTENDS Naturals, FiniteSets

CONSTANTS
  Requests,        \* the requests that may be made
  Sync,            \* those whose judge has no adecide: it runs in _sync_pool
  Stubborn,        \* those whose adecide swallows cancellation
  MaxConcurrency,  \* slots, and threads of _sync_pool
  Faults,          \* subset of {"exit", "join"}: a judge raises SystemExit or
                   \* KeyboardInterrupt; close's join times out
  Nobody           \* no request

ASSUME Kinds == /\ Sync \subseteq Requests
                /\ Stubborn \subseteq Requests \ Sync
                /\ Nobody \notin Requests
                /\ MaxConcurrency \in Nat \ {0}
                /\ Faults \subseteq {"exit", "join"}

VARIABLES
  closed,       \* _closed
  outstanding,  \* _requests
  future,       \* each request's future, "none" before it is submitted
  at,           \* how far each request is
  late,         \* requests whose deadline has passed
  said,         \* what each request's judge said
  thread,       \* its item in _sync_pool
  cancelled,    \* tasks that have been asked to stop
  hand,         \* the request _finish has in hand on the loop's thread
  decision,     \* and what it will settle it with
  loop,         \* the loop and its thread
  closer,       \* close(), by the thread that got to do it
  sweep         \* `pending` in close()

judging == <<said, thread>>
tasks == <<at, cancelled>>
finishing == <<hand, decision>>
closing == <<closed, closer, sweep>>
vars == <<closing, outstanding, future, tasks, late, judging, finishing, loop>>

Init ==
  /\ closed = FALSE /\ closer = "none" /\ sweep = {}
  /\ outstanding = {}
  /\ future = [r \in Requests |-> "none"]
  /\ at = [r \in Requests |-> "none"]
  /\ late = {} /\ cancelled = {}
  /\ said = [r \in Requests |-> "none"]
  /\ thread = [r \in Requests |-> "none"]
  /\ hand = Nobody /\ decision = "refused"
  /\ loop = "running"

\* settle: the first decision stays
Overwritten(r, d) == [future EXCEPT ![r] = d]
Settled(r, d) == IF future[r] = "pending" THEN [future EXCEPT ![r] = d] ELSE future

Goes(r, label) == at' = [at EXCEPT ![r] = label]

-----------------------------------------------------------------------------
(* submit, by any thread. *)

SubmitRefused(r) ==
  /\ at[r] = "none" /\ closed
  /\ future' = [future EXCEPT ![r] = "refused"]
  /\ Goes(r, "over")
  /\ UNCHANGED <<closing, outstanding, cancelled, late, judging, finishing, loop>>

\* looked at _closed before taking the lock
SubmitsAnyway(r) ==
  /\ at[r] = "none"
  /\ outstanding' = outstanding \cup {r}
  /\ future' = [future EXCEPT ![r] = "pending"]
  /\ Goes(r, "added")
  /\ UNCHANGED <<closing, cancelled, late, judging, finishing, loop>>

SubmitAdds(r) ==
  /\ at[r] = "none" /\ ~closed
  /\ outstanding' = outstanding \cup {r}
  /\ future' = [future EXCEPT ![r] = "pending"]
  /\ Goes(r, "added")
  /\ UNCHANGED <<closing, cancelled, late, judging, finishing, loop>>

\* call_soon_threadsafe: raises once the loop is closed, but not when its thread
\* has died
SubmitPosts(r) ==
  /\ at[r] = "added"
  /\ IF loop = "closed"
     THEN /\ future' = Settled(r, "refused")
          /\ outstanding' = outstanding \ {r}
          /\ Goes(r, "over")
     ELSE /\ Goes(r, "queued")
          /\ UNCHANGED <<future, outstanding>>
  /\ UNCHANGED <<closing, cancelled, late, judging, finishing, loop>>

Submit == \E r \in Requests : SubmitRefused(r) \/ SubmitAdds(r) \/ SubmitPosts(r)

-----------------------------------------------------------------------------
(* close, by the first thread that calls it. *)

LeftToTasks == {}
Pending == outstanding
CloseBegins ==
  /\ ~closed
  /\ closed' = TRUE /\ closer' = "settling"
  /\ sweep' = Pending /\ outstanding' = {}
  /\ UNCHANGED <<future, tasks, late, judging, finishing, loop>>

CloseSettles ==
  /\ closer = "settling"
  /\ \E r \in sweep : sweep' = sweep \ {r} /\ future' = Settled(r, "refused")
  /\ UNCHANGED <<closed, closer, outstanding, tasks, late, judging, finishing, loop>>

ClosePosts ==
  /\ closer = "settling" /\ sweep = {}
  /\ closer' = "joining"
  /\ UNCHANGED <<closed, sweep, outstanding, future, tasks, late, judging, finishing, loop>>

\* the join, then the pool's shutdown: its queue is cancelled, its threads go on
CloseReturns ==
  /\ closer = "joining"
  /\ loop \in {"closed", "dead"} \/ "join" \in Faults
  /\ closer' = "returned"
  /\ thread' = [r \in Requests |-> IF thread[r] = "queued" THEN "over" ELSE thread[r]]
  /\ UNCHANGED <<closed, sweep, outstanding, future, tasks, late, said, finishing, loop>>

Close == CloseBegins \/ CloseSettles \/ ClosePosts \/ CloseReturns

-----------------------------------------------------------------------------
(* The loop: _drain, _judge, _guarded, _ask. *)

Free == hand = Nobody /\ loop \in {"running", "stopping", "unwinding"}
Started == {r \in Requests : at[r] \in {"born", "slot", "asking"}}

\* one task per request, at once; the drainer is cancelled before the unwinding
DrainTakes(r) ==
  /\ Free /\ loop # "unwinding" /\ at[r] = "queued"
  /\ Goes(r, "born")
  /\ UNCHANGED <<closing, outstanding, future, cancelled, late, judging, finishing, loop>>

\* _finish, its critical section: what follows is Settles
Finish(r, d) ==
  /\ outstanding' = outstanding \ {r}
  /\ hand' = r /\ decision' = d
  /\ Goes(r, "settling")

TaskStarts(r) ==
  /\ Free /\ at[r] = "born" /\ r \notin cancelled
  /\ IF r \in late
     THEN Finish(r, "refused")
     ELSE Goes(r, "slot") /\ UNCHANGED <<outstanding, finishing>>
  /\ UNCHANGED <<closing, future, cancelled, late, judging, loop>>

\* a task cancelled before its first step never gets into _judge
TaskNeverStarts(r) ==
  /\ Free /\ at[r] = "born" /\ r \in cancelled
  /\ Goes(r, "over")
  /\ UNCHANGED <<closing, outstanding, future, cancelled, late, judging, finishing, loop>>

\* _ask; handing over to a pool that was shut down raises
TaskAsks(r) ==
  /\ Free /\ at[r] = "slot"
  /\ Cardinality({q \in Requests : at[q] = "asking"}) < MaxConcurrency
  /\ IF r \in Sync /\ closer = "returned"
     THEN Finish(r, "refused") /\ UNCHANGED thread
     ELSE /\ Goes(r, "asking")
          /\ thread' = IF r \in Sync THEN [thread EXCEPT ![r] = "queued"] ELSE thread
          /\ UNCHANGED <<outstanding, finishing>>
  /\ UNCHANGED <<closing, future, cancelled, late, said, loop>>

\* wait_for's timer: over the wait for the slot and over the judge alike
TimesOutInLine(r) == r \in late /\ at[r] = "slot"
RefusedWhenFull(r) == at[r] = "slot" \/ (r \in late /\ at[r] = "asking" /\ r \notin Stubborn)
TimesOut(r) == r \in late /\ (at[r] = "slot" \/ (at[r] = "asking" /\ r \notin Stubborn))
TaskTimesOut(r) ==
  /\ Free /\ TimesOut(r)
  /\ Finish(r, "refused")
  /\ UNCHANGED <<closing, future, cancelled, late, judging, loop>>

\* asked to stop, or its item in the pool was cancelled by the shutdown
PoolForgot(r) == r \in Sync /\ at[r] = "asking" /\ thread[r] = "over" /\ said[r] = "none"
TaskCancelled(r) ==
  /\ Free
  /\ r \in cancelled \/ PoolForgot(r)
  /\ at[r] = "slot" \/ (at[r] = "asking" /\ r \notin Stubborn)
  /\ Finish(r, "refused")
  /\ UNCHANGED <<closing, future, cancelled, late, judging, loop>>

\* the judge's answer: an exception is a refusal
Decided(r) == IF said[r] \in {"yes", "no", "exited"} THEN said[r] ELSE "refused"
TaskAnswered(r) ==
  /\ Free /\ at[r] = "asking" /\ said[r] # "none"
  /\ Finish(r, Decided(r))
  /\ UNCHANGED <<closing, future, cancelled, late, judging, loop>>

\* the rest of _finish; a SystemExit goes on, through the loop, and ends its thread
Settles ==
  /\ hand # Nobody
  /\ future' = Settled(hand, IF decision = "exited" THEN "refused" ELSE decision)
  /\ Goes(hand, "over")
  /\ hand' = Nobody /\ decision' = "refused"
  /\ loop' = IF decision = "exited" THEN "dead" ELSE loop
  /\ UNCHANGED <<closing, outstanding, cancelled, late, judging>>

\* stop(), posted by close; then _run, once run_forever has returned
StopRuns ==
  /\ Free /\ loop = "running" /\ closer \in {"joining", "returned"}
  /\ cancelled' = cancelled \cup Started
  /\ loop' = "stopping"
  /\ UNCHANGED <<closing, outstanding, future, at, late, judging, finishing>>

NoLeftovers == {}
Leftovers == Started
LoopUnwinds ==
  /\ Free /\ loop = "stopping"
  /\ cancelled' = cancelled \cup Leftovers
  /\ loop' = "unwinding"
  /\ UNCHANGED <<closing, outstanding, future, at, late, judging, finishing>>

LoopCloses ==
  /\ Free /\ loop = "unwinding" /\ Started = {}
  /\ loop' = "closed"
  /\ UNCHANGED <<closing, outstanding, future, tasks, late, judging, finishing>>

Loop == \/ \E r \in Requests : \/ DrainTakes(r) \/ TaskStarts(r) \/ TaskNeverStarts(r)
                               \/ TaskAsks(r) \/ TaskTimesOut(r) \/ TaskCancelled(r)
                               \/ TaskAnswered(r)
        \/ Settles \/ StopRuns \/ LoopUnwinds \/ LoopCloses

-----------------------------------------------------------------------------
(* The environment: time, the pool's threads, the judges. *)

DeadlinePasses ==
  /\ \E r \in Requests : /\ at[r] \notin {"none", "over"} /\ r \notin late
                         /\ late' = late \cup {r}
  /\ UNCHANGED <<closing, outstanding, future, tasks, judging, finishing, loop>>

PoolBegins ==
  /\ Cardinality({q \in Requests : thread[q] = "running"}) < MaxConcurrency
  /\ \E r \in Requests : thread[r] = "queued" /\ thread' = [thread EXCEPT ![r] = "running"]
  /\ UNCHANGED <<closing, outstanding, future, tasks, late, said, finishing, loop>>

\* the cancellation of a task reaches its item in the pool, if it still queues
PoolDrops ==
  /\ \E r \in Requests : /\ thread[r] = "queued" /\ at[r] \in {"settling", "over"}
                         /\ thread' = [thread EXCEPT ![r] = "over"]
  /\ UNCHANGED <<closing, outstanding, future, tasks, late, said, finishing, loop>>

\* a sync judge speaks from its thread even when nobody waits any more
JudgeSays ==
  /\ \E r \in Requests, v \in {"yes", "no", "raised", "exited"} :
       /\ said[r] = "none" /\ (v = "exited" => "exit" \in Faults)
       /\ IF r \in Sync
          THEN thread[r] = "running" /\ thread' = [thread EXCEPT ![r] = "over"]
          ELSE at[r] = "asking" /\ loop \notin {"closed", "dead"} /\ UNCHANGED thread
       /\ said' = [said EXCEPT ![r] = v]
  /\ UNCHANGED <<closing, outstanding, future, tasks, late, finishing, loop>>

Environment == DeadlinePasses \/ PoolBegins \/ PoolDrops \/ JudgeSays

Next == Submit \/ Close \/ Loop \/ Environment

Spec == Init /\ [][Next]_vars

\* A submit that began goes on, a close that began goes on, the loop runs.
Threads == /\ WF_vars(\E r \in Requests : SubmitPosts(r))
           /\ WF_vars(CloseSettles \/ ClosePosts \/ CloseReturns)
           /\ WF_vars(Loop)
\* no judge need ever answer: with time alone
TimedSpec == Spec /\ Threads /\ WF_vars(DeadlinePasses)
\* and even without it, closing
ClosingSpec == Spec /\ Threads

-----------------------------------------------------------------------------
(* Properties. *)

Labels == {"none", "added", "queued", "born", "slot", "asking", "settling", "over"}

\* The shape of the worker's state: who is settling is in hand, the closed
\* flag and the closing thread agree, only close stops the loop.
TypeOK ==
  /\ closed \in BOOLEAN /\ closer \in {"none", "settling", "joining", "returned"}
  /\ sweep \subseteq Requests /\ outstanding \subseteq Requests
  /\ future \in [Requests -> {"none", "pending", "yes", "no", "refused"}]
  /\ at \in [Requests -> Labels]
  /\ late \subseteq Requests /\ cancelled \subseteq Requests
  /\ said \in [Requests -> {"none", "yes", "no", "raised", "exited"}]
  /\ thread \in [Requests -> {"none", "queued", "running", "over"}]
  /\ hand \in Requests \cup {Nobody} /\ decision \in {"yes", "no", "refused", "exited"}
  /\ loop \in {"running", "stopping", "unwinding", "closed", "dead"}

\* No request is lost: one that is not settled is where somebody will settle
\* it, in _requests, in the list close is going through, or in _finish's hand.
NothingLost == \A r \in Requests : future[r] = "pending" => r \in outstanding \cup sweep \cup {hand}

\* Once close has stopped the loop, every request ever made is settled (the
\* last one perhaps by _finish, on the loop's thread, and when the loop is
\* closed that one too).
ClosedSettlesAll ==
  /\ closer \in {"joining", "returned"} => \A r \in Requests : future[r] = "pending" => r = hand
  /\ loop = "closed" => \A r \in Requests : future[r] # "pending"

\* A verdict is lost only for a cause: its deadline, the end of the worker, or
\* a judge that failed.  A full worker or another request's stuck judge is none.
RefusedForCause ==
  \A r \in Requests : future[r] = "refused" => closed \/ r \in late \/ said[r] \in {"raised", "exited"}

\* What callers see is the oracle: one answer, the judge's own or a refusal.
Oracle == INSTANCE VerdictOracle WITH open <- ~closed, answer <- future
OracleSpec == Oracle!Spec

\* Every future settles if time goes on, though no judge need ever answer, as
\* long as no judge takes the loop's thread down.
SettlesInTime ==
  WF_vars(DeadlinePasses) =>
    \A r \in Requests : future[r] = "pending" ~> (future[r] # "pending" \/ loop = "dead")

\* Closing ends the loop's thread, though no judge answers and no deadline passes.
CloseEnds == closed ~> loop \in {"closed", "dead"}
=============================================================================
