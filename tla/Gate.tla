-------------------------------- MODULE Gate --------------------------------
(***************************************************************************)
(* The judge as a gate for single calls (gate.py: GatedTool.request,        *)
(* decide, speculatable_call, attach_prejudge; judge.py: JevJudge;          *)
(* worker.py: default_worker).  Look-ahead threads ask about calls and wait; *)
(* pre-judging threads ask and go on.  The worker that carries a request is  *)
(* the promise of JudgeWorker: it settles each request once, with the        *)
(* judge's word or a refusal, and refuses everything once it is closed.      *)
(***************************************************************************)
EXTENDS Integers, Sequences, FiniteSets

CONSTANTS
  Calls, Broken,          \* distinct calls; those whose reducer raises
  NoCall,                 \* what a thread that asks about no call asks about
  Ahead, Prejudge,        \* threads that wait for the verdict, threads that do not
  Levels,                 \* the probabilities a judge may report
  MinPolicy, MaxSide,     \* the thresholds of JevJudge
  MaxWorkers              \* default workers there may be, one after another

ASSUME CallKinds == Broken \subseteq Calls /\ NoCall \notin Calls /\ Ahead \cap Prejudge = {}
ASSUME Thresholds == Levels \subseteq Nat /\ MinPolicy \in Nat /\ MaxSide \in Nat
ASSUME SomeWorkers == MaxWorkers \in Nat \ {0}

Callers == Ahead \cup Prejudge
NotANumber == -1

\* what system_one may come back with: two readings, or nothing to be read
Reading == Levels \cup {NotANumber}
Response == [policy : Reading, side : Reading] \cup {[error |-> TRUE]}
Readable(r) == "error" \notin DOMAIN r
\* what a sure response is: two numbers, on the right side of the thresholds
Sure(r) == /\ Readable(r) /\ r.policy \in Levels /\ r.side \in Levels
           /\ r.policy >= MinPolicy /\ r.side <= MaxSide

VARIABLES
  own,                       \* the tool was given a worker; else default_worker
  pc, call, worker,          \* callers: where they are, about what, the worker they were handed
  current, closed,           \* _default (0: None), and the workers that are closed
  verdict,                   \* _verdicts, as what the futures hold
  request,                   \* the requests at a worker: [state, by, watched]
  said,                      \* the calls the judge has found sure, by its response
  deliver,                   \* where `deliver` of each call is
  decisions, queue, heard,   \* the audit trail; gate events queued, and delivered
  launched                   \* the calls spec-ptc has started early
callers == <<pc, call, worker>>
workers == <<own, current, closed>>
events == <<queue, heard>>
vars == <<callers, workers, verdict, request, said, deliver, decisions, events, launched>>

-----------------------------------------------------------------------------
(* JevJudge._to_decision: past both thresholds, or no early execution. *)

AtLeast(p, q) == p # NotANumber /\ p >= q
AtMost(p, q) == p # NotANumber /\ p <= q
NotTooRisky(r) == Readable(r) /\ AtLeast(r.policy, MinPolicy) /\ ~AtLeast(r.side, MaxSide + 1)
Allows(r) == Readable(r) /\ AtLeast(r.policy, MinPolicy) /\ AtMost(r.side, MaxSide)

-----------------------------------------------------------------------------
Init ==
  /\ own \in BOOLEAN /\ current = (IF own THEN 1 ELSE 0) /\ closed = {}
  /\ pc = [c \in Callers |-> "idle"] /\ call = [c \in Callers |-> NoCall]
  /\ worker = [c \in Callers |-> 0]
  /\ verdict = [k \in Calls |-> "none"]
  /\ request = [k \in Calls |-> [state |-> "none", by |-> 0, watched |-> FALSE]]
  /\ said = {}
  /\ deliver = [k \in Calls |-> "idle"]
  /\ decisions = << >> /\ queue = << >> /\ heard = << >>
  /\ launched = {}

Goes(c, label) == pc' = [pc EXCEPT ![c] = label]
\* request() is over: speculatable_call waits for its future, prejudge does not
Rests(c, k) == /\ Goes(c, IF c \in Ahead THEN "wait" ELSE "idle")
               /\ call' = [call EXCEPT ![c] = IF c \in Ahead THEN k ELSE NoCall]

NotSettled(k) == verdict[k] \notin {"yes", "no"}
NotCached(k) == verdict[k] = "none"

\* the locked part of request(): the future in the cache, or a new one
Wants(c, k) ==
  /\ pc[c] = "idle"
  /\ IF NotCached(k)
     THEN /\ verdict' = [verdict EXCEPT ![k] = "pending"]
          /\ Goes(c, "reduce") /\ call' = [call EXCEPT ![c] = k]
     ELSE verdict' = verdict /\ Rests(c, k)
  /\ UNCHANGED <<worker, workers, request, said, deliver, decisions, events, launched>>

\* a broken reducer never launches a call early
ReducerRaises(c) ==
  /\ pc[c] = "reduce" /\ call[c] \in Broken
  /\ verdict' = [verdict EXCEPT ![call[c]] = "no"]
  /\ Rests(c, call[c])
  /\ UNCHANGED <<worker, workers, request, said, deliver, decisions, events, launched>>

\* default_worker: a new one in place of none or a closed one
NeedsNew(w) == w = 0 \/ w \in closed
TakesWorker(c) ==
  /\ pc[c] = "reduce" /\ call[c] \notin Broken
  /\ current' = IF ~own /\ NeedsNew(current) THEN current + 1 ELSE current
  /\ worker' = [worker EXCEPT ![c] = current']
  /\ Goes(c, "submit")
  /\ UNCHANGED <<call, own, closed, verdict, request, said, deliver, decisions, events, launched>>

\* gate_begin is told on this thread, to subscribers that are arbitrary code; or
\* no worker can be made, or it takes no request: whatever raises leaves request()
\* with the future in the cache and nobody to settle it
Raises(c) ==
  /\ pc[c] \in {"reduce", "submit"} /\ call[c] \notin Broken
  /\ Goes(c, "idle") /\ call' = [call EXCEPT ![c] = NoCall]
  /\ worker' = [worker EXCEPT ![c] = 0]
  /\ UNCHANGED <<workers, verdict, request, said, deliver, decisions, events, launched>>

\* the worker may have been closed since
Submits(c) ==
  /\ pc[c] = "submit"
  /\ request' = [request EXCEPT ![call[c]] =
       [state |-> IF worker[c] \in closed THEN "no" ELSE "pending", by |-> worker[c], watched |-> FALSE]]
  /\ Goes(c, "watch")
  /\ UNCHANGED <<call, worker, workers, verdict, said, deliver, decisions, events, launched>>

\* add_done_callback: at once, on this thread, if the request is settled already
NeverSettled(k) == FALSE
AlreadySettled(k) == request[k].state # "pending"
Watches(c) ==
  /\ pc[c] = "watch"
  /\ IF AlreadySettled(call[c])
     THEN deliver' = [deliver EXCEPT ![call[c]] = "record"] /\ request' = request
     ELSE request' = [request EXCEPT ![call[c]].watched = TRUE] /\ deliver' = deliver
  /\ Rests(c, call[c])
  /\ worker' = [worker EXCEPT ![c] = 0]
  /\ UNCHANGED <<workers, verdict, said, decisions, events, launched>>

\* spec-ptc launches the calls it may
Returns(c) ==
  /\ pc[c] = "wait" /\ ~NotSettled(call[c])
  /\ launched' = IF verdict[call[c]] = "yes" THEN launched \cup {call[c]} ELSE launched
  /\ Goes(c, "idle") /\ call' = [call EXCEPT ![c] = NoCall]
  /\ UNCHANGED <<worker, workers, verdict, request, said, deliver, decisions, events>>

Caller(c) == \/ \E k \in Calls : Wants(c, k)
             \/ ReducerRaises(c) \/ TakesWorker(c) \/ Raises(c) \/ Submits(c)
             \/ Watches(c) \/ Returns(c)

-----------------------------------------------------------------------------
(* The workers, and `deliver` on whichever thread settles a request. *)

\* each request of ks settles with the given state; watched ones are delivered
Settled(ks, state) ==
  /\ request' = [k \in Calls |-> IF k \in ks THEN [request[k] EXCEPT !.state = state] ELSE request[k]]
  /\ deliver' = [k \in Calls |-> IF k \in ks /\ request[k].watched THEN "record" ELSE deliver[k]]

JudgeAnswers(k) ==
  /\ request[k].state = "pending"
  /\ \E r \in Response :
       /\ said' = IF Sure(r) THEN said \cup {k} ELSE said
       /\ Settled({k}, IF Allows(r) THEN "yes" ELSE "no")
  /\ UNCHANGED <<callers, workers, verdict, decisions, events, launched>>

\* the deadline passes, or the judge raises: a refusal, never an exception
Refusal == "no"
WorkerRefuses(k) ==
  /\ request[k].state = "pending"
  /\ Settled({k}, Refusal)
  /\ UNCHANGED <<callers, workers, verdict, said, decisions, events, launched>>

\* whoever owns the worker closes it: every pending request is refused.  The
\* last of MaxWorkers default workers stays open.
Closes ==
  /\ current \notin closed \cup {0} /\ (own \/ current < MaxWorkers)
  /\ closed' = closed \cup {current}
  /\ Settled({k \in Calls : request[k].state = "pending" /\ request[k].by = current}, Refusal)
  /\ UNCHANGED <<callers, own, current, verdict, said, decisions, events, launched>>

Records(k) ==
  /\ deliver[k] = "record"
  /\ decisions' = Append(decisions, [call |-> k, allowed |-> request[k].state])
  /\ deliver' = [deliver EXCEPT ![k] = "settle"]
  /\ UNCHANGED <<callers, workers, verdict, request, said, events, launched>>

RecordedOrNot(k) == deliver[k] \in {"record", "settle"}
Recorded(k) == deliver[k] = "settle"
Settles(k) ==
  /\ Recorded(k)
  /\ verdict' = [verdict EXCEPT ![k] = request[k].state]
  /\ deliver' = [deliver EXCEPT ![k] = "tell"]
  /\ UNCHANGED <<callers, workers, request, said, decisions, events, launched>>

Tells(k) ==
  /\ deliver[k] = "tell"
  /\ queue' = Append(queue, k)
  /\ deliver' = [deliver EXCEPT ![k] = "done"]
  /\ UNCHANGED <<callers, workers, verdict, request, said, decisions, heard, launched>>

NotifierDelivers ==
  /\ queue # << >>
  /\ heard' = Append(heard, Head(queue)) /\ queue' = Tail(queue)
  /\ UNCHANGED <<callers, workers, verdict, request, said, deliver, decisions, launched>>

Deliver(k) == Records(k) \/ Settles(k) \/ Tells(k)
Worker(k) == JudgeAnswers(k) \/ WorkerRefuses(k)

Next == \/ \E c \in Callers : Caller(c)
        \/ \E k \in Calls : Worker(k) \/ Deliver(k)
        \/ Closes \/ NotifierDelivers
Spec == Init /\ [][Next]_vars

\* threads run; a request meets its deadline; a caller need not come again
FairSpec ==
  /\ Spec
  /\ \A c \in Callers : WF_vars(ReducerRaises(c) \/ TakesWorker(c) \/ Submits(c) \/ Watches(c) \/ Returns(c))
  /\ \A k \in Calls : WF_vars(Worker(k)) /\ WF_vars(Deliver(k))
  /\ WF_vars(NotifierDelivers)

-----------------------------------------------------------------------------
TypeOK ==
  /\ own \in BOOLEAN /\ current \in Nat /\ closed \subseteq 1 .. current
  /\ pc \in [Callers -> {"idle", "reduce", "submit", "watch", "wait"}]
  /\ call \in [Callers -> Calls \cup {NoCall}] /\ worker \in [Callers -> 0 .. current]
  /\ verdict \in [Calls -> {"none", "pending", "yes", "no"}]
  /\ request \in [Calls -> [state : {"none", "pending", "yes", "no"}, by : Nat, watched : BOOLEAN]]
  /\ said \subseteq Calls
  /\ deliver \in [Calls -> {"idle", "record", "settle", "tell", "done"}]
  /\ decisions \in Seq([call : Calls, allowed : {"none", "pending", "yes", "no"}])
  /\ queue \in Seq(Calls) /\ heard \in Seq(Calls)
  /\ launched \subseteq Calls

\* "asked once per distinct call" (request): one thread carries a call to the
\* worker, and nobody does once it is there, whoever else looks it up meanwhile.
Carries(c, k) == call[c] = k /\ pc[c] \in {"reduce", "submit", "watch"}
AskedOnce ==
  \A k \in Calls :
    /\ \A c, d \in Callers : Carries(c, k) /\ Carries(d, k) => c = d
    /\ request[k].state # "none" => \A c \in Callers : Carries(c, k) => pc[c] = "watch"

\* Whoever learns a verdict of the judge, by waiting or by a gate event, finds
\* it in the audit trail, once and as it was.
Entries(k) == {n \in DOMAIN decisions : decisions[n].call = k}
Known(k) == \/ verdict[k] \in {"yes", "no"} /\ k \notin Broken
            \/ \E n \in DOMAIN queue : queue[n] = k
            \/ \E n \in DOMAIN heard : heard[n] = k
AuditFirst ==
  \A k \in Calls :
    /\ \A m, n \in Entries(k) : m = n
    /\ Known(k) => \E n \in Entries(k) : decisions[n].allowed = verdict[k]

\* spec-ptc only ever launches calls the judge allowed: with two readings past
\* the thresholds.  No answer, half an answer, a late one, a NaN, a closed
\* worker, a broken reducer: none of them launches a call.
FailsClosed == launched \subseteq said \ Broken

\* speculatable_call returns, whoever asked first, closes the worker or is late;
\* unless it waits for a future that a raising request() left in the cache, which
\* nobody carries to a worker any more (gate.py:121, 129-136).
Lost(k) ==
  verdict[k] = "pending" /\ request[k].state = "none" /\ \A c \in Callers : ~Carries(c, k)
CallersReturn ==
  \A c \in Ahead :
    pc[c] = "wait" ~> pc[c] = "idle" \/ \E k \in Calls : call[c] = k /\ Lost(k)
=============================================================================
