------------------------------ MODULE SpecTurn ------------------------------
(***************************************************************************)
(* One turn of `SpecRepl` (repl.py).  While the model's text arrives, a     *)
(* PLANNER thread closes statements, commits the block and starts tool     *)
(* calls early; an EXECUTOR thread runs each closed statement once, in     *)
(* order, and its calls go through hooks that pick up early results, hold  *)
(* calls that were not allowed, or run them in place.  The tool pool, the  *)
(* judge and the stream of text are the environment.                       *)
(*                                                                         *)
(* Abstractions.  A call is its verdict key (tool name and arguments).  A  *)
(* statement is the calls it really makes, the calls planning can see in   *)
(* it, and how it ends.  Code arrives one statement at a time: `code`      *)
(* counts the statements with a complete first line; a statement is closed *)
(* by the first line of the next one.  Critical sections are atomic, and   *)
(* so is each run of thread-local steps between two shared accesses.       *)
(***************************************************************************)
EXTENDS Naturals, Sequences, FiniteSets

CONSTANTS
  Keys,         \* distinct tool calls, as told apart by SpecRepl._key
  Always,       \* calls to tools registered with early=True
  Judged,       \* calls to tools registered with early_when="..."
  Async,        \* calls to `async def` tools: they run on a loop, not in the pool
  Programs,     \* the programs the model may write
  Modes,        \* how the REPL may be set up, among the values of `mode`
  MaxParallel,  \* workers of the tool pool
  Faults        \* what may go wrong: subset of the names in FaultNames

FaultNames == {"stream", "crash", "plan", "ask", "tool"}
ModeNames == {"plain", "early", "afterCommit"}

\* A call planning can see: its key, and the statement that must have run
\* before its arguments are known (0: they are literals).
SeenCall == [key : Keys, needs : Nat]

\* runs: calls really made, in order.  seen / draft: certain calls in the
\* closed statement / in its first lines.  more: no other call in it blocks
\* planning past it.  fails: it raises after its calls.  swallows: a bare
\* `except:` in it catches whatever a call raises, TurnAborted included.
Stmt == [runs : Seq(Keys), seen : Seq(SeenCall), draft : Seq(SeenCall),
         more : BOOLEAN, fails : BOOLEAN, swallows : BOOLEAN]

\* ~parses: the last statement is not valid Python, so it never closes.
Program == [stmts : Seq(Stmt), parses : BOOLEAN]

ASSUME CallKinds == /\ Always \subseteq Keys
                    /\ Judged \subseteq Keys
                    /\ Async \subseteq Keys
                    /\ Always \cap Judged = {}
ASSUME ProgramsAreCode == /\ Programs \subseteq Program
                          /\ \A p \in Programs : p.stmts # << >>
ASSUME Setup == /\ Modes \subseteq ModeNames
                /\ MaxParallel \in Nat \ {0}
                /\ Faults \subseteq FaultNames

Threads == {"planner", "executor"}

VARIABLES
  prog, mode,                      \* chosen once
  stream, code,                    \* the text received so far
  closed, open, parsedAll,         \* st.stmts, st.open_stmt, st.parsed_all
  next, running, nth, mine,        \* the executor: statement, call, call id
  results, outcome,                \* ids the program has used; result["error"]
  on, commit, abort,               \* _on, _commit, _abort
  verdict,                         \* _verdicts: one settled or pending future per key
  calls, ready,                    \* every call ever started; _ready, as ids
  pc, woke, first, plan, wanted    \* where each thread is; _plan_ahead's locals

text == <<stream, code>>
published == <<closed, open, parsedAll>>
execution == <<next, running, nth, mine, results, outcome>>
flags == <<on, commit, abort>>
launched == <<calls, ready>>
planning == <<woke, first, plan, wanted>>
vars == <<prog, mode, text, published, execution, flags, verdict, launched,
          pc, planning>>

-----------------------------------------------------------------------------
(* Derived state. *)

Last == Len(prog.stmts)
Final == stream \in {"closed", "over"}
ExecutorDone == pc["executor"] = "done"
StaleSnapshot == [final |-> Final, code |-> code, next |-> 1, done |-> FALSE]
Snapshot == [final |-> Final, code |-> code, next |-> next, done |-> ExecutorDone]

Current == prog.stmts[next]
CurrentKey == Current.runs[nth]

Call == [key : Keys, how : {"early", "inline", "unsafe"},
         state : {"queued", "running", "done", "raised", "cancelled"}]
Ids == 1 .. Len(calls)
Unsafe(c) == calls[c].how = "unsafe"
Over(c) == calls[c].state \in {"done", "raised"}
ReadyOf(k) == {c \in ready : calls[c].key = k}

\* _known_safe: never asks
KnownSafe(k) == k \in Always \/ verdict[k] = "yes"

\* _launch is held exactly while the executor runs a call that may change state
LaunchNeverHeld == TRUE
LaunchFree == ~(pc["executor"] = "await" /\ Unsafe(mine))

-----------------------------------------------------------------------------
(* Planning: what can be seen ahead. *)

Visible(i) == IF i <= closed THEN prog.stmts[i].seen ELSE prog.stmts[i].draft
Known(c) == c.needs < next
Through(c) == Known(c) \/ c.key \in Always

\* plan_calls: the certain calls whose arguments are known, up to the first
\* one it cannot see through; and whether planning may go past the statement
Planned(i) == {n \in DOMAIN Visible(i) :
                 /\ Known(Visible(i)[n])
                 /\ \A m \in 1 .. n - 1 : Through(Visible(i)[m])}
GoesOn(i) == /\ prog.stmts[i].more
             /\ \A n \in DOMAIN Visible(i) : Through(Visible(i)[n])

\* the closed statements from `from` on, then the open one; only: the first of them
Ahead(from, only) ==
  LET all == (from .. closed) \cup (IF open /\ ~parsedAll THEN {closed + 1} ELSE {})
  IN  {i \in all : only => \A j \in all : i <= j}

CallsAhead(from, only) ==
  LET reached == {i \in Ahead(from, only) :
                    \A j \in Ahead(from, only) : j < i => GoesOn(j)}
  IN  UNION {{[stmt |-> i, nth |-> n, key |-> Visible(i)[n].key] : n \in Planned(i)} :
               i \in reached}

Before(e, f) == e.stmt < f.stmt \/ (e.stmt = f.stmt /\ e.nth < f.nth)

\* SpecRepl.verdict: settled at once unless the judge must be asked
Asked(k) == IF k \in Always THEN "yes" ELSE IF k \in Judged THEN "pending" ELSE "no"
Ask(ks) == [k \in Keys |-> IF k \in ks /\ verdict[k] = "none" THEN Asked(k) ELSE verdict[k]]
\* asking may raise only where the judge or its worker has to be made
MayRaise(k) == "ask" \in Faults /\ k \in Judged /\ verdict[k] = "none"

-----------------------------------------------------------------------------
Init ==
  /\ prog \in Programs /\ mode \in Modes
  /\ stream = "open" /\ code = 0
  /\ closed = 0 /\ open = FALSE /\ parsedAll = FALSE
  /\ next = 1 /\ running = FALSE /\ nth = 1 /\ mine = 0
  /\ results = << >> /\ outcome = "none"
  /\ on = (mode # "plain") /\ commit = FALSE /\ abort = "none"
  /\ verdict = [k \in Keys |-> "none"]
  /\ calls = << >> /\ ready = {}
  /\ pc = [planner |-> "wait", executor |-> "take"]
  /\ woke = [final |-> FALSE, code |-> 0, next |-> 1, done |-> FALSE]
  /\ first = 1
  /\ plan = [p \in Threads |-> {}]
  /\ wanted = [p \in Threads |-> [k \in Keys |-> 0]]

Goto(p, label) == pc' = [pc EXCEPT ![p] = label]

-----------------------------------------------------------------------------
(* The stream: _feed and _end_turn. *)

Feed ==
  /\ stream = "open" /\ code < Last
  /\ code' = code + 1
  /\ UNCHANGED <<prog, mode, stream, published, execution, flags, verdict, launched, pc, planning>>

\* _end_turn(stream_error): the abort is set before the text is declared final
StreamBreaks ==
  /\ "stream" \in Faults /\ stream = "open"
  /\ stream' = "broken"
  /\ abort' = "stream"
  /\ UNCHANGED <<prog, mode, code, published, execution, on, commit, verdict, launched, pc, planning>>

\* the last line needs no newline: the end of the text completes it
EndOfText ==
  /\ \/ stream = "open" /\ code + 1 >= Last /\ code' = Last
     \/ stream = "broken" /\ code' = code
  /\ stream' = "closed"
  /\ UNCHANGED <<prog, mode, published, execution, flags, verdict, launched, pc, planning>>

-----------------------------------------------------------------------------
(* Starting and dropping calls. *)

Start(k, how, state) == Append(calls, [key |-> k, how |-> how, state |-> state])

\* _drop_early: a queued pool call is cancelled; an async one can only be asked
\* to stop, and has its first step on the loop before it hears of it
NotCancelled == calls
Dropped == [c \in Ids |->
              IF c \in ready /\ calls[c].state = "queued" /\ calls[c].key \notin Async
              THEN [calls[c] EXCEPT !.state = "cancelled"]
              ELSE calls[c]]

\* _end_turn, once both threads have been joined
EndTurn ==
  /\ stream = "closed"
  /\ pc["planner"] = "done" /\ pc["executor"] = "done"
  /\ stream' = "over"
  /\ calls' = Dropped /\ ready' = {}
  /\ UNCHANGED <<prog, mode, code, published, execution, flags, verdict, pc, planning>>

TurnOver == stream = "over" /\ UNCHANGED vars

-----------------------------------------------------------------------------
(* _plan_ahead, by either thread. *)

From(p) == IF p = "planner" THEN first ELSE next
Then(p) == IF p = "planner" THEN "rest" ELSE "run"

PlanSkipped(p) ==
  /\ pc[p] = "ahead"
  /\ ~on \/ (mode = "afterCommit" /\ ~commit)
  /\ Goto(p, Then(p))
  /\ UNCHANGED <<prog, mode, text, published, execution, flags, verdict, launched, planning>>

\* look ahead in a snapshot of the namespace, and ask about every call at once
PlanLooks(p) ==
  /\ pc[p] = "ahead"
  /\ on /\ (mode = "afterCommit" => commit)
  /\ LET found == CallsAhead(From(p), p = "executor")
     IN  /\ plan' = [plan EXCEPT ![p] = found]
         /\ verdict' = Ask({e.key : e \in found})
  /\ wanted' = [wanted EXCEPT ![p] = [k \in Keys |-> 0]]
  /\ Goto(p, "plan")
  /\ UNCHANGED <<prog, mode, text, published, execution, flags, launched, woke, first>>

\* asking raises: the calls before it have been asked about, its own future is
\* in the cache and will never be settled, and planning is switched off
PlanCannotAsk(p) ==
  /\ pc[p] = "ahead"
  /\ on /\ (mode = "afterCommit" => commit)
  /\ LET found == CallsAhead(From(p), p = "executor")
     IN  \E e \in found :
           /\ MayRaise(e.key)
           /\ \A f \in found : Before(f, e) => f.key # e.key
           /\ verdict' = [Ask({f.key : f \in {g \in found : Before(g, e)}})
                            EXCEPT ![e.key] = "lost"]
  /\ on' = FALSE
  /\ Goto(p, Then(p))
  /\ UNCHANGED <<prog, mode, text, published, execution, commit, abort, launched, planning>>

IsNext(p, e) == /\ pc[p] = "plan" /\ e \in plan[p]
                /\ \A f \in plan[p] : ~Before(f, e)

\* the executor is at or past the statement: it planned its own calls
PassedOnlyWhenRun(p, e) == p = "planner" /\ e.stmt < next
Passed(p, e) == p = "planner" /\ e.stmt < next + (IF running THEN 1 ELSE 0)

\* one critical section of _launch: has the executor got there, and start it
PlanStarts(p) ==
  \E e \in plan[p] :
    /\ IsNext(p, e) /\ verdict[e.key] = "yes" /\ LaunchFree
    /\ plan' = [plan EXCEPT ![p] = @ \ {e}]
    /\ IF Passed(p, e)
       THEN UNCHANGED <<wanted, calls, ready>>
       ELSE /\ wanted' = [wanted EXCEPT ![p][e.key] = @ + 1]
            /\ IF Cardinality(ReadyOf(e.key)) <= wanted[p][e.key]
               THEN /\ calls' = Start(e.key, "early", "queued")
                    /\ ready' = ready \cup {Len(calls) + 1}
               ELSE UNCHANGED <<calls, ready>>
    /\ UNCHANGED <<prog, mode, text, published, execution, flags, verdict, pc, woke, first>>

\* nothing past a call that may not run early
PlanStops(p) ==
  /\ pc[p] = "plan"
  /\ plan[p] = {} \/ \E e \in plan[p] : IsNext(p, e) /\ verdict[e.key] = "no"
  /\ plan' = [plan EXCEPT ![p] = {}]
  /\ Goto(p, Then(p))
  /\ UNCHANGED <<prog, mode, text, published, execution, flags, verdict, launched,
                 woke, first, wanted>>

\* anything else raised in there (a pool that cannot start a thread, say)
PlanFails(p) ==
  /\ "plan" \in Faults /\ pc[p] = "plan"
  /\ on' = FALSE
  /\ plan' = [plan EXCEPT ![p] = {}]
  /\ Goto(p, Then(p))
  /\ UNCHANGED <<prog, mode, text, published, execution, commit, abort, verdict, launched,
                 woke, first, wanted>>

PlanAhead(p) == \/ PlanSkipped(p) \/ PlanLooks(p) \/ PlanCannotAsk(p)
                \/ PlanStarts(p) \/ PlanStops(p) \/ PlanFails(p)

-----------------------------------------------------------------------------
(* The planner: _planner_loop, and the clean-up of _planner. *)

\* (the loop's first pass, over no text at all, changes nothing and is left out)
PlannerWakes ==
  /\ pc["planner"] = "wait" /\ Snapshot # woke
  /\ woke' = Snapshot
  /\ Goto("planner", "read")
  /\ UNCHANGED <<prog, mode, text, published, execution, flags, verdict, launched,
                 first, plan, wanted>>

\* closed_statements: a statement is closed by the first line of the next one
ClosedTooSoon == woke.code
Closed == IF woke.final THEN Last ELSE IF woke.code = 0 THEN 0 ELSE woke.code - 1
PlannerReads ==
  /\ pc["planner"] = "read" /\ abort = "none"
  /\ woke.final => prog.parses
  /\ closed' = Closed
  /\ open' = (~woke.final /\ woke.code > 0)
  /\ parsedAll' = woke.final
  /\ Goto("planner", IF woke.final /\ ~commit THEN "commit" ELSE "look")
  /\ UNCHANGED <<prog, mode, text, execution, flags, verdict, launched, planning>>

PlannerCommits ==
  /\ pc["planner"] = "commit"
  /\ commit' = TRUE
  /\ Goto("planner", "look")
  /\ UNCHANGED <<prog, mode, text, published, execution, on, abort, verdict, launched, planning>>

PlannerLooks ==
  /\ pc["planner"] = "look"
  /\ first' = next
  /\ Goto("planner", "ahead")
  /\ UNCHANGED <<prog, mode, text, published, execution, flags, verdict, launched,
                 woke, plan, wanted>>

\* with the whole text read, go on only while the executor has more to run
PlannerRests ==
  /\ pc["planner"] = "rest"
  /\ Goto("planner", IF woke.final /\ (ExecutorDone \/ next > closed \/ ~on)
                     THEN "cleanup" ELSE "wait")
  /\ UNCHANGED <<prog, mode, text, published, execution, flags, verdict, launched, planning>>

PlannerLeaves ==
  /\ pc["planner"] = "read"
  /\ \/ abort # "none" /\ UNCHANGED abort
     \/ abort = "none" /\ woke.final /\ ~prog.parses /\ abort' = "syntax"
     \/ "crash" \in Faults /\ abort' = IF abort = "none" THEN "internal" ELSE abort
  /\ Goto("planner", "cleanup")
  /\ UNCHANGED <<prog, mode, text, published, execution, on, commit, verdict, launched, planning>>

PlannerCleansUp ==
  /\ pc["planner"] = "cleanup"
  /\ parsedAll' = TRUE
  /\ Goto("planner", "exit")
  /\ UNCHANGED <<prog, mode, text, closed, open, execution, flags, verdict, launched, planning>>

PlannerExits ==
  /\ pc["planner"] = "exit"
  /\ commit' = TRUE
  /\ Goto("planner", "done")
  /\ UNCHANGED <<prog, mode, text, published, execution, on, abort, verdict, launched, planning>>

Planner == \/ PlannerWakes \/ PlannerReads \/ PlannerCommits \/ PlannerLooks
           \/ PlanAhead("planner")
           \/ PlannerRests \/ PlannerLeaves \/ PlannerCleansUp \/ PlannerExits

-----------------------------------------------------------------------------
(* The executor: _executor, and the hooks the program calls. *)

\* a mutated form: does not wait for the planner to have read everything
ExecutorTakesOrLeaves ==
  /\ pc["executor"] = "take"
  /\ Goto("executor", IF next <= closed THEN "gate" ELSE "leave")
  /\ UNCHANGED <<prog, mode, text, published, execution, flags, verdict, launched, planning>>

ExecutorTakes ==
  /\ pc["executor"] = "take"
  /\ \/ next <= closed /\ Goto("executor", "gate")
     \/ next > closed /\ parsedAll /\ Goto("executor", "leave")
  /\ UNCHANGED <<prog, mode, text, published, execution, flags, verdict, launched, planning>>

\* the plain path: nothing runs until the block is complete
OpenOnceOn == on \/ commit
Open == (on /\ mode # "afterCommit") \/ commit
ExecutorGate ==
  /\ pc["executor"] = "gate" /\ Open
  /\ Goto("executor", "check")
  /\ UNCHANGED <<prog, mode, text, published, execution, flags, verdict, launched, planning>>

ExecutorChecks ==
  /\ pc["executor"] = "check"
  /\ Goto("executor", IF abort = "none" THEN "ahead" ELSE "leave")
  /\ UNCHANGED <<prog, mode, text, published, execution, flags, verdict, launched, planning>>

ExecutorRuns ==
  /\ pc["executor"] = "run"
  /\ running' = TRUE
  /\ Goto("executor", "code")
  /\ UNCHANGED <<prog, mode, text, published, next, nth, mine, results, outcome, flags, verdict,
                 launched, planning>>

ExecutorFinishes ==
  /\ pc["executor"] = "code" /\ nth > Len(Current.runs) /\ ~Current.fails
  /\ running' = FALSE /\ next' = next + 1 /\ nth' = 1
  /\ Goto("executor", "take")
  /\ UNCHANGED <<prog, mode, text, published, mine, results, outcome, flags, verdict,
                 launched, planning>>

ExecutorLeaves ==
  /\ pc["executor"] = "leave"
  /\ outcome' = IF abort = "none" THEN "ok" ELSE "aborted"
  /\ Goto("executor", "done")
  /\ UNCHANGED <<prog, mode, text, published, next, running, nth, mine, results, flags,
                 verdict, launched, planning>>

\* the statement raises: the exception ends the executor, whatever st.running says
Dies(how) == /\ outcome' = how
             /\ Goto("executor", "done")
             /\ UNCHANGED <<next, running, nth>>

\* the call under way raises; a bare `except:` goes on to the next call
Raises(how) == IF Current.swallows
               THEN /\ nth' = nth + 1
                    /\ Goto("executor", "code")
                    /\ UNCHANGED <<next, running, outcome>>
               ELSE Dies(how)

ExecutorFails ==
  /\ pc["executor"] = "code" /\ nth > Len(Current.runs) /\ Current.fails
  /\ Dies("error")
  /\ UNCHANGED <<prog, mode, text, published, mine, results, flags, verdict, launched, planning>>

\* _hook, first critical section: an early result of this call, if there is one
LeftAfterTaking == ready
ReadyAfterTaking == ready \ {mine'}
HookTakes ==
  /\ pc["executor"] = "code" /\ nth <= Len(Current.runs)
  /\ IF ReadyOf(CurrentKey) # {}
     THEN /\ mine' \in ReadyOf(CurrentKey)
          /\ \A c \in ReadyOf(CurrentKey) : mine' <= c
          /\ ready' = ReadyAfterTaking
          /\ Goto("executor", "await")
     ELSE /\ Goto("executor", "verdict")
          /\ UNCHANGED <<mine, ready>>
  /\ UNCHANGED <<prog, mode, text, published, next, running, nth, results, outcome, flags,
                 verdict, calls, planning>>

HookAsks ==
  /\ pc["executor"] = "verdict"
  /\ IF commit
     THEN Goto("executor", "abort") /\ UNCHANGED verdict
     ELSE Goto("executor", "answer") /\ verdict' = Ask({CurrentKey})
  /\ UNCHANGED <<prog, mode, text, published, execution, flags, launched, planning>>

HookCannotAsk ==
  /\ pc["executor"] = "verdict" /\ ~commit /\ MayRaise(CurrentKey)
  /\ verdict' = [verdict EXCEPT ![CurrentKey] = "lost"]
  /\ Raises("error")
  /\ UNCHANGED <<prog, mode, text, published, mine, results, flags, launched, planning>>

HookAnswered ==
  /\ pc["executor"] = "answer"
  /\ \/ verdict[CurrentKey] = "yes" /\ Goto("executor", "abort")
     \/ verdict[CurrentKey] = "no" /\ Goto("executor", "hold")
  /\ UNCHANGED <<prog, mode, text, published, execution, flags, verdict, launched, planning>>

NeverHeld == TRUE
Released == commit
HookReleased ==
  /\ pc["executor"] = "hold" /\ Released
  /\ Goto("executor", "abort")
  /\ UNCHANGED <<prog, mode, text, published, execution, flags, verdict, launched, planning>>

HookPasses ==
  /\ pc["executor"] = "abort" /\ abort = "none"
  /\ Goto("executor", "decide")
  /\ UNCHANGED <<prog, mode, text, published, execution, flags, verdict, launched, planning>>

HookAborts ==
  /\ pc["executor"] = "abort" /\ abort # "none"
  /\ Raises("aborted")
  /\ UNCHANGED <<prog, mode, text, published, mine, results, flags, verdict, launched, planning>>

HookDecides ==
  /\ pc["executor"] = "decide"
  /\ IF KnownSafe(CurrentKey)
     THEN /\ calls' = Start(CurrentKey, "inline", "running")
          /\ mine' = Len(calls) + 1
          /\ Goto("executor", "await")
     ELSE /\ Goto("executor", "lock")
          /\ UNCHANGED <<calls, mine>>
  /\ UNCHANGED <<prog, mode, text, published, next, running, nth, results, outcome, flags,
                 verdict, ready, planning>>

\* it may change state: drop what started before it; _launch stays held until it returns
KeptReady == ready
ReadyAfterDrop == {}
HookRunsAlone ==
  /\ pc["executor"] = "lock"
  /\ calls' = Append(Dropped, [key |-> CurrentKey, how |-> "unsafe", state |-> "running"])
  /\ ready' = ReadyAfterDrop
  /\ mine' = Len(calls) + 1
  /\ Goto("executor", "await")
  /\ UNCHANGED <<prog, mode, text, published, next, running, nth, results, outcome, flags,
                 verdict, planning>>

\* the call's result or its exception reaches the program; _launch is released
HookReturns ==
  /\ pc["executor"] = "await" /\ Over(mine)
  /\ results' = Append(results, mine)
  /\ mine' = 0
  /\ \/ /\ calls[mine].state = "done"
        /\ nth' = nth + 1
        /\ Goto("executor", "code")
        /\ UNCHANGED <<next, running, outcome>>
     \/ calls[mine].state = "raised" /\ Raises("error")
  /\ UNCHANGED <<prog, mode, text, published, flags, verdict, launched, planning>>

Executor == \/ ExecutorTakes \/ ExecutorGate \/ ExecutorChecks \/ PlanAhead("executor")
            \/ ExecutorRuns \/ ExecutorFinishes \/ ExecutorFails \/ ExecutorLeaves
            \/ HookTakes \/ HookAsks \/ HookCannotAsk \/ HookAnswered \/ HookReleased
            \/ HookPasses \/ HookAborts \/ HookDecides \/ HookRunsAlone \/ HookReturns

-----------------------------------------------------------------------------
(* The environment: the tools, their pool, and the judge. *)

\* a free worker takes the oldest queued call; an async call needs no worker
PoolBegins ==
  \E c \in Ids :
    /\ calls[c].state = "queued"
    /\ \/ calls[c].key \in Async
       \/ /\ \A d \in Ids : calls[d].state = "queued" /\ calls[d].key \notin Async => c <= d
          /\ Cardinality({d \in Ids : /\ calls[d].how = "early" /\ calls[d].key \notin Async
                                      /\ calls[d].state = "running"}) < MaxParallel
    /\ calls' = [calls EXCEPT ![c].state = "running"]
    /\ UNCHANGED <<prog, mode, text, published, execution, flags, verdict, ready, pc, planning>>

ToolEnds ==
  \E c \in Ids :
    /\ calls[c].state = "running"
    /\ \/ calls' = [calls EXCEPT ![c].state = "done"]
       \/ "tool" \in Faults /\ calls' = [calls EXCEPT ![c].state = "raised"]
    /\ UNCHANGED <<prog, mode, text, published, execution, flags, verdict, ready, pc, planning>>

JudgeAnswers ==
  \E k \in Keys : \E answer \in {"yes", "no"} :
    /\ verdict[k] = "pending"
    /\ verdict' = [verdict EXCEPT ![k] = answer]
    /\ UNCHANGED <<prog, mode, text, published, execution, flags, launched, pc, planning>>

Stream == Feed \/ StreamBreaks \/ EndOfText \/ EndTurn
Environment == PoolBegins \/ ToolEnds \/ JudgeAnswers

Next == Stream \/ Planner \/ Executor \/ Environment \/ TurnOver

\* Threads that can step do.  The text ends, tools return, the pool serves its
\* queue, and the judge worker settles what it was asked (its deadline).
Fairness == /\ WF_vars(Stream) /\ WF_vars(Planner) /\ WF_vars(Executor)
            /\ WF_vars(PoolBegins) /\ WF_vars(ToolEnds) /\ WF_vars(JudgeAnswers)

Spec == Init /\ [][Next]_vars
FairSpec == Spec /\ Fairness

-----------------------------------------------------------------------------
(* Properties. *)

PlannerLabels == {"wait", "read", "commit", "look", "ahead", "plan", "rest",
                  "cleanup", "exit", "done"}
ExecutorLabels == {"take", "gate", "check", "ahead", "plan", "run", "code", "verdict",
                   "answer", "hold", "abort", "decide", "lock", "await", "leave", "done"}
PlanEntry == [stmt : Nat \ {0}, nth : Nat \ {0}, key : Keys]

TextOK ==
  /\ prog \in Programs /\ mode \in Modes
  /\ stream \in {"open", "broken", "closed", "over"} /\ code \in 0 .. Last
  /\ closed \in 0 .. Last /\ open \in BOOLEAN /\ parsedAll \in BOOLEAN
  /\ open => closed < Last
ProgressOK ==
  /\ next \in 1 .. closed + 1 /\ running \in BOOLEAN /\ nth \in Nat \ {0}
  /\ outcome \in {"none", "ok", "error", "aborted"}
  /\ on \in BOOLEAN /\ commit \in BOOLEAN
  /\ abort \in {"none", "syntax", "stream", "internal"}
VerdictOK == verdict \in [Keys -> {"none", "pending", "yes", "no", "lost"}]
CallsOK ==
  /\ calls \in Seq(Call) /\ ready \subseteq Ids
  /\ mine \in 0 .. Len(calls)
  /\ results \in Seq(Nat) /\ \A j \in DOMAIN results : results[j] \in Ids
ThreadsOK ==
  /\ pc \in [Threads -> PlannerLabels \cup ExecutorLabels]
  /\ pc["planner"] \in PlannerLabels /\ pc["executor"] \in ExecutorLabels
PlanningOK ==
  /\ woke \in [final : BOOLEAN, code : 0 .. Last, next : Nat \ {0}, done : BOOLEAN]
  /\ first \in Nat \ {0}
  /\ plan \in [Threads -> SUBSET PlanEntry]
  /\ wanted \in [Threads -> [Keys -> Nat]]

\* The shape of the state: thread labels, published statements within the
\* program, the call in hand and the early results real calls of the log.
TypeOK == TextOK /\ ProgressOK /\ VerdictOK /\ CallsOK /\ ThreadsOK /\ PlanningOK

\* A call that was not allowed early never runs before the block is complete
\* and parses, and never in a turn whose text broke off; every other call has
\* a verdict that says yes (module docstring of repl.py, "Guarantees").
DeniedCallsWait ==
  \A c \in Ids :
    IF Unsafe(c)
    THEN commit /\ Final /\ prog.parses /\ abort \notin {"syntax", "stream"}
    ELSE calls[c].key \in Always \/ verdict[calls[c].key] = "yes"

\* While a call that may change state runs, nothing has started after it, no
\* early result is waiting to be used, and no pool call is waiting to begin.
UnsafeRunsAlone ==
  \A u \in Ids :
    Unsafe(u) /\ calls[u].state = "running" =>
      /\ u = Len(calls)
      /\ ready = {}
      /\ \A c \in Ids : calls[c].state = "queued" => calls[c].key \in Async

\* No stale results across tools: whatever the program uses (results), is
\* about to use (mine) or may still pick up (ready) was started after every
\* state-changing call the program made before.
NoStaleResults ==
  \A u \in Ids : Unsafe(u) =>
    /\ \A c \in ready : u < c
    /\ mine # 0 => u <= mine
    /\ \A i, j \in DOMAIN results : results[i] = u /\ i < j => u < results[j]

\* An early result is used at most once, and never after it was cancelled:
\* a hook that waits on one always gets a result or an exception.
UsedOnce ==
  /\ \A i, j \in DOMAIN results : results[i] = results[j] => i = j
  /\ \A j \in DOMAIN results : results[j] # mine /\ results[j] \notin ready
  /\ mine \notin ready
  /\ mine # 0 => calls[mine].state # "cancelled"

\* With speculate=False the judge is never contacted and nothing runs before
\* the block is complete; after-commit mode starts nothing before it either.
PlainTurnWaits ==
  /\ mode # "early" /\ calls # << >> => commit
  /\ mode = "plain" => /\ \A k \in Keys : verdict[k] = "none"
                       /\ \A c \in Ids : calls[c].how # "early"

\* The turn's report: no error only if every statement ran, the text was
\* complete, and it parsed.
NoErrorMeansAllRan ==
  outcome = "ok" => next = Last + 1 /\ Final /\ prog.parses /\ stream # "broken"

\* The early results waiting for a call never outnumber the uses of it the
\* program still has.
UsesIn(i, k) == {n \in DOMAIN prog.stmts[i].runs :
                   prog.stmts[i].runs[n] = k /\ (i = next => n >= nth)}
UsesLeft(k) == UNION {{i} \X UsesIn(i, k) : i \in next .. Last}
NoSpareStarts == \A k \in Keys : Cardinality(ReadyOf(k)) <= Cardinality(UsesLeft(k))

\* planning sees exactly what each statement runs, and no two make the same call
Foreseen ==
  \A i \in DOMAIN prog.stmts : LET s == prog.stmts[i] IN
    /\ s.draft = << >> /\ s.runs = [n \in DOMAIN s.seen |-> s.seen[n].key]
    /\ \A j \in DOMAIN prog.stmts \ {i}, n \in DOMAIN s.runs :
         \A m \in DOMAIN prog.stmts[j].runs : prog.stmts[j].runs[m] # s.runs[n]
\* A call is started at most as often as the code will use it (the docstring of
\* _plan_ahead), in a program that planning reads right and no two statements
\* of which make the same call.
NoSpareForeseen == Foreseen => NoSpareStarts

\* Once a state-changing call has begun, nothing begins until it has returned.
QuietWhileUnsafe ==
  [][\A u \in Ids : Unsafe(u) /\ calls[u].state = "running" /\ calls'[u].state = "running" =>
       \A c \in DOMAIN calls' :
         calls'[c].state = "running" => c \in Ids /\ calls[c].state = "running"]_calls

\* The planner always commits and both threads always end: nothing waits for ever.
TurnEnds == <>(stream = "over")
\* The same, unless the future of a verdict that could not be asked for is lost.
TurnEndsUnlessLost == TurnEnds \/ <>(\E k \in Keys : verdict[k] = "lost")

-----------------------------------------------------------------------------
(* What the program is promised: PlainRepl, which runs the whole block in   *)
(* order after it was generated.                                            *)

History ==
  [j \in DOMAIN results |->
     [key |-> calls[results[j]].key,
      writes |-> Unsafe(results[j]),
      world |-> Cardinality({u \in Ids : Unsafe(u) /\ u < results[j]})]]

Plain == INSTANCE PlainRepl WITH at <- next, history <- History
PlainSpec == Plain!Spec
=============================================================================
