------------------------------- MODULE Session -------------------------------
(***************************************************************************)
(* A conversation with one SpecRepl (repl.py): turns begun by several users *)
(* of it, its turn lock, the events a listener hears, the verdict cache    *)
(* that outlives turns and registrations, run()'s loop of turns, close().  *)
(*                                                                         *)
(* What goes on inside a turn is SpecTurn's; here its two threads ask for  *)
(* verdicts, start calls, wait for calls and end.  Each tool is called with *)
(* the same arguments, so a tool stands for its one key in the cache.  Of   *)
(* the events, stream_begin, token (one for all), stream_end, done and     *)
(* judge_end are kept.                                                     *)
(***************************************************************************)
EXTENDS Naturals, Sequences

CONSTANTS
  Users,       \* threads and tasks that use the REPL
  Tools,
  Async,       \* tools that are `async def`
  Registered,  \* the mark each tool is first registered with
  Ways,        \* how turns are run, see below
  MaxTurns,    \* turns in all: a bound of the model
  MaxRun,      \* max_turns of run()
  MaxChanges,  \* tools registered again: a bound of the model
  Nobody       \* no user, no tool

Marks == {"early", "policy", "plain"}   \* early=True, early_when=..., neither

(* run_turn: the user's thread, async tools on the REPL's own loop.  arun_turn
   with a blocking stream: a helper thread, your loop.  arun_turn: your loop,
   where events are queued for the notify thread.                          *)
AllWays == {"run_turn", "drive", "arun_turn"}

ASSUME Parameters == /\ Async \subseteq Tools
                     /\ Registered \in [Tools -> Marks]
                     /\ Ways \subseteq AllWays
                     /\ MaxTurns \in Nat /\ MaxRun \in Nat /\ MaxChanges \in Nat
                     /\ Nobody \notin Users \cup Tools

Threads == {"planner", "executor"}

VARIABLES
  tools,    \* the mark each tool is registered with now
  changes,  \* how often that has changed
  closed,   \* close() was called
  ownLoop,  \* _own_loop
  lock,     \* _turn_lock
  turn,     \* turns begun
  at,       \* where each user is
  left,     \* the turns left to a user's run()
  way,      \* how the turn is run
  fed,      \* its text has begun
  broke,    \* its stream raised
  on,       \* _on: "never" if the turn began so, "off" if it was switched off
  threads,  \* its threads
  asks,     \* the call each of them has put in the cache, about to ask for it
  waits,    \* the call each of them waits for the verdict of
  todo,     \* calls its code has not made yet
  hand,     \* the call its executor waits for
  ready,    \* _ready
  answer,   \* the turn that called final_answer last, 0 if none: ns["answer"]
  error,    \* _result["error"] is set
  given,    \* the last Turn returned
  verdict,  \* _verdicts
  asked,    \* how often each verdict was asked for
  telling,  \* the verdict the worker's thread has settled and not yet told
  queue,    \* what the notify thread has to do
  heard     \* what the listener has heard

conversation == <<lock, turn, at, left, way, given>>
program == <<todo, hand, answer, error>>
early == <<on, asks, waits, ready>>
cache == <<verdict, asked, telling>>
events == <<queue, heard>>
text == <<fed, broke>>
whole == <<tools, changes, closed, ownLoop>>
vars == <<whole, conversation, text, threads, early, program, cache, events>>

Event(kind, of) == [kind |-> kind, of |-> of]
StreamKinds == {"stream_begin", "token", "stream_end"}

Init ==
  /\ tools = Registered /\ changes = 0 /\ closed = FALSE /\ ownLoop = "none"
  /\ lock = Nobody /\ turn = 0 /\ way = "run_turn"
  /\ at = [u \in Users |-> "idle"] /\ left = [u \in Users |-> 0]
  /\ given = [turn |-> 0, answer |-> 0, error |-> FALSE]
  /\ fed = FALSE /\ broke = FALSE
  /\ threads = [th \in Threads |-> "off"]
  /\ on = "never" /\ ready = {}
  /\ asks = [th \in Threads |-> Nobody] /\ waits = [th \in Threads |-> Nobody]
  /\ todo = {} /\ hand = Nobody /\ answer = 0 /\ error = FALSE
  /\ verdict = [t \in Tools |-> "none"]
  /\ asked = [t \in Tools |-> 0] /\ telling = Nobody
  /\ queue = <<>> /\ heard = {}

-----------------------------------------------------------------------------
(* Events: on an event loop they go through the notify thread, whose pool
   refuses work once it is shut down; anywhere else they are delivered at
   once.                                                                   *)

OnLoop == way = "arun_turn"

Emits(kind) ==
  IF OnLoop
  THEN ~closed /\ queue' = Append(queue, Event(kind, turn)) /\ UNCHANGED heard
  ELSE heard' = heard \cup {Event(kind, turn)} /\ UNCHANGED queue

NotifyDelivers ==
  /\ queue # <<>>
  /\ queue' = Tail(queue)
  /\ heard' = IF Head(queue).kind = "barrier" THEN heard
                                              ELSE heard \cup {Head(queue)}
  /\ UNCHANGED <<whole, conversation, text, threads, early, program, cache>>

-----------------------------------------------------------------------------
(* Users. *)

(* run(): up to max_turns turns *)
RunBegins(u) ==
  /\ at[u] = "idle" /\ MaxRun > 0 /\ turn < MaxTurns
  /\ at' = [at EXCEPT ![u] = "between"] /\ left' = [left EXCEPT ![u] = MaxRun]
  /\ UNCHANGED <<lock, turn, way, given, whole, text, threads, early, program,
                 cache, events>>

(* chat(messages) raises; or MaxTurns ends the model *)
ChatFails(u) ==
  /\ at[u] = "between"
  /\ at' = [at EXCEPT ![u] = "idle"] /\ left' = [left EXCEPT ![u] = 0]
  /\ UNCHANGED <<lock, turn, way, given, whole, text, threads, early, program,
                 cache, events>>

(* _private_loop: made once, and not made again after close stopped it *)
PrivateLoop(w) ==
  ownLoop' = IF w = "run_turn" /\ ownLoop = "none" THEN "up" ELSE ownLoop

Marked == \E t \in Tools : tools[t] # "plain"

TurnFields ==
  /\ fed' = FALSE /\ broke' = FALSE
  /\ on' = IF Marked THEN "on" ELSE "never"
  /\ ready' = {}
  /\ error' = FALSE /\ answer' = 0
  /\ todo' = Tools

LockIgnored == TRUE                           \* mutated: the lock is not looked at
LockFree == lock = Nobody

BeginTurn(u, w) ==
  /\ at[u] \in {"idle", "between"} /\ turn < MaxTurns
  /\ LockFree
  /\ lock' = u /\ turn' = turn + 1 /\ way' = w
  /\ at' = [at EXCEPT ![u] = "announcing"]
  /\ PrivateLoop(w) /\ TurnFields
  /\ threads' = [th \in Threads |-> "running"]
  /\ UNCHANGED <<left, given, tools, changes, closed, asks, waits, hand, cache, events>>

(* "already running a turn" *)
BeginRefused(u, w) ==
  /\ at[u] \in {"idle", "between"} /\ lock # Nobody
  /\ at' = [at EXCEPT ![u] = "idle"] /\ left' = [left EXCEPT ![u] = 0]
  /\ PrivateLoop(w)
  /\ UNCHANGED <<lock, turn, way, given, tools, changes, closed, text, threads,
                 early, program, cache, events>>

Announces(u) ==
  /\ at[u] = "announcing"
  /\ Emits("stream_begin")
  /\ at' = [at EXCEPT ![u] = "feeding"]
  /\ UNCHANGED <<lock, turn, left, way, given, whole, text, threads, early,
                 program, cache>>

(* the notify pool refuses: _begin_turn raises with the lock and the threads *)
AnnounceFails(u) ==
  /\ at[u] = "announcing" /\ OnLoop /\ closed
  /\ at' = [at EXCEPT ![u] = "idle"] /\ left' = [left EXCEPT ![u] = 0]
  /\ UNCHANGED <<lock, turn, way, given, whole, text, threads, early, program,
                 cache, events>>

Feeds(u) ==
  /\ at[u] = "feeding" /\ ~fed
  /\ Emits("token")
  /\ fed' = TRUE
  /\ UNCHANGED <<whole, conversation, broke, threads, early, program, cache>>

(* The stream ends or raises (so does _feed when its event is refused):
   _end_turn, on a thread of its own when the user is on a loop.           *)
StreamEnds(u, raises) ==
  /\ at[u] = "feeding"
  /\ heard' = heard \cup {Event("stream_end", turn)}
  /\ broke' = raises
  /\ at' = [at EXCEPT ![u] = "joining"]
  /\ UNCHANGED <<lock, turn, left, way, given, whole, fed, threads, early,
                 program, cache, queue>>

ExecutorOver == threads["executor"] = "off"   \* mutated: joins one of the two
ThreadsOver == \A th \in Threads : threads[th] = "off"

Joins(u) ==
  /\ at[u] = "joining"
  /\ ThreadsOver
  /\ ready' = {}
  /\ at' = [at EXCEPT ![u] = "flushing"]
  /\ UNCHANGED <<lock, turn, left, way, given, whole, text, threads, on, asks,
                 waits, program, cache, events>>

Flushes(u) ==
  /\ at[u] = "flushing" /\ ~closed
  /\ queue' = Append(queue, Event("barrier", turn))
  /\ at' = [at EXCEPT ![u] = "flushed"]
  /\ UNCHANGED <<lock, turn, left, way, given, whole, text, threads, early,
                 program, cache, heard>>

ReleaseForgotten == UNCHANGED lock            \* mutated: no `finally`
Release == lock' = Nobody

FlushFails(u) ==
  /\ at[u] = "flushing" /\ closed
  /\ Release
  /\ at' = [at EXCEPT ![u] = "idle"] /\ left' = [left EXCEPT ![u] = 0]
  /\ UNCHANGED <<turn, way, given, whole, text, threads, early, program, cache,
                 events>>

(* `done`, the Turn, the lock; run() goes on unless there is an answer, or the
   stream's exception is raised again                                      *)
AnsweredAnyway == answer # 0                  \* mutated: whatever the error
Answered == answer # 0 /\ ~error
MoreUncounted(u) == ~Answered /\ ~broke       \* mutated: max_turns forgotten
MoreTurns(u) == left[u] > 1 /\ ~Answered /\ ~broke
NotFlushed == TRUE                            \* mutated: result() not waited for
Flushed == ~\E i \in DOMAIN queue : queue[i].kind = "barrier"

TurnDone(u) ==
  /\ at[u] = "flushed"
  /\ Flushed
  /\ heard' = heard \cup {Event("done", turn)}
  /\ given' = [turn |-> turn, answer |-> IF Answered THEN answer ELSE 0,
               error |-> error]
  /\ Release
  /\ at' = [at EXCEPT ![u] = IF MoreTurns(u) THEN "between" ELSE "idle"]
  /\ left' = [left EXCEPT ![u] = IF MoreTurns(u) THEN @ - 1 ELSE 0]
  /\ UNCHANGED <<turn, way, whole, text, threads, early, program, cache, queue>>

Driver(u) ==
  \/ Announces(u) \/ AnnounceFails(u) \/ Feeds(u)
  \/ \E raises \in BOOLEAN : StreamEnds(u, raises)
  \/ Joins(u) \/ Flushes(u) \/ FlushFails(u) \/ TurnDone(u)
RunGoesOn(u) ==
  at[u] = "between" /\ (ChatFails(u) \/ \E w \in Ways : BeginTurn(u, w) \/ BeginRefused(u, w))

-----------------------------------------------------------------------------
(* The turn's threads.  Code is there once the text has begun.             *)

TextOver == \E u \in Users : lock = u /\ at[u] = "joining"
AtWork(th) ==
  threads[th] = "running" /\ fed /\ asks[th] = Nobody /\ waits[th] = Nobody

(* verdict(): one future per call, made under _lock; early and unmarked tools
   are answered at once, the judge is asked about the others               *)
NotSettled(t) == verdict[t] \in {"none", "pending"}   \* mutated: fut.done() asked for
NotCached(t) == verdict[t] = "none"

(* Who looks at a verdict: _plan_ahead while it is on, in either thread; and a
   hook, which does so too in a statement begun before it was switched off. *)
Looks(th) == /\ AtWork(th)
             /\ th = "executor" => hand = Nobody
             /\ on = "on" \/ (on = "off" /\ th = "executor")

VerdictEnters(th, t) ==
  /\ Looks(th)
  /\ NotCached(t)
  /\ LET judged == tools[t] = "policy" IN
     /\ verdict' = [verdict EXCEPT ![t] =
                      CASE judged -> "pending"
                        [] tools[t] = "early" -> "allowed"
                        [] OTHER -> "refused"]
     /\ asks' = [asks EXCEPT ![th] = IF judged THEN t ELSE Nobody]
  /\ UNCHANGED <<whole, conversation, text, threads, on, waits, ready, program,
                 asked, telling, events>>

VerdictAsks(th) ==
  /\ asks[th] # Nobody
  /\ asked' = [asked EXCEPT ![asks[th]] = @ + 1]
  /\ asks' = [asks EXCEPT ![th] = Nobody]
  /\ UNCHANGED <<whole, conversation, text, threads, on, waits, ready, program,
                 verdict, telling, events>>

(* The label, the event or the submission raises: the future stays in the cache
   and nobody settles it.  _plan_ahead switches itself off; from a hook it is
   raised into the program, which goes on or ends with it.                 *)
VerdictFails(th) ==
  /\ asks[th] # Nobody
  /\ asks' = [asks EXCEPT ![th] = Nobody]
  /\ on' \in IF th = "planner" THEN {"off"} ELSE {"off", on}
  /\ UNCHANGED <<whole, conversation, text, threads, waits, ready, program, cache,
                 events>>

(* .result(): without a timeout *)
Waits(th, t) ==
  /\ Looks(th)
  /\ verdict[t] = "pending"
  /\ waits' = [waits EXCEPT ![th] = t]
  /\ UNCHANGED <<whole, conversation, text, threads, on, asks, ready, program,
                 cache, events>>

Hears(th) ==
  /\ waits[th] # Nobody
  /\ verdict[waits[th]] # "pending"
  /\ waits' = [waits EXCEPT ![th] = Nobody]
  /\ UNCHANGED <<whole, conversation, text, threads, on, asks, ready, program,
                 cache, events>>

(* _plan_ahead, of a call still ahead of the executor *)
StartsEarly(th, t) ==
  /\ Looks(th) /\ on = "on"
  /\ t \in todo \ ready
  /\ verdict[t] = "allowed"
  /\ IF closed /\ t \notin Async
     THEN on' = "off" /\ UNCHANGED ready   \* the pool is shut down
     ELSE ready' = ready \cup {t} /\ UNCHANGED on
  /\ UNCHANGED <<whole, conversation, text, threads, asks, waits, program, cache, events>>

(* a hook: takes an early result, or starts the call, and waits for it *)
ExecutorCalls(t) ==
  /\ AtWork("executor") /\ hand = Nobody /\ t \in todo
  /\ hand' = t /\ todo' = todo \ {t} /\ ready' = ready \ {t}
  /\ UNCHANGED <<whole, conversation, text, threads, on, asks, waits, answer,
                 error, cache, events>>

(* A call on the REPL's own loop returns while that runs.  One dropped by the
   closed pool returns too: with CancelledError.                           *)
CallReturns ==
  /\ hand # Nobody
  /\ hand \in Async /\ way = "run_turn" => ownLoop = "up"
  /\ hand' = Nobody
  /\ UNCHANGED <<whole, conversation, text, threads, early, todo, answer, error,
                 cache, events>>

FinalAnswer ==
  /\ AtWork("executor") /\ hand = Nobody
  /\ answer' = turn
  /\ UNCHANGED <<whole, conversation, text, threads, early, todo, hand, error,
                 cache, events>>

(* An error may end it at any time; with the whole text read it ends, and
   reports an abort.  So may an internal error the planner.                *)
ExecutorLeaves(fails) ==
  /\ threads["executor"] = "running" /\ hand = Nobody
  /\ asks["executor"] = Nobody /\ waits["executor"] = Nobody
  /\ fails => fed \/ broke
  /\ ~fails => TextOver /\ ~broke
  /\ error' = fails
  /\ threads' = [threads EXCEPT !["executor"] = "off"]
  /\ UNCHANGED <<whole, conversation, text, early, todo, hand, answer, cache, events>>

WaitsForExecutor ==                           \* mutated: executor_done not seen
  (TextOver \/ fed) /\ threads["executor"] = "running"
PlannerMayLeave == TextOver \/ fed

PlannerLeaves ==
  /\ threads["planner"] = "running"
  /\ asks["planner"] = Nobody /\ waits["planner"] = Nobody
  /\ PlannerMayLeave
  /\ threads' = [threads EXCEPT !["planner"] = "off"]
  /\ UNCHANGED <<whole, conversation, text, early, program, cache, events>>

TurnThread(th) ==
  \/ VerdictAsks(th) \/ VerdictFails(th) \/ Hears(th)
  \/ \E t \in Tools : VerdictEnters(th, t) \/ Waits(th, t) \/ StartsEarly(th, t)
Executor ==
  \/ TurnThread("executor")
  \/ \E t \in Tools : ExecutorCalls(t)
  \/ CallReturns \/ FinalAnswer
  \/ \E fails \in BOOLEAN : ExecutorLeaves(fails)
Planner == TurnThread("planner") \/ PlannerLeaves

-----------------------------------------------------------------------------
(* The judge worker's thread: it settles a future, and then asks the notify
   thread to tell (`deliver`).                                             *)

JudgeSettles(t) ==
  /\ telling = Nobody
  /\ verdict[t] = "pending" /\ asked[t] > 0
  /\ \E d \in {"allowed", "refused"} : verdict' = [verdict EXCEPT ![t] = d]
  /\ telling' = t
  /\ UNCHANGED <<whole, conversation, text, threads, early, program, asked, events>>

JudgeTells ==
  /\ telling # Nobody
  /\ telling' = Nobody
  /\ queue' = IF closed THEN queue ELSE Append(queue, Event("judge_end", telling))
  /\ UNCHANGED <<whole, conversation, text, threads, early, program, verdict,
                 asked, heard>>

Judge == JudgeTells \/ \E t \in Tools : JudgeSettles(t)

-----------------------------------------------------------------------------
(* tool(): registered again under the same name, at any time *)
Registers(t, mark) ==
  /\ changes < MaxChanges /\ tools[t] # mark
  /\ tools' = [tools EXCEPT ![t] = mark] /\ changes' = changes + 1
  /\ UNCHANGED <<closed, ownLoop, conversation, text, threads, early, program,
                 cache, events>>

Close ==
  /\ ~closed
  /\ closed' = TRUE
  /\ ownLoop' = IF ownLoop = "up" THEN "stopped" ELSE ownLoop
  /\ UNCHANGED <<tools, changes, conversation, text, threads, early, program,
                 cache, events>>

Next ==
  \/ \E u \in Users : \/ RunBegins(u) \/ RunGoesOn(u) \/ Driver(u)
                      \/ \E w \in Ways : BeginTurn(u, w) \/ BeginRefused(u, w)
  \/ Executor \/ Planner \/ Judge \/ NotifyDelivers
  \/ \E t \in Tools, mark \in Marks : Registers(t, mark)
  \/ Close

Spec == Init /\ [][Next]_vars

(* Threads are scheduled, streams end, the judge worker settles what it is asked,
   a call whose loop runs returns; nobody need begin a turn or close.      *)
FairSpec ==
  /\ Spec
  /\ \A u \in Users : WF_vars(Driver(u)) /\ WF_vars(RunGoesOn(u))
  /\ WF_vars(Executor) /\ WF_vars(Planner) /\ WF_vars(Judge)
  /\ WF_vars(NotifyDelivers)
-----------------------------------------------------------------------------
(* Type: the values each field of the REPL may have. *)
TypeOK ==
  /\ tools \in [Tools -> Marks] /\ changes \in 0..MaxChanges
  /\ closed \in BOOLEAN /\ ownLoop \in {"none", "up", "stopped"}
  /\ lock \in Users \cup {Nobody} /\ turn \in 0..MaxTurns /\ way \in AllWays
  /\ at \in [Users -> {"idle", "between", "announcing", "feeding", "joining",
                      "flushing", "flushed"}]
  /\ left \in [Users -> 0..MaxRun]
  /\ given \in [turn : 0..MaxTurns, answer : 0..MaxTurns, error : BOOLEAN]
  /\ fed \in BOOLEAN /\ broke \in BOOLEAN /\ error \in BOOLEAN
  /\ on \in {"never", "on", "off"}
  /\ threads \in [Threads -> {"off", "running"}]
  /\ asks \in [Threads -> Tools \cup {Nobody}]
  /\ waits \in [Threads -> Tools \cup {Nobody}]
  /\ todo \subseteq Tools /\ ready \subseteq Tools
  /\ hand \in Tools \cup {Nobody} /\ answer \in 0..MaxTurns
  /\ verdict \in [Tools -> {"none", "pending", "allowed", "refused"}]
  /\ asked \in [Tools -> Nat] /\ telling \in Tools \cup {Nobody}
  /\ queue \in Seq([kind : StreamKinds \cup {"barrier"}, of : 1..MaxTurns]
                     \cup [kind : {"judge_end"}, of : Tools])
  /\ heard \subseteq [kind : StreamKinds \cup {"done"}, of : 1..MaxTurns]
                     \cup [kind : {"judge_end"}, of : Tools]

InTurn(u) == at[u] \in {"announcing", "feeding", "joining", "flushing", "flushed"}

(* One turn at a time: whoever is in a turn has the turn lock, so two turns
   never share the fields _begin_turn resets (repl.py:989, 1059).          *)
OneTurnAtATime == \A u \in Users : InTurn(u) => lock = u

(* "always leaves no thread behind" (repl.py:1027): once the lock is free
   again no thread of the turn runs, asks, or waits, and no early result is
   left for the next turn's code to pick up.                               *)
NothingLeftBehind ==
  lock = Nobody => /\ \A th \in Threads : /\ threads[th] = "off"
                                          /\ asks[th] = Nobody /\ waits[th] = Nobody
                   /\ hand = Nobody /\ ready = {}

(* The lock of a turn that is over or never began is kept in one case only:
   begun on an event loop of a REPL that is closed, the turn cannot announce
   itself, and _begin_turn raises outside every `finally` (repl.py:989, 1015). *)
LockHeldForCause ==
  lock # Nobody /\ ~InTurn(lock) => closed /\ way = "arun_turn"

(* "asked once per distinct call" (repl.py:679): by two threads, over every
   turn of the conversation and every registration.                        *)
AskedOnce == \A t \in Tools : asked[t] <= 1

(* The answer of a Turn was given in that turn, and the turn had no error:
   run() never stops at the answer of an earlier turn (repl.py:1045-1056).  *)
AnswersAreItsOwn ==
  given.answer # 0 => given.answer = given.turn /\ ~given.error

(* Of a turn's stream_begin, tokens and stream_end nothing reaches the
   listener after its done, whichever thread delivers it (repl.py:1042).    *)
DoneComesLast ==
  [][\A e \in heard' \ heard :
       e.kind \in StreamKinds => Event("done", e.of) \notin heard]_vars

(* "Neither: a normal tool, never started early" (repl.py:618). *)
UnmarkedStaysPut ==
  [][\A t \in ready' \ ready : tools[t] # "plain"]_vars

(* Who begins a turn or a run comes back from it, without the lock, closed or
   not (repl.py:1026-1058, 1182-1205).  There are two ways not to: a thread of
   the turn waits for a verdict that was cached and never asked for (686-713),
   or for an async call on the REPL's own loop, which close() has stopped.
   And a lock is never given back that LockHeldForCause lets be held.       *)
Lost(t) ==
  verdict[t] = "pending" /\ asked[t] = 0 /\ \A th \in Threads : asks[th] # t
WaitsForLost == \E th \in Threads : waits[th] # Nobody /\ Lost(waits[th])
CutOff == hand \in Async /\ way = "run_turn" /\ ownLoop = "stopped"

UsersReturn ==
  \A u \in Users :
    (at[u] # "idle" \/ lock = u) ~>
      \/ at[u] = "idle" /\ (lock = u => closed /\ way = "arun_turn")
      \/ WaitsForLost \/ CutOff
=============================================================================
