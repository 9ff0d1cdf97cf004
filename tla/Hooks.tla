-------------------------------- MODULE Hooks --------------------------------
(***************************************************************************)
(* The hooks of repl.py under any code shape: calls made by several threads *)
(* of the program at once, and calls made from inside a tool (a callback   *)
(* the program passed it).  The launch lock is a threading.Lock: whoever   *)
(* takes it again waits for himself.                                       *)
(*                                                                         *)
(* SpecTurn has one thread and no call inside a call; statements, text and *)
(* planning are there.  Here the planner starts allowed calls at will.     *)
(***************************************************************************)
EXTENDS Naturals, Sequences

CONSTANTS
  Threads,    \* the program's, the executor among them
  Calls,
  Allowed,    \* calls that may start early: marked early, or allowed by the judge
  Early,      \* those marked early=True: nobody needs to ask
  Inside,     \* the calls each call may make from inside
  MaxCalls,   \* calls made by each thread: a bound of the model
  MaxEarly,   \* calls started early: a bound of the model
  Nobody      \* no thread

ASSUME Constants == /\ Allowed \subseteq Calls /\ Early \subseteq Allowed
                    /\ Inside \in [Calls -> SUBSET Calls]
                    /\ MaxCalls \in Nat /\ MaxEarly \in Nat
                    /\ Nobody \notin Threads

VARIABLES
  launch,   \* who runs a state-changing call in _launch
  ready,    \* _ready: per call, the early results not yet used, in order
  started,  \* calls started early so far
  changes,  \* state-changing calls begun so far
  commit,   \* _commit
  abort,    \* _abort is set
  asked,    \* calls whose verdict has been asked for
  stack,    \* what each thread is in: the innermost call first
  todo      \* calls each thread may still make

vars == <<launch, ready, started, changes, commit, abort, asked, stack, todo>>
turn == <<commit, abort>>
early == <<ready, started, changes>>

Steps == {"take", "early", "gate", "hold", "decide", "run", "enter", "alone"}
NoResult == [id |-> 0, since |-> 0]
Frame(c, step, use) == [call |-> c, step |-> step, use |-> use]

Idle(th) == stack[th] = <<>>
Top(th) == Head(stack[th])
At(th, step) == stack[th] # <<>> /\ Top(th).step = step
Moved(th, step) == [stack EXCEPT ![th] = <<[Head(@) EXCEPT !.step = step]>> \o Tail(@)]
Returned(th) == [stack EXCEPT ![th] = Tail(@)]

Init ==
  /\ launch = Nobody
  /\ ready = [c \in Calls |-> <<>>] /\ started = 0 /\ changes = 0
  /\ commit = FALSE /\ abort = FALSE /\ asked = {}
  /\ stack = [th \in Threads |-> <<>>]
  /\ todo = [th \in Threads |-> MaxCalls]

-----------------------------------------------------------------------------
(* call() of _hook.  The program calls it, or a tool that is at work.      *)
MayCall(th, c) ==
  \/ Idle(th)
  \/ (At(th, "run") \/ At(th, "alone")) /\ c \in Inside[Top(th).call]

Enters(th, c) ==
  /\ todo[th] > 0 /\ MayCall(th, c)
  /\ stack' = [stack EXCEPT ![th] = <<Frame(c, "take", NoResult)>> \o @]
  /\ todo' = [todo EXCEPT ![th] = @ - 1]
  /\ UNCHANGED <<launch, early, turn, asked>>

LaunchIgnored == TRUE                       \* mutated: no lock
LaunchFree == launch = Nobody

LeftThere(c) == ready                       \* mutated: not popped
AfterTaking(c) == [ready EXCEPT ![c] = Tail(@)]

Takes(th) ==
  /\ At(th, "take") /\ LaunchFree
  /\ LET c == Top(th).call IN
     IF ready[c] = <<>>
     THEN stack' = Moved(th, "gate") /\ UNCHANGED ready
     ELSE /\ ready' = AfterTaking(c)
          /\ stack' = [stack EXCEPT ![th] =
                         <<Frame(c, "early", Head(ready[c]))>> \o Tail(@)]
  /\ UNCHANGED <<launch, started, changes, turn, asked, todo>>

EarlyReturns(th) ==
  /\ At(th, "early")
  /\ stack' = Returned(th)
  /\ UNCHANGED <<launch, early, turn, asked, todo>>

PassesGate(th) ==
  /\ At(th, "gate") /\ commit
  /\ stack' = Moved(th, "decide")
  /\ UNCHANGED <<launch, early, turn, asked, todo>>

NeverHolds(c) == "decide"                   \* mutated: the verdict not looked at
NextAfterVerdict(c) == IF c \in Allowed THEN "decide" ELSE "hold"

(* commit was not set when it looked; the verdict comes when it comes *)
HearsVerdict(th) ==
  /\ At(th, "gate") /\ Top(th).call \in asked
  /\ stack' = Moved(th, NextAfterVerdict(Top(th).call))
  /\ UNCHANGED <<launch, early, turn, asked, todo>>

Asks(th) ==
  /\ At(th, "gate") /\ ~commit /\ Top(th).call \notin asked
  /\ asked' = asked \cup {Top(th).call}
  /\ UNCHANGED <<launch, early, turn, stack, todo>>

Held(th) ==
  /\ At(th, "hold") /\ commit
  /\ stack' = Moved(th, "decide")
  /\ UNCHANGED <<launch, early, turn, asked, todo>>

KnownSafe(c) == c \in Early \cup (asked \cap Allowed)

Aborts(th) ==
  /\ At(th, "decide") /\ abort
  /\ stack' = Returned(th)
  /\ UNCHANGED <<launch, early, turn, asked, todo>>

Decides(th) ==
  /\ At(th, "decide") /\ ~abort
  /\ stack' = Moved(th, IF KnownSafe(Top(th).call) THEN "run" ELSE "enter")
  /\ UNCHANGED <<launch, early, turn, asked, todo>>

KeptReady == ready                          \* mutated: _drop_early forgotten
Dropped == [c \in Calls |-> <<>>]

RunsAlone(th) ==
  /\ At(th, "enter") /\ LaunchFree
  /\ launch' = th
  /\ ready' = Dropped /\ changes' = changes + 1
  /\ stack' = Moved(th, "alone")
  /\ UNCHANGED <<started, turn, asked, todo>>

RunReturns(th) ==
  /\ At(th, "run")
  /\ stack' = Returned(th)
  /\ UNCHANGED <<launch, early, turn, asked, todo>>

LeftLocked == launch                        \* mutated: not released on the way out
Unlocked == Nobody

AloneReturns(th) ==
  /\ At(th, "alone")
  /\ launch' = Unlocked
  /\ stack' = Returned(th)
  /\ UNCHANGED <<early, turn, asked, todo>>

Hook(th) ==
  \/ Takes(th) \/ EarlyReturns(th)
  \/ PassesGate(th) \/ Asks(th) \/ HearsVerdict(th) \/ Held(th)
  \/ Aborts(th) \/ Decides(th) \/ RunsAlone(th)
  \/ RunReturns(th) \/ AloneReturns(th)

-----------------------------------------------------------------------------
(* The planner: verdicts first, then one call at a time in the launch lock. *)
PlanAsks(c) ==
  /\ c \notin asked /\ started < MaxEarly
  /\ asked' = asked \cup {c}
  /\ UNCHANGED <<launch, early, turn, stack, todo>>

StartsEarly(c) ==
  /\ started < MaxEarly
  /\ c \in asked \cap Allowed /\ LaunchFree
  /\ started' = started + 1
  /\ ready' = [ready EXCEPT ![c] = Append(@, [id |-> started + 1, since |-> changes])]
  /\ UNCHANGED <<launch, changes, turn, asked, stack, todo>>

Commits ==
  /\ ~commit
  /\ commit' = TRUE /\ abort' \in BOOLEAN
  /\ UNCHANGED <<launch, early, asked, stack, todo>>

Next ==
  \/ \E th \in Threads : Hook(th) \/ \E c \in Calls : Enters(th, c)
  \/ \E c \in Calls : PlanAsks(c) \/ StartsEarly(c)
  \/ Commits

Spec == Init /\ [][Next]_vars

(* Threads are scheduled, a tool that waits for nobody returns, the planner
   commits; nobody need make a call.  The lock need not be fair: the program
   ends, so nobody is passed over for ever.                                *)
FairSpec ==
  /\ Spec
  /\ WF_vars(Commits)
  /\ \A th \in Threads : WF_vars(Hook(th))

-----------------------------------------------------------------------------
(* Type: stacks of calls, each at a step of its hook; results are stamped with
   their number and with the changes begun before them.                    *)
Results == [id : Nat, since : Nat]
TypeOK ==
  /\ launch \in Threads \cup {Nobody}
  /\ ready \in [Calls -> Seq(Results)]
  /\ started \in Nat /\ changes \in Nat
  /\ commit \in BOOLEAN /\ abort \in BOOLEAN /\ asked \subseteq Calls
  /\ stack \in [Threads -> Seq([call : Calls, step : Steps, use : Results])]
  /\ todo \in [Threads -> 0..MaxCalls]

(* What a thread is in, at any depth. *)
In(th, step) == \E i \in DOMAIN stack[th] : stack[th][i].step = step

(* Whoever is inside a state-changing call holds the launch lock, whatever the
   number of threads: two such calls never overlap (repl.py:808-812).       *)
UnsafeOneAtATime == \A th \in Threads : In(th, "alone") => launch = th

(* Every early result that can still be taken was started after the last
   state-changing call began (repl.py:811, 875-885).                    *)
ReadyIsFresh ==
  \A c \in Calls : \A i \in DOMAIN ready[c] : ready[c][i].since = changes

(* An early result is taken by one thread, and once (repl.py:794-796). *)
TakenOnce ==
  /\ \A t1, t2 \in Threads :
       \A i \in DOMAIN stack[t1], j \in DOMAIN stack[t2] :
         /\ stack[t1][i].use # NoResult
         /\ stack[t1][i].use = stack[t2][j].use
         => t1 = t2 /\ i = j
  /\ \A th \in Threads : \A i \in DOMAIN stack[th] :
       \A c \in Calls : \A k \in DOMAIN ready[c] :
         ready[c][k] # stack[th][i].use

(* A call that is not allowed early runs only once the block is complete and
   did not fail, also from other threads and from inside a tool
   (repl.py:21-22, 799-806).                                               *)
DeniedWait ==
  \A th \in Threads : \A i \in DOMAIN stack[th] :
    /\ stack[th][i].call \notin Allowed
    /\ stack[th][i].step \in {"run", "enter", "alone"}
    => commit /\ ~abort

(* A thread inside a state-changing call, which holds the launch lock, makes a
   call from there that needs it (repl.py:794, 808-812).  Any call may run as
   a state-changing one, allowed ones too: made after the commit, one nobody
   has asked about is not known to be safe (799, 806).                     *)
WaitsForItself(th) == In(th, "alone") /\ (At(th, "take") \/ At(th, "enter"))

(* Every call returns, whatever calls back into the program: no hook waits for
   ever, unless some thread waits for the lock it holds itself.            *)
CallsReturn ==
  \A th \in Threads :
    ~Idle(th) ~> Idle(th) \/ \E other \in Threads : WaitsForItself(other)
=============================================================================
