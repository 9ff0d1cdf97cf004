---------------------------- MODULE SessionProofs ----------------------------
(* Session proved for any number of users, tools and turns: turns do not
   overlap, leave nothing behind, ask for each verdict once and answer only
   for themselves; and of what a turn says nothing is heard after `done`.  *)
EXTENDS Session, TLAPS

(* The types the argument needs. *)
Typed ==
  /\ lock \in Users \cup {Nobody}
  /\ at \in [Users -> {"idle", "between", "announcing", "feeding", "joining",
                       "flushing", "flushed"}]
  /\ threads \in [Threads -> {"off", "running"}]
  /\ asks \in [Threads -> Tools \cup {Nobody}]
  /\ waits \in [Threads -> Tools \cup {Nobody}]
  /\ verdict \in [Tools -> {"none", "pending", "allowed", "refused"}]
  /\ asked \in [Tools -> Nat]

(* A thread that is over asks and waits for nothing. *)
ThreadInv ==
  /\ \A th \in Threads : threads[th] = "off" => asks[th] = Nobody /\ waits[th] = Nobody
  /\ threads["executor"] = "off" => hand = Nobody

(* From the joins of its threads to the release of the lock a turn is quiet,
   and so it is while nobody has the lock.                                 *)
Quiet ==
  /\ \A th \in Threads : threads[th] = "off" /\ asks[th] = Nobody /\ waits[th] = Nobody
  /\ hand = Nobody /\ ready = {}
Joined == lock = Nobody \/ \E u \in Users : at[u] \in {"flushing", "flushed"}
QuietInv == Joined => Quiet

(* One thread is between the cache and the judge with a call, and only once. *)
AskInv ==
  \A t \in Tools :
    /\ asked[t] <= 1
    /\ verdict[t] = "none" => asked[t] = 0 /\ \A th \in Threads : asks[th] # t
    /\ \A th \in Threads : asks[th] = t => asked[t] = 0
    /\ \A th, other \in Threads : asks[th] = t /\ asks[other] = t => th = other

Inv == Typed /\ OneTurnAtATime /\ ThreadInv /\ QuietInv /\ AskInv

turnVars == <<lock, at, threads, asks, waits, hand, ready, verdict, asked>>

-----------------------------------------------------------------------------
LEMMA InitInv == Init => Inv
<1> SUFFICES ASSUME Init PROVE Inv
  OBVIOUS
<1> USE DEF Init
<1>1. Typed
  BY DEF Typed, Threads
<1>2. OneTurnAtATime
  BY DEF OneTurnAtATime, InTurn
<1>3. ThreadInv /\ QuietInv
  BY DEF ThreadInv, QuietInv, Quiet, Threads
<1>4. AskInv
  BY Parameters DEF AskInv
<1>5. QED
  BY <1>1, <1>2, <1>3, <1>4 DEF Inv

LEMMA Unmoved == Inv /\ UNCHANGED turnVars => Inv'
  BY DEF Inv, Typed, OneTurnAtATime, InTurn, ThreadInv, QuietInv, Quiet, Joined,
         AskInv, turnVars

(* A user who moves without the lock: to or from a place outside a turn. *)
LEMMA Outside ==
  ASSUME Inv, NEW u \in Users, ~InTurn(u),
         NEW place \in {"idle", "between"}, at' = [at EXCEPT ![u] = place],
         UNCHANGED <<lock, threads, asks, waits, hand, ready, verdict, asked>>
  PROVE  Inv'
<1>1. Typed' /\ at'[u] = place /\ \A o \in Users \ {u} : at'[o] = at[o]
  BY DEF Inv, Typed
<1>2. OneTurnAtATime'
  BY <1>1 DEF Inv, OneTurnAtATime, InTurn
<1>3. Joined' => Joined
  BY <1>1 DEF Joined
<1>4. QuietInv'
  BY <1>3 DEF Inv, QuietInv, Quiet
<1>5. QED
  BY <1>1, <1>2, <1>4 DEF Inv, ThreadInv, AskInv

(* A user inside a turn who moves on in it; before the joins nothing needs to
   be quiet.                                                               *)
LEMMA Inside ==
  ASSUME Inv, NEW u \in Users, InTurn(u),
         NEW place \in {"feeding", "joining"}, at' = [at EXCEPT ![u] = place],
         UNCHANGED <<lock, threads, asks, waits, hand, ready, verdict, asked>>
  PROVE  Inv'
<1>1. Typed' /\ at'[u] = place /\ \A o \in Users \ {u} : at'[o] = at[o]
  BY DEF Inv, Typed
<1>2. OneTurnAtATime'
  BY <1>1 DEF Inv, OneTurnAtATime, InTurn
<1>3. Joined' => Joined
  BY <1>1 DEF Joined
<1>4. QuietInv'
  BY <1>3 DEF Inv, QuietInv, Quiet
<1>5. QED
  BY <1>1, <1>2, <1>4 DEF Inv, ThreadInv, AskInv

LEMMA Begins ==
  ASSUME Inv, NEW u \in Users, NEW w, BeginTurn(u, w)
  PROVE  Inv'
<1>1. /\ lock = Nobody /\ lock' = u /\ at' = [at EXCEPT ![u] = "announcing"]
      /\ threads' = [th \in Threads |-> "running"] /\ ready' = {}
      /\ UNCHANGED <<asks, waits, hand, verdict, asked>>
  BY DEF BeginTurn, LockFree, TurnFields, cache
<1>2. Typed'
  BY <1>1 DEF Inv, Typed
<1>3. \A o \in Users : ~InTurn(o)
  BY <1>1, Parameters DEF Inv, OneTurnAtATime
<1>4. at'[u] = "announcing" /\ \A o \in Users \ {u} : at'[o] = at[o]
  BY <1>1 DEF Inv, Typed
<1>5. OneTurnAtATime'
  BY <1>1, <1>3, <1>4 DEF OneTurnAtATime, InTurn
<1>6. ~Joined'
  BY <1>1, <1>3, <1>4, Parameters DEF Joined, InTurn
<1>7. ThreadInv'
  BY <1>1 DEF ThreadInv, Threads
<1>8. QED
  BY <1>1, <1>2, <1>5, <1>6, <1>7 DEF Inv, QuietInv, AskInv

(* The threads are joined: none of them asks or waits, and what was early is
   dropped.                                                                *)
LEMMA JoinsInv ==
  ASSUME Inv, NEW u \in Users, Joins(u)
  PROVE  Inv'
<1>1. /\ at[u] = "joining" /\ \A th \in Threads : threads[th] = "off"
      /\ ready' = {} /\ at' = [at EXCEPT ![u] = "flushing"]
      /\ UNCHANGED <<lock, threads, asks, waits, hand, verdict, asked>>
  BY DEF Joins, ThreadsOver, program, cache
<1>2. Typed' /\ at'[u] = "flushing" /\ \A o \in Users \ {u} : at'[o] = at[o]
  BY <1>1 DEF Inv, Typed
<1>3. OneTurnAtATime'
  BY <1>1, <1>2 DEF Inv, OneTurnAtATime, InTurn
<1>4. Quiet'
  BY <1>1 DEF Inv, ThreadInv, Quiet, Threads
<1>5. QED
  BY <1>1, <1>2, <1>3, <1>4 DEF Inv, QuietInv, ThreadInv, AskInv

(* Already joined, the turn goes on, or is over with the lock. *)
LEMMA Finishes ==
  ASSUME Inv, NEW u \in Users, Flushes(u) \/ FlushFails(u) \/ TurnDone(u)
  PROVE  Inv'
<1>1. PICK place \in {"flushed", "idle", "between"} :
        /\ at[u] \in {"flushing", "flushed"} /\ at' = [at EXCEPT ![u] = place]
        /\ IF place = "flushed" THEN lock' = lock ELSE lock' = Nobody
        /\ UNCHANGED <<threads, asks, waits, hand, ready, verdict, asked>>
  <2>1. CASE Flushes(u)
    BY <2>1 DEF Flushes, early, program, cache
  <2>2. CASE FlushFails(u)
    BY <2>2 DEF FlushFails, Release, early, program, cache
  <2>3. CASE TurnDone(u)
    BY <2>3 DEF TurnDone, Release, early, program, cache
  <2>4. QED
    BY <2>1, <2>2, <2>3
<1>2. Typed' /\ at'[u] = place /\ \A o \in Users \ {u} : at'[o] = at[o]
  BY <1>1 DEF Inv, Typed
<1>3. \A o \in Users \ {u} : ~InTurn(o)
  <2>1. lock = u
    BY <1>1 DEF Inv, OneTurnAtATime, InTurn
  <2>2. QED
    BY <2>1 DEF Inv, OneTurnAtATime
<1>4. OneTurnAtATime'
  <2>1. place = "flushed" => lock' = u
    BY <1>1 DEF Inv, OneTurnAtATime, InTurn
  <2>2. QED
    BY <1>2, <1>3, <2>1 DEF OneTurnAtATime, InTurn
<1>5. Quiet /\ Quiet'
  BY <1>1 DEF Inv, QuietInv, Joined, Quiet
<1>6. QED
  BY <1>1, <1>2, <1>4, <1>5 DEF Inv, QuietInv, ThreadInv, AskInv

(* A user's own steps outside a turn, and in one. *)
LEMMA UserInv ==
  ASSUME Inv, NEW u \in Users,
         \/ RunBegins(u) \/ ChatFails(u) \/ Driver(u)
         \/ \E w \in AllWays : BeginTurn(u, w) \/ BeginRefused(u, w)
  PROVE  Inv'
<1> USE DEF early, program, cache, conversation
<1>1. CASE RunBegins(u)
  <2>1. ~InTurn(u) /\ at' = [at EXCEPT ![u] = "between"]
          /\ UNCHANGED <<lock, threads, asks, waits, hand, ready, verdict, asked>>
    BY <1>1 DEF RunBegins, InTurn
  <2>2. QED
    BY <2>1, Outside
<1>2. CASE ChatFails(u) \/ \E w \in AllWays : BeginRefused(u, w)
  <2>1. ~InTurn(u) /\ at' = [at EXCEPT ![u] = "idle"]
          /\ UNCHANGED <<lock, threads, asks, waits, hand, ready, verdict, asked>>
    BY <1>2 DEF ChatFails, BeginRefused, InTurn
  <2>2. QED
    BY <2>1, Outside
<1>3. CASE \E w \in AllWays : BeginTurn(u, w)
  BY <1>3, Begins
<1>4. CASE Announces(u) \/ Feeds(u) \/ \E raises \in BOOLEAN : StreamEnds(u, raises)
  <2>1. CASE Announces(u)
    <3>1. InTurn(u) /\ at' = [at EXCEPT ![u] = "feeding"]
            /\ UNCHANGED <<lock, threads, asks, waits, hand, ready, verdict, asked>>
      BY <2>1 DEF Announces, InTurn
    <3>2. QED
      BY <3>1, Inside
  <2>2. CASE Feeds(u)
    <3>1. UNCHANGED turnVars
      BY <2>2 DEF Feeds, turnVars
    <3>2. QED
      BY <3>1, Unmoved
  <2>3. CASE \E raises \in BOOLEAN : StreamEnds(u, raises)
    <3>1. InTurn(u) /\ at' = [at EXCEPT ![u] = "joining"]
            /\ UNCHANGED <<lock, threads, asks, waits, hand, ready, verdict, asked>>
      BY <2>3 DEF StreamEnds, InTurn
    <3>2. QED
      BY <3>1, Inside
  <2>4. QED
    BY <1>4, <2>1, <2>2, <2>3
<1>5. CASE AnnounceFails(u)
  <2>1. at[u] = "announcing" /\ at' = [at EXCEPT ![u] = "idle"]
          /\ UNCHANGED <<lock, threads, asks, waits, hand, ready, verdict, asked>>
    BY <1>5 DEF AnnounceFails
  <2>2. Typed' /\ at'[u] = "idle" /\ \A o \in Users \ {u} : at'[o] = at[o]
    BY <2>1 DEF Inv, Typed
  <2>3. OneTurnAtATime' /\ (Joined' => Joined)
    BY <2>1, <2>2 DEF Inv, OneTurnAtATime, InTurn, Joined
  <2>4. QED
    BY <2>1, <2>2, <2>3 DEF Inv, QuietInv, Quiet, ThreadInv, AskInv
<1>6. CASE Joins(u)
  BY <1>6, JoinsInv
<1>7. CASE Flushes(u) \/ FlushFails(u) \/ TurnDone(u)
  BY <1>7, Finishes
<1>8. QED
  BY <1>1, <1>2, <1>3, <1>4, <1>5, <1>6, <1>7 DEF Driver

-----------------------------------------------------------------------------
(* A thread at work shows that nothing is joined. *)
LEMMA Working ==
  ASSUME Inv, \/ \E th \in Threads : threads[th] = "running" \/ asks[th] # Nobody
                                     \/ waits[th] # Nobody
              \/ hand # Nobody
  PROVE  ~Joined
  BY DEF Inv, QuietInv, Quiet, Typed

LEMMA EntersInv ==
  ASSUME Inv, NEW th \in Threads, NEW t \in Tools, VerdictEnters(th, t)
  PROVE  Inv'
<1>1. /\ threads[th] = "running" /\ asks[th] = Nobody /\ verdict[t] = "none"
      /\ UNCHANGED <<lock, at, threads, waits, hand, ready, asked>>
  BY DEF VerdictEnters, Looks, AtWork, NotCached, conversation, program
<1>2. PICK v \in {"pending", "allowed", "refused"} : verdict' = [verdict EXCEPT ![t] = v]
  BY DEF VerdictEnters
<1>3. PICK a \in {t, Nobody} : asks' = [asks EXCEPT ![th] = a]
  BY DEF VerdictEnters
<1>4. Typed'
  BY <1>1, <1>2, <1>3 DEF Inv, Typed
<1>5. ~Joined /\ (Joined' <=> Joined)
  BY <1>1, Working DEF Joined
<1>6. ThreadInv' /\ OneTurnAtATime'
  BY <1>1, <1>3 DEF Inv, Typed, ThreadInv, OneTurnAtATime, InTurn
<1>7. /\ verdict'[t] # "none" /\ \A s \in Tools \ {t} : verdict'[s] = verdict[s]
      /\ asks'[th] = a /\ \A o \in Threads \ {th} : asks'[o] = asks[o]
  BY <1>2, <1>3 DEF Inv, Typed
<1>8. AskInv'
  <2> SUFFICES ASSUME NEW s \in Tools
               PROVE /\ asked[s]' <= 1
                     /\ verdict'[s] = "none" => asked'[s] = 0 /\ \A o \in Threads : asks'[o] # s
                     /\ \A o \in Threads : asks'[o] = s => asked'[s] = 0
                     /\ \A o, p \in Threads : asks'[o] = s /\ asks'[p] = s => o = p
    BY DEF AskInv
  <2>1. /\ asked'[s] = asked[s] /\ asked[s] <= 1 /\ s # Nobody
        /\ verdict[s] = "none" => asked[s] = 0 /\ \A o \in Threads : asks[o] # s
        /\ \A o \in Threads : asks[o] = s => asked[s] = 0
        /\ \A o, p \in Threads : asks[o] = s /\ asks[p] = s => o = p
    BY <1>1, Parameters DEF Inv, AskInv
  <2>2. QED
    BY <1>1, <1>7, <2>1
<1>9. QED
  BY <1>4, <1>5, <1>6, <1>8 DEF Inv, QuietInv

LEMMA AsksInv ==
  ASSUME Inv, NEW th \in Threads, VerdictAsks(th)
  PROVE  Inv'
<1>1. /\ asks[th] # Nobody /\ asks' = [asks EXCEPT ![th] = Nobody]
      /\ asked' = [asked EXCEPT ![asks[th]] = @ + 1]
      /\ UNCHANGED <<lock, at, threads, waits, hand, ready, verdict>>
  BY DEF VerdictAsks, conversation, program
<1>2. PICK t \in Tools : t = asks[th]
  BY <1>1 DEF Inv, Typed
<1>3. Typed'
  BY <1>1, <1>2 DEF Inv, Typed
<1>4. ~Joined /\ (Joined' <=> Joined)
  BY <1>1, Working DEF Joined
<1>5. ThreadInv' /\ OneTurnAtATime'
  BY <1>1 DEF Inv, Typed, ThreadInv, OneTurnAtATime, InTurn
<1>6. /\ asks'[th] = Nobody /\ \A o \in Threads \ {th} : asks'[o] = asks[o]
      /\ asked'[t] = asked[t] + 1 /\ \A s \in Tools \ {t} : asked'[s] = asked[s]
  BY <1>1, <1>2 DEF Inv, Typed
<1>7. AskInv'
  <2> SUFFICES ASSUME NEW s \in Tools
               PROVE /\ asked[s]' <= 1
                     /\ verdict'[s] = "none" => asked'[s] = 0 /\ \A o \in Threads : asks'[o] # s
                     /\ \A o \in Threads : asks'[o] = s => asked'[s] = 0
                     /\ \A o, p \in Threads : asks'[o] = s /\ asks'[p] = s => o = p
    BY DEF AskInv
  <2>1. /\ asked[s] <= 1 /\ s # Nobody /\ verdict'[s] = verdict[s]
        /\ verdict[s] = "none" => asked[s] = 0 /\ \A o \in Threads : asks[o] # s
        /\ \A o \in Threads : asks[o] = s => asked[s] = 0
        /\ \A o, p \in Threads : asks[o] = s /\ asks[p] = s => o = p
    BY <1>1, Parameters DEF Inv, AskInv
  <2>2. CASE s = t
    <3>1. asked[s] = 0 /\ \A o \in Threads : asks[o] = s => o = th
      BY <1>2, <2>1, <2>2
    <3>2. asked'[s] = 1 /\ \A o \in Threads : asks'[o] # s
      BY <1>6, <2>1, <2>2, <3>1
    <3>3. verdict[s] # "none"
      BY <1>2, <2>1, <2>2
    <3>4. QED
      BY <2>1, <3>2, <3>3
  <2>3. CASE s # t
    BY <1>6, <2>1, <2>3
  <2>4. QED
    BY <2>2, <2>3
<1>8. QED
  BY <1>3, <1>4, <1>5, <1>7 DEF Inv, QuietInv

(* Asking raised: the call is out of the thread's hand, and was not asked for. *)
LEMMA FailsInv ==
  ASSUME Inv, NEW th \in Threads, VerdictFails(th)
  PROVE  Inv'
<1>1. /\ asks[th] # Nobody /\ asks' = [asks EXCEPT ![th] = Nobody]
      /\ UNCHANGED <<lock, at, threads, waits, hand, ready, verdict, asked>>
  BY DEF VerdictFails, conversation, program, cache
<1>2. Typed' /\ \A o \in Threads : asks'[o] = IF o = th THEN Nobody ELSE asks[o]
  BY <1>1 DEF Inv, Typed
<1>3. ~Joined /\ (Joined' <=> Joined)
  BY <1>1, Working DEF Joined
<1>4. ThreadInv' /\ OneTurnAtATime'
  BY <1>1, <1>2 DEF Inv, ThreadInv, OneTurnAtATime, InTurn
<1>5. AskInv'
  BY <1>1, <1>2, Parameters DEF Inv, AskInv
<1>6. QED
  BY <1>2, <1>3, <1>4, <1>5 DEF Inv, QuietInv

(* A thread begins or ends its wait for a verdict. *)
LEMMA WaitsInv ==
  ASSUME Inv, NEW th \in Threads, Hears(th) \/ \E t \in Tools : Waits(th, t)
  PROVE  Inv'
<1>1. PICK t \in Tools \cup {Nobody} :
        /\ waits' = [waits EXCEPT ![th] = t]
        /\ threads[th] = "running" \/ (t = Nobody /\ waits[th] # Nobody)
        /\ UNCHANGED <<lock, at, threads, asks, hand, ready, verdict, asked>>
  <2>1. CASE Hears(th)
    BY <2>1 DEF Hears, conversation, program, cache
  <2>2. ASSUME NEW s \in Tools, Waits(th, s)
        PROVE  /\ waits' = [waits EXCEPT ![th] = s] /\ threads[th] = "running"
               /\ UNCHANGED <<lock, at, threads, asks, hand, ready, verdict, asked>>
    BY <2>2 DEF Waits, Looks, AtWork, conversation, program, cache
  <2>3. QED
    BY <2>1, <2>2
<1>2. Typed' /\ \A o \in Threads : waits'[o] = IF o = th THEN t ELSE waits[o]
  BY <1>1 DEF Inv, Typed
<1>3. ~Joined /\ (Joined' <=> Joined)
  BY <1>1, Working DEF Joined
<1>4. ThreadInv' /\ OneTurnAtATime' /\ AskInv'
  BY <1>1, <1>2 DEF Inv, ThreadInv, OneTurnAtATime, InTurn, AskInv
<1>5. QED
  BY <1>2, <1>3, <1>4 DEF Inv, QuietInv

(* The other steps of the turn's threads and of the judge worker's. *)
LEMMA ThreadStep ==
  ASSUME Inv,
         \/ \E th \in Threads, t \in Tools : StartsEarly(th, t)
         \/ \E t \in Tools : ExecutorCalls(t)
         \/ CallReturns \/ FinalAnswer \/ PlannerLeaves
         \/ \E fails \in BOOLEAN : ExecutorLeaves(fails)
  PROVE  Inv'
<1> USE DEF conversation, cache, early
<1>1. ~Joined
  BY Working DEF StartsEarly, ExecutorCalls, CallReturns, FinalAnswer, PlannerLeaves,
                 ExecutorLeaves, Looks, AtWork, Threads
<1>2. UNCHANGED <<lock, at, asks, waits, verdict, asked>>
  BY DEF StartsEarly, ExecutorCalls, CallReturns, FinalAnswer, PlannerLeaves, ExecutorLeaves
<1>3. ~Joined' /\ OneTurnAtATime' /\ AskInv'
  BY <1>1, <1>2 DEF Inv, Joined, OneTurnAtATime, InTurn, AskInv
<1>4. Typed' /\ ThreadInv'
  <2>1. CASE \E th \in Threads, t \in Tools : StartsEarly(th, t)
    BY <2>1, <1>2 DEF Inv, Typed, ThreadInv, StartsEarly, program
  <2>2. CASE \E t \in Tools : ExecutorCalls(t)
    BY <2>2, <1>2 DEF Inv, Typed, ThreadInv, ExecutorCalls, AtWork
  <2>3. CASE CallReturns \/ FinalAnswer
    BY <2>3, <1>2 DEF Inv, Typed, ThreadInv, CallReturns, FinalAnswer
  <2>4. CASE PlannerLeaves
    BY <2>4, <1>2 DEF Inv, Typed, ThreadInv, PlannerLeaves, program, Threads
  <2>5. CASE \E fails \in BOOLEAN : ExecutorLeaves(fails)
    BY <2>5, <1>2 DEF Inv, Typed, ThreadInv, ExecutorLeaves, Threads
  <2>6. QED
    BY <2>1, <2>2, <2>3, <2>4, <2>5
<1>5. QED
  BY <1>3, <1>4 DEF Inv, QuietInv

LEMMA JudgeInv ==
  ASSUME Inv, NEW t \in Tools, JudgeSettles(t)
  PROVE  Inv'
<1>1. UNCHANGED <<lock, at, threads, asks, waits, hand, ready, asked>> /\ verdict[t] = "pending"
  BY DEF JudgeSettles, conversation, early, program
<1>2. PICK d \in {"allowed", "refused"} : verdict' = [verdict EXCEPT ![t] = d]
  BY DEF JudgeSettles
<1>3. Typed' /\ \A s \in Tools : verdict'[s] = "none" => verdict[s] = "none"
  BY <1>1, <1>2 DEF Inv, Typed
<1>4. QED
  BY <1>1, <1>3 DEF Inv, OneTurnAtATime, InTurn, ThreadInv, QuietInv, Quiet, Joined, AskInv

LEMMA StepInv == Inv /\ [Next]_vars => Inv'
<1> SUFFICES ASSUME Inv, [Next]_vars PROVE Inv'
  OBVIOUS
<1>1. CASE UNCHANGED vars
  BY <1>1, Unmoved DEF vars, turnVars, conversation, early, program, cache
<1>2. CASE \E u \in Users : \/ RunBegins(u) \/ RunGoesOn(u) \/ Driver(u)
                            \/ \E w \in Ways : BeginTurn(u, w) \/ BeginRefused(u, w)
  BY <1>2, UserInv, Parameters DEF RunGoesOn
<1>3. CASE Executor \/ Planner
  <2>1. \/ \E th \in Threads, t \in Tools : VerdictEnters(th, t)
        \/ \E th \in Threads : VerdictAsks(th) \/ VerdictFails(th)
        \/ \E th \in Threads : Hears(th) \/ \E t \in Tools : Waits(th, t)
        \/ \E th \in Threads, t \in Tools : StartsEarly(th, t)
        \/ \E t \in Tools : ExecutorCalls(t)
        \/ CallReturns \/ FinalAnswer \/ PlannerLeaves
        \/ \E fails \in BOOLEAN : ExecutorLeaves(fails)
    BY <1>3 DEF Executor, Planner, TurnThread, Threads
  <2>2. QED
    BY <2>1, EntersInv, AsksInv, FailsInv, WaitsInv, ThreadStep
<1>4. CASE Judge \/ NotifyDelivers \/ Close
            \/ \E t \in Tools, mark \in Marks : Registers(t, mark)
  <2>1. CASE \E t \in Tools : JudgeSettles(t)
    BY <2>1, JudgeInv
  <2>2. CASE JudgeTells \/ NotifyDelivers \/ Close
               \/ \E t \in Tools, mark \in Marks : Registers(t, mark)
    <3>1. UNCHANGED turnVars
      BY <2>2 DEF JudgeTells, NotifyDelivers, Close, Registers, turnVars,
                  conversation, early, program, cache
    <3>2. QED
      BY <3>1, Unmoved
  <2>3. QED
    BY <1>4, <2>1, <2>2 DEF Judge
<1>5. QED
  BY <1>1, <1>2, <1>3, <1>4 DEF Next

(* Every reachable state satisfies the invariant. *)
THEOREM InvHolds == Spec => []Inv
  BY InitInv, StepInv, PTL DEF Spec

(* Two turns are never under way at once (repl.py:989, 1059). *)
THEOREM TurnsDoNotOverlap == Spec => []OneTurnAtATime
<1>1. Inv => OneTurnAtATime
  BY DEF Inv
<1>2. QED
  BY <1>1, InvHolds, PTL

(* A lock nobody in a turn has is that of a turn which could not announce
   itself.                                                                 *)
LEMMA HeldStep == Inv /\ LockHeldForCause /\ [Next]_vars => LockHeldForCause'
<1> SUFFICES ASSUME Inv, LockHeldForCause, [Next]_vars PROVE LockHeldForCause'
  OBVIOUS
<1> USE DEF conversation, whole, early, program, cache
<1>1. /\ at \in [Users -> {"idle", "between", "announcing", "feeding", "joining",
                            "flushing", "flushed"}]
      /\ lock \in Users \cup {Nobody}
  BY DEF Inv, Typed
<1>2. ASSUME UNCHANGED <<lock, at, way>>, closed => closed' PROVE LockHeldForCause'
  BY <1>2 DEF LockHeldForCause, InTurn
<1>3. ASSUME NEW u \in Users,
             \/ RunBegins(u) \/ ChatFails(u) \/ Driver(u)
             \/ \E w \in AllWays : BeginTurn(u, w) \/ BeginRefused(u, w)
      PROVE  LockHeldForCause'
  <2>1. CASE RunBegins(u) \/ ChatFails(u) \/ \E w \in AllWays : BeginRefused(u, w)
    <3>1. PICK place \in {"between", "idle"} : at' = [at EXCEPT ![u] = place]
      BY <2>1 DEF RunBegins, ChatFails, BeginRefused
    <3>2. ~InTurn(u) /\ UNCHANGED <<lock, way, closed>>
      BY <2>1 DEF RunBegins, ChatFails, BeginRefused, InTurn
    <3>3. \A o \in Users : InTurn(o) => InTurn(o)'
      BY <1>1, <3>1, <3>2 DEF InTurn
    <3>4. QED
      BY <1>1, <3>2, <3>3 DEF LockHeldForCause
  <2>2. CASE \/ \E w \in AllWays : BeginTurn(u, w)
             \/ Announces(u) \/ Joins(u) \/ Flushes(u)
             \/ \E raises \in BOOLEAN : StreamEnds(u, raises)
    <3>1. PICK place \in {"announcing", "feeding", "joining", "flushing", "flushed"} :
            at' = [at EXCEPT ![u] = place]
      BY <2>2 DEF BeginTurn, Announces, Joins, Flushes, StreamEnds
    <3>2. lock' = u
      <4>1. CASE \E w \in AllWays : BeginTurn(u, w)
        BY <4>1 DEF BeginTurn
      <4>2. CASE \/ Announces(u) \/ Joins(u) \/ Flushes(u)
                 \/ \E raises \in BOOLEAN : StreamEnds(u, raises)
        <5>1. InTurn(u) /\ lock' = lock
          BY <4>2 DEF Announces, Joins, Flushes, StreamEnds, InTurn
        <5>2. QED
          BY <5>1 DEF Inv, OneTurnAtATime
      <4>3. QED
        BY <2>2, <4>1, <4>2
    <3>3. InTurn(u)'
      BY <1>1, <3>1 DEF InTurn
    <3>4. QED
      BY <3>2, <3>3 DEF LockHeldForCause
  <2>3. CASE Feeds(u)
    BY <1>2, <2>3 DEF Feeds
  <2>4. CASE AnnounceFails(u)
    BY <2>4 DEF AnnounceFails, OnLoop, LockHeldForCause
  <2>5. CASE FlushFails(u) \/ TurnDone(u)
    BY <2>5 DEF FlushFails, TurnDone, Release, LockHeldForCause
  <2>6. QED
    BY <1>3, <2>1, <2>2, <2>3, <2>4, <2>5 DEF Driver
<1>4. CASE UNCHANGED vars
  BY <1>2, <1>4 DEF vars
<1>5. CASE Executor \/ Planner
  <2>1. UNCHANGED <<lock, at, way, closed>>
    BY <1>5 DEF Executor, Planner, TurnThread, VerdictEnters, VerdictAsks, VerdictFails,
                Waits, Hears, StartsEarly, ExecutorCalls, CallReturns, FinalAnswer,
                ExecutorLeaves, PlannerLeaves
  <2>2. QED
    BY <1>2, <2>1
<1>6. CASE \/ Judge \/ NotifyDelivers \/ Close
           \/ \E t \in Tools, mark \in Marks : Registers(t, mark)
  <2>1. UNCHANGED <<lock, at, way>> /\ (closed => closed')
    BY <1>6 DEF Judge, JudgeSettles, JudgeTells, NotifyDelivers, Close, Registers
  <2>2. QED
    BY <1>2, <2>1
<1>7. QED
  BY <1>3, <1>4, <1>5, <1>6, Parameters DEF Next, RunGoesOn

(* The turn lock outlasts a turn only on a closed REPL, on an event loop
   (repl.py:989, 1015-1017, 1058-1059).                                    *)
THEOREM LockGivenBack == Spec => []LockHeldForCause
<1>1. Init => LockHeldForCause
  BY DEF Init, LockHeldForCause
<1>2. QED
  BY <1>1, InvHolds, HeldStep, PTL DEF Spec

(* A free lock finds no thread, wait or early result of a turn (repl.py:1038). *)
THEOREM LeavesNothing == Spec => []NothingLeftBehind
<1>1. Inv => NothingLeftBehind
  BY DEF Inv, QuietInv, Quiet, Joined, NothingLeftBehind
<1>2. QED
  BY <1>1, InvHolds, PTL

(* No verdict is asked for twice (repl.py:682-686). *)
THEOREM VerdictsAskedOnce == Spec => []AskedOnce
<1>1. Inv => AskedOnce
  BY DEF Inv, AskInv, AskedOnce
<1>2. QED
  BY <1>1, InvHolds, PTL

-----------------------------------------------------------------------------
(* Answers: the one the code has given is of the turn that runs, since every
   turn begins without; the one handed out was of its own turn.            *)
AnswerInv == answer \in {0, turn} /\ AnswersAreItsOwn

answerVars == <<turn, answer, given>>

LEMMA AnswerStep == AnswerInv /\ [Next]_vars => AnswerInv'
<1> SUFFICES ASSUME AnswerInv, [Next]_vars PROVE AnswerInv'
  OBVIOUS
<1> USE DEF conversation, program, early, cache
<1>1. CASE \E u \in Users, w \in AllWays : BeginTurn(u, w)
  <2>1. answer' = 0 /\ given' = given
    BY <1>1 DEF BeginTurn, TurnFields
  <2>2. QED
    BY <2>1 DEF AnswerInv, AnswersAreItsOwn
<1>2. CASE FinalAnswer
  <2>1. answer' = turn /\ turn' = turn /\ given' = given
    BY <1>2 DEF FinalAnswer
  <2>2. QED
    BY <2>1 DEF AnswerInv, AnswersAreItsOwn
<1>3. CASE \E u \in Users : TurnDone(u)
  <2>1. /\ given' = [turn |-> turn, answer |-> IF Answered THEN answer ELSE 0, error |-> error]
        /\ answer' = answer /\ turn' = turn
    BY <1>3 DEF TurnDone
  <2>2. QED
    BY <2>1 DEF AnswerInv, AnswersAreItsOwn, Answered
<1>4. CASE UNCHANGED answerVars
  BY <1>4 DEF AnswerInv, AnswersAreItsOwn, answerVars
<1>5. \/ \E u \in Users, w \in AllWays : BeginTurn(u, w)
      \/ FinalAnswer \/ \E u \in Users : TurnDone(u)
      \/ UNCHANGED answerVars
  <2>1. CASE UNCHANGED vars
    BY <2>1 DEF vars, answerVars
  <2>2. CASE \E u \in Users : \/ RunBegins(u) \/ RunGoesOn(u) \/ Driver(u)
                              \/ \E w \in Ways : BeginTurn(u, w) \/ BeginRefused(u, w)
    <3>1. PICK u \in Users : \/ RunBegins(u) \/ ChatFails(u) \/ Driver(u)
                             \/ \E w \in AllWays : BeginTurn(u, w) \/ BeginRefused(u, w)
      BY <2>2, Parameters DEF RunGoesOn
    <3>2. CASE RunBegins(u) \/ ChatFails(u) \/ \E w \in AllWays : BeginRefused(u, w)
      BY <3>2 DEF RunBegins, ChatFails, BeginRefused, answerVars
    <3>3. CASE Driver(u)
      BY <3>3 DEF Driver, Announces, AnnounceFails, Feeds, StreamEnds, Joins,
                  Flushes, FlushFails, answerVars
    <3>4. QED
      BY <3>1, <3>2, <3>3
  <2>3. CASE Executor \/ Planner
    BY <2>3 DEF Executor, Planner, TurnThread, VerdictEnters, VerdictAsks, VerdictFails,
                Waits, Hears, StartsEarly,
                ExecutorCalls, CallReturns, ExecutorLeaves, PlannerLeaves, answerVars
  <2>4. CASE Judge \/ NotifyDelivers \/ Close
               \/ \E t \in Tools, mark \in Marks : Registers(t, mark)
    BY <2>4 DEF Judge, JudgeSettles, JudgeTells, NotifyDelivers, Close, Registers, answerVars
  <2>5. QED
    BY <2>1, <2>2, <2>3, <2>4 DEF Next
<1>6. QED
  BY <1>1, <1>2, <1>3, <1>4, <1>5

(* A Turn's answer is of that turn, and of one without an error
   (repl.py:1045-1056).                                                    *)
THEOREM AnswersOfTheirTurn == Spec => []AnswersAreItsOwn
<1>1. Init => AnswerInv
  BY DEF Init, AnswerInv, AnswersAreItsOwn
<1>2. AnswerInv => AnswersAreItsOwn
  BY DEF AnswerInv
<1>3. QED
  BY <1>1, <1>2, AnswerStep, PTL DEF Spec
-----------------------------------------------------------------------------
(* Types.  An event is of a turn that has begun, which whoever is in a turn
   has seen to; so is an answer, if there is one.                          *)
Begun == \A u \in Users : InTurn(u) => turn >= 1
TypeInv == TypeOK /\ Begun

Waiting == [kind : StreamKinds \cup {"barrier"}, of : 1..MaxTurns]
             \cup [kind : {"judge_end"}, of : Tools]
Hearable == [kind : StreamKinds \cup {"done"}, of : 1..MaxTurns]
              \cup [kind : {"judge_end"}, of : Tools]

Places == {"idle", "between", "announcing", "feeding", "joining", "flushing", "flushed"}

LEMMA EventsTyped == TypeOK => queue \in Seq(Waiting) /\ heard \subseteq Hearable
  BY DEF TypeOK, Waiting, Hearable

LEMMA InitTyped == Init => TypeInv
<1> SUFFICES ASSUME Init PROVE TypeInv
  OBVIOUS
<1> USE DEF Init
<1>1. /\ turn = 0 /\ 0 \in 0..MaxTurns /\ 0 \in 0..MaxRun /\ 0 \in 0..MaxChanges
      /\ \A u \in Users : at[u] = "idle"
  BY Parameters
<1>2. TypeOK
  <2>1. queue = <<>> /\ heard = {} /\ <<>> \in Seq(Waiting)
    OBVIOUS
  <2>2. /\ given \in [turn : 0..MaxTurns, answer : 0..MaxTurns, error : BOOLEAN]
        /\ at \in [Users -> Places] /\ left \in [Users -> 0..MaxRun]
        /\ tools \in [Tools -> Marks]
    BY <1>1, Parameters DEF Places
  <2>3. QED
    BY <1>1, <2>1, <2>2 DEF TypeOK, AllWays, Waiting, Places
<1>3. QED
  BY <1>1, <1>2 DEF TypeInv, Begun, InTurn

(* Where a turn's event goes: to the listener, or to the notify thread. *)
LEMMA EmitsTyped ==
  ASSUME TypeInv, turn >= 1, NEW kind \in StreamKinds, Emits(kind)
  PROVE  queue' \in Seq(Waiting) /\ heard' \subseteq Hearable
<1>1. turn \in 1..MaxTurns /\ queue \in Seq(Waiting) /\ heard \subseteq Hearable
  BY EventsTyped, Parameters DEF TypeInv, TypeOK, Places
<1>2. Event(kind, turn) \in Waiting /\ Event(kind, turn) \in Hearable
  BY <1>1 DEF Event, Waiting, Hearable
<1>3. QED
  BY <1>1, <1>2 DEF Emits

(* A user moves, or stays, and what a turn counts keeps its type. *)
LEMMA MoveTyped ==
  ASSUME TypeInv, NEW u \in Users,
         NEW place \in Places,
         at' = [at EXCEPT ![u] = place],
         place \notin {"idle", "between"} => turn' >= 1, turn' = turn \/ turn' = turn + 1
  PROVE  /\ at' \in [Users -> Places]
         /\ Begun'
<1>1. at' \in [Users -> Places] /\ at'[u] = place /\ \A o \in Users \ {u} : at'[o] = at[o]
  BY DEF TypeInv, TypeOK, Places
<1>2. turn' >= turn /\ turn \in Nat
  BY Parameters DEF TypeInv, TypeOK, Places
<1>3. ASSUME NEW o \in Users, at'[o] \notin {"idle", "between"} PROVE turn' >= 1
  <2>1. CASE o = u
    BY <1>1, <1>3, <2>1
  <2>2. CASE o # u
    <3>1. InTurn(o)
      BY <1>1, <1>3, <2>2 DEF InTurn, Places
    <3>2. turn >= 1
      BY <3>1 DEF TypeInv, Begun
    <3>3. turn' \in Nat
      BY <1>2
    <3>4. QED
      BY <3>2, <3>3, <1>2
  <2>3. QED
    BY <2>1, <2>2
<1>4. QED
  BY <1>1, <1>3 DEF Begun, InTurn

LEMMA UserTyped ==
  ASSUME TypeInv, NEW u \in Users,
         \/ RunBegins(u) \/ ChatFails(u) \/ Driver(u)
         \/ \E w \in AllWays : BeginTurn(u, w) \/ BeginRefused(u, w)
  PROVE  TypeInv'
<1> USE DEF conversation, text, early, program, cache, events, whole
<1>1. /\ MaxTurns \in Nat /\ MaxRun \in Nat /\ turn \in 0..MaxTurns
      /\ left \in [Users -> 0..MaxRun] /\ (InTurn(u) => turn >= 1)
  BY Parameters DEF TypeInv, TypeOK, Begun
<1>2. CASE RunBegins(u)
  <2>1. Begun' /\ at' \in [Users -> Places]
    <3>1. at' = [at EXCEPT ![u] = "between"] /\ turn' = turn
      BY <1>2 DEF RunBegins
    <3>2. QED
      BY <3>1, MoveTyped DEF Places
  <2>2. left' \in [Users -> 0..MaxRun]
    BY <1>1, <1>2 DEF RunBegins
  <2>3. QED
    BY <1>2, <2>1, <2>2 DEF RunBegins, TypeInv, TypeOK, Places
<1>3. CASE ChatFails(u) \/ \E w \in AllWays : BeginRefused(u, w)
  <2>1. /\ at' = [at EXCEPT ![u] = "idle"] /\ left' = [left EXCEPT ![u] = 0] /\ turn' = turn
        /\ UNCHANGED <<lock, way, given, tools, changes, closed, text, threads, early,
                       program, cache, events>>
        /\ ownLoop' \in {ownLoop, "up"}
    BY <1>3 DEF ChatFails, BeginRefused, PrivateLoop
  <2>3. Begun' /\ at' \in [Users -> Places]
    BY <2>1, MoveTyped DEF Places
  <2>4. left' \in [Users -> 0..MaxRun]
    BY <1>1, <2>1
  <2>5. QED
    BY <2>1, <2>3, <2>4 DEF TypeInv, TypeOK, Places
<1>4. ASSUME NEW w \in AllWays, BeginTurn(u, w) PROVE TypeInv'
  <2>1. at' = [at EXCEPT ![u] = "announcing"] /\ turn' = turn + 1 /\ turn < MaxTurns
    BY <1>4 DEF BeginTurn
  <2>0. turn' >= 1
    BY <1>1, <2>1
  <2>2. Begun' /\ at' \in [Users -> Places]
    BY <2>0, <2>1, MoveTyped DEF Places
  <2>3. turn' \in 0..MaxTurns /\ ownLoop' \in {ownLoop, "up"} /\ 0 \in 0..MaxTurns
    BY <1>1, <1>4, <2>1 DEF BeginTurn, PrivateLoop
  <2>4. /\ fed' = FALSE /\ broke' = FALSE /\ on' \in {"never", "on"} /\ ready' = {} /\ error' = FALSE
        /\ answer' = 0 /\ todo' = Tools /\ lock' = u /\ way' = w
        /\ threads' = [th \in Threads |-> "running"]
    BY <1>4 DEF BeginTurn, TurnFields, Marked
  <2>5. UNCHANGED <<left, given, tools, changes, closed, asks, waits, hand, cache, events>>
    BY <1>4 DEF BeginTurn
  <2>6. QED
    BY <2>2, <2>3, <2>4, <2>5 DEF TypeInv, TypeOK, Places
<1>5. CASE Announces(u) \/ Feeds(u)
  <2>1. turn >= 1 /\ \E kind \in StreamKinds : Emits(kind)
    BY <1>1, <1>5 DEF Announces, Feeds, InTurn, StreamKinds
  <2>2. queue' \in Seq(Waiting) /\ heard' \subseteq Hearable
    BY <2>1, EmitsTyped
  <2>3. CASE Announces(u)
    <3>1. at' = [at EXCEPT ![u] = "feeding"] /\ turn' = turn
      BY <2>3 DEF Announces
    <3>2. Begun' /\ at' \in [Users -> Places]
      BY <3>1, <2>1, MoveTyped DEF Places
    <3>3. QED
      BY <2>2, <2>3, <3>2 DEF Announces, TypeInv, TypeOK, Places, Waiting, Hearable
  <2>4. CASE Feeds(u)
    BY <2>2, <2>4 DEF Feeds, TypeInv, TypeOK, Begun, InTurn, Waiting, Hearable
  <2>5. QED
    BY <1>5, <2>3, <2>4
<1>6. ASSUME NEW raises \in BOOLEAN, StreamEnds(u, raises) PROVE TypeInv'
  <2>1. at' = [at EXCEPT ![u] = "joining"] /\ turn' = turn /\ turn >= 1
    BY <1>1, <1>6 DEF StreamEnds, InTurn
  <2>2. Begun' /\ at' \in [Users -> Places]
    BY <2>1, <1>1, MoveTyped DEF Places
  <2>3. heard' \subseteq Hearable
    BY <1>1, <1>6, <2>1, EventsTyped DEF StreamEnds, TypeInv, Hearable, Event, StreamKinds
  <2>4. QED
    BY <1>6, <2>2, <2>3 DEF StreamEnds, TypeInv, TypeOK, Places, Hearable
<1>7. CASE Joins(u) \/ Flushes(u)
  <2>1. PICK place \in {"flushing", "flushed"} : at' = [at EXCEPT ![u] = place]
    BY <1>7 DEF Joins, Flushes
  <2>2. turn' = turn /\ turn >= 1
    BY <1>1, <1>7 DEF Joins, Flushes, InTurn
  <2>3. Begun' /\ at' \in [Users -> Places]
    BY <2>1, <2>2, <1>1, MoveTyped DEF Places
  <2>4. queue' \in Seq(Waiting)
    <3>1. Event("barrier", turn) \in Waiting
      BY <1>1, <2>2 DEF Event, Waiting
    <3>2. QED
      BY <1>7, <3>1, EventsTyped DEF Joins, Flushes, TypeInv
  <2>5. QED
    BY <1>7, <2>3, <2>4, SMTT(40) DEF Joins, Flushes, TypeInv, TypeOK, Places, Waiting
<1>8. CASE AnnounceFails(u) \/ FlushFails(u)
  <2>1. /\ at' = [at EXCEPT ![u] = "idle"] /\ left' = [left EXCEPT ![u] = 0] /\ turn' = turn
        /\ UNCHANGED <<way, given, whole, text, threads, early, program, cache, events>>
        /\ lock' \in {lock, Nobody}
    BY <1>8 DEF AnnounceFails, FlushFails, Release
  <2>3. Begun' /\ at' \in [Users -> Places]
    BY <2>1, MoveTyped DEF Places
  <2>4. left' \in [Users -> 0..MaxRun]
    BY <1>1, <2>1
  <2>5. QED
    BY <2>1, <2>3, <2>4 DEF TypeInv, TypeOK, Places
<1>9. CASE TurnDone(u)
  <2>1. PICK place \in {"between", "idle"}, n \in 0..MaxRun :
          at' = [at EXCEPT ![u] = place] /\ left' = [left EXCEPT ![u] = n]
    <3>1. 0 \in 0..MaxRun /\ (MoreTurns(u) => left[u] - 1 \in 0..MaxRun)
      BY <1>1 DEF MoreTurns
    <3>2. CASE MoreTurns(u)
      BY <1>9, <3>1, <3>2 DEF TurnDone
    <3>3. CASE ~MoreTurns(u)
      BY <1>9, <3>1, <3>3 DEF TurnDone
    <3>4. QED
      BY <3>2, <3>3
  <2>2. turn' = turn /\ turn >= 1
    BY <1>1, <1>9 DEF TurnDone, InTurn
  <2>3. Begun' /\ at' \in [Users -> Places]
    BY <2>1, <2>2, <1>1, MoveTyped DEF Places
  <2>4. heard' \subseteq Hearable
    BY <1>1, <1>9, <2>2, EventsTyped DEF TurnDone, TypeInv, Hearable, Event
  <2>5. given' \in [turn : 0..MaxTurns, answer : 0..MaxTurns, error : BOOLEAN]
    BY <1>1, <1>9 DEF TurnDone, TypeInv, TypeOK, Places
  <2>6. left' \in [Users -> 0..MaxRun]
    BY <1>1, <2>1
  <2>7. QED
    BY <1>9, <2>3, <2>4, <2>5, <2>6, SMTT(40) DEF TurnDone, Release, TypeInv, TypeOK, Places, Hearable
<1>10. QED
  BY <1>2, <1>3, <1>4, <1>5, <1>6, <1>7, <1>8, <1>9 DEF Driver

(* The turn's threads, the worker's, the listener's, and who registers and
   closes; none of them moves a user or begins a turn.                     *)
LEMMA OthersTyped ==
  ASSUME TypeInv,
         \/ Executor \/ Planner \/ Judge \/ NotifyDelivers \/ Close
         \/ \E t \in Tools, mark \in Marks : Registers(t, mark)
  PROVE  TypeInv'
<1> USE DEF TypeOK, conversation, text, early, program, cache, events, whole
<1>1. TypeOK'
  <2>0. TypeOK
    BY DEF TypeInv
  <2>1. ASSUME NEW th \in Threads, NEW t \in Tools, VerdictEnters(th, t) PROVE TypeOK'
    BY <2>0, <2>1 DEF VerdictEnters
  <2>2. ASSUME NEW th \in Threads, VerdictAsks(th) PROVE TypeOK'
    <3>1. PICK t \in Tools : t = asks[th]
      BY <2>0, <2>2 DEF VerdictAsks
    <3>2. asked' = [asked EXCEPT ![t] = @ + 1] /\ asks' = [asks EXCEPT ![th] = Nobody]
      BY <2>2, <3>1 DEF VerdictAsks
    <3>3. asked' \in [Tools -> Nat] /\ asks' \in [Threads -> Tools \cup {Nobody}]
      BY <2>0, <3>2
    <3>4. QED
      BY <2>0, <2>2, <3>3, SMTT(40) DEF VerdictAsks
  <2>13. ASSUME NEW th \in Threads, VerdictFails(th) PROVE TypeOK'
    <3>1. on' \in {"never", "on", "off"} /\ asks' \in [Threads -> Tools \cup {Nobody}]
      BY <2>0, <2>13 DEF VerdictFails
    <3>2. QED
      BY <2>0, <2>13, <3>1 DEF VerdictFails
  <2>14. ASSUME NEW th \in Threads, Hears(th) \/ \E t \in Tools : Waits(th, t) PROVE TypeOK'
    <3>1. waits' \in [Threads -> Tools \cup {Nobody}]
      BY <2>0, <2>14 DEF Hears, Waits
    <3>2. QED
      BY <2>0, <2>14, <3>1, SMTT(40) DEF Hears, Waits
  <2>3. ASSUME NEW th \in Threads, NEW t \in Tools, StartsEarly(th, t) PROVE TypeOK'
    <3>1. on' \in {"never", "on", "off"} /\ ready' \in SUBSET Tools
      <4>1. \/ on' = "off" /\ ready' = ready
            \/ ready' = ready \cup {t} /\ on' = on
        BY <2>3 DEF StartsEarly
      <4>2. on \in {"never", "on", "off"} /\ ready \subseteq Tools
        BY <2>0
      <4>3. on' \in {"never", "on", "off"}
        BY <4>1, <4>2
      <4>4. QED
        BY <4>1, <4>2, <4>3
    <3>2. UNCHANGED <<whole, conversation, text, threads, asks, waits, program, cache, events>>
      BY <2>3 DEF StartsEarly
    <3>3. QED
      BY <2>0, <3>1, <3>2
  <2>4. ASSUME NEW t \in Tools, ExecutorCalls(t) PROVE TypeOK'
    BY <2>0, <2>4 DEF ExecutorCalls
  <2>5. CASE CallReturns \/ FinalAnswer
    BY <2>0, <2>5 DEF CallReturns, FinalAnswer
  <2>6. CASE PlannerLeaves \/ \E fails \in BOOLEAN : ExecutorLeaves(fails)
    BY <2>0, <2>6, ZenonT(60) DEF PlannerLeaves, ExecutorLeaves
  <2>7. ASSUME NEW t \in Tools, JudgeSettles(t) PROVE TypeOK'
    BY <2>0, <2>7 DEF JudgeSettles
  <2>8. CASE JudgeTells
    <3>1. queue \in Seq(Waiting) /\ telling \in Tools
      BY <2>0, <2>8, EventsTyped DEF JudgeTells
    <3>2. Event("judge_end", telling) \in Waiting
      BY <3>1 DEF Event, Waiting
    <3>3. queue' \in Seq(Waiting)
      BY <2>8, <3>1, <3>2 DEF JudgeTells
    <3>4. QED
      BY <2>0, <2>8, <3>3 DEF JudgeTells, Waiting
  <2>9. CASE NotifyDelivers
    <3>1. queue \in Seq(Waiting) /\ heard \subseteq Hearable /\ queue # <<>>
      BY <2>0, <2>9, EventsTyped DEF NotifyDelivers
    <3>2. queue' \in Seq(Waiting) /\ Head(queue) \in Waiting
      BY <2>9, <3>1 DEF NotifyDelivers
    <3>3. Head(queue).kind # "barrier" => Head(queue) \in Hearable
      BY <3>2 DEF Waiting, Hearable
    <3>4. heard' \subseteq Hearable
      BY <2>9, <3>1, <3>3 DEF NotifyDelivers
    <3>5. QED
      BY <2>0, <2>9, <3>2, <3>4, SMTT(40) DEF NotifyDelivers, Waiting, Hearable
  <2>10. CASE Close
    BY <2>0, <2>10 DEF Close
  <2>11. ASSUME NEW t \in Tools, NEW mark \in Marks, Registers(t, mark) PROVE TypeOK'
    BY <2>0, <2>11, Parameters DEF Registers
  <2>12. QED
    BY <2>1, <2>2, <2>3, <2>4, <2>5, <2>6, <2>7, <2>8, <2>9, <2>10, <2>11, <2>13, <2>14
       DEF Executor, Planner, TurnThread, Judge, Threads
<1>2. UNCHANGED <<at, turn>>
  BY DEF Executor, Planner, TurnThread, VerdictEnters, VerdictAsks, VerdictFails,
         Waits, Hears, StartsEarly, ExecutorCalls, CallReturns, FinalAnswer, ExecutorLeaves, PlannerLeaves, Judge, JudgeSettles,
         JudgeTells, NotifyDelivers, Close, Registers
<1>3. QED
  BY <1>1, <1>2 DEF TypeInv, Begun, InTurn

LEMMA StepTyped == TypeInv /\ [Next]_vars => TypeInv'
<1> SUFFICES ASSUME TypeInv, [Next]_vars PROVE TypeInv'
  OBVIOUS
<1>1. CASE UNCHANGED vars
  BY <1>1 DEF vars, TypeInv, TypeOK, Begun, InTurn, conversation, text, early, program,
              cache, events, whole
<1>2. CASE \E u \in Users : \/ RunBegins(u) \/ RunGoesOn(u) \/ Driver(u)
                            \/ \E w \in Ways : BeginTurn(u, w) \/ BeginRefused(u, w)
  BY <1>2, UserTyped, Parameters DEF RunGoesOn
<1>3. CASE \/ Executor \/ Planner \/ Judge \/ NotifyDelivers \/ Close
           \/ \E t \in Tools, mark \in Marks : Registers(t, mark)
  BY <1>3, OthersTyped
<1>4. QED
  BY <1>1, <1>2, <1>3 DEF Next

LEMMA TypeHolds == Spec => []TypeInv
  BY InitTyped, StepTyped, PTL DEF Spec

(* Whatever its users do, the fields of the REPL keep their types, and what a
   listener can hear is of a turn that has begun (repl.py:982-1059).       *)
THEOREM TypeSafe == Spec => []TypeOK
<1>1. TypeInv => TypeOK
  BY DEF TypeInv
<1>2. QED
  BY <1>1, TypeHolds, PTL
-----------------------------------------------------------------------------
(* Events in order.  `done` is of turns that are over; what the notify thread
   has still to say is of a turn that is not done, or of one that never will
   be; and once its barrier is queued, a turn's events come before it, so no
   barrier left means none of them is.                                     *)
IsDone(k) == Event("done", k) \in heard
OfStream(i) == queue[i].kind \in StreamKinds
BarrierAfter(i) == \E j \in DOMAIN queue : j > i /\ queue[j].kind = "barrier"

DoneInv ==
  /\ \A k \in 1..MaxTurns : IsDone(k) => k <= turn
  /\ \A u \in Users : InTurn(u) => ~IsDone(turn)
WaitingInv ==
  \A i \in DOMAIN queue : OfStream(i) => ~IsDone(queue[i].of) /\ queue[i].of <= turn
FlushInv ==
  \A u \in Users : at[u] = "flushed" =>
    \A i \in DOMAIN queue : OfStream(i) /\ queue[i].of = turn => BarrierAfter(i)
OrderInv == DoneInv /\ WaitingInv /\ FlushInv

Safe == Inv /\ TypeInv

LEMMA EventsDiffer ==
  /\ \A kind, j, k : kind # "done" => Event(kind, j) # Event("done", k)
  /\ \A j, k : j # k => Event("done", j) # Event("done", k)
  BY DEF Event

LEMMA TurnCount == TypeInv => turn \in Nat /\ queue \in Seq(Waiting) /\ MaxTurns \in Nat
  BY Parameters, EventsTyped DEF TypeInv, TypeOK

(* Nothing said, nobody new in a turn or flushed. *)
LEMMA SameEvents ==
  ASSUME Safe, OrderInv, UNCHANGED <<turn, queue, heard>>,
         \A u \in Users : /\ InTurn(u)' => InTurn(u)
                          /\ at'[u] = "flushed" => at[u] = "flushed"
  PROVE  OrderInv'
<1>1. DoneInv'
  BY DEF OrderInv, DoneInv, IsDone
<1>2. WaitingInv'
  BY DEF OrderInv, WaitingInv, IsDone, OfStream
<1>3. FlushInv'
  BY DEF OrderInv, FlushInv, OfStream, BarrierAfter
<1>4. QED
  BY <1>1, <1>2, <1>3 DEF OrderInv

(* A turn begins: the new one is not done. *)
LEMMA BeginOrdered ==
  ASSUME Safe, OrderInv, NEW u \in Users, NEW w, BeginTurn(u, w)
  PROVE  OrderInv'
<1>1. /\ lock = Nobody /\ at' = [at EXCEPT ![u] = "announcing"] /\ turn' = turn + 1
      /\ turn < MaxTurns /\ UNCHANGED <<queue, heard>>
  BY DEF BeginTurn, LockFree, events
<1>2. \A o \in Users : ~InTurn(o) /\ at'[o] # "flushed"
  <2>1. \A o \in Users : ~InTurn(o)
    BY <1>1, Parameters DEF Safe, Inv, OneTurnAtATime
  <2>2. \A o \in Users : at'[o] = IF o = u THEN "announcing" ELSE at[o]
    BY <1>1 DEF Safe, TypeInv, TypeOK
  <2>3. QED
    BY <2>1, <2>2 DEF InTurn
<1>3. turn \in Nat /\ turn + 1 \in 1..MaxTurns /\ queue \in Seq(Waiting)
  BY <1>1, TurnCount DEF Safe
<1>4. \A k \in 1..MaxTurns : IsDone(k) => k <= turn
  BY DEF OrderInv, DoneInv
<1>5. ~IsDone(turn + 1)
  BY <1>3, <1>4
<1>6. DoneInv'
  <2>1. \A k \in 1..MaxTurns : IsDone(k)' => k <= turn + 1
    BY <1>1, <1>3, <1>4 DEF IsDone
  <2>2. Event("done", turn') \notin heard'
    BY <1>1, <1>5 DEF IsDone
  <2>3. QED
    BY <1>1, <2>1, <2>2 DEF DoneInv, IsDone
<1>7. WaitingInv'
  <2>1. ASSUME NEW i \in DOMAIN queue, OfStream(i)
        PROVE  ~IsDone(queue[i].of) /\ queue[i].of <= turn + 1
    <3>1. ~IsDone(queue[i].of) /\ queue[i].of <= turn
      BY <2>1 DEF OrderInv, WaitingInv
    <3>2. queue[i].of \in Nat
      BY <2>1, <1>3 DEF OfStream, Waiting, StreamKinds
    <3>3. QED
      BY <1>3, <3>1, <3>2
  <2>2. QED
    BY <1>1, <2>1 DEF WaitingInv, OfStream, IsDone
<1>8. FlushInv'
  BY <1>2 DEF FlushInv
<1>9. QED
  BY <1>6, <1>7, <1>8 DEF OrderInv

(* Something other than a `done` is heard at once. *)
LEMMA HeardOrdered ==
  ASSUME Safe, OrderInv, NEW kind, kind # "done", NEW k,
         heard' = heard \cup {Event(kind, k)}, UNCHANGED <<turn, queue>>,
         \A u \in Users : /\ InTurn(u)' => InTurn(u)
                          /\ at'[u] = "flushed" => at[u] = "flushed"
  PROVE  OrderInv'
<1>1. \A j : IsDone(j)' <=> IsDone(j)
  BY EventsDiffer DEF IsDone
<1>2. DoneInv'
  BY <1>1 DEF OrderInv, DoneInv
<1>3. WaitingInv'
  BY <1>1 DEF OrderInv, WaitingInv, OfStream
<1>4. FlushInv'
  BY DEF OrderInv, FlushInv, OfStream, BarrierAfter
<1>5. QED
  BY <1>2, <1>3, <1>4 DEF OrderInv

(* Something is queued: of a turn that is not done, or of the judge; or a
   barrier, after which its turn is flushed.                               *)
LEMMA QueuedOrdered ==
  ASSUME Safe, OrderInv, NEW e \in Waiting,
         queue' = Append(queue, e), UNCHANGED <<turn, heard>>,
         e.kind \in StreamKinds => e.of <= turn /\ ~IsDone(e.of)
                                   /\ \A u \in Users : at'[u] # "flushed",
         \A u \in Users : /\ InTurn(u)' => InTurn(u)
                          /\ at'[u] = "flushed" => at[u] = "flushed" \/ e.kind = "barrier"
  PROVE  OrderInv'
<1>1. /\ queue \in Seq(Waiting) /\ DOMAIN queue = 1..Len(queue) /\ Len(queue) \in Nat
      /\ DOMAIN queue' = 1..Len(queue) + 1
      /\ \A i \in DOMAIN queue : queue'[i] = queue[i]
      /\ queue'[Len(queue) + 1] = e
  BY TurnCount DEF Safe
<1>2. DoneInv'
  BY DEF OrderInv, DoneInv, IsDone
<1>3. WaitingInv'
  <2> SUFFICES ASSUME NEW i \in DOMAIN queue', queue'[i].kind \in StreamKinds
               PROVE  ~IsDone(queue'[i].of) /\ queue'[i].of <= turn
    BY DEF WaitingInv, OfStream, IsDone
  <2>1. CASE i \in DOMAIN queue
    BY <1>1, <2>1 DEF OrderInv, WaitingInv, OfStream
  <2>2. CASE i \notin DOMAIN queue
    <3>1. i = Len(queue) + 1
      BY <1>1, <2>2
    <3>2. QED
      BY <1>1, <3>1
  <2>3. QED
    BY <2>1, <2>2
<1>4. FlushInv'
  <2> SUFFICES ASSUME NEW u \in Users, at'[u] = "flushed", NEW i \in DOMAIN queue',
                      queue'[i].kind \in StreamKinds, queue'[i].of = turn
               PROVE  \E j \in DOMAIN queue' : j > i /\ queue'[j].kind = "barrier"
    BY DEF FlushInv, OfStream, BarrierAfter
  <2>1. e.kind \notin StreamKinds
    OBVIOUS
  <2>2. i \in DOMAIN queue
    BY <1>1, <2>1
  <2>3. CASE e.kind = "barrier"
    <3>1. Len(queue) + 1 \in DOMAIN queue' /\ Len(queue) + 1 > i
      BY <1>1, <2>2
    <3>2. QED
      BY <1>1, <2>3, <3>1
  <2>4. CASE e.kind # "barrier"
    <3>1. BarrierAfter(i)
      BY <1>1, <2>2, <2>4 DEF OrderInv, FlushInv, OfStream
    <3>2. PICK j \in DOMAIN queue : j > i /\ queue[j].kind = "barrier"
      BY <3>1 DEF BarrierAfter
    <3>3. j \in DOMAIN queue' /\ queue'[j] = queue[j]
      BY <1>1, <3>2
    <3>4. QED
      BY <3>2, <3>3
  <2>5. QED
    BY <2>3, <2>4
<1>5. QED
  BY <1>2, <1>3, <1>4 DEF OrderInv

(* The notify thread takes the first: what waits is as it was. *)
LEMMA DeliveredOrdered ==
  ASSUME Safe, OrderInv, NotifyDelivers
  PROVE  OrderInv'
<1>1. /\ queue # <<>> /\ queue' = Tail(queue) /\ UNCHANGED <<turn, at>>
      /\ heard' = IF Head(queue).kind = "barrier" THEN heard ELSE heard \cup {Head(queue)}
  BY DEF NotifyDelivers, conversation
<1>2. queue \in Seq(Waiting) /\ Len(queue) \in Nat /\ DOMAIN queue = 1..Len(queue)
  BY TurnCount DEF Safe
<1>3. /\ DOMAIN queue' = 1..Len(queue) - 1
      /\ \A i \in DOMAIN queue' : i + 1 \in DOMAIN queue /\ queue'[i] = queue[i + 1]
  BY <1>1, <1>2
<1>4. \A j : IsDone(j)' <=> IsDone(j)
  <2>1. Head(queue) \in Waiting
    BY <1>1, <1>2
  <2>2. \A j : Head(queue) # Event("done", j)
    BY <2>1 DEF Waiting, Event, StreamKinds
  <2>3. QED
    BY <1>1, <2>2 DEF IsDone
<1>5. DoneInv'
  BY <1>1, <1>4 DEF OrderInv, DoneInv, InTurn
<1>6. WaitingInv'
  BY <1>1, <1>3, <1>4 DEF OrderInv, WaitingInv, OfStream
<1>7. FlushInv'
  <2> SUFFICES ASSUME NEW u \in Users, at'[u] = "flushed", NEW i \in DOMAIN queue',
                      queue'[i].kind \in StreamKinds, queue'[i].of = turn'
               PROVE  \E j \in DOMAIN queue' : j > i /\ queue'[j].kind = "barrier"
    BY DEF FlushInv, OfStream, BarrierAfter
  <2>1. BarrierAfter(i + 1)
    BY <1>1, <1>3 DEF OrderInv, FlushInv, OfStream
  <2>2. PICK j \in DOMAIN queue : j > i + 1 /\ queue[j].kind = "barrier"
    BY <2>1 DEF BarrierAfter
  <2>3. j - 1 \in DOMAIN queue' /\ j - 1 > i /\ j - 1 + 1 = j
    BY <1>2, <1>3, <2>2
  <2>4. queue'[j - 1] = queue[j]
    BY <1>3, <2>3
  <2>5. QED
    BY <2>2, <2>3, <2>4
<1>8. QED
  BY <1>5, <1>6, <1>7 DEF OrderInv

(* The turn is done: all its barriers are taken, so none of its events waits. *)
LEMMA DoneOrdered ==
  ASSUME Safe, OrderInv, NEW u \in Users, TurnDone(u)
  PROVE  OrderInv'
<1>1. PICK place \in {"between", "idle"} :
        /\ at[u] = "flushed" /\ Flushed /\ at' = [at EXCEPT ![u] = place]
        /\ heard' = heard \cup {Event("done", turn)} /\ UNCHANGED <<turn, queue>>
  BY DEF TurnDone
<1>2. \A j : IsDone(j)' <=> IsDone(j) \/ j = turn
  BY <1>1, EventsDiffer DEF IsDone
<1>3. \A o \in Users : ~InTurn(o)'
  <2>1. lock = u
    BY <1>1 DEF Safe, Inv, OneTurnAtATime, InTurn
  <2>2. \A o \in Users \ {u} : ~InTurn(o)
    BY <2>1 DEF Safe, Inv, OneTurnAtATime
  <2>3. \A o \in Users : at'[o] = IF o = u THEN place ELSE at[o]
    BY <1>1 DEF Safe, TypeInv, TypeOK
  <2>4. QED
    BY <2>2, <2>3 DEF InTurn
<1>4. turn \in Nat
  BY TurnCount DEF Safe
<1>5. DoneInv'
  <2>1. \A k \in 1..MaxTurns : IsDone(k)' => k <= turn
    BY <1>2, <1>4 DEF OrderInv, DoneInv
  <2>2. QED
    BY <1>1, <1>3, <2>1 DEF DoneInv
<1>6. WaitingInv'
  <2> SUFFICES ASSUME NEW i \in DOMAIN queue, OfStream(i)
               PROVE  Event("done", queue[i].of) \notin heard' /\ queue[i].of <= turn
    BY <1>1 DEF WaitingInv, OfStream, IsDone
  <2>1. ~IsDone(queue[i].of) /\ queue[i].of <= turn
    BY DEF OrderInv, WaitingInv
  <2>2. ~BarrierAfter(i)
    BY <1>1 DEF Flushed, BarrierAfter
  <2>3. queue[i].of # turn
    BY <1>1, <2>2 DEF OrderInv, FlushInv
  <2>4. QED
    BY <1>1, <2>1, <2>3, EventsDiffer DEF IsDone
<1>7. FlushInv'
  BY <1>3 DEF FlushInv, InTurn
<1>8. QED
  BY <1>5, <1>6, <1>7 DEF OrderInv

(* A turn under way says something, which is heard or queued. *)
LEMMA EmitsOrdered ==
  ASSUME Safe, OrderInv, NEW u \in Users, InTurn(u), NEW kind \in StreamKinds, Emits(kind),
         at[u] # "flushed", turn' = turn,
         NEW place \in {"announcing", "feeding"},
         at' = [at EXCEPT ![u] = place]
  PROVE  OrderInv'
<1>1. \A o \in Users : at'[o] # "flushed" /\ (InTurn(o)' => InTurn(o))
  <2>1. \A o \in Users : at'[o] = IF o = u THEN place ELSE at[o]
    BY DEF Safe, TypeInv, TypeOK
  <2>2. \A o \in Users \ {u} : ~InTurn(o)
    <3>1. lock = u
      BY DEF Safe, Inv, OneTurnAtATime
    <3>2. QED
      BY <3>1 DEF Safe, Inv, OneTurnAtATime
  <2>3. QED
    BY <2>1, <2>2 DEF InTurn
<1>2. turn \in 1..MaxTurns
  BY TurnCount DEF Safe, TypeInv, TypeOK, Begun
<1>3. ~IsDone(turn) /\ turn <= turn
  BY <1>2 DEF OrderInv, DoneInv
<1>4. CASE OnLoop
  <2>1. queue' = Append(queue, Event(kind, turn)) /\ UNCHANGED heard
    BY <1>4 DEF Emits
  <2>2. Event(kind, turn) \in Waiting /\ Event(kind, turn).of = turn
    BY <1>2 DEF Event, Waiting
  <2>3. QED
    BY <1>1, <1>3, <2>1, <2>2, QueuedOrdered
<1>5. CASE ~OnLoop
  <2>1. heard' = heard \cup {Event(kind, turn)} /\ UNCHANGED queue /\ kind # "done"
    BY <1>5 DEF Emits, StreamKinds
  <2>2. QED
    BY <1>1, <2>1, HeardOrdered
<1>6. QED
  BY <1>4, <1>5

LEMMA UserOrdered ==
  ASSUME Safe, OrderInv, NEW u \in Users,
         \/ RunBegins(u) \/ ChatFails(u) \/ Driver(u)
         \/ \E w \in AllWays : BeginTurn(u, w) \/ BeginRefused(u, w)
  PROVE  OrderInv'
<1> USE DEF conversation, text, early, program, cache, events, whole
<1>0. at \in [Users -> Places]
  BY DEF Safe, TypeInv, TypeOK, Places
<1>1. CASE \/ RunBegins(u) \/ ChatFails(u) \/ \E w \in AllWays : BeginRefused(u, w)
           \/ AnnounceFails(u) \/ Joins(u) \/ FlushFails(u)
  <2>1. UNCHANGED <<turn, queue, heard>>
    BY <1>1 DEF RunBegins, ChatFails, BeginRefused, AnnounceFails, Joins, FlushFails
  <2>2. PICK place \in {"between", "idle", "flushing"} :
          at' = [at EXCEPT ![u] = place] /\ (place = "flushing" => InTurn(u))
    BY <1>1 DEF RunBegins, ChatFails, BeginRefused, AnnounceFails, Joins, FlushFails, InTurn
  <2>3. \A o \in Users : at'[o] = IF o = u THEN place ELSE at[o]
    BY <1>0, <2>2
  <2>4. \A o \in Users : /\ InTurn(o)' => InTurn(o)
                         /\ at'[o] = "flushed" => at[o] = "flushed"
    BY <2>2, <2>3 DEF InTurn
  <2>5. QED
    BY <2>1, <2>4, SameEvents
<1>2. CASE \E w \in AllWays : BeginTurn(u, w)
  BY <1>2, BeginOrdered
<1>3. CASE Announces(u) \/ Feeds(u)
  <2>1. InTurn(u) /\ at[u] # "flushed" /\ turn' = turn
    BY <1>3 DEF Announces, Feeds, InTurn
  <2>2. at' = [at EXCEPT ![u] = "feeding"]
    BY <1>0, <1>3 DEF Announces, Feeds
  <2>3. \E kind \in StreamKinds : Emits(kind)
    BY <1>3 DEF Announces, Feeds, StreamKinds
  <2>4. QED
    BY <2>1, <2>2, <2>3, EmitsOrdered
<1>4. ASSUME NEW raises \in BOOLEAN, StreamEnds(u, raises) PROVE OrderInv'
  <2>1. /\ heard' = heard \cup {Event("stream_end", turn)} /\ UNCHANGED <<turn, queue>>
        /\ InTurn(u) /\ at' = [at EXCEPT ![u] = "joining"]
    BY <1>4 DEF StreamEnds, InTurn
  <2>2. \A o \in Users : at'[o] = IF o = u THEN "joining" ELSE at[o]
    BY <1>0, <2>1
  <2>3. \A o \in Users : /\ InTurn(o)' => InTurn(o)
                         /\ at'[o] = "flushed" => at[o] = "flushed"
    BY <2>1, <2>2 DEF InTurn
  <2>4. QED
    BY <2>1, <2>3, HeardOrdered
<1>5. CASE Flushes(u)
  <2>1. /\ queue' = Append(queue, Event("barrier", turn)) /\ UNCHANGED <<turn, heard>>
        /\ InTurn(u) /\ at' = [at EXCEPT ![u] = "flushed"]
    BY <1>5 DEF Flushes, InTurn
  <2>2. \A o \in Users : at'[o] = IF o = u THEN "flushed" ELSE at[o]
    BY <1>0, <2>1
  <2>3. \A o \in Users : InTurn(o)' => InTurn(o)
    BY <2>1, <2>2 DEF InTurn
  <2>4. turn \in 1..MaxTurns
    BY <2>1, TurnCount DEF Safe, TypeInv, TypeOK, Begun
  <2>5. /\ Event("barrier", turn) \in Waiting /\ Event("barrier", turn).kind = "barrier"
        /\ Event("barrier", turn).kind \notin StreamKinds
    BY <2>4 DEF Event, Waiting, StreamKinds
  <2>6. QED
    BY <2>1, <2>3, <2>5, QueuedOrdered
<1>6. CASE TurnDone(u)
  BY <1>6, DoneOrdered
<1>7. QED
  BY <1>1, <1>2, <1>3, <1>4, <1>5, <1>6 DEF Driver

LEMMA StepOrdered == Safe /\ OrderInv /\ [Next]_vars => OrderInv'
<1> SUFFICES ASSUME Safe, OrderInv, [Next]_vars PROVE OrderInv'
  OBVIOUS
<1> USE DEF conversation, text, early, program, cache, events, whole
<1>1. CASE \E u \in Users : \/ RunBegins(u) \/ RunGoesOn(u) \/ Driver(u)
                            \/ \E w \in Ways : BeginTurn(u, w) \/ BeginRefused(u, w)
  BY <1>1, UserOrdered, Parameters DEF RunGoesOn
<1>2. CASE \/ UNCHANGED vars \/ Executor \/ Planner \/ Close \/ \E t \in Tools : JudgeSettles(t)
           \/ \E t \in Tools, mark \in Marks : Registers(t, mark)
  <2>1. UNCHANGED <<turn, at, queue, heard>>
    BY <1>2 DEF vars, Executor, Planner, TurnThread, VerdictEnters, VerdictAsks, VerdictFails,
                Waits, Hears, StartsEarly,
                ExecutorCalls, CallReturns, FinalAnswer, ExecutorLeaves, PlannerLeaves,
                JudgeSettles, Close, Registers
  <2>2. QED
    BY <2>1, SameEvents DEF InTurn
<1>3. CASE JudgeTells
  <2>1. UNCHANGED <<turn, at, heard>> /\ telling \in Tools
    BY <1>3 DEF JudgeTells, Safe, TypeInv, TypeOK
  <2>2. CASE closed
    <3>1. UNCHANGED queue
      BY <1>3, <2>2 DEF JudgeTells
    <3>2. QED
      BY <2>1, <3>1, SameEvents DEF InTurn
  <2>3. CASE ~closed
    <3>1. queue' = Append(queue, Event("judge_end", telling))
      BY <1>3, <2>3 DEF JudgeTells
    <3>2. /\ Event("judge_end", telling) \in Waiting
          /\ Event("judge_end", telling).kind \notin StreamKinds
      BY <2>1 DEF Event, Waiting, StreamKinds
    <3>3. QED
      BY <2>1, <3>1, <3>2, QueuedOrdered DEF InTurn
  <2>4. QED
    BY <2>2, <2>3
<1>4. CASE NotifyDelivers
  BY <1>4, DeliveredOrdered
<1>5. QED
  BY <1>1, <1>2, <1>3, <1>4 DEF Next, Judge

LEMMA InitOrdered == Init => OrderInv
<1> SUFFICES ASSUME Init PROVE OrderInv
  OBVIOUS
<1>1. turn = 0 /\ queue = <<>> /\ heard = {} /\ \A u \in Users : at[u] = "idle"
  BY DEF Init
<1>2. QED
  BY <1>1 DEF OrderInv, DoneInv, WaitingInv, FlushInv, IsDone, InTurn

(* What a step makes heard, of a turn's text, is of a turn that is not done. *)
LEMMA HeardBefore ==
  ASSUME Safe, OrderInv, [Next]_vars, NEW e \in heard' \ heard, e.kind \in StreamKinds
  PROVE  Event("done", e.of) \notin heard
<1> USE DEF conversation, text, early, program, cache, events, whole
<1>1. CASE NotifyDelivers
  <2>1. e = Head(queue) /\ queue # <<>>
    BY <1>1 DEF NotifyDelivers
  <2>2. 1 \in DOMAIN queue /\ e = queue[1]
    BY <2>1, TurnCount DEF Safe
  <2>3. QED
    BY <2>2 DEF OrderInv, WaitingInv, OfStream, IsDone
<1>2. ASSUME NEW u \in Users,
             \/ Announces(u) \/ Feeds(u) \/ \E raises \in BOOLEAN : StreamEnds(u, raises)
      PROVE  Event("done", e.of) \notin heard
  <2>1. InTurn(u)
    BY <1>2 DEF Announces, Feeds, StreamEnds, InTurn
  <2>2. \E kind \in StreamKinds : e = Event(kind, turn)
    BY <1>2 DEF Announces, Feeds, StreamEnds, Emits, StreamKinds
  <2>3. e.of = turn
    BY <2>2 DEF Event
  <2>4. QED
    BY <2>1, <2>3 DEF OrderInv, DoneInv, IsDone
<1>3. CASE \E u \in Users : TurnDone(u)
  <2>1. e = Event("done", turn)
    BY <1>3 DEF TurnDone
  <2>2. QED
    BY <2>1 DEF Event, StreamKinds
<1>4. CASE UNCHANGED heard
  BY <1>4
<1>5. \/ NotifyDelivers \/ UNCHANGED heard
      \/ \E u \in Users : \/ Announces(u) \/ Feeds(u) \/ TurnDone(u)
                          \/ \E raises \in BOOLEAN : StreamEnds(u, raises)
  <2>1. CASE \E u \in Users : \/ RunBegins(u) \/ RunGoesOn(u) \/ Driver(u)
                              \/ \E w \in Ways : BeginTurn(u, w) \/ BeginRefused(u, w)
    BY <2>1 DEF RunGoesOn, RunBegins, ChatFails, Driver, AnnounceFails, Joins, Flushes,
                FlushFails, BeginTurn, BeginRefused
  <2>2. CASE \/ UNCHANGED vars \/ Executor \/ Planner \/ Close \/ Judge
             \/ \E t \in Tools, mark \in Marks : Registers(t, mark)
    BY <2>2 DEF vars, Executor, Planner, TurnThread, VerdictEnters, VerdictAsks, VerdictFails,
                Waits, Hears, StartsEarly,
                ExecutorCalls, CallReturns, FinalAnswer, ExecutorLeaves, PlannerLeaves,
                Judge, JudgeSettles, JudgeTells, Close, Registers
  <2>3. QED
    BY <2>1, <2>2 DEF Next
<1>6. QED
  BY <1>2, <1>1, <1>3, <1>4, <1>5

(* Nothing of a turn's text reaches the listener after that turn's `done`,
   whichever thread it comes through, on an event loop or off one
   (repl.py:1017-1047).                                                    *)
THEOREM DoneIsLast == Spec => DoneComesLast
<1>1. Safe /\ OrderInv /\ [Next]_vars =>
        [\A e \in heard' \ heard :
           e.kind \in StreamKinds => Event("done", e.of) \notin heard]_vars
  BY HeardBefore
<1>2. Spec => []Safe
  BY InvHolds, TypeHolds, PTL DEF Safe
<1>3. QED
  BY <1>1, <1>2, InitOrdered, StepOrdered, PTL DEF Spec, DoneComesLast
=============================================================================
