---------------------------- MODULE SpecTurnPlain ----------------------------
(***************************************************************************)
(* A turn does to the program what PlainRepl does: it runs the code once,   *)
(* in order, and every call sees exactly the state changes made before it.  *)
(* From the same invariant: nothing begins beside a state-changing call,    *)
(* and no call is started more often than the program will use it.          *)
(***************************************************************************)
EXTENDS SpecTurnProofs, Functions

\* where the executor is between the calls of two statements
Between == {"take", "gate", "check", "ahead", "plan", "run", "leave"}

\* The call in hand is the one the program is at.
InHand == mine # 0 => calls[mine].key = CurrentKey

\* A statement begins with its first call, and the turn ends with the executor.
PlaceOfRun ==
  /\ pc["executor"] \in Between => nth = 1
  /\ outcome # "none" <=> pc["executor"] = "done"

\* Only the judge can allow a call that is not marked.
AskedInv ==
  \A k \in Keys : /\ verdict[k] = "yes" => k \in Always \cup Judged
                  /\ verdict[k] = "pending" => k \in Judged

\* Every state-changing call of the log is one the program made, and one of a
\* tool that is not registered as safe.
MadeInv ==
  /\ \A u \in Ids : Unsafe(u) =>
       /\ u = mine \/ \E j \in DOMAIN results : results[j] = u
       /\ calls[u].key \notin Always
  /\ pc["executor"] = "lock" => CurrentKey \notin Always

PlainInv == InHand /\ PlaceOfRun /\ AskedInv /\ MadeInv
TurnInv == SafeInv /\ FreshInv /\ OutcomeInv /\ PlainInv

-----------------------------------------------------------------------------

\* The executor goes from statement to statement, or from point to point of a
\* hook, and only a few of its actions change where the program is.
BetweenStep ==
  /\ UNCHANGED <<next, nth, mine, results, outcome>> /\ pc["executor"] \in Between
  /\ \/ UNCHANGED running /\ pc'["executor"] \in Between
     \/ running' = TRUE /\ pc'["executor"] = "code"
PointStep ==
  /\ UNCHANGED <<next, nth, results, outcome, running>>
  /\ pc["executor"] \in ({"code"} \cup InCall) \ {"await"} /\ pc'["executor"] \in InCall
  /\ pc["executor"] = "code" => HookTakes

LEMMA ExecutorPlaces ==
  ASSUME TypeInv, Executor
  PROVE  \/ BetweenStep \/ PointStep
         \/ ExecutorFinishes \/ ExecutorFails \/ ExecutorLeaves
         \/ HookCannotAsk \/ HookAborts \/ HookReturns
<1>. USE DEF TypeInv, TypeOK, ThreadsOK, Threads, Goto, execution
<1>1. CASE ExecutorTakes \/ ExecutorGate \/ ExecutorChecks \/ ExecutorRuns
  BY <1>1 DEF ExecutorTakes, ExecutorGate, ExecutorChecks, ExecutorRuns, Between, BetweenStep
<1>2. CASE PlanAhead("executor")
  <2>1. \/ UNCHANGED pc /\ pc["executor"] = "plan"
        \/ Goto("executor", "plan") \/ Goto("executor", "run")
    BY <1>2, Zenon DEF PlanAhead, PlanSkipped, PlanLooks, PlanCannotAsk, PlanStarts, PlanStops,
       PlanFails, Then, IsNext
  <2>2. pc["executor"] \in {"ahead", "plan"}
    BY <1>2, Zenon DEF PlanAhead, PlanSkipped, PlanLooks, PlanCannotAsk, PlanStarts, PlanStops,
       PlanFails, IsNext
  <2>3. UNCHANGED execution
    BY <1>2, Zenon DEF PlanAhead, PlanSkipped, PlanLooks, PlanCannotAsk, PlanStarts, PlanStops,
       PlanFails
  <2>. QED
    BY <2>1, <2>2, <2>3 DEF Between, BetweenStep
<1>3. CASE HookTakes \/ HookAsks \/ HookAnswered
  BY <1>3 DEF HookTakes, HookAsks, HookAnswered, InCall, PointStep
<1>4. CASE HookReleased \/ HookPasses \/ HookDecides \/ HookRunsAlone
  BY <1>4 DEF HookReleased, HookPasses, HookDecides, HookRunsAlone, InCall, PointStep
<1>. QED
  BY <1>1, <1>2, <1>3, <1>4, Zenon DEF Executor

\* While a call is in hand nothing moves the program but its return.
LEMMA HandStays ==
  ASSUME TypeInv, [Next]_vars, mine # 0
  PROVE  HookReturns \/ (UNCHANGED execution /\ pc'["executor"] = pc["executor"])
<1>1. pc["executor"] = "await"
  BY DEF TypeInv, PlaceInv
<1>2. CASE Executor
  BY <1>1, <1>2, ExecutorPlaces DEF Between, BetweenStep, PointStep, ExecutorFinishes,
     ExecutorFails, ExecutorLeaves, HookCannotAsk, HookAborts
<1>. QED
  BY <1>2, ExecutorAlone, Zenon DEF Next

\* A state-changing call gets into the log at the lock, and is then in hand.
LEMMA NewUnsafe ==
  ASSUME TypeInv, [Next]_vars, NEW u \in Ids', u \notin Ids, calls'[u].how = "unsafe"
  PROVE  HookRunsAlone /\ u = mine' /\ calls'[u].key = CurrentKey
<1>1. Len(calls') # Len(calls)
  BY DEF Ids
<1>2. pc["executor"] = "lock"
  BY LogGrows
<1>3. ASSUME NEW p \in Threads, PlanStarts(p) PROVE FALSE
  <2>1. UNCHANGED calls \/ \E k : calls' = Start(k, "early", "queued")
    BY <1>3, Zenon DEF PlanStarts
  <2>2. PICK k : calls' = Append(calls, [key |-> k, how |-> "early", state |-> "queued"])
    BY <1>1, <2>1 DEF Start
  <2>. DEFINE call == [key |-> k, how |-> "early", state |-> "queued"]
  <2>3. calls'[Len(calls) + 1] = call /\ Ids' = Ids \cup {Len(calls) + 1}
    BY <2>2, Appended
  <2>. QED
    BY <2>3
<1>4. HookRunsAlone
  BY <1>1, <1>2, <1>3, NewCalls DEF HookDecides
<1>5. Dropped \in Seq(Call) /\ Len(Dropped) = Len(calls) /\ Len(calls) \in Nat
  BY DroppedType DEF TypeInv, TypeOK, CallsOK
<1>6. /\ Len(calls') = Len(calls) + 1 /\ mine' = Len(calls) + 1
      /\ calls'[Len(calls) + 1].key = CurrentKey
  BY <1>4, <1>5 DEF HookRunsAlone
<1>. QED
  BY <1>4, <1>5, <1>6 DEF Ids

LEMMA InHandStep ==
  ASSUME TypeInv, InHand, [Next]_vars
  PROVE  InHand'
<1>1. prog' = prog
  BY Monotone
<1>2. CASE mine # 0
  <2>1. CASE HookReturns
    BY <2>1 DEF HookReturns, InHand
  <2>2. CASE UNCHANGED execution
    <3>1. mine \in Ids /\ calls'[mine].key = calls[mine].key
      BY <1>2, IdsType, LogGrows
    <3>2. CurrentKey' = CurrentKey /\ mine' = mine
      BY <1>1, <2>2 DEF CurrentKey, Current, execution
    <3>. QED
      BY <3>1, <3>2 DEF InHand
  <2>. QED
    BY <1>2, <2>1, <2>2, HandStays
<1>3. CASE mine = 0
  <2>. SUFFICES ASSUME mine' # 0 PROVE calls'[mine'].key = CurrentKey'
    BY DEF InHand
  <2>1. HookTakes \/ HookDecides \/ HookRunsAlone
    <3>1. (\E p \in Threads : PlanStarts(p)) \/ EndTurn \/ PoolBegins \/ ToolEnds => mine' = mine
      BY Zenon DEF PlanStarts, EndTurn, PoolBegins, ToolEnds, execution
    <3>2. HookReturns => mine' = 0
      BY DEF HookReturns
    <3>. QED
      BY <1>3, <3>1, <3>2, LogSteps
  <2>2. CurrentKey' = CurrentKey
    BY <1>1, <2>1 DEF HookTakes, HookDecides, HookRunsAlone, CurrentKey, Current
  <2>3. CASE HookTakes
    <3>1. mine' \in ReadyOf(CurrentKey) /\ calls' = calls
      BY <1>3, <2>3 DEF HookTakes
    <3>. QED
      BY <2>2, <3>1 DEF ReadyOf
  <2>4. CASE HookDecides
    <3>. DEFINE call == [key |-> CurrentKey, how |-> "inline", state |-> "running"]
    <3>1. calls' = Append(calls, call) /\ mine' = Len(calls) + 1
      BY <1>3, <2>4 DEF HookDecides, Start
    <3>2. calls'[mine'] = call
      BY <3>1, Appended
    <3>. QED
      BY <2>2, <3>2
  <2>5. CASE HookRunsAlone
    <3>1. Dropped \in Seq(Call) /\ Len(Dropped) = Len(calls) /\ Len(calls) \in Nat
      BY DroppedType DEF TypeInv, TypeOK, CallsOK
    <3>2. calls'[mine'].key = CurrentKey
      BY <2>5, <3>1 DEF HookRunsAlone
    <3>. QED
      BY <2>2, <3>2
  <2>. QED
    BY <2>1, <2>3, <2>4, <2>5
<1>. QED
  BY <1>2, <1>3

LEMMA PlaceOfRunStep ==
  ASSUME TypeInv, PlaceOfRun, [Next]_vars
  PROVE  PlaceOfRun'
<1>. USE DEF TypeInv, TypeOK, ThreadsOK, Threads, Goto
<1>1. CASE Stream \/ Planner \/ Environment \/ TurnOver \/ UNCHANGED vars
  BY <1>1, ExecutorAlone DEF execution, PlaceOfRun
<1>2. CASE Executor
  <2>1. CASE BetweenStep
    BY <2>1 DEF BetweenStep, PlaceOfRun, Between
  <2>2. CASE ExecutorFinishes \/ ExecutorFails \/ ExecutorLeaves
    BY <2>2 DEF ExecutorFinishes, ExecutorFails, ExecutorLeaves, Dies, PlaceOfRun, Between
  <2>3. CASE PointStep
    BY <2>3 DEF PointStep, PlaceOfRun, Between, InCall
  <2>4. CASE HookCannotAsk \/ HookAborts \/ HookReturns
    BY <2>4 DEF HookCannotAsk, HookAborts, HookReturns, Raises, Dies, PlaceOfRun, Between
  <2>. QED
    BY <1>2, <2>1, <2>2, <2>3, <2>4, ExecutorPlaces
<1>. QED
  BY <1>1, <1>2, Zenon DEF Next

LEMMA AskedStep ==
  ASSUME TypeInv, AskedInv, [Next]_vars
  PROVE  AskedInv'
<1>. USE DEF TypeInv, TypeOK, VerdictOK
<1>1. ASSUME NEW ks, verdict' = Ask(ks)
      PROVE  AskedInv'
  BY <1>1 DEF Ask, Asked, AskedInv
<1>2. ASSUME NEW ks, NEW k, verdict' = [Ask(ks) EXCEPT ![k] = "lost"]
      PROVE  AskedInv'
  BY <1>2 DEF Ask, Asked, AskedInv
<1>3. CASE UNCHANGED verdict
  BY <1>3 DEF AskedInv
<1>4. CASE \E p \in Threads : PlanLooks(p) \/ PlanCannotAsk(p)
  BY <1>1, <1>2, <1>4, Zenon DEF PlanLooks, PlanCannotAsk
<1>5. CASE HookAsks
  BY <1>1, <1>3, <1>5 DEF HookAsks
<1>6. CASE HookCannotAsk
  BY <1>6 DEF HookCannotAsk, AskedInv
<1>7. CASE JudgeAnswers
  BY <1>7 DEF JudgeAnswers, AskedInv
<1>. QED
  BY <1>3, <1>4, <1>5, <1>6, <1>7, VerdictSteps

LEMMA MadeStep ==
  ASSUME TypeInv, MadeInv, [Next]_vars
  PROVE  MadeInv'
<1>. USE DEF TypeInv, TypeOK, ThreadsOK, Threads, Goto
<1>1. prog' = prog
  BY Monotone
<1>2. \A j \in DOMAIN results : j \in DOMAIN results' /\ results'[j] = results[j]
  <2>1. CASE UNCHANGED results
    BY <2>1
  <2>2. CASE HookReturns
    BY <2>2, IdsType DEF HookReturns, CallsOK
  <2>3. UNCHANGED results \/ HookReturns
    BY LogSteps, Zenon DEF PlanStarts, EndTurn, PoolBegins, ToolEnds, HookTakes, HookDecides,
       HookRunsAlone, execution
  <2>. QED
    BY <2>1, <2>2, <2>3
<1>3. ASSUME NEW u \in Ids', Unsafe(u)'
      PROVE  /\ u = mine' \/ \E j \in DOMAIN results' : results'[j] = u
             /\ calls'[u].key \notin Always
  <2>1. CASE u \in Ids
    <3>1. Unsafe(u) /\ calls'[u].key = calls[u].key /\ u # 0
      BY <1>3, <2>1, LogGrows DEF Unsafe, Ids
    <3>2. CASE u = mine
      <4>1. CASE HookReturns
        <5>1. results' = Append(results, u)
          BY <3>2, <4>1 DEF HookReturns
        <5>2. results'[Len(results) + 1] = u /\ Len(results) + 1 \in DOMAIN results'
          BY <5>1, IdsType DEF CallsOK
        <5>. QED
          BY <2>1, <3>1, <5>2 DEF MadeInv
      <4>2. CASE UNCHANGED execution
        BY <2>1, <3>1, <3>2, <4>2 DEF MadeInv, execution
      <4>. QED
        BY <3>1, <3>2, <4>1, <4>2, HandStays
    <3>3. CASE u # mine
      BY <1>2, <2>1, <3>1, <3>3 DEF MadeInv
    <3>. QED
      BY <3>2, <3>3
  <2>2. CASE u \notin Ids
    BY <1>3, <2>2, NewUnsafe DEF MadeInv, HookRunsAlone, Unsafe
  <2>. QED
    BY <2>1, <2>2
<1>4. ASSUME pc'["executor"] = "lock"
      PROVE  CurrentKey' \notin Always
  <2>1. CASE Stream \/ Planner \/ Environment \/ TurnOver \/ UNCHANGED vars
    <3>1. CurrentKey' = CurrentKey /\ pc["executor"] = "lock"
      BY <1>1, <1>4, <2>1, ExecutorAlone DEF execution, CurrentKey, Current
    <3>. QED
      BY <3>1 DEF MadeInv
  <2>2. CASE Executor
    <3>1. HookDecides
      <4>1. CASE PlanAhead("executor")
        <5>1. \/ UNCHANGED pc /\ pc["executor"] = "plan"
              \/ Goto("executor", "plan") \/ Goto("executor", "run")
          BY <4>1, Zenon DEF PlanAhead, PlanSkipped, PlanLooks, PlanCannotAsk, PlanStarts, PlanStops,
             PlanFails, Then, IsNext
        <5>. QED
          BY <1>4, <5>1
      <4>2. CASE ExecutorTakes \/ ExecutorGate \/ ExecutorChecks \/ ExecutorRuns \/ ExecutorFinishes
                 \/ ExecutorFails \/ ExecutorLeaves
        BY <1>4, <4>2 DEF ExecutorTakes, ExecutorGate, ExecutorChecks, ExecutorRuns,
           ExecutorFinishes, ExecutorFails, ExecutorLeaves, Dies
      <4>3. CASE HookTakes \/ HookAsks \/ HookCannotAsk \/ HookAnswered \/ HookReleased
                 \/ HookPasses \/ HookAborts \/ HookRunsAlone \/ HookReturns
        BY <1>4, <4>3 DEF HookTakes, HookAsks, HookCannotAsk, HookAnswered, HookReleased,
           HookPasses, HookAborts, HookRunsAlone, HookReturns, Raises, Dies
      <4>. QED
        BY <2>2, <4>1, <4>2, <4>3, Zenon DEF Executor
    <3>2. CurrentKey' = CurrentKey /\ ~KnownSafe(CurrentKey)
      BY <1>1, <1>4, <3>1 DEF HookDecides, CurrentKey, Current
    <3>. QED
      BY <3>2 DEF KnownSafe
  <2>. QED
    BY <2>1, <2>2, Zenon DEF Next
<1>. QED
  BY <1>3, <1>4 DEF MadeInv

LEMMA PlainInvInit == Init => PlainInv
<1>. SUFFICES ASSUME Init PROVE PlainInv
  OBVIOUS
<1>1. mine = 0 /\ nth = 1 /\ calls = << >> /\ verdict = [k \in Keys |-> "none"] /\ outcome = "none"
  BY Zenon DEF Init
<1>2. pc["executor"] = "take"
  BY DEF Init
<1>. QED
  BY <1>1, <1>2 DEF PlainInv, InHand, PlaceOfRun, AskedInv, MadeInv, Ids

\* The call in hand is the program's next one, only the judge allows unmarked
\* calls, and every state-changing call of the log was made by the program.
THEOREM CallsAreTheProgram == Spec => []TurnInv
<1>1. TypeInv /\ PlainInv /\ [Next]_vars => PlainInv'
  BY InHandStep, PlaceOfRunStep, AskedStep, MadeStep DEF PlainInv
<1>. QED
  BY <1>1, PlainInvInit, TypeCorrect, CommitsWhole, ResultsFresh, LeavesWhenRead, PTL
  DEF TurnInv, Spec
-----------------------------------------------------------------------------
(* The refinement.  What the program has seen only changes when a hook      *)
(* returns, and then by the call that comes next.                           *)

\* What the program has seen stays what it was while no result is used.
LEMMA HistoryStays ==
  ASSUME TypeInv, [Next]_vars, UNCHANGED results
  PROVE  History' = History
<1>. DEFINE Older(c) == {u \in Ids : Unsafe(u) /\ u < c}
            Seen(j) == [key |-> calls[results[j]].key, writes |-> Unsafe(results[j]),
                        world |-> Cardinality(Older(results[j]))]
<1>1. \A c \in Ids : c \in Ids' /\ calls'[c].key = calls[c].key /\ (Unsafe(c)' <=> Unsafe(c))
  BY LogGrows, IdsType, TypeStep DEF Ids, Unsafe
<1>2. ASSUME NEW j \in DOMAIN results
      PROVE  Seen(j)' = Seen(j)
  <2>1. results[j] \in Ids /\ results'[j] = results[j]
    BY IdsType
  <2>2. \A u \in Ids' : u < results[j] => u \in Ids
    <3>1. \A c \in Ids' : c \in Nat \ {0}
      BY DEF Ids
    <3>. QED
      BY <2>1, <3>1, IdsType DEF Ids
  <2>3. Older(results[j])' = Older(results[j])
    BY <1>1, <2>1, <2>2
  <2>. QED
    BY <1>1, <2>1, <2>3 DEF Unsafe
<1>3. History = [j \in DOMAIN results |-> Seen(j)] /\ History' = [j \in DOMAIN results' |-> Seen(j)']
  BY DEF History
<1>. QED
  BY <1>2, <1>3

\* A call sees exactly the state changes the program made before it: those of
\* the log before the call are those the program has had the results of.
LEMMA WorldSeen ==
  ASSUME TurnInv, mine # 0
  PROVE  Cardinality({u \in Ids : Unsafe(u) /\ u < mine}) = Plain!Writes
<1>. DEFINE Made == {j \in DOMAIN results : Unsafe(results[j])}
            Logged == {u \in Ids : Unsafe(u) /\ u < mine}
            f == [j \in Made |-> results[j]]
<1>. USE DEF TurnInv, FreshInv, UseInv
<1>1. \A j \in Made : results[j] \in Logged
  BY IdsType DEF MineInv, ResultsInv
<1>2. \A u \in Logged : \E j \in Made : results[j] = u
  BY IdsType DEF PlainInv, MadeInv
<1>3. f \in Bijection(Made, Logged)
  <2>1. f \in [Made -> Logged]
    BY <1>1
  <2>2. \A i, j \in Made : f[i] = f[j] => i = j
    BY DEF ResultsInv
  <2>3. \A u \in Logged : \E j \in Made : f[j] = u
    BY <1>2
  <2>. HIDE DEF f, Made, Logged
  <2>4. f \in Injection(Made, Logged)
    BY <2>1, <2>2 DEF Injection, IsInjective
  <2>5. f \in Surjection(Made, Logged)
    BY <2>1, <2>3 DEF Surjection
  <2>. QED
    BY <2>4, <2>5 DEF Bijection
<1>4. IsFiniteSet(Made)
  <2>1. IsFiniteSet(DOMAIN results)
    BY IdsType, FS_Interval
  <2>. QED
    BY <2>1, FS_Subset
<1>5. Cardinality(Made) = Cardinality(Logged)
  BY <1>3, <1>4, FS_Bijection DEF ExistsBijection
<1>6. {j \in DOMAIN History : History[j].writes} = Made
  BY DEF History
<1>7. Plain!Writes = Cardinality({j \in DOMAIN History : History[j].writes})
  BY DEF Plain!Writes, Plain!Cardinality, Cardinality
<1>. QED
  BY <1>5, <1>6, <1>7, Zenon

\* A hook that returns adds the next call of the program to what it has seen.
LEMMA HistoryGrows ==
  ASSUME TurnInv, HookReturns
  PROVE  History' = Append(History, [key |-> CurrentKey, writes |-> Unsafe(mine),
                                     world |-> Plain!Writes])
<1>. DEFINE Seen(c) == [key |-> calls[c].key, writes |-> Unsafe(c),
                        world |-> Cardinality({u \in Ids : Unsafe(u) /\ u < c})]
            n == Len(results) + 1
<1>1. TypeInv /\ mine # 0 /\ mine \in Ids /\ calls' = calls /\ results' = Append(results, mine)
  BY IdsType DEF HookReturns, launched, TurnInv, FreshInv, TypeInv, PlaceInv
<1>2. /\ results \in Seq(Nat) /\ DOMAIN results = 1 .. n - 1 /\ DOMAIN results' = 1 .. n /\ n \in Nat
      /\ \A j \in 1 .. n : results'[j] = IF j = n THEN mine ELSE results[j]
  BY <1>1 DEF TypeInv, TypeOK, CallsOK
<1>3. History = [j \in 1 .. n - 1 |-> Seen(results[j])]
  BY <1>2 DEF History
<1>4. History' = [j \in 1 .. n |-> Seen(results'[j])]
  BY <1>1, <1>2 DEF History, Ids, Unsafe
<1>5. Seen(mine) = [key |-> CurrentKey, writes |-> Unsafe(mine), world |-> Plain!Writes]
  BY <1>1, WorldSeen DEF TurnInv, PlainInv, InHand
<1>. HIDE DEF Seen
<1>6. Append(History, Seen(mine)) = [j \in 1 .. n |-> IF j = n THEN Seen(mine) ELSE History[j]]
  <2>. DEFINE S == {Seen(mine)} \cup {History[j] : j \in 1 .. n - 1}
              new == Append(History, Seen(mine))
  <2>1. History \in Seq(S) /\ Len(History) = n - 1 /\ Seen(mine) \in S
    BY <1>2, <1>3, SeqDef, LenProperties
  <2>. HIDE DEF S
  <2>2. new \in Seq(S) /\ Len(new) = n /\ \A j \in 1 .. n : new[j] = IF j = n THEN Seen(mine) ELSE History[j]
    BY <1>2, <2>1, AppendProperties
  <2>. QED
    BY <1>2, <2>2, LenProperties
<1>7. \A j \in 1 .. n : Seen(results'[j]) = IF j = n THEN Seen(mine) ELSE History[j]
  BY <1>2, <1>3
<1>. QED
  BY <1>4, <1>5, <1>6, <1>7

\* The executor at a statement: the plain run is alive and at the same call.
LEMMA AliveInStatement ==
  ASSUME TurnInv, pc["executor"] \in InStatement
  PROVE  Plain!Live /\ Plain!Statement = Current
<1>1. outcome = "none"
  BY DEF TurnInv, PlainInv, PlaceOfRun, InStatement
<1>2. next <= Len(prog.stmts)
  BY <1>1, ProgramType DEF TurnInv, FreshInv, TypeInv, TypeOK, TextOK, ProgressOK, PlaceInv, Last
<1>. QED
  BY <1>1, <1>2 DEF Plain!Live, Plain!Statement, Current

\* The call a hook returns is one PlainRepl may make at this place, and goes on,
\* or raises, as it does there.
LEMMA ReturnsIsCall ==
  ASSUME TurnInv, HookReturns
  PROVE  Plain!Call
<1>1. TypeInv /\ pc["executor"] = "await" /\ mine # 0 /\ mine \in Ids
  BY IdsType DEF HookReturns, TurnInv, FreshInv, TypeInv, PlaceInv
<1>2. Plain!Live /\ Plain!Statement = Current
  BY <1>1, AliveInStatement DEF InStatement, ExecutorLabels
<1>3. nth <= Len(Current.runs)
  <2>1. next \in 1 .. Last /\ nth \in DOMAIN Current.runs
    BY <1>1, ProgramType DEF TypeInv, TypeOK, PlaceInv, ProgressOK, TextOK, InStatement, InCall,
       ExecutorLabels
  <2>2. Current.runs \in Seq(Keys)
    BY <1>1, <2>1, ProgramType DEF TypeInv, Current
  <2>. QED
    BY <2>1, <2>2
<1>4. CurrentKey = Current.runs[nth] /\ calls[mine].key = CurrentKey
  BY <1>1 DEF CurrentKey, TurnInv, PlainInv, InHand
<1>5. CurrentKey \in Keys
  BY <1>1, CallKey DEF InCall
<1>6. IF Unsafe(mine) THEN CurrentKey \notin Always /\ prog.parses
                      ELSE CurrentKey \in Always \cup Judged
  <2>1. CASE Unsafe(mine)
    BY <1>1, <1>4, <2>1 DEF TurnInv, SafeInv, LogInv, Whole, PlainInv, MadeInv
  <2>2. CASE ~Unsafe(mine)
    BY <1>1, <1>4, <1>5, <2>2 DEF TurnInv, SafeInv, LogInv, Allowed, PlainInv, AskedInv
  <2>. QED
    BY <2>1, <2>2
<1>7. Unsafe(mine) \in BOOLEAN
  BY DEF Unsafe
<1>8. \/ nth' = nth + 1 /\ UNCHANGED outcome
      \/ ~Current.swallows /\ outcome' = "error" /\ UNCHANGED nth
  BY DEF HookReturns, Raises, Dies
<1>9. UNCHANGED <<prog, next>>
  BY DEF HookReturns, Raises, Dies
<1>. QED
  BY <1>2, <1>3, <1>4, <1>6, <1>7, <1>8, <1>9, HistoryGrows DEF Plain!Call

\* A hook that raises instead of calling is a call PlainRepl refuses.
LEMMA RaisesIsRefuse ==
  ASSUME TurnInv, [Next]_vars, HookCannotAsk \/ HookAborts
  PROVE  Plain!Refuse
<1>1. TypeInv /\ pc["executor"] \in {"verdict", "abort"}
  BY DEF HookCannotAsk, HookAborts, TurnInv, FreshInv
<1>2. Plain!Live /\ Plain!Statement = Current
  BY <1>1, AliveInStatement DEF InStatement, ExecutorLabels
<1>3. nth <= Len(Current.runs)
  <2>1. next \in 1 .. Last /\ nth \in DOMAIN Current.runs
    BY <1>1, ProgramType DEF TypeInv, TypeOK, PlaceInv, ProgressOK, TextOK, InStatement, InCall,
       ExecutorLabels
  <2>2. Current.runs \in Seq(Keys)
    BY <1>1, <2>1, ProgramType DEF TypeInv, Current
  <2>. QED
    BY <2>1, <2>2
<1>4. UNCHANGED <<prog, next, results>>
  BY DEF HookCannotAsk, HookAborts, Raises, Dies
<1>5. IF Current.swallows THEN nth' = nth + 1 /\ UNCHANGED outcome
                          ELSE outcome' \in {"error", "aborted"} /\ UNCHANGED nth
  BY DEF HookCannotAsk, HookAborts, Raises, Dies
<1>6. History' = History
  BY <1>1, <1>4, HistoryStays
<1>. QED
  BY <1>2, <1>3, <1>4, <1>5, <1>6 DEF Plain!Refuse

\* A statement that ends, or raises of itself, does so in PlainRepl.
LEMMA EndsIsFinish ==
  ASSUME TurnInv, [Next]_vars, ExecutorFinishes \/ ExecutorFails
  PROVE  Plain!Finish
<1>1. TypeInv /\ pc["executor"] = "code"
  BY DEF ExecutorFinishes, ExecutorFails, TurnInv, FreshInv
<1>2. Plain!Live /\ Plain!Statement = Current
  BY <1>1, AliveInStatement DEF InStatement, ExecutorLabels
<1>3. UNCHANGED <<prog, results>>
  BY DEF ExecutorFinishes, ExecutorFails
<1>4. History' = History
  BY <1>1, <1>3, HistoryStays
<1>. QED
  BY <1>2, <1>3, <1>4 DEF Plain!Finish, ExecutorFinishes, ExecutorFails, Dies

\* The executor leaves where PlainRepl may stop.
LEMMA LeavesIsStop ==
  ASSUME TurnInv, [Next]_vars, ExecutorLeaves
  PROVE  Plain!Stop
<1>1. TypeInv /\ pc["executor"] = "leave"
  BY DEF ExecutorLeaves, TurnInv, FreshInv
<1>2. outcome = "none" /\ nth = 1
  BY <1>1 DEF TurnInv, PlainInv, PlaceOfRun, Between
<1>3. abort = "none" => next > Len(prog.stmts) /\ prog.parses
  BY <1>1, ProgramType DEF TurnInv, OutcomeInv, AllRan, Read, Last, TypeInv
<1>4. UNCHANGED <<prog, next, nth, results>>
  BY DEF ExecutorLeaves
<1>5. History' = History
  BY <1>1, <1>4, HistoryStays
<1>. QED
  BY <1>2, <1>3, <1>4, <1>5 DEF Plain!Stop, ExecutorLeaves

\* Every step of a turn is one step of PlainRepl, or none.
LEMMA PlainStepMaps ==
  ASSUME TurnInv, [Next]_vars
  PROVE  [Plain!Next]_(Plain!vars)
<1>1. TypeInv /\ prog' = prog
  BY Monotone DEF TurnInv, FreshInv
<1>2. ASSUME UNCHANGED <<next, nth, results, outcome>>
      PROVE  UNCHANGED Plain!vars
  BY <1>1, <1>2, HistoryStays DEF Plain!vars
<1>3. CASE Stream \/ Planner \/ Environment \/ TurnOver \/ UNCHANGED vars
  BY <1>1, <1>2, <1>3, ExecutorAlone DEF execution
<1>4. CASE Executor
  <2>1. CASE BetweenStep \/ PointStep
    BY <1>2, <2>1 DEF BetweenStep, PointStep
  <2>2. CASE HookReturns
    BY <2>2, ReturnsIsCall DEF Plain!Next
  <2>3. CASE HookCannotAsk \/ HookAborts
    BY <2>3, RaisesIsRefuse DEF Plain!Next
  <2>4. CASE ExecutorFinishes \/ ExecutorFails
    BY <2>4, EndsIsFinish DEF Plain!Next
  <2>5. CASE ExecutorLeaves
    BY <2>5, LeavesIsStop DEF Plain!Next
  <2>. QED
    BY <1>1, <1>2, <1>4, <2>1, <2>2, <2>3, <2>4, <2>5, ExecutorPlaces
<1>. QED
  BY <1>3, <1>4, Zenon DEF Next

LEMMA PlainInit == Init => Plain!Init
<1>. SUFFICES ASSUME Init PROVE Plain!Init
  OBVIOUS
<1>1. /\ prog \in Programs /\ next = 1 /\ nth = 1 /\ results = << >> /\ outcome = "none"
  BY Zenon DEF Init
<1>2. History = << >>
  BY <1>1 DEF History
<1>. QED
  BY <1>1, <1>2 DEF Plain!Init

\* A turn of SpecRepl implements a plain REPL: whatever is started ahead, judged,
\* dropped or held, the program sees its calls once, in order, each with the
\* effects of exactly the state-changing calls it made before it.
THEOREM ImplementsPlain == Spec => PlainSpec
<1>1. Spec => Plain!Init /\ [][Plain!Next]_(Plain!vars)
  BY PlainInit, PlainStepMaps, CallsAreTheProgram, PTL DEF Spec
<1>. QED
  BY <1>1 DEF PlainSpec, Plain!Spec
-----------------------------------------------------------------------------
(* What begins beside a state-changing call. *)

\* A call that begins while a state-changing one runs is one of an async tool that
\* was started early and dropped: all other calls are over, cancelled or waiting
\* for `_launch`.
LEMMA OnlyAsyncBegins ==
  ASSUME TurnInv, [Next]_vars, NEW u \in Ids, Unsafe(u), calls[u].state = "running",
         NEW c \in Ids', calls'[c].state = "running"
  PROVE  \/ c \in Ids /\ calls[c].state = "running"
         \/ c \in Ids /\ calls[c].state = "queued" /\ calls[c].key \in Async
<1>1. TypeInv /\ u = mine /\ mine # 0 /\ ready = {} /\ pc["executor"] = "await"
  BY DEF TurnInv, FreshInv, UseInv, MineInv, UnsafeInv, TypeInv, PlaceInv, Ids
<1>2. CASE UNCHANGED calls
  BY <1>2 DEF Ids
<1>3. ASSUME NEW p \in Threads, PlanStarts(p) PROVE FALSE
  <2>1. LaunchFree
    BY <1>3, Zenon DEF PlanStarts
  <2>. QED
    BY <1>1, <2>1 DEF LaunchFree
<1>4. CASE PoolBegins
  <2>1. PICK d \in Ids : /\ calls[d].state = "queued"
                         /\ calls' = [calls EXCEPT ![d].state = "running"]
    BY <1>4 DEF PoolBegins
  <2>2. calls[d].key \in Async
    BY <1>1, <2>1 DEF TurnInv, FreshInv, UseInv, QueueInv
  <2>3. Ids' = Ids /\ \A e \in Ids : e # d => calls'[e] = calls[e]
    BY <1>1, <2>1 DEF TypeInv, TypeOK, CallsOK, Ids
  <2>. QED
    BY <2>1, <2>2, <2>3
<1>5. CASE ToolEnds
  <2>1. PICK d \in Ids, s \in {"done", "raised"} : calls' = [calls EXCEPT ![d].state = s]
    BY <1>5 DEF ToolEnds
  <2>2. calls[d] \in Call
    BY <1>1, IdsType
  <2>3. Ids' = Ids /\ \A e \in Ids : calls'[e] = IF e = d THEN [calls[d] EXCEPT !.state = s] ELSE calls[e]
    BY <1>1, <2>1 DEF TypeInv, TypeOK, CallsOK, Ids
  <2>. QED
    BY <2>2, <2>3 DEF Call
<1>6. EndTurn \/ HookTakes \/ HookDecides \/ HookRunsAlone => FALSE
  BY <1>1 DEF EndTurn, HookTakes, HookDecides, HookRunsAlone
<1>7. HookReturns => UNCHANGED calls
  BY DEF HookReturns, launched
<1>. QED
  BY <1>1, <1>2, <1>3, <1>4, <1>5, <1>6, <1>7, LogSteps DEF launched

\* In a REPL whose async tools are never started early, nothing at all begins from
\* the moment a state-changing call begins until it has returned.
THEOREM QuietUnlessAsync ==
  ASSUME Async \cap (Always \cup Judged) = {}
  PROVE  Spec => QuietWhileUnsafe
<1>1. ASSUME TurnInv, [Next]_vars, NEW u \in Ids, Unsafe(u), calls[u].state = "running",
             NEW c \in DOMAIN calls', calls'[c].state = "running"
      PROVE  c \in Ids /\ calls[c].state = "running"
  <2>1. c \in Ids'
    BY TypeStep DEF TurnInv, FreshInv, TypeInv, TypeOK, CallsOK, Ids
  <2>2. ASSUME c \in Ids, calls[c].state = "queued", calls[c].key \in Async
        PROVE  FALSE
    <3>1. calls[c].how = "early" /\ calls[c].key \in Keys
      BY <1>1, <2>2, IdsType DEF TurnInv, FreshInv, UseInv, QueueInv, Call
    <3>2. Allowed(calls[c].key)
      BY <1>1, <2>2, <3>1 DEF TurnInv, SafeInv, LogInv, Unsafe
    <3>. QED
      BY <1>1, <2>2, <3>1, <3>2 DEF Allowed, TurnInv, PlainInv, AskedInv
  <2>. QED
    BY <1>1, <2>1, <2>2, OnlyAsyncBegins
<1>2. TurnInv /\ [Next]_vars =>
        [\A u \in Ids : Unsafe(u) /\ calls[u].state = "running" /\ calls'[u].state = "running" =>
           \A c \in DOMAIN calls' :
             calls'[c].state = "running" => c \in Ids /\ calls[c].state = "running"]_calls
  BY <1>1
<1>. QED
  BY <1>2, CallsAreTheProgram, PTL DEF Spec, QuietWhileUnsafe
-----------------------------------------------------------------------------
(* How often a call is started: never more often than it is used, where     *)
(* planning sees what the program does.                                     *)

\* every use of a call in the program, and those still to come
Uses(k) == {u \in (1 .. Last) \X (Nat \ {0}) :
              u[2] \in DOMAIN prog.stmts[u[1]].runs /\ prog.stmts[u[1]].runs[u[2]] = k}
ToCome(u) == next < u[1] \/ (u[1] = next /\ nth <= u[2])

\* st.running is set exactly while the code of a statement runs.
RunningInv ==
  /\ pc["executor"] \in Between => ~running
  /\ pc["executor"] \in {"code"} \cup InCall => running
  /\ ~running => nth = 1

\* What is planned are uses of the program, and the executor plans its own.
PlanInv ==
  /\ \A p \in Threads : \A e \in plan[p] : <<e.stmt, e.nth>> \in Uses(e.key)
  /\ \A e \in plan["executor"] : e.stmt = next
  /\ plan["executor"] # {} => pc["executor"] = "plan"

\* A look counts the uses it has gone through: no more than there are.
Entries(S, k) == {e \in S : e.key = k}
WantedInv ==
  \A p \in Threads, k \in Keys :
    wanted[p][k] + Cardinality(Entries(plan[p], k)) <= Cardinality(Uses(k))

\* Each early result has its own use to come, and not the one of the call that
\* the program is in.
Underway(k) == IF pc["executor"] \in InCall /\ k = CurrentKey THEN 1 ELSE 0
SpareInv ==
  \A k \in Keys : Cardinality(ReadyOf(k)) + Underway(k) <= Cardinality(UsesLeft(k))

SpareParts == RunningInv /\ PlanInv /\ WantedInv /\ SpareInv

-----------------------------------------------------------------------------

LEMMA LeftOfUses ==
  ASSUME TypeInv, NEW k
  PROVE  UsesLeft(k) = {u \in Uses(k) : ToCome(u)}
<1>1. next \in Nat \ {0} /\ nth \in Nat \ {0} /\ Last \in Nat
  BY ProgramType DEF TypeInv, TypeOK, ProgressOK
<1>2. \A i \in 1 .. Last : DOMAIN prog.stmts[i].runs \subseteq Nat \ {0}
  BY ProgramType DEF TypeInv
<1>3. ASSUME NEW u \in UsesLeft(k) PROVE u \in Uses(k) /\ ToCome(u)
  <2>1. PICK i \in next .. Last : u \in {i} \X UsesIn(i, k)
    BY DEF UsesLeft
  <2>2. u = <<i, u[2]>> /\ u[2] \in UsesIn(i, k) /\ i \in 1 .. Last
    BY <1>1, <2>1
  <2>. QED
    BY <1>1, <1>2, <2>2 DEF UsesIn, Uses, ToCome
<1>4. ASSUME NEW u \in Uses(k), ToCome(u) PROVE u \in UsesLeft(k)
  <2>1. u[1] \in next .. Last /\ u[2] \in UsesIn(u[1], k) /\ u = <<u[1], u[2]>>
    BY <1>1, <1>4 DEF Uses, ToCome, UsesIn
  <2>. QED
    BY <2>1 DEF UsesLeft
<1>. QED
  BY <1>3, <1>4

\* Where no two statements make the same call, all its uses are in one.
LEMMA UsesInOne ==
  ASSUME TypeInv, Foreseen, NEW k
  PROVE  /\ \A u, v \in Uses(k) : u[1] = v[1]
         /\ IsFiniteSet(Uses(k)) /\ IsFiniteSet(UsesLeft(k))
<1>1. ASSUME NEW u \in Uses(k), NEW v \in Uses(k), u[1] # v[1] PROVE FALSE
  <2>. DEFINE s == prog.stmts[u[1]]
              r == prog.stmts[v[1]]
  <2>1. /\ u[1] \in DOMAIN prog.stmts /\ v[1] \in DOMAIN prog.stmts \ {u[1]}
        /\ u[2] \in DOMAIN s.runs /\ v[2] \in DOMAIN r.runs
        /\ s.runs[u[2]] = k /\ r.runs[v[2]] = k
    BY <1>1, ProgramType, LenProperties DEF Uses, Last, TypeInv
  <2>2. \A n \in DOMAIN s.runs : \A m \in DOMAIN r.runs : r.runs[m] # s.runs[n]
    BY <2>1, Zenon DEF Foreseen
  <2>. QED
    BY <2>1, <2>2
<1>2. IsFiniteSet(Uses(k))
  <2>1. CASE Uses(k) = {}
    BY <2>1, FS_EmptySet
  <2>2. CASE Uses(k) # {}
    <3>1. PICK w \in Uses(k) : TRUE
      BY <2>2
    <3>. DEFINE i == w[1]
                S == {i} \X (DOMAIN prog.stmts[i].runs)
    <3>2. i \in 1 .. Last
      BY DEF Uses
    <3>3. prog.stmts[i].runs \in Seq(Keys)
      BY <3>2, ProgramType DEF TypeInv
    <3>4. IsFiniteSet(DOMAIN prog.stmts[i].runs)
      BY <3>3, FS_Interval, LenProperties
    <3>5. IsFiniteSet(S)
      BY <3>4, FS_Singleton, FS_Product
    <3>6. Uses(k) \subseteq S
      <4>. SUFFICES ASSUME NEW u \in Uses(k) PROVE u \in S
        OBVIOUS
      <4>1. u = <<u[1], u[2]>> /\ u[1] = i /\ u[2] \in DOMAIN prog.stmts[u[1]].runs
        BY <1>1 DEF Uses
      <4>. QED
        BY <4>1
    <3>. QED
      BY <3>5, <3>6, FS_Subset
  <2>. QED
    BY <2>1, <2>2
<1>. QED
  BY <1>1, <1>2, LeftOfUses, FS_Subset

\* The call the program is at is a use to come.
LEMMA AtUse ==
  ASSUME TypeInv, pc["executor"] \in InCall \/ HookTakes
  PROVE  <<next, nth>> \in UsesLeft(CurrentKey) /\ CurrentKey \in Keys
<1>1. next \in 1 .. Last /\ nth \in DOMAIN Current.runs /\ nth \in Nat \ {0}
  <2>1. next \in 1 .. Last /\ nth \in Nat \ {0}
    BY ProgramType DEF TypeInv, TypeOK, PlaceInv, ProgressOK, TextOK, InStatement, InCall,
       ExecutorLabels, HookTakes
  <2>2. Current.runs \in Seq(Keys)
    BY <2>1, ProgramType DEF TypeInv, Current
  <2>. QED
    BY <2>1, <2>2 DEF TypeInv, PlaceInv, HookTakes
<1>2. <<next, nth>> \in Uses(CurrentKey) /\ ToCome(<<next, nth>>)
  BY <1>1 DEF Uses, ToCome, CurrentKey, Current
<1>3. Current.runs \in Seq(Keys)
  BY <1>1, ProgramType DEF TypeInv, Current
<1>. QED
  BY <1>1, <1>2, <1>3, LeftOfUses DEF CurrentKey

\* A step takes from the uses to come at most the one the program was in.
LEMMA UsesGo ==
  ASSUME TypeInv, [Next]_vars, NEW k
  PROVE  \/ UsesLeft(k)' = UsesLeft(k) /\ (pc'["executor"] \in InCall =>
              HookTakes \/ (pc["executor"] \in InCall /\ UNCHANGED CurrentKey))
         \/ /\ UsesLeft(k)' = UsesLeft(k) /\ pc'["executor"] \notin InCall
         \/ /\ k = CurrentKey /\ pc["executor"] \in InCall /\ pc'["executor"] \notin InCall
            /\ UsesLeft(k)' = UsesLeft(k) \ {<<next, nth>>}
<1>1. prog' = prog /\ Last' = Last /\ Uses(k)' = Uses(k) /\ TypeInv'
  BY Monotone, TypeStep DEF Last, Uses
<1>2. UsesLeft(k)' = {u \in Uses(k) : ToCome(u)'}
  <2>1. next' \in Nat \ {0} /\ nth' \in Nat \ {0} /\ Last' \in Nat
    BY <1>1, ProgramType DEF TypeInv, TypeOK, ProgressOK
  <2>2. \A i \in 1 .. Last : DOMAIN prog.stmts[i].runs \subseteq Nat \ {0}
    BY ProgramType DEF TypeInv
  <2>3. ASSUME NEW u \in UsesLeft(k)' PROVE u \in Uses(k) /\ ToCome(u)'
    <3>1. PICK i \in next' .. Last : u \in {i} \X UsesIn(i, k)'
      BY <1>1 DEF UsesLeft
    <3>2. u = <<i, u[2]>> /\ u[2] \in UsesIn(i, k)' /\ i \in 1 .. Last
      BY <1>1, <2>1, <3>1
    <3>. QED
      BY <1>1, <2>1, <2>2, <3>2 DEF UsesIn, Uses, ToCome
  <2>4. ASSUME NEW u \in Uses(k), ToCome(u)' PROVE u \in UsesLeft(k)'
    <3>1. u[1] \in next' .. Last /\ u[2] \in UsesIn(u[1], k)' /\ u = <<u[1], u[2]>>
      BY <1>1, <2>1, <2>4 DEF Uses, ToCome, UsesIn
    <3>. QED
      BY <1>1, <3>1 DEF UsesLeft
  <2>. QED
    BY <2>3, <2>4
<1>3. UsesLeft(k) = {u \in Uses(k) : ToCome(u)}
  BY LeftOfUses
<1>4. ASSUME UNCHANGED <<next, nth>> PROVE UsesLeft(k)' = UsesLeft(k) /\ UNCHANGED CurrentKey
  BY <1>1, <1>2, <1>3, <1>4 DEF ToCome, CurrentKey, Current
<1>5. ASSUME nth' = nth + 1, UNCHANGED next, pc["executor"] \in InCall
      PROVE  IF k = CurrentKey THEN UsesLeft(k)' = UsesLeft(k) \ {<<next, nth>>}
                               ELSE UsesLeft(k)' = UsesLeft(k)
  <2>1. nth \in Nat
    BY DEF TypeInv, TypeOK, ProgressOK
  <2>2. \A u \in Uses(k) : u = <<u[1], u[2]>> /\ u[2] \in Nat
    BY DEF Uses
  <2>3. <<next, nth>> \in Uses(k) => k = CurrentKey
    BY DEF Uses, CurrentKey, Current
  <2>4. ASSUME NEW u \in Uses(k) PROVE ToCome(u)' <=> ToCome(u) /\ u # <<next, nth>>
    <3>1. u # <<next, nth>> <=> u[1] # next \/ u[2] # nth
      BY <2>2
    <3>2. u[1] \in Nat /\ u[2] \in Nat /\ next \in Nat
      BY DEF Uses, TypeInv, TypeOK, ProgressOK
    <3>. QED
      BY <1>5, <2>1, <3>1, <3>2 DEF ToCome
  <2>. QED
    BY <1>2, <1>3, <2>3, <2>4
<1>. USE DEF TypeInv, TypeOK, ThreadsOK, Threads, Goto
<1>6. CASE Stream \/ Planner \/ Environment \/ TurnOver \/ UNCHANGED vars
  BY <1>4, <1>6, ExecutorAlone DEF execution
<1>7. CASE BetweenStep \/ PointStep
  BY <1>4, <1>7 DEF BetweenStep, PointStep, Between, InCall
<1>8. CASE ExecutorFinishes
  <2>1. next' = next + 1 /\ nth' = 1 /\ nth > Len(Current.runs) /\ pc'["executor"] = "take"
    BY <1>8 DEF ExecutorFinishes
  <2>2. next \in 1 .. Last /\ nth \in Nat
    BY <1>8, ProgramType DEF ExecutorFinishes, PlaceInv, ProgressOK, TextOK, InStatement, ExecutorLabels
  <2>3. DOMAIN Current.runs = 1 .. Len(Current.runs) /\ Len(Current.runs) \in Nat
    BY <2>2, ProgramType DEF Current
  <2>4. \A u \in Uses(k) : u[1] \in Nat /\ u[2] \in Nat \ {0} /\ (u[1] = next => u[2] < nth)
    BY <2>1, <2>2, <2>3 DEF Uses, Current
  <2>5. \A u \in Uses(k) : ToCome(u)' <=> ToCome(u)
    BY <2>1, <2>2, <2>4 DEF ToCome
  <2>. QED
    BY <1>2, <1>3, <2>1, <2>5 DEF InCall
<1>9. CASE ExecutorFails \/ ExecutorLeaves
  BY <1>4, <1>9 DEF ExecutorFails, ExecutorLeaves, Dies, InCall
<1>10. CASE HookCannotAsk \/ HookAborts \/ HookReturns
  <2>1. /\ pc["executor"] \in InCall /\ pc'["executor"] \notin InCall /\ UNCHANGED next
        /\ UNCHANGED nth \/ nth' = nth + 1
    BY <1>10 DEF HookCannotAsk, HookAborts, HookReturns, Raises, Dies, InCall
  <2>. QED
    BY <1>4, <1>5, <2>1
<1>. QED
  BY <1>6, <1>7, <1>8, <1>9, <1>10, ExecutorPlaces, Zenon DEF Next

\* What a step adds to the early results is one call that planning starts.
LEMMA ReadySteps ==
  ASSUME TypeInv, [Next]_vars, NEW k
  PROVE  \/ \E p \in Threads : PlanStarts(p)
         \/ ReadyOf(k)' \subseteq ReadyOf(k)
<1>1. \A c \in ready : calls'[c].key = calls[c].key
  BY LogGrows, IdsType
<1>2. CASE UNCHANGED <<launched, mine, results>>
  BY <1>1, <1>2 DEF ReadyOf, launched
<1>3. CASE EndTurn \/ HookRunsAlone
  BY <1>3 DEF EndTurn, HookRunsAlone, ReadyAfterDrop, ReadyOf
<1>4. CASE PoolBegins \/ ToolEnds
  <2>1. UNCHANGED ready
    BY <1>4, Zenon DEF PoolBegins, ToolEnds
  <2>. QED
    BY <1>1, <2>1 DEF ReadyOf
<1>5. CASE HookTakes \/ HookDecides \/ HookReturns
  <2>1. ready' \subseteq ready
    BY <1>5 DEF HookTakes, HookDecides, HookReturns, ReadyAfterTaking, launched
  <2>. QED
    BY <1>1, <2>1 DEF ReadyOf
<1>. QED
  BY <1>2, <1>3, <1>4, <1>5, LogSteps
\* The planned uses of a call are as many as the uses, at most.
LEMMA EntriesBound ==
  ASSUME TypeInv, Foreseen, NEW S \in SUBSET PlanEntry, NEW k,
         \A e \in S : <<e.stmt, e.nth>> \in Uses(e.key)
  PROVE  IsFiniteSet(Entries(S, k)) /\ Cardinality(Entries(S, k)) <= Cardinality(Uses(k))
<1>. DEFINE f == [e \in Entries(S, k) |-> <<e.stmt, e.nth>>]
<1>1. f \in [Entries(S, k) -> Uses(k)]
  BY DEF Entries
<1>2. \A d, e \in Entries(S, k) : f[d] = f[e] => d = e
  BY DEF Entries, PlanEntry
<1>. HIDE DEF f
<1>3. f \in Injection(Entries(S, k), Uses(k))
  BY <1>1, <1>2 DEF Injection, IsInjective
<1>. QED
  BY <1>3, UsesInOne, FS_Injection

\* The steps that change a plan, or count what it has started.
LEMMA PlanSteps ==
  ASSUME TypeInv, [Next]_vars
  PROVE  \/ UNCHANGED <<plan, wanted>>
         \/ \E p \in Threads : PlanLooks(p) \/ PlanStarts(p) \/ PlanStops(p) \/ PlanFails(p)
<1>. USE DEF planning
<1>1. CASE Stream
  BY <1>1 DEF Stream, Feed, StreamBreaks, EndOfText, EndTurn
<1>2. CASE PlannerWakes \/ PlannerReads \/ PlannerCommits \/ PlannerLooks
           \/ PlannerRests \/ PlannerLeaves \/ PlannerCleansUp \/ PlannerExits
  BY <1>2 DEF PlannerWakes, PlannerReads, PlannerCommits, PlannerLooks, PlannerRests,
     PlannerLeaves, PlannerCleansUp, PlannerExits
<1>3. ASSUME NEW p \in Threads, PlanAhead(p)
      PROVE  \/ UNCHANGED <<plan, wanted>>
             \/ PlanLooks(p) \/ PlanStarts(p) \/ PlanStops(p) \/ PlanFails(p)
  BY <1>3, Zenon DEF PlanAhead, PlanSkipped, PlanCannotAsk
<1>4. CASE PlanAhead("planner") \/ PlanAhead("executor")
  BY <1>3, <1>4, Zenon DEF Threads
<1>5. CASE ExecutorTakes \/ ExecutorGate \/ ExecutorChecks \/ ExecutorRuns \/ ExecutorFinishes
           \/ ExecutorFails \/ ExecutorLeaves
  BY <1>5 DEF ExecutorTakes, ExecutorGate, ExecutorChecks, ExecutorRuns, ExecutorFinishes,
     ExecutorFails, ExecutorLeaves
<1>6. CASE HookTakes \/ HookAsks \/ HookCannotAsk \/ HookAnswered \/ HookReleased
           \/ HookPasses \/ HookAborts \/ HookDecides \/ HookRunsAlone \/ HookReturns
  BY <1>6 DEF HookTakes, HookAsks, HookCannotAsk, HookAnswered, HookReleased, HookPasses,
     HookAborts, HookDecides, HookRunsAlone, HookReturns
<1>7. CASE Environment
  BY <1>7, Zenon DEF Environment, PoolBegins, ToolEnds, JudgeAnswers
<1>8. CASE TurnOver \/ UNCHANGED vars
  BY <1>8 DEF TurnOver, vars
<1>. QED
  BY <1>1, <1>2, <1>4, <1>5, <1>6, <1>7, <1>8, Zenon DEF Next, Planner, Executor

\* A look ahead finds uses of the program; the executor finds those of its own
\* statement.
LEMMA LooksAtUses ==
  ASSUME TypeInv, Foreseen, NEW p \in Threads, PlanLooks(p)
  PROVE  /\ plan' = [plan EXCEPT ![p] = CallsAhead(From(p), p = "executor")]
         /\ CallsAhead(From(p), p = "executor") \subseteq PlanEntry
         /\ \A e \in CallsAhead(From(p), p = "executor") :
              /\ <<e.stmt, e.nth>> \in Uses(e.key)
              /\ p = "executor" => e.stmt = next
<1>1. From(p) \in Nat \ {0} /\ (p = "executor" => From(p) = next)
  BY DEF From, Threads, TypeInv, TypeOK, ProgressOK, PlanningOK
<1>2. ASSUME NEW e \in CallsAhead(From(p), p = "executor")
      PROVE  /\ <<e.stmt, e.nth>> \in Uses(e.key)
             /\ p = "executor" => e.stmt = next
  <2>0. PICK i \in Ahead(From(p), p = "executor") :
          e \in {[stmt |-> i, nth |-> n, key |-> Visible(i)[n].key] : n \in Planned(i)}
    BY DEF CallsAhead
  <2>1. PICK n \in Planned(i) : e = [stmt |-> i, nth |-> n, key |-> Visible(i)[n].key]
    BY <2>0
  <2>2. i \in 1 .. Last /\ n \in DOMAIN Visible(i)
    BY <1>1, <2>1, ProgramType DEF Ahead, Planned, TypeInv, TypeOK, TextOK
  <2>3. /\ prog.stmts[i].draft = << >>
        /\ prog.stmts[i].runs = [m \in DOMAIN prog.stmts[i].seen |-> prog.stmts[i].seen[m].key]
    <3>1. i \in DOMAIN prog.stmts
      BY <2>2, ProgramType, LenProperties DEF Last, TypeInv
    <3>. QED
      BY <3>1, Zenon DEF Foreseen
  <2>4. Visible(i) = prog.stmts[i].seen /\ n \in Nat \ {0}
    <3>1. Visible(i) = prog.stmts[i].seen
      BY <2>2, <2>3 DEF Visible
    <3>2. prog.stmts[i].seen \in Seq(SeenCall)
      BY <2>2, ProgramType DEF TypeInv
    <3>. QED
      BY <2>2, <3>1, <3>2
  <2>5. <<i, n>> \in Uses(Visible(i)[n].key)
    BY <2>2, <2>3, <2>4 DEF Uses
  <2>6. ASSUME p = "executor" PROVE i = next
    <3>1. pc["executor"] = "ahead" /\ next <= closed
      BY <2>6 DEF PlanLooks, TypeInv, PlaceInv, InStatement, ExecutorLabels
    <3>2. next \in Nat /\ closed \in Nat
      BY DEF TypeInv, TypeOK, TextOK, ProgressOK
    <3>3. i \in Ahead(next, TRUE)
      BY <1>1, <2>1, <2>6
    <3>. QED
      BY <3>1, <3>2, <3>3 DEF Ahead
  <2>. QED
    BY <2>1, <2>5, <2>6
<1>3. CallsAhead(From(p), p = "executor") \subseteq PlanEntry
  <2>1. (p = "executor") \in BOOLEAN
    OBVIOUS
  <2>. QED
    BY <1>1, <2>1, CallsAheadType DEF TypeInv
<1>4. plan' = [plan EXCEPT ![p] = CallsAhead(From(p), p = "executor")]
  BY Zenon DEF PlanLooks
<1>. QED
  BY <1>2, <1>3, <1>4

LEMMA RunningStep ==
  ASSUME TypeInv, RunningInv, [Next]_vars
  PROVE  RunningInv'
<1>. USE DEF TypeInv, TypeOK, ThreadsOK, Threads, Goto
<1>1. CASE Stream \/ Planner \/ Environment \/ TurnOver \/ UNCHANGED vars
  BY <1>1, ExecutorAlone DEF execution, RunningInv
<1>2. CASE BetweenStep \/ PointStep
  BY <1>2 DEF BetweenStep, PointStep, RunningInv, Between, InCall
<1>3. CASE ExecutorFinishes \/ ExecutorFails \/ ExecutorLeaves
  BY <1>3 DEF ExecutorFinishes, ExecutorFails, ExecutorLeaves, Dies, RunningInv, Between, InCall,
     execution
<1>4. CASE HookCannotAsk \/ HookAborts \/ HookReturns
  <2>1. /\ UNCHANGED running /\ pc["executor"] \in InCall /\ pc'["executor"] \in {"code", "done"}
    BY <1>4 DEF HookCannotAsk, HookAborts, HookReturns, Raises, Dies, InCall
  <2>. QED
    BY <2>1 DEF RunningInv, Between, InCall
<1>. QED
  BY <1>1, <1>2, <1>3, <1>4, ExecutorPlaces, Zenon DEF Next

LEMMA PlanInvStep ==
  ASSUME TypeInv, Foreseen, PlanInv, [Next]_vars
  PROVE  PlanInv'
<1>1. prog' = prog /\ \A k : Uses(k)' = Uses(k)
  BY Monotone DEF Uses, Last
<1>2. plan \in [Threads -> SUBSET PlanEntry] /\ "executor" \in Threads
  BY DEF TypeInv, TypeOK, PlanningOK, Threads
<1>. USE <1>1, <1>2
<1>3. CASE UNCHANGED <<plan, wanted>>
  <2>1. plan["executor"] # {} => pc'["executor"] = "plan" /\ UNCHANGED next
    <3>1. CASE Stream \/ Planner \/ Environment \/ TurnOver \/ UNCHANGED vars
      BY <3>1, ExecutorAlone DEF execution, PlanInv
    <3>2. CASE PlanAhead("executor")
      <4>1. ASSUME plan["executor"] # {} PROVE FALSE
        <5>1. pc["executor"] = "plan"
          BY <4>1 DEF PlanInv
        <5>2. PlanStarts("executor") \/ PlanStops("executor") \/ PlanFails("executor")
          BY <3>2, <5>1 DEF PlanAhead, PlanSkipped, PlanLooks, PlanCannotAsk
        <5>3. PICK e \in plan["executor"] : plan' = [plan EXCEPT !["executor"] = @ \ {e}]
                                            \/ plan' = [plan EXCEPT !["executor"] = {}]
          BY <4>1, <5>2, Zenon DEF PlanStarts, PlanStops, PlanFails
        <5>. QED
          BY <1>3, <5>3
      <4>. QED
        BY <4>1
    <3>3. CASE ~PlanAhead("executor") /\ Executor
      BY <3>3 DEF PlanInv, Executor, ExecutorTakes, ExecutorGate, ExecutorChecks, ExecutorRuns,
         ExecutorFinishes, ExecutorFails, ExecutorLeaves, HookTakes, HookAsks, HookCannotAsk,
         HookAnswered, HookReleased, HookPasses, HookAborts, HookDecides, HookRunsAlone,
         HookReturns
    <3>. QED
      BY <3>1, <3>2, <3>3, Zenon DEF Next
  <2>. QED
    BY <1>3, <2>1 DEF PlanInv
<1>4. ASSUME NEW p \in Threads, PlanLooks(p)
      PROVE  PlanInv'
  <2>. DEFINE found == CallsAhead(From(p), p = "executor")
  <2>1. /\ plan' = [plan EXCEPT ![p] = found] /\ UNCHANGED next
        /\ \A e \in found : /\ <<e.stmt, e.nth>> \in Uses(e.key)
                            /\ p = "executor" => e.stmt = next
    BY <1>4, LooksAtUses DEF PlanLooks, execution
  <2>2. IF p = "executor" THEN pc'["executor"] = "plan" ELSE pc'["executor"] = pc["executor"]
    BY <1>4 DEF PlanLooks, Goto, TypeInv, TypeOK, ThreadsOK, Threads
  <2>. HIDE DEF found
  <2>. QED
    BY <2>1, <2>2 DEF PlanInv
<1>5. ASSUME NEW p \in Threads, PlanStarts(p)
      PROVE  PlanInv'
  <2>1. PICK e \in plan[p] : plan' = [plan EXCEPT ![p] = @ \ {e}]
    BY <1>5, Zenon DEF PlanStarts
  <2>2. UNCHANGED <<next, pc>>
    BY <1>5, Zenon DEF PlanStarts, execution
  <2>. QED
    BY <2>1, <2>2 DEF PlanInv
<1>6. ASSUME NEW p \in Threads, PlanStops(p) \/ PlanFails(p)
      PROVE  PlanInv'
  <2>1. plan' = [plan EXCEPT ![p] = {}] /\ UNCHANGED next
    BY <1>6, Zenon DEF PlanStops, PlanFails, execution
  <2>2. p # "executor" => pc'["executor"] = pc["executor"]
    BY <1>6 DEF PlanStops, PlanFails, Goto, TypeInv, TypeOK, ThreadsOK, Threads
  <2>. QED
    BY <2>1, <2>2 DEF PlanInv
<1>. QED
  BY <1>3, <1>4, <1>5, <1>6, PlanSteps, Zenon

LEMMA WantedStep ==
  ASSUME TypeInv, Foreseen, PlanInv, WantedInv, [Next]_vars
  PROVE  WantedInv'
<1>1. prog' = prog /\ \A k : Uses(k)' = Uses(k)
  BY Monotone DEF Uses, Last
<1>2. /\ plan \in [Threads -> SUBSET PlanEntry] /\ wanted \in [Threads -> [Keys -> Nat]]
      /\ \A p \in Threads, k \in Keys :
           IsFiniteSet(Entries(plan[p], k)) /\ Cardinality(Entries(plan[p], k)) \in Nat
  <2>1. plan \in [Threads -> SUBSET PlanEntry] /\ wanted \in [Threads -> [Keys -> Nat]]
    BY DEF TypeInv, TypeOK, PlanningOK
  <2>2. ASSUME NEW p \in Threads, NEW k \in Keys PROVE IsFiniteSet(Entries(plan[p], k))
    <3>1. plan[p] \in SUBSET PlanEntry /\ \A e \in plan[p] : <<e.stmt, e.nth>> \in Uses(e.key)
      BY <2>1 DEF PlanInv
    <3>. QED
      BY <3>1, EntriesBound
  <2>. QED
    BY <2>1, <2>2, FS_CardinalityType
<1>3. \A k : Cardinality(Uses(k)) \in Nat
  BY UsesInOne, FS_CardinalityType
<1>. USE <1>1, <1>2
<1>4. CASE UNCHANGED <<plan, wanted>>
  BY <1>4 DEF WantedInv
<1>5. ASSUME NEW p \in Threads, PlanLooks(p)
      PROVE  WantedInv'
  <2>. DEFINE found == CallsAhead(From(p), p = "executor")
  <2>1. /\ plan' = [plan EXCEPT ![p] = found] /\ found \in SUBSET PlanEntry
        /\ \A e \in found : <<e.stmt, e.nth>> \in Uses(e.key)
    BY <1>5, LooksAtUses
  <2>2. wanted' = [wanted EXCEPT ![p] = [k \in Keys |-> 0]]
    BY <1>5, Zenon DEF PlanLooks
  <2>. HIDE DEF found
  <2>3. \A k \in Keys : /\ IsFiniteSet(Entries(found, k))
                        /\ Cardinality(Entries(found, k)) <= Cardinality(Uses(k))
    BY <2>1, EntriesBound
  <2>4. \A k \in Keys : Cardinality(Entries(found, k)) \in Nat
    BY <2>3, FS_CardinalityType
  <2>. QED
    BY <1>3, <2>1, <2>2, <2>3, <2>4 DEF WantedInv
<1>6. ASSUME NEW p \in Threads, PlanStarts(p)
      PROVE  WantedInv'
  <2>1. PICK e \in plan[p] :
          /\ plan' = [plan EXCEPT ![p] = @ \ {e}]
          /\ UNCHANGED wanted \/ wanted' = [wanted EXCEPT ![p][e.key] = @ + 1]
    BY <1>6, Zenon DEF PlanStarts
  <2>2. e.key \in Keys
    BY DEF PlanEntry
  <2>3. ASSUME NEW q \in Threads, NEW k \in Keys
        PROVE  wanted'[q][k] + Cardinality(Entries(plan'[q], k)) <= Cardinality(Uses(k))
    <3>1. CASE q = p /\ k = e.key
      <4>1. Entries(plan'[q], k) = Entries(plan[q], k) \ {e} /\ e \in Entries(plan[q], k)
        BY <2>1, <3>1 DEF Entries
      <4>2. Cardinality(Entries(plan'[q], k)) = Cardinality(Entries(plan[q], k)) - 1
        <5>. DEFINE S == Entries(plan[q], k)
        <5>1. IsFiniteSet(S) /\ Entries(plan'[q], k) = S \ {e} /\ e \in S
          BY <4>1
        <5>. HIDE DEF S
        <5>2. Cardinality(S \ {e}) = Cardinality(S) - 1
          BY <5>1, FS_RemoveElement
        <5>. QED
          BY <5>1, <5>2 DEF S
      <4>3. wanted'[q][k] \in {wanted[q][k], wanted[q][k] + 1}
        BY <2>1, <2>2, <3>1
      <4>. QED
        BY <1>3, <4>2, <4>3 DEF WantedInv
    <3>2. CASE ~(q = p /\ k = e.key)
      <4>1. Entries(plan'[q], k) = Entries(plan[q], k)
        BY <2>1, <3>2 DEF Entries
      <4>2. wanted'[q][k] = wanted[q][k]
        BY <2>1, <2>2, <3>2
      <4>. QED
        BY <4>1, <4>2 DEF WantedInv
    <3>. QED
      BY <3>1, <3>2
  <2>. QED
    BY <2>3 DEF WantedInv
<1>7. ASSUME NEW p \in Threads, PlanStops(p) \/ PlanFails(p)
      PROVE  WantedInv'
  <2>1. plan' = [plan EXCEPT ![p] = {}] /\ UNCHANGED wanted
    BY <1>7, Zenon DEF PlanStops, PlanFails
  <2>2. \A k : Cardinality(Entries({}, k)) = 0
    <3>1. \A k : Entries({}, k) = {}
      BY DEF Entries
    <3>. QED
      BY <3>1, FS_EmptySet
  <2>. QED
    BY <1>3, <2>1, <2>2 DEF WantedInv
<1>. QED
  BY <1>4, <1>5, <1>6, <1>7, PlanSteps, Zenon
\* The early results of a call are finitely many.
LEMMA ReadyFinite ==
  ASSUME TypeInv, NEW k
  PROVE  IsFiniteSet(ReadyOf(k)) /\ Cardinality(ReadyOf(k)) \in Nat
<1>1. IsFiniteSet(Ids)
  BY IdsType, FS_Interval DEF Ids
<1>2. ReadyOf(k) \subseteq Ids
  BY IdsType DEF ReadyOf
<1>. QED
  BY <1>1, <1>2, FS_Subset, FS_CardinalityType

\* A call that planning starts has a use that no early result is for: all its
\* uses are to come, and fewer results wait than were gone through.
LEMMA StartsForUse ==
  ASSUME TypeInv, Foreseen, SpareParts, [Next]_vars, NEW p \in Threads, PlanStarts(p),
         NEW k \in Keys
  PROVE  Cardinality(ReadyOf(k)') + Underway(k)' <= Cardinality(UsesLeft(k)')
<1>1. PICK e \in plan[p] :
        /\ IsNext(p, e)
        /\ \/ UNCHANGED <<calls, ready>>
           \/ /\ ~Passed(p, e) /\ Cardinality(ReadyOf(e.key)) <= wanted[p][e.key]
              /\ calls' = Start(e.key, "early", "queued")
              /\ ready' = ready \cup {Len(calls) + 1}
  BY Zenon DEF PlanStarts
<1>2. UNCHANGED <<prog, next, nth, running, pc>>
  BY Zenon DEF PlanStarts, execution
<1>3. UsesLeft(k)' = UsesLeft(k) /\ Underway(k)' = Underway(k)
  BY <1>2 DEF UsesLeft, UsesIn, Underway, CurrentKey, Current, Last
<1>4. CASE UNCHANGED <<calls, ready>>
  BY <1>3, <1>4 DEF ReadyOf, SpareParts, SpareInv
<1>5. CASE /\ ~Passed(p, e) /\ Cardinality(ReadyOf(e.key)) <= wanted[p][e.key]
           /\ calls' = Start(e.key, "early", "queued")
           /\ ready' = ready \cup {Len(calls) + 1}
  <2>1. /\ Len(calls) \in Nat /\ ready \subseteq Ids /\ calls'[Len(calls) + 1].key = e.key
        /\ \A c \in Ids : calls'[c] = calls[c] /\ c < Len(calls) + 1
    <3>. DEFINE call == [key |-> e.key, how |-> "early", state |-> "queued"]
    <3>1. calls' = Append(calls, call)
      BY <1>5 DEF Start
    <3>2. calls'[Len(calls) + 1] = call /\ \A c \in Ids : calls'[c] = calls[c] /\ c < Len(calls) + 1
      BY <3>1, Appended
    <3>. QED
      BY <3>2, IdsType
  <2>2. CASE k # e.key
    <3>1. ReadyOf(k)' = ReadyOf(k)
      BY <1>5, <2>1, <2>2 DEF ReadyOf
    <3>. QED
      BY <1>3, <3>1 DEF SpareParts, SpareInv
  <2>3. CASE k = e.key
    <3>1. ReadyOf(k)' = ReadyOf(k) \cup {Len(calls) + 1}
      BY <1>5, <2>1, <2>3 DEF ReadyOf
    <3>2. Cardinality(ReadyOf(k)') <= Cardinality(ReadyOf(k)) + 1
      <4>. DEFINE S == ReadyOf(k)
                  n == Len(calls) + 1
      <4>1. IsFiniteSet(S) /\ Cardinality(S) \in Nat /\ ReadyOf(k)' = S \cup {n}
        BY <3>1, ReadyFinite
      <4>. HIDE DEF S, n
      <4>2. Cardinality(S \cup {n}) \in {Cardinality(S), Cardinality(S) + 1}
        BY <4>1, FS_AddElement
      <4>3. Cardinality(ReadyOf(k)') <= Cardinality(S) + 1
        BY <4>1, <4>2
      <4>. QED
        BY <4>3 DEF S
    <3>3. <<e.stmt, e.nth>> \in Uses(k)
      BY <2>3 DEF SpareParts, PlanInv
    <3>4. /\ next < e.stmt \/ (next = e.stmt /\ ~running /\ nth = 1)
          /\ next \in Nat /\ e.stmt \in Nat
      <4>1. next \in Nat /\ e.stmt \in Nat
        BY <3>3 DEF Uses, TypeInv, TypeOK, ProgressOK
      <4>2. CASE p = "planner"
        <5>1. e.stmt >= next + (IF running THEN 1 ELSE 0)
          BY <1>5, <4>1, <4>2 DEF Passed
        <5>. QED
          BY <4>1, <5>1 DEF SpareParts, RunningInv
      <4>3. CASE p = "executor"
        BY <1>1, <4>1, <4>3 DEF IsNext, SpareParts, PlanInv, RunningInv, Between
      <4>. QED
        BY <4>2, <4>3 DEF Threads
    <3>5. UsesLeft(k) = Uses(k)
      <4>1. ASSUME NEW u \in Uses(k) PROVE u[1] = e.stmt /\ u[2] \in Nat \ {0}
        <5>1. u[1] = <<e.stmt, e.nth>>[1]
          BY <3>3, UsesInOne
        <5>2. u[2] \in Nat \ {0}
          BY DEF Uses
        <5>. QED
          BY <5>1, <5>2
      <4>2. \A u \in Uses(k) : ToCome(u)
        BY <3>4, <4>1 DEF ToCome
      <4>. QED
        BY <4>2, LeftOfUses
    <3>6. Underway(k) = 0
      <4>1. ASSUME pc["executor"] \in InCall, k = CurrentKey PROVE FALSE
        <5>1. running
          BY <4>1 DEF SpareParts, RunningInv
        <5>2. <<next, nth>> \in Uses(k)
          BY <4>1, AtUse, LeftOfUses
        <5>3. e.stmt = next
          BY <3>3, <5>2, UsesInOne
        <5>. QED
          BY <3>4, <5>1, <5>3
      <4>. QED
        BY <4>1 DEF Underway
    <3>7. wanted[p][k] + 1 <= Cardinality(Uses(k))
      <4>1. wanted[p][k] + Cardinality(Entries(plan[p], k)) <= Cardinality(Uses(k))
        BY DEF SpareParts, WantedInv
      <4>2. plan[p] \in SUBSET PlanEntry /\ wanted[p][k] \in Nat
        BY DEF TypeInv, TypeOK, PlanningOK
      <4>3. IsFiniteSet(Entries(plan[p], k))
        BY <4>2, EntriesBound DEF SpareParts, PlanInv
      <4>4. e \in Entries(plan[p], k)
        BY <2>3 DEF Entries
      <4>5. Cardinality(Entries(plan[p], k)) \in Nat /\ Cardinality(Entries(plan[p], k)) # 0
        BY <4>3, <4>4, FS_CardinalityType, FS_EmptySet
      <4>6. Cardinality(Uses(k)) \in Nat
        BY UsesInOne, FS_CardinalityType
      <4>. QED
        BY <4>1, <4>2, <4>5, <4>6
    <3>8. /\ Cardinality(Uses(k)) \in Nat /\ Cardinality(ReadyOf(k)) \in Nat
          /\ Cardinality(ReadyOf(k)') \in Nat /\ wanted[p][k] \in Nat
      <4>1. IsFiniteSet(ReadyOf(k)')
        BY <3>1, ReadyFinite, FS_AddElement
      <4>. QED
        BY <4>1, UsesInOne, ReadyFinite, FS_CardinalityType DEF TypeInv, TypeOK, PlanningOK
    <3>. QED
      BY <1>3, <1>5, <2>3, <3>2, <3>5, <3>6, <3>7, <3>8
  <2>. QED
    BY <2>2, <2>3
<1>. QED
  BY <1>1, <1>4, <1>5

LEMMA SpareStep ==
  ASSUME TypeInv, Foreseen, SpareParts, [Next]_vars
  PROVE  SpareInv'
<1>. SUFFICES ASSUME NEW k \in Keys
              PROVE  Cardinality(ReadyOf(k)') + Underway(k)' <= Cardinality(UsesLeft(k)')
  BY DEF SpareInv
<1>1. CASE \E p \in Threads : PlanStarts(p)
  BY <1>1, StartsForUse
<1>2. CASE ReadyOf(k)' \subseteq ReadyOf(k)
  <2>1. /\ Cardinality(ReadyOf(k)') <= Cardinality(ReadyOf(k))
        /\ IsFiniteSet(ReadyOf(k)') /\ Cardinality(ReadyOf(k)') \in Nat
        /\ Cardinality(ReadyOf(k)) \in Nat
    BY <1>2, ReadyFinite, FS_Subset, FS_CardinalityType
  <2>2. IsFiniteSet(UsesLeft(k)) /\ Cardinality(UsesLeft(k)) \in Nat
    BY UsesInOne, FS_CardinalityType
  <2>3. Cardinality(ReadyOf(k)) + Underway(k) <= Cardinality(UsesLeft(k))
    BY DEF SpareParts, SpareInv
  <2>4. Underway(k) \in {0, 1} /\ Underway(k)' \in {0, 1}
    BY DEF Underway
  <2>5. CASE UsesLeft(k)' = UsesLeft(k) /\ pc'["executor"] \notin InCall
    BY <2>1, <2>2, <2>3, <2>4, <2>5 DEF Underway
  <2>6. CASE /\ UsesLeft(k)' = UsesLeft(k)
             /\ pc["executor"] \in InCall /\ UNCHANGED CurrentKey
    <3>1. Underway(k)' <= Underway(k)
      BY <2>6 DEF Underway
    <3>. QED
      BY <2>1, <2>2, <2>3, <2>4, <2>6, <3>1
  <2>7. CASE UsesLeft(k)' = UsesLeft(k) /\ HookTakes
    <3>1. UNCHANGED CurrentKey /\ pc["executor"] \notin InCall
      BY <2>7 DEF HookTakes, CurrentKey, Current, InCall
    <3>2. CASE k # CurrentKey
      BY <2>1, <2>2, <2>3, <2>4, <2>7, <3>1, <3>2 DEF Underway
    <3>3. CASE k = CurrentKey /\ ReadyOf(k) = {}
      <4>1. UsesLeft(k) # {}
        BY <2>7, <3>3, AtUse
      <4>2. Cardinality(UsesLeft(k)) # 0
        BY <2>2, <4>1, FS_EmptySet
      <4>3. Cardinality(ReadyOf(k)') = 0
        BY <1>2, <3>3, FS_EmptySet
      <4>. QED
        BY <2>2, <2>4, <2>7, <4>2, <4>3
    <3>4. CASE k = CurrentKey /\ ReadyOf(k) # {}
      <4>1. mine' \in ReadyOf(k) /\ ready' = ready \ {mine'} /\ calls' = calls
        BY <2>7, <3>4 DEF HookTakes, ReadyAfterTaking
      <4>2. ReadyOf(k)' = ReadyOf(k) \ {mine'}
        BY <4>1 DEF ReadyOf
      <4>3. Cardinality(ReadyOf(k)') = Cardinality(ReadyOf(k)) - 1
        BY <4>1, <4>2, ReadyFinite, FS_RemoveElement
      <4>. QED
        BY <2>1, <2>2, <2>3, <2>4, <2>7, <4>3
    <3>. QED
      BY <3>2, <3>3, <3>4
  <2>8. CASE /\ k = CurrentKey /\ pc["executor"] \in InCall /\ pc'["executor"] \notin InCall
             /\ UsesLeft(k)' = UsesLeft(k) \ {<<next, nth>>}
    <3>1. Underway(k) = 1 /\ Underway(k)' = 0
      BY <2>8 DEF Underway
    <3>2. <<next, nth>> \in UsesLeft(k)
      BY <2>8, AtUse
    <3>. DEFINE left == UsesLeft(k)
    <3>3. Cardinality(UsesLeft(k)') = Cardinality(left) - 1
      <4>1. left \in {left} /\ IsFiniteSet(left) /\ <<next, nth>> \in left /\ UsesLeft(k)' = left \ {<<next, nth>>}
        BY <2>2, <2>8, <3>2
      <4>. HIDE DEF left
      <4>2. Cardinality(left \ {<<next, nth>>}) = Cardinality(left) - 1
        BY <4>1, FS_RemoveElement
      <4>. QED
        BY <4>1, <4>2
    <3>. QED
      BY <2>1, <2>2, <2>3, <3>1, <3>3
  <2>. QED
    BY <2>5, <2>6, <2>7, <2>8, UsesGo
<1>. QED
  BY <1>1, <1>2, ReadySteps

LEMMA SpareInit == Init /\ Foreseen => SpareParts
<1>. SUFFICES ASSUME Init, Foreseen PROVE SpareParts
  OBVIOUS
<1>1. /\ ready = {} /\ running = FALSE /\ nth = 1 /\ plan = [p \in Threads |-> {}]
      /\ wanted = [p \in Threads |-> [k \in Keys |-> 0]]
  BY Zenon DEF Init
<1>2. pc["executor"] = "take" /\ TypeInv
  BY TypeInit DEF Init
<1>3. \A k : /\ Cardinality(Uses(k)) \in Nat /\ Cardinality(UsesLeft(k)) \in Nat
             /\ Cardinality(ReadyOf(k)) = 0 /\ Cardinality(Entries({}, k)) = 0 /\ Underway(k) = 0
  <2>1. \A k : ReadyOf(k) = {} /\ Entries({}, k) = {} /\ Underway(k) = 0
    BY <1>1, <1>2 DEF ReadyOf, Entries, Underway, InCall
  <2>. QED
    BY <1>2, <2>1, UsesInOne, FS_CardinalityType, FS_EmptySet
<1>4. RunningInv
  BY <1>1, <1>2 DEF RunningInv, InCall
<1>5. PlanInv
  BY <1>1 DEF PlanInv, Threads
<1>6. WantedInv
  BY <1>1, <1>3 DEF WantedInv
<1>7. SpareInv
  BY <1>3 DEF SpareInv
<1>. QED
  BY <1>4, <1>5, <1>6, <1>7 DEF SpareParts

\* Where planning sees what the program does and no two statements make the same
\* call, no call is ever started more often than the program will still use it.
THEOREM NeverASpare == Spec => []NoSpareForeseen
<1>. DEFINE Inv == Foreseen => SpareParts
<1>1. Init => Inv
  BY SpareInit
<1>2. TypeInv /\ Inv /\ [Next]_vars => Inv'
  <2>. SUFFICES ASSUME TypeInv, Inv, [Next]_vars, Foreseen' PROVE SpareParts'
    OBVIOUS
  <2>1. Foreseen
    BY Monotone DEF Foreseen
  <2>. QED
    BY <2>1, RunningStep, PlanInvStep, WantedStep, SpareStep DEF SpareParts
<1>3. TypeInv /\ Inv => NoSpareForeseen
  <2>. SUFFICES ASSUME TypeInv, Inv, Foreseen, NEW k \in Keys
                PROVE  Cardinality(ReadyOf(k)) <= Cardinality(UsesLeft(k))
    BY DEF NoSpareForeseen, NoSpareStarts
  <2>1. Cardinality(ReadyOf(k)) + Underway(k) <= Cardinality(UsesLeft(k))
    BY DEF SpareParts, SpareInv
  <2>2. Cardinality(ReadyOf(k)) \in Nat /\ Cardinality(UsesLeft(k)) \in Nat
    BY ReadyFinite, UsesInOne, FS_CardinalityType
  <2>. QED
    BY <2>1, <2>2 DEF Underway
<1>. HIDE DEF Inv
<1>. QED
  BY <1>1, <1>2, <1>3, TypeCorrect, PTL DEF Spec
=============================================================================
