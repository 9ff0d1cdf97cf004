--------------------------- MODULE SpecTurnProofs ---------------------------
(***************************************************************************)
(* Theorems about SpecTurn, for every set of calls and programs, every     *)
(* pool size and every combination of faults.                              *)
(***************************************************************************)
EXTENDS SpecTurn, SequenceTheorems, FiniteSetTheorems, TLAPS

\* the labels at which the executor is inside statement `next`, and inside a
\* call of it
InStatement == ExecutorLabels \ {"take", "leave", "done"}
InCall == {"verdict", "answer", "hold", "abort", "decide", "lock", "await"}

\* What the planner last saw of the text is no newer than the text, and what
\* it has closed is no more than what it saw.
TextInv ==
  /\ woke.code <= code
  /\ woke.final => Final
  /\ closed <= Closed

\* The executor is inside a closed statement and at one of its calls, and has a
\* call in hand exactly while it waits for it.
PlaceInv ==
  /\ pc["executor"] \in InStatement => next <= closed
  /\ pc["executor"] \in InCall => nth \in DOMAIN Current.runs
  /\ pc["executor"] = "await" <=> mine # 0

TypeInv == TypeOK /\ TextInv /\ PlaceInv

-----------------------------------------------------------------------------

\* Every program of the model is a sequence of well-formed statements.
LEMMA ProgramType ==
  ASSUME TypeOK
  PROVE  /\ prog.stmts \in Seq(Stmt) /\ Last \in Nat /\ prog.parses \in BOOLEAN
         /\ \A i \in 1 .. Last :
              /\ prog.stmts[i] \in Stmt
              /\ prog.stmts[i].runs \in Seq(Keys)
              /\ prog.stmts[i].seen \in Seq(SeenCall)
              /\ prog.stmts[i].draft \in Seq(SeenCall)
<1>1. prog \in Program
  BY ProgramsAreCode DEF TypeOK, TextOK
<1>2. prog.stmts \in Seq(Stmt) /\ prog.parses \in BOOLEAN
  BY <1>1 DEF Program
<1>3. \A i \in 1 .. Last : prog.stmts[i] \in Stmt
  BY <1>2 DEF Last
<1>. QED
  BY <1>2, <1>3 DEF Last, Stmt

\* What planning sees ahead are calls of the program.
LEMMA CallsAheadType ==
  ASSUME TypeOK, NEW from \in Nat \ {0}, NEW only \in BOOLEAN
  PROVE  CallsAhead(from, only) \subseteq PlanEntry
<1>1. \A i \in Ahead(from, only) : i \in 1 .. Last /\ i \in Nat \ {0}
  BY ProgramType DEF TypeOK, TextOK, Ahead
<1>2. \A i \in 1 .. Last : Visible(i) \in Seq(SeenCall)
  BY ProgramType DEF Visible
<1>3. ASSUME NEW i \in 1 .. Last, NEW n \in Planned(i)
      PROVE  n \in Nat \ {0} /\ Visible(i)[n].key \in Keys
  <2>1. n \in DOMAIN Visible(i)
    BY DEF Planned
  <2>2. Visible(i)[n] \in SeenCall /\ n \in Nat \ {0}
    BY <1>2, <2>1
  <2>. QED
    BY <2>2 DEF SeenCall
<1>. QED
  BY <1>1, <1>3 DEF CallsAhead, PlanEntry

\* Starting a call extends the log by one call.
LEMMA StartType ==
  ASSUME calls \in Seq(Call), NEW k \in Keys,
         NEW how \in {"early", "inline", "unsafe"}, NEW state \in {"queued", "running"}
  PROVE  /\ Start(k, how, state) \in Seq(Call)
         /\ Len(Start(k, how, state)) = Len(calls) + 1
BY DEF Start, Call

\* Dropping the early results changes no call but cancels some queued ones.
LEMMA DroppedType ==
  ASSUME calls \in Seq(Call)
  PROVE  /\ Dropped \in Seq(Call) /\ Len(Dropped) = Len(calls)
         /\ \A c \in Ids : /\ Dropped[c].key = calls[c].key /\ Dropped[c].how = calls[c].how
                           /\ Dropped[c].state \in {calls[c].state, "cancelled"}
<1>1. \A c \in Ids : calls[c] \in Call
  BY DEF Ids
<1>2. \A c \in Ids : [calls[c] EXCEPT !.state = "cancelled"] \in Call
  BY <1>1 DEF Call
<1>3. Dropped \in [1 .. Len(calls) -> Call]
  BY <1>1, <1>2 DEF Dropped, Ids
<1>4. Dropped \in Seq(Call) /\ Len(Dropped) = Len(calls)
  BY <1>3, SeqDef, LenProperties
<1>5. ASSUME NEW c \in Ids
      PROVE  /\ Dropped[c].key = calls[c].key /\ Dropped[c].how = calls[c].how
             /\ Dropped[c].state \in {calls[c].state, "cancelled"}
  BY <1>1 DEF Dropped, Call
<1>. QED
  BY <1>4, <1>5

-----------------------------------------------------------------------------

\* A part of the invariant stays true while what it is about stays unchanged.
LEMMA Frame ==
  ASSUME TypeInv, UNCHANGED prog
  PROVE  /\ Last' = Last
         /\ UNCHANGED <<mode, text, published>> => TextOK'
         /\ UNCHANGED <<published, next, running, nth, outcome, flags>> => ProgressOK'
         /\ UNCHANGED verdict => VerdictOK'
         /\ UNCHANGED <<launched, mine, results>> => CallsOK'
         /\ UNCHANGED pc => ThreadsOK'
         /\ UNCHANGED planning => PlanningOK'
         /\ UNCHANGED <<text, published, planning>> => TextInv'
         /\ UNCHANGED <<published, next, nth, mine>> /\ pc'["executor"] = pc["executor"] => PlaceInv'
<1>1. Last' = Last
  BY DEF Last
<1>. USE <1>1 DEF TypeInv, TypeOK, text, published, flags, launched, planning
<1>2. UNCHANGED <<mode, text, published>> => TextOK'
  BY DEF TextOK
<1>3. UNCHANGED <<published, next, running, nth, outcome, flags>> => ProgressOK'
  BY DEF ProgressOK
<1>4. UNCHANGED verdict => VerdictOK'
  BY DEF VerdictOK
<1>5. UNCHANGED <<launched, mine, results>> => CallsOK'
  BY DEF CallsOK, Ids
<1>6. UNCHANGED pc => ThreadsOK'
  BY DEF ThreadsOK
<1>7. UNCHANGED planning => PlanningOK'
  BY DEF PlanningOK
<1>8. UNCHANGED <<text, published, planning>> => TextInv'
  BY DEF TextInv, Closed, Final
<1>9. UNCHANGED <<published, next, nth, mine>> /\ pc'["executor"] = pc["executor"] => PlaceInv'
  BY DEF PlaceInv, Current
<1>. QED
  BY <1>2, <1>3, <1>4, <1>5, <1>6, <1>7, <1>8, <1>9

LEMMA TypeInit == Init => TypeInv
<1>. SUFFICES ASSUME Init PROVE TypeInv
  OBVIOUS
<1>1. prog.stmts \in Seq(Stmt)
  BY ProgramsAreCode DEF Init, Program
<1>2. Last \in Nat
  BY <1>1 DEF Last
<1>3. on \in BOOLEAN
  BY Zenon DEF Init
<1>4. pc \in [Threads -> PlannerLabels \cup ExecutorLabels]
      /\ plan \in [Threads -> SUBSET PlanEntry] /\ wanted \in [Threads -> [Keys -> Nat]]
  BY DEF Init, Threads, PlannerLabels, ExecutorLabels
<1>5. woke \in [final : BOOLEAN, code : 0 .. Last, next : Nat \ {0}, done : BOOLEAN]
      /\ woke.code = 0 /\ ~woke.final
  BY <1>2 DEF Init
<1>6. calls \in Seq(Call) /\ Len(calls) = 0 /\ results \in Seq(Nat) /\ DOMAIN results = {}
  BY DEF Init
<1>7. pc["planner"] = "wait" /\ pc["executor"] = "take"
  BY DEF Init
<1>8. /\ prog \in Programs /\ mode \in Modes /\ stream = "open" /\ code = 0 /\ closed = 0
      /\ open = FALSE /\ parsedAll = FALSE /\ next = 1 /\ running = FALSE /\ nth = 1 /\ mine = 0
      /\ outcome = "none" /\ commit = FALSE /\ abort = "none" /\ ready = {} /\ first = 1
      /\ verdict = [k \in Keys |-> "none"]
  BY Zenon DEF Init
<1>9. TypeOK
  <2>1. verdict \in [Keys -> {"none", "pending", "yes", "no", "lost"}]
    BY <1>8
  <2>2. code \in 0 .. Last /\ closed \in 0 .. Last /\ next \in 1 .. closed + 1 /\ mine \in 0 .. Len(calls)
    BY <1>2, <1>6, <1>8
  <2>3. open \in BOOLEAN /\ parsedAll \in BOOLEAN /\ running \in BOOLEAN /\ commit \in BOOLEAN /\ ~open
    BY <1>8
  <2>4. \A j \in DOMAIN results : results[j] \in Ids
    BY <1>6
  <2>. QED
    BY <2>1, <2>2, <2>3, <2>4, <1>2, <1>3, <1>4, <1>5, <1>6, <1>7, <1>8
    DEF TypeOK, TextOK, ProgressOK, VerdictOK, CallsOK, ThreadsOK, PlanningOK,
        PlannerLabels, ExecutorLabels
<1>10. TextInv
  BY <1>2, <1>5, <1>8 DEF TextInv, Closed
<1>11. PlaceInv
  BY <1>7, <1>8 DEF PlaceInv, InStatement, InCall
<1>. QED
  BY <1>9, <1>10, <1>11 DEF TypeInv

LEMMA StreamType ==
  ASSUME TypeInv, Stream PROVE TypeInv'
<1>1. prog' = prog /\ Last \in Nat
  BY ProgramType DEF TypeInv, Stream, Feed, StreamBreaks, EndOfText, EndTurn
<1>. USE <1>1, Frame DEF TypeInv, TypeOK, text, published, execution, flags, launched, planning
<1>2. CASE Feed
  <2>1. TextOK' /\ TextInv'
    BY <1>2 DEF Feed, TextOK, PlanningOK, TextInv, Closed, Final
  <2>2. PlanningOK'
    BY <1>2 DEF Feed
  <2>. QED
    BY <1>2, <2>1, <2>2 DEF Feed
<1>3. CASE StreamBreaks
  <2>1. TextOK' /\ TextInv' /\ ProgressOK'
    BY <1>3 DEF StreamBreaks, TextOK, ProgressOK, PlanningOK, TextInv, Closed, Final
  <2>. QED
    BY <1>3, <2>1 DEF StreamBreaks
<1>4. CASE EndOfText
  <2>1. code' \in 0 .. Last /\ code <= code'
    BY <1>4 DEF EndOfText, TextOK
  <2>2. TextOK' /\ TextInv'
    BY <1>4, <2>1 DEF EndOfText, TextOK, PlanningOK, TextInv, Closed, Final
  <2>. QED
    BY <1>4, <2>2 DEF EndOfText
<1>5. CASE EndTurn
  <2>1. TextOK' /\ TextInv'
    BY <1>5 DEF EndTurn, TextOK, PlanningOK, TextInv, Closed, Final
  <2>2. CallsOK'
    BY <1>5, DroppedType DEF EndTurn, CallsOK, Ids
  <2>. QED
    BY <1>5, <2>1, <2>2 DEF EndTurn
<1>. QED
  BY <1>2, <1>3, <1>4, <1>5 DEF Stream

\* A planner that moves to another of its labels leaves the executor where it is.
LEMMA PlannerMoves ==
  ASSUME ThreadsOK, NEW label \in PlannerLabels, Goto("planner", label)
  PROVE  ThreadsOK' /\ pc'["executor"] = pc["executor"] /\ pc'["planner"] = label
BY DEF ThreadsOK, Goto, Threads

LEMMA ExecutorMoves ==
  ASSUME ThreadsOK, NEW label \in ExecutorLabels, Goto("executor", label)
  PROVE  ThreadsOK' /\ pc'["planner"] = pc["planner"] /\ pc'["executor"] = label
BY DEF ThreadsOK, Goto, Threads

LEMMA PlannerType ==
  ASSUME TypeInv,
         \/ PlannerWakes \/ PlannerReads \/ PlannerCommits \/ PlannerLooks
         \/ PlannerRests \/ PlannerLeaves \/ PlannerCleansUp \/ PlannerExits
  PROVE  TypeInv'
<1>1. prog' = prog /\ Last \in Nat
  BY ProgramType DEF TypeInv, PlannerWakes, PlannerReads, PlannerCommits, PlannerLooks,
     PlannerRests, PlannerLeaves, PlannerCleansUp, PlannerExits
<1>. USE <1>1, Frame DEF TypeInv, TypeOK, text, published, execution, flags, launched, planning,
         PlannerLabels
<1>2. CASE PlannerWakes
  <2>1. ThreadsOK' /\ pc'["executor"] = pc["executor"]
    BY <1>2, PlannerMoves DEF PlannerWakes
  <2>2. /\ woke'.final = Final /\ woke'.code = code
        /\ woke' \in [final : BOOLEAN, code : 0 .. Last, next : Nat \ {0}, done : BOOLEAN]
    BY <1>2 DEF PlannerWakes, Snapshot, ExecutorDone, Final, TextOK, ProgressOK
  <2>3. TextInv' /\ PlanningOK'
    BY <1>2, <2>2 DEF PlannerWakes, TextInv, PlanningOK, TextOK, Closed, Final
  <2>. QED
    BY <1>2, <2>1, <2>3 DEF PlannerWakes
<1>3. CASE PlannerReads
  <2>1. Closed \in 0 .. Last /\ closed <= Closed /\ (~woke.final /\ woke.code > 0 => Closed < Last)
    BY DEF Closed, TextInv, PlanningOK
  <2>2. closed' = Closed /\ Closed' = Closed
    BY <1>3 DEF PlannerReads, Closed
  <2>3. open' \in BOOLEAN /\ parsedAll' \in BOOLEAN
    BY <1>3, Zenon DEF PlannerReads, PlanningOK
  <2>4. open' => closed' < Last
    BY <1>3, <2>1, <2>2 DEF PlannerReads
  <2>5. ThreadsOK' /\ pc'["executor"] = pc["executor"]
    <3>1. PICK label \in PlannerLabels : Goto("planner", label)
      BY <1>3 DEF PlannerReads
    <3>. QED
      BY <3>1, PlannerMoves
  <2>6. TextOK' /\ TextInv'
    BY <1>3, <2>1, <2>2, <2>3, <2>4 DEF PlannerReads, TextOK, TextInv, Final
  <2>7. ProgressOK' /\ PlaceInv'
    BY <1>3, <2>1, <2>2, <2>5 DEF PlannerReads, TextOK, ProgressOK, PlaceInv, Current
  <2>. QED
    BY <1>3, <2>5, <2>6, <2>7 DEF PlannerReads
<1>4. CASE PlannerCommits
  <2>1. ThreadsOK' /\ pc'["executor"] = pc["executor"]
    BY <1>4, PlannerMoves DEF PlannerCommits
  <2>. QED
    BY <1>4, <2>1 DEF PlannerCommits, ProgressOK
<1>5. CASE PlannerLooks
  <2>1. ThreadsOK' /\ pc'["executor"] = pc["executor"]
    BY <1>5, PlannerMoves DEF PlannerLooks
  <2>2. PlanningOK' /\ TextInv'
    BY <1>5 DEF PlannerLooks, PlanningOK, TextInv, ProgressOK, TextOK, Closed, Final
  <2>. QED
    BY <1>5, <2>1, <2>2 DEF PlannerLooks
<1>6. CASE PlannerRests
  <2>1. ThreadsOK' /\ pc'["executor"] = pc["executor"]
    <3>1. PICK label \in PlannerLabels : Goto("planner", label)
      BY <1>6 DEF PlannerRests
    <3>. QED
      BY <3>1, PlannerMoves
  <2>. QED
    BY <1>6, <2>1 DEF PlannerRests
<1>7. CASE PlannerLeaves
  <2>1. ThreadsOK' /\ pc'["executor"] = pc["executor"]
    BY <1>7, PlannerMoves DEF PlannerLeaves
  <2>. QED
    BY <1>7, <2>1 DEF PlannerLeaves, ProgressOK
<1>8. CASE PlannerCleansUp
  <2>1. ThreadsOK' /\ pc'["executor"] = pc["executor"]
    BY <1>8, PlannerMoves DEF PlannerCleansUp
  <2>2. TextOK'
    BY <1>8 DEF PlannerCleansUp, TextOK
  <2>3. TextInv'
    BY <1>8 DEF PlannerCleansUp, TextInv, Closed, Final
  <2>4. ProgressOK' /\ PlaceInv'
    BY <1>8, <2>1 DEF PlannerCleansUp, ProgressOK, PlaceInv, Current
  <2>. QED
    BY <1>8, <2>1, <2>2, <2>3, <2>4 DEF PlannerCleansUp
<1>9. CASE PlannerExits
  <2>1. ThreadsOK' /\ pc'["executor"] = pc["executor"]
    BY <1>9, PlannerMoves DEF PlannerExits
  <2>. QED
    BY <1>9, <2>1 DEF PlannerExits, ProgressOK
<1>. QED
  BY <1>2, <1>3, <1>4, <1>5, <1>6, <1>7, <1>8, <1>9

LEMMA AskType ==
  ASSUME VerdictOK, NEW ks
  PROVE  Ask(ks) \in [Keys -> {"none", "pending", "yes", "no", "lost"}]
BY DEF VerdictOK, Ask, Asked

\* Planning done by either thread changes neither the text nor the statement
\* the executor is at.
LEMMA PlanAheadType ==
  ASSUME TypeInv, NEW p \in Threads, PlanAhead(p)
  PROVE  TypeInv'
<1>1. prog' = prog /\ Last \in Nat
  BY ProgramType, Zenon DEF TypeInv, PlanAhead, PlanSkipped, PlanLooks, PlanCannotAsk, PlanStarts,
     PlanStops, PlanFails
<1>. USE <1>1, Frame DEF TypeInv, TypeOK, text, published, execution, flags, launched, planning
<1>2. ASSUME pc[p] \in {"ahead", "plan"}, NEW label \in {Then(p), "plan"}, Goto(p, label),
             UNCHANGED <<prog, published, next, nth, mine>>
      PROVE  ThreadsOK' /\ PlaceInv'
  <2>1. CASE p = "planner"
    BY <1>2, <2>1, PlannerMoves DEF Then, PlannerLabels
  <2>2. CASE p = "executor"
    <3>1. ThreadsOK' /\ pc'["executor"] \in {"plan", "run"}
      BY <1>2, <2>2, ExecutorMoves DEF Then, ExecutorLabels
    <3>2. PlaceInv'
      BY <1>2, <2>2, <3>1 DEF PlaceInv, InStatement, InCall, ExecutorLabels
    <3>. QED
      BY <3>1, <3>2
  <2>. QED
    BY <2>1, <2>2 DEF Threads
<1>3. CASE PlanSkipped(p)
  <2>1. ThreadsOK' /\ PlaceInv'
    BY <1>2, <1>3 DEF PlanSkipped
  <2>. QED
    BY <1>3, <2>1 DEF PlanSkipped
<1>4. CASE PlanLooks(p)
  <2>1. ThreadsOK' /\ PlaceInv'
    BY <1>2, <1>4 DEF PlanLooks
  <2>2. CallsAhead(From(p), p = "executor") \subseteq PlanEntry
    <3>1. From(p) \in Nat \ {0} /\ (p = "executor") \in BOOLEAN
      BY DEF From, ProgressOK, PlanningOK, TextOK
    <3>. QED
      BY <3>1, CallsAheadType
  <2>3. PlanningOK' /\ VerdictOK' /\ TextInv'
    BY <1>4, <2>2, AskType DEF PlanLooks, PlanningOK, VerdictOK, TextInv, Closed, Final
  <2>. QED
    BY <1>4, <2>1, <2>3 DEF PlanLooks
<1>5. CASE PlanCannotAsk(p)
  <2>1. ThreadsOK' /\ PlaceInv'
    BY <1>2, <1>5 DEF PlanCannotAsk
  <2>2. PICK ks, k : verdict' = [Ask(ks) EXCEPT ![k] = "lost"]
    BY <1>5, Zenon DEF PlanCannotAsk
  <2>3. VerdictOK'
    BY <2>2, AskType DEF VerdictOK
  <2>4. ProgressOK'
    BY <1>5 DEF PlanCannotAsk, ProgressOK
  <2>. QED
    BY <1>5, <2>1, <2>3, <2>4 DEF PlanCannotAsk
<1>6. CASE PlanStarts(p)
  <2>1. PICK e \in plan[p] :
          /\ plan' = [plan EXCEPT ![p] = @ \ {e}]
          /\ IF Passed(p, e)
             THEN UNCHANGED <<wanted, calls, ready>>
             ELSE /\ wanted' = [wanted EXCEPT ![p][e.key] = @ + 1]
                  /\ IF Cardinality(ReadyOf(e.key)) <= wanted[p][e.key]
                     THEN /\ calls' = Start(e.key, "early", "queued")
                          /\ ready' = ready \cup {Len(calls) + 1}
                     ELSE UNCHANGED <<calls, ready>>
          /\ UNCHANGED <<prog, mode, text, published, execution, flags, verdict, pc, woke, first>>
    BY <1>6, Zenon DEF PlanStarts
  <2>2. e.key \in Keys
    BY DEF PlanEntry, PlanningOK
  <2>3. plan' \in [Threads -> SUBSET PlanEntry]
    BY <2>1 DEF PlanningOK
  <2>4. wanted' \in [Threads -> [Keys -> Nat]]
    <3>1. [wanted EXCEPT ![p][e.key] = @ + 1] \in [Threads -> [Keys -> Nat]]
      BY <2>2 DEF PlanningOK
    <3>. QED
      BY <2>1, <3>1 DEF PlanningOK
  <2>5. CallsOK'
    <3>1. CASE calls' = Start(e.key, "early", "queued") /\ ready' = ready \cup {Len(calls) + 1}
      BY <2>1, <2>2, <3>1, StartType DEF CallsOK, Ids
    <3>2. CASE UNCHANGED <<calls, ready>>
      BY <2>1, <3>2
    <3>. QED
      BY <2>1, <3>1, <3>2
  <2>6. PlanningOK' /\ TextInv'
    BY <2>1, <2>3, <2>4 DEF PlanningOK, TextInv, Closed, Final
  <2>. QED
    BY <2>1, <2>5, <2>6
<1>7. CASE PlanStops(p)
  <2>1. ThreadsOK' /\ PlaceInv'
    BY <1>2, <1>7 DEF PlanStops
  <2>2. PlanningOK' /\ TextInv'
    BY <1>7 DEF PlanStops, PlanningOK, TextInv, Closed, Final
  <2>. QED
    BY <1>7, <2>1, <2>2 DEF PlanStops
<1>8. CASE PlanFails(p)
  <2>1. ThreadsOK' /\ PlaceInv'
    BY <1>2, <1>8 DEF PlanFails
  <2>2. PlanningOK'
    BY <1>8 DEF PlanFails, PlanningOK
  <2>3. TextInv'
    BY <1>8 DEF PlanFails, TextInv, Closed, Final
  <2>4. ProgressOK'
    BY <1>8 DEF PlanFails, ProgressOK
  <2>. QED
    BY <1>8, <2>1, <2>2, <2>3, <2>4 DEF PlanFails
<1>. QED
  BY <1>3, <1>4, <1>5, <1>6, <1>7, <1>8 DEF PlanAhead

\* A call of the log that changes its state is still the same call.
LEMMA CallChanges ==
  ASSUME CallsOK, NEW c \in Ids, NEW s \in {"running", "done", "raised"}
  PROVE  [calls EXCEPT ![c].state = s] \in Seq(Call) /\ Len([calls EXCEPT ![c].state = s]) = Len(calls)
<1>1. calls[c] \in Call
  BY DEF CallsOK, Ids
<1>2. [calls[c] EXCEPT !.state = s] \in Call
  BY <1>1 DEF Call
<1>. QED
  BY <1>2 DEF CallsOK, Ids

LEMMA EnvironmentType ==
  ASSUME TypeInv, Environment PROVE TypeInv'
<1>1. prog' = prog /\ Last \in Nat
  BY ProgramType, Zenon DEF TypeInv, Environment, PoolBegins, ToolEnds, JudgeAnswers
<1>. USE <1>1, Frame DEF TypeInv, TypeOK, text, published, execution, flags, launched, planning
<1>2. ASSUME NEW c \in Ids, NEW s \in {"running", "done", "raised"},
             calls' = [calls EXCEPT ![c].state = s], UNCHANGED <<ready, mine, results>>
      PROVE  CallsOK'
  BY <1>2, CallChanges DEF CallsOK, Ids
<1>3. CASE PoolBegins
  BY <1>2, <1>3 DEF PoolBegins
<1>4. CASE ToolEnds
  BY <1>2, <1>4 DEF ToolEnds
<1>5. CASE JudgeAnswers
  BY <1>5 DEF JudgeAnswers, VerdictOK
<1>. QED
  BY <1>3, <1>4, <1>5 DEF Environment

\* The executor's steps between calls.
LEMMA StatementType ==
  ASSUME TypeInv,
         \/ ExecutorTakes \/ ExecutorGate \/ ExecutorChecks \/ ExecutorRuns
         \/ ExecutorFinishes \/ ExecutorFails \/ ExecutorLeaves
  PROVE  TypeInv'
<1>1. prog' = prog /\ Last \in Nat
  BY ProgramType, Zenon DEF TypeInv, ExecutorTakes, ExecutorGate, ExecutorChecks, ExecutorRuns,
     ExecutorFinishes, ExecutorFails, ExecutorLeaves, Dies
<1>. USE <1>1, Frame DEF TypeInv, TypeOK, text, published, execution, flags, launched, planning,
         ExecutorLabels, InStatement, InCall
<1>2. CASE ExecutorTakes
  <2>1. PICK label \in {"gate", "leave"} :
          Goto("executor", label) /\ (label = "gate" => next <= closed)
    BY <1>2 DEF ExecutorTakes
  <2>2. ThreadsOK' /\ pc'["executor"] = label
    BY <2>1, ExecutorMoves
  <2>3. PlaceInv'
    BY <1>2, <2>1, <2>2 DEF ExecutorTakes, PlaceInv
  <2>. QED
    BY <1>2, <2>2, <2>3 DEF ExecutorTakes
<1>3. CASE ExecutorGate
  <2>1. ThreadsOK' /\ pc'["executor"] = "check"
    BY <1>3, ExecutorMoves DEF ExecutorGate
  <2>2. PlaceInv'
    BY <1>3, <2>1 DEF ExecutorGate, PlaceInv
  <2>. QED
    BY <1>3, <2>1, <2>2 DEF ExecutorGate
<1>4. CASE ExecutorChecks
  <2>1. PICK label \in {"ahead", "leave"} : Goto("executor", label)
    BY <1>4 DEF ExecutorChecks
  <2>2. ThreadsOK' /\ pc'["executor"] = label
    BY <2>1, ExecutorMoves
  <2>3. PlaceInv'
    BY <1>4, <2>2 DEF ExecutorChecks, PlaceInv
  <2>. QED
    BY <1>4, <2>2, <2>3 DEF ExecutorChecks
<1>5. CASE ExecutorRuns
  <2>1. ThreadsOK' /\ pc'["executor"] = "code"
    BY <1>5, ExecutorMoves DEF ExecutorRuns
  <2>2. PlaceInv' /\ ProgressOK'
    BY <1>5, <2>1 DEF ExecutorRuns, PlaceInv, ProgressOK
  <2>. QED
    BY <1>5, <2>1, <2>2 DEF ExecutorRuns
<1>6. CASE ExecutorFinishes
  <2>1. ThreadsOK' /\ pc'["executor"] = "take"
    BY <1>6, ExecutorMoves DEF ExecutorFinishes
  <2>2. PlaceInv'
    BY <1>6, <2>1 DEF ExecutorFinishes, PlaceInv
  <2>3. next \in 1 .. closed /\ closed \in Nat
    BY <1>6 DEF ExecutorFinishes, PlaceInv, ProgressOK, TextOK
  <2>4. /\ next' = next + 1 /\ closed' = closed /\ running' = FALSE /\ nth' = 1
        /\ UNCHANGED <<outcome, on, commit, abort>>
    BY <1>6 DEF ExecutorFinishes
  <2>5. ProgressOK'
    <3>1. next + 1 \in 1 .. closed + 1
      BY <2>3
    <3>2. next' \in 1 .. closed' + 1
      BY <2>4, <3>1, Zenon
    <3>3. running' \in BOOLEAN
      BY <2>4, Zenon
    <3>4. nth' \in Nat \ {0}
      <4>1. 1 \in Nat \ {0}
        OBVIOUS
      <4>. QED
        BY <2>4, <4>1, Zenon
    <3>. QED
      BY <2>4, <3>2, <3>3, <3>4 DEF ProgressOK
  <2>. QED
    BY <1>6, <2>1, <2>2, <2>5 DEF ExecutorFinishes
<1>7. CASE ExecutorFails
  <2>1. ThreadsOK' /\ pc'["executor"] = "done"
    BY <1>7, ExecutorMoves DEF ExecutorFails, Dies
  <2>2. PlaceInv' /\ ProgressOK'
    BY <1>7, <2>1 DEF ExecutorFails, Dies, PlaceInv, ProgressOK
  <2>. QED
    BY <1>7, <2>1, <2>2 DEF ExecutorFails, Dies
<1>8. CASE ExecutorLeaves
  <2>1. ThreadsOK' /\ pc'["executor"] = "done"
    BY <1>8, ExecutorMoves DEF ExecutorLeaves
  <2>2. PlaceInv' /\ ProgressOK'
    BY <1>8, <2>1 DEF ExecutorLeaves, PlaceInv, ProgressOK
  <2>. QED
    BY <1>8, <2>1, <2>2 DEF ExecutorLeaves
<1>. QED
  BY <1>2, <1>3, <1>4, <1>5, <1>6, <1>7, <1>8

\* A call that raises leaves the statement, or goes on to its next call.
LEMMA RaisesType ==
  ASSUME TypeInv, pc["executor"] \in InCall, NEW how \in {"error", "aborted"}, Raises(how),
         UNCHANGED <<prog, published, flags>>, mine' = 0
  PROVE  /\ ThreadsOK' /\ PlaceInv' /\ ProgressOK'
         /\ pc'["executor"] \in {"code", "done"} /\ pc'["planner"] = pc["planner"]
<1>. USE Frame DEF TypeInv, TypeOK, published, flags, ExecutorLabels, InStatement, InCall
<1>1. CASE Current.swallows
  <2>1. ThreadsOK' /\ pc'["executor"] = "code" /\ pc'["planner"] = pc["planner"]
    BY <1>1, ExecutorMoves DEF Raises
  <2>2. PlaceInv' /\ ProgressOK'
    BY <1>1, <2>1 DEF Raises, PlaceInv, ProgressOK
  <2>. QED
    BY <2>1, <2>2
<1>2. CASE ~Current.swallows
  <2>1. ThreadsOK' /\ pc'["executor"] = "done" /\ pc'["planner"] = pc["planner"]
    BY <1>2, ExecutorMoves DEF Raises, Dies
  <2>2. PlaceInv' /\ ProgressOK'
    BY <1>2, <2>1 DEF Raises, Dies, PlaceInv, ProgressOK
  <2>. QED
    BY <2>1, <2>2
<1>. QED
  BY <1>1, <1>2

\* Inside a call the executor knows which call it is.
LEMMA CallKey ==
  ASSUME TypeInv, pc["executor"] \in InCall
  PROVE  CurrentKey \in Keys
<1>1. pc["executor"] \in InStatement
  BY DEF InCall, InStatement, ExecutorLabels
<1>2. next \in 1 .. Last /\ nth \in DOMAIN Current.runs
  BY <1>1, ProgramType DEF TypeInv, TypeOK, PlaceInv, ProgressOK, TextOK
<1>3. Current.runs \in Seq(Keys)
  BY <1>2, ProgramType DEF TypeInv, Current
<1>. QED
  BY <1>2, <1>3 DEF CurrentKey

\* The executor's steps inside a call.
LEMMA HookType ==
  ASSUME TypeInv,
         \/ HookTakes \/ HookAsks \/ HookCannotAsk \/ HookAnswered \/ HookReleased
         \/ HookPasses \/ HookAborts \/ HookDecides \/ HookRunsAlone \/ HookReturns
  PROVE  TypeInv'
<1>1. prog' = prog /\ Last \in Nat
  BY ProgramType, Zenon DEF TypeInv, HookTakes, HookAsks, HookCannotAsk, HookAnswered,
     HookReleased, HookPasses, HookAborts, HookDecides, HookRunsAlone, HookReturns
<1>2. pc["executor"] \in InCall => CurrentKey \in Keys
  BY CallKey
<1>. USE <1>1, Frame DEF TypeInv, TypeOK, text, published, execution, flags, launched, planning,
         ExecutorLabels, InStatement, InCall
\* a step from one label of the call to another, at the same call
<1>3. ASSUME NEW label \in InCall, Goto("executor", label), pc["executor"] \in InCall,
             UNCHANGED <<prog, published, next, nth>>, label = "await" <=> mine' # 0
      PROVE  ThreadsOK' /\ PlaceInv'
  <2>1. ThreadsOK' /\ pc'["executor"] = label
    BY <1>3, ExecutorMoves
  <2>. QED
    BY <1>3, <2>1 DEF PlaceInv, Current
<1>4. CASE HookTakes
  <2>1. next <= closed /\ nth \in DOMAIN Current.runs
    <3>1. next <= closed /\ next \in 1 .. Last
      BY <1>4 DEF HookTakes, PlaceInv, ProgressOK, TextOK
    <3>2. Current.runs \in Seq(Keys)
      BY <3>1, ProgramType DEF Current
    <3>. QED
      BY <1>4, <3>1, <3>2 DEF HookTakes, ProgressOK
  <2>2. PICK label \in {"await", "verdict"} : Goto("executor", label)
    BY <1>4 DEF HookTakes
  <2>3. ThreadsOK' /\ pc'["executor"] = label
    BY <2>2, ExecutorMoves
  <2>4. PlaceInv'
    <3>1. label = "await" <=> mine' # 0
      BY <1>4, <2>2, <2>3 DEF HookTakes, PlaceInv, ReadyOf, CallsOK, ThreadsOK, Goto, Ids
    <3>. QED
      BY <1>4, <2>1, <2>3, <3>1 DEF HookTakes, PlaceInv, Current
  <2>5. ready' \subseteq ready /\ mine' \in ready \cup {mine} /\ UNCHANGED <<calls, results>>
    BY <1>4 DEF HookTakes, ReadyOf, ReadyAfterTaking
  <2>6. CallsOK'
    BY <2>5 DEF CallsOK, Ids
  <2>. QED
    BY <1>4, <2>3, <2>4, <2>6 DEF HookTakes
<1>5. CASE HookAsks
  <2>1. PICK label \in {"abort", "answer"} : Goto("executor", label)
    BY <1>5 DEF HookAsks
  <2>2. ThreadsOK' /\ PlaceInv'
    BY <1>3, <1>5, <2>1 DEF HookAsks, PlaceInv
  <2>3. VerdictOK'
    BY <1>5, AskType DEF HookAsks, VerdictOK
  <2>. QED
    BY <1>5, <2>2, <2>3 DEF HookAsks
<1>6. CASE HookCannotAsk
  <2>1. ThreadsOK' /\ PlaceInv' /\ ProgressOK'
    BY <1>6, RaisesType DEF HookCannotAsk, PlaceInv
  <2>2. VerdictOK'
    BY <1>6 DEF HookCannotAsk, VerdictOK
  <2>. QED
    BY <1>6, <2>1, <2>2 DEF HookCannotAsk
<1>7. CASE HookAnswered
  <2>1. PICK label \in {"abort", "hold"} : Goto("executor", label)
    BY <1>7 DEF HookAnswered
  <2>2. ThreadsOK' /\ PlaceInv'
    BY <1>3, <1>7, <2>1 DEF HookAnswered, PlaceInv
  <2>. QED
    BY <1>7, <2>2 DEF HookAnswered
<1>8. CASE HookReleased
  <2>1. ThreadsOK' /\ PlaceInv'
    BY <1>3, <1>8 DEF HookReleased, PlaceInv
  <2>. QED
    BY <1>8, <2>1 DEF HookReleased
<1>9. CASE HookPasses
  <2>1. ThreadsOK' /\ PlaceInv'
    BY <1>3, <1>9 DEF HookPasses, PlaceInv
  <2>. QED
    BY <1>9, <2>1 DEF HookPasses
<1>10. CASE HookAborts
  <2>1. ThreadsOK' /\ PlaceInv' /\ ProgressOK'
    BY <1>10, RaisesType DEF HookAborts, PlaceInv
  <2>. QED
    BY <1>10, <2>1 DEF HookAborts
<1>11. CASE HookDecides
  <2>1. PICK label \in {"await", "lock"} : Goto("executor", label)
    BY <1>11 DEF HookDecides
  <2>2. ThreadsOK' /\ PlaceInv'
    BY <1>3, <1>11, <2>1 DEF HookDecides, PlaceInv, CallsOK
  <2>3. CallsOK'
    BY <1>2, <1>11, StartType DEF HookDecides, CallsOK, Ids
  <2>. QED
    BY <1>11, <2>2, <2>3 DEF HookDecides
<1>12. CASE HookRunsAlone
  <2>1. ThreadsOK' /\ PlaceInv'
    BY <1>3, <1>12 DEF HookRunsAlone, CallsOK
  <2>2. CurrentKey \in Keys
    BY <1>2, <1>12 DEF HookRunsAlone
  <2>3. [key |-> CurrentKey, how |-> "unsafe", state |-> "running"] \in Call
    BY <2>2 DEF Call
  <2>4. calls' \in Seq(Call) /\ Len(calls') = Len(calls) + 1
    BY <1>12, <2>3, DroppedType DEF HookRunsAlone, CallsOK
  <2>5. CallsOK'
    BY <1>12, <2>4 DEF HookRunsAlone, ReadyAfterDrop, CallsOK, Ids
  <2>. QED
    BY <1>12, <2>1, <2>5 DEF HookRunsAlone
<1>13. CASE HookReturns
  <2>1. ThreadsOK' /\ PlaceInv' /\ ProgressOK'
    <3>1. CASE nth' = nth + 1 /\ Goto("executor", "code") /\ UNCHANGED <<next, running, outcome>>
      <4>1. ThreadsOK' /\ pc'["executor"] = "code"
        BY <3>1, ExecutorMoves
      <4>. QED
        BY <1>13, <3>1, <4>1 DEF HookReturns, PlaceInv, ProgressOK
    <3>2. CASE Raises("error")
      BY <1>13, <3>2, RaisesType DEF HookReturns
    <3>. QED
      BY <1>13, <3>1, <3>2 DEF HookReturns
  <2>2. mine \in Ids
    BY <1>13 DEF HookReturns, CallsOK, PlaceInv, Ids
  <2>3. CallsOK'
    BY <1>13, <2>2 DEF HookReturns, CallsOK, Ids
  <2>. QED
    BY <1>13, <2>1, <2>3 DEF HookReturns
<1>. QED
  BY <1>4, <1>5, <1>6, <1>7, <1>8, <1>9, <1>10, <1>11, <1>12, <1>13

LEMMA TypeStep == TypeInv /\ [Next]_vars => TypeInv'
<1>. SUFFICES ASSUME TypeInv, [Next]_vars PROVE TypeInv'
  OBVIOUS
<1>1. CASE UNCHANGED vars
  BY <1>1, Frame DEF vars, TypeInv, TypeOK, text, published, execution, flags, launched, planning
<1>2. CASE Stream
  BY <1>2, StreamType
<1>3. CASE Planner
  BY <1>3, PlannerType, PlanAheadType DEF Planner, Threads
<1>4. CASE Executor
  BY <1>4, StatementType, HookType, PlanAheadType DEF Executor, Threads
<1>5. CASE Environment
  BY <1>5, EnvironmentType
<1>6. CASE TurnOver
  BY <1>1, <1>6 DEF TurnOver
<1>. QED
  BY <1>1, <1>2, <1>3, <1>4, <1>5, <1>6 DEF Next

\* Every state of a turn is well formed, and the executor is only ever at a
\* statement that was closed and at a call that statement makes.
THEOREM TypeCorrect == Spec => []TypeInv
BY TypeInit, TypeStep, PTL DEF Spec

THEOREM TypeSafe == Spec => []TypeOK
<1>1. TypeInv => TypeOK
  BY DEF TypeInv
<1>. QED
  BY <1>1, TypeCorrect, PTL

-----------------------------------------------------------------------------
(* When calls run: an unmarked call, or one the judge refused, only in a    *)
(* whole and committed block.                                              *)

\* The block is complete and parses, and its text did not break off.
Whole == Final /\ prog.parses /\ abort \notin {"syntax", "stream"}
Allowed(k) == k \in Always \/ verdict[k] = "yes"

\* The planner commits a whole block, or an aborted turn.
CommitInv ==
  /\ pc["planner"] = "commit" => Whole
  /\ pc["planner"] \in {"look", "ahead", "plan", "rest"} /\ woke.final => Whole
  /\ pc["planner"] \in {"cleanup", "exit"} => Whole \/ abort # "none"
  /\ commit => Whole \/ abort # "none"

\* The way of a hook to the call: past the hold the call is allowed or the turn
\* is committed, past the look at the abort the block is also whole.
HookInv ==
  /\ pc["executor"] = "abort" => Allowed(CurrentKey) \/ commit
  /\ pc["executor"] = "decide" => Allowed(CurrentKey) \/ (commit /\ Whole)
  /\ pc["executor"] = "lock" => commit /\ Whole

LogInv == \A c \in Ids : IF Unsafe(c) THEN commit /\ Whole ELSE Allowed(calls[c].key)

-----------------------------------------------------------------------------

\* What a turn never takes back: the commit, an abort, a yes, a whole block.
LEMMA Monotone ==
  ASSUME TypeInv, [Next]_vars
  PROVE  /\ prog' = prog
         /\ commit => commit'
         /\ Whole => Whole'
         /\ abort # "none" => abort' # "none"
         /\ \A k \in Keys : Allowed(k) => Allowed(k)'
<1>. USE DEF Whole, Allowed, Final, text, published, execution, flags, launched, planning
<1>1. CASE Stream
  BY <1>1 DEF Stream, Feed, StreamBreaks, EndOfText, EndTurn
<1>2. CASE PlannerWakes \/ PlannerReads \/ PlannerCommits \/ PlannerLooks
  BY <1>2 DEF PlannerWakes, PlannerReads, PlannerCommits, PlannerLooks
<1>3. CASE PlannerRests \/ PlannerLeaves \/ PlannerCleansUp \/ PlannerExits
  BY <1>3 DEF PlannerRests, PlannerLeaves, PlannerCleansUp, PlannerExits
<1>4. ASSUME NEW p \in Threads, PlanAhead(p)
      PROVE  /\ UNCHANGED <<prog, stream, commit, abort>>
             /\ \A k \in Keys : verdict[k] = "yes" => verdict'[k] = "yes"
  <2>1. CASE PlanSkipped(p) \/ PlanStarts(p) \/ PlanStops(p) \/ PlanFails(p)
    BY <2>1 DEF PlanSkipped, PlanStarts, PlanStops, PlanFails
  <2>2. CASE PlanLooks(p)
    BY <2>2 DEF PlanLooks, Ask
  <2>3. CASE PlanCannotAsk(p)
    <3>1. PICK ks, k : MayRaise(k) /\ verdict' = [Ask(ks) EXCEPT ![k] = "lost"]
      BY <2>3, Zenon DEF PlanCannotAsk
    <3>2. \A j \in Keys : verdict[j] = "yes" => verdict'[j] = "yes"
      BY <3>1 DEF MayRaise, Ask
    <3>. QED
      BY <2>3, <3>2 DEF PlanCannotAsk
  <2>. QED
    BY <1>4, <2>1, <2>2, <2>3 DEF PlanAhead
<1>5. CASE ExecutorTakes \/ ExecutorGate \/ ExecutorChecks \/ ExecutorRuns \/ ExecutorFinishes
           \/ ExecutorFails \/ ExecutorLeaves
  BY <1>5 DEF ExecutorTakes, ExecutorGate, ExecutorChecks, ExecutorRuns, ExecutorFinishes,
     ExecutorFails, ExecutorLeaves
<1>6. CASE HookAsks
  BY <1>6 DEF HookAsks, Ask
<1>7. CASE HookCannotAsk
  BY <1>7 DEF HookCannotAsk, MayRaise, TypeInv, TypeOK, VerdictOK
<1>8. CASE HookTakes \/ HookAnswered \/ HookReleased \/ HookPasses \/ HookAborts \/ HookDecides
           \/ HookRunsAlone \/ HookReturns
  BY <1>8 DEF HookTakes, HookAnswered, HookReleased, HookPasses, HookAborts, HookDecides,
     HookRunsAlone, HookReturns
<1>9. CASE Environment
  <2>1. CASE PoolBegins \/ ToolEnds
    <3>1. UNCHANGED <<prog, stream, commit, abort, verdict>>
      BY <2>1, Zenon DEF PoolBegins, ToolEnds
    <3>. QED
      BY <3>1
  <2>2. CASE JudgeAnswers
    BY <2>2 DEF JudgeAnswers, TypeInv, TypeOK, VerdictOK
  <2>. QED
    BY <1>9, <2>1, <2>2 DEF Environment
<1>10. CASE TurnOver \/ UNCHANGED vars
  BY <1>10 DEF TurnOver, vars
<1>11. CASE PlanAhead("planner") \/ PlanAhead("executor")
  BY <1>4, <1>11 DEF Threads
<1>. QED
  BY <1>1, <1>2, <1>3, <1>5, <1>6, <1>7, <1>8, <1>9, <1>10, <1>11, Zenon
  DEF Next, Planner, Executor

\* The steps of the planner and of the environment leave the executor alone.
LEMMA ExecutorAlone ==
  ASSUME TypeInv, Stream \/ Planner \/ Environment \/ TurnOver \/ UNCHANGED vars
  PROVE  pc'["executor"] = pc["executor"] /\ UNCHANGED execution
<1>. USE DEF text, published, execution, flags, launched, planning, TypeInv, TypeOK, ThreadsOK, Threads, Goto
<1>1. CASE Stream
  BY <1>1 DEF Stream, Feed, StreamBreaks, EndOfText, EndTurn
<1>2. CASE PlannerWakes \/ PlannerReads \/ PlannerCommits \/ PlannerLooks
           \/ PlannerRests \/ PlannerLeaves \/ PlannerCleansUp \/ PlannerExits
  BY <1>2 DEF PlannerWakes, PlannerReads, PlannerCommits, PlannerLooks, PlannerRests,
     PlannerLeaves, PlannerCleansUp, PlannerExits
<1>3. CASE PlanAhead("planner")
  <2>1. UNCHANGED execution /\ (UNCHANGED pc \/ \E label : Goto("planner", label))
    BY <1>3, Zenon DEF PlanAhead, PlanSkipped, PlanLooks, PlanCannotAsk, PlanStarts, PlanStops, PlanFails
  <2>. QED
    BY <2>1
<1>4. CASE Environment \/ TurnOver \/ UNCHANGED vars
  BY <1>4 DEF Environment, PoolBegins, ToolEnds, JudgeAnswers, TurnOver, vars
<1>. QED
  BY <1>1, <1>2, <1>3, <1>4, Zenon DEF Planner

\* The steps of the executor and of the environment leave the planner alone.
LEMMA PlannerAlone ==
  ASSUME TypeInv, Stream \/ Executor \/ Environment \/ TurnOver \/ UNCHANGED vars
  PROVE  pc'["planner"] = pc["planner"] /\ UNCHANGED <<woke, commit>>
<1>. USE DEF text, published, execution, flags, launched, planning, TypeInv, TypeOK, ThreadsOK, Threads, Goto
<1>1. CASE Stream
  BY <1>1 DEF Stream, Feed, StreamBreaks, EndOfText, EndTurn
<1>2. CASE ExecutorTakes \/ ExecutorGate \/ ExecutorChecks \/ ExecutorRuns \/ ExecutorFinishes
           \/ ExecutorFails \/ ExecutorLeaves
  BY <1>2 DEF ExecutorTakes, ExecutorGate, ExecutorChecks, ExecutorRuns, ExecutorFinishes,
     ExecutorFails, ExecutorLeaves, Dies
<1>3. CASE HookTakes \/ HookAsks \/ HookCannotAsk \/ HookAnswered \/ HookReleased
           \/ HookPasses \/ HookAborts
  BY <1>3 DEF HookTakes, HookAsks, HookCannotAsk, HookAnswered, HookReleased, HookPasses,
     HookAborts, Raises, Dies
<1>4. CASE HookDecides \/ HookRunsAlone \/ HookReturns
  BY <1>4 DEF HookDecides, HookRunsAlone, HookReturns, Raises, Dies
<1>5. CASE PlanAhead("executor")
  <2>1. (UNCHANGED pc \/ \E label : Goto("executor", label)) /\ UNCHANGED commit
    BY <1>5, Zenon DEF PlanAhead, PlanSkipped, PlanLooks, PlanCannotAsk, PlanStarts, PlanStops, PlanFails
  <2>2. UNCHANGED woke
    BY <1>5, Zenon DEF PlanAhead, PlanSkipped, PlanLooks, PlanCannotAsk, PlanStarts, PlanStops, PlanFails
  <2>. QED
    BY <2>1, <2>2
<1>6. CASE Environment \/ TurnOver \/ UNCHANGED vars
  BY <1>6 DEF Environment, PoolBegins, ToolEnds, JudgeAnswers, TurnOver, vars
<1>. QED
  BY <1>1, <1>2, <1>3, <1>4, <1>5, <1>6, Zenon DEF Executor

\* The steps that start, drop, take, finish or return a call, and no others,
\* change the log, the early results, the call in hand or the results used.
LEMMA LogSteps ==
  ASSUME TypeInv, [Next]_vars
  PROVE  \/ UNCHANGED <<launched, mine, results>>
         \/ \E p \in Threads : PlanStarts(p)
         \/ EndTurn \/ PoolBegins \/ ToolEnds
         \/ HookTakes \/ HookDecides \/ HookRunsAlone \/ HookReturns
<1>. USE DEF execution, launched, text, published, flags, planning
<1>1. CASE Stream
  BY <1>1 DEF Stream, Feed, StreamBreaks, EndOfText
<1>2. CASE PlannerWakes \/ PlannerReads \/ PlannerCommits \/ PlannerLooks
           \/ PlannerRests \/ PlannerLeaves \/ PlannerCleansUp \/ PlannerExits
  BY <1>2 DEF PlannerWakes, PlannerReads, PlannerCommits, PlannerLooks, PlannerRests,
     PlannerLeaves, PlannerCleansUp, PlannerExits
<1>3. ASSUME NEW p \in Threads, PlanAhead(p)
      PROVE  UNCHANGED <<launched, mine, results>> \/ PlanStarts(p)
  BY <1>3, Zenon DEF PlanAhead, PlanSkipped, PlanLooks, PlanCannotAsk, PlanStops, PlanFails
<1>4. CASE PlanAhead("planner") \/ PlanAhead("executor")
  <2>1. "planner" \in Threads /\ "executor" \in Threads
    BY DEF Threads
  <2>. QED
    BY <1>3, <1>4, <2>1, Zenon
<1>5. CASE ExecutorTakes \/ ExecutorGate \/ ExecutorChecks \/ ExecutorRuns \/ ExecutorFinishes
           \/ ExecutorFails \/ ExecutorLeaves
  BY <1>5 DEF ExecutorTakes, ExecutorGate, ExecutorChecks, ExecutorRuns, ExecutorFinishes,
     ExecutorFails, ExecutorLeaves, Dies
<1>6. CASE HookAsks \/ HookCannotAsk \/ HookAnswered \/ HookReleased \/ HookPasses \/ HookAborts
  BY <1>6 DEF HookAsks, HookCannotAsk, HookAnswered, HookReleased, HookPasses, HookAborts
<1>7. CASE JudgeAnswers
  BY <1>7, Zenon DEF JudgeAnswers
<1>8. CASE TurnOver \/ UNCHANGED vars
  BY <1>8 DEF TurnOver, vars
<1>. QED
  BY <1>1, <1>2, <1>4, <1>5, <1>6, <1>7, <1>8, Zenon DEF Next, Planner, Executor, Environment

\* The log only grows, a logged call stays the call it is, and what is added
\* is a call that is allowed, or one run at the lock.
LEMMA LogGrows ==
  ASSUME TypeInv, [Next]_vars
  PROVE  /\ Len(calls) <= Len(calls')
         /\ \A c \in Ids : calls'[c].key = calls[c].key /\ calls'[c].how = calls[c].how
         /\ \A c \in Ids' : c \notin Ids =>
              \/ calls'[c].how # "unsafe" /\ calls'[c].key \in Keys /\ Allowed(calls'[c].key)
              \/ calls'[c].how = "unsafe" /\ pc["executor"] = "lock"
<1>. USE DEF TypeInv, TypeOK, CallsOK, Ids
<1>1. \A c \in Ids : calls[c] \in Call
  OBVIOUS
<1>2. ASSUME NEW k \in Keys, NEW how \in {"early", "inline"}, NEW state \in {"queued", "running"},
             calls' = Start(k, how, state), Allowed(k)
      PROVE  /\ Len(calls) <= Len(calls')
             /\ \A c \in Ids : calls'[c] = calls[c]
             /\ \A c \in Ids' : c \notin Ids => calls'[c].how # "unsafe" /\ calls'[c].key = k
  BY <1>2, StartType DEF Start
<1>3. ASSUME NEW c \in Ids, NEW s \in {"running", "done", "raised"},
             calls' = [calls EXCEPT ![c].state = s]
      PROVE  /\ Len(calls') = Len(calls)
             /\ \A d \in Ids : calls'[d].key = calls[d].key /\ calls'[d].how = calls[d].how
  BY <1>1, <1>3, CallChanges DEF Call
<1>4. CASE UNCHANGED <<launched, mine, results>>
  BY <1>4 DEF launched
<1>5. ASSUME NEW p \in Threads, PlanStarts(p)
      PROVE  \/ UNCHANGED calls
             \/ \E k \in Keys : calls' = Start(k, "early", "queued") /\ Allowed(k)
  <2>1. PICK e \in plan[p] : verdict[e.key] = "yes" /\
                              (calls' = Start(e.key, "early", "queued") \/ UNCHANGED calls)
    BY <1>5, Zenon DEF PlanStarts
  <2>2. e.key \in Keys
    BY DEF PlanningOK, PlanEntry
  <2>. QED
    BY <2>1, <2>2 DEF Allowed
<1>6. CASE \E p \in Threads : PlanStarts(p)
  BY <1>2, <1>5, <1>6
<1>7. CASE EndTurn
  BY <1>7, DroppedType DEF EndTurn
<1>8. CASE PoolBegins
  BY <1>3, <1>8 DEF PoolBegins
<1>9. CASE ToolEnds
  BY <1>3, <1>9 DEF ToolEnds
<1>10. CASE HookTakes
  BY <1>10 DEF HookTakes
<1>11. CASE HookDecides
  <2>1. CurrentKey \in Keys
    BY <1>11, CallKey DEF HookDecides, InCall
  <2>2. \/ calls' = Start(CurrentKey, "inline", "running") /\ Allowed(CurrentKey)
       \/ UNCHANGED calls
    BY <1>11 DEF HookDecides, KnownSafe, Allowed
  <2>. QED
    BY <1>2, <2>1, <2>2
<1>12. CASE HookRunsAlone
  <2>1. pc["executor"] = "lock" /\ Dropped \in Seq(Call) /\ Len(Dropped) = Len(calls)
    BY <1>12, DroppedType DEF HookRunsAlone
  <2>2. /\ Len(calls') = Len(calls) + 1 /\ calls'[Len(calls) + 1].how = "unsafe"
        /\ \A c \in Ids : calls'[c] = Dropped[c]
    BY <1>12, <2>1 DEF HookRunsAlone
  <2>3. \A c \in Ids : Dropped[c].key = calls[c].key /\ Dropped[c].how = calls[c].how
    BY DroppedType
  <2>4. \A c \in Ids : calls'[c].key = calls[c].key /\ calls'[c].how = calls[c].how
    BY <2>2, <2>3
  <2>5. \A c \in Ids' : c \notin Ids => c = Len(calls) + 1
    BY <2>2
  <2>. QED
    BY <2>1, <2>2, <2>4, <2>5
<1>13. CASE HookReturns
  BY <1>13 DEF HookReturns, launched
<1>. QED
  BY <1>4, <1>6, <1>7, <1>8, <1>9, <1>10, <1>11, <1>12, <1>13, LogSteps, Zenon

-----------------------------------------------------------------------------

SafeInv == TypeInv /\ CommitInv /\ HookInv /\ LogInv

LEMMA CommitStep ==
  ASSUME SafeInv, [Next]_vars
  PROVE  CommitInv'
<1>. USE DEF SafeInv, TypeInv, TypeOK, ThreadsOK, Goto, Threads
<1>1. /\ Whole => Whole'
      /\ abort # "none" => abort' # "none"
  BY Monotone
<1>2. ASSUME pc'["planner"] = pc["planner"], UNCHANGED <<woke, commit>>
      PROVE  CommitInv'
  BY <1>1, <1>2 DEF CommitInv
<1>3. CASE Stream \/ Executor \/ Environment \/ TurnOver \/ UNCHANGED vars
  BY <1>2, <1>3, PlannerAlone
<1>4. CASE PlannerWakes
  BY <1>1, <1>4 DEF PlannerWakes, CommitInv, flags
<1>5. CASE PlannerReads
  <2>1. woke.final => Whole
    BY <1>5 DEF PlannerReads, TextInv, Whole
  <2>2. UNCHANGED woke /\ UNCHANGED commit
    BY <1>5 DEF PlannerReads, flags, planning
  <2>3. pc'["planner"] \in {"commit", "look"} /\ (pc'["planner"] = "commit" => woke.final)
    BY <1>5 DEF PlannerReads
  <2>. QED
    BY <1>1, <2>1, <2>2, <2>3 DEF CommitInv
<1>6. CASE PlannerCommits
  BY <1>1, <1>6 DEF PlannerCommits, CommitInv, planning
<1>7. CASE PlannerLooks
  BY <1>1, <1>7 DEF PlannerLooks, CommitInv, flags
<1>8. CASE PlanAhead("planner")
  <2>1. UNCHANGED woke /\ UNCHANGED commit /\ pc["planner"] \in {"ahead", "plan"}
    BY <1>8, Zenon DEF PlanAhead, PlanSkipped, PlanLooks, PlanCannotAsk, PlanStarts, PlanStops,
       PlanFails, IsNext, flags, planning
  <2>2. UNCHANGED pc \/ Goto("planner", "plan") \/ Goto("planner", "rest")
    BY <1>8, Zenon DEF PlanAhead, PlanSkipped, PlanLooks, PlanCannotAsk, PlanStarts, PlanStops,
       PlanFails, Then
  <2>. QED
    BY <1>1, <2>1, <2>2 DEF CommitInv
<1>9. CASE PlannerRests
  BY <1>1, <1>9 DEF PlannerRests, CommitInv, flags, planning
<1>10. CASE PlannerLeaves
  BY <1>1, <1>10 DEF PlannerLeaves, CommitInv, planning
<1>11. CASE PlannerCleansUp
  BY <1>1, <1>11 DEF PlannerCleansUp, CommitInv, flags, planning
<1>12. CASE PlannerExits
  BY <1>1, <1>12 DEF PlannerExits, CommitInv, planning
<1>. QED
  BY <1>3, <1>4, <1>5, <1>6, <1>7, <1>8, <1>9, <1>10, <1>11, <1>12, Zenon DEF Next, Planner

LEMMA HookStep ==
  ASSUME SafeInv, [Next]_vars
  PROVE  HookInv'
<1>. USE DEF SafeInv, TypeInv, TypeOK, ThreadsOK, Goto, Threads
<1>1. /\ prog' = prog
      /\ commit => commit'
      /\ Whole => Whole'
      /\ \A k \in Keys : Allowed(k) => Allowed(k)'
  BY Monotone
\* the same call is still at the same point
<1>2. ASSUME pc'["executor"] = pc["executor"], UNCHANGED <<next, nth>>
      PROVE  HookInv'
  <2>1. CurrentKey' = CurrentKey
    BY <1>1, <1>2 DEF CurrentKey, Current
  <2>2. pc["executor"] \in {"abort", "decide"} => CurrentKey \in Keys
    BY CallKey DEF InCall
  <2>3. pc["executor"] \in {"abort", "decide"} /\ Allowed(CurrentKey) => Allowed(CurrentKey)'
    BY <1>1, <2>1, <2>2 DEF Allowed
  <2>. QED
    BY <1>1, <1>2, <2>3 DEF HookInv
<1>3. CASE Stream \/ Planner \/ Environment \/ TurnOver \/ UNCHANGED vars
  BY <1>2, <1>3, ExecutorAlone DEF execution
<1>4. ASSUME pc'["executor"] \notin {"abort", "decide", "lock"}
      PROVE  HookInv'
  BY <1>4 DEF HookInv
<1>5. CASE ExecutorTakes \/ ExecutorGate \/ ExecutorChecks \/ ExecutorRuns \/ ExecutorFinishes
           \/ ExecutorFails \/ ExecutorLeaves
  BY <1>4, <1>5 DEF ExecutorTakes, ExecutorGate, ExecutorChecks, ExecutorRuns, ExecutorFinishes,
     ExecutorFails, ExecutorLeaves, Dies
<1>6. CASE PlanAhead("executor")
  <2>1. \/ UNCHANGED pc /\ pc["executor"] = "plan"
        \/ Goto("executor", "plan") \/ Goto("executor", "run")
    BY <1>6, Zenon DEF PlanAhead, PlanSkipped, PlanLooks, PlanCannotAsk, PlanStarts, PlanStops,
       PlanFails, Then, IsNext
  <2>. QED
    BY <1>4, <2>1
<1>7. CASE HookTakes \/ HookCannotAsk \/ HookAborts
  BY <1>4, <1>7 DEF HookTakes, HookCannotAsk, HookAborts, Raises, Dies
<1>8. CASE HookRunsAlone \/ HookReturns
  BY <1>4, <1>8 DEF HookRunsAlone, HookReturns, Raises, Dies
<1>9. CASE HookAsks
  BY <1>1, <1>9 DEF HookAsks, HookInv
<1>10. CASE HookAnswered
  <2>1. CurrentKey' = CurrentKey /\ verdict' = verdict
    BY <1>1, <1>10 DEF HookAnswered, CurrentKey, Current, execution
  <2>. QED
    BY <1>10, <2>1 DEF HookAnswered, HookInv, Allowed
<1>11. CASE HookReleased
  BY <1>1, <1>11 DEF HookReleased, Released, HookInv
<1>12. CASE HookPasses
  <2>1. CurrentKey' = CurrentKey /\ verdict' = verdict
    BY <1>1, <1>12 DEF HookPasses, CurrentKey, Current, execution
  <2>2. Allowed(CurrentKey) \/ (commit /\ Whole)
    BY <1>12 DEF HookPasses, HookInv, CommitInv
  <2>. QED
    BY <1>1, <1>12, <2>1, <2>2 DEF HookPasses, HookInv, Allowed
<1>13. CASE HookDecides
  <2>1. KnownSafe(CurrentKey) \/ (commit /\ Whole)
    BY <1>13 DEF HookDecides, HookInv, KnownSafe, Allowed
  <2>. QED
    BY <1>1, <1>13, <2>1 DEF HookDecides, HookInv
<1>. QED
  BY <1>3, <1>5, <1>6, <1>7, <1>8, <1>9, <1>10, <1>11, <1>12, <1>13, Zenon DEF Next, Executor

LEMMA LogStep ==
  ASSUME SafeInv, [Next]_vars
  PROVE  LogInv'
<1>. USE DEF SafeInv
<1>1. /\ commit => commit'
      /\ Whole => Whole'
      /\ \A k \in Keys : Allowed(k) => Allowed(k)'
  BY Monotone
<1>2. \A c \in Ids : calls[c].key \in Keys
  <2>1. \A c \in Ids : calls[c] \in Call
    BY DEF TypeInv, TypeOK, CallsOK, Ids
  <2>. QED
    BY <2>1 DEF Call
<1>3. ASSUME NEW c \in Ids'
      PROVE  IF Unsafe(c)' THEN commit' /\ Whole' ELSE Allowed(calls[c].key)'
  <2>1. CASE c \in Ids
    BY <1>1, <1>2, <2>1, LogGrows DEF LogInv, Unsafe, Allowed
  <2>2. CASE c \notin Ids
    BY <1>1, <1>3, <2>2, LogGrows DEF HookInv, Unsafe, Allowed
  <2>. QED
    BY <2>1, <2>2
<1>. QED
  BY <1>3 DEF LogInv

\* Whatever the interleaving, the planner commits only a whole block or an
\* aborted turn, and what was not allowed early runs only after a commit.
THEOREM CommitsWhole == Spec => []SafeInv
<1>1. Init => SafeInv
  <2>. SUFFICES ASSUME Init PROVE SafeInv
    OBVIOUS
  <2>1. pc["planner"] = "wait" /\ pc["executor"] = "take"
    BY DEF Init
  <2>2. commit = FALSE /\ calls = << >>
    BY Zenon DEF Init
  <2>3. CommitInv /\ HookInv
    BY <2>1, <2>2 DEF CommitInv, HookInv
  <2>4. LogInv
    BY <2>2 DEF LogInv, Ids
  <2>. QED
    BY <2>3, <2>4, TypeInit DEF SafeInv
<1>2. SafeInv /\ [Next]_vars => SafeInv'
  BY TypeStep, CommitStep, HookStep, LogStep DEF SafeInv
<1>. QED
  BY <1>1, <1>2, PTL DEF Spec

\* A call that was not allowed early waits for the whole block, in every turn.
THEOREM DeniedCallsHeld == Spec => []DeniedCallsWait
<1>1. SafeInv => DeniedCallsWait
  BY DEF SafeInv, LogInv, DeniedCallsWait, Whole, Allowed
<1>. QED
  BY <1>1, CommitsWhole, PTL

-----------------------------------------------------------------------------
(* The results a turn uses: none older than a state-changing call made      *)
(* before it, none used twice, and no state-changing call beside an early   *)
(* result that could still be used.                                         *)

\* An early result that may still be picked up was started early, was not
\* cancelled, is in nobody's hands, and is newer than every state change.
ReadyInv ==
  \A c \in ready : /\ calls[c].how = "early" /\ calls[c].state # "cancelled"
                   /\ c # mine
                   /\ \A u \in Ids : Unsafe(u) => u < c

\* What still waits for the pool was started early, and the program can still
\* get it (an async call that was dropped has its first step all the same).
QueueInv ==
  \A c \in Ids : calls[c].state = "queued" =>
    calls[c].how = "early" /\ (calls[c].key \in Async \/ c \in ready \/ c = mine)

\* The call in hand is newer than every state change; one that changes state
\* itself is the last call of the log, with nothing early left.
MineInv ==
  mine # 0 => /\ calls[mine].state # "cancelled"
              /\ \A u \in Ids : Unsafe(u) => u <= mine
              /\ Unsafe(mine) => mine = Len(calls) /\ ready = {}

\* A state-changing call that is not over is the one in hand.
UnsafeInv == \A u \in Ids : Unsafe(u) /\ calls[u].state = "running" => u = mine

\* What was used is over, was used once, and in the order of the state changes.
ResultsInv ==
  /\ \A j \in DOMAIN results : /\ Over(results[j]) /\ results[j] # mine
                               /\ results[j] \notin ready
  /\ \A i, j \in DOMAIN results : results[i] = results[j] => i = j
  /\ \A i, j \in DOMAIN results :
       Unsafe(results[i]) /\ i < j => results[i] < results[j]

UseInv == ReadyInv /\ QueueInv /\ MineInv /\ UnsafeInv /\ ResultsInv

\* Everything about results that is true of the turn.
FreshInv == TypeInv /\ UseInv

-----------------------------------------------------------------------------

\* The ids the invariants speak of are ids of the log.
LEMMA IdsType ==
  ASSUME TypeInv
  PROVE  /\ Len(calls) \in Nat /\ ready \subseteq Ids
         /\ \A c \in Ids : c \in Nat \ {0} /\ c <= Len(calls) /\ calls[c] \in Call
         /\ mine \in Nat /\ (mine # 0 => mine \in Ids)
         /\ \A j \in DOMAIN results : results[j] \in Ids
         /\ DOMAIN results = 1 .. Len(results) /\ Len(results) \in Nat
BY DEF TypeInv, TypeOK, CallsOK, Ids

\* A call added to the log leaves the ones before it as they are.
LEMMA Appended ==
  ASSUME TypeInv, NEW call, calls' = Append(calls, call)
  PROVE  /\ Len(calls') = Len(calls) + 1 /\ Ids' = Ids \cup {Len(calls) + 1}
         /\ \A c \in Ids : calls'[c] = calls[c] /\ c < Len(calls) + 1
         /\ calls'[Len(calls) + 1] = call
BY DEF TypeInv, TypeOK, CallsOK, Ids

\* The results used stay good while the calls they are of stay over, and nobody
\* gets hold of them again.
LEMMA ResultsKept ==
  ASSUME FreshInv, UNCHANGED results,
         \A c \in Ids : /\ calls'[c].how = calls[c].how
                        /\ Over(c) => calls'[c].state \in {"done", "raised"},
         \A j \in DOMAIN results : results[j] # mine' /\ results[j] \notin ready'
  PROVE  ResultsInv'
<1>1. /\ \A j \in DOMAIN results : results[j] \in Ids /\ Over(results[j])
      /\ \A i, j \in DOMAIN results : results[i] = results[j] => i = j
      /\ \A i, j \in DOMAIN results : Unsafe(results[i]) /\ i < j => results[i] < results[j]
  BY IdsType DEF FreshInv, UseInv, ResultsInv
<1>2. \A j \in DOMAIN results' : /\ Over(results[j])' /\ results'[j] # mine'
                                 /\ results'[j] \notin ready'
  BY <1>1 DEF Over
<1>3. \A i, j \in DOMAIN results' : results'[i] = results'[j] => i = j
  BY <1>1
<1>4. \A i, j \in DOMAIN results' : Unsafe(results[i])' /\ i < j => results'[i] < results'[j]
  BY <1>1 DEF Unsafe
<1>. QED
  BY <1>2, <1>3, <1>4 DEF ResultsInv

\* Starting a call ahead: it is newer than everything, and no state-changing
\* call is in hand while `_launch` is free.
LEMMA StartFresh ==
  ASSUME FreshInv, NEW p \in Threads, PlanStarts(p)
  PROVE  UseInv'
<1>. DEFINE n == Len(calls) + 1
<1>1. /\ UNCHANGED <<mine, results>> /\ LaunchFree
      /\ \/ UNCHANGED <<calls, ready>>
         \/ \E k : calls' = Start(k, "early", "queued") /\ ready' = ready \cup {n}
  BY Zenon DEF PlanStarts, execution
<1>2. CASE UNCHANGED <<calls, ready>>
  BY <1>1, <1>2 DEF FreshInv, UseInv, ReadyInv, QueueInv, MineInv, UnsafeInv, ResultsInv, Ids,
     Unsafe, Over
<1>3. ASSUME NEW k, calls' = Start(k, "early", "queued"), ready' = ready \cup {n}
      PROVE  UseInv'
  <2>. DEFINE call == [key |-> k, how |-> "early", state |-> "queued"]
  <2>1. /\ Len(calls') = n /\ Ids' = Ids \cup {n} /\ calls'[n].how = "early" /\ calls'[n].state = "queued"
        /\ \A c \in Ids : calls'[c] = calls[c] /\ c < n
    <3>1. calls' = Append(calls, call)
      BY <1>3 DEF Start
    <3>2. TypeInv
      BY DEF FreshInv
    <3>3. /\ Len(calls') = n /\ Ids' = Ids \cup {n} /\ calls'[n] = call
          /\ \A c \in Ids : calls'[c] = calls[c] /\ c < n
      BY <3>1, <3>2, Appended
    <3>. QED
      BY <3>3
  <2>2. mine # 0 => ~Unsafe(mine)
    BY <1>1 DEF LaunchFree, FreshInv, TypeInv, PlaceInv
  <2>. USE <1>1, <1>3, <2>1, IdsType DEF FreshInv, UseInv, Unsafe, Over
  <2>3. ReadyInv'
    BY DEF ReadyInv
  <2>4. QueueInv'
    BY DEF QueueInv
  <2>5. MineInv'
    BY <2>2 DEF MineInv
  <2>6. UnsafeInv' /\ ResultsInv'
    BY DEF UnsafeInv, ResultsInv
  <2>. QED
    BY <2>3, <2>4, <2>5, <2>6
<1>. QED
  BY <1>1, <1>2, <1>3, Zenon

\* A call of the log that goes on, or is dropped from the queue, disturbs nothing.
LEMMA ProgressFresh ==
  ASSUME FreshInv, UNCHANGED <<ready, mine, results>>,
         Len(calls') = Len(calls),
         \A c \in Ids :
           /\ calls'[c].key = calls[c].key /\ calls'[c].how = calls[c].how
           /\ \/ calls'[c].state = calls[c].state
              \/ calls[c].state \in {"queued", "running"} /\ calls'[c].state \in {"done", "raised"}
              \/ calls[c].state = "queued" /\ calls'[c].state = "running"
  PROVE  UseInv'
<1>1. Ids' = Ids
  BY DEF Ids
<1>. USE <1>1, IdsType DEF FreshInv, UseInv, Unsafe, Over
<1>2. ReadyInv'
  BY DEF ReadyInv
<1>3. QueueInv'
  BY DEF QueueInv
<1>4. MineInv'
  BY DEF MineInv
<1>5. UnsafeInv'
  BY DEF UnsafeInv, QueueInv
<1>6. ResultsInv'
  <2>1. \A j \in DOMAIN results : results[j] # mine' /\ results[j] \notin ready'
    BY DEF ResultsInv
  <2>2. \A c \in Ids : Over(c) => calls'[c].state \in {"done", "raised"}
    OBVIOUS
  <2>. QED
    BY <2>1, <2>2, ResultsKept
<1>. QED
  BY <1>2, <1>3, <1>4, <1>5, <1>6

LEMMA EnvironmentFresh ==
  ASSUME FreshInv, PoolBegins \/ ToolEnds
  PROVE  UseInv'
<1>1. UNCHANGED <<ready, mine, results>>
  BY Zenon DEF PoolBegins, ToolEnds, execution, launched
<1>2. PICK c \in Ids, s \in {"running", "done", "raised"} :
        /\ calls' = [calls EXCEPT ![c].state = s]
        /\ \/ calls[c].state = "queued" /\ s = "running"
           \/ calls[c].state = "running" /\ s \in {"done", "raised"}
  BY DEF PoolBegins, ToolEnds
<1>3. /\ Len(calls') = Len(calls)
      /\ \A d \in Ids : calls'[d] = IF d = c THEN [calls[c] EXCEPT !.state = s] ELSE calls[d]
  BY <1>2 DEF FreshInv, TypeInv, TypeOK, CallsOK, Ids
<1>4. calls[c] \in Call
  BY IdsType DEF FreshInv
<1>. QED
  BY <1>1, <1>2, <1>3, <1>4, ProgressFresh DEF Call

\* The end of the turn: nothing is left to pick up.
LEMMA EndFresh ==
  ASSUME FreshInv, EndTurn
  PROVE  UseInv'
<1>1. calls' = Dropped /\ ready' = {} /\ UNCHANGED <<mine, results>> /\ mine = 0
  BY DEF EndTurn, execution, FreshInv, TypeInv, PlaceInv
<1>2. Len(calls') = Len(calls) /\ Ids' = Ids
  BY <1>1, DroppedType DEF FreshInv, TypeInv, TypeOK, CallsOK, Ids
<1>3. \A c \in Ids : /\ calls'[c].key = calls[c].key /\ calls'[c].how = calls[c].how
                      /\ calls'[c].state \in {calls[c].state, "cancelled"}
  BY <1>1, DroppedType DEF FreshInv, TypeInv, TypeOK, CallsOK
<1>4. \A c \in Ids : calls[c].state = "queued" /\ c \in ready /\ calls[c].key \notin Async =>
                      calls'[c].state = "cancelled"
  BY <1>1, IdsType DEF Dropped, FreshInv, Call
<1>5. \A c \in Ids : calls'[c].state = "cancelled" => calls[c].state \in {"queued", "cancelled"}
  BY <1>1, IdsType DEF Dropped, FreshInv, Call
<1>. USE <1>1, <1>2, <1>3, IdsType DEF FreshInv, UseInv, Unsafe, Over
<1>6. ReadyInv' /\ MineInv'
  BY DEF ReadyInv, MineInv
<1>7. QueueInv'
  BY <1>4 DEF QueueInv
<1>8. UnsafeInv'
  BY DEF UnsafeInv
<1>9. ResultsInv'
  <2>1. \A j \in DOMAIN results : results[j] # mine' /\ results[j] \notin ready'
    BY DEF ResultsInv
  <2>2. \A c \in Ids : Over(c) => calls'[c].state \in {"done", "raised"}
    BY <1>5
  <2>. QED
    BY <2>1, <2>2, ResultsKept
<1>. QED
  BY <1>6, <1>7, <1>8, <1>9

LEMMA TakeFresh ==
  ASSUME FreshInv, HookTakes
  PROVE  UseInv'
<1>1. UNCHANGED <<calls, results>> /\ mine = 0 /\ Ids' = Ids
  BY DEF HookTakes, FreshInv, TypeInv, PlaceInv, Ids
<1>2. \/ UNCHANGED <<mine, ready>>
      \/ mine' \in ready /\ ready' = ready \ {mine'}
  BY DEF HookTakes, ReadyOf, ReadyAfterTaking
<1>. USE <1>1, <1>2, IdsType DEF FreshInv, UseInv, Unsafe, Over
<1>3. ReadyInv' /\ QueueInv'
  BY DEF ReadyInv, QueueInv
<1>4. MineInv'
  BY DEF MineInv, ReadyInv
<1>5. UnsafeInv' /\ ResultsInv'
  BY DEF UnsafeInv, ResultsInv
<1>. QED
  BY <1>3, <1>4, <1>5

LEMMA DecideFresh ==
  ASSUME FreshInv, HookDecides
  PROVE  UseInv'
<1>. DEFINE n == Len(calls) + 1
            call == [key |-> CurrentKey, how |-> "inline", state |-> "running"]
<1>1. UNCHANGED <<ready, results>> /\ mine = 0
  BY DEF HookDecides, FreshInv, TypeInv, PlaceInv
<1>2. \/ UNCHANGED <<calls, mine>>
      \/ calls' = Append(calls, call) /\ mine' = n
  BY DEF HookDecides, Start
<1>3. CASE UNCHANGED <<calls, mine>>
  BY <1>1, <1>3 DEF FreshInv, UseInv, ReadyInv, QueueInv, MineInv, UnsafeInv, ResultsInv, Ids,
     Unsafe, Over
<1>4. CASE calls' = Append(calls, call) /\ mine' = n
  <2>1. /\ Len(calls') = n /\ Ids' = Ids \cup {n} /\ calls'[n] = call
        /\ \A c \in Ids : calls'[c] = calls[c] /\ c < n
    BY <1>4, Appended DEF FreshInv
  <2>2. calls'[n].how = "inline" /\ calls'[n].state = "running"
    BY <2>1
  <2>. HIDE DEF call
  <2>. USE <1>1, <1>4, <2>1, <2>2, IdsType DEF FreshInv, UseInv, Unsafe, Over
  <2>3. ReadyInv' /\ QueueInv'
    BY DEF ReadyInv, QueueInv
  <2>4. MineInv' /\ UnsafeInv'
    BY DEF MineInv, UnsafeInv
  <2>5. ResultsInv'
    BY DEF ResultsInv
  <2>. QED
    BY <2>3, <2>4, <2>5
<1>. QED
  BY <1>2, <1>3, <1>4

\* A state-changing call begins: the early results are gone, and nothing that
\* could change state is under way.
LEMMA AloneFresh ==
  ASSUME FreshInv, HookRunsAlone
  PROVE  UseInv'
<1>. DEFINE n == Len(calls) + 1
            call == [key |-> CurrentKey, how |-> "unsafe", state |-> "running"]
<1>1. /\ calls' = Append(Dropped, call) /\ ready' = {} /\ mine' = n /\ UNCHANGED results
      /\ mine = 0
  BY DEF HookRunsAlone, ReadyAfterDrop, FreshInv, TypeInv, PlaceInv
<1>2. /\ Dropped \in Seq(Call) /\ Len(Dropped) = Len(calls)
      /\ \A c \in Ids : Dropped[c].key = calls[c].key /\ Dropped[c].how = calls[c].how
  BY DroppedType DEF FreshInv, TypeInv, TypeOK, CallsOK
<1>3. /\ Len(calls') = n /\ Ids' = Ids \cup {n} /\ calls'[n] = call
      /\ \A c \in Ids : calls'[c] = Dropped[c] /\ c < n
  BY <1>1, <1>2, IdsType DEF Ids, FreshInv
<1>4. calls'[n].how = "unsafe" /\ calls'[n].state = "running"
  BY <1>3
<1>5. \A c \in Ids : calls'[c].key = calls[c].key /\ calls'[c].how = calls[c].how
  BY <1>2, <1>3
<1>6. \A c \in Ids :
        /\ calls'[c].state \in {calls[c].state, "cancelled"}
        /\ calls'[c].state = "cancelled" => calls[c].state \in {"queued", "cancelled"}
        /\ calls[c].state = "queued" /\ c \in ready /\ calls[c].key \notin Async =>
             calls'[c].state = "cancelled"
  <2>1. ASSUME NEW c \in Ids
        PROVE  calls'[c] = IF c \in ready /\ calls[c].state = "queued" /\ calls[c].key \notin Async
                           THEN [calls[c] EXCEPT !.state = "cancelled"]
                           ELSE calls[c]
    BY <1>3 DEF Dropped
  <2>2. \A c \in Ids : calls[c] \in Call
    BY IdsType DEF FreshInv
  <2>. QED
    BY <2>1, <2>2 DEF Call
<1>. HIDE DEF call
<1>. USE <1>1, <1>3, <1>4, <1>5, <1>6, IdsType DEF FreshInv, UseInv, Unsafe, Over
<1>7. ReadyInv' /\ MineInv'
  BY DEF ReadyInv, MineInv
<1>8. QueueInv'
  BY DEF QueueInv
<1>9. UnsafeInv'
  BY DEF UnsafeInv
<1>10. ResultsInv'
  <2>1. \A j \in DOMAIN results : results[j] # mine' /\ results[j] \notin ready'
    BY DEF ResultsInv
  <2>2. \A c \in Ids : Over(c) => calls'[c].state \in {"done", "raised"}
    OBVIOUS
  <2>. QED
    BY <2>1, <2>2, ResultsKept
<1>. QED
  BY <1>7, <1>8, <1>9, <1>10

LEMMA ReturnFresh ==
  ASSUME FreshInv, HookReturns
  PROVE  UseInv'
<1>1. /\ UNCHANGED <<calls, ready>> /\ Ids' = Ids
      /\ mine' = 0 /\ results' = Append(results, mine) /\ mine \in Ids /\ Over(mine)
  BY IdsType DEF HookReturns, launched, FreshInv, TypeInv, PlaceInv, Ids
<1>2. /\ DOMAIN results' = DOMAIN results \cup {Len(results) + 1}
      /\ \A j \in DOMAIN results : results'[j] = results[j] /\ j < Len(results) + 1
      /\ results'[Len(results) + 1] = mine
  BY <1>1, IdsType DEF FreshInv, TypeInv, TypeOK, CallsOK
<1>. USE <1>1, IdsType DEF FreshInv, UseInv, Unsafe, Over
<1>3. ReadyInv' /\ MineInv'
  BY DEF ReadyInv, MineInv
<1>4. QueueInv' /\ UnsafeInv'
  BY DEF QueueInv, UnsafeInv
<1>5. ResultsInv'
  <2>. DEFINE last == Len(results) + 1
  <2>1. \A j \in DOMAIN results : /\ results'[j] = results[j] /\ results[j] \in Ids
                                  /\ results[j] # mine
    BY <1>2 DEF ResultsInv
  <2>2. \A j \in DOMAIN results : Unsafe(results[j]) => results[j] < mine
    <3>1. \A u \in Ids : Unsafe(u) => u <= mine
      BY DEF MineInv
    <3>. QED
      BY <2>1, <3>1
  <2>3. \A j \in DOMAIN results' : j \in DOMAIN results \/ (j = last /\ results'[j] = mine)
    BY <1>2
  <2>4. \A j \in DOMAIN results' : /\ Over(results'[j]) /\ results'[j] # mine'
                                   /\ results'[j] \notin ready'
    BY <2>1, <2>3 DEF ResultsInv, ReadyInv
  <2>5. \A i, j \in DOMAIN results' : results'[i] = results'[j] => i = j
    BY <2>1, <2>3 DEF ResultsInv
  <2>6. \A i, j \in DOMAIN results' : Unsafe(results'[i]) /\ i < j => results'[i] < results'[j]
    BY <1>2, <2>1, <2>2, <2>3 DEF ResultsInv
  <2>. QED
    BY <2>4, <2>5, <2>6 DEF ResultsInv
<1>. QED
  BY <1>3, <1>4, <1>5

LEMMA FreshStep == FreshInv /\ [Next]_vars => FreshInv'
<1>. SUFFICES ASSUME FreshInv, [Next]_vars PROVE FreshInv'
  OBVIOUS
<1>1. TypeInv'
  BY TypeStep DEF FreshInv
<1>2. CASE UNCHANGED <<launched, mine, results>>
  <2>1. UseInv'
    BY <1>2 DEF FreshInv, UseInv, ReadyInv, QueueInv, MineInv, UnsafeInv, ResultsInv, Ids,
       Unsafe, Over, launched
  <2>. QED
    BY <1>1, <2>1 DEF FreshInv
<1>3. CASE \E p \in Threads : PlanStarts(p)
  BY <1>1, <1>3, StartFresh DEF FreshInv
<1>4. CASE EndTurn \/ PoolBegins \/ ToolEnds
  BY <1>1, <1>4, EndFresh, EnvironmentFresh DEF FreshInv
<1>5. CASE HookTakes \/ HookDecides \/ HookRunsAlone \/ HookReturns
  BY <1>1, <1>5, TakeFresh, DecideFresh, AloneFresh, ReturnFresh DEF FreshInv
<1>. QED
  BY <1>2, <1>3, <1>4, <1>5, LogSteps DEF FreshInv

LEMMA FreshInit == Init => FreshInv
<1>. SUFFICES ASSUME Init PROVE FreshInv
  OBVIOUS
<1>1. ready = {} /\ mine = 0 /\ calls = << >> /\ results = << >>
  BY Zenon DEF Init
<1>2. UseInv
  BY <1>1 DEF UseInv, ReadyInv, QueueInv, MineInv, UnsafeInv, ResultsInv, Ids
<1>. QED
  BY <1>2, TypeInit DEF FreshInv

\* Every turn keeps the invariant on results.
THEOREM ResultsFresh == Spec => []FreshInv
BY FreshInit, FreshStep, PTL DEF Spec

\* No result older than a state-changing call made before it is ever used.
THEOREM NeverStale == Spec => []NoStaleResults
<1>1. FreshInv => NoStaleResults
  BY IdsType DEF FreshInv, UseInv, ReadyInv, MineInv, ResultsInv, NoStaleResults
<1>. QED
  BY <1>1, ResultsFresh, PTL

\* No result is used twice, and no hook waits for a cancelled call.
THEOREM NeverTwice == Spec => []UsedOnce
<1>1. FreshInv => UsedOnce
  BY DEF FreshInv, UseInv, ReadyInv, MineInv, ResultsInv, UsedOnce
<1>. QED
  BY <1>1, ResultsFresh, PTL

\* A state-changing call runs with nothing started after it, no early result
\* left, and nothing in the pool's queue.
THEOREM UnsafeAlone == Spec => []UnsafeRunsAlone
<1>1. FreshInv => UnsafeRunsAlone
  BY IdsType DEF FreshInv, UseInv, QueueInv, MineInv, UnsafeInv, UnsafeRunsAlone, Unsafe
<1>. QED
  BY <1>1, ResultsFresh, PTL

-----------------------------------------------------------------------------
(* What a turn comes to: one without an error ran everything, and one that  *)
(* does not start calls early starts none before the commit.               *)

\* The planner has published all of a complete block.
Read == Final /\ prog.parses /\ closed = Last
AllRan == Read /\ next = Last + 1

\* The executor may believe `parsedAll` and leave: either there is nothing
\* after what is closed, or the turn is aborted and it will report that.
OutcomeInv ==
  /\ pc["planner"] \in {"commit", "look", "ahead", "plan", "rest"} /\ woke.final => Read
  /\ parsedAll \/ pc["planner"] = "cleanup" => Read \/ abort # "none"
  /\ pc["executor"] = "leave" => AllRan \/ abort # "none"
  /\ outcome = "ok" => pc["executor"] = "done" /\ AllRan

-----------------------------------------------------------------------------

\* Only the planner publishes, and only the stream's thread ends the text.
LEMMA PublishedSteps ==
  ASSUME [Next]_vars
  PROVE  /\ UNCHANGED published \/ PlannerReads \/ PlannerCleansUp
         /\ UNCHANGED stream \/ Stream
<1>. USE DEF text
<1>1. CASE Stream
  BY <1>1 DEF Stream, Feed, StreamBreaks, EndOfText, EndTurn
<1>2. CASE PlannerWakes \/ PlannerCommits \/ PlannerLooks \/ PlannerRests \/ PlannerLeaves
           \/ PlannerExits
  BY <1>2 DEF PlannerWakes, PlannerCommits, PlannerLooks, PlannerRests, PlannerLeaves,
     PlannerExits
<1>3. CASE PlanAhead("planner") \/ PlanAhead("executor")
  BY <1>3, Zenon DEF PlanAhead, PlanSkipped, PlanLooks, PlanCannotAsk, PlanStarts, PlanStops,
     PlanFails
<1>4. CASE ExecutorTakes \/ ExecutorGate \/ ExecutorChecks \/ ExecutorRuns \/ ExecutorFinishes
           \/ ExecutorFails \/ ExecutorLeaves
  BY <1>4 DEF ExecutorTakes, ExecutorGate, ExecutorChecks, ExecutorRuns, ExecutorFinishes,
     ExecutorFails, ExecutorLeaves
<1>5. CASE HookTakes \/ HookAsks \/ HookCannotAsk \/ HookAnswered \/ HookReleased
           \/ HookPasses \/ HookAborts \/ HookDecides \/ HookRunsAlone \/ HookReturns
  BY <1>5 DEF HookTakes, HookAsks, HookCannotAsk, HookAnswered, HookReleased, HookPasses,
     HookAborts, HookDecides, HookRunsAlone, HookReturns
<1>6. CASE Environment
  BY <1>6, Zenon DEF Environment, PoolBegins, ToolEnds, JudgeAnswers
<1>7. CASE TurnOver \/ UNCHANGED vars
  BY <1>7 DEF TurnOver, vars
<1>8. CASE PlannerReads \/ PlannerCleansUp
  BY <1>8 DEF PlannerReads, PlannerCleansUp
<1>. QED
  BY <1>1, <1>2, <1>3, <1>4, <1>5, <1>6, <1>7, <1>8, Zenon DEF Next, Planner, Executor

\* A complete block stays complete and published.
LEMMA ReadStays ==
  ASSUME TypeInv, [Next]_vars, Read
  PROVE  Read' /\ Last' = Last
<1>1. Final' /\ prog' = prog /\ Last' = Last
  <2>1. Final'
    BY PublishedSteps DEF Read, Final, Stream, Feed, StreamBreaks, EndOfText, EndTurn
  <2>. QED
    BY <2>1, Monotone DEF Last
<1>2. closed' = Last
  <2>1. CASE PlannerReads
    BY <2>1, <1>1, TypeStep DEF PlannerReads, Read, TypeInv, TypeOK, TextOK, TextInv
  <2>2. CASE UNCHANGED published \/ PlannerCleansUp
    BY <2>2 DEF PlannerCleansUp, Read, published
  <2>. QED
    BY <2>1, <2>2, PublishedSteps
<1>. QED
  BY <1>1, <1>2 DEF Read

\* The planner's part of OutcomeInv.
PlannerPart ==
  /\ pc["planner"] \in {"commit", "look", "ahead", "plan", "rest"} /\ woke.final => Read
  /\ parsedAll \/ pc["planner"] = "cleanup" => Read \/ abort # "none"
ExecutorPart ==
  /\ pc["executor"] = "leave" => AllRan \/ abort # "none"
  /\ outcome = "ok" => pc["executor"] = "done" /\ AllRan

LEMMA PlannerPartStep ==
  ASSUME TypeInv, OutcomeInv, [Next]_vars
  PROVE  PlannerPart'
<1>. USE DEF TypeInv, TypeOK, ThreadsOK, Goto, Threads, PlannerPart
<1>1. (Read => Read') /\ (abort # "none" => abort' # "none")
  BY ReadStays, Monotone
<1>2. ASSUME pc'["planner"] = pc["planner"], UNCHANGED woke, UNCHANGED parsedAll
      PROVE  PlannerPart'
  BY <1>1, <1>2 DEF OutcomeInv
<1>3. CASE Stream \/ Executor \/ Environment \/ TurnOver \/ UNCHANGED vars
  <2>1. pc'["planner"] = pc["planner"] /\ UNCHANGED woke
    BY <1>3, PlannerAlone
  <2>2. CASE PlannerReads \/ PlannerCleansUp
    BY <2>1, <2>2 DEF PlannerReads, PlannerCleansUp
  <2>. QED
    BY <1>2, <2>1, <2>2, PublishedSteps DEF published
<1>4. CASE PlannerWakes
  BY <1>1, <1>4 DEF PlannerWakes, OutcomeInv, published
<1>5. CASE PlannerReads
  <2>1. /\ UNCHANGED woke /\ pc'["planner"] \in {"commit", "look"}
        /\ parsedAll' = woke.final
    BY <1>5 DEF PlannerReads, planning
  <2>2. ASSUME woke.final PROVE Read'
    <3>1. closed' = Last /\ prog.parses /\ Final /\ UNCHANGED <<prog, stream>>
      BY <1>5, <2>2 DEF PlannerReads, Closed, TextInv, text
    <3>. QED
      BY <3>1 DEF Read, Final, Last
  <2>. QED
    BY <2>1, <2>2
<1>6. CASE PlannerCommits \/ PlannerLooks \/ PlannerRests
  BY <1>1, <1>6 DEF PlannerCommits, PlannerLooks, PlannerRests, OutcomeInv, published, planning
<1>7. CASE PlanAhead("planner")
  <2>1. UNCHANGED woke /\ UNCHANGED parsedAll /\ pc["planner"] \in {"ahead", "plan"}
    BY <1>7, Zenon DEF PlanAhead, PlanSkipped, PlanLooks, PlanCannotAsk, PlanStarts, PlanStops,
       PlanFails, IsNext, published, planning
  <2>2. UNCHANGED pc \/ Goto("planner", "plan") \/ Goto("planner", "rest")
    BY <1>7, Zenon DEF PlanAhead, PlanSkipped, PlanLooks, PlanCannotAsk, PlanStarts, PlanStops,
       PlanFails, Then
  <2>. QED
    BY <1>1, <2>1, <2>2 DEF OutcomeInv
<1>8. CASE PlannerLeaves
  <2>1. pc'["planner"] = "cleanup" /\ UNCHANGED parsedAll /\ abort' # "none"
    BY <1>8 DEF PlannerLeaves, published
  <2>. QED
    BY <2>1
<1>9. CASE PlannerCleansUp
  BY <1>1, <1>9 DEF PlannerCleansUp, OutcomeInv
<1>10. CASE PlannerExits
  BY <1>1, <1>10 DEF PlannerExits, OutcomeInv, published
<1>. QED
  BY <1>3, <1>4, <1>5, <1>6, <1>7, <1>8, <1>9, <1>10, Zenon DEF Next, Planner

LEMMA ExecutorPartStep ==
  ASSUME TypeInv, OutcomeInv, [Next]_vars
  PROVE  ExecutorPart'
<1>. USE DEF TypeInv, TypeOK, ThreadsOK, Goto, Threads, ExecutorPart
<1>1. (Read => Read' /\ Last' = Last) /\ (abort # "none" => abort' # "none")
  BY ReadStays, Monotone
<1>2. CASE Stream \/ Planner \/ Environment \/ TurnOver \/ UNCHANGED vars
  <2>1. pc'["executor"] = pc["executor"] /\ UNCHANGED <<next, outcome>>
    BY <1>2, ExecutorAlone DEF execution
  <2>. QED
    BY <1>1, <2>1 DEF OutcomeInv, AllRan
<1>3. CASE Executor
  <2>1. pc["executor"] # "done"
    <3>1. CASE PlanAhead("executor")
      BY <3>1, Zenon DEF PlanAhead, PlanSkipped, PlanLooks, PlanCannotAsk, PlanStarts, PlanStops,
         PlanFails, IsNext
    <3>2. CASE ~PlanAhead("executor")
      BY <1>3, <3>2 DEF Executor, ExecutorTakes, ExecutorGate, ExecutorChecks, ExecutorRuns,
         ExecutorFinishes, ExecutorFails, ExecutorLeaves, HookTakes, HookAsks, HookCannotAsk,
         HookAnswered, HookReleased, HookPasses, HookAborts, HookDecides, HookRunsAlone, HookReturns
    <3>. QED
      BY <3>1, <3>2
  <2>2. outcome # "ok"
    BY <2>1 DEF OutcomeInv
  <2>3. ASSUME pc'["executor"] # "leave", outcome' \in {outcome, "error", "aborted"}
        PROVE  ExecutorPart'
    BY <2>2, <2>3
  <2>4. CASE ExecutorTakes
    <3>1. UNCHANGED <<next, outcome, stream, closed, prog>>
      BY <2>4 DEF ExecutorTakes, execution, text, published
    <3>2. CASE next <= closed /\ Goto("executor", "gate")
      BY <2>3, <3>1, <3>2
    <3>3. CASE next > closed /\ parsedAll /\ Goto("executor", "leave")
      <4>1. Read => next = Last + 1
        BY <3>3, ProgramType DEF Read, ProgressOK
      <4>2. AllRan' \/ abort' # "none"
        BY <1>1, <3>1, <3>3, <4>1 DEF OutcomeInv, AllRan
      <4>. QED
        BY <2>2, <3>1, <4>2
    <3>. QED
      BY <2>4, <3>2, <3>3 DEF ExecutorTakes
  <2>5. CASE ExecutorChecks
    BY <1>1, <2>2, <2>5 DEF ExecutorChecks, execution
  <2>6. CASE ExecutorLeaves
    <3>1. /\ pc["executor"] = "leave" /\ pc'["executor"] = "done" /\ UNCHANGED next
          /\ outcome' = "ok" => abort = "none"
      BY <2>6 DEF ExecutorLeaves
    <3>. QED
      BY <1>1, <3>1 DEF OutcomeInv, AllRan
  <2>7. CASE ExecutorGate \/ ExecutorRuns \/ ExecutorFinishes \/ ExecutorFails
    BY <2>3, <2>7 DEF ExecutorGate, ExecutorRuns, ExecutorFinishes, ExecutorFails, Dies, execution
  <2>8. CASE PlanAhead("executor")
    <3>1. /\ UNCHANGED outcome
          /\ \/ UNCHANGED pc /\ pc["executor"] = "plan"
             \/ Goto("executor", "plan") \/ Goto("executor", "run")
      BY <2>8, Zenon DEF PlanAhead, PlanSkipped, PlanLooks, PlanCannotAsk, PlanStarts, PlanStops,
         PlanFails, Then, IsNext, execution
    <3>. QED
      BY <2>3, <3>1
  <2>9. CASE HookTakes \/ HookAsks \/ HookCannotAsk \/ HookAnswered \/ HookReleased
             \/ HookPasses \/ HookAborts
    BY <2>3, <2>9 DEF HookTakes, HookAsks, HookCannotAsk, HookAnswered, HookReleased, HookPasses,
       HookAborts, Raises, Dies, execution
  <2>10. CASE HookDecides \/ HookRunsAlone \/ HookReturns
    BY <2>3, <2>10 DEF HookDecides, HookRunsAlone, HookReturns, Raises, Dies, execution
  <2>. QED
    BY <1>3, <2>4, <2>5, <2>6, <2>7, <2>8, <2>9, <2>10, Zenon DEF Executor
<1>. QED
  BY <1>2, <1>3, Zenon DEF Next

\* The executor leaves early only from a turn that is aborted.
THEOREM LeavesWhenRead == Spec => []OutcomeInv
<1>1. Init => OutcomeInv
  BY DEF Init, OutcomeInv
<1>2. TypeInv /\ OutcomeInv /\ [Next]_vars => OutcomeInv'
  BY PlannerPartStep, ExecutorPartStep DEF OutcomeInv, PlannerPart, ExecutorPart
<1>. QED
  BY <1>1, <1>2, TypeCorrect, PTL DEF Spec

\* A turn reports no error only if all of a complete block ran.
THEOREM OkMeansAllRan == Spec => []NoErrorMeansAllRan
<1>1. OutcomeInv => NoErrorMeansAllRan
  BY DEF OutcomeInv, AllRan, Read, Final, NoErrorMeansAllRan
<1>. QED
  BY <1>1, LeavesWhenRead, PTL

-----------------------------------------------------------------------------
(* Turns that start nothing before the commit. *)

\* where the executor is past the gate of the statement at hand
Begun == ExecutorLabels \ {"take", "gate", "leave", "done"}

\* Such a turn gets past the gate, or to planning, only once it is committed; a
\* plain one never plans.
WaitInv ==
  /\ mode = "plain" => ~on
  /\ mode # "early" /\ pc["executor"] \in Begun => commit
  /\ \A p \in Threads : mode # "early" /\ pc[p] = "plan" => commit /\ mode # "plain"

\* mode and _on change one way or not at all.
LEMMA ModeStays ==
  ASSUME [Next]_vars
  PROVE  mode' = mode /\ (on' => on)
<1>. USE DEF flags
<1>1. CASE Stream
  BY <1>1 DEF Stream, Feed, StreamBreaks, EndOfText, EndTurn
<1>2. CASE PlannerWakes \/ PlannerReads \/ PlannerCommits \/ PlannerLooks \/ PlannerRests
           \/ PlannerLeaves \/ PlannerCleansUp \/ PlannerExits
  BY <1>2 DEF PlannerWakes, PlannerReads, PlannerCommits, PlannerLooks, PlannerRests,
     PlannerLeaves, PlannerCleansUp, PlannerExits
<1>3. ASSUME NEW p \in Threads, PlanAhead(p)
      PROVE  mode' = mode /\ (on' = on \/ on' = FALSE)
  BY <1>3, Zenon DEF PlanAhead, PlanSkipped, PlanLooks, PlanCannotAsk, PlanStarts, PlanStops,
     PlanFails
<1>4. CASE PlanAhead("planner") \/ PlanAhead("executor")
  BY <1>3, <1>4 DEF Threads
<1>5. CASE ExecutorTakes \/ ExecutorGate \/ ExecutorChecks \/ ExecutorRuns \/ ExecutorFinishes
           \/ ExecutorFails \/ ExecutorLeaves
  BY <1>5 DEF ExecutorTakes, ExecutorGate, ExecutorChecks, ExecutorRuns, ExecutorFinishes,
     ExecutorFails, ExecutorLeaves
<1>6. CASE HookTakes \/ HookAsks \/ HookCannotAsk \/ HookAnswered \/ HookReleased
           \/ HookPasses \/ HookAborts \/ HookDecides \/ HookRunsAlone \/ HookReturns
  BY <1>6 DEF HookTakes, HookAsks, HookCannotAsk, HookAnswered, HookReleased, HookPasses,
     HookAborts, HookDecides, HookRunsAlone, HookReturns
<1>7. CASE Environment
  <2>1. UNCHANGED <<mode, on>>
    BY <1>7, Zenon DEF Environment, PoolBegins, ToolEnds, JudgeAnswers
  <2>. QED
    BY <2>1
<1>8. CASE TurnOver \/ UNCHANGED vars
  BY <1>8 DEF TurnOver, vars
<1>. QED
  BY <1>1, <1>2, <1>4, <1>5, <1>6, <1>7, <1>8, Zenon DEF Next, Planner, Executor

\* A thread gets past the gate, or to planning, by one action each.
LEMMA WaysIn ==
  ASSUME TypeInv, [Next]_vars
  PROVE  /\ pc'["executor"] \in Begun => pc["executor"] \in Begun \/ ExecutorGate
         /\ \A p \in Threads : pc'[p] = "plan" => pc[p] = "plan" \/ PlanLooks(p)
<1>. USE DEF TypeInv, TypeOK, ThreadsOK, Goto, Threads, Begun, ExecutorLabels
<1>1. ASSUME NEW p \in Threads, PlanAhead(p)
      PROVE  /\ pc[p] \in {"ahead", "plan"}
             /\ pc'[p] = "plan" => pc[p] = "plan" \/ PlanLooks(p)
             /\ \A o \in Threads \ {p} : pc'[o] = pc[o]
  <2>1. CASE PlanLooks(p)
    BY <2>1 DEF PlanLooks
  <2>2. CASE ~PlanLooks(p)
    <3>1. /\ pc[p] \in {"ahead", "plan"}
          /\ \/ UNCHANGED pc /\ pc[p] = "plan"
             \/ Goto(p, "rest") \/ Goto(p, "run")
      BY <1>1, <2>2, Zenon DEF PlanAhead, PlanSkipped, PlanCannotAsk, PlanStarts, PlanStops,
         PlanFails, Then, IsNext
    <3>. QED
      BY <3>1
  <2>. QED
    BY <2>1, <2>2
<1>2. CASE Stream \/ Environment \/ TurnOver \/ UNCHANGED vars
  BY <1>2, ExecutorAlone, PlannerAlone
<1>3. CASE Planner
  <2>1. pc'["executor"] = pc["executor"]
    BY <1>3, ExecutorAlone
  <2>2. pc'["planner"] = "plan" => pc["planner"] = "plan" \/ PlanLooks("planner")
    <3>1. CASE PlanAhead("planner")
      BY <1>1, <3>1
    <3>2. CASE ~PlanAhead("planner")
      BY <1>3, <3>2 DEF Planner, PlannerWakes, PlannerReads, PlannerCommits, PlannerLooks,
         PlannerRests, PlannerLeaves, PlannerCleansUp, PlannerExits
    <3>. QED
      BY <3>1, <3>2
  <2>. QED
    BY <2>1, <2>2
<1>4. CASE Executor
  <2>1. pc'["planner"] = pc["planner"]
    BY <1>4, PlannerAlone
  <2>2. CASE PlanAhead("executor")
    BY <1>1, <2>1, <2>2
  <2>3. CASE ExecutorTakes \/ ExecutorGate \/ ExecutorChecks \/ ExecutorRuns \/ ExecutorFinishes
             \/ ExecutorFails \/ ExecutorLeaves
    BY <2>1, <2>3 DEF ExecutorTakes, ExecutorGate, ExecutorChecks, ExecutorRuns, ExecutorFinishes,
       ExecutorFails, ExecutorLeaves, Dies
  <2>4. CASE HookTakes \/ HookAsks \/ HookCannotAsk \/ HookAnswered \/ HookReleased
             \/ HookPasses \/ HookAborts
    BY <2>1, <2>4 DEF HookTakes, HookAsks, HookCannotAsk, HookAnswered, HookReleased, HookPasses,
       HookAborts, Raises, Dies
  <2>5. CASE HookDecides \/ HookRunsAlone \/ HookReturns
    BY <2>1, <2>5 DEF HookDecides, HookRunsAlone, HookReturns, Raises, Dies
  <2>. QED
    BY <1>4, <2>2, <2>3, <2>4, <2>5, Zenon DEF Executor
<1>. QED
  BY <1>2, <1>3, <1>4, Zenon DEF Next

LEMMA WaitStep ==
  ASSUME TypeInv, WaitInv, [Next]_vars
  PROVE  WaitInv'
<1>1. mode' = mode /\ (on' => on) /\ (commit => commit')
  BY ModeStays, Monotone
<1>2. (mode = "plain" => ~on)'
  BY <1>1 DEF WaitInv
<1>3. mode # "early" /\ pc'["executor"] \in Begun => commit'
  <2>1. CASE ExecutorGate
    BY <1>1, <2>1, Setup DEF ExecutorGate, Open, ModeNames, WaitInv, TypeInv, TypeOK, TextOK
  <2>2. CASE ~ExecutorGate
    BY <1>1, <2>2, WaysIn DEF WaitInv
  <2>. QED
    BY <2>1, <2>2
<1>4. ASSUME NEW p \in Threads, mode # "early", pc'[p] = "plan"
      PROVE  commit' /\ mode # "plain"
  <2>1. CASE PlanLooks(p)
    BY <1>1, <1>4, <2>1, Setup DEF PlanLooks, ModeNames, WaitInv, TypeInv, TypeOK, TextOK
  <2>2. CASE ~PlanLooks(p)
    BY <1>1, <1>4, <2>2, WaysIn DEF WaitInv
  <2>. QED
    BY <2>1, <2>2
<1>. QED
  BY <1>1, <1>2, <1>3, <1>4 DEF WaitInv

\* The steps that change verdicts, in a plain turn, are out of reach.
LEMMA VerdictSteps ==
  ASSUME [Next]_vars
  PROVE  \/ UNCHANGED verdict
         \/ \E p \in Threads : PlanLooks(p) \/ PlanCannotAsk(p)
         \/ HookAsks \/ HookCannotAsk \/ JudgeAnswers
<1>1. CASE Stream
  BY <1>1 DEF Stream, Feed, StreamBreaks, EndOfText, EndTurn
<1>2. CASE PlannerWakes \/ PlannerReads \/ PlannerCommits \/ PlannerLooks \/ PlannerRests
           \/ PlannerLeaves \/ PlannerCleansUp \/ PlannerExits
  BY <1>2 DEF PlannerWakes, PlannerReads, PlannerCommits, PlannerLooks, PlannerRests,
     PlannerLeaves, PlannerCleansUp, PlannerExits
<1>3. ASSUME NEW p \in Threads, PlanAhead(p)
      PROVE  UNCHANGED verdict \/ PlanLooks(p) \/ PlanCannotAsk(p)
  BY <1>3, Zenon DEF PlanAhead, PlanSkipped, PlanStarts, PlanStops, PlanFails
<1>4. CASE PlanAhead("planner") \/ PlanAhead("executor")
  BY <1>3, <1>4 DEF Threads
<1>5. CASE ExecutorTakes \/ ExecutorGate \/ ExecutorChecks \/ ExecutorRuns \/ ExecutorFinishes
           \/ ExecutorFails \/ ExecutorLeaves
  BY <1>5 DEF ExecutorTakes, ExecutorGate, ExecutorChecks, ExecutorRuns, ExecutorFinishes,
     ExecutorFails, ExecutorLeaves
<1>6. CASE HookTakes \/ HookAnswered \/ HookReleased \/ HookPasses \/ HookAborts
           \/ HookDecides \/ HookRunsAlone \/ HookReturns
  BY <1>6 DEF HookTakes, HookAnswered, HookReleased, HookPasses, HookAborts, HookDecides,
     HookRunsAlone, HookReturns
<1>7. CASE PoolBegins \/ ToolEnds
  BY <1>7, Zenon DEF PoolBegins, ToolEnds
<1>8. CASE TurnOver \/ UNCHANGED vars
  BY <1>8 DEF TurnOver, vars
<1>. QED
  BY <1>1, <1>2, <1>4, <1>5, <1>6, <1>7, <1>8, Zenon DEF Next, Planner, Executor, Environment

\* Calls are begun by planning, early, or at the hook of the statement under way.
LEMMA NewCalls ==
  ASSUME TypeInv, [Next]_vars
  PROVE  \/ Len(calls') = Len(calls)
         \/ \E p \in Threads : PlanStarts(p)
         \/ /\ HookDecides \/ HookRunsAlone
            /\ \A c \in Ids' : c \notin Ids => calls'[c].how # "early"
<1>. USE DEF TypeInv, TypeOK, CallsOK, Ids
<1>1. CASE UNCHANGED <<launched, mine, results>>
  BY <1>1 DEF launched
<1>2. CASE EndTurn
  BY <1>2, DroppedType DEF EndTurn
<1>3. CASE PoolBegins
  BY <1>3, CallChanges DEF PoolBegins
<1>4. CASE ToolEnds
  BY <1>4, CallChanges DEF ToolEnds
<1>5. CASE HookTakes \/ HookReturns
  BY <1>5 DEF HookTakes, HookReturns, launched
<1>6. CASE HookDecides
  BY <1>6 DEF HookDecides, Start
<1>7. CASE HookRunsAlone
  <2>1. Dropped \in Seq(Call) /\ Len(Dropped) = Len(calls)
    BY DroppedType
  <2>2. Len(calls') = Len(calls) + 1 /\ calls'[Len(calls) + 1].how = "unsafe"
    BY <1>7, <2>1 DEF HookRunsAlone
  <2>. QED
    BY <1>7, <2>2
<1>. QED
  BY <1>1, <1>2, <1>3, <1>4, <1>5, <1>6, <1>7, LogSteps

LEMMA PlainStep ==
  ASSUME TypeInv, WaitInv, PlainTurnWaits, [Next]_vars
  PROVE  PlainTurnWaits'
<1>1. mode' = mode /\ (commit => commit')
  BY ModeStays, Monotone
<1>2. ASSUME NEW p \in Threads, PlanLooks(p) \/ PlanCannotAsk(p)
      PROVE  mode # "plain"
  BY <1>2 DEF PlanLooks, PlanCannotAsk, WaitInv
<1>3. ASSUME NEW p \in Threads, PlanStarts(p)
      PROVE  mode # "early" => commit /\ mode # "plain"
  <2>1. pc[p] = "plan"
    BY <1>3, Zenon DEF PlanStarts, IsNext
  <2>. QED
    BY <2>1 DEF WaitInv
<1>4. ASSUME HookAsks \/ HookCannotAsk \/ HookDecides \/ HookRunsAlone
      PROVE  mode # "early" => commit
  BY <1>4 DEF HookAsks, HookCannotAsk, HookDecides, HookRunsAlone, WaitInv, Begun, ExecutorLabels
<1>5. ASSUME mode = "plain" PROVE \A k \in Keys : verdict'[k] = "none"
  <2>1. CASE UNCHANGED verdict
    BY <1>5, <2>1 DEF PlainTurnWaits
  <2>2. CASE HookAsks \/ HookCannotAsk
    BY <1>4, <1>5, <2>2 DEF HookAsks, HookCannotAsk, PlainTurnWaits
  <2>3. CASE JudgeAnswers
    BY <1>5, <2>3 DEF JudgeAnswers, PlainTurnWaits
  <2>. QED
    BY <1>2, <1>5, <2>1, <2>2, <2>3, VerdictSteps
<1>6. ASSUME mode # "early", calls' # << >> PROVE commit'
  <2>1. CASE Len(calls') = Len(calls)
    <3>1. calls \in Seq(Call) /\ calls' \in Seq(Call)
      BY TypeStep DEF TypeInv, TypeOK, CallsOK
    <3>2. calls # << >>
      BY <1>6, <2>1, <3>1
    <3>. QED
      BY <1>1, <1>6, <3>2 DEF PlainTurnWaits
  <2>. QED
    BY <1>1, <1>3, <1>4, <1>6, <2>1, NewCalls
<1>7. ASSUME mode = "plain", NEW c \in Ids' PROVE calls'[c].how # "early"
  <2>1. CASE c \in Ids
    BY <1>7, <2>1, LogGrows DEF PlainTurnWaits
  <2>2. CASE c \notin Ids
    <3>1. Len(calls') # Len(calls)
      BY <2>2, <1>7 DEF Ids
    <3>. QED
      BY <1>3, <1>7, <2>2, <3>1, NewCalls
  <2>. QED
    BY <2>1, <2>2
<1>. QED
  BY <1>1, <1>5, <1>6, <1>7 DEF PlainTurnWaits

\* A turn with speculate=False never asks the judge, and neither it nor one in
\* after-commit mode begins a call before the commit.
THEOREM PlainAlwaysWaits == Spec => []PlainTurnWaits
<1>1. Init => WaitInv /\ PlainTurnWaits
  <2>. SUFFICES ASSUME Init PROVE WaitInv /\ PlainTurnWaits
    OBVIOUS
  <2>1. on = (mode # "plain") /\ calls = << >> /\ verdict = [k \in Keys |-> "none"]
    BY Zenon DEF Init
  <2>2. pc["planner"] = "wait" /\ pc["executor"] = "take"
    BY DEF Init
  <2>3. Ids = {}
    BY <2>1 DEF Ids
  <2>. QED
    BY <2>1, <2>2, <2>3 DEF WaitInv, PlainTurnWaits, Threads, Begun
<1>2. TypeInv /\ WaitInv /\ [Next]_vars => WaitInv'
  BY WaitStep
<1>3. TypeInv /\ WaitInv /\ PlainTurnWaits /\ [Next]_vars => PlainTurnWaits'
  BY PlainStep
<1>. QED
  BY <1>1, <1>2, <1>3, TypeCorrect, PTL DEF Spec
=============================================================================
