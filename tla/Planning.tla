------------------------------ MODULE Planning ------------------------------
(***************************************************************************)
(* Knowing calls early (repl.py: _static_eval, learn, plan_calls, and the   *)
(* look over the code in _plan_ahead), against a run of the same code.      *)
(* SpecTurn takes what planning sees as given; here it is worked out.       *)
(*                                                                         *)
(* A value is a sequence of numbers: a string or a list, whose items are   *)
(* its elements.  0 in it stands for an object of a class the program      *)
(* wrote (and for what its code answers), 9 for a builtin function.  `len` *)
(* stands for the pure builtins.  A namespace is a function on the names   *)
(* that are bound; a tool or `len` is in it only once the program has      *)
(* bound that name itself.                                                 *)
(***************************************************************************)
EXTENDS Naturals, SequencesExt, TLC

CONSTANTS
  Tools, Always,  \* the registered tools, and those with early=True
  MaxUnroll,      \* items of a loop that planning looks at
  Programs,       \* the code the model may write
  Namespaces      \* the namespaces earlier turns may have left

ASSUME ToolKinds == Always \subseteq Tools
ASSUME NoneIsNoTool == "none" \notin Tools /\ "len" \notin Tools
ASSUME Unrolls == MaxUnroll \in Nat \ {0}

\* An expression: "lit", "name", "more" (an f-string or a `+` on a name), "len"
\* (a pure builtin on it), or "opaque" (anything else; handed to a call).
\* name is "none" in a literal, and for anything a statement does not have.
Expr == [kind : {"lit", "name", "more", "len", "opaque"}, name : STRING, val : Seq(Nat \ {0, 9})]
Call == [tool : STRING, arg : Expr]

\* A simple statement makes the calls of `sure`, perhaps those of `maybe`,
\* changes the values of `alters` in place and assigns `to` to `sets`.
Part == [sure : Seq(Call), maybe : Seq(Call), alters : SUBSET STRING, sets : STRING, to : Expr]

\* A statement is simple (its only part is head[1]), a "for" over `iter` with a
\* straight-line `head` and a `rest` that may not run, an "if" around `rest`, or a
\* "def" of `binds` (or a class), whose `head` runs at once: decorators, defaults, a
\* class's body.  slot: the loop's target is an element of `var`, not a name.
Stmt == [kind : {"simple", "for", "if", "def"}, head : Seq(Part), rest : Seq(Part),
         var : STRING, slot : BOOLEAN, iter : Expr, binds : STRING]

ASSUME Code == /\ Programs \subseteq Seq(Stmt)
               /\ \A p \in Programs : \A i \in DOMAIN p : p[i].kind = "simple" => p[i].head # << >>
ASSUME Values == \A env \in Namespaces : /\ DOMAIN env \subseteq STRING
                                         /\ env \in [DOMAIN env -> Seq(Nat)]

VARIABLES
  prog,                     \* chosen once
  ns, next, running, work,  \* the run: namespace, statement, what is left of it
  made,                     \* the calls it has made
  own,                      \* the calls the executor planned before their statements
  look                      \* one look of the planner, from its note of st.next on
vars == <<prog, ns, next, running, work, made, own, look>>

\* the elements of seq that are in S, in their order
Only(seq, S) == FoldLeft(LAMBDA kept, c : IF c \in S THEN Append(kept, c) ELSE kept, << >>, seq)

CallsOf(s) == ToSet(s.sure) \cup ToSet(s.maybe)
Parts(stmt) == ToSet(stmt.head) \cup ToSet(stmt.rest)
AllCalls(stmt) == UNION {CallsOf(s) : s \in Parts(stmt)}
Object == <<0>>
Builtin == <<9>>

-----------------------------------------------------------------------------
(* What planning knows. *)

AnyValue(v) == TRUE
Plain(v) == ToSet(v) \cap {0, 9} = {}

\* what a name stands for, and an f-string of it
Named(name, env) == IF name \in DOMAIN env THEN env[name] ELSE Builtin
Text(v) == IF v = Builtin THEN <<8>> ELSE IF 0 \in ToSet(v) THEN Object ELSE v \o <<1>>

Value(e, env) ==
  CASE e.kind = "lit" -> e.val
    [] e.kind = "name" -> Named(e.name, env)
    [] e.kind = "more" -> Text(Named(e.name, env))
    [] e.kind = "len" -> <<10 + Len(env[e.name])>>

\* the value of e where planning works it out: from literals and from names bound to
\* plain data, but whatever a builtin's own name is bound to
StaticEval(e, env) ==
  IF /\ e.kind # "opaque"
     /\ e.kind # "lit" /\ e.name # "len" => e.name \in DOMAIN env /\ Plain(env[e.name])
     /\ e.kind = "len" => "len" \notin DOMAIN env /\ e.name # "len"
  THEN {Value(e, env)} ELSE {}

Binds(stmt) == {stmt.binds} \cup {s.sets : s \in Parts(stmt)}
                 \cup (IF stmt.slot THEN {} ELSE {stmt.var})

NothingTouched(s) == {}
Handed(e) == IF e.kind \in {"len", "opaque"} THEN {e.name} ELSE {}
\* names whose values may change in place: altered, or handed to a call
Touched(s) == s.alters \cup {c.arg.name : c \in {d \in CallsOf(s) : d.arg.kind # "more"}}
                \cup Handed(s.to)

With(env, name, value) ==
  [n \in DOMAIN env \cup {name} |-> IF n = name THEN value ELSE env[n]]
Forget(env, names) == [n \in DOMAIN env \ names |-> env[n]]
Learn(s, env) ==
  LET known == StaticEval(s.to, env)
  IN  IF s.sets # "none" /\ known # {}
      THEN With(env, s.sets, CHOOSE v \in known : TRUE)
      ELSE Forget(env, {s.sets} \cup Touched(s))
LearnAll(stmt, env) ==
  IF stmt.kind = "simple" THEN Learn(stmt.head[1], env)
  ELSE Forget(env, Binds(stmt) \cup {stmt.var} \cup Handed(stmt.iter)
                     \cup UNION {Touched(s) : s \in Parts(stmt)})

NoneBlocks(calls, names) == FALSE
Blocks(calls, names) == \E c \in calls : c.tool \in names \ Always

\* a plan: calls with their arguments, and whether to look further
Resolve(plan, call, env) ==
  LET known == StaticEval(call.arg, env)
      step == [tool |-> call.tool, arg |-> CHOOSE v \in known : TRUE]
  IN  IF ~plan.on THEN plan
      ELSE IF known = {} THEN [plan EXCEPT !.on = call.tool \in Always]
      ELSE [plan EXCEPT !.calls = Append(@, step)]

Simple(plan, s, names, env) ==
  IF \E c \in ToSet(s.maybe) : c.tool \in names
  THEN [plan EXCEPT !.on = ~Blocks(CallsOf(s), names)]
  ELSE FoldLeft(LAMBDA p, c : IF c.tool \in names THEN Resolve(p, c, env) ELSE p, plan, s.sure)

\* straight-line code, each statement with what the ones before it bind
Straight(plan, stmts, names, env) ==
  FoldLeft(LAMBDA a, s : IF ~a.plan.on THEN a
                         ELSE [plan |-> Simple(a.plan, s, names, a.env), env |-> Learn(s, a.env)],
           [plan |-> plan, env |-> env], stmts).plan

\* planning binds names only: anything else would change the program's own values
OnlyNames(stmt) == ~stmt.slot
Bind(stmt, item, env) == With(env, stmt.var, <<item>>)

\* an unrolled loop: every pass starts from what was known before the loop
Loop(stmt, names, env) ==
  LET none == [calls |-> << >>, on |-> TRUE]
      rest == UNION {CallsOf(s) : s \in ToSet(stmt.rest)}
      pass(plan, item) ==
        IF plan.on /\ ~OnlyNames(stmt) THEN [plan EXCEPT !.on = FALSE]
        ELSE IF plan.on THEN Straight(plan, stmt.head, names, Bind(stmt, item, env))
        ELSE plan
      known == StaticEval(stmt.iter, env) \ {Builtin}
  IN  IF known = {} THEN [none EXCEPT !.on = ~Blocks(AllCalls(stmt), names)]
      ELSE LET items == CHOOSE v \in known : TRUE
               all == FoldLeft(pass, none, SubSeq(items, 1, Min({Len(items), MaxUnroll})))
           IN  [all EXCEPT !.on = @ /\ ~Blocks(rest, names)]

PlanCalls(stmt, names, env) ==
  CASE stmt.kind = "simple" -> Simple([calls |-> << >>, on |-> TRUE], stmt.head[1], names, env)
    [] stmt.kind = "for" -> Loop(stmt, names, env)
    [] stmt.kind = "if" -> [calls |-> << >>, on |-> ~Blocks(AllCalls(stmt), names)]
    [] stmt.kind = "def" -> [calls |-> << >>, on |-> TRUE]

\* _plan_ahead: the calls of the statements of `indices`, in order, as seen
\* from env; a name the code binds is not our tool from there on
StillOurs(names, stmt) == names \ Binds(stmt)
PlanAhead(indices, env) ==
  FoldLeft(LAMBDA a, i :
             IF ~a.on THEN a
             ELSE LET p == PlanCalls(prog[i], a.names, a.env)
                  IN  [calls |-> a.calls \o [n \in DOMAIN p.calls |->
                         [stmt |-> i, tool |-> p.calls[n].tool, arg |-> p.calls[n].arg]],
                       on |-> p.on,
                       names |-> StillOurs(a.names, prog[i]),
                       env |-> LearnAll(prog[i], a.env)],
           [calls |-> << >>, on |-> TRUE, names |-> Tools \ DOMAIN env, env |-> env],
           indices).calls

-----------------------------------------------------------------------------
(* The run of the code, and the two who plan while it goes on. *)

\* the planner's look: noted (0: not yet), taken with st.next = next and
\* st.running = running, and the calls it may start
NoLook == [noted |-> 0, taken |-> FALSE, next |-> 0, running |-> FALSE, calls |-> << >>]

Init == /\ prog \in Programs /\ ns \in Namespaces
        /\ next = 1 /\ running = FALSE /\ work = << >> /\ made = << >>
        /\ own = << >> /\ look = NoLook

\* what an expression is when it runs: the program's own `len` and a call's result are
\* values planning must not guess
Real(e, env) ==
  CASE e.kind = "len" /\ "len" \in DOMAIN env -> <<6>>
    [] e.kind = "opaque" -> <<4>>
    [] OTHER -> Value(e, env)

\* an unbound name raises, and so does a loop over a function: the code runs no further
Bound(e, env) == \/ e.kind \in {"lit", "opaque"}
                 \/ e.name \in DOMAIN env
                 \/ e.name = "len" /\ e.kind # "len"
Loops(e, env) == Bound(e, env) /\ Real(e, env) # Builtin

\* st.running is set right after the executor has planned the statement alone
Takes ==
  /\ ~running /\ next <= Len(prog)
  /\ own' = own \o PlanAhead(<<next>>, ns)
  /\ running' = TRUE
  /\ LET stmt == prog[next]
         do(s) == [op |-> "do", stmts |-> <<s>>, item |-> << >>]
         branch == [op |-> "branch", stmts |-> stmt.rest, item |-> << >>]
         parts == [n \in DOMAIN stmt.head |-> do(stmt.head[n])]
         pass(item) == <<[op |-> "bind", stmts |-> << >>, item |-> <<item>>]>> \o parts \o <<branch>>
         raise == [op |-> "raise", stmts |-> << >>, item |-> << >>]
     IN  work' = IF stmt.kind = "for" /\ ~Loops(stmt.iter, ns) THEN <<raise>>
                 ELSE IF stmt.kind = "for"
                 THEN FoldLeft(LAMBDA w, item : w \o pass(item), << >>, Real(stmt.iter, ns))
                 ELSE parts \o (IF stmt.rest = << >> THEN << >> ELSE <<branch>>)
  /\ UNCHANGED <<prog, ns, next, made, look>>

Altered(env, names) == [n \in DOMAIN env |-> IF n \in names THEN env[n] \o <<2>> ELSE env[n]]

\* the calls of one simple statement (those to tools still bound), and its effect
Runs(s, calls) ==
  /\ \A c \in ToSet(calls) : Bound(c.arg, ns)
  /\ s.sets # "none" => Bound(s.to, ns)
  /\ LET ours == Only(calls, {c \in ToSet(calls) : c.tool \notin DOMAIN ns})
     IN  made' = made \o [n \in DOMAIN ours |->
                            [stmt |-> next, tool |-> ours[n].tool, arg |-> Real(ours[n].arg, ns)]]
  /\ LET after == Altered(ns, s.alters)
     IN  ns' = IF s.sets = "none" THEN after ELSE With(after, s.sets, Real(s.to, ns))

Goes ==
  /\ running /\ work # << >>
  /\ LET w == Head(work) IN
     \/ /\ w.op = "bind"
        /\ ns' = IF prog[next].slot THEN Altered(ns, {prog[next].var})
                 ELSE With(ns, prog[next].var, w.item)
        /\ work' = Tail(work) /\ made' = made
     \/ /\ w.op = "do" /\ Runs(w.stmts[1], w.stmts[1].sure) /\ work' = Tail(work)
     \/ /\ w.op = "do" /\ w.stmts[1].maybe # << >>
        /\ Runs(w.stmts[1], w.stmts[1].sure \o w.stmts[1].maybe) /\ work' = Tail(work)
     \/ /\ w.op = "branch"
        /\ \/ work' = Tail(work)
           \/ work' = [n \in DOMAIN w.stmts |-> [op |-> "do", stmts |-> <<w.stmts[n]>>, item |-> << >>]]
                        \o Tail(work)
        /\ UNCHANGED <<ns, made>>
  /\ UNCHANGED <<prog, next, running, own, look>>

Finishes ==
  /\ running /\ work = << >>
  /\ running' = FALSE /\ next' = next + 1
  /\ ns' = IF prog[next].kind = "def" THEN With(ns, prog[next].binds, Object) ELSE ns
  /\ UNCHANGED <<prog, work, made, own, look>>

\* the planner notes st.next, and only later copies the namespace
Notes == /\ look.noted = 0 /\ next <= Len(prog)
         /\ look' = [look EXCEPT !.noted = next]
         /\ UNCHANGED <<prog, ns, next, running, work, made, own>>
FirstAhead(l) == l.next + (IF l.running THEN 1 ELSE 0)
NotPassed(calls, first) == Only(calls, {c \in ToSet(calls) : c.stmt >= first})
Looks ==
  /\ look.noted # 0 /\ ~look.taken
  /\ LET now == [look EXCEPT !.taken = TRUE, !.next = next, !.running = running]
         ahead == [n \in 1 .. Len(prog) + 1 - look.noted |-> look.noted + n - 1]
     IN  look' = [now EXCEPT !.calls = NotPassed(PlanAhead(ahead, ns), FirstAhead(now))]
  /\ UNCHANGED <<prog, ns, next, running, work, made, own>>

Next == Takes \/ Goes \/ Finishes \/ Notes \/ Looks
Spec == Init /\ [][Next]_vars

-----------------------------------------------------------------------------
\* The namespace the planner copied is the one before or after the statement it
\* noted, and learning that statement twice makes no difference.
Again(stmt) == stmt.kind = "simple" /\ stmt.head[1].sets # "none" /\ stmt.head[1].to.name = stmt.head[1].sets
Steady == \/ look.next = look.noted /\ ~look.running
          \/ /\ look.noted # 0 /\ ~Again(prog[look.noted])
             /\ \/ look.next = look.noted
                \/ look.next = look.noted + 1 /\ ~look.running

Count(seq, c) == Cardinality({n \in DOMAIN seq : seq[n] = c})
RunIsOver == next > Len(prog)

\* plan_calls returns calls the code "will certainly make": each planned call is
\* made by its statement, with that argument and as often, by the time the code
\* has run (if it runs to its end).
PlannedAreMade ==
  RunIsOver => /\ \A n \in DOMAIN own : Count(own, own[n]) <= Count(made, own[n])
               /\ Steady => \A n \in DOMAIN look.calls :
                              Count(look.calls, look.calls[n]) <= Count(made, look.calls[n])

\* "Planning stops at the first call it cannot see through", save calls to
\* early=True tools: the other calls planned are the very next ones made.
Blocking(seq) == Only(seq, {c \in ToSet(seq) : c.tool \notin Always})
NothingSkipped ==
  RunIsOver /\ Steady =>
    IsPrefix(Blocking(look.calls), Blocking(NotPassed(made, FirstAhead(look))))

\* "planning never runs model-written code: arguments are evaluated only when they are
\* ... names bound to plain built-in data": no argument it worked out is an object of
\* the program or what such an object answered.  Not so: a builtin's name is not asked.
PlannedFromPlainData ==
  /\ \A n \in DOMAIN own : 0 \notin ToSet(own[n].arg)
  /\ \A n \in DOMAIN look.calls : 0 \notin ToSet(look.calls[n].arg)

\* It is so, whenever planning looked, while the program has not rebound a builtin.
PlainUnlessRebound == "len" \notin DOMAIN ns => PlannedFromPlainData
=============================================================================
