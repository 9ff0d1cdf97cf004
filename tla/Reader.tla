------------------------------- MODULE Reader -------------------------------
(***************************************************************************)
(* From the model's text to statements (repl.py: extract_code,             *)
(* closed_statements, open_statement, the planner's reading of st.code).   *)
(* A line is what can be told from it: a fence, or how it sits in Python   *)
(* code ("simple" and "head" are flush left, `x = 1` and `for u in us:`;   *)
(* "quote" opens or closes a string over several lines).  The last line is *)
(* still growing.  Statements are spans of lines of the code.              *)
(***************************************************************************)
EXTENDS Naturals, SequencesExt

CONSTANTS Looks, MaxLines  \* the kinds of line there may be, and how many

\* ```python, ```, ```json and ~~~
Fences == {"python", "bare", "data", "tilde"}
Starters == {"simple", "head", "quote"}
ASSUME KnownLooks == /\ Looks \subseteq Fences \cup Starters \cup {"body", "else", "filler"}
                     /\ MaxLines \in Nat

VARIABLES
  text, tail,         \* _text: its complete lines, and the one being written
  code, final,        \* st.code, the lines of it that may be used; st.final
  done, stmts, open,  \* lines_done, st.stmts, st.open_stmt ({} for None)
  stopped, abort      \* the planner has read the final block; it did not parse
vars == <<text, tail, code, final, done, stmts, open, stopped, abort>>

-----------------------------------------------------------------------------
(* Which lines are code.  A fence is closed by the bare one of its own mark. *)

ClosedBy(fence) == IF fence = "tilde" THEN "tilde" ELSE "bare"
Pair(acc, line) ==
  CASE acc.until = "none" /\ line \in Fences ->
         [acc EXCEPT !.until = ClosedBy(line), !.python = line # "data"]
    [] acc.until # "none" /\ line = acc.until -> [acc EXCEPT !.until = "none"]
    [] acc.until # "none" /\ line # acc.until /\ acc.python -> [acc EXCEPT !.lines = Append(@, line)]
    [] OTHER -> acc

Pairs(lines) ==  \* after each number of lines
  LET after[n \in 0 .. Len(lines)] ==
        IF n = 0 THEN [until |-> "none", python |-> FALSE, lines |-> << >>]
        ELSE Pair(after[n - 1], lines[n])
  IN  after
Extract(lines) == Pairs(lines)[Len(lines)].lines

\* the lines the planner may use: the one being written only once it is final
EveryLine(lines, last, whole) == Extract(Append(lines, last))
Usable(lines, last, whole) == Extract(IF whole THEN Append(lines, last) ELSE lines)

-----------------------------------------------------------------------------
(* ast.parse, as far as it matters where statements begin and end: what the *)
(* lines so far are waiting for.  "else" is any clause that goes on with a  *)
(* block, one that Python takes there: an elif or except, or the last one.  *)

Whole == {"top", "in"}  \* between statements, in a suite
Awaits(st, line) ==
  CASE st = "string" -> IF line = "quote" THEN "top" ELSE "string"
    [] st # "string" /\ line = "filler" -> st
    [] st \in Whole /\ line = "simple" -> "top"
    [] st \in Whole /\ line = "head" -> "head"
    [] st \in Whole /\ line = "quote" -> "string"
    [] st \in {"head", "in"} /\ line = "body" -> "in"
    [] st = "in" /\ line = "else" -> "head"
    [] OTHER -> "bad"

\* lines are numbered from `start` on, as lines of the whole code
Parser(acc, line) ==
  LET n == acc.line + 1
      grown == IF acc.body = << >> \/ (line = "filler" /\ acc.at # "string") THEN acc.body
               ELSE [acc.body EXCEPT ![Len(acc.body)].last = n]
  IN  [at |-> Awaits(acc.at, line), line |-> n,
       body |-> IF acc.at \in Whole /\ line \in Starters
                THEN Append(acc.body, [first |-> n, last |-> n]) ELSE grown]
Parsed(lines, start) ==
  LET after[n \in 0 .. Len(lines)] ==
        IF n = 0 THEN [at |-> "top", line |-> start, body |-> << >>]
        ELSE Parser(after[n - 1], lines[n])
  IN  after
Parse(lines, start) == Parsed(lines, start)[Len(lines)]
Parses(lines) == Parse(lines, 0).at \in Whole
Statements(lines, start) == Parse(lines, start).body

\* a later line that begins a statement: not blank, indented, a closer, a
\* comment, nor one that continues a block
MayContinue(line) == line \notin {"filler", "body"}
MayBegin(line) == line \notin {"filler", "body", "else"}

\* closed_statements: cut before the last such line if what precedes it parses
Cuts(lines, start) ==
  {k \in start + 2 .. Len(lines) : MayBegin(lines[k]) /\ Parses(SubSeq(lines, start + 1, k - 1))}
ClosedUpTo(lines, start) == IF Cuts(lines, start) = {} THEN start ELSE Max(Cuts(lines, start)) - 1

\* open_statement: the first one of the longest part that parses
FirstFrom(lines, start) ==
  LET parts == {k \in start + 1 .. Len(lines) : Parses(SubSeq(lines, start + 1, k))}
      body == Statements(SubSeq(lines, start + 1, Max(parts)), start)
  IN  IF parts = {} \/ body = << >> THEN {} ELSE {body[1]}
OpenFromTheTop(lines, start) == FirstFrom(lines, 0)
OpenStatement(lines, start) == FirstFrom(lines, start)

-----------------------------------------------------------------------------
Init == /\ text = << >> /\ tail = "filler" /\ code = << >> /\ final = FALSE
        /\ done = 0 /\ stmts = << >> /\ open = {}
        /\ stopped = FALSE /\ abort = FALSE

\* what a line that looks like t so far may look like later
FlushLeft == {"simple", "head", "else", "quote"}
Becomes(t, line) == \/ t = line \/ t = "filler"
                    \/ t \in FlushLeft /\ line \in FlushLeft
                    \/ t = "bare" /\ line \in {"python", "data"}

\* SpecRepl._feed: more of a line, or its end
Feed == /\ ~final
        /\ \E look \in Looks :
             /\ Becomes(tail, look)
             /\ \/ tail' = look /\ text' = text
                \/ Len(text) < MaxLines /\ text' = Append(text, look) /\ tail' = "filler"
        /\ code' = Usable(text', tail', FALSE)
        /\ UNCHANGED <<final, done, stmts, open, stopped, abort>>

\* the text is over, perhaps in the middle of a line
EndOfText == /\ ~final /\ final' = TRUE /\ code' = Usable(text, tail, TRUE)
             /\ UNCHANGED <<text, tail, done, stmts, open, stopped, abort>>

PlannerReads ==
  /\ ~final
  /\ done' = ClosedUpTo(code, done)
  /\ stmts' = stmts \o Statements(SubSeq(code, done + 1, done'), done)
  /\ open' = OpenStatement(code, done')
  /\ UNCHANGED <<text, tail, code, final, stopped, abort>>

PlannerReadsLast ==
  /\ final /\ ~stopped
  /\ stopped' = TRUE
  /\ LET rest == SubSeq(code, done + 1, Len(code)) IN
     \/ /\ Parses(rest)
        /\ stmts' = stmts \o Statements(rest, done) /\ done' = Len(code) /\ open' = {}
        /\ abort' = abort
     \/ /\ ~Parses(rest)
        /\ abort' = TRUE
        /\ UNCHANGED <<stmts, done, open>>
  /\ UNCHANGED <<text, tail, code, final>>

Next == Feed \/ EndOfText \/ PlannerReads \/ PlannerReadsLast
Spec == Init /\ [][Next]_vars

-----------------------------------------------------------------------------
\* However the text was cut up and whenever the planner read it, the statements
\* handed to the executor are those of the whole block read at once; the block
\* is refused exactly if it does not parse, and what was closed before is then
\* what comes before a line that could begin a statement.
AsIfReadAtOnce ==
  stopped => /\ abort <=> ~Parses(code)
             /\ ~abort => stmts = Statements(code, 0)
             /\ abort => Parses(SubSeq(code, 1, done)) /\ stmts = Statements(SubSeq(code, 1, done), 0)

\* "Only ever grows as `text` grows, apart from a last, still-incomplete line"
\* (extract_code): a line once given to the planner stays where it is.
CodeOnlyGrows == [][IsPrefix(code, code')]_code

\* "what is there is certain; the statement may still grow" (open_statement): the
\* statement planning looked at while it was open is how the next one begins.
OpenIsCertain ==
  [][Len(stmts') > Len(stmts) =>
       LET new == stmts'[Len(stmts) + 1]
       IN  \A o \in open : new.first = o.first /\ o.last <= new.last]_stmts
=============================================================================
