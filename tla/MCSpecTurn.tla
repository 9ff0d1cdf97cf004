----------------------------- MODULE MCSpecTurn -----------------------------
(* Small programs for SpecTurn.  Calls: "read" and "ask" are early=True and *)
(* early_when tools, "send" is unmarked, "web" is an async early=True tool. *)
EXTENDS SpecTurn

Lit(k) == [key |-> k, needs |-> 0]
After(i, k) == [key |-> k, needs |-> i]
Line(runs, seen) == [runs |-> runs, seen |-> seen, draft |-> << >>, more |-> TRUE,
                     fails |-> FALSE, swallows |-> FALSE]
Simple(k) == Line(<<k>>, <<Lit(k)>>)
Code(stmts) == [stmts |-> stmts, parses |-> TRUE]
Broken(stmts) == [stmts |-> stmts, parses |-> FALSE]

\* a call to a function of the program that sends: planning looks straight past it
Helper == Line(<<"send">>, << >>)
ReadHelperRead == Code(<<Simple("read"), Helper, Simple("read")>>)
\* read; send; read again: the second read must see the send
ReadSendRead == Code(<<Simple("read"), Simple("send"), Simple("read")>>)
\* a loop still being typed, over a judged call, whose closed form also sends
Loop == [Line(<<"ask", "ask", "send">>, <<Lit("ask"), Lit("ask"), Lit("send")>>)
           EXCEPT !.draft = <<Lit("ask")>>]
LoopThenUse == Code(<<Loop, Line(<<"read">>, <<After(1, "read")>>)>>)
\* calls in a `try`, which planning never looks into, then one of them again
Guarded == [Line(<<"ask", "send">>, << >>) EXCEPT !.more = FALSE, !.swallows = TRUE]
CatchAll == Code(<<Guarded, Simple("ask")>>)
\* the branch planning bets on is not the one taken; then the program raises
Mispredicted == Code(<<Line(<<"read">>, <<Lit("ask"), Lit("read")>>),
                       [Simple("send") EXCEPT !.fails = TRUE]>>)
\* the last statement never becomes Python
NeverParses == Broken(<<Simple("ask"), Simple("send"), [Loop EXCEPT !.draft = <<Lit("read")>>]>>)

CorePrograms == {ReadHelperRead, ReadSendRead, LoopThenUse, CatchAll, Mispredicted, NeverParses}

\* the same async call twice, and a call whose argument a call gives: no call is
\* repeated from one statement to another
WebThenUse == Code(<<Line(<<"web", "web">>, <<Lit("web"), Lit("web")>>),
                     Line(<<"ask", "read">>, <<After(1, "ask"), Lit("read")>>)>>)
TurnPrograms == CorePrograms \cup {WebThenUse}

WebPrograms == {Code(<<Helper, Simple("web")>>)}

AskPrograms == {CatchAll}
=============================================================================
