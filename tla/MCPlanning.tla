----------------------------- MODULE MCPlanning -----------------------------
(* Small code for Planning: "read" is early=True, "ask" early_when, "send" *)
(* unmarked.  Names: x, y (text), o (an object), u (a loop's variable),    *)
(* z (never bound).                                                        *)
EXTENDS Planning

Lit == [kind |-> "lit", name |-> "none", val |-> <<3>>]
On(k, n) == [kind |-> k, name |-> n, val |-> << >>]
C(t, e) == [tool |-> t, arg |-> e]

Nothing == [sure |-> << >>, maybe |-> << >>, alters |-> {}, sets |-> "none", to |-> Lit]
Do(calls) == [Nothing EXCEPT !.sure = calls]
Set(n, e) == [Nothing EXCEPT !.sets = n, !.to = e]
Result(n, call) == [Nothing EXCEPT !.sure = <<call>>, !.sets = n, !.to = On("opaque", call.arg.name)]

Blank == [kind |-> "simple", head |-> << >>, rest |-> << >>, var |-> "none",
          slot |-> FALSE, iter |-> Lit, binds |-> "none"]
S(s) == [Blank EXCEPT !.head = <<s>>]
For(n, e, head, rest) == [Blank EXCEPT !.kind = "for", !.var = n, !.iter = e, !.head = head, !.rest = rest]
If(rest) == [Blank EXCEPT !.kind = "if", !.rest = rest]
Def(n) == [Blank EXCEPT !.kind = "def", !.binds = n]

Lines == {
  S(Set("x", Lit)), S(Set("y", On("more", "x"))), S(Set("x", On("more", "x"))),
  S(Set("y", On("more", "o"))), S(Set("x", On("len", "y"))),
  S(Do(<<C("read", On("name", "x"))>>)), S(Do(<<C("read", On("name", "y"))>>)),
  S(Do(<<C("read", On("name", "z"))>>)),
  S(Do(<<C("ask", On("more", "x")), C("read", On("len", "y"))>>)),
  S(Do(<<C("ask", On("name", "o"))>>)), S(Do(<<C("send", Lit)>>)),
  S(Result("x", C("read", On("name", "y")))), S(Result("y", C("ask", Lit))),
  S([Do(<<C("send", On("name", "y"))>>) EXCEPT !.alters = {"y"}]),
  S([Nothing EXCEPT !.alters = {"x"}]),
  S([Do(<<C("read", Lit)>>) EXCEPT !.maybe = <<C("ask", On("name", "y"))>>]),
  S([Nothing EXCEPT !.maybe = <<C("read", On("name", "y"))>>]),
  If(<<Do(<<C("ask", On("name", "x"))>>)>>), If(<<Set("x", On("more", "y"))>>),
  For("u", On("name", "y"), <<Do(<<C("ask", On("name", "u"))>>)>>, <<Do(<<C("read", On("name", "u"))>>)>>),
  For("u", On("name", "y"), <<Set("x", On("more", "u")), Do(<<C("read", On("name", "x"))>>)>>, << >>),
  [For("y", On("name", "x"), <<Do(<<C("ask", Lit)>>)>>, << >>) EXCEPT !.slot = TRUE],
  S(Do(<<C("read", On("more", "len"))>>)), S(Set("x", On("name", "len"))),
  For("u", On("name", "len"), <<Do(<<C("read", Lit)>>)>>, << >>),
  [Def("f") EXCEPT !.head = <<Do(<<C("read", On("name", "x"))>>)>>],
  Def("read") }

Codes == [1 .. 3 -> Lines]
Left == [x |-> <<1>>, y |-> <<1, 2>>, o |-> <<0>>]
AfterTurns == {Left, [n \in {"len"} |-> <<0>>] @@ Left}

\* a loop whose call depends on what the pass before it left
Carried == For("u", On("name", "y"), <<Do(<<C("read", On("name", "x"))>>), Set("x", On("more", "x"))>>, << >>)
CarriedCodes == {<<S(Set("x", Lit)), Carried, l>> : l \in Lines}
=============================================================================
