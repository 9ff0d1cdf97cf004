---------------------------- MODULE ReaderProofs ----------------------------
(* Reader proved for texts of any length: however a text is cut up and read, *)
(* its statements are those of the block read at once.  What the recursive   *)
(* functions give is shown by induction on the number of lines.              *)
EXTENDS Reader, WellFoundedInduction, FiniteSetTheorems, SequenceTheorems, TLAPS

(* Numbers: a set of them has a least one, by the well-founded order of the
   finite sets; so they can be induced on, with a set for the predicate.    *)
LEMMA Least ==
  ASSUME NEW T, T \subseteq Nat, T # {}
  PROVE  \E x \in T : \A y \in T : x <= y
<1> DEFINE R == StrictSubsetOrdering(Nat)
           F == FiniteSubsetsOf(Nat)
           B == {1 .. x : x \in T}
<1>1. IsWellFoundedOn(R, F)
  BY FS_StrictSubsetOrderingWellFounded
<1>2. B \subseteq F /\ B # {}
  <2>1. \A x \in T : 1 .. x \subseteq Nat /\ IsFiniteSet(1 .. x)
    BY FS_Interval
  <2>2. QED
    BY <2>1 DEF FiniteSubsetsOf
<1>3. \E b \in B : \A c \in B : ~(<<c, b>> \in R)
  <2> HIDE DEF R, F, B
  <2> QED
    BY <1>1, <1>2, WFMin
<1>4. PICK x \in T : \A c \in B : ~(<<c, 1 .. x>> \in R)
  BY <1>3
<1>5. ASSUME NEW y \in T, y < x
      PROVE  FALSE
  <2>1. <<1 .. y, 1 .. x>> \notin R
    BY <1>4, <1>5
  <2>2. 1 .. y \subseteq 1 .. x /\ x \in 1 .. x /\ x \notin 1 .. y /\ 1 .. x \subseteq Nat
    BY <1>5
  <2>3. QED
    BY <2>1, <2>2 DEF StrictSubsetOrdering
<1>6. QED
  BY <1>5

LEMMA Induction ==
  ASSUME NEW S, 0 \in S, \A n \in Nat : n \in S => n + 1 \in S
  PROVE  Nat \subseteq S
<1> DEFINE T == Nat \ S
<1>1. ASSUME T # {} PROVE FALSE
  <2>1. PICK x \in T : \A y \in T : x <= y
    BY <1>1, Least
  <2>2. x \in Nat /\ x # 0 /\ x - 1 \in Nat /\ x - 1 \notin T
    BY <2>1
  <2>3. QED
    BY <2>2
<1>2. QED
  BY <1>1

(* A bounded set of numbers has a greatest one, and it is its Max. *)
LEMMA MaxIsIn ==
  ASSUME NEW N \in Nat, NEW T, T \subseteq 0 .. N, T # {}
  PROVE  Max(T) \in T /\ \A y \in T : y <= Max(T)
<1> DEFINE B == {N - x : x \in T}
<1>1. B \subseteq Nat /\ B # {}
  <2>1. \A x \in T : N - x \in Nat
    OBVIOUS
  <2>2. QED
    BY <2>1
<1>2. PICK b \in B : \A c \in B : b <= c
  <2> HIDE DEF B
  <2> QED
    BY <1>1, Least
<1>3. PICK x \in T : b = N - x
  BY <1>2
<1>4. \A y \in T : y <= x
  <2> SUFFICES ASSUME NEW y \in T PROVE y <= x
    OBVIOUS
  <2>1. N - x <= N - y
    BY <1>2, <1>3
  <2>2. QED
    BY <2>1
<1>5. \E z \in T : \A y \in T : z >= y
  BY <1>4
<1>6. Max(T) \in T /\ \A y \in T : Max(T) >= y
  BY <1>5 DEF Max
<1>7. QED
  BY <1>6

-----------------------------------------------------------------------------
(* The parser, line by line. *)
Line == Fences \cup Starters \cup {"body", "else", "filler"}
States == Whole \cup {"string", "head", "bad"}
Span == [first : Nat, last : Nat]
Acc == [at : States, line : Nat, body : Seq(Span)]
Nothing(start) == [at |-> "top", line |-> start, body |-> << >>]

IsParsed(f, lines, start, length) ==
  f = [m \in 0 .. length |-> IF m = 0 THEN Nothing(start) ELSE Parser(f[m - 1], lines[m])]

LEMMA ParsedExists ==
  ASSUME NEW lines, NEW start
  PROVE  \A n \in Nat : \E f : IsParsed(f, lines, start, n)
<1> DEFINE S == {n \in Nat : \E f : IsParsed(f, lines, start, n)}
<1>1. 0 \in S
  <2> DEFINE f == [m \in 0 .. 0 |-> Nothing(start)]
  <2>1. f = [m \in 0 .. 0 |-> IF m = 0 THEN Nothing(start) ELSE Parser(f[m - 1], lines[m])]
    OBVIOUS
  <2>2. IsParsed(f, lines, start, 0)
    BY <2>1 DEF IsParsed
  <2>3. QED
    BY <2>2
<1>2. ASSUME NEW n \in Nat, n \in S PROVE n + 1 \in S
  <2>0. PICK f : IsParsed(f, lines, start, n)
    BY <1>2
  <2>1. \A m \in 0 .. n : f[m] = IF m = 0 THEN Nothing(start) ELSE Parser(f[m - 1], lines[m])
    BY <2>0 DEF IsParsed
  <2> DEFINE g == [m \in 0 .. n + 1 |-> IF m = n + 1 THEN Parser(f[n], lines[n + 1]) ELSE f[m]]
  <2>2. g[n] = f[n] /\ \A m \in 1 .. n : g[m - 1] = f[m - 1]
    OBVIOUS
  <2>3. \A m \in 0 .. n + 1 :
          g[m] = IF m = 0 THEN Nothing(start) ELSE Parser(g[m - 1], lines[m])
    <3> SUFFICES ASSUME NEW m \in 0 .. n + 1
                 PROVE  g[m] = IF m = 0 THEN Nothing(start) ELSE Parser(g[m - 1], lines[m])
      OBVIOUS
    <3>1. CASE m = n + 1
      BY <2>2, <3>1
    <3>2. CASE m # n + 1
      <4>1. m \in 0 .. n /\ g[m] = f[m]
        BY <3>2
      <4>2. f[m] = IF m = 0 THEN Nothing(start) ELSE Parser(f[m - 1], lines[m])
        BY <2>1, <4>1
      <4>3. QED
        BY <2>2, <4>1, <4>2
    <3>3. QED
      BY <3>1, <3>2
  <2>4. g = [m \in 0 .. n + 1 |-> IF m = 0 THEN Nothing(start) ELSE Parser(g[m - 1], lines[m])]
    BY <2>3
  <2>5. IsParsed(g, lines, start, n + 1)
    BY <2>4 DEF IsParsed
  <2>6. QED
    BY <2>5
<1>3. Nat \subseteq S
  <2> HIDE DEF S
  <2> QED
    BY <1>1, <1>2, Induction
<1>4. QED
  BY <1>3

(* The equations of the recursion. *)
LEMMA ParsedRec ==
  ASSUME NEW lines \in Seq(Line), NEW start
  PROVE  /\ Parsed(lines, start)[0] = Nothing(start)
         /\ \A n \in 1 .. Len(lines) :
              Parsed(lines, start)[n] = Parser(Parsed(lines, start)[n - 1], lines[n])
<1> DEFINE P == Parsed(lines, start)
<1>1. P = CHOOSE f : IsParsed(f, lines, start, Len(lines))
  BY DEF Parsed, Nothing, IsParsed
<1>2. \E f : IsParsed(f, lines, start, Len(lines))
  <2>1. Len(lines) \in Nat
    OBVIOUS
  <2>2. \A n \in Nat : \E f : IsParsed(f, lines, start, n)
    BY ParsedExists
  <2>3. QED
    BY <2>1, <2>2
<1>3. IsParsed(P, lines, start, Len(lines))
  <2> HIDE DEF P
  <2> QED
    BY <1>1, <1>2
<1>4. \A n \in 0 .. Len(lines) : P[n] = IF n = 0 THEN Nothing(start)
                                        ELSE Parser(P[n - 1], lines[n])
  <2> HIDE DEF P
  <2> QED
    BY <1>3 DEF IsParsed
<1>5. QED
  BY <1>4

LEMMA AwaitsTyped == \A st \in States, line \in Line : Awaits(st, line) \in States
  BY DEF Awaits, States, Whole, Line, Fences, Starters

(* A statement that grows, and what one line does to them. *)
Longer(span, n) == [first |-> span.first, last |-> n]
Grow(body, n) == [body EXCEPT ![Len(body)] = Longer(body[Len(body)], n)]
NextBody(acc, line) ==
  IF acc.at \in Whole /\ line \in Starters
  THEN Append(acc.body, [first |-> acc.line + 1, last |-> acc.line + 1])
  ELSE IF acc.body = << >> \/ (line = "filler" /\ acc.at # "string")
       THEN acc.body ELSE Grow(acc.body, acc.line + 1)

LEMMA GrowIs ==
  ASSUME NEW body \in Seq(Span), body # << >>, NEW n \in Nat
  PROVE  /\ Grow(body, n) \in Seq(Span) /\ Len(Grow(body, n)) = Len(body)
         /\ \A i \in 1 .. Len(body) :
              Grow(body, n)[i] = IF i = Len(body) THEN Longer(body[i], n) ELSE body[i]
<1>1. Len(body) \in 1 .. Len(body)
  BY EmptySeq
<1>2. body[Len(body)] \in Span
  BY <1>1, ElementOfSeq
<1>3. Longer(body[Len(body)], n) \in Span
  BY <1>2 DEF Longer, Span
<1>4. QED
  BY <1>1, <1>3, ExceptSeq DEF Grow

LEMMA GrowOfBoth ==
  ASSUME NEW B \in Seq(Span), NEW body \in Seq(Span), body # << >>, NEW n \in Nat
  PROVE  Grow(B \o body, n) = B \o Grow(body, n)
<1> DEFINE W == B \o body
           G == Grow(body, n)
<1>1. /\ W \in Seq(Span) /\ Len(W) = Len(B) + Len(body) /\ Len(B) \in Nat /\ Len(body) \in Nat
      /\ \A i \in 1 .. Len(W) : W[i] = IF i <= Len(B) THEN B[i] ELSE body[i - Len(B)]
  BY ConcatProperties
<1>2. Len(body) # 0 /\ W # << >>
  BY ConcatEqualIffEmpty, EmptySeq
<1>3. /\ G \in Seq(Span) /\ Len(G) = Len(body)
      /\ \A i \in 1 .. Len(body) :
           G[i] = IF i = Len(body) THEN Longer(body[i], n) ELSE body[i]
  BY GrowIs
<1> HIDE DEF W, G
<1>4. /\ Grow(W, n) \in Seq(Span) /\ Len(Grow(W, n)) = Len(W)
      /\ \A i \in 1 .. Len(W) :
           Grow(W, n)[i] = IF i = Len(W) THEN Longer(W[i], n) ELSE W[i]
  BY <1>1, <1>2, GrowIs
<1>5. /\ B \o G \in Seq(Span) /\ Len(B \o G) = Len(W)
      /\ \A i \in 1 .. Len(W) : (B \o G)[i] = IF i <= Len(B) THEN B[i] ELSE G[i - Len(B)]
  <2>1. /\ B \o G \in Seq(Span) /\ Len(B \o G) = Len(B) + Len(G)
        /\ \A i \in 1 .. Len(B) + Len(G) :
             (B \o G)[i] = IF i <= Len(B) THEN B[i] ELSE G[i - Len(B)]
    BY <1>3, ConcatProperties
  <2>2. QED
    BY <1>1, <1>3, <2>1
<1>6. ASSUME NEW i \in 1 .. Len(W) PROVE Grow(W, n)[i] = (B \o G)[i]
  <2>1. CASE i <= Len(B)
    <3>1. i # Len(W)
      BY <1>1, <1>2, <2>1
    <3>2. QED
      BY <1>1, <1>4, <1>5, <2>1, <3>1
  <2>2. CASE ~(i <= Len(B))
    <3>1. /\ i - Len(B) \in 1 .. Len(body) /\ (i = Len(W) <=> i - Len(B) = Len(body))
          /\ W[i] = body[i - Len(B)] /\ (B \o G)[i] = G[i - Len(B)]
      BY <1>1, <1>5, <2>2
    <3>2. QED
      BY <1>3, <1>4, <3>1
  <2>3. QED
    BY <2>1, <2>2
<1>7. Grow(W, n) = B \o G
  BY <1>4, <1>5, <1>6, SeqEqual
<1>8. QED
  BY <1>7 DEF W, G

LEMMA AppendOfBoth ==
  ASSUME NEW B \in Seq(Span), NEW body \in Seq(Span), NEW span \in Span
  PROVE  Append(B \o body, span) = B \o Append(body, span)
<1>1. << span >> \in Seq(Span) /\ B \o body \in Seq(Span)
  OBVIOUS
<1>2. \A s \in Seq(Span) : Append(s, span) = s \o << span >>
  OBVIOUS
<1>3. (B \o body) \o << span >> = B \o (body \o << span >>)
  BY <1>1, ConcatAssociative
<1>4. QED
  BY <1>1, <1>2, <1>3

(* One line: a statement begins, or the last one grows, or neither. *)
LEMMA ParserStep ==
  ASSUME NEW acc \in Acc, NEW line \in Line
  PROVE  /\ Parser(acc, line) \in Acc
         /\ Parser(acc, line).at = Awaits(acc.at, line)
         /\ Parser(acc, line).line = acc.line + 1
         /\ Parser(acc, line).body = NextBody(acc, line)
<1> DEFINE n == acc.line + 1
<1>1. acc.body \in Seq(Span) /\ n \in Nat /\ acc.at \in States
  BY DEF Acc
<1>2. ASSUME acc.body # << >>
      PROVE  [acc.body EXCEPT ![Len(acc.body)].last = n] = Grow(acc.body, n)
  <2>1. Len(acc.body) \in 1 .. Len(acc.body)
    BY <1>1, <1>2, EmptySeq
  <2>2. acc.body[Len(acc.body)] \in Span
    BY <1>1, <2>1, ElementOfSeq
  <2>3. \A s \in Span : [s EXCEPT !.last = n] = Longer(s, n)
    BY DEF Span, Longer
  <2>4. [acc.body EXCEPT ![Len(acc.body)].last = n]
          = [acc.body EXCEPT ![Len(acc.body)] = [acc.body[Len(acc.body)] EXCEPT !.last = n]]
    BY <1>1
  <2>5. QED
    BY <2>2, <2>3, <2>4 DEF Grow
<1>3. Parser(acc, line) = [at |-> Awaits(acc.at, line), line |-> n, body |-> NextBody(acc, line)]
  BY <1>2 DEF Parser, NextBody
<1>4. NextBody(acc, line) \in Seq(Span)
  <2>1. Append(acc.body, [first |-> n, last |-> n]) \in Seq(Span)
    BY <1>1 DEF Span
  <2>2. acc.body # << >> => Grow(acc.body, n) \in Seq(Span)
    BY <1>1, GrowIs
  <2>3. QED
    BY <1>1, <2>1, <2>2 DEF NextBody
<1>5. Awaits(acc.at, line) \in States
  BY <1>1, AwaitsTyped
<1>6. QED
  BY <1>1, <1>3, <1>4, <1>5 DEF Acc

(* Every state of the parser is one, and counts its lines. *)
LEMMA ParsedTyped ==
  ASSUME NEW lines \in Seq(Line), NEW start \in Nat
  PROVE  \A n \in 0 .. Len(lines) : /\ Parsed(lines, start)[n] \in Acc
                                    /\ Parsed(lines, start)[n].line = start + n
<1> DEFINE P == Parsed(lines, start)
           S == {n \in Nat : n <= Len(lines) => P[n] \in Acc /\ P[n].line = start + n}
<1>0. P[0] = Nothing(start) /\ \A n \in 1 .. Len(lines) : P[n] = Parser(P[n - 1], lines[n])
  BY ParsedRec
<1> HIDE DEF P
<1>1. 0 \in S
  <2>1. Nothing(start) \in Acc /\ Nothing(start).line = start + 0
    BY DEF Nothing, Acc, States, Whole
  <2>2. QED
    BY <1>0, <2>1
<1>2. ASSUME NEW n \in Nat, n \in S PROVE n + 1 \in S
  <2> SUFFICES ASSUME n + 1 <= Len(lines)
               PROVE  P[n + 1] \in Acc /\ P[n + 1].line = start + (n + 1)
    OBVIOUS
  <2>1. P[n] \in Acc /\ P[n].line = start + n
    BY <1>2
  <2>2. n + 1 \in 1 .. Len(lines) /\ lines[n + 1] \in Line /\ (n + 1) - 1 = n
    OBVIOUS
  <2>3. P[n + 1] = Parser(P[n], lines[n + 1])
    BY <1>0, <2>2
  <2>4. Parser(P[n], lines[n + 1]) \in Acc /\ Parser(P[n], lines[n + 1]).line = P[n].line + 1
    BY <2>1, <2>2, ParserStep
  <2>5. QED
    BY <2>1, <2>3, <2>4
<1>3. Nat \subseteq S
  <2> HIDE DEF S
  <2> QED
    BY <1>1, <1>2, Induction
<1>4. QED
  BY <1>3 DEF P

(* A part of the lines is parsed as the whole of them is, so far. *)
LEMMA ParsedPrefix ==
  ASSUME NEW lines \in Seq(Line), NEW more \in Seq(Line), NEW start,
         Len(lines) <= Len(more), \A i \in 1 .. Len(lines) : lines[i] = more[i]
  PROVE  \A n \in 0 .. Len(lines) : Parsed(lines, start)[n] = Parsed(more, start)[n]
<1> DEFINE P == Parsed(lines, start)
           Q == Parsed(more, start)
           S == {n \in Nat : n <= Len(lines) => P[n] = Q[n]}
<1>0. /\ P[0] = Nothing(start) /\ \A n \in 1 .. Len(lines) : P[n] = Parser(P[n - 1], lines[n])
      /\ Q[0] = Nothing(start) /\ \A n \in 1 .. Len(more) : Q[n] = Parser(Q[n - 1], more[n])
  BY ParsedRec
<1> HIDE DEF P, Q
<1>1. 0 \in S
  BY <1>0
<1>2. ASSUME NEW n \in Nat, n \in S PROVE n + 1 \in S
  <2> SUFFICES ASSUME n + 1 <= Len(lines) PROVE P[n + 1] = Q[n + 1]
    OBVIOUS
  <2>1. P[n] = Q[n] /\ (n + 1) - 1 = n
    BY <1>2
  <2>2. n + 1 \in 1 .. Len(lines) /\ n + 1 \in 1 .. Len(more)
    OBVIOUS
  <2>3. P[n + 1] = Parser(P[n], lines[n + 1]) /\ Q[n + 1] = Parser(Q[n], more[n + 1])
    BY <1>0, <2>1, <2>2
  <2>4. QED
    BY <2>1, <2>2, <2>3
<1>3. Nat \subseteq S
  <2> HIDE DEF S
  <2> QED
    BY <1>1, <1>2, Induction
<1>4. QED
  BY <1>3 DEF P, Q

(* Where the numbering begins does not matter to what is awaited. *)
LEMMA AtAnyStart ==
  ASSUME NEW lines \in Seq(Line), NEW start \in Nat, NEW other \in Nat
  PROVE  \A n \in 0 .. Len(lines) : Parsed(lines, start)[n].at = Parsed(lines, other)[n].at
<1> DEFINE P == Parsed(lines, start)
           Q == Parsed(lines, other)
           S == {n \in Nat : n <= Len(lines) => P[n].at = Q[n].at}
<1>0. /\ P[0] = Nothing(start) /\ \A n \in 1 .. Len(lines) : P[n] = Parser(P[n - 1], lines[n])
      /\ Q[0] = Nothing(other) /\ \A n \in 1 .. Len(lines) : Q[n] = Parser(Q[n - 1], lines[n])
      /\ \A n \in 0 .. Len(lines) : P[n] \in Acc /\ Q[n] \in Acc
  BY ParsedRec, ParsedTyped
<1> HIDE DEF P, Q
<1>1. 0 \in S
  BY <1>0 DEF Nothing
<1>2. ASSUME NEW n \in Nat, n \in S PROVE n + 1 \in S
  <2> SUFFICES ASSUME n + 1 <= Len(lines) PROVE P[n + 1].at = Q[n + 1].at
    OBVIOUS
  <2>1. P[n].at = Q[n].at /\ (n + 1) - 1 = n
    BY <1>2
  <2>2. n \in 0 .. Len(lines) /\ n + 1 \in 1 .. Len(lines) /\ lines[n + 1] \in Line
    OBVIOUS
  <2>3. P[n + 1] = Parser(P[n], lines[n + 1]) /\ Q[n + 1] = Parser(Q[n], lines[n + 1])
    BY <1>0, <2>1, <2>2
  <2>4. P[n] \in Acc /\ Q[n] \in Acc
    BY <1>0, <2>2
  <2>5. Parser(P[n], lines[n + 1]).at = Awaits(P[n].at, lines[n + 1])
    BY <2>2, <2>4, ParserStep
  <2>6. Parser(Q[n], lines[n + 1]).at = Awaits(Q[n].at, lines[n + 1])
    BY <2>2, <2>4, ParserStep
  <2>7. QED
    BY <2>1, <2>3, <2>5, <2>6
<1>3. Nat \subseteq S
  <2> HIDE DEF S
  <2> QED
    BY <1>1, <1>2, Induction
<1>4. QED
  BY <1>3 DEF P, Q

-----------------------------------------------------------------------------
(* Parts of the code.  `Rest` is what follows the first d lines.            *)
Rest(lines, d) == SubSeq(lines, d + 1, Len(lines))

LEMMA RestIs ==
  ASSUME NEW lines \in Seq(Line), NEW d \in 0 .. Len(lines)
  PROVE  /\ Rest(lines, d) \in Seq(Line) /\ Len(Rest(lines, d)) = Len(lines) - d
         /\ \A i \in 1 .. Len(lines) - d : Rest(lines, d)[i] = lines[d + i]
  BY DEF Rest

(* The parse of a part is met on the way of the parse of all that follows. *)
LEMMA PartIs ==
  ASSUME NEW lines \in Seq(Line), NEW d \in 0 .. Len(lines), NEW k \in d .. Len(lines),
         NEW start \in Nat
  PROVE  /\ SubSeq(lines, d + 1, k) \in Seq(Line)
         /\ Parse(SubSeq(lines, d + 1, k), start) = Parsed(Rest(lines, d), start)[k - d]
<1> DEFINE part == SubSeq(lines, d + 1, k)
           rest == Rest(lines, d)
<1>1. part \in Seq(Line) /\ Len(part) = k - d /\ \A i \in 1 .. k - d : part[i] = lines[d + i]
  OBVIOUS
<1>2. rest \in Seq(Line) /\ Len(rest) = Len(lines) - d
      /\ \A i \in 1 .. Len(lines) - d : rest[i] = lines[d + i]
  BY RestIs
<1> HIDE DEF part, rest
<1>3. Len(part) <= Len(rest) /\ \A i \in 1 .. Len(part) : part[i] = rest[i]
  BY <1>1, <1>2
<1>4. \A n \in 0 .. Len(part) : Parsed(part, start)[n] = Parsed(rest, start)[n]
  BY <1>1, <1>2, <1>3, ParsedPrefix
<1>5. Parsed(part, start)[Len(part)] = Parsed(rest, start)[k - d]
  BY <1>1, <1>4
<1>6. Parse(part, start) = Parsed(part, start)[Len(part)]
  BY DEF Parse
<1>7. QED
  BY <1>1, <1>5, <1>6 DEF part, rest

LEMMA RestOfAll ==
  ASSUME NEW lines \in Seq(Line)
  PROVE  Rest(lines, 0) = lines
  BY DEF Rest

(* After a whole statement, a line that may begin one is read as at the top. *)
LEMMA BeginsAfresh ==
  \A st \in Whole, line \in Line : MayBegin(line) => Awaits(st, line) = Awaits("top", line)
  BY DEF Awaits, Whole, Line, Fences, Starters, MayBegin

LEMMA BadStays == \A line \in Line : Awaits("bad", line) = "bad"
  BY DEF Awaits, Whole, Line, Fences, Starters

(* Where the first d lines are whole statements, and the next line may begin
   one, the rest is parsed as if it stood alone: it awaits the same, and its
   statements follow those before.                                         *)
Follows(w, r, B) ==
  /\ w.at = r.at
  /\ w.at # "bad" => w.body = B \o r.body /\ (r.body = << >> => B = << >>)

LEMMA SplitStep ==
  ASSUME NEW B \in Seq(Span), NEW w \in Acc, NEW r \in Acc, NEW line \in Line,
         w.line = r.line, Follows(w, r, B)
  PROVE  Follows(Parser(w, line), Parser(r, line), B)
<1>1. /\ Parser(w, line).at = Awaits(w.at, line)
      /\ Parser(w, line).body = NextBody(w, line)
  BY ParserStep
<1>2. /\ Parser(r, line).at = Awaits(r.at, line)
      /\ Parser(r, line).body = NextBody(r, line)
  BY ParserStep
<1>3. w.at = r.at
  BY DEF Follows
<1>4. SUFFICES ASSUME w.at # "bad"
               PROVE  /\ NextBody(w, line) = B \o NextBody(r, line)
                      /\ NextBody(r, line) = << >> => B = << >>
  <2>1. w.at = "bad" => Awaits(w.at, line) = "bad"
    BY BadStays
  <2>2. QED
    BY <1>1, <1>2, <1>3, <2>1 DEF Follows
<1>5. /\ w.body = B \o r.body /\ (r.body = << >> => B = << >>)
      /\ r.body \in Seq(Span) /\ w.line \in Nat
  BY <1>4 DEF Follows, Acc
<1>6. (w.body = << >>) <=> (r.body = << >>)
  BY <1>5, ConcatEqualIffEmpty
<1>7. CASE w.at \in Whole /\ line \in Starters
  <2> DEFINE new == [first |-> w.line + 1, last |-> w.line + 1]
  <2>1. new \in Span
    BY <1>5 DEF Span
  <2>2. NextBody(w, line) = Append(w.body, new) /\ NextBody(r, line) = Append(r.body, new)
    BY <1>3, <1>7 DEF NextBody
  <2> HIDE DEF new
  <2>3. Append(B \o r.body, new) = B \o Append(r.body, new)
    BY <1>5, <2>1, AppendOfBoth
  <2>4. Append(r.body, new) # << >>
    <3>1. r.body \o << new >> # << >> /\ Append(r.body, new) = r.body \o << new >>
      BY <1>5, <2>1, ConcatEqualIffEmpty
    <3>2. QED
      BY <3>1
  <2>5. QED
    BY <1>5, <2>2, <2>3, <2>4
<1>8. CASE /\ ~(w.at \in Whole /\ line \in Starters)
           /\ r.body = << >> \/ (line = "filler" /\ w.at # "string")
  <2>1. NextBody(w, line) = w.body /\ NextBody(r, line) = r.body
    BY <1>3, <1>6, <1>8 DEF NextBody
  <2>2. QED
    BY <1>5, <2>1
<1>9. CASE /\ ~(w.at \in Whole /\ line \in Starters)
           /\ ~(r.body = << >> \/ (line = "filler" /\ w.at # "string"))
  <2>1. /\ NextBody(w, line) = Grow(w.body, w.line + 1)
        /\ NextBody(r, line) = Grow(r.body, w.line + 1)
    BY <1>3, <1>6, <1>9 DEF NextBody
  <2>2. r.body # << >> /\ w.line + 1 \in Nat
    BY <1>5, <1>9
  <2>3. Grow(B \o r.body, w.line + 1) = B \o Grow(r.body, w.line + 1)
    BY <1>5, <2>2, GrowOfBoth
  <2>4. Grow(r.body, w.line + 1) # << >>
    <3>1. Len(Grow(r.body, w.line + 1)) = Len(r.body)
      BY <1>5, <2>2, GrowIs
    <3>2. Len(r.body) # 0
      BY <1>5, <2>2, EmptySeq
    <3>3. QED
      BY <3>1, <3>2, EmptySeq
  <2>5. QED
    BY <1>5, <2>1, <2>3, <2>4
<1>10. QED
  BY <1>7, <1>8, <1>9

WholeUpTo(lines, d) ==
  /\ Parsed(lines, 0)[d].at \in Whole
  /\ d = 0 \/ d = Len(lines) \/ MayBegin(lines[d + 1])
Splits(lines, d, n) ==
  Follows(Parsed(lines, 0)[d + n], Parsed(Rest(lines, d), d)[n], Parsed(lines, 0)[d].body)

(* How the parses of the whole and of the rest go on. *)
LEMMA Both ==
  ASSUME NEW lines \in Seq(Line), NEW d \in 0 .. Len(lines), NEW n \in 0 .. Len(lines) - d
  PROVE  /\ Parsed(lines, 0)[d + n] \in Acc /\ Parsed(lines, 0)[d + n].line = d + n
         /\ Parsed(Rest(lines, d), d)[n] \in Acc /\ Parsed(Rest(lines, d), d)[n].line = d + n
         /\ n < Len(lines) - d =>
              /\ lines[d + n + 1] \in Line
              /\ Parsed(lines, 0)[d + n + 1] = Parser(Parsed(lines, 0)[d + n], lines[d + n + 1])
              /\ Parsed(Rest(lines, d), d)[n + 1]
                   = Parser(Parsed(Rest(lines, d), d)[n], lines[d + n + 1])
<1> DEFINE rest == Rest(lines, d)
           P == Parsed(lines, 0)
           R == Parsed(rest, d)
<1>1. /\ rest \in Seq(Line) /\ Len(rest) = Len(lines) - d
      /\ \A i \in 1 .. Len(lines) - d : rest[i] = lines[d + i]
  BY RestIs
<1> HIDE DEF rest
<1>2. d \in Nat /\ d + n \in 0 .. Len(lines) /\ n \in 0 .. Len(rest)
  BY <1>1
<1>3. P[d + n] \in Acc /\ P[d + n].line = 0 + (d + n)
  BY <1>2, ParsedTyped
<1>4. R[n] \in Acc /\ R[n].line = d + n
  BY <1>1, <1>2, ParsedTyped
<1>5. ASSUME n < Len(lines) - d
      PROVE  /\ lines[d + n + 1] \in Line
             /\ P[d + n + 1] = Parser(P[d + n], lines[d + n + 1])
             /\ R[n + 1] = Parser(R[n], lines[d + n + 1])
  <2>1. /\ d + n + 1 \in 1 .. Len(lines) /\ n + 1 \in 1 .. Len(rest)
        /\ (d + n + 1) - 1 = d + n /\ (n + 1) - 1 = n /\ d + (n + 1) = d + n + 1
    BY <1>1, <1>2, <1>5
  <2>2. P[d + n + 1] = Parser(P[(d + n + 1) - 1], lines[d + n + 1])
    BY <2>1, ParsedRec
  <2>3. R[n + 1] = Parser(R[(n + 1) - 1], rest[n + 1])
    BY <1>1, <2>1, ParsedRec
  <2>4. rest[n + 1] = lines[d + n + 1] /\ lines[d + n + 1] \in Line
    BY <1>1, <2>1
  <2>5. QED
    BY <2>1, <2>2, <2>3, <2>4
<1>6. QED
  BY <1>2, <1>3, <1>4, <1>5 DEF rest

LEMMA SplitFirst ==
  ASSUME NEW lines \in Seq(Line), NEW d \in 0 .. Len(lines), WholeUpTo(lines, d), d < Len(lines)
  PROVE  Splits(lines, d, 1)
<1> DEFINE line == lines[d + 1]
           p == Parsed(lines, 0)[d]
           w == Parsed(lines, 0)[d + 1]
           r == Parsed(Rest(lines, d), d)[1]
<1>1. p \in Acc /\ p.line = d /\ line \in Line /\ w = Parser(p, line) /\ r = Parser(Nothing(d), line)
  <2>1. 0 \in 0 .. Len(lines) - d /\ 0 < Len(lines) - d /\ d + 0 = d /\ d + 0 + 1 = d + 1 /\ 0 + 1 = 1
    OBVIOUS
  <2>2. Parsed(Rest(lines, d), d)[0] = Nothing(d)
    BY ParsedRec, RestIs
  <2>3. QED
    BY <2>1, <2>2, Both
<1>2. Nothing(d) \in Acc /\ Nothing(d).at = "top" /\ Nothing(d).line = d /\ Nothing(d).body = << >>
  BY DEF Nothing, Acc, States, Whole
<1>3. p.at \in Whole /\ (d = 0 \/ MayBegin(line))
  BY DEF WholeUpTo
<1>4. d = 0 => p = Nothing(d)
  BY ParsedRec
<1> HIDE DEF p, w, r, line
<1>5. /\ w.at = Awaits(p.at, line) /\ w.body = NextBody(p, line) /\ w \in Acc
  BY <1>1, ParserStep
<1>6. /\ r.at = Awaits("top", line) /\ r.body = NextBody(Nothing(d), line)
  BY <1>1, <1>2, ParserStep
<1>7. p.body \in Seq(Span) /\ w.body \in Seq(Span)
  BY <1>1, <1>5 DEF Acc
<1>8. Follows(w, r, p.body)
  <2>1. CASE d = 0
    <3>1. p.body = << >> /\ r = w
      BY <1>1, <1>2, <1>4, <2>1
    <3>2. << >> \o w.body = w.body
      BY <1>7, ConcatEmptySeq
    <3>3. QED
      BY <3>1, <3>2 DEF Follows
  <2>2. CASE MayBegin(line)
    <3>1. w.at = r.at
      BY <1>1, <1>3, <1>5, <1>6, <2>2, BeginsAfresh
    <3>2. CASE line \in Starters
      <4> DEFINE new == [first |-> d + 1, last |-> d + 1]
      <4>1. NextBody(p, line) = Append(p.body, new) /\ NextBody(Nothing(d), line) = Append(<< >>, new)
        BY <1>1, <1>2, <1>3, <3>2 DEF NextBody, Whole
      <4>2. new \in Span /\ << >> \in Seq(Span)
        BY DEF Span
      <4> HIDE DEF new
      <4>3. Append(p.body \o << >>, new) = p.body \o Append(<< >>, new)
        BY <1>7, <4>2, AppendOfBoth
      <4>4. p.body \o << >> = p.body /\ Append(<< >>, new) # << >>
        BY <1>7, <4>2, ConcatEmptySeq
      <4>5. QED
        BY <1>5, <1>6, <3>1, <4>1, <4>3, <4>4 DEF Follows
    <3>3. CASE line \notin Starters
      <4>1. Awaits("top", line) = "bad"
        BY <1>1, <2>2, <3>3 DEF Awaits, MayBegin, Line, Fences, Starters, Whole
      <4>2. QED
        BY <1>6, <3>1, <4>1 DEF Follows
    <3>4. QED
      BY <3>2, <3>3
  <2>3. QED
    BY <1>3, <2>1, <2>2
<1>9. QED
  BY <1>8 DEF Splits, p, w, r

LEMMA Split ==
  ASSUME NEW lines \in Seq(Line), NEW d \in 0 .. Len(lines), WholeUpTo(lines, d)
  PROVE  \A n \in 1 .. Len(lines) - d : Splits(lines, d, n)
<1> DEFINE S == {n \in Nat : n + 1 <= Len(lines) - d => Splits(lines, d, n + 1)}
<1>1. 0 \in S
  <2>1. 0 + 1 <= Len(lines) - d => Splits(lines, d, 1)
    BY SplitFirst
  <2>2. QED
    BY <2>1
<1>2. ASSUME NEW n \in Nat, n \in S PROVE n + 1 \in S
  <2>1. PICK m \in Nat : m = n + 1
    OBVIOUS
  <2>2. ASSUME m + 1 <= Len(lines) - d PROVE Splits(lines, d, m + 1)
    <3>1. Splits(lines, d, m)
      BY <1>2, <2>1, <2>2
    <3>2. m \in 0 .. Len(lines) - d /\ m < Len(lines) - d /\ d + (m + 1) = d + m + 1
          /\ d + 0 = d /\ 0 \in 0 .. Len(lines) - d
      BY <2>2
    <3>3. Parsed(lines, 0)[d] \in Acc
      BY <3>2, Both
    <3>4. Parsed(lines, 0)[d].body \in Seq(Span)
      BY <3>3 DEF Acc
    <3>5. /\ Parsed(lines, 0)[d + m] \in Acc /\ Parsed(lines, 0)[d + m].line = d + m
          /\ Parsed(Rest(lines, d), d)[m] \in Acc /\ Parsed(Rest(lines, d), d)[m].line = d + m
          /\ lines[d + m + 1] \in Line
          /\ Parsed(lines, 0)[d + m + 1] = Parser(Parsed(lines, 0)[d + m], lines[d + m + 1])
          /\ Parsed(Rest(lines, d), d)[m + 1]
               = Parser(Parsed(Rest(lines, d), d)[m], lines[d + m + 1])
      BY <3>2, Both
    <3>6. Follows(Parser(Parsed(lines, 0)[d + m], lines[d + m + 1]),
                  Parser(Parsed(Rest(lines, d), d)[m], lines[d + m + 1]), Parsed(lines, 0)[d].body)
      BY <3>1, <3>4, <3>5, SplitStep DEF Splits
    <3>7. QED
      BY <3>2, <3>5, <3>6 DEF Splits
  <2>3. QED
    BY <2>1, <2>2
<1>3. Nat \subseteq S
  <2> HIDE DEF S
  <2> QED
    BY <1>1, <1>2, Induction
<1>4. SUFFICES ASSUME NEW n \in 1 .. Len(lines) - d PROVE Splits(lines, d, n)
  OBVIOUS
<1>5. n - 1 \in Nat /\ (n - 1) + 1 = n
  OBVIOUS
<1>6. n - 1 \in S
  BY <1>3, <1>5
<1>7. QED
  BY <1>5, <1>6

(* Parses of parts, in terms of the parse of what they are part of. *)
LEMMA UpTo ==
  ASSUME NEW lines \in Seq(Line), NEW k \in 0 .. Len(lines)
  PROVE  /\ Parses(SubSeq(lines, 1, k)) <=> Parsed(lines, 0)[k].at \in Whole
         /\ Statements(SubSeq(lines, 1, k), 0) = Parsed(lines, 0)[k].body
<1>1. /\ SubSeq(lines, 0 + 1, k) = SubSeq(lines, 1, k) /\ Rest(lines, 0) = lines /\ k - 0 = k
      /\ 0 \in 0 .. Len(lines)
  BY RestOfAll
<1>2. Parse(SubSeq(lines, 0 + 1, k), 0) = Parsed(Rest(lines, 0), 0)[k - 0]
  BY <1>1, PartIs
<1>3. QED
  BY <1>1, <1>2 DEF Parses, Statements

LEMMA FromTo ==
  ASSUME NEW lines \in Seq(Line), NEW d \in 0 .. Len(lines), NEW k \in d .. Len(lines)
  PROVE  /\ Parses(SubSeq(lines, d + 1, k)) <=> Parsed(Rest(lines, d), d)[k - d].at \in Whole
         /\ Statements(SubSeq(lines, d + 1, k), d) = Parsed(Rest(lines, d), d)[k - d].body
<1>1. d \in Nat /\ k - d \in 0 .. Len(lines) - d
  OBVIOUS
<1>2. Parse(SubSeq(lines, d + 1, k), d) = Parsed(Rest(lines, d), d)[k - d]
  BY <1>1, PartIs
<1>3. Parse(SubSeq(lines, d + 1, k), 0) = Parsed(Rest(lines, d), 0)[k - d]
  BY PartIs
<1>4. Rest(lines, d) \in Seq(Line) /\ Len(Rest(lines, d)) = Len(lines) - d
  BY RestIs
<1>5. Parsed(Rest(lines, d), d)[k - d].at = Parsed(Rest(lines, d), 0)[k - d].at
  BY <1>1, <1>4, AtAnyStart
<1>6. QED
  BY <1>2, <1>3, <1>5 DEF Parses, Statements

(* What follows whole statements parses exactly if all does, and its
   statements are the further ones.                                        *)
LEMMA TwoParts ==
  ASSUME NEW lines \in Seq(Line), NEW d \in 0 .. Len(lines), WholeUpTo(lines, d),
         NEW k \in d .. Len(lines)
  PROVE  /\ Parses(SubSeq(lines, d + 1, k)) <=> Parsed(lines, 0)[k].at \in Whole
         /\ Parses(SubSeq(lines, d + 1, k)) =>
              Parsed(lines, 0)[k].body
                = Parsed(lines, 0)[d].body \o Statements(SubSeq(lines, d + 1, k), d)
<1> DEFINE B == Parsed(lines, 0)[d].body
           part == SubSeq(lines, d + 1, k)
<1>1. /\ Parses(part) <=> Parsed(Rest(lines, d), d)[k - d].at \in Whole
      /\ Statements(part, d) = Parsed(Rest(lines, d), d)[k - d].body
  BY FromTo
<1>2. CASE k = d
  <2>1. k - d = 0 /\ Parsed(Rest(lines, d), d)[0] = Nothing(d)
    BY <1>2, RestIs, ParsedRec
  <2>2. Parsed(lines, 0)[d].at \in Whole
    BY DEF WholeUpTo
  <2>3. B \in Seq(Span)
    <3>1. Parsed(lines, 0)[d] \in Acc
      BY ParsedTyped
    <3>2. QED
      BY <3>1 DEF Acc
  <2>4. B \o << >> = B
    BY <2>3, ConcatEmptySeq
  <2>5. Parsed(Rest(lines, d), d)[k - d].at = "top" /\ Parsed(Rest(lines, d), d)[k - d].body = << >>
    BY <2>1 DEF Nothing
  <2>6. "top" \in Whole
    BY DEF Whole
  <2>7. QED
    BY <1>1, <1>2, <2>2, <2>4, <2>5, <2>6
<1>3. CASE k # d
  <2>1. k - d \in 1 .. Len(lines) - d /\ d + (k - d) = k
    BY <1>3
  <2>2. Splits(lines, d, k - d)
    BY <2>1, Split
  <2>3. Follows(Parsed(lines, 0)[k], Parsed(Rest(lines, d), d)[k - d], B)
    BY <2>1, <2>2 DEF Splits
  <2>4. "bad" \notin Whole
    BY DEF Whole
  <2>5. QED
    BY <1>1, <2>3, <2>4 DEF Follows
<1>4. QED
  BY <1>2, <1>3

(* The first statement: once there it stays, grows at most, and not at all
   once there is another.                                                  *)
Stays(old, new) ==
  /\ old.at = "bad" => new.at = "bad"
  /\ old.body # << >> =>
       /\ new.body # << >> /\ Len(new.body) >= Len(old.body)
       /\ new.body[1].first = old.body[1].first /\ old.body[1].last <= new.body[1].last
       /\ Len(old.body) >= 2 => new.body[1] = old.body[1]
LastSoFar(acc) == acc.body # << >> => acc.body[1].last <= acc.line

LEMMA StaysStep ==
  ASSUME NEW acc \in Acc, NEW line \in Line, LastSoFar(acc)
  PROVE  Stays(acc, Parser(acc, line)) /\ LastSoFar(Parser(acc, line))
<1> DEFINE new == Parser(acc, line)
           n == acc.line + 1
<1>1. /\ new \in Acc /\ new.at = Awaits(acc.at, line) /\ new.line = n
      /\ new.body = NextBody(acc, line)
  BY ParserStep
<1>2. /\ acc.body \in Seq(Span) /\ new.body \in Seq(Span) /\ acc.line \in Nat /\ n \in Nat
  BY <1>1 DEF Acc
<1> HIDE DEF new
<1>3. acc.at = "bad" => new.at = "bad"
  BY <1>1, BadStays
<1>4. acc.body # << >> => /\ 1 \in 1 .. Len(acc.body) /\ acc.body[1] \in Span
                          /\ acc.body[1].last <= acc.line /\ Len(acc.body) \in Nat
  <2>1. ASSUME acc.body # << >> PROVE 1 \in 1 .. Len(acc.body) /\ Len(acc.body) \in Nat
    BY <1>2, <2>1, EmptySeq
  <2>2. ASSUME acc.body # << >> PROVE acc.body[1] \in Span
    BY <1>2, <2>1, <2>2, ElementOfSeq
  <2>3. QED
    BY <2>1, <2>2 DEF LastSoFar
<1>5. CASE acc.at \in Whole /\ line \in Starters
  <2> DEFINE span == [first |-> n, last |-> n]
  <2>1. new.body = Append(acc.body, span) /\ span \in Span /\ span.last = n
    BY <1>1, <1>2, <1>5 DEF NextBody, Span
  <2> HIDE DEF span
  <2>2. /\ Len(new.body) = Len(acc.body) + 1
        /\ \A i \in 1 .. Len(acc.body) : new.body[i] = acc.body[i]
        /\ new.body[Len(acc.body) + 1] = span
    BY <1>2, <2>1
  <2>3. CASE acc.body = << >>
    <3>1. new.body[1].last = n
      BY <2>1, <2>2, <2>3, EmptySeq
    <3>2. QED
      BY <1>1, <1>2, <1>3, <2>3, <3>1 DEF Stays, LastSoFar, new
  <2>4. CASE acc.body # << >>
    <3>1. new.body[1] = acc.body[1] /\ new.body # << >> /\ Len(new.body) >= Len(acc.body)
      BY <1>2, <1>4, <2>2, <2>4, EmptySeq
    <3>2. acc.body[1].last \in Nat /\ acc.body[1].last <= n
      BY <1>2, <1>4, <2>4 DEF Span
    <3>3. QED
      BY <1>1, <1>3, <2>4, <3>1, <3>2 DEF Stays, LastSoFar, new
  <2>5. QED
    BY <2>3, <2>4
<1>6. CASE /\ ~(acc.at \in Whole /\ line \in Starters)
           /\ acc.body = << >> \/ (line = "filler" /\ acc.at # "string")
  <2>1. new.body = acc.body
    BY <1>1, <1>6 DEF NextBody
  <2>2. acc.body # << >> => acc.body[1].last \in Nat /\ acc.body[1].last <= n
    BY <1>2, <1>4 DEF Span
  <2>3. QED
    BY <1>1, <1>3, <1>4, <2>1, <2>2 DEF Stays, LastSoFar, new
<1>7. CASE /\ ~(acc.at \in Whole /\ line \in Starters)
           /\ ~(acc.body = << >> \/ (line = "filler" /\ acc.at # "string"))
  <2>1. new.body = Grow(acc.body, n) /\ acc.body # << >>
    BY <1>1, <1>7 DEF NextBody
  <2>2. /\ Len(new.body) = Len(acc.body)
        /\ \A i \in 1 .. Len(acc.body) :
             new.body[i] = IF i = Len(acc.body) THEN Longer(acc.body[i], n) ELSE acc.body[i]
    BY <1>2, <2>1, GrowIs
  <2>3. /\ Longer(acc.body[1], n).first = acc.body[1].first /\ Longer(acc.body[1], n).last = n
        /\ acc.body[1].last \in Nat /\ acc.body[1].last <= n /\ n <= n
    BY <1>2, <1>4, <2>1 DEF Longer, Span
  <2>4. new.body[1] = IF 1 = Len(acc.body) THEN Longer(acc.body[1], n) ELSE acc.body[1]
    BY <1>4, <2>1, <2>2
  <2>5. new.body # << >>
    BY <1>4, <2>1, <2>2, EmptySeq
  <2>6. Len(new.body) >= Len(acc.body) /\ ~(Len(acc.body) >= 2 /\ 1 = Len(acc.body))
    BY <1>4, <2>1, <2>2
  <2>7. /\ new.body[1].first = acc.body[1].first /\ acc.body[1].last <= new.body[1].last
        /\ new.body[1].last <= n
        /\ (Len(acc.body) >= 2 => new.body[1] = acc.body[1])
    BY <2>3, <2>4, <2>6
  <2>8. QED
    BY <1>1, <1>3, <2>5, <2>6, <2>7 DEF Stays, LastSoFar, new
<1>8. QED
  BY <1>5, <1>6, <1>7

LEMMA LastsSoFar ==
  ASSUME NEW lines \in Seq(Line), NEW start \in Nat
  PROVE  \A n \in 0 .. Len(lines) : LastSoFar(Parsed(lines, start)[n])
<1> DEFINE P == Parsed(lines, start)
           S == {n \in Nat : n <= Len(lines) => LastSoFar(P[n])}
<1>0. /\ P[0] = Nothing(start) /\ \A n \in 1 .. Len(lines) : P[n] = Parser(P[n - 1], lines[n])
      /\ \A n \in 0 .. Len(lines) : P[n] \in Acc
  BY ParsedRec, ParsedTyped
<1> HIDE DEF P
<1>1. 0 \in S
  BY <1>0 DEF Nothing, LastSoFar
<1>2. ASSUME NEW n \in Nat, n \in S PROVE n + 1 \in S
  <2>1. ASSUME n + 1 <= Len(lines) PROVE LastSoFar(P[n + 1])
    <3>1. /\ n \in 0 .. Len(lines) /\ n + 1 \in 1 .. Len(lines) /\ lines[n + 1] \in Line
          /\ (n + 1) - 1 = n
      BY <2>1
    <3>2. P[n] \in Acc /\ P[n + 1] = Parser(P[n], lines[n + 1]) /\ LastSoFar(P[n])
      BY <1>0, <1>2, <3>1
    <3>3. QED
      BY <3>1, <3>2, StaysStep
  <2>2. QED
    BY <2>1
<1>3. Nat \subseteq S
  <2> HIDE DEF S
  <2> QED
    BY <1>1, <1>2, Induction
<1>4. QED
  BY <1>3 DEF P

LEMMA StaysOn ==
  ASSUME NEW a \in Acc, NEW b \in Acc, NEW c \in Acc, Stays(a, b), Stays(b, c)
  PROVE  Stays(a, c)
<1>1. /\ a.body \in Seq(Span) /\ b.body \in Seq(Span) /\ c.body \in Seq(Span)
  BY DEF Acc
<1>2. ASSUME a.body # << >>
      PROVE  /\ c.body # << >> /\ Len(c.body) >= Len(a.body)
             /\ c.body[1].first = a.body[1].first /\ a.body[1].last <= c.body[1].last
             /\ Len(a.body) >= 2 => c.body[1] = a.body[1]
  <2>1. b.body # << >> /\ c.body # << >>
    BY <1>2 DEF Stays
  <2>2. /\ Len(a.body) \in Nat /\ Len(b.body) \in Nat /\ Len(c.body) \in Nat
        /\ 1 \in 1 .. Len(a.body) /\ 1 \in 1 .. Len(b.body) /\ 1 \in 1 .. Len(c.body)
    BY <1>1, <1>2, <2>1, EmptySeq
  <2>3. a.body[1] \in Span /\ b.body[1] \in Span /\ c.body[1] \in Span
    BY <1>1, <2>2, ElementOfSeq
  <2>4. a.body[1].last \in Nat /\ b.body[1].last \in Nat /\ c.body[1].last \in Nat
    BY <2>3 DEF Span
  <2>5. /\ Len(b.body) >= Len(a.body)
        /\ b.body[1].first = a.body[1].first /\ a.body[1].last <= b.body[1].last
        /\ Len(a.body) >= 2 => b.body[1] = a.body[1]
    BY <1>2 DEF Stays
  <2>6. /\ Len(c.body) >= Len(b.body)
        /\ c.body[1].first = b.body[1].first /\ b.body[1].last <= c.body[1].last
        /\ Len(b.body) >= 2 => c.body[1] = b.body[1]
    BY <2>1 DEF Stays
  <2>7. QED
    BY <2>1, <2>2, <2>4, <2>5, <2>6
<1>3. QED
  BY <1>2 DEF Stays

LEMMA FirstStays ==
  ASSUME NEW lines \in Seq(Line), NEW start \in Nat, NEW n \in 0 .. Len(lines)
  PROVE  \A m \in n .. Len(lines) : Stays(Parsed(lines, start)[n], Parsed(lines, start)[m])
<1> DEFINE P == Parsed(lines, start)
           S == {j \in Nat : n + j <= Len(lines) => Stays(P[n], P[n + j])}
<1>0. /\ \A i \in 1 .. Len(lines) : P[i] = Parser(P[i - 1], lines[i])
      /\ \A i \in 0 .. Len(lines) : P[i] \in Acc /\ LastSoFar(P[i])
  BY ParsedRec, ParsedTyped, LastsSoFar
<1> HIDE DEF P
<1>1. 0 \in S
  <2>1. n + 0 = n /\ P[n] \in Acc
    BY <1>0
  <2>2. P[n].body \in Seq(Span)
    BY <2>1 DEF Acc
  <2>3. ASSUME P[n].body # << >> PROVE P[n].body[1].last \in Nat /\ Len(P[n].body) \in Nat
    <3>1. 1 \in 1 .. Len(P[n].body) /\ Len(P[n].body) \in Nat
      BY <2>2, <2>3, EmptySeq
    <3>2. P[n].body[1] \in Span
      BY <2>2, <3>1, ElementOfSeq
    <3>3. QED
      BY <3>1, <3>2 DEF Span
  <2>4. QED
    BY <2>1, <2>3 DEF Stays
<1>2. ASSUME NEW j \in Nat, j \in S PROVE j + 1 \in S
  <2>1. ASSUME n + (j + 1) <= Len(lines) PROVE Stays(P[n], P[n + (j + 1)])
    <3>1. /\ n + j \in 0 .. Len(lines) /\ n + (j + 1) \in 1 .. Len(lines)
          /\ lines[n + (j + 1)] \in Line /\ (n + (j + 1)) - 1 = n + j
          /\ n + (j + 1) \in 0 .. Len(lines)
      BY <2>1
    <3>2. /\ P[n] \in Acc /\ P[n + j] \in Acc /\ LastSoFar(P[n + j]) /\ P[n + (j + 1)] \in Acc
          /\ P[n + (j + 1)] = Parser(P[n + j], lines[n + (j + 1)]) /\ Stays(P[n], P[n + j])
      BY <1>0, <1>2, <3>1
    <3>3. Stays(P[n + j], P[n + (j + 1)])
      BY <3>1, <3>2, StaysStep
    <3>4. QED
      BY <3>2, <3>3, StaysOn
  <2>2. QED
    BY <2>1
<1>3. Nat \subseteq S
  <2> HIDE DEF S
  <2> QED
    BY <1>1, <1>2, Induction
<1>4. SUFFICES ASSUME NEW m \in n .. Len(lines) PROVE Stays(P[n], P[m])
  BY DEF P
<1>5. m - n \in Nat /\ n + (m - n) = m /\ m <= Len(lines)
  OBVIOUS
<1>6. m - n \in S
  BY <1>3, <1>5
<1>7. QED
  BY <1>5, <1>6

-----------------------------------------------------------------------------
(* The fences, line by line. *)
NoFence == [until |-> "none", python |-> FALSE, lines |-> << >>]
FenceAcc == [until : {"none"} \cup Line, python : BOOLEAN, lines : Seq(Line)]

IsPaired(f, lines, length) ==
  f = [m \in 0 .. length |-> IF m = 0 THEN NoFence ELSE Pair(f[m - 1], lines[m])]

LEMMA PairsExist ==
  ASSUME NEW lines
  PROVE  \A n \in Nat : \E f : IsPaired(f, lines, n)
<1> DEFINE S == {n \in Nat : \E f : IsPaired(f, lines, n)}
<1>1. 0 \in S
  <2> DEFINE f == [m \in 0 .. 0 |-> NoFence]
  <2>1. f = [m \in 0 .. 0 |-> IF m = 0 THEN NoFence ELSE Pair(f[m - 1], lines[m])]
    OBVIOUS
  <2>2. IsPaired(f, lines, 0)
    BY <2>1 DEF IsPaired
  <2>3. QED
    BY <2>2
<1>2. ASSUME NEW n \in Nat, n \in S PROVE n + 1 \in S
  <2>0. PICK f : IsPaired(f, lines, n)
    BY <1>2
  <2>1. \A m \in 0 .. n : f[m] = IF m = 0 THEN NoFence ELSE Pair(f[m - 1], lines[m])
    BY <2>0 DEF IsPaired
  <2> DEFINE g == [m \in 0 .. n + 1 |-> IF m = n + 1 THEN Pair(f[n], lines[n + 1]) ELSE f[m]]
  <2>2. g[n] = f[n] /\ \A m \in 1 .. n : g[m - 1] = f[m - 1]
    OBVIOUS
  <2>3. \A m \in 0 .. n + 1 : g[m] = IF m = 0 THEN NoFence ELSE Pair(g[m - 1], lines[m])
    <3> SUFFICES ASSUME NEW m \in 0 .. n + 1
                 PROVE  g[m] = IF m = 0 THEN NoFence ELSE Pair(g[m - 1], lines[m])
      OBVIOUS
    <3>1. CASE m = n + 1
      BY <2>2, <3>1
    <3>2. CASE m # n + 1
      <4>1. m \in 0 .. n /\ g[m] = f[m]
        BY <3>2
      <4>2. f[m] = IF m = 0 THEN NoFence ELSE Pair(f[m - 1], lines[m])
        BY <2>1, <4>1
      <4>3. QED
        BY <2>2, <4>1, <4>2
    <3>3. QED
      BY <3>1, <3>2
  <2>4. g = [m \in 0 .. n + 1 |-> IF m = 0 THEN NoFence ELSE Pair(g[m - 1], lines[m])]
    BY <2>3
  <2>5. IsPaired(g, lines, n + 1)
    BY <2>4 DEF IsPaired
  <2>6. QED
    BY <2>5
<1>3. Nat \subseteq S
  <2> HIDE DEF S
  <2> QED
    BY <1>1, <1>2, Induction
<1>4. QED
  BY <1>3

LEMMA PairsRec ==
  ASSUME NEW lines \in Seq(Line)
  PROVE  /\ Pairs(lines)[0] = NoFence
         /\ \A n \in 1 .. Len(lines) : Pairs(lines)[n] = Pair(Pairs(lines)[n - 1], lines[n])
<1> DEFINE P == Pairs(lines)
<1>1. P = CHOOSE f : IsPaired(f, lines, Len(lines))
  BY DEF Pairs, NoFence, IsPaired
<1>2. \E f : IsPaired(f, lines, Len(lines))
  <2>1. Len(lines) \in Nat
    OBVIOUS
  <2>2. \A n \in Nat : \E f : IsPaired(f, lines, n)
    BY PairsExist
  <2>3. QED
    BY <2>1, <2>2
<1>3. IsPaired(P, lines, Len(lines))
  <2> HIDE DEF P
  <2> QED
    BY <1>1, <1>2
<1>4. \A n \in 0 .. Len(lines) : P[n] = IF n = 0 THEN NoFence ELSE Pair(P[n - 1], lines[n])
  <2> HIDE DEF P
  <2> QED
    BY <1>3 DEF IsPaired
<1>5. QED
  BY <1>4

(* A line of the text adds a line to the code, or nothing. *)
LEMMA PairStep ==
  ASSUME NEW acc \in FenceAcc, NEW line \in Line
  PROVE  /\ Pair(acc, line) \in FenceAcc
         /\ Pair(acc, line).lines = acc.lines \/ Pair(acc, line).lines = Append(acc.lines, line)
<1>1. CASE acc.until = "none" /\ line \in Fences
  <2>1. Pair(acc, line) = [acc EXCEPT !.until = ClosedBy(line), !.python = line # "data"]
    BY <1>1 DEF Pair
  <2>2. ClosedBy(line) \in Line
    BY DEF ClosedBy, Line, Fences
  <2>3. QED
    BY <2>1, <2>2 DEF FenceAcc
<1>2. CASE acc.until # "none" /\ line = acc.until
  <2>1. Pair(acc, line) = [acc EXCEPT !.until = "none"]
    BY <1>2 DEF Pair
  <2>2. QED
    BY <2>1 DEF FenceAcc
<1>3. CASE acc.until # "none" /\ line # acc.until /\ acc.python
  <2>1. Pair(acc, line) = [acc EXCEPT !.lines = Append(@, line)]
    BY <1>3 DEF Pair
  <2>2. acc.lines \in Seq(Line)
    BY DEF FenceAcc
  <2>3. Append(acc.lines, line) \in Seq(Line)
    BY <2>2
  <2>4. QED
    BY <2>1, <2>3 DEF FenceAcc
<1>4. CASE /\ ~(acc.until = "none" /\ line \in Fences)
           /\ ~(acc.until # "none" /\ line = acc.until)
           /\ ~(acc.until # "none" /\ line # acc.until /\ acc.python)
  <2>1. Pair(acc, line) = acc
    BY <1>4 DEF Pair
  <2>2. QED
    BY <2>1
<1>5. QED
  BY <1>1, <1>2, <1>3, <1>4

LEMMA PairsTyped ==
  ASSUME NEW lines \in Seq(Line)
  PROVE  \A n \in 0 .. Len(lines) : Pairs(lines)[n] \in FenceAcc
<1> DEFINE P == Pairs(lines)
           S == {n \in Nat : n <= Len(lines) => P[n] \in FenceAcc}
<1>0. P[0] = NoFence /\ \A n \in 1 .. Len(lines) : P[n] = Pair(P[n - 1], lines[n])
  BY PairsRec
<1> HIDE DEF P
<1>1. 0 \in S
  <2>1. NoFence \in FenceAcc
    BY DEF NoFence, FenceAcc
  <2>2. QED
    BY <1>0, <2>1
<1>2. ASSUME NEW n \in Nat, n \in S PROVE n + 1 \in S
  <2>1. ASSUME n + 1 <= Len(lines) PROVE P[n + 1] \in FenceAcc
    <3>1. n + 1 \in 1 .. Len(lines) /\ lines[n + 1] \in Line /\ (n + 1) - 1 = n
      BY <2>1
    <3>2. P[n] \in FenceAcc /\ P[n + 1] = Pair(P[n], lines[n + 1])
      BY <1>0, <1>2, <2>1, <3>1
    <3>3. Pair(P[n], lines[n + 1]) \in FenceAcc
      BY <3>1, <3>2, PairStep
    <3>4. QED
      BY <3>2, <3>3
  <2>2. QED
    BY <2>1
<1>3. Nat \subseteq S
  <2> HIDE DEF S
  <2> QED
    BY <1>1, <1>2, Induction
<1>4. QED
  BY <1>3 DEF P

LEMMA PairsPrefix ==
  ASSUME NEW lines \in Seq(Line), NEW line \in Line
  PROVE  \A n \in 0 .. Len(lines) : Pairs(Append(lines, line))[n] = Pairs(lines)[n]
<1> DEFINE more == Append(lines, line)
           P == Pairs(lines)
           Q == Pairs(more)
           S == {n \in Nat : n <= Len(lines) => P[n] = Q[n]}
<1>1. more \in Seq(Line) /\ Len(more) = Len(lines) + 1 /\ \A i \in 1 .. Len(lines) : more[i] = lines[i]
  OBVIOUS
<1> HIDE DEF more
<1>2. /\ P[0] = NoFence /\ \A n \in 1 .. Len(lines) : P[n] = Pair(P[n - 1], lines[n])
      /\ Q[0] = NoFence /\ \A n \in 1 .. Len(more) : Q[n] = Pair(Q[n - 1], more[n])
  BY <1>1, PairsRec
<1> HIDE DEF P, Q
<1>3. 0 \in S
  BY <1>2
<1>4. ASSUME NEW n \in Nat, n \in S PROVE n + 1 \in S
  <2>1. ASSUME n + 1 <= Len(lines) PROVE P[n + 1] = Q[n + 1]
    <3>1. /\ n + 1 \in 1 .. Len(lines) /\ n + 1 \in 1 .. Len(more) /\ (n + 1) - 1 = n
          /\ more[n + 1] = lines[n + 1]
      BY <1>1, <2>1
    <3>2. P[n + 1] = Pair(P[n], lines[n + 1]) /\ Q[n + 1] = Pair(Q[n], lines[n + 1])
      BY <1>2, <3>1
    <3>3. QED
      BY <1>4, <2>1, <3>2
  <2>2. QED
    BY <2>1
<1>5. Nat \subseteq S
  <2> HIDE DEF S
  <2> QED
    BY <1>3, <1>4, Induction
<1>6. QED
  BY <1>5 DEF P, Q, more

(* So the code of a longer text is the code of the shorter, and perhaps its
   new line.                                                               *)
LEMMA ExtractMore ==
  ASSUME NEW lines \in Seq(Line), NEW line \in Line
  PROVE  /\ Extract(lines) \in Seq(Line)
         /\ \/ Extract(Append(lines, line)) = Extract(lines)
            \/ Extract(Append(lines, line)) = Append(Extract(lines), line)
<1> DEFINE more == Append(lines, line)
<1>1. /\ more \in Seq(Line) /\ Len(more) = Len(lines) + 1 /\ more[Len(lines) + 1] = line
      /\ Len(lines) \in Nat
  OBVIOUS
<1>2. Pairs(more)[Len(lines)] = Pairs(lines)[Len(lines)]
  BY <1>1, PairsPrefix
<1>3. Pairs(lines)[Len(lines)] \in FenceAcc
  BY <1>1, PairsTyped
<1> HIDE DEF more
<1>4. Pairs(more)[Len(lines) + 1] = Pair(Pairs(lines)[Len(lines)], line)
  <2>1. Len(lines) + 1 \in 1 .. Len(more) /\ (Len(lines) + 1) - 1 = Len(lines)
    BY <1>1
  <2>2. Pairs(more)[Len(lines) + 1] = Pair(Pairs(more)[(Len(lines) + 1) - 1], more[Len(lines) + 1])
    BY <1>1, <2>1, PairsRec
  <2>3. QED
    BY <1>1, <1>2, <2>1, <2>2
<1>5. Extract(lines) = Pairs(lines)[Len(lines)].lines
      /\ Extract(more) = Pairs(more)[Len(lines) + 1].lines
  BY <1>1 DEF Extract
<1>6. Extract(lines) \in Seq(Line)
  BY <1>3, <1>5 DEF FenceAcc
<1>7. Pair(Pairs(lines)[Len(lines)], line).lines
        \in {Pairs(lines)[Len(lines)].lines, Append(Pairs(lines)[Len(lines)].lines, line)}
  BY <1>3, PairStep
<1>8. QED
  BY <1>4, <1>5, <1>6, <1>7 DEF more

-----------------------------------------------------------------------------
(* What the planner has read: whole statements, and then, until it is done, a
   line that may begin one; the block is judged once.                      *)
Shapes ==
  /\ text \in Seq(Line) /\ tail \in Line /\ code \in Seq(Line) /\ done \in 0 .. Len(code)
  /\ ~final => code = Extract(text)
  /\ stopped => final
ReadSoFar == Parsed(code, 0)[done].at \in Whole /\ stmts = Parsed(code, 0)[done].body
Between == ~stopped => done = 0 \/ (done < Len(code) /\ MayBegin(code[done + 1]))
Judged == /\ ~stopped => ~abort
          /\ stopped => (abort <=> ~Parses(code)) /\ (~abort => done = Len(code))
ReadInv == Shapes /\ ReadSoFar /\ Between /\ Judged

(* An open statement is the first of some part of the code that parses. *)
OpenAt(lines, d, o, k) ==
  /\ Parsed(Rest(lines, d), d)[k - d].at \in Whole
  /\ Parsed(Rest(lines, d), d)[k - d].body # << >>
  /\ o = Parsed(Rest(lines, d), d)[k - d].body[1]
OpenInv == \A o \in open : \E k \in done + 1 .. Len(code) : OpenAt(code, done, o, k)

LEMMA Grown ==
  ASSUME NEW lines \in Seq(Line), NEW line \in Line, NEW d \in 0 .. Len(lines)
  PROVE  /\ Append(lines, line) \in Seq(Line) /\ Len(Append(lines, line)) = Len(lines) + 1
         /\ \A n \in 1 .. Len(lines) : Append(lines, line)[n] = lines[n]
         /\ \A n \in 0 .. Len(lines) : Parsed(Append(lines, line), 0)[n] = Parsed(lines, 0)[n]
         /\ \A n \in 0 .. Len(lines) - d :
              Parsed(Rest(Append(lines, line), d), d)[n] = Parsed(Rest(lines, d), d)[n]
<1> DEFINE more == Append(lines, line)
<1>1. /\ more \in Seq(Line) /\ Len(more) = Len(lines) + 1
      /\ \A n \in 1 .. Len(lines) : more[n] = lines[n]
  OBVIOUS
<1> HIDE DEF more
<1>2. \A n \in 0 .. Len(lines) : Parsed(more, 0)[n] = Parsed(lines, 0)[n]
  BY <1>1, ParsedPrefix
<1>3. /\ Rest(lines, d) \in Seq(Line) /\ Len(Rest(lines, d)) = Len(lines) - d
      /\ \A i \in 1 .. Len(lines) - d : Rest(lines, d)[i] = lines[d + i]
  BY RestIs
<1>4. /\ Rest(more, d) \in Seq(Line) /\ Len(Rest(more, d)) = Len(more) - d
      /\ \A i \in 1 .. Len(more) - d : Rest(more, d)[i] = more[d + i]
  <2>1. d \in 0 .. Len(more)
    BY <1>1
  <2>2. QED
    BY <1>1, <2>1, RestIs
<1>5. /\ Len(Rest(lines, d)) <= Len(Rest(more, d))
      /\ \A i \in 1 .. Len(Rest(lines, d)) : Rest(lines, d)[i] = Rest(more, d)[i]
  BY <1>1, <1>3, <1>4
<1>6. \A n \in 0 .. Len(Rest(lines, d)) : Parsed(Rest(lines, d), d)[n] = Parsed(Rest(more, d), d)[n]
  BY <1>3, <1>4, <1>5, ParsedPrefix
<1>7. QED
  BY <1>1, <1>2, <1>3, <1>6 DEF more

(* Closing ends before a line that may begin a statement, after whole ones. *)
LEMMA Closes ==
  ASSUME NEW lines \in Seq(Line), NEW start \in 0 .. Len(lines),
         ClosedUpTo(lines, start) # start
  PROVE  LET k == ClosedUpTo(lines, start)
         IN  /\ k \in start + 1 .. Len(lines) - 1 /\ MayBegin(lines[k + 1])
             /\ Parses(SubSeq(lines, start + 1, k))
<1>1. Cuts(lines, start) # {} /\ ClosedUpTo(lines, start) = Max(Cuts(lines, start)) - 1
  BY DEF ClosedUpTo
<1>2. Cuts(lines, start) \subseteq 0 .. Len(lines) /\ Len(lines) \in Nat
  BY DEF Cuts
<1>3. Max(Cuts(lines, start)) \in Cuts(lines, start)
  BY <1>1, <1>2, MaxIsIn
<1>4. PICK c \in start + 2 .. Len(lines) :
        /\ c = Max(Cuts(lines, start)) /\ MayBegin(lines[c])
        /\ Parses(SubSeq(lines, start + 1, c - 1))
  BY <1>3 DEF Cuts
<1>5. ClosedUpTo(lines, start) = c - 1 /\ (c - 1) + 1 = c
  BY <1>1, <1>4
<1>6. QED
  BY <1>4, <1>5

LEMMA Opens ==
  ASSUME NEW lines \in Seq(Line), NEW start \in 0 .. Len(lines),
         NEW o \in OpenStatement(lines, start)
  PROVE  \E k \in start + 1 .. Len(lines) : OpenAt(lines, start, o, k)
<1> DEFINE parts == {k \in start + 1 .. Len(lines) : Parses(SubSeq(lines, start + 1, k))}
           body == Statements(SubSeq(lines, start + 1, Max(parts)), start)
<1>1. parts # {} /\ body # << >> /\ o = body[1]
  BY DEF OpenStatement, FirstFrom
<1>2. parts \subseteq 0 .. Len(lines) /\ Len(lines) \in Nat
  OBVIOUS
<1>3. Max(parts) \in parts
  <2> HIDE DEF parts
  <2> QED
    BY <1>1, <1>2, MaxIsIn
<1>4. PICK k \in start + 1 .. Len(lines) : k = Max(parts) /\ Parses(SubSeq(lines, start + 1, k))
  BY <1>3
<1>5. k \in start .. Len(lines)
  OBVIOUS
<1>6. /\ Parsed(Rest(lines, start), start)[k - start].at \in Whole
      /\ Statements(SubSeq(lines, start + 1, k), start) = Parsed(Rest(lines, start), start)[k - start].body
  BY <1>4, <1>5, FromTo
<1>7. OpenAt(lines, start, o, k)
  BY <1>1, <1>4, <1>6 DEF OpenAt
<1>8. QED
  BY <1>7

LEMMA InitRead == Init => ReadInv /\ OpenInv
<1> SUFFICES ASSUME Init PROVE ReadInv /\ OpenInv
  OBVIOUS
<1> USE DEF Init
<1>1. << >> \in Seq(Line) /\ Len(<< >>) = 0
  OBVIOUS
<1>2. Extract(<< >>) = << >>
  <2>1. Pairs(<< >>)[0] = NoFence
    BY <1>1, PairsRec
  <2>2. QED
    BY <1>1, <2>1 DEF Extract, NoFence
<1>3. Shapes
  BY <1>1, <1>2 DEF Shapes, Line
<1>4. Parsed(<< >>, 0)[0] = Nothing(0)
  BY <1>1, ParsedRec
<1>5. ReadSoFar
  BY <1>4 DEF ReadSoFar, Nothing, Whole
<1>6. Between /\ Judged /\ OpenInv
  BY DEF Between, Judged, OpenInv
<1>7. QED
  BY <1>3, <1>5, <1>6 DEF ReadInv

(* While the text comes, or ends, the code may get one more line. *)
LEMMA MoreCode ==
  ASSUME Shapes, Feed \/ EndOfText
  PROVE  /\ text' \in Seq(Line) /\ tail' \in Line /\ (~final' => code' = Extract(text'))
         /\ code' = code \/ \E line \in Line : code' = Append(code, line)
<1>1. /\ text \in Seq(Line) /\ tail \in Line /\ ~final /\ code = Extract(text)
  BY DEF Shapes, Feed, EndOfText
<1>2. CASE Feed
  <2>1. PICK look \in Looks : \/ tail' = look /\ text' = text
                              \/ text' = Append(text, look) /\ tail' = "filler"
    BY <1>2 DEF Feed
  <2>2. look \in Line /\ "filler" \in Line
    BY KnownLooks DEF Line
  <2>3. code' = Extract(text') /\ final' = final
    BY <1>2 DEF Feed, Usable
  <2>4. text' \in Seq(Line) /\ tail' \in Line
    BY <1>1, <2>1, <2>2
  <2>5. CASE text' = text
    BY <1>1, <2>3, <2>4, <2>5
  <2>6. CASE text' = Append(text, look)
    <3>1. Extract(text') = Extract(text) \/ Extract(text') = Append(Extract(text), look)
      BY <1>1, <2>2, <2>6, ExtractMore
    <3>2. QED
      BY <1>1, <2>2, <2>3, <2>4, <3>1
  <2>7. QED
    BY <2>1, <2>5, <2>6
<1>3. CASE EndOfText
  <2>1. code' = Extract(Append(text, tail)) /\ text' = text /\ tail' = tail /\ final' = TRUE
    BY <1>3 DEF EndOfText, Usable
  <2>2. \/ Extract(Append(text, tail)) = Extract(text)
        \/ Extract(Append(text, tail)) = Append(Extract(text), tail)
    BY <1>1, ExtractMore
  <2>3. QED
    BY <1>1, <2>1, <2>2
<1>4. QED
  BY <1>2, <1>3

LEMMA TextStep ==
  ASSUME ReadInv, OpenInv, Feed \/ EndOfText
  PROVE  ReadInv' /\ OpenInv'
<1>1. /\ text' \in Seq(Line) /\ tail' \in Line /\ (~final' => code' = Extract(text'))
      /\ code' = code \/ \E line \in Line : code' = Append(code, line)
  BY MoreCode DEF ReadInv
<1>2. /\ UNCHANGED <<done, stmts, open, stopped, abort>> /\ ~stopped
      /\ code \in Seq(Line) /\ done \in 0 .. Len(code)
  BY DEF Feed, EndOfText, ReadInv, Shapes
<1>3. /\ code' \in Seq(Line) /\ Len(code) <= Len(code') /\ Len(code') \in Nat
      /\ \A n \in 1 .. Len(code) : code'[n] = code[n]
      /\ \A n \in 0 .. Len(code) : Parsed(code', 0)[n] = Parsed(code, 0)[n]
      /\ \A n \in 0 .. Len(code) - done :
           Parsed(Rest(code', done), done)[n] = Parsed(Rest(code, done), done)[n]
  <2>1. CASE code' = code
    BY <1>2, <2>1
  <2>2. CASE \E line \in Line : code' = Append(code, line)
    <3>1. PICK line \in Line : code' = Append(code, line)
      BY <2>2
    <3>2. QED
      BY <1>2, <3>1, Grown
  <2>3. QED
    BY <1>1, <2>1, <2>2
<1>4. Shapes'
  BY <1>1, <1>2, <1>3 DEF Shapes
<1>5. ReadSoFar'
  <2>1. Parsed(code', 0)[done] = Parsed(code, 0)[done]
    BY <1>2, <1>3
  <2>2. QED
    BY <1>2, <2>1 DEF ReadInv, ReadSoFar
<1>6. Between'
  <2>1. done = 0 \/ (done < Len(code) /\ MayBegin(code[done + 1]))
    BY <1>2 DEF ReadInv, Between
  <2>2. done < Len(code) => done + 1 \in 1 .. Len(code) /\ done < Len(code')
    BY <1>2, <1>3
  <2>3. done = 0 \/ (done < Len(code') /\ MayBegin(code'[done + 1]))
    BY <1>3, <2>1, <2>2
  <2>4. QED
    BY <1>2, <2>3 DEF Between
<1>7. Judged'
  BY <1>2 DEF ReadInv, Judged
<1>8. OpenInv'
  <2> SUFFICES ASSUME NEW o \in open
               PROVE  \E k \in done + 1 .. Len(code') : OpenAt(code', done, o, k)
    BY <1>2 DEF OpenInv
  <2>1. PICK k \in done + 1 .. Len(code) : OpenAt(code, done, o, k)
    BY DEF OpenInv
  <2>2. k - done \in 0 .. Len(code) - done /\ k \in done + 1 .. Len(code')
    BY <1>2, <1>3
  <2>3. Parsed(Rest(code', done), done)[k - done] = Parsed(Rest(code, done), done)[k - done]
    BY <1>3, <2>2
  <2>4. OpenAt(code', done, o, k)
    BY <2>1, <2>3 DEF OpenAt
  <2>5. QED
    BY <2>2, <2>4
<1>9. QED
  BY <1>4, <1>5, <1>6, <1>7, <1>8 DEF ReadInv

LEMMA ReadsStep ==
  ASSUME ReadInv, OpenInv, PlannerReads
  PROVE  ReadInv' /\ OpenInv'
<1>1. /\ ~final /\ ~stopped /\ ~abort /\ UNCHANGED <<text, tail, code, final, stopped, abort>>
      /\ done' = ClosedUpTo(code, done) /\ open' = OpenStatement(code, done')
      /\ stmts' = stmts \o Statements(SubSeq(code, done + 1, done'), done)
      /\ code \in Seq(Line) /\ done \in 0 .. Len(code)
  BY DEF PlannerReads, ReadInv, Shapes, Judged
<1>2. /\ Parsed(code, 0)[done].at \in Whole /\ stmts = Parsed(code, 0)[done].body
      /\ done = 0 \/ (done < Len(code) /\ MayBegin(code[done + 1]))
  BY <1>1 DEF ReadInv, ReadSoFar, Between
<1>3. WholeUpTo(code, done)
  BY <1>2 DEF WholeUpTo
<1>4. done' # done => /\ done' \in done + 1 .. Len(code) - 1 /\ MayBegin(code[done' + 1])
                      /\ Parses(SubSeq(code, done + 1, done'))
  BY <1>1, Closes
<1>5. done' \in done .. Len(code) /\ done' \in 0 .. Len(code)
      /\ (done' = 0 \/ (done' < Len(code) /\ MayBegin(code[done' + 1])))
  BY <1>1, <1>2, <1>4
<1>6. /\ Parses(SubSeq(code, done + 1, done')) <=> Parsed(code, 0)[done'].at \in Whole
      /\ Parses(SubSeq(code, done + 1, done')) =>
           Parsed(code, 0)[done'].body
             = Parsed(code, 0)[done].body \o Statements(SubSeq(code, done + 1, done'), done)
  BY <1>1, <1>3, <1>5, TwoParts
<1>7. Parses(SubSeq(code, done + 1, done'))
  BY <1>2, <1>4, <1>6
<1>8. ReadSoFar'
  BY <1>1, <1>2, <1>6, <1>7 DEF ReadSoFar
<1>9. Shapes' /\ Between' /\ Judged'
  BY <1>1, <1>5 DEF ReadInv, Shapes, Between, Judged
<1>10. OpenInv'
  BY <1>1, <1>5, Opens DEF OpenInv
<1>11. QED
  BY <1>8, <1>9, <1>10 DEF ReadInv

LEMMA ReadsLastStep ==
  ASSUME ReadInv, OpenInv, PlannerReadsLast
  PROVE  ReadInv' /\ OpenInv'
<1> DEFINE rest == SubSeq(code, done + 1, Len(code))
<1>1. /\ final /\ ~stopped /\ ~abort /\ stopped' = TRUE /\ UNCHANGED <<text, tail, code, final>>
      /\ code \in Seq(Line) /\ done \in 0 .. Len(code) /\ Len(code) \in done .. Len(code)
      /\ Len(code) \in 0 .. Len(code)
  BY DEF PlannerReadsLast, ReadInv, Shapes, Judged
<1>2. /\ Parsed(code, 0)[done].at \in Whole /\ stmts = Parsed(code, 0)[done].body
      /\ done = 0 \/ (done < Len(code) /\ MayBegin(code[done + 1]))
  BY <1>1 DEF ReadInv, ReadSoFar, Between
<1>3. WholeUpTo(code, done)
  BY <1>2 DEF WholeUpTo
<1>4. /\ Parses(rest) <=> Parsed(code, 0)[Len(code)].at \in Whole
      /\ Parses(rest) => Parsed(code, 0)[Len(code)].body
                           = Parsed(code, 0)[done].body \o Statements(rest, done)
  BY <1>1, <1>3, TwoParts
<1>5. Parses(rest) <=> Parses(code)
  BY <1>4 DEF Parses, Parse
<1>6. CASE Parses(rest)
  <2>1. /\ stmts' = stmts \o Statements(rest, done) /\ done' = Len(code) /\ open' = {}
        /\ abort' = abort
    BY <1>6 DEF PlannerReadsLast
  <2>2. ReadSoFar'
    BY <1>1, <1>2, <1>4, <1>6, <2>1 DEF ReadSoFar
  <2>3. Shapes' /\ Between' /\ Judged' /\ OpenInv'
    BY <1>1, <1>5, <1>6, <2>1 DEF ReadInv, Shapes, Between, Judged, OpenInv
  <2>4. QED
    BY <2>2, <2>3 DEF ReadInv
<1>7. CASE ~Parses(rest)
  <2>1. abort' = TRUE /\ UNCHANGED <<stmts, done, open>>
    BY <1>7 DEF PlannerReadsLast
  <2>2. ReadSoFar' /\ OpenInv'
    BY <1>1, <2>1 DEF ReadInv, ReadSoFar, OpenInv
  <2>3. Shapes' /\ Between' /\ Judged'
    BY <1>1, <1>5, <1>7, <2>1 DEF ReadInv, Shapes, Between, Judged
  <2>4. QED
    BY <2>2, <2>3 DEF ReadInv
<1>8. QED
  BY <1>6, <1>7

LEMMA StepRead == ReadInv /\ OpenInv /\ [Next]_vars => (ReadInv /\ OpenInv)'
<1> SUFFICES ASSUME ReadInv, OpenInv, [Next]_vars PROVE ReadInv' /\ OpenInv'
  OBVIOUS
<1>1. CASE UNCHANGED vars
  BY <1>1 DEF vars, ReadInv, Shapes, ReadSoFar, Between, Judged, OpenInv
<1>2. QED
  BY <1>1, TextStep, ReadsStep, ReadsLastStep DEF Next

LEMMA ReadHolds == Spec => [](ReadInv /\ OpenInv)
  BY InitRead, StepRead, PTL DEF Spec

(* However the text comes and whenever the planner reads, what was handed over
   is the whole block's statements, or, of a block that does not parse, those
   of whole lines before one that may begin a statement (repl.py:918-932). *)
THEOREM ReadsAsAtOnce == Spec => []AsIfReadAtOnce
<1>1. ReadInv => AsIfReadAtOnce
  <2> SUFFICES ASSUME ReadInv, stopped PROVE
                 /\ abort <=> ~Parses(code)
                 /\ ~abort => stmts = Statements(code, 0)
                 /\ abort => /\ Parses(SubSeq(code, 1, done))
                             /\ stmts = Statements(SubSeq(code, 1, done), 0)
    BY DEF AsIfReadAtOnce
  <2>1. code \in Seq(Line) /\ done \in 0 .. Len(code)
    BY DEF ReadInv, Shapes
  <2>2. (abort <=> ~Parses(code)) /\ (~abort => done = Len(code))
    BY DEF ReadInv, Judged
  <2>3. Parsed(code, 0)[done].at \in Whole /\ stmts = Parsed(code, 0)[done].body
    BY DEF ReadInv, ReadSoFar
  <2>4. /\ Parses(SubSeq(code, 1, done)) <=> Parsed(code, 0)[done].at \in Whole
        /\ Statements(SubSeq(code, 1, done), 0) = Parsed(code, 0)[done].body
    BY <2>1, UpTo
  <2>5. done = Len(code) => Parsed(code, 0)[done].body = Statements(code, 0)
    BY DEF Statements, Parse
  <2>6. QED
    BY <2>2, <2>3, <2>4, <2>5
<1>2. QED
  BY <1>1, ReadHolds, PTL

(* A line given to the planner stays where it is (repl.py:128-147). *)
THEOREM CodeStays == Spec => CodeOnlyGrows
<1>1. ReadInv /\ [Next]_vars => [IsPrefix(code, code')]_code
  <2> SUFFICES ASSUME ReadInv, Feed \/ EndOfText PROVE IsPrefix(code, code')
    BY DEF Next, vars, PlannerReads, PlannerReadsLast
  <2>1. code \in Seq(Line) /\ (code' = code \/ \E line \in Line : code' = Append(code, line))
    BY MoreCode DEF ReadInv, Shapes
  <2>2. CASE code' = code
    BY <2>1, <2>2 DEF IsPrefix
  <2>3. ASSUME NEW line \in Line, code' = Append(code, line) PROVE IsPrefix(code, code')
    <3>1. /\ Len(code') = Len(code) + 1 /\ Len(code) \in Nat /\ code' \in Seq(Line)
          /\ \A i \in 1 .. Len(code) : code'[i] = code[i]
      BY <2>1, <2>3
    <3>2. SubSeq(code, 1, Len(code)) = SubSeq(code', 1, Len(code))
      BY <2>1, <3>1
    <3>3. QED
      BY <3>1, <3>2 DEF IsPrefix
  <2>4. QED
    BY <2>1, <2>2, <2>3
<1>2. QED
  BY <1>1, ReadHolds, PTL DEF Spec, CodeOnlyGrows

(* The statement that closes is the one that was open: it begins where that
   did, and has not got shorter.                                           *)
LEMMA ClosesOpen ==
  ASSUME NEW lines \in Seq(Line), NEW d \in 0 .. Len(lines), NEW o,
         NEW k \in d + 1 .. Len(lines), OpenAt(lines, d, o, k),
         NEW j \in d .. Len(lines), j = Len(lines) \/ MayBegin(lines[j + 1]),
         Parsed(Rest(lines, d), d)[j - d].at \in Whole,
         Parsed(Rest(lines, d), d)[j - d].body # << >>
  PROVE  LET new == Parsed(Rest(lines, d), d)[j - d].body[1]
         IN  new.first = o.first /\ o.last <= new.last
<1> DEFINE rest == Rest(lines, d)
           R == Parsed(rest, d)
<1>1. /\ rest \in Seq(Line) /\ Len(rest) = Len(lines) - d /\ d \in Nat
      /\ \A i \in 1 .. Len(lines) - d : rest[i] = lines[d + i]
  <2>1. d \in Nat
    OBVIOUS
  <2>2. /\ Rest(lines, d) \in Seq(Line) /\ Len(Rest(lines, d)) = Len(lines) - d
        /\ \A i \in 1 .. Len(lines) - d : Rest(lines, d)[i] = lines[d + i]
    BY RestIs
  <2>3. QED
    BY <2>1, <2>2
<1>2. R[k - d].at \in Whole /\ R[k - d].body # << >> /\ o = R[k - d].body[1]
  BY DEF OpenAt
<1>3. R[j - d].at \in Whole /\ R[j - d].body # << >>
  OBVIOUS
<1> HIDE DEF rest
<1>4. k - d \in 0 .. Len(rest) /\ j - d \in 0 .. Len(rest)
  BY <1>1
<1>5. CASE k <= j
  <2>1. j - d \in k - d .. Len(rest)
    BY <1>1, <1>5
  <2>2. Stays(R[k - d], R[j - d])
    BY <1>1, <1>4, <2>1, FirstStays
  <2>3. QED
    BY <1>2, <2>2 DEF Stays, rest
<1>6. CASE j < k
  <2>1. /\ j - d + 1 \in 1 .. Len(rest) /\ rest[j - d + 1] = lines[j + 1] /\ (j - d + 1) - 1 = j - d
        /\ lines[j + 1] \in Line /\ MayBegin(lines[j + 1])
        /\ j - d + 1 \in 0 .. Len(rest) /\ k - d \in j - d + 1 .. Len(rest)
    BY <1>1, <1>6
  <2>2. R[j - d] \in Acc /\ R[j - d + 1] = Parser(R[j - d], lines[j + 1])
    <3>1. R[j - d + 1] = Parser(R[(j - d + 1) - 1], rest[j - d + 1])
      BY <1>1, <2>1, ParsedRec
    <3>2. R[j - d] \in Acc
      BY <1>1, <1>4, ParsedTyped
    <3>3. QED
      BY <2>1, <3>1, <3>2
  <2>3. Stays(R[j - d + 1], R[k - d])
    BY <1>1, <2>1, FirstStays
  <2> DEFINE a == R[j - d]
             b == R[j - d + 1]
  <2> HIDE DEF R
  <2>4. b.at = Awaits(a.at, lines[j + 1]) /\ b.body = NextBody(a, lines[j + 1])
    BY <2>1, <2>2, ParserStep
  <2>5. b.at # "bad"
    BY <1>2, <2>3 DEF Stays, Whole
  <2>6. lines[j + 1] \in Starters
    <3>1. Awaits("top", lines[j + 1]) # "bad"
      BY <1>3, <2>1, <2>4, <2>5, BeginsAfresh
    <3>2. QED
      BY <2>1, <3>1 DEF Awaits, MayBegin, Line, Fences, Starters, Whole
  <2>7. a.body \in Seq(Span) /\ a.line + 1 \in Nat
    BY <2>2, SMTT(40) DEF Acc
  <2>8. b.body = Append(a.body, [first |-> a.line + 1, last |-> a.line + 1])
    BY <1>3, <2>4, <2>6 DEF NextBody
  <2>9. Len(b.body) >= 2 /\ b.body[1] = a.body[1] /\ b.body # << >>
    <3>1. 1 \in 1 .. Len(a.body) /\ Len(a.body) \in Nat
      BY <1>3, <2>7, EmptySeq
    <3>2. [first |-> a.line + 1, last |-> a.line + 1] \in Span
      BY <2>7 DEF Span
    <3>3. /\ Len(b.body) = Len(a.body) + 1 /\ b.body[1] = a.body[1] /\ b.body \in Seq(Span)
      BY <2>7, <2>8, <3>1, <3>2
    <3>4. QED
      BY <3>1, <3>3, EmptySeq, SMTT(40)
  <2>10. R[k - d].body[1] = a.body[1]
    BY <2>3, <2>9 DEF Stays
  <2>11. a.body[1].last \in Nat
    <3>1. 1 \in 1 .. Len(a.body)
      BY <1>3, <2>7, EmptySeq
    <3>2. a.body[1] \in Span
      BY <2>7, <3>1, ElementOfSeq
    <3>3. QED
      BY <3>2 DEF Span
  <2>12. QED
    BY <1>2, <2>10, <2>11 DEF R, rest
<1>7. QED
  BY <1>5, <1>6

(* What was planned of a statement still being written is what it turns out
   to be, as far as that went (repl.py:178-187).                           *)
THEOREM OpenBegins == Spec => OpenIsCertain
<1>1. ReadInv /\ OpenInv /\ [Next]_vars =>
        [Len(stmts') > Len(stmts) =>
           LET new == stmts'[Len(stmts) + 1]
           IN  \A o \in open : new.first = o.first /\ o.last <= new.last]_stmts
  <2> SUFFICES ASSUME ReadInv, OpenInv, PlannerReads \/ PlannerReadsLast,
                      Len(stmts') > Len(stmts), NEW o \in open
               PROVE  /\ stmts'[Len(stmts) + 1].first = o.first
                      /\ o.last <= stmts'[Len(stmts) + 1].last
    BY DEF Next, vars, Feed, EndOfText
  <2>1. /\ code \in Seq(Line) /\ done \in 0 .. Len(code) /\ Len(code) \in Nat
        /\ stmts = Parsed(code, 0)[done].body
    BY DEF ReadInv, Shapes, ReadSoFar
  <2>2. stmts \in Seq(Span)
    <3>1. Parsed(code, 0)[done] \in Acc
      BY <2>1, ParsedTyped
    <3>2. QED
      BY <2>1, <3>1 DEF Acc
  <2>3. PICK j \in done .. Len(code) :
          /\ j = Len(code) \/ MayBegin(code[j + 1])
          /\ j = done \/ Parses(SubSeq(code, done + 1, j))
          /\ stmts' = stmts \o Statements(SubSeq(code, done + 1, j), done)
    <3>1. CASE PlannerReads
      <4>1. /\ stmts' = stmts \o Statements(SubSeq(code, done + 1, done'), done)
            /\ done' = ClosedUpTo(code, done)
        BY <3>1 DEF PlannerReads
      <4>2. CASE done' = done
        <5>1. SubSeq(code, done + 1, done) = << >> /\ << >> \in Seq(Line) /\ Len(<< >>) = 0
          BY <2>1
        <5>2. Statements(<< >>, done) = << >>
          <6>1. Parsed(<< >>, done)[0] = Nothing(done)
            BY <5>1, ParsedRec
          <6>2. QED
            BY <5>1, <6>1 DEF Statements, Parse, Nothing
        <5>3. stmts' = stmts
          BY <2>2, <4>1, <4>2, <5>1, <5>2, ConcatEmptySeq
        <5>4. QED
          BY <2>2, <5>3
      <4>3. CASE done' # done
        <5>1. /\ done' \in done + 1 .. Len(code) - 1 /\ MayBegin(code[done' + 1])
              /\ Parses(SubSeq(code, done + 1, done'))
          BY <2>1, <4>1, <4>3, Closes
        <5>2. done' \in done .. Len(code)
          BY <2>1, <5>1
        <5>3. QED
          BY <4>1, <5>1, <5>2
      <4>4. QED
        BY <4>2, <4>3
    <3>2. CASE PlannerReadsLast
      <4>1. /\ Parses(SubSeq(code, done + 1, Len(code)))
            /\ stmts' = stmts \o Statements(SubSeq(code, done + 1, Len(code)), done)
        BY <2>2, <3>2 DEF PlannerReadsLast
      <4>2. Len(code) \in done .. Len(code)
        BY <2>1
      <4>3. QED
        BY <4>1, <4>2
    <3>3. QED
      BY <3>1, <3>2
  <2> DEFINE body == Statements(SubSeq(code, done + 1, j), done)
  <2>4. /\ Parses(SubSeq(code, done + 1, j)) <=> Parsed(Rest(code, done), done)[j - done].at \in Whole
        /\ body = Parsed(Rest(code, done), done)[j - done].body
    BY <2>1, FromTo
  <2>5. body \in Seq(Span)
    <3>1. /\ Rest(code, done) \in Seq(Line) /\ Len(Rest(code, done)) = Len(code) - done
          /\ done \in Nat /\ j - done \in 0 .. Len(code) - done
      BY <2>1, RestIs
    <3>2. Parsed(Rest(code, done), done)[j - done] \in Acc
      BY <3>1, ParsedTyped
    <3>3. QED
      BY <2>4, <3>2 DEF Acc
  <2> HIDE DEF body
  <2>6. body # << >> /\ stmts'[Len(stmts) + 1] = body[1]
    <3>1. /\ stmts' = stmts \o body /\ Len(stmts') = Len(stmts) + Len(body)
          /\ Len(stmts) \in Nat /\ Len(body) \in Nat
          /\ \A i \in 1 .. Len(stmts) + Len(body) :
               stmts'[i] = IF i <= Len(stmts) THEN stmts[i] ELSE body[i - Len(stmts)]
      BY <2>2, <2>3, <2>5, ConcatProperties DEF body
    <3>2. Len(body) >= 1 /\ Len(stmts) + 1 \in 1 .. Len(stmts) + Len(body)
          /\ (Len(stmts) + 1) - Len(stmts) = 1 /\ ~(Len(stmts) + 1 <= Len(stmts))
      BY <3>1
    <3>3. QED
      BY <2>5, <3>1, <3>2, EmptySeq
  <2>7. j # done
    <3>1. ASSUME j = done PROVE body = << >>
      <4>1. j - done = 0 /\ Parsed(Rest(code, done), done)[0] = Nothing(done)
        BY <2>1, <3>1, RestIs, ParsedRec
      <4>2. QED
        BY <2>4, <4>1 DEF Nothing
    <3>2. QED
      BY <2>6, <3>1
  <2>8. PICK k \in done + 1 .. Len(code) : OpenAt(code, done, o, k)
    BY DEF OpenInv
  <2>9. body[1].first = o.first /\ o.last <= body[1].last
    BY <2>1, <2>3, <2>4, <2>6, <2>7, <2>8, ClosesOpen
  <2>10. QED
    BY <2>6, <2>9
<1>2. QED
  BY <1>1, ReadHolds, PTL DEF Spec, OpenIsCertain
=============================================================================
