--------------------------- MODULE PlanningProofs ---------------------------
(* Planning proved for code of any length: whatever the code does with its   *)
(* names, and whenever it is planned, no argument that planning works out    *)
(* comes from an object of the program; and in regular code, the calls that  *)
(* are planned are the ones the run makes, with none skipped.                *)
EXTENDS Planning, WellFoundedInduction, FiniteSetTheorems, SequenceTheorems, TLAPS

(* Numbers: a set of them has a least one, by the well-founded order of the
   finite sets; so they can be induced on, with a set for the predicate.    *)
LEMMA Least ==
  ASSUME NEW T, T \subseteq Nat, T # {}
  PROVE  \E x \in T : \A y \in T : x <= y
<1> DEFINE R == StrictSubsetOrdering(Nat)
           F == FiniteSubsetsOf(Nat)
           B == {1 .. x : x \in T}
<1>1. IsWellFoundedOn(R, F)
  BY FS_StrictSubsetOrderingWellFounded
<1>2. B \subseteq F /\ B # {}
  <2>1. \A x \in T : 1 .. x \subseteq Nat /\ IsFiniteSet(1 .. x)
    BY FS_Interval
  <2>2. QED
    BY <2>1 DEF FiniteSubsetsOf
<1>3. \E b \in B : \A c \in B : ~(<<c, b>> \in R)
  <2> HIDE DEF R, F, B
  <2> QED
    BY <1>1, <1>2, WFMin
<1>4. PICK x \in T : \A c \in B : ~(<<c, 1 .. x>> \in R)
  BY <1>3
<1>5. ASSUME NEW y \in T, y < x
      PROVE  FALSE
  <2>1. <<1 .. y, 1 .. x>> \notin R
    BY <1>4, <1>5
  <2>2. 1 .. y \subseteq 1 .. x /\ x \in 1 .. x /\ x \notin 1 .. y /\ 1 .. x \subseteq Nat
    BY <1>5
  <2>3. QED
    BY <2>1, <2>2 DEF StrictSubsetOrdering
<1>6. QED
  BY <1>5

LEMMA Induction ==
  ASSUME NEW S, 0 \in S, \A n \in Nat : n \in S => n + 1 \in S
  PROVE  Nat \subseteq S
<1> DEFINE T == Nat \ S
<1>1. ASSUME T # {} PROVE FALSE
  <2>1. PICK x \in T : \A y \in T : x <= y
    BY <1>1, Least
  <2>2. x \in Nat /\ x # 0 /\ x - 1 \in Nat /\ x - 1 \notin T
    BY <2>1
  <2>3. QED
    BY <2>2
<1>2. QED
  BY <1>1

(* A bounded set of numbers has a greatest one, and it is its Max. *)
LEMMA MaxIsIn ==
  ASSUME NEW N \in Nat, NEW T, T \subseteq 0 .. N, T # {}
  PROVE  Max(T) \in T /\ \A y \in T : y <= Max(T)
<1> DEFINE B == {N - x : x \in T}
<1>1. B \subseteq Nat /\ B # {}
  <2>1. \A x \in T : N - x \in Nat
    OBVIOUS
  <2>2. QED
    BY <2>1
<1>2. PICK b \in B : \A c \in B : b <= c
  <2> HIDE DEF B
  <2> QED
    BY <1>1, Least
<1>3. PICK x \in T : b = N - x
  BY <1>2
<1>4. \A y \in T : y <= x
  <2> SUFFICES ASSUME NEW y \in T PROVE y <= x
    OBVIOUS
  <2>1. N - x <= N - y
    BY <1>2, <1>3
  <2>2. QED
    BY <2>1
<1>5. \E z \in T : \A y \in T : z >= y
  BY <1>4
<1>6. Max(T) \in T /\ \A y \in T : Max(T) >= y
  BY <1>5 DEF Max
<1>7. QED
  BY <1>6

LEMMA GreatestIsIn ==
  ASSUME NEW N \in Nat, NEW s \in SUBSET (1 .. N), s # {}
  PROVE  Max(s) \in 1 .. N
<1>1. s \subseteq 0 .. N
  OBVIOUS
<1>2. QED
  BY <1>1, MaxIsIn

-----------------------------------------------------------------------------
(* Folds.  FoldLeft goes through a sequence by a function on the sets of its
   positions, which gives a set the value of the set without its greatest
   element, and a step with that element.  There is such a function ...      *)
Sets(N) == SUBSET (1 .. N)
Steps(h, g, base, k) ==
  \A s \in SUBSET (1 .. k) :
    h[s] = IF s = {} THEN base ELSE g[<<h[s \ {Max(s)}], Max(s)>>]

LEMMA FoldExists ==
  ASSUME NEW N \in Nat, NEW R, NEW base \in R, NEW g \in [R \X (1 .. N) -> R]
  PROVE  \E h \in [SUBSET (1 .. N) -> R] : Steps(h, g, base, N)
<1> DEFINE Has(k) == \E h \in [SUBSET (1 .. k) -> R] : Steps(h, g, base, k)
           S == {k \in Nat : k <= N => Has(k)}
<1>1. 0 \in S
  <2> DEFINE h == [s \in SUBSET (1 .. 0) |-> base]
  <2>1. \A s \in SUBSET (1 .. 0) : s = {}
    OBVIOUS
  <2>2. h \in [SUBSET (1 .. 0) -> R] /\ Steps(h, g, base, 0)
    BY <2>1 DEF Steps
  <2>3. QED
    BY <2>2
<1>2. ASSUME NEW k \in Nat, k \in S PROVE k + 1 \in S
  <2> SUFFICES ASSUME k + 1 <= N PROVE Has(k + 1)
    <3> HIDE DEF Has
    <3>1. QED
      OBVIOUS
  <2>0. Has(k)
    <3> HIDE DEF Has
    <3>1. QED
      BY <1>2
  <2>1. PICK f \in [SUBSET (1 .. k) -> R] : Steps(f, g, base, k)
    BY <2>0
  <2> DEFINE low(s) == s \ {k + 1}
             h == [s \in SUBSET (1 .. k + 1) |->
                     IF k + 1 \in s THEN g[<<f[low(s)], k + 1>>] ELSE f[s]]
  <2>2. ASSUME NEW s \in SUBSET (1 .. k + 1)
        PROVE  low(s) \in SUBSET (1 .. k) /\ f[low(s)] \in R /\ (k + 1 \notin s => low(s) = s)
    <3>1. low(s) \in SUBSET (1 .. k)
      OBVIOUS
    <3>2. QED
      BY <3>1
  <2>3. h \in [SUBSET (1 .. k + 1) -> R]
    <3>1. ASSUME NEW s \in SUBSET (1 .. k + 1) PROVE h[s] \in R
      <4>1. CASE k + 1 \in s
        BY <2>2, <4>1
      <4>2. CASE k + 1 \notin s
        BY <2>2, <4>2
      <4>3. QED
        BY <4>1, <4>2
    <3>2. QED
      BY <3>1
  <2>4. ASSUME NEW s \in SUBSET (1 .. k + 1)
        PROVE  h[s] = IF s = {} THEN base ELSE g[<<h[s \ {Max(s)}], Max(s)>>]
    <3>1. CASE k + 1 \in s
      <4>1. Max(s) = k + 1
        <5>1. s \subseteq 0 .. k + 1 /\ s # {}
          BY <3>1
        <5>2. k + 1 \in Nat
          OBVIOUS
        <5>3. Max(s) \in s /\ \A y \in s : y <= Max(s)
          BY <5>1, <5>2, MaxIsIn
        <5>4. Max(s) \in 1 .. k + 1 /\ k + 1 <= Max(s)
          BY <3>1, <5>3
        <5>5. QED
          BY <5>4
      <4>2. low(s) \in SUBSET (1 .. k + 1) /\ k + 1 \notin low(s)
        OBVIOUS
      <4>3. h[low(s)] = f[low(s)]
        BY <4>2
      <4>4. h[s] = g[<<f[low(s)], k + 1>>]
        BY <3>1
      <4>5. s \ {Max(s)} = low(s)
        BY <4>1
      <4>6. QED
        BY <3>1, <4>1, <4>3, <4>4, <4>5
    <3>2. CASE k + 1 \notin s
      <4>1. s \in SUBSET (1 .. k) /\ h[s] = f[s]
        BY <3>2, <2>2
      <4>2. s # {} => s \ {Max(s)} \in SUBSET (1 .. k) /\ h[s \ {Max(s)}] = f[s \ {Max(s)}]
        <5>1. \A t \in SUBSET (1 .. k) : t \in SUBSET (1 .. k + 1) /\ k + 1 \notin t
          OBVIOUS
        <5>2. \A t \in SUBSET (1 .. k) : h[t] = f[t]
          BY <5>1
        <5>3. s \ {Max(s)} \in SUBSET (1 .. k)
          BY <4>1
        <5>4. QED
          BY <5>2, <5>3
      <4>3. f[s] = IF s = {} THEN base ELSE g[<<f[s \ {Max(s)}], Max(s)>>]
        BY <2>1, <4>1 DEF Steps
      <4>4. QED
        BY <4>1, <4>2, <4>3
    <3>3. QED
      BY <3>1, <3>2
  <2>5. Steps(h, g, base, k + 1)
    BY <2>4 DEF Steps
  <2>6. QED
    BY <2>3, <2>5
<1>3. Nat \subseteq S
  <2> HIDE DEF S
  <2>1. QED
    BY <1>1, <1>2, Induction
<1>4. Has(N)
  <2> HIDE DEF Has
  <2>1. QED
    BY <1>3
<1>5. QED
  BY <1>4

IsFold(h, g, base, R, N) ==
  /\ h = [s \in Sets(N) |-> h[s]] /\ h[{}] = base
  /\ \A s \in Sets(N) : s # {} => /\ Max(s) \in 1 .. N /\ h[s \ {Max(s)}] \in R
                                 /\ h[s] = g[<<h[s \ {Max(s)}], Max(s)>>]

LEMMA FoldSteps ==
  ASSUME NEW N \in Nat, NEW R, NEW base \in R, NEW g \in [R \X (1 .. N) -> R]
  PROVE  \E h : IsFold(h, g, base, R, N)
<1>1. PICK h \in [SUBSET (1 .. N) -> R] : Steps(h, g, base, N)
  BY FoldExists
<1>2. ASSUME NEW s \in SUBSET (1 .. N), s # {}
      PROVE  /\ Max(s) \in 1 .. N /\ h[s \ {Max(s)}] \in R
             /\ h[s] = g[<<h[s \ {Max(s)}], Max(s)>>]
  <2>1. Max(s) \in 1 .. N
    BY <1>2, GreatestIsIn
  <2>2. s \ {Max(s)} \in SUBSET (1 .. N)
    OBVIOUS
  <2>3. QED
    BY <1>1, <1>2, <2>1, <2>2 DEF Steps
<1>3. h[{}] = base
  BY <1>1 DEF Steps
<1>4. QED
  BY <1>1, <1>2, <1>3 DEF Sets, IsFold

(* ... and what base has and each step keeps, the result has. *)
LEMMA FoldKeeps ==
  ASSUME NEW N \in Nat, NEW R, NEW h, h[{}] \in R,
         \A s \in Sets(N) : s # {} /\ Max(s) \in 1 .. N /\ h[s \ {Max(s)}] \in R => h[s] \in R
  PROVE  h[1 .. N] \in R /\ \A s \in Sets(N) : h[s] \in R
<1> DEFINE Below(k) == \A s \in SUBSET (1 .. k) : h[s] \in R
           S == {k \in Nat : k <= N => Below(k)}
<1>1. 0 \in S
  <2>1. \A s \in SUBSET (1 .. 0) : s = {}
    OBVIOUS
  <2>2. QED
    BY <2>1
<1>2. ASSUME NEW k \in Nat, k \in S PROVE k + 1 \in S
  <2> SUFFICES ASSUME k + 1 <= N PROVE Below(k + 1)
    <3> HIDE DEF Below
    <3>1. QED
      OBVIOUS
  <2>0. Below(k)
    <3> HIDE DEF Below
    <3>1. QED
      BY <1>2
  <2> SUFFICES ASSUME NEW s \in SUBSET (1 .. k + 1) PROVE h[s] \in R
    OBVIOUS
  <2>1. CASE s = {}
    BY <2>1
  <2>2. CASE s # {}
    <3>1. s \subseteq 0 .. k + 1 /\ k + 1 \in Nat
      OBVIOUS
    <3>2. Max(s) \in s /\ \A y \in s : y <= Max(s)
      BY <2>2, <3>1, MaxIsIn
    <3>3. s \ {Max(s)} \in SUBSET (1 .. k)
      <4>1. ASSUME NEW y \in s, y # Max(s) PROVE y \in 1 .. k
        <5>1. y \in 1 .. k + 1 /\ Max(s) \in 1 .. k + 1 /\ y <= Max(s)
          BY <3>2
        <5>2. QED
          BY <4>1, <5>1
      <4>2. QED
        BY <4>1
    <3>4. h[s \ {Max(s)}] \in R
      BY <2>0, <3>3
    <3>5. s \in Sets(N) /\ Max(s) \in 1 .. N
      <4>1. 1 .. k + 1 \subseteq 1 .. N
        OBVIOUS
      <4>2. QED
        BY <3>2, <4>1 DEF Sets
    <3>6. QED
      BY <2>2, <3>4, <3>5
  <2>3. QED
    BY <2>1, <2>2
<1>3. Nat \subseteq S
  <2> HIDE DEF S
  <2>1. QED
    BY <1>1, <1>2, Induction
<1>4. Below(N)
  <2> HIDE DEF Below
  <2>1. QED
    BY <1>3
<1>5. 1 .. N \in SUBSET (1 .. N)
  OBVIOUS
<1>6. QED
  BY <1>4, <1>5 DEF Sets

(* A function that is made as FoldLeft makes it is one of these. *)
LEMMA FoldIs ==
  ASSUME NEW N \in Nat, NEW R, NEW base \in R, NEW g \in [R \X (1 .. N) -> R],
         NEW f, f = [s \in Sets(N) |-> f[s]], f[{}] = base,
         \A s \in Sets(N) : s # {} /\ Max(s) \in 1 .. N /\ f[s \ {Max(s)}] \in R
                           => f[s] = g[<<f[s \ {Max(s)}], Max(s)>>]
  PROVE  IsFold(f, g, base, R, N) /\ f[1 .. N] \in R
<1>1. \A s \in Sets(N) : s # {} /\ Max(s) \in 1 .. N /\ f[s \ {Max(s)}] \in R => f[s] \in R
  OBVIOUS
<1>2. f[1 .. N] \in R /\ \A s \in Sets(N) : f[s] \in R
  BY <1>1, FoldKeeps
<1>3. ASSUME NEW s \in Sets(N), s # {}
      PROVE  /\ Max(s) \in 1 .. N /\ f[s \ {Max(s)}] \in R
             /\ f[s] = g[<<f[s \ {Max(s)}], Max(s)>>]
  <2>1. Max(s) \in 1 .. N /\ s \ {Max(s)} \in Sets(N)
    BY <1>3, GreatestIsIn DEF Sets
  <2>2. QED
    BY <1>2, <1>3, <2>1
<1>4. QED
  BY <1>2, <1>3 DEF IsFold

(* One element more is one step more. *)
Longer(h1, g1, h2, g2, base, R, N) ==
  /\ N \in Nat /\ IsFold(h1, g1, base, R, N) /\ IsFold(h2, g2, base, R, N + 1)
  /\ \A r \in R, i \in 1 .. N : g1[<<r, i>>] = g2[<<r, i>>]

LEMMA FoldAppend ==
  ASSUME NEW N, NEW R, NEW base, NEW g1, NEW g2, NEW h1, NEW h2,
         Longer(h1, g1, h2, g2, base, R, N)
  PROVE  h2[1 .. N + 1] = g2[<<h1[1 .. N], N + 1>>]
<1> USE DEF Longer
<1> DEFINE e == [s \in Sets(N) |-> IF h1[s] = h2[s] THEN 0 ELSE 1]
           Zero == {0}
<1>1. \A s \in Sets(N) : s \in Sets(N + 1)
  BY DEF Sets
<1>2. {} \in Sets(N) /\ 1 .. N \in Sets(N)
  BY DEF Sets
<1>3. e[{}] \in Zero
  BY <1>2 DEF IsFold
<1>4. ASSUME NEW s \in Sets(N), s # {}, e[s \ {Max(s)}] \in Zero
      PROVE  e[s] \in Zero
  <2>1. s \ {Max(s)} \in Sets(N)
    BY DEF Sets
  <2>2. h1[s \ {Max(s)}] = h2[s \ {Max(s)}]
    BY <1>4, <2>1
  <2>3. /\ h1[s] = g1[<<h1[s \ {Max(s)}], Max(s)>>] /\ Max(s) \in 1 .. N /\ h1[s \ {Max(s)}] \in R
        /\ h2[s] = g2[<<h2[s \ {Max(s)}], Max(s)>>]
    BY <1>1, <1>4 DEF IsFold
  <2>4. QED
    BY <2>2, <2>3
<1>5. e[1 .. N] \in Zero
  <2> HIDE DEF e, Zero
  <2>1. QED
    BY <1>3, <1>4, FoldKeeps
<1>6. h1[1 .. N] = h2[1 .. N]
  BY <1>2, <1>5
<1>7. /\ 1 .. N + 1 \in Sets(N + 1) /\ 1 .. N + 1 # {}
      /\ Max(1 .. N + 1) = N + 1 /\ (1 .. N + 1) \ {Max(1 .. N + 1)} = 1 .. N
  <2>1. 1 .. N + 1 \subseteq 0 .. N + 1 /\ 1 .. N + 1 # {} /\ N + 1 \in 1 .. N + 1 /\ N + 1 \in Nat
    OBVIOUS
  <2>2. Max(1 .. N + 1) \in 1 .. N + 1 /\ N + 1 <= Max(1 .. N + 1)
    BY <2>1, MaxIsIn
  <2>3. Max(1 .. N + 1) = N + 1
    BY <2>2
  <2>4. (1 .. N + 1) \ {N + 1} = 1 .. N
    OBVIOUS
  <2>5. QED
    BY <2>1, <2>3, <2>4 DEF Sets
<1> DEFINE all == 1 .. N + 1
<1>8. h2[all] = g2[<<h2[all \ {Max(all)}], Max(all)>>]
  <2> HIDE DEF all
  <2>1. all \in Sets(N + 1) /\ all # {}
    BY <1>7 DEF all
  <2>2. QED
    BY <2>1 DEF IsFold
<1>9. QED
  BY <1>6, <1>7, <1>8

-----------------------------------------------------------------------------
(* What planning may give: calls whose arguments have nothing of `out` in    *)
(* them, which is {0}, the objects, as long as the program has not rebound   *)
(* `len` to one, and {} in any case.                                         *)
Args(out) == Seq(Nat \ out)
Plan(out) == [calls : Seq([tool : STRING, arg : Args(out)]), on : BOOLEAN]
Env(out) == {env \in UNION {[names -> Seq(Nat)] : names \in SUBSET STRING} :
               "len" \in DOMAIN env => env["len"] \in Args(out)}

LEMMA ArgsAreSeqs == /\ Args({}) = Seq(Nat)
                     /\ \A out : Args(out) \subseteq Seq(Nat)
BY DEF Args

IsEnv(env, out) == /\ DOMAIN env \subseteq STRING /\ env \in [DOMAIN env -> Seq(Nat)]
                   /\ "len" \in DOMAIN env => env["len"] \in Args(out)

LEMMA EnvIs == \A out : \A env : env \in Env(out) <=> IsEnv(env, out)
<1>1. \A env : env \in UNION {[names -> Seq(Nat)] : names \in SUBSET STRING}
              <=> DOMAIN env \subseteq STRING /\ env \in [DOMAIN env -> Seq(Nat)]
  OBVIOUS
<1>2. QED
  BY <1>1 DEF Env, IsEnv

LEMMA EnvAny ==
  \A env : env \in Env({}) <=> DOMAIN env \subseteq STRING /\ env \in [DOMAIN env -> Seq(Nat)]
<1>1. ASSUME NEW env, DOMAIN env \subseteq STRING, env \in [DOMAIN env -> Seq(Nat)]
      PROVE  IsEnv(env, {})
  <2>1. "len" \in DOMAIN env => env["len"] \in Seq(Nat)
    BY <1>1
  <2>2. QED
    BY <1>1, <2>1, ArgsAreSeqs DEF IsEnv
<1>2. QED
  BY <1>1, EnvIs DEF IsEnv

LEMMA PlainSeq ==
  ASSUME NEW out \in SUBSET {0}, NEW v \in Seq(Nat), Plain(v)
  PROVE  v \in Args(out)
<1>1. \A i \in 1 .. Len(v) : v[i] \in Nat \ {0}
  BY DEF Plain, ToSet
<1>2. \A i \in 1 .. Len(v) : v[i] \in Nat \ out
  BY <1>1
<1>3. QED
  BY <1>2 DEF Args

\* an f-string answers for an object only if there is one in it
LEMMA TextIs ==
  ASSUME NEW out \in SUBSET {0}, NEW v \in Args(out)
  PROVE  Text(v) \in Args(out)
<1>1. CASE v = Builtin
  <2>1. 8 \in Nat \ out
    OBVIOUS
  <2>2. <<8>> \in Seq(Nat \ out)
    BY <2>1
  <2>3. QED
    BY <1>1, <2>2 DEF Text, Args
<1>2. CASE v # Builtin /\ 0 \in ToSet(v)
  <2>1. 0 \in Nat \ out
    BY <1>2 DEF Args, ToSet
  <2>2. <<0>> \in Seq(Nat \ out)
    BY <2>1
  <2>3. QED
    BY <1>2, <2>2 DEF Text, Args, Object
<1>3. CASE v # Builtin /\ 0 \notin ToSet(v)
  <2>1. 1 \in Nat \ out
    OBVIOUS
  <2>2. v \o <<1>> \in Seq(Nat \ out)
    <3>1. v \in Seq(Nat \ out) /\ <<1>> \in Seq(Nat \ out)
      BY <2>1 DEF Args
    <3>2. QED
      BY <3>1
  <2>3. Text(v) = v \o <<1>>
    BY <1>3 DEF Text
  <2>4. QED
    BY <2>2, <2>3 DEF Args
<1>4. QED
  BY <1>1, <1>2, <1>3

(* What is known of an expression has nothing of `out` in it. *)
LEMMA KnownIsArg ==
  ASSUME NEW out \in SUBSET {0}, NEW e \in Expr, NEW env \in Env(out)
  PROVE  \A v \in StaticEval(e, env) : v \in Args(out)
<1> SUFFICES ASSUME NEW v \in StaticEval(e, env) PROVE v \in Args(out)
  OBVIOUS
<1>1. /\ e.kind # "opaque" /\ v = Value(e, env)
      /\ e.kind # "lit" /\ e.name # "len" => e.name \in DOMAIN env /\ Plain(env[e.name])
      /\ e.kind = "len" => e.name # "len"
  BY DEF StaticEval
<1>2. e.kind # "lit" => Named(e.name, env) \in Args(out)
  <2>1. 9 \in Nat \ out
    OBVIOUS
  <2>2. Builtin \in Args(out)
    BY <2>1 DEF Builtin, Args
  <2>3. e.kind # "lit" /\ e.name # "len" => env[e.name] \in Seq(Nat) /\ e.name \in DOMAIN env
    BY <1>1, EnvIs DEF IsEnv
  <2>4. e.kind # "lit" /\ e.name # "len" => env[e.name] \in Args(out)
    BY <1>1, <2>3, PlainSeq
  <2>5. "len" \in DOMAIN env => env["len"] \in Args(out)
    BY EnvIs DEF IsEnv
  <2>6. QED
    BY <2>2, <2>3, <2>4, <2>5 DEF Named
<1>3. CASE e.kind = "lit"
  <2>1. v = e.val /\ e.val \in Seq(Nat \ {0, 9})
    BY <1>1, <1>3 DEF Value, Expr
  <2>2. Nat \ {0, 9} \subseteq Nat \ out
    OBVIOUS
  <2>3. QED
    BY <2>1, <2>2 DEF Args
<1>4. CASE e.kind = "name"
  BY <1>1, <1>2, <1>4 DEF Value
<1>5. CASE e.kind = "more"
  <2>1. v = Text(Named(e.name, env))
    BY <1>1, <1>5 DEF Value
  <2>2. QED
    BY <1>2, <1>5, <2>1, TextIs
<1>6. CASE e.kind = "len"
  <2>1. v = <<10 + Len(env[e.name])>> /\ env[e.name] \in Seq(Nat)
    BY <1>1, <1>6, EnvIs DEF Value, IsEnv
  <2>2. 10 + Len(env[e.name]) \in Nat \ out
    BY <2>1
  <2>3. QED
    BY <2>1, <2>2 DEF Args
<1>7. QED
  BY <1>1, <1>3, <1>4, <1>5, <1>6 DEF Expr

LEMMA ResolveKeeps ==
  ASSUME NEW out \in SUBSET {0}, NEW plan \in Plan(out), NEW call \in Call, NEW env \in Env(out)
  PROVE  Resolve(plan, call, env) \in Plan(out)
<1> DEFINE known == StaticEval(call.arg, env)
           step == [tool |-> call.tool, arg |-> CHOOSE v \in known : TRUE]
<1>1. known # {} => step \in [tool : STRING, arg : Args(out)]
  <2>1. call.arg \in Expr /\ call.tool \in STRING
    BY DEF Call
  <2>2. \A v \in known : v \in Args(out)
    BY <2>1, KnownIsArg
  <2>3. QED
    BY <2>1, <2>2
<1>2. known # {} => [plan EXCEPT !.calls = Append(@, step)] \in Plan(out)
  <2> HIDE DEF step
  <2>1. plan.calls \in Seq([tool : STRING, arg : Args(out)])
    BY DEF Plan
  <2>2. known # {} => Append(plan.calls, step) \in Seq([tool : STRING, arg : Args(out)])
    BY <1>1, <2>1
  <2>3. QED
    BY <2>2 DEF Plan
<1>3. \A b \in BOOLEAN : [plan EXCEPT !.on = b] \in Plan(out)
  BY DEF Plan
<1>4. (call.tool \in Always) \in BOOLEAN
  OBVIOUS
<1>5. [plan EXCEPT !.on = call.tool \in Always] \in Plan(out)
  BY <1>3, <1>4
<1>6. QED
  BY <1>2, <1>5 DEF Resolve

(* The calls of a simple statement, one after the other: the fold is said as  *)
(* the recursion it is, and keeps what each step keeps.  So for those below.  *)
OneCall(p, c, names, env) == IF c.tool \in names THEN Resolve(p, c, env) ELSE p

LEMMA OneCallKeeps ==
  ASSUME NEW out \in SUBSET {0}, NEW p \in Plan(out), NEW c \in Call, NEW names, NEW env \in Env(out)
  PROVE  OneCall(p, c, names, env) \in Plan(out)
BY ResolveKeeps DEF OneCall

Sure(plan, calls, names, env) ==
  FoldLeft(LAMBDA p, c : IF c.tool \in names THEN Resolve(p, c, env) ELSE p, plan, calls)
SureSteps(out, calls, names, env) ==
  [a \in Plan(out) \X (1 .. Len(calls)) |-> OneCall(a[1], calls[a[2]], names, env)]
SureFold(f, calls, plan, names, env) ==
  f = [s \in SUBSET DOMAIN calls |->
         IF s = {} THEN plan ELSE OneCall(f[s \ {Max(s)}], calls[Max(s)], names, env)]

LEMMA SureIs ==
  ASSUME NEW out \in SUBSET {0}, NEW plan \in Plan(out), NEW calls \in Seq(Call), NEW names, NEW env \in Env(out)
  PROVE  /\ Sure(plan, calls, names, env) \in Plan(out)
         /\ \E h : /\ IsFold(h, SureSteps(out, calls, names, env), plan, Plan(out), Len(calls))
                  /\ Sure(plan, calls, names, env) = h[1 .. Len(calls)]
<1> DEFINE N == Len(calls)
           f == CHOOSE h : SureFold(h, calls, plan, names, env)
           g == SureSteps(out, calls, names, env)
<1>1. Sure(plan, calls, names, env) = f[DOMAIN calls]
  BY DEF Sure, FoldLeft, MapThenFoldSet, SureFold, OneCall
<1>2. N \in Nat /\ DOMAIN calls = 1 .. N /\ \A i \in 1 .. N : calls[i] \in Call
  OBVIOUS
<1>3. \A r \in Plan(out), i \in 1 .. N : OneCall(r, calls[i], names, env) \in Plan(out)
  BY <1>2, OneCallKeeps
<1>4. g \in [Plan(out) \X (1 .. N) -> Plan(out)]
  BY <1>3 DEF SureSteps
<1>5. \A r \in Plan(out), i \in 1 .. N : g[<<r, i>>] = OneCall(r, calls[i], names, env)
  BY DEF SureSteps
<1>6. SureFold(f, calls, plan, names, env)
  <2>1. PICK h : IsFold(h, g, plan, Plan(out), N)
    <3> HIDE DEF g, N
    <3>1. QED
      BY <1>2, <1>4, FoldSteps
  <2>2. \A s \in Sets(N) : s # {} =>
          h[s] = OneCall(h[s \ {Max(s)}], calls[Max(s)], names, env)
    <3> HIDE DEF g, N
    <3>1. QED
      BY <1>5, <2>1 DEF IsFold
  <2>3. SureFold(h, calls, plan, names, env)
    BY <1>2, <2>1, <2>2 DEF SureFold, Sets, IsFold
  <2>4. QED
    BY <2>3
<1> HIDE DEF f, N, g
<1>7. /\ f = [s \in Sets(N) |-> f[s]] /\ f[{}] = plan
      /\ \A s \in Sets(N) : s # {} => f[s] = OneCall(f[s \ {Max(s)}], calls[Max(s)], names, env)
  BY <1>2, <1>6 DEF SureFold, Sets
<1>8. \A s \in Sets(N) : s # {} /\ Max(s) \in 1 .. N /\ f[s \ {Max(s)}] \in Plan(out)
                        => f[s] = g[<<f[s \ {Max(s)}], Max(s)>>]
  BY <1>5, <1>7
<1>9. IsFold(f, g, plan, Plan(out), N) /\ f[1 .. N] \in Plan(out)
  BY <1>2, <1>4, <1>7, <1>8, FoldIs, ZenonT(60)
<1>10. QED
  BY <1>1, <1>2, <1>9 DEF g, N

LEMMA SureEmpty ==
  ASSUME NEW out \in SUBSET {0}, NEW plan \in Plan(out), NEW names, NEW env \in Env(out)
  PROVE  Sure(plan, << >>, names, env) = plan
<1> DEFINE seq == << >>
<1>0. 1 .. 0 = {}
  OBVIOUS
<1>1. seq \in Seq(Call) /\ Len(seq) = 0
  OBVIOUS
<1> HIDE DEF seq
<1>2. PICK h : IsFold(h, SureSteps(out, seq, names, env), plan, Plan(out), Len(seq)) /\ Sure(plan, seq, names, env) = h[1 .. Len(seq)]
  <2>1. seq \in Seq(Call)
    BY <1>1
  <2>2. QED
    BY <2>1, SureIs
<1>3. Sure(plan, seq, names, env) = plan
  BY <1>0, <1>1, <1>2 DEF IsFold
<1>4. QED
  BY <1>3 DEF seq

LEMMA SureAppend ==
  ASSUME NEW out \in SUBSET {0}, NEW plan \in Plan(out), NEW calls \in Seq(Call), NEW last \in Call, NEW names, NEW env \in Env(out)
  PROVE  Sure(plan, Append(calls, last), names, env) = OneCall(Sure(plan, calls, names, env), last, names, env)
<1> DEFINE N == Len(calls)
           more == Append(calls, last)
<1>1. /\ more \in Seq(Call) /\ Len(more) = N + 1 /\ N \in Nat /\ more[N + 1] = last
      /\ \A i \in 1 .. N : more[i] = calls[i]
  BY AppendProperties
<1> HIDE DEF more
<1>2. PICK h : IsFold(h, SureSteps(out, calls, names, env), plan, Plan(out), N) /\ Sure(plan, calls, names, env) = h[1 .. N]
  BY SureIs
<1>3. PICK k : IsFold(k, SureSteps(out, more, names, env), plan, Plan(out), N + 1) /\ Sure(plan, more, names, env) = k[1 .. N + 1]
  BY <1>1, SureIs
<1>4. \A r \in Plan(out), i \in 1 .. N : SureSteps(out, calls, names, env)[<<r, i>>] = SureSteps(out, more, names, env)[<<r, i>>]
  BY <1>1 DEF SureSteps
<1>5. k[1 .. N + 1] = SureSteps(out, more, names, env)[<<h[1 .. N], N + 1>>]
  <2> DEFINE g1 == SureSteps(out, calls, names, env)
             g2 == SureSteps(out, more, names, env)
             Q == Plan(out)
  <2>1. Longer(h, g1, k, g2, plan, Q, N)
    BY <1>1, <1>2, <1>3, <1>4 DEF Longer
  <2> HIDE DEF N, g1, g2, Q
  <2>2. QED
    BY <2>1, FoldAppend DEF g2
<1>6. Sure(plan, calls, names, env) \in Plan(out)
  BY SureIs
<1>7. QED
  BY <1>1, <1>2, <1>3, <1>5, <1>6 DEF SureSteps, more

LEMMA SimpleKeeps ==
  ASSUME NEW out \in SUBSET {0}, NEW plan \in Plan(out), NEW s \in Part, NEW names, NEW env \in Env(out)
  PROVE  Simple(plan, s, names, env) \in Plan(out)
<1>1. \A b \in BOOLEAN : [plan EXCEPT !.on = b] \in Plan(out)
  BY DEF Plan
<1>2. (~Blocks(CallsOf(s), names)) \in BOOLEAN
  BY DEF Blocks
<1>3. s.sure \in Seq(Call)
  BY DEF Part
<1>4. Sure(plan, s.sure, names, env) \in Plan(out)
  BY <1>3, SureIs
<1>5. \/ Simple(plan, s, names, env) = [plan EXCEPT !.on = ~Blocks(CallsOf(s), names)]
      \/ Simple(plan, s, names, env) = Sure(plan, s.sure, names, env)
  BY DEF Simple, Sure, FoldLeft, MapThenFoldSet
<1>6. QED
  BY <1>1, <1>2, <1>4, <1>5

\* a part that makes no calls
Quiet(s) == CallsOf(s) = {}

LEMMA SimpleQuiet ==
  ASSUME NEW out \in SUBSET {0}, NEW plan \in Plan(out), NEW s \in Part, Quiet(s), NEW names, NEW env \in Env(out)
  PROVE  Simple(plan, s, names, env) = plan
<1>1. s.sure \in Seq(Call) /\ ToSet(s.sure) = {} /\ ToSet(s.maybe) = {}
  BY DEF Part, Quiet, CallsOf
<1>2. s.sure = << >>
  <2>1. \A n \in 1 .. Len(s.sure) : s.sure[n] \in ToSet(s.sure)
    BY <1>1 DEF ToSet
  <2>2. Len(s.sure) \in Nat /\ ~(1 \in 1 .. Len(s.sure))
    BY <1>1, <2>1
  <2>3. QED
    BY <1>1, <2>2, EmptySeq
<1>3. Simple(plan, s, names, env) = Sure(plan, s.sure, names, env)
  BY <1>1 DEF Simple, Sure, FoldLeft, MapThenFoldSet
<1>4. QED
  BY <1>2, <1>3, SureEmpty

(* Names keep values that are sequences. *)
LEMMA WithKeeps ==
  ASSUME NEW out \in SUBSET {0}, NEW env \in Env(out), NEW name \in STRING, NEW value \in Args(out)
  PROVE  With(env, name, value) \in Env(out)
<1> DEFINE new == With(env, name, value)
<1>1. /\ DOMAIN env \subseteq STRING /\ env \in [DOMAIN env -> Seq(Nat)] /\ value \in Seq(Nat)
      /\ "len" \in DOMAIN env => env["len"] \in Args(out)
  BY EnvIs, ArgsAreSeqs DEF IsEnv
<1>2. new \in [DOMAIN env \cup {name} -> Seq(Nat)]
  BY <1>1 DEF With
<1>3. DOMAIN new \subseteq STRING /\ new \in [DOMAIN new -> Seq(Nat)]
  BY <1>1, <1>2
<1>4. "len" \in DOMAIN new => new["len"] \in Args(out)
  BY <1>1 DEF With
<1> HIDE DEF new
<1>5. QED
  BY <1>3, <1>4, EnvIs DEF new, IsEnv

LEMMA ForgetKeeps ==
  ASSUME NEW out \in SUBSET {0}, NEW env \in Env(out), NEW names
  PROVE  Forget(env, names) \in Env(out)
<1> DEFINE new == Forget(env, names)
<1>1. /\ DOMAIN env \subseteq STRING /\ env \in [DOMAIN env -> Seq(Nat)]
      /\ "len" \in DOMAIN env => env["len"] \in Args(out)
  BY EnvIs DEF IsEnv
<1>2. new \in [DOMAIN env \ names -> Seq(Nat)]
  BY <1>1 DEF Forget
<1>3. DOMAIN new \subseteq STRING /\ new \in [DOMAIN new -> Seq(Nat)]
  BY <1>1, <1>2
<1>4. "len" \in DOMAIN new => new["len"] \in Args(out)
  BY <1>1 DEF Forget
<1> HIDE DEF new
<1>5. QED
  BY <1>3, <1>4, EnvIs DEF new, IsEnv

LEMMA LearnKeeps ==
  ASSUME NEW out \in SUBSET {0}, NEW s \in Part, NEW env \in Env(out)
  PROVE  Learn(s, env) \in Env(out)
<1> DEFINE known == StaticEval(s.to, env)
<1>1. s.sets \in STRING /\ s.to \in Expr
  BY DEF Part
<1>2. known # {} => (CHOOSE v \in known : TRUE) \in Args(out)
  BY <1>1, KnownIsArg
<1>3. known # {} => With(env, s.sets, CHOOSE v \in known : TRUE) \in Env(out)
  <2> HIDE DEF known
  <2>1. QED
    BY <1>1, <1>2, WithKeeps
<1>4. Forget(env, {s.sets} \cup Touched(s)) \in Env(out)
  BY ForgetKeeps
<1>5. QED
  BY <1>3, <1>4 DEF Learn

(* Straight-line code. *)
PlanEnv(out) == [plan : Plan(out), env : Env(out)]
OnePart(a, s, names) ==
  IF ~a.plan.on THEN a
  ELSE [plan |-> Simple(a.plan, s, names, a.env), env |-> Learn(s, a.env)]

LEMMA OnePartKeeps ==
  ASSUME NEW out \in SUBSET {0}, NEW a \in PlanEnv(out), NEW s \in Part, NEW names
  PROVE  OnePart(a, s, names) \in PlanEnv(out)
<1>1. a.plan \in Plan(out) /\ a.env \in Env(out)
  BY DEF PlanEnv
<1>2. Simple(a.plan, s, names, a.env) \in Plan(out) /\ Learn(s, a.env) \in Env(out)
  BY <1>1, SimpleKeeps, LearnKeeps
<1>3. QED
  BY <1>2 DEF OnePart, PlanEnv

Pass(base, stmts, names) ==
  FoldLeft(LAMBDA a, s : IF ~a.plan.on THEN a
                          ELSE [plan |-> Simple(a.plan, s, names, a.env), env |-> Learn(s, a.env)],
                  base, stmts)
PassFold(f, stmts, base, names) ==
  f = [s \in SUBSET DOMAIN stmts |->
         IF s = {} THEN base ELSE OnePart(f[s \ {Max(s)}], stmts[Max(s)], names)]

LEMMA PassKeeps ==
  ASSUME NEW out \in SUBSET {0}, NEW base \in PlanEnv(out), NEW stmts \in Seq(Part), NEW names
  PROVE  /\ Pass(base, stmts, names) \in PlanEnv(out)
         /\ (\A s \in ToSet(stmts) : Quiet(s)) => Pass(base, stmts, names).plan.calls = base.plan.calls
<1> DEFINE N == Len(stmts)
           none == \A s \in ToSet(stmts) : Quiet(s)
           R == {a \in PlanEnv(out) : none => a.plan.calls = base.plan.calls}
           f == CHOOSE h : PassFold(h, stmts, base, names)
           g == [a \in R \X (1 .. N) |-> OnePart(a[1], stmts[a[2]], names)]
<1>1. Pass(base, stmts, names) = f[DOMAIN stmts]
  BY DEF Pass, FoldLeft, MapThenFoldSet, PassFold, OnePart
<1>2. N \in Nat /\ DOMAIN stmts = 1 .. N /\ \A i \in 1 .. N : stmts[i] \in Part
  OBVIOUS
<1>3. \A r \in R, i \in 1 .. N : OnePart(r, stmts[i], names) \in R
  <2> SUFFICES ASSUME NEW r \in R, NEW i \in 1 .. N PROVE OnePart(r, stmts[i], names) \in R
    OBVIOUS
  <2>1. OnePart(r, stmts[i], names) \in PlanEnv(out)
    BY <1>2, OnePartKeeps
  <2>2. none => OnePart(r, stmts[i], names).plan.calls = r.plan.calls
    <3>1. none => Quiet(stmts[i])
      BY <1>2 DEF ToSet
    <3>2. r.plan \in Plan(out) /\ r.env \in Env(out)
      BY DEF PlanEnv
    <3>3. QED
      BY <1>2, <3>1, <3>2, SimpleQuiet DEF OnePart
  <2>3. QED
    BY <2>1, <2>2
<1>4. g \in [R \X (1 .. N) -> R] /\ base \in R
  BY <1>3
<1>5. \E h : PassFold(h, stmts, base, names)
  <2>1. PICK h : IsFold(h, g, base, R, N)
    <3> HIDE DEF g, N, R
    <3>1. QED
      BY <1>2, <1>4, FoldSteps
  <2>2. \A s \in Sets(N) : s # {} =>
          h[s] = OnePart(h[s \ {Max(s)}], stmts[Max(s)], names)
    <3>1. \A r \in R, i \in 1 .. N : g[<<r, i>>] = OnePart(r, stmts[i], names)
      OBVIOUS
    <3> HIDE DEF g, N, R
    <3>2. QED
      BY <2>1, <3>1 DEF IsFold
  <2>3. PassFold(h, stmts, base, names)
    BY <1>2, <2>1, <2>2 DEF PassFold, Sets, IsFold
  <2>4. QED
    BY <2>3
<1>6. PassFold(f, stmts, base, names)
  BY <1>5
<1> HIDE DEF f, N, R
<1>7. /\ f[{}] = base
      /\ \A s \in Sets(N) : s # {} => f[s] = OnePart(f[s \ {Max(s)}], stmts[Max(s)], names)
  BY <1>2, <1>6 DEF PassFold, Sets
<1>8. \A s \in Sets(N) :
        s # {} /\ Max(s) \in 1 .. N /\ f[s \ {Max(s)}] \in R => f[s] \in R
  BY <1>3, <1>7
<1>9. f[1 .. N] \in R
  BY <1>2, <1>4, <1>7, <1>8, FoldKeeps
<1>10. QED
  BY <1>1, <1>2, <1>9 DEF R

LEMMA StraightKeeps ==
  ASSUME NEW out \in SUBSET {0}, NEW plan \in Plan(out), NEW stmts \in Seq(Part), NEW names, NEW env \in Env(out)
  PROVE  /\ Straight(plan, stmts, names, env) \in Plan(out)
         /\ (\A s \in ToSet(stmts) : Quiet(s)) => Straight(plan, stmts, names, env).calls = plan.calls
<1> DEFINE base == [plan |-> plan, env |-> env]
<1>1. Straight(plan, stmts, names, env) = Pass(base, stmts, names).plan
  BY DEF Straight, Pass, FoldLeft, MapThenFoldSet
<1>2. base \in PlanEnv(out)
  BY DEF PlanEnv
<1>3. /\ Pass(base, stmts, names) \in PlanEnv(out) /\ base.plan.calls = plan.calls
      /\ (\A s \in ToSet(stmts) : Quiet(s)) => Pass(base, stmts, names).plan.calls = base.plan.calls
  <2>1. base.plan.calls = plan.calls
    OBVIOUS
  <2> HIDE DEF base
  <2>2. QED
    BY <1>2, <2>1, PassKeeps
<1>4. QED
  BY <1>1, <1>3 DEF PlanEnv

(* Loops, pass by pass. *)
OneItem(plan, item, stmt, names, env) ==
  IF plan.on /\ ~OnlyNames(stmt) THEN [plan EXCEPT !.on = FALSE]
  ELSE IF plan.on THEN Straight(plan, stmt.head, names, Bind(stmt, item, env))
  ELSE plan

LEMMA OneItemKeeps ==
  ASSUME NEW out \in SUBSET {0}, NEW plan \in Plan(out), NEW item \in Nat \ out, NEW stmt \in Stmt, NEW names, NEW env \in Env(out)
  PROVE  /\ OneItem(plan, item, stmt, names, env) \in Plan(out)
         /\ (\A s \in ToSet(stmt.head) : Quiet(s)) => OneItem(plan, item, stmt, names, env).calls = plan.calls
<1>1. stmt.var \in STRING /\ stmt.head \in Seq(Part)
  BY DEF Stmt
<1>2. <<item>> \in Args(out)
  BY DEF Args
<1>3. Bind(stmt, item, env) \in Env(out)
  BY <1>1, <1>2, WithKeeps DEF Bind
<1>4. /\ Straight(plan, stmt.head, names, Bind(stmt, item, env)) \in Plan(out)
      /\ (\A s \in ToSet(stmt.head) : Quiet(s)) =>
           Straight(plan, stmt.head, names, Bind(stmt, item, env)).calls = plan.calls
  BY <1>1, <1>3, StraightKeeps
<1>5. [plan EXCEPT !.on = FALSE] \in Plan(out) /\ [plan EXCEPT !.on = FALSE].calls = plan.calls
  BY DEF Plan
<1>6. QED
  BY <1>4, <1>5 DEF OneItem

Passes(none, items, stmt, names, env) ==
  FoldLeft(LAMBDA p, i : OneItem(p, i, stmt, names, env), none, items)
PassesFold(f, items, none, stmt, names, env) ==
  f = [s \in SUBSET DOMAIN items |->
         IF s = {} THEN none ELSE OneItem(f[s \ {Max(s)}], items[Max(s)], stmt, names, env)]

LEMMA PassesKeeps ==
  ASSUME NEW out \in SUBSET {0}, NEW none \in Plan(out), NEW items \in Args(out), NEW stmt \in Stmt, NEW names, NEW env \in Env(out)
  PROVE  /\ Passes(none, items, stmt, names, env) \in Plan(out)
         /\ (\A s \in ToSet(stmt.head) : Quiet(s)) =>
              Passes(none, items, stmt, names, env).calls = none.calls
<1> DEFINE N == Len(items)
           quiet == \A s \in ToSet(stmt.head) : Quiet(s)
           R == {a \in Plan(out) : quiet => a.calls = none.calls}
           f == CHOOSE h : PassesFold(h, items, none, stmt, names, env)
           g == [a \in R \X (1 .. N) |-> OneItem(a[1], items[a[2]], stmt, names, env)]
<1>1. Passes(none, items, stmt, names, env) = f[DOMAIN items]
  BY DEF Passes, FoldLeft, MapThenFoldSet, PassesFold
<1>2. N \in Nat /\ DOMAIN items = 1 .. N /\ \A i \in 1 .. N : items[i] \in Nat \ out
  BY DEF Args
<1>3. \A r \in R, i \in 1 .. N : OneItem(r, items[i], stmt, names, env) \in R
  BY <1>2, OneItemKeeps
<1>4. g \in [R \X (1 .. N) -> R] /\ none \in R
  BY <1>3
<1>5. \E h : PassesFold(h, items, none, stmt, names, env)
  <2>1. PICK h : IsFold(h, g, none, R, N)
    <3> HIDE DEF g, N, R
    <3>1. QED
      BY <1>2, <1>4, FoldSteps
  <2>2. \A s \in Sets(N) : s # {} =>
          h[s] = OneItem(h[s \ {Max(s)}], items[Max(s)], stmt, names, env)
    <3>1. \A r \in R, i \in 1 .. N : g[<<r, i>>] = OneItem(r, items[i], stmt, names, env)
      OBVIOUS
    <3> HIDE DEF g, N, R
    <3>2. QED
      BY <2>1, <3>1 DEF IsFold
  <2>3. PassesFold(h, items, none, stmt, names, env)
    BY <1>2, <2>1, <2>2 DEF PassesFold, Sets, IsFold
  <2>4. QED
    BY <2>3
<1>6. PassesFold(f, items, none, stmt, names, env)
  BY <1>5
<1> HIDE DEF f, N, R
<1>7. /\ f[{}] = none
      /\ \A s \in Sets(N) : s # {} => f[s] = OneItem(f[s \ {Max(s)}], items[Max(s)], stmt, names, env)
  BY <1>2, <1>6 DEF PassesFold, Sets
<1>8. \A s \in Sets(N) :
        s # {} /\ Max(s) \in 1 .. N /\ f[s \ {Max(s)}] \in R => f[s] \in R
  BY <1>3, <1>7
<1>9. f[1 .. N] \in R
  BY <1>2, <1>4, <1>7, <1>8, FoldKeeps
<1>10. QED
  BY <1>1, <1>2, <1>9 DEF R

LEMMA FirstOnes ==
  ASSUME NEW out, NEW items \in Args(out), NEW k \in Nat \ {0}
  PROVE  SubSeq(items, 1, Min({Len(items), k})) \in Args(out)
<1> DEFINE m == Min({Len(items), k})
<1>1. Len(items) \in Nat /\ items \in Seq(Nat \ out)
  BY DEF Args
<1>2. \E x \in {Len(items), k} : \A y \in {Len(items), k} : x <= y
  BY <1>1
<1>3. m \in {Len(items), k} /\ \A y \in {Len(items), k} : m <= y
  BY <1>2 DEF Min
<1>4. m \in Nat /\ m <= Len(items)
  BY <1>1, <1>3
<1> HIDE DEF m
<1>5. \A i \in 1 .. m : items[i] \in Nat \ out
  BY <1>1, <1>4
<1>6. SubSeq(items, 1, m) \in Seq(Nat \ out)
  BY <1>1, <1>4, <1>5
<1>7. QED
  BY <1>6 DEF m, Args

LEMMA LoopKeeps ==
  ASSUME NEW out \in SUBSET {0}, NEW stmt \in Stmt, NEW names, NEW env \in Env(out)
  PROVE  /\ Loop(stmt, names, env) \in Plan(out)
         /\ (\A s \in ToSet(stmt.head) : Quiet(s)) =>
              /\ Loop(stmt, names, env).calls = << >>
              /\ Loop(stmt, names, env).on => ~Blocks(AllCalls(stmt), names)
<1> DEFINE none == [calls |-> << >>, on |-> TRUE]
           known == StaticEval(stmt.iter, env) \ {Builtin}
           items == CHOOSE v \in known : TRUE
           some == SubSeq(items, 1, Min({Len(items), MaxUnroll}))
           all == Passes(none, some, stmt, names, env)
           rest == UNION {CallsOf(s) : s \in ToSet(stmt.rest)}
           quiet == \A s \in ToSet(stmt.head) : Quiet(s)
<1>1. none \in Plan(out) /\ none.calls = << >>
  BY DEF Plan
<1>2. stmt.iter \in Expr
  BY DEF Stmt
<1>3. known # {} => items \in Args(out)
  <2>1. \A v \in known : v \in Args(out)
    BY <1>2, KnownIsArg
  <2> HIDE DEF known
  <2>2. QED
    BY <2>1
<1>4. known # {} => all \in Plan(out) /\ (quiet => all.calls = none.calls)
  <2> HIDE DEF known, items, none
  <2>1. known # {} => some \in Args(out)
    BY <1>3, Unrolls, FirstOnes
  <2> HIDE DEF some
  <2>2. QED
    BY <1>1, <2>1, PassesKeeps
<1>5. Loop(stmt, names, env) =
        IF known = {} THEN [none EXCEPT !.on = ~Blocks(AllCalls(stmt), names)]
        ELSE [all EXCEPT !.on = @ /\ ~Blocks(rest, names)]
  BY DEF Loop, Passes, OneItem, FoldLeft, MapThenFoldSet
<1>6. \A p \in Plan(out), b \in BOOLEAN : [p EXCEPT !.on = b] \in Plan(out) /\ p.on \in BOOLEAN
  BY DEF Plan
<1>7. \A calls : (~Blocks(calls, names)) \in BOOLEAN
  BY DEF Blocks
<1>8. quiet => AllCalls(stmt) = rest
  BY DEF AllCalls, Parts, Quiet
<1>9. \A p \in Plan(out), b \in BOOLEAN : [p EXCEPT !.on = b].calls = p.calls /\ [p EXCEPT !.on = b].on = b
  BY DEF Plan
<1> HIDE DEF known, none, all, rest, quiet
<1>10. CASE known = {}
  <2> DEFINE b == ~Blocks(AllCalls(stmt), names)
  <2>1. b \in BOOLEAN /\ Loop(stmt, names, env) = [none EXCEPT !.on = b]
    BY <1>5, <1>7, <1>10
  <2> HIDE DEF b
  <2>2. Loop(stmt, names, env) \in Plan(out) /\ Loop(stmt, names, env).calls = << >> /\ Loop(stmt, names, env).on = b
    BY <1>1, <1>6, <1>9, <2>1
  <2>3. QED
    BY <2>2 DEF b
<1>11. CASE known # {}
  <2> DEFINE b == all.on /\ ~Blocks(rest, names)
  <2>1. b \in BOOLEAN /\ Loop(stmt, names, env) = [all EXCEPT !.on = b]
    BY <1>5, <1>7, <1>11
  <2> HIDE DEF b
  <2>2. Loop(stmt, names, env) \in Plan(out) /\ Loop(stmt, names, env).calls = all.calls /\ Loop(stmt, names, env).on = b
    BY <1>4, <1>6, <1>9, <1>11, <2>1
  <2>3. quiet => (b => ~Blocks(AllCalls(stmt), names))
    BY <1>8 DEF b
  <2>4. QED
    BY <1>1, <1>4, <1>11, <2>2, <2>3 DEF quiet
<1>12. QED
  BY <1>10, <1>11

LEMMA PlanCallsKeeps ==
  ASSUME NEW out \in SUBSET {0}, NEW stmt \in Stmt, stmt.kind = "simple" => stmt.head # << >>,
         NEW names, NEW env \in Env(out)
  PROVE  PlanCalls(stmt, names, env) \in Plan(out)
<1> DEFINE none == [calls |-> << >>, on |-> TRUE]
<1>1. none \in Plan(out) /\ \A b \in BOOLEAN : [calls |-> << >>, on |-> b] \in Plan(out)
  BY DEF Plan
<1>2. (~Blocks(AllCalls(stmt), names)) \in BOOLEAN
  BY DEF Blocks
<1>3. stmt.kind \in {"simple", "for", "if", "def"} /\ stmt.head \in Seq(Part)
  BY DEF Stmt
<1>4. CASE stmt.kind = "simple"
  <2>1. stmt.head[1] \in Part
    BY <1>3, <1>4, EmptySeq
  <2> HIDE DEF none
  <2>2. Simple(none, stmt.head[1], names, env) \in Plan(out)
    BY <1>1, <2>1, SimpleKeeps
  <2>3. PlanCalls(stmt, names, env) = Simple(none, stmt.head[1], names, env)
    BY <1>4 DEF PlanCalls, none
  <2>4. QED
    BY <2>2, <2>3
<1>5. CASE stmt.kind = "for"
  <2>1. PlanCalls(stmt, names, env) = Loop(stmt, names, env)
    BY <1>5 DEF PlanCalls
  <2>2. QED
    BY <2>1, LoopKeeps
<1>6. CASE stmt.kind = "if"
  <2>1. PlanCalls(stmt, names, env) = [calls |-> << >>, on |-> ~Blocks(AllCalls(stmt), names)]
    BY <1>6 DEF PlanCalls
  <2>2. QED
    BY <1>1, <1>2, <2>1
<1>7. CASE stmt.kind = "def"
  <2>1. PlanCalls(stmt, names, env) = none
    BY <1>7 DEF PlanCalls
  <2>2. QED
    BY <1>1, <2>1
<1>8. QED
  BY <1>3, <1>4, <1>5, <1>6, <1>7

-----------------------------------------------------------------------------
(* A look over several statements. *)
Planned(out) == [stmt : Nat, tool : STRING, arg : Args(out)]
Look(out) == [calls : Seq(Planned(out)), on : BOOLEAN, names : SUBSET Tools, env : Env(out)]
OneStmt(a, i) ==
  IF ~a.on THEN a
  ELSE LET p == PlanCalls(prog[i], a.names, a.env)
       IN  [calls |-> a.calls \o [n \in DOMAIN p.calls |->
              [stmt |-> i, tool |-> p.calls[n].tool, arg |-> p.calls[n].arg]],
            on |-> p.on,
            names |-> StillOurs(a.names, prog[i]),
            env |-> LearnAll(prog[i], a.env)]

LEMMA StmtsAre ==
  ASSUME prog \in Programs, NEW i \in 1 .. Len(prog)
  PROVE  /\ prog[i] \in Stmt
         /\ prog[i].kind = "simple" => prog[i].head # << >> /\ prog[i].head[1] \in Part
<1>1. prog \in Seq(Stmt) /\ i \in DOMAIN prog
  BY Code
<1>2. prog[i] \in Stmt /\ (prog[i].kind = "simple" => prog[i].head # << >>)
  BY <1>1, Code
<1>3. prog[i].head \in Seq(Part)
  BY <1>2 DEF Stmt
<1>4. QED
  BY <1>2, <1>3, EmptySeq

LEMMA OneStmtKeeps ==
  ASSUME NEW out \in SUBSET {0}, prog \in Programs, NEW a \in Look(out), NEW i \in 1 .. Len(prog)
  PROVE  OneStmt(a, i) \in Look(out)
<1> DEFINE p == PlanCalls(prog[i], a.names, a.env)
           new == [n \in DOMAIN p.calls |->
                     [stmt |-> i, tool |-> p.calls[n].tool, arg |-> p.calls[n].arg]]
<1>1. /\ a.calls \in Seq(Planned(out)) /\ a.names \in SUBSET Tools /\ a.env \in Env(out)
      /\ prog[i] \in Stmt /\ (prog[i].kind = "simple" => prog[i].head # << >>) /\ i \in Nat
  <2>1. i \in Nat
    OBVIOUS
  <2>2. QED
    BY <2>1, StmtsAre DEF Look
<1>2. p \in Plan(out)
  BY <1>1, PlanCallsKeeps
<1> HIDE DEF p
<1>3. new \in Seq(Planned(out))
  <2>1. p.calls \in Seq([tool : STRING, arg : Args(out)])
    BY <1>2 DEF Plan
  <2>2. \A n \in 1 .. Len(p.calls) : p.calls[n] \in [tool : STRING, arg : Args(out)]
    BY <2>1, ElementOfSeq
  <2>3. \A n \in 1 .. Len(p.calls) :
          [stmt |-> i, tool |-> p.calls[n].tool, arg |-> p.calls[n].arg] \in Planned(out)
    BY <1>1, <2>2 DEF Planned
  <2>4. DOMAIN p.calls = 1 .. Len(p.calls) /\ Len(p.calls) \in Nat
    BY <2>1
  <2>5. QED
    BY <2>3, <2>4
<1>4. a.calls \o new \in Seq(Planned(out))
  <2> HIDE DEF new
  <2>1. QED
    BY <1>1, <1>3
<1>5. StillOurs(a.names, prog[i]) \in SUBSET Tools
  BY <1>1 DEF StillOurs
<1>6. LearnAll(prog[i], a.env) \in Env(out)
  <2>1. prog[i].kind = "simple" => prog[i].head[1] \in Part
    BY StmtsAre
  <2>2. QED
    BY <1>1, <2>1, LearnKeeps, ForgetKeeps DEF LearnAll
<1>7. p.on \in BOOLEAN
  BY <1>2 DEF Plan
<1>8. OneStmt(a, i) = IF ~a.on THEN a
                      ELSE [calls |-> a.calls \o new, on |-> p.on,
                            names |-> StillOurs(a.names, prog[i]), env |-> LearnAll(prog[i], a.env)]
  BY DEF OneStmt, p, new
<1>9. QED
  <2> HIDE DEF new
  <2>1. QED
    BY <1>4, <1>5, <1>6, <1>7, <1>8 DEF Look

Ahead(base, indices) ==
  FoldLeft(LAMBDA a, i : OneStmt(a, i), base, indices)
AheadSteps(out, indices) ==
  [a \in Look(out) \X (1 .. Len(indices)) |-> OneStmt(a[1], indices[a[2]])]
AheadFold(f, indices, base) ==
  f = [s \in SUBSET DOMAIN indices |->
         IF s = {} THEN base ELSE OneStmt(f[s \ {Max(s)}], indices[Max(s)])]

LEMMA AheadIs ==
  ASSUME NEW out \in SUBSET {0}, prog \in Programs, NEW base \in Look(out), NEW indices \in Seq(1 .. Len(prog))
  PROVE  /\ Ahead(base, indices) \in Look(out)
         /\ \E h : /\ IsFold(h, AheadSteps(out, indices), base, Look(out), Len(indices))
                  /\ Ahead(base, indices) = h[1 .. Len(indices)]
<1> DEFINE N == Len(indices)
           f == CHOOSE h : AheadFold(h, indices, base)
           g == AheadSteps(out, indices)
<1>1. Ahead(base, indices) = f[DOMAIN indices]
  BY DEF Ahead, FoldLeft, MapThenFoldSet, AheadFold
<1>2. N \in Nat /\ DOMAIN indices = 1 .. N /\ \A i \in 1 .. N : indices[i] \in 1 .. Len(prog)
  OBVIOUS
<1>3. \A r \in Look(out), i \in 1 .. N : OneStmt(r, indices[i]) \in Look(out)
  BY <1>2, OneStmtKeeps
<1>4. g \in [Look(out) \X (1 .. N) -> Look(out)]
  BY <1>3 DEF AheadSteps
<1>5. \A r \in Look(out), i \in 1 .. N : g[<<r, i>>] = OneStmt(r, indices[i])
  BY DEF AheadSteps
<1>6. AheadFold(f, indices, base)
  <2>1. PICK h : IsFold(h, g, base, Look(out), N)
    <3> HIDE DEF g, N
    <3>1. QED
      BY <1>2, <1>4, FoldSteps
  <2>2. \A s \in Sets(N) : s # {} =>
          h[s] = OneStmt(h[s \ {Max(s)}], indices[Max(s)])
    <3> HIDE DEF g, N
    <3>1. QED
      BY <1>5, <2>1 DEF IsFold
  <2>3. AheadFold(h, indices, base)
    BY <1>2, <2>1, <2>2 DEF AheadFold, Sets, IsFold
  <2>4. QED
    BY <2>3
<1> HIDE DEF f, N, g
<1>7. /\ f = [s \in Sets(N) |-> f[s]] /\ f[{}] = base
      /\ \A s \in Sets(N) : s # {} => f[s] = OneStmt(f[s \ {Max(s)}], indices[Max(s)])
  BY <1>2, <1>6 DEF AheadFold, Sets
<1>8. \A s \in Sets(N) : s # {} /\ Max(s) \in 1 .. N /\ f[s \ {Max(s)}] \in Look(out)
                        => f[s] = g[<<f[s \ {Max(s)}], Max(s)>>]
  BY <1>5, <1>7
<1>9. IsFold(f, g, base, Look(out), N) /\ f[1 .. N] \in Look(out)
  BY <1>2, <1>4, <1>7, <1>8, FoldIs, ZenonT(60)
<1>10. QED
  BY <1>1, <1>2, <1>9 DEF g, N

LEMMA AheadEmpty ==
  ASSUME NEW out \in SUBSET {0}, prog \in Programs, NEW base \in Look(out)
  PROVE  Ahead(base, << >>) = base
<1> DEFINE seq == << >>
<1>0. 1 .. 0 = {}
  OBVIOUS
<1>1. seq \in Seq(1 .. Len(prog)) /\ Len(seq) = 0
  OBVIOUS
<1> HIDE DEF seq
<1>2. PICK h : IsFold(h, AheadSteps(out, seq), base, Look(out), Len(seq)) /\ Ahead(base, seq) = h[1 .. Len(seq)]
  BY <1>1, AheadIs
<1>3. Ahead(base, seq) = base
  BY <1>0, <1>1, <1>2 DEF IsFold
<1>4. QED
  BY <1>3 DEF seq

LEMMA AheadAppend ==
  ASSUME NEW out \in SUBSET {0}, prog \in Programs, NEW base \in Look(out), NEW indices \in Seq(1 .. Len(prog)), NEW last \in 1 .. Len(prog)
  PROVE  Ahead(base, Append(indices, last)) = OneStmt(Ahead(base, indices), last)
<1> DEFINE N == Len(indices)
           more == Append(indices, last)
<1>1. /\ more \in Seq(1 .. Len(prog)) /\ Len(more) = N + 1 /\ N \in Nat /\ more[N + 1] = last
      /\ \A i \in 1 .. N : more[i] = indices[i]
  BY AppendProperties
<1> HIDE DEF more
<1>2. PICK h : IsFold(h, AheadSteps(out, indices), base, Look(out), N) /\ Ahead(base, indices) = h[1 .. N]
  BY AheadIs
<1>3. PICK k : IsFold(k, AheadSteps(out, more), base, Look(out), N + 1) /\ Ahead(base, more) = k[1 .. N + 1]
  BY <1>1, AheadIs
<1>4. \A r \in Look(out), i \in 1 .. N : AheadSteps(out, indices)[<<r, i>>] = AheadSteps(out, more)[<<r, i>>]
  BY <1>1 DEF AheadSteps
<1>5. k[1 .. N + 1] = AheadSteps(out, more)[<<h[1 .. N], N + 1>>]
  <2> DEFINE g1 == AheadSteps(out, indices)
             g2 == AheadSteps(out, more)
             Q == Look(out)
  <2>1. Longer(h, g1, k, g2, base, Q, N)
    BY <1>1, <1>2, <1>3, <1>4 DEF Longer
  <2> HIDE DEF N, g1, g2, Q
  <2>2. QED
    BY <2>1, FoldAppend DEF g2
<1>6. Ahead(base, indices) \in Look(out)
  BY AheadIs
<1>7. QED
  BY <1>1, <1>2, <1>3, <1>5, <1>6 DEF AheadSteps, more

LEMMA PlanAheadKeeps ==
  ASSUME NEW out \in SUBSET {0}, prog \in Programs, NEW indices \in Seq(1 .. Len(prog)), NEW env \in Env(out)
  PROVE  PlanAhead(indices, env) \in Seq(Planned(out))
<1> DEFINE base == [calls |-> << >>, on |-> TRUE, names |-> Tools \ DOMAIN env, env |-> env]
<1>1. base \in Look(out)
  BY DEF Look
<1>2. PlanAhead(indices, env) = Ahead(base, indices).calls
  BY DEF PlanAhead, Ahead, OneStmt, FoldLeft, MapThenFoldSet
<1>3. Ahead(base, indices) \in Look(out)
  <2> HIDE DEF base
  <2>1. QED
    BY <1>1, AheadIs
<1>4. QED
  BY <1>2, <1>3 DEF Look

ListsOf(T) == Seq(T)
Keep(kept, c, S) == IF c \in S THEN Append(kept, c) ELSE kept
LEMMA KeepKeeps ==
  ASSUME NEW T, NEW kept \in ListsOf(T), NEW c \in T, NEW S
  PROVE  Keep(kept, c, S) \in ListsOf(T)
BY DEF Keep, ListsOf

Kept(none, seq, S) == FoldLeft(LAMBDA kept, c : Keep(kept, c, S), none, seq)
KeptSteps(seq, S, T) ==
  [a \in ListsOf(T) \X (1 .. Len(seq)) |-> Keep(a[1], seq[a[2]], S)]
KeptFold(f, seq, none, S) ==
  f = [s \in SUBSET DOMAIN seq |->
         IF s = {} THEN none ELSE Keep(f[s \ {Max(s)}], seq[Max(s)], S)]

LEMMA KeptIs ==
  ASSUME NEW T, NEW none \in ListsOf(T), NEW seq \in ListsOf(T), NEW S
  PROVE  /\ Kept(none, seq, S) \in ListsOf(T)
         /\ \E h : /\ IsFold(h, KeptSteps(seq, S, T), none, ListsOf(T), Len(seq))
                  /\ Kept(none, seq, S) = h[1 .. Len(seq)]
<1> DEFINE N == Len(seq)
           f == CHOOSE h : KeptFold(h, seq, none, S)
           g == KeptSteps(seq, S, T)
<1>1. Kept(none, seq, S) = f[DOMAIN seq]
  BY DEF Kept, FoldLeft, MapThenFoldSet, KeptFold, Keep
<1>2. N \in Nat /\ DOMAIN seq = 1 .. N /\ \A i \in 1 .. N : seq[i] \in T
  BY DEF ListsOf
<1>3. \A r \in ListsOf(T), i \in 1 .. N : Keep(r, seq[i], S) \in ListsOf(T)
  BY <1>2, KeepKeeps
<1>4. g \in [ListsOf(T) \X (1 .. N) -> ListsOf(T)]
  BY <1>3 DEF KeptSteps
<1>5. \A r \in ListsOf(T), i \in 1 .. N : g[<<r, i>>] = Keep(r, seq[i], S)
  BY DEF KeptSteps
<1>6. KeptFold(f, seq, none, S)
  <2>1. PICK h : IsFold(h, g, none, ListsOf(T), N)
    <3> HIDE DEF g, N
    <3>1. QED
      BY <1>2, <1>4, FoldSteps
  <2>2. \A s \in Sets(N) : s # {} =>
          h[s] = Keep(h[s \ {Max(s)}], seq[Max(s)], S)
    <3> HIDE DEF g, N
    <3>1. QED
      BY <1>5, <2>1 DEF IsFold
  <2>3. KeptFold(h, seq, none, S)
    BY <1>2, <2>1, <2>2 DEF KeptFold, Sets, IsFold
  <2>4. QED
    BY <2>3
<1> HIDE DEF f, N, g
<1>7. /\ f = [s \in Sets(N) |-> f[s]] /\ f[{}] = none
      /\ \A s \in Sets(N) : s # {} => f[s] = Keep(f[s \ {Max(s)}], seq[Max(s)], S)
  BY <1>2, <1>6 DEF KeptFold, Sets
<1>8. \A s \in Sets(N) : s # {} /\ Max(s) \in 1 .. N /\ f[s \ {Max(s)}] \in ListsOf(T)
                        => f[s] = g[<<f[s \ {Max(s)}], Max(s)>>]
  BY <1>5, <1>7
<1>9. IsFold(f, g, none, ListsOf(T), N) /\ f[1 .. N] \in ListsOf(T)
  BY <1>2, <1>4, <1>7, <1>8, FoldIs, ZenonT(60)
<1>10. QED
  BY <1>1, <1>2, <1>9 DEF g, N

LEMMA KeptEmpty ==
  ASSUME NEW T, NEW none \in ListsOf(T), NEW S
  PROVE  Kept(none, << >>, S) = none
<1> DEFINE seq == << >>
<1>0. 1 .. 0 = {}
  BY DEF ListsOf
<1>1. seq \in ListsOf(T) /\ Len(seq) = 0
  BY DEF ListsOf
<1> HIDE DEF seq
<1>2. PICK h : IsFold(h, KeptSteps(seq, S, T), none, ListsOf(T), Len(seq)) /\ Kept(none, seq, S) = h[1 .. Len(seq)]
  BY <1>1, KeptIs
<1>3. Kept(none, seq, S) = none
  BY <1>0, <1>1, <1>2 DEF IsFold
<1>4. QED
  BY <1>3 DEF seq

LEMMA KeptAppend ==
  ASSUME NEW T, NEW none \in ListsOf(T), NEW seq \in ListsOf(T), NEW last \in T, NEW S
  PROVE  Kept(none, Append(seq, last), S) = Keep(Kept(none, seq, S), last, S)
<1> DEFINE N == Len(seq)
           more == Append(seq, last)
<1>1. /\ more \in ListsOf(T) /\ Len(more) = N + 1 /\ N \in Nat /\ more[N + 1] = last
      /\ \A i \in 1 .. N : more[i] = seq[i]
  BY AppendProperties DEF ListsOf
<1> HIDE DEF more
<1>2. PICK h : IsFold(h, KeptSteps(seq, S, T), none, ListsOf(T), N) /\ Kept(none, seq, S) = h[1 .. N]
  BY KeptIs
<1>3. PICK k : IsFold(k, KeptSteps(more, S, T), none, ListsOf(T), N + 1) /\ Kept(none, more, S) = k[1 .. N + 1]
  BY <1>1, KeptIs
<1>4. \A r \in ListsOf(T), i \in 1 .. N : KeptSteps(seq, S, T)[<<r, i>>] = KeptSteps(more, S, T)[<<r, i>>]
  BY <1>1 DEF KeptSteps
<1>5. k[1 .. N + 1] = KeptSteps(more, S, T)[<<h[1 .. N], N + 1>>]
  <2> DEFINE g1 == KeptSteps(seq, S, T)
             g2 == KeptSteps(more, S, T)
             Q == ListsOf(T)
  <2>1. Longer(h, g1, k, g2, none, Q, N)
    BY <1>1, <1>2, <1>3, <1>4 DEF Longer
  <2> HIDE DEF N, g1, g2, Q
  <2>2. QED
    BY <2>1, FoldAppend DEF g2
<1>6. Kept(none, seq, S) \in ListsOf(T)
  BY KeptIs
<1>7. QED
  BY <1>1, <1>2, <1>3, <1>5, <1>6 DEF KeptSteps, more

(* What Only gives, by what the sequence ends with. *)
LEMMA OnlyKeeps ==
  ASSUME NEW T, NEW seq \in Seq(T), NEW S
  PROVE  Only(seq, S) \in Seq(T)
<1>1. Only(seq, S) = Kept(<< >>, seq, S)
  BY DEF Only, Kept, Keep, FoldLeft, MapThenFoldSet
<1>2. seq \in ListsOf(T) /\ << >> \in ListsOf(T)
  BY DEF ListsOf
<1>3. Only(seq, S) \in ListsOf(T)
  BY <1>1, <1>2, KeptIs
<1>4. QED
  BY <1>3 DEF ListsOf

LEMMA OnlyEmpty == ASSUME NEW S PROVE Only(<< >>, S) = << >>
<1> DEFINE T == {}
<1>1. Only(<< >>, S) = Kept(<< >>, << >>, S) /\ << >> \in Seq(T)
  BY DEF Only, Kept, Keep, FoldLeft, MapThenFoldSet
<1> HIDE DEF T
<1>2. QED
  BY <1>1, KeptEmpty DEF ListsOf

LEMMA OnlyAppend ==
  ASSUME NEW T, NEW seq \in Seq(T), NEW c \in T, NEW S
  PROVE  Only(Append(seq, c), S) = IF c \in S THEN Append(Only(seq, S), c) ELSE Only(seq, S)
<1>1. /\ Only(seq, S) = Kept(<< >>, seq, S) /\ << >> \in Seq(T)
      /\ Only(Append(seq, c), S) = Kept(<< >>, Append(seq, c), S)
  BY DEF Only, Kept, Keep, FoldLeft, MapThenFoldSet
<1>2. Kept(<< >>, Append(seq, c), S) = Keep(Kept(<< >>, seq, S), c, S)
  BY <1>1, KeptAppend DEF ListsOf
<1>3. QED
  BY <1>1, <1>2 DEF Keep

LEMMA NotPassedKeeps ==
  ASSUME NEW out \in SUBSET {0}, NEW calls \in Seq(Planned(out)), NEW first
  PROVE  NotPassed(calls, first) \in Seq(Planned(out))
BY OnlyKeeps DEF NotPassed

-----------------------------------------------------------------------------
(* What the run keeps: values are sequences, and what is left of a statement *)
(* is parts of it.                                                           *)
Work == {w \in [op : {"bind", "do", "branch", "raise"}, stmts : Seq(Part), item : Seq(Nat)] :
           w.op = "do" => w.stmts # << >>}

\* what may be left of a statement
WorkOf(stmt) == {w \in Work : /\ w.op \in {"do", "branch"} => ToSet(w.stmts) \subseteq Parts(stmt)
                              /\ w.op = "bind" => stmt.kind = "for"}

RunInv ==
  /\ prog \in Programs /\ ns \in Env({}) /\ work \in Seq(Work)
  /\ next \in 1 .. Len(prog) + 1 /\ running \in BOOLEAN
  /\ running => next <= Len(prog) /\ work \in Seq(WorkOf(prog[next]))
  /\ ~running => work = << >>
\* what no argument has in it: an object, while `len` is the builtin
Barred == IF "len" \in DOMAIN ns THEN {} ELSE {0}
PlanInv ==
  /\ own \in Seq(Planned(Barred))
  /\ look \in [noted : 0 .. Len(prog), taken : BOOLEAN, next : Nat, running : BOOLEAN,
               calls : Seq(Planned(Barred))]
Inv == RunInv /\ PlanInv

\* once the program has bound a name it stays bound, so less is barred as it runs
LEMMA BarredIs ==
  /\ Barred \in SUBSET {0}
  /\ ns \in Env({}) => ns \in Env(Barred)
  /\ Seq(Planned(Barred)) \subseteq Seq(Planned({}))
<1>1. Barred \in SUBSET {0}
  BY DEF Barred
<1>2. ASSUME ns \in Env({}) PROVE ns \in Env(Barred)
  <2>1. /\ DOMAIN ns \subseteq STRING /\ ns \in [DOMAIN ns -> Seq(Nat)]
        /\ "len" \in DOMAIN ns => ns["len"] \in Args({})
    BY <1>2, EnvIs DEF IsEnv
  <2>2. "len" \in DOMAIN ns => ns["len"] \in Args(Barred)
    BY <2>1 DEF Barred
  <2> DEFINE out == Barred
  <2> HIDE DEF out
  <2>3. ns \in Env(out)
    BY <2>1, <2>2, EnvIs DEF out, IsEnv
  <2>4. QED
    BY <2>3 DEF out
<1>3. Planned(Barred) \subseteq Planned({})
  BY DEF Planned, Args
<1>4. QED
  BY <1>1, <1>2, <1>3

\* so what is planned is a call with some value, whatever is barred
LEMMA PlansAre ==
  ASSUME Inv
  PROVE  /\ own \in Seq(Planned({}))
         /\ look \in [noted : 0 .. Len(prog), taken : BOOLEAN, next : Nat, running : BOOLEAN,
                      calls : Seq(Planned({}))]
<1>1. look.calls \in Seq(Planned({})) /\ own \in Seq(Planned({}))
  BY BarredIs DEF Inv, PlanInv
<1>2. QED
  BY <1>1 DEF Inv, PlanInv

LEMMA BarredLess ==
  ASSUME DOMAIN ns \subseteq DOMAIN ns'
  PROVE  Seq(Planned(Barred)) \subseteq Seq(Planned(Barred'))
<1>1. Barred' \subseteq Barred
  BY DEF Barred
<1>2. Planned(Barred) \subseteq Planned(Barred')
  BY <1>1 DEF Planned, Args
<1>3. QED
  BY <1>2

LEMMA RealIs ==
  ASSUME NEW e \in Expr, NEW env \in Env({}), Bound(e, env)
  PROVE  Real(e, env) \in Seq(Nat)
<1>1. e.kind \notin {"lit", "opaque"} => Named(e.name, env) \in Seq(Nat)
  <2>1. e.name \in DOMAIN env => env[e.name] \in Seq(Nat)
    BY EnvAny
  <2>2. Builtin \in Seq(Nat)
    BY DEF Builtin
  <2>3. QED
    BY <2>1, <2>2 DEF Named
<1>2. CASE e.kind = "lit"
  <2>1. e.val \in Seq(Nat \ {0, 9})
    BY DEF Expr
  <2>2. e.val \in Seq(Nat)
    BY <2>1
  <2>3. QED
    BY <1>2, <2>2 DEF Real, Value
<1>3. CASE e.kind = "name"
  BY <1>1, <1>3 DEF Real, Value
<1>4. CASE e.kind = "more"
  <2>1. Text(Named(e.name, env)) \in Seq(Nat)
    <3>1. Named(e.name, env) \in Args({}) /\ {} \in SUBSET {0}
      BY <1>1, <1>4, ArgsAreSeqs
    <3>2. Text(Named(e.name, env)) \in Args({})
      BY <3>1, TextIs
    <3>3. QED
      BY <3>2, ArgsAreSeqs
  <2>2. QED
    BY <1>4, <2>1 DEF Real, Value
<1>5. CASE e.kind = "len"
  <2>1. e.name \in DOMAIN env /\ env[e.name] \in Seq(Nat)
    BY <1>5, EnvAny DEF Bound
  <2>2. 10 + Len(env[e.name]) \in Nat
    BY <2>1
  <2>3. <<10 + Len(env[e.name])>> \in Seq(Nat) /\ <<6>> \in Seq(Nat)
    BY <2>2
  <2>4. QED
    BY <1>5, <2>3 DEF Real, Value
<1>6. CASE e.kind = "opaque"
  BY <1>6 DEF Real
<1>7. QED
  BY <1>2, <1>3, <1>4, <1>5, <1>6 DEF Expr

LEMMA AlteredIs ==
  ASSUME NEW env \in Env({}), NEW names
  PROVE  Altered(env, names) \in Env({}) /\ DOMAIN Altered(env, names) = DOMAIN env
<1>1. DOMAIN env \subseteq STRING /\ env \in [DOMAIN env -> Seq(Nat)]
  BY EnvAny
<1>2. \A v \in Seq(Nat) : v \o <<2>> \in Seq(Nat)
  OBVIOUS
<1>3. Altered(env, names) \in [DOMAIN env -> Seq(Nat)]
  BY <1>1, <1>2 DEF Altered
<1>4. DOMAIN Altered(env, names) = DOMAIN env
  BY DEF Altered
<1>5. QED
  BY <1>1, <1>3, <1>4, EnvAny

LEMMA WithAny ==
  ASSUME NEW env \in Env({}), NEW name \in STRING, NEW value \in Seq(Nat)
  PROVE  With(env, name, value) \in Env({}) /\ DOMAIN env \subseteq DOMAIN With(env, name, value)
<1>1. {} \in SUBSET {0} /\ value \in Args({})
  BY ArgsAreSeqs
<1>2. DOMAIN env \subseteq DOMAIN With(env, name, value)
  BY DEF With
<1>3. QED
  BY <1>1, <1>2, WithKeeps

\* what each pass of a loop adds to the work
DoOne(s) == [op |-> "do", stmts |-> <<s>>, item |-> << >>]
Branch(stmts) == [op |-> "branch", stmts |-> stmts, item |-> << >>]
OnePass(w, item, stmt) ==
  w \o (<<[op |-> "bind", stmts |-> << >>, item |-> <<item>>]>>
          \o [n \in DOMAIN stmt.head |-> DoOne(stmt.head[n])] \o <<Branch(stmt.rest)>>)

LEMMA WorkIs ==
  /\ \A s \in Part : DoOne(s) \in Work
  /\ \A stmts \in Seq(Part) : Branch(stmts) \in Work
  /\ \A stmts \in Seq(Part) : [n \in DOMAIN stmts |-> DoOne(stmts[n])] \in Seq(Work)
<1>1. ASSUME NEW s \in Part PROVE DoOne(s) \in Work
  <2>1. <<s>> \in Seq(Part) /\ <<s>> # << >> /\ << >> \in Seq(Nat)
    OBVIOUS
  <2>2. QED
    BY <2>1 DEF DoOne, Work
<1>2. ASSUME NEW stmts \in Seq(Part) PROVE Branch(stmts) \in Work
  <2>1. << >> \in Seq(Nat)
    OBVIOUS
  <2>2. QED
    BY <2>1 DEF Branch, Work
<1>3. ASSUME NEW stmts \in Seq(Part) PROVE [n \in DOMAIN stmts |-> DoOne(stmts[n])] \in Seq(Work)
  <2>1. \A n \in 1 .. Len(stmts) : stmts[n] \in Part
    BY ElementOfSeq
  <2>2. \A n \in 1 .. Len(stmts) : DoOne(stmts[n]) \in Work
    BY <1>1, <2>1
  <2>3. DOMAIN stmts = 1 .. Len(stmts) /\ Len(stmts) \in Nat
    OBVIOUS
  <2>4. QED
    BY <2>2, <2>3
<1>4. QED
  BY <1>1, <1>2, <1>3

LEMMA WorkOfIs ==
  ASSUME NEW stmt \in Stmt
  PROVE  /\ \A stmts \in Seq(Part) : ToSet(stmts) \subseteq Parts(stmt) =>
              /\ Branch(stmts) \in WorkOf(stmt)
              /\ [n \in DOMAIN stmts |-> DoOne(stmts[n])] \in Seq(WorkOf(stmt))
         /\ stmt.head \in Seq(Part) /\ ToSet(stmt.head) \subseteq Parts(stmt)
         /\ stmt.rest \in Seq(Part) /\ ToSet(stmt.rest) \subseteq Parts(stmt)
         /\ Seq(WorkOf(stmt)) \subseteq Seq(Work)
<1>1. ASSUME NEW stmts \in Seq(Part), ToSet(stmts) \subseteq Parts(stmt)
      PROVE  /\ Branch(stmts) \in WorkOf(stmt)
             /\ [n \in DOMAIN stmts |-> DoOne(stmts[n])] \in Seq(WorkOf(stmt))
  <2>1. Branch(stmts) \in WorkOf(stmt)
    BY <1>1, WorkIs DEF WorkOf, Branch
  <2>2. \A n \in 1 .. Len(stmts) : stmts[n] \in Part /\ stmts[n] \in Parts(stmt)
    BY <1>1, ElementOfSeq DEF ToSet
  <2>3. \A n \in 1 .. Len(stmts) : DoOne(stmts[n]) \in WorkOf(stmt)
    <3> SUFFICES ASSUME NEW n \in 1 .. Len(stmts) PROVE DoOne(stmts[n]) \in WorkOf(stmt)
      OBVIOUS
    <3> DEFINE x == stmts[n]
    <3>1. DoOne(x) \in Work /\ x \in Parts(stmt)
      BY <2>2, WorkIs
    <3> HIDE DEF x
    <3>2. DoOne(x).op = "do" /\ ToSet(DoOne(x).stmts) = {x}
      BY DEF DoOne, ToSet
    <3>3. DoOne(x) \in WorkOf(stmt)
      BY <3>1, <3>2 DEF WorkOf
    <3>4. QED
      BY <3>3 DEF x
  <2>4. DOMAIN stmts = 1 .. Len(stmts) /\ Len(stmts) \in Nat
    OBVIOUS
  <2>5. QED
    BY <2>1, <2>3, <2>4
<1>2. /\ stmt.head \in Seq(Part) /\ ToSet(stmt.head) \subseteq Parts(stmt)
      /\ stmt.rest \in Seq(Part) /\ ToSet(stmt.rest) \subseteq Parts(stmt)
  BY DEF Stmt, Parts
<1>3. Seq(WorkOf(stmt)) \subseteq Seq(Work)
  BY DEF WorkOf
<1>4. QED
  BY <1>1, <1>2, <1>3

LEMMA OnePassKeeps ==
  ASSUME NEW stmt \in Stmt, stmt.kind = "for", NEW w \in Seq(WorkOf(stmt)), NEW item \in Nat
  PROVE  OnePass(w, item, stmt) \in Seq(WorkOf(stmt))
<1> DEFINE bind == [op |-> "bind", stmts |-> << >>, item |-> <<item>>]
           parts == [n \in DOMAIN stmt.head |-> DoOne(stmt.head[n])]
           branch == Branch(stmt.rest)
<1>1. bind \in WorkOf(stmt)
  <2>1. <<item>> \in Seq(Nat) /\ << >> \in Seq(Part)
    OBVIOUS
  <2>2. QED
    BY <2>1 DEF Work, WorkOf
<1>2. parts \in Seq(WorkOf(stmt)) /\ branch \in WorkOf(stmt)
  BY WorkOfIs
<1>3. OnePass(w, item, stmt) = w \o (<<bind>> \o parts \o <<branch>>)
  BY DEF OnePass
<1> HIDE DEF bind, parts, branch
<1>4. <<bind>> \in Seq(WorkOf(stmt)) /\ <<branch>> \in Seq(WorkOf(stmt))
  BY <1>1, <1>2
<1>5. QED
  BY <1>2, <1>3, <1>4

Unrolled(none, items, stmt) ==
  FoldLeft(LAMBDA w, item : OnePass(w, item, stmt), none, items)
UnrolledFold(f, items, none, stmt) ==
  f = [s \in SUBSET DOMAIN items |->
         IF s = {} THEN none ELSE OnePass(f[s \ {Max(s)}], items[Max(s)], stmt)]

LEMMA UnrolledKeeps ==
  ASSUME NEW stmt \in Stmt, stmt.kind = "for", NEW none \in Seq(WorkOf(stmt)), NEW items \in Seq(Nat)
  PROVE  Unrolled(none, items, stmt) \in Seq(WorkOf(stmt))
<1> DEFINE N == Len(items)
           f == CHOOSE h : UnrolledFold(h, items, none, stmt)
           g == [a \in Seq(WorkOf(stmt)) \X (1 .. N) |-> OnePass(a[1], items[a[2]], stmt)]
<1>1. Unrolled(none, items, stmt) = f[DOMAIN items]
  BY DEF Unrolled, FoldLeft, MapThenFoldSet, UnrolledFold
<1>2. N \in Nat /\ DOMAIN items = 1 .. N /\ \A i \in 1 .. N : items[i] \in Nat
  OBVIOUS
<1>3. \A r \in Seq(WorkOf(stmt)), i \in 1 .. N : OnePass(r, items[i], stmt) \in Seq(WorkOf(stmt))
  BY <1>2, OnePassKeeps
<1>4. g \in [Seq(WorkOf(stmt)) \X (1 .. N) -> Seq(WorkOf(stmt))]
  BY <1>3
<1>5. \E h : UnrolledFold(h, items, none, stmt)
  <2>1. PICK h : IsFold(h, g, none, Seq(WorkOf(stmt)), N)
    <3> HIDE DEF g, N
    <3>1. QED
      BY <1>2, <1>4, FoldSteps
  <2>2. \A s \in Sets(N) : s # {} =>
          h[s] = OnePass(h[s \ {Max(s)}], items[Max(s)], stmt)
    BY <2>1 DEF IsFold
  <2>3. UnrolledFold(h, items, none, stmt)
    BY <1>2, <2>1, <2>2 DEF UnrolledFold, Sets, IsFold
  <2>4. QED
    BY <2>3
<1>6. UnrolledFold(f, items, none, stmt)
  BY <1>5
<1> HIDE DEF f, N
<1>7. /\ f[{}] = none
      /\ \A s \in Sets(N) : s # {} => f[s] = OnePass(f[s \ {Max(s)}], items[Max(s)], stmt)
  BY <1>2, <1>6 DEF UnrolledFold, Sets
<1>8. \A s \in Sets(N) :
        s # {} /\ Max(s) \in 1 .. N /\ f[s \ {Max(s)}] \in Seq(WorkOf(stmt)) => f[s] \in Seq(WorkOf(stmt))
  BY <1>3, <1>7
<1>9. f[1 .. N] \in Seq(WorkOf(stmt))
  BY <1>2, <1>7, <1>8, FoldKeeps
<1>10. QED
  BY <1>1, <1>2, <1>9

\* how a statement is taken up, with what there is to do in it
Begins(stmt) ==
  LET parts == [n \in DOMAIN stmt.head |-> DoOne(stmt.head[n])]
  IN  parts \o (IF stmt.rest = << >> THEN << >> ELSE <<Branch(stmt.rest)>>)

LEMMA TakesIs ==
  ASSUME Inv, Takes
  PROVE  /\ next \in 1 .. Len(prog) /\ prog[next] \in Stmt /\ prog \in Programs /\ ns \in Env({})
         /\ own \in Seq(Planned({})) /\ running = FALSE /\ running' = TRUE
         /\ own' = own \o PlanAhead(<<next>>, ns) /\ UNCHANGED <<prog, ns, next, made, look>>
         /\ work' \in Seq(WorkOf(prog[next]))
         /\ prog[next].kind # "for" => work' = Begins(prog[next])
<1> DEFINE stmt == prog[next]
           parts == [n \in DOMAIN stmt.head |-> DoOne(stmt.head[n])]
<1>1. /\ next \in 1 .. Len(prog) /\ stmt \in Stmt /\ prog \in Programs /\ ns \in Env({})
      /\ own \in Seq(Planned({})) /\ running = FALSE /\ running' = TRUE
      /\ own' = own \o PlanAhead(<<next>>, ns) /\ UNCHANGED <<prog, ns, next, made, look>>
  <2>1. next \in 1 .. Len(prog)
    <3>1. prog \in Seq(Stmt)
      BY Code DEF Inv, RunInv
    <3>2. next <= Len(prog)
      BY Zenon DEF Takes
    <3>3. Len(prog) \in Nat /\ next \in 1 .. Len(prog) + 1
      BY <3>1 DEF Inv, RunInv
    <3>4. QED
      BY <3>2, <3>3
  <2>2. own \in Seq(Planned({}))
    BY PlansAre
  <2>3. QED
    BY <2>1, <2>2, StmtsAre DEF Inv, RunInv, Takes
<1>3. /\ \/ work' = <<[op |-> "raise", stmts |-> << >>, item |-> << >>]>>
         \/ /\ stmt.kind = "for" /\ Loops(stmt.iter, ns)
            /\ work' = Unrolled(<< >>, Real(stmt.iter, ns), stmt)
         \/ work' = parts \o (IF stmt.rest = << >> THEN << >> ELSE <<Branch(stmt.rest)>>)
      /\ stmt.kind # "for" => work' = Begins(stmt)
  BY DEF Takes, Begins, Unrolled, OnePass, DoOne, Branch, FoldLeft, MapThenFoldSet
<1>4. work' \in Seq(WorkOf(stmt))
  <2> DEFINE raise == [op |-> "raise", stmts |-> << >>, item |-> << >>]
  <2>1. <<raise>> \in Seq(WorkOf(stmt))
    <3>1. << >> \in Seq(Nat) /\ << >> \in Seq(Part)
      OBVIOUS
    <3>2. raise \in WorkOf(stmt)
      BY <3>1 DEF Work, WorkOf
    <3>3. QED
      BY <3>2
  <2>2. ASSUME stmt.kind = "for", Loops(stmt.iter, ns)
        PROVE  Unrolled(<< >>, Real(stmt.iter, ns), stmt) \in Seq(WorkOf(stmt))
    <3>1. stmt.iter \in Expr
      BY <1>1 DEF Stmt
    <3>2. Real(stmt.iter, ns) \in Seq(Nat) /\ << >> \in Seq(WorkOf(stmt))
      BY <1>1, <2>2, <3>1, RealIs DEF Loops
    <3> HIDE DEF stmt
    <3>3. QED
      BY <1>1, <2>2, <3>2, UnrolledKeeps
  <2>3. parts \o (IF stmt.rest = << >> THEN << >> ELSE <<Branch(stmt.rest)>>) \in Seq(WorkOf(stmt))
    <3>1. parts \in Seq(WorkOf(stmt)) /\ Branch(stmt.rest) \in WorkOf(stmt)
      BY <1>1, WorkOfIs
    <3> HIDE DEF parts, stmt
    <3>2. << >> \in Seq(WorkOf(stmt)) /\ <<Branch(stmt.rest)>> \in Seq(WorkOf(stmt))
      BY <3>1
    <3>3. QED
      BY <3>1, <3>2
  <2>4. QED
    BY <1>3, <2>1, <2>2, <2>3
<1>5. QED
  BY <1>1, <1>3, <1>4

LEMMA TakesKeeps ==
  ASSUME Inv, Takes
  PROVE  Inv'
<1>1. /\ next \in 1 .. Len(prog) /\ prog[next] \in Stmt /\ prog \in Programs /\ ns \in Env({})
      /\ own \in Seq(Planned({})) /\ running' = TRUE
      /\ own' = own \o PlanAhead(<<next>>, ns) /\ UNCHANGED <<prog, ns, next, made, look>>
      /\ work' \in Seq(WorkOf(prog[next]))
  BY TakesIs
<1>2. own' \in Seq(Planned(Barred)) /\ Barred' = Barred
  <2> DEFINE out == Barred
  <2>1. <<next>> \in Seq(1 .. Len(prog)) /\ own \in Seq(Planned(out))
    BY <1>1 DEF Inv, PlanInv
  <2>2. out \in SUBSET {0} /\ ns \in Env(out)
    BY <1>1, BarredIs
  <2>3. Barred' = Barred
    BY <1>1 DEF Barred
  <2> HIDE DEF out
  <2>4. PlanAhead(<<next>>, ns) \in Seq(Planned(out))
    BY <1>1, <2>1, <2>2, PlanAheadKeeps
  <2>5. own' \in Seq(Planned(out))
    BY <1>1, <2>1, <2>4
  <2>6. QED
    BY <2>3, <2>5 DEF out
<1>3. work' \in Seq(Work)
  BY <1>1, WorkOfIs
<1>4. QED
  <2>1. next' \in 1 .. Len(prog') + 1 /\ next' <= Len(prog')
    BY <1>1, Code
  <2>2. RunInv'
    BY <1>1, <1>3, <2>1 DEF Inv, RunInv
  <2>3. QED
    BY <1>1, <1>2, <2>2 DEF Inv, PlanInv

LEMMA RunsKeeps ==
  ASSUME ns \in Env({}), NEW s \in Part, NEW calls, Runs(s, calls)
  PROVE  ns' \in Env({}) /\ DOMAIN ns \subseteq DOMAIN ns'
<1> DEFINE after == Altered(ns, s.alters)
<1>1. after \in Env({}) /\ DOMAIN after = DOMAIN ns /\ s.sets \in STRING /\ s.to \in Expr
  BY AlteredIs DEF Part
<1>2. ns' = IF s.sets = "none" THEN after ELSE With(after, s.sets, Real(s.to, ns))
  BY DEF Runs
<1>3. s.sets # "none" => Real(s.to, ns) \in Seq(Nat)
  BY <1>1, RealIs DEF Runs
<1> HIDE DEF after
<1>4. s.sets # "none" => /\ With(after, s.sets, Real(s.to, ns)) \in Env({})
                         /\ DOMAIN after \subseteq DOMAIN With(after, s.sets, Real(s.to, ns))
  BY <1>1, <1>3, WithAny
<1>5. QED
  BY <1>1, <1>2, <1>4

LEMMA GoesKeeps ==
  ASSUME Inv, Goes
  PROVE  Inv'
<1> DEFINE w == Head(work)
<1>1. /\ work \in Seq(WorkOf(prog[next])) /\ running /\ work # << >> /\ ns \in Env({}) /\ next \in 1 .. Len(prog)
      /\ UNCHANGED <<prog, next, running, own, look>>
  <2>1. prog \in Seq(Stmt)
    BY Code DEF Inv, RunInv
  <2>2. QED
    BY <2>1 DEF Inv, RunInv, Goes
<1>2. w \in WorkOf(prog[next]) /\ w \in Work /\ Tail(work) \in Seq(WorkOf(prog[next]))
  BY <1>1, HeadTailProperties DEF WorkOf
<1>3. prog[next] \in Stmt
  BY <1>1, StmtsAre DEF Inv, RunInv
<1>4. \/ /\ w.op = "bind" /\ work' = Tail(work)
         /\ ns' = IF prog[next].slot THEN Altered(ns, {prog[next].var})
                  ELSE With(ns, prog[next].var, w.item)
      \/ /\ w.op = "do" /\ work' = Tail(work)
         /\ \E calls : Runs(w.stmts[1], calls)
      \/ /\ w.op = "branch" /\ ns' = ns
         /\ \/ work' = Tail(work)
            \/ work' = [n \in DOMAIN w.stmts |-> DoOne(w.stmts[n])] \o Tail(work)
  BY DEF Goes, DoOne
<1> HIDE DEF w
<1>5. w.stmts \in Seq(Part) /\ w.item \in Seq(Nat) /\ (w.op = "do" => w.stmts[1] \in Part)
  BY <1>2, EmptySeq DEF Work
<1>6. ASSUME ns' \in Env({}), DOMAIN ns \subseteq DOMAIN ns', work' \in Seq(WorkOf(prog[next])) PROVE Inv'
  <2>1. work' \in Seq(Work)
    BY <1>3, <1>6, WorkOfIs
  <2>2. RunInv'
    BY <1>1, <1>6, <2>1 DEF Inv, RunInv
  <2>3. own' \in Seq(Planned(Barred')) /\ look'.calls \in Seq(Planned(Barred'))
    BY <1>1, <1>6, BarredLess DEF Inv, PlanInv
  <2>4. QED
    BY <1>1, <2>2, <2>3 DEF Inv, PlanInv
<1>7. CASE w.op = "bind"
  <2>1. work' \in Seq(WorkOf(prog[next]))
    BY <1>2, <1>4, <1>7
  <2>2. prog[next].var \in STRING
    BY <1>3 DEF Stmt
  <2>3. ns' \in Env({}) /\ DOMAIN ns \subseteq DOMAIN ns'
    <3> DEFINE var == prog[next].var
               slot == prog[next].slot
               item == w.item
    <3>1. ns' = IF slot THEN Altered(ns, {var}) ELSE With(ns, var, item)
      BY <1>4, <1>7
    <3>2. ns \in Env({}) /\ var \in STRING /\ item \in Seq(Nat)
      BY <1>1, <1>5, <2>2
    <3> HIDE DEF var, slot, item
    <3>3. Altered(ns, {var}) \in Env({}) /\ DOMAIN Altered(ns, {var}) = DOMAIN ns
      BY <3>2, AlteredIs
    <3>4. With(ns, var, item) \in Env({}) /\ DOMAIN ns \subseteq DOMAIN With(ns, var, item)
      BY <3>2, WithAny
    <3>5. QED
      BY <3>1, <3>3, <3>4
  <2>4. QED
    BY <1>6, <2>1, <2>3
<1>8. CASE w.op = "do"
  <2>1. work' \in Seq(WorkOf(prog[next]))
    BY <1>2, <1>4, <1>8
  <2>2. PICK calls : Runs(w.stmts[1], calls)
    BY <1>4, <1>8
  <2>3. ns' \in Env({}) /\ DOMAIN ns \subseteq DOMAIN ns'
    BY <1>1, <1>5, <1>8, <2>2, RunsKeeps
  <2>4. QED
    BY <1>6, <2>1, <2>3
<1>9. CASE w.op = "branch"
  <2> DEFINE more == [n \in DOMAIN w.stmts |-> DoOne(w.stmts[n])]
  <2>1. more \in Seq(WorkOf(prog[next]))
    <3>1. ToSet(w.stmts) \subseteq Parts(prog[next])
      BY <1>2, <1>9 DEF WorkOf
    <3>2. QED
      BY <1>3, <1>5, <3>1, WorkOfIs
  <2>2. work' = Tail(work) \/ work' = more \o Tail(work)
    BY <1>4, <1>9
  <2> HIDE DEF more
  <2>3. work' \in Seq(WorkOf(prog[next]))
    <3>1. more \o Tail(work) \in Seq(WorkOf(prog[next]))
      BY <1>2, <2>1, ConcatProperties
    <3>2. QED
      BY <1>2, <2>2, <3>1
  <2>4. ns' = ns
    BY <1>4, <1>9
  <2>5. QED
    BY <1>1, <1>6, <2>3, <2>4
<1>10. QED
  BY <1>2, <1>4, <1>7, <1>8, <1>9

LEMMA FinishesKeeps ==
  ASSUME Inv, Finishes
  PROVE  Inv'
<1>1. /\ next \in 1 .. Len(prog) /\ Len(prog) \in Nat /\ ns \in Env({}) /\ work = << >>
      /\ running' = FALSE /\ next' = next + 1 /\ UNCHANGED <<prog, work, made, own, look>>
      /\ ns' = IF prog[next].kind = "def" THEN With(ns, prog[next].binds, Object) ELSE ns
  <2>1. prog \in Seq(Stmt)
    BY Code DEF Inv, RunInv
  <2>2. QED
    BY <2>1 DEF Inv, RunInv, Finishes
<1>2. prog[next].binds \in STRING
  BY <1>1, StmtsAre DEF Inv, RunInv, Stmt
<1>3. Object \in Seq(Nat)
  BY DEF Object
<1>4. ns' \in Env({}) /\ DOMAIN ns \subseteq DOMAIN ns'
  BY <1>1, <1>2, <1>3, WithAny
<1>5. next' \in 1 .. Len(prog) + 1
  BY <1>1
<1>6. own' \in Seq(Planned(Barred')) /\ look'.calls \in Seq(Planned(Barred'))
  BY <1>1, <1>4, BarredLess DEF Inv, PlanInv
<1>7. QED
  BY <1>1, <1>4, <1>5, <1>6 DEF Inv, RunInv, PlanInv

LEMMA NotesKeeps ==
  ASSUME Inv, Notes
  PROVE  Inv'
<1>1. next \in 0 .. Len(prog) /\ look' = [look EXCEPT !.noted = next]
      /\ UNCHANGED <<prog, ns, next, running, work, made, own>>
  <2>1. prog \in Seq(Stmt)
    BY Code DEF Inv, RunInv
  <2>2. QED
    BY <2>1 DEF Inv, RunInv, Notes
<1>2. Barred' = Barred
  BY <1>1 DEF Barred
<1>3. QED
  BY <1>1, <1>2 DEF Inv, RunInv, PlanInv

LEMMA LooksKeeps ==
  ASSUME Inv, Looks
  PROVE  Inv'
<1> DEFINE now == [look EXCEPT !.taken = TRUE, !.next = next, !.running = running]
           ahead == [n \in 1 .. Len(prog) + 1 - look.noted |-> look.noted + n - 1]
           calls == NotPassed(PlanAhead(ahead, ns), FirstAhead(now))
           LookSet == [noted : 0 .. Len(prog), taken : BOOLEAN, next : Nat, running : BOOLEAN,
                       calls : Seq(Planned(Barred))]
<1>1. /\ look.noted \in 1 .. Len(prog) /\ Len(prog) \in Nat /\ prog \in Programs /\ ns \in Env({})
      /\ look' = [now EXCEPT !.calls = calls]
      /\ UNCHANGED <<prog, ns, next, running, work, made, own>>
  <2>1. prog \in Seq(Stmt)
    BY Code DEF Inv, RunInv
  <2>2. QED
    BY <2>1 DEF Inv, RunInv, PlanInv, Looks
<1>2. ahead \in Seq(1 .. Len(prog))
  <2>1. \A n \in 1 .. Len(prog) + 1 - look.noted : look.noted + n - 1 \in 1 .. Len(prog)
    BY <1>1
  <2>2. Len(prog) + 1 - look.noted \in Nat
    BY <1>1
  <2>3. QED
    BY <2>1, <2>2
<1>3. calls \in Seq(Planned(Barred))
  <2> DEFINE out == Barred
  <2>1. out \in SUBSET {0} /\ ns \in Env(out)
    BY <1>1, BarredIs
  <2> HIDE DEF ahead, now, out
  <2>2. PlanAhead(ahead, ns) \in Seq(Planned(out))
    BY <1>1, <1>2, <2>1, PlanAheadKeeps
  <2>3. calls \in Seq(Planned(out))
    BY <2>1, <2>2, NotPassedKeeps
  <2>4. QED
    BY <2>3 DEF out
<1>4. now \in LookSet
  <2>1. next \in Nat /\ running \in BOOLEAN /\ look \in LookSet
    BY <1>1 DEF Inv, RunInv, PlanInv
  <2>2. QED
    BY <2>1
<1> HIDE DEF now, calls
<1>5. [now EXCEPT !.calls = calls] \in LookSet
  BY <1>3, <1>4
<1>6. Barred' = Barred
  BY <1>1 DEF Barred
<1>7. QED
  BY <1>1, <1>5, <1>6 DEF Inv, RunInv, PlanInv

LEMMA Step == Inv /\ [Next]_vars => Inv'
<1> SUFFICES ASSUME Inv, [Next]_vars PROVE Inv'
  OBVIOUS
<1>1. CASE UNCHANGED vars
  BY <1>1 DEF vars, Inv, RunInv, PlanInv, Barred
<1>2. QED
  BY <1>1, TakesKeeps, GoesKeeps, FinishesKeeps, NotesKeeps, LooksKeeps DEF Next

LEMMA Start == Init => Inv
<1> SUFFICES ASSUME Init PROVE Inv
  OBVIOUS
<1>1. prog \in Seq(Stmt) /\ ns \in Env({})
  BY Code, Values, EnvAny DEF Init
<1>2. << >> \in Seq(Work) /\ << >> \in Seq(Planned(Barred)) /\ Len(prog) \in Nat
  BY <1>1
<1>3. RunInv
  <2>1. prog \in Programs /\ work = << >> /\ next = 1 /\ running = FALSE
    BY DEF Init
  <2>2. 1 \in 1 .. Len(prog) + 1
    BY <1>2
  <2>3. QED
    BY <1>1, <1>2, <2>1, <2>2 DEF RunInv
<1>4. PlanInv
  <2>1. 0 \in 0 .. Len(prog)
    BY <1>2
  <2>2. QED
    BY <1>2, <2>1 DEF Init, PlanInv, NoLook
<1>5. QED
  BY <1>3, <1>4 DEF Inv

\* Whatever code the model writes, and whenever its statements are planned: what is left
\* of a statement is parts of it, what the run leaves in the namespace are values, and
\* a planned call is of a statement, with a value that is no object of the program and
\* no answer of one unless the program has bound a builtin's name.
THEOREM WellFormed == Spec => []Inv
<1>1. QED
  BY Start, Step, PTL DEF Spec

LEMMA NoObjects ==
  \A seq \in Seq(Planned({0})) : \A n \in DOMAIN seq : 0 \notin ToSet(seq[n].arg)
<1> SUFFICES ASSUME NEW seq \in Seq(Planned({0})), NEW n \in DOMAIN seq PROVE 0 \notin ToSet(seq[n].arg)
  OBVIOUS
<1>1. seq[n] \in Planned({0})
  OBVIOUS
<1>2. seq[n].arg \in Seq(Nat \ {0})
  BY <1>1 DEF Planned, Args
<1>3. QED
  BY <1>2 DEF ToSet

\* "planning never runs model-written code" (_static_eval), where it is so: no argument
\* of a planned call, by the planner or the executor, is an object of the program or was
\* worked out from one, as long as the program has not bound the name of a builtin.
THEOREM PlansFromPlainData == Spec => []PlainUnlessRebound
<1>1. Inv => PlainUnlessRebound
  BY NoObjects DEF Inv, PlanInv, Barred, PlainUnlessRebound, PlannedFromPlainData
<1>2. QED
  BY <1>1, WellFormed, PTL
-----------------------------------------------------------------------------
(* Sequences: by induction on how they end, what Only picks and how often an *)
(* element is in them.                                                       *)
LEMMA SeqInduction ==
  ASSUME NEW T, NEW P, << >> \in P, \A seq \in Seq(T), c \in T : seq \in P => Append(seq, c) \in P
  PROVE  Seq(T) \subseteq P
<1> DEFINE Long(n) == \A seq \in Seq(T) : Len(seq) = n => seq \in P
           S == {n \in Nat : Long(n)}
<1>1. 0 \in S
  BY EmptySeq
<1>2. ASSUME NEW n \in Nat, n \in S PROVE n + 1 \in S
  <2> SUFFICES Long(n + 1)
    <3> HIDE DEF Long
    <3>1. QED
      BY <1>2
  <2> SUFFICES ASSUME NEW seq \in Seq(T), Len(seq) = n + 1 PROVE seq \in P
    OBVIOUS
  <2>1. seq # << >>
    BY EmptySeq
  <2>2. PICK s \in Seq(T), c \in T : seq = Append(s, c)
    BY <2>1, SequenceEmptyOrAppend
  <2>3. Len(s) = n
    BY <2>2, AppendProperties
  <2>4. s \in P
    BY <1>2, <2>3
  <2>5. QED
    BY <2>2, <2>4
<1>3. Nat \subseteq S
  <2> HIDE DEF S
  <2>1. QED
    BY <1>1, <1>2, Induction
<1>4. ASSUME NEW seq \in Seq(T) PROVE seq \in P
  <2>1. Len(seq) \in Nat
    OBVIOUS
  <2>2. QED
    BY <1>3, <2>1
<1>5. QED
  BY <1>4

LEMMA OnlyConcat ==
  ASSUME NEW T, NEW s \in Seq(T), NEW t \in Seq(T), NEW S
  PROVE  Only(s \o t, S) = Only(s, S) \o Only(t, S)
<1> DEFINE P == {q \in Seq(T) : Only(s \o q, S) = Only(s, S) \o Only(q, S)}
<1>0. Only(s, S) \in Seq(T)
  BY OnlyKeeps
<1>1. << >> \in P
  BY <1>0, OnlyEmpty, ConcatEmptySeq
<1>2. ASSUME NEW q \in Seq(T), NEW c \in T, q \in P PROVE Append(q, c) \in P
  <2>1. s \o Append(q, c) = Append(s \o q, c) /\ s \o q \in Seq(T) /\ Append(q, c) \in Seq(T)
    OBVIOUS
  <2>2. Only(q, S) \in Seq(T)
    BY OnlyKeeps
  <2>3. /\ Only(Append(s \o q, c), S) = IF c \in S THEN Append(Only(s \o q, S), c) ELSE Only(s \o q, S)
        /\ Only(Append(q, c), S) = IF c \in S THEN Append(Only(q, S), c) ELSE Only(q, S)
    BY <2>1, OnlyAppend
  <2>4. Only(s, S) \o Append(Only(q, S), c) = Append(Only(s, S) \o Only(q, S), c)
    BY <1>0, <2>2
  <2>5. QED
    BY <1>2, <2>1, <2>3, <2>4
<1>3. Seq(T) \subseteq P
  <2> HIDE DEF P
  <2>1. QED
    BY <1>1, <1>2, SeqInduction
<1>4. QED
  BY <1>3

LEMMA OnlySame ==
  ASSUME NEW T, NEW s \in Seq(T), NEW S, NEW R, \A c \in T : c \in S <=> c \in R
  PROVE  Only(s, S) = Only(s, R)
<1> DEFINE P == {q \in Seq(T) : Only(q, S) = Only(q, R)}
<1>1. << >> \in P
  BY OnlyEmpty
<1>2. ASSUME NEW q \in Seq(T), NEW c \in T, q \in P PROVE Append(q, c) \in P
  <2>1. /\ Only(Append(q, c), S) = IF c \in S THEN Append(Only(q, S), c) ELSE Only(q, S)
        /\ Only(Append(q, c), R) = IF c \in R THEN Append(Only(q, R), c) ELSE Only(q, R)
    BY OnlyAppend
  <2>2. Only(q, S) = Only(q, R) /\ Append(q, c) \in Seq(T) /\ (c \in S <=> c \in R)
    BY <1>2
  <2>3. Only(Append(q, c), S) = Only(Append(q, c), R)
    BY Zenon, <2>1, <2>2
  <2>4. QED
    BY <2>2, <2>3
<1>3. Seq(T) \subseteq P
  <2> HIDE DEF P
  <2>1. QED
    BY <1>1, <1>2, SeqInduction
<1>4. QED
  BY <1>3

LEMMA OnlyAll ==
  ASSUME NEW T, NEW s \in Seq(T), NEW S, T \subseteq S
  PROVE  Only(s, S) = s
<1> DEFINE P == {q \in Seq(T) : Only(q, S) = q}
<1>1. << >> \in P
  BY OnlyEmpty
<1>2. ASSUME NEW q \in Seq(T), NEW c \in T, q \in P PROVE Append(q, c) \in P
  <2>1. Only(Append(q, c), S) = Append(Only(q, S), c) /\ Append(q, c) \in Seq(T)
    BY OnlyAppend
  <2>2. Only(q, S) = q
    BY <1>2
  <2>3. Only(Append(q, c), S) = Append(q, c)
    BY Zenon, <2>1, <2>2
  <2>4. QED
    BY <2>1, <2>3
<1>3. Seq(T) \subseteq P
  <2> HIDE DEF P
  <2>1. QED
    BY <1>1, <1>2, SeqInduction
<1>4. QED
  BY <1>3

LEMMA OnlyNone ==
  ASSUME NEW T, NEW s \in Seq(T), NEW S, T \cap S = {}
  PROVE  Only(s, S) = << >>
<1> DEFINE P == {q \in Seq(T) : Only(q, S) = << >>}
<1>1. << >> \in P
  BY OnlyEmpty
<1>2. ASSUME NEW q \in Seq(T), NEW c \in T, q \in P PROVE Append(q, c) \in P
  <2>1. Only(Append(q, c), S) = IF c \in S THEN Append(Only(q, S), c) ELSE Only(q, S)
    BY OnlyAppend
  <2>2. QED
    BY <1>2, <2>1
<1>3. Seq(T) \subseteq P
  <2> HIDE DEF P
  <2>1. QED
    BY <1>1, <1>2, SeqInduction
<1>4. QED
  BY <1>3

LEMMA InItsOwn ==
  ASSUME NEW T, NEW s \in Seq(T)
  PROVE  s \in Seq(ToSet(s)) /\ ToSet(s) \subseteq T
BY DEF ToSet

LEMMA CountIs ==
  ASSUME NEW T, NEW s \in Seq(T), NEW c \in T, NEW x
  PROVE  /\ Count(s, x) \in Nat /\ Count(<< >>, x) = 0
         /\ Count(Append(s, c), x) = Count(s, x) + (IF c = x THEN 1 ELSE 0)
<1> DEFINE N == Len(s)
           At(q) == {n \in DOMAIN q : q[n] = x}
           more == Append(s, c)
<1>1. N \in Nat /\ DOMAIN s = 1 .. N /\ DOMAIN << >> = {}
  OBVIOUS
<1>2. DOMAIN more = 1 .. N + 1 /\ more[N + 1] = c /\ \A n \in 1 .. N : more[n] = s[n]
  BY AppendProperties
<1>3. IsFiniteSet(At(s)) /\ N + 1 \notin At(s)
  <2>1. At(s) \subseteq 1 .. N /\ IsFiniteSet(1 .. N)
    BY <1>1, FS_Interval
  <2>2. QED
    BY <1>1, <2>1, FS_Subset
<1>4. At(more) = IF c = x THEN At(s) \cup {N + 1} ELSE At(s)
  <2>1. \A n : n \in 1 .. N + 1 <=> n \in 1 .. N \/ n = N + 1
    BY <1>1
  <2> HIDE DEF more, N
  <2>2. QED
    BY <1>1, <1>2, <2>1
<1>5. Cardinality(At(s)) \in Nat
  BY <1>3, FS_CardinalityType
<1>6. Cardinality(At(s) \cup {N + 1}) = Cardinality(At(s)) + 1
  BY <1>3, FS_AddElement
<1>7. At(<< >>) = {} /\ Cardinality({}) = 0
  BY <1>1, FS_EmptySet
<1>8. Count(<< >>, x) = 0 /\ Count(s, x) = Cardinality(At(s)) /\ Count(more, x) = Cardinality(At(more))
  BY <1>7 DEF Count
<1> HIDE DEF At, more
<1>9. QED
  BY <1>4, <1>5, <1>6, <1>8 DEF more

LEMMA CountConcat ==
  ASSUME NEW T, NEW s \in Seq(T), NEW t \in Seq(T), NEW x
  PROVE  /\ Count(s, x) \in Nat /\ Count(t, x) \in Nat
         /\ Count(s \o t, x) = Count(s, x) + Count(t, x)
<1> DEFINE P == {q \in Seq(T) : /\ Count(q, x) \in Nat
                               /\ Count(s \o q, x) = Count(s, x) + Count(q, x)}
<1>0. Count(s, x) \in Nat /\ Count(<< >>, x) = 0
  <2>1. s \in Seq(T \cup {x}) /\ x \in T \cup {x}
    OBVIOUS
  <2>2. QED
    BY <2>1, CountIs
<1>1. << >> \in P
  BY <1>0, ConcatEmptySeq
<1>2. ASSUME NEW q \in Seq(T), NEW c \in T, q \in P PROVE Append(q, c) \in P
  <2>1. s \o Append(q, c) = Append(s \o q, c) /\ s \o q \in Seq(T) /\ Append(q, c) \in Seq(T)
    OBVIOUS
  <2> DEFINE both == s \o q
             k == IF c = x THEN 1 ELSE 0
  <2>2. Count(Append(q, c), x) = Count(q, x) + k
    BY CountIs
  <2>3. Count(Append(both, c), x) = Count(both, x) + k
    <3> HIDE DEF both, k
    <3>1. both \in Seq(T)
      BY <2>1 DEF both
    <3>2. QED
      BY <3>1, CountIs DEF k
  <2>4. Count(q, x) \in Nat /\ Count(both, x) = Count(s, x) + Count(q, x)
    BY <1>2
  <2>5. Count(s \o Append(q, c), x) = Count(Append(both, c), x)
    BY <2>1
  <2>6. k \in Nat
    OBVIOUS
  <2> HIDE DEF both, k
  <2>7. /\ Count(Append(q, c), x) \in Nat
        /\ Count(s \o Append(q, c), x) = Count(s, x) + Count(Append(q, c), x)
    BY <1>0, <2>2, <2>3, <2>4, <2>5, <2>6
  <2>8. QED
    BY <2>1, <2>7
<1>3. Seq(T) \subseteq P
  <2> HIDE DEF P
  <2>1. QED
    BY <1>1, <1>2, SeqInduction
<1>4. QED
  BY <1>0, <1>3

LEMMA CountOnly ==
  ASSUME NEW T, NEW s \in Seq(T), NEW S, NEW x
  PROVE  Count(Only(s, S), x) = IF x \in S THEN Count(s, x) ELSE 0
<1> DEFINE P == {q \in Seq(T) : Count(Only(q, S), x) = IF x \in S THEN Count(q, x) ELSE 0}
<1>0. Count(<< >>, x) = 0
  <2>1. s \in Seq(T \cup {x}) /\ x \in T \cup {x}
    OBVIOUS
  <2>2. QED
    BY <2>1, CountIs
<1>1. << >> \in P
  BY <1>0, OnlyEmpty
<1>2. ASSUME NEW q \in Seq(T), NEW c \in T, q \in P PROVE Append(q, c) \in P
  <2>1. Only(Append(q, c), S) = IF c \in S THEN Append(Only(q, S), c) ELSE Only(q, S)
    BY OnlyAppend
  <2>2. Only(q, S) \in Seq(T)
    BY OnlyKeeps
  <2>3. /\ Count(Append(q, c), x) = Count(q, x) + (IF c = x THEN 1 ELSE 0)
        /\ Count(Append(Only(q, S), c), x) = Count(Only(q, S), x) + (IF c = x THEN 1 ELSE 0)
        /\ Count(q, x) \in Nat
    BY <2>2, CountIs
  <2>4. Count(Only(q, S), x) = IF x \in S THEN Count(q, x) ELSE 0
    BY <1>2
  <2>5. Append(q, c) \in Seq(T)
    OBVIOUS
  <2>6. Count(Only(Append(q, c), S), x) = IF x \in S THEN Count(Append(q, c), x) ELSE 0
    <3>1. CASE c \in S
      BY <2>1, <2>3, <2>4, <3>1
    <3>2. CASE c \notin S
      BY <2>1, <2>3, <2>4, <3>2
    <3>3. QED
      BY <3>1, <3>2
  <2>7. QED
    BY <2>5, <2>6
<1>3. Seq(T) \subseteq P
  <2> HIDE DEF P
  <2>1. QED
    BY <1>1, <1>2, SeqInduction
<1>4. QED
  BY <1>3
-----------------------------------------------------------------------------
(* A plan against what was made: nothing is planned more often than it is    *)
(* made, and the calls that are not to early=True tools are planned in the   *)
(* order they are made, up to the last one if planning goes on.              *)
Tagged == [stmt : Nat, tool : STRING, arg : Seq(Nat)]
Firm == {c \in Tagged : c.tool \notin Always}
Matches(planned, done, on) ==
  /\ \A x : Count(planned, x) <= Count(done, x)
  /\ \E more \in Seq(Tagged) : /\ Only(done, Firm) = Only(planned, Firm) \o more
                               /\ on => more = << >>

LEMMA Regroup == \A s, t, u \in Seq(Tagged) : (s \o t) \o u = s \o (t \o u)
BY ConcatAssociative

LEMMA MatchNothing == \A on : Matches(<< >>, << >>, on)
<1>1. << >> \in Seq(Tagged) /\ << >> \o << >> = << >>
  OBVIOUS
<1>2. \A x : Count(<< >>, x) \in Nat
  BY <1>1, CountConcat
<1>3. Only(<< >>, Firm) = << >>
  BY OnlyEmpty
<1>4. \A x : Count(<< >>, x) <= Count(<< >>, x)
  BY <1>2
<1>5. QED
  BY <1>1, <1>3, <1>4 DEF Matches

LEMMA MatchThen ==
  ASSUME NEW p \in Seq(Tagged), NEW d \in Seq(Tagged), Matches(p, d, TRUE),
         NEW q \in Seq(Tagged), NEW e \in Seq(Tagged), NEW on, Matches(q, e, on)
  PROVE  Matches(p \o q, d \o e, on)
<1>1. ASSUME NEW x PROVE Count(p \o q, x) <= Count(d \o e, x)
  <2>1. /\ Count(p \o q, x) = Count(p, x) + Count(q, x) /\ Count(p, x) \in Nat /\ Count(q, x) \in Nat
        /\ Count(d \o e, x) = Count(d, x) + Count(e, x) /\ Count(d, x) \in Nat /\ Count(e, x) \in Nat
    BY CountConcat
  <2>2. Count(p, x) <= Count(d, x) /\ Count(q, x) <= Count(e, x)
    BY DEF Matches
  <2>3. QED
    BY <2>1, <2>2
<1>2. /\ Only(p \o q, Firm) = Only(p, Firm) \o Only(q, Firm)
      /\ Only(d \o e, Firm) = Only(d, Firm) \o Only(e, Firm)
  <2>1. Only(p \o q, Firm) = Only(p, Firm) \o Only(q, Firm)
    BY OnlyConcat, SMTT(40)
  <2>2. Only(d \o e, Firm) = Only(d, Firm) \o Only(e, Firm)
    BY OnlyConcat, SMTT(40)
  <2>3. QED
    BY <2>1, <2>2
<1>3. /\ Only(p, Firm) \in Seq(Tagged) /\ Only(q, Firm) \in Seq(Tagged)
      /\ Only(d, Firm) \in Seq(Tagged) /\ Only(e, Firm) \in Seq(Tagged)
  BY OnlyKeeps
<1>4. Only(d, Firm) = Only(p, Firm)
  <2>1. PICK none \in Seq(Tagged) : Only(d, Firm) = Only(p, Firm) \o none /\ none = << >>
    BY DEF Matches
  <2>2. QED
    BY <1>3, <2>1, ConcatEmptySeq
<1>5. PICK more \in Seq(Tagged) : /\ Only(e, Firm) = Only(q, Firm) \o more
                                  /\ on => more = << >>
  BY DEF Matches
<1>6. Only(d \o e, Firm) = Only(p \o q, Firm) \o more
  <2> DEFINE P == Only(p, Firm)
             Q == Only(q, Firm)
  <2>1. (P \o Q) \o more = P \o (Q \o more)
    <3>1. P \in Seq(Tagged) /\ Q \in Seq(Tagged) /\ more \in Seq(Tagged)
      BY <1>3
    <3> HIDE DEF P, Q
    <3>2. QED
      BY SMTT(60), <3>1, Regroup
  <2>2. Only(d \o e, Firm) = P \o (Q \o more) /\ Only(p \o q, Firm) = P \o Q
    BY Zenon, <1>2, <1>4, <1>5
  <2>3. QED
    BY Zenon, <2>1, <2>2
<1>7. QED
  BY Zenon, <1>1, <1>5, <1>6 DEF Matches

LEMMA MatchMore ==
  ASSUME NEW p \in Seq(Tagged), NEW d \in Seq(Tagged), NEW on, Matches(p, d, on),
         NEW e \in Seq(Tagged), on => Only(e, Firm) = << >>
  PROVE  Matches(p, d \o e, on)
<1>1. ASSUME NEW x PROVE Count(p, x) <= Count(d \o e, x)
  <2>1. /\ Count(d \o e, x) = Count(d, x) + Count(e, x) /\ Count(d, x) \in Nat /\ Count(e, x) \in Nat
        /\ Count(p, x) \in Nat
    BY CountConcat
  <2>2. Count(p, x) <= Count(d, x)
    BY DEF Matches
  <2>3. QED
    BY <2>1, <2>2
<1>2. Only(d \o e, Firm) = Only(d, Firm) \o Only(e, Firm)
  BY OnlyConcat
<1>3. Only(p, Firm) \in Seq(Tagged) /\ Only(d, Firm) \in Seq(Tagged) /\ Only(e, Firm) \in Seq(Tagged)
  BY OnlyKeeps
<1>4. PICK more \in Seq(Tagged) : /\ Only(d, Firm) = Only(p, Firm) \o more
                                  /\ on => more = << >>
  BY DEF Matches
<1> DEFINE all == more \o Only(e, Firm)
<1>5. all \in Seq(Tagged) /\ (on => all = << >>)
  <2>1. on => more = << >> /\ Only(e, Firm) = << >>
    BY <1>4
  <2>2. << >> \o << >> = << >>
    OBVIOUS
  <2>3. QED
    BY <1>3, <1>4, <2>1, <2>2
<1>6. Only(d \o e, Firm) = Only(p, Firm) \o all
  <2>1. (Only(p, Firm) \o more) \o Only(e, Firm) = Only(p, Firm) \o (more \o Only(e, Firm))
    BY <1>3, <1>4, Regroup, SMTT(40)
  <2>2. QED
    BY Zenon, <1>2, <1>4, <2>1
<1> HIDE DEF all
<1>7. QED
  BY Zenon, <1>1, <1>5, <1>6 DEF Matches

(* The calls of one statement: all of them are ahead of a look, or none. *)
At(i) == {c \in Tagged : c.stmt = i}

LEMMA AheadOrNot ==
  ASSUME NEW i \in Nat, NEW first \in Nat, NEW s \in Seq(Tagged), NEW t \in Seq(At(i))
  PROVE  /\ NotPassed(s, first) \in Seq(Tagged) /\ t \in Seq(Tagged)
         /\ NotPassed(s \o t, first) = IF i >= first THEN NotPassed(s, first) \o t ELSE NotPassed(s, first)
<1> DEFINE S == {c \in Tagged : c.stmt >= first}
<1>1. t \in Seq(Tagged) /\ s \o t \in Seq(Tagged)
  BY DEF At
<1>2. \A q \in Seq(Tagged) : NotPassed(q, first) = Only(q, S)
  <2> SUFFICES ASSUME NEW q \in Seq(Tagged) PROVE NotPassed(q, first) = Only(q, S)
    OBVIOUS
  <2> DEFINE R == {c \in ToSet(q) : c.stmt >= first}
  <2>1. q \in Seq(ToSet(q)) /\ ToSet(q) \subseteq Tagged
    BY InItsOwn
  <2>2. \A c \in ToSet(q) : c \in R <=> c \in S
    BY <2>1
  <2> HIDE DEF R, S
  <2>3. Only(q, R) = Only(q, S)
    BY <2>1, <2>2, OnlySame
  <2>4. QED
    BY <2>3 DEF NotPassed, R
<1> HIDE DEF S
<1>3. Only(s \o t, S) = Only(s, S) \o Only(t, S) /\ Only(s, S) \in Seq(Tagged)
  <2>1. Only(s \o t, S) = Only(s, S) \o Only(t, S)
    BY <1>1, OnlyConcat
  <2>2. QED
    BY <2>1, OnlyKeeps
<1>4. CASE i >= first
  <2>1. At(i) \subseteq S
    BY <1>4 DEF At, S
  <2>2. Only(t, S) = t
    BY <2>1, OnlyAll
  <2>3. QED
    BY <1>1, <1>2, <1>3, <1>4, <2>2
<1>5. CASE ~(i >= first)
  <2>1. At(i) \cap S = {}
    BY <1>5 DEF At, S
  <2>2. Only(t, S) = << >>
    BY <2>1, OnlyNone
  <2>3. QED
    BY <1>1, <1>2, <1>3, <1>5, <2>2, ConcatEmptySeq
<1>6. QED
  BY <1>4, <1>5
-----------------------------------------------------------------------------
(* What planning knows, against the namespace as it is when the code runs:   *)
(* no name is known that is not bound to the same value, and the program's   *)
(* own `len` is seen.                                                        *)
Agrees(env, real) ==
  /\ \A n \in DOMAIN env : n \in DOMAIN real /\ env[n] = real[n]
  /\ "len" \in DOMAIN real => "len" \in DOMAIN env

LEMMA KnownIsReal ==
  ASSUME NEW e \in Expr, NEW env \in Env({}), NEW real \in Env({}), Agrees(env, real),
         NEW v \in StaticEval(e, env)
  PROVE  v = Real(e, real) /\ Bound(e, real)
<1>1. /\ e.kind # "opaque" /\ v = Value(e, env)
      /\ e.kind # "lit" /\ e.name # "len" => e.name \in DOMAIN env
      /\ e.kind = "len" => "len" \notin DOMAIN env /\ e.name # "len"
  BY DEF StaticEval
<1>2. /\ e.kind # "lit" /\ e.name # "len" => e.name \in DOMAIN real
      /\ e.kind # "lit" => Named(e.name, env) = Named(e.name, real)
      /\ e.kind = "len" => "len" \notin DOMAIN real /\ env[e.name] = real[e.name]
  BY <1>1 DEF Agrees, Named
<1>3. Bound(e, real)
  BY <1>1, <1>2 DEF Bound, Expr
<1>4. Value(e, env) = Value(e, real)
  BY <1>1, <1>2 DEF Value, Expr
<1>5. Real(e, real) = Value(e, real)
  BY <1>1, <1>2 DEF Real
<1>6. QED
  BY <1>1, <1>3, <1>4, <1>5

\* what a plan and a run of calls of statement i look like in `own` and `made`
Tags(calls, i) == [n \in DOMAIN calls |-> [stmt |-> i, tool |-> calls[n].tool, arg |-> calls[n].arg]]
Done(calls, i, real) ==
  [n \in DOMAIN calls |-> [stmt |-> i, tool |-> calls[n].tool, arg |-> Real(calls[n].arg, real)]]
KnownCall == [tool : STRING, arg : Args({})]
\* calls to our tools whose arguments can be had
Fine(real) == {c \in Call : c.tool \in Tools /\ Bound(c.arg, real)}
Ours(real) == {c \in Call : c.tool \notin DOMAIN real}

LEMMA TagsAre ==
  ASSUME NEW calls \in Seq(KnownCall), NEW i \in Nat
  PROVE  /\ Tags(calls, i) \in Seq(At(i)) /\ Tags(<< >>, i) = << >>
         /\ \A c \in KnownCall :
              LET t == [stmt |-> i, tool |-> c.tool, arg |-> c.arg]
              IN  t \in At(i) /\ Tags(Append(calls, c), i) = Append(Tags(calls, i), t)
<1>1. \A d \in KnownCall : [stmt |-> i, tool |-> d.tool, arg |-> d.arg] \in At(i)
  BY ArgsAreSeqs DEF KnownCall, At, Tagged
<1>2. \A n \in 1 .. Len(calls) : calls[n] \in KnownCall
  OBVIOUS
<1>3. Tags(calls, i) \in Seq(At(i))
  BY <1>1, <1>2 DEF Tags
<1>4. Tags(<< >>, i) = << >>
  BY DEF Tags
<1>5. ASSUME NEW c \in KnownCall
      PROVE  Tags(Append(calls, c), i)
               = Append(Tags(calls, i), [stmt |-> i, tool |-> c.tool, arg |-> c.arg])
  BY DEF Tags
<1>6. QED
  BY <1>1, <1>3, <1>4, <1>5

LEMMA DoneAre ==
  ASSUME NEW real \in Env({}), NEW calls \in Seq(Fine(real)), NEW c \in Fine(real), NEW i \in Nat
  PROVE  /\ Done(calls, i, real) \in Seq(At(i)) /\ Done(<< >>, i, real) = << >>
         /\ [stmt |-> i, tool |-> c.tool, arg |-> Real(c.arg, real)] \in At(i)
         /\ Done(Append(calls, c), i, real)
              = Append(Done(calls, i, real), [stmt |-> i, tool |-> c.tool, arg |-> Real(c.arg, real)])
<1>1. \A d \in Fine(real) : [stmt |-> i, tool |-> d.tool, arg |-> Real(d.arg, real)] \in At(i)
  BY RealIs DEF Fine, Call, At, Tagged
<1>2. \A n \in 1 .. Len(calls) : calls[n] \in Fine(real)
  OBVIOUS
<1>3. Done(calls, i, real) \in Seq(At(i))
  BY <1>1, <1>2 DEF Done
<1>4. Done(<< >>, i, real) = << >>
  BY DEF Done
<1>5. Done(Append(calls, c), i, real)
        = Append(Done(calls, i, real), [stmt |-> i, tool |-> c.tool, arg |-> Real(c.arg, real)])
  BY DEF Done
<1>6. QED
  BY <1>1, <1>3, <1>4, <1>5
LEMMA MatchSame == ASSUME NEW s \in Seq(Tagged), NEW on PROVE Matches(s, s, on)
<1>1. ASSUME NEW x PROVE Count(s, x) <= Count(s, x)
  <2>1. Count(s, x) \in Nat
    BY CountConcat
  <2>2. QED
    BY <2>1
<1>2. Only(s, Firm) \in Seq(Tagged) /\ << >> \in Seq(Tagged)
  BY OnlyKeeps
<1>3. Only(s, Firm) = Only(s, Firm) \o << >>
  BY <1>2, ConcatEmptySeq
<1>4. QED
  BY <1>1, <1>2, <1>3 DEF Matches

LEMMA MatchLess ==
  ASSUME NEW p, NEW d, NEW on, NEW off, Matches(p, d, on), off => on
  PROVE  Matches(p, d, off)
BY DEF Matches

LEMMA MatchBoth ==
  ASSUME NEW p \in Seq(Tagged), NEW d \in Seq(Tagged), Matches(p, d, TRUE), NEW t \in Tagged
  PROVE  Matches(Append(p, t), Append(d, t), TRUE)
<1>1. <<t>> \in Seq(Tagged) /\ Append(p, t) = p \o <<t>> /\ Append(d, t) = d \o <<t>>
  OBVIOUS
<1>2. Matches(<<t>>, <<t>>, TRUE)
  BY <1>1, MatchSame
<1> DEFINE one == <<t>>
<1>3. Matches(p \o one, d \o one, TRUE)
  <2> HIDE DEF one
  <2>1. one \in Seq(Tagged) /\ Matches(one, one, TRUE)
    BY <1>1, <1>2 DEF one
  <2>2. QED
    BY <2>1, MatchThen
<1>4. QED
  BY <1>1, <1>3

LEMMA MatchLate ==
  ASSUME NEW p \in Seq(Tagged), NEW d \in Seq(Tagged), NEW on, Matches(p, d, on),
         NEW t \in Tagged, on => t.tool \in Always
  PROVE  Matches(p, Append(d, t), on)
<1> DEFINE one == <<t>>
<1>1. one \in Seq(Tagged) /\ one \in Seq({t}) /\ Append(d, t) = d \o one
  OBVIOUS
<1>2. on => Only(one, Firm) = << >>
  <2>1. on => {t} \cap Firm = {}
    BY DEF Firm
  <2> HIDE DEF one
  <2>2. QED
    BY <1>1, <2>1, OnlyNone
<1> HIDE DEF one
<1>3. Matches(p, d \o one, on)
  BY <1>1, <1>2, MatchMore
<1>4. QED
  BY <1>1, <1>3

\* nothing planned yet, and nothing met that stops planning
Nil == [calls |-> << >>, on |-> TRUE]

LEMMA SureMatches ==
  ASSUME NEW env \in Env({}), NEW real \in Env({}), Agrees(env, real), NEW i \in Nat,
         NEW calls \in Seq(Fine(real))
  PROVE  LET plan == Sure(Nil, calls, Tools \ DOMAIN real, env)
         IN  /\ plan \in Plan({})
             /\ Matches(Tags(plan.calls, i), Done(Only(calls, Ours(real)), i, real), plan.on)
<1> DEFINE names == Tools \ DOMAIN real
           Of(q) == Sure(Nil, q, names, env)
           Made(q) == Done(Only(q, Ours(real)), i, real)
           P == {q \in Seq(Fine(real)) :
                   /\ Of(q) \in Plan({})
                   /\ Matches(Tags(Of(q).calls, i), Made(q), Of(q).on)}
<1>1. Nil \in Plan({}) /\ Fine(real) \subseteq Call
  BY DEF Nil, Plan, Fine
<1>2. \A q \in Seq(Fine(real)) : q \in Seq(Call) /\ Of(q) \in Plan({})
  <2>1. \A q \in Seq(Fine(real)) : q \in Seq(Call)
    BY <1>1
  <2>2. QED
    BY <1>1, <2>1, SureIs
<1>3. << >> \in P
  <2>1. Of(<< >>) = Nil
    BY <1>1, SureEmpty
  <2>2. Only(<< >>, Ours(real)) = << >>
    BY OnlyEmpty
  <2>3. Tags(<< >>, i) = << >> /\ Done(<< >>, i, real) = << >>
    BY DEF Tags, Done
  <2>4. Nil.calls = << >>
    BY DEF Nil
  <2>5. Matches(Tags(Of(<< >>).calls, i), Made(<< >>), Of(<< >>).on)
    BY <2>1, <2>2, <2>3, <2>4, MatchNothing
  <2>6. << >> \in Seq(Fine(real))
    OBVIOUS
  <2> HIDE DEF Of, Made
  <2>7. QED
    BY <1>1, <2>1, <2>5, <2>6
<1>4. ASSUME NEW q \in Seq(Fine(real)), NEW c \in Fine(real), q \in P
      PROVE  Append(q, c) \in P
  <2> DEFINE p == Of(q)
             m == Only(q, Ours(real))
             D == Done(m, i, real)
             T == Tags(p.calls, i)
             t == [stmt |-> i, tool |-> c.tool, arg |-> Real(c.arg, real)]
             new == Append(q, c)
  <2>1. new \in Seq(Fine(real)) /\ Of(new) \in Plan({}) /\ p \in Plan({}) /\ Matches(T, D, p.on)
    <3>1. new \in Seq(Fine(real))
      OBVIOUS
    <3> HIDE DEF new
    <3>2. QED
      BY <1>2, <1>4, <3>1
  <2>2. Of(new) = OneCall(p, c, names, env)
    BY <1>1, <1>2, SureAppend
  <2>3. Only(new, Ours(real)) = IF c \in Ours(real) THEN Append(m, c) ELSE m
    BY OnlyAppend
  <2>4. m \in Seq(Fine(real))
    BY OnlyKeeps
  <2>5. D \in Seq(At(i)) /\ t \in At(i) /\ Done(Append(m, c), i, real) = Append(D, t)
    <3> HIDE DEF m
    <3>1. QED
      BY <2>4, DoneAre
  <2>6. T \in Seq(At(i))
    <3>1. p.calls \in Seq(KnownCall)
      BY <2>1 DEF Plan, KnownCall
    <3> HIDE DEF p
    <3>2. QED
      BY <3>1, TagsAre
  <2>7. At(i) \subseteq Tagged
    BY DEF At
  <2>8. D \in Seq(Tagged) /\ T \in Seq(Tagged) /\ t \in Tagged
    BY <2>5, <2>6, <2>7
  <2>9. /\ c \in Call /\ c.tool \in Tools /\ c.arg \in Expr
    BY DEF Fine, Call
  <2>10. Matches(Tags(Of(new).calls, i), Made(new), Of(new).on)
    <3>1. CASE c.tool \in DOMAIN real
      <4>1. Of(new) = p /\ Only(new, Ours(real)) = m
        BY <2>2, <2>3, <3>1 DEF OneCall, Ours
      <4> HIDE DEF p, m, new
      <4>2. QED
        BY <2>1, <4>1
    <3>2. CASE c.tool \notin DOMAIN real
      <4>1. Made(new) = Append(D, t)
        BY <2>3, <2>5, <2>9, <3>2 DEF Ours
      <4>2. Of(new) = Resolve(p, c, env)
        BY <2>2, <2>9, <3>2 DEF OneCall
      <4> DEFINE known == StaticEval(c.arg, env)
                 step == [tool |-> c.tool, arg |-> CHOOSE v \in known : TRUE]
      <4>3. CASE ~p.on
        <5>1. Of(new) = p
          BY <4>2, <4>3 DEF Resolve
        <5>2. Matches(T, D, FALSE)
          BY <2>1, <4>3, MatchLess
        <5> HIDE DEF T, D, t, p, new, Made, Of
        <5>3. Matches(T, Append(D, t), FALSE)
          BY <2>8, <5>2, MatchLate
        <5>4. QED
          BY <4>1, <4>3, <5>1, <5>3, MatchLess DEF T
      <4>4. CASE p.on /\ known = {}
        <5>1. Of(new).calls = p.calls /\ Of(new).on = (c.tool \in Always)
          BY <2>1, <4>2, <4>4 DEF Resolve, Plan
        <5>2. Matches(T, D, c.tool \in Always) /\ t.tool = c.tool
          BY <2>1, <4>4, MatchLess
        <5> HIDE DEF T, D, t, p, new, Made, Of
        <5>3. Matches(T, Append(D, t), c.tool \in Always)
          BY <2>8, <5>2, MatchLate
        <5>4. QED
          BY <4>1, <5>1, <5>3 DEF T
      <4>5. CASE p.on /\ known # {}
        <5>1. (CHOOSE v \in known : TRUE) \in known
          BY <4>5
        <5>2. step.arg = Real(c.arg, real) /\ step \in KnownCall
          BY <2>9, <5>1, KnownIsReal, KnownIsArg DEF KnownCall, Call
        <5>3. Of(new) = [p EXCEPT !.calls = Append(@, step)]
          BY <4>2, <4>5 DEF Resolve
        <5> HIDE DEF step, known
        <5>4. Of(new).calls = Append(p.calls, step) /\ Of(new).on = p.on
          BY <2>1, <5>3 DEF Plan
        <5>5. step.tool = c.tool
          BY DEF step
        <5>6. p.calls \in Seq(KnownCall)
          BY <2>1 DEF Plan, KnownCall
        <5>7. Tags(Append(p.calls, step), i) = Append(T, t)
          BY <5>2, <5>5, <5>6, TagsAre
        <5>8. Matches(T, D, TRUE)
          BY <2>1, <4>5, MatchLess
        <5> HIDE DEF T, D, t, p, new, Made, Of
        <5>9. Matches(Append(T, t), Append(D, t), TRUE)
          BY <2>8, <5>8, MatchBoth
        <5>10. QED
          BY <4>1, <5>4, <5>7, <5>9, MatchLess
      <4>6. QED
        BY <4>3, <4>4, <4>5
    <3>3. QED
      BY <3>1, <3>2
  <2> HIDE DEF Of, Made
  <2>11. QED
    BY <2>1, <2>10
<1>5. Seq(Fine(real)) \subseteq P
  <2> HIDE DEF P
  <2>1. QED
    BY <1>3, <1>4, SeqInduction
<1>6. QED
  BY <1>5
LEMMA ConcatElements ==
  ASSUME NEW T, NEW s \in Seq(T), NEW t \in Seq(T)
  PROVE  ToSet(s \o t) = ToSet(s) \cup ToSet(t)
<1>1. /\ DOMAIN s = 1 .. Len(s) /\ DOMAIN t = 1 .. Len(t) /\ DOMAIN (s \o t) = 1 .. Len(s) + Len(t)
      /\ Len(s) \in Nat /\ Len(t) \in Nat
  BY ConcatProperties
<1>2. \A n \in 1 .. Len(s) : n \in DOMAIN (s \o t) /\ (s \o t)[n] = s[n]
  BY <1>1, ConcatProperties
<1>3. \A n \in 1 .. Len(t) : Len(s) + n \in DOMAIN (s \o t) /\ (s \o t)[Len(s) + n] = t[n]
  BY <1>1, ConcatProperties
<1>4. \A n \in DOMAIN (s \o t) : (s \o t)[n] \in ToSet(s) \cup ToSet(t)
  <2> SUFFICES ASSUME NEW n \in DOMAIN (s \o t) PROVE (s \o t)[n] \in ToSet(s) \cup ToSet(t)
    OBVIOUS
  <2>1. CASE n <= Len(s)
    BY <1>1, <1>2, <2>1 DEF ToSet
  <2>2. CASE ~(n <= Len(s))
    <3>1. n - Len(s) \in 1 .. Len(t) /\ n = Len(s) + (n - Len(s))
      BY <1>1, <2>2
    <3>2. (s \o t)[n] = t[n - Len(s)]
      BY <1>3, <3>1
    <3>3. QED
      BY <1>1, <3>1, <3>2 DEF ToSet
  <2>3. QED
    BY <2>1, <2>2
<1> DEFINE both == s \o t
<1>5. /\ \A n \in DOMAIN s : \E m \in DOMAIN both : both[m] = s[n]
      /\ \A n \in DOMAIN t : \E m \in DOMAIN both : both[m] = t[n]
      /\ \A n \in DOMAIN both : both[n] \in ToSet(s) \cup ToSet(t)
  BY <1>1, <1>2, <1>3, <1>4
<1> HIDE DEF both
<1>6. ToSet(both) = ToSet(s) \cup ToSet(t)
  BY <1>5 DEF ToSet
<1>7. QED
  BY <1>6 DEF both

LEMMA OnlyIn ==
  ASSUME NEW T, NEW s \in Seq(T), NEW S
  PROVE  Only(s, S) \in Seq(T \cap S)
<1> DEFINE P == {q \in Seq(T) : Only(q, S) \in Seq(T \cap S)}
<1>1. << >> \in P
  <2>1. Only(<< >>, S) = << >> /\ << >> \in Seq(T) /\ << >> \in Seq(T \cap S)
    BY OnlyEmpty
  <2>2. QED
    BY <2>1
<1>2. ASSUME NEW q \in Seq(T), NEW c \in T, q \in P PROVE Append(q, c) \in P
  <2> DEFINE only == Only(q, S)
  <2>1. Only(Append(q, c), S) = IF c \in S THEN Append(only, c) ELSE only
    BY OnlyAppend
  <2>2. only \in Seq(T \cap S) /\ Append(q, c) \in Seq(T)
    BY <1>2
  <2> HIDE DEF only
  <2>3. c \in S => Append(only, c) \in Seq(T \cap S)
    BY <2>2
  <2>4. QED
    BY <2>1, <2>2, <2>3
<1>3. Seq(T) \subseteq P
  <2> HIDE DEF P
  <2>1. QED
    BY <1>1, <1>2, SeqInduction
<1>4. QED
  BY <1>3

(* Calls that do not stop planning are those to early=True tools. *)
LEMMA SoftCalls ==
  ASSUME NEW real \in Env({}), NEW i \in Nat, NEW calls \in Seq(Fine(real)), NEW on,
         on => \A c \in ToSet(calls) : c.tool \notin DOMAIN real => c.tool \in Always
  PROVE  /\ Done(Only(calls, Ours(real)), i, real) \in Seq(At(i))
         /\ on => Only(Done(Only(calls, Ours(real)), i, real), Firm) = << >>
<1> DEFINE T == ToSet(calls)
           mine == Only(calls, Ours(real))
           done == Done(mine, i, real)
           Soft == {t \in Tagged : t.tool \in Always}
<1>1. calls \in Seq(T) /\ T \subseteq Fine(real)
  BY InItsOwn
<1>2. mine \in Seq(T \cap Ours(real))
  <2> HIDE DEF T
  <2>1. QED
    BY <1>1, OnlyIn
<1>3. mine \in Seq(Fine(real))
  BY OnlyKeeps
<1>4. done \in Seq(At(i))
  <2> HIDE DEF mine
  <2>1. CASE mine = << >>
    BY <2>1 DEF Done
  <2>2. CASE mine # << >>
    <3>1. PICK c \in Fine(real) : TRUE
      BY <1>3, <2>2, EmptySeq
    <3>2. QED
      BY <1>3, <3>1, DoneAre
  <2>3. QED
    BY <2>1, <2>2
<1>5. ASSUME on PROVE Only(done, Firm) = << >>
  <2>1. \A n \in 1 .. Len(mine) : mine[n] \in T /\ mine[n].tool \notin DOMAIN real
    <3> HIDE DEF mine, T
    <3>1. \A n \in 1 .. Len(mine) : mine[n] \in T \cap Ours(real)
      BY <1>2
    <3>2. QED
      BY <3>1 DEF Ours
  <2>2. \A n \in 1 .. Len(mine) : mine[n].tool \in Always
    BY <1>5, <2>1
  <2>3. done \in Seq(Soft)
    <3>1. Len(mine) \in Nat /\ DOMAIN mine = 1 .. Len(mine)
      <4> HIDE DEF mine
      <4>1. QED
        BY <1>3
    <3>2. DOMAIN done = 1 .. Len(mine) /\ \A n \in 1 .. Len(mine) : done[n].tool = mine[n].tool
      <4> HIDE DEF mine
      <4>1. QED
        BY <3>1 DEF Done
    <3> HIDE DEF mine, done
    <3>3. Len(done) = Len(mine) /\ \A n \in 1 .. Len(done) : done[n] \in Tagged
      <4>1. \A n \in 1 .. Len(done) : done[n] \in At(i)
        BY <1>4
      <4>2. Len(done) = Len(mine)
        BY <1>4, <3>1, <3>2
      <4>3. QED
        BY <4>1, <4>2 DEF At
    <3>4. \A n \in 1 .. Len(done) : done[n] \in Soft
      BY <2>2, <3>2, <3>3
    <3>5. QED
      BY <1>4, <3>4
  <2>4. Soft \cap Firm = {}
    BY DEF Firm
  <2> HIDE DEF done, Soft
  <2>5. QED
    BY <2>3, <2>4, OnlyNone
<1>6. QED
  BY <1>4, <1>5

(* A simple statement, with or without the calls it may make. *)
LEMMA SimpleMatches ==
  ASSUME NEW env \in Env({}), NEW real \in Env({}), Agrees(env, real), NEW i \in Nat,
         NEW s \in Part, \A c \in CallsOf(s) : c.tool \in Tools,
         NEW calls \in {s.sure, s.sure \o s.maybe}, \A c \in ToSet(calls) : Bound(c.arg, real)
  PROVE  LET plan == Simple(Nil, s, Tools \ DOMAIN real, env)
             done == Done(Only(calls, Ours(real)), i, real)
         IN  /\ plan \in Plan({}) /\ done \in Seq(At(i))
             /\ Matches(Tags(plan.calls, i), done, plan.on)
<1> DEFINE names == Tools \ DOMAIN real
           plan == Simple(Nil, s, names, env)
           done == Done(Only(calls, Ours(real)), i, real)
<1>1. Nil \in Plan({}) /\ s.sure \in Seq(Call) /\ s.maybe \in Seq(Call)
  BY DEF Nil, Plan, Part
<1>2. plan \in Plan({})
  BY <1>1, SimpleKeeps
<1>3. \A c \in ToSet(calls) : c \in CallsOf(s)
  <2>1. ToSet(s.sure \o s.maybe) = CallsOf(s)
    BY <1>1, ConcatElements DEF CallsOf
  <2>2. QED
    BY <2>1 DEF CallsOf
<1>4. calls \in Seq(Call)
  <2>1. s.sure \o s.maybe \in Seq(Call)
    BY <1>1, ConcatProperties
  <2>2. QED
    BY <1>1, <2>1
<1>5. \A c \in ToSet(calls) : c \in Fine(real)
  <2>1. calls \in Seq(ToSet(calls)) /\ ToSet(calls) \subseteq Call
    BY <1>4, InItsOwn
  <2>2. QED
    BY <1>3, <2>1 DEF Fine
<1>6. calls \in Seq(Fine(real))
  BY <1>4, <1>5, InItsOwn
<1>7. CASE \E c \in ToSet(s.maybe) : c.tool \in names
  <2>1. plan = [Nil EXCEPT !.on = ~Blocks(CallsOf(s), names)]
    BY <1>7 DEF Simple
  <2>2. plan.calls = << >> /\ (plan.on <=> ~Blocks(CallsOf(s), names))
    BY <2>1 DEF Nil
  <2>3. plan.on => \A c \in ToSet(calls) : c.tool \notin DOMAIN real => c.tool \in Always
    BY <1>3, <2>2 DEF Blocks
  <2>4. done \in Seq(At(i)) /\ (plan.on => Only(done, Firm) = << >>)
    <3> HIDE DEF plan
    <3>1. QED
      BY <1>6, <2>3, SoftCalls
  <2>5. Tags(plan.calls, i) = << >>
    <3>1. Tags(<< >>, i) = << >>
      BY DEF Tags
    <3> HIDE DEF plan
    <3>2. QED
      BY <2>2, <3>1
  <2>6. done \in Seq(Tagged) /\ << >> \in Seq(Tagged) /\ << >> \o done = done
    BY <2>4 DEF At
  <2> HIDE DEF plan, done
  <2>7. Matches(<< >>, << >> \o done, plan.on)
    BY <2>4, <2>6, MatchNothing, MatchMore
  <2>8. QED
    BY <1>2, <2>4, <2>5, <2>6, <2>7 DEF plan, done
<1>8. CASE ~ \E c \in ToSet(s.maybe) : c.tool \in names
  <2>1. plan = Sure(Nil, s.sure, names, env)
    BY <1>8 DEF Simple, Sure, FoldLeft, MapThenFoldSet
  <2>2. s.sure \in Seq(Fine(real))
    <3>1. ToSet(s.sure) \subseteq ToSet(calls)
      <4>1. ToSet(s.sure) \subseteq ToSet(s.sure \o s.maybe)
        BY <1>1, ConcatElements
      <4>2. QED
        BY <4>1
    <3>2. QED
      BY <1>1, <1>5, <3>1, InItsOwn
  <2>3. Only(calls, Ours(real)) = Only(s.sure, Ours(real))
    <3>1. ToSet(s.maybe) \cap Ours(real) = {}
      BY <1>8 DEF Ours, CallsOf
    <3>2. Only(s.maybe, Ours(real)) = << >>
      <4>1. s.maybe \in Seq(ToSet(s.maybe))
        BY <1>1, InItsOwn
      <4>2. QED
        BY <3>1, <4>1, OnlyNone
    <3>3. Only(s.sure \o s.maybe, Ours(real)) = Only(s.sure, Ours(real)) \o << >>
      <4>1. Only(s.sure \o s.maybe, Ours(real)) = Only(s.sure, Ours(real)) \o Only(s.maybe, Ours(real))
        BY <1>1, OnlyConcat, SMTT(40)
      <4>2. QED
        BY <3>2, <4>1
    <3>4. Only(s.sure, Ours(real)) \in Seq(Call)
      BY <1>1, OnlyKeeps
    <3>5. QED
      BY <3>3, <3>4, ConcatEmptySeq
  <2>4. Matches(Tags(plan.calls, i), done, plan.on)
    <3>1. Matches(Tags(plan.calls, i), Done(Only(s.sure, Ours(real)), i, real), plan.on)
      BY <2>1, <2>2, SureMatches
    <3>2. QED
      BY <2>3, <3>1
  <2>5. done \in Seq(At(i))
    <3>1. FALSE => \A c \in ToSet(calls) : c.tool \notin DOMAIN real => c.tool \in Always
      OBVIOUS
    <3>2. QED
      BY <1>6, <3>1, SoftCalls
  <2>6. QED
    BY <1>2, <2>4, <2>5
<1>9. QED
  BY <1>7, <1>8-----------------------------------------------------------------------------
(* The code that planning sees through, as far as it plans at all.  Left out *)
(* is what breaks the properties (the run `carried`, and section 6 of the    *)
(* README): a loop whose passes certainly make calls,                        *)
(* which is planned pass by pass from what was known before it; a def or     *)
(* class that runs code at once; code that binds the builtin `len` or hands  *)
(* it on; and names that only perhaps are the tool any longer.               *)
Changed(stmt) == Binds(stmt) \cup {stmt.var} \cup Handed(stmt.iter)
                   \cup UNION {Touched(s) : s \in Parts(stmt)}
Regular(stmt) ==
  /\ \A c \in AllCalls(stmt) : c.tool \in Tools
  /\ "len" \notin Changed(stmt)
  /\ \A s \in Parts(stmt) : s.sets # "none" /\ s.to.kind # "opaque" => s.alters = {}
  /\ stmt.kind = "simple" =>
       Len(stmt.head) = 1 /\ stmt.rest = << >> /\ stmt.binds = "none" /\ stmt.var = "none"
  /\ stmt.kind = "def" => stmt.head = << >> /\ stmt.rest = << >> /\ stmt.var = "none"
  /\ stmt.kind \in {"if", "for"} => Binds(stmt) \cap Tools = {}
  /\ stmt.kind = "for" => \A s \in ToSet(stmt.head) : Quiet(s)

\* what a simple statement leaves in the namespace
After(s, real) ==
  LET after == Altered(real, s.alters)
  IN  IF s.sets = "none" THEN after ELSE With(after, s.sets, Real(s.to, real))

\* real may have changed to later, but only in the names of some
Differs(real, later, some) ==
  /\ \A n \in DOMAIN real : n \in DOMAIN later /\ (n \notin some => later[n] = real[n])
  /\ \A n \in DOMAIN later : n \in DOMAIN real \/ n \in some

LEMMA AlteredDiffers ==
  ASSUME NEW real \in Env({}), NEW names, NEW some, names \subseteq some
  PROVE  Differs(real, Altered(real, names), some)
BY DEF Differs, Altered

LEMMA WithDiffers ==
  ASSUME NEW real \in Env({}), NEW later, NEW some, Differs(real, later, some), NEW name \in some, NEW value
  PROVE  /\ Differs(real, With(later, name, value), some)
         /\ name \in DOMAIN With(later, name, value) /\ With(later, name, value)[name] = value
BY DEF Differs, With

LEMMA AfterIs ==
  ASSUME NEW s \in Part, NEW real \in Env({})
  PROVE  /\ Differs(real, After(s, real), s.alters \cup {s.sets})
         /\ DOMAIN After(s, real) = DOMAIN real \cup ({s.sets} \ {"none"})
         /\ s.sets # "none" => After(s, real)[s.sets] = Real(s.to, real)
<1> DEFINE after == Altered(real, s.alters)
           some == s.alters \cup {s.sets}
<1>1. Differs(real, after, some) /\ DOMAIN after = DOMAIN real
  <2>1. s.alters \subseteq some
    OBVIOUS
  <2>2. QED
    BY <2>1, AlteredDiffers DEF Altered
<1>2. After(s, real) = IF s.sets = "none" THEN after ELSE With(after, s.sets, Real(s.to, real))
  BY DEF After
<1>3. s.sets \in some
  OBVIOUS
<1> HIDE DEF after, some
<1>4. CASE s.sets = "none"
  BY <1>1, <1>2, <1>4 DEF some
<1>5. CASE s.sets # "none"
  <2> DEFINE v == Real(s.to, real)
             new == With(after, s.sets, v)
  <2>1. After(s, real) = new
    BY <1>2, <1>5
  <2>2. Differs(real, new, some) /\ new[s.sets] = v
    <3> HIDE DEF v
    <3>1. QED
      BY <1>1, <1>3, WithDiffers
  <2>3. DOMAIN new = DOMAIN after \cup {s.sets}
    BY DEF With
  <2> HIDE DEF new
  <2>4. QED
    BY <1>1, <1>5, <2>1, <2>2, <2>3 DEF some
<1>6. QED
  BY <1>4, <1>5

LEMMA ForgetAgrees ==
  ASSUME NEW env, NEW real, NEW later, NEW names, Agrees(env, real), Differs(real, later, names),
         "len" \notin names
  PROVE  Agrees(Forget(env, names), later)
BY DEF Agrees, Differs, Forget

LEMMA LearnAgrees ==
  ASSUME NEW env \in Env({}), NEW real \in Env({}), Agrees(env, real), NEW s \in Part,
         "len" \notin {s.sets} \cup Touched(s),
         s.sets # "none" /\ s.to.kind # "opaque" => s.alters = {}
  PROVE  Agrees(Learn(s, env), After(s, real))
<1> DEFINE known == StaticEval(s.to, env)
           some == s.alters \cup {s.sets}
           later == After(s, real)
<1>1. Differs(real, later, some)
  BY AfterIs
<1>2. CASE s.sets # "none" /\ known # {}
  <2> DEFINE v == CHOOSE x \in known : TRUE
  <2>1. v \in known
    BY <1>2
  <2>2. v = Real(s.to, real)
    <3>1. s.to \in Expr
      BY DEF Part
    <3> HIDE DEF v
    <3>2. QED
      BY <2>1, <3>1, KnownIsReal
  <2>3. s.alters = {}
    BY <1>2 DEF StaticEval
  <2>4. Learn(s, env) = With(env, s.sets, v)
    BY <1>2 DEF Learn
  <2>5. later[s.sets] = v /\ DOMAIN later = DOMAIN real \cup {s.sets}
    BY <1>2, <2>2, AfterIs
  <2> HIDE DEF v, later
  <2>6. QED
    BY <1>1, <2>3, <2>4, <2>5 DEF Agrees, Differs, With, later
<1>3. CASE ~(s.sets # "none" /\ known # {})
  <2> DEFINE names == {s.sets} \cup Touched(s)
  <2>1. Learn(s, env) = Forget(env, names)
    BY <1>3 DEF Learn
  <2>2. Differs(real, later, names)
    <3>1. some \subseteq names
      BY DEF Touched
    <3> HIDE DEF names, some, later
    <3>2. QED
      BY <1>1, <3>1 DEF Differs
  <2> HIDE DEF names, later
  <2>3. QED
    BY <2>1, <2>2, ForgetAgrees DEF names, later
<1>4. QED
  BY <1>2, <1>3-----------------------------------------------------------------------------
(* A plan that got as far as statement pos, against the run that did: what   *)
(* it knows is so, it says which tools are still ours, and the calls it has  *)
(* of what is ahead are made.                                                *)
Base(env) == [calls |-> << >>, on |-> TRUE, names |-> Tools \ DOMAIN env, env |-> env]
Sound(a, real) == a.on => Agrees(a.env, real) /\ a.names = Tools \ DOMAIN real
Stands(a, done, first, pos) ==
  /\ Matches(NotPassed(a.calls, first), NotPassed(done, first), a.on)
  /\ pos < first => NotPassed(a.calls, first) = << >> /\ NotPassed(done, first) = << >>

LEMMA PlannedIsTagged == Seq(Planned({})) \subseteq Seq(Tagged)
<1>1. Planned({}) \subseteq Tagged
  BY ArgsAreSeqs DEF Planned, Tagged
<1>2. QED
  BY <1>1

LEMMA BaseIs ==
  ASSUME NEW env \in Env({})
  PROVE  Base(env) \in Look({}) /\ Sound(Base(env), env)
<1>1. << >> \in Seq(Planned({})) /\ Tools \ DOMAIN env \in SUBSET Tools
  OBVIOUS
<1>2. Base(env) \in Look({})
  BY <1>1 DEF Base, Look
<1>3. Sound(Base(env), env)
  BY DEF Base, Sound, Agrees
<1>4. QED
  BY <1>2, <1>3

(* One statement more: its planned calls t against those it made, e. *)
LEMMA StandsOn ==
  ASSUME NEW i \in Nat, NEW first \in Nat, NEW pos \in Nat, pos <= i,
         NEW a \in Look({}), NEW b \in Look({}), NEW d \in Seq(Tagged), Stands(a, d, first, pos),
         NEW t \in Seq(At(i)), NEW e \in Seq(At(i)), b.calls = a.calls \o t,
         b.on => a.on, a.on => Matches(t, e, b.on), ~a.on => t = << >>
  PROVE  Stands(b, d \o e, first, i)
<1>1. a.calls \in Seq(Tagged) /\ a.on \in BOOLEAN /\ b.on \in BOOLEAN
  BY PlannedIsTagged DEF Look
<1>2. /\ NotPassed(a.calls, first) \in Seq(Tagged) /\ t \in Seq(Tagged) /\ e \in Seq(Tagged)
      /\ NotPassed(a.calls \o t, first) =
           IF i >= first THEN NotPassed(a.calls, first) \o t ELSE NotPassed(a.calls, first)
  BY <1>1, AheadOrNot
<1>3. /\ NotPassed(d, first) \in Seq(Tagged)
      /\ NotPassed(d \o e, first) =
           IF i >= first THEN NotPassed(d, first) \o e ELSE NotPassed(d, first)
  BY AheadOrNot
<1> DEFINE p == NotPassed(a.calls, first)
           m == NotPassed(d, first)
<1>4. CASE i >= first
  <2>1. NotPassed(b.calls, first) = p \o t /\ NotPassed(d \o e, first) = m \o e
    BY <1>2, <1>3, <1>4
  <2>2. Matches(p, m, a.on)
    BY DEF Stands
  <2>3. Matches(p \o t, m \o e, b.on)
    <3> HIDE DEF p, m
    <3>0. p \in Seq(Tagged) /\ m \in Seq(Tagged)
      BY <1>2, <1>3 DEF p, m
    <3>1. CASE a.on
      <4>1. Matches(p, m, TRUE)
        BY <2>2, <3>1, MatchLess
      <4>2. Matches(t, e, b.on)
        BY <3>1
      <4>3. QED
        BY <1>2, <3>0, <4>1, <4>2, MatchThen
    <3>2. CASE ~a.on
      <4>1. p \o t = p /\ ~b.on
        BY <3>0, <3>2, ConcatEmptySeq
      <4>2. Matches(p, m, FALSE)
        BY <2>2, MatchLess
      <4>3. Matches(p, m \o e, FALSE)
        BY <1>2, <3>0, <4>2, MatchMore
      <4>4. QED
        BY <4>1, <4>3, MatchLess
    <3>3. QED
      BY <3>1, <3>2
  <2>4. ~(i < first)
    BY <1>4
  <2>5. QED
    BY <2>1, <2>3, <2>4 DEF Stands
<1>5. CASE ~(i >= first)
  <2>1. NotPassed(b.calls, first) = p /\ NotPassed(d \o e, first) = m
    BY <1>2, <1>3, <1>5
  <2>2. p = << >> /\ m = << >>
    BY <1>5 DEF Stands
  <2>3. Matches(p, m, b.on)
    BY <2>2, MatchNothing
  <2>4. QED
    BY <2>1, <2>2, <2>3 DEF Stands
<1>6. QED
  BY <1>4, <1>5

LEMMA NothingMore ==
  ASSUME NEW i, NEW b, NEW s \in Seq(Tagged)
  PROVE  /\ << >> \in Seq(At(i)) /\ s \o << >> = s /\ Matches(<< >>, << >>, b)
BY MatchNothing, ConcatEmptySeq

(* What planning a statement of each kind adds to a plan. *)
LEMMA OneStmtIs ==
  ASSUME prog \in Programs, NEW i \in 1 .. Len(prog), NEW a \in Look({})
  PROVE  LET p == PlanCalls(prog[i], a.names, a.env)
             b == OneStmt(a, i)
         IN  /\ b \in Look({}) /\ (~a.on => b = a)
             /\ a.on => /\ b.calls = a.calls \o Tags(p.calls, i) /\ b.on = p.on
                        /\ b.names = a.names \ Binds(prog[i]) /\ b.env = LearnAll(prog[i], a.env)
<1>1. OneStmt(a, i) \in Look({})
  BY OneStmtKeeps
<1>2. QED
  BY <1>1 DEF OneStmt, Tags, StillOurs

LEMMA QuietStmt ==
  ASSUME prog \in Programs, NEW i \in 1 .. Len(prog), NEW a \in Look({}),
         Regular(prog[i]), prog[i].kind \in {"if", "for"}
  PROVE  LET b == OneStmt(a, i)
         IN  /\ b \in Look({}) /\ b.calls = a.calls
             /\ b.on => /\ a.on /\ b.names = a.names /\ b.env = Forget(a.env, Changed(prog[i]))
                        /\ \A c \in AllCalls(prog[i]) : c.tool \in a.names => c.tool \in Always
<1> DEFINE stmt == prog[i]
           p == PlanCalls(stmt, a.names, a.env)
           b == OneStmt(a, i)
<1>1. stmt \in Stmt /\ a.names \in SUBSET Tools /\ a.env \in Env({}) /\ a.calls \in Seq(Planned({}))
  BY StmtsAre DEF Look
<1>2. p.calls = << >> /\ (p.on => ~Blocks(AllCalls(stmt), a.names))
  <2>1. CASE stmt.kind = "if"
    BY <2>1 DEF PlanCalls
  <2>2. CASE stmt.kind = "for"
    <3>1. p = Loop(stmt, a.names, a.env)
      BY <2>2 DEF PlanCalls
    <3>2. \A s \in ToSet(stmt.head) : Quiet(s)
      BY <2>2 DEF Regular
    <3> HIDE DEF stmt, p
    <3>3. QED
      BY <1>1, <3>1, <3>2, LoopKeeps
  <2>3. QED
    BY <2>1, <2>2
<1>3. /\ b \in Look({}) /\ (~a.on => b = a)
      /\ a.on => /\ b.calls = a.calls \o Tags(p.calls, i) /\ b.on = p.on
                 /\ b.names = a.names \ Binds(stmt) /\ b.env = LearnAll(stmt, a.env)
  BY OneStmtIs
<1>4. Tags(<< >>, i) = << >>
  BY DEF Tags
<1>5. a.names \ Binds(stmt) = a.names
  BY <1>1 DEF Regular
<1>6. LearnAll(stmt, a.env) = Forget(a.env, Changed(stmt))
  BY DEF LearnAll, Changed
<1> HIDE DEF stmt, p, b
<1>7. a.on => b.calls = a.calls
  <2>1. a.calls \o << >> = a.calls
    BY <1>1, ConcatEmptySeq
  <2>2. QED
    BY <1>2, <1>3, <1>4, <2>1
<1>8. ~Blocks(AllCalls(stmt), a.names) =>
        \A c \in AllCalls(stmt) : c.tool \in a.names => c.tool \in Always
  BY DEF Blocks
<1>9. QED
  BY <1>2, <1>3, <1>5, <1>6, <1>7, <1>8 DEF stmt, b

LEMMA DefStmt ==
  ASSUME prog \in Programs, NEW i \in 1 .. Len(prog), NEW a \in Look({}), prog[i].kind = "def"
  PROVE  LET b == OneStmt(a, i)
         IN  /\ b \in Look({}) /\ b.calls = a.calls
             /\ b.on => /\ a.on /\ b.names = a.names \ Binds(prog[i])
                        /\ b.env = Forget(a.env, Changed(prog[i]))
<1> DEFINE stmt == prog[i]
           p == PlanCalls(stmt, a.names, a.env)
           b == OneStmt(a, i)
<1>1. a.calls \in Seq(Planned({}))
  BY DEF Look
<1>2. p.calls = << >>
  BY DEF PlanCalls
<1>3. /\ b \in Look({}) /\ (~a.on => b = a)
      /\ a.on => /\ b.calls = a.calls \o Tags(p.calls, i) /\ b.on = p.on
                 /\ b.names = a.names \ Binds(stmt) /\ b.env = LearnAll(stmt, a.env)
  BY OneStmtIs
<1>4. Tags(<< >>, i) = << >>
  BY DEF Tags
<1>5. LearnAll(stmt, a.env) = Forget(a.env, Changed(stmt))
  BY DEF LearnAll, Changed
<1> HIDE DEF stmt, p, b
<1>6. a.on => b.calls = a.calls
  <2>1. a.calls \o << >> = a.calls
    BY <1>1, ConcatEmptySeq
  <2>2. QED
    BY <1>2, <1>3, <1>4, <2>1
<1>7. QED
  BY <1>3, <1>5, <1>6 DEF stmt, b(* A simple statement: planned as far as the plan goes, and made. *)
LEMMA OnePartOnly ==
  ASSUME NEW stmt \in Stmt, Regular(stmt), stmt.kind = "simple"
  PROVE  /\ stmt.head[1] \in Part /\ stmt.head = <<stmt.head[1]>> /\ Parts(stmt) = {stmt.head[1]}
         /\ Binds(stmt) \cap Tools = {stmt.head[1].sets} \cap Tools
<1> DEFINE s == stmt.head[1]
<1>1. stmt.head \in Seq(Part) /\ Len(stmt.head) = 1 /\ stmt.rest = << >>
      /\ stmt.binds = "none" /\ stmt.var = "none"
  BY DEF Regular, Stmt
<1>2. s \in Part /\ stmt.head = <<s>>
  <2>1. 1 \in 1 .. Len(stmt.head)
    BY <1>1
  <2>2. s \in Part
    BY <1>1, <2>1, ElementOfSeq
  <2>3. QED
    BY <1>1, <2>2
<1>3. ToSet(stmt.head) = {s} /\ ToSet(stmt.rest) = {}
  <2>1. DOMAIN stmt.head = {1} /\ DOMAIN stmt.rest = {}
    BY <1>1
  <2>2. QED
    BY <2>1 DEF ToSet
<1>4. Parts(stmt) = {s}
  BY <1>3 DEF Parts
<1>5. Binds(stmt) \cap Tools = {s.sets} \cap Tools
  BY <1>1, <1>4, NoneIsNoTool DEF Binds
<1>6. QED
  BY <1>2, <1>4, <1>5

LEMMA SimpleStep ==
  ASSUME prog \in Programs, NEW i \in 1 .. Len(prog), NEW a \in Look({}),
         Regular(prog[i]), prog[i].kind = "simple",
         NEW real \in Env({}), Sound(a, real), NEW s, s = prog[i].head[1],
         NEW calls \in {s.sure, s.sure \o s.maybe}, \A c \in ToSet(calls) : Bound(c.arg, real)
  PROVE  LET done == Done(Only(calls, Ours(real)), i, real)
         IN  /\ done \in Seq(At(i)) /\ Sound(OneStmt(a, i), After(s, real))
             /\ \A first \in Nat, pos \in 0 .. i, d \in Seq(Tagged) :
                  Stands(a, d, first, pos) => Stands(OneStmt(a, i), d \o done, first, i)
<1> DEFINE stmt == prog[i]
           p == Simple(Nil, s, a.names, a.env)
           b == OneStmt(a, i)
           t == Tags(p.calls, i)
           done == Done(Only(calls, Ours(real)), i, real)
<1>1. stmt \in Stmt /\ a.names \in SUBSET Tools /\ a.env \in Env({}) /\ a.calls \in Seq(Planned({})) /\ i \in Nat
  BY StmtsAre, SMTT(40) DEF Look
<1>2. s \in Part /\ Parts(stmt) = {s} /\ Binds(stmt) \cap Tools = {s.sets} \cap Tools
  BY <1>1, OnePartOnly
<1>3. \A c \in CallsOf(s) : c.tool \in Tools
  BY <1>2 DEF Regular, AllCalls
<1>4. /\ b \in Look({}) /\ (~a.on => b = a)
      /\ a.on => /\ b.calls = a.calls \o t /\ b.on = p.on
                 /\ b.names = a.names \ Binds(stmt) /\ b.env = Learn(s, a.env)
  <2>1. PlanCalls(stmt, a.names, a.env) = p /\ LearnAll(stmt, a.env) = Learn(s, a.env)
    BY DEF PlanCalls, LearnAll, Nil
  <2> HIDE DEF b, p
  <2>2. QED
    BY <2>1, OneStmtIs DEF b
<1>5. a.on => p \in Plan({}) /\ Matches(t, done, p.on)
  <2>1. a.on => a.names = Tools \ DOMAIN real /\ Agrees(a.env, real)
    BY DEF Sound
  <2>2. QED
    BY <1>1, <1>2, <1>3, <2>1, SimpleMatches
<1>6. done \in Seq(At(i))
  <2>1. Agrees(real, real)
    BY DEF Agrees
  <2>2. QED
    BY <1>1, <1>2, <1>3, <2>1, SimpleMatches
<1>7. a.on => t \in Seq(At(i))
  <2>1. a.on => p.calls \in Seq(KnownCall)
    BY <1>5 DEF Plan, KnownCall
  <2> HIDE DEF p
  <2>2. p.calls = << >> => t = << >>
    BY SMTT(40) DEF Tags
  <2>3. p.calls \in Seq(KnownCall) /\ p.calls # << >> => t \in Seq(At(i))
    <3> SUFFICES ASSUME p.calls \in Seq(KnownCall), p.calls # << >> PROVE t \in Seq(At(i))
      OBVIOUS
    <3>1. PICK c \in KnownCall : TRUE
      BY EmptySeq, SMTT(40)
    <3>2. QED
      BY <1>1, <3>1, TagsAre
  <2>4. QED
    BY <2>1, <2>2, <2>3, SMTT(40)
<1>8. Sound(b, After(s, real))
  <2> SUFFICES ASSUME a.on PROVE Agrees(b.env, After(s, real)) /\ b.names = Tools \ DOMAIN After(s, real)
    BY <1>4 DEF Sound
  <2>1. "len" \notin {s.sets} \cup Touched(s) /\ (s.sets # "none" /\ s.to.kind # "opaque" => s.alters = {})
    <3>1. s \in Parts(stmt)
      BY <1>2
    <3> HIDE DEF stmt
    <3>2. s.sets \in Binds(stmt)
      BY <3>1 DEF Binds
    <3>3. {s.sets} \cup Touched(s) \subseteq Changed(stmt)
      BY <3>1, <3>2 DEF Changed
    <3>4. QED
      BY <3>1, <3>3 DEF Regular, stmt
  <2>2. Agrees(b.env, After(s, real))
    <3>1. Agrees(a.env, real) /\ b.env = Learn(s, a.env)
      BY <1>4 DEF Sound
    <3> HIDE DEF b
    <3>2. QED
      BY <1>1, <1>2, <2>1, <3>1, LearnAgrees, SMTT(40)
  <2>3. DOMAIN After(s, real) = DOMAIN real \cup ({s.sets} \ {"none"})
    BY <1>2, AfterIs
  <2>4. b.names = Tools \ DOMAIN After(s, real)
    BY <1>2, <1>4, <2>3, NoneIsNoTool DEF Sound
  <2>5. QED
    BY <2>2, <2>4
<1>9. ASSUME NEW first \in Nat, NEW pos \in 0 .. i, NEW d \in Seq(Tagged), Stands(a, d, first, pos)
      PROVE  Stands(b, d \o done, first, i)
  <2>1. pos \in Nat /\ pos <= i
    BY <1>1, SMTT(40)
  <2> HIDE DEF b, t, done, p
  <2>2. CASE a.on
    <3>1. QED
      BY <1>1, <1>4, <1>5, <1>6, <1>7, <1>9, <2>1, <2>2, StandsOn
  <2>3. CASE ~a.on
    <3>1. a.calls \in Seq(Tagged)
      BY <1>1, PlannedIsTagged
    <3>2. << >> \in Seq(At(i)) /\ a.calls \o << >> = a.calls
      BY <3>1, NothingMore
    <3> DEFINE none == << >>
    <3>3. none \in Seq(At(i)) /\ b.calls = a.calls \o none /\ (b.on => a.on) /\ none = << >>
      BY <1>4, <2>3, <3>2
    <3> HIDE DEF none
    <3>4. QED
      BY <1>1, <1>4, <1>6, <1>9, <2>1, <2>3, <3>3, StandsOn
  <2>4. QED
    BY <2>2, <2>3
<1>10. QED
  BY <1>6, <1>8, <1>9(* A branch or a loop is planned as nothing, and its calls, whatever the ways *)
(* through it are, do not come before planned ones that they must not.        *)
LEMMA NoneAdded ==
  ASSUME NEW i \in Nat, NEW first \in Nat, NEW pos \in Nat, pos <= i,
         NEW a \in Look({}), NEW b \in Look({}), NEW d \in Seq(Tagged), Stands(a, d, first, pos),
         b.calls = a.calls, b.on => a.on
  PROVE  Stands(b, d, first, i)
<1> DEFINE none == << >>
<1>1. a.calls \in Seq(Tagged)
  BY PlannedIsTagged DEF Look
<1>2. none \in Seq(At(i)) /\ none = << >>
  OBVIOUS
<1>3. b.calls = a.calls \o none /\ d \o none = d /\ Matches(none, none, b.on)
  BY <1>1, MatchNothing, ConcatEmptySeq
<1> HIDE DEF none
<1>4. Stands(b, d \o none, first, i)
  BY <1>2, <1>3, StandsOn
<1>5. QED
  BY <1>3, <1>4

LEMMA Enters ==
  ASSUME prog \in Programs, NEW i \in 1 .. Len(prog), NEW a \in Look({}),
         Regular(prog[i]), prog[i].kind \in {"if", "for"}, NEW real \in Env({}), Sound(a, real)
  PROVE  /\ OneStmt(a, i) \in Look({}) /\ Sound(OneStmt(a, i), real)
         /\ \A first \in Nat, pos \in 0 .. i, d \in Seq(Tagged) :
              Stands(a, d, first, pos) => Stands(OneStmt(a, i), d, first, i)
<1> DEFINE b == OneStmt(a, i)
<1>1. /\ b \in Look({}) /\ b.calls = a.calls
      /\ b.on => a.on /\ b.names = a.names /\ b.env = Forget(a.env, Changed(prog[i]))
  BY QuietStmt
<1> HIDE DEF b
<1>2. Sound(b, real)
  <2>1. Differs(real, real, Changed(prog[i])) /\ "len" \notin Changed(prog[i])
    BY DEF Differs, Regular
  <2>2. a.on => Agrees(Forget(a.env, Changed(prog[i])), real)
    BY <2>1, ForgetAgrees DEF Sound
  <2>3. QED
    BY <1>1, <2>2 DEF Sound
<1>3. \A first \in Nat, pos \in 0 .. i, d \in Seq(Tagged) :
        Stands(a, d, first, pos) => Stands(b, d, first, i)
  <2>1. \A pos \in 0 .. i : pos \in Nat /\ pos <= i
    OBVIOUS
  <2>2. i \in Nat
    OBVIOUS
  <2>3. QED
    BY <1>1, <2>1, <2>2, NoneAdded
<1>4. QED
  BY <1>1, <1>2, <1>3 DEF b

LEMMA StaysSound ==
  ASSUME prog \in Programs, NEW i \in 1 .. Len(prog), NEW a \in Look({}),
         Regular(prog[i]), prog[i].kind \in {"if", "for"},
         NEW real \in Env({}), Sound(OneStmt(a, i), real),
         NEW later, Differs(real, later, Changed(prog[i])),
         \A n \in Tools : n \in DOMAIN later => n \in DOMAIN real
  PROVE  Sound(OneStmt(a, i), later)
<1> DEFINE b == OneStmt(a, i)
           F == Changed(prog[i])
<1>1. b.on => b.env = Forget(a.env, F)
  BY QuietStmt
<1>2. "len" \notin F
  BY DEF Regular
<1> HIDE DEF b, F
<1>3. ASSUME b.on PROVE Agrees(b.env, later) /\ b.names = Tools \ DOMAIN later
  <2>1. Agrees(b.env, real) /\ b.names = Tools \ DOMAIN real
    BY <1>3 DEF Sound, b
  <2>2. \A n \in DOMAIN b.env : n \notin F
    BY <1>1, <1>3 DEF Forget
  <2>3. Agrees(b.env, later)
    BY <1>2, <2>1, <2>2 DEF Agrees, Differs, F
  <2>4. DOMAIN real \cap Tools = DOMAIN later \cap Tools
    BY DEF Differs
  <2>5. QED
    BY <2>1, <2>3, <2>4
<1>4. QED
  BY <1>3 DEF Sound, b

LEMMA CallsAreFine ==
  ASSUME NEW real, NEW s \in Part, \A c \in CallsOf(s) : c.tool \in Tools,
         NEW calls \in {s.sure, s.sure \o s.maybe}, \A c \in ToSet(calls) : Bound(c.arg, real)
  PROVE  calls \in Seq(Fine(real)) /\ ToSet(calls) \subseteq CallsOf(s)
<1>1. s.sure \in Seq(Call) /\ s.maybe \in Seq(Call)
  BY DEF Part
<1>2. ToSet(calls) \subseteq CallsOf(s)
  <2>1. ToSet(s.sure \o s.maybe) = CallsOf(s)
    BY <1>1, ConcatElements DEF CallsOf
  <2>2. QED
    BY <2>1 DEF CallsOf
<1>3. calls \in Seq(Call)
  <2>1. s.sure \o s.maybe \in Seq(Call)
    BY <1>1, ConcatProperties
  <2>2. QED
    BY <1>1, <2>1
<1>4. \A c \in ToSet(calls) : c \in Fine(real)
  <2>1. calls \in Seq(ToSet(calls)) /\ ToSet(calls) \subseteq Call
    BY <1>3, InItsOwn
  <2>2. QED
    BY <1>2, <2>1 DEF Fine
<1>5. QED
  BY <1>2, <1>3, <1>4, InItsOwn

LEMMA StaysBehind ==
  ASSUME prog \in Programs, NEW i \in 1 .. Len(prog), NEW a \in Look({}),
         Regular(prog[i]), prog[i].kind \in {"if", "for"},
         NEW real \in Env({}), Sound(OneStmt(a, i), real),
         NEW s \in Part, s \in Parts(prog[i]),
         NEW calls \in {s.sure, s.sure \o s.maybe}, \A c \in ToSet(calls) : Bound(c.arg, real)
  PROVE  LET done == Done(Only(calls, Ours(real)), i, real)
         IN  /\ done \in Seq(At(i))
             /\ \A first \in Nat, d \in Seq(Tagged) :
                  Stands(OneStmt(a, i), d, first, i) => Stands(OneStmt(a, i), d \o done, first, i)
<1> DEFINE b == OneStmt(a, i)
           done == Done(Only(calls, Ours(real)), i, real)
           none == << >>
<1>1. /\ b \in Look({})
      /\ b.on => b.names = a.names /\ \A c \in AllCalls(prog[i]) : c.tool \in a.names => c.tool \in Always
  BY QuietStmt
<1>2. \A c \in CallsOf(s) : c \in AllCalls(prog[i]) /\ c.tool \in Tools
  BY DEF Regular, AllCalls
<1>3. calls \in Seq(Fine(real)) /\ ToSet(calls) \subseteq CallsOf(s)
  BY <1>2, CallsAreFine
<1>4. b.on => \A c \in ToSet(calls) : c.tool \notin DOMAIN real => c.tool \in Always
  BY <1>1, <1>2, <1>3 DEF Sound
<1>5. i \in Nat
  OBVIOUS
<1>6. done \in Seq(At(i)) /\ (b.on => Only(done, Firm) = << >>)
  <2> HIDE DEF b
  <2>1. QED
    BY <1>3, <1>4, <1>5, SoftCalls
<1>7. Matches(none, done, b.on)
  <2>1. done \in Seq(Tagged) /\ none \in Seq(Tagged) /\ none \o done = done
    BY <1>6 DEF At
  <2>2. Matches(none, none, b.on)
    BY MatchNothing
  <2> HIDE DEF none, done, b
  <2>3. QED
    BY <1>6, <2>1, <2>2, MatchMore
<1>8. ASSUME NEW first \in Nat, NEW d \in Seq(Tagged), Stands(b, d, first, i)
      PROVE  Stands(b, d \o done, first, i)
  <2>1. b.calls \in Seq(Tagged)
    BY <1>1, PlannedIsTagged DEF Look
  <2>2. none \in Seq(At(i)) /\ none = << >> /\ b.calls \o none = b.calls
    BY <2>1, ConcatEmptySeq
  <2> HIDE DEF none, done, b
  <2>3. i <= i /\ (b.on => b.on)
    BY <1>5
  <2>4. QED
    BY <1>1, <1>5, <1>6, <1>7, <1>8, <2>2, <2>3, StandsOn
<1>9. QED
  BY <1>6, <1>8

(* A def binds its name, and the tool of that name is not ours any longer. *)
LEMMA DefBinds ==
  ASSUME NEW stmt \in Stmt, Regular(stmt), stmt.kind = "def"
  PROVE  Binds(stmt) \cap Tools = {stmt.binds} \cap Tools
<1>1. Parts(stmt) = {}
  <2>1. ToSet(<< >>) = {}
    BY DEF ToSet
  <2>2. QED
    BY <2>1 DEF Regular, Parts
<1>2. stmt.var = "none"
  BY DEF Regular
<1>3. QED
  BY <1>1, <1>2, NoneIsNoTool DEF Binds

LEMMA DefStep ==
  ASSUME prog \in Programs, NEW i \in 1 .. Len(prog), NEW a \in Look({}),
         Regular(prog[i]), prog[i].kind = "def", NEW real \in Env({}), Sound(a, real), NEW v
  PROVE  /\ OneStmt(a, i) \in Look({}) /\ Sound(OneStmt(a, i), With(real, prog[i].binds, v))
         /\ \A first \in Nat, pos \in 0 .. i, d \in Seq(Tagged) :
              Stands(a, d, first, pos) => Stands(OneStmt(a, i), d, first, i)
<1> DEFINE b == OneStmt(a, i)
           later == With(real, prog[i].binds, v)
<1>1. /\ b \in Look({}) /\ b.calls = a.calls
      /\ b.on => /\ a.on /\ b.names = a.names \ Binds(prog[i])
                 /\ b.env = Forget(a.env, Changed(prog[i]))
  BY DefStmt
<1>2. prog[i] \in Stmt
  BY StmtsAre
<1>3. Differs(real, later, Changed(prog[i])) /\ "len" \notin Changed(prog[i])
  <2>1. Differs(real, real, Changed(prog[i])) /\ prog[i].binds \in Changed(prog[i])
    BY DEF Differs, Changed, Binds
  <2>2. QED
    BY <2>1, WithDiffers DEF Regular
<1>4. DOMAIN later = DOMAIN real \cup {prog[i].binds}
  BY DEF With
<1> HIDE DEF b, later
<1>5. Sound(b, later)
  <2>1. a.on => Agrees(Forget(a.env, Changed(prog[i])), later)
    BY <1>3, ForgetAgrees DEF Sound
  <2>2. Binds(prog[i]) \cap Tools = {prog[i].binds} \cap Tools
    BY <1>2, DefBinds
  <2>3. b.on => b.names = Tools \ DOMAIN later
    BY <1>1, <1>4, <2>2 DEF Sound
  <2>4. QED
    BY <1>1, <2>1, <2>3 DEF Sound
<1>6. \A first \in Nat, pos \in 0 .. i, d \in Seq(Tagged) :
        Stands(a, d, first, pos) => Stands(b, d, first, i)
  <2>1. \A pos \in 0 .. i : pos \in Nat /\ pos <= i
    OBVIOUS
  <2>2. i \in Nat
    OBVIOUS
  <2>3. QED
    BY <1>1, <2>1, <2>2, NoneAdded
<1>7. QED
  BY <1>1, <1>5, <1>6 DEF b, later(* A namespace that a statement has been run in: to learn the statement from *)
(* it once more is to learn nothing that is not so, unless it is of the form *)
(* x = x + ... (Again).                                                      *)
Settled(stmt, real) ==
  /\ Binds(stmt) \cap Tools \subseteq DOMAIN real
  /\ stmt.kind = "simple" =>
       LET s == stmt.head[1]
       IN  s.sets # "none" /\ s.to.kind # "opaque" /\ s.to.name # s.sets =>
             s.sets \in DOMAIN real /\ real[s.sets] = Real(s.to, real)

LEMMA AfterSettled ==
  ASSUME NEW stmt \in Stmt, Regular(stmt), stmt.kind = "simple", NEW real \in Env({}),
         NEW s, s = stmt.head[1], s.sets # "none" => Bound(s.to, real)
  PROVE  Settled(stmt, After(s, real))
<1> DEFINE later == After(s, real)
<1>1. s \in Part /\ Parts(stmt) = {s} /\ Binds(stmt) \cap Tools = {s.sets} \cap Tools
  BY OnePartOnly
<1>2. /\ Differs(real, later, s.alters \cup {s.sets})
      /\ DOMAIN later = DOMAIN real \cup ({s.sets} \ {"none"})
      /\ s.sets # "none" => later[s.sets] = Real(s.to, real)
  BY <1>1, AfterIs
<1> HIDE DEF later
<1>3. Binds(stmt) \cap Tools \subseteq DOMAIN later
  BY <1>1, <1>2, NoneIsNoTool
<1>4. ASSUME s.sets # "none", s.to.kind # "opaque", s.to.name # s.sets
      PROVE  s.sets \in DOMAIN later /\ later[s.sets] = Real(s.to, later)
  <2>1. s.alters = {}
    BY <1>1, <1>4 DEF Regular
  <2>2. s.sets \in Binds(stmt)
    BY <1>1 DEF Binds
  <2>3. s.sets # "len"
    BY <2>2 DEF Regular, Changed
  <2>4. "len" \in DOMAIN later <=> "len" \in DOMAIN real
    BY <1>2, <2>3
  <2>5. s.to.name \in DOMAIN real => s.to.name \in DOMAIN later /\ later[s.to.name] = real[s.to.name]
    BY <1>2, <1>4, <2>1 DEF Differs
  <2>6. /\ s.to.kind # "lit" => s.to.name \in DOMAIN real \/ s.to.name = "len"
        /\ s.to.kind = "len" => s.to.name \in DOMAIN real
    BY <1>4 DEF Bound
  <2>7. /\ s.to.kind # "lit" => Named(s.to.name, later) = Named(s.to.name, real)
        /\ s.to.kind = "len" => later[s.to.name] = real[s.to.name]
    BY <2>4, <2>5, <2>6 DEF Named
  <2>8. s.to.kind \in {"lit", "name", "more", "len", "opaque"}
    BY <1>1 DEF Part, Expr
  <2>9. Value(s.to, later) = Value(s.to, real)
    BY <1>4, <2>7, <2>8 DEF Value
  <2>10. Real(s.to, later) = Real(s.to, real)
    BY <1>4, <2>4, <2>9 DEF Real
  <2>11. QED
    BY <1>2, <1>4, <2>10
<1>5. QED
  BY <1>3, <1>4 DEF Settled, later

LEMMA DefSettled ==
  ASSUME NEW stmt \in Stmt, Regular(stmt), stmt.kind = "def", NEW real, NEW v
  PROVE  Settled(stmt, With(real, stmt.binds, v))
BY DefBinds DEF Settled, With

LEMMA OthersSettled ==
  ASSUME NEW stmt, Regular(stmt), stmt.kind \in {"if", "for"}, NEW real
  PROVE  Settled(stmt, real)
BY DEF Settled, Regular

LEMMA LearnedTwice ==
  ASSUME prog \in Programs, NEW i \in 1 .. Len(prog), Regular(prog[i]), ~Again(prog[i]),
         NEW real \in Env({}), Settled(prog[i], real)
  PROVE  Sound(OneStmt(Base(real), i), real)
<1> DEFINE stmt == prog[i]
           a == Base(real)
           b == OneStmt(a, i)
<1>1. a \in Look({}) /\ Sound(a, real) /\ a.on /\ a.names = Tools \ DOMAIN real /\ a.env = real
  BY BaseIs DEF Base
<1>2. stmt \in Stmt /\ stmt.kind \in {"simple", "for", "if", "def"}
  BY StmtsAre DEF Stmt
<1>3. CASE stmt.kind = "simple"
  <2> DEFINE s == stmt.head[1]
             known == StaticEval(s.to, real)
             names == {s.sets} \cup Touched(s)
  <2>1. s \in Part /\ Parts(stmt) = {s}
    BY <1>2, <1>3, OnePartOnly
  <2>2. b.names = a.names \ Binds(stmt) /\ b.env = LearnAll(stmt, a.env)
    <3> HIDE DEF a
    <3>1. QED
      BY <1>1, OneStmtIs
  <2>3. b.env = Learn(s, real)
    BY <1>1, <1>3, <2>2 DEF LearnAll
  <2>4. names \subseteq Changed(stmt) /\ "len" \notin names
    <3>1. s.sets \in Binds(stmt)
      BY <2>1 DEF Binds
    <3>2. Touched(s) \subseteq Changed(stmt)
      BY <2>1 DEF Changed
    <3>3. names \subseteq Changed(stmt)
      BY <3>1, <3>2 DEF Changed
    <3>4. QED
      BY <3>3 DEF Regular
  <2>5. b.names = Tools \ DOMAIN real
    BY <1>1, <2>2 DEF Settled
  <2>6. Agrees(Learn(s, real), real)
    <3>1. CASE s.sets # "none" /\ known # {}
      <4> DEFINE v == CHOOSE x \in known : TRUE
      <4>1. v \in known
        BY <3>1
      <4>2. v = Real(s.to, real)
        <5>1. s.to \in Expr /\ Agrees(real, real)
          BY <2>1 DEF Part, Agrees
        <5> HIDE DEF v
        <5>2. QED
          BY <4>1, <5>1, KnownIsReal
      <4>3. s.to.kind # "opaque"
        BY <3>1 DEF StaticEval
      <4>4. s.to.name # s.sets
        BY <1>3, <3>1 DEF Again
      <4>5. s.sets \in DOMAIN real /\ real[s.sets] = v
        BY <1>3, <3>1, <4>2, <4>3, <4>4 DEF Settled
      <4>6. Learn(s, real) = With(real, s.sets, v)
        BY <3>1 DEF Learn
      <4> HIDE DEF v
      <4>7. QED
        BY <4>5, <4>6 DEF Agrees, With
    <3>2. CASE ~(s.sets # "none" /\ known # {})
      <4>1. Learn(s, real) = Forget(real, names)
        BY <3>2 DEF Learn
      <4>2. Differs(real, real, names) /\ Agrees(real, real)
        BY DEF Differs, Agrees
      <4> HIDE DEF names
      <4>3. QED
        BY <2>4, <4>1, <4>2, ForgetAgrees
    <3>3. QED
      BY <3>1, <3>2
  <2>7. QED
    BY <2>3, <2>5, <2>6 DEF Sound
<1>4. CASE stmt.kind \in {"if", "for"}
  <2> HIDE DEF a
  <2>1. Sound(OneStmt(a, i), real)
    BY <1>1, <1>4, Enters
  <2>2. QED
    BY <2>1 DEF a
<1>5. CASE stmt.kind = "def"
  <2>1. b.on => b.names = a.names \ Binds(stmt) /\ b.env = Forget(a.env, Changed(stmt))
    <3> HIDE DEF a
    <3>1. QED
      BY <1>1, <1>5, DefStmt
  <2>2. b.on => b.names = Tools \ DOMAIN real
    BY <1>1, <2>1 DEF Settled
  <2>3. Differs(real, real, Changed(stmt)) /\ Agrees(real, real) /\ "len" \notin Changed(stmt)
    BY DEF Differs, Agrees, Regular
  <2>4. Agrees(Forget(real, Changed(stmt)), real)
    BY <2>3, ForgetAgrees
  <2>5. b.on => Agrees(b.env, real)
    BY <1>1, <2>1, <2>4
  <2>6. QED
    BY <2>2, <2>5 DEF Sound
<1>6. QED
  BY <1>2, <1>3, <1>4, <1>5-----------------------------------------------------------------------------
(* A look from statement `from` on, as far as statement `to`.  The code is   *)
(* named, so that what was planned of it does not change with the state.     *)
OneIn(code, a, i) ==
  IF ~a.on THEN a
  ELSE LET p == PlanCalls(code[i], a.names, a.env)
       IN  [calls |-> a.calls \o [n \in DOMAIN p.calls |->
              [stmt |-> i, tool |-> p.calls[n].tool, arg |-> p.calls[n].arg]],
            on |-> p.on,
            names |-> StillOurs(a.names, code[i]),
            env |-> LearnAll(code[i], a.env)]
Indices(from, to) == [n \in 1 .. to + 1 - from |-> from + n - 1]
Upto(code, env, from, to) ==
  FoldLeft(LAMBDA a, i : OneIn(code, a, i), Base(env), Indices(from, to))

LEMMA OneInIs == \A a, i : OneIn(prog, a, i) = OneStmt(a, i)
BY DEF OneIn, OneStmt

LEMMA UptoIs ==
  ASSUME prog \in Programs, NEW env \in Env({}), NEW from \in 1 .. Len(prog), NEW to \in 0 .. Len(prog),
         from <= to + 1
  PROVE  /\ Upto(prog, env, from, to) \in Look({})
         /\ to < from => Upto(prog, env, from, to) = Base(env)
         /\ from <= to => Upto(prog, env, from, to) = OneStmt(Upto(prog, env, from, to - 1), to)
         /\ Upto(prog, env, from, Len(prog)).calls = PlanAhead(Indices(from, Len(prog)), env)
<1>1. /\ Base(env) \in Look({}) /\ Len(prog) \in Nat
  <2>1. prog \in Seq(Stmt)
    BY Code
  <2>2. QED
    BY <2>1, BaseIs
<1>2. \A seq : /\ FoldLeft(LAMBDA a, i : OneIn(prog, a, i), Base(env), seq) = Ahead(Base(env), seq)
              /\ PlanAhead(seq, env) = Ahead(Base(env), seq).calls
  BY DEF PlanAhead, Ahead, OneStmt, OneIn, Base, FoldLeft, MapThenFoldSet
<1>3. \A k : Upto(prog, env, from, k) = Ahead(Base(env), Indices(from, k))
  BY <1>2 DEF Upto
<1>4. ASSUME NEW k \in 0 .. Len(prog), from <= k + 1
      PROVE  Indices(from, k) \in Seq(1 .. Len(prog)) /\ Len(Indices(from, k)) = k + 1 - from
  <2>1. k + 1 - from \in Nat
    BY <1>1, <1>4
  <2>2. \A n \in 1 .. k + 1 - from : from + n - 1 \in 1 .. Len(prog)
    BY <1>1, <1>4
  <2>3. QED
    BY <2>1, <2>2 DEF Indices
<1>5. Upto(prog, env, from, to) \in Look({})
  BY <1>1, <1>3, <1>4, AheadIs
<1>6. ASSUME to < from PROVE Upto(prog, env, from, to) = Base(env)
  <2>1. Len(Indices(from, to)) = 0 /\ Indices(from, to) \in Seq(1 .. Len(prog))
    BY <1>1, <1>4, <1>6
  <2>2. Indices(from, to) = << >>
    BY <2>1, EmptySeq
  <2>3. QED
    BY <1>1, <1>3, <2>2, AheadEmpty
<1>7. ASSUME from <= to PROVE Upto(prog, env, from, to) = OneStmt(Upto(prog, env, from, to - 1), to)
  <2> DEFINE less == Indices(from, to - 1)
             all == Indices(from, to)
  <2>1. to - 1 \in 0 .. Len(prog) /\ from <= (to - 1) + 1 /\ to \in 1 .. Len(prog)
    BY <1>1, <1>7
  <2>2. less \in Seq(1 .. Len(prog)) /\ Len(less) = to - from
    <3> DEFINE k == to - 1
    <3>1. k \in 0 .. Len(prog) /\ from <= k + 1 /\ k + 1 - from = to - from
      BY <1>1, <2>1
    <3> HIDE DEF k
    <3>2. Indices(from, k) \in Seq(1 .. Len(prog)) /\ Len(Indices(from, k)) = to - from
      BY <1>4, <3>1
    <3>3. QED
      BY <3>2 DEF k
  <2>3. all \in Seq(1 .. Len(prog)) /\ Len(all) = to + 1 - from
    BY <1>4
  <2>4. all = Append(less, to)
    <3>1. \A n \in 1 .. to - from : all[n] = less[n]
      BY <1>1, <2>1 DEF Indices
    <3>2. all[to + 1 - from] = to
      BY <1>1, <1>7, <2>1 DEF Indices
    <3> HIDE DEF all, less
    <3>3. Len(all) = Len(less) + 1
      BY <1>1, <2>1, <2>2, <2>3
    <3>4. QED
      BY <1>1, <2>1, <2>2, <2>3, <3>1, <3>2, <3>3, SMTT(40)
  <2>5. Ahead(Base(env), Append(less, to)) = OneStmt(Ahead(Base(env), less), to)
    <3> HIDE DEF less
    <3>1. QED
      BY <1>1, <2>1, <2>2, AheadAppend
  <2>6. QED
    BY <1>3, <2>4, <2>5
<1>8. QED
  BY <1>2, <1>3, <1>5, <1>6, <1>7

LEMMA OnePlanned ==
  ASSUME prog \in Programs, NEW env \in Env({}), NEW i \in 1 .. Len(prog)
  PROVE  /\ PlanAhead(<<i>>, env) = OneStmt(Base(env), i).calls
         /\ OneStmt(Base(env), i) \in Look({}) /\ OneStmt(Base(env), i).calls \in Seq(At(i))
<1> DEFINE a == Base(env)
           p == PlanCalls(prog[i], a.names, a.env)
           t == Tags(p.calls, i)
           b == OneStmt(a, i)
<1>1. a \in Look({}) /\ a.on /\ a.calls = << >> /\ i \in Nat
  BY BaseIs DEF Base
<1>2. PlanAhead(<<i>>, env) = b.calls
  <2>1. PlanAhead(<<i>>, env) = Ahead(Base(env), <<i>>).calls
    BY DEF PlanAhead, Ahead, OneStmt, Base, FoldLeft, MapThenFoldSet
  <2>2. <<i>> = Append(<< >>, i) /\ << >> \in Seq(1 .. Len(prog))
    OBVIOUS
  <2> HIDE DEF a
  <2>3. Ahead(a, Append(<< >>, i)) = OneStmt(Ahead(a, << >>), i) /\ Ahead(a, << >>) = a
    <3>1. a \in Look({}) /\ {} \in SUBSET {0} /\ << >> \in Seq(1 .. Len(prog))
      BY <1>1, <2>2
    <3> DEFINE none == << >>
    <3> HIDE DEF none
    <3>2. none \in Seq(1 .. Len(prog))
      BY <3>1 DEF none
    <3>3. Ahead(a, Append(none, i)) = OneStmt(Ahead(a, none), i)
      BY <3>1, <3>2, AheadAppend
    <3>4. Ahead(a, << >>) = a
      BY <3>1, AheadEmpty
    <3>5. QED
      BY <3>3, <3>4 DEF none
  <2>4. QED
    BY <2>1, <2>2, <2>3 DEF a
<1>3. p \in Plan({})
  <2>1. prog[i] \in Stmt /\ (prog[i].kind = "simple" => prog[i].head # << >>)
    BY StmtsAre
  <2>2. a.names \in SUBSET Tools /\ a.env \in Env({})
    BY <1>1 DEF Look
  <2> HIDE DEF a
  <2>3. QED
    BY <2>1, <2>2, PlanCallsKeeps
<1>4. b \in Look({}) /\ b.calls = a.calls \o t
  <2> HIDE DEF a
  <2>1. QED
    BY <1>1, OneStmtIs
<1>5. t \in Seq(At(i))
  <2>1. p.calls \in Seq(KnownCall)
    BY <1>3 DEF Plan, KnownCall
  <2> HIDE DEF p
  <2>2. CASE p.calls = << >>
    BY <2>2 DEF Tags
  <2>3. CASE p.calls # << >>
    <3>1. PICK c \in KnownCall : TRUE
      BY <2>1, <2>3, EmptySeq
    <3>2. QED
      BY <1>1, <2>1, <3>1, TagsAre
  <2>4. QED
    BY <2>2, <2>3
<1>6. << >> \o t = t
  <2> HIDE DEF t
  <2>1. QED
    BY <1>5, ConcatEmptySeq
<1>7. QED
  BY <1>1, <1>2, <1>4, <1>5, <1>6-----------------------------------------------------------------------------
(* What the run keeps of the two plans.  Pos is the statement as far as      *)
(* which the run has come: a simple one has run when nothing is left of it,  *)
(* a branch or a loop is run, as planning sees it, from when it is taken up, *)
(* a def when it is done.                                                    *)
AllRegular == \A p \in Programs : \A i \in DOMAIN p : Regular(p[i])

Inside == /\ running
          /\ \/ prog[next].kind \in {"if", "for"}
             \/ prog[next].kind = "simple" /\ work = << >>
Pos == IF Inside THEN next ELSE next - 1

\* what the executor has planned of the statement it has set running
Due == IF running /\ prog[next].kind = "simple" /\ work # << >>
       THEN OneIn(prog, Base(ns), next).calls ELSE << >>

MadeInv ==
  /\ made \in Seq(Tagged) /\ \A n \in DOMAIN made : made[n].stmt <= Pos
  /\ running /\ prog[next].kind = "simple" => work \in {<< >>, <<DoOne(prog[next].head[1])>>}
  /\ running /\ prog[next].kind = "def" => work = << >>
  /\ Pos >= 1 => Settled(prog[Pos], ns)
OwnInv ==
  \E before \in Seq(Planned({})) : /\ own = before \o Due
                               /\ \A x : Count(before, x) <= Count(made, x)

\* the look, had it been taken in env, as far as statement pos of the code
Fits(code, env, l, pos, real, done) ==
  /\ l.calls = NotPassed(Upto(code, env, l.noted, Len(code)).calls, FirstAhead(l))
  /\ l.noted <= pos + 1
  /\ Sound(Upto(code, env, l.noted, pos), real)
  /\ Stands(Upto(code, env, l.noted, pos), done, FirstAhead(l), pos)
LookInv ==
  /\ look.noted <= next /\ (look.taken => look.noted >= 1) /\ (~look.taken => look.calls = << >>)
  /\ look.taken /\ Steady => \E env \in Env({}) : Fits(prog, env, look, Pos, ns, made)
AsPlanned == MadeInv /\ OwnInv /\ LookInv

LEMMA Where ==
  ASSUME AllRegular, Inv
  PROVE  /\ Len(prog) \in Nat /\ Pos \in 0 .. Len(prog) /\ next \in 1 .. Len(prog) + 1
         /\ \A i \in 1 .. Len(prog) :
              /\ Regular(prog[i]) /\ prog[i] \in Stmt
              /\ prog[i].kind \in {"simple", "for", "if", "def"}
         /\ look.noted \in 0 .. Len(prog) /\ FirstAhead(look) \in Nat
<1>1. prog \in Programs /\ prog \in Seq(Stmt)
  BY Code DEF Inv, RunInv
<1>2. Len(prog) \in Nat /\ DOMAIN prog = 1 .. Len(prog)
  BY <1>1
<1>3. \A i \in 1 .. Len(prog) : Regular(prog[i]) /\ prog[i] \in Stmt
  BY <1>1, <1>2, StmtsAre DEF AllRegular
<1>4. \A i \in 1 .. Len(prog) : prog[i].kind \in {"simple", "for", "if", "def"}
  BY <1>3 DEF Stmt
<1>5. next \in 1 .. Len(prog) + 1 /\ (running => next <= Len(prog))
  BY DEF Inv, RunInv
<1>6. Pos \in 0 .. Len(prog)
  BY <1>2, <1>5 DEF Pos, Inside
<1>7. look.noted \in 0 .. Len(prog) /\ FirstAhead(look) \in Nat
  BY DEF Inv, PlanInv, FirstAhead
<1>8. QED
  BY <1>2, <1>3, <1>4, <1>5, <1>6, <1>7

(* A step that the look does not see. *)
LEMMA LookGoesOn ==
  ASSUME LookInv, look' = look, prog' = prog, next \in Nat, next' \in Nat, next <= next',
         look.noted \in Nat,
         \A env \in Env({}) : look.noted >= 1 /\ Fits(prog, env, look, Pos, ns, made)
                            => Fits(prog, env, look, Pos', ns', made')
  PROVE  LookInv'
<1>1. Steady' <=> Steady
  BY DEF Steady
<1>2. /\ look.noted <= next /\ (look.taken => look.noted >= 1) /\ (~look.taken => look.calls = << >>)
      /\ look.taken /\ Steady => \E env \in Env({}) : Fits(prog, env, look, Pos, ns, made)
  BY DEF LookInv
<1>3. look'.taken /\ Steady' => \E env \in Env({}) : Fits(prog', env, look', Pos', ns', made')
  BY <1>1, <1>2
<1>4. QED
  BY <1>2, <1>3 DEF LookInv

LEMMA PlansAreTagged ==
  ASSUME NEW s \in Seq(Planned({})), NEW t \in Seq(Planned({})), NEW x
  PROVE  Count(s, x) \in Nat /\ Count(t, x) \in Nat /\ Count(s \o t, x) = Count(s, x) + Count(t, x)
BY CountConcat
LEMMA OneIsSome == \A x : <<x>> # << >>
OBVIOUS

LEMMA StmtsAreNumbers ==
  ASSUME NEW s \in Seq(Tagged), NEW n \in DOMAIN s
  PROVE  s[n] \in Tagged /\ s[n].stmt \in Nat
<1>1. s[n] \in Tagged
  OBVIOUS
<1>2. QED
  BY <1>1 DEF Tagged

LEMMA TakesAsPlanned ==
  ASSUME AllRegular, Inv, Inv', AsPlanned, Takes
  PROVE  AsPlanned'
<1> DEFINE stmt == prog[next]
           calls == OneIn(prog, Base(ns), next).calls
<1>1. /\ next \in 1 .. Len(prog) /\ prog \in Programs /\ ns \in Env({}) /\ own \in Seq(Planned({}))
      /\ running = FALSE /\ running' = TRUE
      /\ own' = own \o PlanAhead(<<next>>, ns)
      /\ prog' = prog /\ ns' = ns /\ next' = next /\ made' = made /\ look' = look
      /\ stmt.kind # "for" => work' = Begins(stmt)
  BY TakesIs
<1>2. /\ Regular(stmt) /\ stmt \in Stmt /\ stmt.kind \in {"simple", "for", "if", "def"}
      /\ look.noted \in Nat /\ FirstAhead(look) \in Nat /\ Len(prog) \in Nat
  <2>1. look.noted \in 0 .. Len(prog) /\ Len(prog) \in Nat /\ FirstAhead(look) \in Nat
    BY Where
  <2>2. QED
    BY <1>1, <2>1, Where
<1>3. Pos = next - 1 /\ Due = << >>
  BY <1>1 DEF Pos, Inside, Due
<1>4. stmt.kind = "simple" => work' = <<DoOne(stmt.head[1])>>
  <2> SUFFICES ASSUME stmt.kind = "simple" PROVE work' = <<DoOne(stmt.head[1])>>
    OBVIOUS
  <2> DEFINE s == stmt.head[1]
  <2>1. stmt.head = <<s>> /\ stmt.rest = << >>
    BY <1>2, OnePartOnly DEF Regular
  <2>2. Begins(stmt) = [n \in DOMAIN stmt.head |-> DoOne(stmt.head[n])] \o << >>
    BY <2>1 DEF Begins
  <2>3. [n \in DOMAIN stmt.head |-> DoOne(stmt.head[n])] = <<DoOne(s)>>
    <3> HIDE DEF s, stmt
    <3>1. DOMAIN stmt.head = 1 .. 1 /\ stmt.head[1] = s
      BY <2>1
    <3>2. QED
      BY <3>1
  <2>4. work' = <<DoOne(s)>> \o << >>
    BY <1>1, <2>2, <2>3
  <2>5. QED
    BY <2>4
<1>5. stmt.kind = "def" => work' = << >>
  <2> SUFFICES ASSUME stmt.kind = "def" PROVE work' = << >>
    OBVIOUS
  <2>1. stmt.head = << >> /\ stmt.rest = << >>
    BY <1>2 DEF Regular
  <2>2. Begins(stmt) = << >>
    BY <2>1 DEF Begins
  <2>3. QED
    BY <1>1, <2>2
<1>6. Pos' = IF stmt.kind \in {"if", "for"} THEN next ELSE Pos
  <2>1. stmt.kind = "simple" => work' # << >>
    BY <1>4, OneIsSome
  <2>2. QED
    BY <1>1, <1>2, <1>3, <2>1 DEF Pos, Inside
<1>7. PlanAhead(<<next>>, ns) = calls /\ OneStmt(Base(ns), next).calls = calls
  BY <1>1, OnePlanned, OneInIs
<1>8. Due' = calls
  <2>1. CASE stmt.kind = "simple"
    <3>1. work' # << >>
      BY <1>4, <2>1, OneIsSome
    <3>2. QED
      BY <1>1, <2>1, <3>1 DEF Due
  <2>2. CASE stmt.kind # "simple"
    <3>1. Due' = << >>
      BY <1>1, <2>2 DEF Due
    <3>2. Base(ns) \in Look({}) /\ Base(ns).calls = << >>
      BY <1>1, BaseIs DEF Base
    <3>3. OneStmt(Base(ns), next).calls = Base(ns).calls
      BY <1>1, <1>2, <2>2, <3>2, QuietStmt, DefStmt
    <3>4. QED
      BY <1>7, <3>1, <3>2, <3>3
  <2>3. QED
    BY <2>1, <2>2
<1> HIDE DEF calls
<1>9. OwnInv'
  <2>1. PICK before \in Seq(Planned({})) : own = before \o Due /\ \A x : Count(before, x) <= Count(made, x)
    BY DEF AsPlanned, OwnInv
  <2>2. own = before
    BY <1>3, <2>1, ConcatEmptySeq
  <2>3. own' = before \o Due'
    BY <1>1, <1>7, <1>8, <2>2
  <2>4. \A x : Count(before, x) <= Count(made', x)
    BY <1>1, <2>1
  <2>5. QED
    BY <2>3, <2>4 DEF OwnInv
<1>10. MadeInv'
  <2>1. made' \in Seq(Tagged) /\ \A n \in DOMAIN made' : made'[n].stmt <= Pos'
    <3>1. made \in Seq(Tagged) /\ \A n \in DOMAIN made : made[n].stmt <= Pos
      BY DEF AsPlanned, MadeInv
    <3>2. \A n \in DOMAIN made : made[n].stmt \in Nat
      BY <3>1, StmtsAreNumbers
    <3>3. Pos \in Int /\ Pos' \in Int /\ Pos <= Pos'
      BY <1>1, <1>3, <1>6
    <3> HIDE DEF stmt
    <3>4. QED
      BY <1>1, <3>1, <3>2, <3>3
  <2>2. Pos' >= 1 => Settled(prog'[Pos'], ns')
    <3>1. CASE stmt.kind \in {"if", "for"}
      BY <1>1, <1>2, <1>6, <3>1, OthersSettled
    <3>2. CASE stmt.kind \notin {"if", "for"}
      BY <1>1, <1>6, <3>2 DEF AsPlanned, MadeInv
    <3>3. QED
      BY <3>1, <3>2
  <2>3. QED
    BY <1>1, <1>4, <1>5, <2>1, <2>2 DEF MadeInv
<1>11. LookInv'
  <2>1. ASSUME NEW env \in Env({}), look.noted >= 1, Fits(prog, env, look, Pos, ns, made)
        PROVE  Fits(prog, env, look, Pos', ns', made')
    <3>1. CASE stmt.kind \notin {"if", "for"}
      BY <1>1, <1>6, <2>1, <3>1
    <3>2. CASE stmt.kind \in {"if", "for"}
      <4> DEFINE from == look.noted
                 a == Upto(prog, env, from, next - 1)
                 b == Upto(prog, env, from, next)
      <4>1. /\ from <= next /\ next - 1 \in 0 .. next /\ from \in 1 .. Len(prog)
            /\ Sound(a, ns) /\ Stands(a, made, FirstAhead(look), next - 1)
            /\ look.calls = NotPassed(Upto(prog, env, from, Len(prog)).calls, FirstAhead(look))
        BY <1>1, <1>2, <1>3, <2>1 DEF Fits
      <4>2. a \in Look({}) /\ b = OneStmt(a, next)
        <5>1. next \in 0 .. Len(prog) /\ next - 1 \in 0 .. Len(prog) /\ from <= (next - 1) + 1 /\ from <= next + 1
          BY <1>1, <1>2, <4>1
        <5> DEFINE k == next - 1
        <5>2. k \in 0 .. Len(prog) /\ from <= k + 1
          BY <5>1
        <5> HIDE DEF k
        <5>3. Upto(prog, env, from, k) \in Look({})
          BY <1>1, <4>1, <5>2, UptoIs
        <5>4. b = OneStmt(a, next)
          BY <1>1, <4>1, <5>1, UptoIs
        <5>5. QED
          BY <5>3, <5>4 DEF k
      <4>3. made \in Seq(Tagged)
        BY DEF AsPlanned, MadeInv
      <4> HIDE DEF a, b
      <4>4. Sound(b, ns) /\ Stands(b, made, FirstAhead(look), next)
        BY <1>1, <1>2, <3>2, <4>1, <4>2, <4>3, Enters
      <4>5. from <= next + 1
        BY <1>1, <4>1
      <4>6. QED
        BY <1>1, <1>6, <3>2, <4>1, <4>4, <4>5 DEF Fits, b
    <3>3. QED
      BY <3>1, <3>2
  <2>2. next \in Nat /\ next' \in Nat /\ next <= next'
    BY <1>1
  <2>3. QED
    BY <1>1, <1>2, <2>1, <2>2, LookGoesOn DEF AsPlanned
<1>12. QED
  BY <1>9, <1>10, <1>11 DEF AsPlanned
(* What a step of the run does. *)
LEMMA RunsIs ==
  ASSUME NEW s, NEW calls \in Seq(Call), Runs(s, calls)
  PROVE  /\ \A c \in ToSet(calls) : Bound(c.arg, ns)
         /\ s.sets # "none" => Bound(s.to, ns)
         /\ ns' = After(s, ns)
         /\ made' = made \o Done(Only(calls, Ours(ns)), next, ns)
<1> DEFINE mine == {c \in ToSet(calls) : c.tool \notin DOMAIN ns}
           ours == Only(calls, mine)
<1>1. ours = Only(calls, Ours(ns))
  <2>1. calls \in Seq(ToSet(calls)) /\ ToSet(calls) \subseteq Call
    BY InItsOwn
  <2>2. \A c \in ToSet(calls) : c \in mine <=> c \in Ours(ns)
    BY <2>1 DEF Ours
  <2> HIDE DEF mine
  <2>3. QED
    BY <2>1, <2>2, OnlySame
<1>2. made' = made \o [n \in DOMAIN ours |->
                         [stmt |-> next, tool |-> ours[n].tool, arg |-> Real(ours[n].arg, ns)]]
  BY DEF Runs
<1>3. made' = made \o Done(ours, next, ns)
  BY <1>2 DEF Done
<1>4. ns' = After(s, ns)
  BY DEF Runs, After
<1>5. (\A c \in ToSet(calls) : Bound(c.arg, ns)) /\ (s.sets # "none" => Bound(s.to, ns))
  BY DEF Runs
<1>6. QED
  BY <1>1, <1>3, <1>4, <1>5

LEMMA GoesIs ==
  ASSUME Inv, Goes
  PROVE  /\ running /\ work # << >> /\ next \in 1 .. Len(prog) /\ prog \in Programs /\ ns \in Env({})
         /\ Head(work) \in WorkOf(prog[next]) /\ Tail(work) \in Seq(WorkOf(prog[next]))
         /\ prog' = prog /\ next' = next /\ running' = running /\ own' = own /\ look' = look
         /\ \/ /\ Head(work).op = "bind" /\ work' = Tail(work) /\ made' = made
               /\ ns' = IF prog[next].slot THEN Altered(ns, {prog[next].var})
                        ELSE With(ns, prog[next].var, Head(work).item)
            \/ /\ Head(work).op = "do" /\ work' = Tail(work)
               /\ \E calls \in {Head(work).stmts[1].sure,
                                Head(work).stmts[1].sure \o Head(work).stmts[1].maybe} :
                    Runs(Head(work).stmts[1], calls)
            \/ /\ Head(work).op = "branch" /\ ns' = ns /\ made' = made
<1>1. /\ work \in Seq(WorkOf(prog[next])) /\ running /\ work # << >> /\ ns \in Env({})
      /\ next \in 1 .. Len(prog) /\ prog \in Programs
      /\ UNCHANGED <<prog, next, running, own, look>>
  <2>1. prog \in Seq(Stmt)
    BY Code DEF Inv, RunInv
  <2>2. QED
    BY <2>1 DEF Inv, RunInv, Goes
<1>2. Head(work) \in WorkOf(prog[next]) /\ Tail(work) \in Seq(WorkOf(prog[next]))
  BY <1>1, HeadTailProperties
<1>3. \/ /\ Head(work).op = "bind" /\ work' = Tail(work) /\ made' = made
         /\ ns' = IF prog[next].slot THEN Altered(ns, {prog[next].var})
                  ELSE With(ns, prog[next].var, Head(work).item)
      \/ /\ Head(work).op = "do" /\ work' = Tail(work)
         /\ \E calls \in {Head(work).stmts[1].sure,
                          Head(work).stmts[1].sure \o Head(work).stmts[1].maybe} :
              Runs(Head(work).stmts[1], calls)
      \/ /\ Head(work).op = "branch" /\ ns' = ns /\ made' = made
  BY DEF Goes
<1>4. QED
  BY <1>1, <1>2, <1>3

LEMMA PartCalls ==
  ASSUME NEW s \in Part, NEW calls \in {s.sure, s.sure \o s.maybe}
  PROVE  calls \in Seq(Call)
<1>1. s.sure \in Seq(Call) /\ s.maybe \in Seq(Call)
  BY DEF Part
<1>2. s.sure \o s.maybe \in Seq(Call)
  BY <1>1, ConcatProperties
<1>3. QED
  BY <1>1, <1>2

(* The calls made are of the statement the run has come to. *)
LEMMA MadeMore ==
  ASSUME NEW i \in Nat, NEW d \in Seq(Tagged), NEW e \in Seq(At(i)), NEW pos \in Nat, pos <= i,
         \A n \in DOMAIN d : d[n].stmt <= pos
  PROVE  d \o e \in Seq(Tagged) /\ \A n \in DOMAIN (d \o e) : (d \o e)[n].stmt <= i
<1>1. At(i) \subseteq Tagged
  BY DEF At
<1>2. e \in Seq(Tagged)
  BY <1>1
<1>3. d \o e \in Seq(Tagged) /\ ToSet(d \o e) = ToSet(d) \cup ToSet(e)
  <2>1. d \o e \in Seq(Tagged)
    BY <1>2
  <2>2. QED
    BY <1>2, <2>1, ConcatElements
<1>4. \A c \in ToSet(d) : c.stmt <= i
  <2>1. \A n \in DOMAIN d : d[n].stmt \in Nat
    BY StmtsAreNumbers
  <2>2. \A n \in DOMAIN d : d[n].stmt <= i
    BY <2>1
  <2>3. QED
    BY <2>2 DEF ToSet
<1>5. \A c \in ToSet(e) : c.stmt <= i
  <2>1. \A c \in ToSet(e) : c \in At(i)
    BY InItsOwn
  <2>2. QED
    BY <2>1 DEF At
<1> DEFINE both == d \o e
<1>6. \A n \in DOMAIN both : both[n] \in ToSet(both)
  BY DEF ToSet
<1> HIDE DEF both
<1>7. QED
  BY <1>3, <1>4, <1>5, <1>6 DEF both

LEMMA GoesSimple ==
  ASSUME AllRegular, Inv, Inv', AsPlanned, Goes, prog[next].kind = "simple"
  PROVE  AsPlanned'
<1> DEFINE stmt == prog[next]
           s == stmt.head[1]
<1>1. /\ running /\ work # << >> /\ next \in 1 .. Len(prog) /\ prog \in Programs /\ ns \in Env({})
      /\ prog' = prog /\ next' = next /\ running' = running /\ own' = own /\ look' = look
  BY GoesIs
<1>2. /\ Regular(stmt) /\ stmt \in Stmt /\ look.noted \in Nat /\ FirstAhead(look) \in Nat
      /\ Len(prog) \in Nat /\ s \in Part
  <2>1. look.noted \in 0 .. Len(prog) /\ Len(prog) \in Nat /\ FirstAhead(look) \in Nat
    BY Where
  <2>2. Regular(stmt) /\ stmt \in Stmt
    BY <1>1, Where
  <2>3. QED
    BY <2>1, <2>2, OnePartOnly
<1>3. work = <<DoOne(s)>>
  BY <1>1 DEF AsPlanned, MadeInv
<1>4. Head(work).op = "do" /\ Head(work).stmts[1] = s /\ Tail(work) = << >>
  <2> DEFINE w == DoOne(s)
  <2>1. w.op = "do" /\ w.stmts[1] = s
    BY DEF DoOne
  <2> HIDE DEF w, s
  <2>2. Head(<<w>>) = w /\ Tail(<<w>>) = << >>
    OBVIOUS
  <2>3. QED
    BY <1>3, <2>1, <2>2 DEF w
<1>5. PICK calls \in {s.sure, s.sure \o s.maybe} : Runs(s, calls) /\ work' = << >>
  <2> HIDE DEF s
  <2>1. QED
    BY <1>4, GoesIs
<1> DEFINE done == Done(Only(calls, Ours(ns)), next, ns)
<1>6. /\ \A c \in ToSet(calls) : Bound(c.arg, ns)
      /\ s.sets # "none" => Bound(s.to, ns)
      /\ ns' = After(s, ns) /\ made' = made \o done
  <2>1. calls \in Seq(Call)
    BY <1>2, PartCalls
  <2> HIDE DEF s
  <2>2. QED
    BY <1>5, <2>1, RunsIs
<1>7. Pos = next - 1 /\ Pos' = next
  BY <1>1, <1>5 DEF Pos, Inside
<1>8. Due = OneIn(prog, Base(ns), next).calls /\ Due' = << >>
  BY <1>1, <1>5 DEF Due
<1>9. /\ done \in Seq(At(next))
      /\ \A x : Count(Due, x) <= Count(done, x)
  <2> DEFINE plan == Simple(Nil, s, Tools \ DOMAIN ns, ns)
  <2>1. Agrees(ns, ns)
    BY DEF Agrees
  <2>2. \A c \in CallsOf(s) : c.tool \in Tools
    BY <1>2, OnePartOnly DEF Regular, AllCalls
  <2>3. done \in Seq(At(next)) /\ plan \in Plan({}) /\ Matches(Tags(plan.calls, next), done, plan.on)
    <3>1. next \in Nat
      BY <1>1, SMTT(40)
    <3> HIDE DEF s
    <3>2. QED
      BY <1>1, <1>2, <1>5, <1>6, <2>1, <2>2, <3>1, SimpleMatches
  <2>4. Due = Tags(plan.calls, next)
    <3>1. PlanCalls(stmt, Tools \ DOMAIN ns, ns) = plan
      BY DEF PlanCalls, Nil
    <3>2. Due = OneStmt(Base(ns), next).calls
      BY <1>8, OneInIs
    <3>3. OneStmt(Base(ns), next).calls = << >> \o Tags(plan.calls, next)
      <4> DEFINE a == Base(ns)
      <4>1. a \in Look({}) /\ a.on /\ a.calls = << >> /\ a.names = Tools \ DOMAIN ns /\ a.env = ns
        BY <1>1, BaseIs DEF Base
      <4> HIDE DEF a, plan
      <4>2. OneStmt(a, next).calls = a.calls \o Tags(PlanCalls(stmt, a.names, a.env).calls, next)
        BY <1>1, <4>1, OneStmtIs
      <4>3. QED
        BY <3>1, <4>1, <4>2 DEF a
    <3>4. OneStmt(Base(ns), next).calls \in Seq(At(next))
      BY <1>1, OnePlanned
    <3> DEFINE t == Tags(plan.calls, next)
    <3>5. Tags(<< >>, next) = << >>
      BY SMTT(40) DEF Tags
    <3>6. t \in Seq(At(next))
      <4> HIDE DEF plan
      <4>1. plan.calls \in Seq(KnownCall) /\ next \in Nat
        <5>1. \A p \in Plan({}) : p.calls \in Seq(KnownCall)
          BY DEF Plan, KnownCall
        <5>2. plan.calls \in Seq(KnownCall)
          BY <2>3, <5>1
        <5>3. next \in Nat
          BY <1>1, SMTT(40)
        <5>4. QED
          BY <5>2, <5>3
      <4>2. CASE plan.calls = << >>
        <5>1. << >> \in Seq(At(next)) /\ t = << >>
          BY <3>5, <4>2, SMTT(40)
        <5>2. QED
          BY <5>1
      <4>3. CASE plan.calls # << >>
        <5>1. PICK c \in KnownCall : TRUE
          BY <4>1, <4>3, EmptySeq, SMTT(40)
        <5>2. QED
          BY <4>1, <5>1, TagsAre
      <4>4. QED
        BY <4>2, <4>3
    <3> HIDE DEF t
    <3>7. << >> \o t = t
      BY <3>6, ConcatEmptySeq
    <3>8. QED
      BY <3>2, <3>3, <3>7 DEF t
  <2>5. QED
    BY <2>3, <2>4 DEF Matches
<1> HIDE DEF done
<1>10. /\ made \in Seq(Tagged) /\ \A n \in DOMAIN made : made[n].stmt <= Pos
       /\ next \in Nat /\ Pos \in Nat /\ Pos <= next
  BY <1>1, <1>7, SMTT(40) DEF AsPlanned, MadeInv
<1>11. OwnInv'
  <2>1. PICK before \in Seq(Planned({})) : own = before \o Due /\ \A x : Count(before, x) <= Count(made, x)
    BY DEF AsPlanned, OwnInv
  <2>2. own \in Seq(Planned({})) /\ own' = own \o Due'
    <3>1. own \in Seq(Planned({}))
      BY PlansAre
    <3>2. QED
      BY <1>1, <1>8, <3>1, ConcatEmptySeq
  <2>3. done \in Seq(Tagged) /\ Due \in Seq(Tagged) /\ before \in Seq(Tagged)
    <3>1. At(next) \subseteq Tagged
      BY DEF At
    <3>2. Due \in Seq(At(next))
      BY <1>1, <1>8, OnePlanned, OneInIs
    <3>3. QED
      BY <1>9, <3>1, <3>2, PlannedIsTagged, SMTT(40)
  <2>4. \A x : Count(own, x) <= Count(made', x)
    <3> SUFFICES ASSUME NEW x PROVE Count(own, x) <= Count(made', x)
      OBVIOUS
    <3>1. /\ Count(before \o Due, x) = Count(before, x) + Count(Due, x)
          /\ Count(made \o done, x) = Count(made, x) + Count(done, x)
          /\ Count(before, x) \in Nat /\ Count(Due, x) \in Nat
          /\ Count(made, x) \in Nat /\ Count(done, x) \in Nat
      BY <1>10, <2>3, CountConcat, SMTT(40)
    <3>2. Count(before, x) <= Count(made, x) /\ Count(Due, x) <= Count(done, x)
      BY <1>9, <2>1
    <3>3. Count(own, x) = Count(before \o Due, x) /\ Count(made', x) = Count(made \o done, x)
      BY Zenon, <1>6, <2>1
    <3>4. QED
      BY <3>1, <3>2, <3>3, SMTT(40)
  <2>5. QED
    BY <2>2, <2>4 DEF OwnInv
<1>12. MadeInv'
  <2>1. made' \in Seq(Tagged) /\ \A n \in DOMAIN made' : made'[n].stmt <= Pos'
    BY <1>6, <1>7, <1>9, <1>10, MadeMore
  <2>2. Settled(prog'[Pos'], ns')
    BY <1>1, <1>2, <1>6, <1>7, AfterSettled
  <2>3. QED
    BY <1>1, <1>5, <2>1, <2>2 DEF MadeInv
<1>13. LookInv'
  <2>1. ASSUME NEW env \in Env({}), look.noted >= 1, Fits(prog, env, look, Pos, ns, made)
        PROVE  Fits(prog, env, look, Pos', ns', made')
    <3> DEFINE from == look.noted
               a == Upto(prog, env, from, Pos)
               b == Upto(prog, env, from, next)
    <3>1. /\ from <= next /\ from \in 1 .. Len(prog) /\ Pos \in 0 .. next
          /\ Sound(a, ns) /\ Stands(a, made, FirstAhead(look), Pos)
          /\ look.calls = NotPassed(Upto(prog, env, from, Len(prog)).calls, FirstAhead(look))
      BY <1>1, <1>2, <1>7, <2>1, SMTT(40) DEF Fits
    <3>2. a \in Look({}) /\ b = OneStmt(a, next)
      <4>1. next \in 0 .. Len(prog) /\ Pos \in 0 .. Len(prog) /\ from <= Pos + 1 /\ from <= next + 1
        BY <1>1, <1>2, <1>7, <3>1, SMTT(40)
      <4>2. Upto(prog, env, from, Pos) \in Look({})
        BY <1>1, <3>1, <4>1, UptoIs
      <4>3. b = OneStmt(Upto(prog, env, from, next - 1), next)
        BY <1>1, <3>1, <4>1, UptoIs
      <4>4. QED
        BY <1>7, <4>2, <4>3
    <3> HIDE DEF a, b, s
    <3>3. Sound(b, ns') /\ Stands(b, made', FirstAhead(look), next)
      BY <1>1, <1>2, <1>5, <1>6, <1>10, <3>1, <3>2, SimpleStep DEF s, done
    <3>4. from <= next + 1
      BY <1>1, <3>1
    <3>5. QED
      BY <1>1, <1>7, <3>1, <3>3, <3>4 DEF Fits, b
  <2>2. next \in Nat /\ next' \in Nat /\ next <= next'
    BY <1>1, SMTT(40)
  <2>3. QED
    BY <1>1, <1>2, <2>1, <2>2, LookGoesOn DEF AsPlanned
<1>14. QED
  BY <1>11, <1>12, <1>13 DEF AsPlanned
(* A step in a branch or a loop changes what it may change, and makes calls  *)
(* that planning has stopped at, or need not stop at.                        *)
LEMMA InsideIs ==
  ASSUME AllRegular, Inv, Goes, prog[next].kind \in {"if", "for"}
  PROVE  /\ Differs(ns, ns', Changed(prog[next])) /\ \A n \in Tools : n \in DOMAIN ns' => n \in DOMAIN ns
         /\ \/ made' = made
            \/ \E s \in Part, calls \in Seq(Call) :
                 /\ s \in Parts(prog[next]) /\ calls \in {s.sure, s.sure \o s.maybe}
                 /\ \A c \in ToSet(calls) : Bound(c.arg, ns)
                 /\ made' = made \o Done(Only(calls, Ours(ns)), next, ns)
<1> DEFINE stmt == prog[next]
           w == Head(work)
           s == w.stmts[1]
<1>1. /\ next \in 1 .. Len(prog) /\ ns \in Env({}) /\ w \in WorkOf(stmt)
      /\ \/ /\ w.op = "bind" /\ made' = made
            /\ ns' = IF stmt.slot THEN Altered(ns, {stmt.var}) ELSE With(ns, stmt.var, w.item)
         \/ w.op = "do" /\ \E calls \in {s.sure, s.sure \o s.maybe} : Runs(s, calls)
         \/ w.op = "branch" /\ ns' = ns /\ made' = made
  BY GoesIs
<1>2. Regular(stmt) /\ Differs(ns, ns, Changed(stmt)) /\ Binds(stmt) \cap Tools = {}
      /\ stmt.var \in Changed(stmt) /\ Binds(stmt) \subseteq Changed(stmt)
  <2>1. Regular(stmt)
    BY <1>1, Where
  <2>2. QED
    BY <2>1 DEF Regular, Differs, Changed
<1>3. CASE w.op = "bind"
  <2>1. made' = made /\ ns' = IF stmt.slot THEN Altered(ns, {stmt.var}) ELSE With(ns, stmt.var, w.item)
    BY <1>1, <1>3
  <2>2. CASE stmt.slot
    <3>1. ns' = Altered(ns, {stmt.var})
      BY <2>1, <2>2
    <3>2. Differs(ns, ns', Changed(stmt))
      BY <1>1, <1>2, <3>1, AlteredDiffers
    <3>3. DOMAIN ns' = DOMAIN ns
      BY <3>1 DEF Altered
    <3>4. QED
      BY <2>1, <3>2, <3>3
  <2>3. CASE ~stmt.slot
    <3>1. ns' = With(ns, stmt.var, w.item)
      BY <2>1, <2>3
    <3>2. Differs(ns, ns', Changed(stmt))
      BY <1>1, <1>2, <3>1, WithDiffers
    <3>3. DOMAIN ns' = DOMAIN ns \cup {stmt.var}
      BY <3>1 DEF With
    <3>4. stmt.var \notin Tools
      BY <1>2, <2>3 DEF Binds
    <3>5. QED
      BY <2>1, <3>2, <3>3, <3>4
  <2>4. QED
    BY <2>2, <2>3
<1>4. CASE w.op = "do"
  <2>1. s \in Part /\ s \in Parts(stmt)
    <3>1. w.stmts \in Seq(Part) /\ w.stmts # << >> /\ ToSet(w.stmts) \subseteq Parts(stmt)
      BY <1>1, <1>4 DEF WorkOf, Work
    <3>2. 1 \in DOMAIN w.stmts /\ w.stmts[1] \in Part
      BY <3>1, EmptySeq
    <3>3. QED
      BY <3>1, <3>2 DEF ToSet
  <2>2. PICK calls \in {s.sure, s.sure \o s.maybe} : Runs(s, calls)
    BY <1>1, <1>4
  <2> HIDE DEF s, w
  <2>3. calls \in Seq(Call)
    BY <2>1, PartCalls
  <2>4. /\ \A c \in ToSet(calls) : Bound(c.arg, ns)
        /\ ns' = After(s, ns) /\ made' = made \o Done(Only(calls, Ours(ns)), next, ns)
    BY <2>2, <2>3, RunsIs
  <2>5. /\ Differs(ns, After(s, ns), s.alters \cup {s.sets})
        /\ DOMAIN After(s, ns) = DOMAIN ns \cup ({s.sets} \ {"none"})
    BY <1>1, <2>1, AfterIs
  <2>6. s.sets \in Binds(stmt) /\ s.alters \subseteq Touched(s)
    <3> HIDE DEF stmt
    <3>1. QED
      BY <2>1 DEF Binds, Touched
  <2>7. s.alters \cup {s.sets} \subseteq Changed(stmt)
    <3> HIDE DEF stmt
    <3>1. QED
      BY <1>2, <2>1, <2>6 DEF Changed
  <2>8. Differs(ns, ns', Changed(stmt))
    BY <2>4, <2>5, <2>7 DEF Differs
  <2>9. \A n \in Tools : n \in DOMAIN ns' => n \in DOMAIN ns
    BY <1>2, <2>4, <2>5, <2>6
  <2>10. QED
    BY <2>1, <2>2, <2>3, <2>4, <2>8, <2>9
<1>5. CASE w.op = "branch"
  BY <1>1, <1>2, <1>5
<1>6. QED
  BY <1>1, <1>3, <1>4, <1>5

LEMMA GoesInside ==
  ASSUME AllRegular, Inv, Inv', AsPlanned, Goes, prog[next].kind \in {"if", "for"}
  PROVE  AsPlanned'
<1> DEFINE stmt == prog[next]
<1>1. /\ running /\ next \in 1 .. Len(prog) /\ prog \in Programs /\ ns \in Env({}) /\ next \in Nat
      /\ prog' = prog /\ next' = next /\ running' = running /\ own' = own /\ look' = look
  BY GoesIs
<1>2. /\ Regular(stmt) /\ stmt \in Stmt /\ look.noted \in Nat /\ FirstAhead(look) \in Nat
      /\ Len(prog) \in Nat
  <2>1. look.noted \in 0 .. Len(prog) /\ Len(prog) \in Nat /\ FirstAhead(look) \in Nat
    BY Where
  <2>2. QED
    BY <1>1, <2>1, Where
<1>3. Pos = next /\ Pos' = next /\ Due = << >> /\ Due' = << >>
  BY <1>1 DEF Pos, Inside, Due
<1>4. /\ Differs(ns, ns', Changed(stmt)) /\ \A n \in Tools : n \in DOMAIN ns' => n \in DOMAIN ns
      /\ \/ made' = made
         \/ \E s \in Part, calls \in Seq(Call) :
              /\ s \in Parts(stmt) /\ calls \in {s.sure, s.sure \o s.maybe}
              /\ \A c \in ToSet(calls) : Bound(c.arg, ns)
              /\ made' = made \o Done(Only(calls, Ours(ns)), next, ns)
  BY InsideIs
<1>5. made \in Seq(Tagged) /\ \A n \in DOMAIN made : made[n].stmt <= next
  BY <1>3 DEF AsPlanned, MadeInv
<1>6. \E e \in Seq(At(next)) :
        /\ made' = made \o e
        /\ \A a \in Look({}), first \in Nat :
             Sound(OneStmt(a, next), ns) /\ Stands(OneStmt(a, next), made, first, next) =>
               Stands(OneStmt(a, next), made', first, next)
  <2>1. CASE made' = made
    <3>1. << >> \in Seq(At(next)) /\ made \o << >> = made
      BY <1>5, ConcatEmptySeq
    <3>2. QED
      BY <2>1, <3>1
  <2>2. CASE made' # made
    <3>1. PICK s \in Part, calls \in Seq(Call) :
              /\ s \in Parts(stmt) /\ calls \in {s.sure, s.sure \o s.maybe}
              /\ \A c \in ToSet(calls) : Bound(c.arg, ns)
              /\ made' = made \o Done(Only(calls, Ours(ns)), next, ns)
      BY <1>4, <2>2
    <3> DEFINE e == Done(Only(calls, Ours(ns)), next, ns)
    <3>2. e \in Seq(At(next))
      <4>1. \A c \in CallsOf(s) : c.tool \in Tools
        BY <1>2, <3>1 DEF Regular, AllCalls
      <4>2. calls \in Seq(Fine(ns))
        BY <3>1, <4>1, CallsAreFine
      <4>3. FALSE => \A c \in ToSet(calls) : c.tool \notin DOMAIN ns => c.tool \in Always
        OBVIOUS
      <4>4. QED
        BY <1>1, <4>2, <4>3, SoftCalls
    <3>3. ASSUME NEW a \in Look({}), NEW first \in Nat,
                 Sound(OneStmt(a, next), ns), Stands(OneStmt(a, next), made, first, next)
          PROVE  Stands(OneStmt(a, next), made \o e, first, next)
      BY <1>1, <1>2, <1>5, <3>1, <3>3, StaysBehind
    <3> HIDE DEF e
    <3>4. made' = made \o e
      BY <3>1 DEF e
    <3>5. QED
      BY <3>2, <3>3, <3>4
  <2>3. QED
    BY <2>1, <2>2
<1>7. PICK e \in Seq(At(next)) :
        /\ made' = made \o e
        /\ \A a \in Look({}), first \in Nat :
             Sound(OneStmt(a, next), ns) /\ Stands(OneStmt(a, next), made, first, next) =>
               Stands(OneStmt(a, next), made', first, next)
  BY <1>6
<1>8. OwnInv'
  <2>1. PICK before \in Seq(Planned({})) : own = before \o Due /\ \A x : Count(before, x) <= Count(made, x)
    BY DEF AsPlanned, OwnInv
  <2>2. e \in Seq(Tagged)
    BY DEF At
  <2>3. \A x : Count(before, x) <= Count(made', x)
    <3> SUFFICES ASSUME NEW x PROVE Count(before, x) <= Count(made', x)
      OBVIOUS
    <3>1. /\ Count(made \o e, x) = Count(made, x) + Count(e, x)
          /\ Count(made, x) \in Nat /\ Count(e, x) \in Nat
      BY <1>5, <2>2, CountConcat
    <3>2. Count(before, x) \in Nat /\ Count(before, x) <= Count(made, x)
      BY <2>1, PlansAreTagged
    <3>3. Count(made', x) = Count(made \o e, x)
      BY Zenon, <1>7
    <3>4. QED
      BY <3>1, <3>2, <3>3
  <2>4. own' = before \o Due'
    BY <1>1, <1>3, <2>1
  <2>5. QED
    BY <2>3, <2>4 DEF OwnInv
<1>9. MadeInv'
  <2>1. made' \in Seq(Tagged) /\ \A n \in DOMAIN made' : made'[n].stmt <= Pos'
    <3>1. next <= next
      BY <1>1
    <3>2. QED
      BY <1>1, <1>3, <1>5, <1>7, <3>1, MadeMore
  <2>2. Settled(prog'[Pos'], ns')
    BY <1>1, <1>2, <1>3, OthersSettled
  <2>3. QED
    BY <1>1, <2>1, <2>2 DEF MadeInv
<1>10. LookInv'
  <2>1. ASSUME NEW env \in Env({}), look.noted >= 1, Fits(prog, env, look, Pos, ns, made)
        PROVE  Fits(prog, env, look, Pos', ns', made')
    <3> DEFINE from == look.noted
               a == Upto(prog, env, from, next - 1)
               b == Upto(prog, env, from, next)
    <3>1. /\ from <= next + 1 /\ from \in 1 .. Len(prog)
          /\ Sound(b, ns) /\ Stands(b, made, FirstAhead(look), next)
          /\ look.calls = NotPassed(Upto(prog, env, from, Len(prog)).calls, FirstAhead(look))
      <4>1. look.noted \in 0 .. Len(prog)
        BY Where
      <4>2. QED
        BY <1>1, <1>2, <1>3, <2>1, <4>1 DEF Fits
    <3>2. from <= next
      BY DEF AsPlanned, LookInv
    <3>3. a \in Look({}) /\ b = OneStmt(a, next)
      <4>1. next \in 0 .. Len(prog) /\ next - 1 \in 0 .. Len(prog) /\ from <= (next - 1) + 1
        BY <1>1, <1>2, <3>1, <3>2
      <4> DEFINE k == next - 1
      <4>2. k \in 0 .. Len(prog) /\ from <= k + 1
        BY <4>1
      <4> HIDE DEF k
      <4>3. Upto(prog, env, from, k) \in Look({})
        BY <1>1, <3>1, <4>2, UptoIs
      <4>4. b = OneStmt(a, next)
        BY <1>1, <3>1, <3>2, <4>1, UptoIs
      <4>5. QED
        BY <4>3, <4>4 DEF k
    <3> HIDE DEF a, b
    <3>4. Stands(b, made', FirstAhead(look), next)
      BY <1>2, <1>7, <3>1, <3>3
    <3>5. Sound(b, ns')
      BY <1>1, <1>2, <1>4, <3>1, <3>3, StaysSound
    <3>6. QED
      BY <1>1, <1>3, <3>1, <3>4, <3>5 DEF Fits, b
  <2>2. next \in Nat /\ next' \in Nat /\ next <= next'
    BY <1>1
  <2>3. QED
    BY <1>1, <1>2, <2>1, <2>2, LookGoesOn DEF AsPlanned
<1>11. QED
  BY <1>8, <1>9, <1>10 DEF AsPlanned

LEMMA GoesAsPlanned ==
  ASSUME AllRegular, Inv, Inv', AsPlanned, Goes
  PROVE  AsPlanned'
<1>1. running /\ work # << >> /\ next \in 1 .. Len(prog)
  BY GoesIs
<1>2. prog[next].kind \in {"simple", "if", "for"}
  <2>1. prog[next].kind \in {"simple", "for", "if", "def"}
    BY <1>1, Where
  <2>2. prog[next].kind # "def"
    BY <1>1 DEF AsPlanned, MadeInv
  <2>3. QED
    BY <2>1, <2>2
<1>3. QED
  BY <1>2, GoesSimple, GoesInside
LEMMA FinishesAsPlanned ==
  ASSUME AllRegular, Inv, Inv', AsPlanned, Finishes
  PROVE  AsPlanned'
<1> DEFINE stmt == prog[next]
<1>1. /\ next \in 1 .. Len(prog) /\ Len(prog) \in Nat /\ ns \in Env({}) /\ work = << >> /\ prog \in Programs
      /\ running = TRUE /\ running' = FALSE /\ next' = next + 1
      /\ prog' = prog /\ work' = work /\ made' = made /\ own' = own /\ look' = look
      /\ ns' = IF stmt.kind = "def" THEN With(ns, stmt.binds, Object) ELSE ns
  <2>1. prog \in Seq(Stmt)
    BY Code DEF Inv, RunInv
  <2>2. QED
    BY <2>1 DEF Inv, RunInv, Finishes
<1>2. /\ Regular(stmt) /\ stmt \in Stmt /\ stmt.kind \in {"simple", "for", "if", "def"}
      /\ look.noted \in Nat /\ FirstAhead(look) \in Nat
  <2>1. look.noted \in 0 .. Len(prog) /\ FirstAhead(look) \in Nat
    BY Where
  <2>2. QED
    BY <1>1, <2>1, Where
<1>3. /\ Pos' = next /\ Pos = IF stmt.kind = "def" THEN next - 1 ELSE next
      /\ Due = << >> /\ Due' = << >>
  <2>1. (next + 1) - 1 = next
    BY <1>1
  <2>2. Pos' = next
    BY <1>1, <2>1 DEF Pos, Inside
  <2>3. Pos = IF stmt.kind = "def" THEN next - 1 ELSE next
    BY <1>1, <1>2 DEF Pos, Inside
  <2>4. QED
    BY <1>1, <2>2, <2>3 DEF Due
<1>4. made \in Seq(Tagged) /\ \A n \in DOMAIN made : made[n].stmt <= Pos
  BY DEF AsPlanned, MadeInv
<1>5. OwnInv'
  <2>1. PICK before \in Seq(Planned({})) : own = before \o Due /\ \A x : Count(before, x) <= Count(made, x)
    BY DEF AsPlanned, OwnInv
  <2>2. own' = before \o Due' /\ \A x : Count(before, x) <= Count(made', x)
    BY <1>1, <1>3, <2>1
  <2>3. QED
    BY <2>2 DEF OwnInv
<1>6. MadeInv'
  <2>1. \A n \in DOMAIN made' : made'[n].stmt <= Pos'
    <3>1. \A n \in DOMAIN made : made[n].stmt \in Nat
      BY <1>4, StmtsAreNumbers
    <3>2. Pos \in Int /\ Pos' \in Int /\ Pos <= Pos'
      BY <1>1, <1>3
    <3> HIDE DEF stmt
    <3>3. QED
      BY <1>1, <1>4, <3>1, <3>2
  <2>2. Settled(prog'[Pos'], ns')
    <3>1. CASE stmt.kind = "def"
      <4>1. Settled(stmt, With(ns, stmt.binds, Object))
        BY <1>2, <3>1, DefSettled
      <4>2. QED
        BY <1>1, <1>3, <3>1, <4>1
    <3>2. CASE stmt.kind # "def"
      <4>1. Pos = next /\ Pos >= 1 /\ ns' = ns
        BY <1>1, <1>3, <3>2
      <4>2. QED
        BY <1>1, <1>3, <4>1 DEF AsPlanned, MadeInv
    <3>3. QED
      BY <3>1, <3>2
  <2>3. QED
    BY <1>1, <1>4, <2>1, <2>2 DEF MadeInv
<1>7. LookInv'
  <2>1. ASSUME NEW env \in Env({}), look.noted >= 1, Fits(prog, env, look, Pos, ns, made)
        PROVE  Fits(prog, env, look, Pos', ns', made')
    <3>1. CASE stmt.kind # "def"
      BY <1>1, <1>3, <2>1, <3>1
    <3>2. CASE stmt.kind = "def"
      <4> DEFINE from == look.noted
                 a == Upto(prog, env, from, next - 1)
                 b == Upto(prog, env, from, next)
      <4>1. /\ from <= next /\ next - 1 \in 0 .. next /\ from \in 1 .. Len(prog)
            /\ Sound(a, ns) /\ Stands(a, made, FirstAhead(look), next - 1)
            /\ look.calls = NotPassed(Upto(prog, env, from, Len(prog)).calls, FirstAhead(look))
        BY <1>1, <1>2, <1>3, <2>1, <3>2 DEF Fits
      <4>2. a \in Look({}) /\ b = OneStmt(a, next)
        <5>1. next \in 0 .. Len(prog) /\ next - 1 \in 0 .. Len(prog) /\ from <= (next - 1) + 1 /\ from <= next + 1
          BY <1>1, <1>2, <4>1
        <5> DEFINE k == next - 1
        <5>2. k \in 0 .. Len(prog) /\ from <= k + 1
          BY <5>1
        <5> HIDE DEF k
        <5>3. Upto(prog, env, from, k) \in Look({})
          BY <1>1, <4>1, <5>2, UptoIs
        <5>4. b = OneStmt(a, next)
          BY <1>1, <4>1, <5>1, UptoIs
        <5>5. QED
          BY <5>3, <5>4 DEF k
      <4>3. from <= next + 1
        BY <1>1, <4>1
      <4> HIDE DEF a, b
      <4>4. Sound(b, ns') /\ Stands(b, made, FirstAhead(look), next)
        BY <1>1, <1>2, <1>4, <3>2, <4>1, <4>2, DefStep
      <4>5. QED
        BY <1>1, <1>3, <4>1, <4>3, <4>4 DEF Fits, b
    <3>3. QED
      BY <3>1, <3>2
  <2>2. next \in Nat /\ next' \in Nat /\ next <= next'
    BY <1>1
  <2>3. QED
    BY <1>1, <1>2, <2>1, <2>2, LookGoesOn DEF AsPlanned
<1>8. QED
  BY <1>5, <1>6, <1>7 DEF AsPlanned

(* The planner's own steps change nothing of the run. *)
LEMMA RunStays ==
  ASSUME AsPlanned, UNCHANGED <<prog, ns, next, running, work, made, own>>
  PROVE  Pos' = Pos /\ MadeInv' /\ OwnInv'
<1>1. Pos' = Pos /\ Due' = Due
  BY DEF Pos, Inside, Due
<1>2. MadeInv'
  BY <1>1 DEF AsPlanned, MadeInv
<1>3. OwnInv'
  BY <1>1 DEF AsPlanned, OwnInv
<1>4. QED
  BY <1>1, <1>2, <1>3

LEMMA NotesAsPlanned ==
  ASSUME AllRegular, Inv, AsPlanned, Notes
  PROVE  AsPlanned'
<1>1. /\ look.noted = 0 /\ look' = [look EXCEPT !.noted = next] /\ next \in Nat
      /\ UNCHANGED <<prog, ns, next, running, work, made, own>>
  <2>1. next \in 1 .. Len(prog) + 1
    BY Where
  <2>2. QED
    BY <2>1 DEF Notes
<1>2. look'.noted = next /\ look'.taken = look.taken /\ look'.calls = look.calls
  BY <1>1 DEF Inv, PlanInv
<1>3. ~look.taken /\ look.calls = << >>
  BY <1>1 DEF AsPlanned, LookInv
<1>4. LookInv'
  BY <1>1, <1>2, <1>3 DEF LookInv
<1>5. QED
  BY <1>1, <1>4, RunStays DEF AsPlanned
LEMMA AllPassed ==
  ASSUME NEW s \in Seq(Tagged), NEW first \in Nat, \A n \in DOMAIN s : s[n].stmt < first
  PROVE  NotPassed(s, first) = << >>
<1> DEFINE T == ToSet(s)
           S == {c \in T : c.stmt >= first}
<1>1. s \in Seq(T)
  BY InItsOwn
<1>2. T \cap S = {}
  <2>1. ASSUME NEW c \in T PROVE c.stmt < first /\ c.stmt \in Nat
    <3>1. PICK n \in DOMAIN s : c = s[n]
      BY DEF ToSet
    <3>2. QED
      BY <3>1, StmtsAreNumbers
  <2>2. \A c \in T : ~(c.stmt >= first)
    BY <2>1
  <2> HIDE DEF T
  <2>3. QED
    BY <2>2
<1>3. NotPassed(s, first) = Only(s, S)
  BY DEF NotPassed
<1> HIDE DEF T, S
<1>4. QED
  BY <1>1, <1>2, <1>3, OnlyNone

LEMMA LooksAsPlanned ==
  ASSUME AllRegular, Inv, Inv', AsPlanned, Looks
  PROVE  AsPlanned'
<1> DEFINE from == look.noted
           first == FirstAhead(look')
           a == Upto(prog, ns, from, Pos)
<1>1. /\ from \in 1 .. Len(prog) /\ Len(prog) \in Nat /\ prog \in Programs /\ ns \in Env({})
      /\ Pos \in 0 .. Len(prog) /\ next \in Nat /\ running \in BOOLEAN /\ first \in Nat
      /\ from <= next
      /\ UNCHANGED <<prog, ns, next, running, work, made, own>>
  <2>1. look.noted \in 0 .. Len(prog) /\ Len(prog) \in Nat /\ Pos \in 0 .. Len(prog) /\ next \in Nat
    <3>1. next \in 1 .. Len(prog) + 1
      BY Where
    <3>2. QED
      BY <3>1, Where
  <2>2. look.noted # 0 /\ UNCHANGED <<prog, ns, next, running, work, made, own>>
    BY DEF Looks
  <2>3. prog \in Programs /\ ns \in Env({}) /\ running \in BOOLEAN /\ look'.next \in Nat
    BY DEF Inv, RunInv, PlanInv
  <2>4. first \in Nat
    BY <2>3 DEF FirstAhead
  <2>5. look.noted <= next
    BY DEF AsPlanned, LookInv
  <2>6. QED
    BY <2>1, <2>2, <2>3, <2>4, <2>5
<1>2. /\ look'.noted = from /\ look'.taken = TRUE /\ look'.next = next /\ look'.running = running
      /\ look'.calls = NotPassed(PlanAhead(Indices(from, Len(prog)), ns), first)
  <2> DEFINE now == [look EXCEPT !.taken = TRUE, !.next = next, !.running = running]
             calls == NotPassed(PlanAhead(Indices(from, Len(prog)), ns), FirstAhead(now))
  <2>1. look' = [now EXCEPT !.calls = calls]
    BY DEF Looks, Indices
  <2>2. look \in [noted : 0 .. Len(prog), taken : BOOLEAN, next : Nat, running : BOOLEAN,
                  calls : Seq(Planned({}))]
    BY PlansAre
  <2> HIDE DEF calls
  <2>3. /\ look'.noted = from /\ look'.taken = TRUE /\ look'.next = next /\ look'.running = running
        /\ look'.calls = calls /\ now.next = next /\ now.running = running
    BY <2>1, <2>2
  <2>4. FirstAhead(now) = first
    BY <2>3 DEF FirstAhead
  <2>5. QED
    BY <2>3, <2>4 DEF calls
<1>3. first = next + (IF running THEN 1 ELSE 0) /\ Pos < first
  <2>1. first = next + (IF running THEN 1 ELSE 0)
    BY <1>2 DEF FirstAhead
  <2> HIDE DEF first
  <2>2. QED
    BY <1>1, <2>1 DEF Pos, Inside
<1>4. look'.calls = NotPassed(Upto(prog, ns, from, Len(prog)).calls, first)
  <2>1. Len(prog) \in 0 .. Len(prog) /\ from <= Len(prog) + 1
    BY <1>1
  <2>2. Upto(prog, ns, from, Len(prog)).calls = PlanAhead(Indices(from, Len(prog)), ns)
    BY <1>1, <2>1, UptoIs
  <2> HIDE DEF first
  <2>3. QED
    BY <1>2, <2>2
<1>5. made \in Seq(Tagged) /\ (\A n \in DOMAIN made : made[n].stmt <= Pos)
      /\ (Pos >= 1 => Settled(prog[Pos], ns))
  BY DEF AsPlanned, MadeInv
<1>6. NotPassed(made, first) = << >>
  <2>1. \A n \in DOMAIN made : made[n].stmt < first
    <3>1. \A n \in DOMAIN made : made[n].stmt \in Nat
      BY <1>5, StmtsAreNumbers
    <3> HIDE DEF first
    <3>2. QED
      BY <1>1, <1>3, <1>5, <3>1
  <2> HIDE DEF first
  <2>2. QED
    BY <1>1, <1>5, <2>1, AllPassed
<1>7. ASSUME Steady' PROVE Fits(prog, ns, look', Pos, ns, made)
  <2>1. Pos \in {from - 1, from} /\ (Pos = from => ~Again(prog[from]))
    <3>1. \/ next = from /\ ~running
          \/ ~Again(prog[from]) /\ (next = from \/ (next = from + 1 /\ ~running))
      <4>1. prog'[look'.noted] = prog[from]
        BY <1>1, <1>2
      <4>2. \/ look'.next = look'.noted /\ ~look'.running
            \/ /\ ~Again(prog'[look'.noted])
               /\ look'.next = look'.noted \/ (look'.next = look'.noted + 1 /\ ~look'.running)
        BY <1>7 DEF Steady
      <4>3. QED
        BY Zenon, <1>2, <4>1, <4>2
    <3>2. QED
      BY <1>1, <3>1 DEF Pos, Inside
  <2>2. a \in Look({}) /\ Sound(a, ns) /\ a.calls \in Seq(Tagged)
        /\ \A n \in DOMAIN a.calls : a.calls[n].stmt < first
    <3>1. CASE Pos = from - 1
      <4>1. a = Base(ns)
        <5>1. Pos < from /\ from <= Pos + 1
          BY <1>1, <3>1
        <5>2. QED
          BY <1>1, <5>1, UptoIs
      <4>2. a \in Look({}) /\ Sound(a, ns) /\ a.calls = << >>
        BY <1>1, <4>1, BaseIs DEF Base
      <4>3. << >> \in Seq(Tagged) /\ DOMAIN << >> = {}
        OBVIOUS
      <4> HIDE DEF a, first
      <4>4. QED
        BY <4>2, <4>3
    <3>2. CASE Pos = from
      <4> DEFINE b == OneStmt(Base(ns), from)
      <4>1. a = b
        <5>1. from - 1 \in 0 .. Len(prog) /\ from - 1 < from /\ from <= (from - 1) + 1
              /\ from \in 0 .. Len(prog) /\ from <= from + 1 /\ from <= from
          BY <1>1
        <5> DEFINE k == from - 1
        <5>2. k \in 0 .. Len(prog) /\ k < from /\ from <= k + 1
          BY <5>1
        <5>3. Upto(prog, ns, from, from) = OneStmt(Upto(prog, ns, from, k), from)
          BY <1>1, <5>1, UptoIs
        <5> HIDE DEF k
        <5>4. Upto(prog, ns, from, k) = Base(ns)
          BY <1>1, <5>2, UptoIs
        <5>5. QED
          BY <3>2, <5>3, <5>4
      <4>2. b \in Look({}) /\ b.calls \in Seq(At(from))
        BY <1>1, OnePlanned
      <4>3. Sound(b, ns)
        <5>1. Regular(prog[from])
          BY <1>1, Where
        <5>2. Settled(prog[from], ns) /\ ~Again(prog[from])
          BY <1>1, <1>5, <2>1, <3>2
        <5>3. QED
          BY <1>1, <5>1, <5>2, LearnedTwice
      <4>4. b.calls \in Seq(Tagged) /\ \A n \in DOMAIN b.calls : b.calls[n].stmt = from
        <5> DEFINE q == b.calls
        <5>1. q \in Seq(At(from))
          BY <4>2
        <5> HIDE DEF q
        <5>2. \A n \in DOMAIN q : q[n] \in At(from)
          BY <5>1
        <5>3. q \in Seq(Tagged) /\ \A n \in DOMAIN q : q[n].stmt = from
          BY <5>1, <5>2 DEF At
        <5>4. QED
          BY <5>3 DEF q
      <4>5. from < first
        BY <1>3, <3>2
      <4> HIDE DEF a, b, first
      <4>6. QED
        BY <4>1, <4>2, <4>3, <4>4, <4>5
    <3>3. QED
      BY <2>1, <3>1, <3>2
  <2> HIDE DEF a, first
  <2>3. NotPassed(a.calls, first) = << >>
    BY <1>1, <2>2, AllPassed
  <2>4. Stands(a, made, first, Pos)
    BY <1>6, <2>3, MatchNothing DEF Stands
  <2>5. from <= Pos + 1
    BY <1>1, <2>1
  <2>6. QED
    BY <1>2, <1>4, <2>2, <2>4, <2>5 DEF Fits, a, first
<1>8. LookInv'
  <2>1. from >= 1
    BY <1>1
  <2>2. Pos' = Pos
    BY <1>1, RunStays
  <2>3. QED
    BY <1>1, <1>2, <1>7, <2>1, <2>2 DEF LookInv
<1>9. QED
  BY <1>1, <1>8, RunStays DEF AsPlanned
LEMMA StartAsPlanned ==
  ASSUME AllRegular, Inv, Init
  PROVE  AsPlanned
<1>1. /\ next = 1 /\ running = FALSE /\ work = << >> /\ made = << >> /\ own = << >>
      /\ look.noted = 0 /\ look.taken = FALSE /\ look.calls = << >>
  BY DEF Init, NoLook
<1>2. Pos = 0 /\ Due = << >>
  BY <1>1 DEF Pos, Inside, Due
<1>3. << >> \in Seq(Tagged) /\ DOMAIN << >> = {} /\ << >> \in Seq(Planned({})) /\ << >> \o << >> = << >>
  OBVIOUS
<1>4. MadeInv
  BY <1>1, <1>2, <1>3 DEF MadeInv
<1>5. OwnInv
  <2> DEFINE none == << >>
  <2>1. \A x : Count(none, x) <= Count(none, x)
    BY MatchNothing DEF Matches
  <2>2. none \in Seq(Planned({})) /\ own = none \o Due /\ made = none
    BY <1>1, <1>2, <1>3
  <2> HIDE DEF none
  <2>3. QED
    BY <2>1, <2>2 DEF OwnInv
<1>6. LookInv
  BY <1>1 DEF LookInv
<1>7. QED
  BY <1>4, <1>5, <1>6 DEF AsPlanned

LEMMA StepAsPlanned ==
  ASSUME AllRegular, Inv, Inv', AsPlanned, [Next]_vars
  PROVE  AsPlanned'
<1>1. CASE UNCHANGED vars
  <2>1. /\ UNCHANGED <<prog, ns, next, running, work, made, own>> /\ look' = look
    BY <1>1 DEF vars
  <2>2. LookInv'
    <3>1. next \in Nat /\ look.noted \in Nat
      <4>1. next \in 1 .. Len(prog) + 1 /\ look.noted \in 0 .. Len(prog)
        BY Where
      <4>2. QED
        BY <4>1
    <3>2. Pos' = Pos /\ next' = next /\ next <= next
      BY <2>1, <3>1, RunStays
    <3>3. QED
      BY <2>1, <3>1, <3>2, LookGoesOn DEF AsPlanned
  <2>3. QED
    BY <2>1, <2>2, RunStays DEF AsPlanned
<1>2. QED
  BY <1>1, TakesAsPlanned, GoesAsPlanned, FinishesAsPlanned, NotesAsPlanned, LooksAsPlanned DEF Next

(* What it comes to when the code has run. *)
LEMMA MatchesMeans ==
  ASSUME NEW p \in Seq(Tagged), NEW m \in Seq(Tagged), NEW on, Matches(p, m, on)
  PROVE  (\A x : Count(p, x) <= Count(m, x)) /\ IsPrefix(Blocking(p), Blocking(m))
<1>1. ASSUME NEW q \in Seq(Tagged) PROVE Blocking(q) = Only(q, Firm) /\ Only(q, Firm) \in Seq(Tagged)
  <2> DEFINE S == {c \in ToSet(q) : c.tool \notin Always}
  <2>1. q \in Seq(ToSet(q)) /\ ToSet(q) \subseteq Tagged
    BY InItsOwn
  <2>2. \A c \in ToSet(q) : c \in S <=> c \in Firm
    BY <2>1 DEF Firm
  <2> HIDE DEF S
  <2>3. Only(q, S) = Only(q, Firm)
    BY <2>1, <2>2, OnlySame
  <2>4. Only(q, Firm) \in Seq(Tagged)
    BY OnlyKeeps
  <2>5. QED
    BY <2>3, <2>4 DEF Blocking, S
<1> DEFINE P == Only(p, Firm)
           M == Only(m, Firm)
<1>2. PICK more \in Seq(Tagged) : M = P \o more
  BY DEF Matches
<1>3. P \in Seq(Tagged) /\ M \in Seq(Tagged) /\ P = Blocking(p) /\ M = Blocking(m)
  BY <1>1
<1> HIDE DEF P, M
<1>4. IsPrefix(P, M)
  <2>1. Len(P) \in Nat /\ Len(more) \in Nat /\ Len(M) = Len(P) + Len(more)
        /\ \A n \in 1 .. Len(P) : M[n] = P[n]
    BY <1>2, <1>3, ConcatProperties
  <2>2. SubSeq(P, 1, Len(P)) = SubSeq(M, 1, Len(P))
    BY <1>3, <2>1
  <2>3. QED
    BY <2>1, <2>2 DEF IsPrefix
<1>5. QED
  BY <1>3, <1>4 DEF Matches

LEMMA AsPlannedMeans ==
  ASSUME AllRegular, Inv, AsPlanned
  PROVE  PlannedAreMade /\ NothingSkipped
<1> SUFFICES ASSUME RunIsOver
             PROVE  /\ \A n \in DOMAIN own : Count(own, own[n]) <= Count(made, own[n])
                    /\ Steady => \A n \in DOMAIN look.calls :
                                   Count(look.calls, look.calls[n]) <= Count(made, look.calls[n])
                    /\ Steady => IsPrefix(Blocking(look.calls), Blocking(NotPassed(made, FirstAhead(look))))
  BY DEF PlannedAreMade, NothingSkipped
<1> DEFINE first == FirstAhead(look)
           N == Len(prog)
<1>1. running = FALSE /\ Pos = N /\ Due = << >> /\ N \in Nat /\ first \in Nat
  <2>1. N \in Nat /\ next \in 1 .. N + 1 /\ next > N /\ first \in Nat
    BY Where DEF RunIsOver
  <2>2. running = FALSE
    BY <2>1 DEF Inv, RunInv
  <2> HIDE DEF N, first
  <2>3. QED
    BY <2>1, <2>2 DEF Pos, Inside, Due
<1>2. made \in Seq(Tagged)
  BY DEF AsPlanned, MadeInv
<1>3. \A x : Count(own, x) <= Count(made, x)
  <2>1. PICK before \in Seq(Planned({})) : own = before \o Due /\ \A x : Count(before, x) <= Count(made, x)
    BY DEF AsPlanned, OwnInv
  <2>2. own = before
    BY <1>1, <2>1, ConcatEmptySeq
  <2>3. QED
    BY <2>1, <2>2
<1>4. CASE ~look.taken
  <2>1. look.calls = << >>
    BY <1>4 DEF AsPlanned, LookInv
  <2> DEFINE rest == NotPassed(made, first)
             none == << >>
  <2>2. DOMAIN none = {} /\ Blocking(none) = none
    BY OnlyEmpty DEF Blocking
  <2>3. IsPrefix(none, Blocking(rest))
    <3>1. rest \in Seq(Tagged)
      BY <1>1, <1>2, AheadOrNot, OnlyKeeps DEF NotPassed
    <3> HIDE DEF rest
    <3>2. Blocking(rest) \in Seq(Tagged)
      BY <3>1, OnlyKeeps DEF Blocking
    <3> DEFINE B == Blocking(rest)
    <3>3. B \in Seq(Tagged)
      BY <3>2
    <3> HIDE DEF B
    <3>4. IsPrefix(none, B)
      BY <3>3 DEF IsPrefix
    <3>5. QED
      BY <3>4 DEF B
  <2> HIDE DEF rest, none
  <2>4. QED
    BY <1>3, <2>1, <2>2, <2>3 DEF rest, none
<1>5. CASE look.taken /\ Steady
  <2>1. PICK env \in Env({}) : Fits(prog, env, look, N, ns, made)
    BY <1>1, <1>5 DEF AsPlanned, LookInv
  <2> DEFINE a == Upto(prog, env, look.noted, N)
             p == NotPassed(a.calls, first)
             m == NotPassed(made, first)
  <2>2. look.calls = p /\ Matches(p, m, a.on)
    BY <2>1 DEF Fits, Stands
  <2>3. p \in Seq(Tagged) /\ m \in Seq(Tagged)
    <3>1. look.calls \in Seq(Planned({}))
      BY PlansAre
    <3>2. look.calls \in Seq(Tagged)
      BY <3>1, PlannedIsTagged
    <3>3. m \in Seq(Tagged)
      BY <1>2, OnlyKeeps DEF NotPassed
    <3> HIDE DEF p, m
    <3>4. QED
      BY <2>2, <3>2, <3>3
  <2> HIDE DEF p
  <2>4. \A x : Count(m, x) <= Count(made, x)
    <3> SUFFICES ASSUME NEW x PROVE Count(m, x) <= Count(made, x)
      OBVIOUS
    <3> DEFINE S == {c \in ToSet(made) : c.stmt >= first}
    <3>1. Count(Only(made, S), x) = IF x \in S THEN Count(made, x) ELSE 0
      <4> HIDE DEF S
      <4>1. QED
        BY <1>2, CountOnly
    <3>2. Count(made, x) \in Nat
      BY <1>2, CountConcat
    <3>3. m = Only(made, S)
      BY DEF NotPassed
    <3> HIDE DEF m, S
    <3>4. QED
      BY <3>1, <3>2, <3>3
  <2> HIDE DEF m
  <2>5. (\A x : Count(p, x) <= Count(m, x)) /\ IsPrefix(Blocking(p), Blocking(m))
    BY <2>2, <2>3, MatchesMeans
  <2>6. ASSUME NEW x PROVE Count(p, x) <= Count(made, x)
    <3>1. Count(p, x) \in Nat /\ Count(m, x) \in Nat /\ Count(made, x) \in Nat
      BY <1>2, <2>3, CountConcat
    <3>2. QED
      BY <2>4, <2>5, <3>1
  <2>7. QED
    BY <1>3, <2>2, <2>5, <2>6 DEF m
<1>6. QED
  BY <1>3, <1>4, <1>5

\* While regular code runs, what it has made, what the executor has planned and
\* what the look has planned agree, up to the statement the run has come to.
THEOREM PlansAndRunAgree == ASSUME AllRegular PROVE Spec => []AsPlanned
<1>1. Inv /\ Init => AsPlanned
  BY StartAsPlanned
<1>2. Inv /\ Inv' /\ AsPlanned /\ [Next]_vars => AsPlanned'
  BY StepAsPlanned
<1>3. QED
  BY <1>1, <1>2, WellFormed, PTL DEF Spec

\* plan_calls returns calls the code "will certainly make": in regular code of any
\* length, from any namespace, with the look taken at any time, each call that the
\* executor or the (steady) look planned is made, with its argument and as often.
THEOREM WhatIsPlannedIsMade == ASSUME AllRegular PROVE Spec => []PlannedAreMade
<1>1. Inv /\ AsPlanned => PlannedAreMade
  BY AsPlannedMeans
<1>2. QED
  BY <1>1, WellFormed, PlansAndRunAgree, PTL

\* "Planning stops at the first call it cannot see through": in regular code, the
\* calls the look planned, save those to early=True tools, are the very next ones
\* that are made, in that order.
THEOREM PlansSkipNothing == ASSUME AllRegular PROVE Spec => []NothingSkipped
<1>1. Inv /\ AsPlanned => NothingSkipped
  BY AsPlannedMeans
<1>2. QED
  BY <1>1, WellFormed, PlansAndRunAgree, PTL
=============================================================================
