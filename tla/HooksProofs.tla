----------------------------- MODULE HooksProofs -----------------------------
(* Hooks proved for any number of threads, calls and callbacks: at most one
   state-changing call at a time, early results fresh and taken once, and denied
   calls that wait for the commit.                                          *)
EXTENDS Hooks, Integers, TLAPS

Frames == [call : Calls, step : Steps, use : Results]
Depth(th) == 1..Len(stack[th])

-----------------------------------------------------------------------------
(* The three ways a hook moves its thread's stack. *)

LEMMA Concat ==
  ASSUME NEW S, NEW s \in Seq(S), NEW f \in S
  PROVE  /\ <<f>> \o s \in Seq(S)
         /\ Len(<<f>> \o s) = Len(s) + 1
         /\ (<<f>> \o s)[1] = f
         /\ \A i \in 1..Len(s) : (<<f>> \o s)[i + 1] = s[i]
  OBVIOUS

LEMMA Rest ==
  ASSUME NEW S, NEW s \in Seq(S), s # <<>>
  PROVE  /\ Tail(s) \in Seq(S)
         /\ Len(Tail(s)) = Len(s) - 1 /\ Len(s) \in Nat \ {0}
         /\ \A i \in 1..(Len(s) - 1) : Tail(s)[i] = s[i + 1]
         /\ Head(s) = s[1] /\ s[1] \in S
  OBVIOUS

StackType == stack \in [Threads -> Seq(Frames)]

LEMMA Push ==
  ASSUME StackType, NEW th \in Threads, NEW f \in Frames,
         stack' = [stack EXCEPT ![th] = <<f>> \o @]
  PROVE  /\ StackType'
         /\ Len(stack'[th]) = Len(stack[th]) + 1
         /\ stack'[th][1] = f
         /\ \A i \in Depth(th) : stack'[th][i + 1] = stack[th][i]
         /\ \A o \in Threads \ {th} : stack'[o] = stack[o]
<1>1. stack[th] \in Seq(Frames) /\ stack'[th] = <<f>> \o stack[th]
  BY DEF StackType
<1>2. /\ stack'[th] \in Seq(Frames) /\ Len(stack'[th]) = Len(stack[th]) + 1
      /\ stack'[th][1] = f
      /\ \A i \in 1..Len(stack[th]) : stack'[th][i + 1] = stack[th][i]
  BY <1>1, Concat
<1>3. StackType' /\ \A o \in Threads \ {th} : stack'[o] = stack[o]
  BY <1>1, <1>2 DEF StackType
<1>4. QED
  BY <1>2, <1>3 DEF Depth

LEMMA Pop ==
  ASSUME StackType, NEW th \in Threads, stack[th] # <<>>, stack' = Returned(th)
  PROVE  /\ StackType'
         /\ Len(stack[th]) \in Nat \ {0} /\ Len(stack'[th]) = Len(stack[th]) - 1
         /\ \A i \in Depth(th)' : stack'[th][i] = stack[th][i + 1]
         /\ \A o \in Threads \ {th} : stack'[o] = stack[o]
<1>1. stack[th] \in Seq(Frames) /\ stack'[th] = Tail(stack[th])
  BY DEF StackType, Returned
<1>2. /\ stack'[th] \in Seq(Frames)
      /\ Len(stack[th]) \in Nat \ {0} /\ Len(stack'[th]) = Len(stack[th]) - 1
      /\ \A i \in 1..(Len(stack[th]) - 1) : stack'[th][i] = stack[th][i + 1]
  BY <1>1, Rest
<1>3. StackType' /\ \A o \in Threads \ {th} : stack'[o] = stack[o]
  BY <1>1, <1>2 DEF StackType, Returned
<1>4. QED
  BY <1>2, <1>3 DEF Depth

LEMMA Replace ==
  ASSUME StackType, NEW th \in Threads, stack[th] # <<>>, NEW f \in Frames,
         stack' = [stack EXCEPT ![th] = <<f>> \o Tail(@)]
  PROVE  /\ StackType'
         /\ Len(stack[th]) \in Nat \ {0} /\ Len(stack'[th]) = Len(stack[th])
         /\ stack'[th][1] = f
         /\ \A i \in Depth(th) \ {1} : stack'[th][i] = stack[th][i]
         /\ \A o \in Threads \ {th} : stack'[o] = stack[o]
<1> DEFINE rest == Tail(stack[th])
<1>1. stack[th] \in Seq(Frames) /\ stack'[th] = <<f>> \o rest
  BY DEF StackType
<1>2. /\ rest \in Seq(Frames) /\ Len(stack[th]) \in Nat \ {0}
      /\ Len(rest) = Len(stack[th]) - 1
      /\ \A i \in 1..(Len(stack[th]) - 1) : rest[i] = stack[th][i + 1]
  BY <1>1, Rest
<1> HIDE DEF rest
<1>3. /\ stack'[th] \in Seq(Frames) /\ Len(stack'[th]) = Len(rest) + 1
      /\ stack'[th][1] = f
      /\ \A i \in 1..Len(rest) : stack'[th][i + 1] = rest[i]
  BY <1>1, <1>2, Concat
<1>4. StackType' /\ \A o \in Threads \ {th} : stack'[o] = stack[o]
  BY <1>1, <1>3 DEF StackType
<1>5. \A i \in Depth(th) \ {1} : stack'[th][i] = stack[th][i]
  <2> SUFFICES ASSUME NEW i \in Depth(th) \ {1} PROVE stack'[th][i] = stack[th][i]
    OBVIOUS
  <2>1. i - 1 \in 1..(Len(stack[th]) - 1) /\ (i - 1) + 1 = i
    BY <1>2 DEF Depth
  <2>2. QED
    BY <2>1, <1>2, <1>3
<1>6. Len(stack'[th]) = Len(stack[th])
  BY <1>2, <1>3
<1>7. QED
  BY <1>2, <1>3, <1>4, <1>5, <1>6

-----------------------------------------------------------------------------
(* The invariant: the types, one state-changing call and the lock with it,
   and what the gate lets through.                                         *)

Alone(th, i) == i \in Depth(th) /\ stack[th][i].step = "alone"

AloneInv ==
  /\ \A th \in Threads : \A i : Alone(th, i) => launch = th
  /\ \A th \in Threads : \A i, j : Alone(th, i) /\ Alone(th, j) => i = j

Passed(f) ==
  f.call \notin Allowed =>
    /\ f.step \in {"decide", "run", "enter", "alone"} => commit
    /\ f.step \in {"run", "enter", "alone"} => ~abort
PassedInv == \A th \in Threads : \A i \in Depth(th) : Passed(stack[th][i])

Inv == TypeOK /\ AloneInv /\ ReadyIsFresh /\ PassedInv

(* What each kind of move does to the two parts about stacks. *)

LEMMA Pushed ==
  ASSUME Inv, NEW th \in Threads, NEW f \in Frames, f.step = "take",
         stack' = [stack EXCEPT ![th] = <<f>> \o @], UNCHANGED <<launch, commit, abort>>
  PROVE  StackType' /\ AloneInv' /\ PassedInv'
<1>1. StackType
  BY DEF Inv, TypeOK, StackType, Frames
<1>2. /\ StackType'
      /\ Len(stack'[th]) = Len(stack[th]) + 1
      /\ stack'[th][1] = f
      /\ \A i \in Depth(th) : stack'[th][i + 1] = stack[th][i]
      /\ \A o \in Threads \ {th} : stack'[o] = stack[o]
  BY <1>1, Push
<1>3. Len(stack[th]) \in Nat
  BY <1>1 DEF StackType
<1>4. \A i \in Depth(th)' : i # 1 => i - 1 \in Depth(th) /\ stack'[th][i] = stack[th][i - 1]
  <2> SUFFICES ASSUME NEW i \in Depth(th)', i # 1
               PROVE  i - 1 \in Depth(th) /\ stack'[th][i] = stack[th][i - 1]
    OBVIOUS
  <2>1. i - 1 \in Depth(th) /\ (i - 1) + 1 = i
    BY <1>2, <1>3 DEF Depth
  <2>2. QED
    BY <2>1, <1>2
<1>5. \A t \in Threads \ {th} : Depth(t)' = Depth(t)
  BY <1>2 DEF Depth
<1>6. \A i : Alone(th, i)' => i \in Int /\ Alone(th, i - 1)
  BY <1>2, <1>4 DEF Alone, Depth
<1>7. \A t \in Threads \ {th} : \A i : Alone(t, i)' => Alone(t, i)
  BY <1>2, <1>5 DEF Alone
<1>8. \A i, j : Alone(th, i)' /\ Alone(th, j)' => i = j
  <2> SUFFICES ASSUME NEW i, NEW j, Alone(th, i)', Alone(th, j)' PROVE i = j
    OBVIOUS
  <2>1. i \in Int /\ j \in Int /\ Alone(th, i - 1) /\ Alone(th, j - 1)
    BY <1>6
  <2>2. i - 1 = j - 1
    BY <2>1 DEF Inv, AloneInv
  <2>3. QED
    BY <2>1, <2>2
<1>9. AloneInv'
  BY <1>6, <1>7, <1>8 DEF Inv, AloneInv
<1>10. PassedInv'
  <2> SUFFICES ASSUME NEW t \in Threads, NEW i \in Depth(t)' PROVE Passed(stack[t][i])'
    BY DEF PassedInv
  <2>1. CASE t # th
    BY <2>1, <1>2, <1>5 DEF Inv, PassedInv, Passed
  <2>2. CASE t = th /\ i = 1
    BY <2>2, <1>2 DEF Passed
  <2>3. CASE t = th /\ i # 1
    BY <2>3, <1>4 DEF Inv, PassedInv, Passed
  <2>4. QED
    BY <2>1, <2>2, <2>3
<1>11. QED
  BY <1>2, <1>9, <1>10

LEMMA Replaced ==
  ASSUME Inv, NEW th \in Threads, stack[th] # <<>>, NEW f \in Frames,
         f.step # "alone", Passed(f)',
         stack' = [stack EXCEPT ![th] = <<f>> \o Tail(@)], UNCHANGED <<launch, commit, abort>>
  PROVE  StackType' /\ AloneInv' /\ PassedInv'
<1>1. StackType
  BY DEF Inv, TypeOK, StackType, Frames
<1>2. /\ StackType'
      /\ Len(stack'[th]) = Len(stack[th])
      /\ stack'[th][1] = f
      /\ \A i \in Depth(th) \ {1} : stack'[th][i] = stack[th][i]
      /\ \A o \in Threads \ {th} : stack'[o] = stack[o]
  BY <1>1, Replace
<1>3. \A t \in Threads : Depth(t)' = Depth(t)
  BY <1>2 DEF Depth
<1>4. \A t \in Threads : \A i : Alone(t, i)' => Alone(t, i)
  BY <1>2, <1>3 DEF Alone
<1>5. AloneInv'
  BY <1>4 DEF Inv, AloneInv
<1>6. PassedInv'
  <2> SUFFICES ASSUME NEW t \in Threads, NEW i \in Depth(t)' PROVE Passed(stack[t][i])'
    BY DEF PassedInv
  <2>1. CASE t # th
    BY <2>1, <1>2, <1>3 DEF Inv, PassedInv, Passed
  <2>2. CASE t = th /\ i = 1
    BY <2>2, <1>2 DEF Passed
  <2>3. CASE t = th /\ i # 1
    BY <2>3, <1>2, <1>3, ZenonT(60) DEF Inv, PassedInv, Passed
  <2>4. QED
    BY <2>1, <2>2, <2>3
<1>7. QED
  BY <1>2, <1>5, <1>6

(* From the top of a stack that is popped an innermost call goes; of the calls
   that stay none is in the lock if that one was.                          *)
LEMMA Popped ==
  ASSUME Inv, NEW th \in Threads, stack[th] # <<>>, stack' = Returned(th),
         UNCHANGED <<commit, abort>>,
         launch' = IF At(th, "alone") THEN Nobody ELSE launch
  PROVE  StackType' /\ AloneInv' /\ PassedInv'
<1>1. StackType
  BY DEF Inv, TypeOK, StackType, Frames
<1>2. /\ StackType'
      /\ Len(stack[th]) \in Nat \ {0} /\ Len(stack'[th]) = Len(stack[th]) - 1
      /\ \A i \in Depth(th)' : stack'[th][i] = stack[th][i + 1]
      /\ \A o \in Threads \ {th} : stack'[o] = stack[o]
  BY <1>1, Pop
<1>3. \A i \in Depth(th)' : i \in Int /\ i + 1 \in Depth(th) /\ i + 1 # 1
  BY <1>2 DEF Depth
<1>4. \A t \in Threads \ {th} : Depth(t)' = Depth(t)
  BY <1>2 DEF Depth
<1>5. \A i : Alone(th, i)' => i \in Int /\ Alone(th, i + 1) /\ i + 1 # 1
  BY <1>2, <1>3 DEF Alone
<1>6. \A t \in Threads \ {th} : \A i : Alone(t, i)' => Alone(t, i)
  BY <1>2, <1>4 DEF Alone
<1>7. \A i, j : Alone(th, i)' /\ Alone(th, j)' => i = j
  <2> SUFFICES ASSUME NEW i, NEW j, Alone(th, i)', Alone(th, j)' PROVE i = j
    OBVIOUS
  <2>1. i \in Int /\ j \in Int /\ Alone(th, i + 1) /\ Alone(th, j + 1)
    BY <1>5
  <2>2. i + 1 = j + 1
    BY <2>1 DEF Inv, AloneInv
  <2>3. QED
    BY <2>1, <2>2
<1>8. ASSUME At(th, "alone") PROVE Alone(th, 1)
  <2>1. stack[th] \in Seq(Frames) /\ Head(stack[th]) = stack[th][1]
    BY <1>1, Rest DEF StackType
  <2>2. QED
    BY <1>8, <2>1, <1>2 DEF Alone, At, Top, Depth
<1>9. \A t \in Threads : \A i : Alone(t, i)' => launch' = t
  <2> SUFFICES ASSUME NEW t \in Threads, NEW i, Alone(t, i)' PROVE launch' = t
    OBVIOUS
  <2>1. \E j : Alone(t, j) /\ (t = th => j # 1)
    BY <1>5, <1>6
  <2>2. launch = t
    BY <2>1 DEF Inv, AloneInv
  <2>3. ~At(th, "alone")
    BY <1>8, <2>1, <2>2 DEF Inv, AloneInv
  <2>4. QED
    BY <2>2, <2>3
<1>10. AloneInv'
  BY <1>6, <1>7, <1>9 DEF Inv, AloneInv
<1>11. PassedInv'
  <2> SUFFICES ASSUME NEW t \in Threads, NEW i \in Depth(t)' PROVE Passed(stack[t][i])'
    BY DEF PassedInv
  <2>1. CASE t # th
    BY <2>1, <1>2, <1>4 DEF Inv, PassedInv, Passed
  <2>2. CASE t = th
    BY <2>2, <1>2, <1>3 DEF Inv, PassedInv, Passed
  <2>3. QED
    BY <2>1, <2>2
<1>12. QED
  BY <1>2, <1>10, <1>11

-----------------------------------------------------------------------------
(* The steps. *)

LEMMA TopFrame ==
  ASSUME Inv, NEW th \in Threads, stack[th] # <<>>
  PROVE  Top(th) \in Frames /\ Passed(Top(th))
<1>1. stack[th] \in Seq(Frames)
  BY DEF Inv, TypeOK, Frames
<1>2. Top(th) = stack[th][1] /\ stack[th][1] \in Frames /\ 1 \in Depth(th)
  BY <1>1, Rest DEF Top, Depth
<1>3. QED
  BY <1>2 DEF Inv, PassedInv

LEMMA EmptySeq == ASSUME NEW S PROVE <<>> \in Seq(S)
  OBVIOUS

LEMMA InitInv == Init => Inv
<1> SUFFICES ASSUME Init PROVE Inv
  OBVIOUS
<1> USE DEF Init
<1>1. TypeOK
  <2>1. launch \in Threads \cup {Nobody} /\ started \in Nat /\ changes \in Nat
    OBVIOUS
  <2>2. ready \in [Calls -> Seq(Results)] /\ stack \in [Threads -> Seq(Frames)]
    BY EmptySeq
  <2>3. commit \in BOOLEAN /\ abort \in BOOLEAN /\ asked \subseteq Calls
    OBVIOUS
  <2>4. todo \in [Threads -> 0..MaxCalls]
    BY Constants
  <2>5. QED
    BY <2>1, <2>2, <2>3, <2>4 DEF TypeOK, Frames
<1>2. \A th \in Threads : Depth(th) = {}
  <2>1. \A th \in Threads : stack[th] = <<>>
    OBVIOUS
  <2>2. 1..Len(<<>>) = {}
    OBVIOUS
  <2>3. \A th \in Threads : Depth(th) = 1..Len(<<>>)
    BY <2>1, Zenon DEF Depth
  <2>4. QED
    BY <2>2, <2>3, Zenon
<1>3. AloneInv /\ PassedInv
  BY <1>2 DEF AloneInv, Alone, PassedInv
<1>4. ReadyIsFresh
  BY DEF ReadyIsFresh
<1>5. QED
  BY <1>1, <1>3, <1>4 DEF Inv

(* What has no part in the stacks. *)
RestType ==
  /\ launch \in Threads \cup {Nobody}
  /\ ready \in [Calls -> Seq(Results)]
  /\ started \in Nat /\ changes \in Nat
  /\ commit \in BOOLEAN /\ abort \in BOOLEAN /\ asked \subseteq Calls
  /\ todo \in [Threads -> 0..MaxCalls]

LEMMA Whole ==
  /\ TypeOK <=> RestType /\ StackType
  /\ TypeOK' <=> RestType' /\ StackType'
  BY DEF TypeOK, RestType, StackType, Frames

LEMMA EntersInv ==
  ASSUME Inv, NEW th \in Threads, NEW c \in Calls, Enters(th, c)
  PROVE  Inv'
<1> DEFINE f == Frame(c, "take", NoResult)
<1>1. f \in Frames /\ f.step = "take"
  BY DEF Frame, Frames, Steps, NoResult, Results
<1>2. stack' = [stack EXCEPT ![th] = <<f>> \o @] /\ UNCHANGED <<launch, commit, abort>>
  BY DEF Enters, turn
<1> HIDE DEF f
<1>3. StackType' /\ AloneInv' /\ PassedInv'
  BY <1>1, <1>2, Pushed
<1>4. todo[th] \in 0..MaxCalls /\ todo[th] > 0
  BY DEF Inv, TypeOK, Enters
<1>5. todo' \in [Threads -> 0..MaxCalls]
  BY <1>4, Constants DEF Inv, TypeOK, Enters
<1>6. RestType' /\ ReadyIsFresh'
  BY <1>5 DEF Inv, TypeOK, RestType, ReadyIsFresh, Enters, early, turn
<1>7. QED
  BY <1>3, <1>6, Whole DEF Inv

(* A step of a hook that moves it on, without taking or dropping results. *)
LEMMA MovesOn ==
  ASSUME Inv, NEW th \in Threads, stack[th] # <<>>, NEW step \in Steps, step # "alone",
         stack' = Moved(th, step), UNCHANGED <<launch, early, turn, asked, todo>>,
         Passed([Top(th) EXCEPT !.step = step])
  PROVE  Inv'
<1>1. Top(th) \in Frames
  BY TopFrame
<1>2. PICK f \in Frames : f = [Top(th) EXCEPT !.step = step]
  BY <1>1 DEF Frames
<1>3. f.step # "alone" /\ stack' = [stack EXCEPT ![th] = <<f>> \o Tail(@)]
  BY <1>1, <1>2 DEF Moved, Top, Frames
<1>4. UNCHANGED <<launch, commit, abort>> /\ Passed(f)'
  BY <1>2 DEF turn, Passed
<1>5. StackType' /\ AloneInv' /\ PassedInv'
  BY <1>2, <1>3, <1>4, Replaced
<1>6. RestType' /\ ReadyIsFresh'
  BY DEF Inv, TypeOK, RestType, ReadyIsFresh, early, turn
<1>7. QED
  BY <1>5, <1>6, Whole DEF Inv

(* A call that returns, or raises, and leaves results alone. *)
LEMMA Leaves ==
  ASSUME Inv, NEW th \in Threads, stack[th] # <<>>, stack' = Returned(th),
         UNCHANGED <<early, turn, asked, todo>>,
         launch' = IF At(th, "alone") THEN Nobody ELSE launch
  PROVE  Inv'
<1>1. UNCHANGED <<commit, abort>>
  BY DEF turn
<1>2. StackType' /\ AloneInv' /\ PassedInv'
  BY <1>1, Popped
<1>3. RestType' /\ ReadyIsFresh'
  BY DEF Inv, TypeOK, RestType, ReadyIsFresh, early, turn
<1>4. QED
  BY <1>2, <1>3, Whole DEF Inv

LEMMA TakesInv ==
  ASSUME Inv, NEW th \in Threads, Takes(th)
  PROVE  Inv'
<1> DEFINE c == Top(th).call
<1>1. stack[th] # <<>> /\ Top(th).step = "take"
  BY DEF Takes, At
<1>2. Top(th) \in Frames /\ c \in Calls
  BY <1>1, TopFrame DEF Frames
<1>3. CASE ready[c] = <<>>
  <2>1. stack' = Moved(th, "gate") /\ UNCHANGED <<launch, early, turn, asked, todo>>
    BY <1>3 DEF Takes, early
  <2>2. "gate" \in Steps /\ Passed([Top(th) EXCEPT !.step = "gate"])
    BY <1>2 DEF Steps, Passed, Frames
  <2>3. QED
    BY <1>1, <2>1, <2>2, MovesOn
<1>4. CASE ready[c] # <<>>
  <2>1. ready[c] \in Seq(Results)
    BY <1>2 DEF Inv, TypeOK
  <2>2. Head(ready[c]) \in Results
    BY <2>1, <1>4, Rest
  <2> HIDE DEF c
  <2>3. PICK f \in Frames : f = Frame(c, "early", Head(ready[c]))
    BY <1>2, <2>2 DEF Frame, Frames, Steps
  <2>12. f.step # "alone" /\ Passed(f)'
    BY <2>3 DEF Frame, Passed
  <2>4. /\ stack' = [stack EXCEPT ![th] = <<f>> \o Tail(@)]
        /\ ready' = [ready EXCEPT ![c] = Tail(@)]
        /\ UNCHANGED <<launch, started, changes, commit, abort, asked, todo>>
    BY <1>4, <2>3 DEF Takes, AfterTaking, turn, c
  <2>5. StackType' /\ AloneInv' /\ PassedInv'
    BY <1>1, <2>12, <2>4, Replaced
  <2>6. /\ Tail(ready[c]) \in Seq(Results)
        /\ Len(Tail(ready[c])) = Len(ready[c]) - 1 /\ Len(ready[c]) \in Nat \ {0}
        /\ \A i \in 1..(Len(ready[c]) - 1) : Tail(ready[c])[i] = ready[c][i + 1]
    BY <2>1, <1>4, Rest
  <2>7. RestType'
    BY <1>2, <2>4, <2>6 DEF Inv, TypeOK, RestType
  <2>8. \A i \in DOMAIN Tail(ready[c]) : Tail(ready[c])[i].since = changes
    <3> SUFFICES ASSUME NEW i \in DOMAIN Tail(ready[c])
                 PROVE  Tail(ready[c])[i].since = changes
      OBVIOUS
    <3>1. i \in 1..(Len(ready[c]) - 1)
      BY <2>6
    <3>2. i + 1 \in DOMAIN ready[c] /\ Tail(ready[c])[i] = ready[c][i + 1]
      BY <2>1, <2>6, <3>1
    <3>3. QED
      BY <1>2, <3>2 DEF Inv, ReadyIsFresh
  <2>9. ready' \in [Calls -> Seq(Results)] /\ ready'[c] = Tail(ready[c])
          /\ \A d \in Calls \ {c} : ready'[d] = ready[d]
    BY <1>2, <2>4, <2>6 DEF Inv, TypeOK
  <2>10. ReadyIsFresh'
    BY <2>4, <2>8, <2>9 DEF Inv, ReadyIsFresh
  <2>11. QED
    BY <2>5, <2>7, <2>10, Whole DEF Inv
<1>5. QED
  BY <1>3, <1>4

(* Nobody is in the lock when it is free, so the one who takes it is alone;
   with it goes what could still be taken.                                 *)
LEMMA RunsAloneInv ==
  ASSUME Inv, NEW th \in Threads, RunsAlone(th), Passed([Top(th) EXCEPT !.step = "alone"])
  PROVE  Inv'
<1>1. stack[th] # <<>> /\ launch = Nobody /\ launch' = th
  BY DEF RunsAlone, At, LaunchFree
<1>15. Top(th) \in Frames
  BY <1>1, TopFrame
<1>2. PICK f \in Frames : f = [Top(th) EXCEPT !.step = "alone"]
  BY <1>15 DEF Frames, Steps
<1>3. f.step = "alone" /\ stack' = [stack EXCEPT ![th] = <<f>> \o Tail(@)]
  BY <1>15, <1>2 DEF RunsAlone, Moved, Top, Frames
<1>4. UNCHANGED <<commit, abort>> /\ Passed(f)'
  BY <1>2 DEF RunsAlone, turn, Passed
<1>5. StackType
  BY DEF Inv, TypeOK, StackType, Frames
<1>6. /\ StackType'
      /\ Len(stack'[th]) = Len(stack[th])
      /\ stack'[th][1] = f
      /\ \A i \in Depth(th) \ {1} : stack'[th][i] = stack[th][i]
      /\ \A o \in Threads \ {th} : stack'[o] = stack[o]
  BY <1>1, <1>2, <1>3, <1>5, Replace
<1>7. \A t \in Threads : Depth(t)' = Depth(t)
  BY <1>6 DEF Depth
<1>8. \A t \in Threads : \A i : ~Alone(t, i)
  BY <1>1, Constants DEF Inv, AloneInv
<1>9. \A t \in Threads : \A i : Alone(t, i)' => t = th /\ i = 1
  <2> SUFFICES ASSUME NEW t \in Threads, NEW i, Alone(t, i)', ~(t = th /\ i = 1)
               PROVE  FALSE
    OBVIOUS
  <2>1. i \in Depth(t) /\ stack'[t][i].step = "alone"
    BY <1>7 DEF Alone
  <2>2. stack'[t][i] = stack[t][i]
    BY <1>6, <2>1
  <2>3. QED
    BY <1>8, <2>1, <2>2 DEF Alone
<1>10. AloneInv'
  BY <1>1, <1>9 DEF AloneInv
<1>11. PassedInv'
  <2> SUFFICES ASSUME NEW t \in Threads, NEW i \in Depth(t)' PROVE Passed(stack[t][i])'
    BY DEF PassedInv
  <2>1. CASE t # th
    BY <2>1, <1>4, <1>6, <1>7 DEF Inv, PassedInv, Passed
  <2>2. CASE t = th /\ i = 1
    BY <2>2, <1>4, <1>6 DEF Passed
  <2>3. CASE t = th /\ i # 1
    BY <2>3, <1>4, <1>6, <1>7 DEF Inv, PassedInv, Passed
  <2>4. QED
    BY <2>1, <2>2, <2>3
<1>12. RestType'
  BY <1>1 DEF Inv, TypeOK, RestType, RunsAlone, Dropped, turn
<1>13. ReadyIsFresh'
  BY DEF RunsAlone, Dropped, ReadyIsFresh
<1>14. QED
  BY <1>6, <1>10, <1>11, <1>12, <1>13, Whole DEF Inv

LEMMA StartsEarlyInv ==
  ASSUME Inv, NEW c \in Calls, StartsEarly(c)
  PROVE  Inv'
<1> DEFINE new == [id |-> started + 1, since |-> changes]
<1>1. new \in Results /\ new.since = changes
  BY DEF Inv, TypeOK, Results
<1>2. ready[c] \in Seq(Results) /\ ready' = [ready EXCEPT ![c] = Append(@, new)]
  BY DEF Inv, TypeOK, StartsEarly
<1> HIDE DEF new
<1>3. /\ Append(ready[c], new) \in Seq(Results)
      /\ \A i \in DOMAIN Append(ready[c], new) :
           Append(ready[c], new)[i] = new
             \/ (i \in DOMAIN ready[c] /\ Append(ready[c], new)[i] = ready[c][i])
  BY <1>1, <1>2
<1>4. /\ ready' \in [Calls -> Seq(Results)] /\ ready'[c] = Append(ready[c], new)
      /\ \A d \in Calls \ {c} : ready'[d] = ready[d]
  BY <1>2, <1>3 DEF Inv, TypeOK
<1>5. UNCHANGED <<launch, changes, commit, abort, asked, stack, todo>> /\ started' = started + 1
  BY DEF StartsEarly, turn
<1>6. RestType' /\ StackType'
  BY <1>4, <1>5, Whole DEF Inv, RestType, StackType
<1>7. AloneInv' /\ PassedInv'
  BY <1>5 DEF Inv, AloneInv, Alone, Depth, PassedInv, Passed
<1>8. ReadyIsFresh'
  <2> SUFFICES ASSUME NEW d \in Calls, NEW i \in DOMAIN ready'[d]
               PROVE  ready'[d][i].since = changes
    BY <1>5 DEF ReadyIsFresh
  <2>1. CASE d = c
    BY <2>1, <1>1, <1>3, <1>4 DEF Inv, ReadyIsFresh
  <2>2. CASE d # c
    BY <2>2, <1>4 DEF Inv, ReadyIsFresh
  <2>3. QED
    BY <2>1, <2>2
<1>9. QED
  BY <1>6, <1>7, <1>8, Whole DEF Inv

LEMMA HookInv ==
  ASSUME Inv, NEW th \in Threads, Hook(th)
  PROVE  Inv'
<1> USE DEF Steps
<1>1. stack[th] # <<>>
  BY DEF Hook, Takes, EarlyReturns, PassesGate, Asks, HearsVerdict, Held, Aborts,
         Decides, RunsAlone, RunReturns, AloneReturns, At
<1>2. Top(th) \in Frames /\ Passed(Top(th))
  BY <1>1, TopFrame
<1>3. \A step \in Steps :
        LET f == [Top(th) EXCEPT !.step = step]
        IN  f.step = step /\ f.call = Top(th).call
  BY <1>2 DEF Frames
<1>4. CASE Takes(th)
  BY <1>4, TakesInv
<1>5. CASE EarlyReturns(th) \/ Aborts(th) \/ RunReturns(th)
  <2>1. ~At(th, "alone") /\ stack' = Returned(th) /\ UNCHANGED <<launch, early, turn, asked, todo>>
    BY <1>5 DEF EarlyReturns, Aborts, RunReturns, At
  <2>2. QED
    BY <1>1, <2>1, Leaves
<1>6. CASE AloneReturns(th)
  <2>1. /\ At(th, "alone") /\ launch' = Nobody
        /\ stack' = Returned(th) /\ UNCHANGED <<early, turn, asked, todo>>
    BY <1>6 DEF AloneReturns, Unlocked
  <2>2. QED
    BY <1>1, <2>1, Leaves
<1>7. CASE PassesGate(th) \/ Held(th)
  <2>1. commit /\ stack' = Moved(th, "decide") /\ UNCHANGED <<launch, early, turn, asked, todo>>
    BY <1>7 DEF PassesGate, Held
  <2>2. Passed([Top(th) EXCEPT !.step = "decide"])
    BY <1>3, <2>1 DEF Passed
  <2>3. QED
    BY <1>1, <2>1, <2>2, MovesOn
<1>8. CASE Asks(th)
  <2>1. Top(th).call \in Calls
    BY <1>2 DEF Frames
  <2>2. UNCHANGED <<launch, early, turn, stack, todo>> /\ asked' = asked \cup {Top(th).call}
    BY <1>8 DEF Asks
  <2>3. QED
    BY <2>1, <2>2 DEF Inv, TypeOK, AloneInv, Alone, Depth, PassedInv, Passed,
                      ReadyIsFresh, early, turn
<1>9. CASE HearsVerdict(th)
  <2> DEFINE step == NextAfterVerdict(Top(th).call)
  <2>1. stack' = Moved(th, step) /\ UNCHANGED <<launch, early, turn, asked, todo>>
    BY <1>9 DEF HearsVerdict
  <2>2. /\ step \in {"decide", "hold"}
        /\ Top(th).call \notin Allowed => step = "hold"
    BY DEF NextAfterVerdict
  <2> HIDE DEF step
  <2>3. Passed([Top(th) EXCEPT !.step = step])
    BY <1>3, <2>2 DEF Passed
  <2>4. step \in Steps /\ step # "alone"
    BY <2>2
  <2>5. QED
    BY <1>1, <2>1, <2>3, <2>4, MovesOn
<1>10. CASE Decides(th)
  <2> DEFINE step == IF KnownSafe(Top(th).call) THEN "run" ELSE "enter"
  <2>1. /\ stack' = Moved(th, step) /\ UNCHANGED <<launch, early, turn, asked, todo>>
        /\ ~abort /\ Top(th).step = "decide"
    BY <1>10 DEF Decides, At
  <2>2. step \in Steps /\ step \in {"run", "enter"}
    OBVIOUS
  <2> HIDE DEF step
  <2>3. Passed([Top(th) EXCEPT !.step = step])
    BY <1>2, <1>3, <2>1, <2>2 DEF Passed
  <2>4. step # "alone"
    BY <2>2
  <2>5. QED
    BY <1>1, <2>1, <2>2, <2>3, <2>4, MovesOn
<1>11. CASE RunsAlone(th)
  <2>1. Top(th).step = "enter"
    BY <1>11 DEF RunsAlone, At
  <2>2. Passed([Top(th) EXCEPT !.step = "alone"])
    BY <1>2, <1>3, <2>1 DEF Passed
  <2>3. QED
    BY <1>11, <2>2, RunsAloneInv
<1>12. QED
  BY <1>4, <1>5, <1>6, <1>7, <1>8, <1>9, <1>10, <1>11 DEF Hook

LEMMA PlannerInv ==
  ASSUME Inv, Commits \/ \E c \in Calls : PlanAsks(c)
  PROVE  Inv'
<1>1. CASE Commits
  <2>1. ~commit /\ UNCHANGED <<launch, ready, started, changes, asked, stack, todo>>
          /\ commit' \in BOOLEAN /\ abort' \in BOOLEAN
    BY <1>1 DEF Commits, early
  <2>2. PassedInv'
    BY <2>1 DEF Inv, PassedInv, Passed, Depth
  <2>3. QED
    BY <2>1, <2>2 DEF Inv, TypeOK, AloneInv, Alone, Depth, ReadyIsFresh
<1>2. CASE \E c \in Calls : PlanAsks(c)
  <2>1. UNCHANGED <<launch, early, turn, stack, todo>> /\ asked' \subseteq Calls
    BY <1>2 DEF Inv, TypeOK, PlanAsks
  <2>2. QED
    BY <2>1 DEF Inv, TypeOK, AloneInv, Alone, Depth, PassedInv, Passed,
                ReadyIsFresh, early, turn
<1>3. QED
  BY <1>1, <1>2

LEMMA StepInv == Inv /\ [Next]_vars => Inv'
<1> SUFFICES ASSUME Inv, [Next]_vars PROVE Inv'
  OBVIOUS
<1>1. CASE UNCHANGED vars
  BY <1>1 DEF Inv, TypeOK, AloneInv, Alone, Depth, PassedInv, Passed, ReadyIsFresh, vars
<1>2. CASE Next
  BY <1>2, HookInv, EntersInv, StartsEarlyInv, PlannerInv DEF Next
<1>3. QED
  BY <1>1, <1>2

(* Every reachable state satisfies the invariant. *)
THEOREM InvHolds == Spec => []Inv
  BY InitInv, StepInv, PTL DEF Spec

(* Every reachable state is well formed. *)
THEOREM TypeSafe == Spec => []TypeOK
<1>1. Inv => TypeOK
  BY DEF Inv
<1>2. QED
  BY <1>1, InvHolds, PTL

(* State-changing calls never overlap, however many threads call and however
   deep (repl.py:808-812).                                                 *)
THEOREM OneAtATime == Spec => []UnsafeOneAtATime
<1>1. Inv => UnsafeOneAtATime
  <2> SUFFICES ASSUME Inv, NEW th \in Threads, NEW i \in DOMAIN stack[th],
                      stack[th][i].step = "alone"
               PROVE  launch = th
    BY DEF UnsafeOneAtATime, In
  <2>1. stack[th] \in Seq(Frames)
    BY DEF Inv, TypeOK, Frames
  <2>2. Alone(th, i)
    BY <2>1 DEF Alone, Depth
  <2>3. QED
    BY <2>2 DEF Inv, AloneInv
<1>2. QED
  BY <1>1, InvHolds, PTL

(* What can be taken was started after the last change (repl.py:811, 875). *)
THEOREM AlwaysFresh == Spec => []ReadyIsFresh
<1>1. Inv => ReadyIsFresh
  BY DEF Inv
<1>2. QED
  BY <1>1, InvHolds, PTL

(* Denied calls wait for a commit without an abort, from any thread and at any
   depth (repl.py:799-806).                                                *)
THEOREM DeniedAlwaysWait == Spec => []DeniedWait
<1>1. Inv => DeniedWait
  <2> SUFFICES ASSUME Inv, NEW th \in Threads, NEW i \in DOMAIN stack[th],
                      stack[th][i].call \notin Allowed,
                      stack[th][i].step \in {"run", "enter", "alone"}
               PROVE  commit /\ ~abort
    BY DEF DeniedWait
  <2>1. stack[th] \in Seq(Frames)
    BY DEF Inv, TypeOK, Frames
  <2>2. Passed(stack[th][i])
    BY <2>1 DEF Inv, PassedInv, Depth
  <2>3. QED
    BY <2>2 DEF Passed
<1>2. QED
  BY <1>1, InvHolds, PTL

-----------------------------------------------------------------------------
(* Early results: the one a call has taken, those still to be taken, and no
   number in two places.                                                   *)
Has(th, i, n) == i \in Depth(th) /\ stack[th][i].use # NoResult /\ stack[th][i].use.id = n
Lies(c, k, n) == k \in 1..Len(ready[c]) /\ ready[c][k].id = n

OnceInv ==
  /\ \A th \in Threads : \A i, n : Has(th, i, n) => n \in 1..started
  /\ \A c \in Calls : \A k, n : Lies(c, k, n) => n \in 1..started
  /\ \A t1, t2 \in Threads : \A i, j, n : Has(t1, i, n) /\ Has(t2, j, n) => t1 = t2 /\ i = j
  /\ \A c, d \in Calls : \A k, l, n : Lies(c, k, n) /\ Lies(d, l, n) => c = d /\ k = l
  /\ \A th \in Threads, c \in Calls : \A i, k, n : ~(Has(th, i, n) /\ Lies(c, k, n))

LEMMA OnceInit == Init => OnceInv
<1> SUFFICES ASSUME Init PROVE OnceInv
  OBVIOUS
<1>1. \A th \in Threads : stack[th] = <<>>
  BY DEF Init
<1>2. \A c \in Calls : ready[c] = <<>>
  BY DEF Init
<1>3. 1..Len(<<>>) = {}
  OBVIOUS
<1>4. \A th \in Threads : \A i, n : ~Has(th, i, n)
  BY <1>1, <1>3, Zenon DEF Has, Depth
<1>5. \A c \in Calls : \A k, n : ~Lies(c, k, n)
  BY <1>2, <1>3, Zenon DEF Lies
<1>6. QED
  BY <1>4, <1>5 DEF OnceInv

(* Stacks may grow and shrink at the top, and results be dropped. *)
LEMMA Shifted ==
  ASSUME OnceInv, UNCHANGED started, NEW by \in [Threads -> Int],
         \A th \in Threads : \A i, n : Has(th, i, n)' => i \in Int /\ Has(th, i + by[th], n),
         \A c \in Calls : \A k, n : Lies(c, k, n)' => Lies(c, k, n)
  PROVE  OnceInv'
<1>1. ASSUME NEW t1 \in Threads, NEW t2 \in Threads, NEW i, NEW j, NEW n,
             Has(t1, i, n)', Has(t2, j, n)'
      PROVE  t1 = t2 /\ i = j
  <2>1. i \in Int /\ j \in Int /\ Has(t1, i + by[t1], n) /\ Has(t2, j + by[t2], n)
    BY <1>1
  <2>2. t1 = t2 /\ i + by[t1] = j + by[t2]
    BY <2>1 DEF OnceInv
  <2>3. by[t1] \in Int
    OBVIOUS
  <2>4. QED
    BY <2>1, <2>2, <2>3
<1>2. \A th \in Threads : \A i, n : Has(th, i, n)' => n \in 1..started'
  BY DEF OnceInv
<1>3. \A c \in Calls : \A k, n : Lies(c, k, n)' => n \in 1..started'
  BY DEF OnceInv
<1>4. \A c, d \in Calls : \A k, l, n : Lies(c, k, n)' /\ Lies(d, l, n)' => c = d /\ k = l
  BY DEF OnceInv
<1>5. \A th \in Threads, c \in Calls : \A i, k, n : ~(Has(th, i, n)' /\ Lies(c, k, n)')
  BY DEF OnceInv
<1>6. QED
  BY <1>1, <1>2, <1>3, <1>4, <1>5 DEF OnceInv

(* Nothing moves but the top of a stack, which keeps its result. *)
LEMMA OnceMoves ==
  ASSUME Inv, OnceInv, NEW th \in Threads, stack[th] # <<>>, NEW step \in Steps,
         stack' = Moved(th, step), UNCHANGED started,
         \A c \in Calls : \A k, n : Lies(c, k, n)' => Lies(c, k, n)
  PROVE  OnceInv'
<1>1. Top(th) \in Frames /\ StackType
  BY TopFrame DEF Inv, TypeOK, StackType, Frames
<1>2. PICK f \in Frames : f = [Top(th) EXCEPT !.step = step]
  BY <1>1 DEF Frames
<1>3. stack' = [stack EXCEPT ![th] = <<f>> \o Tail(@)] /\ f.use = Top(th).use
  BY <1>1, <1>2 DEF Moved, Top, Frames
<1>4. /\ Len(stack[th]) \in Nat \ {0} /\ Len(stack'[th]) = Len(stack[th])
      /\ stack'[th][1] = f
      /\ \A i \in Depth(th) \ {1} : stack'[th][i] = stack[th][i]
      /\ \A o \in Threads \ {th} : stack'[o] = stack[o]
  BY <1>1, <1>2, <1>3, Replace
<1>5. Top(th) = stack[th][1]
  BY <1>1, Rest DEF StackType, Top
<1>6. \A t \in Threads : Depth(t)' = Depth(t)
  BY <1>4 DEF Depth
<1>7. \A t \in Threads : \A i \in Depth(t) : stack'[t][i].use = stack[t][i].use
  BY <1>3, <1>4, <1>5
<1>8. \A t \in Threads : \A i, n : Has(t, i, n)' => i \in Int /\ Has(t, i, n)
  BY <1>6, <1>7 DEF Has, Depth
<1> DEFINE by == [t \in Threads |-> 0]
<1>9. by \in [Threads -> Int] /\ \A t \in Threads : \A i \in Int : i + by[t] = i
  OBVIOUS
<1> HIDE DEF by
<1>10. \A t \in Threads : \A i, n : Has(t, i, n)' => i \in Int /\ Has(t, i + by[t], n)
  BY <1>8, <1>9
<1>11. QED
  BY <1>9, <1>10, Shifted

LEMMA OnceReturns ==
  ASSUME Inv, OnceInv, NEW th \in Threads, stack[th] # <<>>, stack' = Returned(th),
         UNCHANGED <<ready, started>>
  PROVE  OnceInv'
<1>1. StackType
  BY DEF Inv, TypeOK, StackType, Frames
<1>2. /\ Len(stack[th]) \in Nat \ {0} /\ Len(stack'[th]) = Len(stack[th]) - 1
      /\ \A i \in Depth(th)' : stack'[th][i] = stack[th][i + 1]
      /\ \A o \in Threads \ {th} : stack'[o] = stack[o]
  BY <1>1, Pop
<1> DEFINE by == [t \in Threads |-> IF t = th THEN 1 ELSE 0]
<1>3. by \in [Threads -> Int] /\ by[th] = 1 /\ \A t \in Threads \ {th} : by[t] = 0
  OBVIOUS
<1> HIDE DEF by
<1>4. \A i, n : Has(th, i, n)' => i \in Int /\ Has(th, i + 1, n)
  BY <1>2 DEF Has, Depth
<1>5. \A t \in Threads \ {th} : \A i, n : Has(t, i, n)' => i \in Int /\ Has(t, i + 0, n)
  BY <1>2 DEF Has, Depth
<1>6. \A t \in Threads : \A i, n : Has(t, i, n)' => i \in Int /\ Has(t, i + by[t], n)
  BY <1>3, <1>4, <1>5
<1>7. \A c \in Calls : \A k, n : Lies(c, k, n)' => Lies(c, k, n)
  BY DEF Lies
<1>8. QED
  BY <1>3, <1>6, <1>7, Shifted

LEMMA OnceEnters ==
  ASSUME Inv, OnceInv, NEW th \in Threads, NEW c \in Calls, Enters(th, c)
  PROVE  OnceInv'
<1> DEFINE f == Frame(c, "take", NoResult)
<1>1. f \in Frames /\ f.use = NoResult
  BY DEF Frame, Frames, Steps, NoResult, Results
<1>2. StackType /\ stack' = [stack EXCEPT ![th] = <<f>> \o @] /\ UNCHANGED <<ready, started>>
  BY DEF Inv, TypeOK, StackType, Frames, Enters, early
<1> HIDE DEF f
<1>3. /\ Len(stack'[th]) = Len(stack[th]) + 1 /\ stack'[th][1] = f
      /\ \A i \in Depth(th) : stack'[th][i + 1] = stack[th][i]
      /\ \A o \in Threads \ {th} : stack'[o] = stack[o]
  BY <1>1, <1>2, Push
<1>4. Len(stack[th]) \in Nat
  BY <1>2 DEF StackType
<1> DEFINE by == [t \in Threads |-> IF t = th THEN -1 ELSE 0]
<1>5. by \in [Threads -> Int] /\ by[th] = -1 /\ \A t \in Threads \ {th} : by[t] = 0
  OBVIOUS
<1> HIDE DEF by
<1>6. ASSUME NEW i, NEW n, Has(th, i, n)' PROVE i \in Int /\ Has(th, i + (-1), n)
  <2>1. i \in 1..(Len(stack[th]) + 1) /\ i # 1
    BY <1>1, <1>3, <1>6 DEF Has, Depth
  <2>2. i - 1 \in Depth(th) /\ (i - 1) + 1 = i /\ i + (-1) = i - 1
    BY <1>4, <2>1 DEF Depth
  <2>3. stack'[th][i] = stack[th][i - 1]
    BY <1>3, <2>2
  <2>4. QED
    BY <1>6, <2>1, <2>2, <2>3 DEF Has
<1>7. \A t \in Threads \ {th} : \A i, n : Has(t, i, n)' => i \in Int /\ Has(t, i + 0, n)
  BY <1>3 DEF Has, Depth
<1>8. \A t \in Threads : \A i, n : Has(t, i, n)' => i \in Int /\ Has(t, i + by[t], n)
  BY <1>5, <1>6, <1>7
<1>9. \A d \in Calls : \A k, n : Lies(d, k, n)' => Lies(d, k, n)
  BY <1>2 DEF Lies
<1>10. QED
  BY <1>2, <1>5, <1>8, <1>9, Shifted

(* The first of a call's results goes to the call in hand: its number is in
   one place less there, and in one more here.                             *)
LEMMA OnceTakes ==
  ASSUME Inv, OnceInv, NEW th \in Threads, Takes(th), ready[Top(th).call] # <<>>
  PROVE  OnceInv'
<1>1. stack[th] # <<>> /\ Top(th) \in Frames
  BY TopFrame DEF Takes, At
<1>2. PICK c \in Calls : c = Top(th).call
  BY <1>1 DEF Frames
<1>3. ready[c] \in Seq(Results) /\ ready[c] # <<>>
  BY <1>2 DEF Inv, TypeOK
<1>4. /\ Len(Tail(ready[c])) = Len(ready[c]) - 1 /\ Len(ready[c]) \in Nat \ {0}
      /\ \A k \in 1..(Len(ready[c]) - 1) : Tail(ready[c])[k] = ready[c][k + 1]
      /\ Head(ready[c]) = ready[c][1] /\ ready[c][1] \in Results
  BY <1>3, Rest
<1>5. PICK f \in Frames : f = Frame(c, "early", ready[c][1])
  BY <1>1, <1>4 DEF Frame, Frames, Steps
<1>6. /\ stack' = [stack EXCEPT ![th] = <<f>> \o Tail(@)]
      /\ ready' = [ready EXCEPT ![c] = Tail(@)] /\ started' = started
      /\ f.use = ready[c][1]
  BY <1>3, <1>4, <1>5, <1>2 DEF Takes, AfterTaking, Frame
<1>7. StackType
  BY DEF Inv, TypeOK, StackType, Frames
<1>8. /\ Len(stack'[th]) = Len(stack[th])
      /\ stack'[th][1] = f
      /\ \A i \in Depth(th) \ {1} : stack'[th][i] = stack[th][i]
      /\ \A o \in Threads \ {th} : stack'[o] = stack[o]
  BY <1>1, <1>5, <1>6, <1>7, Replace
<1>9. ready'[c] = Tail(ready[c]) /\ \A d \in Calls \ {c} : ready'[d] = ready[d]
  BY <1>1, <1>6 DEF Inv, TypeOK
<1>10. \A n : Has(th, 1, n)' => Lies(c, 1, n)
  BY <1>4, <1>6, <1>8 DEF Has, Lies
<1>11. \A t \in Threads : \A i, n : Has(t, i, n)' /\ ~(t = th /\ i = 1) => Has(t, i, n)
  BY <1>8 DEF Has, Depth
<1>12. \A k, n : Lies(c, k, n)' => k \in Int /\ k + 1 # 1 /\ Lies(c, k + 1, n)
  <2> SUFFICES ASSUME NEW k, NEW n, Lies(c, k, n)'
               PROVE  k \in Int /\ k + 1 # 1 /\ Lies(c, k + 1, n)
    OBVIOUS
  <2>1. k \in 1..(Len(ready[c]) - 1) /\ ready'[c][k].id = n
    BY <1>4, <1>9 DEF Lies
  <2>2. ready'[c][k] = ready[c][k + 1] /\ k + 1 \in 1..Len(ready[c]) /\ k + 1 # 1
    BY <1>4, <1>9, <2>1
  <2>3. QED
    BY <2>1, <2>2 DEF Lies
<1>13. \A d \in Calls \ {c} : \A k, n : Lies(d, k, n)' => Lies(d, k, n)
  BY <1>9 DEF Lies
<1>14. \A d \in Calls : \A k, n : Lies(d, k, n)' => \E l : Lies(d, l, n) /\ ~(d = c /\ l = 1)
  BY <1>12, <1>13
<1>15. ASSUME NEW t1 \in Threads, NEW t2 \in Threads, NEW i, NEW j, NEW n,
              Has(t1, i, n)', Has(t2, j, n)'
       PROVE  t1 = t2 /\ i = j
  <2>1. CASE t1 = th /\ i = 1
    BY <1>1, <1>10, <1>11, <1>15, <2>1 DEF OnceInv
  <2>2. CASE t2 = th /\ j = 1
    BY <1>1, <1>10, <1>11, <1>15, <2>2 DEF OnceInv
  <2>3. CASE ~(t1 = th /\ i = 1) /\ ~(t2 = th /\ j = 1)
    BY <1>11, <1>15, <2>3 DEF OnceInv
  <2>4. QED
    BY <2>1, <2>2, <2>3
<1>16. ASSUME NEW d \in Calls, NEW e \in Calls, NEW k, NEW l, NEW n,
              Lies(d, k, n)', Lies(e, l, n)'
       PROVE  d = e /\ k = l
  <2>1. d = e
    BY <1>14, <1>16 DEF OnceInv
  <2>2. CASE d # c
    BY <1>13, <1>16, <2>1, <2>2 DEF OnceInv
  <2>3. CASE d = c
    <3>1. k \in Int /\ l \in Int /\ Lies(c, k + 1, n) /\ Lies(c, l + 1, n)
      BY <1>12, <1>16, <2>1, <2>3
    <3>2. k + 1 = l + 1
      BY <1>1, <3>1 DEF OnceInv
    <3>3. QED
      BY <2>1, <3>1, <3>2
  <2>4. QED
    BY <2>2, <2>3
<1>17. ASSUME NEW t \in Threads, NEW d \in Calls, NEW i, NEW k, NEW n,
              Has(t, i, n)', Lies(d, k, n)'
       PROVE  FALSE
  <2>1. PICK l : Lies(d, l, n) /\ ~(d = c /\ l = 1)
    BY <1>14, <1>17
  <2>2. CASE t = th /\ i = 1
    BY <1>1, <1>10, <1>17, <2>1, <2>2 DEF OnceInv
  <2>3. CASE ~(t = th /\ i = 1)
    BY <1>11, <1>17, <2>1, <2>3 DEF OnceInv
  <2>4. QED
    BY <2>2, <2>3
<1>18. \A t \in Threads : \A i, n : Has(t, i, n)' => n \in 1..started'
  BY <1>1, <1>6, <1>10, <1>11 DEF OnceInv
<1>19. \A d \in Calls : \A k, n : Lies(d, k, n)' => n \in 1..started'
  BY <1>6, <1>14 DEF OnceInv
<1>20. QED
  BY <1>15, <1>16, <1>17, <1>18, <1>19 DEF OnceInv

(* A result just started has a number no other has had. *)
LEMMA OnceStarts ==
  ASSUME Inv, OnceInv, NEW c \in Calls, StartsEarly(c)
  PROVE  OnceInv'
<1> DEFINE new == [id |-> started + 1, since |-> changes]
<1>1. new.id = started + 1 /\ started \in Nat /\ started' = started + 1
  BY DEF Inv, TypeOK, StartsEarly
<1>2. ready[c] \in Seq(Results) /\ ready' = [ready EXCEPT ![c] = Append(@, new)]
  BY DEF Inv, TypeOK, StartsEarly
<1> HIDE DEF new
<1>3. /\ Len(Append(ready[c], new)) = Len(ready[c]) + 1 /\ Len(ready[c]) \in Nat
      /\ Append(ready[c], new)[Len(ready[c]) + 1] = new
      /\ \A k \in 1..Len(ready[c]) : Append(ready[c], new)[k] = ready[c][k]
  BY <1>2
<1>4. ready'[c] = Append(ready[c], new) /\ \A d \in Calls \ {c} : ready'[d] = ready[d]
  BY <1>2 DEF Inv, TypeOK
<1>5. \A t \in Threads : \A i, n : Has(t, i, n)' => Has(t, i, n)
  BY DEF StartsEarly, Has, Depth
<1>6. \A k, n : Lies(c, k, n)' =>
        Lies(c, k, n) \/ (k = Len(ready[c]) + 1 /\ n = started + 1)
  BY <1>1, <1>3, <1>4 DEF Lies
<1>7. \A d \in Calls \ {c} : \A k, n : Lies(d, k, n)' => Lies(d, k, n)
  BY <1>4 DEF Lies
<1>8. /\ \A t \in Threads : \A i, n : Has(t, i, n) => n \in 1..started
      /\ \A d \in Calls : \A k, n : Lies(d, k, n) => n \in 1..started
  BY DEF OnceInv
<1>9. \A n \in 1..started : n # started + 1 /\ n \in 1..(started + 1)
  BY <1>1
<1>10. started + 1 \in 1..(started + 1)
  BY <1>1
<1>11. \A t \in Threads : \A i, n : Has(t, i, n)' => n \in 1..started'
  BY <1>1, <1>5, <1>8, <1>9
<1>12. \A d \in Calls : \A k, n : Lies(d, k, n)' => n \in 1..started'
  BY <1>1, <1>6, <1>7, <1>8, <1>9, <1>10
<1>13. \A d, e \in Calls : \A k, l, n : Lies(d, k, n)' /\ Lies(e, l, n)' => d = e /\ k = l
  BY <1>6, <1>7, <1>8, <1>9 DEF OnceInv
<1>14. \A t \in Threads, d \in Calls : \A i, k, n : ~(Has(t, i, n)' /\ Lies(d, k, n)')
  BY <1>5, <1>6, <1>7, <1>8, <1>9 DEF OnceInv
<1>15. \A t1, t2 \in Threads : \A i, j, n : Has(t1, i, n)' /\ Has(t2, j, n)' => t1 = t2 /\ i = j
  BY <1>5 DEF OnceInv
<1>16. QED
  BY <1>11, <1>12, <1>13, <1>14, <1>15 DEF OnceInv

LEMMA OnceStep == Inv /\ OnceInv /\ [Next]_vars => OnceInv'
<1> SUFFICES ASSUME Inv, OnceInv, [Next]_vars PROVE OnceInv'
  OBVIOUS
<1> USE DEF early, Steps
<1>1. CASE UNCHANGED <<stack, ready, started>>
  BY <1>1 DEF OnceInv, Has, Lies, Depth
<1>2. ASSUME NEW th \in Threads, Hook(th) PROVE OnceInv'
  <2>1. stack[th] # <<>>
    BY <1>2 DEF Hook, Takes, EarlyReturns, PassesGate, Asks, HearsVerdict, Held, Aborts,
                Decides, RunsAlone, RunReturns, AloneReturns, At
  <2>2. CASE ready' = ready /\ started' = started /\ \E step \in Steps : stack' = Moved(th, step)
    <3>1. \A c \in Calls : \A k, n : Lies(c, k, n)' => Lies(c, k, n)
      BY <2>2 DEF Lies
    <3>2. QED
      BY <2>1, <2>2, <3>1, OnceMoves
  <2>3. CASE stack' = Returned(th) /\ UNCHANGED <<ready, started>>
    BY <2>1, <2>3, OnceReturns
  <2>4. CASE Takes(th) /\ ready[Top(th).call] # <<>>
    BY <2>4, OnceTakes
  <2>5. CASE RunsAlone(th)
    <3>1. ready' = Dropped /\ started' = started /\ stack' = Moved(th, "alone")
      BY <2>5 DEF RunsAlone
    <3>2. \A c \in Calls : ready'[c] = <<>>
      BY <3>1 DEF Dropped
    <3>3. 1..Len(<<>>) = {}
      OBVIOUS
    <3>4. \A c \in Calls : \A k, n : ~Lies(c, k, n)'
      BY <3>2, <3>3, Zenon DEF Lies
    <3>5. QED
      BY <2>1, <3>1, <3>4, OnceMoves
  <2>6. CASE Asks(th)
    BY <2>6, <1>1 DEF Asks
  <2>7. \/ ready' = ready /\ started' = started /\ \E step \in Steps : stack' = Moved(th, step)
        \/ stack' = Returned(th) /\ UNCHANGED <<ready, started>>
        \/ Takes(th) /\ ready[Top(th).call] # <<>>
        \/ RunsAlone(th) \/ Asks(th)
    <3>1. CASE Takes(th)
      BY <3>1 DEF Takes
    <3>2. CASE EarlyReturns(th) \/ Aborts(th) \/ RunReturns(th) \/ AloneReturns(th)
      BY <3>2 DEF EarlyReturns, Aborts, RunReturns, AloneReturns
    <3>3. CASE PassesGate(th) \/ Held(th) \/ HearsVerdict(th) \/ Decides(th)
      BY <3>3 DEF PassesGate, Held, HearsVerdict, NextAfterVerdict, Decides
    <3>4. QED
      BY <1>2, <3>1, <3>2, <3>3 DEF Hook
  <2>8. QED
    BY <2>2, <2>3, <2>4, <2>5, <2>6, <2>7
<1>3. CASE Commits \/ \E c \in Calls : PlanAsks(c)
  BY <1>1, <1>3 DEF Commits, PlanAsks
<1>4. CASE UNCHANGED vars
  BY <1>1, <1>4 DEF vars
<1>5. QED
  BY <1>2, <1>3, <1>4, OnceEnters, OnceStarts DEF Next

(* An early result is taken by one thread, and once (repl.py:794-796). *)
THEOREM EachTakenOnce == Spec => []TakenOnce
<1>1. Inv /\ OnceInv => TakenOnce
  <2> SUFFICES ASSUME Inv, OnceInv PROVE TakenOnce
    OBVIOUS
  <2>1. \A th \in Threads : stack[th] \in Seq(Frames) /\ DOMAIN stack[th] = Depth(th)
    <3>1. \A th \in Threads : stack[th] \in Seq(Frames)
      BY DEF Inv, TypeOK, Frames
    <3>2. ASSUME NEW th \in Threads PROVE DOMAIN stack[th] = Depth(th)
      BY <3>1 DEF Depth
    <3>3. QED
      BY <3>1, <3>2
  <2>2. \A c \in Calls : ready[c] \in Seq(Results) /\ DOMAIN ready[c] = 1..Len(ready[c])
    BY DEF Inv, TypeOK
  <2>3. \A th \in Threads : \A i \in DOMAIN stack[th] :
          stack[th][i].use # NoResult => Has(th, i, stack[th][i].use.id)
    BY <2>1 DEF Has
  <2>4. \A c \in Calls : \A k \in DOMAIN ready[c] : Lies(c, k, ready[c][k].id)
    BY <2>2 DEF Lies
  <2>5. ASSUME NEW t1 \in Threads, NEW t2 \in Threads,
               NEW i \in DOMAIN stack[t1], NEW j \in DOMAIN stack[t2],
               stack[t1][i].use # NoResult, stack[t1][i].use = stack[t2][j].use
        PROVE  t1 = t2 /\ i = j
    BY <2>3, <2>5 DEF OnceInv
  <2>6. ASSUME NEW th \in Threads, NEW i \in DOMAIN stack[th],
               NEW c \in Calls, NEW k \in DOMAIN ready[c], ready[c][k] = stack[th][i].use
        PROVE  FALSE
    <3>1. Lies(c, k, ready[c][k].id) /\ ready[c][k].id \in 1..started
      BY <2>4 DEF OnceInv
    <3>2. ready[c][k] # NoResult
      BY <3>1 DEF NoResult
    <3>3. QED
      BY <2>3, <2>6, <3>1, <3>2 DEF OnceInv
  <2>7. QED
    BY <2>5, <2>6 DEF TakenOnce
<1>2. QED
  BY <1>1, OnceInit, OnceStep, InvHolds, PTL DEF Spec
=============================================================================
