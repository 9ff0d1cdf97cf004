----------------------------- MODULE GateProofs -----------------------------
(* Gate proved for any number of threads and calls, and any thresholds: each *)
(* call is asked once, nobody learns a verdict the audit trail does not have, *)
(* and nothing is launched that the judge was not sure of.                    *)
EXTENDS Gate, TLAPS

Carrying == {"reduce", "submit", "watch"}
Requests == [state : {"none", "pending", "yes", "no"}, by : Nat, watched : BOOLEAN]

(* A thread on its way to the worker is alone with its call: nothing has been
   settled, watched or delivered.                                            *)
CarrierInv ==
  \A c \in Callers :
    /\ pc[c] # "idle" => call[c] \in Calls
    /\ pc[c] \in Carrying => /\ verdict[call[c]] = "pending" /\ deliver[call[c]] = "idle"
                             /\ ~request[call[c]].watched
    /\ pc[c] \in {"reduce", "submit"} => request[call[c]].state = "none"
    /\ pc[c] \in {"submit", "watch"} => call[c] \notin Broken
    /\ pc[c] = "watch" => request[call[c]].state # "none"

(* How far the request, its delivery and the verdict of one call can be apart. *)
CallInv ==
  \A k \in Calls :
    /\ verdict[k] = "none" => request[k].state = "none"
    /\ request[k].state = "none" => deliver[k] = "idle" /\ ~request[k].watched
    /\ request[k].state = "pending" => deliver[k] = "idle"
    /\ request[k].state = "yes" => k \in said
    /\ request[k].state # "none" => k \notin Broken
    /\ verdict[k] \in {"yes", "no"} => k \in Broken \/ deliver[k] \in {"tell", "done"}
    /\ deliver[k] \in {"tell", "done"} => verdict[k] = request[k].state
    /\ k \in Broken => verdict[k] # "yes"

(* The trail has one entry from the moment before the future is set. *)
TrailInv ==
  \A k \in Calls :
    /\ deliver[k] \in {"idle", "record"} => Entries(k) = {}
    /\ deliver[k] \in {"settle", "tell", "done"} =>
         \E n \in Entries(k) : decisions[n].allowed = request[k].state
    /\ \A m, n \in Entries(k) : m = n
    /\ \A n \in DOMAIN queue : queue[n] = k => deliver[k] = "done"
    /\ \A n \in DOMAIN heard : heard[n] = k => deliver[k] = "done"

LaunchInv == \A k \in launched : verdict[k] = "yes"

Alone == \A k \in Calls : \A c, d \in Callers : Carries(c, k) /\ Carries(d, k) => c = d

Inv == TypeOK /\ Alone /\ CarrierInv /\ CallInv /\ TrailInv /\ LaunchInv

-----------------------------------------------------------------------------
THEOREM InvSuffices == Inv => AskedOnce /\ AuditFirst /\ FailsClosed
<1> SUFFICES ASSUME Inv PROVE AskedOnce /\ AuditFirst /\ FailsClosed
  OBVIOUS
<1>1. AskedOnce
  BY DEF Inv, Alone, CarrierInv, AskedOnce, Carries, Carrying, TypeOK
<1>2. AuditFirst
  <2> SUFFICES ASSUME NEW k \in Calls
               PROVE  /\ \A m, n \in Entries(k) : m = n
                      /\ Known(k) => \E n \in Entries(k) : decisions[n].allowed = verdict[k]
    BY DEF AuditFirst
  <2>1. Known(k) => deliver[k] \in {"tell", "done"}
    BY DEF Known, Inv, CallInv, TrailInv
  <2>2. QED
    BY <2>1 DEF Inv, CallInv, TrailInv
<1>3. FailsClosed
  <2> SUFFICES ASSUME NEW k \in launched PROVE k \in said \ Broken
    BY DEF FailsClosed
  <2>1. k \in Calls /\ verdict[k] = "yes"
    BY DEF Inv, TypeOK, LaunchInv
  <2>2. k \notin Broken /\ request[k].state = "yes"
    BY <2>1 DEF Inv, CallInv
  <2>3. QED
    BY <2>1, <2>2 DEF Inv, CallInv
<1>4. QED
  BY <1>1, <1>2, <1>3

THEOREM InitInv == Init => Inv
<1> SUFFICES ASSUME Init PROVE Inv
  OBVIOUS
<1> USE DEF Init
<1>1. TypeOK
  BY CallKinds DEF TypeOK, Callers
<1>2. Alone /\ CarrierInv
  BY DEF Alone, CarrierInv, Carries, Carrying
<1>3. CallInv
  BY DEF CallInv
<1>4. TrailInv
  BY DEF TrailInv, Entries
<1>5. LaunchInv
  BY DEF LaunchInv
<1>6. QED
  BY <1>1, <1>2, <1>3, <1>4, <1>5 DEF Inv

-----------------------------------------------------------------------------
(* The steps of a caller. *)

LEMMA WantsInv ==
  ASSUME Inv, NEW c \in Callers, NEW k \in Calls, Wants(c, k)
  PROVE  Inv'
<1>1. TypeOK'
  BY DEF Inv, TypeOK, Wants, Rests, Goes, workers, events
<1>2. UNCHANGED <<workers, request, said, deliver, decisions, queue, heard, launched>>
  BY DEF Wants, events
<1>3. CASE verdict[k] = "none"
  <2>1. /\ verdict' = [verdict EXCEPT ![k] = "pending"]
        /\ pc' = [pc EXCEPT ![c] = "reduce"] /\ call' = [call EXCEPT ![c] = k]
    BY <1>3 DEF Wants, NotCached, Goes
  <2>2. \A d \in Callers : pc[d] \in Carrying => call[d] # k
    BY <1>3 DEF Inv, CarrierInv
  <2>3. Alone'
    BY <2>1, <2>2 DEF Inv, TypeOK, Alone, Carries, Carrying
  <2>4. CarrierInv'
    BY <1>2, <1>3, <2>1, <2>2 DEF Inv, TypeOK, CarrierInv, CallInv, Carrying
  <2>5. CallInv'
    BY <1>2, <1>3, <2>1 DEF Inv, TypeOK, CallInv
  <2>6. TrailInv' /\ LaunchInv'
    BY <1>2, <1>3, <2>1 DEF Inv, TypeOK, TrailInv, Entries, LaunchInv, workers
  <2>7. QED
    BY <1>1, <2>3, <2>4, <2>5, <2>6 DEF Inv
<1>4. CASE verdict[k] # "none"
  <2>1. /\ verdict' = verdict /\ Rests(c, k)
    BY <1>4 DEF Wants, NotCached
  <2>2. Alone' /\ CarrierInv'
    BY <1>2, <2>1 DEF Inv, TypeOK, Alone, Carries, CarrierInv, Carrying, Rests, Goes
  <2>3. CallInv' /\ TrailInv' /\ LaunchInv'
    BY <1>2, <2>1 DEF Inv, CallInv, TrailInv, Entries, LaunchInv, workers
  <2>4. QED
    BY <1>1, <2>2, <2>3 DEF Inv
<1>5. QED
  BY <1>3, <1>4

LEMMA ReducerInv ==
  ASSUME Inv, NEW c \in Callers, ReducerRaises(c)
  PROVE  Inv'
<1> DEFINE k == call[c]
<1>1. /\ k \in Calls /\ k \in Broken /\ verdict[k] = "pending"
      /\ verdict' = [verdict EXCEPT ![k] = "no"] /\ Rests(c, k)
      /\ UNCHANGED <<workers, request, said, deliver, decisions, queue, heard, launched>>
  BY DEF ReducerRaises, Inv, CarrierInv, Carrying, events
<1>2. TypeOK'
  BY <1>1 DEF Inv, TypeOK, Rests, Goes, workers, ReducerRaises
<1>3. \A d \in Callers : pc[d] \in Carrying /\ call[d] = k => d = c
  BY <1>1 DEF Inv, Alone, Carries, Carrying, ReducerRaises
<1>4. Alone' /\ CarrierInv'
  BY <1>1, <1>3 DEF Inv, TypeOK, Alone, Carries, CarrierInv, Carrying, Rests, Goes
<1>5. CallInv'
  BY <1>1 DEF Inv, TypeOK, CallInv
<1>6. TrailInv' /\ LaunchInv'
  BY <1>1 DEF Inv, TypeOK, TrailInv, Entries, LaunchInv, workers
<1>7. QED
  BY <1>2, <1>4, <1>5, <1>6 DEF Inv

LEMMA WorkerInv ==
  ASSUME Inv, NEW c \in Callers, TakesWorker(c)
  PROVE  Inv'
<1>1. /\ pc[c] = "reduce" /\ call[c] \notin Broken
      /\ pc' = [pc EXCEPT ![c] = "submit"]
      /\ UNCHANGED <<call, own, closed, verdict, request, said, deliver, decisions, queue, heard, launched>>
  BY DEF TakesWorker, Goes, events
<1>2. current' \in Nat /\ (current' = current \/ current' = current + 1)
  BY DEF TakesWorker, Inv, TypeOK
<1>3. TypeOK'
  <2>1. worker' \in [Callers -> 0 .. current']
    BY <1>2 DEF TakesWorker, Inv, TypeOK
  <2>2. closed' \subseteq 1 .. current'
    BY <1>1, <1>2 DEF Inv, TypeOK
  <2>3. QED
    BY <1>1, <1>2, <2>1, <2>2 DEF Inv, TypeOK
<1>4. Alone' /\ CarrierInv'
  BY <1>1 DEF Inv, TypeOK, Alone, Carries, CarrierInv, Carrying
<1>5. CallInv' /\ TrailInv' /\ LaunchInv'
  BY <1>1 DEF Inv, CallInv, TrailInv, Entries, LaunchInv
<1>6. QED
  BY <1>3, <1>4, <1>5 DEF Inv

(* Whatever raises before the request is submitted leaves the call to nobody. *)
LEMMA RaisesInv ==
  ASSUME Inv, NEW c \in Callers, Raises(c)
  PROVE  Inv'
<1>1. /\ pc[c] \in {"reduce", "submit"}
      /\ pc' = [pc EXCEPT ![c] = "idle"] /\ call' = [call EXCEPT ![c] = NoCall]
      /\ worker' = [worker EXCEPT ![c] = 0]
      /\ UNCHANGED <<workers, verdict, request, said, deliver, decisions, queue, heard, launched>>
  BY DEF Raises, Goes, events
<1>2. TypeOK'
  BY <1>1 DEF Inv, TypeOK, workers
<1>3. Alone' /\ CarrierInv'
  BY <1>1 DEF Inv, TypeOK, Alone, Carries, CarrierInv, Carrying
<1>4. CallInv' /\ TrailInv' /\ LaunchInv'
  BY <1>1 DEF Inv, CallInv, TrailInv, Entries, LaunchInv
<1>5. QED
  BY <1>2, <1>3, <1>4 DEF Inv

LEMMA SubmitsInv ==
  ASSUME Inv, NEW c \in Callers, Submits(c)
  PROVE  Inv'
<1> DEFINE k == call[c]
<1>1. /\ k \in Calls /\ k \notin Broken /\ verdict[k] = "pending" /\ deliver[k] = "idle"
      /\ pc[c] = "submit" /\ request[k].state = "none" /\ pc' = [pc EXCEPT ![c] = "watch"]
      /\ UNCHANGED <<call, worker, workers, verdict, said, deliver, decisions, queue, heard, launched>>
  BY DEF Submits, Goes, Inv, CarrierInv, Carrying, events
<1>2. PICK new \in {"pending", "no"} :
        request' = [request EXCEPT ![k] = [state |-> new, by |-> worker[c], watched |-> FALSE]]
  BY DEF Submits
<1>3. request' \in [Calls -> [state : {"none", "pending", "yes", "no"}, by : Nat, watched : BOOLEAN]]
  BY <1>1, <1>2 DEF Inv, TypeOK
<1>4. TypeOK'
  BY <1>1, <1>3 DEF Inv, TypeOK, workers
<1>5. /\ request'[k].state = new /\ request'[k].watched = FALSE
      /\ \A j \in Calls \ {k} : request'[j] = request[j]
  BY <1>1, <1>2 DEF Inv, TypeOK
<1>6. \A d \in Callers : pc[d] \in Carrying /\ call[d] = k => d = c
  BY <1>1 DEF Inv, Alone, Carries, Carrying
<1>7. Alone'
  BY <1>1 DEF Inv, TypeOK, Alone, Carries, Carrying
<1>8. CarrierInv'
  BY <1>1, <1>5, <1>6 DEF Inv, TypeOK, CarrierInv, Carrying
<1>9. CallInv'
  BY <1>1, <1>5 DEF Inv, CallInv
<1>10. TrailInv'
  <2> SUFFICES ASSUME NEW j \in Calls, deliver[j] \in {"settle", "tell", "done"}
               PROVE  request'[j] = request[j]
    BY <1>1 DEF Inv, TrailInv, Entries
  <2>1. QED
    BY <1>1, <1>5
<1>11. LaunchInv'
  BY <1>1 DEF Inv, LaunchInv, workers
<1>12. QED
  BY <1>4, <1>7, <1>8, <1>9, <1>10, <1>11 DEF Inv

LEMMA WatchesInv ==
  ASSUME Inv, NEW c \in Callers, Watches(c)
  PROVE  Inv'
<1> DEFINE k == call[c]
<1>1. /\ k \in Calls /\ k \notin Broken /\ verdict[k] = "pending" /\ deliver[k] = "idle"
      /\ pc[c] = "watch" /\ request[k].state # "none" /\ Rests(c, k)
      /\ UNCHANGED <<workers, verdict, said, decisions, queue, heard, launched>>
  BY DEF Watches, Inv, CarrierInv, Carrying, events
<1>2. \A d \in Callers : pc[d] \in Carrying /\ call[d] = k => d = c
  BY <1>1 DEF Inv, Alone, Carries, Carrying
<1>3. /\ \A j \in Calls : request'[j].state = request[j].state
      /\ \A j \in Calls \ {k} : request'[j] = request[j] /\ deliver'[j] = deliver[j]
      /\ \/ deliver'[k] = "record" /\ request[k].state \in {"yes", "no"}
         \/ deliver'[k] = "idle" /\ request[k].state = "pending"
  <2>1. CASE AlreadySettled(k)
    <3>1. request[k].state \in {"yes", "no"}
      BY <1>1, <2>1 DEF AlreadySettled, Inv, TypeOK
    <3>2. QED
      BY <1>1, <2>1, <3>1 DEF Watches, Inv, TypeOK
  <2>2. CASE ~AlreadySettled(k)
    <3>1. /\ deliver' = deliver /\ request[k].state = "pending"
          /\ request' = [request EXCEPT ![k].watched = TRUE]
      BY <2>2 DEF Watches, AlreadySettled
    <3>2. request[k] \in Requests /\ request \in [Calls -> Requests]
      BY <1>1 DEF Inv, TypeOK, Requests
    <3>3. request'[k].state = request[k].state /\ \A j \in Calls \ {k} : request'[j] = request[j]
      BY <1>1, <3>1, <3>2 DEF Requests
    <3>4. QED
      BY <1>1, <3>1, <3>3
  <2>3. QED
    BY <2>1, <2>2
<1>4. TypeOK'
  <2>1. /\ request' \in [Calls -> [state : {"none", "pending", "yes", "no"}, by : Nat, watched : BOOLEAN]]
        /\ deliver' \in [Calls -> {"idle", "record", "settle", "tell", "done"}]
    <3>1. request \in [Calls -> Requests] /\ deliver \in [Calls -> {"idle", "record", "settle", "tell", "done"}]
      BY DEF Inv, TypeOK, Requests
    <3>2. [request EXCEPT ![k].watched = TRUE] \in [Calls -> Requests]
      BY <1>1, <3>1 DEF Requests
    <3>3. QED
      BY <1>1, <3>1, <3>2 DEF Watches, Requests
  <2>2. /\ pc' \in [Callers -> {"idle", "reduce", "submit", "watch", "wait"}]
        /\ call' \in [Callers -> Calls \cup {NoCall}] /\ worker' \in [Callers -> 0 .. current]
    BY <1>1 DEF Rests, Goes, Watches, Inv, TypeOK
  <2>3. QED
    BY <1>1, <2>1, <2>2 DEF Inv, TypeOK, workers
<1>5. Alone'
  BY <1>1 DEF Inv, TypeOK, Alone, Carries, Rests, Goes
<1>6. CarrierInv'
  BY <1>1, <1>2, <1>3 DEF Inv, TypeOK, CarrierInv, Carrying, Rests, Goes
<1>7. CallInv'
  BY <1>1, <1>3 DEF Inv, TypeOK, CallInv
<1>8. TrailInv'
  <2>1. \A j \in Calls : Entries(j)' = Entries(j)
    BY <1>1 DEF Entries
  <2>2. \A j \in Calls : /\ deliver'[j] \in {"idle", "record"} => deliver[j] \in {"idle", "record"}
                         /\ deliver'[j] \in {"settle", "tell", "done"} => deliver[j] = deliver'[j]
                         /\ deliver[j] = "done" => deliver'[j] = "done"
    BY <1>1, <1>3
  <2>3. QED
    BY <1>1, <1>3, <2>1, <2>2 DEF Inv, TrailInv
<1>9. LaunchInv'
  BY <1>1 DEF Inv, LaunchInv, workers
<1>10. QED
  BY <1>4, <1>5, <1>6, <1>7, <1>8, <1>9 DEF Inv

LEMMA ReturnsInv ==
  ASSUME Inv, NEW c \in Callers, Returns(c)
  PROVE  Inv'
<1>1. /\ pc[c] = "wait" /\ call[c] \in Calls
      /\ pc' = [pc EXCEPT ![c] = "idle"] /\ call' = [call EXCEPT ![c] = NoCall]
      /\ UNCHANGED <<worker, workers, verdict, request, said, deliver, decisions, queue, heard>>
  BY DEF Returns, Goes, Inv, CarrierInv, events
<1>2. launched' \subseteq Calls /\ LaunchInv'
  BY <1>1 DEF Returns, Inv, TypeOK, LaunchInv
<1>3. TypeOK'
  BY <1>1, <1>2 DEF Inv, TypeOK, workers
<1>4. Alone' /\ CarrierInv'
  BY <1>1 DEF Inv, TypeOK, Alone, Carries, CarrierInv, Carrying
<1>5. CallInv' /\ TrailInv'
  BY <1>1 DEF Inv, CallInv, TrailInv, Entries, workers
<1>6. QED
  BY <1>2, <1>3, <1>4, <1>5 DEF Inv

-----------------------------------------------------------------------------
(* The steps of the workers and of `deliver`. *)

LEMMA SettledInv ==
  ASSUME Inv, NEW ks \in SUBSET Calls, NEW state \in {"yes", "no"}, Settled(ks, state),
         \A k \in ks : request[k].state = "pending",
         said \subseteq said', said' \subseteq Calls, state = "yes" => ks \subseteq said',
         closed \subseteq closed', closed' \subseteq 1 .. current,
         UNCHANGED <<callers, own, current, verdict, decisions, events, launched>>
  PROVE  Inv'
<1>1. UNCHANGED <<pc, call, worker, own, current, verdict, decisions, queue, heard, launched>>
  BY DEF callers, events
<1>2. \A k \in Calls : request'[k] = IF k \in ks THEN [request[k] EXCEPT !.state = state] ELSE request[k]
  BY DEF Settled
<1>3. \A k \in Calls : deliver'[k] = IF k \in ks /\ request[k].watched THEN "record" ELSE deliver[k]
  BY DEF Settled
<1>4. \A k \in Calls : request[k] \in [state : {"none", "pending", "yes", "no"}, by : Nat, watched : BOOLEAN]
  BY DEF Inv, TypeOK
<1>5. \A k \in Calls : /\ request'[k].state = IF k \in ks THEN state ELSE request[k].state
                      /\ request'[k].watched = request[k].watched
  BY <1>2, <1>4
<1>6. \A k \in ks : deliver[k] = "idle" /\ k \notin Broken
  BY DEF Inv, CallInv
<1>7. TypeOK'
  <2>1. request' \in [Calls -> [state : {"none", "pending", "yes", "no"}, by : Nat, watched : BOOLEAN]]
    BY <1>4 DEF Settled
  <2>2. deliver' \in [Calls -> {"idle", "record", "settle", "tell", "done"}]
    BY DEF Settled, Inv, TypeOK
  <2>3. QED
    BY <1>1, <2>1, <2>2 DEF Inv, TypeOK
<1>8. Alone' /\ LaunchInv'
  BY <1>1 DEF Inv, Alone, Carries, LaunchInv
<1>9. CarrierInv'
  <2> SUFFICES ASSUME NEW c \in Callers, pc[c] # "idle"
               PROVE  /\ pc[c] \in Carrying => deliver'[call[c]] = "idle" /\ ~request'[call[c]].watched
                      /\ pc[c] \in {"reduce", "submit"} => request'[call[c]].state = "none"
                      /\ pc[c] = "watch" => request'[call[c]].state # "none"
    BY <1>1 DEF Inv, CarrierInv, Carrying
  <2>1. QED
    BY <1>3, <1>5, <1>6 DEF Inv, CarrierInv, Carrying
<1>10. CallInv'
  BY <1>1, <1>3, <1>5, <1>6 DEF Inv, CallInv
<1>11. TrailInv'
  <2> SUFFICES ASSUME NEW k \in Calls
               PROVE  /\ deliver'[k] \in {"idle", "record"} => Entries(k)' = {}
                      /\ deliver'[k] \in {"settle", "tell", "done"} =>
                           \E n \in Entries(k)' : decisions[n].allowed = request'[k].state
                      /\ \A m, n \in Entries(k)' : m = n
                      /\ \A n \in DOMAIN queue : queue[n] = k => deliver'[k] = "done"
                      /\ \A n \in DOMAIN heard : heard[n] = k => deliver'[k] = "done"
    BY <1>1 DEF TrailInv
  <2>1. Entries(k)' = Entries(k)
    BY <1>1 DEF Entries
  <2>2. /\ deliver'[k] \in {"idle", "record"} => deliver[k] \in {"idle", "record"}
        /\ deliver'[k] \in {"settle", "tell", "done"} =>
             deliver[k] = deliver'[k] /\ request'[k].state = request[k].state
        /\ deliver[k] = "done" => deliver'[k] = "done"
    BY <1>3, <1>5, <1>6
  <2>3. QED
    BY <2>1, <2>2 DEF Inv, TrailInv
<1>12. QED
  BY <1>7, <1>8, <1>9, <1>10, <1>11 DEF Inv

(* The thresholds let nothing through that is not sure: NaN fails both. *)
LEMMA AllowsIsSure ==
  ASSUME NEW r \in Response, Allows(r)
  PROVE  Sure(r)
BY Thresholds DEF Allows, Sure, Readable, AtLeast, AtMost, Response, Reading, NotANumber

LEMMA WorkerStepInv ==
  ASSUME Inv, NEW k \in Calls, Worker(k)
  PROVE  Inv'
<1>1. CASE JudgeAnswers(k)
  <2>1. PICK r \in Response : /\ said' = IF Sure(r) THEN said \cup {k} ELSE said
                              /\ Settled({k}, IF Allows(r) THEN "yes" ELSE "no")
    BY <1>1 DEF JudgeAnswers
  <2>2. PICK state \in {"yes", "no"} : Settled({k}, state) /\ (state = "yes" => k \in said')
    BY <2>1, AllowsIsSure
  <2>3. said \subseteq said' /\ said' \subseteq Calls
    BY <2>1 DEF Inv, TypeOK
  <2>4. /\ request[k].state = "pending" /\ closed' = closed /\ closed \subseteq 1 .. current
        /\ UNCHANGED <<callers, own, current, verdict, decisions, events, launched>>
    BY <1>1 DEF JudgeAnswers, workers, Inv, TypeOK
  <2>5. /\ {k} \in SUBSET Calls /\ \A j \in {k} : request[j].state = "pending"
        /\ state = "yes" => {k} \subseteq said'
        /\ closed \subseteq closed' /\ closed' \subseteq 1 .. current
    BY <2>2, <2>4
  <2>6. QED
    BY <2>2, <2>3, <2>4, <2>5, SettledInv
<1>2. CASE WorkerRefuses(k)
  <2>1. /\ request[k].state = "pending" /\ closed' = closed /\ closed \subseteq 1 .. current
        /\ said' = said /\ said \subseteq Calls /\ Settled({k}, "no")
        /\ UNCHANGED <<callers, own, current, verdict, decisions, events, launched>>
    BY <1>2 DEF WorkerRefuses, Refusal, workers, Inv, TypeOK
  <2>2. /\ {k} \in SUBSET Calls /\ \A j \in {k} : request[j].state = "pending"
        /\ said \subseteq said' /\ said' \subseteq Calls
        /\ closed \subseteq closed' /\ closed' \subseteq 1 .. current
    BY <2>1
  <2>3. QED
    BY <2>1, <2>2, SettledInv
<1>3. QED
  BY <1>1, <1>2 DEF Worker

LEMMA ClosesInv ==
  ASSUME Inv, Closes
  PROVE  Inv'
<1> DEFINE ks == {k \in Calls : request[k].state = "pending" /\ request[k].by = current}
<1>1. /\ Settled(ks, "no") /\ said' = said /\ closed' = closed \cup {current}
      /\ UNCHANGED <<callers, own, current, verdict, decisions, events, launched>>
  BY DEF Closes, Refusal
<1>2. closed \subseteq closed' /\ closed' \subseteq 1 .. current /\ said \subseteq Calls
  BY <1>1 DEF Closes, Inv, TypeOK
<1>3. ks \in SUBSET Calls /\ \A k \in ks : request[k].state = "pending"
  OBVIOUS
<1>4. QED
  BY <1>1, <1>2, <1>3, SettledInv

LEMMA RecordsInv ==
  ASSUME Inv, NEW k \in Calls, Records(k)
  PROVE  Inv'
<1>1. /\ deliver[k] = "record" /\ deliver' = [deliver EXCEPT ![k] = "settle"]
      /\ UNCHANGED <<pc, call, worker, own, current, closed, verdict, request, said, queue, heard, launched>>
  BY DEF Records, callers, workers, events
<1>2. deliver'[k] = "settle" /\ \A j \in Calls \ {k} : deliver'[j] = deliver[j]
  BY <1>1 DEF Inv, TypeOK
<1> DEFINE entry == [call |-> k, allowed |-> request[k].state]
<1>3. entry \in [call : Calls, allowed : {"none", "pending", "yes", "no"}]
  BY DEF Inv, TypeOK
<1>4. /\ decisions' = Append(decisions, entry) /\ decisions' \in Seq([call : Calls, allowed : {"none", "pending", "yes", "no"}])
      /\ DOMAIN decisions = 1 .. Len(decisions) /\ DOMAIN decisions' = 1 .. Len(decisions) + 1
      /\ Len(decisions) \in Nat
      /\ \A n \in DOMAIN decisions : decisions'[n] = decisions[n]
      /\ decisions'[Len(decisions) + 1] = entry
  BY <1>3 DEF Records, Inv, TypeOK
<1>5. TypeOK'
  BY <1>1, <1>4 DEF Inv, TypeOK
<1>6. Alone' /\ LaunchInv'
  BY <1>1 DEF Inv, Alone, Carries, LaunchInv
<1>7. CarrierInv'
  BY <1>1, <1>2 DEF Inv, CarrierInv, Carrying
<1>8. CallInv'
  BY <1>1, <1>2 DEF Inv, CallInv
<1>9. Entries(k) = {} /\ Entries(k)' = {Len(decisions) + 1}
  BY <1>1, <1>4 DEF Inv, TrailInv, Entries
<1>10. \A j \in Calls \ {k} : Entries(j)' = Entries(j)
  BY <1>4 DEF Entries
<1>11. TrailInv'
  <2> SUFFICES ASSUME NEW j \in Calls
               PROVE  /\ deliver'[j] \in {"idle", "record"} => Entries(j)' = {}
                      /\ deliver'[j] \in {"settle", "tell", "done"} =>
                           \E n \in Entries(j)' : decisions'[n].allowed = request[j].state
                      /\ \A m, n \in Entries(j)' : m = n
                      /\ \A n \in DOMAIN queue : queue[n] = j => deliver'[j] = "done"
                      /\ \A n \in DOMAIN heard : heard[n] = j => deliver'[j] = "done"
    BY <1>1 DEF TrailInv
  <2>1. CASE j = k
    BY <1>1, <1>2, <1>4, <1>9, <2>1 DEF Inv, TrailInv
  <2>2. CASE j # k
    <3>1. Entries(j) \subseteq DOMAIN decisions
      BY DEF Entries
    <3>2. QED
      BY <1>2, <1>4, <1>10, <2>2, <3>1 DEF Inv, TrailInv
  <2>3. QED
    BY <2>1, <2>2
<1>12. QED
  BY <1>5, <1>6, <1>7, <1>8, <1>11 DEF Inv

LEMMA SettlesInv ==
  ASSUME Inv, NEW k \in Calls, Settles(k)
  PROVE  Inv'
<1>1. /\ deliver[k] = "settle" /\ deliver' = [deliver EXCEPT ![k] = "tell"]
      /\ verdict' = [verdict EXCEPT ![k] = request[k].state]
      /\ UNCHANGED <<pc, call, worker, own, current, closed, request, said, decisions, queue, heard, launched>>
  BY DEF Settles, Recorded, callers, workers, events
<1>2. /\ deliver'[k] = "tell" /\ verdict'[k] = request[k].state
      /\ \A j \in Calls \ {k} : deliver'[j] = deliver[j] /\ verdict'[j] = verdict[j]
  BY <1>1 DEF Inv, TypeOK
<1>3. request[k].state \in {"yes", "no"} /\ k \notin Broken
  BY <1>1 DEF Inv, TypeOK, CallInv
<1>4. verdict[k] # "yes"
  BY <1>1, <1>3 DEF Inv, CallInv
<1>5. TypeOK'
  BY <1>1, <1>3 DEF Inv, TypeOK
<1>6. Alone' /\ LaunchInv'
  BY <1>1, <1>2, <1>4 DEF Inv, TypeOK, Alone, Carries, LaunchInv
<1>7. CarrierInv'
  BY <1>1, <1>2 DEF Inv, CarrierInv, Carrying
<1>8. CallInv'
  BY <1>1, <1>2, <1>3 DEF Inv, CallInv
<1>9. TrailInv'
  <2>1. \A j \in Calls : Entries(j)' = Entries(j)
    BY <1>1 DEF Entries
  <2>2. QED
    BY <1>1, <1>2, <2>1 DEF Inv, TrailInv
<1>10. QED
  BY <1>5, <1>6, <1>7, <1>8, <1>9 DEF Inv

LEMMA TellsInv ==
  ASSUME Inv, NEW k \in Calls, Tells(k)
  PROVE  Inv'
<1>1. /\ deliver[k] = "tell" /\ deliver' = [deliver EXCEPT ![k] = "done"] /\ queue' = Append(queue, k)
      /\ UNCHANGED <<pc, call, worker, own, current, closed, verdict, request, said, decisions, heard, launched>>
  BY DEF Tells, callers, workers
<1>2. deliver'[k] = "done" /\ \A j \in Calls \ {k} : deliver'[j] = deliver[j]
  BY <1>1 DEF Inv, TypeOK
<1>3. /\ queue' \in Seq(Calls) /\ DOMAIN queue' = 1 .. Len(queue) + 1 /\ Len(queue) \in Nat
      /\ DOMAIN queue = 1 .. Len(queue) /\ queue'[Len(queue) + 1] = k
      /\ \A n \in DOMAIN queue : queue'[n] = queue[n]
  BY <1>1 DEF Inv, TypeOK
<1>4. TypeOK'
  BY <1>1, <1>3 DEF Inv, TypeOK
<1>5. Alone' /\ LaunchInv'
  BY <1>1 DEF Inv, Alone, Carries, LaunchInv
<1>6. CarrierInv'
  BY <1>1, <1>2 DEF Inv, CarrierInv, Carrying
<1>7. CallInv'
  BY <1>1, <1>2 DEF Inv, CallInv
<1>8. TrailInv'
  <2>1. \A j \in Calls : Entries(j)' = Entries(j)
    BY <1>1 DEF Entries
  <2>2. \A j \in Calls, n \in DOMAIN queue' : queue'[n] = j => deliver'[j] = "done"
    BY <1>2, <1>3 DEF Inv, TrailInv
  <2>3. QED
    BY <1>1, <1>2, <2>1, <2>2 DEF Inv, TrailInv
<1>9. QED
  BY <1>4, <1>5, <1>6, <1>7, <1>8 DEF Inv

LEMMA NotifierInv ==
  ASSUME Inv, NotifierDelivers
  PROVE  Inv'
<1>1. /\ queue # << >> /\ heard' = Append(heard, Head(queue)) /\ queue' = Tail(queue)
      /\ UNCHANGED <<pc, call, worker, own, current, closed, verdict, request, said, deliver, decisions, launched>>
  BY DEF NotifierDelivers, callers, workers
<1>2. /\ queue \in Seq(Calls) /\ heard \in Seq(Calls) /\ Len(queue) \in Nat \ {0}
      /\ queue' \in Seq(Calls) /\ DOMAIN queue' = 1 .. Len(queue) - 1
      /\ \A n \in DOMAIN queue' : queue'[n] = queue[n + 1] /\ n + 1 \in DOMAIN queue
      /\ Head(queue) = queue[1] /\ 1 \in DOMAIN queue /\ queue[1] \in Calls
  BY <1>1 DEF Inv, TypeOK
<1>3. /\ heard' \in Seq(Calls) /\ DOMAIN heard' = 1 .. Len(heard) + 1 /\ DOMAIN heard = 1 .. Len(heard)
      /\ Len(heard) \in Nat
      /\ heard'[Len(heard) + 1] = queue[1] /\ \A n \in DOMAIN heard : heard'[n] = heard[n]
  BY <1>1, <1>2
<1>4. TypeOK'
  BY <1>1, <1>2, <1>3 DEF Inv, TypeOK
<1>5. Alone' /\ LaunchInv' /\ CarrierInv' /\ CallInv'
  BY <1>1 DEF Inv, Alone, Carries, LaunchInv, CarrierInv, Carrying, CallInv
<1>6. TrailInv'
  <2>1. \A j \in Calls : Entries(j)' = Entries(j)
    BY <1>1 DEF Entries
  <2>2. \A j \in Calls, n \in DOMAIN queue' : queue'[n] = j => deliver[j] = "done"
    BY <1>2 DEF Inv, TrailInv
  <2>3. \A j \in Calls, n \in DOMAIN heard' : heard'[n] = j => deliver[j] = "done"
    BY <1>2, <1>3 DEF Inv, TrailInv
  <2>4. QED
    BY <1>1, <2>1, <2>2, <2>3 DEF Inv, TrailInv
<1>7. QED
  BY <1>4, <1>5, <1>6 DEF Inv

-----------------------------------------------------------------------------
THEOREM StepInv == Inv /\ [Next]_vars => Inv'
<1> SUFFICES ASSUME Inv, [Next]_vars PROVE Inv'
  OBVIOUS
<1>1. CASE \E c \in Callers : Caller(c)
  BY <1>1, WantsInv, ReducerInv, WorkerInv, RaisesInv, SubmitsInv, WatchesInv, ReturnsInv DEF Caller
<1>2. CASE \E k \in Calls : Worker(k) \/ Deliver(k)
  BY <1>2, WorkerStepInv, RecordsInv, SettlesInv, TellsInv DEF Deliver
<1>3. CASE Closes \/ NotifierDelivers
  BY <1>3, ClosesInv, NotifierInv
<1>4. CASE UNCHANGED vars
  BY <1>4 DEF vars, callers, workers, events, Inv, TypeOK, Alone, Carries, CarrierInv, Carrying,
              CallInv, TrailInv, Entries, LaunchInv
<1>5. QED
  BY <1>1, <1>2, <1>3, <1>4 DEF Next

THEOREM Invariance == Spec => []Inv
<1>1. Inv /\ [Next]_vars => Inv'
  BY StepInv
<1>2. QED
  BY InitInv, <1>1, PTL DEF Spec

(* Every reachable state is well formed. *)
THEOREM TypeSafe == Spec => []TypeOK
<1>1. Inv => TypeOK
  BY DEF Inv
<1>2. QED
  BY Invariance, <1>1, PTL

(* However many threads look a call up, one of them takes it to the judge. *)
THEOREM OneAsks == Spec => []AskedOnce
BY Invariance, InvSuffices, PTL

(* Nobody learns a verdict before the audit trail has it. *)
THEOREM AuditedFirst == Spec => []AuditFirst
BY Invariance, InvSuffices, PTL

(* Nothing is launched early that the judge was not sure of, for any
   probabilities and thresholds, whatever closes, raises or comes late.    *)
THEOREM LaunchesAreSure == Spec => []FailsClosed
BY Invariance, InvSuffices, PTL
=============================================================================
