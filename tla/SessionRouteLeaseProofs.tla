---------------------- MODULE SessionRouteLeaseProofs ----------------------
(* Proofs about SessionRouteLease for any number of paths, requests and     *)
(* writers and any gate bound.                                              *)
(*                                                                         *)
(* None of the properties is inductive alone.  A release decides on the     *)
(* counter `routed`, so exclusion needs CountersExact; the types need it    *)
(* too, since a counter that could be wrong could go below zero.  That a    *)
(* gate a request is parked on is still the gate of its path (ParkedOnGate) *)
(* keeps the timer with the waiters, and that only a release can hold the   *)
(* path of a request already woken by a settled gate (OnlyReleasesAhead)    *)
(* carries NoMoveOvertakesAWaiter from one turn of the loop to the next.    *)
(* SettledByTheGate ties a woken request to the work its gate stood for.    *)
EXTENDS SessionRouteLease, FiniteSetTheorems, TLAPS

ParkedOnGate ==
  \A r \in Requests :
    pc[r] = "parked" =>
      /\ writers[path[r]] = gate[r]
      /\ gate[r] # NoWriter
      /\ ~overBound[path[r]]
      /\ timer[path[r]]

OnlyReleasesAhead ==
  \A r \in Requests :
    pc[r] = "woken" /\ outcome[r] = "settled" /\ writers[path[r]] # NoWriter
      => kind[writers[path[r]]] = "release"

TurnsLeft ==
  \A r \in Requests : pc[r] \in {"parked", "woken"} => gates[r] < MaxGates

SettledByTheGate ==
  \A r \in Requests :
    pc[r] = "woken" /\ outcome[r] = "settled"
      => gate[r] \in Writers /\ wants[gate[r]] = {} /\ result[gate[r]] = "ok"

IInv ==
  /\ TypeOK
  /\ CountersExact
  /\ AuthorityHeld
  /\ ReaderWriterExclusion
  /\ ParkedOnGate
  /\ NoMoveOvertakesAWaiter
  /\ OnlyReleasesAhead
  /\ TurnsLeft
  /\ SettledByTheGate

(* The sets the counters count are finite, whatever the state.              *)
LEMMA CountedFinite ==
  \A p : /\ IsFiniteSet(Running(p)) /\ Cardinality(Running(p)) \in Nat
         /\ IsFiniteSet(Waiting(p)) /\ Cardinality(Waiting(p)) \in Nat
<1>1. TAKE p
<1>2. /\ Running(p) \subseteq Requests
      /\ Waiting(p) \subseteq Requests
  BY DEF Running, Waiting
<1>3. IsFiniteSet(Requests)
  BY LeaseAssumption
<1>4. IsFiniteSet(Running(p)) /\ IsFiniteSet(Waiting(p))
  BY <1>2, <1>3, FS_Subset
<1>5. QED BY <1>4, FS_CardinalityType

(* Adding an absent element or removing a present one moves a cardinality   *)
(* by one: what each increment and decrement of a counter stands for.       *)
LEMMA CardAdd ==
  ASSUME NEW S, NEW x, IsFiniteSet(S), x \notin S
  PROVE  Cardinality(S \cup {x}) = Cardinality(S) + 1
BY FS_AddElement

LEMMA CardRemove ==
  ASSUME NEW S, NEW x, IsFiniteSet(S), x \in S
  PROVE  Cardinality(S \ {x}) = Cardinality(S) - 1
BY FS_RemoveElement

(* A request that is counted makes its counter positive.                    *)
LEMMA CountedPositive ==
  ASSUME TypeOK, CountersExact, NEW r \in Requests
  PROVE  /\ pc[r] = "running" => routed[path[r]] > 0
         /\ pc[r] \in {"parked", "woken"} => waiting[path[r]] > 0
<1> DEFINE p == path[r]
<1>1. p \in Paths
  BY DEF TypeOK
<1>2. /\ routed[p] = Cardinality(Running(p))
      /\ waiting[p] = Cardinality(Waiting(p))
  BY <1>1 DEF CountersExact
<1>3. ASSUME pc[r] = "running" PROVE routed[p] > 0
  <2>1. Running(p) # {}
    BY <1>3 DEF Running
  <2>2. Cardinality(Running(p)) # 0
    BY <2>1, CountedFinite, FS_EmptySet
  <2>3. QED BY <2>2, <1>2, CountedFinite, SMT
<1>4. ASSUME pc[r] \in {"parked", "woken"} PROVE waiting[p] > 0
  <2>1. Waiting(p) # {}
    BY <1>4 DEF Waiting
  <2>2. Cardinality(Waiting(p)) # 0
    BY <2>1, CountedFinite, FS_EmptySet
  <2>3. QED BY <2>2, <1>2, CountedFinite, SMT
<1>5. QED BY <1>3, <1>4

(* The initial states satisfy the invariant.                                *)
LEMMA InitInv == Init => IInv
<1> SUFFICES ASSUME Init PROVE IInv
  OBVIOUS
<1>1. TypeOK
  BY LeaseAssumption DEF Init, TypeOK
<1>2. CountersExact
  <2>1. \A p \in Paths : Running(p) = {} /\ Waiting(p) = {}
    BY DEF Init, Running, Waiting
  <2>2. Cardinality({}) = 0
    BY FS_EmptySet
  <2>3. QED BY <2>1, <2>2 DEF Init, CountersExact
<1>3. AuthorityHeld
  BY LeaseAssumption DEF Init, AuthorityHeld
<1>4. ReaderWriterExclusion /\ ParkedOnGate /\ NoMoveOvertakesAWaiter /\ OnlyReleasesAhead
    /\ TurnsLeft /\ SettledByTheGate
  BY DEF Init, SettledByTheGate, ReaderWriterExclusion, ParkedOnGate, NoMoveOvertakesAWaiter, OnlyReleasesAhead, TurnsLeft
<1>5. QED BY <1>1, <1>2, <1>3, <1>4 DEF IInv

(* The counters when a request that was not counted takes a turn: it enters *)
(* (one more running), parks (one more waiting) or is refused.              *)
LEMMA ArriveCounters ==
  ASSUME IInv, NEW r \in Requests, NEW p \in Paths, Arrive(r, p)
  PROVE  CountersExact'
<1> SUFFICES ASSUME NEW q \in Paths
             PROVE  /\ routed'[q] = Cardinality(Running(q)')
                    /\ waiting'[q] = Cardinality(Waiting(q)')
  BY DEF CountersExact
<1>1. /\ r \notin Running(q) /\ r \notin Waiting(q)
      /\ routed[q] = Cardinality(Running(q)) /\ waiting[q] = Cardinality(Waiting(q))
      /\ routed \in [Paths -> Nat] /\ waiting \in [Paths -> Nat]
      /\ pc \in [Requests -> {"idle", "parked", "woken", "running", "refused"}]
      /\ path \in [Requests -> Paths]
  BY DEF Arrive, Running, Waiting, IInv, CountersExact, TypeOK
<1>2. path' = [path EXCEPT ![r] = p]
  BY DEF Arrive
<1>3. CASE Enter(r, p, waiting)
  <2>1. pc' = [pc EXCEPT ![r] = "running"] /\ waiting' = waiting
        /\ routed' = [routed EXCEPT ![p] = @ + 1]
    BY <1>3 DEF Enter
  <2>2. Waiting(q)' = Waiting(q)
    BY <1>1, <1>2, <2>1 DEF Waiting
  <2>3. CASE q = p
    <3>1. Running(q)' = Running(q) \cup {r}
      BY <1>1, <1>2, <2>1, <2>3 DEF Running
    <3>2. QED BY <3>1, <2>1, <2>2, <2>3, <1>1, CardAdd, CountedFinite
  <2>4. CASE q # p
    <3>1. Running(q)' = Running(q)
      BY <1>1, <1>2, <2>1, <2>4 DEF Running
    <3>2. QED BY <3>1, <2>1, <2>2, <2>4, <1>1
  <2>5. QED BY <2>3, <2>4
<1>4. CASE Refuse(r, p, 0, waiting)
  <2>1. pc' = [pc EXCEPT ![r] = "refused"] /\ waiting' = waiting /\ routed' = routed
    BY <1>4 DEF Refuse
  <2>2. Waiting(q)' = Waiting(q) /\ Running(q)' = Running(q)
    BY <1>1, <1>2, <2>1 DEF Waiting, Running
  <2>3. QED BY <2>1, <2>2, <1>1
<1>5. CASE Park(r, p, 0, waiting)
  <2>1. pc' = [pc EXCEPT ![r] = "parked"] /\ routed' = routed
        /\ waiting' = [waiting EXCEPT ![p] = @ + 1]
    BY <1>5 DEF Park
  <2>2. Running(q)' = Running(q)
    BY <1>1, <1>2, <2>1 DEF Running
  <2>3. CASE q = p
    <3>1. Waiting(q)' = Waiting(q) \cup {r}
      BY <1>1, <1>2, <2>1, <2>3 DEF Waiting
    <3>2. QED BY <3>1, <2>1, <2>2, <2>3, <1>1, CardAdd, CountedFinite
  <2>4. CASE q # p
    <3>1. Waiting(q)' = Waiting(q)
      BY <1>1, <1>2, <2>1, <2>4 DEF Waiting
    <3>2. QED BY <3>1, <2>1, <2>2, <2>4, <1>1
  <2>5. QED BY <2>3, <2>4
<1>6. QED BY <1>3, <1>4, <1>5 DEF Arrive, Turn

(* The counters when a woken request resumes: it leaves the waiting set, and*)
(* then enters, is refused, or parks again on the next writer's gate.       *)
LEMMA ResumeCounters ==
  ASSUME IInv, NEW r \in Requests, Resume(r)
  PROVE  CountersExact'
<1> SUFFICES ASSUME NEW q \in Paths
             PROVE  /\ routed'[q] = Cardinality(Running(q)')
                    /\ waiting'[q] = Cardinality(Waiting(q)')
  BY DEF CountersExact
<1> DEFINE p == path[r]
           counter == [waiting EXCEPT ![p] = @ - 1]
<1>1. /\ pc[r] = "woken" /\ path' = path
      /\ routed[q] = Cardinality(Running(q)) /\ waiting[q] = Cardinality(Waiting(q))
      /\ routed \in [Paths -> Nat] /\ waiting \in [Paths -> Nat]
      /\ pc \in [Requests -> {"idle", "parked", "woken", "running", "refused"}]
      /\ path \in [Requests -> Paths] /\ p \in Paths
  BY DEF Resume, IInv, CountersExact, TypeOK
<1>2. waiting[p] > 0
  BY <1>1, CountedPositive DEF IInv
<1>3. ASSUME q = p, ~(pc'[r] \in {"parked", "woken"}), pc' = [pc EXCEPT ![r] = pc'[r]]
      PROVE  Cardinality(Waiting(q)') = Cardinality(Waiting(q)) - 1
  <2>1. r \in Waiting(q) /\ Waiting(q)' = Waiting(q) \ {r}
    BY <1>1, <1>3 DEF Waiting
  <2>2. QED BY <2>1, CountedFinite, CardRemove
<1>4. CASE Enter(r, p, counter)
  <2>1. pc' = [pc EXCEPT ![r] = "running"] /\ waiting' = counter
        /\ routed' = [routed EXCEPT ![p] = @ + 1]
    BY <1>4 DEF Enter
  <2>2. CASE q = p
    <3>1. r \notin Running(q) /\ Running(q)' = Running(q) \cup {r}
      BY <1>1, <2>1, <2>2 DEF Running
    <3>2. Cardinality(Running(q)') = Cardinality(Running(q)) + 1
      BY <3>1, CardAdd, CountedFinite
    <3>3. Cardinality(Waiting(q)') = Cardinality(Waiting(q)) - 1
      BY <1>3, <2>1, <2>2, <1>1
    <3>4. QED BY <3>2, <3>3, <2>1, <2>2, <1>1
  <2>3. CASE q # p
    <3>1. Running(q)' = Running(q) /\ Waiting(q)' = Waiting(q)
      BY <1>1, <2>1, <2>3 DEF Running, Waiting
    <3>2. QED BY <3>1, <2>1, <2>3, <1>1
  <2>4. QED BY <2>2, <2>3
<1>5. CASE pc' = [pc EXCEPT ![r] = "refused"] /\ waiting' = counter /\ routed' = routed
  <2>1. Running(q)' = Running(q)
    BY <1>1, <1>5 DEF Running
  <2>2. CASE q = p
    <3>1. Cardinality(Waiting(q)') = Cardinality(Waiting(q)) - 1
      BY <1>3, <1>5, <2>2, <1>1
    <3>2. QED BY <3>1, <2>1, <1>5, <2>2, <1>1
  <2>3. CASE q # p
    <3>1. Waiting(q)' = Waiting(q)
      BY <1>1, <1>5, <2>3 DEF Waiting
    <3>2. QED BY <3>1, <2>1, <1>5, <2>3, <1>1
  <2>4. QED BY <2>2, <2>3
<1>6. CASE Park(r, p, gates[r] + 1, counter)
  <2>1. pc' = [pc EXCEPT ![r] = "parked"] /\ routed' = routed
        /\ waiting' = [counter EXCEPT ![p] = @ + 1]
    BY <1>6 DEF Park
  <2>2. Running(q)' = Running(q) /\ Waiting(q)' = Waiting(q)
    BY <1>1, <2>1 DEF Running, Waiting
  <2>3. waiting' = waiting
    BY <2>1, <1>1, <1>2
  <2>4. QED BY <2>1, <2>2, <2>3, <1>1
<1>7. QED BY <1>4, <1>5, <1>6 DEF Resume, Turn, Refuse

(* A turn of the loop keeps the rest of the invariant.                      *)
LEMMA ArriveRest ==
  ASSUME IInv, NEW r \in Requests, NEW p \in Paths, Arrive(r, p)
  PROVE  /\ TypeOK' /\ AuthorityHeld' /\ ReaderWriterExclusion'
         /\ ParkedOnGate' /\ NoMoveOvertakesAWaiter' /\ OnlyReleasesAhead'
         /\ TurnsLeft' /\ SettledByTheGate'
<1> USE DEF IInv
<1>1. /\ writers' = writers /\ overBound' = overBound /\ wants' = wants
      /\ kind' = kind /\ result' = result
      /\ path' = [path EXCEPT ![r] = p] /\ gates' = [gates EXCEPT ![r] = 0]
      /\ outcome' = [outcome EXCEPT ![r] = "none"]
      /\ pc[r] \in {"idle", "refused"}
  BY DEF Arrive, writerVars
<1>2. \/ /\ writers[p] = NoWriter /\ pc' = [pc EXCEPT ![r] = "running"]
         /\ routed' = [routed EXCEPT ![p] = @ + 1] /\ waiting' = waiting
         /\ gate' = gate /\ timer' = timer
      \/ /\ pc' = [pc EXCEPT ![r] = "refused"]
         /\ routed' = routed /\ waiting' = waiting /\ gate' = gate /\ timer' = timer
      \/ /\ writers[p] # NoWriter /\ ~overBound[p]
         /\ pc' = [pc EXCEPT ![r] = "parked"]
         /\ gate' = [gate EXCEPT ![r] = writers[p]]
         /\ timer' = [timer EXCEPT ![p] = TRUE]
         /\ routed' = routed /\ waiting' = [waiting EXCEPT ![p] = @ + 1]
  BY DEF Arrive, Turn, Enter, Refuse, Park
<1>3. TypeOK'
  <2>1. pc' \in [Requests -> {"idle", "parked", "woken", "running", "refused"}]
    BY <1>2 DEF TypeOK
  <2>2. gate' \in [Requests -> Writers \cup {NoWriter}]
    BY <1>2 DEF TypeOK
  <2>3. timer' \in [Paths -> BOOLEAN]
    BY <1>2 DEF TypeOK
  <2>4. routed' \in [Paths -> Nat] /\ waiting' \in [Paths -> Nat]
    BY <1>2 DEF TypeOK
  <2>5. gates' \in [Requests -> 0..MaxGates]
    BY <1>1, LeaseAssumption DEF TypeOK
  <2>6. QED BY <2>1, <2>2, <2>3, <2>4, <2>5, <1>1 DEF TypeOK
<1>4. AuthorityHeld'
  BY <1>1 DEF AuthorityHeld
<1>5. ReaderWriterExclusion'
  BY <1>1, <1>2 DEF ReaderWriterExclusion, TypeOK
<1>6. ParkedOnGate'
  BY <1>1, <1>2 DEF ParkedOnGate, TypeOK
<1>7. NoMoveOvertakesAWaiter'
  BY <1>1, <1>2 DEF NoMoveOvertakesAWaiter, TypeOK
<1>8. OnlyReleasesAhead'
  BY <1>1, <1>2 DEF OnlyReleasesAhead, TypeOK
<1>9. TurnsLeft'
  BY <1>1, <1>2, LeaseAssumption DEF TurnsLeft, TypeOK
<1>10. SettledByTheGate'
  BY <1>1, <1>2 DEF SettledByTheGate, TypeOK
<1>11. QED BY <1>3, <1>4, <1>5, <1>6, <1>7, <1>8, <1>9, <1>10

LEMMA ResumeRest ==
  ASSUME IInv, NEW r \in Requests, Resume(r)
  PROVE  /\ TypeOK' /\ AuthorityHeld' /\ ReaderWriterExclusion'
         /\ ParkedOnGate' /\ NoMoveOvertakesAWaiter' /\ OnlyReleasesAhead'
         /\ TurnsLeft' /\ SettledByTheGate'
<1> USE DEF IInv
<1> DEFINE p == path[r]
           counter == [waiting EXCEPT ![p] = @ - 1]
<1>1. /\ writers' = writers /\ overBound' = overBound /\ wants' = wants
      /\ kind' = kind /\ result' = result /\ path' = path /\ outcome' = outcome
      /\ pc[r] = "woken" /\ p \in Paths
  BY DEF Resume, writerVars, TypeOK
<1>2. counter \in [Paths -> Nat]
  BY <1>1, CountedPositive DEF TypeOK
<1>3. /\ gates' = [gates EXCEPT ![r] = @ + 1] \/ gates' = gates
      /\ pc'[r] = "parked" => gates'[r] < MaxGates
  BY DEF Resume, Turn, Enter, Refuse, Park, TypeOK
<1>4. \/ /\ writers[p] = NoWriter /\ pc' = [pc EXCEPT ![r] = "running"]
         /\ routed' = [routed EXCEPT ![p] = @ + 1] /\ waiting' = counter
         /\ gate' = gate /\ timer' = timer
      \/ /\ pc' = [pc EXCEPT ![r] = "refused"]
         /\ routed' = routed /\ waiting' = counter /\ gate' = gate /\ timer' = timer
      \/ /\ writers[p] # NoWriter /\ ~overBound[p] /\ outcome[r] = "settled"
         /\ pc' = [pc EXCEPT ![r] = "parked"]
         /\ gate' = [gate EXCEPT ![r] = writers[p]]
         /\ timer' = [timer EXCEPT ![p] = TRUE]
         /\ routed' = routed /\ waiting' = [counter EXCEPT ![p] = @ + 1]
  BY DEF Resume, Turn, Enter, Refuse, Park
<1>5. TypeOK'
  <2>1. gates' \in [Requests -> 0..MaxGates]
    BY <1>1, <1>3, LeaseAssumption DEF TypeOK, TurnsLeft
  <2>2. /\ pc' \in [Requests -> {"idle", "parked", "woken", "running", "refused"}]
        /\ gate' \in [Requests -> Writers \cup {NoWriter}]
        /\ timer' \in [Paths -> BOOLEAN]
    BY <1>4 DEF TypeOK
  <2>3. routed' \in [Paths -> Nat] /\ waiting' \in [Paths -> Nat]
    BY <1>2, <1>4 DEF TypeOK
  <2>4. QED BY <2>1, <2>2, <2>3, <1>1 DEF TypeOK
<1>6. AuthorityHeld'
  BY <1>1 DEF AuthorityHeld
<1>7. ReaderWriterExclusion'
  BY <1>1, <1>4 DEF ReaderWriterExclusion, TypeOK
<1>8. ParkedOnGate'
  BY <1>1, <1>4 DEF ParkedOnGate, TypeOK
<1>9. NoMoveOvertakesAWaiter'
  BY <1>1, <1>3, <1>4 DEF NoMoveOvertakesAWaiter, OnlyReleasesAhead, TypeOK
<1>10. OnlyReleasesAhead'
  BY <1>1, <1>4 DEF OnlyReleasesAhead, TypeOK
<1>11. TurnsLeft'
  BY <1>1, <1>3, <1>4 DEF TurnsLeft, TypeOK
<1>12. SettledByTheGate'
  BY <1>1, <1>4 DEF SettledByTheGate, TypeOK
<1>13. QED BY <1>5, <1>6, <1>7, <1>8, <1>9, <1>10, <1>11, <1>12

(* The work ends: its request leaves the running set and nothing else moves. *)
LEMMA LeaveInv ==
  ASSUME IInv, NEW r \in Requests, Leave(r)
  PROVE  IInv'
<1> USE DEF IInv
<1> DEFINE p == path[r]
<1>1. /\ writers' = writers /\ overBound' = overBound /\ timer' = timer
      /\ waiting' = waiting /\ kind' = kind /\ wants' = wants /\ result' = result
      /\ path' = path /\ gate' = gate /\ gates' = gates /\ outcome' = outcome
      /\ pc' = [pc EXCEPT ![r] = "idle"] /\ routed' = [routed EXCEPT ![p] = @ - 1]
      /\ pc[r] = "running" /\ p \in Paths
  BY DEF Leave, gateVars, writerVars, TypeOK
<1>2. routed[p] > 0
  BY <1>1, CountedPositive
<1>3. TypeOK'
  BY <1>1, <1>2 DEF TypeOK
<1>4. CountersExact'
  <2> SUFFICES ASSUME NEW q \in Paths
               PROVE  /\ routed'[q] = Cardinality(Running(q)')
                      /\ waiting'[q] = Cardinality(Waiting(q)')
    BY DEF CountersExact
  <2>1. /\ routed[q] = Cardinality(Running(q)) /\ waiting[q] = Cardinality(Waiting(q))
        /\ Waiting(q)' = Waiting(q)
    BY <1>1 DEF CountersExact, Waiting, TypeOK
  <2>2. CASE q = p
    <3>1. r \in Running(q) /\ Running(q)' = Running(q) \ {r}
      BY <1>1, <2>2 DEF Running, TypeOK
    <3>2. QED BY <3>1, <2>1, <2>2, <1>1, CardRemove, CountedFinite DEF TypeOK
  <2>3. CASE q # p
    <3>1. Running(q)' = Running(q)
      BY <1>1, <2>3 DEF Running, TypeOK
    <3>2. QED BY <3>1, <2>1, <2>3, <1>1 DEF TypeOK
  <2>4. QED BY <2>2, <2>3
<1>5. AuthorityHeld'
  BY <1>1 DEF AuthorityHeld
<1>6. ReaderWriterExclusion' /\ ParkedOnGate' /\ NoMoveOvertakesAWaiter'
      /\ OnlyReleasesAhead' /\ TurnsLeft' /\ SettledByTheGate'
  BY <1>1 DEF ReaderWriterExclusion, ParkedOnGate, NoMoveOvertakesAWaiter,
              OnlyReleasesAhead, TurnsLeft, SettledByTheGate, TypeOK
<1>7. QED BY <1>3, <1>4, <1>5, <1>6

(* A writer installs its gates on paths no request is inside and no writer  *)
(* holds; when a request still waits there, the writer is a release.        *)
LEMMA InstallInv ==
  ASSUME IInv, NEW w \in Writers, NEW ps \in SUBSET Paths, NEW k \in {"release", "move"},
         Fresh(w), Install(w, ps, k),
         \A p \in ps : routed[p] = 0 /\ writers[p] = NoWriter,
         k = "move" => \A p \in ps : waiting[p] = 0
  PROVE  IInv'
<1> USE DEF IInv
<1>1. /\ writers' = [p \in Paths |-> IF p \in ps THEN w ELSE writers[p]]
      /\ overBound' = [p \in Paths |-> IF p \in ps THEN FALSE ELSE overBound[p]]
      /\ timer' = [p \in Paths |-> IF p \in ps THEN FALSE ELSE timer[p]]
      /\ wants' = [wants EXCEPT ![w] = ps] /\ kind' = [kind EXCEPT ![w] = k]
      /\ result' = [result EXCEPT ![w] = "none"]
      /\ routed' = routed /\ waiting' = waiting
      /\ pc' = pc /\ path' = path /\ gate' = gate /\ gates' = gates /\ outcome' = outcome
  BY DEF Install, readerVars
<1>2. /\ wants[w] = {}
      /\ \A p \in Paths : writers[p] # w
      /\ \A r \in Requests : pc[r] \in {"parked", "woken"} => gate[r] # w
  BY DEF Fresh, AuthorityHeld
<1>3. /\ \A r \in Requests : pc[r] = "running" => path[r] \notin ps
      /\ \A r \in Requests : pc[r] \in {"parked", "woken"} /\ path[r] \in ps => k = "release"
      /\ \A r \in Requests : pc[r] = "parked" => path[r] \notin ps
  BY CountedPositive DEF ParkedOnGate
<1>4. TypeOK'
  BY <1>1 DEF TypeOK
<1>5. CountersExact'
  <2>1. \A q \in Paths : Running(q)' = Running(q) /\ Waiting(q)' = Waiting(q)
    BY <1>1 DEF Running, Waiting
  <2>2. QED BY <2>1, <1>1 DEF CountersExact
<1>6. AuthorityHeld'
  <2> SUFFICES ASSUME NEW v \in Writers
               PROVE  {p \in Paths : writers'[p] = v} = wants'[v]
    BY DEF AuthorityHeld
  <2>1. {p \in Paths : writers[p] = v} = wants[v]
    BY DEF AuthorityHeld
  <2>2. CASE v = w
    BY <2>1, <2>2, <1>1, <1>2 DEF TypeOK
  <2>3. CASE v # w
    <3>1. wants'[v] = wants[v]
      BY <2>3, <1>1 DEF TypeOK
    <3>2. \A p \in Paths : writers'[p] = v <=> writers[p] = v
      BY <2>3, <1>1, LeaseAssumption DEF TypeOK
    <3>3. QED BY <3>1, <3>2, <2>1
  <2>4. QED BY <2>2, <2>3
<1>7. ReaderWriterExclusion'
  BY <1>1, <1>3 DEF ReaderWriterExclusion, TypeOK
<1>8. ParkedOnGate'
  BY <1>1, <1>3 DEF ParkedOnGate, TypeOK
<1>9. NoMoveOvertakesAWaiter'
  BY <1>1, <1>2 DEF NoMoveOvertakesAWaiter, ParkedOnGate, TypeOK
<1>10. OnlyReleasesAhead'
  BY <1>1, <1>2, <1>3 DEF OnlyReleasesAhead, TypeOK
<1>11. TurnsLeft'
  BY <1>1 DEF TurnsLeft
<1>12. SettledByTheGate'
  BY <1>1, <1>2 DEF SettledByTheGate, TypeOK
<1>13. QED BY <1>4, <1>5, <1>6, <1>7, <1>8, <1>9, <1>10, <1>11, <1>12

(* Waking a set of requests leaves every counted set as it was.             *)
LEMMA WakeKeepsCounted ==
  ASSUME TypeOK, NEW ps \in SUBSET Paths, NEW how, WakeAll(ps, how), path' = path, NEW q
  PROVE  Running(q)' = Running(q) /\ Waiting(q)' = Waiting(q)
BY DEF WakeAll, Running, Waiting, TypeOK

(* A writer's work ends: it gives up every path it held and wakes all of    *)
(* their waiters with its outcome.                                          *)
LEMMA FinishInv ==
  ASSUME IInv, NEW w \in Writers, NEW res \in {"ok", "failed"}, Finish(w, res)
  PROVE  IInv'
<1> USE DEF IInv
<1> DEFINE ps == wants[w]
           how == SettleWith(res)
           woken == {r \in Requests : pc[r] = "parked" /\ path[r] \in ps}
<1>1. /\ ps \in SUBSET Paths
      /\ writers' = [p \in Paths |-> IF p \in ps THEN NoWriter ELSE writers[p]]
      /\ overBound' = [p \in Paths |-> IF p \in ps THEN FALSE ELSE overBound[p]]
      /\ timer' = [p \in Paths |-> IF p \in ps THEN FALSE ELSE timer[p]]
      /\ wants' = [wants EXCEPT ![w] = {}] /\ result' = [result EXCEPT ![w] = res]
      /\ WakeAll(ps, how)
      /\ routed' = routed /\ waiting' = waiting /\ kind' = kind
      /\ path' = path /\ gate' = gate /\ gates' = gates
  BY DEF Finish, TypeOK
<1>2. /\ pc' = [r \in Requests |-> IF r \in woken THEN "woken" ELSE pc[r]]
      /\ outcome' = [r \in Requests |-> IF r \in woken THEN how ELSE outcome[r]]
      /\ how \in {"settled", "failed"}
  BY <1>1 DEF WakeAll, SettleWith
<1> HIDE DEF ps, how
<1>3. TypeOK'
  <2>1. pc' \in [Requests -> {"idle", "parked", "woken", "running", "refused"}]
    BY <1>2 DEF TypeOK
  <2>2. outcome' \in [Requests -> {"none", "settled", "failed", "expired"}]
    BY <1>2 DEF TypeOK
  <2>3. QED BY <2>1, <2>2, <1>1 DEF TypeOK
<1>4. CountersExact'
  BY <1>1, WakeKeepsCounted DEF CountersExact
<1>5. AuthorityHeld'
  <2> SUFFICES ASSUME NEW v \in Writers
               PROVE  {p \in Paths : writers'[p] = v} = wants'[v]
    BY DEF AuthorityHeld
  <2>1. {p \in Paths : writers[p] = v} = wants[v] /\ {p \in Paths : writers[p] = w} = ps
    BY DEF AuthorityHeld, ps
  <2>2. CASE v = w
    <3>1. \A p \in Paths : writers'[p] # w
      BY <1>1, <2>1, LeaseAssumption
    <3>2. QED BY <3>1, <2>2, <1>1 DEF TypeOK
  <2>3. CASE v # w
    <3>1. wants'[v] = wants[v]
      BY <2>3, <1>1 DEF TypeOK
    <3>2. \A p \in Paths : writers'[p] = v <=> writers[p] = v
      BY <2>1, <2>3, <1>1, LeaseAssumption DEF TypeOK
    <3>3. QED BY <3>1, <3>2, <2>1
  <2>4. QED BY <2>2, <2>3
<1>6. ReaderWriterExclusion'
  BY <1>1, <1>2 DEF ReaderWriterExclusion, TypeOK
<1>7. ParkedOnGate'
  BY <1>1, <1>2 DEF ParkedOnGate, TypeOK
<1>8. NoMoveOvertakesAWaiter'
  BY <1>1, <1>2 DEF NoMoveOvertakesAWaiter, TypeOK
<1>9. OnlyReleasesAhead'
  BY <1>1, <1>2 DEF OnlyReleasesAhead, TypeOK
<1>10. TurnsLeft'
  BY <1>1, <1>2 DEF TurnsLeft, TypeOK
<1>11. SettledByTheGate'
  <2> SUFFICES ASSUME NEW r \in Requests, pc'[r] = "woken", outcome'[r] = "settled"
               PROVE  gate'[r] \in Writers /\ wants'[gate'[r]] = {} /\ result'[gate'[r]] = "ok"
    BY DEF SettledByTheGate
  <2>1. CASE r \in woken
    <3>1. how = "settled" /\ res = "ok"
      BY <1>2, <2>1 DEF how, SettleWith
    <3>2. gate[r] = w
      BY <2>1 DEF ParkedOnGate, AuthorityHeld, TypeOK, ps
    <3>3. QED BY <3>1, <3>2, <1>1 DEF TypeOK
  <2>2. CASE r \notin woken
    <3>1. gate[r] \in Writers /\ wants[gate[r]] = {} /\ result[gate[r]] = "ok"
      BY <1>2, <2>2 DEF SettledByTheGate
    <3>2. wants[w] # {}
      BY DEF Finish
    <3>3. QED BY <3>1, <3>2, <1>1 DEF TypeOK
  <2>3. QED BY <2>1, <2>2
<1>12. QED BY <1>3, <1>4, <1>5, <1>6, <1>7, <1>8, <1>9, <1>10, <1>11

(* The shared timer fires: every waiter of that gate is woken as expired.   *)
LEMMA ExpireInv ==
  ASSUME IInv, NEW p \in Paths, Expire(p)
  PROVE  IInv'
<1> USE DEF IInv
<1> DEFINE woken == {r \in Requests : pc[r] = "parked" /\ path[r] \in {p}}
<1>1. /\ writers' = writers /\ routed' = routed /\ waiting' = waiting
      /\ kind' = kind /\ wants' = wants /\ result' = result
      /\ path' = path /\ gate' = gate /\ gates' = gates
      /\ timer' = [timer EXCEPT ![p] = FALSE]
      /\ overBound' = [overBound EXCEPT ![p] = TRUE]
      /\ WakeAll({p}, "expired")
  BY DEF Expire, writerVars
<1>2. /\ pc' = [r \in Requests |-> IF r \in woken THEN "woken" ELSE pc[r]]
      /\ outcome' = [r \in Requests |-> IF r \in woken THEN "expired" ELSE outcome[r]]
  BY <1>1 DEF WakeAll
<1>3. TypeOK'
  <2>1. pc' \in [Requests -> {"idle", "parked", "woken", "running", "refused"}]
    BY <1>2 DEF TypeOK
  <2>2. outcome' \in [Requests -> {"none", "settled", "failed", "expired"}]
    BY <1>2 DEF TypeOK
  <2>3. QED BY <2>1, <2>2, <1>1 DEF TypeOK
<1>4. CountersExact'
  <2>1. {p} \in SUBSET Paths
    OBVIOUS
  <2>2. QED BY <1>1, <2>1, WakeKeepsCounted DEF CountersExact
<1>5. AuthorityHeld' /\ ReaderWriterExclusion'
  BY <1>1, <1>2 DEF AuthorityHeld, ReaderWriterExclusion, TypeOK
<1>6. ParkedOnGate'
  BY <1>1, <1>2 DEF ParkedOnGate, TypeOK
<1>7. NoMoveOvertakesAWaiter' /\ OnlyReleasesAhead' /\ TurnsLeft' /\ SettledByTheGate'
  BY <1>1, <1>2 DEF NoMoveOvertakesAWaiter, OnlyReleasesAhead, TurnsLeft, SettledByTheGate,
                    TypeOK
<1>8. QED BY <1>3, <1>4, <1>5, <1>6, <1>7

(* IInv is inductive: one step per action.                                  *)
LEMMA NextInv == IInv /\ [Next]_vars => IInv'
<1> SUFFICES ASSUME IInv, [Next]_vars PROVE IInv'
  OBVIOUS
<1>1. ASSUME NEW r \in Requests, NEW p \in Paths, Arrive(r, p) PROVE IInv'
  BY <1>1, ArriveCounters, ArriveRest DEF IInv
<1>2. ASSUME NEW r \in Requests, Resume(r) PROVE IInv'
  BY <1>2, ResumeCounters, ResumeRest DEF IInv
<1>3. ASSUME NEW r \in Requests, Leave(r) PROVE IInv'
  BY <1>3, LeaveInv
<1>4. ASSUME NEW w \in Writers, NEW p \in Paths, Release(w, p) PROVE IInv'
  <2>1. /\ Fresh(w) /\ Install(w, {p}, "release")
        /\ \A q \in {p} : routed[q] = 0 /\ writers[q] = NoWriter
    BY <1>4 DEF Release, ReleaseMayRun
  <2>2. {p} \in SUBSET Paths
    OBVIOUS
  <2>3. QED BY <2>1, <2>2, InstallInv
<1>5. ASSUME NEW w \in Writers, NEW ps \in (SUBSET Paths) \ {{}}, Exclusive(w, ps) PROVE IInv'
  <2>1. /\ Fresh(w) /\ Install(w, ps, "move") /\ ps \in SUBSET Paths
        /\ \A q \in ps : routed[q] = 0 /\ writers[q] = NoWriter
        /\ \A q \in ps : waiting[q] = 0
    BY <1>5 DEF Exclusive, ExclusiveMayRun
  <2>2. QED BY <2>1, InstallInv
<1>6. ASSUME NEW w \in Writers, NEW res \in {"ok", "failed"}, Finish(w, res) PROVE IInv'
  BY <1>6, FinishInv
<1>7. ASSUME NEW p \in Paths, Expire(p) PROVE IInv'
  BY <1>7, ExpireInv
<1>8. CASE UNCHANGED vars
  <2>1. /\ writers' = writers /\ overBound' = overBound /\ timer' = timer
        /\ routed' = routed /\ waiting' = waiting /\ kind' = kind /\ wants' = wants
        /\ result' = result /\ pc' = pc /\ path' = path /\ gate' = gate
        /\ gates' = gates /\ outcome' = outcome
    BY <1>8 DEF vars, gateVars, writerVars, readerVars
  <2>2. \A p : Running(p)' = Running(p) /\ Waiting(p)' = Waiting(p)
    BY <2>1 DEF Running, Waiting
  <2>3. TypeOK'
    BY <2>1 DEF IInv, TypeOK
  <2>4. CountersExact'
    BY <2>1, <2>2 DEF IInv, CountersExact
  <2>5. AuthorityHeld' /\ ReaderWriterExclusion' /\ ParkedOnGate'
    BY <2>1 DEF IInv, AuthorityHeld, ReaderWriterExclusion, ParkedOnGate
  <2>6. NoMoveOvertakesAWaiter' /\ OnlyReleasesAhead' /\ TurnsLeft' /\ SettledByTheGate'
    BY <2>1 DEF IInv, NoMoveOvertakesAWaiter, OnlyReleasesAhead, TurnsLeft, SettledByTheGate
  <2>7. QED BY <2>3, <2>4, <2>5, <2>6 DEF IInv
<1>9. QED BY <1>1, <1>2, <1>3, <1>4, <1>5, <1>6, <1>7, <1>8 DEF Next

THEOREM Invariance == Spec => []IInv
BY InitInv, NextInv, PTL DEF Spec

(* The types, for every set of paths, requests and writers: in particular a *)
(* counter of session-route-lease.ts never goes below zero.                 *)
THEOREM TypeCorrect == Spec => []TypeOK
<1>1. IInv => TypeOK
  BY DEF IInv
<1>2. QED BY <1>1, Invariance, PTL

(* The lease's promise (session-route-lease.ts:13-26): no routed request is *)
(* inside its work on a path a release or a move is holding.                *)
THEOREM Exclusion == Spec => []ReaderWriterExclusion
<1>1. IInv => ReaderWriterExclusion
  BY DEF IInv
<1>2. QED BY <1>1, Invariance, PTL

(* Both counters always say exactly how many requests they stand for.       *)
THEOREM CountersAreExact == Spec => []CountersExact
<1>1. IInv => CountersExact
  BY DEF IInv
<1>2. QED BY <1>1, Invariance, PTL

(* A writer in flight holds exactly the paths it wants until it ends.       *)
THEOREM WritersHoldTheirPaths == Spec => []AuthorityHeld
<1>1. IInv => AuthorityHeld
  BY DEF IInv
<1>2. QED BY <1>1, Invariance, PTL

(* After the shared timer fired nobody is parked on that gate.              *)
THEOREM NobodyParkedPastTheBound == Spec => []ExpiredGateHasNoWaiters
<1>1. IInv => ExpiredGateHasNoWaiters
  BY DEF IInv, ParkedOnGate, ExpiredGateHasNoWaiters
<1>2. QED BY <1>1, Invariance, PTL

(* A request that waited a gate out never meets a move on a later turn.     *)
THEOREM MovesKeepOffWaiters == Spec => []NoMoveOvertakesAWaiter
<1>1. IInv => NoMoveOvertakesAWaiter
  BY DEF IInv
<1>2. QED BY <1>1, Invariance, PTL

(* Fail closed (D-260): in every step that lets a woken request go on past  *)
(* its gate, the work behind that gate had succeeded.                       *)
THEOREM FailClosed == Spec => OnlySettledGatesPass
<1> DEFINE A == \A r \in Requests :
                  pc[r] = "woken" /\ pc'[r] \in {"running", "parked"}
                    => result[gate[r]] = "ok"
<1>1. IInv /\ [Next]_vars => [A]_vars
  <2> SUFFICES ASSUME IInv, Next, NEW r \in Requests,
                      pc[r] = "woken", pc'[r] \in {"running", "parked"}
               PROVE  result[gate[r]] = "ok"
    OBVIOUS
  <2> USE DEF IInv
  <2>1. ASSUME NEW s \in Requests, Resume(s) PROVE result[gate[r]] = "ok"
    <3>1. s = r
      BY <2>1 DEF Resume, Turn, Enter, Refuse, Park, TypeOK
    <3>2. outcome[r] = "settled"
      BY <2>1, <3>1 DEF Resume, TypeOK
    <3>3. QED BY <3>2 DEF SettledByTheGate
  <2>2. ASSUME NEW s \in Requests, NEW p \in Paths, Arrive(s, p) PROVE FALSE
    BY <2>2 DEF Arrive, Turn, Enter, Refuse, Park, TypeOK
  <2>3. ASSUME NEW s \in Requests, Leave(s) PROVE FALSE
    BY <2>3 DEF Leave, TypeOK
  <2>4. ASSUME NEW w \in Writers, NEW p \in Paths, Release(w, p) PROVE FALSE
    BY <2>4 DEF Release, Install, readerVars
  <2>5. ASSUME NEW w \in Writers, NEW ps \in (SUBSET Paths) \ {{}}, Exclusive(w, ps) PROVE FALSE
    BY <2>5 DEF Exclusive, Install, readerVars
  <2>6. ASSUME NEW w \in Writers, NEW res \in {"ok", "failed"}, Finish(w, res) PROVE FALSE
    BY <2>6 DEF Finish, WakeAll, TypeOK
  <2>7. ASSUME NEW p \in Paths, Expire(p) PROVE FALSE
    BY <2>7 DEF Expire, WakeAll, TypeOK
  <2>8. QED BY <2>1, <2>2, <2>3, <2>4, <2>5, <2>6, <2>7 DEF Next
<1>2. QED BY <1>1, Invariance, PTL DEF Spec, OnlySettledGatesPass

-----------------------------------------------------------------------------
(* The lease implements RouteAuthority: requests that are running read, and *)
(* an operation that runs holds what it wants.                              *)
Reads == [r \in Requests |-> IF pc[r] = "running" THEN {path[r]} ELSE {}]

Stutters == Reads' = Reads /\ wants' = wants
Goal == Authority!Next \/ Stutters

(* What a path without a gate, and a path whose counter is zero, mean.      *)
LEMMA NobodyOnPath ==
  ASSUME IInv, NEW p \in Paths
  PROVE  /\ writers[p] = NoWriter => \A w \in Writers : p \notin wants[w]
         /\ routed[p] = 0 => \A r \in Requests : p \notin Reads[r]
<1>1. ASSUME writers[p] = NoWriter, NEW w \in Writers PROVE p \notin wants[w]
  BY <1>1, LeaseAssumption DEF IInv, AuthorityHeld
<1>2. ASSUME routed[p] = 0, NEW r \in Requests PROVE p \notin Reads[r]
  <2>1. pc[r] = "running" => routed[path[r]] > 0
    BY CountedPositive DEF IInv
  <2>2. QED BY <1>2, <2>1 DEF Reads
<1>3. QED BY <1>1, <1>2

(* A request that finds no gate starts to read.                             *)
LEMMA EntersReading ==
  ASSUME IInv, NEW r \in Requests, NEW p \in Paths, writers[p] = NoWriter,
         pc[r] # "running", pc' = [pc EXCEPT ![r] = "running"],
         path' = [path EXCEPT ![r] = p], wants' = wants
  PROVE  Authority!Read(r, p)
<1>1. Reads[r] = {} /\ Reads' = [Reads EXCEPT ![r] = {p}]
  BY DEF Reads, IInv, TypeOK
<1>2. \A w \in Writers : p \notin wants[w]
  BY NobodyOnPath
<1>3. QED BY <1>1, <1>2 DEF Authority!Read, Authority!NobodyWrites, Reads

(* A turn of the loop that does not enter leaves everybody's paths alone.   *)
LEMMA TurnsAsideQuietly ==
  ASSUME IInv, NEW r \in Requests, NEW p \in Paths,
         pc[r] # "running", pc' \in {[pc EXCEPT ![r] = "refused"],
                                     [pc EXCEPT ![r] = "parked"]},
         path' = [path EXCEPT ![r] = p]
  PROVE  Reads' = Reads
BY DEF Reads, IInv, TypeOK

(* A writer starts on paths that nobody reads and nobody holds.             *)
LEMMA StartsWriting ==
  ASSUME IInv, NEW w \in Writers, NEW ps \in SUBSET Paths, NEW k, Fresh(w),
         \A p \in ps : routed[p] = 0 /\ writers[p] = NoWriter,
         Install(w, ps, k)
  PROVE  Authority!Write(w, ps)
<1>1. wants[w] = {} /\ wants' = [wants EXCEPT ![w] = ps] /\ Reads' = Reads
  BY DEF Fresh, Install, readerVars, Reads
<1>2. \A p \in ps : /\ \A v \in Writers : p \notin wants[v]
                    /\ \A r \in Requests : p \notin Reads[r]
  BY NobodyOnPath
<1>3. QED
  BY <1>1, <1>2
  DEF Authority!Write, Authority!NobodyWrites, Authority!NobodyReads, Reads

LEMMA InitRefines == Init => Authority!Init
BY DEF Init, Authority!Init

LEMMA NextRefines ==
  IInv /\ [Next]_vars => [Authority!Next]_<<Reads, wants>>
<1> SUFFICES ASSUME IInv, [Next]_vars
             PROVE  Goal
  BY DEF Goal, Stutters
<1>1. ASSUME NEW r \in Requests, NEW p \in Paths, Arrive(r, p)
      PROVE  Authority!Read(r, p) \/ Stutters
  <2>1. pc[r] # "running" /\ path' = [path EXCEPT ![r] = p] /\ wants' = wants
    BY <1>1 DEF Arrive, writerVars
  <2>2. CASE Enter(r, p, waiting)
    BY <2>1, <2>2, EntersReading DEF Enter
  <2>3. CASE Refuse(r, p, 0, waiting) \/ Park(r, p, 0, waiting)
    BY <2>1, <2>3, TurnsAsideQuietly DEF Refuse, Park, Stutters
  <2>4. QED BY <1>1, <2>2, <2>3 DEF Arrive, Turn
<1>2. ASSUME NEW r \in Requests, Resume(r)
      PROVE  (\E p \in Paths : Authority!Read(r, p)) \/ Stutters
  <2>1. pc[r] = "woken" /\ path' = path /\ wants' = wants
    BY <1>2, Zenon DEF Resume, writerVars
  <2>2. PICK p \in Paths : p = path[r]
    BY DEF IInv, TypeOK
  <2>3. pc[r] # "running" /\ path' = [path EXCEPT ![r] = p]
    BY <2>1, <2>2 DEF IInv, TypeOK
  <2>4. CASE writers[p] = NoWriter /\ pc' = [pc EXCEPT ![r] = "running"]
    <3>1. Authority!Read(r, p)
      BY <2>1, <2>3, <2>4, EntersReading
    <3>2. QED BY <3>1
  <2>5. CASE \/ pc' = [pc EXCEPT ![r] = "refused"]
             \/ pc' = [pc EXCEPT ![r] = "parked"]
    BY <2>1, <2>3, <2>5, TurnsAsideQuietly DEF Stutters
  <2>6. QED
    BY <1>2, <2>2, <2>4, <2>5, Zenon DEF Resume, Turn, Enter, Refuse, Park
<1>3. ASSUME NEW r \in Requests, Leave(r) PROVE Authority!End({r}, {})
  <2>1. Reads' = [q \in Requests |-> IF q \in {r} THEN {} ELSE Reads[q]]
    BY <1>3 DEF Leave, Reads, IInv, TypeOK
  <2>2. wants' = [w \in Writers |-> IF w \in {} THEN {} ELSE wants[w]]
    BY <1>3 DEF Leave, writerVars, IInv, TypeOK
  <2>3. QED BY <2>1, <2>2 DEF Authority!End, Reads
<1>4. ASSUME NEW w \in Writers, NEW p \in Paths, Release(w, p)
      PROVE  Authority!Write(w, {p})
  BY <1>4, StartsWriting DEF Release, ReleaseMayRun
<1>5. ASSUME NEW w \in Writers, NEW ps \in (SUBSET Paths) \ {{}}, Exclusive(w, ps)
      PROVE  Authority!Write(w, ps)
  BY <1>5, StartsWriting DEF Exclusive, ExclusiveMayRun
<1>6. ASSUME NEW w \in Writers, NEW res \in {"ok", "failed"}, Finish(w, res)
      PROVE  Authority!End({}, {w})
  <2>1. \A q \in Requests : (pc'[q] = "running") = (pc[q] = "running")
    BY <1>6 DEF Finish, WakeAll
  <2>2. Reads' = [q \in Requests |-> IF q \in {} THEN {} ELSE Reads[q]]
    BY <1>6, <2>1 DEF Finish, Reads
  <2>3. wants' = [v \in Writers |-> IF v \in {w} THEN {} ELSE wants[v]]
    BY <1>6 DEF Finish, IInv, TypeOK
  <2>4. QED BY <2>2, <2>3 DEF Authority!End, Reads
<1>7. ASSUME NEW p \in Paths, Expire(p) PROVE Stutters
  <2>1. \A q \in Requests : (pc'[q] = "running") = (pc[q] = "running")
    BY <1>7 DEF Expire, WakeAll
  <2>2. QED BY <1>7, <2>1 DEF Expire, Reads, writerVars, Stutters
<1>8. CASE UNCHANGED vars
  <2>1. pc' = pc /\ path' = path /\ wants' = wants
    BY <1>8 DEF vars, readerVars, writerVars
  <2>2. QED BY <2>1 DEF Reads, Stutters, Goal
<1>9. ASSUME NEW r \in Requests PROVE Authority!End({r}, {}) => Authority!Next
  <2>1. {r} \in SUBSET Requests /\ {} \in SUBSET Writers
    OBVIOUS
  <2>2. QED BY <2>1, Zenon DEF Authority!Next
<1>10. ASSUME NEW w \in Writers PROVE Authority!End({}, {w}) => Authority!Next
  <2>1. {w} \in SUBSET Writers /\ {} \in SUBSET Requests
    OBVIOUS
  <2>2. QED BY <2>1, Zenon DEF Authority!Next
<1>11. ASSUME NEW w \in Writers, NEW ps, ps \subseteq Paths
       PROVE  Authority!Write(w, ps) => Authority!Next
  <2>1. ps \in SUBSET Paths
    BY <1>11
  <2>2. QED BY <2>1, Zenon DEF Authority!Next
<1>12. ASSUME NEW r \in Requests, NEW p \in Paths
       PROVE  Authority!Read(r, p) => Authority!Next
  BY Zenon DEF Authority!Next
<1>13. ASSUME NEW r \in Requests, \/ Resume(r) \/ Leave(r)
                                  \/ \E p \in Paths : Arrive(r, p)
       PROVE  Goal
  <2>1. CASE Resume(r)
    BY <2>1, <1>2, <1>12, Zenon DEF Goal
  <2>2. CASE Leave(r)
    BY <2>2, <1>3, <1>9, Zenon DEF Goal
  <2>3. ASSUME NEW p \in Paths, Arrive(r, p) PROVE Goal
    BY <2>3, <1>1, <1>12, Zenon DEF Goal
  <2>4. QED BY <1>13, <2>1, <2>2, <2>3, Zenon
<1>14. ASSUME NEW w \in Writers,
              \/ \E p \in Paths : Release(w, p)
              \/ \E ps \in (SUBSET Paths) \ {{}} : Exclusive(w, ps)
              \/ \E res \in {"ok", "failed"} : Finish(w, res)
       PROVE  Goal
  <2>1. /\ \A p \in Paths : {p} \subseteq Paths
        /\ \A ps \in (SUBSET Paths) \ {{}} : ps \subseteq Paths
    OBVIOUS
  <2>2. QED BY <2>1, <1>4, <1>5, <1>6, <1>10, <1>11, <1>14, Zenon DEF Goal
<1>15. QED
  BY <1>7, <1>8, <1>13, <1>14, Zenon DEF Next, Goal

(* The lease, with its gates, its two counters, its parked and woken        *)
(* requests and its timers, is readers that share and writers that are      *)
(* alone on all of their paths at once (session-route-lease.ts:13-26).      *)
THEOREM ImplementsRouteAuthority == Spec => LeaseGivesAuthority
BY InitRefines, NextRefines, Invariance, PTL
DEF Spec, LeaseGivesAuthority, Authority!Spec, Reads

=============================================================================
