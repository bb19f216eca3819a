-------------------------- MODULE SessionMoveProofs --------------------------
(***************************************************************************)
(* Proofs about SessionMove for any projects, requests and number of       *)
(* entries.                                                                *)
(*                                                                         *)
(* The lease keeps the requests off the paths of a move (Leased).  As long *)
(* as nothing was reopened without it, what the pool knows to be open is   *)
(* exactly what has a driver (Known): that is why a move that asks the     *)
(* pool closes whatever holds the file, and why nobody holds it from then  *)
(* on (Quiet).  The rewrite then copies a file that does not change, over  *)
(* a path that has none (Rewrite).                                         *)
(***************************************************************************)
EXTENDS SessionMove, TLAPS

(* Who has been sent something has a worker.                                *)
Served ==
  /\ \A r \in Requests : pc[r] \in {"loading", "asked"} => worker[target[r]] = "ready"
  /\ \A p \in reopening : worker[p] = "ready"

Leased ==
  stage # "idle" =>
    /\ from # to
    /\ \A r \in Requests : pc[r] # "idle" => target[r] # from /\ target[r] # to

Known ==
  /\ reopening = {}
  /\ \A p \in Projects : p \in active <=> driver[p] # "closed"
  /\ \A p \in Projects : driver[p] # "closed" => file[p] # {}
  /\ \A r \in Requests : pc[r] = "loading" => file[target[r]] # {}

Quiet ==
  /\ stage # "idle" => driver[to] = "closed"
  /\ stage \in {"closed", "copied", "placed"} => driver[from] = "closed"

Rewrite ==
  /\ stage \in {"copied", "placed"} => copy = file[from] /\ copy # {}
  /\ stage = "copied" => file[to] = {}
  /\ stage = "placed" => file[to] = copy

Complete == \A e \in 1 .. said : \E p \in Projects : e \in file[p]

One ==
  ~restarted =>
    /\ stage # "placed" => \E p \in Projects : Saved = {p}
    /\ stage = "placed" => Saved = {from, to}

Safe == Known /\ Quiet /\ Rewrite /\ Complete /\ One

IInv == TypeOK /\ Served /\ Leased /\ (OnlyUnderLease => Safe)

-----------------------------------------------------------------------------
LEMMA InitInv == Init => IInv
<1> SUFFICES ASSUME Init PROVE IInv
  OBVIOUS
<1>1. PICK home \in Projects :
        /\ file = [p \in Projects |-> IF p = home THEN {1} ELSE {}]
        /\ from = home
        /\ to = home
        /\ target = [r \in Requests |-> home]
  BY DEF Init
<1>2. TypeOK
  <2>1. 1 \in Entries /\ 1 \in 0 .. MaxSaid
    BY MoveAssumption DEF Entries
  <2>2. file \in [Projects -> SUBSET Entries]
    BY <1>1, <2>1
  <2> QED
    BY <1>1, <2>1, <2>2 DEF Init, TypeOK
<1>3. Served /\ Leased
  BY DEF Init, Served, Leased
<1>4. Known /\ Quiet /\ Rewrite
  BY <1>1 DEF Init, Known, Quiet, Rewrite
<1>5. Complete
  <2>1. 1 \in file[home] /\ said = 1
    BY <1>1 DEF Init
  <2> QED
    BY <2>1 DEF Complete
<1>6. One
  <2>1. Saved = {home}
    BY <1>1 DEF Saved
  <2> QED
    BY <2>1 DEF Init, One
<1> QED
  BY <1>2, <1>3, <1>4, <1>5, <1>6 DEF IInv, Safe

LEMMA NextInv == IInv /\ [Next]_vars => IInv'
<1> SUFFICES ASSUME IInv, [Next]_vars PROVE IInv'
  OBVIOUS
<1> USE MoveAssumption DEF IInv, OnlyUnderLease
<1>1. ASSUME NEW p \in Projects, Spawn(p) PROVE IInv'
  <2>1. TypeOK' /\ Served' /\ Leased'
    BY <1>1 DEF TypeOK, Served, Leased, Spawn, diskVars, reqVars, moveVars
  <2>2. ASSUME ~recovered' PROVE Safe'
    <3>0. ~recovered /\ Safe
      BY <1>1, <2>2 DEF Spawn
    <3>1. Known' /\ Quiet' /\ Rewrite' /\ Complete' /\ One'
      BY <1>1, <2>2, <3>0
      DEF Safe, Known, Quiet, Rewrite, Complete, One, Saved, Spawn,
         diskVars, reqVars, moveVars
    <3> QED
      BY <3>1 DEF Safe
  <2> QED
    BY <2>1, <2>2
<1>2. ASSUME NEW p \in Projects, Crash(p) PROVE IInv'
  <2>1. TypeOK' /\ Served' /\ Leased'
    BY <1>2 DEF TypeOK, Served, Leased, Crash, diskVars
  <2>2. ASSUME ~recovered' PROVE Safe'
    <3>0. ~recovered /\ Safe
      BY <1>2, <2>2 DEF TypeOK, Crash, HostFree, diskVars
    <3>1. Known' /\ Quiet' /\ Rewrite' /\ Complete' /\ One'
      BY <1>2, <2>2, <3>0
      DEF TypeOK, Safe, Known, Quiet, Rewrite, Complete, One, Saved, Crash,
         diskVars
    <3> QED
      BY <3>1 DEF Safe
  <2> QED
    BY <2>1, <2>2
<1>3. ASSUME NEW p \in Projects, Reopen(p) PROVE IInv'
  <2>1. TypeOK' /\ Served' /\ Leased'
    BY <1>3 DEF TypeOK, Served, Leased, Reopen, diskVars, reqVars, moveVars
  <2>2. ASSUME ~recovered' PROVE Safe'
    <3>0. ~recovered /\ Safe
      BY <1>3, <2>2 DEF Reopen
    <3>1. Known' /\ Quiet' /\ Rewrite' /\ Complete' /\ One'
      BY <1>3, <2>2, <3>0 DEF Reopen
    <3> QED
      BY <3>1 DEF Safe
  <2> QED
    BY <2>1, <2>2
<1>4. ASSUME NEW p \in Projects, ReopenLoads(p) PROVE IInv'
  <2>1. TypeOK' /\ Served' /\ Leased'
    BY <1>4
    DEF TypeOK, Served, Leased, ReopenLoads, Loaded, diskVars, poolVars,
       reqVars, moveVars
  <2>2. ASSUME ~recovered' PROVE Safe'
    <3>0. ~recovered /\ Safe
      BY <1>4, <2>2 DEF ReopenLoads
    <3>1. Known' /\ Quiet' /\ Rewrite' /\ Complete' /\ One'
      BY <1>4, <2>2, <3>0 DEF Safe, Known, ReopenLoads
    <3> QED
      BY <3>1 DEF Safe
  <2> QED
    BY <2>1, <2>2
<1>5. ASSUME NEW p \in Projects, ReopenBinds(p) PROVE IInv'
  <2>1. TypeOK' /\ Served' /\ Leased'
    BY <1>5
    DEF TypeOK, Served, Leased, ReopenBinds, Bind, diskVars, workerVars,
       reqVars, moveVars
  <2>2. ASSUME ~recovered' PROVE Safe'
    <3>0. ~recovered /\ Safe
      BY <1>5, <2>2 DEF ReopenBinds
    <3>1. Known' /\ Quiet' /\ Rewrite' /\ Complete' /\ One'
      BY <1>5, <2>2, <3>0 DEF Safe, Known, ReopenBinds
    <3> QED
      BY <3>1 DEF Safe
  <2> QED
    BY <2>1, <2>2
<1>6. ASSUME NEW p \in Projects, Unload(p) PROVE IInv'
  <2>1. TypeOK' /\ Served' /\ Leased'
    BY <1>6
    DEF TypeOK, Served, Leased, Unload, Forget, diskVars, reqVars, moveVars
  <2>2. ASSUME ~recovered' PROVE Safe'
    <3>0. ~recovered /\ Safe
      BY <1>6, <2>2 DEF Unload
    <3>1. Known' /\ Quiet' /\ Rewrite' /\ Complete' /\ One'
      BY <1>6, <2>2, <3>0
      DEF TypeOK, Safe, Known, Quiet, Rewrite, Complete, One, Saved, Unload,
         Forget, diskVars, reqVars, moveVars
    <3> QED
      BY <3>1 DEF Safe
  <2> QED
    BY <2>1, <2>2
<1>7. ASSUME NEW p \in Projects, Wake(p) PROVE IInv'
  <2>1. TypeOK' /\ Served' /\ Leased'
    BY <1>7
    DEF TypeOK, Served, Leased, Wake, Turn, diskVars, poolVars, reqVars,
       moveVars
  <2>2. ASSUME ~recovered' PROVE Safe'
    <3>0. ~recovered /\ Safe
      BY <1>7, <2>2 DEF Wake
    <3>1. Known' /\ Quiet' /\ Rewrite' /\ Complete' /\ One'
      BY <1>7, <2>2, <3>0
      DEF Safe, Known, Quiet, Rewrite, Complete, One, Saved, Wake, Turn,
         diskVars, poolVars, reqVars, moveVars
    <3> QED
      BY <3>1 DEF Safe
  <2> QED
    BY <2>1, <2>2
<1>8. ASSUME NEW p \in Projects, TurnSays(p) PROVE IInv'
  <2>1. TypeOK' /\ Served' /\ Leased'
    BY <1>8
    DEF TypeOK, Entries, Served, Leased, TurnSays, workerVars, poolVars,
       reqVars, moveVars
  <2>2. ASSUME ~recovered' PROVE Safe'
    <3>0. ~recovered /\ Safe
      BY <1>8, <2>2 DEF TurnSays
    <3>1. Known'
      BY <1>8, <2>2, <3>0
      DEF Safe, Known, TurnSays, workerVars, poolVars, reqVars
    <3>2. Quiet'
      BY <1>8, <2>2, <3>0 DEF Safe, Quiet, TurnSays, workerVars, moveVars
    <3>3. Rewrite'
      BY <1>8, <2>2, <3>0 DEF Safe, Quiet, Rewrite, TurnSays, moveVars
    <3>4. Complete'
      BY <1>8, <2>2, <3>0 DEF TypeOK, Safe, Complete, TurnSays
    <3>5. One'
      BY <1>8, <2>2, <3>0 DEF Safe, Known, One, Saved, TurnSays, moveVars
    <3> QED
      BY <3>1, <3>2, <3>3, <3>4, <3>5 DEF Safe
  <2> QED
    BY <2>1, <2>2
<1>9. ASSUME NEW p \in Projects, TurnEnds(p) PROVE IInv'
  <2>1. TypeOK' /\ Served' /\ Leased'
    BY <1>9
    DEF TypeOK, Served, Leased, TurnEnds, diskVars, poolVars, reqVars,
       moveVars
  <2>2. ASSUME ~recovered' PROVE Safe'
    <3>0. ~recovered /\ Safe
      BY <1>9, <2>2 DEF TurnEnds
    <3>1. Known' /\ Quiet' /\ Rewrite' /\ Complete' /\ One'
      BY <1>9, <2>2, <3>0
      DEF Safe, Known, Quiet, Rewrite, Complete, One, Saved, TurnEnds,
         diskVars, poolVars, reqVars, moveVars
    <3> QED
      BY <3>1 DEF Safe
  <2> QED
    BY <2>1, <2>2
<1>10. ASSUME NEW r \in Requests, NEW p \in Projects, Route(r, p) PROVE IInv'
  <2>1. TypeOK' /\ Served' /\ Leased'
    BY <1>10
    DEF TypeOK, Served, Leased, Route, Moving, diskVars, workerVars,
       poolVars, moveVars
  <2>2. ASSUME ~recovered' PROVE Safe'
    <3>0. ~recovered /\ Safe
      BY <1>10, <2>2 DEF Route
    <3>1. Known' /\ Quiet' /\ Rewrite' /\ Complete' /\ One'
      BY <1>10, <2>2, <3>0
      DEF Safe, Known, Quiet, Rewrite, Complete, One, Saved, Route,
         diskVars, workerVars, poolVars, moveVars
    <3> QED
      BY <3>1 DEF Safe
  <2> QED
    BY <2>1, <2>2
<1>11. ASSUME NEW r \in Requests, Got(r) PROVE IInv'
  <2>1. TypeOK' /\ Served' /\ Leased'
    BY <1>11
    DEF TypeOK, Served, Leased, Got, diskVars, workerVars, poolVars,
       moveVars
  <2>2. ASSUME ~recovered' PROVE Safe'
    <3>0. ~recovered /\ Safe
      BY <1>11, <2>2 DEF Got
    <3>1. Known' /\ Quiet' /\ Rewrite' /\ Complete' /\ One'
      BY <1>11, <2>2, <3>0
      DEF Safe, Known, Quiet, Rewrite, Complete, One, Saved, Got, diskVars,
         workerVars, poolVars, moveVars
    <3> QED
      BY <3>1 DEF Safe
  <2> QED
    BY <2>1, <2>2
<1>12. ASSUME NEW r \in Requests, RequestLoads(r) PROVE IInv'
  <2>1. TypeOK' /\ Served' /\ Leased'
    BY <1>12
    DEF TypeOK, Served, Leased, RequestLoads, Loaded, Bind, diskVars,
       moveVars
  <2>2. ASSUME ~recovered' PROVE Safe'
    <3>0. ~recovered /\ Safe
      BY <1>12, <2>2 DEF RequestLoads
    <3>1. Known' /\ Quiet' /\ Rewrite' /\ Complete' /\ One'
      BY <1>12, <2>2, <3>0
      DEF TypeOK, Safe, Leased, Known, Quiet, Rewrite, Complete, One, Saved,
         RequestLoads, Loaded, Bind, diskVars, moveVars
    <3> QED
      BY <3>1 DEF Safe
  <2> QED
    BY <2>1, <2>2
<1>13. ASSUME NEW r \in Requests, Answered(r) PROVE IInv'
  <2>1. TypeOK' /\ Served' /\ Leased'
    BY <1>13
    DEF TypeOK, Served, Leased, Answered, Turn, diskVars, poolVars, moveVars
  <2>2. ASSUME ~recovered' PROVE Safe'
    <3>0. ~recovered /\ Safe
      BY <1>13, <2>2 DEF Answered
    <3>1. Known'
      BY <1>13, <2>2, <3>0
      DEF TypeOK, Safe, Known, Answered, Turn, diskVars, poolVars
    <3>2. Quiet'
      BY <1>13, <2>2, <3>0 DEF TypeOK, Safe, Quiet, Answered, Turn, moveVars
    <3>3. Rewrite'
      BY <1>13, <2>2, <3>0 DEF Safe, Rewrite, Answered, diskVars, moveVars
    <3>4. Complete'
      BY <1>13, <2>2, <3>0 DEF Safe, Complete, Answered, diskVars
    <3>5. One'
      BY <1>13, <2>2, <3>0 DEF Safe, One, Saved, Answered, diskVars, moveVars
    <3> QED
      BY <3>1, <3>2, <3>3, <3>4, <3>5 DEF Safe
  <2> QED
    BY <2>1, <2>2
<1>14. ASSUME NEW p \in Projects, NEW q \in Projects, Move(p, q) PROVE IInv'
  <2>1. TypeOK' /\ Served'
    BY <1>14 DEF TypeOK, Served, Move, diskVars, workerVars, poolVars, reqVars
  <2>2. Leased'
    BY <1>14 DEF Leased, Move, Alone, Routed, reqVars
  <2>3. ASSUME ~recovered' PROVE Safe'
    <3>0. ~recovered /\ Safe
      BY <1>14, <2>3 DEF Move
    <3>1. Known' /\ Rewrite' /\ Complete' /\ One'
      BY <1>14, <2>3, <3>0
      DEF Safe, Known, Rewrite, Complete, One, Saved, Move, diskVars,
         workerVars, poolVars, reqVars
    <3>2. Quiet'
      BY <1>14, <2>3, <3>0
      DEF TypeOK, Safe, Known, Quiet, Move, Open, workerVars
    <3> QED
      BY <3>1, <3>2 DEF Safe
  <2> QED
    BY <2>1, <2>2, <2>3
<1>15. CASE Closed
  <2>1. TypeOK' /\ Served' /\ Leased'
    BY <1>15 DEF TypeOK, Served, Leased, Closed, Forget, diskVars, reqVars
  <2>2. ASSUME ~recovered' PROVE Safe'
    <3>0. ~recovered /\ Safe
      BY <1>15, <2>2 DEF Closed
    <3>1. Known'
      BY <1>15, <2>2, <3>0
      DEF TypeOK, Safe, Known, Closed, Forget, diskVars, reqVars
    <3>2. Quiet'
      BY <1>15, <2>2, <3>0 DEF TypeOK, Safe, Quiet, Closed
    <3>3. Rewrite' /\ Complete' /\ One'
      BY <1>15, <2>2, <3>0
      DEF Safe, Rewrite, Complete, One, Saved, Closed, diskVars
    <3> QED
      BY <3>1, <3>2, <3>3 DEF Safe
  <2> QED
    BY <2>1, <2>2
<1>16. CASE CloseRefused
  <2>1. TypeOK' /\ Served' /\ Leased'
    BY <1>16
    DEF TypeOK, Served, Leased, CloseRefused, diskVars, workerVars,
       poolVars, reqVars
  <2>2. ASSUME ~recovered' PROVE Safe'
    <3>0. ~recovered /\ Safe
      BY <1>16, <2>2 DEF CloseRefused
    <3>1. Known' /\ Quiet' /\ Rewrite' /\ Complete' /\ One'
      BY <1>16, <2>2, <3>0
      DEF Safe, Known, Quiet, Rewrite, Complete, One, Saved, CloseRefused,
         diskVars, workerVars, poolVars, reqVars
    <3> QED
      BY <3>1 DEF Safe
  <2> QED
    BY <2>1, <2>2
<1>17. CASE Copied
  <2>1. TypeOK'
    <3>1. stage' \in {"idle", "copied"} /\ copy' \in {copy, file[from]}
      BY <1>17 DEF Copied
    <3>2. file[from] \subseteq Entries
      BY DEF TypeOK
    <3> QED
      BY <1>17, <3>1, <3>2
      DEF TypeOK, Copied, diskVars, workerVars, poolVars, reqVars
  <2>2. Served'
    BY <1>17 DEF Served, Copied, workerVars, poolVars, reqVars
  <2>3. Leased'
    BY <1>17 DEF Leased, Copied, reqVars
  <2>4. ASSUME ~recovered' PROVE Safe'
    <3>0. ~recovered /\ Safe
      BY <1>17, <2>4 DEF Copied
    <3>1. Known'
      BY <1>17, <2>4, <3>0
      DEF Safe, Known, Copied, diskVars, workerVars, poolVars, reqVars
    <3>2. Quiet'
      BY <1>17, <2>4, <3>0 DEF Safe, Quiet, Copied, workerVars
    <3>3. Rewrite'
      BY <1>17, <2>4, <3>0 DEF Rewrite, Copied, diskVars
    <3>4. Complete'
      BY <1>17, <2>4, <3>0 DEF Safe, Complete, Copied, diskVars
    <3>5. One'
      BY <1>17, <2>4, <3>0 DEF Safe, One, Saved, Copied, diskVars
    <3> QED
      BY <3>1, <3>2, <3>3, <3>4, <3>5 DEF Safe
  <2> QED
    BY <2>1, <2>2, <2>3, <2>4
<1>18. CASE Placed
  <2>1. TypeOK' /\ Served' /\ Leased'
    BY <1>18 DEF TypeOK, Served, Leased, Placed, workerVars, poolVars, reqVars
  <2>2. ASSUME ~recovered' PROVE Safe'
    <3>0. ~recovered /\ Safe
      BY <1>18, <2>2 DEF Placed
    <3>1. Known'
      BY <1>18, <2>2, <3>0
      DEF Safe, Known, Rewrite, Placed, workerVars, poolVars, reqVars
    <3>2. Quiet'
      BY <1>18, <2>2, <3>0 DEF Safe, Quiet, Placed, workerVars
    <3>3. Rewrite'
      BY <1>18, <2>2, <3>0 DEF TypeOK, Safe, Rewrite, Placed
    <3>4. Complete'
      BY <1>18, <2>2, <3>0 DEF Safe, Rewrite, Complete, Placed
    <3>5. One'
      BY <1>18, <2>2, <3>0 DEF TypeOK, Safe, Rewrite, One, Saved, Placed
    <3> QED
      BY <3>1, <3>2, <3>3, <3>4, <3>5 DEF Safe
  <2> QED
    BY <2>1, <2>2
<1>19. CASE Removed
  <2>1. TypeOK' /\ Served' /\ Leased'
    BY <1>19
    DEF TypeOK, Served, Leased, Removed, WithoutOriginal, workerVars,
       poolVars, reqVars
  <2>2. ASSUME ~recovered' PROVE Safe'
    <3>0. ~recovered /\ Safe
      BY <1>19, <2>2 DEF Removed
    <3>1. Known'
      BY <1>19, <2>2, <3>0
      DEF Safe, Leased, Known, Quiet, Removed, WithoutOriginal, workerVars,
         poolVars, reqVars
    <3>2. Quiet'
      BY <1>19, <2>2, <3>0 DEF Quiet, Removed
    <3>3. Rewrite'
      BY <1>19, <2>2, <3>0 DEF Rewrite, Removed
    <3>4. Complete'
      BY <1>19, <2>2, <3>0
      DEF TypeOK, Safe, Leased, Rewrite, Complete, Removed, WithoutOriginal
    <3>5. One'
      BY <1>19, <2>2, <3>0
      DEF TypeOK, Safe, Leased, One, Saved, Removed, WithoutOriginal
    <3> QED
      BY <3>1, <3>2, <3>3, <3>4, <3>5 DEF Safe
  <2> QED
    BY <2>1, <2>2
<1>20. CASE HostCrash
  <2>1. TypeOK' /\ Served' /\ Leased'
    BY <1>20 DEF TypeOK, Served, Leased, HostCrash, diskVars
  <2>2. ASSUME ~recovered' PROVE Safe'
    <3>0. ~recovered /\ Safe
      BY <1>20, <2>2 DEF TypeOK, HostCrash, diskVars
    <3>1. Known' /\ Quiet' /\ Rewrite' /\ Complete' /\ One'
      BY <1>20, <2>2, <3>0
      DEF Safe, Known, Quiet, Rewrite, Complete, One, HostCrash, diskVars
    <3> QED
      BY <3>1 DEF Safe
  <2> QED
    BY <2>1, <2>2
<1>21. CASE UNCHANGED vars
  <2>1. TypeOK' /\ Served' /\ Leased'
    BY <1>21
    DEF TypeOK, Served, Leased, vars, diskVars, workerVars, poolVars,
       reqVars, moveVars
  <2>2. ASSUME ~recovered' PROVE Safe'
    <3>0. ~recovered /\ Safe
      BY <1>21, <2>2 DEF vars
    <3>1. Known' /\ Quiet' /\ Rewrite' /\ Complete' /\ One'
      BY <1>21, <2>2, <3>0
      DEF Safe, Known, Quiet, Rewrite, Complete, One, Saved, vars, diskVars,
         workerVars, poolVars, reqVars, moveVars
    <3> QED
      BY <3>1 DEF Safe
  <2> QED
    BY <2>1, <2>2
<1> QED
  BY <1>1, <1>2, <1>3, <1>4, <1>5, <1>6, <1>7, <1>8, <1>9, <1>10,
     <1>11, <1>12, <1>13, <1>14, <1>15, <1>16, <1>17, <1>18, <1>19, <1>20, <1>21 DEF Next

LEMMA Invariance == Spec => []IInv
BY InitInv, NextInv, PTL DEF Spec

-----------------------------------------------------------------------------
(* Every variable keeps its type.                                          *)
THEOREM TypeCorrect == Spec => []TypeOK
<1>1. IInv => TypeOK
  BY DEF IInv
<1> QED
  BY <1>1, Invariance, PTL

(* No entry a turn wrote is ever missing from every file, whatever dies in *)
(* the middle of a move (session-move.ts:9-11).                            *)
THEOREM NothingIsLost == Spec => []NothingLost
<1>1. IInv => NothingLost
  <2>1. ASSUME IInv, OnlyUnderLease, NEW e \in 1 .. said
        PROVE  \E p \in Saved : e \in file[p]
    BY <2>1 DEF IInv, Safe, Complete, Saved
  <2> QED
    BY <2>1 DEF NothingLost
<1> QED
  BY <1>1, Invariance, PTL

(* Nobody holds either file while the host rewrites it                     *)
(* (session-move.ts:7-8).                                                  *)
THEOREM ClosedWhileRewriting == Spec => []ClosedUnderMove
<1>1. IInv => ClosedUnderMove
  BY DEF IInv, Safe, Quiet, ClosedUnderMove, Rewriting
<1> QED
  BY <1>1, Invariance, PTL

(* The conversation is in one file but between rename and removal, and     *)
(* after a crash there.                                                    *)
THEOREM OneFileIsKept == Spec => []OneFile
<1>1. IInv => OneFile
  BY DEF IInv, Safe, One, OneFile
<1> QED
  BY <1>1, Invariance, PTL

(* What the pool routes to has a driver, and a driver has a file           *)
(* (worker-pool.ts:671-675).                                               *)
THEOREM KnownSessionsAreThere == Spec => []KnownIsThere
<1>1. IInv => KnownIsThere
  BY DEF IInv, TypeOK, Safe, Known, Saved, KnownIsThere
<1> QED
  BY <1>1, Invariance, PTL

-----------------------------------------------------------------------------
(* The requests and the move take and give back what RouteAuthority says.  *)
Reads == [r \in Requests |-> IF pc[r] = "idle" THEN {} ELSE {target[r]}]
Holds == [w \in {"move"} |-> IF stage = "idle" THEN {} ELSE {from, to}]

Goal == Authority!Next \/ (Reads' = Reads /\ Holds' = Holds)

(* A step that ends some requests, and perhaps the move, ends their hold.  *)
LEMMA Ends ==
  ASSUME IInv, NEW R \in SUBSET Requests, target' = target,
         pc' \in [Requests -> {"idle", "getting", "loading", "asked"}],
         \A r \in Requests : r \in R => pc'[r] = "idle",
         \A r \in Requests \ R : pc'[r] = "idle" <=> pc[r] = "idle",
         from' = from, to' = to,
         stage' = "idle" \/ (stage' # "idle" /\ stage # "idle")
  PROVE  Goal
<1>1. Reads' = [r \in Requests |-> IF r \in R THEN {} ELSE Reads[r]]
  BY DEF Reads, IInv, TypeOK
<1>2. PICK W \in SUBSET {"move"} :
        Holds' = [w \in {"move"} |-> IF w \in W THEN {} ELSE Holds[w]]
  <2>1. CASE stage' = "idle"
    <3>1. Holds' = [w \in {"move"} |-> IF w \in {"move"} THEN {} ELSE Holds[w]]
      BY <2>1 DEF Holds
    <3> QED
      BY <3>1
  <2>2. CASE stage' # "idle" /\ stage # "idle"
    <3>1. Holds' = [w \in {"move"} |-> IF w \in {} THEN {} ELSE Holds[w]]
      BY <2>2 DEF Holds
    <3> QED
      BY <3>1
  <2> QED
    BY <2>1, <2>2
<1>3. Authority!End(R, W)
  BY <1>1, <1>2 DEF Authority!End, Reads, Holds
<1> QED
  BY <1>3, Zenon DEF Goal, Authority!Next

LEMMA InitRefines == Init => Authority!Init
BY DEF Init, Authority!Init

(* Every step of the program is one of the abstract lease, or none of its. *)
LEMMA NextRefines == IInv /\ [Next]_vars => [Authority!Next]_<<Reads, Holds>>
<1> SUFFICES ASSUME IInv, [Next]_vars PROVE Goal
  BY DEF Goal
<1> DEFINE Stutters == Reads' = Reads /\ Holds' = Holds
<1>1. ASSUME UNCHANGED <<reqVars, moveVars>> PROVE Goal
  BY <1>1 DEF reqVars, moveVars, Reads, Holds, Goal
<1>2. ASSUME NEW p \in Projects,
             \/ Spawn(p) \/ Reopen(p) \/ ReopenLoads(p) \/ ReopenBinds(p)
             \/ Unload(p) \/ Wake(p) \/ TurnSays(p) \/ TurnEnds(p)
      PROVE  Goal
  BY <1>1, <1>2
  DEF Spawn, Reopen, ReopenLoads, ReopenBinds, Unload, Wake, TurnSays, TurnEnds
<1>3. ASSUME NEW p \in Projects, Crash(p) PROVE Goal
  <2> DEFINE R == {r \in Requests : target[r] = p /\ pc[r] \in {"loading", "asked"}}
  <2>1. R \in SUBSET Requests
    OBVIOUS
  <2>2. /\ pc' \in [Requests -> {"idle", "getting", "loading", "asked"}]
        /\ \A r \in Requests : r \in R => pc'[r] = "idle"
        /\ \A r \in Requests \ R : pc'[r] = "idle" <=> pc[r] = "idle"
    BY <1>3 DEF Crash, IInv, TypeOK
  <2>3. /\ target' = target /\ from' = from /\ to' = to
        /\ stage' = "idle" \/ stage' = stage
    BY <1>3 DEF Crash
  <2> QED
    BY <2>1, <2>2, <2>3, Ends
<1>4. ASSUME NEW r \in Requests, NEW p \in Projects, Route(r, p) PROVE Goal
  <2>1. Reads[r] = {} /\ Reads' = [Reads EXCEPT ![r] = {p}] /\ Holds' = Holds
    BY <1>4 DEF Route, moveVars, Reads, Holds, IInv, TypeOK
  <2>2. \A w \in {"move"} : p \notin Holds[w]
    BY <1>4 DEF Route, Moving, Holds
  <2>3. Authority!Read(r, p)
    BY <2>1, <2>2 DEF Authority!Read, Authority!NobodyWrites, Reads, Holds
  <2> QED
    BY <2>3, Zenon DEF Goal, Authority!Next
<1>5. ASSUME NEW r \in Requests, Got(r) \/ RequestLoads(r) \/ Answered(r)
      PROVE  Goal
  <2>1. /\ UNCHANGED <<target, moveVars>>
        /\ pc[r] # "idle"
        /\ pc' \in {[pc EXCEPT ![r] = x] : x \in {"idle", "loading", "asked"}}
    BY <1>5 DEF Got, RequestLoads, Answered
  <2>2. PICK x \in {"idle", "loading", "asked"} : pc' = [pc EXCEPT ![r] = x]
    BY <2>1
  <2> DEFINE R == IF x = "idle" THEN {r} ELSE {}
  <2>3. /\ pc' \in [Requests -> {"idle", "getting", "loading", "asked"}]
        /\ \A q \in Requests : q \in R => pc'[q] = "idle"
        /\ \A q \in Requests \ R : pc'[q] = "idle" <=> pc[q] = "idle"
    BY <2>1, <2>2 DEF IInv, TypeOK
  <2>4. R \in SUBSET Requests
    OBVIOUS
  <2>5. target' = target /\ from' = from /\ to' = to /\ stage' = stage
    BY <2>1 DEF moveVars
  <2> HIDE DEF R
  <2> QED
    BY <2>3, <2>4, <2>5, Ends
<1>6. ASSUME NEW p \in Projects, NEW q \in Projects, Move(p, q) PROVE Goal
  <2>1. /\ Holds["move"] = {} /\ Reads' = Reads
        /\ Holds' = [Holds EXCEPT !["move"] = {p, q}]
    BY <1>6 DEF Move, reqVars, Reads, Holds
  <2>2. \A x \in {p, q} : /\ \A w \in {"move"} : x \notin Holds[w]
                          /\ \A r \in Requests : x \notin Reads[r]
    BY <1>6 DEF Move, Alone, Routed, Reads, Holds
  <2>3. Authority!Write("move", {p, q})
    BY <2>1, <2>2
    DEF Authority!Write, Authority!NobodyWrites, Authority!NobodyReads, Reads, Holds
  <2>4. \E w \in {"move"}, ps \in SUBSET Projects : Authority!Write(w, ps)
    BY <2>3
  <2> QED
    BY <2>4, Zenon DEF Goal, Authority!Next
<1>7. ASSUME Closed \/ CloseRefused \/ Copied \/ Placed \/ Removed PROVE Goal
  <2>1. /\ UNCHANGED reqVars /\ from' = from /\ to' = to /\ stage # "idle"
    BY <1>7 DEF Closed, CloseRefused, Copied, Placed, Removed
  <2>2. pc' = pc /\ target' = target
    BY <2>1 DEF reqVars
  <2>3. pc' \in [Requests -> {"idle", "getting", "loading", "asked"}]
    BY <2>2 DEF IInv, TypeOK
  <2>4. /\ {} \in SUBSET Requests
        /\ \A r \in Requests : r \in {} => pc'[r] = "idle"
        /\ \A r \in Requests \ {} : pc'[r] = "idle" <=> pc[r] = "idle"
    BY <2>2
  <2>5. stage' = "idle" \/ (stage' # "idle" /\ stage # "idle")
    BY <2>1
  <2> QED
    BY <2>1, <2>2, <2>3, <2>4, <2>5, Ends
<1>8. ASSUME HostCrash PROVE Goal
  <2>1. /\ pc' = [r \in Requests |-> "idle"] /\ target' = target
        /\ stage' = "idle" /\ from' = from /\ to' = to
    BY <1>8 DEF HostCrash
  <2> QED
    BY <2>1, Ends
<1>9. CASE UNCHANGED vars
  BY <1>1, <1>9 DEF vars
<1> QED
  BY <1>2, <1>3, <1>4, <1>5, <1>6, <1>7, <1>8, <1>9 DEF Next

(* A move holds both of its paths from its decision to its last step, and  *)
(* a request its path from its routing to its answer, whatever is refused  *)
(* or dies meanwhile (router.ts: forwardOnce, moveSession).                *)
THEOREM ImplementsRouteAuthority == Spec => MoveKeepsAuthority
BY InitRefines, NextRefines, Invariance, PTL
DEF Spec, MoveKeepsAuthority, Authority!Spec, Reads, Holds
=============================================================================
