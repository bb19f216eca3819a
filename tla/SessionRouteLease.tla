------------------------- MODULE SessionRouteLease -------------------------
(***************************************************************************)
(* The per-session route lease of the host                                 *)
(* (packages/host/src/session-route-lease.ts).                             *)
(*                                                                         *)
(* Routed requests are the readers of a session path; a lifetime release   *)
(* and a move are its writers.  A reader that meets a writer parks on that *)
(* writer's gate and is woken by the gate's outcome or by the gate's one   *)
(* shared timer; it then takes another turn of the loop in `route`, where  *)
(* it may meet a different writer.  A writer never waits: it starts only   *)
(* on paths nobody holds and is declined otherwise.                        *)
(*                                                                         *)
(* JavaScript runs each synchronous stretch without interruption, so an    *)
(* action is the code between two awaits.  A promise that is resolved does *)
(* not resume its waiter at once: between `settle` and the waiter's next   *)
(* line other code runs, which is the state "woken" here.                  *)
(*                                                                         *)
(* Abstracted: what the leased work does, the 10 s bound (the timer may    *)
(* fire at any moment after it is set) and the sentences of a refusal.     *)
(***************************************************************************)
EXTENDS Naturals, FiniteSets

CONSTANTS
  Paths,     \* session file paths
  Requests,  \* routed requests; each is one call of route() at a time
  Writers,   \* release and move operations; each owns the gates it creates
  NoWriter,  \* "no writer holds this path"
  MaxGates   \* MAX_GATES_PER_ROUTE

ASSUME LeaseAssumption ==
  /\ IsFiniteSet(Requests)
  /\ NoWriter \notin Writers
  /\ MaxGates \in Nat \ {0}

VARIABLES
  writers,    \* path -> the operation whose gate is in the writers map
  overBound,  \* path -> the gate's bound passed while it was unsettled
  timer,      \* path -> the gate's shared expiry timer is running
  routed,     \* path -> the counter of routed requests in flight
  waiting,    \* path -> the counter of routed requests parked on a writer
  kind,       \* operation -> what it does with the paths it wants
  wants,      \* operation -> the paths it runs over, {} when it is not running
  result,     \* operation -> how its last work ended
  pc,         \* request -> where it is in route()
  path,       \* request -> the path it names
  gate,       \* request -> the operation whose gate it met last
  gates,      \* request -> how many gates it has waited out
  outcome     \* request -> what the race in wait() resolved with

readerVars == <<pc, path, gate, gates, outcome>>
writerVars == <<kind, wants, result>>
gateVars   == <<writers, overBound, timer>>
vars == <<gateVars, routed, waiting, writerVars, readerVars>>

TypeOK ==
  /\ writers \in [Paths -> Writers \cup {NoWriter}]
  /\ overBound \in [Paths -> BOOLEAN]
  /\ timer \in [Paths -> BOOLEAN]
  /\ routed \in [Paths -> Nat]
  /\ waiting \in [Paths -> Nat]
  /\ kind \in [Writers -> {"release", "move"}]
  /\ wants \in [Writers -> SUBSET Paths]
  /\ result \in [Writers -> {"none", "ok", "failed"}]
  /\ pc \in [Requests -> {"idle", "parked", "woken", "running", "refused"}]
  /\ path \in [Requests -> Paths]
  /\ gate \in [Requests -> Writers \cup {NoWriter}]
  /\ gates \in [Requests -> 0..MaxGates]
  /\ outcome \in [Requests -> {"none", "settled", "failed", "expired"}]

Init ==
  /\ writers = [p \in Paths |-> NoWriter]
  /\ overBound = [p \in Paths |-> FALSE]
  /\ timer = [p \in Paths |-> FALSE]
  /\ routed = [p \in Paths |-> 0]
  /\ waiting = [p \in Paths |-> 0]
  /\ kind = [w \in Writers |-> "release"]
  /\ wants = [w \in Writers |-> {}]
  /\ result = [w \in Writers |-> "none"]
  /\ pc = [r \in Requests |-> "idle"]
  /\ path \in [Requests -> Paths]
  /\ gate = [r \in Requests |-> NoWriter]
  /\ gates = [r \in Requests |-> 0]
  /\ outcome = [r \in Requests |-> "none"]

Running(p) == {r \in Requests : pc[r] = "running" /\ path[r] = p}
Waiting(p) == {r \in Requests : pc[r] \in {"parked", "woken"} /\ path[r] = p}

-----------------------------------------------------------------------------
(* Slips: definitions of this module with one plausible mistake in them.   *)
(* Each takes the place of its original in a run that must then fail.      *)

\* The waiter's count is not given back when it gets in.
EnterStillCounted(r, p, counter) ==
  /\ writers[p] = NoWriter
  /\ pc' = [pc EXCEPT ![r] = "running"]
  /\ routed' = [routed EXCEPT ![p] = @ + 1]
  /\ UNCHANGED <<waiting, gate, timer>>

\* overBound is not looked at: the newcomer waits on an expired gate.
ParkOnExpiredGate(r, p, turn, counter) ==
  /\ writers[p] # NoWriter
  /\ turn < MaxGates
  /\ pc' = [pc EXCEPT ![r] = "parked"]
  /\ gate' = [gate EXCEPT ![r] = writers[p]]
  /\ waiting' = [counter EXCEPT ![p] = @ + 1]
  /\ timer' = [timer EXCEPT ![p] = TRUE]
  /\ UNCHANGED routed

\* wait() is the bare promise, with no timer beside it.
ParkWithoutTimer(r, p, turn, counter) ==
  /\ writers[p] # NoWriter
  /\ ~overBound[p]
  /\ turn < MaxGates
  /\ pc' = [pc EXCEPT ![r] = "parked"]
  /\ gate' = [gate EXCEPT ![r] = writers[p]]
  /\ waiting' = [counter EXCEPT ![p] = @ + 1]
  /\ UNCHANGED <<routed, timer>>

\* The finally of the work lowers the wrong counter.
LeaveTheWrongCounter(r) ==
  /\ pc[r] = "running"
  /\ pc' = [pc EXCEPT ![r] = "idle"]
  /\ waiting' = [waiting EXCEPT ![path[r]] = @ - 1]
  /\ UNCHANGED <<gateVars, routed, writerVars, path, gate, gates, outcome>>

\* release() forgets one of its two declines.
ReleaseOverReaders(p) == writers[p] = NoWriter
ReleaseOverWriters(p) == routed[p] = 0

\* exclusive() forgets the parked requests.
ExclusiveOverWaiters(ps) ==
  \A p \in ps : routed[p] = 0 /\ writers[p] = NoWriter

\* The gate is settled without looking at how the work ended.
SettleAnyway(res) == "settled"

-----------------------------------------------------------------------------
(* Readers: one turn of the loop in route().                               *)

\* No writer holds the path: the request takes the lease and starts its work.
Enter(r, p, counter) ==
  /\ writers[p] = NoWriter
  /\ pc' = [pc EXCEPT ![r] = "running"]
  /\ routed' = [routed EXCEPT ![p] = @ + 1]
  /\ waiting' = counter
  /\ UNCHANGED <<gate, timer>>

\* The gate is past its bound, or this request has waited out enough of them.
Refuse(r, p, turn, counter) ==
  /\ writers[p] # NoWriter
  /\ overBound[p] \/ turn >= MaxGates
  /\ pc' = [pc EXCEPT ![r] = "refused"]
  /\ waiting' = counter
  /\ UNCHANGED <<routed, gate, timer>>

\* Wait on the gate; the first waiter starts the timer all of them share.
Park(r, p, turn, counter) ==
  /\ writers[p] # NoWriter
  /\ ~overBound[p]
  /\ turn < MaxGates
  /\ pc' = [pc EXCEPT ![r] = "parked"]
  /\ gate' = [gate EXCEPT ![r] = writers[p]]
  /\ waiting' = [counter EXCEPT ![p] = @ + 1]
  /\ timer' = [timer EXCEPT ![p] = TRUE]
  /\ UNCHANGED routed

Turn(r, p, turn, counter) ==
  \/ Enter(r, p, counter)
  \/ Refuse(r, p, turn, counter)
  \/ Park(r, p, turn, counter)

\* route(path, work) is called: its first turn is synchronous.
Arrive(r, p) ==
  /\ pc[r] \in {"idle", "refused"}
  /\ Turn(r, p, 0, waiting)
  /\ path' = [path EXCEPT ![r] = p]
  /\ gates' = [gates EXCEPT ![r] = 0]
  /\ outcome' = [outcome EXCEPT ![r] = "none"]
  /\ UNCHANGED <<writers, overBound, writerVars>>

\* The await of the gate returns: leave the waiting count, then refuse or loop.
Resume(r) ==
  LET p == path[r]
      counter == [waiting EXCEPT ![p] = @ - 1]
  IN /\ pc[r] = "woken"
     /\ IF outcome[r] = "settled"
          THEN /\ Turn(r, p, gates[r] + 1, counter)
               /\ gates' = [gates EXCEPT ![r] = @ + 1]
          ELSE /\ pc' = [pc EXCEPT ![r] = "refused"]
               /\ waiting' = counter
               /\ UNCHANGED <<routed, gate, timer, gates>>
     /\ UNCHANGED <<writers, overBound, writerVars, path, outcome>>

\* The leased work returned or threw: the finally gives the lease back.
Leave(r) ==
  /\ pc[r] = "running"
  /\ pc' = [pc EXCEPT ![r] = "idle"]
  /\ routed' = [routed EXCEPT ![path[r]] = @ - 1]
  /\ UNCHANGED <<gateVars, waiting, writerVars, path, gate, gates, outcome>>

-----------------------------------------------------------------------------
(* Writers.                                                                *)

\* An operation is new: no request still holds a reference to its old gate.
Fresh(w) ==
  /\ wants[w] = {}
  /\ \A r \in Requests : pc[r] \in {"parked", "woken"} => gate[r] # w

Install(w, ps, k) ==
  /\ writers' = [p \in Paths |-> IF p \in ps THEN w ELSE writers[p]]
  /\ overBound' = [p \in Paths |-> IF p \in ps THEN FALSE ELSE overBound[p]]
  /\ timer' = [p \in Paths |-> IF p \in ps THEN FALSE ELSE timer[p]]
  /\ wants' = [wants EXCEPT ![w] = ps]
  /\ kind' = [kind EXCEPT ![w] = k]
  /\ result' = [result EXCEPT ![w] = "none"]
  /\ UNCHANGED <<routed, waiting, readerVars>>

\* The two synchronous declines of release(): a routed holder, or a writer.
ReleaseMayRun(p) == routed[p] = 0 /\ writers[p] = NoWriter

Release(w, p) ==
  /\ Fresh(w)
  /\ ReleaseMayRun(p)
  /\ Install(w, {p}, "release")

\* exclusive() refuses when anything at all holds one of its paths.
ExclusiveMayRun(ps) ==
  \A p \in ps : routed[p] = 0 /\ waiting[p] = 0 /\ writers[p] = NoWriter

Exclusive(w, ps) ==
  /\ Fresh(w)
  /\ ExclusiveMayRun(ps)
  /\ Install(w, ps, "move")

\* Wake every request parked on one of these paths with this outcome.
WakeAll(ps, how) ==
  LET woken == {r \in Requests : pc[r] = "parked" /\ path[r] \in ps}
  IN /\ pc' = [r \in Requests |-> IF r \in woken THEN "woken" ELSE pc[r]]
     /\ outcome' = [r \in Requests |-> IF r \in woken THEN how ELSE outcome[r]]

\* What the finally of release() and exclusive() settles the gates with.
SettleWith(res) == IF res = "ok" THEN "settled" ELSE "failed"

\* The work ended: the finally deletes the entries and settles the gates.
Finish(w, res) ==
  LET ps == wants[w]
  IN /\ ps # {}
     /\ writers' = [p \in Paths |-> IF p \in ps THEN NoWriter ELSE writers[p]]
     /\ overBound' = [p \in Paths |-> IF p \in ps THEN FALSE ELSE overBound[p]]
     /\ timer' = [p \in Paths |-> IF p \in ps THEN FALSE ELSE timer[p]]
     /\ WakeAll(ps, SettleWith(res))
     /\ wants' = [wants EXCEPT ![w] = {}]
     /\ result' = [result EXCEPT ![w] = res]
     /\ UNCHANGED <<routed, waiting, kind, path, gate, gates>>

\* The gate's timer: one expiry for every waiter, remembered for newcomers.
Expire(p) ==
  /\ timer[p]
  /\ timer' = [timer EXCEPT ![p] = FALSE]
  /\ overBound' = [overBound EXCEPT ![p] = TRUE]
  /\ WakeAll({p}, "expired")
  /\ UNCHANGED <<writers, routed, waiting, writerVars, path, gate, gates>>

-----------------------------------------------------------------------------
Next ==
  \/ \E r \in Requests, p \in Paths : Arrive(r, p)
  \/ \E r \in Requests : Resume(r)
  \/ \E r \in Requests : Leave(r)
  \/ \E w \in Writers, p \in Paths : Release(w, p)
  \/ \E w \in Writers, ps \in (SUBSET Paths) \ {{}} : Exclusive(w, ps)
  \/ \E w \in Writers, res \in {"ok", "failed"} : Finish(w, res)
  \/ \E p \in Paths : Expire(p)

\* The event loop resumes what is resolved and fires timers that are set.
\* Nothing is assumed of the leased work: it may hang for ever.
Fairness ==
  /\ \A r \in Requests : WF_vars(Resume(r))
  /\ \A p \in Paths : WF_vars(Expire(p))

Spec == Init /\ [][Next]_vars /\ Fairness

-----------------------------------------------------------------------------
(* Properties.                                                             *)

\* Readers and a writer never share a path: no routed request is inside its
\* work on a path while a release or a move of that path is in flight
\* (session-route-lease.ts:13-26), whatever the counters say.
ReaderWriterExclusion ==
  \A r \in Requests : pc[r] = "running" => writers[path[r]] = NoWriter

\* The two counters are the truth they stand for, so a path that goes quiet
\* has an empty row in both maps and no decision is made on a stale count.
CountersExact ==
  \A p \in Paths :
    /\ routed[p] = Cardinality(Running(p))
    /\ waiting[p] = Cardinality(Waiting(p))

\* A writer in flight holds every path it wants, alone and for the whole of
\* its work: a release never replaces another writer's gate, and two moves
\* never each hold half of what they need.
AuthorityHeld ==
  \A w \in Writers : {p \in Paths : writers[p] = w} = wants[w]

\* The abstract lease: a request reads while it is inside its work, a release
\* or a move has the paths it wants while it runs.
Authority == INSTANCE RouteAuthority WITH
  reads <- [r \in Requests |-> IF pc[r] = "running" THEN {path[r]} ELSE {}],
  holds <- wants

\* Gates, counters, parked requests and timers come to this: readers share a
\* path, a writer gets all of its paths at one moment at which nobody has any
\* of them, and gives them up together (session-route-lease.ts:13-26).
LeaseGivesAuthority == Authority!Spec

\* Once the shared timer has fired nobody is left parked on that gate and no
\* newcomer parks on it: N waiters never each pay the whole bound.
ExpiredGateHasNoWaiters ==
  \A r \in Requests : pc[r] = "parked" => ~overBound[path[r]] /\ timer[path[r]]

\* A request that has already waited a gate out never meets a move on a later
\* turn: the count of waiting routes keeps moves away until it has resumed.
NoMoveOvertakesAWaiter ==
  \A r \in Requests :
    pc[r] = "parked" /\ gates[r] > 0 => kind[gate[r]] = "release"

\* Fail closed (D-260): a request goes on past a gate only when the work
\* behind that gate really succeeded; a failed work, or one still unsettled
\* at the bound, refuses every request that met it.
OnlySettledGatesPass ==
  [][\A r \in Requests :
       pc[r] = "woken" /\ pc'[r] \in {"running", "parked"}
         => result[gate[r]] = "ok"]_vars

\* Every parked request gets in or is refused, even when releases follow each
\* other for ever and when a release never ends.
ParkedRequestsEnd ==
  \A r \in Requests : pc[r] = "parked" ~> pc[r] \in {"running", "refused"}

=============================================================================
