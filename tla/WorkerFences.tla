---------------------------- MODULE WorkerFences ----------------------------
(***************************************************************************)
(* One worker process: the session runtimes it holds and the fences around *)
(* them (packages/worker/src/session-runtimes.ts), with the two lifetime   *)
(* verbs that close the fences, pi/session/unload and pi/worker/retire     *)
(* (worker-lifetime.ts), and the request handlers the fences admit or      *)
(* refuse (server.ts: handle, session/load, pi/session/close and fork).    *)
(*                                                                         *)
(* An action is what one handler does between two awaits.  A handler that  *)
(* only reads, and everything a load does after its runtime is found, is   *)
(* the state "serving".                                                    *)
(*                                                                         *)
(* Abstracted: the pin list of a session (session-safety.ts) is cut to the *)
(* four cases its readers tell apart in `work`; the payloads, the replay   *)
(* and the other per-session tables are left out; a timeout may fire at    *)
(* any moment after its timer was set.                                     *)
(***************************************************************************)
EXTENDS Naturals, FiniteSets

CONSTANTS
  Files,      \* session files
  NoFile,     \* what a request that names no session is counted under ("")
  Requests,   \* request handlers; each serves one request at a time
  SafetyMax,  \* SESSION_SAFETY_MAX, the rows of one safety answer
  Forking     \* whether pi/session/fork is among the requests

ASSUME FencesAssumption ==
  /\ IsFiniteSet(Files)
  /\ IsFiniteSet(Requests)
  /\ NoFile \notin Files
  /\ SafetyMax \in Nat \ {0}
  /\ Forking \in BOOLEAN

VARIABLES
  stored,       \* the session files that exist on disk
  drivers,      \* file -> how many engine drivers hold it open
  table,        \* the files that have a runtime in the table
  opens,        \* the files in the map of opens in flight
  inFlight,     \* file or NoFile -> dispatches counted under it
  outstanding,  \* dispatches counted for the whole worker
  work,         \* file -> the strongest thing its runtime is holding
  owed,         \* files whose closed runtime left work this worker owes
  closeFailed,  \* files whose runtime would not close
  unload,       \* file -> where a release of it is; "none" is not in the map
  relArrived,   \* file -> a request was refused by its release fence
  fence,        \* where the retirement is
  arrived,      \* a request was refused by the retire fence
  mode,         \* the mode of the retirement
  pc,           \* handler -> where it is
  key,          \* handler -> what its request names
  live          \* handler -> the file of the runtime it took from the table

tableVars == <<stored, drivers, table, opens>>
countVars == <<inFlight, outstanding>>
heldVars  == <<work, owed, closeFailed>>
relVars   == <<unload, relArrived>>
fenceVars == <<fence, arrived, mode>>
reqVars   == <<pc, key, live>>
vars == <<tableVars, countVars, heldVars, relVars, fenceVars, reqVars>>

Keys == Files \cup {NoFile}

\* "busy" is a turn or a command running, what pi/session/close refuses on;
\* "held" is every other pin that is work: a question, an approval, a run, a
\* compaction, a queued or a tray message; "moment" is naming and no_record,
\* the two pins that are not work (session-lifetime.ts:81-110).
Works == {"none", "moment", "held", "busy"}

TypeOK ==
  /\ stored \subseteq Files
  /\ drivers \in [Files -> Nat]
  /\ table \subseteq Files
  /\ opens \subseteq Files
  /\ inFlight \in [Keys -> Nat]
  /\ outstanding \in Nat
  /\ work \in [Files -> Works]
  /\ owed \subseteq Files
  /\ closeFailed \subseteq Files
  /\ unload \in [Files -> {"none", "deciding", "preparing", "disposing"}]
  /\ relArrived \in [Files -> BOOLEAN]
  /\ fence \in {"open", "draining", "drained", "acknowledged"}
  /\ arrived \in BOOLEAN
  /\ mode \in {"automatic", "explicit"}
  /\ pc \in [Requests -> {"idle", "serving", "opening", "waitClose", "closing",
                          "waitFork", "forking"}]
  /\ key \in [Requests -> Keys]
  /\ live \in [Requests -> Keys]

\* A worker that has just become ready holds nothing.
Init ==
  /\ stored \in {S \in SUBSET Files : S # {} /\ (Forking \/ S = Files)}
  /\ drivers = [f \in Files |-> 0]
  /\ table = {}
  /\ opens = {}
  /\ inFlight = [k \in Keys |-> 0]
  /\ outstanding = 0
  /\ work = [f \in Files |-> "none"]
  /\ owed = {}
  /\ closeFailed = {}
  /\ unload = [f \in Files |-> "none"]
  /\ relArrived = [f \in Files |-> FALSE]
  /\ fence = "open"
  /\ arrived = FALSE
  /\ mode = "automatic"
  /\ pc = [h \in Requests |-> "idle"]
  /\ key = [h \in Requests |-> NoFile]
  /\ live = [h \in Requests |-> NoFile]

Serving(k) == {h \in Requests : pc[h] # "idle" /\ key[h] = k}
Releasing == {f \in Files : unload[f] # "none"}

\* The first-turn lock of a session: who holds it, and FirstTurnLock.busy,
\* which also counts the handlers that wait for it.
LockHeld(f) ==
  \/ f \in Releasing
  \/ \E h \in Serving(f) : pc[h] \in {"closing", "forking"}
LockBusy(f) ==
  \/ LockHeld(f)
  \/ \E h \in Serving(f) : pc[h] \in {"waitClose", "waitFork"}

-----------------------------------------------------------------------------
(* Slips: definitions of this module with one plausible mistake in them.   *)
(* Each takes the place of its original in a run that must then fail.      *)

\* The retire fence closes only once the retirement is acknowledged.
RetireFenceLate(k) == fence = "acknowledged"

\* The release fence is not looked at.
ReleaseFenceOpen(k) == FALSE

\* A load does not look for one in flight.
MustOpenAlways(f) == f \notin table

\* The row is deleted with the first of several answers.
RowDeleted(counts, k) == [counts EXCEPT ![k] = 0]

\* A runtime that is gone already is closed once more.
DropTwice(f) ==
  /\ table' = table \ {f}
  /\ drivers' = [drivers EXCEPT ![f] = @ - 1]
  /\ work' = [work EXCEPT ![f] = "none"]
  /\ closeFailed' = closeFailed \ {f}

\* The bound of a drain never passes.
DrainUnbounded == FALSE

-----------------------------------------------------------------------------
(* Admission: handle() and SessionRuntimes.admit.                          *)

\* The two fences that refuse a request naming k.  unload and retire are
\* privileged: they pass both and are counted nowhere.
RefusedByRetire(k) == fence # "open"
RefusedByRelease(k) == ~RefusedByRetire(k) /\ k \in Releasing
Admitted(k) == ~RefusedByRetire(k) /\ ~RefusedByRelease(k)

\* A request is refused before it does anything; the fence counts it.
Refuse(h, k) ==
  /\ pc[h] = "idle"
  /\ ~Admitted(k)
  /\ arrived' = (arrived \/ RefusedByRetire(k))
  /\ relArrived' = [f \in Files |->
                      relArrived[f] \/ (f = k /\ RefusedByRelease(k))]
  /\ UNCHANGED <<tableVars, countVars, heldVars, unload, fence, mode, reqVars>>

Admit(h, k, where) ==
  /\ pc[h] = "idle"
  /\ Admitted(k)
  /\ pc' = [pc EXCEPT ![h] = where]
  /\ key' = [key EXCEPT ![h] = k]
  /\ live' = [live EXCEPT ![h] = k]
  /\ inFlight' = [inFlight EXCEPT ![k] = @ + 1]
  /\ outstanding' = outstanding + 1
  /\ UNCHANGED <<heldVars, relVars, fenceVars>>

\* Any request that neither opens nor replaces a runtime, answered or refused.
Serve(h, k) ==
  /\ k \in stored \cup {NoFile}
  /\ Admit(h, k, "serving")
  /\ UNCHANGED tableVars

\* A load of a file that is open, or being opened, only serves: see Serve.
MustOpen(f) == f \notin table /\ f \notin opens

Load(h, f) ==
  /\ f \in stored
  /\ MustOpen(f)
  /\ Admit(h, f, "opening")
  /\ opens' = opens \cup {f}
  /\ drivers' = [drivers EXCEPT ![f] = @ + 1]
  /\ UNCHANGED <<stored, table>>

Close(h, f) ==
  /\ f \in table
  /\ Admit(h, f, "waitClose")
  /\ UNCHANGED tableVars

Fork(h, f) ==
  /\ Forking
  /\ f \in table
  /\ Admit(h, f, "waitFork")
  /\ UNCHANGED tableVars

\* The function admit() returned: it lowers the count under the key the
\* request was admitted with, deleting the row at zero.
Lowered(counts, k) == [counts EXCEPT ![k] = IF @ > 1 THEN @ - 1 ELSE 0]

Answer(h) ==
  /\ pc' = [pc EXCEPT ![h] = "idle"]
  /\ key' = [key EXCEPT ![h] = NoFile]
  /\ outstanding' = IF outstanding > 1 THEN outstanding - 1 ELSE 0

Return(h) ==
  /\ pc[h] = "serving"
  /\ Answer(h)
  /\ inFlight' = Lowered(inFlight, key[h])
  /\ live' = [live EXCEPT ![h] = NoFile]
  /\ UNCHANGED <<tableVars, heldVars, relVars, fenceVars>>

-----------------------------------------------------------------------------
(* The handlers that open, close and replace a runtime.                    *)

\* The runtime of f is gone: `closed` drops it from every table here.
DropRuntime(f) ==
  /\ table' = table \ {f}
  /\ drivers' = [drivers EXCEPT ![f] = IF f \in table THEN @ - 1 ELSE @]
  /\ work' = [work EXCEPT ![f] = "none"]
  /\ closeFailed' = closeFailed \ {f}

\* openAndAttach: a second runtime for a file that has one is disposed.
OpenEnds(h, ok) ==
  LET f == key[h]
      kept == ok /\ f \notin table
  IN /\ pc[h] = "opening"
     /\ table' = IF ok THEN table \cup {f} ELSE table
     /\ drivers' = [drivers EXCEPT ![f] = IF kept THEN @ ELSE @ - 1]
     /\ opens' = opens \ {f}
     /\ pc' = [pc EXCEPT ![h] = "serving"]
     /\ UNCHANGED <<stored, countVars, heldVars, relVars, fenceVars, key, live>>

\* pi/session/close under the lock: refused while the session answers or runs
\* something, and otherwise the driver is disposed.
CloseStarts(h) ==
  /\ pc[h] = "waitClose"
  /\ ~LockHeld(key[h])
  /\ pc' = [pc EXCEPT ![h] =
              IF live[h] \in table /\ work[live[h]] # "busy"
                THEN "closing" ELSE "serving"]
  /\ UNCHANGED <<tableVars, countVars, heldVars, relVars, fenceVars, key, live>>

CloseEnds(h, ok) ==
  /\ pc[h] = "closing"
  /\ pc' = [pc EXCEPT ![h] = "serving"]
  /\ IF ok THEN DropRuntime(live[h])
           ELSE UNCHANGED <<table, drivers, work, closeFailed>>
  /\ UNCHANGED <<stored, opens, countVars, owed, relVars, fenceVars, key, live>>

ForkStarts(h) ==
  /\ pc[h] = "waitFork"
  /\ ~LockHeld(key[h])
  /\ pc' = [pc EXCEPT ![h] = IF live[h] \in table THEN "forking" ELSE "serving"]
  /\ UNCHANGED <<tableVars, countVars, heldVars, relVars, fenceVars, key, live>>

\* SessionRuntimes.rekey: the count moves with the runtime.
Rekeyed(counts, old, new) ==
  [counts EXCEPT ![old] = 0, ![new] = @ + counts[old]]

\* Who holds the runtime of old when it moves to new; h is done with it.
Followed(h, old, new) ==
  [g \in Requests |->
     IF g = h THEN NoFile
     ELSE IF live[g] = old /\ pc[g] # "idle" THEN new
     ELSE live[g]]

\* The driver serves the forked file: the runtime keeps its identity, and every
\* handler that holds it, not its key.  The request is answered with no await
\* in between.  The engine may also refuse the fork, and does so when a close
\* that waited under the runtime's former key has disposed the driver.
ForkEnds(h, ok) ==
  LET old == live[h]
  IN /\ pc[h] = "forking"
     /\ ok => old \in table
     /\ Answer(h)
     /\ IF ~ok
          THEN /\ inFlight' = Lowered(inFlight, key[h])
               /\ live' = [live EXCEPT ![h] = NoFile]
               /\ UNCHANGED <<tableVars, work, closeFailed>>
          ELSE \E new \in Files \ stored :
            /\ stored' = stored \cup {new}
            /\ table' = (table \ {old}) \cup {new}
            /\ drivers' = [drivers EXCEPT ![old] = @ - 1, ![new] = @ + 1]
            /\ inFlight' = Lowered(Rekeyed(inFlight, old, new), key[h])
            /\ work' = [work EXCEPT ![old] = "none", ![new] = work[old]]
            /\ closeFailed' = IF old \in closeFailed
                                THEN (closeFailed \ {old}) \cup {new}
                                ELSE closeFailed
            /\ live' = Followed(h, old, new)
            /\ UNCHANGED opens
     /\ UNCHANGED <<owed, relVars, fenceVars>>

-----------------------------------------------------------------------------
(* What a runtime is holding.                                              *)

SetWork(f, w) ==
  /\ work' = [work EXCEPT ![f] = w]
  /\ UNCHANGED <<tableVars, countVars, owed, closeFailed, relVars, fenceVars,
                 reqVars>>

\* Work begins through the first-turn lock.
MayStart(f) == f \in table /\ ~LockHeld(f) /\ work[f] # "busy"

\* A handler in service leaves work behind it: a prompt starts a turn, a tray
\* message or a question waits.
StartWork(h, w) ==
  /\ pc[h] = "serving"
  /\ MayStart(live[h])
  /\ SetWork(live[h], w)

\* admitExtensionModelWork: a turn nobody dispatched, behind the lock only.
ExtensionWork(f) ==
  /\ MayStart(f)
  /\ SetWork(f, "busy")

\* The work ends; a turn may leave the session being named, or a message held.
WorkEnds(f, w) ==
  /\ work[f] # "none"
  /\ w \in IF work[f] = "busy" THEN {"none", "moment", "held"} ELSE {"none"}
  /\ SetWork(f, w)

\* A driver reports `closed` by itself; a run it had keeps winding up.
DriverCloses(f) ==
  /\ f \in table
  /\ unload[f] # "disposing"
  /\ \A h \in Requests : pc[h] \in {"closing", "forking"} => live[h] # f
  /\ DropRuntime(f)
  /\ owed' = IF work[f] = "busy" THEN owed \cup {f} ELSE owed
  /\ UNCHANGED <<stored, opens, countVars, relVars, fenceVars, reqVars>>

OwedEnds(f) ==
  /\ f \in owed
  /\ owed' = owed \ {f}
  /\ UNCHANGED <<tableVars, countVars, work, closeFailed, relVars, fenceVars,
                 reqVars>>

-----------------------------------------------------------------------------
(* pi/session/unload.                                                      *)

\* pinsOf(live, releasing): the pins that are work, then all of them.
WorkPinned(f, releasing) ==
  \/ f \in opens
  \/ inFlight[f] > 0
  \/ work[f] \in {"held", "busy"}
  \/ f \in owed
  \/ f \in closeFailed
  \/ ~releasing /\ LockBusy(f)
Pinned(f, releasing) == WorkPinned(f, releasing) \/ work[f] = "moment"

SetUnload(f, to) == unload' = [unload EXCEPT ![f] = to]

\* The first check, outside the fences; then the release fence closes.
Unload(f) ==
  /\ f \in table
  /\ ~Pinned(f, FALSE)
  /\ SetUnload(f, "deciding")
  /\ relArrived' = [relArrived EXCEPT ![f] = FALSE]
  /\ UNCHANGED <<tableVars, countVars, heldVars, fenceVars, reqVars>>

\* The recheck under both fences.
UnloadDecides(f) ==
  /\ unload[f] = "deciding"
  /\ SetUnload(f, IF f \in table /\ ~Pinned(f, TRUE) /\ ~relArrived[f]
                    THEN "preparing" ELSE "none")
  /\ UNCHANGED <<tableVars, countVars, heldVars, relArrived, fenceVars, reqVars>>

\* prepareRelease answered; an arrival while it read the record still refuses.
UnloadPrepared(f, ready) ==
  /\ unload[f] = "preparing"
  /\ SetUnload(f, IF ready /\ ~relArrived[f] THEN "disposing" ELSE "none")
  /\ UNCHANGED <<tableVars, countVars, heldVars, relArrived, fenceVars, reqVars>>

\* dispose ended, or threw with the runtime still in the table.
UnloadEnds(f, ok) ==
  /\ unload[f] = "disposing"
  /\ SetUnload(f, "none")
  /\ IF ok \/ f \notin table
       THEN DropRuntime(f)
       ELSE /\ closeFailed' = closeFailed \cup {f}
            /\ UNCHANGED <<table, drivers, work>>
  /\ UNCHANGED <<stored, opens, countVars, owed, relArrived, fenceVars, reqVars>>

-----------------------------------------------------------------------------
(* pi/worker/retire.                                                       *)

MoveFence(from, to) ==
  /\ fence = from
  /\ fence' = to
  /\ UNCHANGED <<tableVars, countVars, heldVars, relVars, reqVars>>

\* The fence closes before the first await.  A second retire while one is
\* deciding, or after it was acknowledged, changes nothing.
Retire(m) ==
  /\ MoveFence("open", "draining")
  /\ arrived' = FALSE
  /\ mode' = m

Drained ==
  /\ outstanding = 0
  /\ MoveFence("draining", "drained")
  /\ UNCHANGED <<arrived, mode>>

\* The bound passed with work still running: refused, and admission reopens.
DrainTimesOut ==
  /\ outstanding > 0
  /\ MoveFence("draining", "open")
  /\ UNCHANGED <<arrived, mode>>

\* The rows of safety(), and whether the retirement refuses on one.
SafetyRows == table \cup opens \cup Releasing \cup owed
Blocks(f) ==
  \/ f \notin table
  \/ WorkPinned(f, FALSE)
  \/ mode = "automatic" /\ work[f] = "moment"

\* Slip: a cut answer is read like a whole one.
MayRetireIncomplete(rows) == (\A f \in rows : ~Blocks(f)) /\ ~arrived

\* A whole answer without one blocking row, and nobody turned away meanwhile.
MayRetire(rows) ==
  /\ rows = SafetyRows
  /\ \A f \in rows : ~Blocks(f)
  /\ ~arrived

\* The answer holds SafetyMax rows at most; the rest is cut.
Answers == {rows \in SUBSET SafetyRows :
              \/ rows = SafetyRows /\ Cardinality(rows) <= SafetyMax
              \/ rows # SafetyRows /\ Cardinality(rows) = SafetyMax}

Decide ==
  /\ \E rows \in Answers :
       MoveFence("drained", IF MayRetire(rows) THEN "acknowledged" ELSE "open")
  /\ UNCHANGED <<arrived, mode>>

\* The lease of an acknowledgement nobody acted on: admission reopens.
LeaseExpires ==
  /\ MoveFence("acknowledged", "open")
  /\ UNCHANGED <<arrived, mode>>

-----------------------------------------------------------------------------
Next ==
  \/ \E h \in Requests, k \in Keys : Refuse(h, k)
  \/ \E h \in Requests, k \in Keys : Serve(h, k)
  \/ \E h \in Requests, f \in Files : Load(h, f)
  \/ \E h \in Requests, f \in Files : Close(h, f)
  \/ \E h \in Requests, f \in Files : Fork(h, f)
  \/ \E h \in Requests : Return(h)
  \/ \E h \in Requests, ok \in BOOLEAN : OpenEnds(h, ok)
  \/ \E h \in Requests : CloseStarts(h)
  \/ \E h \in Requests, ok \in BOOLEAN : CloseEnds(h, ok)
  \/ \E h \in Requests : ForkStarts(h)
  \/ \E h \in Requests, ok \in BOOLEAN : ForkEnds(h, ok)
  \/ \E h \in Requests, w \in {"held", "busy"} : StartWork(h, w)
  \/ \E f \in Files : ExtensionWork(f)
  \/ \E f \in Files, w \in Works : WorkEnds(f, w)
  \/ \E f \in Files : DriverCloses(f)
  \/ \E f \in Files : OwedEnds(f)
  \/ \E f \in Files : Unload(f)
  \/ \E f \in Files : UnloadDecides(f)
  \/ \E f \in Files, ready \in BOOLEAN : UnloadPrepared(f, ready)
  \/ \E f \in Files, ok \in BOOLEAN : UnloadEnds(f, ok)
  \/ \E m \in {"automatic", "explicit"} : Retire(m)
  \/ Drained
  \/ DrainTimesOut
  \/ Decide
  \/ LeaseExpires

\* The retirement's own timers fire and its handler resumes; nothing is
\* assumed of the requests, of the engine or of the releases.
Fairness ==
  /\ WF_vars(Drained)
  /\ WF_vars(DrainTimesOut)
  /\ WF_vars(Decide)
  /\ WF_vars(LeaseExpires)

Spec == Init /\ [][Next]_vars /\ Fairness

-----------------------------------------------------------------------------
(* Properties.                                                             *)

\* One writer per session file, always (server.ts:2730, invariant 8 of the
\* project): loads, failed opens, closes, releases and forks in any order
\* never leave two engine drivers on one file, and a file without a runtime
\* or an open in flight has none.
OneDriverPerFile ==
  \A f \in Files : drivers[f] = IF f \in table \cup opens THEN 1 ELSE 0

\* The count a release reads is the number of requests being served under
\* that session (session-runtimes.ts:83, 200), and the worker's own count the
\* number of requests being served at all.
InFlightExact ==
  /\ \A k \in Keys : inFlight[k] = Cardinality(Serving(k))
  /\ outstanding = Cardinality({h \in Requests : pc[h] # "idle"})

\* What InFlightExact says of a worker that serves nobody: nothing is counted,
\* so no session is pinned by a request that was answered long ago.
QuietMeansUncounted ==
  (\A h \in Requests : pc[h] = "idle") => \A k \in Keys : inFlight[k] = 0

\* While a runtime is being disposed by a release nothing names it and it
\* holds nothing: no request in service, no work, nothing owed.
ReleaseTakesIdleRuntimeOnly ==
  \A f \in Files : unload[f] = "disposing" =>
    Serving(f) = {} /\ work[f] = "none" /\ f \notin opens \cup owed

\* From the decision to retire until the lease runs out no request is being
\* served: what the host ends after an acknowledgement is nobody's answer.
AcknowledgedServesNobody ==
  fence \in {"drained", "acknowledged"} => \A h \in Requests : pc[h] = "idle"

\* At the moment a retirement is acknowledged no session holds work, none is
\* being opened or released, and no run of a closed session is still owed -
\* whatever part of them the bounded safety answer could show.
RetirementEndsNoWork ==
  [][fence # "acknowledged" /\ fence' = "acknowledged" =>
       /\ opens = {} /\ Releasing = {} /\ owed = {}
       /\ \A f \in Files : work[f] \notin {"held", "busy"}]_vars

\* A worker is never left refusing everything: a retirement that is refused,
\* that times out or whose acknowledgement is lost ends with admission open.
FenceReopens == fence # "open" ~> fence = "open"

=============================================================================
