# A TLA+ verification of laser's session and worker lifetime

Laser runs coding-agent sessions. A **host** process owns the clients' connections and everything
durable. For each project directory it keeps at most one **worker** process, which holds the open
sessions of that directory, each with an engine driver on its session file. The worker of an idle
directory is retired, an idle session is unloaded, a crashed worker is started again, and all of this
happens under clients that may send a request at any moment. This directory models that lifetime: who
may touch a session file, when a session or a worker may go away, and what happens to the requests that
meet such a moment. It also models two machines inside a session that meet a person at the same kind of
gap: the tray of messages that wait for a turn, and the failover to another model.

All paths below are relative to `src/packages/`.

## The system and what is modelled

```
 clients ── WebSocket ── host/server.ts ── host/router.ts
                                             │  session-route-lease.ts    (SessionRouteLease)
                                             │  session-move.ts           (SessionMove)
                                             │  worker-pool.ts            (WorkerPool)
                                             │  worker-retirement.ts      (WorkerRetirement, host side)
                                             │  worker-client.ts          (pipe, admission, exits)
                     ───────────────── pipe, one per directory ─────────────────
                                             │  worker/src/main.ts        (shutdown at the pipe's end)
                                             │  worker/src/server.ts      (request handlers)
                                             │  session-runtimes.ts, worker-lifetime.ts,
                                             │  first-turn.ts             (WorkerFences; WorkerRetirement,
                                             │                             worker side)
                                             │  pending.ts                (PendingTray)
                                             │  fallback/, stable-sdk.ts  (ModelFallback)
                                             └  agents/, tasks, replay-buffer.ts ...  (not modelled)
```

Everything is TypeScript on an event loop. Two pieces of code never run at once in one process, and the
concurrency is all in the awaits: between two of them anything else may run. So an **action is the code
between two awaits**, and where a promise's resolution and the waiter's next line are two different
turns of the loop, the models have a state in between (`"woken"`, `"drained"`, `"stopDone"`).

| module | models | role |
| --- | --- | --- |
| `SessionRouteLease` | `host/src/session-route-lease.ts` | the per-session readers-writer lease of routed requests, releases and moves |
| `SessionRouteLeaseProofs` | | its inductive invariant and theorems, the refinement included |
| `RouteAuthority` | the promise at the head of `host/src/session-route-lease.ts` | the abstract lease: readers share a path, a writer has all of its paths alone; implemented by `SessionRouteLease`, kept by `SessionMove` |
| `WorkerFences` | `worker/src/session-runtimes.ts`, `worker-lifetime.ts`, `first-turn.ts`, and the handlers of `server.ts` they admit | one worker's session table, counts, release fences and retire fence |
| `WorkerFencesProofs` | | its inductive invariants and theorems |
| `AtomicRetirement` | the promise at the head of `host/src/worker-retirement.ts` | the abstract specification of a retirement |
| `WorkerRetirement` | `worker-retirement.ts`, the admission and stop of `worker-client.ts`, the fence and the lease of the worker, `shutdown` in `worker/src/main.ts` | host and worker with the pipe and all their timers; implements `AtomicRetirement` |
| `WorkerRetirementProofs` | | its types, the refinement and the use of the clocks, for every bound |
| `WorkerPool` | `host/src/worker-pool.ts`, with the exits of `worker-client.ts` and the policy of `runtime-recovery.ts` | one directory's entry, its processes and the callers that meet on it |
| `WorkerPoolProofs` | | its inductive invariant and theorems |
| `SessionMove` | `moveSession`, `forwardOnce` and `workerFor` of `host/src/router.ts`, `host/src/session-move.ts`, the pool's membership and reopening, the worker's load and close | one conversation moved between projects, under requests, turns and crashes |
| `SessionMoveProofs` | | its inductive invariant and theorems |
| `PendingTray` | `worker/src/pending.ts` with what `server.ts` wires to it | the messages that wait for a turn of one session |
| `PendingTrayProofs` | | its inductive invariant and theorems, and the lemmas about its filter |
| `ModelFallback` | `worker/src/fallback/controller.ts` and `policy.ts`, `setModel` and `setProfile` of `drivers/stable-sdk.ts` | the failover of one session along its model profile, beside a person's choices |
| `ModelFallbackProofs` | | its inductive invariant and theorems |
| `MC*` | | the TLC instances |

The three worker modules look at the same transition from three sides and share its vocabulary.
`WorkerFences` has the predicate on which a worker agrees to retire and treats the host as a caller;
`WorkerRetirement` has both clocks and the pipe and treats the predicate as a choice; `WorkerPool` has
everything around the decision (starts, crashes, retries) and treats the decision as a choice. The
choice is always wider than the code, so an invariant of one module does not lean on another.
`SessionMove` composes the lease (by its effect: a move holds both its paths alone), the pool's
membership and the worker's load and close around the file itself. What it takes for that effect is what
the lease gives: both modules implement `RouteAuthority`, with a request's work and an operation's paths for
`reads` and `holds` in the one, with the route of a request and the stages of the move in the other.

### Session route lease

*State*: `writers` is the writers map (path -> operation whose gate is in it); `overBound` and `timer`
are the two fields of that gate; `routed` and `waiting` are the two counter maps (a missing row is 0);
`pc`, `path`, `gate`, `gates`, `outcome` are the locals of each call of `route()`; `kind`, `wants`,
`result` are those of each `release()` or `exclusive()`.
*Operations*: `Arrive` (the call and its synchronous first turn), `Resume` (the await of a gate
returns), `Leave` (the work's `finally`), `Release`, `Exclusive`, `Finish` (their `finally`), `Expire`
(the shared timer).
*Hard*: a request resumes later than the gate settles and may find another writer; a release may fail,
hang, or be followed by another for ever; two moves want overlapping paths; a missed decrement of a
counter blocks a path for good.
*Correct when*: nobody reads while somebody writes, counters equal what they count, an unfinished or
failed writer lets nobody through, every parked request ends.

### Worker session table and fences

*State*: `table`, `opens`, `inFlight`, `outstanding`, `unload`/`relArrived` (the release fences),
`fence`/`arrived`/`mode` (the retire fence) are the fields of `SessionRuntimes` and `WorkerLifetime`;
`stored` and `drivers` are the world (files on disk, engine drivers attached); `work`, `owed` and
`closeFailed` are what `pinsOf` reads; `pc`, `key`, `live` are the handlers' locals, where `key` is what
the request *named* and `live` the runtime it *took from the table* (the two differ after a fork).
*Operations*: `Refuse`, `Serve`, `Load`/`OpenEnds`, `Close`/`CloseStarts`/`CloseEnds`,
`Fork`/`ForkStarts`/`ForkEnds`, `Return`; `StartWork`, `ExtensionWork`, `WorkEnds`, `DriverCloses`,
`OwedEnds`; `Unload`/`UnloadDecides`/`UnloadPrepared`/`UnloadEnds`; `Retire`/`Drained`/`DrainTimesOut`/
`Decide`/`LeaseExpires`.
*Hard*: a session is checked, fenced, locked and read in four steps with work arriving between them; a
retirement drains for seconds while accepted handlers still open and close sessions; the safety answer
is cut at a row limit; a fork moves a runtime under handlers that counted it by its old name; an
acknowledgement may be acted on by nobody.
*Correct when*: a file never has two drivers, the counts are exact, what is disposed or acknowledged is
in nobody's use, a fence never stays closed.

The pins are cut to the cases their readers tell apart: `"busy"` is a turn or a command (what a close
refuses on), `"held"` every other pin that is work, `"moment"` the pins that are not work, which only an
automatic retirement and an unload refuse on.

### Retirement over the pipe

*State*: the host's admission, its pending question and its wait; the pipe and the age of every unread
message; the worker's fence with the drain and lease clocks; the process and its shutdown clock; and
`stall`, the longest stall of a reader's event loop in this behaviour, one of `Stalls`.
*Operations*: one action per message written or read, one per timer, and `Tick`. A message waits at most
`stall` ticks to be read, and time does not pass a clock that has run out (`Urgent`).
*Hard*: silence is not a refusal; the answer may come after the host has given up and asked again; the
host's wait and the worker's lease start at different moments; requests may be in the pipe ahead of the
question.
*Correct when*: to its callers, retirement is the one step of `AtomicRetirement`, and the host writes
only to a worker that takes requests.

### Worker pool

*State*: the fields of an `Entry` under their own names (`client`, `status`, `warm`, `stopping`,
`stopped`, `open`, `repair`, `retry` for `retryTimer`, `failed` for `failure`), `attempts` of the repair
record, `closed`; `spawning`/`spawned`, what the promise `entry.starting` is awaiting and the process it
made; per process what it is doing and the host's end of its pipe; per caller what it awaits.
*Operations*: `get` (`Get` and the five ways it goes on), the spawn (`SpawnHeld`, `SpawnTrust`, `Ready`,
`SpawnPrimed`), `Prepare`, `DiscardPrepared`, `Stop` (also the sweep), `Restart`, `Reopen`, `StopAll`,
and what processes do (`Exit`, `FaultLaunch`, `FaultGeneration`, `SaysRetired`, `Update`, `Healthy`).
*Hard*: a spawn has four awaits, and a stop, a crash, a shutdown or another caller may come in each; a
process that is being stopped reports its exit before the stop's own promise resolves; the recovery
timer and an explicit request race.
*Correct when*: one process per directory, a purposeful exit is no crash, a retry replaces nothing that
lives, nothing starts while the host closes.

### Session moves

*State*: per project the `file` (the set of its entries; a path is named by its project), `worker`,
`driver`; the pool's `open`, `active` (what `openSessions()` lists), `retry` and `reopening`; `pc` and
`target` of each routed request; `stage`, `from`, `to`, `copy` of the move. `said` counts what was ever
written. `restarted` and `recovered` are history.
*Operations*: `Route`/`Got`/`RequestLoads`/`Answered`; `Move`, `Closed` or `CloseRefused`, `Copied`,
`Placed`, `Removed`; `Spawn`, `Crash`, `Reopen`/`ReopenLoads`/`ReopenBinds`, `Unload`; a turn's `Wake`,
`TurnSays`, `TurnEnds`; `HostCrash`, which may come between any two steps of the rewrite.
*Hard*: a turn outlives the request that started it; the pool's idea of what is open is the move's only
way to know whom to close; a crash of the host leaves the rewrite between two of its steps; the
reopening of a crashed worker takes no lease.
*Correct when*: no entry ever leaves the disk, nobody holds a file that is being rewritten, the
conversation is one file again after every move that was not cut short.

### Pending tray

*State*: `tray` (the rows in order) with the `state` of each; `drain` and `passing`, where the drain in
flight waits with which row; `lock`, the first-turn lock with its line; `turn` and `cancelled` of the
engine; `gate`, the update's; `queue`, the engine's steering queue; `read` and `returned`, where messages
end. A message is its number. `handed` and `favoured` (what the engine took, what a person steered) are
history.
*Operations*: `Add`, `Edit`, `Remove`, `Clear`; `StartDrain` and each await of its pass (`PromptAccepted`,
`PromptCommanded`, `PromptRefused`, `FallbackTaken`, `DeliveryFails`, `Acknowledge`, `PromptSettles`);
`SteerIdle`, `SteerRunning`, `SteerTaken`, `SteerFails`; `DirectPrompt`, `DirectAnswered`; `Cancel`,
`AbortDone`, `ClearQueue`, `Park`, `Unpark`; `Settle`, which is `agent_settled` with the drain it starts.
*Hard*: the acknowledgement of a prompt may come after the prompt failed; every edit lands between two
awaits of a drain that remembers a row; a failed steer returns to a tray that has changed; a settle
while a drain is in flight starts none.
*Correct when*: a message is in one place, goes in once, in the order of writing unless a person chose
otherwise, and does not wait behind a settled session.

### Model fallback

*State*: `activation` (the profile and the position), `marked` (the `nonTransient` marks of `models`),
`event` and `tried` (the failover event and its attempts) of the controller's `state`; `step`, `try`,
`stale`, `compacted`, `length`, the locals of the `settle()` in flight; `model`, what the engine has
selected; `pinned`; `hand`, where each request of a person waits. `asked` and `torn` are history.
*Operations*: `Settle`; `ReadCatalogue`, `EngineSelects`, `Selected`, `Refused`, `Compacted`,
`CompactionFails`, `Answered`, `AnswerFails`; `Abandon`, `SelectedLate`, `RefusedLate` for a failover that
finds itself stale; `Cancel`; `Pin`/`OnPin`/`PinRefused`; `Choose`/`ChooseUnknown`/`Anchored`/`Walked`/
`ChoiceRefused`. `EngineSelects` and `EngineSets` are the moments the engine's asynchronous `setModel`
takes effect, some time before it returns.
*Hard*: the traversal turns back to earlier models, starts again after refusals and after its one
compaction, under cooldowns that end meanwhile; a person's request takes no lock once the session has
started (`settingsLane`), so it may meet the failover, or another request, inside `setModel`.
*Correct when*: the position shown is the model that answers, no model gets the same turn twice, and the
failover ends.

`torn` is set when a choice was refused, when the engine did not know a profile's first model, or when a
request met another call in flight: from then on `StandsOnSelected` and `OneTryEach` claim nothing. What
goes wrong in a crossing is finding 4. Bound: after such a choice nobody chooses again (`MayChoose`).

### Not modelled

`PROJECT.json` lists every component. Left out, with the reason:

- **Runtime repair ledger** (`host/src/runtime-repair.ts`): planned, see below. Of **`router.ts`** only the
  move and the routed request are modelled; catalog, projects, uploads and views are not, nor the flat
  directory layout in which a move keeps the path.
- **Lifetime sweep and membership** (`host/src/session-lifetime.ts`): a policy that chooses when to ask.
  The models let the call come at any moment.
- **Replay buffer and revisions**, **agent harness and runs**: real state machines, outside the core
  chosen first.
- Of the **pending tray**: the words and mentions of a row, the dictation `add` awaits, a child session's
  steer (through the harness), and the close of a session under its rows.
- Of the **fallback**: the record in the session file and its restoring, the preparation of a first turn
  (`activateForAcceptedSelection`, `activateForPreparedSelection`), the thinking level, the retries inside a
  continued turn, and every sentence. The exact end of a cooldown is a choice made with the catalogue's.
- **Host server, connections, views**; **remote access** (relay, pairing, push); **frontends**: network
  I/O, cryptography and rendering.
- **Storage and indexes**, **project work**: SQL behind synchronous calls; **installation** (generations,
  updates, migrations): file transactions unrelated to this lifetime; **memory pressure**: thresholds
  over sampled sizes; **background commands**: operating-system processes.
- **The engine and its extensions**: behind `SessionDriver`; each of its answers is a choice.

## What is checked

`tlc -config X.cfg MCmodule`. Every run but one checks deadlock too.

| run | instance | shows |
| --- | --- | --- |
| `route_lease` | 2 paths, 2 requests, 2 writers, 2 gates; 298 372 states | exclusion, exact counters, implements `RouteAuthority`, one bound for all waiters, moves keep off waiters, failed work passes nobody, parked requests end |
| `fences` | 2 files, 2 handlers, no forks, answers of 1 row; 398 464 states | one driver per file, exact counts, a release takes only an idle runtime, an acknowledged worker ends no work, the fence reopens |
| `fences_fork` | the same with forks, answers of 2 rows; 827 154 states | an acknowledged worker serves nobody, although a forked session's counts go wrong (finding 1) |
| `retirement` | 3 requests, 2 questions, the code's bounds in seconds, messages read within 5 s or within 12 s; 307 431 states | implements `AtomicRetirement`, also when a stall outlasts the host's own bound of 10 s; with 5 s the host never writes to a fenced worker; admission comes back |
| `pool` | 2 callers and the timer, 2 process identities, 1 session, 1 automatic attempt; 2 227 013 states up to symmetry | one connected worker, purposeful exits are no crashes, retries only for the dead, nothing starts while closing |
| `tray` | 3 messages, room for 2; 221 830 states | a message is in one place, is handed over once and in order, is drawn as on its way exactly while it is, and goes in |
| `move` | 2 projects, 2 requests, 3 entries; 392 232 states up to symmetry | nothing written is lost, nobody holds a file under the rewrite, one file, what the pool lists is there |
| `fallback` | 3 models of which one is smaller, profiles of 3 and of 1, 1 chooser, lengths 1 to 3; 261 273 states | the session stands on the model the engine has, no model is asked twice, every failover ends, each of its awaits nearer to the end |
| `fork_leak`, `two_workers`, `move_reopened`, `pin_race` | as above | the four findings below: each is expected to be violated |

`fallback` alone does not check deadlock: after a choice that went wrong nobody chooses again (a bound, see
below), and a session that then stands on no profile has no failover either.

### The properties

`SessionRouteLease`
- `ReaderWriterExclusion`: no routed request is inside its work on a path a release or a move holds.
- `CountersExact`: both counters equal the requests in each state.
- `LeaseGivesAuthority` (refinement of `RouteAuthority`): a writer gets all of its paths at one moment at which
  nobody reads or holds any of them and gives them up together; a reader starts where nobody writes.
- `ExpiredGateHasNoWaiters`: nobody is parked on a gate past its bound, and whoever is parked has a timer.
- `NoMoveOvertakesAWaiter`: a request that waited a gate out is never overtaken by a move.
- `OnlySettledGatesPass`: a request goes on past a gate only if the work behind it succeeded.
- `ParkedRequestsEnd` (liveness).

`WorkerFences`
- `OneDriverPerFile`, `InFlightExact`, `ReleaseTakesIdleRuntimeOnly`, `AcknowledgedServesNobody`,
  `RetirementEndsNoWork` (action property: the moment of the acknowledgement), `FenceReopens` (liveness).

`WorkerRetirement`
- `RetirementIsAtomic` (refinement of `AtomicRetirement`), `OpenHostMeansOpenWorker`,
  `AdmissionComesBack` (liveness).

`WorkerPool`
- `OneConnectedWorker`, `RetryIsForTheDead`, `PurposeIsNoCrash` and `ClosedStartsNothing` (action
  properties).

`SessionMove` (all of them as long as the pool has reopened no crashed worker, see finding 3)
- `NothingLost`: every entry ever written is in some file, at every step of a move and of a crash in it.
- `ClosedUnderMove`: no worker holds either file while the host rewrites it.
- `OneFile`: one file, but between the rename and the removal and for what a host's crash left there.
- `KnownIsThere`: what the pool routes to is open in its worker, and whatever is open has a file.

`PendingTray`
- `OnePlace`, `HandedOnce`, `HandedInOrder`, `OnItsWay`, `WaitedGoesIn` (liveness): as in the table. A row
  that stays behind an update's gate is excepted, and so is a tray with a row that failed, which says so.

`ModelFallback`
- `StandsOnSelected`: outside a `setModel` the position of the activation is the engine's model, through
  refusals, exhaustion, cancels, and a compaction for a model that turned out too small.
- `OneTryEach` (action property): the models already sent the turn are not sent it again.
- `FailoverEnds` (liveness).
- `FailoverDescends` (action property): every await of a failover lowers `Rank`, a natural number made of the
  models still untried, the one compaction and the step; no request of a person raises it, unless it crosses
  the failover. `FailoverEnds` says that a failover ends on this instance, `FailoverDescends` why it does on any.

Every property of a passing run has a *slip*: an operator next to the definition it replaces, with one
plausible mistake in it (a guard dropped, a counter not given back, an expiry ignored), under which the
run fails on that property. `PROJECT.json` pairs them under `mutants`.

### Bounds, and why they are enough

- *Lease*: two writers are what it takes for a writer to meet another or to follow it at once; two
  requests for a parked one beside a running one; two paths for overlapping moves; two gates for a
  request that loops once and is then refused. The invariants are proved for every value.
- *Fences*: two files for a fork, or for a second session that pins the worker; two handlers for a
  request beside a close, fork or load of the same file. `SafetyMax = 1` makes the cut of the answer
  happen with two sessions; the code's 512 would never cut here. With `Forking = TRUE` the set of stored
  files starts as any non-empty subset, so that a fork has a free name; without it, as all of them.
- *Retirement*: seconds are fine enough since every bound of the code is a whole number of them. Two
  questions are needed for a late answer to meet a second decision. Three requests, in the run that has
  to tell one accepted early, one in the pipe ahead of the question and one behind it; the longer stall
  uses two.
- *Pool*: two process identities suffice for a process beside another and are used again once free; a
  fault can leave two present, and then no third is made until one is gone, which loses only states with
  more of the same. Two callers and the timer are all the pairs that meet in a gap. `RetryLimit = 1`
  is below the code's `AUTOMATIC_RETRY_LIMIT` of 2: the count is only compared with the limit, and one
  attempt already gives a retry that is granted, one that fails and an exhausted record. (With 2 the same
  properties hold over 5 060 805 states.)
- *Move*: a move has two paths, so two projects give a move and the move back; two requests for one that
  is routed beside one that waits; three entries for one before, one during and one after a move. The
  invariants are proved for every value.
- *Tray*: order needs two messages and a third that overtakes; room for two makes the tray refuse one and
  makes a failed steer outgrow it.
- *Fallback*: three models give an earlier and a later one around the position, one smaller model makes the
  rescue happen, lengths 1 to 3 fit every model, the larger ones or none. One chooser meets the failover;
  two meet each other, which is a crossing by definition (`torn`), and add nothing the properties speak of
  (the inductive invariant was checked with two over 2 088 449 states). The invariants and `OneTryEach` are
  proved for every value.

Symmetry is used for safety only: in `fences_fork` (handlers and files), `pool` and `two_workers`
(callers and process identities), `move` (projects and requests).

### Fairness

- *Lease*: weak fairness of `Resume` and `Expire`, since the event loop resumes a resolved promise and fires
  a set timer. Nothing of `Leave` or `Finish`: the leased work may hang, and `ParkedRequestsEnd` holds
  all the same, which is what the shared timer is for.
- *Fences*: weak fairness of the retirement's own steps and timers (`Drained`, `DrainTimesOut`, `Decide`,
  `LeaseExpires`). Nothing of requests, engine or releases.
- *Retirement*: both event loops run what is due (`WF` of `Host` and of `Worker`) and time passes (`WF`
  of `Tick`). Nothing makes a caller write, the sweep ask or a request finish.
- *Pool*, *move*: none; only safety is stated.
- *Tray*: weak fairness of what the engine owes (it answers a prompt and a steer, acknowledges what it
  accepted, streams, reads its queue at a turn boundary, ends every turn) and of the lock's holder going
  on. Nothing of a person or of an update.
- *Fallback*: weak fairness of the failover's steps together: the catalogue, `setModel`, the compaction and
  a continued turn, whose retries are bounded, all end. Nothing of a person.

## What is proved

`SessionRouteLeaseProofs` proves, for any paths and writers, any finite set of requests and any positive
gate bound (`LeaseAssumption`: the requests are finite, `NoWriter` is no writer, `MaxGates` is a positive
natural number), that the specification satisfies `TypeOK`, `ReaderWriterExclusion`, `CountersExact`,
`AuthorityHeld`, `ExpiredGateHasNoWaiters`, `NoMoveOvertakesAWaiter`, the action property
`OnlySettledGatesPass`, and that it implements `RouteAuthority` (`LeaseGivesAuthority`).

The argument is one inductive invariant `IInv` (`InitInv`, `NextInv`, then `Invariance`). None of the
properties is inductive alone:

- a release starts on `routed[p] = 0`, which excludes a reader only if the counter is exact, and the
  counters stay natural numbers only if each decrement finds somebody counted (`CountedPositive`). So
  exclusion, counters and types go together, by cardinalities of the counted sets (`CardAdd`,
  `CardRemove`, `WakeKeepsCounted`);
- `ParkedOnGate` says that the gate a parked request remembers is still the one in the map, unexpired and
  with its timer set: without it a gate could be replaced under a waiter;
- `OnlyReleasesAhead` says that only a release can hold the path of a request woken by a settled gate. A
  move is kept off by `waiting`; this carries `NoMoveOvertakesAWaiter` over the turn between waking and
  resuming;
- `SettledByTheGate` ties a woken request to the result of the operation its gate belonged to, which is
  still that operation's because a new one is `Fresh`; from it follows `OnlySettledGatesPass`;
- `TurnsLeft` keeps `gates` within its type.

The refinement (`NextRefines`) is where the two halves meet. A path whose counter is zero has no reader
(`CountersExact`) and a path without a gate has no writer (`AuthorityHeld`), so the decisions the code makes on
a counter and on a map entry are decisions on the readers and the writers themselves (`NobodyOnPath`). A turn
of the loop that enters is a `Read`, from the call as from a wake-up; the installation of one or two gates
is a single `Write`; parking, refusing, waking and expiring are nothing to the abstract lease.

`WorkerRetirementProofs` proves, for any requests, questions, stalls and bounds that are natural numbers
(`RetirementAssumption`), that the specification satisfies `TypeOK`, `RetirementIsAtomic` and
`OpenHostMeansOpenWorker`. Atomicity rests on `IInv` and needs no clock:

- `PipeExact`: a message is in the pipe once and nobody has acted on it yet;
- `AskIsLast`: while a question is being decided the host writes nothing behind it, so a worker that has
  answered has read all there is;
- `Quiet`: an acknowledgement, a yes under way and an ended pipe all find the worker serving nobody.

Hence the step in which the process goes finds no accepted request unanswered, which is the one step of
`AtomicRetirement` that has a guard (`NobodyIsLost`, `NextRefines`). `OpenHostMeansOpenWorker` needs the
clocks: `OneDecision` says there is one question at a time and that outside of a decision the fence is open, and
`OnTime` bounds, by where the question is (in the pipe, in the drain, under the lease), the time since it
was asked. Both hold under `WaitOutlastsLease`, which compares the code's five bounds.

`WorkerFencesProofs` proves, for any files, handlers and length of a safety answer (`FencesAssumption`: files
and handlers are finite) and with forks, `TypeOK`, `OneDriverPerFile`, `AcknowledgedServesNobody` and the
action property `RetirementEndsNoWork`. Its `IInv`:

- `Apart` and `OneOpener`: a file is open or being opened, never both, and one handler opens it. Without it
  a load that ends could dispose the driver of a runtime somebody else holds, and no driver is counted
  below zero, which is in `TypeOK`;
- `WorkInTable`: only a runtime in the table holds work. A whole safety answer has a row for it, so
  `RetirementEndsNoWork` holds however few rows an answer may have;
- `CountExact`: what a drain waits for is the number of handlers at work. A fork moves the count of a
  session, never this one, so a decided retirement serves nobody in spite of finding 1.

Of a worker that is asked for no fork (`~Forking`) it proves `InFlightExact` and
`ReleaseTakesIdleRuntimeOnly` too, by `UInv`: each handler holds the runtime of the file it named
(`HoldsItsOwn`), each session's count is exact (`CountsExact`), and a runtime found idle under the release
fence stays idle behind it (`IdleRelease`). Finding 1 is the reason the first does not hold with forks.

`WorkerPoolProofs` proves, for any callers, processes, sessions and retry limit (`PoolAssumption`),
`TypeOK`, `OneConnectedWorker`, `RetryIsForTheDead` and the action properties `PurposeIsNoCrash` and
`ClosedStartsNothing`. Its `IInv`:

- `Connected`: the process the host has a pipe to is the entry's client, so there is one at most;
- `Ended`: a client whose pipe the host has ended is the process that is waited for. get and every await of
  the spawn look at `stopped`, so a start finds no client at all and `Connected` survives it;
- `Wanted`: a process that is waited for is there, `stopping` is set and no retry is armed. Its end is then
  no crash, whoever else starts, stops or crashes in between;
- `Starting`: a spawn before its process found no client and has taken the retry over.

`SessionMoveProofs` proves `TypeOK`, `NothingLost`, `ClosedUnderMove`, `OneFile` and `KnownIsThere` for any
projects, requests and number of entries (`MoveAssumption`: there is a project). `IInv` holds always that
who was sent something has a worker (`Served`) and that requests keep off the paths of a move (`Leased`);
and, as long as nothing was reopened, that the pool lists exactly what has a driver (`Known`). That is
why a move that asks the pool closes whoever holds the file, and why nobody holds it from then on
(`Quiet`); so the file copied is the file removed (`Rewrite`), no entry leaves the disk (`Complete`) and
one file remains (`One`).

It also proves `MoveKeepsAuthority`: every step of the requests and of the move is one of `RouteAuthority` or
none of it, a worker's crash ends the requests it takes with it in one `End`, and the host's ends everything.
With `ImplementsRouteAuthority` of the lease, what `SessionMove` assumes about the lease and what the lease does are
the same abstract specification. (TLC agrees on the instance of `move`, without symmetry, over 1 310 210
states; no run repeats it.)

`ModelFallbackProofs` proves `TypeOK`, `StandsOnSelected` and the action properties `OneTryEach` and
`FailoverDescends` for any finite set of models, profiles without a model twice, windows, lengths and number
of choosers (`FallbackAssumption`). Its `IInv`:

- `Ahead`: whatever was asked is among the tried, but for the model being asked; the candidate and what is
  left of a rescue are not. `OneTryEach` follows at the two steps that send the turn;
- `Same`: the traversal is about the models of the activation, so the index it moves to is a position;
- `Stands` and `Held`: the engine's model is the activation's, and a choice that waits for the engine waits
  for the model the activation already names; neither is inductive without the other;
- `Crossed`, `BlockedIn`, `Wanted`: `torn` covers a crossing that is going on, what is left of a rescue are
  positions, and a failover nobody ended has a profile.

`FailoverDescends` needs two facts more (`Nearing`), which hold in a crossing as well: the candidate, and what a
rescue still has to come to, are never among the tried (`Untried`), so a refusal or a failed answer really
uses a model up (`TryDescends`, `WorthOfATry`); and a rescue is begun only while the one compaction is left
(`RescueFirst`), so it is paid for by the compaction it spends.

`PendingTrayProofs` proves `TypeOK`, `OnePlace`, `HandedOnce`, `HandedInOrder` and `OnItsWay` for any number of
messages and any limit of rows (`TrayAssumption`). The tray is an array that is filtered, pushed to and
rebuilt; what a filter does to a sequence of any length is an induction. The induction theorems of the
library take an operator as a parameter, which the provers cannot instantiate, so the module states the
principle of a *set* of numbers (`InductionBySet`) and derives it from the well-foundedness of the naturals
(`LeastElement`). The filter is written as a recursive function, `Kept`, whose unfolding is a lemma
(`KeptUnfolds`); `KeptInOrder` then gives what the proofs use: the elements that stay, without repetition, in
their order. Above that, `IInv`:

- `Located`: the rows, the hands of the steers that wait for the lock, the engine's queue, the turns and what
  went back to the person are disjoint and hold exactly what was written. The one exception is the row of a prompt
  that is taken and not yet acknowledged, which is in the engine and still drawn;
- `Passing`: the drain in flight holds the lock while it asks, and its row is the only one drawn as
  delivering, so no edit, remove or steer can touch it (`OnItsWay`);
- `Handed`: what the engine has, it was handed, and once; whatever was handed over has left the tray, so a
  second hand-over finds no row (`HandedOnce`);
- `Ordered`: rows that nobody steered stand in the order of writing (a steer that fails and comes back at the
  head is in `favoured`), and whatever precedes the row on its way has been handed over or taken back;
- `Roomy`: only rows somebody steered go past the limit.

Model-checked only: every liveness property (`ParkedRequestsEnd`, `FenceReopens`, `AdmissionComesBack`,
`WaitedGoesIn`, `FailoverEnds`), which the prover does not do. Every safety invariant, action property and
refinement that a passing run checks is a theorem.

## Findings

Each is a run that is expected to fail, on a property quoted from the repository.

1. `fork_leak` (`worker/src/session-runtimes.ts:186`). The function `admit()` returns lowers the count
   under the key the request named. A fork has moved that key's count to the new path before it is
   answered, so the new path keeps a count nobody lowers: the session is pinned by a request answered
   long ago and the worker is never retired.
2. `two_workers` (`host/src/worker-client.ts:530`). A frame past the limit settles the client without
   killing the child, which still drains for up to 5 s while the next worker starts. "Never two"
   (`worker-pool.ts:2`, `docs/architecture.md:181`) fails; of the *connected* workers it holds
   (`OneConnectedWorker`).
3. `move_reopened` (`host/src/router.ts:1373`). A move closes and forgets the session through
   `openSessions()`, which is empty while the worker is being recovered; the pool still reopens the old
   path afterwards, under no lease, although `worker-pool.ts:673` says nothing may. `NothingLost` fails in
   the same situation.
4. `pin_race` (`worker/src/fallback/controller.ts:439`). A pin's `setModel` and the failover's are in the
   engine at once; the failover's takes effect last and only then notices that it is stale. The session is
   pinned to one model and stands on another, although `docs/model-fallback-chains.md:389` and `:766` and a test
   promise the person the last word. The test delays the answer of the new model, not `setModel`.

Two divergences are described here and have no run:

- `host/src/worker-retirement.ts:99` says the host waits until the worker's lease "has certainly expired".
  Its 26 s run from the question, the lease from the answer: a worker that reads the question 6 s late or
  more may still be fenced (`OpenHostMeansOpenWorker` without its condition fails with a stall of 12).
- `host/src/worker-pool.ts:964`: a stop that lands while the trust question is on screen finds no client, sets
  no `entry.stopped`, and the guard written for it does not see it.

Met while modelling, listed under `hazards`, not stated as runs: the status `"starting"` with nothing
behind it; a late `session/update` that adds a path to `open` after a retirement cleared it; attempts
counted per failure category, so more than one automatic retry; extension work between the
acknowledgement and the end of the pipe; a steer taken after its turn settled, which waits in the engine's
queue; a row kept behind an update's gate that nothing drains when the gate opens; a profile whose first
model is not signed in, chosen but not selected (`stable-sdk.ts:1512`).

## Plan

Done: `SessionRouteLease`, `WorkerFences`, `AtomicRetirement`/`WorkerRetirement`, `WorkerPool`,
`SessionMove`, `PendingTray` and `ModelFallback`, all with their proofs, and `RouteAuthority` between the lease
and the move. Next, most important first:

1. `RuntimeRepair` (`host/src/runtime-repair.ts`): the bound on automatic retries across categories and
   across a restart of the host, beside the pool.
2. `PendingTray` with the close of its session, and a steer after the settle.
3. The fallback's record: what a session is on when it is opened again in the middle of a failover.
4. Liveness of the pool: a caller of `get` ends, the status is not left behind.
