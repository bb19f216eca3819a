----------------------------- MODULE WorkerPool -----------------------------
(***************************************************************************)
(* The host's worker pool over one project directory                       *)
(* (packages/host/src/worker-pool.ts): one entry, the processes it makes,  *)
(* and the callers of get, prepare, discardPrepared, stop, restart and the *)
(* idle sweep, with the crash recovery timer and the host's own shutdown.  *)
(*                                                                         *)
(* An action is the code between two awaits.  What a caller awaits is its  *)
(* pc; a promise that several callers await is one variable they share     *)
(* (spawning, stopped).                                                    *)
(*                                                                         *)
(* Abstracted: clocks (a timer that is set may fire), the worker's answer  *)
(* to a retirement (WorkerRetirement and WorkerFences have it), the busy   *)
(* refusal of stop and restart and the idleness of the sweep (they may     *)
(* happen or not), feature modes, all but the count of the durable repair  *)
(* record, the projection sent to clients, `active` and the other maps     *)
(* only a reader of sessions looks at, and the eviction of one directory's *)
(* prepared worker for another's.                                          *)
(***************************************************************************)
EXTENDS Naturals, FiniteSets

CONSTANTS
  Callers,     \* what runs get, prepare, discardPrepared, stop, restart, sweep
  Timer,       \* what runs reopen when the recovery timer fires
  Processes,   \* identities of worker processes; one is used again when free
  NoProcess,   \* "undefined"
  Sessions,    \* session paths of this directory
  RetryLimit,  \* AUTOMATIC_RETRY_LIMIT
  Oversized    \* whether a worker may send a frame past the limit

ASSUME PoolAssumption ==
  /\ Timer \notin Callers
  /\ NoProcess \notin Processes
  /\ RetryLimit \in Nat
  /\ Oversized \in BOOLEAN

VARIABLES
  client,    \* entry.client
  status,    \* entry.status
  warm,      \* entry.warm: nobody has claimed this process
  stopping,  \* entry.stopping
  stopped,   \* the process whose end entry.stopped is the promise of
  open,      \* entry.open
  retry,     \* entry.retryTimer is set
  repair,    \* entry.repair, "none" for undefined
  failed,    \* entry.failure is defined
  attempts,  \* the automatic attempts of the directory's incident
  closed,    \* stopAll was called
  spawning,  \* what the spawn behind entry.starting awaits, "none" if undefined
  spawned,   \* the process that spawn has made
  process,   \* process -> what it is doing
  link,      \* process -> the host's end of its pipe
  pc,        \* caller -> what it awaits
  goal,      \* caller -> what it was called for
  paths,     \* caller -> the sessions it will reopen
  saved      \* the repair state reopen puts aside

recoveryVars == <<retry, repair, failed, attempts>>
entryVars    == <<client, status, warm, stopping, stopped, open,
                  recoveryVars, closed>>
spawnVars    == <<spawning, spawned>>
worldVars    == <<process, link>>
callVars     == <<pc, goal, paths, saved>>
vars == <<entryVars, spawnVars, worldVars, callVars>>

Actors == Callers \cup {Timer}

\* A process whose pipe ended is still there while it winds up; a killed one
\* has been sent SIGKILL and runs no more.
Present == {g \in Processes : process[g] \in {"booting", "up"}}

TypeOK ==
  /\ client \in Processes \cup {NoProcess}
  /\ status \in {"starting", "ready", "crashed", "retired"}
  /\ warm \in BOOLEAN /\ stopping \in BOOLEAN
  /\ stopped \in Processes \cup {NoProcess}
  /\ open \subseteq Sessions
  /\ retry \in BOOLEAN
  /\ repair \in {"none", "available", "exhausted"}
  /\ failed \in BOOLEAN
  /\ attempts \in 0..RetryLimit
  /\ closed \in BOOLEAN
  /\ spawning \in {"none", "held", "trust", "ready", "prime"}
  /\ spawned \in Processes \cup {NoProcess}
  /\ (spawned # NoProcess) <=> (spawning \in {"ready", "prime"})
  /\ process \in [Processes -> {"gone", "booting", "up", "killed"}]
  /\ link \in [Processes -> {"open", "ended", "broken"}]
  /\ pc \in [Actors -> {"idle", "queued", "sharing", "shadowing", "preparing",
                        "asking", "deferring", "stopping", "stopDone",
                        "loading", "reopenFailed"}]
  /\ goal \in [Actors -> {"get", "stop", "restart", "reopen"}]
  /\ paths \in [Actors -> SUBSET Sessions]
  /\ saved \in {"none", "available", "exhausted"}

Init ==
  /\ client = NoProcess
  /\ status = "retired"
  /\ warm = FALSE /\ stopping = FALSE
  /\ stopped = NoProcess
  /\ open = {}
  /\ retry = FALSE /\ repair = "available" /\ failed = FALSE /\ attempts = 0
  /\ closed = FALSE
  /\ spawning = "none" /\ spawned = NoProcess
  /\ process = [g \in Processes |-> "gone"]
  /\ link = [g \in Processes |-> "open"]
  /\ pc = [a \in Actors |-> "idle"]
  /\ goal = [a \in Actors |-> "get"]
  /\ paths = [a \in Actors |-> {}]
  /\ saved = "none"

-----------------------------------------------------------------------------
(* What the handlers share.                                                *)

\* WorkerClient.alive of the entry's client.
ClientAlive == client # NoProcess /\ link[client] = "open"

\* A retirement decision is in flight.
Retiring == \E a \in Actors : pc[a] = "asking"

Unused == open = {}

\* Callers move on; one that is done keeps nothing.
Calls(pcs, goals, kept) ==
  /\ pc' = pcs
  /\ goal' = [a \in Actors |-> IF pcs[a] = "idle" THEN "get" ELSE goals[a]]
  /\ paths' = [a \in Actors |-> IF pcs[a] = "idle" THEN {} ELSE kept[a]]
  /\ saved' = IF pcs[Timer] = "idle" THEN "none" ELSE saved

Go(a, to) == Calls([pc EXCEPT ![a] = to], goal, paths)

\* A client asks; the host closes its connections before its pool.
Calling(c) == pc[c] = "idle" /\ ~closed

\* RuntimeRepairLedger.status.
RepairStatus(n) == IF n >= RetryLimit THEN "exhausted" ELSE "available"

\* The shared spawn settled: whoever awaited it goes on.
AfterSpawn(ok, calls) ==
  [a \in Actors |->
     CASE calls[a] = "preparing" -> "idle"
       [] calls[a] = "shadowing" /\ (warm \/ ~ok) -> "queued"
       [] calls[a] \in {"sharing", "shadowing"} /\ ok ->
            IF goal[a] \in {"restart", "reopen"} THEN "loading" ELSE "idle"
       [] calls[a] = "sharing" /\ ~ok ->
            IF goal[a] = "reopen" THEN "reopenFailed" ELSE "idle"
       [] OTHER -> calls[a]]

\* Slip: the spawn's own process is not forgotten with it.
SpawnOverUnfinished(ok) ==
  /\ spawning' = "none"
  /\ spawned' = spawned
  /\ Calls(AfterSpawn(ok, pc), goal, paths)

SpawnOver(ok) ==
  /\ spawning' = "none"
  /\ spawned' = NoProcess
  /\ Calls(AfterSpawn(ok, pc), goal, paths)

-----------------------------------------------------------------------------
(* get and the spawn it shares.                                            *)

Get(c) ==
  /\ pc[c] = "idle"
  /\ Go(c, "queued")
  /\ UNCHANGED <<entryVars, spawnVars, worldVars>>

\* One pass of get() once no retirement owns the directory.
Unowned(a) == pc[a] = "queued" /\ stopped = NoProcess /\ ~Retiring

\* A spawn is in flight: share it.
GetShares(a) ==
  /\ Unowned(a)
  /\ spawning # "none"
  /\ Go(a, IF warm THEN "shadowing" ELSE "sharing")
  /\ UNCHANGED <<entryVars, spawnVars, worldVars>>

\* A prepared worker is adopted, or any live one taken.
GetTakes(a) ==
  /\ Unowned(a)
  /\ spawning = "none"
  /\ ClientAlive
  /\ status' = IF warm THEN "ready" ELSE status
  /\ warm' = FALSE
  /\ Go(a, IF goal[a] = "get" THEN "idle" ELSE "loading")
  /\ UNCHANGED <<client, stopping, stopped, open, recoveryVars, closed,
                 spawnVars, worldVars>>

\* Automatic recovery is spent and nothing lives: only restart() goes on.
GetRefused(a) ==
  /\ Unowned(a)
  /\ spawning = "none"
  /\ ~ClientAlive
  /\ repair = "exhausted"
  /\ warm' = FALSE
  /\ Go(a, IF goal[a] = "reopen" THEN "reopenFailed" ELSE "idle")
  /\ UNCHANGED <<client, status, stopping, stopped, open, recoveryVars,
                 closed, spawnVars, worldVars>>

\* Slip: an explicit request leaves the backoff running.
GetSpawnsBesideRetry(a) ==
  /\ Unowned(a)
  /\ spawning = "none"
  /\ ~ClientAlive
  /\ repair # "exhausted"
  /\ ~closed
  /\ warm' = FALSE
  /\ Go(a, "sharing")
  /\ spawning' = "held"
  /\ UNCHANGED <<client, status, stopping, stopped, open, recoveryVars, closed,
                 spawned, worldVars>>

\* get() starts the spawn; every guard of spawn() up to its first await.
GetSpawns(a) ==
  /\ Unowned(a)
  /\ spawning = "none"
  /\ ~ClientAlive
  /\ repair # "exhausted"
  /\ warm' = FALSE
  /\ retry' = FALSE
  /\ IF closed
       THEN /\ Go(a, IF goal[a] = "reopen" THEN "reopenFailed" ELSE "idle")
            /\ UNCHANGED spawning
       ELSE /\ Go(a, "sharing")
            /\ spawning' = "held"
  /\ UNCHANGED <<client, status, stopping, stopped, open, repair,
                 failed, attempts, closed, spawned, worldVars>>

\* spawn() finds no room for a worker's heap on this machine.
GetFindsNoRoom(a) ==
  /\ Unowned(a)
  /\ spawning = "none"
  /\ ~ClientAlive
  /\ repair # "exhausted" /\ ~closed
  /\ warm' = FALSE
  /\ retry' = FALSE
  /\ status' = "crashed"
  /\ Go(a, IF goal[a] = "reopen" THEN "reopenFailed" ELSE "idle")
  /\ UNCHANGED <<client, stopping, stopped, open, repair, failed, attempts,
                 closed, spawnVars, worldVars>>

\* Slip: only a retirement is looked for after an await.
SpawnWhileClosing == stopped = NoProcess

\* What spawn() looks at again after each of its awaits.
SpawnMayGoOn == ~closed /\ stopped = NoProcess

\* spawn() makes the process.
MakeProcess ==
  \E g \in Processes :
    /\ process[g] = "gone"
    /\ process' = [process EXCEPT ![g] = "booting"]
    /\ link' = [link EXCEPT ![g] = "open"]
    /\ client' = g
    /\ spawned' = g
    /\ spawning' = "ready"
    /\ stopping' = FALSE

\* beforeSpawn settled.  A prepared worker asks nobody; trust may be gone.
SpawnHeld(trusted) ==
  /\ spawning = "held"
  /\ IF ~SpawnMayGoOn
       THEN SpawnOver(FALSE) /\ UNCHANGED <<entryVars, worldVars>>
       ELSE /\ failed' = FALSE
            /\ status' = "starting"
            /\ CASE ~warm ->
                     /\ spawning' = "trust"
                     /\ UNCHANGED <<client, stopping, spawned, worldVars, callVars>>
                 [] warm /\ trusted ->
                     MakeProcess /\ UNCHANGED callVars
                 [] warm /\ ~trusted ->
                     /\ SpawnOver(FALSE)
                     /\ UNCHANGED <<client, stopping, worldVars>>
            /\ UNCHANGED <<warm, stopped, open, retry, repair, attempts,
                           closed>>

\* The trust question is answered.
SpawnTrust(trusted) ==
  /\ spawning = "trust"
  /\ IF trusted /\ SpawnMayGoOn
       THEN /\ MakeProcess
            /\ UNCHANGED <<status, callVars>>
       ELSE /\ SpawnOver(FALSE)
            /\ status' = IF trusted THEN status ELSE "crashed"
            /\ UNCHANGED <<client, stopping, worldVars>>
  /\ UNCHANGED <<warm, stopped, open, recoveryVars, closed>>

SpawnPrimed ==
  /\ spawning = "prime"
  /\ SpawnOver(TRUE)
  /\ UNCHANGED <<entryVars, worldVars>>

-----------------------------------------------------------------------------
(* Speculation.                                                            *)

\* prepare() may try: nothing here is used, starting, stopping or recovering.
PrepareMay ==
  /\ ~closed
  /\ \A a \in Actors : pc[a] # "preparing"
  /\ Unused /\ ~retry /\ status # "crashed"
  /\ ~ClientAlive /\ spawning = "none" /\ stopped = NoProcess

Prepare(c) ==
  /\ pc[c] = "idle"
  /\ PrepareMay
  /\ Go(c, "preparing")
  /\ warm' = TRUE
  /\ spawning' = "held"
  /\ UNCHANGED <<client, status, stopping, stopped, open, recoveryVars,
                 closed, spawned, worldVars>>

PrepareFindsNoRoom ==
  /\ PrepareMay
  /\ warm' = TRUE
  /\ status' = "crashed"
  /\ UNCHANGED <<client, stopping, stopped, open, recoveryVars, closed,
                 spawnVars, worldVars, callVars>>

Begin(a, to, why, kept) ==
  Calls([pc EXCEPT ![a] = to], [goal EXCEPT ![a] = why],
        [paths EXCEPT ![a] = kept])

\* Slip: the client is released before its process has gone.
ReleaseThenStop(a, why, kept) ==
  /\ stopping' = TRUE
  /\ retry' = FALSE
  /\ open' = {}
  /\ status' = "retired"
  /\ client' = NoProcess
  /\ link' = [g \in Processes |-> IF g = client THEN "ended" ELSE link[g]]
  /\ Begin(a, IF why = "stop" THEN "idle" ELSE "stopDone", why, kept)
  /\ UNCHANGED <<stopped, warm, repair, failed, attempts, closed>>

\* The entry of retire(), for a caller that then waits or is done.
StartRetire(a, why, kept) ==
  IF stopped # NoProcess
    THEN /\ Begin(a, "stopping", why, kept)
         /\ UNCHANGED <<entryVars, link>>
    ELSE /\ stopping' = TRUE
         /\ retry' = FALSE
         /\ open' = {}
         /\ IF client = NoProcess
              THEN /\ status' = "retired"
                   /\ Begin(a, IF why = "stop" THEN "idle" ELSE "stopDone", why,
                            kept)
                   /\ UNCHANGED <<stopped, link>>
              ELSE /\ stopped' = client
                   /\ link' = [link EXCEPT ![client] =
                                 IF @ = "open" THEN "ended" ELSE @]
                   /\ Begin(a, "stopping", why, kept)
                   /\ UNCHANGED status
         /\ UNCHANGED <<client, warm, repair, failed, attempts, closed>>

\* discardPrepared: a prepared worker nobody uses is stopped.
DiscardPrepared(c) ==
  /\ Calling(c)
  /\ warm /\ spawning = "none" /\ Unused
  /\ StartRetire(c, "stop", {})
  /\ UNCHANGED <<spawnVars, process>>

\* get() finds that a prepared worker's trust was withdrawn.
GetDistrusts(a) ==
  /\ Unowned(a)
  /\ spawning = "none"
  /\ warm /\ ClientAlive
  /\ IF Unused
       THEN StartRetire(a, goal[a], paths[a])
       ELSE /\ Go(a, IF goal[a] = "reopen" THEN "reopenFailed" ELSE "idle")
            /\ UNCHANGED <<entryVars, link>>
  /\ UNCHANGED <<spawnVars, process>>

-----------------------------------------------------------------------------
(* stop, restart and the sweep.                                            *)

\* askToRetire: straight to retire() when there is nothing live to ask.
AskToRetire(a, why, kept) ==
  IF ClientAlive /\ status = "ready" /\ ~stopping /\ stopped = NoProcess
    THEN /\ Begin(a, IF Retiring THEN "deferring" ELSE "asking", why, kept)
         /\ UNCHANGED <<entryVars, link>>
    ELSE StartRetire(a, why, kept)

\* stop(), and what the sweep does with a worker that is alive and ready.
Stop(c) ==
  /\ Calling(c)
  /\ AskToRetire(c, "stop", {})
  /\ UNCHANGED <<spawnVars, process>>

\* The open set is remembered before retiring clears it.
Restart(c) ==
  /\ Calling(c)
  /\ IF ClientAlive \/ stopped # NoProcess
       THEN AskToRetire(c, "restart", open)
       ELSE /\ Begin(c, "stopDone", "restart", open)
            /\ retry' = FALSE
            /\ UNCHANGED <<client, status, warm, stopping, stopped, open, repair,
                           failed, attempts, closed, link>>
  /\ UNCHANGED <<spawnVars, process>>

\* The worker agreed, and its pipe may end.
Agreed(a) ==
  /\ pc[a] = "asking"
  /\ ClientAlive /\ process[client] = "up"
  /\ StartRetire(a, goal[a], paths[a])
  /\ UNCHANGED <<spawnVars, process>>

\* It refused, failed or stayed silent; the waiting is over.
Refused(a) ==
  /\ pc[a] = "asking"
  /\ Go(a, "idle")
  /\ UNCHANGED <<entryVars, spawnVars, worldVars>>

\* Another decision was in flight, and is over.
Deferred(a) ==
  /\ pc[a] = "deferring"
  /\ ~Retiring /\ stopped = NoProcess
  /\ Go(a, CASE goal[a] = "stop" -> "idle"
             [] ClientAlive      -> "idle"
             [] OTHER            -> "stopDone")
  /\ UNCHANGED <<entryVars, spawnVars, worldVars>>

\* retire() is over: restart() authorizes a new attempt and asks for a worker,
\* as get() does whose prepared worker had to go.
StopDone(a) ==
  /\ pc[a] = "stopDone"
  /\ Go(a, "queued")
  /\ IF goal[a] = "restart"
       THEN /\ attempts' = IF failed THEN 0 ELSE attempts
            /\ repair' = "none"
            /\ failed' = FALSE
       ELSE UNCHANGED <<attempts, repair, failed>>
  /\ UNCHANGED <<client, status, warm, stopping, stopped, open, retry, closed,
                 spawnVars, worldVars>>

\* restart() and reopen() load what was open, one session after the other.
Loaded(a, ok) ==
  /\ pc[a] = "loading"
  /\ ok \subseteq paths[a]
  /\ ok # {} => ClientAlive
  /\ open' = (IF goal[a] = "reopen" THEN open \ paths[a] ELSE open) \cup ok
  /\ Go(a, "idle")
  /\ UNCHANGED <<client, status, warm, stopping, stopped, recoveryVars, closed,
                 spawnVars, worldVars>>

\* stopAll: every client is stopped and nothing may start again.
StopAll ==
  /\ ~closed
  /\ closed' = TRUE
  /\ stopping' = TRUE
  /\ retry' = FALSE
  /\ IF client = NoProcess
       THEN UNCHANGED <<stopped, link>>
       ELSE /\ stopped' = client
            /\ link' = [link EXCEPT ![client] = IF @ = "open" THEN "ended" ELSE @]
  /\ UNCHANGED <<client, status, warm, open, repair, failed, attempts,
                 spawnVars, process, callVars>>

-----------------------------------------------------------------------------
(* Crash recovery.                                                         *)

\* WorkerRecoveryPolicy.failure and what onExit makes of it.
Recover(spawnError) ==
  LET again == ~spawnError /\ open # {} /\ attempts < RetryLimit
      n == IF again THEN attempts + 1 ELSE attempts
  IN /\ failed' = TRUE
     /\ attempts' = n
     /\ repair' = RepairStatus(n)
     /\ retry' = again
     /\ status' = "crashed"

\* Slip: `stopping` is not looked at when the process has gone.
OnlyWhenClosing == closed

\* Its exit was asked for, or the host is closing.
OnPurpose == stopping \/ closed

\* WorkerClient.settle and WorkerPool.onExit for process g.
OnExit(g, spawnError) ==
  IF client # g
    THEN UNCHANGED <<client, status, recoveryVars>>
    ELSE /\ client' = NoProcess
         /\ IF OnPurpose
              THEN /\ failed' = FALSE
                   /\ status' = "retired"
                   /\ UNCHANGED <<retry, repair, attempts>>
              ELSE Recover(spawnError)

\* The spawn that awaits g's readiness is rejected with it.
SpawnLoses(g, calls) ==
  IF spawning = "ready" /\ spawned = g
    THEN /\ spawning' = "none"
         /\ spawned' = NoProcess
         /\ Calls(AfterSpawn(FALSE, calls), goal, paths)
    ELSE /\ Calls(calls, goal, paths)
         /\ UNCHANGED spawnVars

\* Those who await the end of g, once it has come.
Released(g) ==
  [a \in Actors |->
     CASE pc[a] # "stopping" \/ stopped # g -> pc[a]
       [] goal[a] = "stop" -> "idle"
       [] OTHER -> "stopDone"]

\* The process ends by itself: a crash, or the end of its winding up.  The host
\* hears of it here unless it had given the link up before.
Exit(g, spawnError) ==
  /\ process[g] # "gone"
  /\ spawnError => process[g] = "booting"
  /\ process' = [process EXCEPT ![g] = "gone"]
  /\ IF link[g] = "broken"
       THEN UNCHANGED <<client, status, recoveryVars>>
       ELSE OnExit(g, spawnError)
  /\ link' = [link EXCEPT ![g] = "open"]
  /\ stopped' = IF stopped = g THEN NoProcess ELSE stopped
  /\ SpawnLoses(g, Released(g))
  /\ UNCHANGED <<warm, stopping, open, closed>>

\* The grace of WorkerClient.stop is over: SIGKILL, and the wait ends at once.
KillAfterGrace ==
  LET g == stopped
  IN /\ g # NoProcess
     /\ process' = [process EXCEPT ![g] = "killed"]
     /\ stopped' = NoProcess
     /\ client' = IF client = g THEN NoProcess ELSE client
     /\ status' = "retired"
     /\ Calls(Released(g), goal, paths)
     /\ link' = [link EXCEPT ![g] = "broken"]
     /\ UNCHANGED <<warm, stopping, open, recoveryVars, closed, spawnVars>>

\* faultLaunch: a wrong first frame; the child is killed.
FaultLaunch(g) ==
  /\ process[g] = "booting" /\ link[g] # "broken"
  /\ process' = [process EXCEPT ![g] = "killed"]
  /\ link' = [link EXCEPT ![g] = "broken"]
  /\ OnExit(g, FALSE)
  /\ SpawnLoses(g, pc)
  /\ UNCHANGED <<warm, stopping, stopped, open, closed>>

\* faultGeneration: a frame past the limit; the pipe is destroyed.
FaultGeneration(g) ==
  /\ Oversized
  /\ process[g] = "up" /\ link[g] # "broken"
  /\ link' = [link EXCEPT ![g] = "broken"]
  /\ OnExit(g, FALSE)
  /\ SpawnLoses(g, pc)
  /\ UNCHANGED <<warm, stopping, stopped, open, closed, process>>

\* The recovery timer: reopen() remembers the open set and asks for a worker.
Reopen ==
  /\ retry
  /\ pc[Timer] = "idle"
  /\ retry' = FALSE
  /\ IF closed \/ ClientAlive
       THEN UNCHANGED <<repair, callVars>>
       ELSE /\ pc' = [pc EXCEPT ![Timer] = "queued"]
            /\ goal' = [goal EXCEPT ![Timer] = "reopen"]
            /\ paths' = [paths EXCEPT ![Timer] = open]
            /\ saved' = repair
            /\ repair' = "none"
  /\ UNCHANGED <<client, status, warm, stopping, stopped, open, failed, attempts,
                 closed, spawnVars, worldVars>>

\* Its get() failed: entry.repair ??= authorizedRepair.
ReopenFails ==
  /\ pc[Timer] = "reopenFailed"
  /\ Go(Timer, "idle")
  /\ repair' = IF repair = "none" THEN saved ELSE repair
  /\ UNCHANGED <<client, status, warm, stopping, stopped, open, retry,
                 failed, attempts, closed, spawnVars, worldVars>>

-----------------------------------------------------------------------------
(* What the worker says, and what clients do through it.                   *)

\* The worker's "ready", read from its pipe.
Ready(g) ==
  /\ process[g] = "booting" /\ link[g] # "broken"
  /\ process' = [process EXCEPT ![g] = "up"]
  /\ IF client = g
       THEN /\ failed' = FALSE
            /\ repair' = RepairStatus(attempts)
            /\ status' = "ready"
       ELSE UNCHANGED <<failed, repair, status>>
  /\ spawning' = IF spawned = g /\ spawning = "ready" THEN "prime" ELSE spawning
  /\ UNCHANGED <<client, warm, stopping, stopped, open, retry, attempts,
                 closed, spawned, link, callVars>>

\* The worker says it retires by itself: a signal, or the end of its pipe.
SaysRetired(g) ==
  /\ client = g
  /\ process[g] = "up" /\ link[g] # "broken"
  /\ stopping' = TRUE
  /\ status' = "retired"
  /\ UNCHANGED <<client, warm, stopped, open, recoveryVars, closed,
                 spawnVars, worldVars, callVars>>

\* A session/update of a session; a run starts with one and ends with another.
Update(g, s) ==
  /\ client = g
  /\ process[g] = "up" /\ link[g] # "broken"
  /\ open' = open \cup {s}
  /\ UNCHANGED <<client, status, warm, stopping, stopped, recoveryVars, closed,
                 spawnVars, worldVars, callVars>>

\* forgetSession: closed, released or moved.
ForgetSession(s) ==
  /\ ClientAlive
  /\ open' = open \ {s}
  /\ UNCHANGED <<client, status, warm, stopping, stopped, recoveryVars, closed,
                 spawnVars, worldVars, callVars>>

\* It ran long enough: the incident is over.
Healthy ==
  /\ ClientAlive /\ status = "ready"
  /\ attempts' = 0
  /\ repair' = RepairStatus(0)
  /\ UNCHANGED <<client, status, warm, stopping, stopped, open, retry,
                 failed, closed, spawnVars, worldVars, callVars>>

-----------------------------------------------------------------------------
GetGoesOn(a) ==
  \/ GetShares(a) \/ GetTakes(a) \/ GetRefused(a) \/ GetSpawns(a)
  \/ GetFindsNoRoom(a) \/ GetDistrusts(a)

SpawnGoesOn == (\E t \in BOOLEAN : SpawnHeld(t)) \/ SpawnPrimed

Next ==
  \/ \E c \in Callers : Get(c) \/ Prepare(c) \/ DiscardPrepared(c)
  \/ \E c \in Callers : Stop(c) \/ Restart(c)
  \/ PrepareFindsNoRoom
  \/ \E a \in Actors : GetGoesOn(a)
  \/ SpawnGoesOn
  \/ \E t \in BOOLEAN : SpawnTrust(t)
  \/ \E a \in Actors : Agreed(a) \/ Refused(a) \/ Deferred(a) \/ StopDone(a)
  \/ \E a \in Actors, ok \in SUBSET Sessions : Loaded(a, ok)
  \/ StopAll
  \/ \E g \in Processes, e \in BOOLEAN : Exit(g, e)
  \/ KillAfterGrace
  \/ \E g \in Processes : FaultLaunch(g) \/ FaultGeneration(g)
  \/ Reopen
  \/ ReopenFails
  \/ \E g \in Processes : Ready(g) \/ SaysRetired(g)
  \/ \E g \in Processes, s \in Sessions : Update(g, s)
  \/ \E s \in Sessions : ForgetSession(s)
  \/ Healthy

Spec == Init /\ [][Next]_vars

-----------------------------------------------------------------------------
(* Properties.                                                             *)

\* One worker process per directory, never two (worker-pool.ts:2,
\* architecture.md:181): whatever callers, timers, crashes and retirements do
\* between the awaits of a spawn, no process is there beside another one.
NeverTwoWorkers == Cardinality(Present) <= 1

\* The same of the processes the pool still holds a pipe to; FaultGeneration
\* breaks the pipe of one that it leaves to wind up by itself.
OneConnectedWorker ==
  Cardinality({g \in Present : link[g] # "broken"}) <= 1

\* A recovery timer is armed only for a worker that is gone: an explicit get,
\* stop or restart has taken it over, so it never replaces a live worker.
RetryIsForTheDead == retry => client = NoProcess

\* An exit the pool asked for is never taken for a crash: it spends no
\* automatic attempt and arms no retry.
PurposeIsNoCrash ==
  [][\A g \in Processes :
       stopped = g /\ process'[g] = "gone" => ~retry' /\ attempts' = attempts]_vars

\* Once the host is closing no process is made, whichever await a spawn was in.
ClosedStartsNothing ==
  [][closed => \A g \in Processes :
       process[g] = "gone" => process'[g] = "gone"]_vars

=============================================================================
