-------------------------- MODULE WorkerPoolProofs --------------------------
(***************************************************************************)
(* Theorems about WorkerPool for any callers, processes, sessions and      *)
(* number of attempts.                                                     *)
(*                                                                         *)
(* The process that is connected is the entry's client (Connected), and a  *)
(* client whose pipe has ended is being waited for (Ended).  get and the   *)
(* spawn begin nothing while a process is waited for, so a start finds no  *)
(* client, and it takes the armed retry over (Starting); an end that is    *)
(* waited for was wanted (Wanted).                                         *)
(***************************************************************************)
EXTENDS WorkerPool, FiniteSetTheorems, TLAPS

\* The process the pool holds a pipe to is its client, and the only one.
Connected ==
  \A g \in Processes : (g \in Present /\ link[g] # "broken") <=> client = g

\* A client whose pipe the host has ended is the one whose end is awaited.
Ended == client # NoProcess => link[client] = "open" \/ stopped = client

\* A process whose end is awaited is still there, and the pool knows it wanted
\* this end.
Wanted ==
  stopped # NoProcess =>
    /\ stopping /\ ~retry
    /\ process[stopped] # "gone"
    /\ client \in {stopped, NoProcess}

\* A start that has made no process yet found none and replaced every retry.
Starting == spawning \in {"held", "trust"} => client = NoProcess /\ ~retry

Safe == Connected /\ Ended /\ Wanted /\ Starting /\ RetryIsForTheDead

IInv == TypeOK /\ Safe

-----------------------------------------------------------------------------
\* The types of the callers and of the spawn, which most actions move alone.
PCs == {"idle", "queued", "sharing", "shadowing", "preparing", "asking",
        "deferring", "stopping", "stopDone", "loading", "reopenFailed"}
Goals == {"get", "stop", "restart", "reopen"}
Repairs == {"none", "available", "exhausted"}

CallsOK ==
  /\ pc \in [Actors -> PCs]
  /\ goal \in [Actors -> Goals]
  /\ paths \in [Actors -> SUBSET Sessions]
  /\ saved \in Repairs

SpawnOK ==
  /\ spawning \in {"none", "held", "trust", "ready", "prime"}
  /\ spawned \in Processes \cup {NoProcess}
  /\ (spawned # NoProcess) <=> (spawning \in {"ready", "prime"})

\* Callers that move on keep their types.
LEMMA CallsType ==
  ASSUME CallsOK, NEW pcs \in [Actors -> PCs], NEW goals \in [Actors -> Goals],
         NEW kept \in [Actors -> SUBSET Sessions], Calls(pcs, goals, kept)
  PROVE  CallsOK'
BY DEF CallsOK, Calls, Goals, Repairs

\* So do they when one of them goes on,
LEMMA GoType ==
  ASSUME CallsOK, NEW a \in Actors, NEW to \in PCs, Go(a, to)
  PROVE  CallsOK'
<1>1. [pc EXCEPT ![a] = to] \in [Actors -> PCs]
  BY DEF CallsOK
<1>2. QED
  BY <1>1, CallsType DEF Go, CallsOK

\* or begins to wait for a retirement,
LEMMA BeginType ==
  ASSUME CallsOK, NEW a \in Actors, NEW to \in PCs, NEW why \in Goals,
         NEW kept \in SUBSET Sessions, Begin(a, to, why, kept)
  PROVE  CallsOK'
<1>1. /\ [pc EXCEPT ![a] = to] \in [Actors -> PCs]
      /\ [goal EXCEPT ![a] = why] \in [Actors -> Goals]
      /\ [paths EXCEPT ![a] = kept] \in [Actors -> SUBSET Sessions]
  BY DEF CallsOK
<1>2. QED
  BY <1>1, CallsType DEF Begin

\* or the spawn they share is over:
LEMMA AfterSpawnType ==
  ASSUME NEW calls \in [Actors -> PCs], NEW ok \in BOOLEAN
  PROVE  AfterSpawn(ok, calls) \in [Actors -> PCs]
BY DEF AfterSpawn, PCs

\* it leaves no process of its own behind.
LEMMA SpawnOverType ==
  ASSUME CallsOK, NEW ok \in BOOLEAN, SpawnOver(ok)
  PROVE  CallsOK' /\ SpawnOK'
<1>1. AfterSpawn(ok, pc) \in [Actors -> PCs]
  BY AfterSpawnType DEF CallsOK
<1>2. CallsOK'
  BY <1>1, CallsType DEF SpawnOver, CallsOK
<1>3. QED
  BY <1>2 DEF SpawnOver, SpawnOK

\* Those who await the end of a process go on to a pc.
LEMMA ReleasedType ==
  ASSUME CallsOK, NEW g
  PROVE  Released(g) \in [Actors -> PCs]
BY DEF Released, CallsOK, PCs

\* A spawn whose process is lost ends with it.
LEMMA SpawnLosesType ==
  ASSUME CallsOK, SpawnOK, NEW g, NEW calls \in [Actors -> PCs],
         SpawnLoses(g, calls)
  PROVE  /\ CallsOK' /\ SpawnOK'
         /\ spawning' \in {spawning, "none"}
<1>1. CASE spawning = "ready" /\ spawned = g
  <2>1. AfterSpawn(FALSE, calls) \in [Actors -> PCs]
    BY AfterSpawnType
  <2>2. Calls(AfterSpawn(FALSE, calls), goal, paths)
    BY <1>1 DEF SpawnLoses
  <2>3. CallsOK'
    BY <2>1, <2>2, CallsType DEF CallsOK
  <2>4. QED
    BY <1>1, <2>3 DEF SpawnLoses, SpawnOK
<1>2. CASE ~(spawning = "ready" /\ spawned = g)
  <2>1. Calls(calls, goal, paths) /\ UNCHANGED spawnVars
    BY <1>2 DEF SpawnLoses
  <2>2. CallsOK'
    BY <2>1, CallsType DEF CallsOK
  <2>3. QED
    BY <2>1, <2>2 DEF SpawnOK, spawnVars
<1>3. QED
  BY <1>1, <1>2

\* TypeOK is made of the types of callers and of the spawn,
LEMMA TypesNow == TypeOK => CallsOK /\ SpawnOK
BY DEF TypeOK, CallsOK, SpawnOK, PCs, Goals, Repairs

\* and of those of the entry and the processes.
LEMMA TypesNext ==
  ASSUME CallsOK', SpawnOK',
         client' \in Processes \cup {NoProcess},
         status' \in {"starting", "ready", "crashed", "retired"},
         warm' \in BOOLEAN, stopping' \in BOOLEAN,
         stopped' \in Processes \cup {NoProcess},
         open' \subseteq Sessions, retry' \in BOOLEAN, repair' \in Repairs,
         failed' \in BOOLEAN, attempts' \in 0..RetryLimit, closed' \in BOOLEAN,
         process' \in [Processes -> {"gone", "booting", "up", "killed"}],
         link' \in [Processes -> {"open", "ended", "broken"}]
  PROVE  TypeOK'
BY DEF TypeOK, CallsOK, SpawnOK, PCs, Goals, Repairs

\* No process was made, ended, or stopped being the client.
LEMMA SafeStays ==
  ASSUME IInv, UNCHANGED <<client, stopping, stopped, process, link>>,
         retry' = retry \/ ~retry',
         spawning' \notin {"held", "trust"} \/ spawning \in {"held", "trust"}
  PROVE  Safe'
BY DEF IInv, Safe, Connected, Present, Ended, Wanted, Starting,
  RetryIsForTheDead

\* A start finds no process: the one it would replace is not alive, so its pipe
\* has ended, so it is waited for, and then get goes no further.
LEMMA FreshStart ==
  ASSUME IInv, ~ClientAlive, stopped = NoProcess
  PROVE  client = NoProcess
BY DEF IInv, Safe, Ended, ClientAlive

\* The process a spawn makes is the client, and the only one connected.
LEMMA MakeProcessKeeps ==
  ASSUME IInv, MakeProcess, SpawnMayGoOn, client = NoProcess, ~retry,
         UNCHANGED <<stopped, retry>>
  PROVE  Safe' /\ SpawnOK' /\ client' \in Processes /\ stopping' = FALSE
           /\ process' \in [Processes -> {"gone", "booting", "up", "killed"}]
           /\ link' \in [Processes -> {"open", "ended", "broken"}]
<1>1. PICK g \in Processes :
        /\ process[g] = "gone"
        /\ process' = [process EXCEPT ![g] = "booting"]
        /\ link' = [link EXCEPT ![g] = "open"]
        /\ client' = g
        /\ spawned' = g
        /\ spawning' = "ready"
        /\ stopping' = FALSE
  BY DEF MakeProcess
<1>2. /\ process \in [Processes -> {"gone", "booting", "up", "killed"}]
      /\ link \in [Processes -> {"open", "ended", "broken"}]
  BY DEF IInv, TypeOK
<1>3. Connected'
  BY <1>1, <1>2, PoolAssumption DEF IInv, Safe, Connected, Present
<1>4. Ended' /\ Wanted' /\ Starting' /\ RetryIsForTheDead'
  BY <1>1, <1>2 DEF SpawnMayGoOn, Ended, Wanted, Starting, RetryIsForTheDead
<1>5. QED
  BY <1>1, <1>2, <1>3, <1>4, PoolAssumption DEF Safe, SpawnOK

\* retire() waits for the client's end, and wants it.
LEMMA StartRetireKeeps ==
  ASSUME IInv, NEW a \in Actors, NEW why \in Goals,
         NEW kept \in SUBSET Sessions, StartRetire(a, why, kept),
         UNCHANGED <<spawnVars, process>>
  PROVE  IInv'
<1>0. CallsOK /\ SpawnOK
  BY TypesNow DEF IInv
<1>1. PICK to \in PCs : Begin(a, to, why, kept)
  BY DEF StartRetire, PCs
<1>2. CallsOK' /\ SpawnOK'
  BY <1>0, <1>1, BeginType DEF SpawnOK, spawnVars
<1>3. CASE stopped # NoProcess
  <2>1. UNCHANGED <<entryVars, link>>
    BY <1>3 DEF StartRetire
  <2>2. TypeOK'
    BY <1>2, <2>1, TypesNext
    DEF IInv, TypeOK, Repairs, entryVars, recoveryVars
  <2>3. Safe'
    BY <2>1, SafeStays DEF entryVars, recoveryVars, spawnVars
  <2>4. QED
    BY <2>2, <2>3 DEF IInv
<1>4. CASE stopped = NoProcess /\ client = NoProcess
  <2>1. /\ stopping' = TRUE /\ retry' = FALSE /\ open' = {}
        /\ status' = "retired" /\ UNCHANGED <<stopped, link>>
        /\ UNCHANGED <<client, warm, repair, failed, attempts, closed>>
    BY <1>4 DEF StartRetire
  <2>2. TypeOK'
    BY <1>2, <2>1, TypesNext DEF IInv, TypeOK, Repairs
  <2>3. Safe'
    BY <1>4, <2>1
    DEF IInv, Safe, Connected, Present, Ended, Wanted, Starting,
      RetryIsForTheDead
  <2>4. QED
    BY <2>2, <2>3 DEF IInv
<1>5. CASE stopped = NoProcess /\ client # NoProcess
  <2>1. /\ stopping' = TRUE /\ retry' = FALSE /\ open' = {}
        /\ stopped' = client /\ status' = status
        /\ link' = [link EXCEPT ![client] = IF @ = "open" THEN "ended" ELSE @]
        /\ UNCHANGED <<client, warm, repair, failed, attempts, closed>>
    BY <1>5 DEF StartRetire
  <2>2. TypeOK'
    BY <1>2, <2>1, TypesNext DEF IInv, TypeOK, Repairs
  <2>3. /\ client \in Processes
        /\ link \in [Processes -> {"open", "ended", "broken"}]
    BY <1>5 DEF IInv, TypeOK
  <2>4. Connected'
    BY <2>1, <2>3 DEF IInv, Safe, Connected, Present
  <2>5. Wanted'
    BY <1>5, <2>1, <2>3 DEF IInv, Safe, Connected, Present, Wanted
  <2>6. Ended' /\ Starting' /\ RetryIsForTheDead'
    BY <1>5, <2>1
    DEF IInv, Safe, Ended, Starting, RetryIsForTheDead, spawnVars
  <2>7. QED
    BY <2>2, <2>4, <2>5, <2>6 DEF IInv, Safe
<1>6. QED
  BY <1>3, <1>4, <1>5

\* askToRetire() waits for an answer, or is retire().
LEMMA AskToRetireKeeps ==
  ASSUME IInv, NEW a \in Actors, NEW why \in Goals,
         NEW kept \in SUBSET Sessions, AskToRetire(a, why, kept),
         UNCHANGED <<spawnVars, process>>
  PROVE  IInv'
<1>1. CASE StartRetire(a, why, kept)
  BY <1>1, StartRetireKeeps
<1>2. CASE ~StartRetire(a, why, kept)
  <2>1. PICK to \in PCs : Begin(a, to, why, kept)
    BY <1>2 DEF AskToRetire, PCs
  <2>2. UNCHANGED <<entryVars, link>>
    BY <1>2 DEF AskToRetire
  <2>3. CallsOK' /\ SpawnOK'
    BY <2>1, BeginType, TypesNow DEF IInv, SpawnOK, spawnVars
  <2>4. TypeOK'
    BY <2>2, <2>3, TypesNext
    DEF IInv, TypeOK, Repairs, entryVars, recoveryVars
  <2>5. Safe'
    BY <2>2, SafeStays DEF entryVars, recoveryVars, spawnVars
  <2>6. QED
    BY <2>4, <2>5 DEF IInv
<1>3. QED
  BY <1>1, <1>2

\* What the pool makes of a process that is not there any more for it.
LEMMA OnExitMoves ==
  ASSUME IInv, NEW g \in Processes, NEW e \in BOOLEAN, OnExit(g, e)
  PROVE  /\ client' = IF client = g THEN NoProcess ELSE client
         /\ status' \in {"starting", "ready", "crashed", "retired"}
         /\ retry' \in BOOLEAN /\ repair' \in Repairs /\ failed' \in BOOLEAN
         /\ attempts' \in 0..RetryLimit
         /\ retry' # retry => client = g /\ ~stopping
         /\ stopping => attempts' = attempts
<1>1. CASE client # g
  BY <1>1 DEF OnExit, recoveryVars, IInv, TypeOK, Repairs
<1>2. CASE client = g /\ OnPurpose
  BY <1>2 DEF OnExit, IInv, TypeOK, Repairs
<1>3. CASE client = g /\ ~OnPurpose
  <2>1. Recover(e) /\ client' = NoProcess
    BY <1>3 DEF OnExit
  <2>2. attempts' \in 0..RetryLimit
    BY <2>1, PoolAssumption DEF Recover, IInv, TypeOK
  <2>3. retry' \in BOOLEAN /\ repair' \in Repairs
    BY <2>1, <2>2 DEF Recover, RepairStatus, Repairs
  <2>4. QED
    BY <1>3, <2>1, <2>2, <2>3 DEF Recover, OnPurpose
<1>4. QED
  BY <1>1, <1>2, <1>3

\* The connected process the pool gives up is not its client any more.
LEMMA GivenUp ==
  ASSUME IInv, NEW g \in Processes,
         client' = (IF client = g THEN NoProcess ELSE client),
         retry' # retry => client = g /\ ~stopping,
         retry' \in BOOLEAN,
         stopping' = stopping, spawning' \in {spawning, "none"},
         stopped' = (IF stopped = g THEN stopped' ELSE stopped),
         stopped' \in {stopped, NoProcess},
         \A x \in Processes :
           x # g => process'[x] = process[x] /\ link'[x] = link[x],
         g \notin Present' \/ link'[g] = "broken",
         process'[g] # "gone" \/ stopped' # g
  PROVE  Safe'
<1>1. Connected'
  BY PoolAssumption DEF IInv, Safe, Connected, Present
<1>2. Ended'
  BY DEF IInv, TypeOK, Safe, Ended
<1>3. Wanted'
  BY DEF IInv, TypeOK, Safe, Wanted
<1>4. Starting' /\ RetryIsForTheDead'
  BY PoolAssumption DEF IInv, Safe, Starting, RetryIsForTheDead
<1>5. QED
  BY <1>1, <1>2, <1>3, <1>4 DEF Safe

\* No process, no spawn and nobody waiting at first.
LEMMA InitInv == Init => IInv
<1> SUFFICES ASSUME Init PROVE IInv
  OBVIOUS
<1>1. TypeOK
  <2>1. CallsOK
    BY DEF Init, CallsOK, PCs, Goals, Repairs
  <2>2. SpawnOK
    BY DEF Init, SpawnOK
  <2>3. attempts \in 0..RetryLimit /\ repair \in Repairs
    BY PoolAssumption DEF Init, Repairs
  <2>4. process \in [Processes -> {"gone", "booting", "up", "killed"}]
          /\ link \in [Processes -> {"open", "ended", "broken"}]
    BY DEF Init
  <2> QED
    BY <2>1, <2>2, <2>3, <2>4 DEF Init, TypeOK
<1>2. Safe
  BY PoolAssumption
  DEF Init, Safe, Connected, Present, Ended, Wanted, Starting,
    RetryIsForTheDead
<1>3. QED
  BY <1>1, <1>2 DEF IInv

\* Every action keeps the invariant.
LEMMA NextInv == IInv /\ [Next]_vars => IInv'
<1> SUFFICES ASSUME IInv, [Next]_vars PROVE IInv'
  OBVIOUS
<1>0. CallsOK /\ SpawnOK
  BY TypesNow DEF IInv
<1>1. ASSUME NEW c \in Callers, Get(c) PROVE IInv'
  <2>0. c \in Actors
    BY DEF Actors
  <2>1. PICK to \in PCs : Go(c, to)
    BY <1>1 DEF Get, PCs
  <2>2. CallsOK'
    BY <1>1, <1>0, <2>0, <2>1, GoType DEF Get
  <2>3. TypeOK'
    BY <1>1, <1>0, <2>2, TypesNext
    DEF Get, IInv, TypeOK, SpawnOK, Repairs, entryVars, recoveryVars,
      spawnVars, worldVars
  <2>4. Safe'
    BY <1>1, SafeStays DEF Get, entryVars, recoveryVars, spawnVars, worldVars
  <2> QED
    BY <2>3, <2>4 DEF IInv
<1>2. ASSUME NEW c \in Callers, Prepare(c) PROVE IInv'
  <2>1. PICK to \in PCs : Go(c, to)
    BY <1>2 DEF Prepare, PCs
  <2>0. c \in Actors
    BY DEF Actors
  <2>2. CallsOK'
    BY <1>2, <1>0, <2>0, <2>1, GoType DEF Prepare
  <2>3. SpawnOK'
    BY <1>2, <1>0 DEF Prepare, PrepareMay, SpawnOK
  <2>4. TypeOK'
    BY <1>2, <2>2, <2>3, TypesNext
    DEF Prepare, IInv, TypeOK, Repairs, worldVars, recoveryVars
  <2>5. client = NoProcess
    BY <1>2, FreshStart DEF Prepare, PrepareMay
  <2>6. Safe'
    BY <1>2, <2>5
    DEF Prepare, PrepareMay, IInv, Safe, Connected, Present, Ended, Wanted,
      Starting, RetryIsForTheDead, worldVars, recoveryVars
  <2> QED
    BY <2>4, <2>6 DEF IInv
<1>3. ASSUME NEW c \in Callers, DiscardPrepared(c) PROVE IInv'
  <2>1. c \in Actors /\ "stop" \in Goals /\ {} \in SUBSET Sessions
    BY <1>0 DEF Actors, Goals
  <2> QED
    BY <1>3, <2>1, StartRetireKeeps DEF DiscardPrepared
<1>4. ASSUME NEW c \in Callers, Stop(c) PROVE IInv'
  <2>1. c \in Actors /\ "stop" \in Goals /\ {} \in SUBSET Sessions
    BY <1>0 DEF Actors, Goals
  <2> QED
    BY <1>4, <2>1, AskToRetireKeeps DEF Stop
<1>5. ASSUME NEW c \in Callers, Restart(c) PROVE IInv'
  <2>1. c \in Actors /\ "restart" \in Goals /\ open \in SUBSET Sessions
    BY DEF Actors, Goals, IInv, TypeOK
  <2>2. CASE ClientAlive \/ stopped # NoProcess
    BY <1>5, <2>1, <2>2, AskToRetireKeeps DEF Restart
  <2>3. CASE ~(ClientAlive \/ stopped # NoProcess)
    <3>1. CallsOK' /\ SpawnOK'
      BY <1>5, <1>0, <2>1, <2>3, BeginType
      DEF Restart, PCs, SpawnOK, spawnVars
    <3>2. TypeOK'
      BY <1>5, <2>3, <3>1, TypesNext DEF Restart, IInv, TypeOK, Repairs
    <3>3. Safe'
      BY <1>5, <2>3, SafeStays DEF Restart, spawnVars
    <3> QED
      BY <3>2, <3>3 DEF IInv
  <2> QED
    BY <2>2, <2>3
<1>6. ASSUME PrepareFindsNoRoom PROVE IInv'
  <2>1. TypeOK'
    BY <1>6, <1>0
    DEF PrepareFindsNoRoom, IInv, TypeOK, recoveryVars, spawnVars, worldVars,
      callVars
  <2>2. Safe'
    BY <1>6, SafeStays
    DEF PrepareFindsNoRoom, recoveryVars, spawnVars, worldVars
  <2> QED
    BY <2>1, <2>2 DEF IInv
<1>7. ASSUME NEW a \in Actors, GetShares(a) PROVE IInv'
  <2>1. PICK to \in PCs : Go(a, to)
    BY <1>7 DEF GetShares, PCs
  <2>2. CallsOK'
    BY <1>7, <1>0, <2>1, GoType DEF GetShares
  <2>3. TypeOK'
    BY <1>7, <1>0, <2>2, TypesNext
    DEF GetShares, IInv, TypeOK, SpawnOK, Repairs, entryVars, recoveryVars,
      spawnVars, worldVars
  <2>4. Safe'
    BY <1>7, SafeStays
    DEF GetShares, entryVars, recoveryVars, spawnVars, worldVars
  <2> QED
    BY <2>3, <2>4 DEF IInv
<1>8. ASSUME NEW a \in Actors, GetTakes(a) PROVE IInv'
  <2>1. PICK to \in PCs : Go(a, to)
    BY <1>8 DEF GetTakes, PCs
  <2>2. CallsOK'
    BY <1>8, <1>0, <2>1, GoType DEF GetTakes
  <2>3. TypeOK'
    BY <1>8, <1>0, <2>2, TypesNext
    DEF GetTakes, IInv, TypeOK, SpawnOK, Repairs, recoveryVars, spawnVars,
      worldVars
  <2>4. Safe'
    BY <1>8, SafeStays DEF GetTakes, recoveryVars, spawnVars, worldVars
  <2> QED
    BY <2>3, <2>4 DEF IInv
<1>9. ASSUME NEW a \in Actors, GetRefused(a) PROVE IInv'
  <2>1. PICK to \in PCs : Go(a, to)
    BY <1>9 DEF GetRefused, PCs
  <2>2. CallsOK'
    BY <1>9, <1>0, <2>1, GoType DEF GetRefused
  <2>3. TypeOK'
    BY <1>9, <1>0, <2>2, TypesNext
    DEF GetRefused, IInv, TypeOK, SpawnOK, Repairs, recoveryVars, spawnVars,
      worldVars
  <2>4. Safe'
    BY <1>9, SafeStays DEF GetRefused, recoveryVars, spawnVars, worldVars
  <2> QED
    BY <2>3, <2>4 DEF IInv
<1>10. ASSUME NEW a \in Actors, GetSpawns(a) PROVE IInv'
  <2>1. PICK to \in PCs : Go(a, to)
    BY <1>10 DEF GetSpawns, PCs
  <2>2. CallsOK'
    BY <1>10, <1>0, <2>1, GoType DEF GetSpawns
  <2>3. SpawnOK'
    BY <1>10, <1>0 DEF GetSpawns, SpawnOK
  <2>4. TypeOK'
    BY <1>10, <2>2, <2>3, TypesNext
    DEF GetSpawns, IInv, TypeOK, Repairs, worldVars
  <2>5. client = NoProcess
    BY <1>10, FreshStart DEF GetSpawns, Unowned
  <2>6. Safe'
    BY <1>10, <2>5
    DEF GetSpawns, IInv, Safe, Connected, Present, Ended, Wanted, Starting,
      RetryIsForTheDead, worldVars
  <2> QED
    BY <2>4, <2>6 DEF IInv
<1>11. ASSUME NEW a \in Actors, GetFindsNoRoom(a) PROVE IInv'
  <2>1. PICK to \in PCs : Go(a, to)
    BY <1>11 DEF GetFindsNoRoom, PCs
  <2>2. CallsOK'
    BY <1>11, <1>0, <2>1, GoType DEF GetFindsNoRoom
  <2>3. TypeOK'
    BY <1>11, <1>0, <2>2, TypesNext
    DEF GetFindsNoRoom, IInv, TypeOK, SpawnOK, Repairs, spawnVars, worldVars
  <2>4. Safe'
    BY <1>11, SafeStays DEF GetFindsNoRoom, spawnVars, worldVars
  <2> QED
    BY <2>3, <2>4 DEF IInv
<1>12. ASSUME NEW a \in Actors, GetDistrusts(a) PROVE IInv'
  <2>1. goal[a] \in Goals /\ paths[a] \in SUBSET Sessions
    BY <1>0 DEF CallsOK
  <2>2. CASE Unused
    BY <1>12, <2>1, <2>2, StartRetireKeeps DEF GetDistrusts
  <2>3. CASE ~Unused
    <3>1. PICK to \in PCs : Go(a, to)
      BY <1>12, <2>3 DEF GetDistrusts, PCs
    <3>2. CallsOK' /\ SpawnOK'
      BY <1>12, <1>0, <3>1, GoType DEF GetDistrusts, SpawnOK, spawnVars
    <3>3. TypeOK'
      BY <1>12, <2>3, <3>2, TypesNext
      DEF GetDistrusts, IInv, TypeOK, Repairs, entryVars, recoveryVars
    <3>4. Safe'
      BY <1>12, <2>3, SafeStays
      DEF GetDistrusts, entryVars, recoveryVars, spawnVars
    <3> QED
      BY <3>3, <3>4 DEF IInv
  <2> QED
    BY <2>2, <2>3
<1>13. ASSUME NEW t \in BOOLEAN, SpawnHeld(t) PROVE IInv'
  <2>0. client = NoProcess /\ ~retry
    BY <1>13 DEF SpawnHeld, IInv, Safe, Starting
  <2>1. CASE ~SpawnMayGoOn
    <3>1. SpawnOver(FALSE) /\ UNCHANGED <<entryVars, worldVars>>
      BY <1>13, <2>1 DEF SpawnHeld
    <3>2. TypeOK'
      BY <1>0, <3>1, SpawnOverType, TypesNext
      DEF IInv, TypeOK, Repairs, entryVars, recoveryVars, worldVars
    <3>3. Safe'
      BY <3>1, SafeStays DEF SpawnOver, entryVars, recoveryVars, worldVars
    <3> QED
      BY <3>2, <3>3 DEF IInv
  <2>2. CASE SpawnMayGoOn /\ ~warm
    <3>1. /\ failed' = FALSE /\ status' = "starting" /\ spawning' = "trust"
          /\ UNCHANGED <<client, stopping, spawned, worldVars, callVars, warm,
                         stopped, open, retry, repair, attempts, closed>>
      BY <1>13, <2>2 DEF SpawnHeld
    <3>2. CallsOK' /\ SpawnOK'
      BY <1>13, <1>0, <3>1 DEF SpawnHeld, CallsOK, SpawnOK, callVars
    <3>3. TypeOK'
      BY <3>1, <3>2, TypesNext DEF IInv, TypeOK, Repairs, worldVars
    <3>4. Safe'
      BY <1>13, <3>1, SafeStays DEF SpawnHeld, worldVars
    <3> QED
      BY <3>3, <3>4 DEF IInv
  <2>3. CASE SpawnMayGoOn /\ warm /\ t
    <3>1. /\ failed' = FALSE /\ status' = "starting"
          /\ MakeProcess
          /\ UNCHANGED <<callVars, warm, stopped, open, retry, repair, attempts,
                         closed>>
      BY <1>13, <2>3 DEF SpawnHeld
    <3>2. Safe' /\ SpawnOK' /\ client' \in Processes /\ stopping' = FALSE
            /\ process' \in [Processes -> {"gone", "booting", "up", "killed"}]
            /\ link' \in [Processes -> {"open", "ended", "broken"}]
      BY <2>0, <2>3, <3>1, MakeProcessKeeps
    <3>3. CallsOK'
      BY <1>0, <3>1 DEF CallsOK, callVars
    <3>4. TypeOK'
      BY <3>1, <3>2, <3>3, TypesNext DEF IInv, TypeOK, Repairs
    <3> QED
      BY <3>2, <3>4 DEF IInv
  <2>4. CASE SpawnMayGoOn /\ warm /\ ~t
    <3>1. /\ failed' = FALSE /\ status' = "starting"
          /\ SpawnOver(FALSE)
          /\ UNCHANGED <<client, stopping, worldVars, warm, stopped, open, retry,
                         repair, attempts, closed>>
      BY <1>13, <2>4 DEF SpawnHeld
    <3>2. TypeOK'
      BY <1>0, <3>1, SpawnOverType, TypesNext
      DEF IInv, TypeOK, Repairs, worldVars
    <3>3. Safe'
      BY <3>1, SafeStays DEF SpawnOver, worldVars
    <3> QED
      BY <3>2, <3>3 DEF IInv
  <2> QED
    BY <2>1, <2>2, <2>3, <2>4
<1>14. ASSUME NEW t \in BOOLEAN, SpawnTrust(t) PROVE IInv'
  <2>0. client = NoProcess /\ ~retry
    BY <1>14 DEF SpawnTrust, IInv, Safe, Starting
  <2>1. CASE t /\ SpawnMayGoOn
    <3>1. /\ MakeProcess
          /\ UNCHANGED <<status, callVars, warm, stopped, open, recoveryVars,
                         closed>>
      BY <1>14, <2>1 DEF SpawnTrust
    <3>2. Safe' /\ SpawnOK' /\ client' \in Processes /\ stopping' = FALSE
            /\ process' \in [Processes -> {"gone", "booting", "up", "killed"}]
            /\ link' \in [Processes -> {"open", "ended", "broken"}]
      BY <2>0, <2>1, <3>1, MakeProcessKeeps DEF recoveryVars
    <3>3. CallsOK'
      BY <1>0, <3>1 DEF CallsOK, callVars
    <3>4. TypeOK'
      BY <3>1, <3>2, <3>3, TypesNext DEF IInv, TypeOK, Repairs, recoveryVars
    <3> QED
      BY <3>2, <3>4 DEF IInv
  <2>2. CASE ~(t /\ SpawnMayGoOn)
    <3>1. /\ SpawnOver(FALSE)
          /\ status' = IF t THEN status ELSE "crashed"
          /\ UNCHANGED <<client, stopping, worldVars, warm, stopped, open,
                         recoveryVars, closed>>
      BY <1>14, <2>2 DEF SpawnTrust
    <3>2. TypeOK'
      BY <1>0, <3>1, SpawnOverType, TypesNext
      DEF IInv, TypeOK, Repairs, worldVars, recoveryVars
    <3>3. Safe'
      BY <3>1, SafeStays DEF SpawnOver, worldVars, recoveryVars
    <3> QED
      BY <3>2, <3>3 DEF IInv
  <2> QED
    BY <2>1, <2>2
<1>15. ASSUME SpawnPrimed PROVE IInv'
  <2>1. TypeOK'
    BY <1>15, <1>0, SpawnOverType, TypesNext
    DEF SpawnPrimed, IInv, TypeOK, Repairs, entryVars, recoveryVars, worldVars
  <2>2. Safe'
    BY <1>15, SafeStays
    DEF SpawnPrimed, SpawnOver, entryVars, recoveryVars, worldVars
  <2> QED
    BY <2>1, <2>2 DEF IInv
<1>16. ASSUME NEW a \in Actors, Agreed(a) PROVE IInv'
  <2>1. goal[a] \in Goals /\ paths[a] \in SUBSET Sessions
    BY <1>0 DEF CallsOK
  <2> QED
    BY <1>16, <2>1, StartRetireKeeps DEF Agreed
<1>17. ASSUME NEW a \in Actors, Refused(a) PROVE IInv'
  <2>1. PICK to \in PCs : Go(a, to)
    BY <1>17 DEF Refused, PCs
  <2>2. CallsOK'
    BY <1>17, <1>0, <2>1, GoType DEF Refused
  <2>3. TypeOK'
    BY <1>17, <1>0, <2>2, TypesNext
    DEF Refused, IInv, TypeOK, SpawnOK, Repairs, entryVars, recoveryVars,
      spawnVars, worldVars
  <2>4. Safe'
    BY <1>17, SafeStays
    DEF Refused, entryVars, recoveryVars, spawnVars, worldVars
  <2> QED
    BY <2>3, <2>4 DEF IInv
<1>18. ASSUME NEW a \in Actors, Deferred(a) PROVE IInv'
  <2>1. PICK to \in PCs : Go(a, to)
    BY <1>18 DEF Deferred, PCs
  <2>2. CallsOK'
    BY <1>18, <1>0, <2>1, GoType DEF Deferred
  <2>3. TypeOK'
    BY <1>18, <1>0, <2>2, TypesNext
    DEF Deferred, IInv, TypeOK, SpawnOK, Repairs, entryVars, recoveryVars,
      spawnVars, worldVars
  <2>4. Safe'
    BY <1>18, SafeStays
    DEF Deferred, entryVars, recoveryVars, spawnVars, worldVars
  <2> QED
    BY <2>3, <2>4 DEF IInv
<1>19. ASSUME NEW a \in Actors, StopDone(a) PROVE IInv'
  <2>1. attempts' \in 0..RetryLimit
    <3>1. 0 \in 0..RetryLimit /\ attempts \in 0..RetryLimit
      BY PoolAssumption DEF IInv, TypeOK
    <3> QED
      BY <1>19, <3>1 DEF StopDone
  <2>2. repair' \in Repairs /\ failed' \in BOOLEAN
    BY <1>19 DEF StopDone, IInv, TypeOK, Repairs
  <2>3. CallsOK' /\ SpawnOK'
    BY <1>19, <1>0, GoType DEF StopDone, PCs, SpawnOK, spawnVars
  <2>4. TypeOK'
    BY <1>19, <2>1, <2>2, <2>3, TypesNext
    DEF StopDone, IInv, TypeOK, worldVars
  <2>5. Safe'
    BY <1>19, SafeStays DEF StopDone, spawnVars, worldVars
  <2> QED
    BY <2>4, <2>5 DEF IInv
<1>20. ASSUME NEW a \in Actors, NEW ok \in SUBSET Sessions, Loaded(a, ok)
       PROVE  IInv'
  <2>1. CallsOK' /\ SpawnOK'
    BY <1>20, <1>0, GoType DEF Loaded, PCs, SpawnOK, spawnVars
  <2>2. TypeOK'
    BY <1>20, <2>1, TypesNext
    DEF Loaded, IInv, TypeOK, Repairs, recoveryVars, worldVars
  <2>3. Safe'
    BY <1>20, SafeStays DEF Loaded, recoveryVars, spawnVars, worldVars
  <2> QED
    BY <2>2, <2>3 DEF IInv
<1>21. ASSUME StopAll PROVE IInv'
  <2>1. CallsOK' /\ SpawnOK'
    BY <1>21, <1>0 DEF StopAll, CallsOK, SpawnOK, spawnVars, callVars
  <2>2. TypeOK'
    BY <1>21, <2>1, TypesNext DEF StopAll, IInv, TypeOK, Repairs
  <2>3. link \in [Processes -> {"open", "ended", "broken"}]
          /\ client \in Processes \cup {NoProcess}
    BY DEF IInv, TypeOK
  <2>4. Connected'
    BY <1>21, <2>3 DEF StopAll, IInv, Safe, Connected, Present
  <2>5. Ended' /\ Wanted'
    BY <1>21, <2>3 DEF StopAll, IInv, Safe, Connected, Present, Ended, Wanted
  <2>6. Starting' /\ RetryIsForTheDead'
    BY <1>21 DEF StopAll, IInv, Safe, Starting, RetryIsForTheDead, spawnVars
  <2> QED
    BY <2>2, <2>4, <2>5, <2>6 DEF IInv, Safe
<1>22. ASSUME NEW g \in Processes, NEW e \in BOOLEAN, Exit(g, e) PROVE IInv'
  <2>1. /\ client' = IF client = g THEN NoProcess ELSE client
        /\ status' \in {"starting", "ready", "crashed", "retired"}
        /\ retry' \in BOOLEAN /\ repair' \in Repairs /\ failed' \in BOOLEAN
        /\ attempts' \in 0..RetryLimit
        /\ retry' # retry => client = g /\ ~stopping
    <3>1. CASE link[g] = "broken"
      BY <1>22, <3>1
      DEF Exit, IInv, TypeOK, Safe, Connected, Repairs, recoveryVars
    <3>2. CASE link[g] # "broken"
      BY <1>22, <3>2, OnExitMoves DEF Exit
    <3> QED
      BY <3>1, <3>2
  <2>2. CallsOK' /\ SpawnOK' /\ spawning' \in {spawning, "none"}
    BY <1>22, <1>0, ReleasedType, SpawnLosesType DEF Exit
  <2>3. /\ process' \in [Processes -> {"gone", "booting", "up", "killed"}]
        /\ link' \in [Processes -> {"open", "ended", "broken"}]
        /\ process'[g] = "gone"
        /\ \A x \in Processes : x # g =>
             process'[x] = process[x] /\ link'[x] = link[x]
    BY <1>22 DEF Exit, IInv, TypeOK
  <2>4. stopped' \in {stopped, NoProcess} /\ stopped' # g
    BY <1>22, PoolAssumption DEF Exit
  <2>5. TypeOK'
    BY <1>22, <2>1, <2>2, <2>3, <2>4, TypesNext DEF Exit, IInv, TypeOK
  <2>6. Safe'
    BY <1>22, <2>1, <2>2, <2>3, <2>4, GivenUp DEF Exit, Present
  <2> QED
    BY <2>5, <2>6 DEF IInv
<1>23. ASSUME KillAfterGrace PROVE IInv'
  <2>0. stopped \in Processes
    BY <1>23 DEF KillAfterGrace, IInv, TypeOK
  <2>2. Calls(Released(stopped), goal, paths)
    BY <1>23 DEF KillAfterGrace
  <2>3. CallsOK' /\ SpawnOK'
    BY <1>23, <1>0, <2>2, ReleasedType, CallsType
    DEF KillAfterGrace, CallsOK, SpawnOK, spawnVars
  <2>4. TypeOK'
    BY <1>23, <2>0, <2>3, TypesNext
    DEF KillAfterGrace, IInv, TypeOK, Repairs, recoveryVars
  <2>5. /\ client' = IF client = stopped THEN NoProcess ELSE client
        /\ retry' = retry /\ stopping' = stopping /\ spawning' = spawning
        /\ stopped' = NoProcess /\ link'[stopped] = "broken"
        /\ \A x \in Processes : x # stopped =>
             process'[x] = process[x] /\ link'[x] = link[x]
    BY <1>23, <2>0 DEF KillAfterGrace, IInv, TypeOK, recoveryVars, spawnVars
  <2>6. Safe'
    BY <2>0, <2>5, GivenUp, PoolAssumption DEF IInv, TypeOK
  <2> QED
    BY <2>4, <2>6 DEF IInv
<1>24. ASSUME NEW g \in Processes, FaultLaunch(g) PROVE IInv'
  <2>1. /\ client' = IF client = g THEN NoProcess ELSE client
        /\ status' \in {"starting", "ready", "crashed", "retired"}
        /\ retry' \in BOOLEAN /\ repair' \in Repairs /\ failed' \in BOOLEAN
        /\ attempts' \in 0..RetryLimit
        /\ retry' # retry => client = g /\ ~stopping
    BY <1>24, OnExitMoves DEF FaultLaunch
  <2>2. CallsOK' /\ SpawnOK' /\ spawning' \in {spawning, "none"}
    <3>1. pc \in [Actors -> PCs] /\ SpawnLoses(g, pc)
      BY <1>24, <1>0 DEF FaultLaunch, CallsOK
    <3> QED
      BY <1>0, <3>1, SpawnLosesType
  <2>3. /\ process' \in [Processes -> {"gone", "booting", "up", "killed"}]
        /\ link' \in [Processes -> {"open", "ended", "broken"}]
        /\ process'[g] # "gone" /\ link'[g] = "broken"
        /\ \A x \in Processes : x # g =>
             process'[x] = process[x] /\ link'[x] = link[x]
    BY <1>24 DEF FaultLaunch, IInv, TypeOK
  <2>4. TypeOK'
    BY <1>24, <2>1, <2>2, <2>3, TypesNext DEF FaultLaunch, IInv, TypeOK
  <2>5. Safe'
    BY <1>24, <2>1, <2>2, <2>3, GivenUp DEF FaultLaunch
  <2> QED
    BY <2>4, <2>5 DEF IInv
<1>25. ASSUME NEW g \in Processes, FaultGeneration(g) PROVE IInv'
  <2>1. /\ client' = IF client = g THEN NoProcess ELSE client
        /\ status' \in {"starting", "ready", "crashed", "retired"}
        /\ retry' \in BOOLEAN /\ repair' \in Repairs /\ failed' \in BOOLEAN
        /\ attempts' \in 0..RetryLimit
        /\ retry' # retry => client = g /\ ~stopping
    BY <1>25, OnExitMoves DEF FaultGeneration
  <2>2. CallsOK' /\ SpawnOK' /\ spawning' \in {spawning, "none"}
    <3>1. pc \in [Actors -> PCs] /\ SpawnLoses(g, pc)
      BY <1>25, <1>0 DEF FaultGeneration, CallsOK
    <3> QED
      BY <1>0, <3>1, SpawnLosesType
  <2>3. /\ process' \in [Processes -> {"gone", "booting", "up", "killed"}]
        /\ link' \in [Processes -> {"open", "ended", "broken"}]
        /\ process'[g] # "gone" /\ link'[g] = "broken"
        /\ \A x \in Processes : x # g =>
             process'[x] = process[x] /\ link'[x] = link[x]
    BY <1>25 DEF FaultGeneration, IInv, TypeOK
  <2>4. TypeOK'
    BY <1>25, <2>1, <2>2, <2>3, TypesNext DEF FaultGeneration, IInv, TypeOK
  <2>5. Safe'
    BY <1>25, <2>1, <2>2, <2>3, GivenUp DEF FaultGeneration
  <2> QED
    BY <2>4, <2>5 DEF IInv
<1>26. ASSUME Reopen PROVE IInv'
  <2>1. CallsOK' /\ SpawnOK' /\ repair' \in Repairs
    BY <1>26, <1>0
    DEF Reopen, IInv, TypeOK, CallsOK, SpawnOK, PCs, Goals, Repairs, callVars,
      spawnVars
  <2>2. TypeOK'
    BY <1>26, <2>1, TypesNext DEF Reopen, IInv, TypeOK, worldVars
  <2>3. Safe'
    BY <1>26, SafeStays DEF Reopen, spawnVars, worldVars
  <2> QED
    BY <2>2, <2>3 DEF IInv
<1>27. ASSUME ReopenFails PROVE IInv'
  <2>0. Timer \in Actors
    BY DEF Actors
  <2>1. PICK to \in PCs : Go(Timer, to)
    BY <1>27 DEF ReopenFails, PCs
  <2>2. CallsOK'
    BY <1>27, <1>0, <2>0, <2>1, GoType DEF ReopenFails
  <2>3. TypeOK'
    BY <1>27, <1>0, <2>2, TypesNext
    DEF ReopenFails, IInv, TypeOK, SpawnOK, Repairs, spawnVars, worldVars
  <2>4. Safe'
    BY <1>27, SafeStays DEF ReopenFails, spawnVars, worldVars
  <2> QED
    BY <2>3, <2>4 DEF IInv
<1>28. ASSUME NEW g \in Processes, Ready(g) PROVE IInv'
  <2>1. CallsOK' /\ SpawnOK'
    BY <1>28, <1>0 DEF Ready, CallsOK, SpawnOK, callVars
  <2>2. /\ failed' \in BOOLEAN /\ repair' \in Repairs
        /\ status' \in {"starting", "ready", "crashed", "retired"}
        /\ process' \in [Processes -> {"gone", "booting", "up", "killed"}]
    BY <1>28 DEF Ready, IInv, TypeOK, RepairStatus, Repairs
  <2>3. TypeOK'
    BY <1>28, <2>1, <2>2, TypesNext DEF Ready, IInv, TypeOK
  <2>4. Connected'
    BY <1>28 DEF Ready, IInv, Safe, Connected, Present
  <2>5. Wanted'
    BY <1>28 DEF Ready, IInv, Safe, Wanted
  <2>6. Ended' /\ Starting' /\ RetryIsForTheDead'
    BY <1>28 DEF Ready, IInv, Safe, Ended, Starting, RetryIsForTheDead
  <2> QED
    BY <2>3, <2>4, <2>5, <2>6 DEF IInv, Safe
<1>29. ASSUME NEW g \in Processes, SaysRetired(g) PROVE IInv'
  <2>1. TypeOK'
    BY <1>29
    DEF SaysRetired, IInv, TypeOK, recoveryVars, spawnVars, worldVars,
      callVars
  <2>2. Safe'
    BY <1>29
    DEF SaysRetired, IInv, Safe, Connected, Present, Ended, Wanted, Starting,
      RetryIsForTheDead, recoveryVars, spawnVars, worldVars
  <2> QED
    BY <2>1, <2>2 DEF IInv
<1>30. ASSUME NEW g \in Processes, NEW s \in Sessions, Update(g, s)
       PROVE  IInv'
  <2>1. TypeOK'
    BY <1>30
    DEF Update, IInv, TypeOK, recoveryVars, spawnVars, worldVars, callVars
  <2>2. Safe'
    BY <1>30, SafeStays DEF Update, recoveryVars, spawnVars, worldVars
  <2> QED
    BY <2>1, <2>2 DEF IInv
<1>31. ASSUME NEW s \in Sessions, ForgetSession(s) PROVE IInv'
  <2>1. TypeOK'
    BY <1>31
    DEF ForgetSession, IInv, TypeOK, recoveryVars, spawnVars, worldVars,
      callVars
  <2>2. Safe'
    BY <1>31, SafeStays DEF ForgetSession, recoveryVars, spawnVars, worldVars
  <2> QED
    BY <2>1, <2>2 DEF IInv
<1>32. ASSUME Healthy PROVE IInv'
  <2>1. TypeOK'
    BY <1>32, PoolAssumption
    DEF Healthy, RepairStatus, IInv, TypeOK, spawnVars, worldVars, callVars
  <2>2. Safe'
    BY <1>32, SafeStays DEF Healthy, spawnVars, worldVars
  <2> QED
    BY <2>1, <2>2 DEF IInv
<1>33. CASE UNCHANGED vars
  <2>1. TypeOK'
    BY <1>33
    DEF IInv, TypeOK, vars, entryVars, recoveryVars, spawnVars, worldVars,
      callVars
  <2>2. Safe'
    BY <1>33, SafeStays
    DEF vars, entryVars, recoveryVars, spawnVars, worldVars
  <2> QED
    BY <2>1, <2>2 DEF IInv
<1> QED
  BY <1>1, <1>2, <1>3, <1>4, <1>5, <1>6, <1>7, <1>8, <1>9, <1>10, <1>11,
    <1>12, <1>13, <1>14, <1>15, <1>16, <1>17, <1>18, <1>19, <1>20, <1>21,
    <1>22, <1>23, <1>24, <1>25, <1>26, <1>27, <1>28, <1>29, <1>30, <1>31,
    <1>32, <1>33
  DEF Next, GetGoesOn, SpawnGoesOn

\* The invariant holds in every reachable state.
LEMMA Invariance == Spec => []IInv
<1>1. Init => IInv
  BY InitInv
<1>2. IInv /\ [Next]_vars => IInv'
  BY NextInv
<1> QED
  BY <1>1, <1>2, PTL DEF Spec

-----------------------------------------------------------------------------
\* Every variable keeps its type; in particular no more automatic attempts are
\* counted than the limit (runtime-recovery.ts:34-57).
THEOREM TypeCorrect == Spec => []TypeOK
<1>1. IInv => TypeOK
  BY DEF IInv
<1> QED
  BY Invariance, <1>1, PTL

\* The pool holds a pipe to one worker process at most (worker-pool.ts:2), for
\* any number of callers and processes.
THEOREM OneWorkerIsConnected == Spec => []OneConnectedWorker
<1>1. IInv => OneConnectedWorker
  <2> SUFFICES ASSUME IInv
               PROVE  Cardinality({g \in Present : link[g] # "broken"}) <= 1
    BY DEF OneConnectedWorker
  <2> DEFINE S == {g \in Present : link[g] # "broken"}
  <2>1. S \subseteq {client}
    BY DEF IInv, Safe, Connected, Present
  <2>2. IsFiniteSet({client}) /\ Cardinality({client}) = 1
    BY FS_Singleton
  <2>3. IsFiniteSet(S) /\ Cardinality(S) <= Cardinality({client})
    BY <2>1, <2>2, FS_Subset
  <2> QED
    BY <2>2, <2>3
<1> QED
  BY Invariance, <1>1, PTL

\* The recovery timer is armed only while nothing lives (worker-pool.ts:1140).
THEOREM RetriesAreForTheDead == Spec => []RetryIsForTheDead
<1>1. IInv => RetryIsForTheDead
  BY DEF IInv, Safe
<1> QED
  BY Invariance, <1>1, PTL

\* What starts, ends or changes a process; every other action leaves them all.
LEMMA ProcessMoves ==
  ASSUME Next, process' # process
  PROVE  \/ \E t \in BOOLEAN : SpawnHeld(t) \/ SpawnTrust(t)
         \/ KillAfterGrace
         \/ \E g \in Processes : FaultLaunch(g) \/ Ready(g)
         \/ \E g \in Processes, e \in BOOLEAN : Exit(g, e)
<1>1. ~(\E g \in Processes : FaultGeneration(g) \/ SaysRetired(g)
         \/ \E s \in Sessions : Update(g, s))
  BY DEF FaultGeneration, SaysRetired, Update, worldVars
<1>2. ~(\E a \in Actors : GetGoesOn(a) \/ Agreed(a) \/ Refused(a) \/ Deferred(a)
         \/ StopDone(a) \/ \E ok \in SUBSET Sessions : Loaded(a, ok))
  BY DEF GetGoesOn, GetShares, GetTakes, GetRefused, GetSpawns,
    GetFindsNoRoom, GetDistrusts, Agreed, Refused, Deferred, StopDone, Loaded,
    worldVars
<1>3. ~(\E c \in Callers : Get(c) \/ Prepare(c) \/ DiscardPrepared(c) \/ Stop(c)
         \/ Restart(c))
  BY DEF Get, Prepare, DiscardPrepared, Stop, Restart, worldVars
<1>4. ~(PrepareFindsNoRoom \/ SpawnPrimed \/ StopAll \/ Reopen \/ ReopenFails
         \/ Healthy \/ \E s \in Sessions : ForgetSession(s))
  BY DEF PrepareFindsNoRoom, SpawnPrimed, StopAll, Reopen, ReopenFails,
    Healthy, ForgetSession, worldVars
<1> QED
  BY <1>1, <1>2, <1>3, <1>4 DEF Next, SpawnGoesOn

\* A spawn that finds the host closing or a process being waited for makes none.
LEMMA NoSpawnGoesOn ==
  ASSUME ~SpawnMayGoOn, NEW t \in BOOLEAN, SpawnHeld(t) \/ SpawnTrust(t)
  PROVE  process' = process
BY DEF SpawnHeld, SpawnTrust, worldVars

\* The process that is waited for ends by Exit only, which finds `stopping`.
LEMMA WantedEnd ==
  ASSUME IInv, [Next]_vars
  PROVE  [\A g \in Processes :
            stopped = g /\ process'[g] = "gone" =>
              ~retry' /\ attempts' = attempts]_vars
<1> SUFFICES ASSUME Next, stopped \in Processes, process'[stopped] = "gone"
             PROVE  ~retry' /\ attempts' = attempts
  OBVIOUS
<1>1. /\ process[stopped] # "gone" /\ stopped # NoProcess /\ stopping /\ ~retry
      /\ process \in [Processes -> {"gone", "booting", "up", "killed"}]
  BY PoolAssumption DEF IInv, TypeOK, Safe, Wanted
<1>2. process' # process
  BY <1>1
<1>3. ~\E t \in BOOLEAN : SpawnHeld(t) \/ SpawnTrust(t)
  BY <1>1, <1>2, NoSpawnGoesOn DEF SpawnMayGoOn
<1>4. ~KillAfterGrace
  BY <1>1 DEF KillAfterGrace
<1>5. ~\E g \in Processes : FaultLaunch(g) \/ Ready(g)
  BY <1>1 DEF FaultLaunch, Ready
<1>6. PICK g \in Processes, e \in BOOLEAN : Exit(g, e)
  BY <1>2, <1>3, <1>4, <1>5, ProcessMoves
<1>7. CASE link[g] = "broken"
  BY <1>1, <1>6, <1>7 DEF Exit, recoveryVars
<1>8. CASE link[g] # "broken"
  <2>1. OnExit(g, e)
    BY <1>6, <1>8 DEF Exit
  <2> QED
    BY <1>1, <2>1, OnExitMoves
<1> QED
  BY <1>7, <1>8

\* A process is made by a spawn only, and it looks at `closed` first.
LEMMA OnlySpawnsStart ==
  ASSUME IInv, [Next]_vars
  PROVE  [closed => \A g \in Processes :
            process[g] = "gone" => process'[g] = "gone"]_vars
<1> SUFFICES ASSUME Next, closed, NEW g \in Processes, process[g] = "gone",
                    process' # process
             PROVE  process'[g] = "gone"
  OBVIOUS
<1>1. process \in [Processes -> {"gone", "booting", "up", "killed"}]
  BY DEF IInv, TypeOK
<1>2. ~\E t \in BOOLEAN : SpawnHeld(t) \/ SpawnTrust(t)
  BY NoSpawnGoesOn DEF SpawnMayGoOn
<1>3. ASSUME KillAfterGrace PROVE process'[g] = "gone"
  BY <1>1, <1>3 DEF KillAfterGrace, IInv, Safe, Wanted
<1>4. ASSUME NEW x \in Processes, FaultLaunch(x) \/ Ready(x)
      PROVE  process'[g] = "gone"
  BY <1>1, <1>4 DEF FaultLaunch, Ready
<1>5. ASSUME NEW x \in Processes, NEW e \in BOOLEAN, Exit(x, e)
      PROVE  process'[g] = "gone"
  BY <1>1, <1>5 DEF Exit
<1> QED
  BY <1>2, <1>3, <1>4, <1>5, ProcessMoves

\* An exit the pool waits for spends no attempt and arms no retry
\* (worker-pool.ts:1107): the step that takes the process finds `stopping`.
THEOREM WantedEndsAreNoCrashes == Spec => PurposeIsNoCrash
<1>1. IInv /\ [Next]_vars =>
        [\A g \in Processes :
           stopped = g /\ process'[g] = "gone" =>
             ~retry' /\ attempts' = attempts]_vars
  BY WantedEnd
<1> QED
  BY Invariance, <1>1, PTL DEF Spec, PurposeIsNoCrash

\* Once the host is closing no process is made, whichever await a spawn was in
\* (worker-pool.ts:930-932).
THEOREM NothingStartsWhileClosing == Spec => ClosedStartsNothing
<1>1. IInv /\ [Next]_vars =>
        [closed => \A g \in Processes :
           process[g] = "gone" => process'[g] = "gone"]_vars
  BY OnlySpawnsStart
<1> QED
  BY Invariance, <1>1, PTL DEF Spec, ClosedStartsNothing

=============================================================================
