---------------------------- MODULE SessionMove -----------------------------
(***************************************************************************)
(* Moving a conversation from one project to another, and what else may    *)
(* open or write its file meanwhile: the move and the routed requests of   *)
(* packages/host/src/router.ts, the rewrite of session-move.ts, the pool's *)
(* membership and its reopening of a crashed worker (worker-pool.ts), and  *)
(* the worker's load, close and unload of the session (worker server.ts).  *)
(*                                                                         *)
(* One conversation.  A project keeps it in a file of its own directory,   *)
(* so a path is named by its project and that project's worker serves it.  *)
(* The route lease is its effect (module SessionRouteLease): a move holds  *)
(* both paths alone.  An action of the host is what it does between two    *)
(* awaits; the rewrite is synchronous, so until it ends the host does      *)
(* nothing else, while the worker processes go on.                         *)
(*                                                                         *)
(* Abstracted: the content of a file is the set of entries in it; the      *)
(* refusals of a move that read only durable records, and the caches it    *)
(* invalidates, are left out.  The flat directory layout, where a move     *)
(* keeps the path, is left out, and so is a session/update read late, which *)
(* module WorkerPool has.                                                  *)
(***************************************************************************)
EXTENDS Naturals

CONSTANTS
  Projects,  \* the projects; each is also the path of the file it would keep
  Requests,  \* routed requests; each serves one call at a time
  MaxSaid    \* how many entries are written (bound)

ASSUME MoveAssumption ==
  /\ Projects # {}
  /\ MaxSaid \in Nat \ {0}

VARIABLES
  file,       \* path -> the entries of the file there, none when there is none
  said,       \* entries written so far
  worker,     \* project -> its process: "down" or ready
  driver,     \* project -> the engine driver its worker holds on the path
  open,       \* paths the pool would reopen after a crash (entry.open)
  active,     \* paths the pool knows to be open in a ready worker
  retry,      \* projects whose crashed worker the pool will reopen
  reopening,  \* projects whose reopening has sent session/load
  pc,         \* request -> where it is
  target,     \* request -> the path it names
  stage,      \* where the move is
  from, to,   \* its two paths
  copy,       \* the entries it read
  restarted,  \* history: the host crashed and started again
  recovered   \* history: the pool reopened a crashed worker

diskVars   == <<file, said>>
workerVars == <<worker, driver>>
poolVars   == <<open, active, retry, reopening>>
reqVars    == <<pc, target>>
moveVars   == <<stage, from, to, copy>>
vars == <<diskVars, workerVars, poolVars, reqVars, moveVars, restarted,
          recovered>>

Entries == 1 .. MaxSaid

TypeOK ==
  /\ file \in [Projects -> SUBSET Entries]
  /\ said \in 0 .. MaxSaid
  /\ worker \in [Projects -> {"down", "ready"}]
  /\ driver \in [Projects -> {"closed", "idle", "turn"}]
  /\ \A p \in Projects : worker[p] = "down" => driver[p] = "closed"
  /\ active \subseteq open
  /\ open \subseteq Projects
  /\ retry \subseteq Projects
  /\ reopening \subseteq Projects
  /\ pc \in [Requests -> {"idle", "getting", "loading", "asked"}]
  /\ target \in [Requests -> Projects]
  /\ stage \in {"idle", "closing", "closed", "copied", "placed"}
  /\ from \in Projects
  /\ to \in Projects
  /\ copy \subseteq Entries
  /\ restarted \in BOOLEAN
  /\ recovered \in BOOLEAN

\* A conversation with one entry, saved in some project, open nowhere.
Init ==
  /\ \E home \in Projects :
       /\ file = [p \in Projects |-> IF p = home THEN {1} ELSE {}]
       /\ from = home
       /\ to = home
       /\ target = [r \in Requests |-> home]
  /\ said = 1
  /\ worker = [p \in Projects |-> "down"]
  /\ driver = [p \in Projects |-> "closed"]
  /\ open = {}
  /\ active = {}
  /\ retry = {}
  /\ reopening = {}
  /\ pc = [r \in Requests |-> "idle"]
  /\ stage = "idle"
  /\ copy = {}
  /\ restarted = FALSE
  /\ recovered = FALSE

\* The host's thread is free: no rewrite is in the middle.
HostFree == stage \notin {"copied", "placed"}

Routed(p) == \E r \in Requests : pc[r] # "idle" /\ target[r] = p
Moving(p) == stage # "idle" /\ p \in {from, to}

\* openSessions(): the worker is ready and the path active in it.
Open(p) == worker[p] = "ready" /\ p \in active

-----------------------------------------------------------------------------
(* Slips: definitions of this module with one plausible mistake in them.   *)
(* Each takes the place of its original in a run that must then fail.      *)

\* The move takes the paths as a reader would, beside other readers.
MoveAsReader(p, q) == TRUE

\* The original goes before the copy is in place.
UnlinkFirst ==
  /\ stage = "copied"
  /\ file' = [file EXCEPT ![from] = {}]
  /\ stage' = "placed"
  /\ UNCHANGED <<said, workerVars, poolVars, reqVars, from, to, copy,
                 restarted, recovered>>

\* A closed session is not taken out of what the pool knows.
NotForgotten(p) == UNCHANGED <<open, active>>

\* A reopened path joins the active ones and not the open ones.
BoundActiveOnly(p) == open' = open /\ active' = active \cup {p}

\* The original is left where it was.
KeepOriginal == file

-----------------------------------------------------------------------------
(* The pool and the workers.                                               *)

\* bindSession(): the path is open in its worker.
Bind(p) == open' = open \cup {p} /\ active' = active \cup {p}

\* forgetSession(): nothing reopens the path or routes to it.
Forget(p) == open' = open \ {p} /\ active' = active \ {p}

\* The worker opens the session, which it creates when there is no file: a
\* load of one it has already, or is opening, finds that.
Loaded(p) == driver' = [driver EXCEPT ![p] = IF @ = "closed" THEN "idle" ELSE @]

\* A worker comes up because a request waits for it: an explicit request
\* cancels the retry of a crash.
Spawn(p) ==
  /\ HostFree
  /\ worker[p] = "down"
  /\ \E r \in Requests : pc[r] = "getting" /\ target[r] = p
  /\ worker' = [worker EXCEPT ![p] = "ready"]
  /\ retry' = retry \ {p}
  /\ UNCHANGED <<diskVars, driver, open, active, reopening, reqVars, moveVars,
                 restarted, recovered>>

\* A worker dies.  The requests and the close it was asked fail; the pool
\* clears what was active and, with something open and budget left, will
\* reopen it.
Crash(p) ==
  /\ HostFree
  /\ worker[p] = "ready"
  /\ worker' = [worker EXCEPT ![p] = "down"]
  /\ driver' = [driver EXCEPT ![p] = "closed"]
  /\ active' = active \ {p}
  /\ retry' \in IF p \in open THEN {retry \ {p}, retry \cup {p}} ELSE {retry \ {p}}
  /\ reopening' = reopening \ {p}
  /\ pc' = [r \in Requests |->
              IF target[r] = p /\ pc[r] \in {"loading", "asked"} THEN "idle"
                                                                 ELSE pc[r]]
  /\ stage' = IF stage = "closing" /\ from = p THEN "idle" ELSE stage
  /\ UNCHANGED <<diskVars, open, target, from, to, copy, restarted, recovered>>

\* reopen(): the retry's worker is up and is sent session/load for every path
\* that was open, under no route lease.
Reopen(p) ==
  /\ HostFree
  /\ p \in retry /\ worker[p] = "down"
  /\ worker' = [worker EXCEPT ![p] = "ready"]
  /\ retry' = retry \ {p}
  /\ reopening' = reopening \cup {p}
  /\ recovered' = TRUE
  /\ UNCHANGED <<diskVars, driver, open, active, reqVars, moveVars, restarted>>

\* The worker's half needs no host; its answer is bound when the host is free.
ReopenLoads(p) ==
  /\ p \in reopening
  /\ driver[p] = "closed"
  /\ Loaded(p)
  /\ UNCHANGED <<diskVars, worker, poolVars, reqVars, moveVars, restarted,
                 recovered>>

ReopenBinds(p) ==
  /\ HostFree
  /\ p \in reopening
  /\ driver[p] # "closed"
  /\ reopening' = reopening \ {p}
  /\ Bind(p)
  /\ UNCHANGED <<diskVars, workerVars, retry, reqVars, moveVars, restarted,
                 recovered>>

\* pi/session/unload of a session that does nothing, under the lease.
Unload(p) ==
  /\ HostFree
  /\ ~Routed(p) /\ ~Moving(p)
  /\ worker[p] = "ready" /\ driver[p] = "idle"
  /\ driver' = [driver EXCEPT ![p] = "closed"]
  /\ Forget(p)
  /\ UNCHANGED <<diskVars, worker, retry, reopening, reqVars, moveVars,
                 restarted, recovered>>

Turn(p) ==
  /\ driver[p] = "idle"
  /\ driver' = [driver EXCEPT ![p] = "turn"]

\* A turn no request asked for: the agent's own work wakes the session.
Wake(p) ==
  /\ Turn(p)
  /\ UNCHANGED <<diskVars, worker, poolVars, reqVars, moveVars, restarted,
                 recovered>>

\* A turn goes on after the request that started it was answered.  Its entries
\* reach the file by the driver, which writes one if there is none.
TurnSays(p) ==
  /\ driver[p] = "turn"
  /\ said < MaxSaid
  /\ said' = said + 1
  /\ file' = [file EXCEPT ![p] = @ \cup {said'}]
  /\ UNCHANGED <<workerVars, poolVars, reqVars, moveVars, restarted, recovered>>

TurnEnds(p) ==
  /\ driver[p] = "turn"
  /\ driver' = [driver EXCEPT ![p] = "idle"]
  /\ UNCHANGED <<diskVars, worker, poolVars, reqVars, moveVars, restarted,
                 recovered>>

-----------------------------------------------------------------------------
(* A routed request, under the lease of its path from here to its answer.  *)

\* openOrRefuse(): open in its worker, or saved.
Route(r, p) ==
  /\ HostFree
  /\ pc[r] = "idle" /\ ~Moving(p)
  /\ Open(p) \/ file[p] # {}
  /\ pc' = [pc EXCEPT ![r] = "getting"]
  /\ target' = [target EXCEPT ![r] = p]
  /\ UNCHANGED <<diskVars, workerVars, poolVars, moveVars, restarted, recovered>>

\* The worker is there: the guard is evaluated again, and the session opened
\* first unless it is open.
Got(r) ==
  /\ HostFree
  /\ pc[r] = "getting" /\ worker[target[r]] = "ready"
  /\ LET p == target[r] IN
     pc' = [pc EXCEPT ![r] = IF Open(p) THEN "asked"
                             ELSE IF file[p] # {} THEN "loading" ELSE "idle"]
  /\ UNCHANGED <<diskVars, workerVars, poolVars, target, moveVars, restarted,
                 recovered>>

RequestLoads(r) ==
  /\ HostFree
  /\ pc[r] = "loading"
  /\ Loaded(target[r])
  /\ Bind(target[r])
  /\ pc' = [pc EXCEPT ![r] = "asked"]
  /\ UNCHANGED <<diskVars, worker, retry, reopening, target, moveVars,
                 restarted, recovered>>

\* The worker serves it: a read, a prompt that starts a turn, or the refusal
\* of a session that is not open there.
Answered(r) ==
  /\ HostFree
  /\ pc[r] = "asked"
  /\ pc' = [pc EXCEPT ![r] = "idle"]
  /\ UNCHANGED driver \/ Turn(target[r])
  /\ UNCHANGED <<diskVars, worker, poolVars, target, moveVars, restarted, recovered>>

-----------------------------------------------------------------------------
(* The move.                                                               *)

\* exclusive(): nobody routes to either path.
Alone(p, q) == ~Routed(p) /\ ~Routed(q)

\* The destination is free and the paths are taken; an open session is asked
\* to close.
Move(p, q) ==
  /\ HostFree
  /\ stage = "idle" /\ p # q
  /\ file[p] # {} /\ file[q] = {}
  /\ Alone(p, q)
  /\ from' = p /\ to' = q
  /\ stage' = IF Open(p) THEN "closing" ELSE "closed"
  /\ UNCHANGED <<diskVars, workerVars, poolVars, reqVars, copy, restarted,
                 recovered>>

MayClose == driver[from] = "idle"

\* The worker disposes the driver, or has none; the pool forgets the path.
Closed ==
  /\ stage = "closing"
  /\ worker[from] = "ready"
  /\ MayClose \/ driver[from] = "closed"
  /\ driver' = [driver EXCEPT ![from] = "closed"]
  /\ Forget(from)
  /\ stage' = "closed"
  /\ UNCHANGED <<diskVars, worker, retry, reopening, reqVars, from, to, copy,
                 restarted, recovered>>

\* The session is answering, or has work running: nothing is moved.
CloseRefused ==
  /\ stage = "closing"
  /\ driver[from] = "turn"
  /\ stage' = "idle"
  /\ UNCHANGED <<diskVars, workerVars, poolVars, reqVars, from, to, copy,
                 restarted, recovered>>

\* The destination is looked at again, then the file is read and its rewritten
\* copy saved beside the destination.
Copied ==
  /\ stage = "closed"
  /\ IF file[to] = {} /\ file[from] # {}
     THEN stage' = "copied" /\ copy' = file[from]
     ELSE stage' = "idle" /\ copy' = copy
  /\ UNCHANGED <<diskVars, workerVars, poolVars, reqVars, from, to, restarted,
                 recovered>>

\* The copy is renamed into place.
Placed ==
  /\ stage = "copied"
  /\ file' = [file EXCEPT ![to] = copy]
  /\ stage' = "placed"
  /\ UNCHANGED <<said, workerVars, poolVars, reqVars, from, to, copy,
                 restarted, recovered>>

WithoutOriginal == [file EXCEPT ![from] = {}]

\* The original goes, and with it the move's hold on the paths.
Removed ==
  /\ stage = "placed"
  /\ file' = WithoutOriginal
  /\ stage' = "idle"
  /\ UNCHANGED <<said, workerVars, poolVars, reqVars, from, to, copy,
                 restarted, recovered>>

\* The host dies, its workers with it, and starts again from what is saved.
HostCrash ==
  /\ ~restarted
  /\ restarted' = TRUE
  /\ worker' = [p \in Projects |-> "down"]
  /\ driver' = [p \in Projects |-> "closed"]
  /\ open' = {} /\ active' = {} /\ retry' = {} /\ reopening' = {}
  /\ pc' = [r \in Requests |-> "idle"]
  /\ stage' = "idle"
  /\ UNCHANGED <<diskVars, target, from, to, copy, recovered>>

-----------------------------------------------------------------------------
Next ==
  \/ \E p \in Projects : \/ Spawn(p)
                         \/ Crash(p)
                         \/ Reopen(p)
                         \/ ReopenLoads(p)
                         \/ ReopenBinds(p)
                         \/ Unload(p)
                         \/ Wake(p)
                         \/ TurnSays(p)
                         \/ TurnEnds(p)
  \/ \E r \in Requests : \/ \E p \in Projects : Route(r, p)
                         \/ Got(r)
                         \/ RequestLoads(r)
                         \/ Answered(r)
  \/ \E p, q \in Projects : Move(p, q)
  \/ Closed
  \/ CloseRefused
  \/ Copied
  \/ Placed
  \/ Removed
  \/ HostCrash

Spec == Init /\ [][Next]_vars

-----------------------------------------------------------------------------
(* Properties.                                                             *)

Saved == {p \in Projects : file[p] # {}}
Rewriting == stage \in {"copied", "placed"}

\* As long as the pool has reopened no crashed worker, every load of the
\* session was made under its lease.
OnlyUnderLease == ~recovered

\* What the requests and the move take and give back is what the route lease
\* gives: each request has its path from its routing to its answer, the move
\* has both of its paths from its decision to its last step, through refusals
\* and the deaths of a worker or the host (router.ts: forwardOnce,
\* moveSession).
Authority == INSTANCE RouteAuthority WITH
  Paths <- Projects,
  Writers <- {"move"},
  reads <- [r \in Requests |-> IF pc[r] = "idle" THEN {} ELSE {target[r]}],
  holds <- [w \in {"move"} |-> IF stage = "idle" THEN {} ELSE {from, to}]

MoveKeepsAuthority == Authority!Spec

\* Every entry ever written is in some session file, at every step of a move
\* and of a host or a worker that dies in it (session-move.ts:9-11: "a crash
\* in the middle leaves one complete session on disk, never none").
NothingLost ==
  OnlyUnderLease => \A e \in 1 .. said : \E p \in Saved : e \in file[p]

\* No worker holds either file while the host rewrites it
\* (session-move.ts:7-8).
ClosedUnderMove ==
  OnlyUnderLease /\ Rewriting =>
    driver[from] = "closed" /\ driver[to] = "closed"

\* The conversation is one file, but for the moment between the rename and the
\* removal and for what a crash left there (session-move.ts:9-11).
OneFile ==
  OnlyUnderLease /\ ~restarted /\ stage # "placed" =>
    \E p \in Projects : Saved = {p}

\* What the pool routes to is open in its worker, and a path it would reopen
\* has a file (worker-pool.ts:671-675).
KnownIsThere ==
  OnlyUnderLease =>
    /\ \A p \in active : driver[p] # "closed"
    /\ \A p \in Projects : driver[p] # "closed" => p \in Saved

\* A worker holds no path whose file has moved away, reopened or not
\* (worker-pool.ts:673-674: "nothing here may reopen it after a restart or
\* route to it again").
NeverReopenedAfterMove ==
  \A p \in Projects : driver[p] # "closed" => p \in Saved
=============================================================================
