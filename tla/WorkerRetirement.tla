-------------------------- MODULE WorkerRetirement --------------------------
(***************************************************************************)
(* Retiring one worker over its pipe: the host's side of the transition    *)
(* (host worker-retirement.ts and the admission of worker-client.ts), the  *)
(* worker's retire fence with its lease (session-runtimes.ts,              *)
(* worker-lifetime.ts) and its shutdown when the pipe ends (main.ts).      *)
(*                                                                         *)
(* Time is counted in ticks of a second: every bound of the code is a      *)
(* constant, and a clock that has run out must act before time goes on.    *)
(* The pipe keeps its order in both directions; a message is read at the   *)
(* latest `stall` ticks after it was written, which is the longest the     *)
(* reader's event loop is taken to be stalled in a behaviour.              *)
(*                                                                         *)
(* Abstracted: what the worker finds when it looks at its sessions is a    *)
(* choice (WorkerFences has the predicate); of the answers only those to a *)
(* retirement travel, since no property looks at the others.               *)
(***************************************************************************)
EXTENDS Naturals, Sequences

CONSTANTS
  Requests,       \* requests of the host, each written once
  Asks,           \* pi/worker/retire requests, each written once
  End,            \* the end of the pipe
  NoAsk,          \* no retirement is being decided
  Stalls,         \* how long a message may wait to be read: the choices
  RetireTimeout,  \* RETIRE_TIMEOUT_MS
  RetireWait,     \* RETIRE_LEASE_MS + RETIRE_LEASE_MARGIN_MS
  StopGrace,      \* the default of WorkerClient.stop
  WorkerLease,    \* DEFAULT_RETIRE_LEASE_MS
  DrainTimeout,   \* DEFAULT_DRAIN_TIMEOUT_MS
  ShutdownDrain   \* SHUTDOWN_DRAIN_MS

ASSUME RetirementAssumption ==
  /\ Requests \cap Asks = {}
  /\ End \notin Requests \cup Asks
  /\ NoAsk \notin Asks
  /\ Stalls \subseteq Nat
  /\ {RetireTimeout, RetireWait, StopGrace, WorkerLease,
      DrainTimeout, ShutdownDrain} \subseteq Nat

VARIABLES
  admission,   \* the host writes requests to this worker
  ending,      \* the host has ended the pipe
  ask,         \* the retirement the host is waiting for, or NoAsk
  phase,       \* the host: "asked", or "silent" once its bound passed
  hostClock,   \* what is left of the host's current wait
  asked,       \* the retirements the host has asked for
  pipe,        \* what the host wrote and the worker has not read
  age,         \* message -> how long it has been waiting to be read
  replies,     \* ask -> the answer on its way to the host, "none" or lost
  state,       \* request -> where it is
  fence,       \* the worker's retire fence
  decides,     \* the ask the closed fence belongs to
  arrived,     \* a request was refused by the fence
  drainClock,  \* what is left of the drain's bound
  leaseClock,  \* what is left of the acknowledgement's lease
  process,     \* the worker: "up", "closing" after the pipe ended, "gone"
  closeClock,  \* what is left of the shutdown's drain
  stall        \* the longest an event loop is stalled, fixed from the start

hostVars   == <<admission, ending, ask, phase, hostClock, asked>>
fenceVars  == <<fence, decides, arrived, drainClock, leaseClock>>
deathVars  == <<process, closeClock, stall>>
vars == <<hostVars, pipe, age, replies, state, fenceVars, deathVars>>

Messages == Requests \cup Asks \cup {End}

TypeOK ==
  /\ admission \in BOOLEAN /\ ending \in BOOLEAN
  /\ ask \in Asks \cup {NoAsk}
  /\ phase \in {"asked", "silent"}
  /\ hostClock \in 0..RetireTimeout \cup 0..RetireWait \cup 0..StopGrace
  /\ asked \subseteq Asks
  /\ pipe \in Seq(Messages)
  /\ age \in [Messages -> 0..stall]
  /\ replies \in [Asks -> {"none", "yes", "no"}]
  /\ state \in [Requests -> {"new", "written", "serving", "answered",
                             "refused", "lost"}]
  /\ fence \in {"open", "draining", "acknowledged"}
  /\ decides \in Asks \cup {NoAsk}
  /\ (fence = "draining") <=> (decides # NoAsk)
  /\ arrived \in BOOLEAN
  /\ drainClock \in 0..DrainTimeout
  /\ leaseClock \in 0..WorkerLease
  /\ process \in {"up", "closing", "gone"}
  /\ closeClock \in 0..ShutdownDrain
  /\ stall \in Stalls

Init ==
  /\ admission = TRUE
  /\ ending = FALSE
  /\ ask = NoAsk
  /\ phase = "asked"
  /\ hostClock = 0
  /\ asked = {}
  /\ pipe = <<>>
  /\ age = [m \in Messages |-> 0]
  /\ replies = [a \in Asks |-> "none"]
  /\ state = [r \in Requests |-> "new"]
  /\ fence = "open"
  /\ decides = NoAsk
  /\ arrived = FALSE
  /\ drainClock = 0
  /\ leaseClock = 0
  /\ process = "up"
  /\ closeClock = 0
  /\ stall \in Stalls

Serving == {r \in Requests : state[r] = "serving"}
InPipe == {pipe[i] : i \in DOMAIN pipe}
Unread == {m \in InPipe : process = "up"}
            \cup {a \in Asks : replies[a] # "none"}

-----------------------------------------------------------------------------
(* The host.                                                               *)

WritePipe(m) == pipe' = Append(pipe, m)

\* WorkerClient.request: refused here, unwritten, while admission is closed.
Write(r) ==
  /\ admission /\ ~ending
  /\ state[r] = "new"
  /\ WritePipe(r)
  /\ state' = [state EXCEPT ![r] = "written"]
  /\ UNCHANGED <<hostVars, age, replies, fenceVars, deathVars>>

\* retireWorker: admission closes before the question is written.
Ask(a) ==
  /\ ask = NoAsk /\ ~ending
  /\ a \notin asked
  /\ admission' = FALSE
  /\ WritePipe(a)
  /\ ask' = a
  /\ asked' = asked \cup {a}
  /\ phase' = "asked"
  /\ hostClock' = RetireTimeout
  /\ UNCHANGED <<ending, age, replies, state, fenceVars, deathVars>>

\* The decision is over, and the worker is not to be stopped.
Reopen ==
  /\ admission' = TRUE
  /\ ask' = NoAsk
  /\ hostClock' = 0

Heard(a) ==
  /\ replies' = [replies EXCEPT ![a] = "none"]
  /\ age' = [age EXCEPT ![a] = 0]

\* Slip: a refusal leaves admission closed.
HearNoStayShut(a) ==
  /\ replies[a] = "no"
  /\ ask = a /\ phase = "asked"
  /\ Heard(a)
  /\ ask' = NoAsk
  /\ hostClock' = 0
  /\ UNCHANGED <<admission, ending, phase, asked, pipe, state, fenceVars,
                 deathVars>>

HearNo(a) ==
  /\ replies[a] = "no"
  /\ ask = a /\ phase = "asked"
  /\ Heard(a)
  /\ Reopen
  /\ UNCHANGED <<ending, phase, asked, pipe, state, fenceVars, deathVars>>

\* It agreed: admission stays closed and the pipe ends.
HearYes(a) ==
  /\ replies[a] = "yes"
  /\ ask = a /\ phase = "asked"
  /\ Heard(a)
  /\ ending' = TRUE
  /\ WritePipe(End)
  /\ hostClock' = StopGrace
  /\ ask' = NoAsk
  /\ UNCHANGED <<admission, phase, asked, state, fenceVars, deathVars>>

\* An answer that comes after the bound acts on nothing.
HearLate(a) ==
  /\ replies[a] # "none"
  /\ ~(ask = a /\ phase = "asked")
  /\ Heard(a)
  /\ UNCHANGED <<hostVars, pipe, state, fenceVars, deathVars>>

\* Slip: a silence is taken for a refusal.
AskTimesOutAtOnce ==
  /\ ask # NoAsk /\ phase = "asked"
  /\ hostClock = 0
  /\ phase' = "silent"
  /\ UNCHANGED <<admission, ending, ask, asked, hostClock, pipe, age, replies,
                 state, fenceVars, deathVars>>

\* Silence: keep admission closed until the worker's lease must be over.
AskTimesOut ==
  /\ ask # NoAsk /\ phase = "asked"
  /\ hostClock = 0
  /\ phase' = "silent"
  /\ hostClock' = RetireWait
  /\ UNCHANGED <<admission, ending, ask, asked, pipe, age, replies, state,
                 fenceVars, deathVars>>

WaitEnds ==
  /\ ask # NoAsk /\ phase = "silent"
  /\ hostClock = 0
  /\ Reopen
  /\ UNCHANGED <<ending, phase, asked, pipe, age, replies, state, fenceVars,
                 deathVars>>

Lost == [r \in Requests |-> IF state[r] = "serving" THEN "lost" ELSE state[r]]

\* WorkerClient.stop: a worker still there when the grace is over is killed.
Kill ==
  /\ ending
  /\ hostClock = 0
  /\ process # "gone"
  /\ process' = "gone"
  /\ state' = Lost
  /\ UNCHANGED <<hostVars, pipe, age, replies, fenceVars, closeClock, stall>>

-----------------------------------------------------------------------------
(* The worker.                                                             *)

Reads(m) ==
  /\ process = "up"
  /\ pipe # <<>> /\ Head(pipe) = m
  /\ pipe' = Tail(pipe)
  /\ age' = [age EXCEPT ![m] = 0]

ReadRequest(r) ==
  /\ Reads(r)
  /\ state' = [state EXCEPT ![r] = IF fence = "open" THEN "serving" ELSE "refused"]
  /\ arrived' = (arrived \/ fence # "open")
  /\ UNCHANGED <<hostVars, replies, fence, decides, drainClock, leaseClock,
                 deathVars>>

Finish(r) ==
  /\ process # "gone"
  /\ state[r] = "serving"
  /\ state' = [state EXCEPT ![r] = "answered"]
  /\ UNCHANGED <<hostVars, pipe, age, replies, fenceVars, deathVars>>

Reply(a, answer) == replies' = [replies EXCEPT ![a] = answer]

\* WorkerLifetime.retire: the fence closes as the request is dispatched.
ReadAsk(a) ==
  /\ Reads(a)
  /\ fence = "open"
  /\ fence' = "draining"
  /\ decides' = a
  /\ arrived' = FALSE
  /\ drainClock' = DrainTimeout
  /\ UNCHANGED <<hostVars, replies, state, leaseClock, deathVars>>

\* Asked again under a closed fence: yes if it was acknowledged, no if another
\* retirement is still deciding.
ReadAskAgain(a) ==
  /\ Reads(a)
  /\ fence # "open"
  /\ Reply(a, IF fence = "acknowledged" THEN "yes" ELSE "no")
  /\ UNCHANGED <<hostVars, state, fenceVars, deathVars>>

\* Slip: the fence opens and the decision it belonged to is not forgotten.
UnfenceOnly(answer) ==
  /\ fence' = "open"
  /\ Reply(decides, answer)
  /\ drainClock' = 0
  /\ UNCHANGED <<hostVars, pipe, age, state, decides, arrived, leaseClock,
                 deathVars>>

Unfence(answer) ==
  /\ fence' = "open"
  /\ Reply(decides, answer)
  /\ decides' = NoAsk
  /\ drainClock' = 0
  /\ UNCHANGED <<hostVars, pipe, age, state, arrived, leaseClock, deathVars>>

\* The drain's bound passed, or something holds a session or has arrived.
RefuseToRetire ==
  /\ process = "up"
  /\ fence = "draining"
  /\ Serving = {} \/ drainClock = 0
  /\ Unfence("no")

\* Slip: the drain's result is ignored.
AcknowledgeUndrained ==
  /\ process = "up"
  /\ fence = "draining"
  /\ Serving = {} \/ drainClock = 0
  /\ ~arrived
  /\ fence' = "acknowledged"
  /\ Reply(decides, "yes")
  /\ decides' = NoAsk
  /\ drainClock' = 0
  /\ leaseClock' = WorkerLease
  /\ UNCHANGED <<hostVars, pipe, age, state, arrived, deathVars>>

Acknowledge ==
  /\ process = "up"
  /\ fence = "draining"
  /\ Serving = {}
  /\ ~arrived
  /\ fence' = "acknowledged"
  /\ Reply(decides, "yes")
  /\ decides' = NoAsk
  /\ drainClock' = 0
  /\ leaseClock' = WorkerLease
  /\ UNCHANGED <<hostVars, pipe, age, state, arrived, deathVars>>

LeaseExpires ==
  /\ process = "up"
  /\ fence = "acknowledged"
  /\ leaseClock = 0
  /\ fence' = "open"
  /\ UNCHANGED <<hostVars, pipe, age, replies, state, decides, arrived,
                 drainClock, leaseClock, deathVars>>

\* The pipe ended: what was accepted may finish, within a bound.
ReadEnd ==
  /\ Reads(End)
  /\ process' = "closing"
  /\ closeClock' = ShutdownDrain
  /\ UNCHANGED <<hostVars, replies, state, fenceVars, stall>>

Exit ==
  /\ process = "closing"
  /\ Serving = {} \/ closeClock = 0
  /\ process' = "gone"
  /\ state' = Lost
  /\ UNCHANGED <<hostVars, pipe, age, replies, fenceVars, closeClock, stall>>

-----------------------------------------------------------------------------
(* Time.                                                                   *)

\* Something has to happen before another second passes.
Urgent ==
  \/ \E m \in Unread : age[m] = stall
  \/ ask # NoAsk /\ hostClock = 0
  \/ ending /\ hostClock = 0 /\ process # "gone"
  \/ process = "up" /\ fence = "draining" /\ (Serving = {} \/ drainClock = 0)
  \/ process = "up" /\ fence = "acknowledged" /\ leaseClock = 0
  \/ process = "closing" /\ (Serving = {} \/ closeClock = 0)

Less(clock) == IF clock = 0 THEN 0 ELSE clock - 1

Tick ==
  /\ ~Urgent
  /\ age' = [m \in Messages |-> IF m \in Unread THEN age[m] + 1 ELSE 0]
  /\ hostClock' = Less(hostClock)
  /\ drainClock' = Less(drainClock)
  /\ leaseClock' = Less(leaseClock)
  /\ closeClock' = Less(closeClock)
  /\ UNCHANGED <<admission, ending, ask, phase, asked, pipe, replies, state,
                 fence, decides, arrived, process, stall>>

-----------------------------------------------------------------------------
Host ==
  \/ \E a \in Asks : HearNo(a) \/ HearYes(a) \/ HearLate(a)
  \/ AskTimesOut
  \/ WaitEnds
  \/ Kill

Worker ==
  \/ \E r \in Requests : ReadRequest(r)
  \/ \E a \in Asks : ReadAsk(a) \/ ReadAskAgain(a)
  \/ RefuseToRetire
  \/ Acknowledge
  \/ LeaseExpires
  \/ ReadEnd
  \/ Exit

Next ==
  \/ \E r \in Requests : Write(r) \/ Finish(r)
  \/ \E a \in Asks : Ask(a)
  \/ Host
  \/ Worker
  \/ Tick

Spec == Init /\ [][Next]_vars

\* Both event loops run what is due and time passes; nothing makes a caller
\* write, the sweep ask, or a request finish.
FairSpec == Spec /\ WF_vars(Host) /\ WF_vars(Worker) /\ WF_vars(Tick)

-----------------------------------------------------------------------------
(* Properties.                                                             *)

\* The two processes, the pipe between them and all their clocks implement
\* AtomicRetirement: a process ends only when nothing it accepted is
\* unanswered, and a request it refused was never acted on.
Abstract == INSTANCE AtomicRetirement WITH
  alive <- process # "gone",
  status <- [r \in Requests |->
    CASE state[r] \in {"new", "written"} -> "new"
      [] state[r] = "serving" -> "accepted"
      [] OTHER -> state[r]]

RetirementIsAtomic == Abstract!Spec

\* The host's two waits together outlast everything the worker may take from
\* the question to the end of its lease.
WaitOutlastsLease ==
  stall + DrainTimeout + WorkerLease < RetireTimeout + RetireWait

\* Whenever the host writes to this worker the worker is taking requests: after
\* a refusal, and after a silence that was waited out, nothing is written to a
\* worker that is still fenced, as long as no stall eats the margin of the
\* bounds up (worker-retirement.ts:27-38, 97-103).
OpenHostMeansOpenWorker ==
  WaitOutlastsLease => (admission => fence = "open")

\* A retirement decision ends, whatever the worker or the pipe does: requests
\* are written again, or the worker is gone (worker-retirement.ts:98-119).
AdmissionComesBack == ~admission ~> (admission \/ process = "gone")

=============================================================================
