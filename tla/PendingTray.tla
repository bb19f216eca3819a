---------------------------- MODULE PendingTray -----------------------------
(***************************************************************************)
(* The pending tray of one session (packages/worker/src/pending.ts) with   *)
(* what server.ts wires to it: the first-turn lock of the session, the     *)
(* prompt that starts a turn, the steer that enters the engine's queue,    *)
(* the settle that calls drain, and the update gate drain asks.            *)
(*                                                                         *)
(* An action is what one caller does between two awaits.  The state of a   *)
(* drain in flight is `drain`: where its pass over the head row waits.     *)
(*                                                                         *)
(* Abstracted: a message is its number, in the order of writing; its words *)
(* and the mentions that travel with them are left out.  The engine is     *)
(* external: it takes, refuses or fails a prompt, reads its steering queue *)
(* at turn boundaries, and ends every turn.  A child session's steer,      *)
(* which goes through the harness, is left out, and so is the dictation    *)
(* that `add` awaits.                                                      *)
(***************************************************************************)
EXTENDS Naturals, Sequences, FiniteSets

CONSTANTS
  Written,    \* how many messages are written (bound)
  PendingMax  \* PENDING_MAX, the rows a tray holds before it refuses more

ASSUME TrayAssumption == Written \in Nat /\ PendingMax \in Nat \ {0}

VARIABLES
  tray,      \* the rows, in order
  state,     \* message -> the state of its row, or "none"
  written,   \* messages written so far
  drain,     \* where the drain in flight is, "off" when there is none
  passing,   \* the message of its pass
  lock,      \* the first-turn lock: who holds it, then who waits
  turn,      \* the engine's turn: accepted and not yet streaming, streaming
  cancelled, \* the turn is being aborted
  gate,      \* an update has parked this worker (activationGate)
  queue,     \* the engine's steering queue
  read,      \* messages that are part of a turn
  returned,  \* messages handed back to the person
  handed,    \* history: the messages the engine took, in order
  favoured   \* history: the messages a person steered

trayVars == <<tray, state, written>>
drainVars == <<drain, passing>>
engineVars == <<turn, cancelled, queue, read, returned>>
historyVars == <<handed, favoured>>
vars == <<trayVars, drainVars, lock, engineVars, gate, historyVars>>

Ids == 1 .. Written
Rows == {tray[i] : i \in DOMAIN tray}

\* "asked": the prompt of the head waits for the lock or for the engine's
\* preflight; "turn": it was accepted and its turn runs; "turned": its promise
\* has settled; "steering": it was refused and the fallback steer waits for
\* the lock or the engine; "taken": the engine has it, the row is still drawn.
DrainStates == {"off", "asked", "turn", "turned", "steering", "taken"}

\* Who takes the lock: a person's steer of a message, the drain, a direct
\* prompt, a cancel.
Steerer(m) == <<"steer", m>>
Drainer    == <<"drain", 0>>
Prompter   == <<"prompt", 0>>
Canceller  == <<"cancel", 0>>
LockUsers  == {Steerer(m) : m \in Ids} \cup {Drainer, Prompter, Canceller}

\* The tray outgrows its limit by the steers that failed, and by nothing else:
\* putting a row back does not ask for room (pending.ts:71, 164).
TypeOK ==
  /\ tray \in Seq(Ids)
  /\ Len(tray) <= PendingMax + Cardinality(favoured)
  /\ state \in [Ids -> {"none", "waiting", "delivering", "failed"}]
  /\ written \in 0 .. Written
  /\ drain \in DrainStates
  /\ passing \in 0 .. Written
  /\ lock \in Seq(LockUsers)
  /\ turn \in {"none", "starting", "running"}
  /\ cancelled \in BOOLEAN
  /\ gate \in BOOLEAN
  /\ queue \subseteq Ids
  /\ read \subseteq Ids
  /\ returned \subseteq Ids
  /\ handed \in Seq(Ids)
  /\ favoured \subseteq Ids

Init ==
  /\ tray = <<>>
  /\ state = [m \in Ids |-> "none"]
  /\ written = 0
  /\ drain = "off"
  /\ passing = 0
  /\ lock = <<>>
  /\ turn = "none"
  /\ cancelled = FALSE
  /\ gate = FALSE
  /\ queue = {}
  /\ read = {}
  /\ returned = {}
  /\ handed = <<>>
  /\ favoured = {}

Streaming == turn = "running"
Holds(user) == lock # <<>> /\ Head(lock) = user
Unlock == lock' = Tail(lock)

Waiting(m) == m \in Rows /\ state[m] = "waiting"
AtRest(m) == m \in Rows /\ state[m] # "delivering"
InHand(m) == \E i \in DOMAIN lock : lock[i] = Steerer(m)

\* The rows of s that are in S, in their order (Array.filter), written as a
\* recursive function: nothing can be proved of SelectSeq.
Kept(s, S) ==
  LET upTo[i \in 0 .. Len(s)] ==
        IF i = 0 THEN <<>>
        ELSE IF s[i] \in S THEN Append(upTo[i - 1], s[i])
        ELSE upTo[i - 1]
  IN  upTo[Len(s)]

Without(m) == Kept(tray, Ids \ {m})
Marked(m, s) == [state EXCEPT ![m] = s]

-----------------------------------------------------------------------------
(* Slips: definitions of this module with one plausible mistake in them.   *)
(* Each takes the place of its original in a run that must then fail.      *)

\* The tray takes every message.
RoomAlways == TRUE

\* Clear drops the row that is on its way too.
DropAll == Rows

\* The pass skips a row that failed.
FirstWaiting(t) ==
  LET fresh == Kept(t, {k \in Ids : state[k] # "failed"})
  IN  IF fresh = <<>> THEN Head(t) ELSE Head(fresh)

\* A prompt that failed before it was accepted leaves its row as it was.
NotPatched(m) == state

\* A turn that failed after it was accepted gives its message back.
RowsBack == <<passing>> \o tray

\* The settle that ends a turn starts no drain.
SettleOnly == UNCHANGED <<tray, state, drain, passing, lock>>

-----------------------------------------------------------------------------
(* The drain.                                                              *)

\* A row's message leaves the tray for the engine, which appends it to what
\* it took.
Taken(m) == handed' = Append(handed, m)

HeadRow(t) == Head(t)

\* The loop of drain from its test to the prompt it awaits, over the rows t
\* in the states s.  promptWithFence has its place in the lock before the
\* call returns.
Loop(t, s) ==
  /\ tray' = t
  /\ IF t = <<>> \/ turn' = "running" \/ gate
     THEN /\ drain' = "off"
          /\ passing' = 0
          /\ state' = s
          /\ UNCHANGED lock
     ELSE LET m == HeadRow(t) IN
          /\ drain' = "asked"
          /\ passing' = m
          /\ state' = [s EXCEPT ![m] = "delivering"]
          /\ lock' = Append(lock, Drainer)

\* drain(): one pass at a time.
StartDrain(t) ==
  IF drain = "off"
  THEN Loop(t, state)
  ELSE /\ tray' = t
       /\ UNCHANGED <<state, drain, passing, lock>>

\* The rows of a drain whose accepted prompt settled, with its result or with
\* the error of its turn: neither brings the message back.
RowsAfterTurn == tray

\* The engine accepts the prompt: the acknowledgement gives the lock up and
\* removes the row by its id, before the turn streams.
PromptAccepted ==
  /\ Holds(Drainer) /\ drain = "asked" /\ turn = "none"
  /\ turn' = "starting"
  /\ read' = read \cup {passing}
  /\ Taken(passing)
  /\ tray' = Without(passing)
  /\ state' = Marked(passing, "none")
  /\ drain' = "turn"
  /\ Unlock
  /\ UNCHANGED <<written, passing, cancelled, gate, queue, returned, favoured>>

\* The engine answers a text without starting a turn (a command): the row goes
\* when the result is there.
PromptCommanded ==
  /\ Holds(Drainer) /\ drain = "asked" /\ turn = "none"
  /\ read' = read \cup {passing}
  /\ Taken(passing)
  /\ drain' = "taken"
  /\ Unlock
  /\ UNCHANGED <<trayVars, passing, turn, cancelled, gate, queue, returned, favoured>>

\* A turn runs already, or an extension holds a prompt: the message is to be
\* steered in, for which the lock is taken anew.
PromptRefused ==
  /\ Holds(Drainer) /\ drain = "asked"
  /\ drain' = "steering"
  /\ lock' = Append(Tail(lock), Drainer)
  /\ UNCHANGED <<trayVars, passing, engineVars, gate, historyVars>>

FailedState(m) == Marked(m, "failed")

\* An error before acceptance keeps the row with its reason and ends the pass.
DeliveryFails ==
  /\ Holds(Drainer) /\ drain \in {"asked", "steering"}
  /\ state' = FailedState(passing)
  /\ drain' = "off"
  /\ passing' = 0
  /\ Unlock
  /\ UNCHANGED <<tray, written, engineVars, gate, historyVars>>

FallbackTaken ==
  /\ Holds(Drainer) /\ drain = "steering"
  /\ queue' = queue \cup {passing}
  /\ Taken(passing)
  /\ drain' = "taken"
  /\ Unlock
  /\ UNCHANGED <<trayVars, passing, turn, cancelled, gate, read, returned, favoured>>

Acknowledge ==
  /\ drain = "taken"
  /\ UNCHANGED <<written, engineVars, gate, handed, favoured>>
  /\ Loop(Without(passing), Marked(passing, "none"))

\* The prompt's promise settles once its whole turn is over.
PromptSettles ==
  /\ drain = "turned"
  /\ UNCHANGED <<written, engineVars, gate, handed, favoured>>
  /\ Loop(RowsAfterTurn, state)

-----------------------------------------------------------------------------
(* The person.  An update gate refuses whatever starts work                *)
(* (methodStartsWork): adding, rewriting, steering and prompting.          *)

Room == Len(tray) < PendingMax

Add ==
  /\ ~gate
  /\ written < Written
  /\ Room
  /\ written' = written + 1
  /\ tray' = Append(tray, written')
  /\ state' = Marked(written', "waiting")
  /\ UNCHANGED <<drainVars, lock, engineVars, gate, historyVars>>

Edit(m) ==
  /\ ~gate
  /\ AtRest(m)
  /\ state' = Marked(m, "waiting")
  /\ UNCHANGED <<tray, written, drainVars, lock, engineVars, gate,
                 historyVars>>

\* Rows go back to the person.
Drop(S) ==
  /\ tray' = Kept(tray, Ids \ S)
  /\ state' = [m \in Ids |-> IF m \in S THEN "none" ELSE state[m]]
  /\ returned' = returned \cup S
  /\ UNCHANGED <<written, drainVars, lock, turn, cancelled, queue, read,
                 gate, historyVars>>

Remove(m) == AtRest(m) /\ Drop({m})

Droppable == {m \in Rows : AtRest(m)}

Clear == Droppable # {} /\ Drop(Droppable)

\* Steering with nothing running: the row moves to the head and is drained.
SteerIdle(m) ==
  /\ ~gate
  /\ AtRest(m)
  /\ ~Streaming
  /\ favoured' = favoured \cup {m}
  /\ UNCHANGED <<written, engineVars, gate, handed>>
  /\ StartDrain(<<m>> \o Without(m))

\* Steering a running turn: out of the tray first, then into the lock.
SteerRunning(m) ==
  /\ ~gate
  /\ AtRest(m)
  /\ Streaming
  /\ favoured' = favoured \cup {m}
  /\ tray' = Without(m)
  /\ state' = Marked(m, "none")
  /\ lock' = Append(lock, Steerer(m))
  /\ UNCHANGED <<written, drainVars, engineVars, gate, handed>>

\* By now the turn may be over: the engine queues the message all the same.
SteerTaken(m) ==
  /\ Holds(Steerer(m))
  /\ queue' = queue \cup {m}
  /\ Taken(m)
  /\ Unlock
  /\ UNCHANGED <<trayVars, drainVars, turn, cancelled, read, returned, gate, favoured>>

\* The message goes back to the head of a tray that has changed meanwhile.
SteerFails(m) ==
  /\ Holds(Steerer(m))
  /\ tray' = <<m>> \o tray
  /\ state' = Marked(m, "failed")
  /\ Unlock
  /\ UNCHANGED <<written, drainVars, engineVars, gate, historyVars>>

\* A direct prompt takes the lock at once or is refused.
DirectPrompt ==
  /\ ~gate /\ ~Streaming /\ lock = <<>>
  /\ lock' = <<Prompter>>
  /\ UNCHANGED <<trayVars, drainVars, engineVars, gate, historyVars>>

\* The engine answers it; accepted, it gives up the lock before it streams.
DirectAnswered ==
  /\ Holds(Prompter)
  /\ \/ turn = "none" /\ turn' = "starting"
     \/ turn' = turn
  /\ Unlock
  /\ UNCHANGED <<trayVars, drainVars, cancelled, queue, read, returned, gate,
                 historyVars>>

\* session/cancel takes the lock for its abort unless somebody has it.
Cancel ==
  /\ Streaming /\ ~cancelled
  /\ cancelled' = TRUE
  /\ lock' = IF lock = <<>> THEN <<Canceller>> ELSE lock
  /\ UNCHANGED <<trayVars, drainVars, turn, queue, read, returned, gate,
                 historyVars>>

AbortDone ==
  /\ Holds(Canceller) /\ turn = "none"
  /\ Unlock
  /\ UNCHANGED <<trayVars, drainVars, engineVars, gate, historyVars>>

\* Emptying the engine's queue hands its messages back.
ClearQueue ==
  /\ lock = <<>> /\ queue # {}
  /\ returned' = returned \cup queue
  /\ queue' = {}
  /\ UNCHANGED <<trayVars, drainVars, lock, turn, cancelled, read, gate,
                 historyVars>>

\* pi/worker/activation/park and cancel: the gate and nothing else.
Park ==
  /\ ~gate /\ gate' = TRUE
  /\ UNCHANGED <<trayVars, drainVars, lock, engineVars, historyVars>>

Unpark ==
  /\ gate /\ gate' = FALSE
  /\ UNCHANGED <<trayVars, drainVars, lock, engineVars, historyVars>>

-----------------------------------------------------------------------------
(* The engine.                                                             *)

TurnStreams ==
  /\ turn = "starting" /\ turn' = "running"
  /\ UNCHANGED <<trayVars, drainVars, lock, cancelled, queue, read, returned,
                 gate, historyVars>>

\* A turn boundary reads the whole steering queue.
TurnBoundary ==
  /\ Streaming /\ ~cancelled /\ queue # {}
  /\ read' = read \cup queue
  /\ queue' = {}
  /\ UNCHANGED <<trayVars, drainVars, lock, turn, cancelled, returned, gate,
                 historyVars>>

\* What the tray does when the turn settles: a drain unless one is in flight,
\* which learns that its own turn is over when its prompt settles.
OnSettled ==
  IF drain = "turn"
  THEN /\ drain' = "turned"
       /\ UNCHANGED <<tray, state, passing, lock>>
  ELSE StartDrain(tray)

\* A turn ends when nothing is queued behind it, or because it was aborted.
Settle ==
  /\ Streaming
  /\ cancelled \/ queue = {}
  /\ turn' = "none"
  /\ cancelled' = FALSE
  /\ UNCHANGED <<written, queue, read, returned, gate, handed, favoured>>
  /\ OnSettled

-----------------------------------------------------------------------------
Person ==
  \/ Add
  \/ \E m \in Ids : \/ Edit(m)
                    \/ Remove(m)
                    \/ SteerIdle(m)
                    \/ SteerRunning(m)
  \/ Clear
  \/ DirectPrompt
  \/ Cancel
  \/ ClearQueue
  \/ Park
  \/ Unpark

DrainAnswered ==
  PromptAccepted \/ PromptCommanded \/ PromptRefused \/ DeliveryFails
    \/ FallbackTaken

SteerAnswered == \E m \in Ids : SteerTaken(m) \/ SteerFails(m)

Engine == TurnStreams \/ TurnBoundary \/ Settle

Next ==
  \/ Person
  \/ DrainAnswered
  \/ Acknowledge
  \/ PromptSettles
  \/ SteerAnswered
  \/ DirectAnswered
  \/ AbortDone
  \/ Engine

\* The engine answers what it was asked, streams an accepted turn, reads its
\* queue and ends its turns; a settled promise resumes who awaits it.  The
\* person need not do anything.
Fairness ==
  /\ WF_vars(DrainAnswered)
  /\ WF_vars(Acknowledge)
  /\ WF_vars(PromptSettles)
  /\ WF_vars(SteerAnswered)
  /\ WF_vars(DirectAnswered)
  /\ WF_vars(AbortDone)
  /\ WF_vars(TurnStreams)
  /\ WF_vars(TurnBoundary)
  /\ WF_vars(Settle)

Spec == Init /\ [][Next]_vars /\ Fairness

-----------------------------------------------------------------------------
(* Properties.                                                             *)

\* A written message is in exactly one place: a row of the tray, the hand of
\* a steer that waits for the engine, the engine's queue, a turn, or back with
\* the person; a row the engine has already taken no longer counts
\* (pending.ts:8-9, 199-220: "a message is never in both places").
Places(m) ==
  {p \in {"row", "hand", "queue", "turn", "person"} :
     \/ p = "row" /\ m \in Rows /\ ~(drain = "taken" /\ passing = m)
     \/ p = "hand" /\ InHand(m)
     \/ p = "queue" /\ m \in queue
     \/ p = "turn" /\ m \in read
     \/ p = "person" /\ m \in returned}

OnePlace ==
  /\ \A m \in Ids : Cardinality(Places(m)) = IF m <= written THEN 1 ELSE 0
  /\ \A i, j \in DOMAIN tray : tray[i] = tray[j] => i = j

\* The engine takes a message once, whatever is refused, fails late, is
\* steered or is drained again (pending.ts:239-259).
HandedOnce == \A i, j \in DOMAIN handed : handed[i] = handed[j] => i = j

\* Two messages no person steered go to the engine in the order they were
\* written: by the time it has the later one it has the earlier one too, or
\* the person took that back (pending.ts:168-173: "in the order it was
\* written").
HandedInOrder ==
  \A i \in DOMAIN handed : \A m \in Ids \ favoured :
    m < handed[i] /\ handed[i] \notin favoured =>
      m \in {handed[j] : j \in 1 .. i - 1} \cup returned

\* A row is drawn as on its way exactly while the drain in flight hands over
\* that row: no row is left that can be neither edited nor removed
\* (pending.ts:100, 123, 134, 230).
OnItsWay ==
  \A m \in Ids :
    (m \in Rows /\ state[m] = "delivering")
      <=> (drain \in {"asked", "steering", "taken"} /\ passing = m)

\* A message that waits while a turn runs goes in, or a row says why it did
\* not, unless an update parks the worker (server.ts:3499-3502).
WaitedGoesIn ==
  \A m \in Ids :
    (Waiting(m) /\ Streaming)
      ~> (~Waiting(m) \/ gate \/ \E k \in Rows : state[k] = "failed")
=============================================================================
