---------------------------- MODULE ModelFallback ---------------------------
(***************************************************************************)
(* The model profile of one session: the controller that moves a session   *)
(* to another model when a turn fails (packages/worker/src/fallback:       *)
(* controller.ts, policy.ts), and the two requests by which a person picks *)
(* a model or a profile (drivers/stable-sdk.ts: setModel, setProfile).     *)
(* Once a session has started these requests take no lock (server.ts:      *)
(* settingsLane), so they run between any two awaits of the failover and   *)
(* of each other.                                                          *)
(*                                                                         *)
(* An action is what one of them does between two awaits.  The engine is   *)
(* external: its setModel checks the credential, takes effect some time    *)
(* between its call and its return, or throws before it took effect; the   *)
(* catalogue, a compaction and a continued turn end in any of their ways.  *)
(*                                                                         *)
(* Abstracted: a failure is "passing" (it gives the model a cooldown),     *)
(* "lasting" (it marks the model until a person chooses again) or "alien"  *)
(* (no other model could help).  A cooldown ends at an instant that may    *)
(* come at any moment, so whether one still runs is a choice, made with    *)
(* the catalogue's.  The retries of a continued turn, the way an event     *)
(* ended, the sentences, the record in the session file and its restoring, *)
(* and the preparation of a first turn are left out.                       *)
(***************************************************************************)
EXTENDS Naturals, Sequences, FiniteSets

CONSTANTS
  Models,    \* the models the profiles name
  Profiles,  \* the profiles: sequences of models, none twice
  Window,    \* model -> the length of conversation it can hold
  Lengths,   \* the lengths a conversation may have (bound)
  Choosers,  \* requests of a person; each carries one choice at a time
  None       \* no activation, no model

ASSUME FallbackAssumption ==
  /\ IsFiniteSet(Models)
  /\ None \notin Models \cup [models : Profiles, position : Nat]
  /\ Window \in [Models -> Nat]
  /\ Lengths \subseteq Nat
  /\ \A p \in Profiles :
       /\ p \in Seq(Models)
       /\ p # << >>
       /\ \A i, j \in DOMAIN p : p[i] = p[j] => i = j

VARIABLES
  activation,  \* the profile the session stands on, and where, or None
  marked,      \* models marked as not recovering by themselves
  event,       \* the failover event: "none", "open", "over"
  tried,       \* the models tried in the event in flight
  step,        \* where the failover in flight is; "idle" is not switching
  try,         \* the locals of its traversal
  stale,       \* its generation is an old one, or it was aborted
  compacted,   \* it has compacted the conversation once
  length,      \* and after that: the estimate, frozen for its other steps
  model,       \* the model the engine has selected
  pinned,      \* the model a person pinned, or None
  hand,        \* chooser -> where its request is
  asked,       \* history: models that were sent this failover's turn
  torn         \* history: a choice was refused, or met another call in flight

stateVars == <<activation, marked, event, tried>>
localVars == <<step, try, stale, compacted, length>>
vars == <<stateVars, localVars, model, pinned, hand, asked, torn>>

Steps == {"idle", "reading", "selecting", "selected", "compacting", "answering"}
Failures == {"passing", "lasting", "alien"}

\* "pinning" and "anchoring" wait for the engine's setModel, "pinned" and
\* "anchored" for its return; "walking" waits for the catalogue, "moving" for
\* the setModel of the model the walk found.
HandSteps == {"idle", "pinning", "pinned", "anchoring", "anchored", "walking",
              "moving"}
IdleHand == [at |-> "idle", model |-> None, models |-> << >>]
NoTry == [models |-> << >>, position |-> 0, index |-> 0, blocked |-> {},
          rescue |-> FALSE]

Standing(p, i) == [models |-> p, position |-> i]
Activations == [models : Profiles, position : Nat \ {0}]
Tries == [models : Profiles \cup {<< >>}, position : Nat, index : Nat,
          blocked : SUBSET Nat, rescue : BOOLEAN]
Hands == [at : HandSteps, model : Models \cup {None},
          models : Profiles \cup {<< >>}]

TypeOK ==
  /\ activation \in Activations \cup {None}
  /\ marked \subseteq Models
  /\ event \in {"none", "open", "over"}
  /\ tried \subseteq Models
  /\ step \in Steps
  /\ try \in Tries
  /\ step # "idle" => try.models \in Profiles
  /\ step \in {"selecting", "selected", "compacting", "answering"} =>
       try.index \in DOMAIN try.models
  /\ stale \in BOOLEAN
  /\ compacted \in BOOLEAN
  /\ length \in Lengths \cup {0}
  /\ model \in Models
  /\ pinned \in Models \cup {None}
  /\ hand \in [Choosers -> Hands]
  /\ \A c \in Choosers :
       /\ hand[c].at \in {"pinning", "pinned", "anchoring", "moving"} =>
            hand[c].model \in Models
       /\ hand[c].at = "walking" => hand[c].models \in Profiles
  /\ asked \subseteq Models
  /\ torn \in BOOLEAN

\* A session opens on the model its profile names at the position it starts
\* at, or pinned, or with no profile at all.
Init ==
  /\ activation \in {Standing(p, 1) : p \in Profiles} \cup {None}
  /\ model \in IF activation = None THEN Models
                                    ELSE {activation.models[activation.position]}
  /\ pinned \in IF activation = None THEN {model, None} ELSE {None}
  /\ marked = {}
  /\ event = "none" /\ tried = {}
  /\ step = "idle" /\ try = NoTry
  /\ stale = FALSE /\ compacted = FALSE /\ length = 0
  /\ hand = [c \in Choosers |-> IdleHand]
  /\ asked = {} /\ torn = FALSE

-----------------------------------------------------------------------------
(* policy.ts.                                                              *)

Remember(m, f) == marked' = IF f = "lasting" THEN marked \cup {m} ELSE marked

\* ineligibleReason but for the size; `usable` are the models the catalogue
\* has, with a credential, not switched off, and whose cooldown has ended.
Eligible(m, usable) == m \in usable \ (tried \cup marked)

\* The other positions of the traversal's profile, by whether they can hold a
\* conversation of length n.  The earlier ones come before the later ones, each
\* in order: the least is next.
Others(usable) ==
  {i \in DOMAIN try.models \ {try.position} : Eligible(try.models[i], usable)}
Fitting(usable, n) == {i \in Others(usable) : n <= Window[try.models[i]]}
Blocked(usable, n) == {i \in Others(usable) : n > Window[try.models[i]]}
First(i, S) == i \in S /\ \A j \in S : i <= j

\* startPosition, which asks the catalogue only: the first usable model, or the
\* first of all when none is.
StartsAt(i, p, usable) ==
  LET found == {j \in DOMAIN p : p[j] \in usable}
  IN  IF found = {} THEN i = 1 ELSE First(i, found)

-----------------------------------------------------------------------------
(* The failover, settle().                                                 *)

Candidate == try.models[try.index]

\* `switching` falls with the loop; an event still open is closed before.
End ==
  /\ step' = "idle"
  /\ event' = IF event = "open" THEN "over" ELSE event
  /\ tried' = {}
  /\ try' = NoTry
  /\ stale' = FALSE /\ compacted' = FALSE /\ length' = 0
  /\ asked' = {}

\* The top of the loop: the activation is read before the catalogue is.
Traverse ==
  /\ step' = "reading"
  /\ try' = [NoTry EXCEPT !.models = activation.models,
                          !.position = activation.position]

\* Slip: the event opens without the model that failed.
SettleUnrecorded(f) ==
  /\ step = "idle"
  /\ activation # None
  /\ LET failed == IF activation.position \in DOMAIN activation.models
                     THEN activation.models[activation.position]
                     ELSE model
     IN  asked' = {failed}
  /\ tried' = {}
  /\ event' = "open"
  /\ Traverse
  /\ UNCHANGED <<activation, marked, stale, compacted, length, model, pinned,
                 hand>>

\* A turn of a session that stands on a profile failed, and the profile may
\* help: the event opens with the model that failed.
Settle(f) ==
  /\ step = "idle"
  /\ activation # None
  /\ LET failed == IF activation.position \in DOMAIN activation.models
                     THEN activation.models[activation.position]
                     ELSE model
     IN  /\ Remember(failed, f)
         /\ tried' = {failed}
         /\ asked' = {failed}
  /\ event' = "open"
  /\ Traverse
  /\ UNCHANGED <<activation, stale, compacted, length, model, pinned, hand>>

\* An await ended and the generation is no longer the controller's.
Abandon ==
  /\ stale
  /\ step \in {"reading", "compacting", "answering"}
  /\ End
  /\ UNCHANGED <<activation, marked, model, pinned, hand>>

Exhausted ==
  /\ End
  /\ UNCHANGED <<activation, marked, model, pinned, hand>>

Select(i, rest, rescue) ==
  /\ step' = "selecting"
  /\ try' = [try EXCEPT !.index = i, !.blocked = rest, !.rescue = rescue]
  /\ UNCHANGED <<stateVars, stale, compacted, length, model, pinned, hand,
                 asked>>

\* Slip: a model that is too small is rescued after the compaction, too.
RescueAgain(usable, n) ==
  /\ step = "reading"
  /\ ~stale
  /\ compacted => n = length
  /\ \/ \E i \in Fitting(usable, n) :
           /\ First(i, Fitting(usable, n))
           /\ Select(i, {}, FALSE)
     \/ /\ Fitting(usable, n) = {}
        /\ \E i \in Blocked(usable, n) :
             /\ First(i, Blocked(usable, n))
             /\ Select(i, Blocked(usable, n) \ {i}, TRUE)
     \/ /\ Fitting(usable, n) = {}
        /\ Exhausted

\* The catalogue answered, and the conversation is n long; after the compaction
\* that is the frozen estimate.  With auto-compaction off, too, it is exhausted.
ReadCatalogue(usable, n) ==
  /\ step = "reading"
  /\ ~stale
  /\ compacted => n = length
  /\ \/ \E i \in Fitting(usable, n) :
           /\ First(i, Fitting(usable, n))
           /\ Select(i, {}, FALSE)
     \/ /\ Fitting(usable, n) = {}
        /\ ~compacted
        /\ \E i \in Blocked(usable, n) :
             /\ First(i, Blocked(usable, n))
             /\ Select(i, Blocked(usable, n) \ {i}, TRUE)
     \/ /\ Fitting(usable, n) = {}
        /\ Exhausted

\* External: the engine's setModel takes effect.
EngineSelects ==
  /\ step = "selecting"
  /\ model' = Candidate
  /\ step' = "selected"
  /\ UNCHANGED <<stateVars, try, stale, compacted, length, pinned, hand,
                 asked>>

\* The next of the models too small for the conversation.
SelectNext ==
  /\ step' = "selecting"
  /\ \E i \in try.blocked :
       /\ First(i, try.blocked)
       /\ try' = [try EXCEPT !.index = i, !.blocked = @ \ {i}]

\* Slip: a refused model counts as passed over, not as tried.
RefusedSkips ==
  /\ step = "selecting"
  /\ ~stale
  /\ IF try.blocked # {}
       THEN SelectNext
       ELSE Traverse
  /\ UNCHANGED <<activation, marked, event, tried, stale, compacted, length,
                 model, pinned, hand, asked>>

\* The engine refused the model: an attempt that failed, and a mark.  The next
\* model of the rescue is asked for, or the traversal starts again.
Refused ==
  /\ step = "selecting"
  /\ ~stale
  /\ tried' = tried \cup {Candidate}
  /\ Remember(Candidate, "lasting")
  /\ IF try.blocked # {}
       THEN SelectNext
       ELSE Traverse
  /\ UNCHANGED <<activation, event, stale, compacted, length, model, pinned,
                 hand, asked>>

\* A stale failover that is refused writes its mark down before it ends.
RefusedLate ==
  /\ step = "selecting"
  /\ stale
  /\ Remember(Candidate, "lasting")
  /\ End
  /\ UNCHANGED <<activation, model, pinned, hand>>

\* Slip: the position counted from zero.
MoveToFromZero(i) ==
  activation' = IF activation = None THEN None
                                     ELSE [activation EXCEPT !.position = i - 1]

MoveTo(i) ==
  activation' = IF activation = None THEN None
                                     ELSE [activation EXCEPT !.position = i]

\* Slip: the activation moves only once the conversation is known to fit.
SelectedStands ==
  /\ step = "selected"
  /\ ~stale
  /\ IF try.rescue
       THEN /\ step' = "compacting"
            /\ compacted' = TRUE
            /\ UNCHANGED <<activation, asked>>
       ELSE /\ MoveTo(try.index)
            /\ step' = "answering"
            /\ asked' = asked \cup {Candidate}
            /\ UNCHANGED compacted
  /\ UNCHANGED <<marked, event, tried, try, stale, length, model, pinned, hand>>

\* setModel returned: the activation moves.  A model that is too small is
\* compacted for, any other is sent the turn.
Selected ==
  /\ step = "selected"
  /\ ~stale
  /\ MoveTo(try.index)
  /\ IF try.rescue
       THEN /\ step' = "compacting"
            /\ compacted' = TRUE
            /\ UNCHANGED asked
       ELSE /\ step' = "answering"
            /\ asked' = asked \cup {Candidate}
            /\ UNCHANGED compacted
  /\ UNCHANGED <<marked, event, tried, try, stale, length, model,
                 pinned, hand>>

\* A stale failover moves whatever activation there is before it ends.
SelectedLate ==
  /\ step = "selected"
  /\ stale
  /\ MoveTo(try.index)
  /\ End
  /\ UNCHANGED <<marked, model, pinned, hand>>

\* The compaction ended with an estimate.  Too long still: a larger model may
\* come after this one.
Compacted(n) ==
  /\ step = "compacting"
  /\ ~stale
  /\ length' = n
  /\ IF n > Window[Candidate]
       THEN /\ Traverse
            /\ UNCHANGED asked
       ELSE /\ step' = "answering"
            /\ asked' = asked \cup {Candidate}
            /\ UNCHANGED try
  /\ UNCHANGED <<stateVars, stale, compacted, model, pinned, hand>>

CompactionFails ==
  /\ step = "compacting"
  /\ ~stale
  /\ Exhausted

\* The turn was answered by a normal response: the session stays here.
Answered ==
  /\ step = "answering"
  /\ ~stale
  /\ MoveTo(try.index)
  /\ End
  /\ UNCHANGED <<marked, model, pinned, hand>>

AnswerFails(f) ==
  /\ step = "answering"
  /\ ~stale
  /\ Remember(Candidate, f)
  /\ IF f = "alien"
       THEN End
       ELSE /\ tried' = tried \cup {Candidate}
            /\ Traverse
            /\ UNCHANGED <<event, stale, compacted, length, asked>>
  /\ UNCHANGED <<activation, model, pinned, hand>>

Failover ==
  \/ Abandon
  \/ \E usable \in SUBSET Models, n \in Lengths : ReadCatalogue(usable, n)
  \/ EngineSelects
  \/ Refused
  \/ RefusedLate
  \/ Selected
  \/ SelectedLate
  \/ \E n \in Lengths : Compacted(n)
  \/ CompactionFails
  \/ Answered
  \/ \E f \in Failures : AnswerFails(f)

-----------------------------------------------------------------------------
(* The person.                                                             *)

SetHand(c, at, m, p) ==
  hand' = [hand EXCEPT ![c] = [at |-> at, model |-> m, models |-> p]]

\* stopInFlight, then the fresh start a choice is: its marks are cleared.
StartAfresh(act) ==
  /\ activation' = act
  /\ marked' = {}
  /\ event' = "none" /\ tried' = {}
  /\ stale' = (step # "idle")
  /\ UNCHANGED <<step, try, compacted, length, asked>>

\* abort, a cancelled turn, dispose.
Cancel ==
  /\ step # "idle"
  /\ stale' = TRUE
  /\ UNCHANGED <<stateVars, step, try, compacted, length, model, pinned,
                 hand, asked>>

\* Bound: after a choice that went wrong no other is made.
MayChoose(c) == hand[c].at = "idle" /\ ~torn

Pin(c, m) ==
  /\ MayChoose(c)
  /\ SetHand(c, "pinning", m, << >>)
  /\ UNCHANGED <<stateVars, localVars, model, pinned, asked>>

\* The choice counts before the engine was asked for the first model.
Choose(c, p) ==
  /\ MayChoose(c)
  /\ StartAfresh(Standing(p, 1))
  /\ SetHand(c, "anchoring", p[1], << >>)
  /\ UNCHANGED <<model, pinned>>

\* External: the engine's setModel for a person takes effect.
EngineSets(c) ==
  /\ hand[c].at \in {"pinning", "anchoring", "moving"}
  /\ model' = hand[c].model
  /\ CASE hand[c].at = "pinning" ->
            SetHand(c, "pinned", hand[c].model, << >>) /\ UNCHANGED pinned
       [] hand[c].at = "anchoring" ->
            SetHand(c, "anchored", None, << >>) /\ UNCHANGED pinned
       [] OTHER ->
            SetHand(c, "idle", None, << >>) /\ pinned' = None
  /\ UNCHANGED <<stateVars, localVars, asked>>

OnPin(c) ==
  /\ hand[c].at = "pinned"
  /\ pinned' = hand[c].model
  /\ StartAfresh(None)
  /\ SetHand(c, "idle", None, << >>)
  /\ UNCHANGED model

\* startWalk, as far as the catalogue: only from the first position, and only
\* when nothing has failed here yet.
Anchored(c) ==
  /\ hand[c].at = "anchored"
  /\ IF activation # None /\ activation.position = 1 /\ event = "none"
       THEN SetHand(c, "walking", None, activation.models) /\ UNCHANGED pinned
       ELSE SetHand(c, "idle", None, << >>) /\ pinned' = None
  /\ UNCHANGED <<stateVars, localVars, model, asked>>

\* The catalogue answered the walk, which writes the activation it began with.
Walked(c, usable) ==
  /\ hand[c].at = "walking"
  /\ \E i \in DOMAIN hand[c].models :
       /\ StartsAt(i, hand[c].models, usable)
       /\ IF i = 1
            THEN /\ SetHand(c, "idle", None, << >>)
                 /\ pinned' = None
                 /\ UNCHANGED <<activation, event, tried>>
            ELSE /\ activation' = Standing(hand[c].models, i)
                 /\ event' = "over" /\ tried' = {}
                 /\ SetHand(c, "moving", hand[c].models[i], << >>)
                 /\ UNCHANGED pinned
  /\ UNCHANGED <<marked, localVars, model, asked>>

\* The engine refuses the model of a pin: the request fails, nothing changed.
PinRefused(c) ==
  /\ hand[c].at = "pinning"
  /\ SetHand(c, "idle", None, << >>)
  /\ UNCHANGED <<stateVars, localVars, model, pinned, asked>>

\* The engine refuses the first model of a profile, or the one the walk found:
\* the request fails after its choice was made.
ChoiceRefused(c) ==
  /\ hand[c].at \in {"anchoring", "moving"}
  /\ SetHand(c, "idle", None, << >>)
  /\ UNCHANGED <<stateVars, localVars, model, pinned, asked>>

\* The engine does not know the first model at all: it is not asked for it, and
\* the walk begins.
ChooseUnknown(c, p) ==
  /\ MayChoose(c)
  /\ StartAfresh(Standing(p, 1))
  /\ SetHand(c, "walking", None, p)
  /\ UNCHANGED <<model, pinned>>

-----------------------------------------------------------------------------

Busy == {c \in Choosers : hand[c].at # "idle"}

\* A person's request and another setModel, or another traversal of the same
\* activation, are in flight at once.
Crossing ==
  \E c \in Busy :
    \/ step \in {"selecting", "selected"}
    \/ Busy # {c}
    \/ step # "idle" /\ ~stale /\ hand[c].at \notin {"pinning", "pinned"}

Whole ==
  \/ \E f \in {"passing", "lasting"} : Settle(f)
  \/ Failover
  \/ Cancel
  \/ \E c \in Choosers :
       \/ \E m \in Models : Pin(c, m)
       \/ \E p \in Profiles : Choose(c, p)
       \/ EngineSets(c)
       \/ OnPin(c)
       \/ Anchored(c)
       \/ \E usable \in SUBSET Models : Walked(c, usable)
       \/ PinRefused(c)

Cut ==
  \E c \in Choosers :
    \/ ChoiceRefused(c)
    \/ \E p \in Profiles : ChooseUnknown(c, p)

Next ==
  \/ Whole /\ torn' = (torn \/ Crossing')
  \/ Cut /\ torn' = TRUE

\* Every await of a failover ends: the engine and the provider answer, and a
\* continued turn has a bounded number of retries.
Spec == Init /\ [][Next]_vars /\ WF_vars(Failover /\ torn' = (torn \/ Crossing'))

-----------------------------------------------------------------------------
(* Properties.                                                             *)

Quiet == step = "idle" /\ Busy = {}

\* While nothing is between a setModel and its return, the session stands on
\* the model the engine has: what the person reads as position of the profile
\* is the model that answers.  It must hold through refusals, exhaustion,
\* cancels and a compaction for a model that turned out too small.  Choices
\* that were refused or met another call in flight are left out (`torn`).
StandsOnSelected ==
  (~torn /\ Busy = {} /\ activation # None
     /\ step \notin {"selecting", "selected"}) =>
    /\ activation.position \in DOMAIN activation.models
    /\ model = activation.models[activation.position]

\* No model is sent the failed turn twice in one failover, the one that failed
\* first included, although the traversal turns back to earlier models, starts
\* again after every refusal and after the compaction, and cooldowns end
\* meanwhile.
OneTryEach ==
  [][(step' = "answering" /\ step # "answering" /\ ~torn') =>
       try'.models[try'.index] \notin asked]_vars

\* A failover ends: it never knocks on the same door for ever, and the session
\* takes prompts again.
FailoverEnds == (step # "idle") ~> (step = "idle")

\* How far a failover is from its end.  Once it is stale one await is left, or
\* two before the engine answered its setModel; before that, every model still
\* untried is worth a traversal, and so is the one compaction.
Distance == [idle |-> 0, answering |-> 1, selected |-> 3, selecting |-> 4,
             reading |-> 5, compacting |-> 6]
Worth(t, c) == 6 * Cardinality(Models \ t) + (IF c THEN 0 ELSE 4)
Rank ==
  IF step = "idle" THEN 0
  ELSE IF stale THEN IF step = "selecting" THEN 2 ELSE 1
  ELSE Worth(tried, compacted) + Distance[step]

\* Every await of a failover brings it nearer to its end, whatever was refused,
\* compacted or passed over, even when a person's requests meet it on the way;
\* and unless a walk empties its tried models under it, nobody moves it away
\* from there.  So one failover takes a bounded number of steps, however the
\* refusals, cooldowns and restarts fall out.
FailoverDescends ==
  [][/\ Failover => Rank' < Rank
     /\ (step # "idle" /\ ~torn') => Rank' <= Rank]_vars

\* What engine.test.ts calls a person's choice having the last word over a
\* switch already in flight: with nothing in flight, a session that was pinned
\* is on the model it was pinned to.
PersonHasTheLastWord ==
  (Quiet /\ activation = None /\ pinned # None) => model = pinned

=============================================================================
