------------------------- MODULE ModelFallbackProofs ------------------------
(***************************************************************************)
(* Theorems about ModelFallback, for any models, profiles, windows and     *)
(* number of choosers: the types, that a session stands on the model its   *)
(* engine has selected, and that a failover asks no model twice.           *)
(*                                                                         *)
(* IInv says what holds between two awaits: what the traversal knows of    *)
(* the models it tried (Ahead), that it is about the models the activation *)
(* stands on (Same), where the engine's model agrees with it (Stands), and *)
(* what a person's request waits for (Held).  All four hold only while no  *)
(* two requests have crossed (Crossed, Uncrossed).                         *)
(***************************************************************************)
EXTENDS ModelFallback, FiniteSetTheorems, TLAPS

\* What is left of a rescue are positions of the profile.
BlockedIn == step # "idle" => try.blocked \subseteq DOMAIN try.models

\* A failover nobody has ended has a profile to move in.
Wanted == (step # "idle" /\ ~stale) => activation # None

\* `torn` remembers every crossing, the one that is going on included.
Crossed == Crossing => torn

\* The models that were asked are among those tried, the one that is being
\* asked aside, and the candidates still to come are not.
Ahead ==
  (~torn /\ ~stale /\ step # "idle") =>
    /\ asked \subseteq tried \cup IF step = "answering" THEN {Candidate} ELSE {}
    /\ step \in {"selecting", "selected", "compacting"} =>
         /\ Candidate \notin tried
         /\ \A i \in try.blocked : i # try.index /\ try.models[i] \notin tried

\* The traversal and the activation are about the same models.
Same ==
  ~torn =>
    /\ activation # None => activation.position \in DOMAIN activation.models
    /\ (step \in {"selecting", "selected"} \/ (step # "idle" /\ ~stale)) =>
         activation # None /\ activation.models = try.models
    /\ (step \in {"compacting", "answering"} /\ ~stale) =>
         activation.position = try.index
    /\ step = "selected" => model = Candidate

\* The requests during which the session stands where it should.
Still == {"idle", "pinning", "anchored", "walking"}
Stands ==
  (~torn /\ activation # None /\ step # "selected"
     /\ \A x \in Choosers : hand[x].at \in Still) =>
    model = activation.models[activation.position]

\* The model a choice waits for is the one the activation names already.
Held ==
  ~torn => \A x \in Choosers :
    /\ hand[x].at \in {"anchoring", "walking", "moving"} => activation # None
    /\ hand[x].at \in {"anchoring", "moving"} =>
         hand[x].model = activation.models[activation.position]
    /\ hand[x].at = "walking" =>
         hand[x].models = activation.models /\ activation.position = 1

IInv ==
  TypeOK /\ BlockedIn /\ Wanted /\ Crossed /\ Ahead /\ Same /\ Stands /\ Held

\* What an uncrossed choice means.
Uncrossed ==
  ~torn =>
    /\ \A x \in Choosers :
         /\ step \in {"selecting", "selected"} => hand[x].at = "idle"
         /\ hand[x].at \notin {"idle", "pinning", "pinned"} =>
              step = "idle" \/ stale
    /\ \A x, y \in Choosers :
         (hand[x].at # "idle" /\ hand[y].at # "idle") => x = y

\* History: a crossing is remembered by the step that makes it.
LEMMA CrossedNext == torn' = (torn \/ Crossing') => Crossed'
BY DEF Crossed

LEMMA UncrossedNow == Crossed => Uncrossed
BY DEF Crossed, Crossing, Busy, Uncrossed

LEMMA UncrossedNext == torn' = (torn \/ Crossing') => Uncrossed'
BY DEF Crossing, Busy, Uncrossed

\* A profile is a sequence of models that is not empty.
LEMMA ProfileModels ==
  ASSUME NEW p \in Profiles
  PROVE  p # << >> /\ DOMAIN p \subseteq Nat \ {0} /\ 1 \in DOMAIN p
           /\ \A i \in DOMAIN p : p[i] \in Models
BY FallbackAssumption

LEMMA Distinct ==
  ASSUME NEW p \in Profiles, NEW i \in DOMAIN p, NEW j \in DOMAIN p, i # j
  PROVE  p[i] # p[j]
BY FallbackAssumption

\* The candidate of a traversal is a model of its profile.
LEMMA CandidateIn ==
  ASSUME TypeOK, step \in {"selecting", "selected", "compacting", "answering"}
  PROVE  /\ Candidate \in Models
         /\ try.index \in Nat \ {0}
         /\ try.models \in Profiles
BY ProfileModels DEF TypeOK, Candidate

\* An activation is what it was made of.
LEMMA StandingType ==
  ASSUME NEW p \in Profiles, NEW i \in Nat \ {0}
  PROVE  /\ Standing(p, i) \in Activations
         /\ Standing(p, i) # None
         /\ Standing(p, i).models = p
         /\ Standing(p, i).position = i
BY FallbackAssumption DEF Standing, Activations

LEMMA NotNone == None \notin Activations
BY FallbackAssumption DEF Activations

LEMMA NoTryType == NoTry \in Tries
BY DEF NoTry, Tries

\* The top of the loop copies the activation.
LEMMA TraverseMoves ==
  ASSUME TypeOK, activation # None, Traverse
  PROVE  /\ step' = "reading"
         /\ try' \in Tries
         /\ try'.models = activation.models
         /\ try'.models \in Profiles
         /\ try'.position = activation.position
         /\ try'.blocked = {}
BY DEF TypeOK, Traverse, NoTry, Tries, Activations

\* Choosing a candidate changes nothing else of the traversal.
LEMMA SelectMoves ==
  ASSUME try \in Tries, NEW i \in Nat, NEW rest \in SUBSET Nat,
         NEW rescue \in BOOLEAN,
         try' = [try EXCEPT !.index = i, !.blocked = rest, !.rescue = rescue]
  PROVE  /\ try' \in Tries
         /\ try'.models = try.models
         /\ try'.position = try.position
         /\ try'.index = i
         /\ try'.blocked = rest
BY DEF Tries

\* The next of a rescue is one of those that were left.
LEMMA SelectNextMoves ==
  ASSUME TypeOK, SelectNext
  PROVE  /\ step' = "selecting"
         /\ try' \in Tries
         /\ try'.models = try.models
         /\ try'.position = try.position
         /\ try'.index \in try.blocked
         /\ try'.blocked = try.blocked \ {try'.index}
<1> PICK i \in try.blocked :
       try' = [try EXCEPT !.index = i, !.blocked = @ \ {i}]
  BY DEF SelectNext
<1> QED
  BY DEF SelectNext, TypeOK, Tries

\* Moving the activation keeps its models.
LEMMA MoveToMoves ==
  ASSUME activation \in Activations \cup {None}, NEW i \in Nat \ {0}, MoveTo(i)
  PROVE  /\ activation' \in Activations \cup {None}
         /\ activation = None <=> activation' = None
         /\ activation # None =>
              activation'.models = activation.models /\ activation'.position = i
BY NotNone DEF MoveTo, Activations

\* A request moves on without touching the others.
LEMMA SetHandMoves ==
  ASSUME hand \in [Choosers -> Hands], NEW c \in Choosers, NEW at \in HandSteps,
         NEW m \in Models \cup {None}, NEW p \in Profiles \cup {<< >>},
         SetHand(c, at, m, p)
  PROVE  /\ hand' \in [Choosers -> Hands]
         /\ hand'[c].at = at /\ hand'[c].model = m /\ hand'[c].models = p
         /\ \A x \in Choosers : x # c => hand'[x] = hand[x]
BY DEF SetHand, Hands

LEMMA InitInv == Init => IInv
<1> SUFFICES ASSUME Init PROVE IInv
  OBVIOUS
<1>1. IdleHand \in Hands
  BY DEF IdleHand, Hands, HandSteps
<1>2. TypeOK
  <2>1. activation \in Activations \cup {None} /\ model \in Models
    BY FallbackAssumption, ProfileModels DEF Init, Standing, Activations
  <2>2. QED
    BY <1>1, <2>1, NoTryType DEF Init, TypeOK, Steps, IdleHand
<1>3. QED
  BY <1>1, <1>2, ProfileModels
  DEF Init, IInv, BlockedIn, Wanted, Crossed, Crossing, Busy, Ahead, Same,
    Stands, Held, Standing, IdleHand

\* A failover that ends keeps the invariant.
LEMMA EndKeeps ==
  ASSUME IInv, Exhausted, step \in {"reading", "compacting", "answering"},
         torn' = (torn \/ Crossing')
  PROVE  IInv'
<1>0. Crossed' /\ Uncrossed'
  BY CrossedNext, UncrossedNext
<1>1. TypeOK'
  BY NoTryType DEF Exhausted, End, IInv, TypeOK, Steps
<1>2. BlockedIn' /\ Wanted' /\ Ahead'
  BY DEF Exhausted, End, BlockedIn, Wanted, Ahead
<1>3. Same'
  BY DEF Exhausted, End, IInv, Same
<1>4. Stands' /\ Held'
  BY DEF Exhausted, IInv, Stands, Held
<1>5. QED
  BY <1>0, <1>1, <1>2, <1>3, <1>4 DEF IInv

\* Every step keeps the invariant: one step per action, one below it per
\* part.
LEMMA NextInv == IInv /\ [Next]_vars => IInv'
<1> SUFFICES ASSUME IInv, [Next]_vars PROVE IInv'
  OBVIOUS
<1>0. Uncrossed
  BY UncrossedNow DEF IInv
<1>1. ASSUME NEW f \in Failures, Settle(f),
            torn' = (torn \/ Crossing')
     PROVE IInv'
  <2>0. Crossed' /\ Uncrossed'
    BY <1>1, CrossedNext, UncrossedNext
  <2>1. TypeOK'
    BY <1>1, <1>0, TraverseMoves, FallbackAssumption
    DEF IInv, TypeOK, Steps, Settle, Remember
  <2>2. BlockedIn'
    BY <1>1, <1>0, TraverseMoves DEF IInv, BlockedIn, Settle
  <2>3. Wanted'
    BY <1>1, <1>0 DEF Wanted, Settle
  <2>4. Ahead'
    BY <1>1, <1>0, TraverseMoves, <2>0 DEF IInv, Ahead, Settle
  <2>5. Same'
    BY <1>1, <1>0, TraverseMoves, <2>0 DEF IInv, Same, Settle
  <2>6. Stands'
    BY <1>1, <1>0, <2>0 DEF IInv, Stands, Settle
  <2>7. Held'
    BY <1>1, <1>0, <2>0 DEF IInv, Held, Settle
  <2>8. QED
    BY <2>0, <2>1, <2>2, <2>3, <2>4, <2>5, <2>6, <2>7 DEF IInv
<1>2. ASSUME Abandon,
            torn' = (torn \/ Crossing')
     PROVE IInv'
  BY <1>2, EndKeeps DEF Abandon, Exhausted
<1>3. ASSUME NEW usable \in SUBSET Models, NEW n \in Lengths, ReadCatalogue(usable, n),
            torn' = (torn \/ Crossing')
     PROVE IInv'
  <2>0. Crossed' /\ Uncrossed'
    BY <1>3, CrossedNext, UncrossedNext
  <2>1. CASE Exhausted
    <3>1. step = "reading" /\ ~stale
      BY <1>3 DEF ReadCatalogue
    <3>2. QED
      BY <1>3, <2>1, <3>1, EndKeeps
  <2>2. CASE ~Exhausted
    <3>1. PICK i \in Others(usable), rest \in SUBSET Others(usable),
               rescue \in BOOLEAN : i \notin rest /\ Select(i, rest, rescue)
      BY <1>3, <2>2 DEF ReadCatalogue, Fitting, Blocked
    <3>2. /\ i \in DOMAIN try.models /\ rest \subseteq DOMAIN try.models
          /\ try.models \in Profiles
          /\ \A j \in rest \cup {i} : try.models[j] \notin tried
      BY <1>3 DEF ReadCatalogue, Others, Eligible, IInv, TypeOK
    <3>3. i \in Nat /\ rest \in SUBSET Nat
      BY <3>2, ProfileModels
    <3>4. /\ try' \in Tries
          /\ try'.models = try.models
          /\ try'.position = try.position
          /\ try'.index = i
          /\ try'.blocked = rest
      BY <3>1, <3>3, SelectMoves DEF Select, IInv, TypeOK
    <3>5. step = "reading" /\ step' = "selecting" /\ ~stale
      BY <1>3, <3>1 DEF ReadCatalogue, Select
    <3>6. TypeOK'
      <4>1. torn' \in BOOLEAN
        BY <1>3 DEF IInv, TypeOK
      <4>2. try'.models \in Profiles /\ try'.index \in DOMAIN try'.models
        BY <3>2, <3>4
      <4>3. QED
        BY <3>1, <3>4, <3>5, <4>1, <4>2
        DEF Select, stateVars, IInv, TypeOK, Steps
    <3>7. BlockedIn' /\ Wanted'
      BY <3>1, <3>2, <3>4, <3>5 DEF Select, stateVars, IInv, BlockedIn, Wanted
    <3>8. Ahead'
      <4>1. ~torn' => asked' \subseteq tried'
        BY <1>3, <3>1, <3>5 DEF Select, stateVars, IInv, Ahead
      <4>2. Candidate' = try.models[i] /\ tried' = tried
        BY <3>1, <3>4 DEF Select, stateVars, Candidate
      <4>3. \A j \in try'.blocked :
              j # try'.index /\ try'.models[j] \notin tried'
        BY <3>1, <3>2, <3>4, <4>2
      <4>4. QED
        BY <3>2, <3>5, <4>1, <4>2, <4>3 DEF Ahead
    <3>9. Same'
      BY <1>3, <3>1, <3>4, <3>5 DEF Select, stateVars, IInv, Same
    <3>10. Stands' /\ Held'
      BY <1>3, <3>1, <3>5 DEF Select, stateVars, IInv, Stands, Held
    <3>11. QED
      BY <2>0, <3>6, <3>7, <3>8, <3>9, <3>10 DEF IInv
  <2>3. QED
    BY <2>1, <2>2
<1>4. ASSUME EngineSelects,
            torn' = (torn \/ Crossing')
     PROVE IInv'
  <2>0. Crossed' /\ Uncrossed'
    BY <1>4, CrossedNext, UncrossedNext
  <2>1. TypeOK'
    BY <1>4, <1>0, CandidateIn
    DEF IInv, TypeOK, stateVars, Steps, EngineSelects
  <2>2. BlockedIn'
    BY <1>4, <1>0 DEF IInv, BlockedIn, EngineSelects
  <2>3. Wanted'
    BY <1>4, <1>0 DEF IInv, Wanted, stateVars, EngineSelects
  <2>4. Ahead'
    BY <1>4, <1>0, <2>0 DEF IInv, Ahead, Candidate, stateVars, EngineSelects
  <2>5. Same'
    BY <1>4, <1>0, <2>0 DEF IInv, Same, Candidate, stateVars, EngineSelects
  <2>6. Stands'
    BY <1>4, <1>0, <2>0 DEF Stands, EngineSelects
  <2>7. Held'
    BY <1>4, <1>0, <2>0 DEF Held, Uncrossed, EngineSelects
  <2>8. QED
    BY <2>0, <2>1, <2>2, <2>3, <2>4, <2>5, <2>6, <2>7 DEF IInv
<1>5. ASSUME Refused,
            torn' = (torn \/ Crossing')
     PROVE IInv'
  <2>0. Crossed' /\ Uncrossed'
    BY <1>5, CrossedNext, UncrossedNext
  <2>1. TypeOK'
    BY <1>5, <1>0, TraverseMoves, SelectNextMoves, CandidateIn
    DEF IInv, TypeOK, BlockedIn, Wanted, Steps, Refused, Remember
  <2>2. BlockedIn'
    BY <1>5, <1>0, TraverseMoves, SelectNextMoves
    DEF IInv, BlockedIn, Wanted, Refused
  <2>3. Wanted'
    BY <1>5, <1>0 DEF IInv, Wanted, Refused
  <2>4. Ahead'
    <3> SUFFICES ASSUME ~torn' PROVE Ahead'
      BY DEF Ahead
    <3>1. CASE try.blocked # {}
      <4>1. /\ step' = "selecting"
            /\ try'.models = try.models
            /\ try'.index \in try.blocked
            /\ try'.blocked = try.blocked \ {try'.index}
        BY <1>5, <3>1, SelectNextMoves DEF Refused, IInv
      <4>2. /\ asked \subseteq tried
            /\ \A i \in try.blocked : i # try.index /\ try.models[i] \notin tried
        BY <1>5 DEF Refused, IInv, Ahead
      <4>3. \A i \in try.blocked : try.models[i] # Candidate
        <5> SUFFICES ASSUME NEW i \in try.blocked PROVE try.models[i] # Candidate
          OBVIOUS
        <5>1. i \in DOMAIN try.models /\ try.index \in DOMAIN try.models
                /\ try.models \in Profiles
          BY <1>5 DEF Refused, IInv, TypeOK, BlockedIn
        <5>2. QED
          BY <4>2, <5>1, Distinct DEF Candidate
      <4>4. asked' = asked /\ tried' = tried \cup {Candidate}
        BY <1>5 DEF Refused
      <4>5. QED
        BY <4>1, <4>2, <4>3, <4>4 DEF Ahead, Candidate
    <3>2. CASE try.blocked = {}
      BY <1>5, <3>2, TraverseMoves DEF Refused, IInv, Wanted, Ahead
    <3>3. QED
      BY <3>1, <3>2
  <2>5. Same'
    BY <1>5, <1>0, TraverseMoves, SelectNextMoves, <2>0
    DEF IInv, Same, Refused
  <2>6. Stands'
    BY <1>5, <1>0, <2>0 DEF IInv, Stands, Refused
  <2>7. Held'
    BY <1>5, <1>0, <2>0 DEF Held, Uncrossed, Refused
  <2>8. QED
    BY <2>0, <2>1, <2>2, <2>3, <2>4, <2>5, <2>6, <2>7 DEF IInv
<1>6. ASSUME RefusedLate,
            torn' = (torn \/ Crossing')
     PROVE IInv'
  <2>0. Crossed' /\ Uncrossed'
    BY <1>6, CrossedNext, UncrossedNext
  <2>1. TypeOK'
    BY <1>6, <1>0, NoTryType, CandidateIn
    DEF IInv, TypeOK, Steps, RefusedLate, Remember, End
  <2>2. BlockedIn'
    BY <1>6, <1>0 DEF BlockedIn, RefusedLate, End
  <2>3. Wanted'
    BY <1>6, <1>0 DEF Wanted, RefusedLate, End
  <2>4. Ahead'
    BY <1>6, <1>0, <2>0 DEF Ahead, RefusedLate, End
  <2>5. Same'
    BY <1>6, <1>0, <2>0 DEF IInv, Same, RefusedLate, End
  <2>6. Stands'
    BY <1>6, <1>0, <2>0 DEF IInv, Stands, RefusedLate
  <2>7. Held'
    BY <1>6, <1>0, <2>0 DEF Held, Uncrossed, RefusedLate
  <2>8. QED
    BY <2>0, <2>1, <2>2, <2>3, <2>4, <2>5, <2>6, <2>7 DEF IInv
<1>7. ASSUME Selected,
            torn' = (torn \/ Crossing')
     PROVE IInv'
  <2>0. Crossed' /\ Uncrossed'
    BY <1>7, CrossedNext, UncrossedNext
  <2>1. TypeOK'
    <3>1. activation' \in Activations \cup {None}
      BY <1>7, MoveToMoves, CandidateIn DEF Selected, IInv, TypeOK
    <3>2. Candidate \in Models /\ try.index \in DOMAIN try.models
      BY <1>7, CandidateIn DEF Selected, IInv, TypeOK
    <3>3. QED
      BY <1>7, <3>1, <3>2 DEF Selected, IInv, TypeOK, Steps
  <2>2. BlockedIn'
    BY <1>7, <1>0 DEF IInv, BlockedIn, Selected
  <2>3. Wanted'
    BY <1>7, <1>0, MoveToMoves, CandidateIn DEF IInv, Wanted, TypeOK, Selected
  <2>4. Ahead'
    BY <1>7, <1>0, <2>0 DEF IInv, Ahead, Candidate, Selected
  <2>5. Same'
    BY <1>7, <1>0, MoveToMoves, CandidateIn, <2>0
    DEF IInv, TypeOK, Same, Selected
  <2>6. Stands'
    BY <1>7, <1>0, MoveToMoves, CandidateIn, <2>0
    DEF IInv, TypeOK, Same, Stands, Candidate, Selected
  <2>7. Held'
    BY <1>7, <1>0, <2>0 DEF Held, Uncrossed, Selected
  <2>8. QED
    BY <2>0, <2>1, <2>2, <2>3, <2>4, <2>5, <2>6, <2>7 DEF IInv
<1>8. ASSUME SelectedLate,
            torn' = (torn \/ Crossing')
     PROVE IInv'
  <2>0. Crossed' /\ Uncrossed'
    BY <1>8, CrossedNext, UncrossedNext
  <2>1. TypeOK'
    BY <1>8, <1>0, NoTryType, MoveToMoves, CandidateIn
    DEF IInv, TypeOK, Steps, SelectedLate, End
  <2>2. BlockedIn'
    BY <1>8, <1>0 DEF BlockedIn, SelectedLate, End
  <2>3. Wanted'
    BY <1>8, <1>0 DEF Wanted, SelectedLate, End
  <2>4. Ahead'
    BY <1>8, <1>0, <2>0 DEF Ahead, SelectedLate, End
  <2>5. Same'
    BY <1>8, <1>0, MoveToMoves, CandidateIn, <2>0
    DEF IInv, TypeOK, Same, SelectedLate, End
  <2>6. Stands'
    BY <1>8, <1>0, MoveToMoves, CandidateIn, <2>0
    DEF IInv, TypeOK, Same, Stands, Candidate, SelectedLate
  <2>7. Held'
    BY <1>8, <1>0, <2>0 DEF Held, Uncrossed, SelectedLate
  <2>8. QED
    BY <2>0, <2>1, <2>2, <2>3, <2>4, <2>5, <2>6, <2>7 DEF IInv
<1>9. ASSUME NEW n \in Lengths, Compacted(n),
            torn' = (torn \/ Crossing')
     PROVE IInv'
  <2>0. Crossed' /\ Uncrossed'
    BY <1>9, CrossedNext, UncrossedNext
  <2>1. TypeOK'
    BY <1>9, <1>0, TraverseMoves, CandidateIn
    DEF IInv, TypeOK, Wanted, stateVars, Steps, Compacted
  <2>2. BlockedIn'
    BY <1>9, <1>0, TraverseMoves DEF IInv, BlockedIn, Wanted, Compacted
  <2>3. Wanted'
    BY <1>9, <1>0 DEF IInv, Wanted, stateVars, Compacted
  <2>4. Ahead'
    BY <1>9, <1>0, TraverseMoves, <2>0
    DEF IInv, Wanted, Ahead, Candidate, stateVars, Compacted
  <2>5. Same'
    BY <1>9, <1>0, TraverseMoves, <2>0 DEF IInv, Same, stateVars, Compacted
  <2>6. Stands'
    BY <1>9, <1>0, <2>0 DEF IInv, Stands, stateVars, Compacted
  <2>7. Held'
    BY <1>9, <1>0, <2>0 DEF Held, Uncrossed, Compacted
  <2>8. QED
    BY <2>0, <2>1, <2>2, <2>3, <2>4, <2>5, <2>6, <2>7 DEF IInv
<1>10. ASSUME CompactionFails,
            torn' = (torn \/ Crossing')
     PROVE IInv'
  BY <1>10, EndKeeps DEF CompactionFails
<1>11. ASSUME Answered,
            torn' = (torn \/ Crossing')
     PROVE IInv'
  <2>0. Crossed' /\ Uncrossed'
    BY <1>11, CrossedNext, UncrossedNext
  <2>1. TypeOK'
    BY <1>11, <1>0, NoTryType, MoveToMoves, CandidateIn
    DEF IInv, TypeOK, Steps, Answered, End
  <2>2. BlockedIn'
    BY <1>11, <1>0 DEF BlockedIn, Answered, End
  <2>3. Wanted'
    BY <1>11, <1>0 DEF Wanted, Answered, End
  <2>4. Ahead'
    BY <1>11, <1>0, <2>0 DEF Ahead, Answered, End
  <2>5. Same'
    BY <1>11, <1>0, MoveToMoves, CandidateIn, <2>0
    DEF IInv, TypeOK, Same, Answered, End
  <2>6. Stands'
    BY <1>11, <1>0, MoveToMoves, CandidateIn, <2>0
    DEF IInv, TypeOK, Same, Stands, Answered
  <2>7. Held'
    BY <1>11, <1>0, <2>0 DEF Held, Uncrossed, Answered
  <2>8. QED
    BY <2>0, <2>1, <2>2, <2>3, <2>4, <2>5, <2>6, <2>7 DEF IInv
<1>12. ASSUME NEW f \in Failures, AnswerFails(f),
            torn' = (torn \/ Crossing')
     PROVE IInv'
  <2>0. Crossed' /\ Uncrossed'
    BY <1>12, CrossedNext, UncrossedNext
  <2>1. TypeOK'
    <3>1. Candidate \in Models
      BY <1>12, CandidateIn DEF AnswerFails, IInv
    <3>2. marked' \subseteq Models
      BY <1>12, <3>1 DEF AnswerFails, Remember, IInv, TypeOK
    <3>3. CASE f = "alien"
      BY <1>12, <3>2, <3>3, NoTryType
      DEF AnswerFails, End, IInv, TypeOK, Steps
    <3>4. CASE f # "alien"
      BY <1>12, <3>1, <3>2, <3>4, TraverseMoves
      DEF AnswerFails, IInv, TypeOK, Wanted, Steps
    <3>5. QED
      BY <3>3, <3>4
  <2>2. BlockedIn'
    BY <1>12, <1>0, TraverseMoves
    DEF IInv, BlockedIn, Wanted, AnswerFails, End
  <2>3. Wanted'
    BY <1>12, <1>0 DEF IInv, Wanted, AnswerFails
  <2>4. Ahead'
    BY <1>12, <1>0, TraverseMoves, <2>0
    DEF IInv, Wanted, Ahead, AnswerFails, End
  <2>5. Same'
    BY <1>12, <1>0, TraverseMoves, <2>0 DEF IInv, Same, AnswerFails, End
  <2>6. Stands'
    BY <1>12, <1>0, <2>0 DEF IInv, Stands, AnswerFails
  <2>7. Held'
    BY <1>12, <1>0, <2>0 DEF Held, Uncrossed, AnswerFails
  <2>8. QED
    BY <2>0, <2>1, <2>2, <2>3, <2>4, <2>5, <2>6, <2>7 DEF IInv
<1>13. ASSUME Cancel,
            torn' = (torn \/ Crossing')
     PROVE IInv'
  <2>0. Crossed' /\ Uncrossed'
    BY <1>13, CrossedNext, UncrossedNext
  <2>1. TypeOK'
    BY <1>13, <1>0 DEF IInv, TypeOK, stateVars, Cancel
  <2>2. BlockedIn'
    BY <1>13, <1>0 DEF IInv, BlockedIn, Cancel
  <2>3. Wanted'
    BY <1>13, <1>0 DEF Wanted, Cancel
  <2>4. Ahead'
    BY <1>13, <1>0, <2>0 DEF Ahead, Cancel
  <2>5. Same'
    BY <1>13, <1>0, <2>0 DEF IInv, Same, Candidate, stateVars, Cancel
  <2>6. Stands'
    BY <1>13, <1>0, <2>0 DEF IInv, Stands, stateVars, Cancel
  <2>7. Held'
    BY <1>13, <1>0, <2>0 DEF IInv, Held, stateVars, Cancel
  <2>8. QED
    BY <2>0, <2>1, <2>2, <2>3, <2>4, <2>5, <2>6, <2>7 DEF IInv
<1>14. ASSUME NEW c \in Choosers, NEW m \in Models, Pin(c, m),
            torn' = (torn \/ Crossing')
     PROVE IInv'
  <2>0. Crossed' /\ Uncrossed'
    BY <1>14, CrossedNext, UncrossedNext
  <2>a. SetHand(c, "pinning", m, << >>)
    BY <1>14 DEF Pin
  <2>h. /\ hand' \in [Choosers -> Hands]
        /\ hand'[c].at = "pinning" /\ hand'[c].model = m /\ hand'[c].models = << >>
        /\ \A x \in Choosers : x # c => hand'[x] = hand[x]
    BY <1>14, <2>a, SetHandMoves, ProfileModels DEF IInv, TypeOK, HandSteps
  <2>1. TypeOK'
    BY <1>14, <1>0, <2>h DEF IInv, TypeOK, stateVars, Pin, localVars
  <2>2. BlockedIn'
    BY <1>14, <1>0, <2>h DEF IInv, BlockedIn, Pin, localVars
  <2>3. Wanted'
    BY <1>14, <1>0, <2>h DEF IInv, Wanted, stateVars, Pin, localVars
  <2>4. Ahead'
    BY <1>14, <1>0, <2>h, <2>0
    DEF IInv, Ahead, Candidate, stateVars, Pin, localVars
  <2>5. Same'
    BY <1>14, <1>0, <2>h, <2>0
    DEF IInv, Same, stateVars, Uncrossed, Pin, localVars
  <2>6. Stands'
    BY <1>14, <1>0, <2>h, <2>0
    DEF IInv, Stands, Still, stateVars, Pin, MayChoose, localVars
  <2>7. Held'
    BY <1>14, <1>0, <2>h, <2>0 DEF Held, Uncrossed
  <2>8. QED
    BY <2>0, <2>1, <2>2, <2>3, <2>4, <2>5, <2>6, <2>7 DEF IInv
<1>15. ASSUME NEW c \in Choosers, NEW p \in Profiles, Choose(c, p),
            torn' = (torn \/ Crossing')
     PROVE IInv'
  <2>0. Crossed' /\ Uncrossed'
    BY <1>15, CrossedNext, UncrossedNext
  <2>a. SetHand(c, "anchoring", p[1], << >>)
    BY <1>15 DEF Choose
  <2>h. /\ hand' \in [Choosers -> Hands]
        /\ hand'[c].at = "anchoring" /\ hand'[c].model = p[1] /\ hand'[c].models = << >>
        /\ \A x \in Choosers : x # c => hand'[x] = hand[x]
    BY <1>15, <2>a, SetHandMoves, ProfileModels DEF IInv, TypeOK, HandSteps
  <2>1. TypeOK'
    BY <1>15, <1>0, <2>h, ProfileModels, StandingType
    DEF IInv, TypeOK, Choose, StartAfresh
  <2>2. BlockedIn'
    BY <1>15, <1>0, <2>h DEF IInv, BlockedIn, Choose, StartAfresh
  <2>3. Wanted'
    BY <1>15, <1>0, <2>h DEF Wanted, Choose, StartAfresh
  <2>4. Ahead'
    BY <1>15, <1>0, <2>h, <2>0 DEF Ahead, Choose, StartAfresh
  <2>5. Same'
    BY <1>15, <1>0, <2>h, ProfileModels, StandingType, <2>0
    DEF Same, Uncrossed, Choose, StartAfresh
  <2>6. Stands'
    BY <1>15, <1>0, <2>h, <2>0 DEF Stands, Still
  <2>7. Held'
    BY <1>15, <1>0, <2>h, StandingType, <2>0
    DEF Held, Uncrossed, Choose, StartAfresh
  <2>8. QED
    BY <2>0, <2>1, <2>2, <2>3, <2>4, <2>5, <2>6, <2>7 DEF IInv
<1>16. ASSUME NEW c \in Choosers, EngineSets(c),
            torn' = (torn \/ Crossing')
     PROVE IInv'
  <2>0. Crossed' /\ Uncrossed'
    BY <1>16, CrossedNext, UncrossedNext
  <2>m. hand[c].model \in Models
    BY <1>16 DEF EngineSets, IInv, TypeOK
  <2>e. /\ model' = hand[c].model
        /\ UNCHANGED <<stateVars, localVars, asked>>
        /\ \A x \in Choosers : x # c => hand'[x] = hand[x]
        /\ hand' \in [Choosers -> Hands]
        /\ hand[c].at = "pinning" =>
             hand'[c].at = "pinned" /\ hand'[c].model = hand[c].model
               /\ pinned' = pinned
        /\ hand[c].at = "anchoring" =>
             hand'[c].at = "anchored" /\ hand'[c].model = None
               /\ pinned' = pinned
        /\ hand[c].at = "moving" =>
             hand'[c].at = "idle" /\ hand'[c].model = None
               /\ pinned' = None
    <3>0. hand \in [Choosers -> Hands] /\ << >> \in Profiles \cup {<< >>}
            /\ hand[c].at \in {"pinning", "anchoring", "moving"}
      BY <1>16 DEF EngineSets, IInv, TypeOK
    <3>1. CASE hand[c].at = "pinning"
      <4>1. SetHand(c, "pinned", hand[c].model, << >>)
        BY <1>16, <3>1 DEF EngineSets
      <4>2. QED
        BY <1>16, <3>0, <3>1, <4>1, <2>m, SetHandMoves
        DEF EngineSets, HandSteps
    <3>2. CASE hand[c].at = "anchoring"
      <4>1. SetHand(c, "anchored", None, << >>)
        BY <1>16, <3>2 DEF EngineSets
      <4>2. QED
        BY <1>16, <3>0, <3>2, <4>1, SetHandMoves DEF EngineSets, HandSteps
    <3>3. CASE hand[c].at = "moving"
      <4>1. SetHand(c, "idle", None, << >>)
        BY <1>16, <3>3 DEF EngineSets
      <4>2. QED
        BY <1>16, <3>0, <3>3, <4>1, SetHandMoves DEF EngineSets, HandSteps
    <3>4. QED
      BY <3>0, <3>1, <3>2, <3>3
  <2>a. hand[c].at \in {"pinning", "anchoring", "moving"}
    BY <1>16 DEF EngineSets
  <2>1. TypeOK'
    BY <1>16, <1>0, <2>m, <2>e, <2>a DEF IInv, TypeOK, stateVars, localVars
  <2>2. BlockedIn'
    BY <1>16, <1>0, <2>m, <2>e, <2>a DEF IInv, BlockedIn, localVars
  <2>3. Wanted'
    BY <1>16, <1>0, <2>m, <2>e, <2>a DEF IInv, Wanted, stateVars, localVars
  <2>4. Ahead'
    BY <1>16, <1>0, <2>m, <2>e, <2>a, <2>0
    DEF IInv, Ahead, Candidate, stateVars, localVars
  <2>5. Same'
    BY <1>16, <1>0, <2>m, <2>e, <2>a, <2>0
    DEF IInv, Same, stateVars, Uncrossed, localVars
  <2>6. Stands'
    <3> SUFFICES ASSUME ~torn', activation' # None, step' # "selected",
                        \A x \in Choosers : hand'[x].at \in Still
                 PROVE  model' = activation'.models[activation'.position]
      BY DEF Stands
    <3>1. ~torn /\ activation' = activation
      BY <1>16, <2>e DEF stateVars
    <3>2. hand[c].at \in {"anchoring", "moving"}
      BY <2>a, <2>e DEF Still
    <3>3. QED
      BY <2>e, <3>1, <3>2 DEF IInv, Held
  <2>7. Held'
    <3> SUFFICES ASSUME ~torn' PROVE Held'
      BY DEF Held
    <3>1. ~torn /\ activation' = activation
      BY <1>16, <2>e DEF stateVars
    <3>2. hand'[c].at \notin {"anchoring", "walking", "moving"}
      BY <2>a, <2>e
    <3>3. QED
      BY <2>e, <3>1, <3>2 DEF IInv, Held
  <2>8. QED
    BY <2>0, <2>1, <2>2, <2>3, <2>4, <2>5, <2>6, <2>7 DEF IInv
<1>17. ASSUME NEW c \in Choosers, OnPin(c),
            torn' = (torn \/ Crossing')
     PROVE IInv'
  <2>0. Crossed' /\ Uncrossed'
    BY <1>17, CrossedNext, UncrossedNext
  <2>a. SetHand(c, "idle", None, << >>)
    BY <1>17 DEF OnPin
  <2>h. /\ hand' \in [Choosers -> Hands]
        /\ hand'[c].at = "idle" /\ hand'[c].model = None /\ hand'[c].models = << >>
        /\ \A x \in Choosers : x # c => hand'[x] = hand[x]
    BY <1>17, <2>a, SetHandMoves, ProfileModels DEF IInv, TypeOK, HandSteps
  <2>1. TypeOK'
    BY <1>17, <1>0, <2>h DEF IInv, TypeOK, OnPin, StartAfresh
  <2>2. BlockedIn'
    BY <1>17, <1>0, <2>h DEF IInv, BlockedIn, OnPin, StartAfresh
  <2>3. Wanted'
    BY <1>17, <1>0, <2>h DEF Wanted, OnPin, StartAfresh
  <2>4. Ahead'
    BY <1>17, <1>0, <2>h, <2>0 DEF Ahead, OnPin, StartAfresh
  <2>5. Same'
    BY <1>17, <1>0, <2>h, <2>0 DEF Same, Uncrossed, OnPin, StartAfresh
  <2>6. Stands'
    BY <1>17, <1>0, <2>h, <2>0 DEF Stands, OnPin, StartAfresh
  <2>7. Held'
    BY <1>17, <1>0, <2>h, <2>0 DEF Held, Uncrossed, OnPin
  <2>8. QED
    BY <2>0, <2>1, <2>2, <2>3, <2>4, <2>5, <2>6, <2>7 DEF IInv
<1>18. ASSUME NEW c \in Choosers, Anchored(c),
            torn' = (torn \/ Crossing')
     PROVE IInv'
  <2>0. Crossed' /\ Uncrossed'
    BY <1>18, CrossedNext, UncrossedNext
  <2>a. /\ hand[c].at = "anchored" /\ hand \in [Choosers -> Hands]
        /\ UNCHANGED <<stateVars, localVars, model, asked>>
    BY <1>18 DEF Anchored, IInv, TypeOK
  <2>e. /\ \A x \in Choosers : x # c => hand'[x] = hand[x]
        /\ hand' \in [Choosers -> Hands] /\ pinned' \in {pinned, None}
        /\ \/ hand'[c].at = "idle"
           \/ /\ hand'[c].at = "walking" /\ activation # None
              /\ activation.position = 1
              /\ hand'[c].models = activation.models
    <3>1. CASE activation # None /\ activation.position = 1 /\ event = "none"
      <4>1. SetHand(c, "walking", None, activation.models) /\ pinned' = pinned
        BY <1>18, <3>1 DEF Anchored
      <4>2. activation.models \in Profiles
        BY <3>1 DEF IInv, TypeOK, Activations
      <4>3. QED
        BY <2>a, <3>1, <4>1, <4>2, SetHandMoves DEF HandSteps
    <3>2. CASE ~(activation # None /\ activation.position = 1 /\ event = "none")
      <4>1. SetHand(c, "idle", None, << >>) /\ pinned' = None
        BY <1>18, <3>2 DEF Anchored
      <4>2. QED
        BY <2>a, <4>1, SetHandMoves DEF HandSteps
    <3>3. QED
      BY <3>1, <3>2
  <2>1. TypeOK'
    <3>1. hand'[c].at = "walking" => hand'[c].models \in Profiles
      BY <2>e DEF IInv, TypeOK, Activations
    <3>2. hand'[c].at \in {"idle", "walking"}
      BY <2>e
    <3>3. torn' \in BOOLEAN
      BY <1>18 DEF IInv, TypeOK
    <3>4. QED
      BY <2>a, <2>e, <3>1, <3>2, <3>3 DEF IInv, TypeOK, stateVars, localVars
  <2>2. BlockedIn'
    BY <1>18, <1>0, <2>a, <2>e DEF IInv, BlockedIn, localVars
  <2>3. Wanted'
    BY <1>18, <1>0, <2>a, <2>e DEF IInv, Wanted, stateVars, localVars
  <2>4. Ahead'
    BY <1>18, <1>0, <2>a, <2>e, <2>0 DEF Ahead, Uncrossed, localVars
  <2>5. Same'
    BY <1>18, <1>0, <2>a, <2>e, <2>0
    DEF IInv, Same, stateVars, Uncrossed, localVars
  <2>6. Stands'
    <3> SUFFICES ASSUME ~torn', activation' # None, step' # "selected",
                        \A x \in Choosers : hand'[x].at \in Still
                 PROVE  model' = activation'.models[activation'.position]
      BY DEF Stands
    <3>1. ~torn /\ activation # None /\ step # "selected"
      BY <1>18, <2>a DEF stateVars, localVars
    <3>2. \A x \in Choosers : hand[x].at \in Still
      BY <2>a, <2>e DEF Still
    <3>3. QED
      BY <2>a, <3>1, <3>2 DEF IInv, Stands, stateVars
  <2>7. Held'
    <3> SUFFICES ASSUME ~torn' PROVE Held'
      BY DEF Held
    <3>1. ~torn /\ activation' = activation
      BY <1>18, <2>a DEF stateVars
    <3>2. QED
      BY <2>a, <2>e, <3>1 DEF IInv, Held
  <2>8. QED
    BY <2>0, <2>1, <2>2, <2>3, <2>4, <2>5, <2>6, <2>7 DEF IInv
<1>19. ASSUME NEW c \in Choosers, NEW usable \in SUBSET Models, Walked(c, usable),
            torn' = (torn \/ Crossing')
     PROVE IInv'
  <2>0. Crossed' /\ Uncrossed'
    BY <1>19, CrossedNext, UncrossedNext
  <2>a. /\ hand[c].at = "walking" /\ hand \in [Choosers -> Hands]
        /\ hand[c].models \in Profiles
        /\ UNCHANGED <<marked, localVars, model, asked>>
    BY <1>19 DEF Walked, IInv, TypeOK
  <2>e. /\ \A x \in Choosers : x # c => hand'[x] = hand[x]
        /\ hand' \in [Choosers -> Hands] /\ pinned' \in {pinned, None}
        /\ \/ /\ hand'[c].at = "idle"
              /\ UNCHANGED <<activation, event, tried>>
           \/ \E i \in DOMAIN hand[c].models :
                /\ hand'[c].at = "moving"
                /\ hand'[c].model = hand[c].models[i]
                /\ hand[c].models[i] \in Models
                /\ activation' = Standing(hand[c].models, i)
                /\ activation' \in Activations /\ activation' # None
                /\ activation'.models = hand[c].models
                /\ activation'.position = i
                /\ event' = "over" /\ tried' = {}
    <3>1. PICK i \in DOMAIN hand[c].models :
            IF i = 1
              THEN /\ SetHand(c, "idle", None, << >>)
                   /\ pinned' = None
                   /\ UNCHANGED <<activation, event, tried>>
              ELSE /\ activation' = Standing(hand[c].models, i)
                   /\ event' = "over" /\ tried' = {}
                   /\ SetHand(c, "moving", hand[c].models[i], << >>)
                   /\ UNCHANGED pinned
      BY <1>19 DEF Walked
    <3>2. CASE i = 1
      BY <2>a, <3>1, <3>2, SetHandMoves DEF HandSteps
    <3>3. CASE i # 1
      <4>1. i \in Nat \ {0} /\ hand[c].models[i] \in Models
        BY <2>a, ProfileModels
      <4>2. /\ activation' \in Activations /\ activation' # None
            /\ activation'.models = hand[c].models
            /\ activation'.position = i
        BY <2>a, <3>1, <3>3, <4>1, StandingType
      <4>3. /\ \A x \in Choosers : x # c => hand'[x] = hand[x]
            /\ hand' \in [Choosers -> Hands]
            /\ hand'[c].at = "moving"
            /\ hand'[c].model = hand[c].models[i]
        BY <2>a, <3>1, <3>3, <4>1, SetHandMoves DEF HandSteps
      <4>4. QED
        BY <3>1, <3>3, <4>1, <4>2, <4>3
    <3>4. QED
      BY <3>2, <3>3
  <2>1. TypeOK'
    <3>1. /\ activation' \in Activations \cup {None}
          /\ event' \in {"none", "open", "over"} /\ tried' \subseteq Models
          /\ pinned' \in Models \cup {None}
      BY <2>e DEF IInv, TypeOK
    <3>2. \A x \in Choosers :
            /\ hand'[x].at \in {"pinning", "pinned", "anchoring", "moving"} =>
                 hand'[x].model \in Models
            /\ hand'[x].at = "walking" => hand'[x].models \in Profiles
      BY <2>e DEF IInv, TypeOK
    <3>3. torn' \in BOOLEAN
      BY <1>19 DEF IInv, TypeOK
    <3>4. QED
      BY <2>a, <2>e, <3>1, <3>2, <3>3 DEF IInv, TypeOK, localVars
  <2>2. BlockedIn'
    BY <1>19, <1>0, <2>a, <2>e DEF IInv, BlockedIn, localVars
  <2>3. Wanted'
    BY <2>a, <2>e DEF IInv, Wanted, localVars
  <2>4. Ahead'
    <3> SUFFICES ASSUME ~torn' PROVE Ahead'
      BY DEF Ahead
    <3>1. ~torn
      BY <1>19
    <3>2. step = "idle" \/ stale
      BY <2>a, <1>0, <3>1 DEF Uncrossed
    <3>3. QED
      BY <2>a, <3>2 DEF Ahead, localVars
  <2>5. Same'
    <3> SUFFICES ASSUME ~torn' PROVE Same'
      BY DEF Same
    <3>1. ~torn
      BY <1>19
    <3>2. (step = "idle" \/ stale) /\ step \notin {"selecting", "selected"}
      BY <2>a, <1>0, <3>1 DEF Uncrossed
    <3>3. activation' # None => activation'.position \in DOMAIN activation'.models
      BY <2>e, <3>1 DEF IInv, Same
    <3>4. QED
      BY <2>a, <3>2, <3>3 DEF Same, localVars
  <2>6. Stands'
    <3> SUFFICES ASSUME ~torn', activation' # None, step' # "selected",
                        \A x \in Choosers : hand'[x].at \in Still
                 PROVE  model' = activation'.models[activation'.position]
      BY DEF Stands
    <3>1. hand'[c].at = "idle" /\ activation' = activation
      BY <2>e DEF Still
    <3>2. ~torn /\ activation # None /\ step # "selected"
      BY <1>19, <2>a, <3>1 DEF localVars
    <3>3. \A x \in Choosers : hand[x].at \in Still
      BY <2>a, <2>e DEF Still
    <3>4. QED
      BY <2>a, <3>1, <3>2, <3>3 DEF IInv, Stands
  <2>7. Held'
    <3> SUFFICES ASSUME ~torn' PROVE Held'
      BY DEF Held
    <3>1. ~torn
      BY <1>19
    <3>2. \A x \in Choosers : x # c => hand[x].at = "idle" /\ hand'[x].at = "idle"
      BY <2>a, <2>e, <1>0, <3>1 DEF Uncrossed
    <3>3. QED
      BY <2>e, <3>2 DEF Held
  <2>8. QED
    BY <2>0, <2>1, <2>2, <2>3, <2>4, <2>5, <2>6, <2>7 DEF IInv
<1>20. ASSUME NEW c \in Choosers, PinRefused(c),
            torn' = (torn \/ Crossing')
     PROVE IInv'
  <2>0. Crossed' /\ Uncrossed'
    BY <1>20, CrossedNext, UncrossedNext
  <2>a. SetHand(c, "idle", None, << >>)
    BY <1>20 DEF PinRefused
  <2>h. /\ hand' \in [Choosers -> Hands]
        /\ hand'[c].at = "idle" /\ hand'[c].model = None /\ hand'[c].models = << >>
        /\ \A x \in Choosers : x # c => hand'[x] = hand[x]
    BY <1>20, <2>a, SetHandMoves, ProfileModels DEF IInv, TypeOK, HandSteps
  <2>1. TypeOK'
    BY <1>20, <1>0, <2>h DEF IInv, TypeOK, stateVars, PinRefused, localVars
  <2>2. BlockedIn'
    BY <1>20, <1>0, <2>h DEF IInv, BlockedIn, PinRefused, localVars
  <2>3. Wanted'
    BY <1>20, <1>0, <2>h DEF IInv, Wanted, stateVars, PinRefused, localVars
  <2>4. Ahead'
    BY <1>20, <1>0, <2>h, <2>0
    DEF IInv, Ahead, Candidate, stateVars, PinRefused, localVars
  <2>5. Same'
    BY <1>20, <1>0, <2>h, <2>0
    DEF IInv, Same, stateVars, Uncrossed, PinRefused, localVars
  <2>6. Stands'
    BY <1>20, <1>0, <2>h, <2>0
    DEF IInv, Stands, Still, stateVars, PinRefused, localVars
  <2>7. Held'
    BY <1>20, <1>0, <2>h, <2>0 DEF Held, Uncrossed, PinRefused
  <2>8. QED
    BY <2>0, <2>1, <2>2, <2>3, <2>4, <2>5, <2>6, <2>7 DEF IInv
<1>21. ASSUME NEW c \in Choosers, ChoiceRefused(c),
            torn' = TRUE
     PROVE IInv'
  <2>a. SetHand(c, "idle", None, << >>)
    BY <1>21 DEF ChoiceRefused
  <2>h. /\ hand' \in [Choosers -> Hands]
        /\ hand'[c].at = "idle" /\ hand'[c].model = None /\ hand'[c].models = << >>
        /\ \A x \in Choosers : x # c => hand'[x] = hand[x]
    BY <1>21, <2>a, SetHandMoves, ProfileModels DEF IInv, TypeOK, HandSteps
  <2>1. TypeOK'
    BY <1>21, <1>0, <2>h DEF IInv, TypeOK, stateVars, ChoiceRefused, localVars
  <2>2. BlockedIn'
    BY <1>21, <1>0, <2>h DEF IInv, BlockedIn, ChoiceRefused, localVars
  <2>3. Wanted'
    BY <1>21, <1>0, <2>h DEF IInv, Wanted, stateVars, ChoiceRefused, localVars
  <2>4. QED
    BY <1>21, <2>1, <2>2, <2>3 DEF IInv, Crossed, Ahead, Same, Stands, Held
<1>22. ASSUME NEW c \in Choosers, NEW p \in Profiles, ChooseUnknown(c, p),
            torn' = TRUE
     PROVE IInv'
  <2>a. SetHand(c, "walking", None, p)
    BY <1>22 DEF ChooseUnknown
  <2>h. /\ hand' \in [Choosers -> Hands]
        /\ hand'[c].at = "walking" /\ hand'[c].model = None /\ hand'[c].models = p
        /\ \A x \in Choosers : x # c => hand'[x] = hand[x]
    BY <1>22, <2>a, SetHandMoves, ProfileModels DEF IInv, TypeOK, HandSteps
  <2>1. TypeOK'
    BY <1>22, <1>0, <2>h, StandingType
    DEF IInv, TypeOK, Steps, ChooseUnknown, StartAfresh
  <2>2. BlockedIn'
    BY <1>22, <1>0, <2>h DEF IInv, BlockedIn, ChooseUnknown, StartAfresh
  <2>3. Wanted'
    BY <1>22, <1>0, <2>h DEF Wanted, ChooseUnknown, StartAfresh
  <2>4. QED
    BY <1>22, <2>1, <2>2, <2>3 DEF IInv, Crossed, Ahead, Same, Stands, Held
<1>23. CASE UNCHANGED vars
  BY <1>23
  DEF IInv, TypeOK, BlockedIn, Wanted, Crossed, Crossing, Busy, Ahead, Same,
    Stands, Held, Candidate, vars, stateVars, localVars
<1>24. QED
  BY <1>1, <1>2, <1>3, <1>4, <1>5, <1>6, <1>7, <1>8, <1>9, <1>10, <1>11,
     <1>12, <1>13, <1>14, <1>15, <1>16, <1>17, <1>18, <1>19, <1>20, <1>21,
     <1>22, <1>23
  DEF Next, Whole, Cut, Failover, Failures

\* The invariant holds in every behaviour.
LEMMA SpecInv == Spec => []IInv
<1>1. Init => IInv
  BY InitInv
<1>2. IInv /\ [Next]_vars => IInv'
  BY NextInv
<1>3. QED
  BY <1>1, <1>2, PTL DEF Spec

\* Every variable keeps its type, at every step of a failover and of a person's
\* requests: the position the traversal asks for is one of its profile's
\* (controller.ts: settle, selectCandidate).
THEOREM TypeCorrect == Spec => []TypeOK
<1>1. IInv => TypeOK
  BY DEF IInv
<1>2. QED
  BY SpecInv, <1>1, PTL

\* While nothing is between a setModel and its return, the session stands on the
\* model the engine has (controller.ts: moveTo, applyStart; stable-sdk.ts:
\* setModel, setProfile), for any profiles and any number of requests.
THEOREM StandsOnTheSelected == Spec => []StandsOnSelected
<1>1. IInv => StandsOnSelected
  BY DEF IInv, Same, Stands, Still, Busy, StandsOnSelected
<1>2. QED
  BY SpecInv, <1>1, PTL

\* The step that sends the turn is one of two, and both know the candidate
\* untried.
LEMMA AskedOnce ==
  ASSUME IInv, [Next]_vars
  PROVE  [(step' = "answering" /\ step # "answering" /\ ~torn') =>
            try'.models[try'.index] \notin asked]_vars
<1> SUFFICES ASSUME step' = "answering", step # "answering", ~torn'
             PROVE  try'.models[try'.index] \notin asked
  OBVIOUS
<1>0. ~torn /\ Next
  BY DEF vars, localVars, Next, Cut
<1>1. Selected \/ \E n \in Lengths : Compacted(n)
  <2>1. Failover
    BY <1>0
    DEF Next, Whole, Settle, Traverse, Cancel, Pin, Choose, EngineSets, OnPin,
      Anchored, Walked, PinRefused, StartAfresh, localVars
  <2>2. ~(Abandon \/ CompactionFails \/ RefusedLate \/ SelectedLate \/ Answered)
    BY DEF Abandon, CompactionFails, Exhausted, RefusedLate, SelectedLate,
      Answered, End
  <2>3. ~(EngineSelects \/ Refused \/ \E f \in Failures : AnswerFails(f))
    BY DEF EngineSelects, Refused, SelectNext, Traverse, AnswerFails
  <2>4. ~(\E usable \in SUBSET Models, n \in Lengths : ReadCatalogue(usable, n))
    BY DEF ReadCatalogue, Select, Exhausted, End
  <2>5. QED
    BY <2>1, <2>2, <2>3, <2>4 DEF Failover
<1>2. /\ step \in {"selecting", "selected", "compacting"}
      /\ ~stale /\ try' = try
  BY <1>1 DEF Selected, Compacted, Traverse
<1>3. asked \subseteq tried /\ Candidate \notin tried
  BY <1>0, <1>2 DEF IInv, Ahead
<1>4. QED
  BY <1>2, <1>3 DEF Candidate

\* No model is sent the failed turn twice in one failover (controller.ts:
\* settle, selectCandidate, recoverOversized; policy.ts: nextCandidate), for
\* any profile, any windows and any order of refusals and restarts.
THEOREM EachModelOnce == Spec => OneTryEach
<1>1. IInv /\ [Next]_vars =>
        [(step' = "answering" /\ step # "answering" /\ ~torn') =>
           try'.models[try'.index] \notin asked]_vars
  BY AskedOnce
<1>2. QED
  BY SpecInv, <1>1, PTL DEF Spec, OneTryEach

-----------------------------------------------------------------------------
\* A candidate is never one of the tried, whatever the person does meanwhile,
\* and nor is one that a rescue still has to come to.
Untried ==
  step \in {"selecting", "selected", "compacting", "answering"} =>
    /\ Candidate \notin tried
    /\ step # "answering" =>
         \A i \in try.blocked : i # try.index /\ try.models[i] \notin tried

\* A model that is too small is selected only while the one compaction is left.
RescueFirst == (step \in {"selecting", "selected"} /\ try.rescue) => ~compacted

Nearing == IInv /\ Untried /\ RescueFirst

\* The untried models are finitely many, and one that is tried was one of them.
LEMMA WorthIsNatural == \A t, c : Worth(t, c) \in Nat
<1>1. \A t : Cardinality(Models \ t) \in Nat
  BY FallbackAssumption, FS_Subset, FS_CardinalityType
<1>2. QED
  BY <1>1 DEF Worth

LEMMA WorthOfATry ==
  ASSUME NEW t, NEW m \in Models \ t, NEW c
  PROVE  Worth(t \cup {m}, c) = Worth(t, c) - 6
<1>1. Models \ (t \cup {m}) = (Models \ t) \ {m}
  OBVIOUS
<1>2. IsFiniteSet(Models \ t)
  BY FallbackAssumption, FS_Subset
<1>3. /\ Cardinality(Models \ (t \cup {m})) = Cardinality(Models \ t) - 1
      /\ Cardinality(Models \ t) \in Nat
  BY <1>1, <1>2, FS_RemoveElement, FS_CardinalityType
<1>4. QED
  BY <1>3 DEF Worth

LEMMA WorthOfTheCompaction ==
  ASSUME NEW t PROVE Worth(t, FALSE) = Worth(t, TRUE) + 4
<1>1. Cardinality(Models \ t) \in Nat
  BY FallbackAssumption, FS_Subset, FS_CardinalityType
<1>2. QED
  BY <1>1 DEF Worth

\* What Rank is worth in each step, now and next.
LEMMA Distances ==
  /\ Distance["answering"] = 1 /\ Distance["selected"] = 3
  /\ Distance["selecting"] = 4 /\ Distance["reading"] = 5
  /\ Distance["compacting"] = 6
BY DEF Distance

LEMMA RankNow ==
  /\ step = "idle" => Rank = 0
  /\ (step # "idle" /\ stale) => Rank = IF step = "selecting" THEN 2 ELSE 1
  /\ (step = "answering" /\ ~stale) => Rank = Worth(tried, compacted) + 1
  /\ (step = "selected" /\ ~stale) => Rank = Worth(tried, compacted) + 3
  /\ (step = "selecting" /\ ~stale) => Rank = Worth(tried, compacted) + 4
  /\ (step = "reading" /\ ~stale) => Rank = Worth(tried, compacted) + 5
  /\ (step = "compacting" /\ ~stale) => Rank = Worth(tried, compacted) + 6
BY Distances DEF Rank

LEMMA RankNext ==
  /\ step' = "idle" => Rank' = 0
  /\ (step' # "idle" /\ stale') => Rank' = IF step' = "selecting" THEN 2 ELSE 1
  /\ (step' = "answering" /\ ~stale') => Rank' = Worth(tried', compacted') + 1
  /\ (step' = "selected" /\ ~stale') => Rank' = Worth(tried', compacted') + 3
  /\ (step' = "selecting" /\ ~stale') => Rank' = Worth(tried', compacted') + 4
  /\ (step' = "reading" /\ ~stale') => Rank' = Worth(tried', compacted') + 5
  /\ (step' = "compacting" /\ ~stale') => Rank' = Worth(tried', compacted') + 6
BY Distances DEF Rank, Worth

\* A failover in flight is never at rank zero.
LEMMA RankPositive ==
  ASSUME TypeOK, step # "idle" PROVE Rank \in Nat /\ Rank > 0
<1>1. step \in {"reading", "selecting", "selected", "compacting", "answering"}
  BY DEF TypeOK, Steps
<1>2. QED
  BY <1>1, RankNow, WorthIsNatural DEF TypeOK

\* A failover that ends.
LEMMA EndDescends ==
  ASSUME TypeOK, step # "idle", End
  PROVE  Rank' < Rank /\ Untried' /\ RescueFirst'
<1>1. step' = "idle"
  BY DEF End
<1>2. Rank' = 0 /\ Rank \in Nat /\ Rank > 0
  BY <1>1, RankPositive, RankNext
<1>3. QED
  BY <1>1, <1>2 DEF Untried, RescueFirst

\* A model that failed, then the next of its rescue or the top of the loop.
LEMMA TryDescends ==
  ASSUME TypeOK, BlockedIn, Untried, RescueFirst, ~stale, ~stale',
         step \in {"selecting", "answering"},
         tried' = tried \cup {Candidate}, compacted' = compacted,
         Traverse \/ (step = "selecting" /\ SelectNext)
  PROVE  Rank' < Rank /\ Untried' /\ RescueFirst'
<1>1. Candidate \in Models \ tried /\ try.models \in Profiles
  BY CandidateIn DEF Untried
<1>2. /\ Worth(tried', compacted') = Worth(tried, compacted) - 6
      /\ Worth(tried, compacted) \in Nat
  BY <1>1, WorthOfATry, WorthIsNatural
<1>3. CASE Traverse
  <2>1. step' = "reading"
    BY <1>3 DEF Traverse
  <2>2. Rank' = Worth(tried, compacted) - 1
    BY <1>2, <2>1, RankNext
  <2>3. Rank' < Rank
    BY <1>2, <2>2, RankNow
  <2>4. QED
    BY <2>1, <2>3 DEF Untried, RescueFirst
<1>4. CASE step = "selecting" /\ SelectNext
  <2>1. /\ step' = "selecting"
        /\ try'.models = try.models
        /\ try'.index \in try.blocked
        /\ try'.blocked = try.blocked \ {try'.index}
    BY <1>4, SelectNextMoves
  <2>2. try'.rescue = try.rescue
    BY <1>4 DEF SelectNext, TypeOK, Tries
  <2>3. Rank' < Rank
    BY <1>2, <1>4, <2>1, RankNow, RankNext
  <2>4. /\ try.blocked \subseteq DOMAIN try.models /\ try.index \in DOMAIN try.models
        /\ \A i \in try.blocked : i # try.index /\ try.models[i] \notin tried
    BY <1>4 DEF BlockedIn, TypeOK, Untried
  <2>5. \A i \in try.blocked : try.models[i] # Candidate
    BY <1>1, <2>4, Distinct DEF Candidate
  <2>6. \A i \in try.blocked : try.models[i] \notin tried'
    BY <2>4, <2>5
  <2>7. Candidate' = try.models[try'.index]
    BY <2>1 DEF Candidate
  <2>8. Untried'
    BY <2>1, <2>6, <2>7 DEF Untried
  <2>9. RescueFirst'
    BY <1>4, <2>1, <2>2 DEF RescueFirst
  <2>10. QED
    BY <2>3, <2>8, <2>9
<1>5. QED
  BY <1>3, <1>4

\* Every await of a failover brings it nearer to its end, and keeps what that
\* rests on.
LEMMA Descent ==
  ASSUME Nearing, Failover
  PROVE  Rank' < Rank /\ Untried' /\ RescueFirst'
<1> DEFINE Goal == Rank' < Rank /\ Untried' /\ RescueFirst'
<1> USE DEF Nearing, IInv
<1>1. CASE Abandon \/ RefusedLate \/ SelectedLate \/ CompactionFails \/ Answered
  BY <1>1, EndDescends
  DEF Abandon, RefusedLate, SelectedLate, CompactionFails, Exhausted, Answered
<1>2. ASSUME NEW usable \in SUBSET Models, NEW n \in Lengths, ReadCatalogue(usable, n)
      PROVE  Goal
  <2>1. step = "reading" /\ ~stale
    BY <1>2 DEF ReadCatalogue
  <2>2. CASE Exhausted
    BY <2>1, <2>2, EndDescends DEF Exhausted
  <2>3. CASE ~Exhausted
    <3>1. PICK i \in Others(usable), rest \in SUBSET Others(usable),
               rescue \in BOOLEAN :
            i \notin rest /\ (rescue => ~compacted) /\ Select(i, rest, rescue)
      BY <1>2, <2>3 DEF ReadCatalogue, Fitting, Blocked
    <3>2. /\ i \in DOMAIN try.models /\ rest \subseteq DOMAIN try.models
          /\ try.models \in Profiles
          /\ \A j \in rest \cup {i} : try.models[j] \notin tried
      BY <2>1, <3>1 DEF Others, Eligible, TypeOK
    <3>3. i \in Nat /\ rest \in SUBSET Nat
      BY <3>2, ProfileModels
    <3>4. /\ try'.models = try.models /\ try'.index = i /\ try'.blocked = rest
          /\ try'.rescue = rescue
          /\ step' = "selecting" /\ stale' = stale /\ tried' = tried
          /\ compacted' = compacted
      BY <3>1, <3>3 DEF Select, stateVars, TypeOK, Tries
    <3>5. Rank' < Rank
      BY <2>1, <3>4, RankNow, RankNext, WorthIsNatural
    <3>6. Untried' /\ RescueFirst'
      BY <3>1, <3>2, <3>4 DEF Untried, RescueFirst, Candidate
    <3>7. QED
      BY <3>5, <3>6
  <2>4. QED
    BY <2>2, <2>3
<1>3. CASE EngineSelects
  <2>1. /\ step = "selecting" /\ step' = "selected" /\ try' = try
        /\ stale' = stale /\ tried' = tried /\ compacted' = compacted
    BY <1>3 DEF EngineSelects, stateVars
  <2>2. Rank' < Rank
    BY <2>1, RankNow, RankNext, WorthIsNatural
  <2>3. Untried' /\ RescueFirst'
    BY <2>1 DEF Untried, RescueFirst, Candidate
  <2>4. QED
    BY <2>2, <2>3
<1>4. CASE Refused
  BY <1>4, TryDescends DEF Refused
<1>5. CASE Selected
  <2>1. /\ step = "selected" /\ ~stale /\ stale' = stale /\ try' = try
        /\ tried' = tried
        /\ \/ step' = "answering" /\ compacted' = compacted
           \/ step' = "compacting" /\ compacted' = TRUE /\ try.rescue
    BY <1>5 DEF Selected
  <2>2. CASE step' = "answering" /\ compacted' = compacted
    <3>1. Rank' < Rank
      BY <2>1, <2>2, RankNow, RankNext, WorthIsNatural
    <3>2. QED
      BY <2>1, <2>2, <3>1 DEF Untried, RescueFirst, Candidate
  <2>3. CASE step' = "compacting" /\ compacted' = TRUE /\ try.rescue
    <3>1. compacted = FALSE
      BY <2>1, <2>3 DEF RescueFirst, TypeOK
    <3>2. PICK before, after \in Nat :
            before = Worth(tried, compacted) /\ after = Worth(tried, compacted')
      BY WorthIsNatural
    <3>3. before = after + 4
      BY <2>3, <3>1, <3>2, WorthOfTheCompaction
    <3>4. Rank' < Rank
      <4>1. Rank = before + 3
        BY <2>1, <3>2, RankNow
      <4>2. Rank' = after + 6
        BY <2>1, <2>3, <3>2, RankNext
      <4>3. QED
        BY <3>3, <4>1, <4>2
    <3>5. QED
      BY <2>1, <2>3, <3>4 DEF Untried, RescueFirst, Candidate
  <2>4. QED
    BY <2>1, <2>2, <2>3
<1>6. ASSUME NEW n \in Lengths, Compacted(n) PROVE Goal
  <2>1. /\ step = "compacting" /\ ~stale /\ stale' = stale /\ tried' = tried
        /\ compacted' = compacted
        /\ step' = "reading" \/ (step' = "answering" /\ try' = try)
    BY <1>6 DEF Compacted, Traverse, stateVars
  <2>2. Rank' < Rank
    BY <2>1, RankNow, RankNext, WorthIsNatural
  <2>3. QED
    BY <2>1, <2>2 DEF Untried, RescueFirst, Candidate
<1>7. ASSUME NEW f \in Failures, AnswerFails(f) PROVE Goal
  <2>1. CASE f = "alien"
    BY <1>7, <2>1, EndDescends DEF AnswerFails
  <2>2. CASE f # "alien"
    BY <1>7, <2>2, TryDescends DEF AnswerFails
  <2>3. QED
    BY <2>1, <2>2
<1>8. QED
  BY <1>1, <1>2, <1>3, <1>4, <1>5, <1>6, <1>7 DEF Failover

\* What the person does keeps the candidates, and moves the failover away from
\* its end only by emptying its tried models while it is not stale.
LEMMA Untouched ==
  ASSUME Nearing, step' = step, try' = try, compacted' = compacted,
         tried' \in {tried, {}}
  PROVE  /\ Untried' /\ RescueFirst'
         /\ step # "idle" /\ (stale' \/ (stale' = stale /\ tried' = tried))
              => Rank' <= Rank
<1>1. Untried' /\ RescueFirst'
  BY DEF Nearing, Untried, RescueFirst, Candidate
<1>2. ASSUME step # "idle", stale' PROVE Rank' <= Rank
  <2>1. step \in {"reading", "selecting", "selected", "compacting", "answering"}
    BY <1>2 DEF Nearing, IInv, TypeOK, Steps
  <2>2. Rank' = IF step = "selecting" THEN 2 ELSE 1
    BY <1>2, RankNext
  <2>3. QED
    BY <2>1, <2>2, RankNow, WorthIsNatural DEF Nearing, IInv, TypeOK
<1>3. ASSUME step # "idle", ~stale', stale' = stale, tried' = tried
      PROVE  Rank' <= Rank
  <2>1. Rank' = Rank /\ Rank \in Nat
    BY <1>3, RankPositive DEF Rank, Nearing, IInv
  <2>2. QED
    BY <2>1
<1>4. QED
  BY <1>1, <1>2, <1>3

LEMMA NearingNext ==
  ASSUME Nearing, [Next]_vars
  PROVE  /\ Nearing'
         /\ (step # "idle" /\ ~torn' /\ ~Failover) => Rank' <= Rank
<1> DEFINE Goal == /\ Untried' /\ RescueFirst'
                   /\ (step # "idle" /\ ~torn' /\ ~Failover) => Rank' <= Rank
<1>0. IInv'
  BY NextInv DEF Nearing
<1>1. ASSUME NEW f \in Failures, Settle(f) PROVE Goal
  BY <1>1 DEF Settle, Traverse, Untried, RescueFirst
<1>2. ASSUME Failover PROVE Goal
  BY <1>2, Descent
<1>3. ASSUME Cancel PROVE Goal
  <2>1. /\ step' = step /\ try' = try /\ compacted' = compacted
        /\ tried' = tried /\ stale'
    BY <1>3 DEF Cancel, stateVars
  <2>2. QED
    BY <2>1, Untouched
<1>4. ASSUME NEW c \in Choosers,
             \/ \E m \in Models : Pin(c, m)
             \/ EngineSets(c) \/ Anchored(c) \/ PinRefused(c) \/ ChoiceRefused(c)
      PROVE  Goal
  <2>1. UNCHANGED <<stateVars, localVars>>
    BY <1>4 DEF Pin, EngineSets, Anchored, PinRefused, ChoiceRefused
  <2>2. QED
    BY <2>1, Untouched DEF stateVars, localVars
<1>5. ASSUME NEW c \in Choosers,
             \/ OnPin(c)
             \/ \E p \in Profiles : Choose(c, p) \/ ChooseUnknown(c, p)
      PROVE  Goal
  <2>1. PICK act : StartAfresh(act)
    BY <1>5 DEF OnPin, Choose, ChooseUnknown
  <2>2. QED
    BY <2>1, Untouched DEF StartAfresh
<1>6. ASSUME NEW c \in Choosers, NEW usable \in SUBSET Models, Walked(c, usable),
             torn' = (torn \/ Crossing')
      PROVE  Goal
  <2>1. /\ UNCHANGED localVars /\ tried' \in {tried, {}}
        /\ hand[c].at = "walking"
    BY <1>6 DEF Walked
  <2>2. ~torn' => step = "idle" \/ stale
    BY <1>6, <2>1, UncrossedNow DEF Nearing, IInv, Uncrossed
  <2>3. QED
    BY <2>1, <2>2, Untouched DEF localVars
<1>7. ASSUME UNCHANGED vars PROVE Goal
  <2>1. UNCHANGED <<step, try, compacted, tried, stale>>
    BY <1>7 DEF vars, stateVars, localVars
  <2>2. QED
    BY <2>1, Untouched
<1>8. QED
  BY <1>0, <1>1, <1>2, <1>3, <1>4, <1>5, <1>6, <1>7
  DEF Next, Whole, Cut, Failures, Nearing

\* Every await of a failover brings it nearer to its end (controller.ts: settle,
\* recoverOversized), for any profiles, any models and any windows: a failover
\* takes a bounded number of steps, whatever is refused, compacted or chosen.
THEOREM FailoversDescend == Spec => FailoverDescends
<1>1. Init => Nearing
  BY InitInv DEF Init, Nearing, Untried, RescueFirst
<1>2. Nearing /\ [Next]_vars => Nearing'
  BY NearingNext
<1>3. Nearing /\ [Next]_vars =>
        [/\ Failover => Rank' < Rank
         /\ (step # "idle" /\ ~torn') => Rank' <= Rank]_vars
  <2> SUFFICES ASSUME Nearing, [Next]_vars
               PROVE  /\ Failover => Rank' < Rank
                      /\ (step # "idle" /\ ~torn') => Rank' <= Rank
    OBVIOUS
  <2>1. Failover => Rank' < Rank
    BY Descent
  <2>2. (step # "idle" /\ ~torn' /\ ~Failover) => Rank' <= Rank
    BY NearingNext
  <2>3. step # "idle" => Rank \in Nat
    BY RankPositive DEF Nearing, IInv
  <2>4. Rank' \in Int
    <3>1. step' \in Steps /\ stale' \in BOOLEAN
      BY NearingNext DEF Nearing, IInv, TypeOK
    <3>2. QED
      BY <3>1, RankNext, WorthIsNatural DEF Steps
  <2>5. QED
    BY <2>1, <2>2, <2>3, <2>4
<1>4. QED
  BY <1>1, <1>2, <1>3, PTL DEF Spec, FailoverDescends

=============================================================================
