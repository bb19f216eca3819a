------------------------- MODULE WorkerFencesProofs -------------------------
(***************************************************************************)
(* Theorems about WorkerFences for any files, handlers and bound of a      *)
(* safety answer, with forks and without.                                  *)
(*                                                                         *)
(* IInv holds always.  UInv says what a fork breaks (see the run           *)
(* fork_leak): a handler holds the runtime of the file it named, and the   *)
(* count a release reads is exact; so its theorems are of a worker that    *)
(* is asked for no fork.                                                   *)
(***************************************************************************)
EXTENDS WorkerFences, FiniteSetTheorems, TLAPS

Active == {h \in Requests : pc[h] # "idle"}

\* A file is open or being opened, not both, and it exists.
Apart == opens \cap table = {} /\ opens \cup table \subseteq stored

\* A file being opened has one handler that opens it.
OneOpener ==
  \A h \in Requests : pc[h] = "opening" =>
    /\ key[h] \in opens
    /\ \A g \in Requests : pc[g] = "opening" /\ key[g] = key[h] => g = h

\* Only a runtime in the table holds work, so a safety answer shows it.
WorkInTable == \A f \in Files : work[f] # "none" => f \in table

\* What a drain waits for is the number of handlers at work.
CountExact == outstanding = Cardinality(Active)

Tables == OneDriverPerFile /\ Apart /\ OneOpener /\ WorkInTable

Counted == CountExact /\ AcknowledgedServesNobody

IInv == TypeOK /\ Tables /\ Counted

\* Without forks a handler holds the runtime it named, ...
HoldsItsOwn ==
  \A h \in Requests :
    /\ pc[h] \notin {"waitFork", "forking"}
    /\ pc[h] # "idle" => live[h] = key[h]

\* ... a session's count is the number of handlers that named it, ...
CountsExact == \A k \in Keys : inFlight[k] = Cardinality(Serving(k))

\* ... and a runtime found idle under the release fence stays idle behind it.
IdleRelease ==
  \A f \in Files : unload[f] \in {"preparing", "disposing"} =>
    Serving(f) = {} /\ work[f] = "none" /\ f \notin opens \cup owed

UInv == HoldsItsOwn /\ CountsExact /\ IdleRelease

-----------------------------------------------------------------------------
PCs == {"idle", "serving", "opening", "waitClose", "closing", "waitFork",
        "forking"}

\* The type of the handlers and their counts, and of everything else.
ReqsOK ==
  /\ inFlight \in [Keys -> Nat]
  /\ outstanding \in Nat
  /\ pc \in [Requests -> PCs]
  /\ key \in [Requests -> Keys]
  /\ live \in [Requests -> Keys]

RestOK ==
  /\ stored \subseteq Files
  /\ drivers \in [Files -> Nat]
  /\ table \subseteq Files
  /\ opens \subseteq Files
  /\ work \in [Files -> Works]
  /\ owed \subseteq Files
  /\ closeFailed \subseteq Files
  /\ unload \in [Files -> {"none", "deciding", "preparing", "disposing"}]
  /\ relArrived \in [Files -> BOOLEAN]
  /\ fence \in {"open", "draining", "drained", "acknowledged"}
  /\ arrived \in BOOLEAN
  /\ mode \in {"automatic", "explicit"}

\* TypeOK is made of the two.
LEMMA Types == TypeOK <=> ReqsOK /\ RestOK
BY DEF TypeOK, ReqsOK, RestOK, PCs

\* So it is of the next state.
LEMMA TypesNext == ReqsOK' /\ RestOK' => TypeOK'
BY DEF TypeOK, ReqsOK, RestOK, PCs

\* A handler that goes on keeps the type of all.
LEMMA ReqsGoOn ==
  ASSUME ReqsOK, UNCHANGED <<countVars, key, live>>,
         NEW h \in Requests, NEW to \in PCs, pc' = [pc EXCEPT ![h] = to]
  PROVE  ReqsOK'
BY DEF ReqsOK, countVars

\* Handlers that stay where they are.
LEMMA ReqsStay == ReqsOK /\ UNCHANGED <<countVars, reqVars>> => ReqsOK'
BY DEF ReqsOK, countVars, reqVars

\* What the table says stays when nothing of it moves, and no handler begins to
\* open.
LEMMA DriversStay ==
  ASSUME Tables, UNCHANGED <<stored, drivers, table, opens>>
  PROVE  OneDriverPerFile' /\ Apart'
BY DEF Tables, OneDriverPerFile, Apart

\* Nor is there a second opener when none begins.
LEMMA OpenersStay ==
  ASSUME Tables, opens' = opens,
         \A h \in Requests :
           pc'[h] = "opening" => pc[h] = "opening" /\ key'[h] = key[h]
  PROVE  OneOpener'
BY DEF Tables, OneOpener

\* All of it, when no work begins or ends either.
LEMMA TablesStay ==
  ASSUME Tables, UNCHANGED <<stored, drivers, table, opens, work>>,
         \A h \in Requests :
           pc'[h] = "opening" => pc[h] = "opening" /\ key'[h] = key[h]
  PROVE  Tables'
<1>1. OneDriverPerFile' /\ Apart' /\ OneOpener'
  BY DriversStay, OpenersStay
<1>2. WorkInTable'
  BY DEF Tables, WorkInTable
<1> QED
  BY <1>1, <1>2 DEF Tables

\* The counts stay with the handlers at work, as long as no drain ends.
LEMMA CountedStays ==
  ASSUME Counted, outstanding' = outstanding,
         \A h \in Requests : (pc'[h] = "idle") = (pc[h] = "idle"),
         fence' \in {"drained", "acknowledged"} =>
           fence \in {"drained", "acknowledged"}
  PROVE  Counted'
<1>1. Active' = Active
  BY DEF Active
<1>2. CountExact'
  BY <1>1 DEF Counted, CountExact
<1>3. AcknowledgedServesNobody'
  BY DEF Counted, AcknowledgedServesNobody
<1> QED
  BY <1>2, <1>3 DEF Counted

\* There are finitely many handlers.
LEMMA FiniteActive == IsFiniteSet(Active) /\ Cardinality(Active) \in Nat
<1>1. Active \subseteq Requests /\ IsFiniteSet(Requests)
  BY FencesAssumption DEF Active
<1> QED
  BY <1>1, FS_Subset, FS_CardinalityType

\* admit() lets one handler more in, and no fence is closed then.
LEMMA AdmitCounts ==
  ASSUME TypeOK, Counted, NEW h \in Requests, NEW k \in Keys,
         NEW where \in PCs, where # "idle", Admit(h, k, where)
  PROVE  ReqsOK' /\ Counted'
<1>0. ReqsOK
  BY Types
<1>1. ReqsOK'
  BY <1>0 DEF Admit, ReqsOK
<1>2. Active' = Active \cup {h} /\ h \notin Active
  BY <1>0 DEF Admit, Active, ReqsOK
<1>3. Cardinality(Active') = Cardinality(Active) + 1
  BY <1>2, FiniteActive, FS_AddElement
<1>4. CountExact'
  BY <1>3 DEF Admit, Counted, CountExact
<1>5. AcknowledgedServesNobody'
  BY DEF Admit, Admitted, RefusedByRetire, AcknowledgedServesNobody, fenceVars
<1> QED
  BY <1>1, <1>4, <1>5 DEF Counted

\* The function it returned counts it out again.
LEMMA AnswerCounts ==
  ASSUME TypeOK, Counted, NEW h \in Requests, pc[h] # "idle", Answer(h),
         fence' = fence
  PROVE  Counted' /\ outstanding' \in Nat
<1>0. ReqsOK
  BY Types
<1>1. Active' = Active \ {h} /\ h \in Active
  BY <1>0 DEF Answer, Active, ReqsOK
<1>2. Cardinality(Active') = Cardinality(Active) - 1
  BY <1>1, FiniteActive, FS_RemoveElement
<1>3. Cardinality(Active) > 0
  BY <1>1, FiniteActive, FS_EmptySet
<1>4. CountExact' /\ outstanding' \in Nat
  BY <1>2, <1>3, FiniteActive DEF Answer, Counted, CountExact
<1>5. AcknowledgedServesNobody'
  BY <1>0 DEF Counted, AcknowledgedServesNobody
<1> QED
  BY <1>4, <1>5 DEF Counted

\* A count that is lowered stays a number.
LEMMA LoweredType ==
  ASSUME NEW counts \in [Keys -> Nat], NEW k \in Keys
  PROVE  Lowered(counts, k) \in [Keys -> Nat]
BY DEF Lowered

\* A runtime that is dropped takes its driver with it.
LEMMA DropKeeps ==
  ASSUME TypeOK, Tables, NEW f, DropRuntime(f), UNCHANGED <<stored, opens>>
  PROVE  /\ OneDriverPerFile' /\ Apart' /\ WorkInTable'
         /\ drivers' \in [Files -> Nat] /\ work' \in [Files -> Works]
         /\ table' \subseteq Files /\ closeFailed' \subseteq Files
<1>1. /\ drivers \in [Files -> Nat] /\ work \in [Files -> Works]
      /\ table \subseteq Files /\ closeFailed \subseteq Files
  BY DEF TypeOK
<1>2. drivers' \in [Files -> Nat] /\ OneDriverPerFile'
  <2>1. OneDriverPerFile'
    BY <1>1 DEF DropRuntime, Tables, OneDriverPerFile, Apart
  <2>2. drivers' = [g \in Files |-> drivers'[g]]
    BY <1>1 DEF DropRuntime
  <2>3. \A g \in Files : drivers'[g] \in Nat
    BY <2>1 DEF OneDriverPerFile
  <2> QED
    BY <2>1, <2>2, <2>3
<1>3. work' \in [Files -> Works] /\ WorkInTable'
  BY <1>1 DEF DropRuntime, Tables, WorkInTable, Works
<1>4. Apart' /\ table' \subseteq Files /\ closeFailed' \subseteq Files
  BY <1>1 DEF DropRuntime, Tables, Apart
<1> QED
  BY <1>2, <1>3, <1>4

\* A worker that has just become ready satisfies the invariant,
LEMMA InitInv == Init => IInv
<1> SUFFICES ASSUME Init PROVE IInv
  OBVIOUS
<1>1. TypeOK
  BY DEF Init, TypeOK, Works, Keys
<1>2. Tables
  BY DEF Init, Tables, OneDriverPerFile, Apart, OneOpener, WorkInTable
<1>3. Active = {}
  BY DEF Init, Active
<1>4. Counted
  BY <1>3, FS_EmptySet DEF Init, Counted, CountExact, AcknowledgedServesNobody
<1> QED
  BY <1>1, <1>2, <1>4 DEF IInv

\* and every action keeps it.
LEMMA NextInv == IInv /\ [Next]_vars => IInv'
<1> SUFFICES ASSUME IInv, [Next]_vars PROVE IInv'
  OBVIOUS
<1>0. TypeOK /\ Tables /\ Counted /\ ReqsOK /\ RestOK
  BY Types DEF IInv
<1>1. ASSUME NEW h \in Requests, NEW k \in Keys, Refuse(h, k) PROVE IInv'
  <2>1. ReqsOK' /\ RestOK'
    BY <1>1, <1>0, ReqsStay DEF Refuse, RestOK, tableVars, heldVars
  <2>2. Tables'
    BY <1>1, <1>0, TablesStay DEF Refuse, tableVars, heldVars, reqVars
  <2>3. Counted'
    BY <1>1, <1>0, CountedStays DEF Refuse, countVars, reqVars
  <2> QED
    BY <2>1, <2>2, <2>3, TypesNext DEF IInv
<1>2. ASSUME NEW h \in Requests, NEW k \in Keys, Serve(h, k) PROVE IInv'
  <2>1. ReqsOK' /\ Counted'
    BY <1>2, <1>0, AdmitCounts DEF Serve, PCs
  <2>2. RestOK'
    BY <1>2, <1>0
    DEF Serve, Admit, RestOK, tableVars, heldVars, relVars, fenceVars
  <2>3. Tables'
    BY <1>2, <1>0, TablesStay DEF Serve, Admit, tableVars, heldVars
  <2> QED
    BY <2>1, <2>2, <2>3, TypesNext DEF IInv
<1>3. ASSUME NEW h \in Requests, NEW f \in Files, Load(h, f) PROVE IInv'
  <2>1. ReqsOK' /\ Counted'
    BY <1>3, <1>0, AdmitCounts DEF Load, Keys, PCs
  <2>2. RestOK'
    BY <1>3, <1>0 DEF Load, Admit, RestOK, heldVars, relVars, fenceVars
  <2>3. OneDriverPerFile' /\ Apart'
    BY <1>3, <1>0 DEF Load, MustOpen, RestOK, Tables, OneDriverPerFile, Apart
  <2>4. OneOpener'
    BY <1>3, <1>0 DEF Load, MustOpen, Admit, ReqsOK, Tables, OneOpener
  <2>5. WorkInTable'
    BY <1>3, <1>0 DEF Load, Admit, heldVars, Tables, WorkInTable
  <2>6. Tables'
    BY <2>3, <2>4, <2>5 DEF Tables
  <2> QED
    BY <2>1, <2>2, <2>6, TypesNext DEF IInv
<1>4. ASSUME NEW h \in Requests, NEW f \in Files, Close(h, f) PROVE IInv'
  <2>1. ReqsOK' /\ Counted'
    BY <1>4, <1>0, AdmitCounts DEF Close, Keys, PCs
  <2>2. RestOK'
    BY <1>4, <1>0
    DEF Close, Admit, RestOK, tableVars, heldVars, relVars, fenceVars
  <2>3. Tables'
    BY <1>4, <1>0, TablesStay DEF Close, Admit, tableVars, heldVars
  <2> QED
    BY <2>1, <2>2, <2>3, TypesNext DEF IInv
<1>5. ASSUME NEW h \in Requests, NEW f \in Files, Fork(h, f) PROVE IInv'
  <2>1. ReqsOK' /\ Counted'
    BY <1>5, <1>0, AdmitCounts DEF Fork, Keys, PCs
  <2>2. RestOK'
    BY <1>5, <1>0
    DEF Fork, Admit, RestOK, tableVars, heldVars, relVars, fenceVars
  <2>3. Tables'
    BY <1>5, <1>0, TablesStay DEF Fork, Admit, tableVars, heldVars
  <2> QED
    BY <2>1, <2>2, <2>3, TypesNext DEF IInv
<1>6. ASSUME NEW h \in Requests, Return(h) PROVE IInv'
  <2>1. pc[h] # "idle" /\ fence' = fence /\ Answer(h)
    BY <1>6, <1>0 DEF Return, fenceVars
  <2>2. Counted' /\ outstanding' \in Nat
    BY <1>0, <2>1, AnswerCounts
  <2>3. ReqsOK'
    BY <1>6, <1>0, <2>2, LoweredType DEF Return, Answer, ReqsOK, Keys, PCs
  <2>4. RestOK'
    BY <1>6, <1>0 DEF Return, RestOK, tableVars, heldVars, relVars, fenceVars
  <2>5. Tables'
    BY <1>6, <1>0, TablesStay DEF Return, Answer, tableVars, heldVars
  <2> QED
    BY <2>2, <2>3, <2>4, <2>5, TypesNext DEF IInv
<1>7. ASSUME NEW h \in Requests, NEW ok \in BOOLEAN, OpenEnds(h, ok)
      PROVE  IInv'
  <2>1. key[h] \in opens /\ key[h] \notin table /\ key[h] \in Files
    BY <1>7, <1>0 DEF OpenEnds, Tables, OneOpener, Apart, RestOK
  <2>2. ReqsOK'
    BY <1>7, <1>0, ReqsGoOn DEF OpenEnds, PCs
  <2>3. OneDriverPerFile' /\ drivers' \in [Files -> Nat]
    BY <1>7, <1>0, <2>1 DEF OpenEnds, RestOK, Tables, OneDriverPerFile
  <2>4. RestOK'
    BY <1>7, <1>0, <2>1, <2>3
    DEF OpenEnds, RestOK, heldVars, relVars, fenceVars
  <2>5. Apart'
    BY <1>7, <1>0, <2>1 DEF OpenEnds, Tables, Apart
  <2>6. OneOpener'
    BY <1>7, <1>0, <2>1 DEF OpenEnds, ReqsOK, Tables, OneOpener
  <2>7. WorkInTable'
    BY <1>7, <1>0 DEF OpenEnds, heldVars, Tables, WorkInTable
  <2>8. Tables'
    BY <2>3, <2>5, <2>6, <2>7 DEF Tables
  <2>9. Counted'
    BY <1>7, <1>0, CountedStays DEF OpenEnds, countVars, fenceVars
  <2> QED
    BY <2>2, <2>4, <2>8, <2>9, TypesNext DEF IInv
<1>8. ASSUME NEW h \in Requests, CloseStarts(h) PROVE IInv'
  <2>1. PICK to \in PCs \ {"idle", "opening"} : pc' = [pc EXCEPT ![h] = to]
    BY <1>8, <1>0 DEF CloseStarts, PCs
  <2>2. ReqsOK'
    BY <1>8, <1>0, <2>1, ReqsGoOn DEF CloseStarts
  <2>3. RestOK'
    BY <1>8, <1>0
    DEF CloseStarts, RestOK, tableVars, heldVars, relVars, fenceVars
  <2>4. Tables'
    BY <1>8, <1>0, <2>1, TablesStay DEF CloseStarts, tableVars, heldVars
  <2>5. Counted'
    BY <1>8, <1>0, <2>1, CountedStays DEF CloseStarts, countVars, fenceVars
  <2> QED
    BY <2>2, <2>3, <2>4, <2>5, TypesNext DEF IInv
<1>9. ASSUME NEW h \in Requests, NEW ok \in BOOLEAN, CloseEnds(h, ok)
      PROVE  IInv'
  <2>1. ReqsOK'
    BY <1>9, <1>0, ReqsGoOn DEF CloseEnds, PCs
  <2>2. /\ OneDriverPerFile' /\ Apart' /\ WorkInTable'
        /\ drivers' \in [Files -> Nat] /\ work' \in [Files -> Works]
        /\ table' \subseteq Files /\ closeFailed' \subseteq Files
    BY <1>9, <1>0, DropKeeps
    DEF CloseEnds, RestOK, Tables, OneDriverPerFile, Apart, WorkInTable
  <2>3. RestOK'
    BY <1>9, <1>0, <2>2 DEF CloseEnds, RestOK, relVars, fenceVars
  <2>4. OneOpener'
    BY <1>9, <1>0, OpenersStay DEF CloseEnds, ReqsOK
  <2>5. Tables'
    BY <2>2, <2>4 DEF Tables
  <2>6. Counted'
    BY <1>9, <1>0, CountedStays DEF CloseEnds, countVars, fenceVars
  <2> QED
    BY <2>1, <2>3, <2>5, <2>6, TypesNext DEF IInv
<1>10. ASSUME NEW h \in Requests, ForkStarts(h) PROVE IInv'
  <2>1. PICK to \in PCs \ {"idle", "opening"} : pc' = [pc EXCEPT ![h] = to]
    BY <1>10, <1>0 DEF ForkStarts, PCs
  <2>2. ReqsOK'
    BY <1>10, <1>0, <2>1, ReqsGoOn DEF ForkStarts
  <2>3. RestOK'
    BY <1>10, <1>0
    DEF ForkStarts, RestOK, tableVars, heldVars, relVars, fenceVars
  <2>4. Tables'
    BY <1>10, <1>0, <2>1, TablesStay DEF ForkStarts, tableVars, heldVars
  <2>5. Counted'
    BY <1>10, <1>0, <2>1, CountedStays DEF ForkStarts, countVars, fenceVars
  <2> QED
    BY <2>2, <2>3, <2>4, <2>5, TypesNext DEF IInv
<1>11. ASSUME NEW h \in Requests, NEW ok \in BOOLEAN, ForkEnds(h, ok)
       PROVE  IInv'
  <2>1. pc[h] # "idle" /\ fence' = fence /\ Answer(h)
    BY <1>11 DEF ForkEnds, fenceVars
  <2>2. Counted' /\ outstanding' \in Nat
    BY <1>0, <2>1, AnswerCounts
  <2>3. pc' \in [Requests -> PCs] /\ key' \in [Requests -> Keys]
    BY <1>0, <2>1 DEF Answer, ReqsOK, Keys, PCs
  <2>4. \A g \in Requests :
          pc'[g] = "opening" => pc[g] = "opening" /\ key'[g] = key[g]
    BY <1>0, <2>1 DEF Answer, ReqsOK
  <2>5. CASE ~ok
    <3>1. UNCHANGED <<tableVars, work, closeFailed, owed, relVars, fenceVars>>
      BY <1>11, <2>5 DEF ForkEnds
    <3>2. inFlight' = Lowered(inFlight, key[h])
            /\ live' = [live EXCEPT ![h] = NoFile]
      BY <1>11, <2>5 DEF ForkEnds
    <3>3. ReqsOK'
      BY <1>0, <2>2, <2>3, <3>2, LoweredType DEF ReqsOK, Keys
    <3>4. RestOK'
      BY <1>0, <3>1 DEF RestOK, tableVars, relVars, fenceVars
    <3>5. Tables'
      BY <1>0, <2>4, <3>1, TablesStay DEF tableVars
    <3> QED
      BY <2>2, <3>3, <3>4, <3>5, TypesNext DEF IInv
  <2>6. CASE ok
    <3> DEFINE old == live[h]
    <3>1. old \in table /\ old \in Files
      BY <1>11, <1>0, <2>6 DEF ForkEnds, RestOK
    <3>2. PICK new \in Files \ stored :
            /\ stored' = stored \cup {new}
            /\ table' = (table \ {old}) \cup {new}
            /\ drivers' = [drivers EXCEPT ![old] = @ - 1, ![new] = @ + 1]
            /\ inFlight' = Lowered(Rekeyed(inFlight, old, new), key[h])
            /\ work' = [work EXCEPT ![old] = "none", ![new] = work[old]]
            /\ closeFailed' = IF old \in closeFailed
                                THEN (closeFailed \ {old}) \cup {new}
                                ELSE closeFailed
            /\ live' = Followed(h, old, new)
            /\ UNCHANGED opens
      BY <1>11, <2>6 DEF ForkEnds
    <3>3. new \notin table /\ new \notin opens /\ old \notin opens /\ new # old
      BY <1>0, <3>1, <3>2 DEF Tables, Apart
    <3>4. Rekeyed(inFlight, old, new) \in [Keys -> Nat] /\ key[h] \in Keys
      BY <1>0, <3>1, <3>2 DEF Rekeyed, ReqsOK, Keys
    <3>5. ReqsOK'
      BY <1>0, <2>2, <2>3, <3>2, <3>4, LoweredType DEF ReqsOK, Followed, Keys
    <3>6. OneDriverPerFile' /\ drivers' \in [Files -> Nat]
      BY <1>0, <3>1, <3>2, <3>3 DEF RestOK, Tables, OneDriverPerFile
    <3>7. WorkInTable' /\ work' \in [Files -> Works]
      BY <1>0, <3>1, <3>2, <3>3 DEF RestOK, Tables, WorkInTable
    <3>8. RestOK'
      BY <1>11, <1>0, <3>2, <3>6, <3>7
      DEF ForkEnds, RestOK, relVars, fenceVars
    <3>9. Apart'
      BY <1>0, <3>2, <3>3 DEF Tables, Apart
    <3>10. OneOpener'
      BY <1>0, <2>4, <3>2, OpenersStay
    <3>11. Tables'
      BY <3>6, <3>7, <3>9, <3>10 DEF Tables
    <3> QED
      BY <2>2, <3>5, <3>8, <3>11, TypesNext DEF IInv
  <2> QED
    BY <2>5, <2>6
<1>12. ASSUME NEW h \in Requests, NEW w \in {"held", "busy"}, StartWork(h, w)
       PROVE  IInv'
  <2>1. ReqsOK'
    BY <1>12, <1>0, ReqsStay DEF StartWork, SetWork
  <2>2. WorkInTable' /\ work' \in [Files -> Works]
    BY <1>12, <1>0
    DEF StartWork, SetWork, MayStart, tableVars, RestOK, Works, Tables,
      WorkInTable
  <2>3. RestOK'
    BY <1>12, <1>0, <2>2
    DEF StartWork, SetWork, RestOK, tableVars, relVars, fenceVars
  <2>4. OneDriverPerFile' /\ Apart' /\ OneOpener'
    BY <1>12, <1>0, DriversStay, OpenersStay
    DEF StartWork, SetWork, tableVars, reqVars
  <2>5. Tables'
    BY <2>2, <2>4 DEF Tables
  <2>6. Counted'
    BY <1>12, <1>0, CountedStays
    DEF StartWork, SetWork, countVars, fenceVars, reqVars
  <2> QED
    BY <2>1, <2>3, <2>5, <2>6, TypesNext DEF IInv
<1>13. ASSUME NEW f \in Files, ExtensionWork(f) PROVE IInv'
  <2>1. ReqsOK'
    BY <1>13, <1>0, ReqsStay DEF ExtensionWork, SetWork
  <2>2. WorkInTable' /\ work' \in [Files -> Works]
    BY <1>13, <1>0
    DEF ExtensionWork, SetWork, MayStart, tableVars, RestOK, Works, Tables,
      WorkInTable
  <2>3. RestOK'
    BY <1>13, <1>0, <2>2
    DEF ExtensionWork, SetWork, RestOK, tableVars, relVars, fenceVars
  <2>4. OneDriverPerFile' /\ Apart' /\ OneOpener'
    BY <1>13, <1>0, DriversStay, OpenersStay
    DEF ExtensionWork, SetWork, tableVars, reqVars
  <2>5. Tables'
    BY <2>2, <2>4 DEF Tables
  <2>6. Counted'
    BY <1>13, <1>0, CountedStays
    DEF ExtensionWork, SetWork, countVars, fenceVars, reqVars
  <2> QED
    BY <2>1, <2>3, <2>5, <2>6, TypesNext DEF IInv
<1>14. ASSUME NEW f \in Files, NEW w \in Works, WorkEnds(f, w) PROVE IInv'
  <2>1. ReqsOK'
    BY <1>14, <1>0, ReqsStay DEF WorkEnds, SetWork
  <2>2. WorkInTable' /\ work' \in [Files -> Works]
    BY <1>14, <1>0
    DEF WorkEnds, SetWork, tableVars, RestOK, Tables, WorkInTable
  <2>3. RestOK'
    BY <1>14, <1>0, <2>2
    DEF WorkEnds, SetWork, RestOK, tableVars, relVars, fenceVars
  <2>4. OneDriverPerFile' /\ Apart' /\ OneOpener'
    BY <1>14, <1>0, DriversStay, OpenersStay
    DEF WorkEnds, SetWork, tableVars, reqVars
  <2>5. Tables'
    BY <2>2, <2>4 DEF Tables
  <2>6. Counted'
    BY <1>14, <1>0, CountedStays
    DEF WorkEnds, SetWork, countVars, fenceVars, reqVars
  <2> QED
    BY <2>1, <2>3, <2>5, <2>6, TypesNext DEF IInv
<1>15. ASSUME NEW f \in Files, DriverCloses(f) PROVE IInv'
  <2>1. ReqsOK'
    BY <1>15, <1>0, ReqsStay DEF DriverCloses
  <2>2. /\ OneDriverPerFile' /\ Apart' /\ WorkInTable'
        /\ drivers' \in [Files -> Nat] /\ work' \in [Files -> Works]
        /\ table' \subseteq Files /\ closeFailed' \subseteq Files
    BY <1>15, <1>0, DropKeeps DEF DriverCloses
  <2>3. RestOK'
    BY <1>15, <1>0, <2>2 DEF DriverCloses, RestOK, relVars, fenceVars
  <2>4. OneOpener'
    BY <1>15, <1>0, OpenersStay DEF DriverCloses, reqVars
  <2>5. Tables'
    BY <2>2, <2>4 DEF Tables
  <2>6. Counted'
    BY <1>15, <1>0, CountedStays
    DEF DriverCloses, countVars, fenceVars, reqVars
  <2> QED
    BY <2>1, <2>3, <2>5, <2>6, TypesNext DEF IInv
<1>16. ASSUME NEW f \in Files, OwedEnds(f) PROVE IInv'
  <2>1. ReqsOK' /\ RestOK'
    BY <1>16, <1>0, ReqsStay
    DEF OwedEnds, RestOK, tableVars, relVars, fenceVars
  <2>2. Tables'
    BY <1>16, <1>0, TablesStay DEF OwedEnds, tableVars, reqVars
  <2>3. Counted'
    BY <1>16, <1>0, CountedStays DEF OwedEnds, countVars, fenceVars, reqVars
  <2> QED
    BY <2>1, <2>2, <2>3, TypesNext DEF IInv
<1>17. ASSUME NEW f \in Files, Unload(f) PROVE IInv'
  <2>1. ReqsOK' /\ RestOK'
    BY <1>17, <1>0, ReqsStay
    DEF Unload, RestOK, tableVars, heldVars, fenceVars, SetUnload
  <2>2. Tables'
    BY <1>17, <1>0, TablesStay DEF Unload, tableVars, heldVars, reqVars
  <2>3. Counted'
    BY <1>17, <1>0, CountedStays DEF Unload, countVars, fenceVars, reqVars
  <2> QED
    BY <2>1, <2>2, <2>3, TypesNext DEF IInv
<1>18. ASSUME NEW f \in Files, UnloadDecides(f) PROVE IInv'
  <2>1. ReqsOK' /\ RestOK'
    BY <1>18, <1>0, ReqsStay
    DEF UnloadDecides, RestOK, tableVars, heldVars, fenceVars, SetUnload
  <2>2. Tables'
    BY <1>18, <1>0, TablesStay DEF UnloadDecides, tableVars, heldVars, reqVars
  <2>3. Counted'
    BY <1>18, <1>0, CountedStays
    DEF UnloadDecides, countVars, fenceVars, reqVars
  <2> QED
    BY <2>1, <2>2, <2>3, TypesNext DEF IInv
<1>19. ASSUME NEW f \in Files, NEW ready \in BOOLEAN, UnloadPrepared(f, ready)
       PROVE  IInv'
  <2>1. ReqsOK' /\ RestOK'
    BY <1>19, <1>0, ReqsStay
    DEF UnloadPrepared, RestOK, tableVars, heldVars, fenceVars, SetUnload
  <2>2. Tables'
    BY <1>19, <1>0, TablesStay
    DEF UnloadPrepared, tableVars, heldVars, reqVars
  <2>3. Counted'
    BY <1>19, <1>0, CountedStays
    DEF UnloadPrepared, countVars, fenceVars, reqVars
  <2> QED
    BY <2>1, <2>2, <2>3, TypesNext DEF IInv
<1>20. ASSUME NEW f \in Files, NEW ok \in BOOLEAN, UnloadEnds(f, ok)
       PROVE  IInv'
  <2>1. ReqsOK'
    BY <1>20, <1>0, ReqsStay DEF UnloadEnds
  <2>2. /\ OneDriverPerFile' /\ Apart' /\ WorkInTable'
        /\ drivers' \in [Files -> Nat] /\ work' \in [Files -> Works]
        /\ table' \subseteq Files /\ closeFailed' \subseteq Files
    BY <1>20, <1>0, DropKeeps
    DEF UnloadEnds, RestOK, Tables, OneDriverPerFile, Apart, WorkInTable
  <2>3. RestOK'
    BY <1>20, <1>0, <2>2 DEF UnloadEnds, SetUnload, RestOK, fenceVars
  <2>4. OneOpener'
    BY <1>20, <1>0, OpenersStay DEF UnloadEnds, reqVars
  <2>5. Tables'
    BY <2>2, <2>4 DEF Tables
  <2>6. Counted'
    BY <1>20, <1>0, CountedStays DEF UnloadEnds, countVars, fenceVars, reqVars
  <2> QED
    BY <2>1, <2>3, <2>5, <2>6, TypesNext DEF IInv
<1>21. ASSUME NEW m \in {"automatic", "explicit"}, Retire(m) PROVE IInv'
  <2>1. ReqsOK' /\ RestOK'
    BY <1>21, <1>0, ReqsStay
    DEF Retire, RestOK, tableVars, heldVars, relVars, MoveFence
  <2>2. Tables'
    BY <1>21, <1>0, TablesStay
    DEF Retire, tableVars, heldVars, reqVars, MoveFence
  <2>3. Counted'
    BY <1>21, <1>0, CountedStays DEF Retire, countVars, reqVars, MoveFence
  <2> QED
    BY <2>1, <2>2, <2>3, TypesNext DEF IInv
<1>22. ASSUME Drained PROVE IInv'
  <2>1. ReqsOK' /\ RestOK'
    BY <1>22, <1>0, ReqsStay
    DEF Drained, MoveFence, RestOK, tableVars, heldVars, relVars
  <2>2. Tables'
    BY <1>22, <1>0, TablesStay
    DEF Drained, MoveFence, tableVars, heldVars, reqVars
  <2>3. Cardinality(Active) = 0
    BY <1>22, <1>0 DEF Drained, Counted, CountExact
  <2>4. Active = {}
    BY <2>3, FiniteActive, FS_EmptySet
  <2>5. Counted'
    BY <1>22, <1>0, <2>4
    DEF Drained, MoveFence, Active, Counted, CountExact,
      AcknowledgedServesNobody, countVars, reqVars
  <2> QED
    BY <2>1, <2>2, <2>5, TypesNext DEF IInv
<1>23. ASSUME DrainTimesOut PROVE IInv'
  <2>1. ReqsOK' /\ RestOK'
    BY <1>23, <1>0, ReqsStay
    DEF DrainTimesOut, RestOK, tableVars, heldVars, relVars, MoveFence
  <2>2. Tables'
    BY <1>23, <1>0, TablesStay
    DEF DrainTimesOut, tableVars, heldVars, reqVars, MoveFence
  <2>3. Counted'
    BY <1>23, <1>0, CountedStays
    DEF DrainTimesOut, countVars, reqVars, MoveFence
  <2> QED
    BY <2>1, <2>2, <2>3, TypesNext DEF IInv
<1>24. ASSUME Decide PROVE IInv'
  <2>1. ReqsOK' /\ RestOK'
    BY <1>24, <1>0, ReqsStay
    DEF Decide, RestOK, tableVars, heldVars, relVars, MoveFence
  <2>2. Tables'
    BY <1>24, <1>0, TablesStay
    DEF Decide, tableVars, heldVars, reqVars, MoveFence
  <2>3. Counted'
    BY <1>24, <1>0, CountedStays DEF Decide, countVars, reqVars, MoveFence
  <2> QED
    BY <2>1, <2>2, <2>3, TypesNext DEF IInv
<1>25. ASSUME LeaseExpires PROVE IInv'
  <2>1. ReqsOK' /\ RestOK'
    BY <1>25, <1>0, ReqsStay
    DEF LeaseExpires, RestOK, tableVars, heldVars, relVars, MoveFence
  <2>2. Tables'
    BY <1>25, <1>0, TablesStay
    DEF LeaseExpires, tableVars, heldVars, reqVars, MoveFence
  <2>3. Counted'
    BY <1>25, <1>0, CountedStays
    DEF LeaseExpires, countVars, reqVars, MoveFence
  <2> QED
    BY <2>1, <2>2, <2>3, TypesNext DEF IInv
<1>26. CASE UNCHANGED vars
  <2>1. ReqsOK' /\ RestOK'
    BY <1>26, <1>0, ReqsStay
    DEF RestOK, vars, tableVars, heldVars, relVars, fenceVars
  <2>2. Tables'
    BY <1>26, <1>0, TablesStay DEF vars, tableVars, heldVars, reqVars
  <2>3. Counted'
    BY <1>26, <1>0, CountedStays DEF vars, countVars, fenceVars, reqVars
  <2> QED
    BY <2>1, <2>2, <2>3, TypesNext DEF IInv
<1> QED
  BY <1>1, <1>2, <1>3, <1>4, <1>5, <1>6, <1>7, <1>8, <1>9, <1>10, <1>11,
    <1>12, <1>13, <1>14, <1>15, <1>16, <1>17, <1>18, <1>19, <1>20, <1>21,
    <1>22, <1>23, <1>24, <1>25, <1>26
  DEF Next

\* So it holds in every reachable state.
LEMMA Invariance == Spec => []IInv
<1>1. Init => IInv
  BY InitInv
<1>2. IInv /\ [Next]_vars => IInv'
  BY NextInv
<1> QED
  BY <1>1, <1>2, PTL DEF Spec

-----------------------------------------------------------------------------
\* Every variable keeps its type; in particular no driver is disposed twice.
THEOREM TypeCorrect == Spec => []TypeOK
<1>1. IInv => TypeOK
  BY DEF IInv
<1> QED
  BY Invariance, <1>1, PTL

\* One engine driver per session file (server.ts:2730), for any number of
\* handlers that load, close and fork it, and releases beside them.
THEOREM OneWriterPerFile == Spec => []OneDriverPerFile
<1>1. IInv => OneDriverPerFile
  BY DEF IInv, Tables
<1> QED
  BY Invariance, <1>1, PTL

\* A worker that has decided to retire serves nobody
\* (session-runtimes.ts:15-18).
THEOREM RetiringServesNobody == Spec => []AcknowledgedServesNobody
<1>1. IInv => AcknowledgedServesNobody
  BY DEF IInv, Counted
<1> QED
  BY Invariance, <1>1, PTL

\* Only the decision acknowledges a retirement.
LEMMA DecideAcknowledges ==
  ASSUME Next, fence # "acknowledged", fence' = "acknowledged"
  PROVE  Decide
<1>1. ~\E h \in Requests, k \in Keys : Refuse(h, k) \/ Serve(h, k)
  BY DEF Refuse, Serve, Admit, fenceVars
<1>2. ~\E h \in Requests, f \in Files : Load(h, f) \/ Close(h, f) \/ Fork(h, f)
  BY DEF Load, Close, Fork, Admit, fenceVars
<1>3. ~\E h \in Requests : Return(h) \/ CloseStarts(h) \/ ForkStarts(h)
  BY DEF Return, CloseStarts, ForkStarts, fenceVars
<1>4. ~\E h \in Requests, ok \in BOOLEAN :
         OpenEnds(h, ok) \/ CloseEnds(h, ok) \/ ForkEnds(h, ok)
  BY DEF OpenEnds, CloseEnds, ForkEnds, fenceVars
<1>5. /\ ~\E h \in Requests, w \in {"held", "busy"} : StartWork(h, w)
      /\ ~\E f \in Files, w \in Works : WorkEnds(f, w)
      /\ ~\E f \in Files : ExtensionWork(f) \/ DriverCloses(f) \/ OwedEnds(f)
  BY DEF StartWork, WorkEnds, ExtensionWork, SetWork, DriverCloses, OwedEnds,
    fenceVars
<1>6. /\ ~\E f \in Files : Unload(f) \/ UnloadDecides(f)
      /\ ~\E f \in Files, b \in BOOLEAN :
           UnloadPrepared(f, b) \/ UnloadEnds(f, b)
  BY DEF Unload, UnloadDecides, UnloadPrepared, UnloadEnds, fenceVars
<1>7. /\ ~\E m \in {"automatic", "explicit"} : Retire(m)
      /\ ~Drained /\ ~DrainTimesOut /\ ~LeaseExpires
  BY DEF Retire, Drained, DrainTimesOut, LeaseExpires, MoveFence
<1> QED
  BY <1>1, <1>2, <1>3, <1>4, <1>5, <1>6, <1>7 DEF Next

\* A session that holds work has a row in the safety answer, and its row blocks.
LEMMA DecisionFindsNoWork ==
  ASSUME IInv, [Next]_vars
  PROVE  [fence # "acknowledged" /\ fence' = "acknowledged" =>
            /\ opens = {} /\ Releasing = {} /\ owed = {}
            /\ \A f \in Files : work[f] \notin {"held", "busy"}]_vars
<1> SUFFICES ASSUME Next, fence # "acknowledged", fence' = "acknowledged"
             PROVE  /\ opens = {} /\ Releasing = {} /\ owed = {}
                    /\ \A f \in Files : work[f] \notin {"held", "busy"}
  OBVIOUS
<1>1. \E rows \in Answers : MayRetire(rows)
  BY DecideAcknowledges DEF Decide, MoveFence
<1>2. \A f \in SafetyRows : f \in table /\ ~WorkPinned(f, FALSE)
  BY <1>1 DEF MayRetire, Blocks
<1>3. opens = {} /\ owed = {}
  BY <1>2 DEF SafetyRows, WorkPinned
<1>4. Releasing = {}
  BY <1>2 DEF SafetyRows, WorkPinned, LockBusy, LockHeld
<1>5. ASSUME NEW f \in Files, work[f] \in {"held", "busy"} PROVE FALSE
  <2>1. f \in SafetyRows
    BY <1>5 DEF IInv, Tables, WorkInTable, SafetyRows
  <2> QED
    BY <1>2, <1>5, <2>1 DEF WorkPinned
<1> QED
  BY <1>3, <1>4, <1>5

\* An acknowledged retirement ends no work (worker-lifetime.ts:306-318), however
\* many sessions there are and however few rows a safety answer holds.
THEOREM RetirementSparesWork == Spec => RetirementEndsNoWork
<1>1. IInv /\ [Next]_vars =>
        [fence # "acknowledged" /\ fence' = "acknowledged" =>
           /\ opens = {} /\ Releasing = {} /\ owed = {}
           /\ \A f \in Files : work[f] \notin {"held", "busy"}]_vars
  BY DecisionFindsNoWork
<1> QED
  BY Invariance, <1>1, PTL DEF Spec, RetirementEndsNoWork

-----------------------------------------------------------------------------
(* A worker that is asked for no fork.                                     *)

\* The handlers that named k, when no handler comes or goes.
LEMMA ServingStays ==
  ASSUME \A h \in Requests :
           (pc'[h] = "idle") = (pc[h] = "idle") /\ key'[h] = key[h]
  PROVE  \A k : Serving(k)' = Serving(k)
BY DEF Serving

\* Those that named a session are finitely many.
LEMMA FiniteServing ==
  ASSUME NEW k
  PROVE  IsFiniteSet(Serving(k)) /\ Cardinality(Serving(k)) \in Nat
<1>1. Serving(k) \subseteq Requests /\ IsFiniteSet(Requests)
  BY FencesAssumption DEF Serving
<1> QED
  BY <1>1, FS_Subset, FS_CardinalityType

\* The counts stay with the handlers and what they named.
LEMMA CountsStay ==
  ASSUME CountsExact, inFlight' = inFlight,
         \A h \in Requests :
           (pc'[h] = "idle") = (pc[h] = "idle") /\ key'[h] = key[h]
  PROVE  CountsExact'
BY ServingStays DEF CountsExact

\* A release stays idle while nobody comes, nothing opens and no work begins.
LEMMA IdleStays ==
  ASSUME IdleRelease,
         \A f \in Files :
           unload'[f] \in {"preparing", "disposing"} =>
             /\ unload[f] \in {"preparing", "disposing"}
             /\ Serving(f) = {} => Serving(f)' = {}
             /\ work[f] = "none" => work'[f] = "none"
             /\ f \in opens' => f \in opens
             /\ f \in owed' => f \in owed \/ work[f] # "none"
  PROVE  IdleRelease'
BY DEF IdleRelease

\* Nobody is served at first,
LEMMA InitUInv == Init => UInv
<1> SUFFICES ASSUME Init PROVE UInv
  OBVIOUS
<1>1. \A k : Serving(k) = {}
  BY DEF Init, Serving
<1> QED
  BY <1>1, FS_EmptySet DEF Init, UInv, HoldsItsOwn, CountsExact, IdleRelease

\* admit() counts a request under the session it names, unless that session is
\* being released.
LEMMA AdmitKeepsU ==
  ASSUME TypeOK, UInv, NEW h \in Requests, NEW k \in Keys,
         NEW where \in {"serving", "opening", "waitClose"}, Admit(h, k, where),
         opens' \in {opens, opens \cup {k}}
  PROVE  UInv'
<1>0. ReqsOK /\ RestOK
  BY Types
<1>1. HoldsItsOwn'
  BY <1>0 DEF Admit, ReqsOK, UInv, HoldsItsOwn
<1>2. Serving(k)' = Serving(k) \cup {h} /\ h \notin Serving(k)
  BY <1>0 DEF Admit, Serving, ReqsOK
<1>3. \A j : j # k => Serving(j)' = Serving(j)
  BY <1>0 DEF Admit, Serving, ReqsOK
<1>4. Cardinality(Serving(k)') = Cardinality(Serving(k)) + 1
  BY <1>2, FiniteServing, FS_AddElement
<1>5. CountsExact'
  BY <1>0, <1>3, <1>4 DEF Admit, ReqsOK, UInv, CountsExact
<1>6. k \in Files => unload[k] = "none"
  BY DEF Admit, Admitted, RefusedByRelease, Releasing
<1>7. IdleRelease'
  BY <1>3, <1>6 DEF Admit, heldVars, relVars, UInv, IdleRelease
<1> QED
  BY <1>1, <1>5, <1>7 DEF UInv

\* Its answer is counted under the same session.
LEMMA ReturnKeepsU ==
  ASSUME TypeOK, UInv, NEW h \in Requests, Return(h)
  PROVE  UInv'
<1>0. ReqsOK /\ RestOK
  BY Types
<1>1. HoldsItsOwn'
  BY <1>0 DEF Return, Answer, ReqsOK, UInv, HoldsItsOwn
<1>2. PICK k \in Keys : k = key[h]
  BY <1>0 DEF ReqsOK
<1>3. Serving(k)' = Serving(k) \ {h} /\ h \in Serving(k)
  BY <1>0, <1>2 DEF Return, Answer, Serving, ReqsOK
<1>4. \A j : j # k => Serving(j)' = Serving(j)
  BY <1>0, <1>2 DEF Return, Answer, Serving, ReqsOK
<1>5. /\ Cardinality(Serving(k)') = Cardinality(Serving(k)) - 1
      /\ Cardinality(Serving(k)) > 0
  BY <1>3, FiniteServing, FS_RemoveElement, FS_EmptySet
<1>6. CountsExact'
  <2>1. inFlight' = Lowered(inFlight, k)
    BY <1>2 DEF Return
  <2>2. inFlight'[k] = Cardinality(Serving(k)')
    BY <1>0, <1>5, <2>1 DEF Lowered, ReqsOK, UInv, CountsExact
  <2>3. \A j \in Keys : j # k => inFlight'[j] = Cardinality(Serving(j)')
    BY <1>0, <1>4, <2>1 DEF Lowered, UInv, CountsExact
  <2> QED
    BY <2>2, <2>3 DEF CountsExact
<1>7. IdleRelease'
  BY <1>3, <1>4, IdleStays DEF Return, tableVars, heldVars, relVars, UInv
<1> QED
  BY <1>1, <1>6, <1>7 DEF UInv

\* and without a fork every action keeps what it says.
LEMMA NextUInv ==
  ASSUME ~Forking
  PROVE  IInv /\ UInv /\ [Next]_vars => UInv'
<1> SUFFICES ASSUME IInv, UInv, [Next]_vars PROVE UInv'
  OBVIOUS
<1>0. /\ TypeOK /\ Tables /\ ReqsOK /\ RestOK
      /\ HoldsItsOwn /\ CountsExact /\ IdleRelease
  BY Types DEF IInv, UInv
<1>1. ASSUME NEW h \in Requests, NEW k \in Keys, Refuse(h, k) PROVE UInv'
  <2>1. HoldsItsOwn'
    BY <1>1, <1>0 DEF Refuse, HoldsItsOwn, reqVars
  <2>2. CountsExact'
    BY <1>1, <1>0, CountsStay DEF Refuse, countVars, reqVars
  <2>3. IdleRelease'
    BY <1>1, <1>0, ServingStays, IdleStays
    DEF Refuse, tableVars, heldVars, reqVars
  <2> QED
    BY <2>1, <2>2, <2>3 DEF UInv
<1>2. ASSUME NEW h \in Requests, NEW k \in Keys, Serve(h, k) PROVE UInv'
  BY <1>2, <1>0, AdmitKeepsU DEF Serve, tableVars
<1>3. ASSUME NEW h \in Requests, NEW f \in Files, Load(h, f) PROVE UInv'
  BY <1>3, <1>0, AdmitKeepsU DEF Load, Keys
<1>4. ASSUME NEW h \in Requests, NEW f \in Files, Close(h, f) PROVE UInv'
  BY <1>4, <1>0, AdmitKeepsU DEF Close, Keys, tableVars
<1>5. ASSUME NEW h \in Requests, NEW f \in Files, Fork(h, f) PROVE UInv'
  BY <1>5, <1>0 DEF Fork
<1>6. ASSUME NEW h \in Requests, Return(h) PROVE UInv'
  BY <1>6, <1>0, ReturnKeepsU
<1>7. ASSUME NEW h \in Requests, NEW ok \in BOOLEAN, OpenEnds(h, ok)
      PROVE  UInv'
  <2>1. /\ pc' = [pc EXCEPT ![h] = pc'[h]] /\ pc[h] # "idle"
        /\ pc'[h] \in {"serving", "closing"}
    BY <1>7, <1>0 DEF OpenEnds, ReqsOK
  <2>2. HoldsItsOwn'
    BY <1>7, <1>0, <2>1 DEF OpenEnds, HoldsItsOwn
  <2>3. CountsExact'
    BY <1>7, <1>0, <2>1, CountsStay DEF OpenEnds, countVars
  <2>4. \A k : Serving(k)' = Serving(k)
    BY <1>7, <1>0, <2>1, ServingStays DEF OpenEnds, ReqsOK
  <2>5. IdleRelease'
    BY <1>7, <1>0, <2>4, IdleStays DEF OpenEnds, heldVars, relVars
  <2> QED
    BY <2>2, <2>3, <2>5 DEF UInv
<1>8. ASSUME NEW h \in Requests, CloseStarts(h) PROVE UInv'
  <2>1. /\ pc' = [pc EXCEPT ![h] = pc'[h]] /\ pc[h] # "idle"
        /\ pc'[h] \in {"serving", "closing"}
    BY <1>8, <1>0 DEF CloseStarts, ReqsOK
  <2>2. HoldsItsOwn'
    BY <1>8, <1>0, <2>1 DEF CloseStarts, HoldsItsOwn
  <2>3. CountsExact'
    BY <1>8, <1>0, <2>1, CountsStay DEF CloseStarts, countVars
  <2>4. \A k : Serving(k)' = Serving(k)
    BY <1>8, <1>0, <2>1, ServingStays DEF CloseStarts, ReqsOK
  <2>5. IdleRelease'
    BY <1>8, <1>0, <2>4, IdleStays
    DEF CloseStarts, tableVars, heldVars, relVars
  <2> QED
    BY <2>2, <2>3, <2>5 DEF UInv
<1>9. ASSUME NEW h \in Requests, NEW ok \in BOOLEAN, CloseEnds(h, ok)
      PROVE  UInv'
  <2>1. /\ pc' = [pc EXCEPT ![h] = pc'[h]] /\ pc[h] # "idle"
        /\ pc'[h] \in {"serving", "closing"}
    BY <1>9, <1>0 DEF CloseEnds, ReqsOK
  <2>2. HoldsItsOwn'
    BY <1>9, <1>0, <2>1 DEF CloseEnds, HoldsItsOwn
  <2>3. CountsExact'
    BY <1>9, <1>0, <2>1, CountsStay DEF CloseEnds, countVars
  <2>4. \A k : Serving(k)' = Serving(k)
    BY <1>9, <1>0, <2>1, ServingStays DEF CloseEnds, ReqsOK
  <2>5. IdleRelease'
    BY <1>9, <1>0, <2>4, IdleStays DEF CloseEnds, RestOK, relVars, DropRuntime
  <2> QED
    BY <2>2, <2>3, <2>5 DEF UInv
<1>10. ASSUME NEW h \in Requests, ForkStarts(h) PROVE UInv'
  BY <1>10, <1>0 DEF ForkStarts, HoldsItsOwn
<1>11. ASSUME NEW h \in Requests, NEW ok \in BOOLEAN, ForkEnds(h, ok)
       PROVE  UInv'
  BY <1>11, <1>0 DEF ForkEnds, HoldsItsOwn
<1>12. ASSUME NEW h \in Requests, NEW w \in {"held", "busy"}, StartWork(h, w)
       PROVE  UInv'
  <2>1. live[h] \in Files /\ unload[live[h]] = "none"
    BY <1>12, <1>0 DEF StartWork, MayStart, LockHeld, Releasing, RestOK
  <2>2. HoldsItsOwn'
    BY <1>12, <1>0 DEF StartWork, SetWork, HoldsItsOwn, reqVars
  <2>3. CountsExact'
    BY <1>12, <1>0, CountsStay DEF StartWork, SetWork, countVars, reqVars
  <2>4. IdleRelease'
    BY <1>12, <1>0, <2>1, ServingStays, IdleStays
    DEF StartWork, SetWork, tableVars, relVars, reqVars
  <2> QED
    BY <2>2, <2>3, <2>4 DEF UInv
<1>13. ASSUME NEW f \in Files, ExtensionWork(f) PROVE UInv'
  <2>1. unload[f] = "none"
    BY <1>13, <1>0 DEF ExtensionWork, MayStart, LockHeld, Releasing
  <2>2. HoldsItsOwn'
    BY <1>13, <1>0 DEF ExtensionWork, SetWork, HoldsItsOwn, reqVars
  <2>3. CountsExact'
    BY <1>13, <1>0, CountsStay DEF ExtensionWork, SetWork, countVars, reqVars
  <2>4. IdleRelease'
    BY <1>13, <1>0, <2>1, ServingStays, IdleStays
    DEF ExtensionWork, SetWork, tableVars, relVars, reqVars
  <2> QED
    BY <2>2, <2>3, <2>4 DEF UInv
<1>14. ASSUME NEW f \in Files, NEW w \in Works, WorkEnds(f, w) PROVE UInv'
  <2>1. HoldsItsOwn'
    BY <1>14, <1>0 DEF WorkEnds, HoldsItsOwn, reqVars, SetWork
  <2>2. CountsExact'
    BY <1>14, <1>0, CountsStay DEF WorkEnds, countVars, reqVars, SetWork
  <2>3. IdleRelease'
    BY <1>14, <1>0, ServingStays, IdleStays
    DEF WorkEnds, tableVars, relVars, reqVars, SetWork
  <2> QED
    BY <2>1, <2>2, <2>3 DEF UInv
<1>15. ASSUME NEW f \in Files, DriverCloses(f) PROVE UInv'
  <2>1. HoldsItsOwn'
    BY <1>15, <1>0 DEF DriverCloses, HoldsItsOwn, reqVars
  <2>2. CountsExact'
    BY <1>15, <1>0, CountsStay DEF DriverCloses, countVars, reqVars
  <2>3. IdleRelease'
    BY <1>15, <1>0, ServingStays, IdleStays
    DEF DriverCloses, relVars, reqVars, DropRuntime
  <2> QED
    BY <2>1, <2>2, <2>3 DEF UInv
<1>16. ASSUME NEW f \in Files, OwedEnds(f) PROVE UInv'
  <2>1. HoldsItsOwn'
    BY <1>16, <1>0 DEF OwedEnds, HoldsItsOwn, reqVars
  <2>2. CountsExact'
    BY <1>16, <1>0, CountsStay DEF OwedEnds, countVars, reqVars
  <2>3. IdleRelease'
    BY <1>16, <1>0, ServingStays, IdleStays
    DEF OwedEnds, tableVars, relVars, reqVars
  <2> QED
    BY <2>1, <2>2, <2>3 DEF UInv
<1>17. ASSUME NEW f \in Files, Unload(f) PROVE UInv'
  <2>1. HoldsItsOwn'
    BY <1>17, <1>0 DEF Unload, HoldsItsOwn, reqVars
  <2>2. CountsExact'
    BY <1>17, <1>0, CountsStay DEF Unload, countVars, reqVars
  <2>3. IdleRelease'
    BY <1>17, <1>0, ServingStays, IdleStays
    DEF Unload, tableVars, heldVars, reqVars, SetUnload
  <2> QED
    BY <2>1, <2>2, <2>3 DEF UInv
<1>18. ASSUME NEW f \in Files, UnloadDecides(f) PROVE UInv'
  <2>1. HoldsItsOwn'
    BY <1>18, <1>0 DEF UnloadDecides, HoldsItsOwn, reqVars
  <2>2. CountsExact'
    BY <1>18, <1>0, CountsStay DEF UnloadDecides, countVars, reqVars
  <2>3. ASSUME unload'[f] = "preparing"
        PROVE  Serving(f)' = {} /\ work'[f] = "none" /\ f \notin opens' \cup owed'
    <3>1. ~Pinned(f, TRUE)
      BY <1>18, <1>0, <2>3 DEF UnloadDecides, SetUnload, RestOK
    <3>2. inFlight[f] = 0 /\ work[f] = "none" /\ f \notin opens \cup owed
      BY <1>0, <3>1 DEF Pinned, WorkPinned, ReqsOK, RestOK, Keys, Works
    <3>3. Serving(f) = {}
      BY <1>0, <3>2, FiniteServing, FS_EmptySet DEF CountsExact, Keys
    <3> QED
      BY <1>18, <3>2, <3>3, ServingStays
      DEF UnloadDecides, tableVars, heldVars, reqVars
  <2>4. IdleRelease'
    BY <1>18, <1>0, <2>3, ServingStays
    DEF UnloadDecides, SetUnload, RestOK, IdleRelease, tableVars, heldVars,
      reqVars
  <2> QED
    BY <2>1, <2>2, <2>4 DEF UInv
<1>19. ASSUME NEW f \in Files, NEW ready \in BOOLEAN, UnloadPrepared(f, ready)
       PROVE  UInv'
  <2>1. HoldsItsOwn'
    BY <1>19, <1>0 DEF UnloadPrepared, HoldsItsOwn, reqVars
  <2>2. CountsExact'
    BY <1>19, <1>0, CountsStay DEF UnloadPrepared, countVars, reqVars
  <2>3. IdleRelease'
    BY <1>19, <1>0, ServingStays, IdleStays
    DEF UnloadPrepared, tableVars, heldVars, reqVars, SetUnload
  <2> QED
    BY <2>1, <2>2, <2>3 DEF UInv
<1>20. ASSUME NEW f \in Files, NEW ok \in BOOLEAN, UnloadEnds(f, ok)
       PROVE  UInv'
  <2>1. HoldsItsOwn'
    BY <1>20, <1>0 DEF UnloadEnds, HoldsItsOwn, reqVars
  <2>2. CountsExact'
    BY <1>20, <1>0, CountsStay DEF UnloadEnds, countVars, reqVars
  <2>3. IdleRelease'
    BY <1>20, <1>0, ServingStays, IdleStays
    DEF UnloadEnds, RestOK, reqVars, SetUnload, DropRuntime
  <2> QED
    BY <2>1, <2>2, <2>3 DEF UInv
<1>21. ASSUME NEW m \in {"automatic", "explicit"}, Retire(m) PROVE UInv'
  <2>1. HoldsItsOwn'
    BY <1>21, <1>0 DEF Retire, HoldsItsOwn, reqVars, MoveFence
  <2>2. CountsExact'
    BY <1>21, <1>0, CountsStay DEF Retire, countVars, reqVars, MoveFence
  <2>3. IdleRelease'
    BY <1>21, <1>0, ServingStays, IdleStays
    DEF Retire, tableVars, heldVars, relVars, reqVars, MoveFence
  <2> QED
    BY <2>1, <2>2, <2>3 DEF UInv
<1>22. ASSUME Drained PROVE UInv'
  <2>1. HoldsItsOwn'
    BY <1>22, <1>0 DEF Drained, HoldsItsOwn, reqVars, MoveFence
  <2>2. CountsExact'
    BY <1>22, <1>0, CountsStay DEF Drained, countVars, reqVars, MoveFence
  <2>3. IdleRelease'
    BY <1>22, <1>0, ServingStays, IdleStays
    DEF Drained, tableVars, heldVars, relVars, reqVars, MoveFence
  <2> QED
    BY <2>1, <2>2, <2>3 DEF UInv
<1>23. ASSUME DrainTimesOut PROVE UInv'
  <2>1. HoldsItsOwn'
    BY <1>23, <1>0 DEF DrainTimesOut, HoldsItsOwn, reqVars, MoveFence
  <2>2. CountsExact'
    BY <1>23, <1>0, CountsStay
    DEF DrainTimesOut, countVars, reqVars, MoveFence
  <2>3. IdleRelease'
    BY <1>23, <1>0, ServingStays, IdleStays
    DEF DrainTimesOut, tableVars, heldVars, relVars, reqVars, MoveFence
  <2> QED
    BY <2>1, <2>2, <2>3 DEF UInv
<1>24. ASSUME Decide PROVE UInv'
  <2>1. HoldsItsOwn'
    BY <1>24, <1>0 DEF Decide, HoldsItsOwn, reqVars, MoveFence
  <2>2. CountsExact'
    BY <1>24, <1>0, CountsStay DEF Decide, countVars, reqVars, MoveFence
  <2>3. IdleRelease'
    BY <1>24, <1>0, ServingStays, IdleStays
    DEF Decide, tableVars, heldVars, relVars, reqVars, MoveFence
  <2> QED
    BY <2>1, <2>2, <2>3 DEF UInv
<1>25. ASSUME LeaseExpires PROVE UInv'
  <2>1. HoldsItsOwn'
    BY <1>25, <1>0 DEF LeaseExpires, HoldsItsOwn, reqVars, MoveFence
  <2>2. CountsExact'
    BY <1>25, <1>0, CountsStay DEF LeaseExpires, countVars, reqVars, MoveFence
  <2>3. IdleRelease'
    BY <1>25, <1>0, ServingStays, IdleStays
    DEF LeaseExpires, tableVars, heldVars, relVars, reqVars, MoveFence
  <2> QED
    BY <2>1, <2>2, <2>3 DEF UInv
<1>26. ASSUME UNCHANGED vars PROVE UInv'
  <2>1. HoldsItsOwn'
    BY <1>26, <1>0 DEF vars, HoldsItsOwn, reqVars
  <2>2. CountsExact'
    BY <1>26, <1>0, CountsStay DEF vars, countVars, reqVars
  <2>3. IdleRelease'
    BY <1>26, <1>0, ServingStays, IdleStays
    DEF vars, tableVars, heldVars, relVars, reqVars
  <2> QED
    BY <2>1, <2>2, <2>3 DEF UInv
<1> QED
  BY <1>1, <1>2, <1>3, <1>4, <1>5, <1>6, <1>7, <1>8, <1>9, <1>10, <1>11,
    <1>12, <1>13, <1>14, <1>15, <1>16, <1>17, <1>18, <1>19, <1>20, <1>21,
    <1>22, <1>23, <1>24, <1>25, <1>26
  DEF Next

\* A release takes what is idle and nothing else (session-runtimes.ts:12-14):
\* for any number of sessions and handlers, as long as none is forked.
THEOREM ReleasesTakeTheIdle ==
  ASSUME ~Forking
  PROVE  Spec => []ReleaseTakesIdleRuntimeOnly
<1>1. Init => UInv
  BY InitUInv
<1>2. IInv /\ UInv /\ [Next]_vars => UInv'
  BY NextUInv
<1>3. UInv => ReleaseTakesIdleRuntimeOnly
  BY DEF UInv, IdleRelease, ReleaseTakesIdleRuntimeOnly
<1> QED
  BY Invariance, <1>1, <1>2, <1>3, PTL DEF Spec

\* As long as no session is forked the counts a release and a drain read are
\* the numbers of requests being served (session-runtimes.ts:83, 200).
THEOREM CountsAreExact ==
  ASSUME ~Forking
  PROVE  Spec => []InFlightExact
<1>1. Init => UInv
  BY InitUInv
<1>2. IInv /\ UInv /\ [Next]_vars => UInv'
  BY NextUInv
<1>3. IInv /\ UInv => InFlightExact
  BY DEF IInv, Counted, CountExact, Active, UInv, CountsExact, InFlightExact
<1> QED
  BY Invariance, <1>1, <1>2, <1>3, PTL DEF Spec

=============================================================================
