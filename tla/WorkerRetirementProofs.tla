----------------------- MODULE WorkerRetirementProofs -----------------------
(***************************************************************************)
(* Proofs about WorkerRetirement for any requests, retirements and bounds: *)
(* its types, that it implements AtomicRetirement, and that the host opens *)
(* an open worker only.                                                    *)
(*                                                                         *)
(* No clock is needed for atomicity.  The host writes nothing behind the   *)
(* question it waits for (AskIsLast), so a worker that answered has read   *)
(* everything that was written; an acknowledgement finds it serving nobody *)
(* (Quiet), and with an empty pipe it stays so until the host writes again *)
(* or ends the pipe.  Hence nobody is lost when the process ends.          *)
(*                                                                         *)
(* The last property needs the clocks: there is one decision at a time     *)
(* (OneDecision), and where its question is bounds the time since it was   *)
(* asked (OnTime); both hold while WaitOutlastsLease does (TInv).          *)
(***************************************************************************)
EXTENDS WorkerRetirement, Integers, TLAPS

(* A message is in the pipe once.                                          *)
Once == \A i, j \in 1 .. Len(pipe) : pipe[i] = pipe[j] => i = j

(* Nobody has acted on a message that is in the pipe.                      *)
Untouched(m) ==
  /\ m \in Requests => state[m] = "written"
  /\ m \in Asks => m \in asked /\ decides # m /\ replies[m] = "none"
  /\ m = End => ending

PipeExact ==
  /\ Once
  /\ \A i \in 1 .. Len(pipe) : Untouched(pipe[i])
  /\ \A a \in Asks : decides = a \/ replies[a] # "none" => a \in asked

AskIsLast ==
  ask # NoAsk =>
    /\ ~admission /\ ~ending /\ ask \in asked
    /\ pipe # <<>> => pipe[Len(pipe)] = ask

Quiet ==
  /\ fence = "acknowledged" => Serving = {}
  /\ ask # NoAsk /\ replies[ask] = "yes" => Serving = {}
  /\ ending => /\ ask = NoAsk /\ Serving = {}
               /\ \A i \in 1 .. Len(pipe) : pipe[i] = End
  /\ process = "closing" => ending

IInv == TypeOK /\ PipeExact /\ AskIsLast /\ Quiet

(* The bounds are numbers, so a clock that is started has its type.         *)
LEMMA Bounds ==
  /\ (\A d \in Stalls : d \in Nat)
  /\ RetireTimeout \in Nat /\ RetireWait \in Nat
  /\ StopGrace \in Nat /\ WorkerLease \in Nat /\ DrainTimeout \in Nat
  /\ ShutdownDrain \in Nat
BY RetirementAssumption

LEMMA InitInv == Init => IInv
<1> SUFFICES ASSUME Init PROVE IInv
  OBVIOUS
<1>1. TypeOK
  <2>1. /\ hostClock \in 0 .. RetireTimeout /\ drainClock \in 0 .. DrainTimeout
        /\ leaseClock \in 0 .. WorkerLease /\ closeClock \in 0 .. ShutdownDrain
        /\ age \in [Messages -> 0 .. stall]
    BY Bounds DEF Init
  <2>2. pipe \in Seq(Messages)
    BY DEF Init
  <2>3. QED BY <2>1, <2>2 DEF Init, TypeOK
<1>2. PipeExact /\ AskIsLast /\ Quiet
  BY RetirementAssumption DEF Init, PipeExact, Once, AskIsLast, Quiet
<1>3. QED BY <1>1, <1>2 DEF IInv

(* When the agreement to the retirement asked for is there, the worker has  *)
(* read all that was written.                                              *)
LEMMA HeardYesIsLast ==
  IInv /\ ask # NoAsk /\ replies[ask] = "yes" => pipe = <<>>
BY DEF IInv, TypeOK, PipeExact, Untouched, AskIsLast

(* What the two ends do to the pipe.                                       *)
LEMMA PipeShrinks ==
  ASSUME TypeOK, PipeExact, NEW m, Reads(m)
  PROVE  /\ m \in Messages /\ pipe[1] = m
         /\ Len(pipe') + 1 = Len(pipe) /\ Len(pipe') \in Nat
         /\ \A i \in 1 .. Len(pipe') :
              /\ pipe'[i] = pipe[i + 1] /\ i + 1 \in 1 .. Len(pipe)
              /\ pipe'[i] # m
         /\ \A i, j \in 1 .. Len(pipe') : pipe'[i] = pipe'[j] => i = j
<1>1. /\ pipe \in Seq(Messages) /\ pipe # <<>>
      /\ pipe' = Tail(pipe) /\ m = Head(pipe)
  BY DEF TypeOK, Reads
<1>2. /\ m \in Messages /\ pipe[1] = m
      /\ Len(pipe') + 1 = Len(pipe) /\ Len(pipe') \in Nat
      /\ \A i \in 1 .. Len(pipe') : pipe'[i] = pipe[i + 1]
  BY <1>1
<1>3. \A i \in 1 .. Len(pipe') : i + 1 \in 1 .. Len(pipe)
  BY <1>2
<1>4. 1 \in 1 .. Len(pipe)
  BY <1>2
<1>5. \A i \in 1 .. Len(pipe') : pipe'[i] # m
  <2> TAKE i \in 1 .. Len(pipe')
  <2>1. i + 1 # 1 /\ pipe[i + 1] # pipe[1]
    BY <1>3, <1>4 DEF PipeExact, Once
  <2>2. QED BY <2>1, <1>2
<1>6. \A i, j \in 1 .. Len(pipe') : pipe'[i] = pipe'[j] => i = j
  <2> TAKE i, j \in 1 .. Len(pipe')
  <2>1. pipe[i + 1] = pipe[j + 1] => i + 1 = j + 1
    BY <1>3 DEF PipeExact, Once
  <2>2. QED BY <2>1, <1>2
<1>7. QED BY <1>2, <1>3, <1>5, <1>6

LEMMA HeadUntouched ==
  ASSUME TypeOK, PipeExact, NEW m, Reads(m) PROVE Untouched(m)
<1>1. m = pipe[1] /\ 1 \in 1 .. Len(pipe)
  BY PipeShrinks
<1>2. QED BY <1>1 DEF PipeExact

LEMMA PipeGrows ==
  ASSUME TypeOK, NEW m \in Messages, WritePipe(m)
  PROVE  /\ Len(pipe') = Len(pipe) + 1 /\ Len(pipe) \in Nat
         /\ \A i \in 1 .. Len(pipe) : pipe'[i] = pipe[i]
         /\ pipe'[Len(pipe')] = m
BY DEF TypeOK, WritePipe

(* The end of the pipe is written into an empty one.                       *)
LEMMA EndIsAlone ==
  ASSUME IInv, NEW a \in Asks, HearYes(a)
  PROVE  \A i \in 1 .. Len(pipe') : i = 1 /\ pipe'[i] = End
<1>1. pipe = <<>>
  BY HeardYesIsLast, RetirementAssumption DEF HearYes
<1>2. pipe' = Append(pipe, End)
  BY DEF HearYes, WritePipe
<1>3. Len(pipe') = 1 /\ pipe'[1] = End
  BY <1>1, <1>2
<1>4. QED BY <1>3

LEMMA NextInv == IInv /\ [Next]_vars => IInv'
<1> SUFFICES ASSUME IInv, [Next]_vars PROVE IInv'
  OBVIOUS
<1>1. ASSUME NEW r \in Requests, Write(r) PROVE IInv'
  <2>1. TypeOK'
    BY <1>1
    DEF IInv, TypeOK, Messages, Write, WritePipe, hostVars, fenceVars,
       deathVars
  <2>2. PipeExact'
    <3>1. r \in Messages /\ WritePipe(r)
      BY <1>1 DEF Write, Messages
    <3>2. \A i \in 1 .. Len(pipe) : pipe[i] # r
      BY <1>1 DEF Write, IInv, PipeExact, Untouched
    <3>3. Once'
      BY <3>1, <3>2, PipeGrows DEF IInv, PipeExact, Once
    <3>4. \A m : Untouched(m) /\ m # r => Untouched(m)'
      BY <1>1 DEF Write, Untouched, hostVars, fenceVars
    <3>5. Untouched(r)'
      BY <1>1, RetirementAssumption DEF Write, Untouched, IInv, TypeOK
    <3>6. \A i \in 1 .. Len(pipe') : Untouched(pipe[i])'
      <4> TAKE i \in 1 .. Len(pipe')
      <4>1. CASE i = Len(pipe')
        BY <4>1, <3>1, <3>5, PipeGrows DEF IInv, Untouched
      <4>2. CASE i # Len(pipe')
        BY <4>2, <3>1, <3>2, <3>4, PipeGrows DEF IInv, PipeExact, Untouched
      <4>3. QED BY <4>1, <4>2
    <3>7. QED
      BY <1>1, <3>3, <3>6 DEF Write, IInv, PipeExact, hostVars, fenceVars
  <2>3. AskIsLast'
    BY <1>1 DEF IInv, AskIsLast, Write, hostVars
  <2>4. Quiet'
    BY <1>1 DEF IInv, Quiet, Serving, Write, hostVars, fenceVars, deathVars
  <2>5. QED BY <2>1, <2>2, <2>3, <2>4 DEF IInv
<1>2. ASSUME NEW r \in Requests, Finish(r) PROVE IInv'
  <2>1. TypeOK'
    BY <1>2 DEF IInv, TypeOK, Finish, hostVars, fenceVars, deathVars
  <2>2. PipeExact'
    BY <1>2 DEF IInv, PipeExact, Once, Untouched, Finish, hostVars, fenceVars
  <2>3. AskIsLast'
    BY <1>2 DEF IInv, AskIsLast, Finish, hostVars
  <2>4. Quiet'
    BY <1>2 DEF IInv, Quiet, Serving, Finish, hostVars, fenceVars, deathVars
  <2>5. QED BY <2>1, <2>2, <2>3, <2>4 DEF IInv
<1>3. ASSUME NEW a \in Asks, Ask(a) PROVE IInv'
  <2>1. TypeOK'
    <3>1. hostClock' \in 0 .. RetireTimeout
      BY <1>3, Bounds DEF Ask
    <3>2. pipe' \in Seq(Messages)
      BY <1>3 DEF Ask, WritePipe, IInv, TypeOK, Messages
    <3>3. (fence' = "draining") <=> (decides' # NoAsk)
      BY <1>3 DEF Ask, IInv, TypeOK, fenceVars
    <3>4. QED
      BY <1>3, <3>1, <3>2, <3>3 DEF Ask, IInv, TypeOK, fenceVars, deathVars
  <2>2. PipeExact'
    <3>1. a \in Messages /\ WritePipe(a)
      BY <1>3 DEF Ask, Messages
    <3>2. /\ \A i \in 1 .. Len(pipe) : pipe[i] # a
          /\ decides # a /\ replies[a] = "none"
      BY <1>3 DEF Ask, IInv, PipeExact, Untouched
    <3>3. Once'
      BY <3>1, <3>2, PipeGrows DEF IInv, PipeExact, Once
    <3>4. \A m : Untouched(m) => Untouched(m)'
      BY <1>3 DEF Ask, Untouched, fenceVars
    <3>5. Untouched(a)'
      BY <1>3, <3>2, RetirementAssumption DEF Ask, Untouched, fenceVars
    <3>6. \A i \in 1 .. Len(pipe') : Untouched(pipe[i])'
      <4> TAKE i \in 1 .. Len(pipe')
      <4>1. CASE i = Len(pipe')
        BY <4>1, <3>1, <3>5, PipeGrows DEF IInv, Untouched
      <4>2. CASE i # Len(pipe')
        BY <4>2, <3>1, <3>4, PipeGrows DEF IInv, PipeExact, Untouched
      <4>3. QED BY <4>1, <4>2
    <3>7. QED
      BY <1>3, <3>3, <3>6 DEF Ask, IInv, PipeExact, fenceVars
  <2>3. AskIsLast'
    BY <1>3 DEF AskIsLast, Ask, WritePipe
  <2>4. Quiet'
    BY <1>3 DEF IInv, PipeExact, Quiet, Serving, Ask, fenceVars, deathVars
  <2>5. QED BY <2>1, <2>2, <2>3, <2>4 DEF IInv
<1>4. ASSUME NEW a \in Asks, HearNo(a) PROVE IInv'
  <2>1. TypeOK'
    BY <1>4, Bounds
    DEF IInv, TypeOK, Messages, HearNo, Heard, Reopen, fenceVars, deathVars
  <2>2. PipeExact'
    BY <1>4 DEF IInv, PipeExact, Once, Untouched, HearNo, Heard, fenceVars
  <2>3. AskIsLast'
    BY <1>4 DEF AskIsLast, HearNo, Reopen
  <2>4. Quiet'
    BY <1>4 DEF IInv, Quiet, Serving, HearNo, Reopen, fenceVars, deathVars
  <2>5. QED BY <2>1, <2>2, <2>3, <2>4 DEF IInv
<1>5. ASSUME NEW a \in Asks, HearYes(a) PROVE IInv'
  <2>1. TypeOK'
    BY <1>5, Bounds
    DEF IInv, TypeOK, Messages, HearYes, Heard, WritePipe, fenceVars,
       deathVars
  <2>2. PipeExact'
    <3>1. \A i \in 1 .. Len(pipe') : i = 1 /\ pipe'[i] = End
      BY <1>5, EndIsAlone
    <3>2. ending' /\ End \notin Requests /\ End \notin Asks
      BY <1>5, RetirementAssumption DEF HearYes
    <3>3. \A b \in Asks : decides' = b \/ replies'[b] # "none" => b \in asked'
      BY <1>5 DEF HearYes, Heard, IInv, PipeExact, fenceVars
    <3>4. QED BY <3>1, <3>2, <3>3 DEF PipeExact, Once, Untouched
  <2>3. AskIsLast'
    BY <1>5 DEF AskIsLast, HearYes
  <2>4. Quiet'
    <3>1. ending' /\ ask' = NoAsk /\ Serving = {}
      BY <1>5, RetirementAssumption DEF HearYes, IInv, Quiet
    <3>2. \A i \in 1 .. Len(pipe') : pipe'[i] = End
      BY <1>5, EndIsAlone
    <3>3. Serving' = Serving
      BY <1>5 DEF HearYes, Serving
    <3>4. QED BY <1>5, <3>1, <3>2, <3>3 DEF Quiet
  <2>5. QED BY <2>1, <2>2, <2>3, <2>4 DEF IInv
<1>6. ASSUME NEW a \in Asks, HearLate(a) PROVE IInv'
  <2>1. TypeOK'
    BY <1>6, Bounds
    DEF IInv, TypeOK, Messages, HearLate, Heard, hostVars, fenceVars,
       deathVars
  <2>2. PipeExact'
    BY <1>6
    DEF IInv, PipeExact, Once, Untouched, HearLate, Heard, hostVars,
       fenceVars
  <2>3. AskIsLast'
    BY <1>6 DEF IInv, AskIsLast, HearLate, hostVars
  <2>4. Quiet'
    BY <1>6
    DEF IInv, Quiet, Serving, HearLate, Heard, hostVars, fenceVars,
       deathVars
  <2>5. QED BY <2>1, <2>2, <2>3, <2>4 DEF IInv
<1>7. CASE AskTimesOut
  <2>1. TypeOK'
    BY <1>7, Bounds DEF IInv, TypeOK, AskTimesOut, fenceVars, deathVars
  <2>2. PipeExact'
    BY <1>7 DEF IInv, PipeExact, Once, Untouched, AskTimesOut, fenceVars
  <2>3. AskIsLast'
    BY <1>7 DEF IInv, AskIsLast, AskTimesOut
  <2>4. Quiet'
    BY <1>7 DEF IInv, Quiet, Serving, AskTimesOut, fenceVars, deathVars
  <2>5. QED BY <2>1, <2>2, <2>3, <2>4 DEF IInv
<1>8. CASE WaitEnds
  <2>1. TypeOK'
    BY <1>8 DEF IInv, TypeOK, WaitEnds, Reopen, fenceVars, deathVars
  <2>2. PipeExact'
    BY <1>8 DEF IInv, PipeExact, Once, Untouched, WaitEnds, fenceVars
  <2>3. AskIsLast'
    BY <1>8 DEF AskIsLast, WaitEnds, Reopen
  <2>4. Quiet'
    BY <1>8 DEF IInv, Quiet, Serving, WaitEnds, Reopen, fenceVars, deathVars
  <2>5. QED BY <2>1, <2>2, <2>3, <2>4 DEF IInv
<1>9. CASE Kill
  <2>1. TypeOK'
    BY <1>9 DEF IInv, TypeOK, Kill, Lost, hostVars, fenceVars
  <2>2. PipeExact'
    BY <1>9
    DEF IInv, PipeExact, Once, Untouched, Kill, Lost, hostVars, fenceVars
  <2>3. AskIsLast'
    BY <1>9 DEF IInv, AskIsLast, Kill, hostVars
  <2>4. Quiet'
    BY <1>9 DEF IInv, Quiet, Serving, Kill, Lost, hostVars
  <2>5. QED BY <2>1, <2>2, <2>3, <2>4 DEF IInv
<1>10. ASSUME NEW r \in Requests, ReadRequest(r) PROVE IInv'
  <2>1. TypeOK'
    BY <1>10, Bounds DEF IInv, TypeOK, ReadRequest, Reads, hostVars, deathVars
  <2>2. PipeExact'
    <3>1. Reads(r)
      BY <1>10 DEF ReadRequest
    <3>2. Once'
      BY <3>1, PipeShrinks DEF IInv, Once
    <3>3. \A m : Untouched(m) /\ m # r => Untouched(m)'
      BY <1>10 DEF Untouched, ReadRequest, hostVars
    <3>4. \A i \in 1 .. Len(pipe') : Untouched(pipe[i])'
      <4> TAKE i \in 1 .. Len(pipe')
      <4>1. Untouched(pipe[i + 1]) /\ pipe[i + 1] # r /\ pipe'[i] = pipe[i + 1]
        BY <3>1, PipeShrinks DEF IInv, PipeExact
      <4>2. QED BY <4>1, <3>3 DEF Untouched
    <3>5. \A b \in Asks : decides' = b \/ replies'[b] # "none" => b \in asked'
      BY <1>10, <3>1 DEF IInv, PipeExact, ReadRequest, hostVars
    <3>6. QED BY <3>2, <3>4, <3>5 DEF PipeExact
  <2>3. AskIsLast'
    BY <1>10 DEF IInv, AskIsLast, ReadRequest, Reads, hostVars
  <2>4. Quiet'
    <3>1. Reads(r)
      BY <1>10 DEF ReadRequest
    <3>2. ask = NoAsk \/ replies[ask] # "yes"
      BY <1>10, HeardYesIsLast DEF ReadRequest, Reads
    <3>3. ~ending
      <4>1. pipe[1] = r /\ 1 \in 1 .. Len(pipe)
        BY <3>1, PipeShrinks DEF IInv
      <4>2. QED BY <4>1, RetirementAssumption DEF IInv, Quiet
    <3>4. fence # "open" => Serving' = Serving
      BY <1>10, <3>1, HeadUntouched DEF ReadRequest, Serving, IInv, Untouched
    <3>5. QED
      BY <1>10, <3>2, <3>3, <3>4
      DEF ReadRequest, IInv, Quiet, hostVars, deathVars
  <2>5. QED BY <2>1, <2>2, <2>3, <2>4 DEF IInv
<1>11. ASSUME NEW a \in Asks, ReadAsk(a) PROVE IInv'
  <2>1. TypeOK'
    <3>1. drainClock' \in 0 .. DrainTimeout
      BY <1>11, Bounds DEF ReadAsk
    <3>2. pipe' \in Seq(Messages) /\ age' \in [Messages -> 0 .. stall]
      BY <1>11, Bounds DEF ReadAsk, Reads, IInv, TypeOK
    <3>3. (fence' = "draining") <=> (decides' # NoAsk)
      BY <1>11, RetirementAssumption DEF ReadAsk
    <3>4. QED
      BY <1>11, <3>1, <3>2, <3>3
      DEF ReadAsk, IInv, TypeOK, hostVars, deathVars
  <2>2. PipeExact'
    <3>1. Reads(a)
      BY <1>11 DEF ReadAsk
    <3>2. Once'
      BY <3>1, PipeShrinks DEF IInv, Once
    <3>3. \A m : Untouched(m) /\ m # a => Untouched(m)'
      BY <1>11 DEF Untouched, ReadAsk, hostVars
    <3>4. \A i \in 1 .. Len(pipe') : Untouched(pipe[i])'
      <4> TAKE i \in 1 .. Len(pipe')
      <4>1. Untouched(pipe[i + 1]) /\ pipe[i + 1] # a /\ pipe'[i] = pipe[i + 1]
        BY <3>1, PipeShrinks DEF IInv, PipeExact
      <4>2. QED BY <4>1, <3>3 DEF Untouched
    <3>5. a \in asked
      BY <3>1, HeadUntouched DEF IInv, Untouched
    <3>6. \A b \in Asks : decides' = b \/ replies'[b] # "none" => b \in asked'
      BY <1>11, <3>5 DEF IInv, PipeExact, ReadAsk, hostVars
    <3>7. QED BY <3>2, <3>4, <3>6 DEF PipeExact
  <2>3. AskIsLast'
    BY <1>11 DEF IInv, AskIsLast, ReadAsk, Reads, hostVars
  <2>4. Quiet'
    BY <1>11 DEF IInv, Quiet, Serving, ReadAsk, Reads, hostVars, deathVars
  <2>5. QED BY <2>1, <2>2, <2>3, <2>4 DEF IInv
<1>12. ASSUME NEW a \in Asks, ReadAskAgain(a) PROVE IInv'
  <2>1. TypeOK'
    BY <1>12, Bounds
    DEF IInv, TypeOK, ReadAskAgain, Reads, Reply, hostVars, fenceVars,
       deathVars
  <2>2. PipeExact'
    <3>1. Reads(a)
      BY <1>12 DEF ReadAskAgain
    <3>2. Once'
      BY <3>1, PipeShrinks DEF IInv, Once
    <3>3. \A m : Untouched(m) /\ m # a => Untouched(m)'
      BY <1>12 DEF Untouched, ReadAskAgain, Reply, hostVars, fenceVars
    <3>4. \A i \in 1 .. Len(pipe') : Untouched(pipe[i])'
      <4> TAKE i \in 1 .. Len(pipe')
      <4>1. Untouched(pipe[i + 1]) /\ pipe[i + 1] # a /\ pipe'[i] = pipe[i + 1]
        BY <3>1, PipeShrinks DEF IInv, PipeExact
      <4>2. QED BY <4>1, <3>3 DEF Untouched
    <3>5. a \in asked
      BY <3>1, HeadUntouched DEF IInv, Untouched
    <3>6. \A b \in Asks : decides' = b \/ replies'[b] # "none" => b \in asked'
      BY <1>12, <3>5
      DEF IInv, PipeExact, ReadAskAgain, Reply, hostVars, fenceVars
    <3>7. QED BY <3>2, <3>4, <3>6 DEF PipeExact
  <2>3. AskIsLast'
    BY <1>12 DEF IInv, AskIsLast, ReadAskAgain, Reads, hostVars
  <2>4. Quiet'
    BY <1>12
    DEF IInv, Quiet, Serving, ReadAskAgain, Reads, Reply, hostVars,
       fenceVars, deathVars
  <2>5. QED BY <2>1, <2>2, <2>3, <2>4 DEF IInv
<1>13. CASE RefuseToRetire
  <2>1. TypeOK'
    BY <1>13, Bounds
    DEF IInv, TypeOK, RefuseToRetire, Unfence, Reply, hostVars, deathVars
  <2>2. PipeExact'
    BY <1>13, RetirementAssumption
    DEF IInv, PipeExact, Once, Untouched, RefuseToRetire, Unfence, Reply,
       hostVars
  <2>3. AskIsLast'
    BY <1>13 DEF IInv, AskIsLast, RefuseToRetire, Unfence, hostVars
  <2>4. Quiet'
    BY <1>13
    DEF IInv, Quiet, Serving, RefuseToRetire, Unfence, Reply, hostVars,
       deathVars
  <2>5. QED BY <2>1, <2>2, <2>3, <2>4 DEF IInv
<1>14. CASE Acknowledge
  <2>1. TypeOK'
    BY <1>14, Bounds DEF IInv, TypeOK, Acknowledge, Reply, hostVars, deathVars
  <2>2. PipeExact'
    BY <1>14, RetirementAssumption
    DEF IInv, PipeExact, Once, Untouched, Acknowledge, Reply, hostVars
  <2>3. AskIsLast'
    BY <1>14 DEF IInv, AskIsLast, Acknowledge, hostVars
  <2>4. Quiet'
    BY <1>14 DEF IInv, Quiet, Serving, Acknowledge, hostVars, deathVars
  <2>5. QED BY <2>1, <2>2, <2>3, <2>4 DEF IInv
<1>15. CASE LeaseExpires
  <2>1. TypeOK'
    BY <1>15 DEF IInv, TypeOK, LeaseExpires, hostVars, deathVars
  <2>2. PipeExact'
    BY <1>15 DEF IInv, PipeExact, Once, Untouched, LeaseExpires, hostVars
  <2>3. AskIsLast'
    BY <1>15 DEF IInv, AskIsLast, LeaseExpires, hostVars
  <2>4. Quiet'
    BY <1>15 DEF IInv, Quiet, Serving, LeaseExpires, hostVars, deathVars
  <2>5. QED BY <2>1, <2>2, <2>3, <2>4 DEF IInv
<1>16. CASE ReadEnd
  <2>1. TypeOK'
    BY <1>16, Bounds DEF IInv, TypeOK, ReadEnd, Reads, hostVars, fenceVars
  <2>2. PipeExact'
    BY <1>16
    DEF IInv, PipeExact, Once, Untouched, ReadEnd, Reads, hostVars,
       fenceVars
  <2>3. AskIsLast'
    BY <1>16 DEF IInv, AskIsLast, ReadEnd, Reads, hostVars
  <2>4. Quiet'
    BY <1>16
    DEF IInv, PipeExact, Untouched, Quiet, Serving, ReadEnd, Reads, hostVars
  <2>5. QED BY <2>1, <2>2, <2>3, <2>4 DEF IInv
<1>17. CASE Exit
  <2>1. TypeOK'
    BY <1>17 DEF IInv, TypeOK, Exit, Lost, hostVars, fenceVars
  <2>2. PipeExact'
    BY <1>17
    DEF IInv, PipeExact, Once, Untouched, Exit, Lost, hostVars, fenceVars
  <2>3. AskIsLast'
    BY <1>17 DEF IInv, AskIsLast, Exit, hostVars
  <2>4. Quiet'
    BY <1>17 DEF IInv, Quiet, Serving, Exit, Lost, hostVars
  <2>5. QED BY <2>1, <2>2, <2>3, <2>4 DEF IInv
<1>18. CASE Tick
  <2>1. TypeOK'
    <3>1. ASSUME NEW m \in Unread PROVE age[m] + 1 \in 0 .. stall
      <4>1. m \in Messages
        BY DEF Unread, InPipe, IInv, TypeOK, Messages
      <4>2. age[m] \in 0 .. stall /\ age[m] # stall
        BY <1>18, <4>1 DEF Tick, Urgent, IInv, TypeOK
      <4>3. QED BY <4>2, Bounds DEF IInv, TypeOK
    <3>2. age' \in [Messages -> 0 .. stall]
      BY <1>18, <3>1, Bounds DEF Tick, IInv, TypeOK
    <3>3. /\ hostClock' \in 0 .. RetireTimeout \cup 0 .. RetireWait \cup 0 .. StopGrace
          /\ drainClock' \in 0 .. DrainTimeout
          /\ leaseClock' \in 0 .. WorkerLease
          /\ closeClock' \in 0 .. ShutdownDrain
      BY <1>18, Bounds DEF Tick, Less, IInv, TypeOK
    <3>4. QED
      BY <1>18, <3>2, <3>3 DEF Tick, IInv, TypeOK
  <2>2. PipeExact'
    BY <1>18 DEF IInv, PipeExact, Once, Untouched, Tick
  <2>3. AskIsLast'
    BY <1>18 DEF IInv, AskIsLast, Tick
  <2>4. Quiet'
    BY <1>18 DEF IInv, Quiet, Serving, Tick
  <2>5. QED BY <2>1, <2>2, <2>3, <2>4 DEF IInv
<1>19. CASE UNCHANGED vars
  <2>1. TypeOK'
    BY <1>19 DEF IInv, TypeOK, vars, hostVars, fenceVars, deathVars
  <2>2. PipeExact'
    BY <1>19 DEF IInv, PipeExact, Once, Untouched, vars, hostVars, fenceVars
  <2>3. AskIsLast'
    BY <1>19 DEF IInv, AskIsLast, vars, hostVars
  <2>4. Quiet'
    BY <1>19 DEF IInv, Quiet, Serving, vars, hostVars, fenceVars, deathVars
  <2>5. QED BY <2>1, <2>2, <2>3, <2>4 DEF IInv
<1>20. QED
  BY <1>1, <1>2, <1>3, <1>4, <1>5, <1>6, <1>7, <1>8, <1>9, <1>10,
     <1>11, <1>12, <1>13, <1>14, <1>15, <1>16, <1>17, <1>18, <1>19
  DEF Next, Host, Worker

THEOREM InvHolds == Spec => []IInv
BY InitInv, NextInv, PTL DEF Spec

(* Every clock stays within its bound, every message waits at most `stall`,  *)
(* and a retirement is being decided exactly while the fence drains.        *)
THEOREM TypeCorrect == Spec => []TypeOK
<1>1. IInv => TypeOK
  BY DEF IInv
<1>2. QED BY <1>1, InvHolds, PTL

-----------------------------------------------------------------------------
(* The clocks.                                                             *)

(* How long ago the host asked the retirement it is waiting for.            *)
Elapsed == IF phase = "asked" THEN RetireTimeout - hostClock
           ELSE RetireTimeout + RetireWait - hostClock

(* Outside a decision the fence is open and no question is on its way; in    *)
(* one, only its own is.                                                   *)
OneDecision ==
  /\ ask = NoAsk => admission \/ ending
  /\ admission => ~ending /\ fence = "open"
  /\ process # "up" => ending
  /\ \A i \in 1 .. Len(pipe) : pipe[i] \in Asks => pipe[i] = ask
  /\ \A a \in Asks : a \notin asked => age[a] = 0

(* Where the question is tells how long ago it was asked.                   *)
OnTime ==
  ask # NoAsk =>
    /\ hostClock \in 0 .. RetireTimeout + RetireWait
    /\ phase = "asked" => hostClock \in 0 .. RetireTimeout
    /\ phase = "silent" => hostClock \in 0 .. RetireWait
    /\ pipe # <<>> => fence = "open" /\ Elapsed = age[ask]
    /\ fence = "draining" =>
         decides = ask /\ Elapsed <= stall + (DrainTimeout - drainClock)
    /\ fence = "acknowledged" =>
         Elapsed <= stall + DrainTimeout + (WorkerLease - leaseClock)
    /\ replies[ask] = "no" => fence = "open" /\ pipe = <<>>

TInv == WaitOutlastsLease => OneDecision /\ OnTime

LEMMA InitTimed == Init => TInv
BY DEF Init, TInv, OneDecision, OnTime, Messages

LEMMA NextTimed == IInv /\ TInv /\ [Next]_vars => TInv'
<1> SUFFICES ASSUME IInv, TInv, [Next]_vars, WaitOutlastsLease'
             PROVE  OneDecision' /\ OnTime'
  BY DEF TInv
<1>0. /\ stall \in Nat /\ OneDecision /\ OnTime /\ WaitOutlastsLease
      /\ stall' = stall
  <2>1. stall' = stall
    BY DEF Next, Host, Worker, Write, Finish, Ask, HearNo, HearYes,
       HearLate, AskTimesOut, WaitEnds, Kill, ReadRequest, ReadAsk,
       ReadAskAgain, RefuseToRetire, Unfence, Acknowledge, LeaseExpires,
       ReadEnd, Exit, Tick, vars, deathVars
  <2>2. QED BY <2>1, Bounds DEF IInv, TypeOK, TInv, WaitOutlastsLease
<1>1. ASSUME NEW r \in Requests, Write(r) PROVE OneDecision' /\ OnTime'
  <2>1. OneDecision'
    <3>1. admission /\ ~ending /\ ask = NoAsk /\ r \in Messages /\ WritePipe(r)
      BY <1>1 DEF Write, IInv, AskIsLast, Messages
    <3>2. \A i \in 1 .. Len(pipe') : pipe'[i] \in Asks => pipe'[i] = ask
      <4> TAKE i \in 1 .. Len(pipe')
      <4>1. pipe'[i] = r \/ (i \in 1 .. Len(pipe) /\ pipe'[i] = pipe[i])
        BY <3>1, PipeGrows DEF IInv
      <4>2. QED BY <1>0, <4>1, RetirementAssumption DEF OneDecision
    <3>3. QED
      BY <1>0, <1>1, <3>1, <3>2
      DEF Write, OneDecision, hostVars, fenceVars, deathVars
  <2>2. OnTime'
    BY <1>0, <1>1 DEF IInv, AskIsLast, OnTime, Write, hostVars
  <2>3. QED BY <2>1, <2>2
<1>2. ASSUME NEW r \in Requests, Finish(r) PROVE OneDecision' /\ OnTime'
  <2>1. OneDecision'
    BY <1>0, <1>2 DEF OneDecision, Finish, hostVars, fenceVars, deathVars
  <2>2. OnTime'
    BY <1>0, <1>2 DEF OnTime, Elapsed, Finish, hostVars, fenceVars
  <2>3. QED BY <2>1, <2>2
<1>3. ASSUME NEW a \in Asks, Ask(a) PROVE OneDecision' /\ OnTime'
  <2>1. OneDecision'
    BY <1>0, <1>3
    DEF IInv, TypeOK, PipeExact, Untouched, OneDecision, Ask, WritePipe,
       deathVars
  <2>2. OnTime'
    BY <1>0, <1>3, Bounds
    DEF IInv, PipeExact, OneDecision, OnTime, Elapsed, Ask, fenceVars
  <2>3. QED BY <2>1, <2>2
<1>4. ASSUME NEW a \in Asks, HearNo(a) PROVE OneDecision' /\ OnTime'
  <2>1. OneDecision'
    BY <1>0, <1>4, RetirementAssumption
    DEF IInv, Quiet, OneDecision, OnTime, HearNo, Heard, Reopen, fenceVars,
       deathVars
  <2>2. OnTime'
    BY <1>0, <1>4 DEF OnTime, HearNo, Reopen
  <2>3. QED BY <2>1, <2>2
<1>5. ASSUME NEW a \in Asks, HearYes(a) PROVE OneDecision' /\ OnTime'
  <2>1. OneDecision'
    BY <1>0, <1>5, RetirementAssumption
    DEF IInv, PipeExact, Untouched, AskIsLast, OneDecision, HearYes, Heard,
       WritePipe
  <2>2. OnTime'
    BY <1>0, <1>5 DEF OnTime, HearYes
  <2>3. QED BY <2>1, <2>2
<1>6. ASSUME NEW a \in Asks, HearLate(a) PROVE OneDecision' /\ OnTime'
  <2>1. OneDecision'
    BY <1>0, <1>6
    DEF OneDecision, HearLate, Heard, hostVars, fenceVars, deathVars
  <2>2. OnTime'
    <3>1. ask # NoAsk /\ pipe # <<>> => replies[ask] = "none" /\ ask # a
      BY <1>6 DEF HearLate, IInv, TypeOK, PipeExact, Untouched, AskIsLast
    <3>2. ask # NoAsk /\ pipe # <<>> => age'[ask] = age[ask]
      BY <1>6, <3>1 DEF HearLate, Heard
    <3>3. ask # NoAsk /\ replies'[ask] = "no" => replies[ask] = "no"
      BY <1>6 DEF HearLate, Heard, IInv, TypeOK
    <3>4. QED
      BY <1>0, <1>6, <3>2, <3>3
      DEF HearLate, OnTime, Elapsed, hostVars, fenceVars
  <2>3. QED BY <2>1, <2>2
<1>7. CASE AskTimesOut
  <2>1. OneDecision'
    BY <1>0, <1>7 DEF OneDecision, AskTimesOut, fenceVars, deathVars
  <2>2. OnTime'
    BY <1>0, <1>7, Bounds DEF OnTime, Elapsed, AskTimesOut, fenceVars
  <2>3. QED BY <2>1, <2>2
<1>8. CASE WaitEnds
  <2>1. OneDecision'
    BY <1>0, <1>8, Bounds
    DEF IInv, TypeOK, Quiet, OneDecision, OnTime, Elapsed,
       WaitOutlastsLease, WaitEnds, Reopen, fenceVars, deathVars
  <2>2. OnTime'
    BY <1>0, <1>8 DEF OnTime, WaitEnds, Reopen
  <2>3. QED BY <2>1, <2>2
<1>9. CASE Kill
  <2>1. OneDecision'
    BY <1>0, <1>9 DEF OneDecision, Kill, hostVars
  <2>2. OnTime'
    BY <1>0, <1>9 DEF OnTime, Elapsed, Kill, hostVars, fenceVars
  <2>3. QED BY <2>1, <2>2
<1>10. ASSUME NEW r \in Requests, ReadRequest(r) PROVE OneDecision' /\ OnTime'
  <2>1. OneDecision'
    BY <1>0, <1>10 DEF OneDecision, ReadRequest, Reads, hostVars, deathVars
  <2>2. OnTime'
    BY <1>0, <1>10, Bounds, RetirementAssumption
    DEF IInv, TypeOK, OnTime, Elapsed, ReadRequest, Reads, hostVars
  <2>3. QED BY <2>1, <2>2
<1>11. ASSUME NEW a \in Asks, ReadAsk(a) PROVE OneDecision' /\ OnTime'
  <2>1. OneDecision'
    BY <1>0, <1>11, Bounds
    DEF IInv, TypeOK, PipeExact, Untouched, AskIsLast, OneDecision, ReadAsk,
       Reads, hostVars, deathVars
  <2>2. OnTime'
    <3>1. Reads(a) /\ fence = "open"
      BY <1>11 DEF ReadAsk
    <3>2. a = ask /\ ask # NoAsk /\ 1 \in 1 .. Len(pipe) /\ pipe # <<>>
      BY <1>0, <3>1, PipeShrinks, RetirementAssumption
      DEF IInv, OneDecision, Reads
    <3>3. pipe' = <<>>
      <4>1. pipe' \in Seq(Messages)
        BY <3>1 DEF Reads, IInv, TypeOK
      <4>2. ASSUME pipe' # <<>> PROVE FALSE
        <5>1. Len(pipe') \in 1 .. Len(pipe')
          BY <4>1, <4>2
        <5>2. pipe'[Len(pipe')] = pipe[Len(pipe)]
          BY <3>1, <5>1, PipeShrinks DEF IInv
        <5>3. pipe'[Len(pipe')] # a
          BY <3>1, <5>1, PipeShrinks DEF IInv
        <5>4. QED BY <3>2, <5>2, <5>3 DEF IInv, AskIsLast
      <4>3. QED BY <4>2
    <3>4. Elapsed <= stall /\ Elapsed' = Elapsed
      BY <1>0, <1>11, <3>2
      DEF ReadAsk, OnTime, Elapsed, IInv, TypeOK, Messages, hostVars
    <3>5. replies[ask] = "none"
      BY <3>1, <3>2, HeadUntouched DEF IInv, Untouched
    <3>6. QED
      BY <1>0, <1>11, <3>2, <3>3, <3>4, <3>5, Bounds
      DEF ReadAsk, OnTime, hostVars, deathVars
  <2>3. QED BY <2>1, <2>2
<1>12. ASSUME NEW a \in Asks, ReadAskAgain(a) PROVE OneDecision' /\ OnTime'
  <2>1. OneDecision'
    BY <1>0, <1>12 DEF OneDecision, OnTime, ReadAskAgain, Reads, hostVars
  <2>2. OnTime'
    BY <1>0, <1>12 DEF OnTime, ReadAskAgain, Reads, hostVars
  <2>3. QED BY <2>1, <2>2
<1>13. CASE RefuseToRetire
  <2>1. OneDecision'
    BY <1>0, <1>13
    DEF OneDecision, RefuseToRetire, Unfence, hostVars, deathVars
  <2>2. OnTime'
    BY <1>0, <1>13 DEF OnTime, RefuseToRetire, Unfence, hostVars
  <2>3. QED BY <2>1, <2>2
<1>14. CASE Acknowledge
  <2>1. OneDecision'
    BY <1>0, <1>14 DEF OneDecision, Acknowledge, hostVars, deathVars
  <2>2. OnTime'
    BY <1>0, <1>14, Bounds
    DEF IInv, TypeOK, OnTime, Elapsed, Acknowledge, Reply, hostVars
  <2>3. QED BY <2>1, <2>2
<1>15. CASE LeaseExpires
  <2>1. OneDecision'
    BY <1>0, <1>15 DEF OneDecision, LeaseExpires, hostVars, deathVars
  <2>2. OnTime'
    BY <1>0, <1>15 DEF OnTime, LeaseExpires, hostVars
  <2>3. QED BY <2>1, <2>2
<1>16. CASE ReadEnd
  <2>1. OneDecision'
    BY <1>0, <1>16
    DEF IInv, PipeExact, Untouched, OneDecision, ReadEnd, Reads, hostVars
  <2>2. OnTime'
    BY <1>0, <1>16
    DEF IInv, PipeExact, Untouched, Quiet, OnTime, ReadEnd, Reads, hostVars
  <2>3. QED BY <2>1, <2>2
<1>17. CASE Exit
  <2>1. OneDecision'
    BY <1>0, <1>17 DEF OneDecision, Exit, hostVars
  <2>2. OnTime'
    BY <1>0, <1>17 DEF OnTime, Elapsed, Exit, hostVars, fenceVars
  <2>3. QED BY <2>1, <2>2
<1>18. CASE Tick
  <2>1. OneDecision'
    <3>1. \A a \in Asks : a \notin asked => a \notin Unread
      BY DEF Unread, InPipe, IInv, PipeExact, Untouched
    <3>2. \A a \in Asks : a \notin asked => age'[a] = 0
      BY <1>18, <3>1 DEF Tick, Messages
    <3>3. QED BY <1>0, <1>18, <3>2 DEF Tick, OneDecision
  <2>2. OnTime'
    <3> SUFFICES ASSUME ask # NoAsk PROVE OnTime'
      BY <1>18 DEF Tick, OnTime
    <3>1. process = "up" /\ ask \in Asks
      BY <1>0 DEF OneDecision, IInv, AskIsLast, TypeOK
    <3>2. hostClock \in Nat /\ hostClock # 0 /\ hostClock' = hostClock - 1
      BY <1>0, <1>18, Bounds DEF Tick, Urgent, Less, OnTime
    <3>3. Elapsed' = Elapsed + 1
      BY <1>18, <3>2, Bounds DEF Tick, Elapsed
    <3>4. pipe # <<>> => age'[ask] = age[ask] + 1
      <4>1. pipe # <<>> => ask \in Unread
        BY <3>1 DEF Unread, InPipe, IInv, AskIsLast
      <4>2. QED BY <1>18, <3>1, <4>1 DEF Tick, Messages
    <3>5. fence = "draining" => drainClock # 0 /\ drainClock' = drainClock - 1
      BY <1>18, <3>1 DEF Tick, Urgent, Less
    <3>6. fence = "acknowledged" => leaseClock # 0 /\ leaseClock' = leaseClock - 1
      BY <1>18, <3>1 DEF Tick, Urgent, Less
    <3>7. Elapsed \in Int /\ drainClock \in Nat /\ leaseClock \in Nat
      BY <3>2, Bounds DEF Elapsed, IInv, TypeOK
    <3>8. /\ pipe # <<>> => fence = "open" /\ Elapsed' = age'[ask]
          /\ fence = "draining" =>
               decides = ask /\ Elapsed' <= stall + (DrainTimeout - drainClock')
          /\ fence = "acknowledged" =>
               Elapsed' <= stall + DrainTimeout + (WorkerLease - leaseClock')
      BY <1>0, <3>3, <3>4, <3>5, <3>6, <3>7, Bounds DEF OnTime
    <3>9. QED
      BY <1>0, <1>18, <3>2, <3>8, Bounds DEF Tick, OnTime
  <2>3. QED BY <2>1, <2>2
<1>19. CASE UNCHANGED vars
  <2>1. OneDecision'
    BY <1>0, <1>19 DEF OneDecision, vars, hostVars, fenceVars, deathVars
  <2>2. OnTime'
    BY <1>0, <1>19 DEF OnTime, Elapsed, vars, hostVars, fenceVars
  <2>3. QED BY <2>1, <2>2
<1>20. QED
  BY <1>1, <1>2, <1>3, <1>4, <1>5, <1>6, <1>7, <1>8, <1>9, <1>10,
     <1>11, <1>12, <1>13, <1>14, <1>15, <1>16, <1>17, <1>18, <1>19
  DEF Next, Host, Worker

(* As long as no stall eats up what the host's two waits are longer than the *)
(* worker's drain and lease, the host writes only to a worker that takes     *)
(* requests, for any bounds.                                                *)
THEOREM HostOpensAnOpenWorker == Spec => []OpenHostMeansOpenWorker
<1>1. IInv /\ TInv /\ [Next]_vars => (IInv /\ TInv)'
  BY NextInv, NextTimed
<1>2. Init => IInv /\ TInv
  BY InitInv, InitTimed
<1>3. TInv => OpenHostMeansOpenWorker
  BY DEF TInv, OneDecision, OpenHostMeansOpenWorker
<1>4. QED BY <1>1, <1>2, <1>3, PTL DEF Spec

-----------------------------------------------------------------------------
(* The refinement.                                                         *)

AStatus == [r \in Requests |->
    CASE state[r] \in {"new", "written"} -> "new"
      [] state[r] = "serving" -> "accepted"
      [] OTHER -> state[r]]

LEMMA InitRefines == Init => Abstract!Init
BY DEF Init, Abstract!Init

(* When the process ends nobody is being served, so nobody is lost.         *)
LEMMA NobodyIsLost ==
  ASSUME IInv, ending PROVE Lost = state /\ \A r \in Requests : AStatus[r] # "accepted"
<1>1. \A r \in Requests : state[r] # "serving"
  BY DEF IInv, Quiet, Serving
<1>2. Lost = state
  BY <1>1 DEF Lost, IInv, TypeOK
<1>3. QED BY <1>1, <1>2 DEF AStatus, IInv, TypeOK

LEMMA NextRefines ==
  IInv /\ [Next]_vars => [Abstract!Next]_<<AStatus, process # "gone">>
<1> SUFFICES ASSUME IInv, [Next]_vars
             PROVE  [Abstract!Next]_<<AStatus, process # "gone">>
  OBVIOUS
<1> DEFINE Same == AStatus' = AStatus /\ (process' # "gone") = (process # "gone")
<1>1. ASSUME NEW r \in Requests, Write(r) PROVE Same
  BY <1>1 DEF Write, AStatus, deathVars
<1>2. ASSUME NEW r \in Requests, ReadRequest(r)
      PROVE  Abstract!Accept(r) \/ Abstract!Refuse(r)
  <2>1. state[r] = "written" /\ process = "up" /\ process' = "up"
    BY <1>2, HeadUntouched DEF ReadRequest, Reads, IInv, Untouched, deathVars
  <2>2. CASE fence = "open"
    <3>1. AStatus' = [AStatus EXCEPT ![r] = "accepted"]
      BY <1>2, <2>2 DEF ReadRequest, AStatus, IInv, TypeOK
    <3>2. QED
      BY <2>1, <3>1 DEF Abstract!Accept, Abstract!Move, AStatus
  <2>3. CASE fence # "open"
    <3>1. AStatus' = [AStatus EXCEPT ![r] = "refused"]
      BY <1>2, <2>3 DEF ReadRequest, AStatus, IInv, TypeOK
    <3>2. QED
      BY <2>1, <3>1 DEF Abstract!Refuse, Abstract!Move, AStatus
  <2>4. QED BY <2>2, <2>3
<1>3. ASSUME NEW r \in Requests, Finish(r) PROVE Abstract!Answer(r)
  <2>1. AStatus' = [AStatus EXCEPT ![r] = "answered"] /\ AStatus[r] = "accepted"
    BY <1>3 DEF Finish, AStatus, IInv, TypeOK
  <2>2. process # "gone" /\ process' = process
    BY <1>3 DEF Finish, deathVars
  <2>3. QED BY <2>1, <2>2 DEF Abstract!Answer, Abstract!Move, AStatus
<1>4. ASSUME Kill \/ Exit PROVE Abstract!Retire
  <2>1. ending /\ process # "gone" /\ process' = "gone" /\ state' = Lost
    BY <1>4 DEF Kill, Exit, IInv, Quiet
  <2>2. AStatus' = AStatus
    BY <2>1, NobodyIsLost DEF AStatus
  <2>3. QED BY <2>1, <2>2, NobodyIsLost DEF Abstract!Retire, AStatus
<1>5. ASSUME state' = state, process' = process \/ (process' = "closing" /\ process = "up")
      PROVE  Same
  BY <1>5 DEF AStatus
<1>6. CASE \E a \in Asks : Ask(a) \/ HearNo(a) \/ HearYes(a) \/ HearLate(a)
                             \/ ReadAsk(a) \/ ReadAskAgain(a)
  BY <1>5, <1>6
  DEF Ask, HearNo, HearYes, HearLate, ReadAsk, ReadAskAgain, deathVars
<1>7. CASE \/ AskTimesOut \/ WaitEnds \/ RefuseToRetire \/ Acknowledge
           \/ LeaseExpires \/ ReadEnd \/ Tick \/ UNCHANGED vars
  BY <1>5, <1>7
  DEF AskTimesOut, WaitEnds, RefuseToRetire, Unfence, Acknowledge,
     LeaseExpires, ReadEnd, Reads, Tick, vars, deathVars
<1>8. QED
  BY <1>1, <1>2, <1>3, <1>4, <1>6, <1>7 DEF Next, Host, Worker, Abstract!Next

(* The worker, the host, the pipe and all their clocks are one atomic       *)
(* decision to their callers, for any number of requests and retirements   *)
(* and whatever the bounds are: none of them is there to keep this.        *)
THEOREM ImplementsAtomicRetirement == Spec => RetirementIsAtomic
BY InitRefines, NextRefines, InvHolds, PTL
DEF Spec, RetirementIsAtomic, Abstract!Spec, AStatus

=============================================================================
