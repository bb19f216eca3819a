--------------------------- MODULE RouteAuthority ---------------------------
(***************************************************************************)
(* What the route lease promises (session-route-lease.ts:13-26): whoever   *)
(* routes to a session path shares it with others who do, and whoever      *)
(* releases or moves a session has all the paths of it, alone, from before *)
(* its first step until after its last.                                    *)
(* SessionRouteLease, with its gates, counters and timers, implements      *)
(* this, and it is what the requests and the move of SessionMove do.       *)
(***************************************************************************)
CONSTANTS Paths, Requests, Writers

VARIABLES
  reads,  \* request -> the path it works on, as a set of one; {} at rest
  holds   \* writer -> the paths its work is over; {} at rest

Init ==
  /\ reads = [r \in Requests |-> {}]
  /\ holds = [w \in Writers |-> {}]

NobodyWrites(p) == \A w \in Writers : p \notin holds[w]
NobodyReads(p) == \A r \in Requests : p \notin reads[r]

Read(r, p) ==
  /\ reads[r] = {}
  /\ NobodyWrites(p)
  /\ reads' = [reads EXCEPT ![r] = {p}]
  /\ UNCHANGED holds

Write(w, ps) ==
  /\ holds[w] = {}
  /\ \A p \in ps : NobodyWrites(p) /\ NobodyReads(p)
  /\ holds' = [holds EXCEPT ![w] = ps]
  /\ UNCHANGED reads

\* Work ends, or is cut short with whoever shared its fate; a writer never
\* gives up half of what it has.
End(R, W) ==
  /\ reads' = [r \in Requests |-> IF r \in R THEN {} ELSE reads[r]]
  /\ holds' = [w \in Writers |-> IF w \in W THEN {} ELSE holds[w]]

Next ==
  \/ \E r \in Requests, p \in Paths : Read(r, p)
  \/ \E w \in Writers, ps \in SUBSET Paths : Write(w, ps)
  \/ \E R \in SUBSET Requests, W \in SUBSET Writers : End(R, W)

Spec == Init /\ [][Next]_<<reads, holds>>

=============================================================================
