--------------------------- MODULE DsarLifecycle ---------------------------
(***************************************************************************)
(* The life of a person's privacy requests as their administrators see it, *)
(* each decision in one piece: a table of moves, the shortcuts the         *)
(* services take past it, and an erasure between its start and its end.    *)
(***************************************************************************)
CONSTANTS
  Requests,    \* the requests of one person
  Exports,     \* those for a copy of the data
  Deletions,   \* those for its deletion
  Moves        \* Moves[s]: where an administrator may move a request in s

VARIABLES
  status,      \* status[q], identity[q] and hold[q]: the request's columns
  identity,
  hold,
  erased       \* the requests for which the person's data has been erased

lifeVars == <<status, identity, hold, erased>>

LifeInit ==
  /\ status = [q \in Requests |-> "identity_verification_required"]
  /\ identity = [q \in Requests |-> "pending"]
  /\ hold = [q \in Requests |-> "off"]
  /\ erased = {}

SetStatus(q, to) ==
  /\ status' = [status EXCEPT ![q] = to]
  /\ UNCHANGED <<identity, hold, erased>>

Move(q) ==
  \E to \in Moves[status[q]] :
    /\ q \in Deletions => to # "completed"
    /\ SetStatus(q, to)

Verify(q) ==
  /\ "identity_verified" \in Moves[status[q]]
  /\ status' = [status EXCEPT ![q] = "identity_verified"]
  /\ identity' = [identity EXCEPT ![q] = "verified"]
  /\ UNCHANGED <<hold, erased>>

FailIdentity(q) ==
  /\ status' = [status EXCEPT ![q] = "denied"]
  /\ identity' = [identity EXCEPT ![q] = "failed"]
  /\ UNCHANGED <<hold, erased>>

Reconsider(q) ==
  /\ \E i \in {"pending", "not_required"} : identity' = [identity EXCEPT ![q] = i]
  /\ UNCHANGED <<status, hold, erased>>

(* Whatever the status, a verified request can be answered.                *)
Answer(q) ==
  /\ identity[q] = "verified"
  /\ \E to \in {"completed", "denied"} \cup (IF q \in Exports THEN {"action_required"} ELSE {}) :
       SetStatus(q, to)

Hold(q) ==
  /\ \E on \in {"on", "off"} : hold' = [hold EXCEPT ![q] = on]
  /\ UNCHANGED <<status, identity, erased>>

(* An erasure begins for a verified request that is not held, takes        *)
(* effect, and ends; only one that has taken effect ends completed.        *)
MayErase(q) == q \in Deletions /\ identity[q] = "verified" /\ hold[q] = "off"

Start(q) ==
  /\ MayErase(q)
  /\ status[q] \notin {"processing", "completed", "partially_completed"}
  /\ SetStatus(q, "processing")

Erase(q) ==
  /\ MayErase(q)
  /\ status[q] = "processing"
  /\ erased' = erased \cup {q}
  /\ UNCHANGED <<status, identity, hold>>

Conclude(q) ==
  /\ MayErase(q)
  /\ status[q] = "processing"
  /\ q \in erased
  /\ \E to \in {"completed", "partially_completed", "failed"} : SetStatus(q, to)

LifeNext ==
  \E q \in Requests :
    \/ Move(q) \/ Verify(q) \/ FailIdentity(q) \/ Reconsider(q) \/ Answer(q)
    \/ Hold(q) \/ Start(q) \/ Erase(q) \/ Conclude(q)

LifeSpec == LifeInit /\ [][LifeNext]_lifeVars
=============================================================================
