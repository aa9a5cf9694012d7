--------------------------- MODULE LeadLifecycle ---------------------------
(***************************************************************************)
(* What the workflow policies promise of one lead, each move in one piece: *)
(* the state machine of the matter with the gates between its states.      *)
(***************************************************************************)
CONSTANTS
  Moves,     \* Moves[s]: the states a matter in state s may move to
  Results    \* results of a conflict check

VARIABLES
  status,     \* the state of the matter
  conflict,   \* the result of its conflict check
  review,     \* what the attorney has decided
  confirmed   \* a responsible attorney is confirmed

lifeVars == <<status, conflict, review, confirmed>>

LifeInit ==
  /\ status = "new"
  /\ conflict = "none"
  /\ review = "none"
  /\ confirmed = FALSE

Gate(to) ==
  /\ to \in {"attorney_review", "accepted", "engaged"} => conflict = "clear"
  /\ to \in {"accepted", "engaged"} => review = "accepted"
  /\ to = "engaged" => confirmed

Move(to) ==
  /\ to \in Moves[status]
  /\ Gate(to)
  /\ status' = to
  /\ UNCHANGED <<conflict, review, confirmed>>

CheckConflict ==
  /\ conflict' \in Results
  /\ UNCHANGED <<status, review, confirmed>>

Review ==
  /\ conflict = "clear"
  /\ review' \in {"accepted", "declined"}
  /\ confirmed' \in {confirmed, TRUE}
  /\ UNCHANGED <<status, conflict>>

(* An administrator deletes the lead, in whatever state it is.             *)
Remove ==
  /\ status' = "declined"
  /\ UNCHANGED <<conflict, review, confirmed>>

LifeNext ==
  \/ \E to \in DOMAIN Moves : Move(to)
  \/ CheckConflict
  \/ Review
  \/ Remove

LifeSpec == LifeInit /\ [][LifeNext]_lifeVars
=============================================================================
