--------------------------- MODULE MCDsarRequests ---------------------------
(* Requests of one person, and what administrators ask of them.            *)
EXTENDS DsarRequests, TLC

(* A request "other" is at once a copy, an objection and an opt-out: types *)
(* but for a deletion only admit handlers, so a run with it includes those *)
(* with a request of each of these types.                                  *)
CONSTANTS copy, other, erasure

AllInputs == Wants

(* For overlapping handlers: those that act on the data, and the writes    *)
(* of identity and status they race with.                                  *)
OverlappingInputs ==
  {w \in Wants :
     /\ w.kind = "identity" => w.arg \in {"verified", "failed"}
     /\ w.kind = "status" => w.q \in Deletions /\ w.arg \in {"completed", "failed"}
     /\ w.kind \notin {"correct", "restrict", "hold"}}

HandlerSymmetry == Permutations(Handlers)
=============================================================================
