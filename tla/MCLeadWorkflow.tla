--------------------------- MODULE MCLeadWorkflow ---------------------------
(* LeadRequests for the model checker: everybody's, and those of           *)
(* administrators that advance the lead or its packet.                     *)
EXTENDS LeadWorkflow, TLC

AllInputs == LeadRequests

OverlappingInputs ==
  {w \in LeadRequests :
     /\ w.admin
     /\ w.kind \notin {"agreement", "delete"}
     /\ w.kind = "review" => w.arg = "accepted" /\ w.confirm
     /\ w.kind = "state" => w.arg \in {"accepted", "engaged", "filed"}
     /\ w.arg \notin {"needs_more_info", "pending"}}

HandlerSymmetry == Permutations(Handlers)
=============================================================================
