-------------------------- MODULE MCAdministration --------------------------
(* What administrators do, for the model checker: the second factor of one *)
(* of them; the settings of the site with the images uploaded for them; a  *)
(* lead, and privacy requests, under handlers that wait for each other.    *)
(* These share no state here: a behaviour is of one of them while the      *)
(* others stay where they began.                                           *)
EXTENDS SecondFactor, TLC

CONSTANTS
  Texts, Default,                           \* what the settings say
  Images, ScanEnabled,                      \* uploaded images, and their scan
  Single,                                   \* one handler at a time
  LeadInputs, DsarInputs,
  Requests, Exports, Deletions, Objections, OptOuts

VARIABLES
  part,                                     \* the part that moves
  row, disk, loaded, form, call, upload,
  lead, conflict, packet, lpc, lwant, read, passed,
  request, files, person, dpc, dwant, found, identified, served, erasers

Off == {}
factorVars == vars
siteVars == <<row, disk, loaded, form, call, upload>>
leadVars == <<lead, conflict, packet, lpc, lwant, read, passed>>
dsarVars == <<request, files, person, dpc, dwant, found, identified, served, erasers>>
serialVars == <<leadVars, dsarVars>>

SiteOff ==
  /\ row = Off /\ disk = Off /\ loaded = Off
  /\ form = Off /\ call = Off /\ upload = Off
LeadOff ==
  /\ lead = Off /\ conflict = Off /\ packet = Off /\ lpc = Off
  /\ lwant = Off /\ read = Off /\ passed = Off
DsarOff ==
  /\ request = Off /\ files = Off /\ person = Off /\ dpc = Off /\ dwant = Off
  /\ found = Off /\ identified = Off /\ served = Off /\ erasers = Off

Site == INSTANCE SiteSettings WITH Pages <- Handlers, None <- NoOne

(* Handlers that wait for each other.                                      *)
Workflow ==
  INSTANCE LeadWorkflow WITH
    Handlers <- Single, MaxActive <- 1, Inputs <- LeadInputs, pc <- lpc, want <- lwant

Privacy ==
  INSTANCE DsarRequests WITH
    Handlers <- Single, MaxActive <- 1, Inputs <- DsarInputs,
    row <- request, pc <- dpc, want <- dwant, local <- found

ASSUME SiteParameters == Default \in Texts /\ NoOne \notin Images

(* Each kind of proof on one of the two ways it can be used, and no        *)
(* challenge to start an enrollment with, which leaves it as it is.        *)
OverlappingInputs ==
  {w \in Wants :
     /\ w.kind = "verify" => w.via = "totp"
     /\ w.kind = "stepUp" => w.via = "code"
     /\ w.kind = "start" => w.c = NoOne}

(* Every kind of request to a lead ...                                     *)
LeadForms ==
  INSTANCE LeadWorkflow WITH
    Handlers <- Single, MaxActive <- 1, Inputs <- {}, pc <- lpc, want <- lwant

AllLeadInputs == LeadForms!LeadRequests

(* ... and about privacy: holds, restrictions and failed identifications   *)
(* of deletions only, and fewer of the values that lead to the same next   *)
(* statuses.                                                               *)
DsarForms ==
  INSTANCE DsarRequests WITH
    Handlers <- Single, MaxActive <- 1, Inputs <- {},
    row <- request, pc <- dpc, want <- dwant, local <- found

SerialDsarInputs ==
  {w \in DsarForms!Wants :
     /\ w.kind \in {"hold", "restrict"} => w.q \in Deletions
     /\ w.kind = "identity" =>
          w.arg \in IF w.q \in Deletions THEN {"verified", "failed"} ELSE {"verified"}
     /\ w.kind = "status" =>
          w.arg \in IF w.q \in Deletions
                   THEN {"in_review", "processing", "partially_completed", "failed", "completed"}
                   ELSE {"completed"}}

MCInit ==
  /\ Init
  /\ \/ part = "factor" /\ SiteOff /\ LeadOff /\ DsarOff
     \/ part = "site" /\ Site!Init /\ LeadOff /\ DsarOff
     \/ part = "lead" /\ Workflow!Init /\ SiteOff /\ DsarOff
     \/ part = "dsar" /\ Privacy!Init /\ SiteOff /\ LeadOff

MCNext ==
  /\ UNCHANGED part
  /\ \/ part = "factor" /\ Next /\ UNCHANGED <<siteVars, serialVars>>
     \/ part = "site" /\ Site!Next /\ UNCHANGED <<factorVars, serialVars>>
     \/ part = "lead" /\ Workflow!Next /\ UNCHANGED <<factorVars, siteVars, dsarVars>>
     \/ part = "dsar" /\ Privacy!Next /\ UNCHANGED <<factorVars, siteVars, leadVars>>

MCSpec == MCInit /\ [][MCNext]_<<part, factorVars, siteVars, serialVars>>

Symmetry == Permutations(Handlers)

(* States that differ only in what no step reads any more are one: of a    *)
(* consumed challenge nothing but that, of a disabled factor its periods.  *)
Retired(f) == factor[f].status = "disabled"

LiveView ==
  <<[f \in Factors |-> IF Retired(f) THEN "disabled" ELSE factor[f]],
    [p \in Factors \X Periods |-> IF Retired(p[1]) THEN 0 ELSE stepUses[p]],
    [c \in Challenges |-> IF challenge[c].used THEN "used" ELSE challenge[c]],
    codes, issued, now, pc, want, local, codeUses, granted, refused,
    part, siteVars, serialVars>>

-----------------------------------------------------------------------------
(* Settings: pages, uploads and the stored settings are of their types; an *)
(* uploaded image that is stored, or in a form about to be stored, can be  *)
(* served and has passed the scan.                                         *)
StoredImagesAreServed ==
  part = "site" => Site!TypeOK /\ Site!StoredImagesAreServed

(* Handlers of a lead that wait for each other implement LeadLifecycle.    *)
LeadImplementsLifecycle ==
  /\ part = "lead" => Workflow!Life!LifeInit
  /\ [][part = "lead" =>
         UNCHANGED Workflow!Life!lifeVars \/ Workflow!Life!LifeNext]_<<part, leadVars>>

(* Handlers of privacy requests that wait for each other implement         *)
(* DsarLifecycle.                                                          *)
DsarImplementsLifecycle ==
  /\ part = "dsar" => Privacy!Life!LifeInit
  /\ [][part = "dsar" =>
         UNCHANGED Privacy!Life!lifeVars \/ Privacy!Life!LifeNext]_<<part, dsarVars>>
=============================================================================
