----------------------------- MODULE MCMatters ------------------------------
(* The lead under overlapping handlers, the administrators who may act on   *)
(* it and the browser of its client with the choice about cookies, for the  *)
(* model checker.  They share no state here: a behaviour is of one of them  *)
(* while the others stay where they began.                                  *)
EXTENDS MCLeadWorkflow, FiniteSets

CONSTANTS
  None,
  Tabs, Calls, Payloads, MaxTokens, MaxKeys,          \* the browser
  Users, OneMore, Scripts                             \* the administration

VARIABLES
  part,                                               \* the part that moves
  tab, jar, live, issued, done, keys, call, signedOut,
  row, access, work, local, script, raced, erased,
  stored, storage, gpc, site, post, logged, agreed, unheeded

leadVars == vars
browserVars == <<tab, jar, live, issued, done, keys, call, signedOut>>
adminVars == <<row, access, work, local, script, raced, erased>>
cookieVars == <<stored, storage, gpc, site, post, logged, agreed, unheeded>>

Off == {}
BrowserOff ==
  /\ tab = Off /\ jar = Off /\ live = Off /\ issued = Off
  /\ done = Off /\ keys = Off /\ call = Off /\ signedOut = Off
AdminOff ==
  /\ row = Off /\ access = Off /\ work = Off /\ local = Off
  /\ script = Off /\ raced = Off /\ erased = Off
CookiesOff ==
  /\ stored = Off /\ storage = Off /\ gpc = Off /\ site = Off
  /\ post = Off /\ logged = Off /\ agreed = Off /\ unheeded = Off

Client == INSTANCE Browser

(* The tabs of a browser in which no command is given, with a token less ... *)
TabsStep == Client!Next /\ keys' = keys /\ issued' < MaxTokens

(* ... and the commands of one tab, until it is closed after a login.       *)
CommandsStep ==
  /\ Client!Next
  /\ issued = 0 \/ \E t \in Tabs : tab[t].open
  /\ \A s, t \in Tabs : tab'[s].open /\ tab'[t].open => s = t
  /\ \A t \in Tabs : tab'[t].open => tab[t].open \/ issued = 0

Everybody == Users \cup OneMore
Orders == {"promote", "demote", "delete"}
Administration ==
  INSTANCE Administrators WITH pc <- work, Users <- Everybody, MaxVersion <- 2

(* Administrators under several requests at once, until one is erased ...   *)
RequestsStep ==
  /\ Administration!Next /\ script' = script /\ ~erased
  /\ \A u \in OneMore : row'[u].state = "none"
  /\ \A h \in Handlers : local'[h].user \notin OneMore

(* ... and under promotions, one at a time, while the script runs.          *)
ProvisioningStep ==
  /\ Administration!Next
  /\ \A h \in Handlers :
       /\ local'[h].command \in {"none", "promote"}
       /\ \A g \in Handlers : work'[g] # "idle" /\ work'[h] # "idle" => g = h

(* Two tabs and one optional category.                                      *)
Cookies == INSTANCE CookieConsent WITH tab <- site, Categories <- OneMore

ASSUME MatterParameters ==
  IsFiniteSet(Everybody) /\ None \notin Tabs /\ MaxTokens \in Nat /\ MaxKeys \in Nat

MCInit ==
  /\ Init
  /\ \/ part = "lead" /\ BrowserOff /\ AdminOff /\ CookiesOff
     \/ part \in {"tabs", "commands"} /\ Client!Init /\ AdminOff /\ CookiesOff
     \/ part \in {"requests", "provisioning"} /\ Administration!Init /\ BrowserOff /\ CookiesOff
        /\ \A u \in OneMore : row[u].state = "none"
     \/ part = "cookies" /\ Cookies!Init /\ BrowserOff /\ AdminOff

MCNext ==
  /\ UNCHANGED part
  /\ \/ part = "lead" /\ Next /\ UNCHANGED <<browserVars, adminVars, cookieVars>>
     \/ part = "tabs" /\ TabsStep /\ UNCHANGED <<leadVars, adminVars, cookieVars>>
     \/ part = "commands" /\ CommandsStep /\ UNCHANGED <<leadVars, adminVars, cookieVars>>
     \/ part = "requests" /\ RequestsStep /\ UNCHANGED <<leadVars, browserVars, cookieVars>>
     \/ part = "provisioning" /\ ProvisioningStep
        /\ UNCHANGED <<leadVars, browserVars, cookieVars>>
     \/ part = "cookies" /\ Cookies!Next /\ UNCHANGED <<leadVars, browserVars, adminVars>>

MCSpec == MCInit /\ [][MCNext]_<<part, leadVars, browserVars, adminVars, cookieVars>>

Symmetry == HandlerSymmetry \cup Permutations(Users)

-----------------------------------------------------------------------------
InBrowser == part \in {"tabs", "commands"}
InAdministration == part \in {"requests", "provisioning"}

(* The values of each part are of their types.                              *)
TypesOK ==
  /\ part = "lead" => TypeOK
  /\ InBrowser => Client!TypeOK
  /\ InAdministration => Administration!TypeOK
  /\ part = "cookies" => Cookies!TypeOK

(* Browser: a logout that has arrived leaves no tab with a token of before. *)
SignedOutEverywhere == InBrowser => Client!SignedOutEverywhere

(* Browser: a command is executed once for each success that is reported.   *)
OneExecutionPerSuccess == InBrowser => Client!OneExecutionPerSuccess

(* Cookies: a tab loads scripts by the choice that was saved last, in any   *)
(* tab, and none against the signal.                                        *)
ScriptsAreAgreed == part = "cookies" => Cookies!ScriptsAreAgreed

(* Administration: neither the last administrator nor a gate is passed      *)
(* over, and the script provisions once.                                    *)
AdministrationIsGuarded ==
  [][InAdministration => Administration!GuardedStep]_<<part, adminVars>>
=============================================================================
