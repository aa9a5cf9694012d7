--------------------------- MODULE CookieConsent ----------------------------
(***************************************************************************)
(* The choice about optional cookies in the tabs of one browser:           *)
(* lib/cookieConsent.js, CookieConsentContext.jsx, the banner and the page *)
(* of the preferences, the storage below them with its clean-up, and the   *)
(* log of choices in the backend.                                          *)
(*                                                                         *)
(* The tabs share localStorage and nothing tells one of them what another  *)
(* has written: a tab shows what it read when it was opened, or wrote      *)
(* itself.  The signal of Global Privacy Control is read anew by every     *)
(* call, and by the provider whenever it renders.  Scripts that have been  *)
(* loaded stay until the tab is closed.  A call from an event to its last  *)
(* synchronous statement is one step.                                      *)
(***************************************************************************)
EXTENDS Naturals

CONSTANTS
  Tabs,        \* places for a tab of the browser
  Categories,  \* optional categories: analytics, marketing
  None         \* no choice, no tab

VARIABLES
  stored,      \* ais.ui.cookieConsent in localStorage
  storage,     \* the version of the storage and the keys of earlier builds
  gpc,         \* navigator.globalPrivacyControl
  tab,         \* tab[t]: the state of a tab, or None
  post,        \* a choice on its way to the log, or None
  logged,      \* the last row of cookie_consent_logs
  agreed,      \* observer: what the choice saved last, in any tab, agrees to
  unheeded     \* observer: categories loaded against that choice or the signal

vars == <<stored, storage, gpc, tab, post, logged, agreed, unheeded>>

-----------------------------------------------------------------------------
(* current: of COOKIE_CONSENT_VERSION.                                     *)
Choices == [current: BOOLEAN, on: SUBSET Categories, gpc: BOOLEAN]

TabStates ==
  [consent: Choices \cup {None}, banner: BOOLEAN, gpc: BOOLEAN,
   place: {"site", "preferences"}, ticks: SUBSET Categories, loaded: SUBSET Categories]

CurrentVersion == 2
LegacyKeys == {"intake", "cookie_consent_preferences"}

Init ==
  /\ stored \in {None} \cup [current: {FALSE}, on: SUBSET Categories, gpc: {FALSE}]
  /\ storage \in [version: {0}, keys: SUBSET LegacyKeys]
  /\ gpc \in BOOLEAN
  /\ tab = [t \in Tabs |-> None]
  /\ post = None
  /\ logged = None
  /\ agreed = {} /\ unheeded = {}

(* cleanupLegacyBrowserStorage, before the first render.                   *)
Legacy(keys) == keys \cap LegacyKeys

CleanedUp ==
  IF storage.version >= CurrentVersion THEN storage
  ELSE [version |-> CurrentVersion, keys |-> storage.keys \ Legacy(storage.keys)]

(* Mutant: a choice of an earlier version of the notice still counts.      *)
ConsentOfAnyVersion(s) == s

(* getConsent.                                                             *)
Consent(s) == IF s # None /\ s.current THEN s ELSE None

PreviousChoices(s) == IF s = None THEN {} ELSE s.on
NeedsPrompt(s) == ~gpc /\ Consent(s) = None

(* hasConsent, of the optional categories.                                 *)
Consented(s) ==
  IF Consent(s) = None \/ gpc THEN {} ELSE Consent(s).on

(* applyGpcConstraints.                                                    *)
Constrained(on) == IF gpc THEN {} ELSE on

(* What saveConsent stores; where the signal has come on since the last    *)
(* render, the effect that the save sets off stores once more.             *)
Saved(t, on) ==
  [current |-> TRUE, on |-> Constrained(on), gpc |-> tab[t].gpc \/ gpc]

(* The effect of the provider: under the signal nothing optional stays.    *)
Enforces(s) ==
  gpc /\ (Consent(s) = None \/ Consent(s).on # {} \/ ~Consent(s).gpc)

Enforced == [current |-> TRUE, on |-> {}, gpc |-> TRUE]

Observe(t, tabAfter) ==
  LET new == tabAfter.loaded \ (IF tab[t] = None THEN {} ELSE tab[t].loaded)
  IN  unheeded' = unheeded \cup (IF gpc THEN new ELSE new \ agreed')

(* A tab with what it has after its effects, and its log entry.  Bound: of *)
(* entries that are on their way together the last is followed.            *)
Rendered(t, s, posted, tabAfter) ==
  /\ stored' = s
  /\ tab' = [tab EXCEPT ![t] = tabAfter]
  /\ post' = IF posted THEN s ELSE post
  /\ Observe(t, tabAfter)

Open(t) ==
  LET s == IF Enforces(stored) THEN Enforced ELSE stored IN
  /\ tab[t] = None
  /\ UNCHANGED <<gpc, logged, agreed>>
  /\ storage' = CleanedUp
  /\ Rendered(t, s, Enforces(stored),
       [consent |-> Consent(s), banner |-> NeedsPrompt(s), gpc |-> gpc, place |-> "site",
        ticks |-> PreviousChoices(stored), loaded |-> Consented(s)])

Close(t) ==
  /\ tab[t] # None
  /\ tab' = [tab EXCEPT ![t] = None]
  /\ UNCHANGED <<stored, storage, gpc, post, logged, agreed, unheeded>>

(* The listener hides the banner, the page takes over the choice, and what *)
(* is consented to by now is loaded.                                       *)
Informed(t, s) ==
  [tab[t] EXCEPT !.consent = s, !.banner = FALSE, !.gpc = gpc,
                 !.ticks = IF tab[t].place = "preferences" THEN s.on ELSE @,
                 !.loaded = @ \cup Consented(s)]

Save(t, on) ==
  LET s == Saved(t, on) IN
  /\ agreed' = on
  /\ Rendered(t, s, TRUE, Informed(t, s))
  /\ UNCHANGED <<storage, gpc, logged>>

AcceptAll(t) ==
  /\ tab[t] # None /\ tab[t].banner
  /\ Save(t, IF tab[t].gpc THEN {} ELSE Categories)

RejectOptional(t) ==
  /\ tab[t] # None /\ tab[t].banner
  /\ Save(t, {})

(* The toggles are shown by the banner and by the page.                    *)
Shows(t) == tab[t] # None /\ (tab[t].banner \/ tab[t].place = "preferences")

Toggle(t, c) ==
  /\ Shows(t) /\ ~tab[t].gpc
  /\ tab' = [tab EXCEPT ![t].ticks = IF c \in @ THEN @ \ {c} ELSE @ \cup {c}]
  /\ UNCHANGED <<stored, storage, gpc, post, logged, agreed, unheeded>>

SavePreferences(t) == Shows(t) /\ Save(t, tab[t].ticks)

WithdrawOptional(t) ==
  /\ tab[t] # None /\ tab[t].place = "preferences"
  /\ Save(t, {})

(* The page starts from the tab's consent, or else from the stored one.    *)
(* Bound: who is on it stays there.                                        *)
VisitPreferences(t) ==
  /\ tab[t] # None /\ tab[t].place = "site"
  /\ LET current == IF tab[t].consent # None THEN tab[t].consent ELSE Consent(stored)
     IN tab' = [tab EXCEPT ![t].place = "preferences", ![t].ticks = PreviousChoices(current)]
  /\ UNCHANGED <<stored, storage, gpc, post, logged, agreed, unheeded>>

(* Opening the banner again renders the provider; its effect runs if the   *)
(* signal is another one by now.                                           *)
ReopenBanner(t) ==
  /\ tab[t] # None /\ ~tab[t].gpc /\ ~tab[t].banner
  /\ UNCHANGED <<storage, gpc, logged, agreed>>
  /\ IF Enforces(stored)
     THEN Rendered(t, Enforced, TRUE, Informed(t, Enforced))
     ELSE Rendered(t, stored, FALSE, [tab[t] EXCEPT !.banner = TRUE, !.gpc = gpc])

TurnSignal ==
  /\ gpc' = ~gpc
  /\ UNCHANGED <<stored, storage, tab, post, logged, agreed, unheeded>>

(* The server goes by the header of the request.                           *)
Row(choice) == IF gpc THEN Enforced ELSE choice

Log ==
  /\ post # None
  /\ logged' = Row(post)
  /\ post' = None
  /\ UNCHANGED <<stored, storage, gpc, tab, agreed, unheeded>>

(* A failed request is forgotten.                                          *)
LoseLog ==
  /\ post # None
  /\ post' = None
  /\ UNCHANGED <<stored, storage, gpc, tab, logged, agreed, unheeded>>

Next ==
  \/ TurnSignal \/ Log \/ LoseLog
  \/ \E t \in Tabs :
       \/ Open(t) \/ Close(t)
       \/ AcceptAll(t) \/ RejectOptional(t) \/ SavePreferences(t) \/ WithdrawOptional(t)
       \/ \E c \in Categories : Toggle(t, c)
       \/ VisitPreferences(t) \/ ReopenBanner(t)

Spec == Init /\ [][Next]_vars

-----------------------------------------------------------------------------
(* The types of the variables.                                             *)
TypeOK ==
  /\ stored \in Choices \cup {None}
  /\ storage \in [version: {0, CurrentVersion}, keys: SUBSET LegacyKeys]
  /\ gpc \in BOOLEAN
  /\ tab \in [Tabs -> TabStates \cup {None}]
  /\ post \in Choices \cup {None}
  /\ logged \in Choices \cup {None}
  /\ agreed \subseteq Categories /\ unheeded \subseteq Categories

(* Whatever the tabs show and store over each other, and whatever was      *)
(* stored for an earlier version of the notice: a tab that loads a script  *)
(* goes by the choice that was saved last, be it withdrawn in another tab  *)
(* since this one was opened, and loads none while the browser sends the   *)
(* signal.                                                                 *)
ScriptsAreAgreed == unheeded = {}

=============================================================================
