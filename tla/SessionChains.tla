--------------------------- MODULE SessionChains ---------------------------
(***************************************************************************)
(* What the refresh tokens of one account promise: every login opens one   *)
(* chain of tokens.  A chain has one current token while it is open, each  *)
(* rotation moves it to a token never used before, and a chain that has    *)
(* been ended stays ended.                                                 *)
(***************************************************************************)
CONSTANTS Tokens, NoOne

VARIABLES
  head,   \* head[l]: the current token of the chain login l opened, or NoOne
  used    \* the tokens that are or have been current in some chain

chainVars == <<head, used>>

ChainsInit ==
  /\ head = [l \in Tokens |-> NoOne]
  /\ used = {}

(* A login's chain begins with the login's own token.                      *)
Open(l) ==
  /\ l \notin used
  /\ head[l] = NoOne
  /\ head' = [head EXCEPT ![l] = l]
  /\ used' = used \cup {l}

(* A rotation: whoever holds the current token gets the next one.          *)
Advance(l, t) ==
  /\ head[l] # NoOne
  /\ t \notin used
  /\ head' = [head EXCEPT ![l] = t]
  /\ used' = used \cup {t}

(* Logout, reuse detection and account changes end chains.                 *)
Close(ended) ==
  /\ head' = [l \in Tokens |-> IF l \in ended THEN NoOne ELSE head[l]]
  /\ UNCHANGED used

ChainsNext ==
  \/ \E l \in Tokens : Open(l)
  \/ \E l, t \in Tokens : Advance(l, t)
  \/ \E ended \in SUBSET Tokens : Close(ended)

ChainsSpec == ChainsInit /\ [][ChainsNext]_chainVars
=============================================================================
