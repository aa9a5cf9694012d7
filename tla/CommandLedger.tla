--------------------------- MODULE CommandLedger ---------------------------
(***************************************************************************)
(* What the idempotency layer promises its callers, with no transaction,   *)
(* lock or record in sight: per key a cell that is empty or holds the one  *)
(* attempt that was carried out, which every caller is told about who is   *)
(* told anything at all.                                                   *)
(***************************************************************************)
CONSTANTS Requests, Keys, NoOne

VARIABLES
  ledger,   \* ledger[k]: the attempt carried out for key k, or NoOne
  told      \* told[r]: the attempt whose result caller r was told, or NoOne

ledgerVars == <<ledger, told>>

LedgerInit ==
  /\ ledger = [k \in Keys |-> NoOne]
  /\ told = [r \in Requests |-> NoOne]

(* Attempt r is carried out; its caller may or may not get to know.        *)
CarryOut(k, r) ==
  /\ ledger[k] = NoOne
  /\ told[r] = NoOne
  /\ ledger' = [ledger EXCEPT ![k] = r]
  /\ told' \in {told, [told EXCEPT ![r] = r]}

(* A later caller is told of what was carried out before.                  *)
Replay(k, r) ==
  /\ ledger[k] # NoOne
  /\ told[r] = NoOne
  /\ told' = [told EXCEPT ![r] = ledger[k]]
  /\ UNCHANGED ledger

(* The response does not arrive.                                           *)
Lose(r) ==
  /\ told' = [told EXCEPT ![r] = NoOne]
  /\ UNCHANGED ledger

(* After its time to live an entry is dropped.                             *)
Forget(k) ==
  /\ ledger[k] # NoOne
  /\ ledger' = [ledger EXCEPT ![k] = NoOne]
  /\ UNCHANGED told

LedgerNext ==
  \/ \E k \in Keys, r \in Requests : CarryOut(k, r) \/ Replay(k, r)
  \/ \E r \in Requests : Lose(r)
  \/ \E k \in Keys : Forget(k)

LedgerSpec == LedgerInit /\ [][LedgerNext]_ledgerVars
=============================================================================
