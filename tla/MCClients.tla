----------------------------- MODULE MCClients ------------------------------
(* The intake draft of a client, and accounts and their addresses, for the  *)
(* model checker.  They share no state here: a behaviour is of a draft, of  *)
(* one account, of one that has lost its password, of one that changes its  *)
(* address twice, or of several that compete for addresses.                 *)
EXTENDS IntakeDrafts, TLC

CONSTANTS
  Addresses, Handlers, MaxActive, MaxSends,
  OneUser, Rivals,                       \* the users of an account, of several
  MoreAddresses                          \* for who changes the address twice

VARIABLES
  part,                                  \* the part that moves
  account, token, mailed, pc, local, proved, used, resent, crossed

draftVars == vars
accountVars == <<account, token, mailed, pc, local, proved, used, resent, crossed>>

Off == {}
AccountsOff ==
  /\ account = Off /\ token = Off /\ mailed = Off /\ pc = Off
  /\ local = Off /\ proved = Off /\ used = Off /\ resent = Off /\ crossed = Off

One ==
  INSTANCE AccountsProofs WITH
    Users <- OneUser, MaxTokens <- 3,
    Inputs <- {"register", "resend", "resend_public", "change", "confirm"}

Lost ==
  INSTANCE AccountsProofs WITH
    Users <- OneUser, MaxTokens <- 2,
    Inputs <- {"register", "change", "confirm", "forgot", "reset"}

Twice ==
  INSTANCE AccountsProofs WITH
    Users <- OneUser, Addresses <- MoreAddresses, MaxTokens <- 2, MaxSends <- 0,
    Inputs <- {"register", "change", "confirm"}

Race ==
  INSTANCE AccountsProofs WITH
    Users <- Rivals, MaxTokens <- 1, MaxActive <- 2, MaxSends <- 0,
    Inputs <- {"register", "change", "confirm"}

ASSUME AccountParameters ==
  One!Parameters /\ Lost!Parameters /\ Twice!Parameters /\ Race!Parameters

MCInit ==
  /\ Init
  /\ \/ part = "draft" /\ AccountsOff
     \/ part = "one" /\ One!Init
     \/ part = "lost" /\ Lost!Init
     \/ part = "twice" /\ Twice!Init
     \/ part = "race" /\ Race!Init

(* The parts that ask what has been proved go on until requests have        *)
(* crossed, after which they would ask nothing of it.                       *)
MCNext ==
  /\ UNCHANGED part
  /\ \/ part = "draft" /\ Next /\ UNCHANGED accountVars
     \/ part = "one" /\ One!Next /\ crossed = Off /\ UNCHANGED draftVars
     \/ part = "lost" /\ Lost!Next /\ UNCHANGED draftVars
     \/ part = "twice" /\ Twice!Next /\ crossed = Off /\ UNCHANGED draftVars
     \/ part = "race" /\ Race!Next /\ UNCHANGED draftVars

MCSpec == MCInit /\ [][MCNext]_<<part, draftVars, accountVars>>

(* The contents that leads have been created from decide nothing, nor do    *)
(* the observers of accounts: each counts where a property asks about it.   *)
Observed ==
  <<IF part \in {"one", "twice"} THEN <<proved, crossed>> ELSE Off,
    IF part \in {"one", "lost"} THEN used ELSE Off,
    IF part = "one" THEN resent ELSE Off>>

Distinguished ==
  <<part, draft, tab, call, edits, account, token, mailed, pc, local, Observed>>

Symmetry == Permutations(Tabs) \cup Permutations(Calls) \cup Permutations(Rivals)

-----------------------------------------------------------------------------
(* The values of each part are of their types.                              *)
TypesOK ==
  /\ part = "draft" => TypeOK
  /\ part = "one" => One!TypeOK
  /\ part = "lost" => Lost!TypeOK
  /\ part = "twice" => Twice!TypeOK
  /\ part = "race" => Race!TypeOK

(* Accounts: no one-time token takes effect twice, and an account does not  *)
(* come to have more live ones, or resends of them, than there are requests *)
(* at a time.                                                               *)
TokensAreFewAndSpentOnce ==
  /\ part = "one" => One!SpentOnce /\ One!ResendsAreLimited /\ One!FewLiveTokens
  /\ part = "lost" => Lost!SpentOnce

(* Accounts: whoever is verified has shown to read the mail of the address, *)
(* however requests overlap, unless some of his have crossed as Accounts    *)
(* says.                                                                    *)
VerifiedIsProved ==
  (part = "one" => One!VerifiedIsProved) /\ (part = "twice" => Twice!VerifiedIsProved)

(* Accounts: two accounts do not come to have one address.                  *)
OneAccountEach == part = "race" => Race!OneAccountPerAddress
=============================================================================
