----------------------------- MODULE MCBackend ------------------------------
(* The sessions of an account, servers that start and migrate, and         *)
(* commands on a pool of connections, for the model checker.  They share   *)
(* no state here: a behaviour is of one of them, and the others stay as    *)
(* they begin.  What the three have in common is that they wait: for a     *)
(* row, for the migrations' lock, for a connection.                        *)
EXTENDS RefreshTokens, Sequences

CONSTANTS
  Nobody,                                              \* no server, no command
  Servers, Releases, Names, Files, Plain, Legacy,      \* of Deployment
  Commands, PoolMax, Statuses, Pending                 \* of PaymentCommands

(* The files of every release and the rows that earlier builds have left   *)
(* are named among the names, which are in an order; a checksum is one.    *)
ASSUME DeploymentParameters ==
  /\ Releases # {} /\ Names \subseteq Nat /\ Nobody \notin Servers
  /\ \A r \in Releases :
       /\ DOMAIN Files[r] \subseteq Names
       /\ \A n \in DOMAIN Files[r] : Files[r][n] # "unrecorded"
  /\ DOMAIN Legacy \subseteq Names

ASSUME PoolParameters ==
  PoolMax \in Nat /\ Pending \in Statuses /\ Nobody \notin Commands

VARIABLES
  part,                                                     \* the part that moves
  table, rows, times, migrator, stage, mine, probe, answer,
  columns, holder, conn, turn, local

sessionVars == vars
deploymentVars == <<table, rows, times, migrator, stage, mine, probe, answer>>
paymentVars == <<columns, holder, conn, turn, local>>

(* Builds that disagree about the second file, of which one lacks the      *)
(* third, a file that runs outside a transaction; rows of before the       *)
(* checksums, of two files.                                                *)
Builds == [new |-> <<"x", "y", "w">>, patched |-> <<"x", "z">>]
EarlierRows == [n \in {1, 3} |-> "of an earlier build"]

Deploy ==
  INSTANCE Deployment WITH lock <- migrator, pc <- stage, local <- mine

Pay ==
  INSTANCE PaymentCommands WITH row <- columns, pc <- turn

mcvars == <<part, sessionVars, deploymentVars, paymentVars>>

MCInit ==
  /\ part \in {"sessions", "deployment", "payments"}
  /\ Init /\ Deploy!Init /\ Pay!Init
  /\ part # "deployment" => ~table

MCNext ==
  /\ UNCHANGED part
  /\ \/ part = "sessions" /\ Next /\ UNCHANGED <<deploymentVars, paymentVars>>
     \/ part = "deployment" /\ Deploy!Next /\ UNCHANGED <<sessionVars, paymentVars>>
     \/ part = "payments" /\ Pay!Next /\ UNCHANGED <<sessionVars, deploymentVars>>

(* The event loop and the database advance every request that has begun.   *)
MCFairness ==
  /\ \A a \in Attempts : WF_vars(part = "sessions" /\ Proceed(a))
  /\ \A s \in Servers :
       /\ WF_deploymentVars(part = "deployment" /\ Deploy!Step(s))
       /\ SF_deploymentVars(part = "deployment" /\ Deploy!Lock(s))
  /\ \A c \in Commands :
       /\ WF_paymentVars(part = "payments" /\ Pay!Proceed(c))
       /\ SF_paymentVars(part = "payments" /\ Pay!Obtain(c))

MCSpec ==
  MCInit /\ [][MCNext]_mcvars /\ MCFairness

-----------------------------------------------------------------------------
(* The values of each part are of their types.                             *)
TypesOK == TypeOK /\ Deploy!TypeOK /\ Pay!TypeOK

(* Deployment: however servers of different releases start, fail and start *)
(* again, one that accepts connections, and one that keeps a good answer   *)
(* of a check, finds its own migrations in the table as they are on its    *)
(* disk.                                                                   *)
ServersFitSchema == Deploy!ServersFitSchema

(* Deployment: a migration in a transaction takes effect exactly once and  *)
(* with its row, and one outside is never recorded without its effect.     *)
MigratedOnce == Deploy!MigratedOnce

(* Payments: the intake's copies of the states of payment and export are   *)
(* what their own rows say, whichever commands overlap, fail or deadlock.  *)
CopiesAgree == Pay!CopiesAgree

(* Who has begun to wait, and who is done with it, as EveryRequestEnds,    *)
(* EveryStartEnds and EveryCommandEnds have it.                            *)
Waits(a) ==
  CASE part = "sessions"   -> a \in Attempts /\ pc[a] \in {"find", "read", "sweep"}
    [] part = "deployment" -> a \in Servers /\ stage[a] = "lock"
    [] part = "payments"   -> a \in Commands /\ turn[a] # 0

Done(a) ==
  CASE part = "sessions"   -> a \in Attempts => pc[a] = "done"
    [] part = "deployment" -> a \in Servers => stage[a] \in {"up", "off"}
    [] part = "payments"   -> a \in Commands => turn[a] = 0

(* All three: whoever waits for a row, for the migrations' lock or for a   *)
(* connection of the pool comes to the end of its request.                 *)
EveryWaitEnds == \A a \in Attempts \cup Servers \cup Commands : Waits(a) ~> Done(a)
=============================================================================
