# A verification of the Affordable Immigration Service

This directory holds TLA+ models of the service (an Express application on
PostgreSQL that takes immigration intakes, guides attorneys through them and
administers accounts, and the React client in front of it), TLC configurations
that check the models on small instances, and TLAPS proofs for instances of
every size.  Paths are relative to the repository's root; `services/x.js`
without a prefix is `backend/src/services/x.js`.

## 1. The system

One Node.js process (or several) serves the API.  Within a process every
`await` is a point where another request may run; between processes, and inside
PostgreSQL, everything overlaps.  The database runs at its default isolation,
READ COMMITTED.  There are no queues and no background workers: retention and
the clean-up of idempotency records are scripts or administrators' commands.
In a browser the tabs share the cookie with the refresh token and localStorage
and nothing else.

| Component | State | Operations | What makes it correct |
|---|---|---|---|
| Idempotent commands | `idempotency_records`: one row per (actor scope, operation, key hash) with its request hash, state and stored response; row locks; the command's transaction | `runIdempotentCommand` around 20-odd handlers; clean-up script | a key takes effect once, whatever is retried; later callers get that execution's result; other payloads are refused |
| Sessions and refresh tokens | `auth_refresh_tokens` (session, version, mark of the second factor, successor), `users.session_version` | login, refresh with rotation, reuse detection, step-up, logout, sweep after a reset | one live token per login; an ended session stays over; a mark is proved |
| Lead workflow and conflict check | `leads.status`, `responsible_attorney_confirmed`, `lead_conflict_checks` | conflict check (submit, update), attorney review, confirmation, state change, deletion | nobody is taken on before a clear check, an acceptance and a confirmation; the transition table |
| Agreements, onboarding packets | `agreements`, `onboarding_packets` (draft or approved) | generate, approve | only for a matter that is far enough; an approval is final |
| Data subject requests (DSAR) | `dsar_requests` (status, identity, hold, export), `dsar_request_events`, export files | submit, verify, export, PDF, correct, restrict, object, opt out, anonymize, hold, status | data goes only after identification and off hold; "completed" means gone |
| Multi-factor authentication | factors, recovery codes, challenges with attempt counter, last TOTP step | enrol, activate, challenge, verify, step-up, recover, reset | attempts are limited; a code counts once; one active factor |
| Registration, e-mail verification and change, password reset | `users`, `email_verification_tokens`, `password_reset_tokens` | register, resend, change, confirm, forget, reset | one account per address; a token counts once; a verified address has been proved |
| E-mail compliance | `email_suppressions`, consents of `users` | unsubscribe, preferences, signals, gate before a send | no marketing after an opt-out |
| Retention | ages, dates and holds of leads, documents, tokens, logs | batch anonymization and purges, holds and dates | nothing held or young is touched; what is due is worked, once and wholly |
| User administration | roles, deletion marks, security versions | gate, change role, delete, provisioning script | an administrator remains; the gate sees the role of the moment |
| Intake drafts and submission | `intake_drafts` with a version; the form of every tab | load, autosave, submit, delete | a save replaces what its sender has seen; a submission closes the draft |
| Payment, Docketwise export | `payments`, `docketwise_sync`, and their copies in `intakes` | set status, set URL, sync, erase | copies agree; nobody waits for ever |
| Database access, migrations, start-up | pool; `schema_migrations`; advisory lock; readiness | connect, migrate, check, start, stop | a server that accepts connections fits the schema |
| Site settings, uploads of images | `site_settings`, the upload directory, the page's form | load, save, upload with its checks | what is stored can be served |
| Cookie consent | `localStorage`, the tabs' choices, the loaded scripts, `cookie_consent_logs` | choose, withdraw, signal, clean-up | a script is loaded by the choice saved last |
| Browser client | access token and key per tab, the cookie, the calls under way | login, refresh on 401, command with a key, logout | a retry has the key of what it repeats; a logout reaches every tab |
| Encrypted documents, audit trail, availability, CI | files; append-only rows; constants | encrypt, append, answer | no protocol |

Components meet in few places.  A handler of a protected command runs inside
the idempotency transaction; whether its writes are part of it depends on
whether it passes the transaction's `client` on.  Password reset, MFA changes,
role changes and DSAR deletions end sessions by raising the account's version
or by a sweep of its tokens.  DSAR deletion and retention rewrite leads,
intakes, packets and tokens that other handlers are using at the time.  Every
component writes audit rows; none reads them.

What is hard everywhere is the same: services read a row, `await`, check it,
`await`, and write it back without a lock or a condition.  Only idempotency
records, refresh-token rotation, TOTP steps, one-time tokens, retention's
updates and intake drafts have a guard in the database.  `PROJECT.json` lists
the hazards with their lines and the properties that look at them.

## 2. Modules

| Module | Models | Extends / instantiates |
|---|---|---|
| `CommandLedger` | what idempotency promises: a ledger of executed commands | |
| `IdempotentCommand` | the idempotency layer with its transaction | refines `CommandLedger` |
| `SessionChains` | what the token table promises: chains that open, advance, end | |
| `RefreshTokens` | login, rotation, reuse, step-up, logout, sweep | refines `SessionChains` |
| `LeadLifecycle` | the life of a lead as the policies describe it | |
| `LeadWorkflow` | the handlers of a lead, its check, review and packet | refines `LeadLifecycle` when handlers do not overlap |
| `DsarLifecycle` | the life of privacy requests as decisions in one piece | |
| `DsarRequests` | the administrators' handlers, the deletion workflow and the person's data | refines `DsarLifecycle` when handlers do not overlap |
| `SecondFactor` | challenges, factors and recovery codes of a privileged account | |
| `Accounts` | registration, addresses and their one-time tokens, password resets | |
| `Administrators` | the gate of the administration, roles, deletion, the provisioning script | |
| `Retention` | runs over five categories, holds and dates | |
| `MarketingMail` | suppressions, consents and the gate of one person's mail | |
| `IntakeDrafts` | the intake form in several tabs, its draft and submission | |
| `Browser` | several tabs of a client: tokens, cookie, commands, logout | |
| `PaymentCommands` | commands on a payment and an export over a pool of connections | |
| `Deployment` | servers that start, migrate, answer probes and end | |
| `SiteSettings` | the page of the settings with its uploads | |
| `CookieConsent` | the choice about cookies in the tabs of a browser | |
| `MCIdempotentCommand`, `MCRefreshTokens`, `MCLeadWorkflow`, `MCDsarRequests` | model values, symmetry and input sets | the module after `MC` |
| `MCBackend` | sessions, deployment and payments: what waits | `RefreshTokens`; instances of `Deployment`, `PaymentCommands` |
| `MCAdministration` | what administrators do: second factors; settings; a lead, or privacy requests, with one handler at a time | `SecondFactor`; instances of `SiteSettings`, `LeadWorkflow`, `DsarRequests` |
| `MCMatters` | a lead, its client's browser (tabs, or one tab's commands), the administration (requests, or the script), cookies | `MCLeadWorkflow`; instances of `Browser`, `Administrators`, `CookieConsent` |
| `MCPrivacy` | privacy requests, retention, mail | `MCDsarRequests`; instances of `RetentionProofs`, `MarketingMail` |
| `MCClients` | a draft; accounts: one, one that lost its password, one with three addresses, two that compete | `IntakeDrafts`; instances of `AccountsProofs` |
| `IdempotentCommandProofs`, `RetentionProofs`, `AccountsProofs` | theorems about the module before `Proofs` | that module, TLAPS |
| `BackendProofs`, `AdministrationProofs`, `MattersProofs`, `PrivacyProofs`, `ClientsProofs` | theorems about the parts of `MCBackend`, `MCAdministration`, `MCMatters`, `MCPrivacy`, `MCClients`, and about these modules | the `MC` module, TLAPS |

The modules `MCBackend` to `MCClients` put components side by side that share no state: the variable
`part` says which of them a behaviour is of, and the others stay as they
begin.  It is a disjoint sum of instances, so that one run asks the questions
of several modules.  Where the theorems of a component are needed through an
instance, the `MC` module instantiates the module with the proofs, which adds no
behaviour to the component.  Definitions marked "Mutant" in a comment are not part of a
specification: each is a plausible mistake in the code that a property must
detect.

### IdempotentCommand

An element of `Requests` is one HTTP attempt, an element of `Keys` one triple
of the table's unique index.  `record[k]` is the committed row, `working[r]`
the row as the open transaction of `r` has written it, `lock[k]` the
transaction that holds the row (an uncommitted INSERT holds it as well),
`effects[k]` the attempts whose business effect is durable.  An attempt goes
`Arrive`, `InsertProcessing` or `InsertFindsRow`, `FindForUpdate` or
`FindNothing`, `Resolve`, `HandlerReturns` or `HandlerThrows`, `Complete`,
`Commit`, `CommitFails` or `Rollback`, `Reply`; the environment lets rows
expire, cleans them up, and kills processes at any step.  `Detached` names the
keys whose handler ignores the transaction's client: its effect is durable when
the handler returns.

### RefreshTokens

One account.  An attempt is a login, refresh, step-up, logout or a reset (bump
of the version, then sweep) and is also the name of the row it inserts.  A
rotation is one transaction whose statements are steps: the conditional UPDATE
of the old row takes its lock, the INSERT is visible at the commit.  A token
may be presented by several attempts, which is how duplicates, retries after a
lost response, and reuse occur.

### LeadWorkflow

One lead, with its conflict-check row and packet.  A handler of the code is an
element of `Handlers` that is used again and again: `Begin` takes a request,
`Load` reads what the handler reads first, and every further read or write is
a step of its own, in the handler's order, so that handlers overlap as they do
in the process.  `passed` is a history variable: the milestones (a clear
check, an acceptance, an engagement) that have been true of the lead.
`MaxActive` bounds the handlers under way at a time.

### DsarRequests

The privacy requests of one person.  `row[q]` has the columns decisions read,
`files` the PDFs on disk, `person` what the other tables still hold of the
person: the account, the latest lead (which an administrator may have
soft-deleted) and the other records taken together.  A handler begins with
`Load`, which reads the row and makes all checks of the code on it; then come
the writes, each a step: the export's payload, file and path; the statement on
the data and the status after it; `Start`, `Collect`, `Erase` (one
transaction), `Unlink`, `Inspect` and the final status of a deletion.  A
handler may `Die` between any two.  `identified`, `served` and `erasers` are
history variables: the requests that have been verified, that have changed
data, that have erased it.

### SecondFactor

The second factor of one privileged account.  `factor[f]` is a row of
`user_mfa_factors` (status and last used period, 0 for NULL), `codes` the
unused recovery codes, `challenge[c]` a row of `auth_mfa_challenges`.  A
handler of `services/mfa.service.js` is an element of `Handlers`; each of its
statements is a step, in the code's order: a verification goes `Resolve`,
`FindFactor`, `RightPeriod` (or `RightCode`), `ConsumeStep` (or `ConsumeCode`),
`Consume`; a wrong answer goes `Wrong`, `Count`, `CountAgain`, `Invalidate`.
`Activate` is one transaction in the code and one step here; when the pending
factor is gone it is `ActivateNothing`, which still disables the active one,
because the early return commits.  The clock is `now`, in periods of a code.
Whether a code is right is a choice of the model: `verify` of the TOTP library,
which is not part of the repository, is taken to return a truthy value for a
right code of a fitting period and a falsy one otherwise, as its caller does.

### Accounts

`account[u]` is a row of `users` (address, pending address, verified),
`token[t]` a row of either token table, numbered as they are created, `mailed`
the tokens a provider has accepted.  Each statement of a request is a step, but
the confirmation is a transaction: it locks the token's row, then the account's,
then the account's live tokens, and shows nothing before `Commit`; whoever
needs one of these rows waits.  `proved[u]` is what u has shown to read,
`crossed` the users of whom requests have crossed in one of the ways in which the
code confirms an address that is not the token's (`CrossIf` names them): a public
resend took the pending address; a change came upon another one, or upon the
confirmation of one; a confirmation came upon a change that had not invalidated
the earlier tokens yet; a change ended there.

### Administrators

`row[u]` has role, state and security version, `access[u]` the versions in the
access tokens of u.  A request goes `Request`, `Pass` (the gate's two reads),
`FindTarget`, `CountAdmins`, `Write`; `SignIn` and `Erase` are the other
components that change these rows.  A run of the script takes the advisory lock,
counts and creates.  `raced` is true once orders about administrators have
overlapped.

### Retention

A run takes its categories in the code's order; `Find` reads a batch (the
oldest first, at most `Limit`) and keeps the rows that are workable as they were
read; logs, sessions and audit rows go in one statement (`Purge`), leads and
documents one by one (`AnonymizeLead`, `AnonymizeDocument`, and `AnonymizeParts`
for a lead's other tables), each statement looking again at the row's own hold
and fate.  Administrators set holds and dates (`Ask`, `Write`), statements fail
(`FailRow`) and processes die (`Die`).  The handlers that work on the matter are
there as far as the retention meets them: one reads the lead (`ConsiderMove`,
`ConsiderCheck`) and later writes its status (`Move`) or its conflict check
(`WriteCheck`, and then the status), without a lock and without a look at what
has become of the lead; the check has the names the handler read, or types, so
it may name somebody again.  `owed` and `missed` are observers of what a complete run has to work,
`rewritten` of the leads whose check was written with a name after their
anonymization and not cleared since.

### MarketingMail

A request is the list of statements it has still to do, built by the operators
named for the functions of the code (`Leaving`, `Unsubscribing`,
`SuppressingAll`, ...); a send goes `CheckSuppressions`, `CheckConsent`,
`Deliver`.  `out` is the categories a finished request opted out of.

### IntakeDrafts and Browser

A tab has its own form and what the context keeps beside it; a call is a
request, or its answer, that has a tab, is lost (`Fail`), overtakes others or
arrives after its tab is closed.  In `IntakeDrafts` a save is the two statements
of the service, so that the row may change in between; in `Browser` a command
that is answered with 401 waits for a refresh on its behalf and is sent again
with the key that the tab has by then (`Renewed`, `Follow`): its own, or, when
the tab has signed out meanwhile, a new one that the tab keeps.  A tab that hears
of a logout (`Hear`) drops its session and keeps its keys.  `ahead` counts what
has been executed for the tab's commands and not been reported; `mixed` says that
a command of before the tab's last logout has given or taken its key since.

### PaymentCommands and Deployment

A command is a plan: the reads through the pool, the tables it writes in turn,
the second connection of the erasure.  `holder[t]` is a row lock kept to the
end, `conn[c]` the connections a command has; whoever can get none ends by the
pool's timer (`Timeout`), and of two that wait for each other PostgreSQL ends one
(`Deadlock`).  In `Deployment` a process goes through `db/migrate.js` under the
advisory lock, statement by statement, on the migrations of its own release;
`Die` ends it anywhere; the probes read without a lock.

### SiteSettings and CookieConsent

A page of the settings has its form, one request and one upload under way; the
file is on disk before the first check and is removed by the check that refuses
it.  In `CookieConsent` an event is a step to its last synchronous statement; a
tab has the choice as it last read or wrote it, the signal as of its last
render, its toggles and the scripts it has loaded, which stay until it closes.
`agreed` is the choice that was saved last, in whichever tab, and `unheeded` what
has been loaded against it or against the signal.

## 3. Runs

| Run | Instance | Shows |
|---|---|---|
| `commands` | 3 attempts, a key, 2 payloads, fairness | a record and its effect go together; answers are earned; a refusal has no effect; the refinement of `CommandLedger`; `EveryAttemptEnds` |
| `sessions` | 3 attempts, 1 version change; 2 servers of 3 releases; 2 commands on 2 connections; fairness | tokens, sessions and marks; the refinement of `SessionChains`; `ServersFitSchema`, `MigratedOnce`; `CopiesAgree`; `EveryWaitEnds` for a row, the migrations' lock and the pool |
| `administration` | 2 factors, 2 sets of codes, a challenge, 2 requests, 2 periods; 2 pages, an image; 1 handler at a time on a lead with all its requests, or on 2 privacy requests | `ProofsCountOnce`, `OneSessionPerChallenge`, `RefusalsAreLimited`, `OneFactorEach`; `StoredImagesAreServed`; the refinements of `LeadLifecycle` and `DsarLifecycle` |
| `matters` | 2 handlers of a lead; 2 tabs and 2 calls without commands, or commands of one tab at a time; 2 users and 2 requests until an administrator is erased, or 3 users, promotions one at a time and 2 runs of the script; 2 tabs and a category of cookies | `MattersAreEarned`, `PacketsAreEarned`, `ApprovalIsFinal`; `SignedOutEverywhere`, `OneExecutionPerSuccess`; `AdministrationIsGuarded`; `ScriptsAreAgreed` |
| `privacy` | 2 handlers on a copy and a deletion; 2 runs on a lead and its agreement; a run on 5 rows of logs; 2 requests or sends of mail | `EffectsAreIdentified`, `CompletionIsWorked`; `TakenForCause`, `RunsKeepTheirWord`; `NoMailAfterOptOut` |
| `clients` | 2 tabs and 2 calls on a draft; one account under 2 requests, with resends or with resets, or with a third address; 2 accounts that compete for 2 addresses | `SavesReplaceWhatWasSeen`; `TokensAreFewAndSpentOnce`, `VerifiedIsProved`, `OneAccountEach` |
| `detached_commands` | 2 attempts, 1 detached key | violated: `AtMostOneEffect` |
| `token_reuse` | 4 attempts | violated: `ReuseEndsTheFamily` |
| `lead_acceptance` | 1 handler | violated: `AcceptanceAccepts` |
| `dsar_false_completed` | a deletion | violated: `NoFalseCompleted` |
| `draft_reopened` | 1 tab, 1 call at a time | violated: `SubmittedDraftStaysClosed` |
| `unproved_address` | an account of 2 addresses, 1 request at a time | violated: `VerifiedAddressIsProved` |

The last six check what a document or a message of the repository says and the
code does not do; `PROJECT.json` quotes the lines under "findings".
`unproved_address` stands beside `VerifiedIsProved`, which holds and excepts such
accounts: the one shows that the case happens, the other that nothing else goes
wrong.

Bounds.  Three attempts on one key are the holder of a lock, one that waits
for it and one that comes after both; keys share nothing, so one is enough.
Three requests of an account are a login and two refreshes that race, or a
refresh and a reset, reuse or step-up; one change of version is enough because
versions are only compared for equality.  Two handlers on a lead give every
check-then-write race between a pair.  Two requests of a person suffice because
a handler touches its own request and, in an erasure, all the others alike.  The
proofs cover any number of all of these.  The input sets of `MCLeadWorkflow` and
`MCDsarRequests` leave out what the handlers in turn (`administration`) ask
for: of the overlapping ones those that only answer, and moves that lead to the
same next statuses.  Of those in turn, holds, restrictions and failed
identifications are of the deletion alone.

Two factors and two sets of codes are an enrollment and the one that replaces
it; one challenge, because challenges share nothing but their closing; a limit
of one refusal, which overlapping answers pass as they would any other; two
periods, the one a factor is enrolled in and the next.  Two servers are the one
that migrates and the one that waits, of three releases: a new one with a file
that runs outside a transaction, one whose second file differs, and one that an
earlier build has left rows of.  Two connections are the smallest pool in which
one command can wait for another.  In the part "requests" the third user's row
is free at the start and stays so: it is for the script to create.  Three tokens are a registration's, and two
more that replace it; one resend an hour, so that two overlap at the limit; a
third address, with two tokens, so that a change may follow a change that was
not confirmed.  In the browser three tokens are a login's, one that a refresh
brings for a command, and one for a second login; two keys are a command's
and the one it makes after a logout.  A
batch of two is filled by rows on hold.  Two tabs and two calls are a tab whose
request is overtaken by the other's; one edit and two versions of the draft, so
that a save can meet another's version.  `MaxEdits`, `MaxVersion`, `MaxTokens`,
`MaxKeys`, `MaxTime`, `MaxChanges` and `MaxStep` are the names of bounds that
keep a model finite and do not exist in the code.

`LiveView` makes one of states that differ only in columns no step reads any
more (the attempts and the expiry of a consumed challenge, the periods of a
disabled factor and what they have proved); `Distinguished` leaves out what leads
were created from, which only the property of `draft_reopened` reads, and the
observers of accounts where no property asks about them.  The parts of `clients`
that ask what has been proved end where requests have crossed; the part with
resets goes on.

Deadlock checking is off where a finite set of attempts, tokens, versions or
periods is used up; it is on where handlers can always begin again.

Fairness.  `WF` of each attempt's own next step, once it has begun: the event
loop and PostgreSQL advance a statement that is not waiting, and the pool's
timer and the search for deadlocks run.  `SF` of getting what others release in
turn, the migrations' lock and a connection: both queues are first in, first
out.  Nothing obliges a client to call, a process to die, a row to expire or the
clean-up to run.

What the properties leave open, because the code does:

- `VerifiedIsProved` is said of any requests that overlap, public resends among
  them, and excepts the accounts in `crossed`.  The public resend addresses a
  token to the pending address (`services/email-verification.service.js:131`),
  and its confirmation marks the account's present one as verified (`:252`),
  which `unproved_address` shows with requests one after another.  A change that
  comes upon another one, or upon its confirmation, makes the confirmation promote
  an address other than the token's, and the `return` after that commits it
  (`:236`); so does a change that ended between its first two statements
  (`services/email-change.service.js:98`), because the tokens for the address that
  was pending before are still live.
- `AdministrationIsGuarded` excepts orders about administrators that overlap,
  which count in one statement and remove in another
  (`services/user.service.js:56`), so that two of them may remove the last two
  administrators, and an erasure of the last one.
- `EffectsAreIdentified` and `CompletionIsWorked` say nothing of a hold or a
  failed identification that is stored while a deletion is under way: it is read
  once, some awaits before the erasing transaction
  (`services/dsar.service.js:615`), and respected by handlers that wait for each
  other (`DsarImplementsLifecycle`).  Nor do they speak of files: a process that
  dies between an export's file and its path (`services/dsar.service.js:515`), or
  between the erasing transaction, which clears the paths, and the removal of the
  files (`services/dsar-deletion.service.js:92`), leaves one that no later erasure
  knows of, and the request is completed all the same.
- `RunsKeepTheirWord` excepts a full batch, a
  lead whose anonymization stopped between its three statements, and the name a
  conflict check has written back since
  (`services/conflict-check.service.js:68` and `:125`).  No document says that
  this cannot be, so no run shows it as a violation.
- `OneExecutionPerSuccess` says nothing of a tab's commands from when a command
  of before its last logout touches its key until it signs out again: the retry
  after a 401 asks for a key once more (`frontend/src/services/api.js:88`), and
  the new one stays in a tab that has signed out, for the same command of the
  next session.
- `ScriptsAreAgreed` is about what is loaded: a tab that has loaded a script
  keeps it when the choice is withdrawn in another tab.
- `SignedOutEverywhere` excepts tokens of requests that were under way at the
  logout: a late answer of a refresh signs a tab in again.
- `TokensAreFewAndSpentOnce` allows resends beyond the hourly limit by as many
  as overlap, and as many live tokens; `RefusalsAreLimited` does so for answers
  to a challenge.
- A page of the settings that has loaded them sends their `id` and
  `updated_at` back, which the strict schema refuses: only a form that is shown
  after a failed load can be saved, and it replaces what is stored by the
  defaults.
- In `CookieConsent` a stored or logged choice may say both that the signal was
  on and that a category is: the toggles of one tab can be older than the
  signal.  The scripts are loaded by the signal of the moment all the same.

## 4. Proofs

Every theorem is about any values of the constants that satisfy the assumptions
named; the runs evaluate these assumptions for their instances.  The theorems
that `PROJECT.json` lists with a property are about the formula a run checks.

### The shape of the arguments

A component's invariant is a conjunction with a name for each part: what each
table may contain, what a handler at each step knows, and how the two relate.
A lemma about the initial states and one lemma per action (or per group of
actions with one effect) show that it is inductive; the properties follow from
it.

Five proof modules are about a composition.  In most of them a lemma
(`PartsImplemented`, or `PartsKeep` where the parts share one invariant, with
`PartsMove` and `PartsBegin` under it) shows that a behaviour of the `MC` module
is one of its part throughout and that the other parts stay put, so that the
invariant of a part, or a theorem cited through an instance
(`Matter!RunsRight`, `One!OneAccount`), gives the property the run checks.

### Commands, sessions, servers, payments

`IdempotentCommandProofs`.  The properties are not inductive as they stand:
that a record and its effect agree after a commit follows from what the
transaction has written before.  The invariant adds that an attempt between
INSERT and COMMIT holds the lock of its key, that its working row is the one
its step implies (processing while the handler runs, completed with its own
result before the commit), and that what it has decided from a row it has
locked is still true of it.  From it follow the safety properties; the refinement
is proved step by step, each step of an attempt being a step of the ledger or
a stutter.  Assumed: `Detached \subseteq Keys`, `NoOne \notin Requests`.

`BackendProofs`.  For the sessions the invariant ties every open rotation to the
lock of its old row and to what it read of that row, says where in its chain
each row stands, and bounds the version each request carries by the account's;
`SessionChains` is implemented step by step.  For the servers (`DeployFits`)
it says what each step of a start leaves to the next: the lock of the
migrations is with exactly one server that migrates; who applies has read the
rows as they still are; who has yet to record a file has executed it; a server
that is up, or keeps a good answer, has its files in the table, and rows with a
checksum never change.  For the commands on a payment (`PayFits`) it says that a
command has written exactly the tables of its plan so far and keeps exactly the
connections its step implies, so that no more are taken than the pool has; the
copies agree because every plan ends with the copy of what it has written.
Assumed: `DeploymentParameters` (files and earlier rows are named among the
names, every recorded file has a checksum), `PoolParameters`.

### Leads, administration, browser, cookies

`MattersProofs`.  The handlers of a lead read and write without locks, so nothing
a handler has read need still be true when it writes.  What is true forever is
that it has been true: the invariant says of each handler's reading that the
milestones it shows have been passed, and of each state that the milestones in
front of it have.  This is why the three properties hold for any number of
overlapping handlers although the refinement of `LeadLifecycle` does not.

In the administration (`AdminFits`, `GateFits`, `RemovalsFit`, `ScriptsFit`) a
token was issued for a version there has been, and what the gate has read of a
row is what the row says for as long as its version is that of the token; as
long as no orders about administrators have overlapped, one handler at most is
about to remove an administrator, and it leaves another one; one run of the
script has the lock, and it has counted none.

In the browser (`ClientFits`, `CallsFit`, `LateFits`, `KeysFit`, `CommandsFit`)
the two properties need more than they say.  While the client is signed out,
whatever may still bring a token is marked late or has no cookie to show for
one.  A key belongs to one tab.  A tab that is not mixed is ahead of its successes
by one exactly while what was executed under its key has not been reported, and
the command under way with this key is its own, and the only one it has not given
up.  A command that it has given up has another key, unless it is answered, or is
sent again after a renewal, and from that step the tab is mixed and its count is 0.

The tabs hold choices about cookies that others have withdrawn or replaced, so
nothing can be said of what a tab shows.  What is stored is current only if a
save of this version has stored it, and then its categories are among those of
the choice saved last; a script is loaded by what is stored, or is just being
stored, never by what the tab shows.

Assumed: inputs are requests of the code, `MatterParameters` (finitely many
users, bounds that are numbers, `None` is not a tab).

### Privacy, retention, mail

`PrivacyProofs`.  The observers only grow, so what a handler has checked (the
requester was identified, the request has the right type) stays true in this
form whatever other handlers write.  The invariant says it of every handler by
its step and kind, of every column an update is about to write, and of every
path an erasure has collected.  For the mail (`MailFits`, `MailHolds`) an opt-out
stands on the suppressions alone: a consent may be written back by a request
that had read it, a suppression is released only by a request that opts in; what
a request opts out of it has suppressed or has still in its list; and a send
that was begun after the opt-out has not passed the suppressions.  Assumed: the
sets of types are subsets of `Requests`.

`RetentionProofs`.  A run judges its rows when it reads them and takes them
later.  The invariant is about what lies between: a row of a batch that is still
kept is due, or somebody has changed it, or the lead it is judged by, since the
run began.  Time only makes rows more due, and other runs take rows away without
making any less due.  The last step looks at the statements: only those that
look at hold and fate again take a row.  `RunsRight` adds three invariants: what
is counted is not kept (`Counted`); a lead is anonymized
before its tables, which are emptied in their order, so that when the run leaves
it they are empty but for a conflict check written after that (`Whole`, with
`rewritten`); and a row that a run still owes is
in its batch, or in a category the run has yet to come to, unless a batch was
full (`Owing`), which needs that the oldest of fewer rows than the limit are all
of them.  Assumed (`Parameters`): every document has a lead, there are finitely
many rows, leads and documents are not rows of logs, bounds are numbers, runs
are asked for categories that exist.

### Second factors and settings

`AdministrationProofs`.  Handlers compute on stale rows, and what makes this safe
is in the WHERE clauses.  The invariant has a part for each table: no period
after a factor's last one has proved anything, and a pending factor has none; a
code that is stored has not been used; a challenge that is not consumed has not
opened a session.  The part about handlers says only that they hold the names
their next step needs, because nothing else they have read need still be true.
`RefusalsAreLimited` counts handlers (`Limited`): those past the look at the
limit, together with the refusals so far, are at most the limit less one and as
many as are at a time.  For the settings (`SiteFits`) an upload under way has an
image that nothing mentions yet and that is as good as the checks it has passed;
whatever the row, a form or a request mentions can be served.  Assumed: `NoOne`
is no name, bounds are numbers, `SiteParameters`.

### Drafts and accounts

`AccountsProofs` has five layers, each an invariant that uses those before it.
`Shape` has the types, what a handler knows at each step, that tokens exist from
their number on, and that whoever is about to commit has the account's row to
itself.  `Once`: the token of an open confirmation is live until its commit, and no other
confirmation holds it; a reset has spent its token before it writes the
password.  `Distinct`: no two accounts have one address, and the address that
an open confirmation is about to give is nobody else's, because an INSERT or
UPDATE with the same address waits.  `BusyFits`, `ResendsFit` and `LiveFit`
count: whoever has passed the check of the limit counts like the token it will
create, and whoever has invalidated the earlier tokens counts like its own.
`Proved` is about the accounts that are not in `crossed`: a live token, and one a
handler is about to issue, is for the address of the account, unless the account
has proved its address before; one of a change is for the address that is pending,
if there is one, unless a change is between its first two statements and nobody
has locked the token, which that change will invalidate.  So whoever commits a
confirmation verifies the token's address.  Requests may overlap in any number and
use the public resend: the steps that put an account into `crossed` are the ones
for which the lemmas about `Proved` would fail.  Assumed: `Parameters` (bounds are
numbers, `None` is not a name).

`ClientsProofs`.  `SavesReplaceWhatWasSeen` is about a save between its two
statements; what it has found need not be there any more.  The invariant says of
every tab, every save and every answer that the version and the content it knows
belong together: the row is not older than this version, and has this content
while it has this version.  Whoever writes the row raises its version, and a
deletion, after which versions begin at 1 again, makes everybody forget.  The
properties of accounts are those of `AccountsProofs`, through the four
instances.  Assumed: the bounds are numbers, `None` is not a row,
`AccountParameters`.

### Only model-checked

The liveness properties (`EveryAttemptEnds`, `EveryWaitEnds`), which need
ENABLED, and the refinements of `LeadLifecycle` and `DsarLifecycle` for handlers
that do not overlap (`administration`).  The six violated properties have their
counterexamples from TLC.

## 5. Not modelled, and the plan

Not modelled for good: rendering (templates, PDF, the bodies of e-mails),
logging, the layout of the React pages, CI and deployment files, ciphers and
hashes, the TOTP library; the encryption of documents on disk; the policies for
passwords, the calculation of prices and the redaction of notes, which are
functions of their input without state; availability, which is a table of constants; the
audit trail, whose rows nothing reads (`middlewares/` and the services write
them on their own, and a request's row is written when the response is finished,
with nobody waiting for it).

Left out of modelled components: the approval of an agreement, because no
agreement can be generated (`lead_acceptance`); `disableUserMfa`, which is
refused for privileged accounts, and `SecondFactor` is about one; privacy requests without an
account and the rows of their events.

What the code does at the edge of the models, and no property says otherwise:

- `deleteExpiredIntakeDrafts` and `clearPendingEmailById` have no caller.
- A tab whose draft could not be loaded saves the empty form without a version,
  over whatever is stored.  After the way back to the home page a tab saves
  nothing more until it is reloaded.  A 409 for which no open draft is found is
  shown as saved.
- Tabs that refresh together present one token twice: the reuse ends every
  session of the account, and the cookie is cleared.
- `markIdempotentCommandSuccess` forgets the key of a path, whichever command
  has it by then.
- An erasure that cannot remove a file of an export counts it and forgets its
  path; it rewrites the person's other requests and passes over leads that are
  deleted already.  An export that was built before an erasure may be stored
  after it.
- The audit row of a payment has the status from before the lock; an address of
  a payment that is set after an erasure comes back.
- A suppression of everything is not lifted by a new consent to marketing.
- `softDeleteUserById` does not raise the account's security version.

The plan, most important first:

1. The link of `SecondFactor` with the step-up of `RefreshTokens`, with an
   abstract specification (a limited number of tries, each proof once).
2. `Accounts` composed with `RefreshTokens`, so that a reset of the password and
   a refresh that overlap are steps of one behaviour.
3. Proofs of the refinements of `LeadLifecycle` and `DsarLifecycle`: the
   invariant that a handler which is alone finds what it has read still so.
