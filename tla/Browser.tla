------------------------------ MODULE Browser -------------------------------
(* One browser in which one client is signed in, in several tabs: the       *)
(* access token in each tab's memory and the request layer around it        *)
(* (frontend/src/services/api.js), the keys of its commands (idempotency.js)*)
(* the session that is shown (context/AuthContext.jsx), and the cookie with *)
(* the refresh token, which all tabs share                                  *)
(* (backend/src/controllers/session.controller.js).                         *)
(*                                                                          *)
(* A request takes the cookie along when it is sent, and its answer changes *)
(* the cookie when it arrives, whether its tab is still there or not.       *)
(* Requests and answers overtake one another and are lost.                  *)
(*                                                                          *)
(* Left out: a second account, second factors, commands without a key; the  *)
(* server's own steps, which RefreshTokens and IdempotentCommand have.      *)
(****************************************************************************)
EXTENDS Naturals, FiniteSets

CONSTANTS
  Tabs,
  Calls,       \* requests under way
  Payloads,    \* what a command may say
  None,
  MaxTokens,   \* bound: refresh tokens
  MaxKeys      \* bound: idempotency keys

VARIABLES
  tab,         \* tab[t]: what a tab shows and keeps in memory
  jar,         \* the cookie with the refresh token
  live,        \* the refresh tokens the server accepts
  issued,      \* the refresh tokens there have been
  done,        \* the commands the server has executed, with their keys
  keys,        \* the keys there have been
  call,        \* call[c]: a request, or its answer
  signedOut    \* observer: the last the client asked for was to sign out

vars == <<tab, jar, live, issued, done, keys, call, signedOut>>
serverVars == <<live, issued, done>>

-----------------------------------------------------------------------------
Tokens == 1..MaxTokens
Keys == 1..MaxKeys
Nothing == 0

(* notice: the broadcast of a logout is on its way.  Observers: late, the   *)
(* token was got by a request that overlapped a logout; ahead, executions   *)
(* of the tab's commands that no answer has reported; mixed, a command that *)
(* was under way at the tab's last logout has since given or taken its key. *)
TabSet == [open: BOOLEAN, user: BOOLEAN, token: {"none", "fresh", "stale"},
           key: Keys \cup {Nothing}, notice: BOOLEAN, late: BOOLEAN, ahead: Nat,
           mixed: BOOLEAN]
Gone == [open |-> FALSE, user |-> FALSE, token |-> "none", key |-> Nothing,
         notice |-> FALSE, late |-> FALSE, ahead |-> 0, mixed |-> FALSE]

(* kind: restore and me (refreshUser), login, logout, command, renew (a     *)
(* refresh on behalf of a command, which has no key yet).  late as above;   *)
(* own: the tab has not signed out since.                                   *)
Idle == [kind |-> "idle"]
Busy(c) == call[c].kind # "idle"
CallSet ==
  [kind: {"restore", "me", "login", "logout", "command", "renew"}, tab: Tabs \cup {None},
   at: {"sent", "ok", "refused", "conflict"}, cookie: Tokens \cup {Nothing},
   bearer: {"none", "fresh", "stale"}, key: Keys \cup {Nothing}, payload: Payloads \cup {None},
   retry: BOOLEAN, late: BOOLEAN, own: BOOLEAN]

Init ==
  /\ tab = [t \in Tabs |-> Gone]
  /\ jar = [token |-> Nothing, late |-> FALSE]
  /\ live = {} /\ issued = 0
  /\ done = {} /\ keys = 0
  /\ call = [c \in Calls |-> Idle]
  /\ signedOut = FALSE

-----------------------------------------------------------------------------
(* The tab.                                                                 *)

LogoutUnderWay == \E c \in Calls : call[c].kind = "logout"

Request(kind, t) ==
  [kind |-> kind, tab |-> t, at |-> "sent", cookie |-> jar.token, bearer |-> tab[t].token,
   key |-> Nothing, payload |-> None, retry |-> FALSE,
   late |-> jar.late \/ LogoutUnderWay, own |-> TRUE]

(* A page is loaded: AuthProvider asks for the session of the cookie.       *)
Open(t, c) ==
  /\ ~tab[t].open /\ call[c] = Idle
  /\ tab' = [tab EXCEPT ![t].open = TRUE]
  /\ call' = [call EXCEPT ![c] = Request("restore", t)]
  /\ UNCHANGED <<jar, serverVars, keys, signedOut>>

(* A tab is closed or reloaded; what it has asked for goes on.              *)
Close(t) ==
  /\ tab[t].open
  /\ tab' = [tab EXCEPT ![t] = Gone]
  /\ call' = [c \in Calls |-> IF Busy(c) /\ call[c].tab = t
                              THEN [call[c] EXCEPT !.tab = None] ELSE call[c]]
  /\ UNCHANGED <<jar, serverVars, keys, signedOut>>

(* login, register or the end of a verification: an answer with a session.  *)
Login(t, c) ==
  /\ tab[t].open /\ ~tab[t].user /\ call[c] = Idle
  /\ \A d \in Calls : ~(Busy(d) /\ call[d].tab = t /\ call[d].kind \in {"login", "restore"})
  /\ call' = [call EXCEPT ![c] = [Request("login", t) EXCEPT !.late = FALSE]]
  /\ signedOut' = FALSE
  /\ UNCHANGED <<tab, jar, serverVars, keys>>

(* Mutant: a new key for every attempt.                                     *)
KeyAnew(t) == keys + 1

(* beginIdempotentCommand: the key that is kept for the method and path, or *)
(* a new one.  The button is disabled while the command is under way.       *)
KeyFor(t) == IF tab[t].key # Nothing THEN tab[t].key ELSE keys + 1

KeyTaken(t) ==
  /\ KeyFor(t) <= MaxKeys
  /\ keys' = IF KeyFor(t) > keys THEN KeyFor(t) ELSE keys

Ordered(c) == call[c].kind \in {"command", "renew"}

Command(t, c, p) ==
  /\ tab[t].user /\ call[c] = Idle
  /\ \A d \in Calls : ~(Ordered(d) /\ call[d].tab = t /\ call[d].own)
  /\ KeyTaken(t)
  /\ tab' = [tab EXCEPT ![t].key = KeyFor(t)]
  /\ call' = [call EXCEPT ![c] = [Request("command", t) EXCEPT !.key = KeyFor(t), !.payload = p]]
  /\ UNCHANGED <<jar, serverVars, signedOut>>

(* A tab forgets its session: the state of a page that nobody has signed in *)
(* to.  The keys are forgotten in the tab that signs out and in no other.   *)
Forgotten(s) == [s EXCEPT !.user = FALSE, !.token = "none", !.late = FALSE]

Logout(t, c) ==
  /\ tab[t].user /\ call[c] = Idle
  /\ tab' = [s \in Tabs |->
       IF s = t THEN [Forgotten(tab[t]) EXCEPT !.key = Nothing, !.ahead = 0, !.mixed = FALSE]
       ELSE [tab[s] EXCEPT !.notice = tab[s].open]]
  /\ call' = [d \in Calls |->
       IF d = c THEN Request("logout", t)
       ELSE IF Busy(d) THEN [call[d] EXCEPT !.late = TRUE, !.own = @ /\ call[d].tab # t]
       ELSE Idle]
  /\ signedOut' = TRUE
  /\ UNCHANGED <<jar, serverVars, keys>>

(* Mutant: a tab that hears of a logout keeps its token.                    *)
HeardOnly(s) == [s EXCEPT !.notice = FALSE, !.user = FALSE]

(* The broadcast arrives.                                                   *)
Heard(s) == [Forgotten(s) EXCEPT !.notice = FALSE]

Hear(t) ==
  /\ tab[t].notice
  /\ tab' = [tab EXCEPT ![t] = Heard(tab[t])]
  /\ UNCHANGED <<jar, serverVars, keys, call, signedOut>>

(* Fifteen minutes: ACCESS_TOKEN_TTL_SECONDS.                               *)
Age(t) ==
  /\ tab[t].token = "fresh"
  /\ tab' = [tab EXCEPT ![t].token = "stale"]
  /\ UNCHANGED <<jar, serverVars, keys, call, signedOut>>

-----------------------------------------------------------------------------
(* The server.  An access token is checked by itself.                       *)

Answer(c, at) == call' = [call EXCEPT ![c].at = at, ![c].cookie = Nothing]
Sent(c, kinds) == call[c].kind \in kinds /\ call[c].at = "sent"

(* An answer with a new refresh token.                                      *)
Granted(c, others) ==
  /\ issued < MaxTokens
  /\ issued' = issued + 1
  /\ live' = others \cup {issued + 1}
  /\ call' = [call EXCEPT ![c].at = "ok", ![c].cookie = issued + 1]

(* refreshController: the token rotates; one that has been rotated before   *)
(* revokes all of the account; without a cookie there is nothing to do.     *)
Refresh(c) ==
  /\ Sent(c, {"restore", "renew"})
  /\ IF call[c].cookie \in live THEN Granted(c, live \ {call[c].cookie})
     ELSE /\ live' = IF call[c].cookie = Nothing THEN live ELSE {}
          /\ Answer(c, "refused")
          /\ UNCHANGED issued
  /\ UNCHANGED <<tab, jar, done, keys, signedOut>>

LoginAtServer(c) ==
  /\ Sent(c, {"login"})
  /\ Granted(c, live)
  /\ UNCHANGED <<tab, jar, done, keys, signedOut>>

(* logoutController.                                                        *)
LogoutAtServer(c) ==
  /\ Sent(c, {"logout"})
  /\ live' = live \ {call[c].cookie}
  /\ Answer(c, "ok")
  /\ UNCHANGED <<tab, jar, issued, done, keys, signedOut>>

Me(c) ==
  /\ Sent(c, {"me"})
  /\ Answer(c, IF call[c].bearer = "fresh" THEN "ok" ELSE "refused")
  /\ UNCHANGED <<tab, jar, serverVars, keys, signedOut>>

(* executeIdempotentHttpCommand: what has been executed under the key is    *)
(* answered again, if it says the same.                                     *)
Execute(c) ==
  LET earlier == {e \in done : e.key = call[c].key}
      t == call[c].tab
      new == [key |-> call[c].key, payload |-> call[c].payload] IN
  /\ Sent(c, {"command"})
  /\ IF call[c].bearer # "fresh"
     THEN Answer(c, "refused") /\ UNCHANGED <<done, tab>>
     ELSE IF earlier # {}
     THEN Answer(c, IF new \in earlier THEN "ok" ELSE "conflict") /\ UNCHANGED <<done, tab>>
     ELSE /\ Answer(c, "ok")
          /\ done' = done \cup {new}
          /\ tab' = IF t # None /\ call[c].own /\ ~tab[t].mixed
                    THEN [tab EXCEPT ![t].ahead = @ + 1] ELSE tab
  /\ UNCHANGED <<jar, live, issued, keys, signedOut>>

(* A request or its answer is lost.  A tab without an answer to refreshUser *)
(* forgets the session; a logout that is lost has changed nothing but tabs. *)
Lose(c) ==
  /\ Busy(c)
  /\ call' = [call EXCEPT ![c] = Idle]
  /\ tab' = IF call[c].tab # None /\ call[c].kind \in {"restore", "me"}
            THEN [tab EXCEPT ![call[c].tab] = Forgotten(@)] ELSE tab
  /\ signedOut' = (signedOut /\ call[c].kind # "logout")
  /\ UNCHANGED <<jar, serverVars, keys>>

-----------------------------------------------------------------------------
(* Answers.                                                                 *)

(* Set-Cookie, or its removal, for refresh, login and logout.               *)
JarAfter(c) ==
  CASE call[c].kind \in {"restore", "renew", "login"} /\ call[c].at = "ok"
         -> [token |-> call[c].cookie, late |-> call[c].late]
    [] call[c].kind = "logout" \/ (call[c].kind \in {"restore", "renew"} /\ call[c].at = "refused")
         -> [token |-> Nothing, late |-> FALSE]
    [] OTHER -> jar

WithToken(s, c) == [s EXCEPT !.token = "fresh", !.late = call[c].late]

(* A command that the tab has given up touches the key of a later one: of   *)
(* the tab's commands nothing is claimed until it signs out again.          *)
Mixed(s, c) == IF call[c].own \/ s.mixed THEN s ELSE [s EXCEPT !.mixed = TRUE, !.ahead = 0]

(* markIdempotentCommandSuccess: the path's key, whatever key it is by now. *)
Succeeded(s, c) ==
  [Mixed(s, c) EXCEPT !.key = Nothing, !.ahead = IF call[c].own /\ ~s.mixed THEN @ - 1 ELSE 0]

(* The token is renewed and the command is sent once more, with the key     *)
(* that the tab has by now: after a logout it makes a new one and keeps it. *)
Renewed(s, c) == [Mixed(WithToken(s, c), c) EXCEPT !.key = KeyFor(call[c].tab)]

TabAfter(s, c) ==
  CASE call[c].kind = "restore" -> IF call[c].at = "ok" THEN WithToken(s, c) ELSE Forgotten(s)
    [] call[c].kind = "me"      -> IF call[c].at = "ok" THEN [s EXCEPT !.user = TRUE] ELSE Forgotten(s)
    [] call[c].kind = "login"   -> [WithToken(s, c) EXCEPT !.user = TRUE]
    [] call[c].kind = "renew"   -> IF call[c].at = "ok" THEN Renewed(s, c)
                                   ELSE [s EXCEPT !.token = "none"]
    [] call[c].kind = "command" /\ call[c].at = "ok" -> Succeeded(s, c)
    [] OTHER -> s

(* What follows: the account is asked for when the session is there; a      *)
(* command that was refused renews the token and is sent once more.         *)
Follow(c) ==
  LET t == call[c].tab IN
  CASE t = None -> Idle
    [] t # None /\ call[c].kind = "restore" /\ call[c].at = "ok" ->
         [Request("me", t) EXCEPT !.bearer = "fresh", !.late = call[c].late]
    [] t # None /\ call[c].kind = "command" /\ call[c].at = "refused" /\ ~call[c].retry ->
         [Request("renew", t) EXCEPT !.payload = call[c].payload, !.late = @ \/ call[c].late,
            !.own = call[c].own]
    [] t # None /\ call[c].kind = "renew" /\ call[c].at = "ok" ->
         [Request("command", t) EXCEPT !.bearer = "fresh", !.key = KeyFor(t),
            !.payload = call[c].payload, !.retry = TRUE, !.late = call[c].late, !.own = call[c].own]
    [] OTHER -> Idle

Receive(c) ==
  LET t == call[c].tab IN
  /\ Busy(c) /\ call[c].at # "sent"
  /\ jar' = JarAfter(c)
  /\ tab' = IF t = None THEN tab ELSE [tab EXCEPT ![t] = TabAfter(@, c)]
  /\ call' = [call EXCEPT ![c] = Follow(c)]
  /\ IF t # None /\ call[c].kind = "renew" /\ call[c].at = "ok"
     THEN KeyTaken(t) ELSE UNCHANGED keys
  /\ UNCHANGED <<serverVars, signedOut>>

Next ==
  \/ \E t \in Tabs, c \in Calls :
       \/ Open(t, c) \/ Login(t, c) \/ Logout(t, c)
       \/ \E p \in Payloads : Command(t, c, p)
  \/ \E t \in Tabs : Close(t) \/ Hear(t) \/ Age(t)
  \/ \E c \in Calls :
       \/ Refresh(c) \/ LoginAtServer(c) \/ LogoutAtServer(c) \/ Me(c) \/ Execute(c)
       \/ Lose(c) \/ Receive(c)

Spec == Init /\ [][Next]_vars

-----------------------------------------------------------------------------
TypeOK ==
  /\ tab \in [Tabs -> TabSet]
  /\ jar \in [token: Tokens \cup {Nothing}, late: BOOLEAN]
  /\ live \subseteq 1..issued
  /\ done \subseteq [key: 1..keys, payload: Payloads]
  /\ \A c \in Calls : call[c] \in CallSet \cup {Idle}

(* When the client has signed out in one tab, and the logout has reached    *)
(* the server and the other tabs, a tab only has a token if a request that  *)
(* was under way at the time, or its cookie, has brought it.                *)
SignedOutEverywhere ==
  signedOut /\ ~LogoutUnderWay =>
    \A t \in Tabs : tab[t].token # "none" => tab[t].notice \/ tab[t].late

(* However often a command is sent again after a lost answer or a renewed   *)
(* token, it is executed once, and a success that is reported is one of its *)
(* own: as long as no command of before a logout has touched the tab's key. *)
OneExecutionPerSuccess == \A t \in Tabs : tab[t].ahead \in 0..1

=============================================================================
