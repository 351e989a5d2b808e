--------------------------- MODULE AccountSession ---------------------------
(***************************************************************************)
(* The session of one account.  The API keeps one hash per account, the    *)
(* one of the refresh token it issued last, and every renewal replaces it. *)
(* A client (a tab of the web front end, the app) sends many requests at   *)
(* once; when its access token runs out they are all refused together, and *)
(* one renewal has to serve them all.  In a tab they share the promise of   *)
(* the renewal; the app keeps a queue of those that came after the first,   *)
(* empties it and, when the renewal failed, goes on to clear the session.   *)
(*                                                                         *)
(* Access and refresh token are issued together and have one number here;  *)
(* number 0 is no token.                                                   *)
(***************************************************************************)
EXTENDS Naturals

CONSTANTS
  Clients,    \* tabs and devices where the account is signed in
  Apps,       \* those of them that run the app
  Calls,   \* requests that a client may have under way
  MaxTokens,  \* bound on the tokens issued
  NoFlight, NoRequest

Tokens == 1..MaxTokens
RenewalRec == [phase : {"asked", "checked", "answered"}, token : 0..MaxTokens]
              \cup [phase : {"closing"}, token : {0}]

ASSUME SessionAssumption ==
  /\ Apps \subseteq Clients /\ MaxTokens \in Nat \ {0}
  /\ NoRequest \notin Calls /\ NoFlight \notin RenewalRec

VARIABLES
  hash,     \* the token whose hash is in User.refreshToken
  issued,   \* the last token issued
  expired,  \* access tokens that have run out
  holds,    \* the token each client has stored
  req,      \* the requests of each client
  flight,   \* the renewals of each client, by the request that began them
  orphans,  \* renewals that no client waits for any more
  excused   \* history: clients that lost an answer or their token, or whose session somebody replaced

sessionVars == <<hash, issued, expired, holds, req, flight, orphans, excused>>

Quiet        == [phase |-> "quiet", token |-> 0, on |-> NoRequest, retried |-> FALSE]
Out(n, again) == [phase |-> "out", token |-> n, on |-> NoRequest, retried |-> again]
WaitsOn(q, again) == [phase |-> "waiting", token |-> 0, on |-> q, retried |-> again]
Renewal(phase, n) == [phase |-> phase, token |-> n]

Others(c) == Clients \ {c}
Renewing(c) == \E q \in Calls : flight[c][q] # NoFlight

SessionInit ==
  /\ hash = 0 /\ issued = 0 /\ expired = {} /\ orphans = {} /\ excused = {}
  /\ holds = [c \in Clients |-> 0]
  /\ req = [c \in Clients |-> [r \in Calls |-> Quiet]]
  /\ flight = [c \in Clients |-> [r \in Calls |-> NoFlight]]

-----------------------------------------------------------------------------
(* The customer *)

\* issueSessionForUser: a new token, and its hash in the place of the last one.  A
\* renewal of the session before it may still be under way and end this one.
SignIn(c) ==
  /\ holds[c] = 0 /\ issued < MaxTokens
  /\ issued' = issued + 1 /\ hash' = issued' /\ holds' = [holds EXCEPT ![c] = issued']
  /\ excused' = (IF Renewing(c) THEN excused ELSE excused \ {c}) \cup Others(c)
  /\ UNCHANGED <<expired, req, flight, orphans>>

\* logout, or a new password, ends the session of every client.
SignOut(c) ==
  /\ holds[c] # 0
  /\ hash' = 0 /\ holds' = [holds EXCEPT ![c] = 0]
  /\ excused' = Clients
  /\ UNCHANGED <<issued, expired, req, flight, orphans>>

AskFor(c, r) ==
  /\ holds[c] # 0 /\ req[c][r] = Quiet
  /\ req' = [req EXCEPT ![c][r] = Out(holds[c], FALSE)]
  /\ UNCHANGED <<hash, issued, expired, holds, flight, orphans, excused>>

-----------------------------------------------------------------------------
(* Calls and their interceptor *)

\* Fifteen minutes pass.
Expire(n) ==
  /\ n <= issued /\ n \notin expired
  /\ expired' = expired \cup {n}
  /\ UNCHANGED <<hash, issued, holds, req, flight, orphans, excused>>

Served(c, r) ==
  /\ req[c][r].phase = "out" /\ (req[c][r].token \in expired => req[c][r].retried)
  /\ req' = [req EXCEPT ![c][r] = Quiet]
  /\ UNCHANGED <<hash, issued, expired, holds, flight, orphans, excused>>

\* A refused request joins the renewal that is under way or begins one with the
\* token the client holds by now.  Without one a tab is signed out at once, and the
\* app finds out like from a refusal.  What the app queues may begin a renewal again.
Began(c, r) ==
  /\ req' = [req EXCEPT ![c][r] = WaitsOn(r, TRUE)]
  /\ flight' = [flight EXCEPT ![c][r] = Renewal(IF holds[c] = 0 THEN "answered" ELSE "asked", holds[c])]
  /\ excused' = IF holds[c] = 0 THEN excused \cup {c} ELSE excused

Joined(c, r) ==
  /\ \E q \in Calls : flight[c][q] # NoFlight /\ req' = [req EXCEPT ![c][r] = WaitsOn(q, c \notin Apps)]
  /\ UNCHANGED <<flight, excused>>

SentAway(c, r) == req' = [req EXCEPT ![c][r] = Quiet] /\ UNCHANGED <<flight, excused>>

RefreshPerRequest(c, r) ==
  /\ req[c][r].phase = "out" /\ req[c][r].token \in expired /\ ~req[c][r].retried
  /\ IF holds[c] = 0 /\ c \notin Apps THEN SentAway(c, r) ELSE Began(c, r)
  /\ UNCHANGED <<hash, issued, expired, holds, orphans>>

Refused(c, r) ==
  /\ req[c][r].phase = "out" /\ req[c][r].token \in expired /\ ~req[c][r].retried
  /\ IF Renewing(c) THEN Joined(c, r)
     ELSE IF holds[c] = 0 /\ c \notin Apps THEN SentAway(c, r) ELSE Began(c, r)
  /\ UNCHANGED <<hash, issued, expired, holds, orphans>>

\* Who waits for the renewal that q began: in a tab those that share its promise, in
\* the app whoever is in the queue, though it came after an earlier renewal.
Waiters(c, q) ==
  {r \in Calls : req[c][r].phase = "waiting" /\ (req[c][r].on = q \/ (c \in Apps /\ req[c][r].on # r))}

\* The renewal has answered: with a token every request that waited is sent again,
\* without one it fails; the app's q itself only when the session is cleared.
QueueForgotten(c, q, n) ==
  [r \in Calls |-> IF r \notin Waiters(c, q) THEN req[c][r]
                   ELSE IF n # 0 THEN Out(n, req[c][r].retried)
                   ELSE IF r # q \/ c \in Apps THEN req[c][r] ELSE Quiet]

Resumed(c, q, n) ==
  [r \in Calls |-> IF r \notin Waiters(c, q) THEN req[c][r]
                   ELSE IF n # 0 THEN Out(n, req[c][r].retried)
                   ELSE IF r = q /\ c \in Apps THEN req[c][r] ELSE Quiet]

Renewed(c, q) ==
  LET n == flight[c][q].token IN
  /\ flight[c][q] # NoFlight /\ flight[c][q].phase = "answered" /\ n # 0
  /\ holds' = [holds EXCEPT ![c] = n]
  /\ req' = [req EXCEPT ![c] = Resumed(c, q, n)]
  /\ flight' = [flight EXCEPT ![c][q] = NoFlight]
  /\ UNCHANGED <<hash, issued, expired, orphans, excused>>

\* A renewal that failed: a tab is signed out; the app empties its queue and still
\* counts as renewing while the storage of the session is cleared.
Fails(c, q) ==
  /\ req' = [req EXCEPT ![c] = Resumed(c, q, 0)]
  /\ flight' = [flight EXCEPT ![c][q] = IF c \in Apps THEN Renewal("closing", 0) ELSE NoFlight]
  /\ holds' = [holds EXCEPT ![c] = IF c \in Apps THEN @ ELSE 0]

RenewalDenied(c, q) ==
  /\ flight[c][q] # NoFlight /\ flight[c][q].phase = "answered" /\ flight[c][q].token = 0
  /\ Fails(c, q)
  /\ UNCHANGED <<hash, issued, expired, orphans, excused>>

\* An error of the network, of the API or of the storage, a refresh token that ran
\* out, or in a tab no answer in ten seconds; the API may still renew the session.
RenewalLost(c, q) ==
  LET f == flight[c][q] IN
  /\ f # NoFlight /\ f.phase # "closing"
  /\ Fails(c, q)
  /\ orphans' \in IF f.phase = "answered" THEN {orphans} ELSE {orphans, orphans \cup {f}}
  /\ excused' = excused \cup {c}
  /\ UNCHANGED <<hash, issued, expired>>

\* clearSession, and the end of the app's renewal.  Who was queued since Fails stays.
SessionCleared(c, q) ==
  /\ flight[c][q] # NoFlight /\ flight[c][q].phase = "closing"
  /\ holds' = [holds EXCEPT ![c] = 0]
  /\ req' = [req EXCEPT ![c][q] = Quiet]
  /\ flight' = [flight EXCEPT ![c][q] = NoFlight]
  /\ UNCHANGED <<hash, issued, expired, orphans, excused>>

-----------------------------------------------------------------------------
(* The API *)

\* RefreshTokenStrategy compares the hash; refreshTokens writes the new one later.
Check(c, q) ==
  LET f == flight[c][q] IN
  /\ f # NoFlight /\ f.phase = "asked"
  /\ flight' = [flight EXCEPT ![c][q] = IF f.token = hash THEN Renewal("checked", f.token) ELSE Renewal("answered", 0)]
  /\ UNCHANGED <<hash, issued, expired, holds, req, orphans, excused>>

Rotate(c, q) ==
  /\ flight[c][q] # NoFlight /\ flight[c][q].phase = "checked" /\ issued < MaxTokens
  /\ issued' = issued + 1 /\ hash' = issued'
  /\ flight' = [flight EXCEPT ![c][q] = Renewal("answered", issued')]
  /\ excused' = excused \cup Others(c)
  /\ UNCHANGED <<expired, holds, req, orphans>>

OrphanRotates(f) ==
  /\ f \in orphans /\ orphans' = orphans \ {f}
  /\ \/ f.phase = "checked" \/ f.token = hash
  /\ issued < MaxTokens /\ issued' = issued + 1 /\ hash' = issued'
  /\ excused' = Clients
  /\ UNCHANGED <<expired, holds, req, flight>>

-----------------------------------------------------------------------------

SessionNext ==
  \/ \E c \in Clients :
       \/ SignIn(c) \/ SignOut(c)
       \/ \E r \in Calls : \/ AskFor(c, r) \/ Served(c, r) \/ Refused(c, r)
                           \/ Check(c, r) \/ Rotate(c, r) \/ Renewed(c, r)
                           \/ RenewalDenied(c, r) \/ RenewalLost(c, r) \/ SessionCleared(c, r)
  \/ \E n \in Tokens : Expire(n)
  \/ \E f \in orphans : OrphanRotates(f)

SessionSpec == SessionInit /\ [][SessionNext]_sessionVars

\* A client goes on with an answer and with clearing its session, and a tab gives up a
\* renewal after ten seconds.  The request of the app has no timeout.
SessionFairness ==
  \A c \in Clients, q \in Calls :
    WF_sessionVars(\/ Renewed(c, q) \/ RenewalDenied(c, q) \/ SessionCleared(c, q)
                   \/ c \notin Apps /\ RenewalLost(c, q))

SessionFairSpec == SessionSpec /\ SessionFairness

-----------------------------------------------------------------------------
(* Properties *)

RequestRec == [phase : {"quiet", "out", "waiting"}, token : 0..MaxTokens, on : Calls \cup {NoRequest}, retried : BOOLEAN]

\* Every token, request and renewal has the values its type allows.
SessionTypeOK ==
  /\ hash \in 0..issued /\ issued \in 0..MaxTokens /\ expired \subseteq 1..issued
  /\ holds \in [Clients -> 0..issued] /\ req \in [Clients -> [Calls -> RequestRec]]
  /\ flight \in [Clients -> [Calls -> RenewalRec \cup {NoFlight}]]
  /\ orphans \subseteq RenewalRec /\ excused \subseteq Clients

\* A client is never signed out by its own renewals: only when an answer was lost,
\* the customer signed out or another client took the session (comment of refreshOnce).
NoFalseLogout ==
  [][\A c \in Clients : holds[c] # 0 /\ holds'[c] = 0 => c \in excused']_sessionVars

\* Nobody waits for ever in a tab, whatever becomes of the renewal; nor in the app
\* once a renewal has been answered.  While the app's renewal is not answered, and after
\* it failed, until the session is cleared, a request may join its queue and be left there.
NobodyWaitsForEver ==
  \A c \in Clients, r \in Calls :
    (/\ req[c][r].phase = "waiting"
     /\ c \in Apps => \E q \in Calls : flight[c][q] # NoFlight /\ flight[c][q].phase = "answered")
      ~> (req[c][r].phase # "waiting")
=============================================================================
