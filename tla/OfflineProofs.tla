---------------------------- MODULE OfflineProofs ----------------------------
(***************************************************************************)
(* Proofs about what a device keeps for itself: the session of an account, *)
(* the queue of stock counts and the profile edited without a connection.  *)
(* Each part has an inductive invariant of its own and one lemma per       *)
(* action; the theorems hold for every number of clients, tabs, fields,    *)
(* counts and requests.                                                    *)
(***************************************************************************)
EXTENDS AccountSession, OfflineInventory, OfflineProfile, TLAPS

-----------------------------------------------------------------------------
(* The session of an account *)

FlightTypes ==
  /\ hash \in 0..MaxTokens /\ issued \in 0..MaxTokens /\ excused \subseteq Clients
  /\ holds \in [Clients -> 0..MaxTokens] /\ flight \in [Clients -> [Calls -> RenewalRec \cup {NoFlight}]]

\* A client renews once at a time.  As long as nobody else took the session, what
\* it holds or is about to hold is the token that the API knows.
InSession(c) ==
  /\ \A q, r \in Calls : flight[c][q] # NoFlight /\ flight[c][r] # NoFlight => q = r
  /\ c \notin excused =>
       /\ holds[c] = 0 => ~Renewing(c)
       /\ holds[c] # 0 /\ ~Renewing(c) => holds[c] = hash
       /\ \A q \in Calls : flight[c][q] # NoFlight => flight[c][q].token = hash /\ hash # 0

SessionInv == FlightTypes /\ \A c \in Clients : InSession(c)

\* A renewal of a phase and a token is well formed.
LEMMA RenewalType ==
  ASSUME NEW phase \in {"asked", "checked", "answered"}, NEW n \in 0..MaxTokens
  PROVE  Renewal(phase, n) \in RenewalRec /\ Renewal(phase, n).token = n /\ Renewal("closing", 0) \in RenewalRec
  BY DEF Renewal, RenewalRec

\* Whoever does not move stays in session.
LEMMA OthersInSession ==
  ASSUME NEW d \in Clients, InSession(d), \A r \in Calls : flight'[d][r] = flight[d][r],
         holds'[d] = holds[d], d \notin excused' => hash' = hash /\ d \notin excused
  PROVE  InSession(d)'
<1>1. \A q, r \in Calls : flight'[d][q] # NoFlight /\ flight'[d][r] # NoFlight => q = r
  BY DEF InSession
<1>2. Renewing(d)' <=> Renewing(d)
  BY DEF Renewing
<1>3. CASE d \in excused'
  BY <1>1, <1>3 DEF InSession
<1>4. CASE d \notin excused'
  BY <1>1, <1>2, <1>4 DEF InSession
<1> QED
  BY <1>3, <1>4

\* The one renewal of a client that moves on: with the token the API knows.
LEMMA MoverInSession ==
  ASSUME NEW c \in Clients, NEW q \in Calls, InSession(c), flight[c][q] # NoFlight,
         \A r \in Calls : r # q => flight'[c][r] = flight[c][r],
         c \notin excused' =>
           /\ flight'[c][q] = NoFlight => holds'[c] = hash' /\ hash' # 0
           /\ flight'[c][q] # NoFlight => flight'[c][q].token = hash' /\ hash' # 0 /\ holds'[c] # 0
  PROVE  InSession(c)'
<1>1. \A r \in Calls : r # q => flight'[c][r] = NoFlight
  BY DEF InSession
<1>2. \A p, r \in Calls : flight'[c][p] # NoFlight /\ flight'[c][r] # NoFlight => p = r
  BY <1>1
<1>3. CASE c \in excused'
  BY <1>2, <1>3 DEF InSession
<1>4. CASE c \notin excused' /\ flight'[c][q] = NoFlight
  BY <1>1, <1>2, <1>4 DEF InSession, Renewing
<1>5. CASE c \notin excused' /\ flight'[c][q] # NoFlight
  BY <1>1, <1>2, <1>5 DEF InSession, Renewing
<1> QED
  BY <1>3, <1>4, <1>5

\* A renewal that fails is over in a tab, and closes the session in the app.
LEMMA FailsTypes ==
  ASSUME FlightTypes, NEW c \in Clients, NEW q \in Calls, Fails(c, q)
  PROVE  /\ holds' \in [Clients -> 0..MaxTokens] /\ \A d \in Clients : d # c => holds'[d] = holds[d]
         /\ flight' \in [Clients -> [Calls -> RenewalRec \cup {NoFlight}]]
         /\ \A d \in Clients, r \in Calls : d # c \/ r # q => flight'[d][r] = flight[d][r]
<1>1. PICK f \in RenewalRec \cup {NoFlight} : f = IF c \in Apps THEN Renewal("closing", 0) ELSE NoFlight
  BY RenewalType, SessionAssumption
<1>2. flight' = [flight EXCEPT ![c][q] = f]
  BY <1>1 DEF Fails
<1>3. PICK n \in 0..MaxTokens : holds' = [holds EXCEPT ![c] = n]
  <2>1. holds[c] \in 0..MaxTokens /\ 0 \in 0..MaxTokens
    BY SessionAssumption DEF FlightTypes
  <2> QED
    BY <2>1 DEF Fails
<1> QED
  BY <1>2, <1>3 DEF FlightTypes

\* The client of a renewal that failed, and whoever else, are in session.
LEMMA FailsInSession ==
  ASSUME SessionInv, NEW c \in Clients, NEW q \in Calls, Fails(c, q), flight[c][q] # NoFlight,
         c \in excused', excused' \in {excused, excused \cup {c}}, UNCHANGED <<hash, issued>>
  PROVE  SessionInv'
<1>t. FlightTypes /\ \A d \in Clients : InSession(d)
  BY DEF SessionInv
<1>1. /\ holds' \in [Clients -> 0..MaxTokens] /\ \A d \in Clients : d # c => holds'[d] = holds[d]
      /\ flight' \in [Clients -> [Calls -> RenewalRec \cup {NoFlight}]]
      /\ \A d \in Clients, r \in Calls : d # c \/ r # q => flight'[d][r] = flight[d][r]
  BY <1>t, FailsTypes
<1>2. FlightTypes'
  BY <1>t, <1>1 DEF FlightTypes
<1>3. InSession(c)'
  BY <1>t, <1>1, MoverInSession
<1>4. ASSUME NEW d \in Clients, d # c PROVE InSession(d)'
  BY <1>t, <1>1, <1>4, OthersInSession
<1> QED
  BY <1>2, <1>3, <1>4 DEF SessionInv

\* Every step of the clients and the API keeps what a session needs.
LEMMA SessionStep == SessionInv /\ [SessionNext]_sessionVars => SessionInv'
<1> SUFFICES ASSUME SessionInv, [SessionNext]_sessionVars PROVE SessionInv'
  OBVIOUS
<1>t. FlightTypes /\ \A c \in Clients : InSession(c)
  BY DEF SessionInv
<1>0. ASSUME UNCHANGED <<hash, issued, holds, flight, excused>> PROVE SessionInv'
  BY <1>t, <1>0 DEF SessionInv, FlightTypes, InSession, Renewing
<1>1. ASSUME NEW c \in Clients, SignIn(c) PROVE SessionInv'
  <2>1. /\ issued' = issued + 1 /\ hash' = issued' /\ issued' \in 1..MaxTokens /\ holds[c] = 0
        /\ holds' \in [Clients -> 0..MaxTokens] /\ holds'[c] = issued' /\ UNCHANGED flight
        /\ \A d \in Clients : d \notin excused' => d = c
        /\ c \notin excused' => ~Renewing(c)
        /\ excused' \subseteq Clients
    BY <1>t, <1>1, SessionAssumption DEF SignIn, Others, FlightTypes, InSession
  <2>2. FlightTypes'
    BY <1>t, <2>1 DEF FlightTypes
  <2>3. ASSUME NEW d \in Clients PROVE InSession(d)'
    BY <1>t, <2>1 DEF InSession, Renewing
  <2> QED
    BY <2>2, <2>3 DEF SessionInv
<1>2. ASSUME NEW c \in Clients, SignOut(c) PROVE SessionInv'
  BY <1>t, <1>2, SessionAssumption DEF SignOut, SessionInv, FlightTypes, InSession
<1>3. ASSUME NEW c \in Clients, NEW r \in Calls, Refused(c, r) PROVE SessionInv'
  <2>1. CASE Joined(c, r) \/ SentAway(c, r)
    BY <1>3, <2>1, <1>0 DEF Refused, Joined, SentAway
  <2>2. CASE ~Renewing(c) /\ Began(c, r)
    <3>1. PICK f \in RenewalRec \cup {NoFlight} :
            f = Renewal(IF holds[c] = 0 THEN "answered" ELSE "asked", holds[c]) /\ f.token = holds[c]
      BY <1>t, RenewalType DEF FlightTypes
    <3>2. /\ flight' = [flight EXCEPT ![c][r] = f] /\ UNCHANGED <<hash, issued, holds>>
          /\ excused' = IF holds[c] = 0 THEN excused \cup {c} ELSE excused
      BY <1>3, <2>2, <3>1 DEF Refused, Began
    <3>3. /\ flight' \in [Clients -> [Calls -> RenewalRec \cup {NoFlight}]] /\ flight'[c][r] = f
          /\ \A d \in Clients, p \in Calls : d # c \/ p # r => flight'[d][p] = flight[d][p]
      BY <1>t, <3>1, <3>2 DEF FlightTypes
    <3>4. FlightTypes'
      BY <1>t, <3>2, <3>3 DEF FlightTypes
    <3>5. ASSUME NEW d \in Clients PROVE InSession(d)'
      <4>1. CASE d = c
        BY <1>t, <2>2, <3>1, <3>2, <3>3, <4>1 DEF InSession, Renewing
      <4>2. CASE d # c
        BY <1>t, <3>2, <3>3, <4>2, OthersInSession
      <4> QED
        BY <4>1, <4>2
    <3> QED
      BY <3>4, <3>5 DEF SessionInv
  <2> QED
    BY <1>3, <2>1, <2>2 DEF Refused
<1>4. ASSUME NEW c \in Clients, NEW q \in Calls, Check(c, q) PROVE SessionInv'
  <2>1. PICK f \in RenewalRec : /\ f = IF flight[c][q].token = hash THEN Renewal("checked", flight[c][q].token)
                                       ELSE Renewal("answered", 0)
                                /\ flight[c][q].token = hash => f.token = hash
    <3>1. flight[c][q] \in RenewalRec
      BY <1>t, <1>4 DEF Check, FlightTypes
    <3>2. flight[c][q].token \in 0..MaxTokens
      BY <3>1, SessionAssumption DEF RenewalRec
    <3> QED
      BY <3>2, RenewalType, SessionAssumption
  <2>2. flight' = [flight EXCEPT ![c][q] = f] /\ UNCHANGED <<hash, issued, holds, excused>> /\ flight[c][q] # NoFlight
    BY <1>4, <2>1 DEF Check
  <2>3. /\ flight' \in [Clients -> [Calls -> RenewalRec \cup {NoFlight}]] /\ flight'[c][q] = f
        /\ \A d \in Clients, r \in Calls : d # c \/ r # q => flight'[d][r] = flight[d][r]
    BY <1>t, <2>2 DEF FlightTypes
  <2>4. FlightTypes'
    BY <1>t, <2>2, <2>3 DEF FlightTypes
  <2>5. ASSUME NEW d \in Clients PROVE InSession(d)'
    <3>1. CASE d = c
      <4>1. c \notin excused' =>
              /\ flight'[c][q] = NoFlight => holds'[c] = hash' /\ hash' # 0
              /\ flight'[c][q] # NoFlight => flight'[c][q].token = hash' /\ hash' # 0 /\ holds'[c] # 0
        BY <1>t, <2>1, <2>2, <2>3, <3>1, SessionAssumption DEF InSession, Renewing, FlightTypes
      <4> QED
        BY <1>t, <2>1, <2>2, <2>3, <3>1, <4>1, MoverInSession
    <3>2. CASE d # c
      BY <1>t, <2>2, <2>3, <3>2, OthersInSession
    <3> QED
      BY <3>1, <3>2
  <2> QED
    BY <2>4, <2>5 DEF SessionInv
<1>5. ASSUME NEW c \in Clients, NEW q \in Calls, Rotate(c, q) PROVE SessionInv'
  <2>0. issued' = issued + 1 /\ issued' \in 1..MaxTokens /\ hash' = issued' /\ UNCHANGED holds
        /\ excused' \subseteq Clients /\ (\A d \in Clients : d \notin excused' => d = c /\ c \notin excused)
    BY <1>t, <1>5, SessionAssumption DEF Rotate, FlightTypes, Others
  <2>1. PICK f \in RenewalRec : f = Renewal("answered", issued') /\ f.token = issued'
    BY <2>0, RenewalType
  <2>2. flight' = [flight EXCEPT ![c][q] = f] /\ flight[c][q] # NoFlight
    BY <1>5, <2>1 DEF Rotate
  <2>3. /\ flight' \in [Clients -> [Calls -> RenewalRec \cup {NoFlight}]] /\ flight'[c][q] = f
        /\ \A d \in Clients, r \in Calls : d # c \/ r # q => flight'[d][r] = flight[d][r]
    BY <1>t, <2>2 DEF FlightTypes
  <2>4. FlightTypes'
    BY <1>t, <2>0, <2>3 DEF FlightTypes
  <2>5. ASSUME NEW d \in Clients PROVE InSession(d)'
    <3>1. CASE d = c
      <4>1. c \notin excused' =>
              /\ flight'[c][q] = NoFlight => holds'[c] = hash' /\ hash' # 0
              /\ flight'[c][q] # NoFlight => flight'[c][q].token = hash' /\ hash' # 0 /\ holds'[c] # 0
        BY <1>t, <2>0, <2>1, <2>2, <2>3, <3>1, SessionAssumption DEF InSession, Renewing, FlightTypes
      <4> QED
        BY <1>t, <2>0, <2>1, <2>2, <2>3, <3>1, <4>1, MoverInSession
    <3>2. CASE d # c
      BY <1>t, <2>0, <2>2, <2>3, <3>2, OthersInSession
    <3> QED
      BY <3>1, <3>2
  <2> QED
    BY <2>4, <2>5 DEF SessionInv
<1>6. ASSUME NEW c \in Clients, NEW q \in Calls, Renewed(c, q) PROVE SessionInv'
  <2>1. PICK n \in 0..MaxTokens : n = flight[c][q].token
    BY <1>t, <1>6 DEF Renewed, FlightTypes, RenewalRec
  <2>2. /\ holds' \in [Clients -> 0..MaxTokens] /\ holds'[c] = n /\ \A d \in Clients : d # c => holds'[d] = holds[d]
        /\ UNCHANGED <<hash, issued, excused>> /\ flight[c][q] # NoFlight
    BY <1>t, <1>6, <2>1 DEF Renewed, FlightTypes
  <2>3. /\ flight' \in [Clients -> [Calls -> RenewalRec \cup {NoFlight}]] /\ flight'[c][q] = NoFlight
        /\ \A d \in Clients, r \in Calls : d # c \/ r # q => flight'[d][r] = flight[d][r]
    BY <1>t, <1>6, <2>1 DEF Renewed, FlightTypes
  <2>4. FlightTypes'
    BY <1>t, <2>2, <2>3 DEF FlightTypes
  <2>5. ASSUME NEW d \in Clients PROVE InSession(d)'
    <3>1. CASE d = c
      <4>1. c \notin excused' =>
              /\ flight'[c][q] = NoFlight => holds'[c] = hash' /\ hash' # 0
              /\ flight'[c][q] # NoFlight => flight'[c][q].token = hash' /\ hash' # 0 /\ holds'[c] # 0
        BY <1>t, <2>1, <2>2, <2>3, <3>1, SessionAssumption DEF InSession, Renewing, FlightTypes
      <4> QED
        BY <1>t, <2>1, <2>2, <2>3, <3>1, <4>1, MoverInSession
    <3>2. CASE d # c
      BY <1>t, <2>2, <2>3, <3>2, OthersInSession
    <3> QED
      BY <3>1, <3>2
  <2> QED
    BY <2>4, <2>5 DEF SessionInv
<1>7. ASSUME NEW c \in Clients, NEW q \in Calls, RenewalDenied(c, q) \/ RenewalLost(c, q) PROVE SessionInv'
  <2>1. Fails(c, q) /\ flight[c][q] # NoFlight /\ UNCHANGED <<hash, issued>> /\ excused' \in {excused, excused \cup {c}}
    BY <1>7 DEF RenewalDenied, RenewalLost
  <2>2. c \in excused'
    <3>1. CASE RenewalDenied(c, q)
      BY <1>t, <3>1 DEF RenewalDenied, InSession
    <3>2. CASE RenewalLost(c, q)
      BY <3>2 DEF RenewalLost
    <3> QED
      BY <1>7, <3>1, <3>2
  <2> QED
    BY <2>1, <2>2, FailsInSession
<1>10. ASSUME NEW c \in Clients, NEW q \in Calls, SessionCleared(c, q) PROVE SessionInv'
  <2>1. /\ holds' \in [Clients -> 0..MaxTokens] /\ \A d \in Clients : d # c => holds'[d] = holds[d]
        /\ UNCHANGED <<hash, issued, excused>> /\ flight[c][q] # NoFlight
    BY <1>t, <1>10, SessionAssumption DEF SessionCleared, FlightTypes
  <2>2. /\ flight' \in [Clients -> [Calls -> RenewalRec \cup {NoFlight}]] /\ flight'[c][q] = NoFlight
        /\ \A d \in Clients, r \in Calls : d # c \/ r # q => flight'[d][r] = flight[d][r]
    BY <1>t, <1>10 DEF SessionCleared, FlightTypes
  <2>3. FlightTypes'
    BY <1>t, <2>1, <2>2 DEF FlightTypes
  <2>4. c \in excused
    <3>1. flight[c][q].token = 0
      BY <1>t, <1>10 DEF SessionCleared, FlightTypes, RenewalRec
    <3> QED
      BY <1>t, <1>10, <3>1 DEF SessionCleared, InSession
  <2>5. InSession(c)'
    BY <1>t, <2>1, <2>2, <2>4, MoverInSession
  <2>6. ASSUME NEW d \in Clients, d # c PROVE InSession(d)'
    BY <1>t, <2>1, <2>2, <2>6, OthersInSession
  <2> QED
    BY <2>3, <2>5, <2>6 DEF SessionInv
<1>8. ASSUME NEW f \in orphans, OrphanRotates(f) PROVE SessionInv'
  <2>1. /\ issued' \in 0..MaxTokens /\ hash' = issued' /\ excused' = Clients /\ UNCHANGED <<holds, flight>>
    BY <1>t, <1>8, SessionAssumption DEF OrphanRotates, FlightTypes
  <2> QED
    BY <1>t, <2>1 DEF SessionInv, FlightTypes, InSession
<1>9. CASE SessionNext
  <2>1. ASSUME NEW c \in Clients, NEW r \in Calls, AskFor(c, r) \/ Served(c, r) PROVE SessionInv'
    BY <2>1, <1>0 DEF AskFor, Served
  <2>2. ASSUME NEW n \in Tokens, Expire(n) PROVE SessionInv'
    BY <2>2, <1>0 DEF Expire
  <2> QED
    BY <1>1, <1>2, <1>3, <1>4, <1>5, <1>6, <1>7, <1>8, <1>9, <1>10, <2>1, <2>2 DEF SessionNext
<1> QED
  BY <1>0, <1>9 DEF sessionVars

\* Every client starts signed out, and nothing is renewed.
LEMMA SessionInitially == SessionInit => SessionInv
  BY SessionAssumption DEF SessionInit, SessionInv, FlightTypes, InSession, Renewing

\* No client is signed out by a renewal of its own, for any number of clients and
\* of requests at once.
THEOREM NoFalseLogoutHolds == SessionSpec => NoFalseLogout
<1> DEFINE Excused == \A c \in Clients : holds[c] # 0 /\ holds'[c] = 0 => c \in excused'
<1>1. SessionInv /\ [SessionNext]_sessionVars => [Excused]_sessionVars
  <2> SUFFICES ASSUME SessionInv, SessionNext, NEW d \in Clients, holds[d] # 0, holds'[d] = 0 PROVE d \in excused'
    OBVIOUS
  <2>t. FlightTypes /\ \A c \in Clients : InSession(c)
    BY DEF SessionInv
  <2>1. ASSUME NEW c \in Clients, SignIn(c) PROVE d \in excused'
    BY <2>t, <2>1 DEF SignIn, FlightTypes
  <2>2. ASSUME NEW c \in Clients, SignOut(c) PROVE d \in excused'
    BY <2>2 DEF SignOut
  <2>3. ASSUME NEW c \in Clients, NEW q \in Calls, Renewed(c, q) PROVE d \in excused'
    BY <2>t, <2>3 DEF Renewed, FlightTypes
  <2>4. ASSUME NEW c \in Clients, NEW q \in Calls, RenewalDenied(c, q) PROVE d \in excused'
    BY <2>t, <2>4 DEF RenewalDenied, Fails, FlightTypes, InSession
  <2>5. ASSUME NEW c \in Clients, NEW q \in Calls, RenewalLost(c, q) PROVE d \in excused'
    BY <2>t, <2>5 DEF RenewalLost, Fails, FlightTypes
  <2>6. ASSUME NEW c \in Clients, NEW q \in Calls, SessionCleared(c, q) PROVE d \in excused'
    <3>1. flight[c][q].token = 0
      BY <2>t, <2>6 DEF SessionCleared, FlightTypes, RenewalRec
    <3> QED
      BY <2>t, <2>6, <3>1 DEF SessionCleared, FlightTypes, InSession
  <2>7. UNCHANGED holds => d \in excused'
    OBVIOUS
  <2> QED
    BY <2>1, <2>2, <2>3, <2>4, <2>5, <2>6, <2>7
       DEF SessionNext, AskFor, Served, Refused, Check, Rotate, Expire, OrphanRotates
<1>2. SessionSpec => []SessionInv
  BY SessionInitially, SessionStep, PTL DEF SessionSpec
<1> QED
  BY <1>1, <1>2, PTL DEF SessionSpec, NoFalseLogout

\* A renewal asks with a token that was issued, and is answered with one.
Issued == \A c \in Clients, q \in Calls : flight[c][q] # NoFlight => flight[c][q].token <= issued

SessionTypes == SessionTypeOK /\ Issued

\* The requests that waited for a renewal are requests when it is answered.
LEMMA ResumedType ==
  ASSUME SessionTypeOK, NEW c \in Clients, NEW q \in Calls, NEW n \in 0..MaxTokens
  PROVE  Resumed(c, q, n) \in [Calls -> RequestRec]
<1>1. Quiet \in RequestRec /\ \A again \in BOOLEAN : Out(n, again) \in RequestRec
  BY SessionAssumption DEF Quiet, Out, RequestRec
<1>2. \A r \in Calls : req[c][r] \in RequestRec /\ req[c][r].retried \in BOOLEAN
  BY DEF SessionTypeOK, RequestRec
<1> QED BY <1>1, <1>2 DEF Resumed

\* A renewal that fails leaves well-formed requests, renewals and tokens.
LEMMA FailsKeepsTypes ==
  ASSUME SessionTypes, NEW c \in Clients, NEW q \in Calls, Fails(c, q), UNCHANGED issued
  PROVE  /\ holds' \in [Clients -> 0..issued'] /\ req' \in [Clients -> [Calls -> RequestRec]]
         /\ flight' \in [Clients -> [Calls -> RenewalRec \cup {NoFlight}]] /\ Issued'
<1>1. Resumed(c, q, 0) \in [Calls -> RequestRec] /\ issued \in 0..MaxTokens
  BY ResumedType, SessionAssumption DEF SessionTypes, SessionTypeOK
<1>2. req' \in [Clients -> [Calls -> RequestRec]]
  BY <1>1 DEF Fails, SessionTypes, SessionTypeOK
<1>3. holds' \in [Clients -> 0..issued']
  BY <1>1 DEF Fails, SessionTypes, SessionTypeOK
<1>4. flight \in [Clients -> [Calls -> RenewalRec \cup {NoFlight}]] /\ Issued
  BY DEF SessionTypes, SessionTypeOK
<1>5. CASE c \in Apps
  <2>1. PICK f \in RenewalRec : f = Renewal("closing", 0) /\ f.token = 0
    <3>1. Renewal("closing", 0) \in RenewalRec
      BY <1>1, SessionAssumption, RenewalType
    <3>2. Renewal("closing", 0).token = 0
      BY DEF Renewal
    <3> QED BY <3>1, <3>2
  <2>2. flight' = [flight EXCEPT ![c][q] = f]
    BY <1>5, <2>1 DEF Fails
  <2>3. flight' \in [Clients -> [Calls -> RenewalRec \cup {NoFlight}]] /\ Issued'
    BY <1>1, <1>4, <2>1, <2>2 DEF Issued
  <2> QED BY <1>1, <1>2, <1>3, <2>3
<1>6. CASE c \notin Apps
  <2>1. flight' = [flight EXCEPT ![c][q] = NoFlight]
    BY <1>6 DEF Fails
  <2>2. flight' \in [Clients -> [Calls -> RenewalRec \cup {NoFlight}]] /\ Issued'
    BY <1>1, <1>4, <2>1 DEF Issued
  <2> QED BY <1>1, <1>2, <1>3, <2>2
<1> QED BY <1>5, <1>6

\* Every token, request and renewal keeps its type, and no client holds a token
\* that was not issued.
THEOREM SessionTypeCorrect == SessionSpec => []SessionTypeOK
<1>1. SessionInit => SessionTypes
  BY SessionAssumption DEF SessionInit, SessionTypes, SessionTypeOK, Issued, Quiet, RequestRec
<1>2. SessionTypes /\ [SessionNext]_sessionVars => SessionTypes'
  <2> SUFFICES ASSUME SessionTypes, [SessionNext]_sessionVars PROVE SessionTypes'
    OBVIOUS
  <2>t. /\ MaxTokens \in Nat \ {0} /\ issued \in 0..MaxTokens
        /\ \A c \in Clients, q \in Calls :
             flight[c][q] # NoFlight => flight[c][q] \in RenewalRec /\ flight[c][q].token \in 0..issued
    BY SessionAssumption DEF SessionTypes, SessionTypeOK, Issued, RenewalRec
  <2>1. ASSUME NEW c \in Clients, SignIn(c) PROVE SessionTypes'
    <3>1. issued' = issued + 1 /\ issued' \in 0..MaxTokens /\ hash' = issued'
      BY <2>t, <2>1 DEF SignIn
    <3>2. holds' \in [Clients -> 0..issued'] /\ expired' \subseteq 1..issued' /\ excused' \subseteq Clients
      BY <2>t, <2>1, <3>1 DEF SignIn, SessionTypes, SessionTypeOK, Others
    <3> QED BY <2>t, <2>1, <3>1, <3>2 DEF SignIn, SessionTypes, SessionTypeOK, Issued
  <2>2. ASSUME NEW c \in Clients, SignOut(c) PROVE SessionTypes'
    BY <2>t, <2>2 DEF SignOut, SessionTypes, SessionTypeOK, Issued
  <2>3. ASSUME NEW c \in Clients, NEW r \in Calls, AskFor(c, r) PROVE SessionTypes'
    <3>1. Out(holds[c], FALSE) \in RequestRec
      BY <2>t DEF Out, RequestRec, SessionTypes, SessionTypeOK
    <3> QED BY <2>3, <3>1 DEF AskFor, SessionTypes, SessionTypeOK, Issued
  <2>4. ASSUME NEW c \in Clients, NEW r \in Calls, Served(c, r) PROVE SessionTypes'
    <3>1. Quiet \in RequestRec
      BY <2>t DEF Quiet, RequestRec
    <3> QED BY <2>4, <3>1 DEF Served, SessionTypes, SessionTypeOK, Issued
  <2>5. ASSUME NEW c \in Clients, NEW r \in Calls, Refused(c, r) PROVE SessionTypes'
    <3>1. Quiet \in RequestRec /\ \A q \in Calls, again \in BOOLEAN : WaitsOn(q, again) \in RequestRec
      BY <2>t DEF Quiet, WaitsOn, RequestRec
    <3>2. req' \in [Clients -> [Calls -> RequestRec]]
      <4>1. \E w \in RequestRec : req' = [req EXCEPT ![c][r] = w]
        BY <2>5, <3>1 DEF Refused, Joined, SentAway, Began
      <4> QED BY <4>1 DEF SessionTypes, SessionTypeOK
    <3>3. CASE UNCHANGED <<flight, excused>>
      BY <2>5, <3>2, <3>3 DEF Refused, SessionTypes, SessionTypeOK, Issued
    <3>4. CASE Began(c, r)
      <4>1. PICK f \in RenewalRec : /\ f = Renewal(IF holds[c] = 0 THEN "answered" ELSE "asked", holds[c])
                                    /\ f.token <= issued
        <5>1. holds[c] \in 0..issued /\ holds[c] \in 0..MaxTokens
          BY <2>t DEF SessionTypes, SessionTypeOK
        <5>2. \A phase \in {"asked", "answered"} : Renewal(phase, holds[c]) \in RenewalRec /\ Renewal(phase, holds[c]).token = holds[c]
          BY <5>1, RenewalType
        <5> QED BY <2>t, <5>1, <5>2
      <4>2. flight' = [flight EXCEPT ![c][r] = f] /\ issued' = issued
        BY <2>5, <3>4, <4>1 DEF Began, Refused
      <4>3. flight' \in [Clients -> [Calls -> RenewalRec \cup {NoFlight}]] /\ Issued'
        BY <4>1, <4>2 DEF SessionTypes, SessionTypeOK, Issued
      <4>4. excused' \subseteq Clients
        BY <3>4 DEF Began, SessionTypes, SessionTypeOK
      <4> QED BY <2>5, <3>2, <4>2, <4>3, <4>4 DEF Refused, SessionTypes, SessionTypeOK
    <3> QED BY <2>5, <3>3, <3>4 DEF Refused, Joined, SentAway
  <2>6. ASSUME NEW c \in Clients, NEW q \in Calls, Check(c, q) PROVE SessionTypes'
    <3>1. \E f \in RenewalRec : f.token <= issued /\ flight' = [flight EXCEPT ![c][q] = f]
      <4>1. /\ Renewal("checked", flight[c][q].token) \in RenewalRec
            /\ Renewal("checked", flight[c][q].token).token = flight[c][q].token
            /\ Renewal("answered", 0) \in RenewalRec /\ Renewal("answered", 0).token = 0
        BY <2>t, <2>6 DEF Check, Renewal, RenewalRec
      <4>2. flight[c][q].token <= issued /\ 0 <= issued
        BY <2>t, <2>6 DEF Check
      <4>3. \/ flight' = [flight EXCEPT ![c][q] = Renewal("checked", flight[c][q].token)]
            \/ flight' = [flight EXCEPT ![c][q] = Renewal("answered", 0)]
        BY <2>6 DEF Check
      <4> QED BY <4>1, <4>2, <4>3
    <3>2. flight' \in [Clients -> [Calls -> RenewalRec \cup {NoFlight}]]
      BY <3>1 DEF SessionTypes, SessionTypeOK
    <3>3. issued' = issued /\ Issued'
      BY <2>6, <3>1 DEF Check, SessionTypes, SessionTypeOK, Issued
    <3> QED BY <2>6, <3>2, <3>3 DEF Check, SessionTypes, SessionTypeOK
  <2>7. ASSUME NEW c \in Clients, NEW q \in Calls, Rotate(c, q) PROVE SessionTypes'
    <3>1. issued' = issued + 1 /\ issued' \in 0..MaxTokens /\ hash' = issued'
      BY <2>t, <2>7 DEF Rotate
    <3>2. Renewal("answered", issued') \in RenewalRec /\ Renewal("answered", issued').token = issued'
      BY <3>1 DEF Renewal, RenewalRec
    <3>3. flight' = [flight EXCEPT ![c][q] = Renewal("answered", issued')]
      BY <2>7 DEF Rotate
    <3>4. flight' \in [Clients -> [Calls -> RenewalRec \cup {NoFlight}]]
      BY <3>2, <3>3 DEF SessionTypes, SessionTypeOK
    <3>5. Issued'
      BY <2>t, <3>1, <3>2, <3>3 DEF SessionTypes, SessionTypeOK, Issued
    <3>6. holds' \in [Clients -> 0..issued'] /\ expired' \subseteq 1..issued' /\ excused' \subseteq Clients
      BY <2>t, <2>7, <3>1 DEF Rotate, SessionTypes, SessionTypeOK, Others
    <3> QED BY <2>t, <2>7, <3>1, <3>4, <3>5, <3>6 DEF Rotate, SessionTypes, SessionTypeOK
  <2>8. ASSUME NEW c \in Clients, NEW q \in Calls, Renewed(c, q) PROVE SessionTypes'
    <3> DEFINE n == flight[c][q].token
    <3>1. n \in 0..issued /\ Resumed(c, q, n) \in [Calls -> RequestRec]
      BY <2>t, <2>8, ResumedType DEF Renewed, SessionTypes
    <3>2. /\ holds' = [holds EXCEPT ![c] = n] /\ req' = [req EXCEPT ![c] = Resumed(c, q, n)]
          /\ flight' = [flight EXCEPT ![c][q] = NoFlight]
          /\ UNCHANGED <<hash, issued, expired, orphans, excused>>
      BY <2>8 DEF Renewed
    <3>3. holds' \in [Clients -> 0..issued'] /\ req' \in [Clients -> [Calls -> RequestRec]]
      BY <2>t, <3>1, <3>2 DEF SessionTypes, SessionTypeOK
    <3>4. flight' \in [Clients -> [Calls -> RenewalRec \cup {NoFlight}]] /\ Issued'
      BY <2>t, <3>2 DEF SessionTypes, SessionTypeOK, Issued
    <3> QED BY <3>2, <3>3, <3>4 DEF SessionTypes, SessionTypeOK
  <2>9. ASSUME NEW c \in Clients, NEW q \in Calls, RenewalDenied(c, q) \/ RenewalLost(c, q) PROVE SessionTypes'
    <3>1. /\ Fails(c, q) /\ UNCHANGED <<hash, issued, expired>> /\ excused' \in {excused, excused \cup {c}}
          /\ flight[c][q] # NoFlight /\ orphans' \in {orphans, orphans \cup {flight[c][q]}}
      BY <2>9 DEF RenewalDenied, RenewalLost
    <3>2. orphans' \subseteq RenewalRec
      BY <2>t, <3>1 DEF SessionTypes, SessionTypeOK
    <3>3. /\ holds' \in [Clients -> 0..issued'] /\ req' \in [Clients -> [Calls -> RequestRec]]
          /\ flight' \in [Clients -> [Calls -> RenewalRec \cup {NoFlight}]] /\ Issued'
      BY <3>1, FailsKeepsTypes
    <3>4. excused' \subseteq Clients /\ hash' \in 0..issued' /\ issued' \in 0..MaxTokens /\ expired' \subseteq 1..issued'
      BY <3>1 DEF SessionTypes, SessionTypeOK
    <3> QED BY <3>2, <3>3, <3>4 DEF SessionTypes, SessionTypeOK
  <2>13. ASSUME NEW c \in Clients, NEW q \in Calls, SessionCleared(c, q) PROVE SessionTypes'
    <3>1. Quiet \in RequestRec
      BY <2>t DEF Quiet, RequestRec
    <3>2. holds' \in [Clients -> 0..issued'] /\ req' \in [Clients -> [Calls -> RequestRec]]
      BY <2>t, <2>13, <3>1 DEF SessionCleared, SessionTypes, SessionTypeOK
    <3>3. flight' \in [Clients -> [Calls -> RenewalRec \cup {NoFlight}]] /\ Issued'
      BY <2>t, <2>13 DEF SessionCleared, SessionTypes, SessionTypeOK, Issued
    <3> QED BY <2>13, <3>2, <3>3 DEF SessionCleared, SessionTypes, SessionTypeOK
  <2>10. ASSUME NEW f \in orphans, OrphanRotates(f) PROVE SessionTypes'
    <3>1. issued' = issued + 1 /\ issued' \in 0..MaxTokens /\ hash' = issued'
      BY <2>t, <2>10 DEF OrphanRotates
    <3> QED BY <2>t, <2>10, <3>1 DEF OrphanRotates, SessionTypes, SessionTypeOK, Issued
  <2>11. ASSUME NEW n \in Tokens, Expire(n) PROVE SessionTypes'
    BY <2>t, <2>11 DEF Expire, Tokens, SessionTypes, SessionTypeOK, Issued
  <2>12. CASE UNCHANGED sessionVars
    BY <2>12 DEF sessionVars, SessionTypes, SessionTypeOK, Issued
  <2> QED
    BY <2>1, <2>2, <2>3, <2>4, <2>5, <2>6, <2>7, <2>8, <2>9, <2>10, <2>11, <2>12, <2>13 DEF SessionNext
<1>3. SessionTypes => SessionTypeOK
  BY DEF SessionTypes
<1> QED BY <1>1, <1>2, <1>3, PTL DEF SessionSpec

-----------------------------------------------------------------------------
(* Stock counts *)

\* A row as it was read: it is no newer than the shelf, and the same if no movement
\* came after it.  So with the row that the author of a count had in view.
Current(row) == row.version <= shelf.version /\ (row.version = shelf.version => row.stock = shelf.stock)
AsSeen(c)    == c.expected <= shelf.version /\ (c.expected = shelf.version => c.seen = shelf.stock)

\* The counts that may still reach the API.
Waits(c) ==
  \/ c \in strays
  \/ direct # NoCount /\ c = direct.count
  \/ passing # NoCount /\ c = passing.count
  \/ queue # NoCount /\ c = queue.count

CountsInv ==
  /\ \A c \in CountRec : Waits(c) => c.op <= lastOp /\ AsSeen(c)
  /\ \A c, d \in CountRec : Waits(c) /\ Waits(d) /\ c.op = d.op => c = d

RowsInv ==
  /\ Current(shown)
  /\ direct # NoCount /\ direct.state \in {"ok", "conflict"} => direct.row \in ShelfRow /\ Current(direct.row)
  /\ passing # NoCount /\ passing.state \in {"ok", "conflict"} => passing.row \in ShelfRow /\ Current(passing.row)
  /\ queue # NoCount /\ queue.status = "conflict" => queue.row \in ShelfRow /\ Current(queue.row)

\* What is unsettled has not been applied; the queue and the device's own request
\* hold different counts, and unless they crossed a pass has listed what is queued.
UnsettledInv ==
  /\ unsettled <= lastOp
  /\ direct # NoCount => unsettled \in {0, direct.count.op} /\ (direct.state = "ok" => unsettled = 0)
  /\ passing # NoCount /\ passing.state = "ok" => unsettled # passing.count.op
  /\ direct # NoCount /\ queue # NoCount => direct.count.op # queue.count.op
  /\ ~crossed /\ passing # NoCount /\ queue # NoCount => queue.count.op = passing.count.op
  /\ NoCountForgotten

InventoryInv == InventoryTypeOK /\ CountsInv /\ RowsInv /\ UnsettledInv

\* A movement raises the version of the row, so what was read before stays true.
LEMMA ReadStaysTrue ==
  ASSUME shelf \in ShelfRow, shelf' \in ShelfRow, shelf' = shelf \/ shelf'.version = shelf.version + 1
  PROVE  /\ \A row \in ShelfRow : Current(row) => Current(row)'
         /\ \A c \in CountRec : AsSeen(c) => AsSeen(c)'
  BY InventoryAssumption DEF ShelfRow, CountRec, Current, AsSeen

\* Counts that only move about keep their invariant.
LEMMA CountsMove ==
  ASSUME CountsInv, lastOp' = lastOp, \A c \in CountRec : Waits(c)' => Waits(c),
         \A c \in CountRec : AsSeen(c) => AsSeen(c)'
  PROVE  CountsInv'
  BY DEF CountsInv

\* So they do when the author of one saves it over the row in view.
LEMMA CountsBegin ==
  ASSUME CountsInv, lastOp \in Nat, lastOp' = lastOp + 1, NEW n \in CountRec, n.op = lastOp', AsSeen(n)',
         \A c \in CountRec : Waits(c)' => c = n \/ Waits(c), \A c \in CountRec : AsSeen(c) => AsSeen(c)'
  PROVE  CountsInv'
<1>1. \A c \in CountRec : Waits(c) => c.op \in Nat /\ c.op <= lastOp
  BY DEF CountsInv, CountRec, OpIds
<1>2. \A c \in CountRec : Waits(c)' => c.op <= lastOp' /\ AsSeen(c)'
  BY <1>1 DEF CountsInv, CountRec, OpIds
<1>3. \A c, d \in CountRec : Waits(c)' /\ Waits(d)' /\ c.op = d.op => c = d
  BY <1>1 DEF CountsInv
<1> QED
  BY <1>2, <1>3 DEF CountsInv

\* What the shelf says after a count was set, and whether it is settled.
LEMMA CountSet ==
  ASSUME shelf \in ShelfRow, ops \subseteq OpIds, done \subseteq OpIds, unsettled \in 0..MaxOps,
         NEW c \in CountRec, SetStockTo(c)
  PROVE  /\ shelf' \in ShelfRow /\ (shelf' = shelf \/ shelf'.version = shelf.version + 1)
         /\ ops' \subseteq OpIds /\ unsettled' \in {0, unsettled} /\ done' \subseteq OpIds
         /\ Verdict(c) \in {"ok", "conflict"}
         /\ Verdict(c) = "ok" => unsettled' # c.op
         /\ unsettled' # unsettled => unsettled = c.op
         /\ shelf' # shelf => c.op \notin ops /\ c.expected = shelf.version /\ ops' = ops \cup {c.op}
<1>1. Verdict(c) \in {"ok", "conflict"} /\ (Applies(c) => Verdict(c) = "ok")
  BY DEF Verdict, Applies
<1>2. c.op \in OpIds /\ c.first \in OpIds /\ c.op # 0 /\ 0 \in 0..MaxOps
  BY InventoryAssumption DEF CountRec, OpIds
<1>3. /\ ops' \subseteq OpIds /\ done' \subseteq OpIds
      /\ unsettled' \in {0, unsettled} /\ (unsettled' # unsettled => unsettled = c.op)
      /\ Verdict(c) = "ok" => unsettled' # c.op /\ ops' = ops \cup {c.op}
  BY <1>2 DEF SetStockTo, SettleCount
<1>4. CASE Applies(c)
  <2>1. PICK w \in ShelfRow : w = Written(c) /\ w.version = shelf.version + 1
    BY <1>4, InventoryAssumption DEF SetStockTo, Written, RowAt, ShelfRow, CountRec, Stock
  <2>2. shelf' = w
    BY <1>4, <2>1 DEF SetStockTo
  <2> QED
    BY <1>1, <1>3, <1>4, <2>1, <2>2 DEF Applies
<1>5. CASE ~Applies(c)
  <2>1. shelf' = shelf
    BY <1>5 DEF SetStockTo
  <2> QED
    BY <1>1, <1>3, <2>1
<1> QED
  BY <1>4, <1>5

\* The screen reads the shelf again (loadInventory).
LEMMA LoadsInventory ==
  ASSUME InventoryInv, LoadInventory
  PROVE  InventoryInv'
<1>1. InventoryTypeOK /\ CountsInv /\ RowsInv /\ UnsettledInv
  BY DEF InventoryInv
<1>2. InventoryTypeOK'
  BY <1>1, InventoryAssumption DEF InventoryTypeOK, LoadInventory
<1>3. (\A row \in ShelfRow : Current(row) => Current(row)') /\ (\A b \in CountRec : AsSeen(b) => AsSeen(b)')
  BY <1>1, <1>2, ReadStaysTrue DEF InventoryTypeOK, LoadInventory
<1>4. CountsInv'
  BY <1>1, <1>3, CountsMove DEF Waits, LoadInventory
<1>5. RowsInv'
  BY <1>1, <1>3 DEF RowsInv, InventoryTypeOK, SlotRec, QueueRec, LoadInventory, Current, ShelfRow
<1>6. UnsettledInv'
  BY <1>1, InventoryAssumption DEF UnsettledInv, NoCountForgotten, InventoryTypeOK, SlotRec, QueueRec, CountRec, OpIds, LoadInventory
<1> QED
  BY <1>2, <1>4, <1>5, <1>6 DEF InventoryInv

\* Units are sold or come back, which gives the row a new version.
LEMMA MovesStock ==
  ASSUME InventoryInv, NEW s \in Stock, MoveStock(s)
  PROVE  InventoryInv'
<1>1. InventoryTypeOK /\ CountsInv /\ RowsInv /\ UnsettledInv
  BY DEF InventoryInv
<1>2. InventoryTypeOK'
  BY <1>1, InventoryAssumption DEF InventoryTypeOK, MoveStock, RowAt, ShelfRow
<1>3. (\A row \in ShelfRow : Current(row) => Current(row)') /\ (\A b \in CountRec : AsSeen(b) => AsSeen(b)')
  BY <1>1, <1>2, ReadStaysTrue DEF InventoryTypeOK, MoveStock, RowAt
<1>4. CountsInv'
  BY <1>1, <1>3, CountsMove DEF Waits, MoveStock, RowAt
<1>5. RowsInv'
  BY <1>1, <1>3 DEF RowsInv, InventoryTypeOK, SlotRec, QueueRec, MoveStock, RowAt
<1>6. UnsettledInv'
  BY <1>1, InventoryAssumption DEF UnsettledInv, NoCountForgotten, InventoryTypeOK, SlotRec, QueueRec, CountRec, OpIds, MoveStock, RowAt
<1> QED
  BY <1>2, <1>4, <1>5, <1>6 DEF InventoryInv

\* A pass of the synchronisation reads the queue (sendAll).
LEMMA ListsQueue ==
  ASSUME InventoryInv, ListQueue
  PROVE  InventoryInv'
<1>1. InventoryTypeOK /\ CountsInv /\ RowsInv /\ UnsettledInv
  BY DEF InventoryInv
<1>2. InventoryTypeOK'
  BY <1>1, InventoryAssumption DEF InventoryTypeOK, ListQueue, Slot, SlotRec, QueueRec
<1>3. (\A row \in ShelfRow : Current(row) => Current(row)') /\ (\A b \in CountRec : AsSeen(b) => AsSeen(b)')
  BY <1>1, <1>2, ReadStaysTrue DEF InventoryTypeOK, ListQueue, Slot
<1>4. CountsInv'
  BY <1>1, <1>3, CountsMove DEF Waits, ListQueue, Slot
<1>5. RowsInv'
  BY <1>1, <1>3 DEF RowsInv, InventoryTypeOK, SlotRec, QueueRec, ListQueue, Slot
<1>6. UnsettledInv'
  BY <1>1, InventoryAssumption DEF UnsettledInv, NoCountForgotten, InventoryTypeOK, SlotRec, QueueRec, CountRec, OpIds, ListQueue, Slot
<1> QED
  BY <1>2, <1>4, <1>5, <1>6 DEF InventoryInv

\* The pass sends what it read from the queue.
LEMMA SendsNext ==
  ASSUME InventoryInv, SendNext
  PROVE  InventoryInv'
<1>1. InventoryTypeOK /\ CountsInv /\ RowsInv /\ UnsettledInv
  BY DEF InventoryInv
<1>2. InventoryTypeOK'
  BY <1>1, InventoryAssumption DEF InventoryTypeOK, SendNext, SlotRec
<1>3. (\A row \in ShelfRow : Current(row) => Current(row)') /\ (\A b \in CountRec : AsSeen(b) => AsSeen(b)')
  BY <1>1, <1>2, ReadStaysTrue DEF InventoryTypeOK, SendNext, InventoryTypeOK, SlotRec
<1>4. CountsInv'
  BY <1>1, <1>3, CountsMove, <1>1 DEF Waits, SendNext, InventoryTypeOK, SlotRec
<1>5. RowsInv'
  BY <1>1, <1>3 DEF RowsInv, InventoryTypeOK, SlotRec, QueueRec, SendNext
<1>6. UnsettledInv'
  BY <1>1, InventoryAssumption DEF UnsettledInv, NoCountForgotten, InventoryTypeOK, SlotRec, QueueRec, CountRec, OpIds, SendNext
<1> QED
  BY <1>2, <1>4, <1>5, <1>6 DEF InventoryInv

\* The API refuses a count for a reason that is not a version.
LEMMA RefusesCount ==
  ASSUME InventoryInv, RefuseCount
  PROVE  InventoryInv'
<1>1. InventoryTypeOK /\ CountsInv /\ RowsInv /\ UnsettledInv
  BY DEF InventoryInv
<1>2. InventoryTypeOK'
  BY <1>1, InventoryAssumption DEF InventoryTypeOK, RefuseCount, SlotRec
<1>3. (\A row \in ShelfRow : Current(row) => Current(row)') /\ (\A b \in CountRec : AsSeen(b) => AsSeen(b)')
  BY <1>1, <1>2, ReadStaysTrue DEF InventoryTypeOK, RefuseCount, InventoryTypeOK, SlotRec
<1>4. CountsInv'
  BY <1>1, <1>3, CountsMove DEF Waits, RefuseCount, InventoryTypeOK, SlotRec
<1>5. RowsInv'
  BY <1>1, <1>3 DEF RowsInv, InventoryTypeOK, SlotRec, QueueRec, RefuseCount
<1>6. UnsettledInv'
  BY <1>1, InventoryAssumption DEF UnsettledInv, NoCountForgotten, InventoryTypeOK, SlotRec, QueueRec, CountRec, OpIds, RefuseCount
<1> QED
  BY <1>2, <1>4, <1>5, <1>6 DEF InventoryInv

\* The author of a count gives it up (discardUpdate).
LEMMA DiscardsUpdate ==
  ASSUME InventoryInv, DiscardUpdate
  PROVE  InventoryInv'
<1>1. InventoryTypeOK /\ CountsInv /\ RowsInv /\ UnsettledInv
  BY DEF InventoryInv
<1>2. InventoryTypeOK'
  BY <1>1, InventoryAssumption DEF InventoryTypeOK, DiscardUpdate
<1>3. (\A row \in ShelfRow : Current(row) => Current(row)') /\ (\A b \in CountRec : AsSeen(b) => AsSeen(b)')
  BY <1>1, <1>2, ReadStaysTrue DEF InventoryTypeOK, DiscardUpdate
<1>4. CountsInv'
  BY <1>1, <1>3, CountsMove DEF Waits, DiscardUpdate
<1>5. RowsInv'
  BY <1>1, <1>3 DEF RowsInv, InventoryTypeOK, SlotRec, QueueRec, DiscardUpdate
<1>6. UnsettledInv'
  BY <1>1, InventoryAssumption DEF UnsettledInv, NoCountForgotten, InventoryTypeOK, SlotRec, QueueRec, CountRec, OpIds, DiscardUpdate
<1> QED
  BY <1>2, <1>4, <1>5, <1>6 DEF InventoryInv

\* The pass gets no answer: the count stays in the queue.
LEMMA PassIsUnanswered ==
  ASSUME InventoryInv, PassUnanswered
  PROVE  InventoryInv'
<1>1. InventoryTypeOK /\ CountsInv /\ RowsInv /\ UnsettledInv
  BY DEF InventoryInv
<1>2. InventoryTypeOK'
  BY <1>1, InventoryAssumption DEF InventoryTypeOK, PassUnanswered, SlotRec
<1>3. (\A row \in ShelfRow : Current(row) => Current(row)') /\ (\A b \in CountRec : AsSeen(b) => AsSeen(b)')
  BY <1>1, <1>2, ReadStaysTrue DEF InventoryTypeOK, PassUnanswered
<1>4. CountsInv'
  BY <1>1, <1>3, CountsMove DEF Waits, PassUnanswered
<1>5. RowsInv'
  BY <1>1, <1>3 DEF RowsInv, InventoryTypeOK, SlotRec, QueueRec, PassUnanswered
<1>6. UnsettledInv'
  BY <1>1, InventoryAssumption DEF UnsettledInv, NoCountForgotten, InventoryTypeOK, SlotRec, QueueRec, CountRec, OpIds, PassUnanswered
<1> QED
  BY <1>2, <1>4, <1>5, <1>6 DEF InventoryInv

\* The answer of a pass removes the count it sent, or marks its conflict.
LEMMA PassIsAnswered ==
  ASSUME InventoryInv, PassAnswered
  PROVE  InventoryInv'
<1>1. InventoryTypeOK /\ CountsInv /\ RowsInv /\ UnsettledInv
  BY DEF InventoryInv
<1>2. InventoryTypeOK'
  BY ZenonT(60), <1>1, InventoryAssumption DEF InventoryTypeOK, PassAnswered, SlotRec, QueueRec, RowsInv
<1>3. (\A row \in ShelfRow : Current(row) => Current(row)') /\ (\A b \in CountRec : AsSeen(b) => AsSeen(b)')
  BY <1>1, <1>2, ReadStaysTrue DEF InventoryTypeOK, PassAnswered, InventoryTypeOK, SlotRec, QueueRec
<1>4. CountsInv'
  BY <1>1, <1>3, CountsMove DEF Waits, PassAnswered, InventoryTypeOK, SlotRec, QueueRec
<1>5. RowsInv'
  BY <1>1, <1>3 DEF RowsInv, InventoryTypeOK, SlotRec, QueueRec, PassAnswered
<1>6. UnsettledInv'
  BY ZenonT(60), <1>1, InventoryAssumption DEF UnsettledInv, NoCountForgotten, InventoryTypeOK, SlotRec, QueueRec, CountRec, OpIds, PassAnswered
<1> QED
  BY <1>2, <1>4, <1>5, <1>6 DEF InventoryInv

\* A count that was sent at once is answered.
LEMMA DirectIsAnswered ==
  ASSUME InventoryInv, DirectAnswered
  PROVE  InventoryInv'
<1>1. InventoryTypeOK /\ CountsInv /\ RowsInv /\ UnsettledInv
  BY DEF InventoryInv
<1>2. InventoryTypeOK'
  BY <1>1, InventoryAssumption DEF InventoryTypeOK, DirectAnswered, SlotRec, RowsInv
<1>3. (\A row \in ShelfRow : Current(row) => Current(row)') /\ (\A b \in CountRec : AsSeen(b) => AsSeen(b)')
  BY <1>1, <1>2, ReadStaysTrue DEF InventoryTypeOK, DirectAnswered
<1>4. CountsInv'
  BY <1>1, <1>3, CountsMove DEF Waits, DirectAnswered
<1>5. RowsInv'
  BY <1>1, <1>3 DEF RowsInv, InventoryTypeOK, SlotRec, QueueRec, DirectAnswered
<1>6. UnsettledInv'
  BY <1>1, InventoryAssumption DEF UnsettledInv, NoCountForgotten, InventoryTypeOK, SlotRec, QueueRec, CountRec, OpIds, DirectAnswered
<1> QED
  BY <1>2, <1>4, <1>5, <1>6 DEF InventoryInv

\* A count that was sent at once and got no answer is put in the queue.
LEMMA DirectIsUnanswered ==
  ASSUME InventoryInv, DirectUnanswered
  PROVE  InventoryInv'
<1>1. InventoryTypeOK /\ CountsInv /\ RowsInv /\ UnsettledInv
  BY DEF InventoryInv
<1>q. PICK m \in QueueRec : m = [count |-> direct.count, status |-> "pending", row |-> NoCount]
  BY <1>1 DEF DirectUnanswered, InventoryTypeOK, SlotRec, QueueRec
<1>e. /\ queue' = m /\ m.count = direct.count /\ m.status = "pending" /\ m # NoCount
      /\ direct \in SlotRec /\ direct # NoCount /\ direct' = NoCount /\ crossed' = (crossed \/ passing # NoCount)
      /\ UNCHANGED <<shelf, ops, shown, passing, lastOp, unsettled, done>>
  BY <1>1, <1>q, InventoryAssumption DEF DirectUnanswered, InventoryTypeOK
<1>2. InventoryTypeOK'
  BY <1>1, <1>q, <1>e, InventoryAssumption DEF InventoryTypeOK, DirectUnanswered, SlotRec, QueueRec
<1>3. (\A row \in ShelfRow : Current(row) => Current(row)') /\ (\A b \in CountRec : AsSeen(b) => AsSeen(b)')
  BY <1>1, <1>2, ReadStaysTrue DEF InventoryTypeOK, DirectUnanswered
<1>4. CountsInv'
  BY <1>1, <1>3, CountsMove, <1>q, <1>e DEF Waits, DirectUnanswered
<1>5. RowsInv'
  BY <1>1, <1>3, <1>e DEF RowsInv, InventoryTypeOK, SlotRec, QueueRec, Current
<1>6. UnsettledInv'
  BY <1>1, <1>q, <1>e, InventoryAssumption DEF UnsettledInv, NoCountForgotten, InventoryTypeOK, SlotRec, QueueRec, CountRec, OpIds, Waits
<1> QED
  BY <1>2, <1>4, <1>5, <1>6 DEF InventoryInv

\* setStock serves a count that was sent at once.
LEMMA SetsDirectly ==
  ASSUME InventoryInv, SetStockDirectly
  PROVE  InventoryInv'
<1>1. InventoryTypeOK /\ CountsInv /\ RowsInv /\ UnsettledInv
  BY DEF InventoryInv
<1>c. PICK c \in CountRec : c = direct.count /\ direct # NoCount
  BY <1>1 DEF SetStockDirectly, InventoryTypeOK, SlotRec
<1>s. SetStockTo(c) /\ Verdict(c) \in {"ok", "conflict"}
  BY <1>c DEF SetStockDirectly, Verdict
<1>e. /\ shelf' \in ShelfRow /\ (shelf' = shelf \/ shelf'.version = shelf.version + 1)
      /\ ops' \subseteq OpIds /\ unsettled' \in {0, unsettled} /\ done' \subseteq OpIds
      /\ Verdict(c) = "ok" => unsettled' # c.op
      /\ unsettled' # unsettled => unsettled = c.op
  BY <1>1, <1>c, <1>s, CountSet DEF InventoryTypeOK
<1>m. PICK m \in SlotRec : m = [direct EXCEPT !.state = Verdict(c), !.row = shelf']
  BY <1>1, <1>c, <1>s, <1>e DEF InventoryTypeOK, SlotRec
<1>p. direct' = m /\ m.count = c /\ m.state = Verdict(c) /\ m.row = shelf' /\ m # NoCount
      /\ direct.state = "sent"
  BY <1>1, <1>c, <1>m, InventoryAssumption DEF SetStockDirectly, Replied, InventoryTypeOK, SlotRec
<1>u. UNCHANGED <<shown, queue, passing, strays, lastOp, crossed>>
  BY DEF SetStockDirectly
<1>2. InventoryTypeOK'
  BY <1>1, <1>e, <1>p, <1>u, InventoryAssumption DEF InventoryTypeOK, OpIds
<1>3. (\A row \in ShelfRow : Current(row) => Current(row)') /\ (\A b \in CountRec : AsSeen(b) => AsSeen(b)')
  BY <1>1, <1>2, <1>e, ReadStaysTrue DEF InventoryTypeOK
<1>4. CountsInv'
  BY <1>1, <1>3, <1>c, <1>p, <1>u, CountsMove DEF Waits
<1>5. RowsInv'
  BY <1>1, <1>3, <1>2, <1>e, <1>p, <1>u DEF RowsInv, InventoryTypeOK, SlotRec, QueueRec, Current, ShelfRow
<1>6. UnsettledInv'
  BY <1>1, <1>c, <1>e, <1>p, <1>u, <1>s, InventoryAssumption DEF UnsettledInv, NoCountForgotten, InventoryTypeOK, SlotRec, QueueRec, CountRec, OpIds, CountsInv, Waits
<1> QED
  BY <1>2, <1>4, <1>5, <1>6 DEF InventoryInv

\* setStock serves a count that a pass sent.
LEMMA SetsByPass ==
  ASSUME InventoryInv, SetStockByPass
  PROVE  InventoryInv'
<1>1. InventoryTypeOK /\ CountsInv /\ RowsInv /\ UnsettledInv
  BY DEF InventoryInv
<1>c. PICK c \in CountRec : c = passing.count /\ passing # NoCount
  BY <1>1 DEF SetStockByPass, InventoryTypeOK, SlotRec
<1>s. SetStockTo(c) /\ Verdict(c) \in {"ok", "conflict"}
  BY <1>c DEF SetStockByPass, Verdict
<1>e. /\ shelf' \in ShelfRow /\ (shelf' = shelf \/ shelf'.version = shelf.version + 1)
      /\ ops' \subseteq OpIds /\ unsettled' \in {0, unsettled} /\ done' \subseteq OpIds
      /\ Verdict(c) = "ok" => unsettled' # c.op
      /\ unsettled' # unsettled => unsettled = c.op
  BY <1>1, <1>c, <1>s, CountSet DEF InventoryTypeOK
<1>m. PICK m \in SlotRec : m = [passing EXCEPT !.state = Verdict(c), !.row = shelf']
  BY <1>1, <1>c, <1>s, <1>e DEF InventoryTypeOK, SlotRec
<1>p. passing' = m /\ m.count = c /\ m.state = Verdict(c) /\ m.row = shelf' /\ m # NoCount
      /\ passing.state = "sent"
  BY <1>1, <1>c, <1>m, InventoryAssumption DEF SetStockByPass, Replied, InventoryTypeOK, SlotRec
<1>u. UNCHANGED <<shown, queue, direct, strays, lastOp, crossed>>
  BY DEF SetStockByPass
<1>2. InventoryTypeOK'
  BY <1>1, <1>e, <1>p, <1>u, InventoryAssumption DEF InventoryTypeOK, OpIds
<1>3. (\A row \in ShelfRow : Current(row) => Current(row)') /\ (\A b \in CountRec : AsSeen(b) => AsSeen(b)')
  BY <1>1, <1>2, <1>e, ReadStaysTrue DEF InventoryTypeOK
<1>4. CountsInv'
  BY <1>1, <1>3, <1>c, <1>p, <1>u, CountsMove DEF Waits
<1>5. RowsInv'
  BY <1>1, <1>3, <1>2, <1>e, <1>p, <1>u DEF RowsInv, InventoryTypeOK, SlotRec, QueueRec, Current, ShelfRow
<1>6. UnsettledInv'
  BY <1>1, <1>c, <1>e, <1>p, <1>u, <1>s, InventoryAssumption DEF UnsettledInv, NoCountForgotten, InventoryTypeOK, SlotRec, QueueRec, CountRec, OpIds, CountsInv, Waits
<1> QED
  BY <1>2, <1>4, <1>5, <1>6 DEF InventoryInv

\* setStock serves a count whose sender has stopped waiting.
LEMMA SetsLate ==
  ASSUME InventoryInv, NEW c \in strays, SetStockLate(c)
  PROVE  InventoryInv'
<1>1. InventoryTypeOK /\ CountsInv /\ RowsInv /\ UnsettledInv
  BY DEF InventoryInv
<1>s. SetStockTo(c) /\ c \in CountRec
  BY <1>1 DEF SetStockLate, InventoryTypeOK
<1>e. /\ shelf' \in ShelfRow /\ (shelf' = shelf \/ shelf'.version = shelf.version + 1)
      /\ ops' \subseteq OpIds /\ unsettled' \in {0, unsettled} /\ done' \subseteq OpIds
      /\ unsettled' # unsettled => unsettled = c.op
  BY <1>1, <1>s, CountSet DEF InventoryTypeOK
<1>u. UNCHANGED <<shown, queue, passing, direct, lastOp, crossed>> /\ strays' = strays \ {c}
  BY DEF SetStockLate
<1>2. InventoryTypeOK'
  BY <1>1, <1>e, <1>u, InventoryAssumption DEF InventoryTypeOK, OpIds
<1>3. (\A row \in ShelfRow : Current(row) => Current(row)') /\ (\A b \in CountRec : AsSeen(b) => AsSeen(b)')
  BY <1>1, <1>2, <1>e, ReadStaysTrue DEF InventoryTypeOK
<1>4. CountsInv'
  BY <1>1, <1>3, <1>u, CountsMove DEF Waits
<1>5. RowsInv'
  BY <1>1, <1>3, <1>2, <1>e, <1>u DEF RowsInv, InventoryTypeOK, SlotRec, QueueRec, Current, ShelfRow
<1>6. UnsettledInv'
  BY <1>1, <1>e, <1>u, InventoryAssumption DEF UnsettledInv, NoCountForgotten, InventoryTypeOK, SlotRec, QueueRec, CountRec, OpIds, CountsInv
<1> QED
  BY <1>2, <1>4, <1>5, <1>6 DEF InventoryInv

\* A count is written down over what the screen shows, and sent or queued.
LEMMA SavesInventory ==
  ASSUME InventoryInv, NEW n \in Stock, NEW online \in BOOLEAN, SaveInventory(n, online)
  PROVE  InventoryInv'
<1>1. InventoryTypeOK /\ CountsInv /\ RowsInv /\ UnsettledInv
  BY DEF InventoryInv
<1>c. PICK c \in CountRec : /\ c = Count(lastOp + 1, lastOp + 1, n, shown) /\ c.op = lastOp + 1
                             /\ c.expected = shown.version /\ c.seen = shown.stock
  BY <1>1, InventoryAssumption DEF SaveInventory, Count, InventoryTypeOK, ShelfRow, CountRec, OpIds
<1>q. PICK m \in QueueRec : m = [count |-> c, status |-> "pending", row |-> NoCount]
  BY <1>c DEF QueueRec
<1>d. PICK k \in SlotRec : k = Slot(c, "sent")
  BY <1>c DEF Slot, SlotRec
<1>f. m # NoCount /\ k # NoCount /\ m.count = c /\ k.count = c /\ m.status = "pending" /\ k.state = "sent"
  BY <1>q, <1>d, InventoryAssumption DEF Slot
<1>e. /\ direct = NoCount /\ lastOp < MaxOps /\ lastOp' = lastOp + 1 /\ unsettled' = lastOp'
      /\ UNCHANGED <<shelf, ops, shown, passing, strays, done>>
      /\ \/ direct' = k /\ UNCHANGED <<queue, crossed>>
         \/ /\ queue' = m /\ UNCHANGED direct
            /\ crossed' = (crossed \/ passing # NoCount)
  BY <1>c, <1>q, <1>d, Zenon DEF SaveInventory
<1>h. /\ crossed' \in BOOLEAN
      /\ \/ direct' = k /\ UNCHANGED queue /\ (~crossed' => ~crossed)
         \/ queue' = m /\ UNCHANGED direct /\ (~crossed' => ~crossed /\ passing = NoCount)
  <2>1. crossed \in BOOLEAN
    BY <1>1 DEF InventoryTypeOK
  <2>2. CASE direct' = k /\ UNCHANGED <<queue, crossed>>
    BY <2>1, <2>2
  <2>3. CASE queue' = m /\ UNCHANGED direct /\ crossed' = (crossed \/ passing # NoCount)
    BY <2>1, <2>3, Zenon
  <2> QED
    BY <1>e, <2>2, <2>3, Zenon
<1>g. /\ direct = NoCount /\ lastOp \in Nat /\ lastOp' = lastOp + 1 /\ lastOp' \in 0..MaxOps /\ unsettled' = lastOp'
      /\ UNCHANGED <<shelf, ops, shown, passing, strays, done>> /\ crossed' \in BOOLEAN
      /\ \/ direct' = k /\ UNCHANGED queue /\ (~crossed' => ~crossed)
         \/ queue' = m /\ UNCHANGED direct /\ (~crossed' => ~crossed /\ passing = NoCount)
  BY <1>1, <1>e, <1>h, InventoryAssumption DEF InventoryTypeOK
<1>o. \A d \in CountRec : Waits(d) => d.op # c.op
  BY <1>1, <1>c, <1>g DEF CountsInv, CountRec, OpIds
<1>a. AsSeen(c)'
  BY <1>1, <1>c, <1>g DEF RowsInv, Current, AsSeen
<1>2. InventoryTypeOK'
  BY <1>1, <1>c, <1>g, InventoryAssumption DEF InventoryTypeOK, OpIds
<1>3. (\A row \in ShelfRow : Current(row) => Current(row)') /\ (\A b \in CountRec : AsSeen(b) => AsSeen(b)')
  BY <1>1, <1>2, <1>g, ReadStaysTrue DEF InventoryTypeOK
<1>4. CountsInv'
  BY <1>1, <1>3, <1>c, <1>g, <1>f, <1>a, CountsBegin DEF Waits
<1>5. RowsInv'
  BY <1>1, <1>3, <1>g, <1>f DEF RowsInv, InventoryTypeOK, SlotRec, QueueRec, Current
<1>6. UnsettledInv'
  BY <1>1, <1>c, <1>g, <1>f, <1>o, InventoryAssumption DEF UnsettledInv, NoCountForgotten, InventoryTypeOK, SlotRec, QueueRec, CountRec, OpIds, Waits
<1> QED
  BY <1>2, <1>4, <1>5, <1>6 DEF InventoryInv

\* The author of a count in conflict keeps it, over the row that was found.
LEMMA ResolvesConflict ==
  ASSUME InventoryInv, ResolveConflict
  PROVE  InventoryInv'
<1>1. InventoryTypeOK /\ CountsInv /\ RowsInv /\ UnsettledInv
  BY DEF InventoryInv
<1>r. queue \in QueueRec /\ queue.row \in ShelfRow /\ Current(queue.row) /\ queue.count \in CountRec /\ queue # NoCount
  BY <1>1 DEF ResolveConflict, RowsInv, InventoryTypeOK, QueueRec
<1>c. PICK c \in CountRec : /\ c = Count(lastOp + 1, queue.count.first, queue.count.stock, queue.row) /\ c.op = lastOp + 1
                             /\ c.expected = queue.row.version /\ c.seen = queue.row.stock
  BY <1>1, <1>r, InventoryAssumption DEF ResolveConflict, Count, InventoryTypeOK, ShelfRow, CountRec, OpIds
<1>q. PICK m \in QueueRec : m = [count |-> c, status |-> "pending", row |-> NoCount]
  BY <1>c DEF QueueRec
<1>e. /\ lastOp < MaxOps /\ lastOp' = lastOp + 1
      /\ unsettled' = IF unsettled = queue.count.op THEN lastOp' ELSE unsettled
      /\ UNCHANGED <<shelf, ops, shown, passing, strays, direct, done>>
      /\ queue' = m /\ crossed' = (crossed \/ passing # NoCount)
  BY <1>c, <1>q, Zenon DEF ResolveConflict
<1>h. crossed' \in BOOLEAN /\ (~crossed' => ~crossed /\ passing = NoCount)
  BY <1>1, <1>e, Zenon DEF InventoryTypeOK
<1>g. /\ lastOp \in Nat /\ lastOp' = lastOp + 1 /\ lastOp' \in 0..MaxOps
      /\ unsettled' = IF unsettled = queue.count.op THEN lastOp' ELSE unsettled
      /\ UNCHANGED <<shelf, ops, shown, passing, strays, direct, done>>
      /\ queue' = m /\ m.count = c /\ m.status = "pending" /\ m # NoCount
      /\ crossed' \in BOOLEAN /\ (~crossed' => ~crossed /\ passing = NoCount)
  BY <1>1, <1>e, <1>h, <1>q, InventoryAssumption DEF InventoryTypeOK
<1>o. \A d \in CountRec : Waits(d) => d.op # c.op
  BY <1>1, <1>c, <1>g DEF CountsInv, CountRec, OpIds
<1>a. AsSeen(c)'
  BY <1>r, <1>c, <1>g DEF Current, AsSeen
<1>2. InventoryTypeOK'
  BY <1>1, <1>c, <1>q, <1>g, InventoryAssumption DEF InventoryTypeOK, OpIds
<1>3. (\A row \in ShelfRow : Current(row) => Current(row)') /\ (\A b \in CountRec : AsSeen(b) => AsSeen(b)')
  BY <1>1, <1>2, <1>g, ReadStaysTrue DEF InventoryTypeOK
<1>4. CountsInv'
  BY <1>1, <1>3, <1>c, <1>g, <1>a, CountsBegin DEF Waits
<1>5. RowsInv'
  BY <1>1, <1>3, <1>g DEF RowsInv, InventoryTypeOK, SlotRec, QueueRec, Current
<1>6. UnsettledInv'
  BY <1>1, <1>r, <1>c, <1>q, <1>g, <1>o, InventoryAssumption DEF UnsettledInv, NoCountForgotten, InventoryTypeOK, SlotRec, QueueRec, CountRec, OpIds, Waits
<1> QED
  BY <1>2, <1>4, <1>5, <1>6 DEF InventoryInv

\* Nothing moves.
LEMMA InventoryRests ==
  ASSUME InventoryInv, UNCHANGED inventoryVars
  PROVE  InventoryInv'
  BY DEF inventoryVars, InventoryInv, InventoryTypeOK, CountsInv, RowsInv, UnsettledInv, NoCountForgotten,
         Waits, Current, AsSeen

\* The queue starts empty and the screen shows the shelf.
LEMMA InventoryInitially == InventoryInit => InventoryInv
<1> SUFFICES ASSUME InventoryInit PROVE InventoryInv
  OBVIOUS
<1>1. shelf \in ShelfRow /\ shown = shelf
  BY InventoryAssumption DEF InventoryInit, RowAt, ShelfRow, Stock
<1>2. InventoryTypeOK
  <2>1. /\ direct = NoCount /\ passing = NoCount /\ queue = NoCount /\ ops = {} /\ strays = {}
        /\ lastOp = 0 /\ unsettled = 0 /\ done = {} /\ crossed = FALSE
    BY DEF InventoryInit
  <2>2. 0 \in 0..MaxOps
    BY InventoryAssumption
  <2> QED
    BY <1>1, <2>1, <2>2 DEF InventoryTypeOK
<1>3. CountsInv
  BY DEF InventoryInit, CountsInv, Waits
<1>4. RowsInv
  BY <1>1 DEF InventoryInit, RowsInv, Current, ShelfRow
<1>5. UnsettledInv
  BY DEF InventoryInit, UnsettledInv, NoCountForgotten
<1> QED
  BY <1>2, <1>3, <1>4, <1>5 DEF InventoryInv

\* The invariant of the counts holds of every behaviour.
THEOREM InventoryInvariance == InventorySpec => []InventoryInv
<1>1. InventoryInv /\ [InventoryNext]_inventoryVars => InventoryInv'
  <2> SUFFICES ASSUME InventoryInv, [InventoryNext]_inventoryVars PROVE InventoryInv'
    OBVIOUS
  <2>1. CASE UNCHANGED inventoryVars
    BY <2>1, InventoryRests
  <2>2. CASE Handles
    BY <2>2, SetsDirectly, SetsByPass, SetsLate DEF Handles
  <2>3. CASE \/ LoadInventory \/ DirectAnswered \/ DirectUnanswered \/ RefuseCount \/ ListQueue \/ SendNext
             \/ PassAnswered \/ PassUnanswered \/ ResolveConflict \/ DiscardUpdate
    BY <2>3, LoadsInventory, DirectIsAnswered, DirectIsUnanswered, RefusesCount, ListsQueue, SendsNext,
       PassIsAnswered, PassIsUnanswered, ResolvesConflict, DiscardsUpdate
  <2>4. CASE \E n \in Stock : MoveStock(n) \/ (\E online \in BOOLEAN : SaveInventory(n, online))
    BY <2>4, MovesStock, SavesInventory
  <2> QED
    BY <2>1, <2>2, <2>3, <2>4 DEF InventoryNext
<1> QED
  BY <1>1, InventoryInitially, PTL DEF InventorySpec

\* The last count saved is never lost: for any number of counts, of versions and of
\* crossing answers.
THEOREM NoCountForgottenHolds == InventorySpec => []NoCountForgotten
<1>1. InventoryInv => NoCountForgotten
  BY DEF InventoryInv, UnsettledInv
<1> QED
  BY <1>1, InventoryInvariance, PTL

\* A count never overwrites a movement that its author had not seen, however late
\* and however often it arrives.
THEOREM CountsOverWhatWasSeenHolds == InventorySpec => CountsOverWhatWasSeen
<1> DEFINE OverSeen == \A c \in CountsSent :
                         /\ Handles /\ shelf' # shelf /\ c.op \in ops' \ ops
                         => shelf.stock = c.seen
<1>1. InventoryInv /\ [InventoryNext]_inventoryVars => [OverSeen]_inventoryVars
  <2> SUFFICES ASSUME InventoryInv, NEW b \in CountsSent,
                      Handles, shelf' # shelf, b.op \in ops' \ ops
               PROVE  shelf.stock = b.seen
    OBVIOUS
  <2>1. InventoryTypeOK /\ CountsInv
    BY DEF InventoryInv
  <2>2. b \in CountRec /\ Waits(b)
    BY <2>1 DEF CountsSent, InventoryTypeOK, SlotRec, Waits
  <2>3. PICK d \in CountRec : Waits(d) /\ SetStockTo(d)
    BY <2>1 DEF InventoryTypeOK, SlotRec, Waits, Handles, SetStockDirectly, SetStockByPass, SetStockLate
  <2>4. d.expected = shelf.version /\ ops' = ops \cup {d.op}
    BY <2>1, <2>3, CountSet DEF InventoryTypeOK
  <2>5. b = d
    BY <2>1, <2>2, <2>3, <2>4 DEF CountsInv
  <2> QED
    BY <2>1, <2>2, <2>4, <2>5 DEF CountsInv, AsSeen
<1> QED
  BY <1>1, InventoryInvariance, PTL DEF InventorySpec, CountsOverWhatWasSeen

\* What may come of a decision under several operations.  A count that was overtaken,
\* as the shelf moved on since it was read, can no longer be applied; of the counts
\* that stem from one decision only the newest, in a slot of the device, is not.
\* Whoever decides anew about a conflict decides about a count that was never applied.
Overtaken(c) == c.expected < shelf.version
Kept(c) ==
  \/ direct # NoCount /\ c = direct.count
  \/ passing # NoCount /\ c = passing.count
  \/ queue # NoCount /\ c = queue.count
InConflict(c) ==
  \/ passing # NoCount /\ passing.state = "conflict" /\ c = passing.count
  \/ queue # NoCount /\ queue.status = "conflict" /\ c = queue.count

OneLine ==
  /\ \A c \in CountRec : Waits(c) /\ c.first \in done => c.op \in ops \/ Overtaken(c)
  /\ \A c, d \in CountRec : Waits(c) /\ Waits(d) /\ c.first = d.first /\ c.op < d.op => Overtaken(c)
  /\ \A c, d \in CountRec : Waits(c) /\ Kept(d) /\ c.first = d.first => c.op <= d.op
  /\ \A c \in CountRec : Kept(c) /\ c.first \in done => c.op \in ops
  /\ \A c \in CountRec : InConflict(c) => c.first \notin done /\ Overtaken(c)

DecidedInv ==
  /\ \A i \in done : i <= lastOp
  /\ \A c \in CountRec : Waits(c) => c.first <= c.op
  /\ direct # NoCount => direct.count.first = direct.count.op
  /\ ~crossed => OneLine

SameDirect == direct' = NoCount \/ (direct # NoCount /\ direct'.count = direct.count)

\* Nothing is applied and nobody decides anew.
LEMMA DecisionsKeep ==
  ASSUME DecidedInv, UNCHANGED <<done, ops, lastOp>>, SameDirect,
         \A c \in CountRec : Overtaken(c) => Overtaken(c)',
         \A c \in CountRec : Waits(c)' => Waits(c), \A c \in CountRec : Kept(c)' => Kept(c),
         ~crossed' => ~crossed /\ (\A c \in CountRec : InConflict(c)' => InConflict(c))
  PROVE  DecidedInv'
<1>1. ~crossed' => OneLine'
  BY DEF DecidedInv, OneLine
<1> QED
  BY <1>1 DEF DecidedInv, SameDirect

\* The API answers a count: one that it applies overtakes all that wait.
LEMMA DecisionsServed ==
  ASSUME InventoryInv, DecidedInv, NEW d \in CountRec, Waits(d), SetStockTo(d), lastOp' = lastOp, crossed' = crossed,
         SameDirect,
         \A c \in CountRec : Waits(c)' => Waits(c), \A c \in CountRec : Kept(c)' => Kept(c),
         \A c \in CountRec : InConflict(c)' => InConflict(c) \/ (c = d /\ Kept(d) /\ Verdict(d) = "conflict")
  PROVE  DecidedInv'
<1>1. InventoryTypeOK /\ CountsInv
  BY DEF InventoryInv
<1>2. /\ \A c \in CountRec : c.op \in Nat /\ c.first \in Nat /\ c.expected \in Nat
      /\ shelf.version \in Nat /\ lastOp \in Nat
  BY <1>1 DEF InventoryTypeOK, CountRec, OpIds, ShelfRow
<1>3. \A c \in CountRec : Waits(c) => c.op <= lastOp /\ c.expected <= shelf.version
  BY <1>1 DEF CountsInv, AsSeen
<1>4. \A c \in CountRec : Waits(c)' => c.first <= c.op
  BY DEF DecidedInv
<1>5. direct' # NoCount => direct'.count.first = direct'.count.op
  BY DEF DecidedInv, SameDirect
<1>6. CASE Applies(d)
  <2>1. shelf'.version = shelf.version + 1 /\ ops' = ops \cup {d.op} /\ done' = done \cup {d.first}
    BY <1>6 DEF Applies, SetStockTo, SettleCount, Verdict, Written, RowAt
  <2>2. \A c \in CountRec : Waits(c) => Overtaken(c)'
    BY <1>2, <1>3, <2>1 DEF Overtaken
  <2>3. \A i \in done' : i <= lastOp'
    BY <1>2, <1>3, <2>1 DEF DecidedInv
  <2>4. ASSUME ~crossed PROVE OneLine'
    <3>1. d.op \notin ops /\ ~Overtaken(d)
      BY <1>2, <1>6 DEF Applies, Overtaken
    <3>2. \A c \in CountRec : Kept(c)' /\ c.first = d.first => c.op = d.op
      BY <1>2, <2>4, <3>1 DEF DecidedInv, OneLine, Waits, Kept
    <3>3. \A c \in CountRec : InConflict(c)' => InConflict(c) /\ Kept(c)
      BY <1>6 DEF Verdict, Applies, InConflict, Kept
    <3>4. \A c \in CountRec : InConflict(c) /\ c.first = d.first => c = d
      <4> SUFFICES ASSUME NEW c \in CountRec, InConflict(c), c.first = d.first PROVE c = d
        OBVIOUS
      <4>1. Kept(c) /\ Waits(c)
        BY DEF InConflict, Kept, Waits
      <4>2. d.op <= c.op /\ ~(d.op < c.op)
        BY <2>4, <3>1, <4>1 DEF DecidedInv, OneLine
      <4> QED
        BY <1>1, <1>2, <4>1, <4>2 DEF CountsInv
    <3>5. \A c \in CountRec : InConflict(c)' => c.first \notin done' /\ Overtaken(c)'
      BY <2>1, <2>2, <2>4, <3>1, <3>3, <3>4 DEF DecidedInv, OneLine, Waits, Kept
    <3> QED
      BY <2>1, <2>2, <2>4, <3>2, <3>5 DEF DecidedInv, OneLine
  <2> QED
    BY <1>4, <1>5, <2>3, <2>4 DEF DecidedInv
<1>7. CASE ~Applies(d)
  <2>1. shelf' = shelf /\ done' = done /\ ops \subseteq ops'
    BY <1>7 DEF SetStockTo, SettleCount
  <2>2. ASSUME ~crossed PROVE OneLine'
    <3>1. Verdict(d) = "conflict" => d.op \notin ops /\ Overtaken(d)
      BY <1>2, <1>3 DEF Verdict, Overtaken
    <3>2. \A c \in CountRec : InConflict(c)' => c.first \notin done' /\ Overtaken(c)'
      BY <2>1, <2>2, <3>1 DEF DecidedInv, OneLine, Overtaken
    <3> QED
      BY <2>1, <2>2, <3>2 DEF DecidedInv, OneLine, Overtaken
  <2> QED
    BY <1>4, <1>5, <2>1, <2>2 DEF DecidedInv
<1> QED
  BY <1>6, <1>7

\* A count begins: a decision of its own, or one about a conflict, which it replaces.
LEMMA DecisionBegins ==
  ASSUME InventoryInv, DecidedInv, UNCHANGED <<shelf, done, ops>>, lastOp' = lastOp + 1,
         NEW n \in CountRec, n.op = lastOp', n.first <= n.op,
         direct' # NoCount => direct'.count.first = direct'.count.op,
         \A c \in CountRec : Waits(c)' => Waits(c) \/ c = n, \A c \in CountRec : Kept(c)' => Kept(c) \/ c = n,
         ~crossed' => /\ ~crossed /\ \A c \in CountRec : InConflict(c)' => InConflict(c)
                      /\ n.first \notin done
                      /\ \A c \in CountRec : Waits(c) /\ c.first = n.first => Overtaken(c) /\ ~Kept(c)'
  PROVE  DecidedInv'
<1>1. InventoryTypeOK /\ CountsInv
  BY DEF InventoryInv
<1>2. /\ \A c \in CountRec : c.op \in Nat /\ c.first \in Nat
      /\ lastOp \in Nat /\ done \subseteq Nat
  BY <1>1 DEF InventoryTypeOK, CountRec, OpIds
<1>3. \A c \in CountRec : Waits(c) => c.op <= lastOp
  BY <1>1 DEF CountsInv
<1>4. ASSUME ~crossed' PROVE OneLine'
  <2>1. \A c \in CountRec : Waits(c) => c # n /\ c.op < n.op
    BY <1>2, <1>3
  <2>2. \A c \in CountRec : Waits(c)' /\ c.first \in done' => c.op \in ops' \/ Overtaken(c)'
    BY <1>4 DEF DecidedInv, OneLine, Overtaken
  <2>3. \A c, d \in CountRec : Waits(c)' /\ Waits(d)' /\ c.first = d.first /\ c.op < d.op => Overtaken(c)'
    BY <1>2, <1>4, <2>1 DEF DecidedInv, OneLine, Overtaken
  <2>4. \A c, d \in CountRec : Waits(c)' /\ Kept(d)' /\ c.first = d.first => c.op <= d.op
    <3> SUFFICES ASSUME NEW c \in CountRec, NEW d \in CountRec, Waits(c)', Kept(d)', c.first = d.first PROVE c.op <= d.op
      OBVIOUS
    <3>1. CASE d = n
      BY <1>2, <2>1, <3>1
    <3>2. CASE d # n
      <4>1. Kept(d) /\ Waits(d)
        BY <3>2 DEF Kept, Waits
      <4>2. c # n
        BY <1>4, <4>1
      <4> QED
        BY <1>4, <4>1, <4>2 DEF DecidedInv, OneLine
    <3> QED
      BY <3>1, <3>2
  <2>5. \A c \in CountRec : Kept(c)' /\ c.first \in done' => c.op \in ops'
    BY <1>4 DEF DecidedInv, OneLine
  <2>6. \A c \in CountRec : InConflict(c)' => c.first \notin done' /\ Overtaken(c)'
    BY <1>4 DEF DecidedInv, OneLine, Overtaken
  <2> QED
    BY <2>2, <2>3, <2>4, <2>5, <2>6 DEF OneLine
<1> QED
  BY <1>2, <1>3, <1>4 DEF DecidedInv

\* Every step keeps what is known of the decisions.
LEMMA DecisionsStep ==
  ASSUME InventoryInv, InventoryInv', DecidedInv, [InventoryNext]_inventoryVars
  PROVE  DecidedInv'
<1>1. InventoryTypeOK /\ CountsInv /\ RowsInv /\ UnsettledInv
  BY DEF InventoryInv
<1>2. \A c \in CountRec : c.expected \in Nat /\ c.op \in Nat /\ c.first \in Nat
  BY DEF CountRec, OpIds
<1>3. CASE UNCHANGED inventoryVars
  BY <1>3 DEF inventoryVars, DecidedInv, OneLine, Waits, Kept, InConflict, Overtaken
<1>4. ASSUME NEW n \in Stock, MoveStock(n) PROVE DecidedInv'
  <2>1. shelf'.version = shelf.version + 1 /\ shelf.version \in Nat
    BY <1>1, <1>4 DEF MoveStock, RowAt, InventoryTypeOK, ShelfRow
  <2>2. \A c \in CountRec : Overtaken(c) => Overtaken(c)'
    BY <1>2, <2>1 DEF Overtaken
  <2>3. UNCHANGED <<ops, shown, queue, direct, passing, strays, lastOp, unsettled, done, crossed>>
    BY <1>4 DEF MoveStock
  <2> QED
    BY <2>2, <2>3, DecisionsKeep DEF SameDirect, Waits, Kept, InConflict, DecidedInv
<1>5. CASE LoadInventory
  BY <1>5, DecisionsKeep DEF SameDirect, LoadInventory, Waits, Kept, InConflict, Overtaken
<1>6. CASE DirectAnswered
  BY <1>6, DecisionsKeep DEF SameDirect, DirectAnswered, Waits, Kept, InConflict, Overtaken
<1>7. CASE DirectUnanswered
  <2>1. /\ queue' # NoCount /\ queue'.count = direct.count /\ queue'.status = "pending" /\ direct # NoCount
        /\ direct' = NoCount /\ crossed' = (crossed \/ passing # NoCount)
        /\ strays' \subseteq strays \cup {direct.count}
        /\ UNCHANGED <<shelf, ops, shown, passing, lastOp, unsettled, done>>
    <3>1. [count |-> direct.count, status |-> "pending", row |-> NoCount] \in QueueRec
      BY <1>1, <1>7 DEF DirectUnanswered, InventoryTypeOK, SlotRec, QueueRec
    <3> QED
      BY <1>7, <3>1, InventoryAssumption DEF DirectUnanswered
  <2>2. ~crossed' => ~crossed
    BY <1>1, <2>1 DEF InventoryTypeOK
  <2> QED
    BY <2>1, <2>2, DecisionsKeep DEF SameDirect, Waits, Kept, InConflict, Overtaken
<1>8. CASE RefuseCount
  <2>1. /\ UNCHANGED <<shelf, ops, shown, queue, strays, lastOp, unsettled, done, crossed>>
        /\ direct' = direct \/ (direct # NoCount /\ direct'.count = direct.count)
        /\ passing' = passing \/ (passing # NoCount /\ passing'.count = passing.count /\ passing'.state = "refused")
    BY <1>1, <1>8 DEF RefuseCount, InventoryTypeOK, SlotRec
  <2> QED
    BY <2>1, DecisionsKeep DEF SameDirect, Waits, Kept, InConflict, Overtaken
<1>9. CASE ListQueue
  BY <1>9, DecisionsKeep DEF SameDirect, ListQueue, Slot, Waits, Kept, InConflict, Overtaken
<1>10. CASE SendNext
  <2>1. /\ UNCHANGED <<shelf, ops, shown, queue, direct, strays, lastOp, unsettled, done, crossed>>
        /\ passing # NoCount /\ passing'.count = passing.count
        /\ passing'.state = "sent"
    BY <1>1, <1>10 DEF SendNext, InventoryTypeOK, SlotRec
  <2> QED
    BY <2>1, DecisionsKeep DEF SameDirect, Waits, Kept, InConflict, Overtaken
<1>11. CASE PassAnswered
  <2>1. /\ UNCHANGED <<shelf, ops, direct, strays, lastOp, unsettled, done, crossed>>
        /\ passing # NoCount /\ passing' = NoCount
        /\ \/ queue' = NoCount
           \/ queue # NoCount /\ queue'.count = queue.count /\ queue'.status = "failed"
           \/ queue # NoCount /\ queue'.count = queue.count /\ passing.state = "conflict"
    <3>1. CASE passing.state = "ok" \/ queue = NoCount
      BY <1>11, <3>1 DEF PassAnswered
    <3>2. CASE passing.state = "refused" /\ queue # NoCount
      BY <1>1, <1>11, <3>2 DEF PassAnswered, InventoryTypeOK, QueueRec
    <3>3. CASE passing.state = "conflict" /\ queue # NoCount
      BY <1>1, <1>11, <3>3 DEF PassAnswered, InventoryTypeOK, QueueRec
    <3> QED
      BY <1>11, <3>1, <3>2, <3>3 DEF PassAnswered
  <2>2. ~crossed /\ queue # NoCount => queue.count = passing.count
    <3>1. queue # NoCount => queue.count \in CountRec /\ Waits(queue.count)
      BY <1>1 DEF InventoryTypeOK, QueueRec, Waits
    <3>2. passing.count \in CountRec /\ Waits(passing.count)
      BY <1>1, <2>1 DEF InventoryTypeOK, SlotRec, Waits
    <3> QED
      BY <1>1, <2>1, <3>1, <3>2 DEF UnsettledInv, CountsInv
  <2> QED
    BY <2>1, <2>2, DecisionsKeep DEF SameDirect, Waits, Kept, InConflict, Overtaken
<1>12. CASE PassUnanswered
  <2>1. /\ UNCHANGED <<shelf, ops, shown, queue, direct, lastOp, unsettled, done, crossed>>
        /\ passing # NoCount /\ passing' = NoCount /\ strays' \subseteq strays \cup {passing.count}
    BY <1>12 DEF PassUnanswered
  <2> QED
    BY <2>1, DecisionsKeep DEF SameDirect, Waits, Kept, InConflict, Overtaken
<1>13. CASE DiscardUpdate
  BY <1>13, DecisionsKeep DEF SameDirect, DiscardUpdate, Waits, Kept, InConflict, Overtaken
<1>14. CASE SetStockDirectly
  <2>1. direct # NoCount /\ direct.count \in CountRec /\ SetStockTo(direct.count)
        /\ direct'.count = direct.count /\ UNCHANGED <<shown, queue, passing, strays, lastOp, crossed>>
    BY <1>1, <1>14 DEF SetStockDirectly, Replied, InventoryTypeOK, SlotRec
  <2> QED
    BY <2>1, DecisionsServed DEF SameDirect, Waits, Kept, InConflict
<1>15. CASE SetStockByPass
  <2>1. passing # NoCount /\ passing.count \in CountRec /\ SetStockTo(passing.count)
        /\ passing'.count = passing.count /\ passing'.state = Verdict(passing.count)
        /\ UNCHANGED <<shown, queue, direct, strays, lastOp, crossed>>
    BY <1>1, <1>15 DEF SetStockByPass, Replied, InventoryTypeOK, SlotRec
  <2> QED
    BY <2>1, DecisionsServed DEF SameDirect, Waits, Kept, InConflict
<1>16. ASSUME NEW c \in strays, SetStockLate(c) PROVE DecidedInv'
  <2>1. c \in CountRec /\ SetStockTo(c) /\ strays' \subseteq strays
        /\ UNCHANGED <<shown, queue, direct, passing, lastOp, crossed>>
    BY <1>1, <1>16 DEF SetStockLate, InventoryTypeOK
  <2> QED
    BY <2>1, DecisionsServed DEF SameDirect, Waits, Kept, InConflict
<1>17. ASSUME NEW n \in Stock, NEW online \in BOOLEAN, SaveInventory(n, online) PROVE DecidedInv'
  <2>1. PICK c \in CountRec : /\ c = Count(lastOp + 1, lastOp + 1, n, shown)
                               /\ c.op = lastOp + 1 /\ c.first = lastOp + 1
    BY <1>1, <1>17, InventoryAssumption DEF SaveInventory, Count, InventoryTypeOK, ShelfRow, CountRec, OpIds
  <2>2. [count |-> c, status |-> "pending", row |-> NoCount] \in QueueRec /\ Slot(c, "sent") \in SlotRec
    BY <2>1 DEF QueueRec, SlotRec, Slot
  <2>3. /\ UNCHANGED <<shelf, done, ops, passing, strays>> /\ lastOp' = lastOp + 1 /\ direct = NoCount
        /\ \/ direct' # NoCount /\ direct'.count = c /\ UNCHANGED <<queue, crossed>>
           \/ /\ direct' = direct /\ queue' # NoCount /\ queue'.count = c /\ queue'.status = "pending"
              /\ crossed' = (crossed \/ passing # NoCount)
    <3>1. CASE online
      BY <1>17, <2>1, <2>2, <3>1, InventoryAssumption DEF SaveInventory, Slot
    <3>2. CASE ~online
      BY <1>17, <2>1, <2>2, <3>2, InventoryAssumption DEF SaveInventory
    <3> QED
      BY <3>1, <3>2
  <2>4. ~crossed' => ~crossed
    BY <1>1, <2>3 DEF InventoryTypeOK
  <2>5. lastOp \in Nat /\ c.first \notin done /\ \A d \in CountRec : Waits(d) => d.first # c.first
    BY <1>1, <1>2, <2>1 DEF DecidedInv, CountsInv, InventoryTypeOK
  <2> QED
    BY <2>1, <2>3, <2>4, <2>5, DecisionBegins DEF Waits, Kept, InConflict
<1>18. CASE ResolveConflict
  <2>1. queue \in QueueRec /\ queue.row \in ShelfRow /\ queue.count \in CountRec /\ queue # NoCount
        /\ queue.status = "conflict" /\ Waits(queue.count) /\ Kept(queue.count) /\ InConflict(queue.count)
    BY <1>1, <1>18 DEF ResolveConflict, RowsInv, InventoryTypeOK, QueueRec, Waits, Kept, InConflict
  <2>2. PICK c \in CountRec : /\ c = Count(lastOp + 1, queue.count.first, queue.count.stock, queue.row)
                               /\ c.op = lastOp + 1 /\ c.first = queue.count.first
    BY <1>1, <1>18, <2>1, InventoryAssumption DEF ResolveConflict, Count, InventoryTypeOK, ShelfRow, CountRec, OpIds
  <2>3. [count |-> c, status |-> "pending", row |-> NoCount] \in QueueRec
    BY <2>2 DEF QueueRec
  <2>4. /\ UNCHANGED <<shelf, done, ops, passing, strays, direct>> /\ lastOp' = lastOp + 1
        /\ queue' # NoCount /\ queue'.count = c /\ queue'.status = "pending"
        /\ crossed' = (crossed \/ passing # NoCount)
    BY <1>18, <2>2, <2>3, InventoryAssumption DEF ResolveConflict
  <2>5. ~crossed' => ~crossed /\ passing = NoCount
    BY <1>1, <2>4 DEF InventoryTypeOK
  <2>6. c.first <= c.op
    BY <1>1, <1>2, <2>1, <2>2 DEF DecidedInv, CountsInv, InventoryTypeOK
  <2>7. ASSUME ~crossed PROVE /\ c.first \notin done
                              /\ \A d \in CountRec : Waits(d) /\ d.first = c.first => Overtaken(d)
    <3>1. \A d \in CountRec : Waits(d) /\ d.first = c.first => d.op < queue.count.op \/ d = queue.count
      BY <1>1, <1>2, <2>1, <2>2, <2>7 DEF DecidedInv, OneLine, CountsInv
    <3> QED
      BY <2>1, <2>2, <2>7, <3>1 DEF DecidedInv, OneLine
  <2>8. ASSUME ~crossed, direct # NoCount PROVE direct.count.first # c.first
    <3>1. direct.count \in CountRec /\ Waits(direct.count) /\ Kept(direct.count) /\ direct.count.op # queue.count.op
      BY <1>1, <2>1, <2>8 DEF InventoryTypeOK, SlotRec, Waits, Kept, UnsettledInv
    <3>2. direct.count.first = direct.count.op
      BY <2>8 DEF DecidedInv
    <3> QED
      BY <1>2, <2>1, <2>2, <2>8, <3>1, <3>2 DEF DecidedInv, OneLine
  <2>9. ~crossed' => \A d \in CountRec : Waits(d) /\ d.first = c.first => ~Kept(d)'
    BY <1>1, <1>2, <2>1, <2>2, <2>4, <2>5, <2>8 DEF Kept, CountsInv, InventoryTypeOK
  <2>10. direct' # NoCount => direct'.count.first = direct'.count.op
    BY <2>4 DEF DecidedInv
  <2> QED
    BY <2>2, <2>4, <2>5, <2>6, <2>7, <2>9, <2>10, DecisionBegins DEF Waits, Kept, InConflict
<1> QED
  BY <1>3, <1>4, <1>5, <1>6, <1>7, <1>8, <1>9, <1>10, <1>11, <1>12, <1>13, <1>14, <1>15, <1>16, <1>17, <1>18
     DEF InventoryNext, Handles

\* A decision is applied at most once, for any number of counts, of operations under
\* which they are sent again and of movements between them.
THEOREM DecidedOnceHolds == InventorySpec => DecidedOnce
<1> DEFINE Once == \A c \in CountsSent : Handles /\ c.op \in ops' \ ops /\ c.first \in done => crossed
<1>1. InventoryInit => DecidedInv
  BY DEF InventoryInit, DecidedInv, OneLine, Waits, Kept, InConflict
<1>2. InventoryInv /\ InventoryInv' /\ DecidedInv /\ [InventoryNext]_inventoryVars => DecidedInv'
  BY DecisionsStep
<1>3. InventoryInv /\ DecidedInv /\ [InventoryNext]_inventoryVars => [Once]_inventoryVars
  <2> SUFFICES ASSUME InventoryInv, DecidedInv, ~crossed, NEW b \in CountsSent,
                      Handles, b.op \in ops' \ ops, b.first \in done
               PROVE  FALSE
    OBVIOUS
  <2>1. InventoryTypeOK /\ CountsInv
    BY DEF InventoryInv
  <2>2. b \in CountRec /\ Waits(b)
    BY <2>1 DEF CountsSent, InventoryTypeOK, SlotRec, Waits
  <2>3. PICK d \in CountRec : Waits(d) /\ SetStockTo(d)
    BY <2>1 DEF InventoryTypeOK, SlotRec, Waits, Handles, SetStockDirectly, SetStockByPass, SetStockLate
  <2>4. d.op = b.op /\ Verdict(d) = "ok"
    BY <2>3 DEF SetStockTo, SettleCount
  <2>5. d = b /\ b.op \notin ops
    BY <2>1, <2>2, <2>3, <2>4 DEF CountsInv
  <2>6. b.expected = shelf.version /\ b.expected \in Nat
    BY <2>4, <2>5 DEF Verdict, CountRec
  <2> QED
    BY <2>2, <2>5, <2>6 DEF DecidedInv, OneLine, Overtaken
<1> QED
  BY <1>1, <1>2, <1>3, InventoryInvariance, PTL DEF InventorySpec, DecidedOnce

-----------------------------------------------------------------------------
(* The profile *)

\* A request of a tab, or one that its tab no longer waits for.
UnderWay(m) == m \in late \/ \E t \in Tabs : tab[t] # Idle /\ m = tab[t].request

\* What the device made up of a change is known to it; as long as the change waits,
\* its requests carry what it says.
Consistent(m) ==
  /\ m.id <= lastId /\ DOMAIN m.changes = DOMAIN m.expected
  /\ \A f \in DOMAIN m.expected : \A v \in m.expected[f] : <<f, v>> \in known
  /\ pend # NoChange /\ m.id = pend.id => pend.sent /\ m.changes = pend.changes

SentInv == \A m \in MessageRec : UnderWay(m) => Consistent(m)

PendInv ==
  pend # NoChange =>
    /\ pend.id <= lastId
    /\ \A f \in DOMAIN pend.expected : \A v \in pend.expected[f] : <<f, v>> \in known
    /\ pend.sent => \A f \in DOMAIN pend.changes : <<f, pend.changes[f]>> \in known
    /\ pend.id \in receipts => pend.sent /\ owed = {}
    /\ pend.status = "conflict" => /\ pend.conflict \in Profiles
                                   /\ \A f \in Fields : <<f, pend.conflict[f]>> \in known
                                   /\ \A f \in owed : pend.conflict[f] # pend.changes[f]

\* The answer that a tab has received.
Truthful(t) ==
  tab[t] # Idle /\ tab[t].phase = "answered" =>
    /\ tab[t].kind \in {"ok", "conflict"} => tab[t].values \in Profiles
    /\ tab[t].kind = "ok" => tab[t].request.id \in receipts
    /\ tab[t].kind = "conflict" /\ pend # NoChange /\ pend.id = tab[t].request.id =>
         \A f \in owed : tab[t].values[f] # pend.changes[f]

AnswersInv ==
  /\ \A t \in Tabs : Truthful(t)
  /\ \A i \in receipts : i <= lastId
  /\ \A f \in Fields : <<f, snap[f]>> \in known

ProfileInv == ProfileTypeOK /\ SentInv /\ PendInv /\ AnswersInv /\ NoEditLost

-----------------------------------------------------------------------------
(* Functions of some of the fields *)

\* A partial function is a function of its domain.
LEMMA PartialsOf ==
  ASSUME NEW S, NEW g \in Partials(S)
  PROVE  DOMAIN g \subseteq Fields /\ g \in [DOMAIN g -> S]
  BY DEF Partials

\* A function of some of the fields is a partial function.
LEMMA APartial ==
  ASSUME NEW S, NEW X \in SUBSET Fields, NEW g \in [X -> S]
  PROVE  g \in Partials(S) /\ DOMAIN g = X
  BY DEF Partials

\* Changes laid over a profile give a profile: applyPendingValues.
LEMMA OverIsAProfile ==
  ASSUME NEW changes \in Partials(Values), NEW base \in Profiles
  PROVE  /\ Over(changes, base) \in Profiles
         /\ \A f \in Fields : f \in DOMAIN changes => Over(changes, base)[f] = changes[f]
         /\ \A f \in Fields : f \notin DOMAIN changes => Over(changes, base)[f] = base[f]
<1>1. DOMAIN changes \subseteq Fields /\ changes \in [DOMAIN changes -> Values]
  BY PartialsOf
<1> QED
  BY <1>1 DEF Over, Profiles

\* The parts of a change that waits.
LEMMA PendTypes ==
  ASSUME ProfileTypeOK, pend # NoChange
  PROVE  /\ pend \in PendRec /\ pend.id \in ChangeIds /\ pend.changes \in Partials(Values)
         /\ pend.expected \in Partials(SUBSET Values) /\ pend.sent \in BOOLEAN
         /\ DOMAIN pend.changes = DOMAIN pend.expected /\ DOMAIN pend.changes \subseteq Fields
         /\ Changed(pend) = DOMAIN pend.changes
<1>1. pend \in PendRec /\ DOMAIN pend.changes = DOMAIN pend.expected
  BY DEF ProfileTypeOK
<1>2. /\ pend.id \in ChangeIds /\ pend.changes \in Partials(Values)
      /\ pend.expected \in Partials(SUBSET Values) /\ pend.sent \in BOOLEAN
  BY <1>1 DEF PendRec
<1> QED
  BY <1>1, <1>2, PartialsOf DEF Changed

\* The request of a tab that is not idle.
LEMMA TabTypes ==
  ASSUME ProfileTypeOK, NEW t \in Tabs, tab[t].phase # "idle" \/ tab[t] # Idle
  PROVE  /\ tab[t] # Idle /\ tab[t].request \in MessageRec /\ tab[t].phase \in {"sent", "answered"}
         /\ tab[t].phase = "answered" =>
              tab[t].kind \in {"ok", "conflict", "error", "needs-login"} /\ tab[t].values \in Profiles \cup {NoValues}
  BY DEF ProfileTypeOK, TabRec, Idle

\* A change of one tab.
LEMMA OneTab ==
  ASSUME ProfileTypeOK, NEW t \in Tabs, NEW r \in TabRec, tab' = [tab EXCEPT ![t] = r]
  PROVE  tab' \in [Tabs -> TabRec] /\ tab'[t] = r /\ \A u \in Tabs : u # t => tab'[u] = tab[u]
  BY DEF ProfileTypeOK

-----------------------------------------------------------------------------
(* What no step undoes *)

\* The change that waits goes, or stays as it is but for its status.
Follows(p, q) ==
  q = NoChange \/ /\ p # NoChange /\ q # NoChange /\ q.id = p.id /\ q.changes = p.changes
                  /\ q.expected = p.expected /\ (p.sent => q.sent)

\* What is known of the requests under way stays true while the pending change goes on.
LEMMA SentStays ==
  ASSUME ProfileTypeOK, SentInv, lastId' \in Nat, lastId <= lastId', known \subseteq known',
         \A m \in MessageRec : UnderWay(m)' => UnderWay(m) \/ Consistent(m)',
         \A m \in MessageRec : UnderWay(m) /\ pend' # NoChange /\ m.id = pend'.id =>
           pend # NoChange /\ pend.id = m.id /\ pend'.changes = pend.changes /\ (pend.sent => pend'.sent)
  PROVE  SentInv'
<1>1. \A m \in MessageRec : m.id \in Nat
  BY ProfileAssumption DEF MessageRec, ChangeIds
<1>2. ASSUME NEW m \in MessageRec, UnderWay(m) PROVE Consistent(m)'
  BY <1>1, <1>2 DEF SentInv, Consistent, ProfileTypeOK
<1> QED
  BY <1>2 DEF SentInv

\* A step of the customer or the server that leaves the requests alone.
LEMMA SentFollows ==
  ASSUME ProfileTypeOK, SentInv, lastId' \in Nat, lastId <= lastId', known \subseteq known',
         \A m \in MessageRec : UnderWay(m)' => UnderWay(m), Follows(pend, pend')
  PROVE  SentInv'
  BY SentStays DEF Follows

\* What is known of the answers stays true while the pending change goes on.
LEMMA AnswersStay ==
  ASSUME ProfileTypeOK, AnswersInv, lastId' \in Nat, lastId <= lastId', known \subseteq known', owed' \subseteq owed,
         Follows(pend, pend'), receipts \subseteq receipts', \A i \in receipts' : i <= lastId',
         snap' = snap, \A t \in Tabs : tab'[t] = Idle \/ tab'[t] = tab[t] \/ Truthful(t)'
  PROVE  AnswersInv'
<1>1. ASSUME NEW t \in Tabs, tab'[t] = tab[t] PROVE Truthful(t)'
  BY <1>1 DEF AnswersInv, Truthful, Follows
<1>2. ASSUME NEW t \in Tabs, tab'[t] = Idle PROVE Truthful(t)'
  BY <1>2 DEF Truthful
<1> QED
  BY <1>1, <1>2 DEF AnswersInv

\* Nothing that these facts speak of moves.
LEMMA NothingMoves ==
  ASSUME ProfileInv, UNCHANGED <<receipts, snap, pend, tab, late, lastId, known>>, owed' \subseteq owed,
         server' \in Profiles, fetched' \in Profiles \cup {NoValues}, form' \in FormRec \cup {NoForm}
  PROVE  ProfileInv'
<1>1. ProfileTypeOK /\ SentInv /\ PendInv /\ AnswersInv /\ NoEditLost
  BY DEF ProfileInv
<1>2. ProfileTypeOK'
  BY <1>1 DEF ProfileTypeOK
<1>3. SentInv'
  BY <1>1 DEF SentInv, UnderWay, Consistent
<1>4. PendInv'
  BY <1>1 DEF PendInv
<1>5. AnswersInv'
  BY <1>1 DEF AnswersInv, Truthful
<1>6. NoEditLost'
  BY <1>1 DEF NoEditLost, Changed
<1> QED
  BY <1>2, <1>3, <1>4, <1>5, <1>6 DEF ProfileInv

-----------------------------------------------------------------------------
(* The customer *)

\* Typing in a form touches nothing else.
LEMMA FormMoves ==
  ASSUME ProfileInv, NEW f \in Fields, NEW v \in Values, Type(f, v)
  PROVE  ProfileInv'
<1>1. ProfileTypeOK
  BY DEF ProfileInv
<1> DEFINE inForm   == IF form # NoForm THEN form.values ELSE IF pend = NoChange THEN snap ELSE Over(pend.changes, snap)
           touched == IF form = NoForm THEN {} ELSE form.touched
<1>2. inForm \in Profiles /\ touched \subseteq Fields
  <2>1. CASE form # NoForm
    BY <1>1, <2>1 DEF ProfileTypeOK, FormRec
  <2>2. CASE form = NoForm
    BY <1>1, <2>2, PendTypes, OverIsAProfile DEF ProfileTypeOK
  <2> QED
    BY <2>1, <2>2
<1>3. [inForm EXCEPT ![f] = v] \in Profiles
  BY <1>2 DEF Profiles
<1>4. form' \in FormRec
  <2>1. form' = [values |-> [inForm EXCEPT ![f] = v], touched |-> touched \cup {f}]
    BY DEF Type
  <2> HIDE DEF inForm, touched
  <2> QED
    BY <1>2, <1>3, <2>1 DEF FormRec
<1>5. UNCHANGED <<server, receipts, snap, fetched, pend, tab, late, lastId, owed, known>>
  BY DEF Type
<1>6. server' \in Profiles /\ fetched' \in Profiles \cup {NoValues} /\ owed' \subseteq owed
  BY <1>1, <1>5 DEF ProfileTypeOK
<1> QED
  BY <1>4, <1>5, <1>6, NothingMoves

\* An answer of getProfile arrives; the local copy is not yet written.
LEMMA Fetches ==
  ASSUME ProfileInv, Fetch
  PROVE  ProfileInv'
<1>1. /\ server' \in Profiles /\ fetched' \in Profiles \cup {NoValues} /\ form' \in FormRec \cup {NoForm}
      /\ owed' \subseteq owed
      /\ UNCHANGED <<receipts, snap, pend, tab, late, lastId, known>>
  BY DEF Fetch, ProfileInv, ProfileTypeOK
<1> QED
  BY <1>1, NothingMoves

\* Another device changes a field of the profile at the API.
LEMMA OtherDeviceWrites ==
  ASSUME ProfileInv, NEW f \in Fields, NEW v \in Values, OtherDevice(f, v)
  PROVE  ProfileInv'
<1>1. /\ server' \in Profiles /\ fetched' \in Profiles \cup {NoValues} /\ form' \in FormRec \cup {NoForm}
      /\ owed' \subseteq owed
      /\ UNCHANGED <<receipts, snap, pend, tab, late, lastId, known>>
  BY DEF OtherDevice, StillOwed, ProfileInv, ProfileTypeOK, Profiles
<1> QED
  BY <1>1, NothingMoves

\* A pending change that is given up owes nothing more.
LEMMA NobodyKeeps ==
  ASSUME ProfileInv, pend' = NoChange, owed' = {}, server' = server, receipts' = receipts,
         fetched' \in Profiles \cup {NoValues}, form' \in FormRec \cup {NoForm},
         lastId' = lastId, tab' = tab, late' = late, snap' = snap, known' = known
  PROVE  ProfileInv'
<1>1. ProfileTypeOK /\ SentInv /\ PendInv /\ AnswersInv /\ NoEditLost
  BY DEF ProfileInv
<1>2. ProfileTypeOK'
  BY <1>1 DEF ProfileTypeOK
<1>3. SentInv'
  BY <1>1 DEF SentInv, UnderWay, Consistent
<1>4. PendInv' /\ NoEditLost'
  BY DEF PendInv, NoEditLost
<1>5. AnswersInv'
  BY <1>1 DEF AnswersInv, Truthful
<1> QED
  BY <1>2, <1>3, <1>4, <1>5 DEF ProfileInv

\* The customer discards the pending change.
LEMMA Discards ==
  ASSUME ProfileInv, Discard
  PROVE  ProfileInv'
<1>1. /\ pend' = NoChange /\ owed' = {} /\ form' = NoForm
      /\ UNCHANGED <<server, receipts, snap, fetched, tab, late, lastId, known>>
  BY DEF Discard
<1>2. fetched \in Profiles \cup {NoValues}
  BY DEF ProfileInv, ProfileTypeOK
<1> QED
  BY <1>1, <1>2, NobodyKeeps

\* A change that takes the place of the one before: its id is in no request and no
\* receipt.
LEMMA ChangeBegins ==
  ASSUME ProfileInv, NEW i \in ChangeIds, NEW changes \in Partials(Values), NEW expected \in Partials(SUBSET Values),
         DOMAIN changes = DOMAIN expected, pend' = Change(i, changes, expected),
         i = lastId + 1 \/ (pend # NoChange /\ ~pend.sent /\ i = pend.id),
         lastId' = IF i > lastId THEN i ELSE lastId, owed' \subseteq DOMAIN changes,
         \A f \in DOMAIN expected : \A v \in expected[f] : <<f, v>> \in known,
         form' \in FormRec \cup {NoForm}, UNCHANGED <<server, receipts, snap, fetched, tab, late, known>>
  PROVE  ProfileInv'
<1>1. ProfileTypeOK /\ SentInv /\ PendInv /\ AnswersInv /\ NoEditLost
  BY DEF ProfileInv
<1>2. PICK p \in PendRec : /\ p = Change(i, changes, expected) /\ p.id = i /\ p.changes = changes
                           /\ p.expected = expected /\ p.sent = FALSE /\ p.status = "pending"
  <2>1. Change(i, changes, expected) \in PendRec
    BY DEF Change, PendRec
  <2>2. /\ Change(i, changes, expected).id = i /\ Change(i, changes, expected).changes = changes
        /\ Change(i, changes, expected).expected = expected /\ Change(i, changes, expected).sent = FALSE
        /\ Change(i, changes, expected).status = "pending"
    BY DEF Change
  <2> QED
    BY <2>1, <2>2
<1>3. pend' = p /\ p # NoChange
  BY <1>2, ProfileAssumption
<1>4. lastId \in Nat /\ lastId' \in 0..MaxIds /\ lastId <= lastId' /\ i <= lastId' /\ i \in Nat
  BY <1>1, ProfileAssumption DEF ProfileTypeOK, ChangeIds
<1>5. i \notin receipts
  <2>1. CASE i = lastId + 1
    BY <1>1, <1>4, <2>1 DEF AnswersInv
  <2>2. CASE pend # NoChange /\ ~pend.sent /\ i = pend.id
    BY <1>1, <2>2 DEF PendInv
  <2> QED
    BY <2>1, <2>2
<1>6. \A m \in MessageRec : UnderWay(m) => m.id # i
  BY <1>1, <1>4 DEF SentInv, Consistent
<1>7. owed' \subseteq Fields
  BY PartialsOf
<1>8. ProfileTypeOK'
  BY <1>1, <1>2, <1>3, <1>4, <1>7 DEF ProfileTypeOK
<1>9. SentInv'
  <2>1. \A m \in MessageRec : UnderWay(m)' => UnderWay(m)
    BY DEF UnderWay
  <2> QED
    BY <1>1, <1>2, <1>3, <1>4, <1>6, <2>1, SentStays
<1>10. PendInv'
  BY <1>2, <1>3, <1>4, <1>5 DEF PendInv
<1>11. AnswersInv'
  <2>1. ASSUME NEW t \in Tabs PROVE Truthful(t)'
    <3>1. tab[t] # Idle => tab[t].request \in MessageRec /\ UnderWay(tab[t].request)
      BY <1>1, TabTypes DEF UnderWay
    <3> QED
      BY <1>1, <1>2, <1>3, <1>6, <3>1 DEF AnswersInv, Truthful
  <2>2. \A j \in receipts' : j <= lastId'
    BY <1>1, <1>4 DEF AnswersInv, ProfileTypeOK, ChangeIds
  <2> QED
    BY <1>1, <2>1, <2>2 DEF AnswersInv
<1>12. NoEditLost'
  BY <1>2, <1>3 DEF NoEditLost, Changed
<1> QED
  BY <1>8, <1>9, <1>10, <1>11, <1>12 DEF ProfileInv

\* The customer saves the form: recordProfileEdit, with a new id once it was sent.
LEMMA Saves ==
  ASSUME ProfileInv, Save
  PROVE  ProfileInv'
<1>1. ProfileTypeOK /\ PendInv /\ AnswersInv
  BY DEF ProfileInv
<1>2. form' = NoForm /\ UNCHANGED <<server, receipts, snap, fetched, tab, late, known>> /\ form \in FormRec
  BY <1>1 DEF Save, ProfileTypeOK
<1>3. server' \in Profiles /\ fetched' \in Profiles \cup {NoValues}
  BY <1>1, <1>2 DEF ProfileTypeOK
<1>4. CASE pend' = NoChange /\ owed' = {} /\ UNCHANGED lastId
  BY <1>2, <1>3, <1>4, NobodyKeeps
<1>5. CASE UNCHANGED <<pend, owed, lastId>>
  BY <1>2, <1>3, <1>5, NothingMoves
<1>6. CASE LET i == IdFor(IF pend = NoChange THEN 1 ELSE pend.id) IN
           /\ i <= MaxIds /\ lastId' = IF i > lastId THEN i ELSE lastId
           /\ pend' = Change(i, EditChanges, EditExpected)
           /\ owed' = {f \in Edited : form.values[f] # server[f]}
  <2>1. PICK i : /\ i = IdFor(IF pend = NoChange THEN 1 ELSE pend.id)
                 /\ i <= MaxIds /\ lastId' = IF i > lastId THEN i ELSE lastId
                 /\ pend' = Change(i, EditChanges, EditExpected)
                 /\ owed' = {f \in Edited : form.values[f] # server[f]}
    BY <1>6
  <2>2. /\ i = lastId + 1 \/ (pend # NoChange /\ ~pend.sent /\ i = pend.id)
        /\ i \in ChangeIds
    <3>1. CASE pend = NoChange \/ pend.sent
      BY <1>1, <2>1, <3>1, ProfileAssumption DEF IdFor, ProfileTypeOK, ChangeIds
    <3>2. CASE pend # NoChange /\ ~pend.sent
      BY <1>1, <2>1, <3>2, PendTypes DEF IdFor
    <3> QED
      BY <3>1, <3>2
  <2>3. /\ Edited \subseteq Fields
        /\ form.values \in Profiles
    BY <1>2 DEF Edited, FormRec
  <2>4. EditChanges \in [Edited -> Values]
    BY <2>3 DEF EditChanges, Profiles
  <2>5. ASSUME NEW f \in Fields
        PROVE  Accepted(f) \in SUBSET Values /\ \A v \in Accepted(f) : <<f, v>> \in known
    <3>1. CASE f \in Changed(pend)
      <4>1. pend # NoChange
        BY <3>1 DEF Changed
      <4>2. pend.changes \in [DOMAIN pend.changes -> Values] /\ pend.expected \in [DOMAIN pend.expected -> SUBSET Values]
        BY <1>1, <4>1, PendTypes, PartialsOf
      <4>3. f \in DOMAIN pend.changes /\ f \in DOMAIN pend.expected
        BY <1>1, <3>1, <4>1, PendTypes
      <4> QED
        BY <1>1, <3>1, <4>1, <4>2, <4>3 DEF Accepted, PendInv
    <3>2. CASE f \notin Changed(pend)
      BY <1>1, <3>2 DEF Accepted, AnswersInv, ProfileTypeOK, Profiles
    <3> QED
      BY <3>1, <3>2
  <2>6. EditExpected \in [Edited -> SUBSET Values] /\ \A f \in Edited : EditExpected[f] = Accepted(f)
    BY <2>3, <2>5 DEF EditExpected
  <2>7. /\ EditChanges \in Partials(Values) /\ DOMAIN EditChanges = Edited
        /\ EditExpected \in Partials(SUBSET Values) /\ DOMAIN EditExpected = Edited
    BY <2>3, <2>4, <2>6, APartial
  <2>8. \A f \in DOMAIN EditExpected : \A v \in EditExpected[f] : <<f, v>> \in known
    BY ZenonT(60), <2>3, <2>5, <2>6, <2>7
  <2>9. owed' \subseteq DOMAIN EditChanges /\ DOMAIN EditChanges = DOMAIN EditExpected
    BY <2>1, <2>7
  <2>10. PICK changes \in Partials(Values) : changes = EditChanges
    BY <2>7
  <2>11. PICK expected \in Partials(SUBSET Values) : expected = EditExpected
    BY <2>7
  <2> QED
    BY <1>2, <2>1, <2>2, <2>8, <2>9, <2>10, <2>11, ChangeBegins
<1> QED
  BY <1>4, <1>5, <1>6 DEF Save

\* The customer decides a conflict, field by field.
LEMMA Resolves ==
  ASSUME ProfileInv, NEW choice \in {"mine", "server"}, Resolve(choice)
  PROVE  ProfileInv'
<1>1. ProfileTypeOK /\ PendInv /\ AnswersInv /\ NoEditLost
  BY DEF ProfileInv
<1> DEFINE kept == {f \in Changed(pend) : /\ pend.changes[f] # pend.conflict[f]
                                          /\ choice = "server" => f \notin Conflicting}
           mine == [f \in kept |-> pend.changes[f]]
           over == [f \in kept |-> IF f \in Conflicting THEN {pend.conflict[f]}
                                   ELSE pend.expected[f] \cup {pend.conflict[f]}]
<1>2. /\ pend # NoChange /\ pend.status = "conflict" /\ form' = NoForm
      /\ UNCHANGED <<server, receipts, snap, fetched, tab, late, known>>
      /\ owed' = IF choice = "server" THEN owed \ Conflicting ELSE owed
      /\ \/ kept = {} /\ pend' = NoChange /\ UNCHANGED lastId
         \/ lastId < MaxIds /\ lastId' = lastId + 1 /\ pend' = Change(lastId + 1, mine, over)
  BY DEF Resolve
<1>3. /\ pend.conflict \in Profiles /\ \A f \in owed : pend.conflict[f] # pend.changes[f]
      /\ \A f \in Fields : <<f, pend.conflict[f]>> \in known
      /\ \A f \in DOMAIN pend.expected : \A v \in pend.expected[f] : <<f, v>> \in known
  BY <1>1, <1>2 DEF PendInv
<1>4. owed' \subseteq kept
  BY <1>1, <1>2, <1>3 DEF NoEditLost
<1>5. kept \subseteq Fields /\ kept \subseteq DOMAIN pend.changes /\ DOMAIN pend.changes = DOMAIN pend.expected
  BY <1>1, <1>2, PendTypes
<1>6. pend.changes \in [DOMAIN pend.changes -> Values] /\ pend.expected \in [DOMAIN pend.expected -> SUBSET Values]
  BY <1>1, <1>2, PendTypes, PartialsOf
<1>7. mine \in [kept -> Values] /\ over \in [kept -> SUBSET Values]
  BY <1>3, <1>5, <1>6 DEF Profiles
<1>8. \A f \in kept : \A v \in over[f] : <<f, v>> \in known
  BY ZenonT(60), <1>3, <1>5
<1>9. CASE kept = {} /\ pend' = NoChange /\ UNCHANGED lastId
  <2>1. owed' = {}
    BY <1>4, <1>9
  <2>2. fetched' \in Profiles \cup {NoValues}
    BY <1>1, <1>2 DEF ProfileTypeOK
  <2> QED
    BY <1>2, <1>9, <2>1, <2>2, NobodyKeeps
<1>10. CASE lastId < MaxIds /\ lastId' = lastId + 1 /\ pend' = Change(lastId + 1, mine, over)
  <2>1. PICK changes \in Partials(Values) : changes = mine /\ DOMAIN changes = kept
    BY <1>5, <1>7, APartial
  <2>2. PICK expected \in Partials(SUBSET Values) : expected = over /\ DOMAIN expected = kept
    BY <1>5, <1>7, APartial
  <2>3. PICK i \in ChangeIds : i = lastId + 1
    <3>1. lastId \in Nat /\ MaxIds \in Nat /\ lastId + 1 \in ChangeIds
      BY <1>1, <1>10, ProfileAssumption DEF ProfileTypeOK, ChangeIds
    <3> QED
      BY <3>1
  <2>4. lastId' = IF i > lastId THEN i ELSE lastId
    BY <1>1, <1>10, <2>3 DEF ProfileTypeOK
  <2>5. pend' = Change(i, changes, expected) /\ owed' \subseteq DOMAIN changes
    BY <1>4, <1>10, <2>1, <2>2, <2>3
  <2>6. \A f \in DOMAIN expected : \A v \in expected[f] : <<f, v>> \in known
    BY ZenonT(60), <1>8, <2>2
  <2> HIDE DEF kept, mine, over
  <2> QED
    BY <1>2, <2>1, <2>2, <2>3, <2>4, <2>5, <2>6, ChangeBegins
<1> QED
  BY <1>2, <1>9, <1>10

\* Only the status of the change moves, or whether it was sent.
LEMMA PendMoves ==
  ASSUME ProfileInv, pend # NoChange, NEW p \in PendRec, pend' = p, p.id = pend.id, p.changes = pend.changes,
         p.expected = pend.expected, pend.sent => p.sent, p.status # "conflict",
         p.sent => \A f \in DOMAIN p.changes : <<f, p.changes[f]>> \in known',
         known \subseteq known', known' \subseteq Fields \X Values,
         tab' \in [Tabs -> TabRec], late' \subseteq MessageRec,
         \A m \in MessageRec : UnderWay(m)' => UnderWay(m) \/ Consistent(m)',
         \A t \in Tabs : tab'[t] = Idle \/ tab'[t] = tab[t] \/ Truthful(t)',
         UNCHANGED <<server, receipts, snap, fetched, form, lastId, owed>>
  PROVE  ProfileInv'
<1>1. ProfileTypeOK /\ SentInv /\ PendInv /\ AnswersInv /\ NoEditLost
  BY DEF ProfileInv
<1>2. p # NoChange /\ Follows(pend, pend')
  BY ProfileAssumption DEF Follows
<1>3. ProfileTypeOK'
  BY <1>1, <1>2 DEF ProfileTypeOK
<1>4. lastId' \in Nat /\ lastId <= lastId'
  BY <1>1 DEF ProfileTypeOK
<1>5. SentInv'
  BY <1>1, <1>2, <1>4, SentStays
<1>6. PendInv'
  BY <1>1, <1>2 DEF PendInv
<1>7. AnswersInv'
  <2>1. \A i \in receipts' : i <= lastId'
    BY <1>1 DEF AnswersInv
  <2> QED
    BY <1>1, <1>2, <1>4, <2>1, AnswersStay
<1>8. NoEditLost'
  BY <1>1, <1>2 DEF NoEditLost, Changed
<1> QED
  BY <1>3, <1>5, <1>6, <1>7, <1>8 DEF ProfileInv

\* A change in error is queued again.
LEMMA Requeues ==
  ASSUME ProfileInv, Requeue
  PROVE  ProfileInv'
<1>1. ProfileTypeOK /\ PendInv
  BY DEF ProfileInv
<1>2. pend # NoChange /\ UNCHANGED <<server, receipts, snap, fetched, form, tab, late, lastId, owed, known>>
  BY DEF Requeue
<1>3. PICK p \in PendRec : p = [pend EXCEPT !.status = "pending"]
  BY <1>1, <1>2, PendTypes DEF PendRec
<1>4. /\ pend' = p /\ p.id = pend.id /\ p.changes = pend.changes /\ p.expected = pend.expected
      /\ (pend.sent => p.sent) /\ p.status # "conflict" /\ p.sent = pend.sent
  BY <1>1, <1>2, <1>3, PendTypes DEF Requeue, PendRec
<1>5. p.sent => \A f \in DOMAIN p.changes : <<f, p.changes[f]>> \in known'
  BY <1>1, <1>2, <1>4 DEF PendInv
<1>6. tab' \in [Tabs -> TabRec] /\ late' \subseteq MessageRec /\ known' \subseteq Fields \X Values
  BY <1>1, <1>2 DEF ProfileTypeOK
<1>7. \A m \in MessageRec : UnderWay(m)' => UnderWay(m)
  BY <1>2 DEF UnderWay
<1> QED
  BY <1>2, <1>4, <1>5, <1>6, <1>7, PendMoves

-----------------------------------------------------------------------------
(* The tabs *)

\* A tab reads the pending change, marks it as sent and sends it.
LEMMA Sends ==
  ASSUME ProfileInv, NEW t \in Tabs, SendChange(t)
  PROVE  ProfileInv'
<1>1. ProfileTypeOK /\ PendInv /\ SentInv
  BY DEF ProfileInv
<1>2. pend # NoChange /\ UNCHANGED <<server, receipts, snap, fetched, form, late, lastId, owed>>
  BY DEF SendChange
<1>3. PICK p \in PendRec : p = [pend EXCEPT !.sent = TRUE, !.status = "pending"]
  BY <1>1, <1>2, PendTypes DEF PendRec
<1>4. /\ pend' = p /\ p.id = pend.id /\ p.changes = pend.changes /\ p.expected = pend.expected
      /\ p.sent /\ p.status # "conflict" /\ p # NoChange
  BY <1>1, <1>2, <1>3, PendTypes, ProfileAssumption DEF SendChange, PendRec
<1>5. PICK m \in MessageRec : m = Request(pend) /\ m.id = pend.id /\ m.changes = pend.changes /\ m.expected = pend.expected
  <2>1. Request(pend) \in MessageRec
    BY <1>1, <1>2, PendTypes DEF Request, MessageRec
  <2>2. Request(pend).id = pend.id /\ Request(pend).changes = pend.changes /\ Request(pend).expected = pend.expected
    BY DEF Request
  <2> QED
    BY <2>1, <2>2
<1>6. PICK r \in TabRec : r = Sent(m) /\ r.phase = "sent" /\ r.request = m
  <2>1. Sent(m) \in TabRec
    BY DEF Sent, TabRec
  <2>2. Sent(m).phase = "sent" /\ Sent(m).request = m
    BY DEF Sent
  <2> QED
    BY <2>1, <2>2
<1>7. tab' \in [Tabs -> TabRec] /\ tab'[t] = r /\ \A u \in Tabs : u # t => tab'[u] = tab[u]
  BY <1>1, <1>5, <1>6, OneTab DEF SendChange
<1>8. /\ known \subseteq known' /\ known' \subseteq Fields \X Values
      /\ \A f \in DOMAIN p.changes : <<f, p.changes[f]>> \in known'
  <2>1. pend.changes \in [DOMAIN pend.changes -> Values] /\ DOMAIN pend.changes \subseteq Fields
    BY <1>1, <1>2, PendTypes, PartialsOf
  <2>2. known' = known \cup Pairs(pend.changes)
    BY DEF SendChange
  <2> QED
    BY <1>1, <1>4, <2>1, <2>2 DEF Pairs, ProfileTypeOK
<1>9. Consistent(m)'
  <2>1. DOMAIN pend.changes = DOMAIN pend.expected
    BY <1>1, <1>2, PendTypes
  <2> QED
    BY <1>1, <1>2, <1>4, <1>5, <1>8, <2>1 DEF Consistent, PendInv
<1>10. \A n \in MessageRec : UnderWay(n)' => UnderWay(n) \/ Consistent(n)'
  BY <1>2, <1>6, <1>7, <1>9 DEF UnderWay
<1>11. \A u \in Tabs : tab'[u] = Idle \/ tab'[u] = tab[u] \/ Truthful(u)'
  BY <1>6, <1>7 DEF Truthful
<1>12. late' \subseteq MessageRec
  BY <1>1, <1>2 DEF ProfileTypeOK
<1> QED
  BY <1>2, <1>4, <1>7, <1>8, <1>10, <1>11, <1>12, PendMoves

\* A tab is idle again: its request is gone or late.
LEMMA TabRests ==
  ASSUME ProfileInv, NEW t \in Tabs, tab[t].phase # "idle", tab' = [tab EXCEPT ![t] = Idle],
         late' = late \/ late' = late \cup {tab[t].request}
  PROVE  /\ tab' \in [Tabs -> TabRec] /\ late' \subseteq MessageRec
         /\ \A u \in Tabs : tab'[u] = Idle \/ tab'[u] = tab[u]
         /\ \A m \in MessageRec : UnderWay(m)' => UnderWay(m)
<1>1. ProfileTypeOK
  BY DEF ProfileInv
<1>2. Idle \in TabRec
  BY DEF TabRec
<1>3. tab' \in [Tabs -> TabRec] /\ tab'[t] = Idle /\ \A u \in Tabs : u # t => tab'[u] = tab[u]
  BY <1>1, <1>2, OneTab
<1>4. tab[t] # Idle /\ tab[t].request \in MessageRec
  BY <1>1, TabTypes
<1>5. late' \subseteq MessageRec
  BY <1>1, <1>4 DEF ProfileTypeOK
<1>6. \A m \in MessageRec : UnderWay(m)' => UnderWay(m)
  BY <1>3, <1>4 DEF UnderWay
<1> QED
  BY <1>3, <1>5, <1>6

\* A tab rests and the change stays, maybe in another status.
LEMMA TabGivesUp ==
  ASSUME ProfileInv, NEW t \in Tabs, tab[t].phase # "idle", tab' = [tab EXCEPT ![t] = Idle],
         late' = late \/ late' = late \cup {tab[t].request},
         NEW status \in {"pending", "error", "needs-login"},
         pend' = pend \/ pend' = Patched(tab[t].request.id, status),
         UNCHANGED <<server, receipts, snap, fetched, form, lastId, owed, known>>
  PROVE  ProfileInv'
<1>1. ProfileTypeOK /\ SentInv /\ PendInv /\ AnswersInv /\ NoEditLost
  BY DEF ProfileInv
<1>2. /\ tab' \in [Tabs -> TabRec] /\ late' \subseteq MessageRec
      /\ \A u \in Tabs : tab'[u] = Idle \/ tab'[u] = tab[u]
      /\ \A m \in MessageRec : UnderWay(m)' => UnderWay(m)
  BY TabRests
<1>3. known' \subseteq Fields \X Values
  BY <1>1 DEF ProfileTypeOK
<1>4. CASE pend' = pend
  <2>1. ProfileTypeOK'
    BY <1>1, <1>2, <1>4 DEF ProfileTypeOK
  <2>2. lastId' \in Nat /\ lastId <= lastId' /\ (\A i \in receipts' : i <= lastId') /\ Follows(pend, pend')
    BY <1>1, <1>4 DEF ProfileTypeOK, AnswersInv, Follows
  <2>3. SentInv'
    BY <1>1, <1>2, <2>2, SentFollows
  <2>4. PendInv' /\ NoEditLost'
    BY <1>1, <1>4 DEF PendInv, NoEditLost, Changed
  <2>5. AnswersInv'
    BY <1>1, <1>2, <2>2, AnswersStay
  <2> QED
    BY <2>1, <2>3, <2>4, <2>5 DEF ProfileInv
<1>5. CASE pend # NoChange /\ pend' = [pend EXCEPT !.status = status]
  <2>1. PICK p \in PendRec : p = [pend EXCEPT !.status = status]
    BY <1>1, <1>5, PendTypes DEF PendRec
  <2>2. /\ pend' = p /\ p.id = pend.id /\ p.changes = pend.changes /\ p.expected = pend.expected
        /\ (pend.sent => p.sent) /\ p.status # "conflict" /\ p.sent = pend.sent
    BY <1>1, <1>5, <2>1, PendTypes DEF PendRec
  <2>3. p.sent => \A f \in DOMAIN p.changes : <<f, p.changes[f]>> \in known'
    BY <1>1, <1>5, <2>2 DEF PendInv
  <2> QED
    BY <1>2, <1>3, <1>5, <2>2, <2>3, PendMoves
<1> QED
  BY <1>4, <1>5 DEF Patched, IsPending

\* A tab is told of an error, or that the session ended.
LEMMA IsToldOfFailure ==
  ASSUME ProfileInv, NEW t \in Tabs, Failed(t)
  PROVE  ProfileInv'
<1>1. PICK status \in {"pending", "error", "needs-login"} : status = tab[t].kind
  BY DEF Failed
<1> QED
  BY <1>1, TabGivesUp DEF Failed

\* A tab stops waiting, or is closed, while its request may still be served.
LEMMA GivesUp ==
  ASSUME ProfileInv, NEW t \in Tabs, GiveUp(t)
  PROVE  ProfileInv'
<1>1. /\ tab[t].phase # "idle" /\ tab' = [tab EXCEPT ![t] = Idle]
      /\ late' = late \/ late' = late \cup {tab[t].request}
      /\ pend' = pend \/ pend' = Patched(tab[t].request.id, "pending")
      /\ UNCHANGED <<server, receipts, snap, fetched, form, lastId, owed, known>>
  BY DEF GiveUp
<1> QED
  BY <1>1, TabGivesUp

\* What the server said last, and that the device knows it by now.
LEMMA Told ==
  ASSUME ProfileTypeOK, AnswersInv, NEW s \in Profiles, snap' = s, known' = known \cup Pairs(s)
  PROVE  /\ snap' \in Profiles /\ known \subseteq known' /\ known' \subseteq Fields \X Values
         /\ \A f \in Fields : <<f, s[f]>> \in known'
  BY DEF ProfileTypeOK, Pairs, Profiles

\* The copy is replaced, and the change goes, stays or comes into conflict.
LEMMA CopyMoves ==
  ASSUME ProfileInv, NEW s \in Profiles, snap' = s, known' = known \cup Pairs(s), fetched' \in Profiles \cup {NoValues},
         tab' \in [Tabs -> TabRec], late' \subseteq MessageRec, \A m \in MessageRec : UnderWay(m)' => UnderWay(m),
         \A t \in Tabs : tab'[t] = Idle \/ tab'[t] = tab[t],
         \/ pend' = NoChange /\ owed = {}
         \/ pend' = pend
         \/ /\ pend # NoChange /\ pend' = [pend EXCEPT !.status = "conflict", !.conflict = s]
            /\ \A f \in owed : s[f] # pend.changes[f],
         UNCHANGED <<server, receipts, form, lastId, owed>>
  PROVE  ProfileInv'
<1>1. ProfileTypeOK /\ SentInv /\ PendInv /\ AnswersInv /\ NoEditLost
  BY DEF ProfileInv
<1>2. /\ snap' \in Profiles /\ known \subseteq known' /\ known' \subseteq Fields \X Values
      /\ \A f \in Fields : <<f, s[f]>> \in known'
  BY <1>1, Told
<1>3. lastId' \in Nat /\ lastId <= lastId' /\ (\A i \in receipts' : i <= lastId')
  BY <1>1 DEF ProfileTypeOK, AnswersInv
<1>4. ASSUME Follows(pend, pend'), pend' = NoChange \/ (pend' \in PendRec /\ DOMAIN pend'.changes = DOMAIN pend'.expected),
             PendInv', NoEditLost'
      PROVE  ProfileInv'
  <2>1. ProfileTypeOK'
    BY <1>1, <1>2, <1>4 DEF ProfileTypeOK
  <2>2. SentInv'
    BY <1>1, <1>2, <1>3, <1>4, SentFollows
  <2>3. ASSUME NEW t \in Tabs, tab'[t] = tab[t] PROVE Truthful(t)'
    BY <1>1, <1>4, <2>3 DEF AnswersInv, Truthful, Follows
  <2>4. ASSUME NEW t \in Tabs, tab'[t] = Idle PROVE Truthful(t)'
    BY <2>4 DEF Truthful
  <2>5. AnswersInv'
    BY <1>2, <1>3, <2>3, <2>4 DEF AnswersInv
  <2> QED
    BY <1>4, <2>1, <2>2, <2>5 DEF ProfileInv
<1>5. CASE pend' = NoChange /\ owed = {}
  BY <1>4, <1>5 DEF Follows, PendInv, NoEditLost, Changed
<1>6. CASE pend' = pend /\ pend # NoChange
  <2>1. PendInv'
    BY <1>1, <1>2, <1>6 DEF PendInv
  <2>2. NoEditLost' /\ Follows(pend, pend')
    BY <1>1, <1>6 DEF NoEditLost, Changed, Follows
  <2>3. pend' \in PendRec /\ DOMAIN pend'.changes = DOMAIN pend'.expected
    BY <1>1, <1>6, PendTypes
  <2> QED
    BY <1>4, <2>1, <2>2, <2>3
<1>7. CASE pend' = pend /\ pend = NoChange
  BY <1>1, <1>4, <1>7 DEF Follows, PendInv, NoEditLost, Changed
<1>8. CASE /\ pend # NoChange /\ pend' = [pend EXCEPT !.status = "conflict", !.conflict = s]
           /\ \A f \in owed : s[f] # pend.changes[f]
  <2>1. PICK p \in PendRec : p = [pend EXCEPT !.status = "conflict", !.conflict = s]
    BY <1>1, <1>8, PendTypes DEF PendRec
  <2>2. /\ pend' = p /\ p.id = pend.id /\ p.changes = pend.changes /\ p.expected = pend.expected
        /\ p.sent = pend.sent /\ p.conflict = s /\ p # NoChange
    BY <1>1, <1>8, <2>1, PendTypes, ProfileAssumption DEF PendRec
  <2>3. PendInv'
    BY <1>1, <1>2, <1>8, <2>2 DEF PendInv
  <2>4. NoEditLost' /\ Follows(pend, pend')
    BY <1>1, <1>8, <2>2 DEF NoEditLost, Changed, Follows
  <2>5. pend' \in PendRec /\ DOMAIN pend'.changes = DOMAIN pend'.expected
    BY <1>1, <1>8, <2>2, PendTypes
  <2> QED
    BY <1>4, <2>3, <2>4, <2>5
<1> QED
  BY <1>5, <1>6, <1>7, <1>8

\* The answer of getProfile becomes the local copy.
LEMMA SavesFetched ==
  ASSUME ProfileInv, SaveFetched
  PROVE  ProfileInv'
<1>1. ProfileTypeOK
  BY DEF ProfileInv
<1>2. PICK s \in Profiles : s = fetched
  BY <1>1 DEF SaveFetched, ProfileTypeOK
<1>3. /\ snap' = s /\ known' = known \cup Pairs(s) /\ fetched' = NoValues /\ pend' = pend
      /\ UNCHANGED <<server, receipts, form, tab, late, lastId, owed>>
  BY <1>2 DEF SaveFetched
<1>4. tab' \in [Tabs -> TabRec] /\ late' \subseteq MessageRec
  BY <1>1, <1>3 DEF ProfileTypeOK
<1>5. \A m \in MessageRec : UnderWay(m)' => UnderWay(m)
  BY SMTT(60), <1>3 DEF UnderWay
<1> QED
  BY <1>3, <1>4, <1>5, CopyMoves

\* A tab is told that its change was applied, and removes it if it is still the same.
LEMMA Confirms ==
  ASSUME ProfileInv, NEW t \in Tabs, Confirm(t)
  PROVE  ProfileInv'
<1>1. ProfileTypeOK /\ PendInv /\ AnswersInv
  BY DEF ProfileInv
<1>2. /\ tab[t].phase = "answered" /\ tab[t].kind = "ok" /\ tab' = [tab EXCEPT ![t] = Idle]
      /\ UNCHANGED <<server, receipts, fetched, form, late, lastId, owed>>
      /\ snap' = tab[t].values /\ known' = known \cup Pairs(snap')
      /\ pend' = IF IsPending(tab[t].request.id) THEN NoChange ELSE pend
  BY DEF Confirm
<1>3. tab[t] # Idle /\ tab[t].values \in Profiles /\ tab[t].request.id \in receipts
  BY <1>1, <1>2, TabTypes DEF AnswersInv, Truthful
<1>4. PICK s \in Profiles : s = tab[t].values
  BY <1>3
<1>5. (pend' = NoChange /\ owed = {}) \/ pend' = pend
  BY <1>1, <1>2, <1>3 DEF IsPending, PendInv
<1>6. /\ tab' \in [Tabs -> TabRec] /\ late' \subseteq MessageRec
      /\ \A u \in Tabs : tab'[u] = Idle \/ tab'[u] = tab[u]
      /\ \A m \in MessageRec : UnderWay(m)' => UnderWay(m)
  BY <1>2, TabRests
<1>7. fetched' \in Profiles \cup {NoValues} /\ snap' = s /\ known' = known \cup Pairs(s)
  BY <1>1, <1>2, <1>4 DEF ProfileTypeOK
<1> QED
  BY ZenonT(60), <1>2, <1>5, <1>6, <1>7, CopyMoves

\* A tab is told of a conflict, and keeps it with the change.
LEMMA Conflicts ==
  ASSUME ProfileInv, NEW t \in Tabs, Conflict(t)
  PROVE  ProfileInv'
<1>1. ProfileTypeOK /\ PendInv /\ AnswersInv
  BY DEF ProfileInv
<1>2. /\ tab[t].phase = "answered" /\ tab[t].kind = "conflict" /\ tab' = [tab EXCEPT ![t] = Idle]
      /\ UNCHANGED <<server, receipts, fetched, form, late, lastId, owed>>
      /\ snap' = tab[t].values /\ known' = known \cup Pairs(snap')
      /\ pend' = IF IsPending(tab[t].request.id)
                 THEN [pend EXCEPT !.status = "conflict", !.conflict = tab[t].values] ELSE pend
  BY DEF Conflict
<1>3. /\ tab[t] # Idle /\ tab[t].values \in Profiles
      /\ pend # NoChange /\ pend.id = tab[t].request.id => \A f \in owed : tab[t].values[f] # pend.changes[f]
  BY <1>1, <1>2, TabTypes DEF AnswersInv, Truthful
<1>4. PICK s \in Profiles : s = tab[t].values
  BY <1>3
<1>5. \/ pend' = pend
      \/ /\ pend # NoChange /\ pend' = [pend EXCEPT !.status = "conflict", !.conflict = s]
         /\ \A f \in owed : s[f] # pend.changes[f]
  BY <1>2, <1>3, <1>4 DEF IsPending
<1>6. /\ tab' \in [Tabs -> TabRec] /\ late' \subseteq MessageRec
      /\ \A u \in Tabs : tab'[u] = Idle \/ tab'[u] = tab[u]
      /\ \A m \in MessageRec : UnderWay(m)' => UnderWay(m)
  BY <1>2, TabRests
<1>7. fetched' \in Profiles \cup {NoValues} /\ snap' = s /\ known' = known \cup Pairs(s)
  BY <1>1, <1>2, <1>4 DEF ProfileTypeOK
<1> QED
  BY ZenonT(60), <1>2, <1>5, <1>6, <1>7, CopyMoves

-----------------------------------------------------------------------------
(* The server *)

\* A change is written over what it expects and is owed no more; otherwise what is
\* owed of it differs from what the server holds.
LEMMA ServerApplies ==
  ASSUME ProfileInv, NEW m \in MessageRec, UnderWay(m), Apply(m)
  PROVE  /\ server' \in Profiles /\ receipts \subseteq receipts' /\ receipts' \subseteq receipts \cup {m.id}
         /\ owed' \subseteq owed /\ \A f \in owed' : server'[f] # pend.changes[f]
         /\ pend # NoChange /\ m.id = pend.id => pend.sent /\ (m.id \in receipts' => owed' = {})
         /\ \A f \in Fields : server'[f] # server[f] => <<f, server[f]>> \in known
         /\ m.id \in receipts => server' = server
<1>1. ProfileTypeOK /\ SentInv /\ PendInv /\ AnswersInv /\ NoEditLost
  BY DEF ProfileInv
<1>2. Consistent(m) /\ m.id \in ChangeIds /\ m.changes \in Partials(Values) /\ m.expected \in Partials(SUBSET Values)
  BY <1>1 DEF SentInv, MessageRec
<1>3. owed' \subseteq owed /\ \A f \in owed' : server'[f] # pend.changes[f]
  BY <1>1 DEF Apply, StillOwed, NoEditLost
<1>4. CASE UNCHANGED <<server, receipts>> /\ (m.id \in receipts \/ ~Fits(m))
  BY <1>1, <1>2, <1>3, <1>4 DEF ProfileTypeOK, Consistent, PendInv
<1>5. CASE m.id \notin receipts /\ Fits(m) /\ server' = Over(m.changes, server) /\ receipts' = receipts \cup {m.id}
  <2>1. /\ server' \in Profiles /\ \A f \in Fields : f \in DOMAIN m.changes => server'[f] = m.changes[f]
        /\ \A f \in Fields : f \notin DOMAIN m.changes => server'[f] = server[f]
    BY <1>1, <1>2, <1>5, OverIsAProfile DEF ProfileTypeOK
  <2>2. ASSUME NEW f \in Fields, server'[f] # server[f] PROVE <<f, server[f]>> \in known
    BY <1>2, <1>5, <2>1, <2>2 DEF Fits, Consistent
  <2>3. ASSUME pend # NoChange, m.id = pend.id PROVE pend.sent /\ owed' = {}
    <3>1. pend.sent /\ m.changes = pend.changes
      BY <1>2, <2>3 DEF Consistent
    <3>2. \A f \in owed : f \in DOMAIN pend.changes /\ f \in Fields
      BY <1>1, <2>3, PendTypes DEF NoEditLost
    <3> QED
      BY <1>3, <2>1, <3>1, <3>2
  <2> QED
    BY <1>3, <1>5, <2>1, <2>2, <2>3
<1> QED
  BY <1>4, <1>5 DEF Apply

\* After the server has applied a request, whether its answer arrives or not.
LEMMA ServerMoves ==
  ASSUME ProfileInv, NEW m \in MessageRec, UnderWay(m), Apply(m), tab' \in [Tabs -> TabRec], late' \subseteq MessageRec,
         \A n \in MessageRec : UnderWay(n)' => UnderWay(n),
         \A t \in Tabs : tab'[t] = Idle \/ tab'[t] = tab[t] \/ Truthful(t)',
         UNCHANGED <<snap, fetched, pend, form, lastId, known>>
  PROVE  ProfileInv'
<1>1. ProfileTypeOK /\ SentInv /\ PendInv /\ AnswersInv /\ NoEditLost
  BY DEF ProfileInv
<1>2. /\ server' \in Profiles /\ receipts \subseteq receipts' /\ receipts' \subseteq receipts \cup {m.id}
      /\ owed' \subseteq owed
      /\ pend # NoChange /\ m.id = pend.id => pend.sent /\ (m.id \in receipts' => owed' = {})
  BY ServerApplies
<1>3. m.id \in ChangeIds /\ m.id <= lastId
  BY <1>1 DEF SentInv, Consistent, MessageRec
<1>4. ProfileTypeOK'
  BY <1>1, <1>2, <1>3 DEF ProfileTypeOK
<1>5. lastId' \in Nat /\ lastId <= lastId' /\ (\A i \in receipts' : i <= lastId') /\ Follows(pend, pend')
  BY <1>1, <1>2, <1>3 DEF ProfileTypeOK, AnswersInv, Follows
<1>6. SentInv'
  BY <1>1, <1>5, SentFollows
<1>7. PendInv'
  BY <1>1, <1>2 DEF PendInv
<1>8. AnswersInv'
  BY <1>1, <1>2, <1>5, AnswersStay
<1>9. NoEditLost'
  BY <1>1, <1>2 DEF NoEditLost, Changed
<1> QED
  BY <1>4, <1>6, <1>7, <1>8, <1>9 DEF ProfileInv

\* syncOfflineProfile serves the request of a tab.
LEMMA Syncs ==
  ASSUME ProfileInv, NEW t \in Tabs, SyncOfflineProfile(t)
  PROVE  ProfileInv'
<1>1. ProfileTypeOK
  BY DEF ProfileInv
<1>2. /\ tab[t].phase = "sent" /\ Apply(tab[t].request)
      /\ tab' = [tab EXCEPT ![t] = Answered(tab[t].request,
                   IF tab[t].request.id \in receipts' THEN "ok" ELSE "conflict", server')]
      /\ UNCHANGED <<snap, fetched, pend, form, late, lastId, known>>
  BY DEF SyncOfflineProfile
<1>3. PICK m \in MessageRec : m = tab[t].request /\ UnderWay(m) /\ tab[t] # Idle
  BY <1>1, <1>2, TabTypes DEF UnderWay
<1>4. PICK kind \in {"ok", "conflict"} : kind = IF m.id \in receipts' THEN "ok" ELSE "conflict"
  OBVIOUS
<1>5. server' \in Profiles /\ \A f \in owed' : server'[f] # pend.changes[f]
  BY <1>2, <1>3, ServerApplies
<1>6. PICK r \in TabRec : /\ r = Answered(m, kind, server') /\ r.phase = "answered" /\ r.request = m
                          /\ r.kind = kind /\ r.values = server'
  <2>1. Answered(m, kind, server') \in TabRec
    BY <1>4, <1>5 DEF Answered, TabRec
  <2>2. /\ Answered(m, kind, server').phase = "answered" /\ Answered(m, kind, server').request = m
        /\ Answered(m, kind, server').kind = kind /\ Answered(m, kind, server').values = server'
    BY DEF Answered
  <2> QED
    BY <2>1, <2>2
<1>7. tab' \in [Tabs -> TabRec] /\ tab'[t] = r /\ \A u \in Tabs : u # t => tab'[u] = tab[u]
  <2>1. tab' = [tab EXCEPT ![t] = r]
    BY <1>2, <1>3, <1>4, <1>6
  <2> QED
    BY <1>1, <2>1, OneTab
<1>8. Truthful(t)'
  BY <1>2, <1>4, <1>5, <1>6, <1>7 DEF Truthful
<1>9. \A n \in MessageRec : UnderWay(n)' => UnderWay(n)
  BY <1>2, <1>3, <1>6, <1>7 DEF UnderWay
<1>10. late' \subseteq MessageRec
  BY <1>1, <1>2 DEF ProfileTypeOK
<1> QED
  BY <1>2, <1>3, <1>7, <1>8, <1>9, <1>10, ServerMoves

\* syncOfflineProfile serves a request nobody waits for.
LEMMA SyncsLate ==
  ASSUME ProfileInv, NEW m \in late, SyncLate(m)
  PROVE  ProfileInv'
<1>1. ProfileTypeOK
  BY DEF ProfileInv
<1>2. Apply(m) /\ late' = late \ {m} /\ UNCHANGED <<snap, fetched, pend, form, tab, lastId, known>>
  BY DEF SyncLate
<1>3. m \in MessageRec /\ UnderWay(m)
  BY <1>1 DEF ProfileTypeOK, UnderWay
<1>4. tab' \in [Tabs -> TabRec] /\ late' \subseteq MessageRec /\ \A n \in MessageRec : UnderWay(n)' => UnderWay(n)
  BY <1>1, <1>2 DEF ProfileTypeOK, UnderWay
<1> QED
  BY <1>2, <1>3, <1>4, ServerMoves

\* syncOfflineProfile refuses a request without looking at the profile.
LEMMA Refuses ==
  ASSUME ProfileInv, NEW t \in Tabs, NEW kind \in {"error", "needs-login"}, RefuseChange(t, kind)
  PROVE  ProfileInv'
<1>1. ProfileTypeOK /\ SentInv /\ PendInv /\ AnswersInv /\ NoEditLost
  BY DEF ProfileInv
<1>2. UNCHANGED <<server, receipts, snap, fetched, pend, form, late, lastId, owed, known>> /\ tab[t].phase = "sent"
  BY DEF RefuseChange
<1>3. PICK m \in MessageRec : m = tab[t].request /\ tab[t] # Idle
  BY <1>1, <1>2, TabTypes
<1>4. PICK r \in TabRec : r = Answered(m, kind, NoValues) /\ r.phase = "answered" /\ r.request = m /\ r.kind = kind
  <2>1. Answered(m, kind, NoValues) \in TabRec
    BY <1>3 DEF Answered, TabRec
  <2>2. /\ Answered(m, kind, NoValues).phase = "answered" /\ Answered(m, kind, NoValues).request = m
        /\ Answered(m, kind, NoValues).kind = kind /\ Answered(m, kind, NoValues).values = NoValues
    BY DEF Answered
  <2> QED
    BY <2>1, <2>2
<1>5. tab' \in [Tabs -> TabRec] /\ tab'[t] = r /\ \A u \in Tabs : u # t => tab'[u] = tab[u]
  BY <1>1, <1>3, <1>4, OneTab DEF RefuseChange
<1>6. \A n \in MessageRec : UnderWay(n)' => UnderWay(n)
  BY <1>2, <1>3, <1>4, <1>5 DEF UnderWay
<1>7. Truthful(t)'
  BY <1>4, <1>5 DEF Truthful
<1>8. ProfileTypeOK'
  BY <1>1, <1>2, <1>5 DEF ProfileTypeOK
<1>9. lastId' \in Nat /\ lastId <= lastId' /\ (\A i \in receipts' : i <= lastId') /\ Follows(pend, pend')
  BY <1>1, <1>2 DEF ProfileTypeOK, AnswersInv, Follows
<1>10. SentInv'
  BY <1>1, <1>2, <1>6, <1>9, SentFollows
<1>11. AnswersInv'
  BY <1>1, <1>2, <1>5, <1>7, <1>9, AnswersStay
<1>12. PendInv' /\ NoEditLost'
  BY <1>1, <1>2 DEF PendInv, NoEditLost, Changed
<1> QED
  BY <1>8, <1>10, <1>11, <1>12 DEF ProfileInv

-----------------------------------------------------------------------------

\* The local copy starts as the profile of the API, with nothing pending.
LEMMA ProfileInitially == ProfileInit => ProfileInv
<1> SUFFICES ASSUME ProfileInit PROVE ProfileInv
  OBVIOUS
<1>1. server \in Profiles /\ snap = server /\ known = Pairs(server)
  BY DEF ProfileInit, Profiles
<1>2. /\ receipts = {} /\ late = {} /\ owed = {} /\ lastId = 0 /\ fetched = NoValues /\ pend = NoChange /\ form = NoForm
      /\ tab = [t \in Tabs |-> Idle]
  BY DEF ProfileInit
<1>3. tab \in [Tabs -> TabRec] /\ \A t \in Tabs : tab[t] = Idle
  BY <1>2 DEF TabRec
<1>4. known \subseteq Fields \X Values /\ \A f \in Fields : <<f, snap[f]>> \in known
  <2>1. server \in [Fields -> Values] /\ DOMAIN server = Fields
    BY <1>1 DEF Profiles
  <2>2. PICK s \in [Fields -> Values] : s = server
    BY <2>1
  <2>3. Pairs(s) \subseteq Fields \X Values /\ \A f \in Fields : <<f, s[f]>> \in Pairs(s)
    BY DEF Pairs
  <2> QED
    BY <1>1, <2>2, <2>3
<1>5. ProfileTypeOK
  BY <1>1, <1>2, <1>3, <1>4, ProfileAssumption DEF ProfileTypeOK
<1>6. SentInv
  BY <1>2, <1>3 DEF SentInv, UnderWay
<1>7. PendInv /\ NoEditLost
  BY <1>2 DEF PendInv, NoEditLost
<1>8. AnswersInv
  BY <1>2, <1>3, <1>4 DEF AnswersInv, Truthful
<1> QED
  BY <1>5, <1>6, <1>7, <1>8 DEF ProfileInv

\* The invariant of the profile holds of every behaviour.
THEOREM ProfileInvariance == ProfileSpec => []ProfileInv
<1>1. ProfileInv /\ [ProfileNext]_profileVars => ProfileInv'
  <2> SUFFICES ASSUME ProfileInv, [ProfileNext]_profileVars PROVE ProfileInv'
    OBVIOUS
  <2>1. CASE UNCHANGED profileVars
    <3>1. /\ server' \in Profiles /\ fetched' \in Profiles \cup {NoValues} /\ form' \in FormRec \cup {NoForm}
          /\ owed' \subseteq owed /\ UNCHANGED <<receipts, snap, pend, tab, late, lastId, known>>
      BY <2>1 DEF profileVars, ProfileInv, ProfileTypeOK
    <3> QED
      BY <3>1, NothingMoves
  <2>2. CASE \E f \in Fields, v \in Values : Type(f, v) \/ OtherDevice(f, v)
    BY <2>2, FormMoves, OtherDeviceWrites
  <2>3. CASE Save \/ Discard \/ Requeue \/ Fetch \/ SaveFetched
    BY <2>3, Saves, Discards, Requeues, Fetches, SavesFetched
  <2>4. CASE \E choice \in {"mine", "server"} : Resolve(choice)
    BY <2>4, Resolves
  <2>5. CASE \E t \in Tabs : \/ SendChange(t) \/ Step(t) \/ GiveUp(t)
                             \/ \E kind \in {"error", "needs-login"} : RefuseChange(t, kind)
    BY <2>5, Sends, Syncs, Confirms, Conflicts, IsToldOfFailure, GivesUp, Refuses DEF Step
  <2>6. CASE \E m \in late : SyncLate(m)
    BY <2>6, SyncsLate
  <2> QED
    BY <2>1, <2>2, <2>3, <2>4, <2>5, <2>6 DEF ProfileNext
<1> QED
  BY <1>1, ProfileInitially, PTL DEF ProfileSpec

\* What the customer saved stays pending until the server has held it, for any
\* fields, values and number of tabs.
THEOREM NoEditLostHolds == ProfileSpec => []NoEditLost
<1>1. ProfileInv => NoEditLost
  BY DEF ProfileInv
<1> QED
  BY <1>1, ProfileInvariance, PTL

\* The server is never overwritten blindly by a change of this device.
THEOREM OverwritesOnlyWhatItSawHolds == ProfileSpec => OverwritesOnlyWhatItSaw
<1> DEFINE Seen == ByDevice => \A f \in Fields : server'[f] # server[f] => <<f, server[f]>> \in known
<1>1. ProfileInv /\ [ProfileNext]_profileVars => [Seen]_profileVars
  <2> SUFFICES ASSUME ProfileInv, ByDevice, NEW f \in Fields, server'[f] # server[f] PROVE <<f, server[f]>> \in known
    OBVIOUS
  <2>1. PICK m \in MessageRec : UnderWay(m) /\ Apply(m)
    <3>1. CASE \E t \in Tabs : SyncOfflineProfile(t)
      BY <3>1, TabTypes DEF ProfileInv, SyncOfflineProfile, UnderWay
    <3>2. CASE \E n \in late : SyncLate(n)
      BY <3>2 DEF ProfileInv, ProfileTypeOK, SyncLate, UnderWay
    <3> QED
      BY <3>1, <3>2 DEF ByDevice
  <2> QED
    BY <2>1, ServerApplies
<1> QED
  BY <1>1, ProfileInvariance, PTL DEF ProfileSpec, OverwritesOnlyWhatItSaw
=============================================================================
