------------------------------ MODULE Sessions ------------------------------
(***************************************************************************)
(* AuthService and the endpoints under /api/auth: pairs of an access and a *)
(* refresh token with one jti, the keys that Redis holds of them, and the  *)
(* guard.  A token is verified by its signature and expiry alone; what     *)
(* Redis holds says whether it still counts.                               *)
(***************************************************************************)
CONSTANTS
  Staff,    \* staff ids
  Jtis,     \* ids of token pairs
  AuthCalls \* calls of refresh in progress at the same time

\* The key that login stores under: jti is the decoded token, an object, made a string.
ObjectKey == "[object Object]"

VARIABLES
  owner,      \* owner[j]: to whom the pair j was issued, "none" before
  refreshKey, \* refreshKey[k]: the value of auth:refresh:k, "none" when it has none
  blacklist,  \* the jtis j with a key auth:blacklist:j
  lapsed,     \* the jtis whose access token has expired
  dead,       \* the jtis whose refresh token has expired
  spent,      \* the jtis whose refresh token was revoked by a refresh
  revoked,    \* the jtis of a member's sessions when all of them were revoked (auth:version)
  refresh     \* the calls of refresh

sessionVars == <<owner, refreshKey, blacklist, lapsed, dead, spent, revoked, refresh>>

NoRefresh == [pc |-> "idle", jti |-> "none", answer |-> "none"]

SessionsInit ==
  /\ owner = [j \in Jtis |-> "none"]
  /\ refreshKey = [k \in Jtis \union {ObjectKey} |-> "none"]
  /\ blacklist = {} /\ lapsed = {} /\ dead = {} /\ spent = {} /\ revoked = {}
  /\ refresh = [c \in AuthCalls |-> NoRefresh]

Issued == {j \in Jtis : owner[j] # "none"}

\* POST /api/auth/login: generateTokenPair and storeRefreshToken.
Login(s, j) ==
  /\ j \notin Issued
  /\ owner' = [owner EXCEPT ![j] = s]
  /\ refreshKey' = [refreshKey EXCEPT ![ObjectKey] = s]
  /\ UNCHANGED <<blacklist, lapsed, dead, spent, revoked, refresh>>

\* POST /api/auth/refresh: verifyToken, and then validateRefreshToken.
Refresh(c, j) ==
  /\ refresh[c].pc = "idle"
  /\ j \in Issued \ dead
  /\ refresh' = [refresh EXCEPT ![c] =
       IF refreshKey[j] = owner[j] THEN [pc |-> "revoke", jti |-> j, answer |-> "none"]
       ELSE [pc |-> "answered", jti |-> j, answer |-> "TOKEN_REVOKED"]]
  /\ UNCHANGED <<owner, refreshKey, blacklist, lapsed, dead, spent, revoked>>

RevokeRefreshToken(c) ==
  /\ refresh[c].pc = "revoke"
  /\ refreshKey' = [refreshKey EXCEPT ![refresh[c].jti] = "none"]
  /\ spent' = spent \union {refresh[c].jti}
  /\ refresh' = [refresh EXCEPT ![c].pc = "store"]
  /\ UNCHANGED <<owner, blacklist, lapsed, dead, revoked>>

\* The new pair, stored under its own jti.
StoreRefreshToken(c, j) ==
  LET s == owner[refresh[c].jti]
  IN /\ refresh[c].pc = "store"
     /\ j \notin Issued
     /\ owner' = [owner EXCEPT ![j] = s]
     /\ refreshKey' = [refreshKey EXCEPT ![j] = s]
     /\ refresh' = [refresh EXCEPT ![c].pc = "answered", ![c].answer = "tokens"]
     /\ UNCHANGED <<blacklist, lapsed, dead, spent, revoked>>

\* Redis fails: the key may be deleted all the same, and a new pair is never handed out.
FailRefresh(c) ==
  /\ refresh[c].pc \in {"revoke", "store"}
  /\ refresh' = [refresh EXCEPT ![c].pc = "answered", ![c].answer = "INVALID_REFRESH"]
  /\ \/ UNCHANGED <<refreshKey, spent>>
     \/ /\ refresh[c].pc = "revoke"
        /\ refreshKey' = [refreshKey EXCEPT ![refresh[c].jti] = "none"]
        /\ spent' = spent \union {refresh[c].jti}
  /\ UNCHANGED <<owner, blacklist, lapsed, dead, revoked>>

EndRefresh(c) ==
  /\ refresh[c].pc = "answered"
  /\ refresh' = [refresh EXCEPT ![c] = NoRefresh]
  /\ UNCHANGED <<owner, refreshKey, blacklist, lapsed, dead, spent, revoked>>

\* authGuard: an access token that has not expired and is not on the blacklist.
Passes(j) == j \in Issued \ (lapsed \union blacklist)

\* POST /api/auth/logout: the access token goes on the blacklist, the refresh token stays.
Logout(j) ==
  /\ Passes(j)
  /\ blacklist' = blacklist \union {j}
  /\ UNCHANGED <<owner, refreshKey, lapsed, dead, spent, revoked, refresh>>

\* POST /api/auth/revoke-all: the time is written in auth:version of the member, which nothing
\* reads.
RevokeAll(j) ==
  /\ Passes(j)
  /\ revoked' = revoked \union {k \in Issued : owner[k] = owner[j]}
  /\ UNCHANGED <<owner, refreshKey, blacklist, lapsed, dead, spent, refresh>>

\* After 900 s the access token expires, and after as many the key of the blacklist, which is
\* set later; after 7 days the refresh token and its key.
Lapse(j) ==
  /\ j \in Issued
  /\ lapsed' = lapsed \union {j}
  /\ \/ blacklist' = blacklist \ {j} \/ UNCHANGED blacklist
  /\ UNCHANGED <<owner, refreshKey, dead, spent, revoked, refresh>>

Die(j) ==
  /\ j \in lapsed
  /\ dead' = dead \union {j}
  /\ refreshKey' = [refreshKey EXCEPT ![j] = "none"]
  /\ UNCHANGED <<owner, blacklist, lapsed, spent, revoked, refresh>>

SessionsNext ==
  \/ \E j \in Jtis :
       \/ \E s \in Staff : Login(s, j)
       \/ Logout(j) \/ RevokeAll(j) \/ Lapse(j) \/ Die(j)
  \/ \E c \in AuthCalls :
       \/ \E j \in Jtis : Refresh(c, j) \/ StoreRefreshToken(c, j)
       \/ RevokeRefreshToken(c) \/ FailRefresh(c) \/ EndRefresh(c)

SessionsSpec == SessionsInit /\ [][SessionsNext]_sessionVars

-----------------------------------------------------------------------------
\* POST /api/auth/refresh gives a new access token for a refresh token that login or refresh
\* gave, that has not expired, that no refresh has used and whose session was not revoked
\* (API_REFERENCE.md:18-19).
RefreshWorks ==
  \A c \in AuthCalls :
    refresh[c].answer = "TOKEN_REVOKED" => refresh[c].jti \in spent \union dead \union revoked

\* "POST /api/auth/revoke-all: Revoke all sessions for user" (API_REFERENCE.md:26): the guard
\* refuses the access tokens of the sessions that were revoked.
RevokedSessionsEnd == \A j \in revoked : ~Passes(j)
=============================================================================
