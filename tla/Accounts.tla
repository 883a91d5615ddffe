------------------------------ MODULE Accounts ------------------------------
(***************************************************************************)
(* One listener's account: the sign-in through Spotify, the sessions of    *)
(* his browsers, the stored grant, the refreshes of its access token by    *)
(* any number of requests and tasks at once, and the account being deleted *)
(* and opened again.                                                       *)
(*                                                                         *)
(* Refresh tokens are numbered in the order Spotify issues them.  Spotify  *)
(* may answer a refresh with a new refresh token, and then takes the one   *)
(* it was given no longer; an account's rows are keyed by a number that is *)
(* never used twice (a UUID).                                              *)
(***************************************************************************)
EXTENDS Integers

CONSTANTS
    Browsers,     \* one session or sign-in each
    Workers,      \* requests and tasks in need of a token
    MaxAccounts,  \* bound: accounts opened
    MaxTokens     \* bound: refresh tokens issued

ASSUME ConstantsAssumption ==
    MaxAccounts \in Nat /\ MaxTokens \in Nat

VARIABLES
    account,   \* the users row of this listener, 0 for none
    opened,    \* accounts opened so far
    cred,      \* spotify_credentials: the refresh token, the access token's age
    valid,     \* refresh tokens Spotify takes
    issued,    \* refresh tokens issued so far
    login,     \* login[b]: the sign-in of browser b
    session,   \* session[b]: the account its session cookie names, 0 for none
    fetch,     \* fetch[w]: a refresh of the access token
    logger,    \* stream_logger_enabled: his plays are polled, with a token
    mishap     \* history: a rotated token was lost, or the grant was withdrawn

grantVars == <<valid, issued>>
vars == <<account, opened, cred, grantVars, login, session, fetch, logger, mishap>>

NoLogin == [pc |-> "idle", user |-> 0, token |-> 0]
NoFetch == [pc |-> "idle", user |-> 0, token |-> 0, got |-> 0]
NoCred == [refresh |-> 0, fresh |-> FALSE]

-----------------------------------------------------------------------------
(* login, callback, logout *)

\* The state is kept in Redis, for ten minutes.
Login(b) ==
    /\ login[b].pc = "idle" /\ session[b] = 0
    /\ login' = [login EXCEPT ![b].pc = "asked"]
    /\ UNCHANGED <<account, opened, cred, grantVars, session, fetch, logger, mishap>>

\* The state has expired, the listener declined, or a call failed.
GiveUp(b) ==
    /\ login[b].pc # "idle"
    /\ login' = [login EXCEPT ![b] = NoLogin]
    /\ UNCHANGED <<account, opened, cred, grantVars, session, fetch, logger, mishap>>

\* The code is exchanged for tokens, and the user looked up.
Exchange(b) ==
    /\ login[b].pc = "asked" /\ issued < MaxTokens
    /\ issued' = issued + 1
    /\ valid' = valid \cup {issued + 1}
    /\ login' = [login EXCEPT ![b] = [pc |-> "exchanged", user |-> account, token |-> issued + 1]]
    /\ UNCHANGED <<account, opened, cred, session, fetch, logger, mishap>>

\* Mutant: the account's key is the same after it was deleted and opened again.
NewKey_reused(n) == 1

\* The primary key of the n-th account.
NewKey(n) == n

\* store_tokens, and the commit.  A user found by none and inserted meanwhile
\* breaks a unique key, one found and deleted meanwhile cannot be updated.
StoreTokens(b) ==
    LET known == login[b].user # 0
    IN  /\ login[b].pc = "exchanged"
        /\ login[b].user = account
        /\ known \/ opened < MaxAccounts
        /\ opened' = IF known THEN opened ELSE opened + 1
        /\ account' = IF known THEN account ELSE NewKey(opened + 1)
        /\ cred' = [refresh |-> login[b].token, fresh |-> TRUE]
        /\ login' = [login EXCEPT ![b].pc = "stored", ![b].user = account']
        /\ logger' = IF known THEN logger ELSE TRUE
        /\ UNCHANGED <<grantVars, session, fetch, mishap>>

OpenSession(b) ==
    /\ login[b].pc = "stored"
    /\ session' = [session EXCEPT ![b] = login[b].user]
    /\ login' = [login EXCEPT ![b] = NoLogin]
    /\ UNCHANGED <<account, opened, cred, grantVars, fetch, logger, mishap>>

\* get_current_user lets the request through.
SignedIn(b) == session[b] # 0 /\ session[b] = account

\* Logout, or the end of the session's time to live.
CloseSession(b) ==
    /\ session[b] # 0
    /\ session' = [session EXCEPT ![b] = 0]
    /\ UNCHANGED <<account, opened, cred, grantVars, login, fetch, logger, mishap>>

\* delete_account: the rows go, the sessions in Redis stay.
DeleteAccount(b) ==
    /\ SignedIn(b)
    /\ account' = 0
    /\ cred' = NoCred
    /\ UNCHANGED <<opened, grantVars, login, session, fetch, logger, mishap>>

\* update_preferences: the logger is switched on or off.
SetLogger(b) ==
    /\ SignedIn(b)
    /\ logger' = ~logger
    /\ UNCHANGED <<account, opened, cred, grantVars, login, session, fetch, mishap>>

-----------------------------------------------------------------------------
(* get_valid_access_token *)

\* Read the credential; an access token that lives is used as it is.
BeginFetch(w) ==
    /\ fetch[w].pc = "idle" /\ account # 0 /\ ~cred.fresh
    /\ fetch' = [fetch EXCEPT ![w] =
                   [pc |-> "asking", user |-> account, token |-> cred.refresh, got |-> 0]]
    /\ UNCHANGED <<account, opened, cred, grantVars, login, session, logger, mishap>>

\* Spotify replaces a refresh token.
Rotate(token) ==
    /\ token \in valid /\ issued < MaxTokens
    /\ issued' = issued + 1
    /\ valid' = (valid \ {token}) \cup {issued + 1}

Answer(w) ==
    LET t == fetch[w].token
    IN  /\ fetch[w].pc = "asking"
        /\ \/ t \in valid /\ UNCHANGED grantVars
              /\ fetch' = [fetch EXCEPT ![w].pc = "answered"]
           \/ Rotate(t)
              /\ fetch' = [fetch EXCEPT ![w].pc = "answered", ![w].got = issued + 1]
           \/ t \notin valid /\ UNCHANGED grantVars     \* 400: raised
              /\ fetch' = [fetch EXCEPT ![w] = NoFetch]
        /\ UNCHANGED <<account, opened, cred, login, session, logger, mishap>>

\* Mutant: a rotated refresh token is not stored.
Kept_old(f, c) == c.refresh

\* The refresh token an answer leaves in the credential.
Kept(f, c) == IF f.got # 0 THEN f.got ELSE c.refresh

\* Mutant: expires_at keeps its old value.
Renewed_sameExpiry(f, c) == [refresh |-> Kept(f, c), fresh |-> c.fresh]

Renewed(f, c) == [refresh |-> Kept(f, c), fresh |-> TRUE]

\* Only the columns that changed are written; a row that is gone raises.
StoreRefreshed(w) ==
    /\ fetch[w].pc = "answered"
    /\ cred' = IF fetch[w].user = account THEN Renewed(fetch[w], cred) ELSE cred
    /\ fetch' = [fetch EXCEPT ![w] = NoFetch]
    /\ UNCHANGED <<account, opened, grantVars, login, session, logger, mishap>>

\* No new refresh token is involved, and none is lost: the token endpoint answers
\* 429 or 5xx or not within 15 s, or the process dies before the commit.
FailFetch(w) ==
    /\ fetch[w].pc # "idle" /\ fetch[w].got = 0
    /\ fetch' = [fetch EXCEPT ![w] = NoFetch]
    /\ UNCHANGED <<account, opened, cred, grantVars, login, session, logger, mishap>>

\* The same with a new refresh token in the answer.
LoseAnswer(w) ==
    /\ \/ fetch[w].pc = "asking" /\ Rotate(fetch[w].token)
       \/ fetch[w].got # 0 /\ UNCHANGED grantVars
    /\ fetch' = [fetch EXCEPT ![w] = NoFetch]
    /\ mishap' = TRUE
    /\ UNCHANGED <<account, opened, cred, login, session, logger>>

\* An hour passes.
Expire ==
    /\ cred.fresh
    /\ cred' = [cred EXCEPT !.fresh = FALSE]
    /\ UNCHANGED <<account, opened, grantVars, login, session, fetch, logger, mishap>>

\* The listener withdraws the grant in his Spotify account.
Withdraw ==
    /\ valid # {} /\ ~mishap
    /\ valid' = {}
    /\ mishap' = TRUE
    /\ UNCHANGED <<account, opened, cred, issued, login, session, fetch, logger>>

-----------------------------------------------------------------------------
Init ==
    /\ account = 0 /\ opened = 0 /\ cred = NoCred
    /\ valid = {} /\ issued = 0
    /\ login = [b \in Browsers |-> NoLogin]
    /\ session = [b \in Browsers |-> 0]
    /\ fetch = [w \in Workers |-> NoFetch]
    /\ logger = TRUE /\ mishap = FALSE

BrowserStep(b) ==
    \/ Login(b) \/ GiveUp(b) \/ Exchange(b) \/ StoreTokens(b) \/ OpenSession(b)
    \/ CloseSession(b) \/ DeleteAccount(b) \/ SetLogger(b)

FetchStep(w) ==
    BeginFetch(w) \/ Answer(w) \/ StoreRefreshed(w) \/ FailFetch(w) \/ LoseAnswer(w)

Next ==
    \/ \E b \in Browsers : BrowserStep(b)
    \/ \E w \in Workers : FetchStep(w)
    \/ Expire \/ Withdraw

Spec == Init /\ [][Next]_vars

\* While the logger is on, polls keep asking for a token (every poll interval);
\* an outage of the token endpoint ends, and not every process dies at its commit.
Fairness ==
    \A w \in Workers : /\ WF_vars(logger /\ BeginFetch(w))
                       /\ SF_vars(Answer(w))
                       /\ SF_vars(StoreRefreshed(w))

FairSpec == Spec /\ Fairness

-----------------------------------------------------------------------------
(* Properties *)

\* Rows, tokens and requests keep their types.
TypeOK ==
    /\ account \in 0..opened /\ opened \in 0..MaxAccounts
    /\ issued \in 0..MaxTokens /\ valid \subseteq 1..issued
    /\ cred \in [refresh : 0..issued, fresh : BOOLEAN]
    /\ login \in [Browsers -> [pc : {"idle", "asked", "exchanged", "stored"},
                               user : 0..opened, token : 0..issued]]
    /\ session \in [Browsers -> 0..opened]
    /\ fetch \in [Workers -> [pc : {"idle", "asking", "answered"},
                              user : 0..opened, token : 0..issued, got : 0..issued]]
    /\ logger \in BOOLEAN /\ mishap \in BOOLEAN

\* The stored refresh token is one Spotify takes, or its successor is on its way
\* into the credential, however many refreshes and sign-ins race, unless a rotated
\* token was lost or the grant withdrawn: a slower commit may replace a newer token
\* (auth.py:87-91), but not by a dead one.
StoredTokenWorks ==
    account # 0 /\ ~mishap =>
        \/ cred.refresh \in valid
        \/ \E w \in Workers : /\ fetch[w].pc = "answered" /\ fetch[w].user = account
                             /\ fetch[w].got \in valid

\* A session names an account only from its own sign-in on: neither deleting an
\* account nor opening it again lets an old session in (deps.py:40-46).
SessionOnlyByLogin ==
    [][\A b \in Browsers : ~SignedIn(b) /\ SignedIn(b)' => login[b].pc = "stored"]_vars

\* While his plays are polled, an access token that has expired is replaced, however
\* many refreshes fail or race and whichever token each of them has sent, unless the
\* account goes, a rotated token was lost or the grant withdrawn.
TokenComesBack ==
    (account # 0 /\ ~cred.fresh) ~> (account = 0 \/ cred.fresh \/ ~logger \/ mishap)
=============================================================================
