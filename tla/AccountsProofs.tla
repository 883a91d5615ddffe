--------------------------- MODULE AccountsProofs ---------------------------
(***************************************************************************)
(* The stored refresh token of Accounts works, for any number of browsers  *)
(* and workers: a token that is on its way into the credential is known to *)
(* nobody else, so no race can spend it.  And the requests that carry it   *)
(* keep to the budget of RateLimiter; under a deadline each caller sends   *)
(* one request at most.                                                    *)
(***************************************************************************)
EXTENDS Accounts, RateLimiter, TLAPS

USE ConstantsAssumption

-----------------------------------------------------------------------------
(* Type correctness.  Keys and tokens are only ever added. *)

Logins(o, i) ==
    [pc : {"idle", "asked", "exchanged", "stored"}, user : 0..o, token : 0..i]
Fetches(o, i) ==
    [pc : {"idle", "asking", "answered"}, user : 0..o, token : 0..i, got : 0..i]

LEMMA TypeInit == Init => TypeOK
<1>. SUFFICES ASSUME Init PROVE TypeOK
  OBVIOUS
<1>1. logger \in BOOLEAN /\ mishap \in BOOLEAN
  BY Zenon DEF Init
<1>. QED
  BY <1>1 DEF Init, TypeOK, NoLogin, NoFetch, NoCred

LEMMA Counted ==
    ASSUME TypeOK, [Next]_vars
    PROVE  /\ UNCHANGED <<account, opened>> \/ \E b \in Browsers : StoreTokens(b) \/ DeleteAccount(b)
           /\ \/ UNCHANGED grantVars
              \/ \E b \in Browsers : Exchange(b)
              \/ \E t \in valid : Rotate(t)
              \/ valid' = {} /\ UNCHANGED issued
<1>1. ASSUME NEW w \in Workers, FetchStep(w)
      PROVE  /\ UNCHANGED <<account, opened>>
             /\ UNCHANGED grantVars \/ \E t \in valid : Rotate(t)
  BY <1>1, Zenon DEF FetchStep, BeginFetch, Answer, StoreRefreshed, FailFetch, LoseAnswer, Rotate
<1>2. ASSUME NEW b \in Browsers, BrowserStep(b)
      PROVE  /\ UNCHANGED <<account, opened>> \/ StoreTokens(b) \/ DeleteAccount(b)
             /\ UNCHANGED grantVars \/ Exchange(b)
  BY <1>2, Zenon DEF BrowserStep, Login, GiveUp, Exchange, StoreTokens, OpenSession,
     CloseSession, DeleteAccount, SetLogger
<1>3. CASE Expire \/ UNCHANGED vars
  BY <1>3, Zenon DEF Expire, vars
<1>4. CASE Withdraw
  BY <1>4, Zenon DEF Withdraw
<1>. QED
  BY <1>1, <1>2, <1>3, <1>4, Zenon DEF Next

LEMMA Counters ==
    ASSUME TypeOK, [Next]_vars
    PROVE  /\ opened \in Nat /\ opened' \in Nat /\ issued \in Nat /\ issued' \in Nat
           /\ opened <= opened' /\ opened' <= MaxAccounts
           /\ issued <= issued' /\ issued' <= MaxTokens
           /\ account' \in 0..opened' /\ valid' \subseteq 1..issued'
<1>. /\ account \in 0..opened /\ opened \in 0..MaxAccounts
     /\ issued \in 0..MaxTokens /\ valid \subseteq 1..issued
  BY DEF TypeOK
<1>1. opened' \in opened..MaxAccounts /\ account' \in 0..opened'
  <2>1. ASSUME NEW b \in Browsers, StoreTokens(b)
        PROVE  opened' \in opened..MaxAccounts /\ account' \in 0..opened'
    BY <2>1 DEF StoreTokens, NewKey
  <2>. QED
    BY <2>1, Counted DEF DeleteAccount
<1>2. issued' \in issued..MaxTokens /\ valid' \subseteq 1..issued'
  <2>1. ASSUME NEW b \in Browsers, Exchange(b)
        PROVE  issued' \in issued..MaxTokens /\ valid' \subseteq 1..issued'
    BY <2>1 DEF Exchange
  <2>2. ASSUME NEW t \in valid, Rotate(t)
        PROVE  issued' \in issued..MaxTokens /\ valid' \subseteq 1..issued'
    BY <2>2 DEF Rotate
  <2>3. CASE UNCHANGED grantVars
    BY <2>3 DEF grantVars
  <2>4. CASE valid' = {} /\ UNCHANGED issued
    BY <2>4
  <2>. QED
    BY <2>1, <2>2, <2>3, <2>4, Counted, Zenon
<1>. QED
  BY <1>1, <1>2

LEMMA Grown ==
    ASSUME TypeOK, [Next]_vars
    PROVE  /\ login \in [Browsers -> Logins(opened', issued')]
           /\ session \in [Browsers -> 0..opened']
           /\ fetch \in [Workers -> Fetches(opened', issued')]
           /\ cred \in [refresh : 0..issued', fresh : BOOLEAN]
           /\ valid \subseteq 1..issued'
BY Counters DEF TypeOK, Logins, Fetches

LEMMA TypeStep == TypeOK /\ [Next]_vars => TypeOK'
<1>. SUFFICES ASSUME TypeOK, [Next]_vars PROVE TypeOK'
  OBVIOUS
<1>. DEFINE L == Logins(opened', issued')
            F == Fetches(opened', issued')
<1>0. /\ opened \in Nat /\ opened' \in Nat /\ issued \in Nat /\ issued' \in Nat
      /\ opened <= opened' /\ opened' <= MaxAccounts
      /\ issued <= issued' /\ issued' <= MaxTokens
      /\ account' \in 0..opened' /\ valid' \subseteq 1..issued'
  BY Counters
<1>1. /\ login \in [Browsers -> L] /\ session \in [Browsers -> 0..opened']
      /\ fetch \in [Workers -> F] /\ cred \in [refresh : 0..issued', fresh : BOOLEAN]
      /\ valid \subseteq 1..issued'
  BY Grown
<1>4. login' \in [Browsers -> L]
  <2>1. ASSUME NEW b \in Browsers, NEW r \in L, login' = [login EXCEPT ![b] = r]
        PROVE  login' \in [Browsers -> L]
    BY <1>1, <2>1
  <2>2. ASSUME NEW b \in Browsers, BrowserStep(b) PROVE login' \in [Browsers -> L]
    <3>1. login[b] \in L
      BY <1>1
    <3>2. CASE Login(b)
      BY <1>1, <3>1, <3>2 DEF Login, Logins
    <3>3. CASE GiveUp(b)
      BY <1>0, <1>1, <3>3 DEF GiveUp, NoLogin, Logins
    <3>4. CASE Exchange(b)
      BY <1>0, <1>1, <3>4 DEF Exchange, Logins
    <3>5. CASE StoreTokens(b)
      BY <1>0, <1>1, <3>1, <3>5 DEF StoreTokens, Logins
    <3>6. CASE OpenSession(b)
      BY <1>0, <1>1, <3>6 DEF OpenSession, NoLogin, Logins
    <3>7. CASE CloseSession(b) \/ DeleteAccount(b) \/ SetLogger(b)
      BY <1>1, <3>7 DEF CloseSession, DeleteAccount, SetLogger
    <3>. QED
      BY <2>2, <3>2, <3>3, <3>4, <3>5, <3>6, <3>7 DEF BrowserStep
  <2>3. CASE UNCHANGED login
    BY <1>1, <2>3
  <2>. QED
    BY <2>2, <2>3 DEF Next, FetchStep, BeginFetch, Answer, StoreRefreshed, FailFetch, LoseAnswer, Expire,
       Withdraw, vars
<1>5. session' \in [Browsers -> 0..opened']
  <2>1. ASSUME NEW b \in Browsers, BrowserStep(b) PROVE session' \in [Browsers -> 0..opened']
    <3>1. CASE OpenSession(b)
      BY <1>0, <1>1, <3>1 DEF OpenSession, Logins
    <3>2. CASE CloseSession(b)
      BY <1>0, <1>1, <3>2 DEF CloseSession
    <3>3. CASE UNCHANGED session
      BY <1>1, <3>3
    <3>. QED
      BY <2>1, <3>1, <3>2, <3>3, Zenon DEF BrowserStep, Login, GiveUp, Exchange, StoreTokens,
         DeleteAccount, SetLogger
  <2>2. CASE UNCHANGED session
    BY <1>1, <2>2
  <2>. QED
    BY <2>1, <2>2 DEF Next, FetchStep, BeginFetch, Answer, StoreRefreshed, FailFetch, LoseAnswer, Expire,
       Withdraw, vars
<1>6. fetch' \in [Workers -> F]
  <2>1. ASSUME NEW w \in Workers, FetchStep(w) PROVE fetch' \in [Workers -> F]
    <3>1. fetch[w] \in F
      BY <1>1
    <3>2. CASE BeginFetch(w)
      BY <1>0, <1>1, <3>2 DEF BeginFetch, Fetches, grantVars
    <3>3. CASE Answer(w)
      BY <1>0, <1>1, <3>1, <3>3 DEF Answer, Rotate, NoFetch, Fetches, grantVars
    <3>4. CASE StoreRefreshed(w) \/ FailFetch(w) \/ LoseAnswer(w)
      BY <1>0, <1>1, <3>4 DEF StoreRefreshed, FailFetch, LoseAnswer, NoFetch, Fetches
    <3>. QED
      BY <2>1, <3>2, <3>3, <3>4 DEF FetchStep
  <2>2. CASE UNCHANGED fetch
    BY <1>1, <2>2
  <2>. QED
    BY <2>1, <2>2 DEF Next, BrowserStep, Login, GiveUp, Exchange, StoreTokens, OpenSession,
       CloseSession, DeleteAccount, SetLogger, Expire, Withdraw, vars
<1>7. cred' \in [refresh : 0..issued', fresh : BOOLEAN]
  <2>1. ASSUME NEW b \in Browsers, StoreTokens(b) \/ DeleteAccount(b)
        PROVE  cred' \in [refresh : 0..issued', fresh : BOOLEAN]
    <3>1. login[b].token \in 0..issued' /\ 0 \in 0..issued'
      BY <1>0, <1>1 DEF Logins
    <3>2. \E t \in 0..issued', f \in BOOLEAN : cred' = [refresh |-> t, fresh |-> f]
      BY <2>1, <3>1, Zenon DEF StoreTokens, DeleteAccount, NoCred
    <3>. QED
      BY <3>2
  <2>2. ASSUME NEW w \in Workers, StoreRefreshed(w)
        PROVE  cred' \in [refresh : 0..issued', fresh : BOOLEAN]
    BY <1>1, <2>2 DEF StoreRefreshed, Renewed, Kept, Fetches
  <2>3. CASE Expire
    BY <1>1, <2>3 DEF Expire
  <2>4. CASE UNCHANGED cred
    BY <1>1, <2>4
  <2>. QED
    BY <2>1, <2>2, <2>3, <2>4, Zenon DEF Next, BrowserStep, FetchStep, Login, GiveUp, Exchange,
       OpenSession, CloseSession, SetLogger, BeginFetch, Answer, FailFetch, LoseAnswer, Withdraw, vars
<1>8. mishap' \in BOOLEAN
  <2>1. mishap' = mishap \/ mishap' = TRUE
    BY Zenon DEF Next, BrowserStep, FetchStep, Login, GiveUp, Exchange, StoreTokens,
       OpenSession, CloseSession, DeleteAccount, SetLogger, BeginFetch, Answer, StoreRefreshed,
       FailFetch, LoseAnswer, Expire, Withdraw, vars
  <2>. QED
    BY <2>1, Zenon DEF TypeOK
<1>9. logger' \in BOOLEAN
  <2>1. logger' = logger \/ logger' = TRUE \/ logger' = ~logger
    BY Zenon DEF Next, BrowserStep, FetchStep, Login, GiveUp, Exchange, StoreTokens,
       OpenSession, CloseSession, DeleteAccount, SetLogger, BeginFetch, Answer, StoreRefreshed,
       FailFetch, LoseAnswer, Expire, Withdraw, vars
  <2>. QED
    BY <2>1, Zenon DEF TypeOK
<1>10. (logger \in BOOLEAN /\ mishap \in BOOLEAN)'
  BY <1>8, <1>9, Zenon
<1>. QED
  BY <1>0, <1>4, <1>5, <1>6, <1>7, <1>10 DEF TypeOK, Logins, Fetches

\* Rows, tokens and requests keep their types.
THEOREM TypeCorrect == Spec => []TypeOK
BY TypeInit, TypeStep, PTL DEF Spec

-----------------------------------------------------------------------------
(* A new account's number is larger than any a session names.               *)

SessionsByLogin == \A b \in Browsers : ~SignedIn(b) /\ SignedIn(b)' => login[b].pc = "stored"

LEMMA SessionStep == TypeOK /\ [Next]_vars => SessionsByLogin
<1>. SUFFICES ASSUME TypeOK, [Next]_vars, NEW b \in Browsers, ~SignedIn(b), SignedIn(b)'
              PROVE  login[b].pc = "stored"
  BY DEF SessionsByLogin
<1>0. session[b] \in 0..opened /\ opened \in Nat
  BY DEF TypeOK
<1>1. ASSUME NEW c \in Browsers, OpenSession(c) PROVE login[b].pc = "stored"
  BY <1>1 DEF OpenSession, SignedIn, TypeOK
<1>2. ASSUME NEW c \in Browsers, StoreTokens(c) PROVE FALSE
  BY <1>0, <1>2 DEF StoreTokens, SignedIn, TypeOK, NewKey
<1>3. ASSUME NEW c \in Browsers, CloseSession(c) \/ DeleteAccount(c) PROVE FALSE
  BY <1>3 DEF CloseSession, DeleteAccount, SignedIn, TypeOK
<1>4. CASE UNCHANGED <<account, session>>
  BY <1>4 DEF SignedIn
<1>. QED
  BY <1>1, <1>2, <1>3, <1>4, Zenon DEF Next, BrowserStep, FetchStep, Login, GiveUp, Exchange,
     SetLogger, BeginFetch, Answer, StoreRefreshed, FailFetch, LoseAnswer, Expire, Withdraw, vars

\* However often an account is deleted and opened again, a browser is let in only by the
\* last step of a sign-in of its own.
THEOREM SessionTheorem == Spec => SessionOnlyByLogin
<1>1. TypeOK /\ [Next]_vars => [SessionsByLogin]_vars
  BY SessionStep
<1>2. Spec => [][SessionsByLogin]_vars
  BY <1>1, TypeCorrect, PTL DEF Spec
<1>. QED
  BY <1>2 DEF SessionOnlyByLogin, SessionsByLogin

-----------------------------------------------------------------------------
(* Who knows a token.  One that a sign-in has been given and one that a     *)
(* rotation is returning are known to nobody else; the token in the         *)
(* credential is sent by refreshes of this account only.  So the one        *)
(* refresh that may spend it brings its successor back to it.               *)

Works(t) == t \in valid \/ mishap

Given(b) == login[b].pc = "exchanged"
Returned(w) == fetch[w].pc = "answered" /\ fetch[w].got # 0

GivenInv ==
    \A b \in Browsers : Given(b) =>
        /\ login[b].token # 0 /\ Works(login[b].token)
        /\ login[b].token # cred.refresh
        /\ \A c \in Browsers : Given(c) /\ c # b => login[c].token # login[b].token
        /\ \A w \in Workers : login[b].token # fetch[w].token /\ login[b].token # fetch[w].got

ReturnedInv ==
    \A w \in Workers : Returned(w) =>
        /\ Works(fetch[w].got)
        /\ fetch[w].got # cred.refresh
        /\ \A v \in Workers : fetch[w].got # fetch[v].token
        /\ \A v \in Workers : Returned(v) /\ v # w => fetch[v].got # fetch[w].got

SentInv ==
    \A w \in Workers : fetch[w].pc # "idle" =>
        /\ fetch[w].token # 0 /\ fetch[w].user # 0
        /\ fetch[w].token = cred.refresh => fetch[w].user = account
        /\ fetch[w].pc = "asking" => fetch[w].got = 0

CredInv == account = 0 <=> cred.refresh = 0

OnItsWay ==
    account # 0 => \/ Works(cred.refresh)
                   \/ \E w \in Workers : Returned(w) /\ fetch[w].user = account

TokenInv == GivenInv /\ ReturnedInv /\ SentInv /\ CredInv /\ OnItsWay

LEMMA TokenInit == Init => TokenInv
BY DEF Init, NoLogin, NoFetch, NoCred, TokenInv, GivenInv, ReturnedInv, SentInv, CredInv,
       OnItsWay, Given, Returned

\* Steps that neither touch a refresh nor the stored token.
LEMMA Untouched ==
    ASSUME TokenInv, UNCHANGED <<account, fetch>>, cred'.refresh = cred.refresh,
           \A t : Works(t) => Works(t)',
           \A b \in Browsers : Given(b)' => Given(b) /\ login'[b].token = login[b].token
    PROVE  TokenInv'
BY DEF TokenInv, GivenInv, ReturnedInv, SentInv, CredInv, OnItsWay, Returned

LEMMA ExchangeStep ==
    ASSUME TypeOK, TokenInv, NEW b \in Browsers, Exchange(b)
    PROVE  TokenInv'
<1>. PICK n : n = issued + 1
  OBVIOUS
<1>1. /\ n # 0 /\ n # cred.refresh
      /\ \A c \in Browsers : login[c].token # n
      /\ \A w \in Workers : fetch[w].token # n /\ fetch[w].got # n
  BY DEF TypeOK
<1>2. /\ n \in valid' /\ valid \subseteq valid'
      /\ mishap' = mishap
  BY Zenon DEF Exchange
<1>3. Works(n)' /\ \A t : Works(t) => Works(t)'
  BY <1>2, Zenon DEF Works
<1>4. /\ UNCHANGED <<account, fetch, cred>>
      /\ login'[b].pc = "exchanged" /\ login'[b].token = n
      /\ \A c \in Browsers : c # b => login'[c] = login[c]
  BY DEF Exchange, TypeOK
<1>. QED
  BY <1>1, <1>4, <1>3 DEF TokenInv, GivenInv, ReturnedInv, SentInv, CredInv, OnItsWay,
     Returned, Given

\* The token a sign-in stores is sent and returned by no refresh.
LEMMA StoreStep ==
    ASSUME TypeOK, TokenInv, NEW b \in Browsers, StoreTokens(b)
    PROVE  TokenInv'
<1>1. /\ UNCHANGED fetch /\ cred'.refresh = login[b].token
      /\ Given(b) /\ ~Given(b)'
      /\ \A c \in Browsers : c # b => login'[c] = login[c]
  BY DEF StoreTokens, TypeOK, Given
<1>2. account' # 0
  BY DEF StoreTokens, TypeOK, NewKey
<1>3. \A t : Works(t) => Works(t)'
  BY Zenon DEF StoreTokens, Works, grantVars
<1>. QED
  BY <1>1, <1>2, <1>3 DEF TokenInv, GivenInv, ReturnedInv, SentInv, CredInv, OnItsWay,
     Returned, Given

LEMMA DeleteStep ==
    ASSUME TypeOK, TokenInv, NEW b \in Browsers, DeleteAccount(b)
    PROVE  TokenInv'
<1>1. /\ UNCHANGED <<fetch, login>> /\ cred'.refresh = 0 /\ account' = 0
  BY DEF DeleteAccount, NoCred
<1>2. \A t : Works(t) => Works(t)'
  BY Zenon DEF DeleteAccount, Works, grantVars
<1>. QED
  BY <1>1, <1>2 DEF TokenInv, GivenInv, ReturnedInv, SentInv, CredInv, OnItsWay,
     Returned, Given

LEMMA BeginStep ==
    ASSUME TypeOK, TokenInv, NEW w \in Workers, BeginFetch(w)
    PROVE  TokenInv'
<1>1. /\ UNCHANGED <<account, cred, login>> /\ account # 0
      /\ fetch[w].pc = "idle"
      /\ fetch'[w] = [pc |-> "asking", user |-> account, token |-> cred.refresh, got |-> 0]
      /\ \A v \in Workers : v # w => fetch'[v] = fetch[v]
  BY DEF BeginFetch, TypeOK
<1>2. \A t : Works(t) => Works(t)'
  BY Zenon DEF BeginFetch, Works, grantVars
<1>. QED
  BY <1>1, <1>2 DEF TokenInv, GivenInv, ReturnedInv, SentInv, CredInv, OnItsWay,
     Returned, Given

\* A worker is done with a refresh and leaves the credential as it is.
LEMMA DropFetch ==
    ASSUME TypeOK, TokenInv, NEW w \in Workers, fetch' = [fetch EXCEPT ![w] = NoFetch],
           UNCHANGED <<account, login>>, cred'.refresh = cred.refresh,
           \A t : Works(t) => Works(t)',
           account # 0 => (Returned(w) /\ fetch[w].user = account => Works(cred.refresh)')
    PROVE  TokenInv'
<1>1. /\ fetch'[w] = NoFetch
      /\ \A v \in Workers : v # w => fetch'[v] = fetch[v]
  BY DEF TypeOK
<1>. QED
  BY <1>1 DEF TokenInv, GivenInv, ReturnedInv, SentInv, CredInv, OnItsWay, Returned, Given,
     NoFetch

\* The rotated token is the credential's or was replaced there.
LEMMA RotateStep ==
    ASSUME TokenInv, NEW w \in Workers, NEW n, NEW t,
           UNCHANGED <<account, cred, login, mishap>>,
           n # 0, n # cred.refresh, \A c \in Browsers : login[c].token # n,
           \A v \in Workers : fetch[v].token # n /\ fetch[v].got # n,
           n \in valid', \A u : u \in valid /\ u # t => u \in valid',
           fetch[w].pc = "asking", fetch[w].token = t,
           fetch'[w].pc = "answered", fetch'[w].got = n,
           fetch'[w].token = t, fetch'[w].user = fetch[w].user,
           \A v \in Workers : v # w => fetch'[v] = fetch[v]
    PROVE  TokenInv'
<1>1. GivenInv'
  <2>. SUFFICES ASSUME NEW b \in Browsers, Given(b)
                PROVE  /\ login[b].token # 0 /\ (login[b].token \in valid' \/ mishap)
                       /\ login[b].token # cred.refresh
                       /\ \A c \in Browsers : Given(c) /\ c # b => login[c].token # login[b].token
                       /\ \A v \in Workers :
                             login[b].token # fetch'[v].token /\ login[b].token # fetch'[v].got
    BY DEF GivenInv, Given, Works
  <2>1. login[b].token # t /\ Works(login[b].token)
    BY DEF TokenInv, GivenInv
  <2>2. login[b].token \in valid' \/ mishap
    BY <2>1, Zenon DEF Works
  <2>. QED
    BY <2>2 DEF TokenInv, GivenInv
<1>2. ReturnedInv'
  <2>. SUFFICES ASSUME NEW v \in Workers, fetch'[v].pc = "answered", fetch'[v].got # 0
                PROVE  /\ fetch'[v].got \in valid' \/ mishap
                       /\ fetch'[v].got # cred.refresh
                       /\ \A u \in Workers : fetch'[v].got # fetch'[u].token
                       /\ \A u \in Workers : Returned(u)' /\ u # v => fetch'[u].got # fetch'[v].got
    BY DEF ReturnedInv, Returned, Works
  <2>1. CASE v = w
    BY <2>1 DEF Returned
  <2>2. CASE v # w
    <3>1. Returned(v) /\ fetch'[v] = fetch[v]
      BY <2>2 DEF Returned
    <3>2. fetch[v].got # t /\ Works(fetch[v].got)
      BY <3>1 DEF TokenInv, ReturnedInv
    <3>3. fetch[v].got \in valid' \/ mishap
      BY <3>2, Zenon DEF Works
    <3>. QED
      BY <2>2, <3>1, <3>3 DEF TokenInv, ReturnedInv, Returned
  <2>. QED
    BY <2>1, <2>2
<1>3. SentInv'
  <2>. SUFFICES ASSUME NEW v \in Workers, fetch'[v].pc # "idle"
                PROVE  /\ fetch'[v].token # 0 /\ fetch'[v].user # 0
                       /\ fetch'[v].token = cred.refresh => fetch'[v].user = account
                       /\ fetch'[v].pc = "asking" => fetch'[v].got = 0
    BY DEF SentInv
  <2>. QED
    BY DEF TokenInv, SentInv
<1>4. CredInv'
  BY Zenon DEF TokenInv, CredInv
<1>5. OnItsWay'
  <2>1. CASE cred.refresh = t
    BY <2>1 DEF TokenInv, SentInv, OnItsWay, Returned
  <2>2. CASE cred.refresh # t
    <3>. SUFFICES ASSUME account # 0, ~ \E v \in Workers : Returned(v) /\ fetch[v].user = account
                  PROVE  cred.refresh \in valid' \/ mishap
      BY DEF OnItsWay, Returned, Works
    <3>. QED
      BY <2>2, Zenon DEF TokenInv, OnItsWay, Works
  <2>. QED
    BY <2>1, <2>2
<1>. QED
  BY <1>1, <1>2, <1>3, <1>4, <1>5, Zenon DEF TokenInv

LEMMA AnswerStep ==
    ASSUME TypeOK, TokenInv, NEW w \in Workers, Answer(w)
    PROVE  TokenInv'
<1>1. CASE Rotate(fetch[w].token) /\ fetch' = [fetch EXCEPT ![w].pc = "answered", ![w].got = issued + 1]
  <2>. PICK n : n = issued + 1
    OBVIOUS
  <2>. PICK t : t = fetch[w].token
    OBVIOUS
  <2>1. /\ n # 0 /\ n # cred.refresh
        /\ \A c \in Browsers : login[c].token # n
        /\ \A v \in Workers : fetch[v].token # n /\ fetch[v].got # n
    BY DEF TypeOK
  <2>2. n \in valid' /\ \A u : u \in valid /\ u # t => u \in valid'
    BY <1>1 DEF Rotate
  <2>3. /\ fetch'[w].pc = "answered" /\ fetch'[w].got = n
        /\ fetch'[w].token = t /\ fetch'[w].user = fetch[w].user
        /\ \A v \in Workers : v # w => fetch'[v] = fetch[v]
    BY <1>1 DEF TypeOK
  <2>4. fetch[w].pc = "asking" /\ UNCHANGED <<account, cred, login, mishap>>
    BY Zenon DEF Answer
  <2>. QED
    BY <2>1, <2>2, <2>3, <2>4, RotateStep
<1>2. CASE UNCHANGED grantVars /\ fetch' = [fetch EXCEPT ![w].pc = "answered"]
  <2>1. /\ fetch[w].pc = "asking" /\ fetch'[w].got = fetch[w].got
        /\ fetch'[w].token = fetch[w].token /\ fetch'[w].user = fetch[w].user
        /\ fetch'[w].pc = "answered"
        /\ \A v \in Workers : v # w => fetch'[v] = fetch[v]
    BY <1>2 DEF Answer, TypeOK
  <2>2. \A t : Works(t) => Works(t)'
    BY <1>2, Zenon DEF Answer, Works, grantVars
  <2>3. UNCHANGED <<account, cred, login>>
    BY DEF Answer
  <2>. QED
    BY <2>1, <2>2, <2>3 DEF TokenInv, GivenInv, ReturnedInv, SentInv, CredInv, OnItsWay,
       Returned, Given
<1>3. CASE UNCHANGED grantVars /\ fetch' = [fetch EXCEPT ![w] = NoFetch]
  <2>1. \A t : Works(t) => Works(t)'
    BY <1>3, Zenon DEF Answer, Works, grantVars
  <2>2. ~Returned(w) /\ UNCHANGED <<account, cred, login>>
    BY DEF Answer, Returned
  <2>. QED
    BY <1>3, <2>1, <2>2, DropFetch
<1>. QED
  BY <1>1, <1>2, <1>3, Zenon DEF Answer

\* A returned token goes where nobody could have spent it.
LEMMA StoreRefreshedStep ==
    ASSUME TypeOK, TokenInv, NEW w \in Workers, StoreRefreshed(w)
    PROVE  TokenInv'
<1>0. /\ fetch[w].pc = "answered" /\ UNCHANGED <<account, login>>
      /\ fetch' = [fetch EXCEPT ![w] = NoFetch]
  BY DEF StoreRefreshed
<1>1. \A t : Works(t) <=> Works(t)'
  BY Zenon DEF StoreRefreshed, Works, grantVars
<1>2. CASE fetch[w].user = account /\ fetch[w].got # 0
  <2>1. Returned(w) /\ cred'.refresh = fetch[w].got
    BY <1>0, <1>2 DEF StoreRefreshed, Renewed, Kept, Returned
  <2>2. /\ fetch'[w] = NoFetch
        /\ \A v \in Workers : v # w => fetch'[v] = fetch[v]
    BY <1>0 DEF TypeOK
  <2>. QED
    BY <1>0, <1>1, <1>2, <2>1, <2>2 DEF TokenInv, GivenInv, ReturnedInv, SentInv, CredInv,
       OnItsWay, Returned, Given, NoFetch
<1>3. CASE ~(fetch[w].user = account /\ fetch[w].got # 0)
  <2>1. cred'.refresh = cred.refresh
    BY <1>3 DEF StoreRefreshed, Renewed, Kept
  <2>2. ~(Returned(w) /\ fetch[w].user = account)
    BY <1>3 DEF Returned
  <2>. QED
    BY <1>0, <1>1, <2>1, <2>2, DropFetch
<1>. QED
  BY <1>2, <1>3

LEMMA FailStep ==
    ASSUME TypeOK, TokenInv, NEW w \in Workers, FailFetch(w)
    PROVE  TokenInv'
<1>1. ~Returned(w) /\ \A t : Works(t) => Works(t)'
  BY Zenon DEF FailFetch, Returned, Works, grantVars
<1>2. /\ fetch' = [fetch EXCEPT ![w] = NoFetch]
      /\ UNCHANGED <<account, login>> /\ cred'.refresh = cred.refresh
  BY Zenon DEF FailFetch
<1>. QED
  BY <1>1, <1>2, DropFetch

LEMMA LoseStep ==
    ASSUME TypeOK, TokenInv, NEW w \in Workers, LoseAnswer(w)
    PROVE  TokenInv'
<1>1. \A t : Works(t)'
  BY Zenon DEF LoseAnswer, Works
<1>2. /\ fetch' = [fetch EXCEPT ![w] = NoFetch]
      /\ UNCHANGED <<account, login>> /\ cred'.refresh = cred.refresh
  BY Zenon DEF LoseAnswer
<1>. QED
  BY <1>1, <1>2, DropFetch

LEMMA QuietStep ==
    ASSUME TypeOK, TokenInv,
           \/ \E b \in Browsers :
                Login(b) \/ GiveUp(b) \/ OpenSession(b) \/ CloseSession(b) \/ SetLogger(b)
           \/ Expire \/ Withdraw \/ UNCHANGED vars
    PROVE  TokenInv'
<1>1. UNCHANGED <<account, fetch>> /\ cred'.refresh = cred.refresh
  BY DEF Login, GiveUp, OpenSession, CloseSession, SetLogger, Expire, Withdraw, vars, TypeOK
<1>2. \A t : Works(t) => Works(t)'
  BY Zenon DEF Login, GiveUp, OpenSession, CloseSession, SetLogger, Expire, Withdraw, vars, grantVars, Works
<1>3. \A b \in Browsers : Given(b)' => Given(b) /\ login'[b].token = login[b].token
  BY DEF Login, GiveUp, OpenSession, CloseSession, SetLogger, Expire, Withdraw, vars, TypeOK, Given, NoLogin
<1>. QED
  BY <1>1, <1>2, <1>3, Untouched

LEMMA TokenStep == TypeOK /\ TokenInv /\ [Next]_vars => TokenInv'
BY ExchangeStep, StoreStep, DeleteStep, BeginStep, AnswerStep, StoreRefreshedStep, FailStep, LoseStep,
   QuietStep, Zenon DEF Next, BrowserStep, FetchStep

LEMMA TokenSafe == TokenInv => StoredTokenWorks
<1>. SUFFICES ASSUME TokenInv, account # 0, ~mishap
              PROVE  \/ cred.refresh \in valid
                     \/ \E w \in Workers : /\ fetch[w].pc = "answered" /\ fetch[w].user = account
                                          /\ fetch[w].got \in valid
  BY Zenon DEF StoredTokenWorks
<1>. QED
  BY Zenon DEF TokenInv, OnItsWay, ReturnedInv, Returned, Works

\* However many sign-ins, refreshes, deletions and rotations race: until an answer is
\* lost or the grant withdrawn, the stored refresh token is one that Spotify takes, or its
\* successor is on its way into the credential.
THEOREM StoredTokenTheorem == Spec => []StoredTokenWorks
BY TypeInit, TypeStep, TokenInit, TokenStep, TokenSafe, PTL DEF Spec

-----------------------------------------------------------------------------
(* The request budget of RateLimiter, for any number of callers and every    *)
(* interval of the clock, any capacity, cost and retry policy.               *)

USE LimiterAssumption, ExpiryAssumption

LimiterPcs == {"idle", "calling", "looked", "stamped", "sent", "throttled"}
Buckets == [set : BOOLEAN, tokens : Int, ts : Times, last : Times]

-----------------------------------------------------------------------------
(* Type correctness *)

LEMMA RefilledType ==
    ASSUME LimiterTypeOK, NEW s \in Times
    PROVE  Refilled(s) \in Int /\ Refilled(s) <= Capacity
BY DEF LimiterTypeOK, Refilled, Smaller, BucketLives, Times

LEMMA LimiterTypeInit == LimiterInit => LimiterTypeOK
BY DEF LimiterInit, LimiterTypeOK, NoBucket, Times

LEMMA SendType ==
    ASSUME LimiterTypeOK, NEW c \in Callers, Send(c)
    PROVE  late' \in [Callers -> Nat]
BY DEF LimiterTypeOK, Send

LEMMA RetryType ==
    ASSUME LimiterTypeOK, NEW c \in Callers, Retry(c)
    PROVE  /\ pc' \in [Callers -> LimiterPcs]
           /\ attempt' \in [Callers -> 0..MaxAttempts]
BY DEF Retry, LimiterTypeOK, LimiterPcs

LEMMA LimiterTypeStep == LimiterTypeOK /\ [LimiterNext]_limiterVars => LimiterTypeOK'
<1>. SUFFICES ASSUME LimiterTypeOK, [LimiterNext]_limiterVars PROVE LimiterTypeOK'
  OBVIOUS
<1>1. CASE Tick
  BY <1>1 DEF Tick, LimiterTypeOK, Times, callerVars
<1>2. ASSUME NEW c \in Callers, Call(c) PROVE LimiterTypeOK'
  BY <1>2 DEF Call, LimiterTypeOK
<1>3. ASSUME NEW c \in Callers, Look(c) PROVE LimiterTypeOK'
  BY <1>3 DEF Look, LimiterTypeOK
<1>4. ASSUME NEW c \in Callers, Decide(c) PROVE LimiterTypeOK'
  <2>1. late' \in [Callers -> Nat]
    BY <1>4, SendType DEF Decide, LimiterTypeOK
  <2>2. pc' \in [Callers -> LimiterPcs] /\ stamp' \in [Callers -> Times] /\ seen' \in [Callers -> Nat]
    BY <1>4 DEF Decide, LimiterTypeOK, LimiterPcs
  <2>3. UNCHANGED <<now, bucket, retryAfter, attempt, due, window, spent>>
    BY <1>4 DEF Decide
  <2>. QED  BY <2>1, <2>2, <2>3 DEF LimiterTypeOK, LimiterPcs
<1>5. ASSUME NEW c \in Callers, RunScript(c) PROVE LimiterTypeOK'
  <2> DEFINE s == stamp[c]
  <2>1. s \in Times /\ Refilled(s) \in Int
    BY RefilledType DEF LimiterTypeOK
  <2>2. bucket' \in Buckets
    BY <1>5, <2>1 DEF RunScript, LimiterTypeOK, Buckets
  <2>3. spent' \in Nat
    BY <1>5 DEF RunScript, LimiterTypeOK
  <2>4. pc' \in [Callers -> LimiterPcs]
    BY <1>5 DEF RunScript, LimiterTypeOK, LimiterPcs
  <2>5. stamp' \in [Callers -> Times]
    BY <1>5 DEF RunScript, LimiterTypeOK, Times
  <2>6. late' \in [Callers -> Nat]
    BY <1>5, SendType DEF RunScript, LimiterTypeOK
  <2>7. UNCHANGED <<now, retryAfter, attempt, seen, due, window>>
    BY <1>5 DEF RunScript
  <2>. QED  BY <2>2, <2>3, <2>4, <2>5, <2>6, <2>7 DEF LimiterTypeOK, Buckets, LimiterPcs
<1>6. ASSUME NEW c \in Callers, Answered(c) PROVE LimiterTypeOK'
  BY <1>6 DEF Answered, LimiterTypeOK
<1>7. ASSUME NEW c \in Callers, Throttled(c) PROVE LimiterTypeOK'
  <2>1. due' \in [Callers -> Nat]
    BY <1>7 DEF Throttled, LimiterTypeOK, Times
  <2>. QED  BY <1>7, <2>1 DEF Throttled, LimiterTypeOK
<1>8. ASSUME NEW c \in Callers, StoreDeadline(c) PROVE LimiterTypeOK'
  BY <1>8, RetryType DEF StoreDeadline, LimiterTypeOK, LimiterPcs
<1>9. ASSUME NEW c \in Callers, ServerError(c) PROVE LimiterTypeOK'
  BY <1>9, RetryType DEF ServerError, LimiterTypeOK, LimiterPcs
<1>10. ASSUME NEW c \in Callers, Crash(c) PROVE LimiterTypeOK'
  BY <1>10 DEF Crash, LimiterTypeOK, Times
<1>11. CASE UNCHANGED limiterVars
  BY <1>11 DEF limiterVars, callerVars, LimiterTypeOK
<1>. QED
  BY <1>1, <1>2, <1>3, <1>4, <1>5, <1>6, <1>7, <1>8, <1>9, <1>10, <1>11 DEF LimiterNext

\* The clock, the bucket and the callers keep their types.
THEOREM LimiterTypeCorrect == LimiterSpec => []LimiterTypeOK
BY LimiterTypeInit, LimiterTypeStep, PTL DEF LimiterSpec

-----------------------------------------------------------------------------
(* The budget.  The quantity tokens - ts is never raised by a refill: it    *)
(* falls by Cost with every grant, whatever order the stamps come in.  Its  *)
(* value before the first grant of the window is at most Capacity minus the *)
(* window's start, its value after the last one at least minus its end.     *)

\* A script in flight is neither early nor more than MaxDelay late.
StampInv ==
    \A c \in Callers : pc[c] = "stamped" => stamp[c] <= now /\ now <= stamp[c] + MaxDelay

\* The hash was last written by a script that had been stamped by then; tokens
\* in debt are owed only to scripts that had run out of order.
BucketInv ==
    bucket.set => /\ bucket.ts <= bucket.last /\ bucket.last <= now
                  /\ bucket.tokens <= Capacity
                  /\ bucket.tokens - bucket.ts >= -bucket.last

\* What the window has cost so far.
SpentInv ==
    spent > 0 => /\ bucket.set
                 /\ spent + bucket.tokens - bucket.ts <= Capacity - window.from

WindowInv == window.from <= window.upto

BudgetInv == LimiterTypeOK /\ StampInv /\ BucketInv /\ SpentInv /\ WindowInv /\ WindowBudget

LEMMA BudgetInit == LimiterInit => BudgetInv
<1>. SUFFICES ASSUME LimiterInit PROVE BudgetInv
  OBVIOUS
<1>1. LimiterTypeOK
  BY LimiterTypeInit
<1>. QED
  BY <1>1 DEF LimiterInit, BudgetInv, StampInv, BucketInv, SpentInv, WindowInv, WindowBudget,
              NoBucket, Times

\* The script never finds more than a full bucket, nor more than what the
\* earlier scripts have left.
LEMMA RefilledBound ==
    ASSUME BudgetInv, NEW c \in Callers, pc[c] = "stamped"
    PROVE  LET s == stamp[c] IN
           /\ Refilled(s) \in Int /\ Refilled(s) <= Capacity
           /\ Refilled(s) - s >= -now
           /\ spent > 0 => spent + Refilled(s) - s <= Capacity - window.from
<1> DEFINE s == stamp[c]
<1>1. /\ s \in Nat /\ s <= now /\ now <= s + MaxDelay /\ now \in Nat
      /\ window.from \in Nat /\ spent \in Nat
      /\ bucket.tokens \in Int /\ bucket.ts \in Nat /\ bucket.last \in Nat
  BY DEF BudgetInv, LimiterTypeOK, StampInv, Times
<1>2. s \in Times
  BY DEF BudgetInv, LimiterTypeOK
<1>3. Refilled(s) \in Int /\ Refilled(s) <= Capacity
  BY <1>2, RefilledType DEF BudgetInv
<1>. HIDE DEF s
<1>4. CASE BucketLives
  <2>1. bucket.set /\ BucketInv /\ SpentInv
    BY <1>4 DEF BucketLives, BudgetInv
  <2>2. Refilled(s) = IF Capacity < bucket.tokens + (s - bucket.ts)
                      THEN Capacity ELSE bucket.tokens + (s - bucket.ts)
    BY <1>4 DEF Refilled, Smaller
  <2>3. Refilled(s) <= bucket.tokens + (s - bucket.ts)
    BY <1>1, <2>2
  <2>4. Refilled(s) - s >= -now
    BY <1>1, <2>1, <2>2 DEF BucketInv
  <2>5. spent > 0 => spent + Refilled(s) - s <= Capacity - window.from
    BY <1>1, <1>3, <2>1, <2>3 DEF SpentInv
  <2>. QED  BY <1>3, <2>4, <2>5 DEF s
<1>5. CASE ~BucketLives
  <2>1. Refilled(s) = Capacity
    BY <1>5 DEF Refilled
  <2>2. spent > 0 => spent + Capacity - s <= Capacity - window.from
    <3>1. SUFFICES ASSUME spent > 0 PROVE spent + Capacity - s <= Capacity - window.from
      OBVIOUS
    <3>2. bucket.set /\ now >= bucket.last + Ttl
      BY <1>1, <1>5, <3>1 DEF BucketLives, BudgetInv, SpentInv
    <3>3. spent + bucket.tokens - bucket.ts <= Capacity - window.from
      BY <3>1 DEF BudgetInv, SpentInv
    <3>4. bucket.tokens - bucket.ts >= -bucket.last
      BY <3>2 DEF BudgetInv, BucketInv
    <3>. QED  BY <1>1, <3>2, <3>3, <3>4
  <2>3. Refilled(s) - s >= -now
    BY <1>1, <2>1
  <2>. QED  BY <1>3, <2>1, <2>2, <2>3 DEF s
<1>. QED  BY <1>4, <1>5

LEMMA BudgetStep == BudgetInv /\ [LimiterNext]_limiterVars => BudgetInv'
<1>. SUFFICES ASSUME BudgetInv, [LimiterNext]_limiterVars PROVE BudgetInv'
  OBVIOUS
<1>0. LimiterTypeOK /\ LimiterTypeOK' /\ StampInv /\ BucketInv /\ SpentInv /\ WindowInv /\ WindowBudget
  BY LimiterTypeStep DEF BudgetInv
<1>1. CASE Tick
  <2>1. StampInv'
    BY <1>0, <1>1 DEF Tick, StampInv, LimiterTypeOK, Times, callerVars
  <2>2. BucketInv'
    BY <1>0, <1>1 DEF Tick, BucketInv, LimiterTypeOK, Times
  <2>. QED
    BY <1>0, <1>1, <2>1, <2>2 DEF Tick, BudgetInv, SpentInv, WindowInv, WindowBudget
<1>2. ASSUME NEW c \in Callers, RunScript(c) PROVE BudgetInv'
  <2> DEFINE s == stamp[c]
             R == Refilled(s)
             inside == Allowed(s) /\ s \in window.from .. window.upto
  <2>1. /\ R \in Int /\ R <= Capacity /\ R - s >= -now
        /\ spent > 0 => spent + R - s <= Capacity - window.from
    BY <1>2, RefilledBound DEF RunScript
  <2>2. /\ s \in Nat /\ s <= now /\ now \in Nat /\ spent \in Nat
        /\ window.from \in Nat /\ window.upto \in Nat
    BY <1>0, <1>2 DEF LimiterTypeOK, StampInv, RunScript, Times
  <2>3. /\ bucket'.set = TRUE /\ bucket'.ts = s /\ bucket'.last = now
        /\ bucket'.tokens = R - (IF Allowed(s) THEN Cost ELSE 0)
        /\ spent' = IF inside THEN spent + Cost ELSE spent
        /\ UNCHANGED <<now, window>>
    BY <1>2 DEF RunScript
  <2>4. Allowed(s) <=> R >= Cost
    BY DEF Allowed
  <2>. HIDE DEF R, s
  <2>5. StampInv'
    BY <1>0, <1>2 DEF StampInv, RunScript, LimiterTypeOK
  <2>6. BucketInv'
    BY <2>1, <2>2, <2>3, <2>4 DEF BucketInv
  <2>7. SpentInv'
    <3>1. CASE inside
      <4>1. spent + R - s <= Capacity - window.from
        BY <2>1, <2>2, <3>1
      <4>. QED  BY <2>1, <2>2, <2>3, <3>1, <4>1 DEF SpentInv
    <3>2. CASE ~inside
      BY <2>1, <2>2, <2>3, <3>2 DEF SpentInv
    <3>. QED  BY <3>1, <3>2
  <2>8. WindowBudget'
    <3>1. CASE inside
      <4>1. spent + R - s <= Capacity - window.from
        BY <2>1, <2>2, <3>1
      <4>2. R >= Cost /\ s <= window.upto
        BY <2>2, <2>4, <3>1
      <4>. QED  BY <2>1, <2>2, <2>3, <3>1, <4>1, <4>2 DEF WindowBudget
    <3>2. CASE ~inside
      BY <1>0, <2>3, <3>2 DEF WindowBudget
    <3>. QED  BY <3>1, <3>2
  <2>. QED  BY <1>0, <2>3, <2>5, <2>6, <2>7, <2>8 DEF BudgetInv, WindowInv
<1>3. ASSUME NEW c \in Callers, Decide(c) PROVE BudgetInv'
  <2>1. StampInv'
    BY <1>0, <1>3 DEF Decide, StampInv, LimiterTypeOK, Times
  <2>. QED
    BY <1>0, <1>3, <2>1 DEF Decide, BudgetInv, BucketInv, SpentInv, WindowInv, WindowBudget
<1>4. ASSUME NEW c \in Callers,
             \/ Call(c) \/ Look(c) \/ Answered(c) \/ Throttled(c)
             \/ StoreDeadline(c) \/ ServerError(c) \/ Crash(c)
      PROVE  BudgetInv'
  <2>1. UNCHANGED <<now, bucket, window, spent>>
    BY <1>4 DEF Call, Look, Answered, Throttled, StoreDeadline, ServerError, Crash
  <2>2. \A d \in Callers : pc'[d] = "stamped" => pc[d] = "stamped" /\ stamp'[d] = stamp[d]
    BY <1>0, <1>4 DEF Call, Look, Answered, Throttled, StoreDeadline, ServerError, Crash, Retry, LimiterTypeOK
  <2>. QED
    BY <1>0, <2>1, <2>2 DEF BudgetInv, StampInv, BucketInv, SpentInv, WindowInv, WindowBudget
<1>5. CASE UNCHANGED limiterVars
  BY <1>0, <1>5 DEF limiterVars, callerVars, BudgetInv, StampInv, BucketInv, SpentInv, WindowInv,
                    WindowBudget
<1>. QED  BY <1>1, <1>2, <1>3, <1>4, <1>5 DEF LimiterNext

\* In no interval of the clock are more requests granted than a full bucket and
\* the interval's refill pay for, however late and out of order the scripts run.
THEOREM BudgetTheorem == LimiterSpec => []WindowBudget
<1>1. BudgetInv => WindowBudget
  BY DEF BudgetInv
<1>. QED  BY <1>1, BudgetInit, BudgetStep, PTL DEF LimiterSpec

-----------------------------------------------------------------------------
(* The deadline.  A caller that has sent a request under the stored deadline *)
(* no longer holds an older answer of the GET: it is past the bucket too, so *)
(* it will read the deadline before it can send again.                       *)

\* Once late, c has no request let past the check, and what it has read is the deadline.
Caught(c) ==
    late[c] = 1 /\ now < retryAfter =>
        /\ pc[c] # "stamped"
        /\ pc[c] = "looked" => seen[c] = retryAfter

LateInv == LimiterTypeOK /\ \A c \in Callers : late[c] <= 1 /\ Caught(c)

LEMMA LateInit == LimiterInit => LateInv
<1>. SUFFICES ASSUME LimiterInit PROVE LateInv
  OBVIOUS
<1>1. LimiterTypeOK
  BY LimiterTypeInit
<1>2. \A c \in Callers : late[c] = 0
  BY DEF LimiterInit
<1>. QED  BY <1>1, <1>2 DEF LateInv, Caught

\* A step of c leaves the other callers as they are, unless it stores a deadline.
LEMMA OthersCaught ==
    ASSUME LateInv, NEW c \in Callers, NEW d \in Callers, d # c,
           \/ Call(c) \/ Look(c) \/ Decide(c) \/ RunScript(c) \/ Answered(c)
           \/ Throttled(c) \/ ServerError(c) \/ Crash(c)
    PROVE  late'[d] <= 1 /\ Caught(d)'
<1>1. UNCHANGED <<now, retryAfter>> /\ pc'[d] = pc[d] /\ seen'[d] = seen[d] /\ late'[d] = late[d]
  BY DEF LateInv, LimiterTypeOK, Call, Look, Decide, RunScript, Answered, Throttled, ServerError,
     Crash, Retry, Send
<1>. QED  BY <1>1 DEF LateInv, Caught

LEMMA LateStep == LateInv /\ [LimiterNext]_limiterVars => LateInv'
<1>. SUFFICES ASSUME LateInv, [LimiterNext]_limiterVars PROVE LateInv'
  OBVIOUS
<1>0. LimiterTypeOK /\ LimiterTypeOK'
  BY LimiterTypeStep DEF LateInv
<1>1. CASE Tick
  BY <1>0, <1>1 DEF Tick, LateInv, Caught, callerVars, LimiterTypeOK, Times
<1>2. ASSUME NEW c \in Callers, StoreDeadline(c) PROVE LateInv'
  <2>1. \A d \in Callers : late'[d] = 0
    BY <1>2 DEF StoreDeadline
  <2>. QED  BY <1>0, <2>1 DEF LateInv, Caught
<1>3. ASSUME NEW c \in Callers,
             \/ Call(c) \/ Look(c) \/ Decide(c) \/ RunScript(c) \/ Answered(c)
             \/ Throttled(c) \/ ServerError(c) \/ Crash(c)
      PROVE  LateInv'
  <2>1. late[c] \in Nat /\ late[c] <= 1 /\ Caught(c) /\ now \in Nat /\ retryAfter \in Nat
    BY <1>0 DEF LateInv, LimiterTypeOK, Times
  <2>2. late'[c] <= 1 /\ Caught(c)'
    <3>1. CASE Look(c)
      BY <1>0, <2>1, <3>1 DEF Look, Caught, LimiterTypeOK
    <3>2. CASE Decide(c)
      <4>1. CASE ~MayPass(c)
        BY <1>0, <2>1, <3>2, <4>1 DEF Decide, Caught, LimiterTypeOK
      <4>2. CASE MayPass(c)
        \* What it has read is not the running deadline: it was not late.
        <5>1. now < retryAfter => late[c] = 0
          <6>1. seen[c] <= now /\ seen[c] \in Nat /\ pc[c] = "looked"
            BY <1>0, <3>2, <4>2 DEF Decide, MayPass, LimiterTypeOK
          <6>. QED  BY <2>1, <6>1 DEF Caught
        <5>2. CASE c \in Priority
          <6>1. UNCHANGED <<now, retryAfter>> /\ pc'[c] = "sent" /\ Send(c)
            BY <1>0, <3>2, <4>2, <5>2 DEF Decide, LimiterTypeOK
          <6>. QED  BY <1>0, <2>1, <5>1, <6>1 DEF Send, Caught, LimiterTypeOK
        <5>3. CASE c \notin Priority
          <6>1. UNCHANGED <<now, retryAfter, late>>
            BY <3>2, <4>2, <5>3 DEF Decide
          <6>. QED  BY <2>1, <5>1, <6>1 DEF Caught
        <5>. QED  BY <5>2, <5>3
      <4>. QED  BY <4>1, <4>2
    <3>3. CASE RunScript(c)
      <4>1. now < retryAfter => late[c] = 0
        BY <2>1, <3>3 DEF RunScript, Caught
      <4>2. UNCHANGED <<now, retryAfter>> /\ pc'[c] \in {"sent", "calling"}
        BY <1>0, <3>3 DEF RunScript, LimiterTypeOK
      <4>3. Send(c) \/ UNCHANGED late
        BY <3>3 DEF RunScript
      <4>. QED  BY <1>0, <2>1, <4>1, <4>2, <4>3 DEF Send, Caught, LimiterTypeOK
    <3>4. CASE Call(c) \/ Answered(c) \/ Throttled(c) \/ ServerError(c) \/ Crash(c)
      <4>1. UNCHANGED <<now, retryAfter, late>> /\ pc'[c] \notin {"stamped", "looked"}
        BY <1>0, <3>4 DEF Call, Answered, Throttled, ServerError, Crash, Retry, LimiterTypeOK
      <4>. QED  BY <2>1, <4>1 DEF Caught
    <3>. QED  BY <1>3, <3>1, <3>2, <3>3, <3>4
  <2>. QED  BY <1>0, <1>3, <2>2, OthersCaught DEF LateInv
<1>4. CASE UNCHANGED limiterVars
  BY <1>0, <1>4 DEF limiterVars, callerVars, LateInv, Caught
<1>. QED  BY <1>1, <1>2, <1>3, <1>4 DEF LimiterNext

\* Whatever the callers, the delays, the crashes and the retries: while a stored
\* deadline runs, no caller sends more than the request it had let past the check.
THEOREM OneLateTheorem == LimiterSpec => []OneLateRequest
<1>1. LateInv => OneLateRequest
  BY DEF LateInv, OneLateRequest
<1>. QED  BY <1>1, LateInit, LateStep, PTL DEF LimiterSpec
=============================================================================
