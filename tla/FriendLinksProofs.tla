------------------------- MODULE FriendLinksProofs -------------------------
(***************************************************************************)
(* Consent in FriendLinks, for any number of users and requests in flight. *)
(***************************************************************************)
EXTENDS FriendLinks, TLAPS

USE ConstantsAssumption DEF ConstantsAssumption

-----------------------------------------------------------------------------
(* What a link and a request in flight stand for: a row's user_id has       *)
(* asked; whoever accepts is asked by the other; and the rows a request has *)
(* read keep their two ends, because ids are never given twice.             *)

Pair(l) == <<l.user_id, l.friend_user_id>>

LinkInv ==
    /\ \A l \in links : l.id \in 1..created /\ Pair(l) \in consent
    /\ \A l, k \in links : l.id = k.id => Pair(l) = Pair(k)

\* The row of that id, while it exists, runs from x to y.
Runs(id, x, y) ==
    /\ id \in 1..created
    /\ \A l \in links : l.id = id => l.user_id = x /\ l.friend_user_id = y

AcceptInv(r) ==
    LET q == request[r]
    IN  q.pc \in {"accepting", "flagged"} =>
          /\ Runs(q.link, q.other, q.me)
          /\ <<q.other, q.me>> \in consent

MirrorInv(r) ==
    LET q == request[r]
    IN  q.pc = "flagged" => \A m \in q.mirror : Runs(m.id, q.me, q.other)

ConsentInv ==
    /\ created \in Nat
    /\ LinkInv
    /\ ConsentOfBoth
    /\ \A r \in Requests : AcceptInv(r) /\ MirrorInv(r)

-----------------------------------------------------------------------------
(* Types *)

LEMMA TypeInit == Init => TypeOK
<1>1. Idle \in Request
  BY DEF Request
<1>2. ASSUME Init PROVE request \in [Requests -> Request]
  BY <1>1, <1>2 DEF Init
<1>3. ASSUME Init PROVE /\ links \subseteq Link /\ created \in 0..MaxRows
                        /\ consent \subseteq Users \X Users
  BY <1>3 DEF Init
<1>4. ASSUME Init PROVE raced \in BOOLEAN
  BY <1>4 DEF Init
<1>. QED  BY <1>2, <1>3, <1>4 DEF TypeOK

LEMMA FinishType ==
    ASSUME TypeOK, NEW r \in Requests, Finish(r)
    PROVE  request' \in [Requests -> Request]
BY DEF TypeOK, Finish, Request

LEMMA NewLinkType ==
    ASSUME TypeOK, created < MaxRows, NEW x \in Users, NEW y \in Users,
           NEW s \in {"pending", "accepted"}
    PROVE  NewLink(x, y, s) \in Link /\ created + 1 \in 0..MaxRows
BY DEF TypeOK, NewLink, Link, Ids

LEMMA AcceptedType ==
    ASSUME TypeOK, NEW ids
    PROVE  Accepted(ids) \subseteq Link
BY DEF TypeOK, Accepted, Link

\* What the fields of a request in flight are.
LEMMA RequestFields ==
    ASSUME TypeOK, NEW r \in Requests, request[r].pc # "idle"
    PROVE  /\ request[r].me \in Users /\ request[r].other \in Users
           /\ request[r].pc \in {"accepting", "flagged"} => request[r].link \in Ids
           /\ request[r].pc = "flagged" => request[r].mirror \subseteq Link
BY DEF TypeOK, Request, Idle

LEMMA TypeStep == TypeOK /\ [Next]_vars => TypeOK'
<1>. SUFFICES ASSUME TypeOK, [Next]_vars PROVE TypeOK'
  OBVIOUS
<1>1. ASSUME NEW r \in Requests, NEW me \in Users, NEW other \in Users,
             SendRequest(r, me, other)
      PROVE  TypeOK'
  BY <1>1 DEF SendRequest, TypeOK, Request
<1>2. ASSUME NEW r \in Requests, InsertLink(r) PROVE TypeOK'
  BY <1>2, FinishType, NewLinkType, RequestFields DEF InsertLink, TypeOK
<1>3. ASSUME NEW r \in Requests, NEW me \in Users, BeginAccept(r, me) PROVE TypeOK'
  <2>1. PICK l \in links :
          request' = [request EXCEPT ![r] =
            [pc |-> "accepting", me |-> me, link |-> l.id,
             other |-> IF l.user_id = me THEN l.friend_user_id ELSE l.user_id]]
    BY <1>3 DEF BeginAccept
  <2>2. l.id \in Ids /\ l.user_id \in Users /\ l.friend_user_id \in Users
    BY DEF TypeOK, Link
  <2>. QED  BY <1>3, <2>1, <2>2 DEF BeginAccept, TypeOK, Request
<1>4. ASSUME NEW r \in Requests, FlagLink(r) PROVE TypeOK'
  <2>1. Directed(request[r].me, request[r].other) \subseteq Link
    BY DEF Directed, TypeOK
  <2>. QED  BY <1>4, <2>1, RequestFields DEF FlagLink, TypeOK, Request
<1>5. ASSUME NEW r \in Requests, CommitAccept(r) PROVE TypeOK'
  <2>1. links' \subseteq Link /\ created' \in 0..MaxRows
    BY <1>5, NewLinkType, AcceptedType, RequestFields DEF CommitAccept, TypeOK
  <2>2. consent' \subseteq Users \X Users /\ raced' \in BOOLEAN
    BY <1>5, RequestFields DEF CommitAccept, TypeOK
  <2>. QED  BY <1>5, <2>1, <2>2, FinishType DEF CommitAccept, TypeOK
<1>6. ASSUME NEW r \in Requests, NEW me \in Users, NEW other \in Users,
             BeginRemove(r, me, other)
      PROVE  TypeOK'
  <2>1. {l.id : l \in Between(me, other)} \subseteq Ids
    BY DEF Between, TypeOK, Link
  <2>. QED  BY <1>6, <2>1 DEF BeginRemove, TypeOK, Request
<1>7. ASSUME NEW r \in Requests, FinishRemove(r) PROVE TypeOK'
  BY <1>7, FinishType DEF FinishRemove, TypeOK
<1>8. ASSUME NEW r \in Requests, Abort(r) PROVE TypeOK'
  BY <1>8, FinishType DEF Abort, TypeOK
<1>9. CASE UNCHANGED vars
  BY <1>9 DEF vars, TypeOK
<1>. QED
  BY <1>1, <1>2, <1>3, <1>4, <1>5, <1>6, <1>7, <1>8, <1>9 DEF Next

\* Rows, requests and histories keep their types.
THEOREM TypeCorrect == Spec => []TypeOK
BY TypeInit, TypeStep, PTL DEF Spec

-----------------------------------------------------------------------------
(* Consent *)

LEMMA ConsentInit == Init => ConsentInv
BY DEF Init, ConsentInv, LinkInv, ConsentOfBoth, AcceptInv, MirrorInv, Idle

\* A step that keeps ids and ends of the rows, and forgets no consent, keeps
\* what every request knows that it does not touch.
LEMMA OthersKeep ==
    ASSUME TypeOK, ConsentInv, NEW r \in Requests,
           \A o \in Requests \ {r} : request'[o] = request[o],
           created' \in Nat, created <= created', consent \subseteq consent',
           \A l \in links' : l.id > created
              \/ \E k \in links : k.id = l.id /\ Pair(k) = Pair(l)
    PROVE  \A o \in Requests \ {r} : (AcceptInv(o) /\ MirrorInv(o))'
<1>. SUFFICES ASSUME NEW o \in Requests, o # r PROVE (AcceptInv(o) /\ MirrorInv(o))'
  OBVIOUS
<1>1. ASSUME NEW id, NEW x, NEW y, Runs(id, x, y) PROVE Runs(id, x, y)'
  BY <1>1 DEF Runs, Pair, ConsentInv
<1>. QED  BY <1>1 DEF ConsentInv, AcceptInv, MirrorInv

\* What a step has to establish.
LEMMA Establish ==
    ASSUME TypeOK, ConsentInv, NEW r \in Requests,
           \A o \in Requests \ {r} : request'[o] = request[o],
           created' \in Nat, created <= created', consent \subseteq consent',
           \A l \in links' : l.id > created
              \/ \E k \in links : k.id = l.id /\ Pair(k) = Pair(l),
           LinkInv', ConsentOfBoth', AcceptInv(r)', MirrorInv(r)'
    PROVE  ConsentInv'
BY OthersKeep DEF ConsentInv

\* A request that has ended knows nothing.
LEMMA Ended ==
    ASSUME TypeOK, NEW r \in Requests, Finish(r)
    PROVE  AcceptInv(r)' /\ MirrorInv(r)'
BY DEF TypeOK, Finish, Idle, AcceptInv, MirrorInv

LEMMA ConsentStep == TypeOK /\ ConsentInv /\ [Next]_vars => ConsentInv'
<1>. SUFFICES ASSUME TypeOK, ConsentInv, [Next]_vars PROVE ConsentInv'
  OBVIOUS
\* A step changes the state of one request.
<1>a. ASSUME NEW r \in Requests, NEW q, request' = [request EXCEPT ![r] = q]
      PROVE  \A o \in Requests \ {r} : request'[o] = request[o]
  BY <1>a DEF TypeOK
\* Steps that only read the rows.
<1>0. ASSUME NEW r \in Requests, \A o \in Requests \ {r} : request'[o] = request[o],
             UNCHANGED <<links, created, consent>>, AcceptInv(r)', MirrorInv(r)'
      PROVE  ConsentInv'
  <2>1. LinkInv' /\ ConsentOfBoth'
    BY <1>0 DEF ConsentInv, LinkInv, ConsentOfBoth, Pair
  <2>2. /\ created' \in Nat /\ created <= created' /\ consent \subseteq consent'
        /\ \A l \in links' : \E k \in links : k.id = l.id /\ Pair(k) = Pair(l)
    BY <1>0 DEF ConsentInv
  <2>. QED  BY <1>0, <2>1, <2>2, Establish
<1>1. ASSUME NEW r \in Requests, NEW me \in Users, NEW other \in Users,
             SendRequest(r, me, other)
      PROVE  ConsentInv'
  <2>1. AcceptInv(r)' /\ MirrorInv(r)'
    BY <1>1 DEF SendRequest, TypeOK, AcceptInv, MirrorInv
  <2>. QED  BY <1>0, <1>a, <1>1, <2>1 DEF SendRequest
<1>2. ASSUME NEW r \in Requests, InsertLink(r) PROVE ConsentInv'
  <2> DEFINE n == NewLink(request[r].me, request[r].other, "pending")
  <2>1. /\ n.id = created + 1 /\ Pair(n) = <<request[r].me, request[r].other>>
        /\ n.status = "pending" /\ Pair(n) \in consent'
        /\ links' = links \cup {n} /\ created' = created + 1
        /\ consent \subseteq consent'
    BY <1>2 DEF InsertLink, NewLink, Pair
  <2> HIDE DEF n
  <2>2. LinkInv'
    <3>1. \A l \in links' : l.id \in 1..created' /\ Pair(l) \in consent'
      BY <2>1 DEF ConsentInv, LinkInv
    <3>2. \A l \in links : l.id # n.id
      BY <2>1 DEF ConsentInv, LinkInv
    <3>3. \A l, k \in links' : l.id = k.id => Pair(l) = Pair(k)
      BY <2>1, <3>2 DEF ConsentInv, LinkInv
    <3>. QED  BY <3>1, <3>3 DEF LinkInv, Pair
  <2>3. ConsentOfBoth'
    BY <2>1 DEF ConsentInv, ConsentOfBoth
  <2>4. \A l \in links' : l.id > created
          \/ \E k \in links : k.id = l.id /\ Pair(k) = Pair(l)
    BY <2>1 DEF ConsentInv
  <2>5. \A o \in Requests \ {r} : request'[o] = request[o]
    BY <1>a, <1>2 DEF InsertLink, Finish
  <2>6. AcceptInv(r)' /\ MirrorInv(r)'
    BY <1>2, Ended DEF InsertLink
  <2>7. created' \in Nat /\ created <= created'
    BY <2>1 DEF ConsentInv
  <2>. QED  BY <2>1, <2>2, <2>3, <2>4, <2>5, <2>6, <2>7, Establish
<1>3. ASSUME NEW r \in Requests, NEW me \in Users, BeginAccept(r, me) PROVE ConsentInv'
  <2>1. PICK l \in links :
          /\ Acceptable(l, me)
          /\ request' = [request EXCEPT ![r] =
               [pc |-> "accepting", me |-> me, link |-> l.id,
                other |-> IF l.user_id = me THEN l.friend_user_id ELSE l.user_id]]
    BY <1>3 DEF BeginAccept
  <2>2. /\ request'[r].pc = "accepting" /\ request'[r].link = l.id
        /\ request'[r].me = l.friend_user_id /\ request'[r].other = l.user_id
    BY <2>1 DEF Acceptable, TypeOK
  <2>3. Runs(l.id, l.user_id, l.friend_user_id)' /\ Pair(l) \in consent'
    BY <1>3 DEF BeginAccept, Runs, ConsentInv, LinkInv, Pair
  <2>4. AcceptInv(r)' /\ MirrorInv(r)'
    BY <2>2, <2>3 DEF AcceptInv, MirrorInv, Pair
  <2>. QED  BY <1>0, <1>a, <1>3, <2>1, <2>4 DEF BeginAccept
<1>4. ASSUME NEW r \in Requests, FlagLink(r) PROVE ConsentInv'
  <2> DEFINE q == request[r]
  <2>1. /\ request'[r].pc = "flagged" /\ request'[r].link = q.link
        /\ request'[r].me = q.me /\ request'[r].other = q.other
        /\ request'[r].mirror = Directed(q.me, q.other)
        /\ q.pc = "accepting" /\ UNCHANGED <<links, created, consent>>
    BY <1>4 DEF FlagLink, TypeOK
  <2>2. AcceptInv(r)'
    BY <2>1 DEF ConsentInv, AcceptInv, Runs
  <2>3. \A m \in Directed(q.me, q.other) : Runs(m.id, q.me, q.other)'
    BY <2>1 DEF Directed, Runs, ConsentInv, LinkInv, Pair
  <2>4. MirrorInv(r)'
    BY <2>1, <2>3 DEF MirrorInv, Runs
  <2>. QED  BY <1>0, <1>a, <1>4, <2>1, <2>2, <2>4 DEF FlagLink
<1>5. ASSUME NEW r \in Requests, CommitAccept(r) PROVE ConsentInv'
  <2> DEFINE q == request[r]
             n == NewLink(q.me, q.other, "accepted")
  <2>1. /\ q.pc = "flagged" /\ consent' = consent \cup {<<q.me, q.other>>}
        /\ Finish(r)
    BY <1>5 DEF CommitAccept
  <2>2. /\ Runs(q.link, q.other, q.me) /\ <<q.other, q.me>> \in consent
        /\ \A m \in q.mirror : Runs(m.id, q.me, q.other)
    BY <2>1 DEF ConsentInv, AcceptInv, MirrorInv
  <2>3. /\ n.id = created + 1 /\ Pair(n) = <<q.me, q.other>>
        /\ n.user_id = q.me /\ n.friend_user_id = q.other
    BY DEF NewLink, Pair
  <2> HIDE DEF n
  \* Where a row comes from, and why it is accepted.
  <2>4. /\ created' \in Nat /\ created <= created'
        /\ \A l \in links' :
             \/ l = n /\ created' = created + 1
             \/ \E k \in links :
                  /\ k.id = l.id /\ Pair(k) = Pair(l)
                  /\ l.status = "accepted" =>
                       k.status = "accepted" \/ k.id = q.link \/ \E m \in q.mirror : k.id = m.id
    <3>0. ASSUME NEW ids, NEW l \in Accepted(ids)
          PROVE  \E k \in links :
                   /\ k.id = l.id /\ Pair(k) = Pair(l)
                   /\ l.status = "accepted" => k.status = "accepted" \/ k.id \in ids
      BY DEF Accepted, Pair, TypeOK, Link
    <3>1. CASE /\ created < MaxRows /\ created' = created + 1
               /\ links' = Accepted({q.link}) \cup {n}
      BY <3>0, <3>1 DEF ConsentInv
    <3>2. CASE /\ UNCHANGED created
               /\ \E m \in q.mirror :
                    links' = Accepted(IF m.status = "pending" THEN {q.link, m.id} ELSE {q.link})
      <4>1. PICK m \in q.mirror :
              links' = Accepted(IF m.status = "pending" THEN {q.link, m.id} ELSE {q.link})
        BY <3>2
      <4>. QED  BY <3>0, <3>2, <4>1 DEF ConsentInv
    <3>. QED  BY <1>5, <3>1, <3>2 DEF CommitAccept, n
  <2>5. LinkInv'
    <3>1. \A l \in links' : l.id \in 1..created' /\ Pair(l) \in consent'
      BY <2>1, <2>3, <2>4 DEF ConsentInv, LinkInv
    <3>2. \A l, k \in links' : l.id = k.id => Pair(l) = Pair(k)
      BY <2>3, <2>4 DEF ConsentInv, LinkInv
    <3>. QED  BY <3>1, <3>2 DEF LinkInv, Pair
  <2>6. ConsentOfBoth'
    <3> SUFFICES ASSUME NEW l \in links', l.status = "accepted"
                 PROVE  {<<l.user_id, l.friend_user_id>>, <<l.friend_user_id, l.user_id>>}
                          \subseteq consent'
      BY DEF ConsentOfBoth
    <3>1. CASE l = n
      BY <2>1, <2>2, <2>3, <3>1
    <3>2. ASSUME NEW k \in links, k.id = l.id, Pair(k) = Pair(l),
                 k.status = "accepted" \/ k.id = q.link \/ \E m \in q.mirror : k.id = m.id
          PROVE  {<<l.user_id, l.friend_user_id>>, <<l.friend_user_id, l.user_id>>}
                          \subseteq consent'
      <4>1. k.user_id = l.user_id /\ k.friend_user_id = l.friend_user_id
        BY <3>2 DEF Pair
      <4>2. CASE k.status = "accepted"
        BY <2>1, <4>1, <4>2 DEF ConsentInv, ConsentOfBoth
      <4>3. CASE k.id = q.link \/ \E m \in q.mirror : k.id = m.id
        <5>1. \/ k.user_id = q.other /\ k.friend_user_id = q.me
              \/ k.user_id = q.me /\ k.friend_user_id = q.other
          BY <2>2, <4>3 DEF Runs
        <5>. QED  BY <2>1, <2>2, <4>1, <5>1
      <4>. QED  BY <3>2, <4>2, <4>3
    <3>. QED  BY <2>4, <3>1, <3>2
  <2>7. \A l \in links' : l.id > created
          \/ \E k \in links : k.id = l.id /\ Pair(k) = Pair(l)
    BY <2>3, <2>4 DEF ConsentInv
  <2>8. \A o \in Requests \ {r} : request'[o] = request[o]
    BY <1>a, <2>1 DEF Finish
  <2>9. AcceptInv(r)' /\ MirrorInv(r)'
    BY <2>1, Ended
  <2>. QED  BY <2>1, <2>4, <2>5, <2>6, <2>7, <2>8, <2>9, Establish
<1>6. ASSUME NEW r \in Requests, NEW me \in Users, NEW other \in Users,
             BeginRemove(r, me, other)
      PROVE  ConsentInv'
  <2>1. AcceptInv(r)' /\ MirrorInv(r)'
    BY <1>6 DEF BeginRemove, TypeOK, AcceptInv, MirrorInv
  <2>. QED  BY <1>0, <1>a, <1>6, <2>1 DEF BeginRemove
<1>7. ASSUME NEW r \in Requests, FinishRemove(r) PROVE ConsentInv'
  <2>1. links' \subseteq links /\ UNCHANGED <<created, consent>>
    BY <1>7 DEF FinishRemove
  <2>2. LinkInv' /\ ConsentOfBoth'
    BY <2>1 DEF ConsentInv, LinkInv, ConsentOfBoth, Pair
  <2>3. \A o \in Requests \ {r} : request'[o] = request[o]
    BY <1>a, <1>7 DEF FinishRemove, Finish
  <2>4. AcceptInv(r)' /\ MirrorInv(r)'
    BY <1>7, Ended DEF FinishRemove
  <2>5. /\ created' \in Nat /\ created <= created' /\ consent \subseteq consent'
        /\ \A l \in links' : \E k \in links : k.id = l.id /\ Pair(k) = Pair(l)
    BY <2>1 DEF ConsentInv
  <2>. QED  BY <2>2, <2>3, <2>4, <2>5, Establish
<1>8. ASSUME NEW r \in Requests, Abort(r) PROVE ConsentInv'
  BY <1>0, <1>a, <1>8, Ended DEF Abort, Finish
<1>9. CASE UNCHANGED vars
  BY <1>9 DEF vars, ConsentInv, LinkInv, ConsentOfBoth, AcceptInv, MirrorInv, Runs, Pair
<1>. QED
  BY <1>1, <1>2, <1>3, <1>4, <1>5, <1>6, <1>7, <1>8, <1>9 DEF Next

\* Nobody becomes a friend without having asked or accepted.
THEOREM ConsentTheorem == Spec => []ConsentOfBoth
<1>1. Init /\ Init => TypeOK /\ ConsentInv
  BY TypeInit, ConsentInit
<1>2. TypeOK /\ ConsentInv /\ [Next]_vars => (TypeOK /\ ConsentInv)'
  BY TypeStep, ConsentStep
<1>3. ConsentInv => ConsentOfBoth
  BY DEF ConsentInv
<1>. QED  BY <1>1, <1>2, <1>3, PTL DEF Spec

-----------------------------------------------------------------------------
(* Mutual friendship.  A direction has one row.  The link a request has     *)
(* flagged stays, because the flag is a lock.  A removal has found every    *)
(* accepted row of its pair, unless an acceptance was committed since it    *)
(* began, which is what raced records; so it takes both directions or, when *)
(* one of them is locked, waits with both.  That is why a mirror that was   *)
(* accepted when it was read, and is not written again, is still there when *)
(* the acceptance commits.                                                  *)

OneRowEach == \A l, k \in links : Pair(l) = Pair(k) => l = k

LockInv(r) == request[r].pc = "flagged" => Exists(request[r].link)

\* Row l runs between x and y, in one direction or the other.
Joins(l, x, y) ==
    \/ l.user_id = x /\ l.friend_user_id = y
    \/ l.user_id = y /\ l.friend_user_id = x

FoundInv(r) ==
    request[r].pc = "removing" =>
        \A id \in request[r].found :
            /\ id \in 1..created
            /\ \A l \in links : l.id = id => Joins(l, request[r].me, request[r].other)

AllFound(r) ==
    request[r].pc = "removing" =>
        \A l \in links :
            l.status = "accepted" /\ Joins(l, request[r].me, request[r].other) =>
                l.id \in request[r].found

IsAccepted(id) == \E l \in links : l.id = id /\ l.status = "accepted"

StillThere(r) ==
    request[r].pc = "flagged" =>
        \A m \in request[r].mirror : m.status = "accepted" =>
            IsAccepted(m.id) /\ IsAccepted(request[r].link)

MutualInv ==
    /\ OneRowEach
    /\ \A r \in Requests : LockInv(r) /\ FoundInv(r)
    /\ raced \/ (Mutual /\ \A r \in Requests : AllFound(r) /\ StillThere(r))

LEMMA MutualInit == Init => MutualInv
BY DEF Init, MutualInv, OneRowEach, LockInv, FoundInv, Mutual, AllFound, StillThere, Idle

\* A step that only reads the rows.
LEMMA ReadKeepsMutual ==
    ASSUME TypeOK, MutualInv, NEW r \in Requests,
           \A o \in Requests \ {r} : request'[o] = request[o],
           UNCHANGED <<links, created, raced>>,
           LockInv(r)', FoundInv(r)', raced \/ (AllFound(r) /\ StillThere(r))'
    PROVE  MutualInv'
<1>1. OneRowEach'
  BY DEF MutualInv, OneRowEach, Pair
<1>2. ASSUME NEW o \in Requests PROVE LockInv(o)' /\ FoundInv(o)'
  <2>1. CASE o = r
    BY <2>1
  <2>2. CASE o # r
    <3>1. request'[o] = request[o] /\ LockInv(o) /\ FoundInv(o)
      BY <2>2 DEF MutualInv
    <3>. QED  BY <3>1 DEF LockInv, FoundInv, Exists, Joins
  <2>. QED  BY <2>1, <2>2
<1>3. CASE ~raced
  <2>1. Mutual'
    BY <1>3 DEF MutualInv, Mutual, Directed
  <2>2. ASSUME NEW o \in Requests PROVE (AllFound(o) /\ StillThere(o))'
    <3>1. CASE o = r
      BY <1>3, <3>1
    <3>2. CASE o # r
      <4>1. request'[o] = request[o] /\ AllFound(o) /\ StillThere(o)
        BY <1>3, <3>2 DEF MutualInv
      <4>. QED  BY <4>1 DEF AllFound, StillThere, IsAccepted, Joins
    <3>. QED  BY <3>1, <3>2
  <2>. QED  BY <1>1, <1>2, <2>1, <2>2 DEF MutualInv
<1>. QED  BY <1>1, <1>2, <1>3 DEF MutualInv

\* A request that has ended promises nothing.
LEMMA EndedMutual ==
    ASSUME TypeOK, NEW r \in Requests, Finish(r)
    PROVE  /\ (LockInv(r) /\ FoundInv(r) /\ AllFound(r) /\ StillThere(r))'
           /\ \A o \in Requests \ {r} : request'[o] = request[o]
BY DEF TypeOK, Finish, Idle, LockInv, FoundInv, AllFound, StillThere

\* A step that adds rows and promotes rows, of which a removal in flight need
\* not know when they are new friendships of other pairs.
LEMMA OthersKeepMutual ==
    ASSUME TypeOK, ConsentInv, MutualInv, NEW r \in Requests, Finish(r),
           created' \in Nat, created <= created',
           \A l \in links : \E k \in links' :
              k.id = l.id /\ (l.status = "accepted" => k.status = "accepted"),
           \A l \in links' : l.id > created
              \/ \E k \in links : k.id = l.id /\ Pair(k) = Pair(l)
    PROVE  /\ \A o \in Requests : (LockInv(o) /\ FoundInv(o))'
           /\ ~raced => \A o \in Requests : StillThere(o)'
<1>1. ASSUME NEW o \in Requests, o # r
      PROVE  (LockInv(o) /\ FoundInv(o))' /\ (~raced => StillThere(o)')
  <2>1. request'[o] = request[o]
    BY <1>1, EndedMutual
  <2>2. LockInv(o) /\ FoundInv(o) /\ (~raced => StillThere(o))
    BY DEF MutualInv
  <2>3. LockInv(o)'
    BY <2>1, <2>2 DEF LockInv, Exists
  <2>4. FoundInv(o)'
    <3>1. ASSUME NEW id \in 1..created, NEW x, NEW y,
                 \A l \in links : l.id = id => Joins(l, x, y)
          PROVE  \A l \in links' : l.id = id => Joins(l, x, y)
      BY <3>1 DEF Joins, Pair, ConsentInv
    <3>2. \A id \in 1..created : id \in 1..created'
      BY DEF ConsentInv
    <3>. QED  BY <2>1, <2>2, <3>1, <3>2 DEF FoundInv
  <2>5. ASSUME ~raced PROVE StillThere(o)'
    <3>1. \A id : IsAccepted(id) => IsAccepted(id)'
      BY DEF IsAccepted
    <3>. QED  BY <2>1, <2>2, <2>5, <3>1 DEF StillThere
  <2>. QED  BY <2>3, <2>4, <2>5
<1>. QED  BY <1>1, EndedMutual
\* What flagging the rows of some ids does to the rows.
LEMMA AcceptedFrom ==
    ASSUME TypeOK, NEW S, NEW l \in Accepted(S)
    PROVE  \E k \in links : /\ k.id = l.id /\ Pair(k) = Pair(l)
                            /\ l.status = "accepted" => k.status = "accepted" \/ k.id \in S
BY DEF Accepted, Pair, TypeOK, Link

LEMMA AcceptedTo ==
    ASSUME TypeOK, NEW S, NEW k \in links
    PROVE  \E l \in Accepted(S) : /\ l.id = k.id /\ Pair(l) = Pair(k)
                                  /\ k.status = "accepted" \/ k.id \in S => l.status = "accepted"
<1>1. PICK l : l = IF k.id \in S THEN [k EXCEPT !.status = "accepted"] ELSE k
  OBVIOUS
<1>2. l \in Accepted(S)
  BY <1>1 DEF Accepted
<1>3. /\ l.id = k.id /\ Pair(l) = Pair(k)
      /\ k.status = "accepted" \/ k.id \in S => l.status = "accepted"
  BY <1>1 DEF Pair, TypeOK, Link
<1>. QED  BY <1>2, <1>3

LEMMA AcceptedOne ==
    ASSUME TypeOK, OneRowEach, NEW S, NEW l \in Accepted(S), NEW k \in Accepted(S),
           Pair(l) = Pair(k)
    PROVE  l = k
<1>1. PICK i \in links : l = IF i.id \in S THEN [i EXCEPT !.status = "accepted"] ELSE i
  BY DEF Accepted
<1>2. PICK j \in links : k = IF j.id \in S THEN [j EXCEPT !.status = "accepted"] ELSE j
  BY DEF Accepted
<1>3. Pair(i) = Pair(l) /\ Pair(j) = Pair(k)
  BY <1>1, <1>2 DEF Pair, TypeOK, Link
<1>. QED  BY <1>1, <1>2, <1>3 DEF OneRowEach

LEMMA MutualStep == TypeOK /\ ConsentInv /\ MutualInv /\ [Next]_vars => MutualInv'
<1>. SUFFICES ASSUME TypeOK, ConsentInv, MutualInv, [Next]_vars PROVE MutualInv'
  OBVIOUS
<1>a. ASSUME NEW r \in Requests, NEW q, request' = [request EXCEPT ![r] = q]
      PROVE  request'[r] = q /\ \A o \in Requests \ {r} : request'[o] = request[o]
  BY <1>a DEF TypeOK
<1>1. ASSUME NEW r \in Requests, NEW me \in Users, NEW other \in Users,
             SendRequest(r, me, other)
      PROVE  MutualInv'
  <2>1. (LockInv(r) /\ FoundInv(r) /\ AllFound(r) /\ StillThere(r))'
    BY <1>1, <1>a DEF SendRequest, LockInv, FoundInv, AllFound, StillThere
  <2>. QED  BY <1>a, <1>1, <2>1, ReadKeepsMutual DEF SendRequest
<1>2. ASSUME NEW r \in Requests, InsertLink(r) PROVE MutualInv'
  <2>1. PICK n : /\ n = NewLink(request[r].me, request[r].other, "pending")
                 /\ links' = links \cup {n}
    BY <1>2 DEF InsertLink
  <2>2. /\ n.id = created + 1 /\ n.status = "pending"
        /\ n.user_id = request[r].me /\ n.friend_user_id = request[r].other
        /\ Directed(n.user_id, n.friend_user_id) = {}
        /\ Finish(r) /\ created' = created + 1 /\ raced' = raced
    BY <1>2, <2>1 DEF InsertLink, NewLink
  <2>3. OneRowEach'
    <3>1. \A l \in links : Pair(l) # Pair(n)
      BY <2>2 DEF Directed, Pair
    <3>. QED  BY <2>1, <3>1 DEF OneRowEach, MutualInv, Pair
  <2>4. /\ \A o \in Requests : (LockInv(o) /\ FoundInv(o))'
        /\ ~raced => \A o \in Requests : StillThere(o)'
    BY <2>1, <2>2, OthersKeepMutual DEF ConsentInv
  <2>5. CASE ~raced
    <3>1. Mutual'
      BY <2>1, <2>2, <2>5 DEF MutualInv, Mutual, Directed
    <3>2. ASSUME NEW o \in Requests PROVE AllFound(o)'
      <4>1. CASE o = r
        BY <4>1, <2>2, EndedMutual
      <4>2. CASE o # r
        <5>1. request'[o] = request[o] /\ AllFound(o)
          BY <4>2, <2>2, <2>5, EndedMutual DEF MutualInv
        <5>. QED  BY <5>1, <2>1, <2>2 DEF AllFound, Joins
      <4>. QED  BY <4>1, <4>2
    <3>. QED  BY <2>3, <2>4, <2>5, <3>1, <3>2 DEF MutualInv
  <2>. QED  BY <2>2, <2>3, <2>4, <2>5 DEF MutualInv
<1>3. ASSUME NEW r \in Requests, NEW me \in Users, BeginAccept(r, me) PROVE MutualInv'
  <2>1. PICK l \in links :
          request' = [request EXCEPT ![r] =
            [pc |-> "accepting", me |-> me, link |-> l.id,
             other |-> IF l.user_id = me THEN l.friend_user_id ELSE l.user_id]]
    BY <1>3 DEF BeginAccept
  <2>2. /\ request'[r].pc = "accepting"
        /\ \A o \in Requests \ {r} : request'[o] = request[o]
    BY <2>1 DEF TypeOK
  <2>3. (LockInv(r) /\ FoundInv(r) /\ AllFound(r) /\ StillThere(r))'
    BY <2>2 DEF LockInv, FoundInv, AllFound, StillThere
  <2>. QED  BY <1>3, <2>2, <2>3, ReadKeepsMutual DEF BeginAccept
<1>4. ASSUME NEW r \in Requests, FlagLink(r) PROVE MutualInv'
  <2>1. PICK q : q = request[r]
    OBVIOUS
  <2>0. /\ request' = [request EXCEPT ![r] =
             [pc |-> "flagged", me |-> q.me, other |-> q.other, link |-> q.link,
              mirror |-> Directed(q.me, q.other)]]
        /\ q.pc = "accepting" /\ Exists(q.link)
        /\ UNCHANGED <<links, created, raced>>
    BY <1>4, <2>1 DEF FlagLink
  <2>2. /\ request'[r].pc = "flagged" /\ request'[r].link = q.link
        /\ request'[r].mirror = Directed(q.me, q.other)
        /\ \A o \in Requests \ {r} : request'[o] = request[o]
    BY <2>0 DEF TypeOK
  <2>b. Runs(q.link, q.other, q.me)
    BY <2>0, <2>1 DEF ConsentInv, AcceptInv
  <2>3. LockInv(r)' /\ FoundInv(r)' /\ AllFound(r)'
    BY <2>0, <2>2 DEF LockInv, FoundInv, AllFound, Exists
  <2>4. ASSUME ~raced PROVE StillThere(r)'
    <3>. SUFFICES ASSUME NEW m \in Directed(q.me, q.other), m.status = "accepted"
                  PROVE  IsAccepted(m.id) /\ IsAccepted(q.link)
      BY <2>0, <2>2 DEF StillThere, IsAccepted
    \* The row that m mirrors is the link itself.
    <3>1. PICK k \in links : k.user_id = q.other /\ k.friend_user_id = q.me
                             /\ k.status = "accepted"
      BY <2>4 DEF MutualInv, Mutual, Directed
    <3>2. PICK l \in links : l.id = q.link /\ Pair(l) = <<q.other, q.me>>
      BY <2>0, <2>b DEF Exists, Runs, Pair
    <3>3. k = l
      BY <3>1, <3>2 DEF MutualInv, OneRowEach, Pair
    <3>. QED  BY <3>1, <3>2, <3>3 DEF IsAccepted, Directed
  <2>. QED  BY <2>0, <2>2, <2>3, <2>4, ReadKeepsMutual
<1>5. ASSUME NEW r \in Requests, CommitAccept(r) PROVE MutualInv'
  <2>1. PICK q : q = request[r]
    OBVIOUS
  <2>2. /\ q.pc = "flagged" /\ Finish(r)
        /\ raced' = (raced \/ RemovalInFlight(q.me, q.other))
        /\ \A o \in Requests \ {r} : request'[o] = request[o]
    BY <1>5, <2>1, EndedMutual DEF CommitAccept
  <2>3. /\ Exists(q.link) /\ Runs(q.link, q.other, q.me)
        /\ \A m \in q.mirror : Runs(m.id, q.me, q.other)
        /\ \A m \in q.mirror : m.status \in {"pending", "accepted"}
        /\ ~raced => \A m \in q.mirror : m.status = "accepted" => IsAccepted(m.id)
    BY <2>1, <2>2, RequestFields
       DEF MutualInv, LockInv, StillThere, ConsentInv, AcceptInv, MirrorInv, Link
  \* Either way: what becomes of the rows, and the two directions in the end.
  <2>4. /\ created' \in Nat /\ created <= created'
        /\ OneRowEach'
        /\ \A l \in links : \E k \in links' :
             /\ k.id = l.id /\ Pair(k) = Pair(l)
             /\ l.status = "accepted" => k.status = "accepted"
        /\ \A l \in links' : l.id > created
             \/ \E k \in links : k.id = l.id /\ Pair(k) = Pair(l)
        /\ \A l \in links' : l.status = "accepted" =>
             \/ Pair(l) \in {<<q.me, q.other>>, <<q.other, q.me>>}
             \/ \E k \in links : k.id = l.id /\ Pair(k) = Pair(l) /\ k.status = "accepted"
        /\ \E l \in links' : Pair(l) = <<q.other, q.me>> /\ l.status = "accepted"
        /\ ~raced => \E l \in links' : Pair(l) = <<q.me, q.other>> /\ l.status = "accepted"
    <3>1. CASE /\ Directed(q.me, q.other) = {}
               /\ links' = Accepted({q.link}) \cup {NewLink(q.me, q.other, "accepted")}
               /\ created' = created + 1
      <4>1. PICK n : n = NewLink(q.me, q.other, "accepted")
        OBVIOUS
      <4>2. /\ n.id = created + 1 /\ n.status = "accepted" /\ Pair(n) = <<q.me, q.other>>
            /\ links' = Accepted({q.link}) \cup {n}
        BY <3>1, <4>1 DEF NewLink, Pair
      <4>3. \A l \in links : Pair(l) # Pair(n)
        BY <3>1, <4>2 DEF Directed, Pair
      <4>4. OneRowEach'
        BY <4>2, <4>3, AcceptedFrom, AcceptedOne DEF OneRowEach, MutualInv
      <4>5. \E l \in links' : Pair(l) = <<q.other, q.me>> /\ l.status = "accepted"
        BY <2>3, <4>2, AcceptedTo DEF Exists, Runs, Pair
      <4>6. \A l \in links' :
               \/ l = n
               \/ \E k \in links : /\ k.id = l.id /\ Pair(k) = Pair(l)
                                   /\ l.status = "accepted" =>
                                        k.status = "accepted" \/ k.id = q.link
        BY <4>2, AcceptedFrom
      <4>7. \A l \in links' : l.status = "accepted" =>
             \/ Pair(l) \in {<<q.me, q.other>>, <<q.other, q.me>>}
             \/ \E k \in links : k.id = l.id /\ Pair(k) = Pair(l) /\ k.status = "accepted"
        BY <2>3, <4>2, <4>6 DEF Runs, Pair
      <4>8. \A l \in links : \E k \in links' :
             /\ k.id = l.id /\ Pair(k) = Pair(l)
             /\ l.status = "accepted" => k.status = "accepted"
        BY <4>2, AcceptedTo
      <4>9. created' \in Nat /\ created < created'
        BY <3>1 DEF ConsentInv
      <4>a. \A l \in links' : l.id > created
             \/ \E k \in links : k.id = l.id /\ Pair(k) = Pair(l)
        <5>1. n.id > created
          BY <4>2 DEF ConsentInv
        <5>. QED  BY <4>6, <5>1
      <4>b. \E l \in links' : Pair(l) = <<q.me, q.other>> /\ l.status = "accepted"
        BY <4>2
      <4>c. created <= created'
        BY <3>1 DEF ConsentInv
      <4>. QED  BY <4>4, <4>5, <4>7, <4>8, <4>9, <4>a, <4>b, <4>c, Zenon
    <3>2. CASE /\ UNCHANGED created
               /\ \E m \in q.mirror :
                    /\ m.status = "pending" => Exists(m.id)
                    /\ links' = Accepted(IF m.status = "pending" THEN {q.link, m.id} ELSE {q.link})
      <4>1. PICK m \in q.mirror :
              /\ m.status = "pending" => Exists(m.id)
              /\ links' = Accepted(IF m.status = "pending" THEN {q.link, m.id} ELSE {q.link})
        BY <3>2
      <4>2. PICK S : /\ links' = Accepted(S)
                     /\ S = IF m.status = "pending" THEN {q.link, m.id} ELSE {q.link}
        BY <4>1
      <4>3. q.link \in S /\ S \subseteq {q.link, m.id} /\ (m.status = "pending" => m.id \in S)
        BY <4>2
      <4>4. OneRowEach'
        BY <4>2, AcceptedOne DEF OneRowEach, MutualInv
      <4>5. \E l \in links' : Pair(l) = <<q.other, q.me>> /\ l.status = "accepted"
        BY <2>3, <4>2, <4>3, AcceptedTo DEF Exists, Runs, Pair
      <4>6. ASSUME ~raced
            PROVE  \E l \in links' : Pair(l) = <<q.me, q.other>> /\ l.status = "accepted"
        <5>1. \E l \in links : l.id = m.id /\ (l.status = "accepted" \/ l.id \in S)
          BY <2>3, <4>1, <4>3, <4>6 DEF Exists, IsAccepted
        <5>. QED  BY <5>1, <2>3, <4>2, AcceptedTo DEF Runs, Pair
      <4>7. \A l \in links' : l.status = "accepted" =>
             \/ Pair(l) \in {<<q.me, q.other>>, <<q.other, q.me>>}
             \/ \E k \in links : k.id = l.id /\ Pair(k) = Pair(l) /\ k.status = "accepted"
        BY <2>3, <4>2, <4>3, AcceptedFrom DEF Runs, Pair
      <4>8. \A l \in links : \E k \in links' :
             /\ k.id = l.id /\ Pair(k) = Pair(l)
             /\ l.status = "accepted" => k.status = "accepted"
        BY <4>2, AcceptedTo
      <4>9. \A l \in links' : \E k \in links : k.id = l.id /\ Pair(k) = Pair(l)
        BY <4>2, AcceptedFrom
      <4>a. created' \in Nat /\ created <= created'
        BY <3>2 DEF ConsentInv
      <4>. QED  BY <4>4, <4>5, <4>6, <4>7, <4>8, <4>9, <4>a, Zenon
    <3>. QED  BY <1>5, <2>1, <3>1, <3>2 DEF CommitAccept
  <2>5. /\ \A o \in Requests : (LockInv(o) /\ FoundInv(o))'
        /\ ~raced => \A o \in Requests : StillThere(o)'
    <3>1. \A l \in links : \E k \in links' :
            k.id = l.id /\ (l.status = "accepted" => k.status = "accepted")
      BY <2>4
    <3>. QED  BY <2>2, <2>4, <3>1, OthersKeepMutual
  <2>6. CASE ~raced'
    <3>0. ~raced /\ ~RemovalInFlight(q.me, q.other)
      BY <2>2, <2>6
    <3>1. Mutual'
      <4>. SUFFICES ASSUME NEW l \in links', l.status = "accepted"
                    PROVE  \E k \in links' : /\ k.user_id = l.friend_user_id
                                             /\ k.friend_user_id = l.user_id
                                             /\ k.status = "accepted"
        BY DEF Mutual, Directed
      <4>1. CASE Pair(l) \in {<<q.me, q.other>>, <<q.other, q.me>>}
        BY <2>4, <3>0, <4>1 DEF Pair
      <4>2. ASSUME NEW j \in links, Pair(j) = Pair(l), j.status = "accepted"
            PROVE  \E k \in links' : /\ k.user_id = l.friend_user_id
                                     /\ k.friend_user_id = l.user_id
                                     /\ k.status = "accepted"
        <5>1. PICK i \in links : /\ i.user_id = j.friend_user_id
                                 /\ i.friend_user_id = j.user_id
                                 /\ i.status = "accepted"
          BY <3>0, <4>2 DEF MutualInv, Mutual, Directed
        <5>. QED  BY <2>4, <4>2, <5>1 DEF Pair
      <4>. QED  BY <2>4, <4>1, <4>2
    <3>2. ASSUME NEW o \in Requests PROVE AllFound(o)'
      <4>1. CASE o = r
        BY <4>1, <2>2, EndedMutual
      <4>2. CASE o # r
        <5>. SUFFICES ASSUME request[o].pc = "removing", NEW l \in links',
                             l.status = "accepted", Joins(l, request[o].me, request[o].other)
                      PROVE  l.id \in request[o].found
          BY <2>2, <4>2 DEF AllFound, Joins
        <5>1. {request[o].me, request[o].other} # {q.me, q.other}
          BY <3>0 DEF RemovalInFlight
        <5>2. Pair(l) \notin {<<q.me, q.other>>, <<q.other, q.me>>}
          BY <5>1 DEF Joins, Pair
        <5>3. PICK k \in links : k.id = l.id /\ Pair(k) = Pair(l) /\ k.status = "accepted"
          BY <2>4, <5>2
        <5>. QED  BY <3>0, <5>3 DEF MutualInv, AllFound, Joins, Pair
      <4>. QED  BY <4>1, <4>2
    <3>. QED  BY <2>4, <2>5, <3>0, <3>1, <3>2 DEF MutualInv
  <2>. QED  BY <2>4, <2>5, <2>6 DEF MutualInv
<1>6. ASSUME NEW r \in Requests, NEW me \in Users, NEW other \in Users,
             BeginRemove(r, me, other)
      PROVE  MutualInv'
  <2>1. /\ request'[r].pc = "removing"
        /\ request'[r].me = me /\ request'[r].other = other
        /\ request'[r].found = {l.id : l \in Between(me, other)}
        /\ UNCHANGED <<links, created, raced>>
        /\ \A o \in Requests \ {r} : request'[o] = request[o]
    BY <1>6, <1>a DEF BeginRemove
  <2>2. ASSUME NEW l \in links PROVE l \in Between(me, other) <=> Joins(l, me, other)
    BY DEF Between, Joins
  <2>3. FoundInv(r)'
    <3>. SUFFICES ASSUME NEW k \in Between(me, other)
                  PROVE  /\ k.id \in 1..created
                         /\ \A l \in links : l.id = k.id => Joins(l, me, other)
      BY <2>1 DEF FoundInv, Joins
    <3>1. k \in links /\ Joins(k, me, other)
      BY <2>2 DEF Between
    <3>. QED  BY <3>1 DEF ConsentInv, LinkInv, Pair, Joins
  <2>4. LockInv(r)' /\ AllFound(r)' /\ StillThere(r)'
    BY <2>1, <2>2 DEF LockInv, AllFound, StillThere
  <2>. QED  BY <2>1, <2>3, <2>4, ReadKeepsMutual
<1>7. ASSUME NEW r \in Requests, FinishRemove(r) PROVE MutualInv'
  <2>1. PICK q : q = request[r]
    OBVIOUS
  <2>2. /\ q.pc = "removing" /\ \A id \in q.found : ~Locked(id, r)
        /\ links' = {l \in links : l.id \notin q.found}
        /\ Finish(r) /\ created' = created /\ raced' = raced
        /\ \A o \in Requests \ {r} : request'[o] = request[o]
    BY <1>7, <2>1, EndedMutual DEF FinishRemove
  <2>3. \A o \in Requests : request[o].pc = "flagged" => request[o].link \notin q.found
    BY <2>1, <2>2 DEF Locked
  <2>4. OneRowEach'
    BY <2>2 DEF MutualInv, OneRowEach, Pair
  <2>5. ASSUME NEW o \in Requests PROVE LockInv(o)' /\ FoundInv(o)' /\ (~raced => AllFound(o)')
    <3>1. CASE o = r
      BY <3>1, <2>2, EndedMutual
    <3>2. CASE o # r
      <4>1. /\ request'[o] = request[o]
            /\ LockInv(o) /\ FoundInv(o) /\ (~raced => AllFound(o))
        BY <2>2, <3>2 DEF MutualInv
      <4>2. LockInv(o)'
        BY <2>2, <2>3, <4>1 DEF LockInv, Exists
      <4>3. FoundInv(o)'
        BY <2>2, <4>1 DEF FoundInv, Joins
      <4>4. ~raced => AllFound(o)'
        BY <2>2, <4>1 DEF AllFound, Joins
      <4>. QED  BY <4>2, <4>3, <4>4
    <3>. QED  BY <3>1, <3>2
  <2>6. CASE ~raced
    \* A row of the pair is deleted only with all its accepted rows.
    <3>0. ASSUME NEW l \in links, NEW k \in links, k.id \in q.found, l.status = "accepted",
                 l.user_id = k.friend_user_id, l.friend_user_id = k.user_id
          PROVE  l.id \in q.found
      <4>1. Joins(k, q.me, q.other)
        BY <2>1, <2>2, <3>0 DEF MutualInv, FoundInv
      <4>2. Joins(l, q.me, q.other)
        BY <3>0, <4>1 DEF Joins
      <4>. QED  BY <2>1, <2>2, <2>6, <3>0, <4>2 DEF MutualInv, AllFound
    <3>1. Mutual'
      <4>. SUFFICES ASSUME NEW l \in links', l.status = "accepted"
                    PROVE  \E k \in links' : /\ k.user_id = l.friend_user_id
                                             /\ k.friend_user_id = l.user_id
                                             /\ k.status = "accepted"
        BY DEF Mutual, Directed
      <4>1. l \in links /\ l.id \notin q.found
        BY <2>2
      <4>2. PICK k \in links : /\ k.user_id = l.friend_user_id
                               /\ k.friend_user_id = l.user_id
                               /\ k.status = "accepted"
        BY <2>6, <4>1 DEF MutualInv, Mutual, Directed
      <4>. QED  BY <2>2, <3>0, <4>1, <4>2
    <3>2. ASSUME NEW o \in Requests PROVE StillThere(o)'
      <4>1. CASE o = r
        BY <4>1, <2>2, EndedMutual
      <4>2. CASE o # r
        <5>. SUFFICES ASSUME request[o].pc = "flagged", NEW m \in request[o].mirror,
                             m.status = "accepted"
                      PROVE  IsAccepted(m.id)' /\ IsAccepted(request[o].link)'
          BY <2>2, <4>2 DEF StillThere, IsAccepted
        <5>1. IsAccepted(m.id) /\ IsAccepted(request[o].link)
          BY <2>6 DEF MutualInv, StillThere
        <5>2. PICK k \in links, l \in links :
                /\ k.id = m.id /\ k.status = "accepted"
                /\ l.id = request[o].link /\ l.status = "accepted"
          BY <5>1 DEF IsAccepted
        <5>3. l.id \notin q.found
          BY <2>3, <5>2
        <5>4. l.user_id = k.friend_user_id /\ l.friend_user_id = k.user_id
          BY <5>2 DEF ConsentInv, AcceptInv, MirrorInv, Runs
        <5>5. k.id \notin q.found
          BY <3>0, <5>2, <5>3, <5>4
        <5>6. k \in links' /\ l \in links'
          BY <2>2, <5>2, <5>3, <5>5
        <5>7. request'[o] = request[o]
          BY <2>2, <4>2
        <5>. QED  BY <5>2, <5>6, <5>7 DEF IsAccepted
      <4>. QED  BY <4>1, <4>2
    <3>. QED  BY <2>2, <2>4, <2>5, <2>6, <3>1, <3>2 DEF MutualInv
  <2>. QED  BY <2>2, <2>4, <2>5, <2>6 DEF MutualInv
<1>8. ASSUME NEW r \in Requests, Abort(r) PROVE MutualInv'
  BY <1>8, EndedMutual, ReadKeepsMutual DEF Abort
<1>9. CASE UNCHANGED vars
  <2>1. OneRowEach' /\ \A r \in Requests : LockInv(r)' /\ FoundInv(r)'
    BY <1>9 DEF vars, MutualInv, OneRowEach, Pair, LockInv, Exists, FoundInv, Joins
  <2>2. ASSUME ~raced PROVE Mutual' /\ \A r \in Requests : AllFound(r)' /\ StillThere(r)'
    BY <1>9, <2>2 DEF vars, MutualInv, Mutual, Directed, AllFound, StillThere, IsAccepted, Joins
  <2>3. raced' = raced
    BY <1>9 DEF vars
  <2>. QED  BY <2>1, <2>2, <2>3 DEF MutualInv
<1>. QED
  BY <1>1, <1>2, <1>3, <1>4, <1>5, <1>6, <1>7, <1>8, <1>9 DEF Next
\* Both are friends or neither, unless an acceptance was committed while a
\* removal of the same pair was under way.
THEOREM MutualTheorem == Spec => []MutualUnlessRaced
<1>1. Init => TypeOK /\ ConsentInv /\ MutualInv
  BY TypeInit, ConsentInit, MutualInit
<1>2. TypeOK /\ ConsentInv /\ MutualInv /\ [Next]_vars => (TypeOK /\ ConsentInv /\ MutualInv)'
  BY TypeStep, ConsentStep, MutualStep
<1>3. MutualInv => MutualUnlessRaced
  BY DEF MutualInv, MutualUnlessRaced
<1>. QED  BY <1>1, <1>2, <1>3, PTL DEF Spec
=============================================================================
