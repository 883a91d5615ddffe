---------------------------- MODULE FriendLinks ----------------------------
(***************************************************************************)
(* Friend requests (api/v1/friends.py): the rows of friend_links and the   *)
(* API requests that read and write them, each in its own transaction at   *)
(* READ COMMITTED.                                                         *)
(*                                                                         *)
(* What matters of Postgres and the ORM here: a SELECT sees committed      *)
(* rows only; an UPDATE waits for whoever holds the row and fails          *)
(* (StaleDataError) if the row is gone by then; an INSERT of an existing   *)
(* (user_id, friend_user_id) fails; a DELETE finds its rows once, when it  *)
(* starts, and then waits for those that are locked.                       *)
(***************************************************************************)
EXTENDS Integers, FiniteSets

CONSTANTS
    Users,
    Removers,   \* users who call DELETE /friends/{id}
    Requests,   \* API requests in flight
    MaxRows     \* bound: friend_links rows ever created

ASSUME ConstantsAssumption ==
    /\ Removers \subseteq Users
    /\ MaxRows \in Nat

VARIABLES
    links,      \* committed rows of friend_links
    created,    \* rows created so far; their ids are 1..created
    request,    \* request[r]: what an API request has read and does next
    consent,    \* history: <<x, y>> when x has asked for, or accepted, y
    raced       \* history: an acceptance was committed during a removal

vars == <<links, created, request, consent, raced>>

Ids == 1..MaxRows
Link == [id : Ids, user_id : Users, friend_user_id : Users,
         status : {"pending", "accepted"}]

Idle == [pc |-> "idle"]
Request ==
    {Idle}
    \cup [pc : {"inserting"}, me : Users, other : Users]
    \cup [pc : {"accepting"}, me : Users, other : Users, link : Ids]
    \cup [pc : {"flagged"}, me : Users, other : Users, link : Ids, mirror : SUBSET Link]
    \cup [pc : {"removing"}, me : Users, other : Users, found : SUBSET Ids]

Between(x, y) ==
    {l \in links : {l.user_id, l.friend_user_id} = {x, y}}
Directed(x, y) ==
    {l \in links : l.user_id = x /\ l.friend_user_id = y}
Exists(id) == \E l \in links : l.id = id

\* Mutant: the flag is written only when the transaction commits.
Locked_never(id, r) == FALSE

\* The UPDATE that flags a link holds its row, against every other request,
\* until the transaction ends.
Locked(id, r) ==
    \E o \in Requests \ {r} : request[o].pc = "flagged" /\ request[o].link = id

Accepted(ids) ==
    {IF l.id \in ids THEN [l EXCEPT !.status = "accepted"] ELSE l : l \in links}

NewLink(x, y, s) ==
    [id |-> created + 1, user_id |-> x, friend_user_id |-> y, status |-> s]

Finish(r) == request' = [request EXCEPT ![r] = Idle]

-----------------------------------------------------------------------------
(* send_request *)

\* Nothing between the two yet: a pending row will be inserted.
SendRequest(r, me, other) ==
    /\ request[r].pc = "idle" /\ me # other
    /\ Between(me, other) = {}
    /\ request' = [request EXCEPT ![r] = [pc |-> "inserting", me |-> me, other |-> other]]
    /\ UNCHANGED <<links, created, consent, raced>>

InsertLink(r) ==
    LET q == request[r]
    IN  /\ q.pc = "inserting"
        /\ Directed(q.me, q.other) = {}
        /\ created < MaxRows
        /\ links' = links \cup {NewLink(q.me, q.other, "pending")}
        /\ created' = created + 1
        /\ consent' = consent \cup {<<q.me, q.other>>}
        /\ Finish(r)
        /\ UNCHANGED raced

\* Mutant: any pending link of mine will do, also one I sent.
Acceptable_ownRequest(l, me) == l.status = "pending" /\ me \in {l.user_id, l.friend_user_id}

Acceptable(l, me) == l.status = "pending" /\ l.friend_user_id = me

\* accept_request, or send_request to somebody who had asked already: the
\* pending link has been read.
BeginAccept(r, me) ==
    /\ request[r].pc = "idle"
    /\ \E l \in links :
         /\ Acceptable(l, me)
         /\ request' = [request EXCEPT ![r] =
              [pc |-> "accepting", me |-> me, link |-> l.id,
               other |-> IF l.user_id = me THEN l.friend_user_id ELSE l.user_id]]
    /\ UNCHANGED <<links, created, consent, raced>>

\* _accept, first half: the query for the mirror row flushes the new status,
\* which locks the link, and then looks for the mirror.
FlagLink(r) ==
    LET q == request[r]
    IN  /\ q.pc = "accepting"
        /\ Exists(q.link) /\ ~Locked(q.link, r)
        /\ request' = [request EXCEPT ![r] =
             [pc |-> "flagged", me |-> q.me, other |-> q.other, link |-> q.link,
              mirror |-> Directed(q.me, q.other)]]
        /\ UNCHANGED <<links, created, consent, raced>>

\* Somebody removes what this acceptance is about.
RemovalInFlight(x, y) ==
    \E r \in Requests : request[r].pc = "removing" /\ {request[r].me, request[r].other} = {x, y}

\* _accept, second half: insert the mirror, or flag the one that was found, and
\* commit.  A mirror that was accepted when it was read is not written again.
CommitAccept(r) ==
    LET q == request[r]
    IN  /\ q.pc = "flagged"
        /\ \/ /\ q.mirror = {}
              /\ Directed(q.me, q.other) = {}
              /\ created < MaxRows
              /\ links' = Accepted({q.link}) \cup {NewLink(q.me, q.other, "accepted")}
              /\ created' = created + 1
           \/ /\ \E m \in q.mirror :
                   /\ m.status = "pending" => Exists(m.id) /\ ~Locked(m.id, r)
                   /\ links' = Accepted(IF m.status = "pending" THEN {q.link, m.id} ELSE {q.link})
              /\ UNCHANGED created
        /\ consent' = consent \cup {<<q.me, q.other>>}
        /\ raced' = (raced \/ RemovalInFlight(q.me, q.other))
        /\ Finish(r)

-----------------------------------------------------------------------------
(* remove *)

\* The DELETE statement starts: it has found the rows between the two.
BeginRemove(r, me, other) ==
    /\ request[r].pc = "idle" /\ me # other
    /\ Between(me, other) # {}
    /\ request' = [request EXCEPT ![r] =
         [pc |-> "removing", me |-> me, other |-> other,
          found |-> {l.id : l \in Between(me, other)}]]
    /\ UNCHANGED <<links, created, consent, raced>>

\* It has waited for the locked ones, deletes what is left of them, commits.
FinishRemove(r) ==
    LET q == request[r]
    IN  /\ q.pc = "removing"
        /\ \A id \in q.found : ~Locked(id, r)
        /\ links' = {l \in links : l.id \notin q.found}
        /\ Finish(r)
        /\ UNCHANGED <<created, consent, raced>>

\* A stale or duplicate row, a deadlock victim, a crash: rolled back.
Abort(r) ==
    /\ request[r].pc # "idle"
    /\ Finish(r)
    /\ UNCHANGED <<links, created, consent, raced>>

-----------------------------------------------------------------------------
Init ==
    /\ links = {}
    /\ created = 0
    /\ request = [r \in Requests |-> Idle]
    /\ consent = {}
    /\ raced = FALSE

Next ==
    \E r \in Requests :
      \/ InsertLink(r) \/ FlagLink(r) \/ CommitAccept(r) \/ FinishRemove(r) \/ Abort(r)
      \/ \E me \in Users :
           \/ BeginAccept(r, me)
           \/ \E other \in Users : SendRequest(r, me, other)
           \/ me \in Removers /\ \E other \in Users : BeginRemove(r, me, other)

Spec == Init /\ [][Next]_vars

-----------------------------------------------------------------------------
(* Properties *)

\* Type correctness.
TypeOK ==
    /\ links \subseteq Link
    /\ created \in 0..MaxRows
    /\ request \in [Requests -> Request]
    /\ consent \subseteq Users \X Users
    /\ raced \in BOOLEAN

\* Nobody becomes anybody's friend without having asked or accepted: crossed
\* requests, double acceptances and removals included.
ConsentOfBoth ==
    \A l \in links : l.status = "accepted" =>
        {<<l.user_id, l.friend_user_id>>, <<l.friend_user_id, l.user_id>>} \subseteq consent

\* Friendship is mutual (friends.py:3-6): accepting leaves both directions
\* accepted, removing leaves neither.
Mutual ==
    \A l \in links : l.status = "accepted" =>
        \E m \in Directed(l.friend_user_id, l.user_id) : m.status = "accepted"

\* It is mutual in every state of a history in which no acceptance was
\* committed while a removal of the same pair was waiting.
MutualUnlessRaced == raced \/ Mutual
=============================================================================
