----------------------------- MODULE GuardRules -----------------------------
(***************************************************************************)
(* The user's ban-hammer rules as the endpoints of api/v1/banhammer.py     *)
(* change them, composed with the guard that reads them (SkipGuard).  The  *)
(* rows are all that is stored; which tracks they ban is what Blacklist    *)
(* makes of them.  Bans of artists and exemptions are never lifted: there  *)
(* is no endpoint that does.                                               *)
(***************************************************************************)
EXTENDS SkipGuard, Blacklist

CONSTANTS
    StartRules,       \* banned_genres in the beginning
    StartExempt,
    NewRules, BannableArtists, Exemptible    \* what the user may add

ASSUME TracksAssumption == DOMAIN CreditsOf = Tracks

BannedBy(bl, context) == {t \in Tracks : Evaluate(bl, t, context).banned}

StartList == [rules |-> StartRules, artists |-> {}, exempt |-> StartExempt]

ASSUME StartAssumption ==
    /\ StartRules \in Seq(Rules) /\ NewRules \subseteq Rules
    /\ Blacklisted = BannedBy(StartList, "skip_guard")

VARIABLES
    rules,    \* banned_genres, in the order in which they come
    artists,  \* banned_artists
    exempt    \* blacklist_exemptions

rows == <<rules, artists, exempt>>

\* load_blacklist and from_rows.
LoadBlacklist == [rules |-> rules, artists |-> artists, exempt |-> exempt]

-----------------------------------------------------------------------------
RulesInit ==
    /\ Init
    /\ rules = StartRules /\ artists = {} /\ exempt = StartExempt

\* What the next evaluation of a playing track will be judged by.
Reload == ChangeRules(BannedBy(LoadBlacklist', "skip_guard"))

\* One rule for a pattern: a second one is a conflict.  Nothing checks that it can be
\* compiled.  Rules are loaded without an ORDER BY: the new one may come anywhere.
AddGenre(r) ==
    /\ \A i \in DOMAIN rules : rules[i].pattern # r.pattern
    /\ \E i \in 1 .. Len(rules) + 1 : rules' = InsertAt(rules, i, r)
    /\ UNCHANGED <<artists, exempt>>
    /\ Reload

DeleteGenre(i) ==
    /\ rules' = RemoveAt(rules, i)
    /\ UNCHANGED <<artists, exempt>>
    /\ Reload

\* The unique keys refuse a second ban and a second exemption.
BanArtist(a) ==
    /\ a \notin artists
    /\ artists' = artists \cup {a}
    /\ UNCHANGED <<rules, exempt>>
    /\ Reload

AddExemption(id) ==
    /\ id \notin exempt
    /\ exempt' = exempt \cup {id}
    /\ UNCHANGED <<rules, artists>>
    /\ Reload

Edit ==
    \/ \E r \in NewRules : AddGenre(r)
    \/ \E i \in DOMAIN rules : DeleteGenre(i)
    \/ \E a \in BannableArtists : BanArtist(a)
    \/ \E id \in Exemptible : AddExemption(id)

RulesNext == (PlayerAndGuard /\ UNCHANGED rows) \/ Edit

RulesSpec == RulesInit /\ [][RulesNext]_<<vars, rows>> /\ Fairness

-----------------------------------------------------------------------------
(* Properties *)

NotExempt(t) == {a \in Range(CreditsOf[t]) : a \notin exempt}

Hit(r, a, context) == context \in r.for /\ Range(GenresOf[a]) \cap Matches[r.pattern] # {}

Breaks(r, a, context) == context \in r.for /\ r.pattern \in Broken /\ GenresOf[a] # <<>>

\* Whatever rows the endpoints have left, the loops of evaluate come to what the rules
\* mean, for the guard and for a purge: an exemption of the track or its album wins over
\* everything, one of an artist takes out that artist alone, and any artist who is left
\* bans the track by his name or by one genre that a rule of this context matches.  The
\* reason given is such an artist, with his ban or with a rule that does hit him.
\* Instead of a verdict there is an exception only for a track that is not exempt, with
\* an artist left whom a rule of this context that cannot be compiled is tried on: a
\* rule for the other context, exempt and banned artists, and those without genres
\* raise nothing.
VerdictsRight ==
    \A t \in Tracks, context \in Contexts :
        LET v == Evaluate(LoadBlacklist, t, context)
            ExemptTrack == t \in exempt \/ AlbumOf[t] \in exempt
        IN  /\ v # Raised =>
                 (v.banned <=>
                    /\ ~ExemptTrack
                    /\ \E a \in NotExempt(t) :
                         a \in artists \/ \E i \in DOMAIN rules : Hit(rules[i], a, context))
            /\ v = Raised =>
                 /\ ~ExemptTrack
                 /\ \E a \in NotExempt(t) \ artists, i \in DOMAIN rules : Breaks(rules[i], a, context)
            /\ v.banned =>
                 /\ v.artist \in NotExempt(t)
                 /\ IF v.reason = "banned_artist" THEN v.artist \in artists
                    ELSE \E i \in DOMAIN rules :
                            rules[i].pattern = v.rule /\ Hit(rules[i], v.artist, context)
=============================================================================
