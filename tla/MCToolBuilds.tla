---------------------------- MODULE MCToolBuilds ----------------------------
EXTENDS ToolBuilds

CONSTANTS t1, t2, t3, loc

TracksV == {t1, t2, t3, loc}
ArtistV == [x \in TracksV |-> IF x = t3 THEN "B" ELSE IF x = loc THEN "none" ELSE "A"]
KeyV    == [x \in TracksV |-> IF x = t2 THEN 2 ELSE 1]

J(tool, a, b, opt, new) == [tool |-> tool, a |-> a, b |-> b, opt |-> opt, new |-> new]

\* Sources with repetitions, a gap and a local file; longer than two requests.
A1 == <<t1, t2, t3, t1>>
A2 == <<t2, NoItem, t1, loc, t3>>
B1 == <<t1, t1, t3>>
B2 == <<t3, loc, t3>>

\* An automation's backup whose config is not one.
InvalidV == {J("backup", A1, <<>>, "api", TRUE)}

JobsV == InvalidV
  \cup {J(tool, a, <<>>, "", TRUE) : tool \in {"copy", "split", "sonic"}, a \in {A1, A2, <<>>}}
  \cup {J("set_ops", a, b, op, TRUE) : a \in {A1, A2}, b \in {B1, B2}, op \in {"subtract", "intersect", "union"}}
  \cup {J("set_ops", <<t1, t1>>, B2, op, TRUE) : op \in {"subtract", "intersect", "union"}}
  \cup {J("blend", a, b, op, TRUE) : a \in {A1, A2}, b \in {B2, <<>>}, op \in {"append", "interleave", "interleave_all"}}
  \cup {J("shuffle", a, <<>>, op, new) : a \in {A1, B1, <<>>}, op \in {"plain", "spread"}, new \in BOOLEAN}
  \cup {J("sort", a, <<>>, op, FALSE) : a \in {A1, A2}, op \in {"ascending", "descending"}}
  \cup {J("prune", a, <<>>, "", FALSE) : a \in {A1, A2}}
  \cup {J("subtract_liked", a, b, "", FALSE) : a \in {A1, A2}, b \in {B1, <<>>}}
  \cup {J("liked", B2, A1, op, new) : op \in {"newest_first", "oldest_first"}, new \in BOOLEAN}
  \cup {J("backup", a, B1, op, new) : a \in {A2, <<>>}, op \in {"api", "shadow"}, new \in BOOLEAN}
  \cup {J("restore", B2, A1, "", new) : new \in BOOLEAN}
  \cup {J(tool, <<>>, b, "", TRUE) : tool \in {"best_of", "forgotten"}, b \in {<<t1, t2, t1, t2, t3>>, <<>>}}
  \cup {J("porter", <<>>, A1, "", TRUE), J("delete", A1, <<>>, "", FALSE)}
=============================================================================
