---------------------------- MODULE MCCommitsStore ----------------------------
\* CommitsStore for TLC: a commit of Joe's, one of somebody else's, one without a
\* committer's name.
EXTENDS CommitsStore, TLC

CONSTANTS c1, c2, c3, none, joe, ann

MCCommitter == c1 :> joe @@ c2 :> ann @@ c3 :> none
MCFixes == {c1}
MCPulls == {c2}
=============================================================================
