----------------------------- MODULE MCDiceMix -----------------------------
(* Instances of DiceMix for TLC, and what a comment says of it.            *)
EXTENDS DiceMix

CONSTANTS a, b, c, d

\* coinjoin.go:142-143: "If there is enough peers for join transaction, creates new
\* join session."  Once it is at that, it does.
JoinStarts == run.at = "join" ~> (run.at # "join" \/ crashed)
=============================================================================
