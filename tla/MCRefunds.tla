----------------------------- MODULE MCRefunds -----------------------------
(* Refunds on small instances.                                             *)
EXTENDS Refunds

Of(S) == [f \in {"stale", "late", "overlap", "expiry", "evidence"} |-> f \in S]

(* One environment at a time, so that each is told apart from the others.  *)
AllWeathers == {Of({}), Of({"stale"}), Of({"late", "expiry"}),
                Of({"overlap"}), Of({"stale", "evidence"})}
Reported == {Of({"evidence"})}
Unfulfilled == {Of({"stale"})}
=============================================================================
