------------------------------ MODULE MCOutbox ------------------------------
(* Instances of Outbox for TLC.                                            *)
EXTENDS Outbox, TLC

Symmetric == Permutations(Commands) \cup Permutations(Workers)

(* The bound of the two-command instance: one of the two is delivered only *)
(* once, so that the other can be explored in full beside it.              *)
OneIsDeliveredOnce == \E c \in Commands : handed[c] <= 1
=============================================================================
