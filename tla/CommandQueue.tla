---------------------------- MODULE CommandQueue ----------------------------
(***************************************************************************)
(* What the outbox promises of a command, whatever workers do with it: an  *)
(* accepted command stays queued until a handler has carried it out or it  *)
(* is buried, a finished one never comes back, a buried one only by an     *)
(* operator.  Delivery is at least once, so a command may be carried out   *)
(* again at any time.                                                      *)
(***************************************************************************)
CONSTANT Commands

VARIABLES
    fate,           \* of each command: absent, queued, done or dead
    carriedOut      \* commands a handler has carried out

vars == <<fate, carriedOut>>

Fates == {"absent", "queued", "done", "dead"}

Init ==
    /\ fate = [c \in Commands |-> "absent"]
    /\ carriedOut = {}

Accept(c) ==
    /\ fate[c] = "absent"
    /\ fate' = [fate EXCEPT ![c] = "queued"]
    /\ UNCHANGED carriedOut

CarryOut(c) ==
    /\ fate[c] # "absent"
    /\ carriedOut' = carriedOut \cup {c}
    /\ UNCHANGED fate

Finish(c) ==
    /\ fate[c] = "queued" /\ c \in carriedOut
    /\ fate' = [fate EXCEPT ![c] = "done"]
    /\ UNCHANGED carriedOut

(* One sweep may bury several.                                             *)
Bury(S) ==
    /\ \A c \in S : fate[c] = "queued"
    /\ fate' = [c \in Commands |-> IF c \in S THEN "dead" ELSE fate[c]]
    /\ UNCHANGED carriedOut

Restore(c) ==
    /\ fate[c] = "dead"
    /\ fate' = [fate EXCEPT ![c] = "queued"]
    /\ UNCHANGED carriedOut

Next ==
    \/ \E c \in Commands : Accept(c) \/ CarryOut(c) \/ Finish(c) \/ Restore(c)
    \/ \E S \in SUBSET Commands : Bury(S)

Spec == Init /\ [][Next]_vars
=============================================================================
