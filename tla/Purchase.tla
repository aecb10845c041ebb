------------------------------ MODULE Purchase ------------------------------
(***************************************************************************)
(* What the transaction core promises of one checkout, whatever workers,   *)
(* webhooks and sweeps do with it: every attempt to charge spends a        *)
(* decision of the buyer, one attempt is open at a time, at most one is    *)
(* ever sold and then nothing follows it, and an attempt is sold or its    *)
(* money sent back only when the provider holds that money.                *)
(***************************************************************************)
CONSTANT Attempts

VARIABLES
    agreed,         \* the buyer's decision on what is offered now, not spent
    outcome,        \* of each attempt
    charged         \* the attempts whose money the provider has taken

vars == <<agreed, outcome, charged>>

Outcomes == {"absent", "open", "sold", "returning", "unsold", "review"}

Open(a) == outcome[a] = "open"
Sold(a) == outcome[a] = "sold"

Init ==
    /\ agreed = FALSE
    /\ outcome = [a \in Attempts |-> "absent"]
    /\ charged = {}

(* The buyer agrees to what is offered, which nobody has bought yet.       *)
Agree ==
    /\ ~agreed /\ \A a \in Attempts : ~Sold(a)
    /\ agreed' = TRUE
    /\ UNCHANGED <<outcome, charged>>

Begin(a) ==
    /\ agreed /\ outcome[a] = "absent"
    /\ \A b \in Attempts : ~Open(b) /\ ~Sold(b)
    /\ agreed' = FALSE
    /\ outcome' = [outcome EXCEPT ![a] = "open"]
    /\ UNCHANGED charged

(* The buyer pays: in time, late, or for an attempt given up already.      *)
Charge(a) ==
    /\ outcome[a] # "absent"
    /\ charged' = charged \cup {a}
    /\ UNCHANGED <<agreed, outcome>>

Sell(a) ==
    /\ Open(a) /\ a \in charged
    /\ outcome' = [outcome EXCEPT ![a] = "sold"]
    /\ UNCHANGED <<agreed, charged>>

(* The money arrived for what may not be fulfilled any more.               *)
Return(a) ==
    /\ Open(a) /\ a \in charged
    /\ outcome' = [outcome EXCEPT ![a] = "returning"]
    /\ UNCHANGED <<agreed, charged>>

(* A person has to judge.                                                  *)
Freeze(a) ==
    /\ Open(a)
    /\ outcome' = [outcome EXCEPT ![a] = "review"]
    /\ UNCHANGED <<agreed, charged>>

(* Attempts fail or are cancelled, and a decision lapses or is withdrawn,  *)
(* one of these or several at once.                                        *)
Abandon(S) ==
    /\ \A a \in S : Open(a)
    /\ outcome' = [a \in Attempts |-> IF a \in S THEN "unsold" ELSE outcome[a]]
    /\ agreed' \in {agreed, FALSE}
    /\ UNCHANGED charged

Next ==
    \/ \E S \in SUBSET Attempts : Abandon(S)
    \/ Agree
    \/ \E a \in Attempts :
          Begin(a) \/ Charge(a) \/ Sell(a) \/ Return(a) \/ Freeze(a)

Spec == Init /\ [][Next]_vars
=============================================================================
