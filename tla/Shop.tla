-------------------------------- MODULE Shop --------------------------------
\* What the stock of the shop looks like from outside, one transaction after
\* another: a version is sold whole and once, never after its promise is over, and
\* only from what is on hand by the movements; nothing but a sale or an edit moves
\* the shelf, and an edit posts movements of one kind.
EXTENDS Integers

CONSTANTS Sku, Checkouts, Cart, Opening

VARIABLES
    ledger,     \* the units posted of each kind of movement
    sold,       \* the versions whose units have left the shelf
    promise     \* what the shop owes each version

vars == <<ledger, sold, promise>>

Kinds == {"RECEIVED", "SOLD", "ADJUSTED"}
Promises == {"open", "held", "sold", "over"}

OnHand(s) == ledger[s]["RECEIVED"] + ledger[s]["SOLD"] + ledger[s]["ADJUSTED"]

Init ==
    /\ ledger = [s \in Sku |-> [k \in Kinds |-> IF k = "RECEIVED" THEN Opening[s] ELSE 0]]
    /\ sold = {}
    /\ promise = [c \in Checkouts |-> "open"]

Hold(c) ==
    /\ promise[c] = "open"
    /\ promise' = [promise EXCEPT ![c] = "held"]
    /\ UNCHANGED <<ledger, sold>>

\* All the lines of a version leave the shelf together.
Sell(c) ==
    /\ promise[c] \in {"open", "held"} /\ c \notin sold
    /\ \A s \in Sku : Cart[c][s] <= OnHand(s)
    /\ ledger' = [s \in Sku |-> [ledger[s] EXCEPT !["SOLD"] = @ - Cart[c][s]]]
    /\ sold' = sold \union {c}
    /\ promise' = [promise EXCEPT ![c] = "sold"]

\* Cancelled, refused, lapsed, superseded or not paid: for good, and the units of
\* a sale do not come back by themselves.
End(c) ==
    /\ promise[c] # "over"
    /\ promise' = [promise EXCEPT ![c] = "over"]
    /\ UNCHANGED <<ledger, sold>>

\* A merchant's edit: deliveries only bring, and nothing is taken that is not there.
Post(kind) ==
    /\ \A s \in Sku :
          /\ ledger'[s] = [ledger[s] EXCEPT ![kind] = ledger'[s][kind]]
          /\ OnHand(s)' >= 0
          /\ kind = "RECEIVED" => ledger'[s][kind] >= ledger[s][kind]
    /\ DOMAIN ledger' = Sku
    /\ UNCHANGED <<sold, promise>>

Next ==
    \/ \E kind \in {"RECEIVED", "ADJUSTED"} : Post(kind)
    \/ \E c \in Checkouts : Hold(c) \/ Sell(c) \/ End(c)

Spec == Init /\ [][Next]_vars
=============================================================================
