------------------------------ MODULE Allowance ------------------------------
\* What a buyer's permission to spend is worth, whoever keeps its books: one
\* permission at a time stands behind the purchases allotted to it, their prices
\* never add up to more than its ceiling, a debit is sent at most once, and what
\* is given back is given back once. What uses the permission has asked while it
\* stood: a lapse lets what has asked go on, a withdrawal stops that too. A
\* purchase allotted once the permission has lapsed is therefore never debited.
EXTENDS Integers, FiniteSetsExt

CONSTANTS Permissions, Purchases, Price, Ceiling, Limit

VARIABLES
    life,      \* what has become of each permission
    stake,     \* the purchase's claim on a permission, and of which
    sent,      \* the purchases whose debit has gone to the provider
    clearance  \* the permission that who acts for the purchase may still use

vars == <<life, stake, sent, clearance>>

Lives == {"none", "stands", "lapsed", "over"}
Answers == {"HELD", "SPENT", "RELEASED"}

Committed(a) == {p \in Purchases : stake[p].of = a /\ stake[p].state \in {"HELD", "SPENT"}}
Total(purchases) == MapThenSumSet(LAMBDA p : Price[p], purchases)

Init ==
    /\ life = [a \in Permissions |-> "none"]
    /\ stake = [p \in Purchases |-> [of |-> 0, state |-> "NONE"]]
    /\ sent = {}
    /\ clearance = [p \in Purchases |-> 0]

\* One that lapsed is in the way of another until it is withdrawn.
Permit(a) ==
    /\ life[a] = "none" /\ \A b \in Permissions : life[b] \notin {"stands", "lapsed"}
    /\ life' = [life EXCEPT ![a] = "stands"]
    /\ UNCHANGED <<stake, sent, clearance>>

Expire(a) ==
    /\ life[a] = "stands"
    /\ life' = [life EXCEPT ![a] = "lapsed"]
    /\ UNCHANGED <<stake, sent, clearance>>

Withdraw(a) ==
    /\ life[a] \in {"stands", "lapsed"}
    /\ life' = [life EXCEPT ![a] = "over"]
    /\ clearance' = [p \in Purchases |-> IF clearance[p] = a THEN 0 ELSE clearance[p]]
    /\ UNCHANGED <<stake, sent>>

Ask(p, a) ==
    /\ life[a] = "stands"
    /\ clearance' = [clearance EXCEPT ![p] = a]
    /\ UNCHANGED <<life, stake, sent>>

Without(p) == [clearance EXCEPT ![p] = 0]
Leave(p) == clearance' = Without(p) /\ UNCHANGED <<life, stake, sent>>

\* Whoever gets an answer leaves, but may not be the only one who asked.
Leaves(p) == clearance' \in {clearance, Without(p)}
Claims(p, a, state) == stake' = [stake EXCEPT ![p] = [of |-> a, state |-> state]]

Allot(p, a) ==
    /\ stake[p].state = "NONE" /\ clearance[p] = a
    /\ Price[p] <= Limit /\ Total(Committed(a) \cup {p}) <= Ceiling
    /\ Claims(p, a, "HELD")
    /\ clearance' = Without(p)
    /\ UNCHANGED <<life, sent>>

\* The debit goes out, and the answer may come with it.
Debit(p, answer) ==
    /\ stake[p].state = "HELD" /\ p \notin sent /\ clearance[p] = stake[p].of
    /\ sent' = sent \cup {p}
    /\ Claims(p, stake[p].of, answer)
    /\ Leaves(p)
    /\ UNCHANGED life

\* It was not known whether a debit that went out happened.
Learn(p, answer) ==
    /\ stake[p].state = "HELD" /\ p \in sent
    /\ Claims(p, stake[p].of, answer)
    /\ Leaves(p)
    /\ UNCHANGED <<life, sent>>

\* Debits that will not be sent.
GiveBack(S) ==
    /\ \A p \in S : stake[p].state = "HELD" /\ p \notin sent
    /\ stake' = [p \in Purchases |->
                  [of |-> stake[p].of, state |-> IF p \in S THEN "RELEASED" ELSE stake[p].state]]
    /\ clearance' \in {clearance} \cup {Without(p) : p \in S}
    /\ UNCHANGED <<life, sent>>

Next ==
    \/ \E S \in SUBSET Purchases : GiveBack(S)
    \/ \E a \in Permissions : Permit(a) \/ Expire(a) \/ Withdraw(a)
    \/ \E p \in Purchases, a \in Permissions : Ask(p, a) \/ Allot(p, a)
    \/ \E p \in Purchases : Leave(p)
    \/ \E p \in Purchases, answer \in Answers : Debit(p, answer) \/ Learn(p, answer)

Spec == Init /\ [][Next]_vars
=============================================================================
