--------------------------- MODULE MCExpensesTab ---------------------------
(* Sunday 31 March 2024, the last day of its week and month, and the Sunday   *)
(* before: the ends of the current Period and of the previous one.            *)
EXTENDS ExpensesTab

Dates == 738945 .. 738976
Days == {738975}
Categories == <<"food", "other">>
Rates == [usd |-> 1, vnd |-> 3]
One == <<[amount |-> 10, category |-> "food", visibility |-> "private", date |-> 738968]>>
Texts == {<<"1", ".", "5">>, <<"0", ".", "0">>}
Symmetry == Permutations(Load) \cup Permutations(Req)

\* What the two sides of the wire rely on, over every text of a few characters and
\* every amount of a few digits.
ASSUME ClientPredictsServer(BoundedSeq({"0", "1", "5", ".", ","}, 5))
ASSUME PrefillParses(1 .. 999)

\* Either loads overlap, each read at one moment, or one load at a time is read
\* statement by statement.
VARIABLE overlap

CONSTANT MaxUnderWay    \* bound on the loads and requests under way together
UnderWay ==
    Cardinality({l \in Load : load[l] # NoLoad}) + Cardinality({q \in Req : req[q] # NoReq})

Reading == \E l \in Load : Begun(load[l]) /\ ~Complete(load[l])
InOrder(r) ==
    /\ r.currency # NotRead => r.list # NotRead
    /\ \A p \in Part : r.part[p] # NotRead => r.part[<<p[1], "current">>] # NotRead

MCInit == Init /\ preferred = "usd" /\ overlap \in BOOLEAN
MCNext ==
    /\ Next
    /\ overlap' = overlap
    /\ UnderWay' <= MaxUnderWay
    /\ IF overlap THEN /\ Reading => UNCHANGED <<server, device, req, switch>>
                       /\ \A l \in Load : InOrder(load'[l])
       ELSE Cardinality({l \in Load : load'[l] # NoLoad}) <= 1
MCSpec == MCInit /\ [][MCNext]_<<vars, overlap>>
=============================================================================
