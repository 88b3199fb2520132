------------------------------- MODULE MCCall -------------------------------
EXTENDS Call

MixedUp == {p \in Phones : phone[p].mixed # {}}
Ringing == {p \in Phones : phone[p].ringing # None}

\* At most two continuations wait at once, one phone rings at a time, and one
\* thing goes wrong: a fault, or a phone whose call gets mixed up.
Bounded ==
    /\ \A p, q \in Phones : p # q => Len(phone[p].waits) + Len(phone[q].waits) <= 2
    /\ Cardinality(Ringing) <= 1
    /\ \A p \in Ringing : phone[p].prompt = None
    /\ faults + Cardinality(MixedUp) <= 1
    /\ (\E p \in Phones : phone[p].auto) => faults = 0 /\ MixedUp = {}
=============================================================================
