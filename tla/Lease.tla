-------------------------------- MODULE Lease --------------------------------
(***************************************************************************)
(* What a lock with a time to live promises to those who take it, whatever *)
(* store keeps it: it is granted to one client at a time, for a term, and  *)
(* only its client or the end of the term takes it away.  A client that    *)
(* goes on beyond its term works without it.                               *)
(***************************************************************************)
EXTENDS Naturals

CONSTANTS
    Clients,
    Term            \* for how long the lease is granted

VARIABLE
    spent           \* what each client has used of its term, Term without a lease

Holds(c) == spent[c] < Term

LeaseInit == spent = [c \in Clients |-> Term]

Grant(c) ==
    /\ \A d \in Clients : ~Holds(d)
    /\ spent' = [spent EXCEPT ![c] = 0]

Return(c) ==
    /\ Holds(c)
    /\ spent' = [spent EXCEPT ![c] = Term]

Pass == spent' = [c \in Clients |-> IF Holds(c) THEN spent[c] + 1 ELSE spent[c]]

LeaseNext == Pass \/ \E c \in Clients : Grant(c) \/ Return(c)

LeaseSpec == LeaseInit /\ [][LeaseNext]_spent
=============================================================================
