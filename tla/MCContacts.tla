----------------------------- MODULE MCContacts -----------------------------
(* Model checking Contacts: two networks hand out one address, a third one *)
(* hands out another.                                                      *)
EXTENDS Contacts, TLC

CONSTANTS n1, n2, n3

MCLocal == n1 :> "a" @@ n2 :> "a" @@ n3 :> "b"

Symmetry == Permutations(Conns) \cup Permutations(Egresses)
=============================================================================
