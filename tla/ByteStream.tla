----------------------------- MODULE ByteStream -----------------------------
(***************************************************************************)
(* What a Conn promises the two programs that use it: the bytes Write      *)
(* accepted come out of the far Read in that order, and once the far Read  *)
(* has reported the end of the stream, or an error, nothing more comes.    *)
(* Bytes are named by their place in the stream, as in Conn.               *)
(***************************************************************************)
EXTENDS Naturals, Sequences

VARIABLES
    accepted,   \* how many bytes Write took
    delivered,  \* the bytes the far Read returned
    ended       \* the far Read has returned an error

streamVars == <<accepted, delivered, ended>>

Init ==
    /\ accepted = 0
    /\ delivered = <<>>
    /\ ended = FALSE

Accept ==
    /\ accepted' \in Nat
    /\ accepted' >= accepted
    /\ UNCHANGED <<delivered, ended>>

(* The first n bytes of the stream. *)
FirstBytes(n) == [i \in 1..n |-> i]

Deliver ==
    /\ ~ended
    /\ \E n \in Len(delivered)..accepted : delivered' = FirstBytes(n)
    /\ UNCHANGED <<accepted, ended>>

End ==
    /\ ~ended
    /\ ended' = TRUE
    /\ UNCHANGED <<accepted, delivered>>

Next == Accept \/ Deliver \/ End

Spec == Init /\ [][Next]_streamVars
=============================================================================
