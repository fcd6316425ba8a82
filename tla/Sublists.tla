------------------------------ MODULE Sublists ------------------------------
(***************************************************************************)
(* What is left of an ordered collection when some of it is removed.       *)
(***************************************************************************)
EXTENDS SequencesExt

\* The elements of s that are in S, in their order.
Only(s, S) == FlattenSeq([i \in DOMAIN s |-> IF s[i] \in S THEN <<s[i]>> ELSE <<>>])
=============================================================================
