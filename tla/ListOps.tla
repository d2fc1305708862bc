------------------------------- MODULE ListOps -------------------------------
(***************************************************************************)
(* Operators on lists that several components use.  A loop over a list is  *)
(* written as a recursive function over its places.                        *)
(***************************************************************************)
EXTENDS Integers, FiniteSets, SequencesExt

\* What a loop that unlinks every entry of a set leaves of the list, in its order.
Without(seq, out) ==
    LET rest[i \in 0 .. Len(seq)] ==
            IF i = 0 THEN <<>>
            ELSE IF seq[i] \in out THEN rest[i - 1]
            ELSE Append(rest[i - 1], seq[i])
    IN rest[Len(seq)]

\* How many times an entry is on a list.
Times(seq, e) == Cardinality({i \in DOMAIN seq : seq[i] = e})
=============================================================================
