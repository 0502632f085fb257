----------------------------- MODULE Selection -----------------------------
(***************************************************************************)
(* Keeping some elements of a vector, as `retain` and `filter` do.         *)
(* SelectSeq takes a test, which no prover can reason about; the places of *)
(* the elements that pass it are a set.                                    *)
(***************************************************************************)
LOCAL INSTANCE Integers
LOCAL INSTANCE Sequences

\* The elements of s at the places `at`, in their order.
Picked(s, at) ==
    LET upto[n \in 0 .. Len(s)] ==
            IF n = 0 THEN <<>>
            ELSE IF n \in at THEN Append(upto[n - 1], s[n]) ELSE upto[n - 1]
    IN  upto[Len(s)]
=============================================================================
