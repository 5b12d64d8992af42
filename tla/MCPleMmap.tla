----------------------------- MODULE MCPleMmap -----------------------------
(* Lookups for PleMmap: every set of ids, sorted, and some with repetitions *)
(* and out of order.                                                        *)
EXTENDS PleMmap, SequencesExt

MCInputs ==
    {SetToSortSeq(S, <) : S \in SUBSET Id}
        \cup {<<3, 1, 3>>, <<4, 0>>, <<2, 4, 2, 1>>}
=============================================================================
