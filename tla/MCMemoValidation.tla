------------------------- MODULE MCMemoValidation --------------------------
(***************************************************************************)
(* Checks validateMemoEntries against its reference definition on every    *)
(* batch of at most MaxBatch entries drawn from MemoEntries.               *)
(***************************************************************************)
EXTENDS MemoValidation, SequencesExt

CONSTANT MaxBatch   \* longest batch enumerated; above MaxMemoEntries

VARIABLE entries    \* the Memos field of one RegisterAccount message

Init == entries \in BoundedSeq(MemoEntries, MaxBatch)

\* The batch is fixed; every state is one input to the check.
Next == UNCHANGED entries

Spec == Init /\ [][Next]_entries

\* validateMemoEntries accepts a batch of initial memos exactly when the
\* batch has at most MaxMemoEntries entries, each with a valid denom and a
\* non-empty memo within MaxMemoLength, and no denom twice: the loop with
\* its early returns and its seen map decides the same as the rules.
ValidationMatchesReference ==
    (ValidateMemoEntries(entries) = "ok") <=> MemoBatchAcceptable(entries)

=============================================================================
