--------------------------- MODULE MemoValidation ---------------------------
(***************************************************************************)
(* The memo-entry rules of src/keeper/msg_server.go: the length of a memo  *)
(* string, the denom syntax check, and validateMemoEntries, the loop that  *)
(* accepts or rejects the initial memos of a RegisterAccount message and   *)
(* returns the first error it meets.                                       *)
(*                                                                         *)
(* Strings are abstracted: a denom is a model value (or "" or one that     *)
(* fails sdk.ValidateDenom), a memo is "" , one of a few short texts,      *)
(* EdgeMemos, exactly MaxMemoLength long, or LongMemo, one longer.         *)
(***************************************************************************)
EXTENDS Naturals, Sequences, FiniteSets

CONSTANTS
    MemoDenoms,      \* denoms that pass sdk.ValidateDenom
    InvalidDenom,    \* a non-empty string that fails sdk.ValidateDenom
    ShortMemos,      \* non-empty memo texts within MaxMemoLength
    EdgeMemos,       \* memo texts of exactly MaxMemoLength characters
    LongMemo,        \* a memo text of MaxMemoLength + 1 characters
    MaxMemoLength,   \* const MaxMemoLength = 1024
    MaxMemoEntries   \* const MaxMemoEntries = 10

ASSUME /\ MaxMemoLength \in Nat \ {0}
       /\ MaxMemoEntries \in Nat
       /\ "" \notin MemoDenoms \cup ShortMemos \cup {InvalidDenom, LongMemo}
       /\ InvalidDenom \notin MemoDenoms
       /\ LongMemo \notin ShortMemos \cup EdgeMemos
       /\ ShortMemos \cap EdgeMemos = {} /\ "" \notin EdgeMemos

\* The texts a memo field can hold; "" is the empty string.
MemoTexts == ShortMemos \cup EdgeMemos \cup {"", LongMemo}

\* len(msg.Memo): what the length checks of the code see of a memo.
MemoLength(m) == CASE m = ""           -> 0
                   [] m = LongMemo     -> MaxMemoLength + 1
                   [] m \in EdgeMemos  -> MaxMemoLength
                   [] OTHER            -> 1

\* sdk.ValidateDenom
ValidDenom(d) == d \in MemoDenoms

\* One types.MemoEntry of a RegisterAccount message.
MemoEntries == [denom : MemoDenoms \cup {"", InvalidDenom}, memo : MemoTexts]

\* Variant that rejects a memo of exactly MaxMemoLength characters.
MemoEntryErrorOffByOne(e, seen) ==
    CASE e.denom = ""                        -> "EmptyDenom"
      [] e.denom \in seen                    -> "DuplicateDenom"
      [] MemoLength(e.memo) = 0              -> "EmptyMemo"
      [] MemoLength(e.memo) >= MaxMemoLength -> "MemoTooLong"
      [] ~ValidDenom(e.denom)                -> "InvalidDenom"
      [] OTHER                               -> "ok"

\* The checks of the loop body of validateMemoEntries on one entry, in the
\* order the code makes them; seen holds the denoms of the earlier entries.
MemoEntryError(e, seen) ==
    CASE e.denom = ""                        -> "EmptyDenom"
      [] e.denom \in seen                    -> "DuplicateDenom"
      [] MemoLength(e.memo) = 0              -> "EmptyMemo"
      [] MemoLength(e.memo) > MaxMemoLength  -> "MemoTooLong"
      [] ~ValidDenom(e.denom)                -> "InvalidDenom"
      [] OTHER                               -> "ok"

\* The for loop of validateMemoEntries: the first error, or "ok".
RECURSIVE CheckEntries(_, _)
CheckEntries(es, seen) ==
    IF es = << >> THEN "ok"
    ELSE LET err == MemoEntryError(Head(es), seen)
         IN IF err # "ok" THEN err
            ELSE CheckEntries(Tail(es), seen \cup {Head(es).denom})

\* validateMemoEntries: the count bound first, then the loop.
ValidateMemoEntries(es) ==
    IF Len(es) > MaxMemoEntries THEN "TooManyMemos"
    ELSE CheckEntries(es, {})

\* Reference definition of an acceptable batch, from the rules as a set of
\* conditions rather than a loop (spec 4.3, setInitialMemos).
MemoBatchAcceptable(es) ==
    /\ Len(es) <= MaxMemoEntries
    /\ \A i \in DOMAIN es :
          /\ ValidDenom(es[i].denom)
          /\ MemoLength(es[i].memo) \in 1..MaxMemoLength
    /\ \A i, j \in DOMAIN es : i # j => es[i].denom # es[j].denom

=============================================================================
