--------------------------- MODULE MCForwarding -----------------------------
(***************************************************************************)
(* Instantiates Forwarding for TLC: model values for channels, recipients, *)
(* users and denoms come from the .cfg files; the memo batches offered to  *)
(* RegisterAccount are built here from the memo denoms and texts.          *)
(***************************************************************************)
EXTENDS Forwarding

MCFirstMemo == CHOOSE m \in ShortMemos : TRUE

\* No memos, one memo, and a batch that validateMemoEntries rejects.
MCMemoBatches ==
    {<< >>} \cup {<<[denom |-> d, memo |-> MCFirstMemo]>> : d \in MemoDenoms}
            \cup {<<[denom |-> d, memo |-> ""]>> : d \in MemoDenoms}

\* The address registered without a fallback is one a key holder can sign for.
MCKeyedAddresses == {a \in Addrs : a.fallback = NoFallback}

\* The address with a fallback is one at which someone can create a
\* vesting account.
MCOtherAccountAddresses == {a \in Addrs : a.fallback # NoFallback}

\* Chained forwarding: the fallbacks are derived addresses without a
\* fallback of their own, so clearing an account to its fallback credits
\* another forwarding account.
MCChainedFallbacks == {GenerateAddress(c, r, NoFallback) : c \in Channels, r \in Recipients}

=============================================================================
