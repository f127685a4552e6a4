----------------------------- MODULE Forwarding -----------------------------
(***************************************************************************)
(* The forwarding keeper of initia-labs/forwarding, block by block:        *)
(*   - the message handlers of src/keeper/msg_server.go (RegisterAccount,  *)
(*     ClearAccount, SetAllowedDenoms, SetMemo),                           *)
(*   - the bank send hook SendRestrictionFn and the end-block sweep        *)
(*     ExecuteForwards of src/x/forwarding/keeper/keeper.go,               *)
(*   - the transient PendingForwards store, discarded at every commit.     *)
(* Around them, the collaborators the keeper calls: the bank (balances,    *)
(* account creation on first credit), the IBC channel registry and the     *)
(* ICS-20 transfer keeper, whose Transfer may fail.                        *)
(*                                                                         *)
(* A failing message handler returns an error and the SDK discards all of  *)
(* its writes (the transaction runs on a cached store), so every error     *)
(* path is a step that changes nothing: it is the conjunct that disables   *)
(* the action.                                                             *)
(***************************************************************************)
EXTENDS Naturals, FiniteSets, FiniteSetsExt, MemoValidation

CONSTANTS
    Channels,         \* channel ids on the transfer port (all syntactically valid)
    Recipients,       \* recipient strings on the counterparty chain
    Fallbacks,        \* local addresses usable as a fallback
    NoFallback,       \* the empty fallback string ""
    Users,            \* local key-holding accounts (fallbacks, the authority, signers)
    Authority,        \* k.authority
    Denoms,           \* bank denominations
    InitialAllowedDenoms,
    KeyedAddresses,   \* derived addresses at which someone holds a signing key
    InitialMemoBatches, \* Memos fields offered to RegisterAccount
    TransfersMayFail, \* whether the transfer keeper can reject a forward
    FailsAfterEscrow, \* whether a rejected Transfer may have escrowed the tokens first
    OtherAccountAddresses, \* derived addresses at which someone can create another account type
    Restartable,      \* whether the chain may be restarted from exported genesis
    LateCredits,      \* whether an end blocker ordered after forwarding credits accounts
    MaxSends,         \* bound on incoming bank credits over the whole run
    MaxBlocks         \* bound on committed blocks

ASSUME /\ Authority \in Users
       /\ InitialAllowedDenoms \subseteq Denoms
       /\ TransfersMayFail \in BOOLEAN
       /\ MaxSends \in Nat /\ MaxBlocks \in Nat \ {0}

(***************************************************************************)
(* types.GenerateAddress hashes (channel, recipient, fallback); the hash   *)
(* is taken to be collision free, so the address is modelled by the triple *)
(* itself and two different triples always give two different addresses.   *)
(***************************************************************************)
GenerateAddress(channel, recipient, fallback) ==
    [channel |-> channel, recipient |-> recipient, fallback |-> fallback]

Addrs == {GenerateAddress(c, r, f) : c \in Channels, r \in Recipients,
                                     f \in Fallbacks \cup {NoFallback}}

\* A fallback is a user's address or, for chained forwarding, a derived
\* address without a fallback of its own.
ASSUME /\ Fallbacks \subseteq Users \cup Addrs
       /\ KeyedAddresses \cup OtherAccountAddresses \subseteq Addrs
       /\ Restartable \in BOOLEAN /\ LateCredits \in BOOLEAN
       /\ FailsAfterEscrow \in BOOLEAN

(***************************************************************************)
(* An account of x/auth at a derived address.  kind is the concrete type:  *)
(* "none" (no account), "base" (a BaseAccount), "forwarding" (a            *)
(* ForwardingAccount) or "other".  pubKey is nil, the sentinel             *)
(* ForwardingPubKey{Key: address}, or a user's key.  A ForwardingAccount's *)
(* Channel, Recipient and Fallback are those of its address triple.        *)
(***************************************************************************)
AccountKinds == {"none", "base", "forwarding", "other"}
PubKeys == {"nil", "sentinel", "user"}
NoAccount == [kind |-> "none", pubKey |-> "nil", seq |-> 0]

VARIABLES
    accounts,        \* derived address -> account record
    balances,        \* address (derived or user) -> denom -> amount
    channelState,    \* channel -> "OPEN" | "CLOSED"
    allowedDenoms,   \* k.AllowedDenoms
    numOfAccounts,   \* k.NumOfAccounts
    numOfForwards,   \* k.NumOfForwards
    totalForwarded,  \* k.TotalForwarded, per channel and denom
    memos,           \* k.Memos: address -> denom -> memo ("" when absent)
    pendingForwards, \* k.PendingForwards (transient store): set of addresses
    outbox,          \* transfers the transfer keeper accepted
    inflight,        \* accepted transfers whose packet is not yet acknowledged or timed out
    delivered,       \* accepted transfers acknowledged with success
    escrowStuck,     \* rejected transfers whose tokens stayed in escrow
    phase,           \* "txs" while messages run, "ended" after EndBlock
    height,          \* block height
    sends,           \* incoming credits so far (bounded by MaxSends)
    credited,        \* history: forwarding accounts credited in this block
    upgradedFunded,  \* history: accounts upgraded in this block holding an allowed-denom balance
    clearQueued,     \* history: accounts queued by ClearAccount in this block
    failedForwards   \* history: account-denom pairs whose transfer was rejected in this block

vars == <<accounts, balances, channelState, allowedDenoms, numOfAccounts,
          numOfForwards, totalForwarded, memos, pendingForwards, outbox,
          inflight, delivered, escrowStuck, phase, height, sends, credited, upgradedFunded, clearQueued,
          failedForwards>>

Holders == Addrs \cup Users

IsForwarding(a) == accounts[a].kind = "forwarding"

ChannelOpen(c) == channelState[c] = "OPEN"

Transfers == [sender : Addrs, channel : Channels, receiver : Recipients,
              denom : Denoms, amount : Nat, height : Nat]

TypeOK ==
    /\ accounts \in [Addrs -> [kind : AccountKinds, pubKey : PubKeys, seq : 0..1]]
    /\ balances \in [Holders -> [Denoms -> 0..MaxSends]]
    /\ channelState \in [Channels -> {"OPEN", "CLOSED"}]
    /\ allowedDenoms \subseteq Denoms
    /\ numOfAccounts \in [Channels -> Nat]
    /\ numOfForwards \in [Channels -> Nat]
    /\ totalForwarded \in [Channels -> [Denoms -> Nat]]
    /\ memos \in [Addrs -> [MemoDenoms -> MemoTexts]]
    /\ pendingForwards \subseteq Addrs
    /\ outbox \subseteq Transfers
    /\ inflight \subseteq outbox
    /\ delivered \subseteq outbox
    /\ escrowStuck \subseteq Transfers
    /\ phase \in {"txs", "ended"}
    /\ height \in 1..MaxBlocks
    /\ sends \in 0..MaxSends
    /\ credited \cup upgradedFunded \cup clearQueued \subseteq Addrs
    /\ failedForwards \subseteq Addrs \X Denoms

Init ==
    /\ accounts = [a \in Addrs |-> NoAccount]
    /\ balances = [h \in Holders |-> [d \in Denoms |-> 0]]
    /\ channelState = [c \in Channels |-> "OPEN"]
    /\ allowedDenoms = InitialAllowedDenoms
    /\ numOfAccounts = [c \in Channels |-> 0]
    /\ numOfForwards = [c \in Channels |-> 0]
    /\ totalForwarded = [c \in Channels |-> [d \in Denoms |-> 0]]
    /\ memos = [a \in Addrs |-> [d \in MemoDenoms |-> ""]]
    /\ pendingForwards = {}
    /\ outbox = {}
    /\ inflight = {}
    /\ delivered = {}
    /\ escrowStuck = {}
    /\ phase = "txs"
    /\ height = 1
    /\ sends = 0
    /\ credited = {} /\ upgradedFunded = {} /\ clearQueued = {}
    /\ failedForwards = {}

-----------------------------------------------------------------------------
(***************************************************************************)
(* Helpers of the keeper.                                                  *)
(***************************************************************************)

\* Variant of ValidateAccountFields that accepts any non-nil key in place of
\* the sentinel (pubKey != nil without the Equals check).
ValidateAccountFieldsAnyKey(acc) ==
    \/ acc.pubKey = "nil" /\ acc.seq = 0
    \/ acc.pubKey # "nil"

\* ValidateAccountFields: a new account (nil key, sequence 0) or one whose
\* key is the sentinel ForwardingPubKey of this very address.
ValidateAccountFields(acc) ==
    \/ acc.pubKey = "nil" /\ acc.seq = 0
    \/ acc.pubKey = "sentinel"

\* The type switch: only a *authtypes.BaseAccount is upgraded; an existing
\* ForwardingAccount ("already registered") or any other type is refused.
\* Variant: an existing ForwardingAccount takes the upgrade path as well.
UpgradableKindReregister(kind) == kind \in {"base", "forwarding"}

UpgradableKind(kind) == kind = "base"

\* Variant with the zero test inverted (balance.IsZero() for !IsZero()).
QueueIfFundedInverted(pending, a, bal) ==
    IF \E d \in allowedDenoms : bal[a][d] = 0 THEN pending \cup {a} ELSE pending

\* The loop after the upgrade: queue the account when it holds a non-zero
\* balance in some allowed denom (the break ends the loop at the first one).
QueueIfFunded(pending, a, bal) ==
    IF \E d \in allowedDenoms : bal[a][d] > 0 THEN pending \cup {a} ELSE pending

\* SetMemo's lookup: GetAccount is not nil and is a ForwardingAccount.
\* Its variant keeps the nil check and drops the type assertion.
MemoTargetAnyAccount(a) == accounts[a].kind # "none"

MemoTarget(a) == IsForwarding(a)

\* setInitialMemos after validateMemoEntries accepted the batch.
SetInitialMemos(ms, a, es) ==
    [ms EXCEPT ![a] = [d \in MemoDenoms |->
        IF \E i \in DOMAIN es : es[i].denom = d
        THEN es[CHOOSE i \in DOMAIN es : es[i].denom = d].memo
        ELSE ms[a][d]]]

\* setInitialMemos succeeds: no entries, or validateMemoEntries accepts them.
InitialMemosAccepted(es) == es = << >> \/ ValidateMemoEntries(es) = "ok"

\* The accounts after a bank credit to h: x/bank creates a BaseAccount at
\* a derived address that has no account yet.
CreatedOnCredit(h) ==
    IF h \in Addrs /\ accounts[h].kind = "none"
    THEN [accounts EXCEPT ![h] = [kind |-> "base", pubKey |-> "nil", seq |-> 0]]
    ELSE accounts

\* SendRestrictionFn: a credit to a forwarding account queues it.
SendRestrictionFn(pending, to) ==
    IF to \in Addrs /\ IsForwarding(to) THEN pending \cup {to} ELSE pending

\* The sum of the allowed-denom balances ClearAccount collects.
AllowedBalance(a) == MapThenSumSet(LAMBDA d : balances[a][d], allowedDenoms)

-----------------------------------------------------------------------------
(***************************************************************************)
(* Message handlers.                                                       *)
(***************************************************************************)

\* RegisterAccount for (c, r, f) with initial memos es, on the path where
\* an account already exists at the derived address and is upgraded in
\* place.
RegisterExistingAccount(c, r, f, es) ==
    LET a == GenerateAddress(c, r, f) IN
    /\ phase = "txs"
    /\ ChannelOpen(c)
    /\ accounts[a].kind # "none"
    /\ ValidateAccountFields(accounts[a])
    /\ UpgradableKind(accounts[a].kind)
    /\ InitialMemosAccepted(es)
    /\ accounts' = [accounts EXCEPT ![a].kind = "forwarding"]
    /\ numOfAccounts' = [numOfAccounts EXCEPT ![c] = @ + 1]
    /\ pendingForwards' = QueueIfFunded(pendingForwards, a, balances)
    /\ memos' = SetInitialMemos(memos, a, es)
    /\ upgradedFunded' = IF \E d \in allowedDenoms : balances[a][d] > 0
                         THEN upgradedFunded \cup {a} ELSE upgradedFunded
    /\ UNCHANGED <<balances, channelState, allowedDenoms, numOfForwards,
                   totalForwarded, outbox, inflight, delivered, escrowStuck, phase, height, sends, credited,
                   clearQueued, failedForwards>>

\* RegisterAccount on the path where no account exists yet: a new base
\* account is created and stored as a ForwardingAccount straight away.
RegisterNewAccount(c, r, f, es) ==
    LET a == GenerateAddress(c, r, f) IN
    /\ phase = "txs"
    /\ ChannelOpen(c)
    /\ accounts[a].kind = "none"
    /\ InitialMemosAccepted(es)
    /\ accounts' = [accounts EXCEPT ![a] = [kind |-> "forwarding", pubKey |-> "nil", seq |-> 0]]
    /\ numOfAccounts' = [numOfAccounts EXCEPT ![c] = @ + 1]
    /\ memos' = SetInitialMemos(memos, a, es)
    /\ UNCHANGED <<balances, channelState, allowedDenoms, numOfForwards,
                   totalForwarded, pendingForwards, outbox, inflight, delivered, escrowStuck, phase, height,
                   sends, credited, upgradedFunded, clearQueued, failedForwards>>

RegisterAccount(c, r, f, es) ==
    \/ RegisterExistingAccount(c, r, f, es)
    \/ RegisterNewAccount(c, r, f, es)

\* Variant whose fallback send bypasses the bank's send restrictions.
ClearAccountNoHook(a, useFallback) ==
    /\ phase = "txs"
    /\ IsForwarding(a)
    /\ AllowedBalance(a) # 0
    /\ IF ~useFallback \/ a.fallback = NoFallback
       THEN /\ pendingForwards' = pendingForwards \cup {a}
            /\ clearQueued' = clearQueued \cup {a}
            /\ UNCHANGED <<balances, accounts, credited>>
       ELSE /\ balances' = [balances EXCEPT
                  ![a] = [d \in Denoms |-> IF d \in allowedDenoms THEN 0 ELSE @[d]],
                  ![a.fallback] = [d \in Denoms |->
                      IF d \in allowedDenoms THEN @[d] + balances[a][d] ELSE @[d]]]
            /\ UNCHANGED pendingForwards
            /\ accounts' = CreatedOnCredit(a.fallback)
            /\ credited' = IF a.fallback \in Addrs /\ IsForwarding(a.fallback)
                           THEN credited \cup {a.fallback} ELSE credited
            /\ UNCHANGED <<clearQueued>>
    /\ UNCHANGED <<channelState, allowedDenoms, numOfAccounts,
                   numOfForwards, totalForwarded, memos, outbox, inflight, delivered, escrowStuck, phase, height,
                   sends, upgradedFunded, failedForwards>>

\* ClearAccount(address, useFallback): queue the account for the sweep, or
\* send its allowed-denom balances to the fallback at once.
ClearAccount(a, useFallback) ==
    /\ phase = "txs"
    /\ IsForwarding(a)
    /\ AllowedBalance(a) # 0
    /\ IF ~useFallback \/ a.fallback = NoFallback
       THEN /\ pendingForwards' = pendingForwards \cup {a}
            /\ clearQueued' = clearQueued \cup {a}
            /\ UNCHANGED <<balances, accounts, credited>>
       ELSE /\ balances' = [balances EXCEPT
                  ![a] = [d \in Denoms |-> IF d \in allowedDenoms THEN 0 ELSE @[d]],
                  ![a.fallback] = [d \in Denoms |->
                      IF d \in allowedDenoms THEN @[d] + balances[a][d] ELSE @[d]]]
            \* the bank send to the fallback runs SendRestrictionFn on it and
            \* creates a missing account there
            /\ pendingForwards' = SendRestrictionFn(pendingForwards, a.fallback)
            /\ accounts' = CreatedOnCredit(a.fallback)
            /\ credited' = IF a.fallback \in Addrs /\ IsForwarding(a.fallback)
                           THEN credited \cup {a.fallback} ELSE credited
            /\ UNCHANGED <<clearQueued>>
    /\ UNCHANGED <<channelState, allowedDenoms, numOfAccounts,
                   numOfForwards, totalForwarded, memos, outbox, inflight, delivered, escrowStuck, phase, height,
                   sends, upgradedFunded, failedForwards>>

\* SetAllowedDenoms by signer with a list of denoms; ValidateAllowedDenoms
\* (non-empty, no duplicates) makes the accepted lists the non-empty sets.
SetAllowedDenoms(signer, ds) ==
    /\ phase = "txs"
    /\ signer = Authority
    /\ ds # {}
    /\ allowedDenoms' = ds
    /\ UNCHANGED <<accounts, balances, channelState, numOfAccounts,
                   numOfForwards, totalForwarded, memos, pendingForwards,
                   outbox, inflight, delivered, escrowStuck, phase, height, sends, credited, upgradedFunded,
                   clearQueued, failedForwards>>

\* SetMemo for the account derived from (c, r, f): an empty memo deletes
\* the entry, a memo over MaxMemoLength is rejected, any other is stored.
SetMemo(signer, c, r, f, d, m) ==
    LET a == GenerateAddress(c, r, f) IN
    /\ phase = "txs"
    /\ ValidDenom(d)
    /\ MemoTarget(a)
    /\ signer \in {r, f, Authority}
    /\ MemoLength(m) <= MaxMemoLength
    /\ memos' = [memos EXCEPT ![a][d] = m]
    /\ UNCHANGED <<accounts, balances, channelState, allowedDenoms,
                   numOfAccounts, numOfForwards, totalForwarded,
                   pendingForwards, outbox, inflight, delivered, escrowStuck, phase, height, sends, credited,
                   upgradedFunded, clearQueued, failedForwards>>

-----------------------------------------------------------------------------
(***************************************************************************)
(* Block hooks.                                                            *)
(***************************************************************************)

\* Variant that stops the loop at the first queued account whose channel
\* is not open (break instead of continue).
ForwardAttemptsStopAtClosed(pending) ==
    IF \E a \in pending : ~ChannelOpen(a.channel) THEN {}
    ELSE {<<a, d>> \in pending \X Denoms : balances[a][d] > 0}

\* The forwards ExecuteForwards attempts: every balance of every queued
\* account whose channel is open (an account on a channel that is not open
\* is skipped with continue).
ForwardAttempts(pending) ==
    {<<a, d>> \in pending \X Denoms : ChannelOpen(a.channel) /\ balances[a][d] > 0}

\* Variant that increments the counters whether or not Transfer failed.
CountForwardsOnError(done, failed) ==
    [nof |-> [c \in Channels |->
                 numOfForwards[c] + Cardinality({t \in done \cup failed : t[1].channel = c})],
     total |-> [c \in Channels |-> [d \in Denoms |->
                 totalForwarded[c][d]
                 + MapThenSumSet(LAMBDA t : balances[t[1]][d],
                                 {t \in done \cup failed : t[1].channel = c /\ t[2] = d})]]]

\* The counters after the transfers in done were accepted and the ones in
\* failed were rejected: IncrementNumOfForwards and IncrementTotalForwarded
\* run in the else branch, on success only.
CountForwards(done, failed) ==
    [nof |-> [c \in Channels |->
                 numOfForwards[c] + Cardinality({t \in done : t[1].channel = c})],
     total |-> [c \in Channels |-> [d \in Denoms |->
                 totalForwarded[c][d]
                 + MapThenSumSet(LAMBDA t : balances[t[1]][d],
                                 {t \in done : t[1].channel = c /\ t[2] = d})]]]

\* Variant that addresses the transfer to the fallback, not the recipient.
ForwardTransferToFallback(t) ==
    [sender |-> t[1], channel |-> t[1].channel, receiver |-> t[1].fallback,
     denom |-> t[2], amount |-> balances[t[1]][t[2]], height |-> height]

\* The MsgTransfer ExecuteForwards builds for balance t[2] of account t[1]:
\* from the account, on its channel, to its recipient, for the whole balance.
ForwardTransfer(t) ==
    [sender |-> t[1], channel |-> t[1].channel, receiver |-> t[1].recipient,
     denom |-> t[2], amount |-> balances[t[1]][t[2]], height |-> height]

\* Variant that ends an account's balance loop at its first rejected
\* transfer (break instead of logging and going on).
ForwardedBreakOnError(attempts, failed) ==
    {t \in attempts \ failed : ~\E u \in failed : u[1] = t[1]}

\* The transfers of the balance loop that the transfer keeper accepted: a
\* rejected one is only logged, and the loop goes on with the account's
\* next balance.
Forwarded(attempts, failed) == attempts \ failed

\* ExecuteForwards, the end-block hook: one Transfer per balance of each
\* queued account; the transfer keeper may reject any of them, and a
\* rejected forward is only logged.  Transfer runs on the EndBlock context
\* itself, not on a cache context, so a Transfer that fails after its
\* escrow step (in SendPacket) keeps the escrow: those tokens leave the
\* account with no packet sent.
ExecuteForwards ==
    /\ phase = "txs"
    /\ LET attempts == ForwardAttempts(pendingForwards) IN
       \E failed \in (IF TransfersMayFail THEN SUBSET attempts ELSE {{}}) :
       \E stuck \in (IF FailsAfterEscrow THEN SUBSET failed ELSE {{}}) :
         LET done == Forwarded(attempts, failed)
             counted == CountForwards(done, failed)
         IN
         /\ balances' = [h \in Holders |-> [d \in Denoms |->
                            IF <<h, d>> \in done \cup stuck THEN 0 ELSE balances[h][d]]]
         /\ outbox' = outbox \cup {ForwardTransfer(t) : t \in done}
         /\ inflight' = inflight \cup {ForwardTransfer(t) : t \in done}
         /\ escrowStuck' = escrowStuck \cup {ForwardTransfer(t) : t \in stuck}
         /\ numOfForwards' = counted.nof
         /\ totalForwarded' = counted.total
         /\ failedForwards' = failed
    /\ phase' = "ended"
    /\ UNCHANGED <<accounts, channelState, allowedDenoms, numOfAccounts, memos,
                   pendingForwards, delivered, height, sends, credited, upgradedFunded,
                   clearQueued>>

\* The block boundary: the next block starts and the transient store, with
\* it PendingForwards, is discarded.
NextBlock ==
    /\ phase = "ended"
    /\ height < MaxBlocks
    /\ height' = height + 1
    /\ phase' = "txs"
    /\ pendingForwards' = {}
    /\ credited' = {} /\ upgradedFunded' = {} /\ clearQueued' = {}
    /\ failedForwards' = {}

Commit ==
    /\ NextBlock
    /\ UNCHANGED <<accounts, balances, channelState, allowedDenoms,
                   numOfAccounts, numOfForwards, totalForwarded, memos,
                   outbox, inflight, delivered, escrowStuck, sends>>

\* ExportGenesis: the three counter maps as GetAllNumOfAccounts,
\* GetAllNumOfForwards and GetAllTotalForwarded return them, one entry per
\* channel the store holds a counter for.
ExportGenesis ==
    [numOfAccounts  |-> [c \in {c \in Channels : numOfAccounts[c] # 0} |-> numOfAccounts[c]],
     numOfForwards  |-> [c \in {c \in Channels : numOfForwards[c] # 0} |-> numOfForwards[c]],
     totalForwarded |-> [c \in {c \in Channels : \E d \in Denoms : totalForwarded[c][d] # 0}
                            |-> totalForwarded[c]]]

\* The value of a store map after the InitGenesis loop over the entries of
\* a genesis map, on a fresh store where a missing key reads as zero.
Imported(g, zero) == [c \in Channels |-> IF c \in DOMAIN g THEN g[c] ELSE zero]

\* Variant of InitGenesis without its third loop (TotalForwarded).
InitGenesisSkipsTotals(g) ==
    [numOfAccounts  |-> Imported(g.numOfAccounts, 0),
     numOfForwards  |-> Imported(g.numOfForwards, 0),
     totalForwarded |-> [c \in Channels |-> [d \in Denoms |-> 0]]]

\* InitGenesis: the three loops that set each counter from the genesis
\* state.
InitGenesis(g) ==
    [numOfAccounts  |-> Imported(g.numOfAccounts, 0),
     numOfForwards  |-> Imported(g.numOfForwards, 0),
     totalForwarded |-> Imported(g.totalForwarded, [d \in Denoms |-> 0])]

(***************************************************************************)
(* The chain is stopped after a block, its state exported, and a new chain *)
(* started from it: x/auth, x/bank and IBC carry accounts, balances,       *)
(* channels and packets over, and the keeper's ExportGenesis and           *)
(* InitGenesis carry its three counters.  The keeper of genesis.go has no  *)
(* memos or allowed denoms; the export of the stores that hold them is not *)
(* under src/, so they are carried over unchanged and a restart is checked *)
(* for the counters only.  The transient queue is dropped.                 *)
(***************************************************************************)
GenesisRestart ==
    /\ Restartable
    /\ NextBlock
    /\ LET k == InitGenesis(ExportGenesis) IN
       /\ numOfAccounts' = k.numOfAccounts
       /\ numOfForwards' = k.numOfForwards
       /\ totalForwarded' = k.totalForwarded
    /\ UNCHANGED <<accounts, balances, channelState, allowedDenoms, memos,
                   outbox, inflight, delivered, escrowStuck, sends>>

-----------------------------------------------------------------------------
(***************************************************************************)
(* The environment: the bank, the ante handler and IBC.                    *)
(***************************************************************************)

\* A bank credit of one unit of d to a derived address (an ICS-20 receive or
\* a MsgSend): SendRestrictionFn runs first, then the coins are added and a
\* missing recipient account is created as a fresh BaseAccount.
\* One unit of denom d is credited to a by a bank send from outside.
Credit(a, d) ==
    /\ sends < MaxSends
    /\ sends' = sends + 1
    /\ pendingForwards' = SendRestrictionFn(pendingForwards, a)
    /\ balances' = [balances EXCEPT ![a][d] = @ + 1]
    /\ accounts' = CreatedOnCredit(a)
    /\ credited' = IF IsForwarding(a) THEN credited \cup {a} ELSE credited
    /\ UNCHANGED <<channelState, allowedDenoms, numOfAccounts, numOfForwards,
                   totalForwarded, memos, outbox, inflight, delivered, escrowStuck, phase, height,
                   upgradedFunded, clearQueued, failedForwards>>

Receive(a, d) == phase = "txs" /\ Credit(a, d)

\* A credit made by an end blocker that the application orders after this
\* module's: it runs after ExecuteForwards, in the same block.
LateReceive(a, d) == LateCredits /\ phase = "ended" /\ Credit(a, d)

\* A transaction signed with a real key for a derived address (the threat
\* ValidateAccountFields defends against): the ante handler sets the key
\* and bumps the sequence.
SignWithKey(a) ==
    /\ phase = "txs"
    /\ a \in KeyedAddresses
    /\ accounts[a].kind = "base" /\ accounts[a].pubKey = "nil"
    /\ accounts' = [accounts EXCEPT ![a].pubKey = "user", ![a].seq = 1]
    /\ UNCHANGED <<balances, channelState, allowedDenoms, numOfAccounts,
                   numOfForwards, totalForwarded, memos, pendingForwards,
                   outbox, inflight, delivered, escrowStuck, phase, height, sends, credited, upgradedFunded,
                   clearQueued, failedForwards>>

\* A signerless transaction for a derived address: the ante handler sets
\* the sentinel ForwardingPubKey and bumps the sequence.
SignerlessAnte(a) ==
    /\ phase = "txs"
    /\ accounts[a].kind = "base" /\ accounts[a].pubKey = "nil"
    /\ accounts' = [accounts EXCEPT ![a].pubKey = "sentinel", ![a].seq = 1]
    /\ UNCHANGED <<balances, channelState, allowedDenoms, numOfAccounts,
                   numOfForwards, totalForwarded, memos, pendingForwards,
                   outbox, inflight, delivered, escrowStuck, phase, height, sends, credited, upgradedFunded,
                   clearQueued, failedForwards>>

\* The channel is closed by the IBC core.
CloseChannel(c) ==
    /\ phase = "txs"
    /\ ChannelOpen(c)
    /\ channelState' = [channelState EXCEPT ![c] = "CLOSED"]
    /\ UNCHANGED <<accounts, balances, allowedDenoms, numOfAccounts,
                   numOfForwards, totalForwarded, memos, pendingForwards,
                   outbox, inflight, delivered, escrowStuck, phase, height, sends, credited, upgradedFunded,
                   clearQueued, failedForwards>>

\* The packet of an accepted forward is acknowledged, or fails (an error
\* acknowledgement or a timeout, relayed in a later block): the transfer
\* module then refunds the amount to the forwarding account with a bank
\* send, which runs SendRestrictionFn on it.
AcknowledgePacket(t, success) ==
    /\ phase = "txs"
    /\ t \in inflight
    /\ t.height < height
    /\ inflight' = inflight \ {t}
    /\ IF success
       THEN /\ delivered' = delivered \cup {t}
            /\ UNCHANGED <<balances, pendingForwards, credited, escrowStuck>>
       ELSE /\ UNCHANGED <<delivered, escrowStuck>>
            /\ balances' = [balances EXCEPT ![t.sender][t.denom] = @ + t.amount]
            /\ pendingForwards' = SendRestrictionFn(pendingForwards, t.sender)
            /\ credited' = IF IsForwarding(t.sender) THEN credited \cup {t.sender}
                           ELSE credited
    /\ UNCHANGED <<accounts, channelState, allowedDenoms, numOfAccounts,
                   numOfForwards, totalForwarded, memos, outbox, phase, height,
                   sends, upgradedFunded, clearQueued, failedForwards>>

\* An account of another type (a vesting account, which anyone may create
\* at an unused address) is created at a derived address.
CreateOtherAccount(a) ==
    /\ phase = "txs"
    /\ a \in OtherAccountAddresses
    /\ accounts[a].kind = "none"
    /\ accounts' = [accounts EXCEPT ![a] = [kind |-> "other", pubKey |-> "nil", seq |-> 0]]
    /\ UNCHANGED <<balances, channelState, allowedDenoms, numOfAccounts,
                   numOfForwards, totalForwarded, memos, pendingForwards,
                   outbox, inflight, delivered, escrowStuck, phase, height, sends, credited,
                   upgradedFunded, clearQueued, failedForwards>>

\* The last block of the run has ended.
Terminated == phase = "ended" /\ height = MaxBlocks /\ UNCHANGED vars

Signers == Users \cup Recipients

Next ==
    \/ \E c \in Channels, r \in Recipients, f \in Fallbacks \cup {NoFallback},
          es \in InitialMemoBatches : RegisterAccount(c, r, f, es)
    \/ \E a \in Addrs, useFallback \in BOOLEAN : ClearAccount(a, useFallback)
    \/ \E s \in Signers, ds \in SUBSET Denoms : SetAllowedDenoms(s, ds)
    \/ \E s \in Signers, c \in Channels, r \in Recipients,
          f \in Fallbacks \cup {NoFallback}, d \in MemoDenoms, m \in MemoTexts :
          SetMemo(s, c, r, f, d, m)
    \/ ExecuteForwards
    \/ Commit
    \/ GenesisRestart
    \/ \E a \in Addrs, d \in Denoms : Receive(a, d)
    \/ \E a \in Addrs, d \in Denoms : LateReceive(a, d)
    \/ \E a \in Addrs : SignWithKey(a) \/ SignerlessAnte(a)
    \/ \E c \in Channels : CloseChannel(c)
    \/ \E t \in inflight, success \in BOOLEAN : AcknowledgePacket(t, success)
    \/ \E a \in Addrs : CreateOtherAccount(a)
    \/ Terminated

Spec == Init /\ [][Next]_vars

\* Every block ends and is committed: the consensus engine calls EndBlock,
\* and with it ExecuteForwards, once in every block it produces, and then
\* commits it, however many transactions the block holds.
FairSpec == Spec /\ WF_vars(ExecuteForwards) /\ WF_vars(Commit)

-----------------------------------------------------------------------------
(***************************************************************************)
(* Properties.                                                             *)
(***************************************************************************)

\* At the end of a block, every account that had to be swept in it holds
\* nothing, unless its channel is not open, except the balances whose own
\* transfer the transfer keeper rejected: a rejected forward must not keep
\* the account's other balances back.  The accounts are a forwarding
\* account credited through the bank (SendRestrictionFn), one upgraded by
\* RegisterAccount while holding funds that arrived before registration,
\* and one queued by ClearAccount.  Breaking it takes a queue signal lost
\* between a handler or the hook and ExecuteForwards, or a balance loop
\* that gives up on an account at its first error.
FundsForwardedAtEndBlock ==
    phase = "ended" =>
        \A a \in credited \cup upgradedFunded \cup clearQueued, d \in Denoms :
            (ChannelOpen(a.channel) /\ <<a, d>> \notin failedForwards) =>
                balances[a][d] = 0

\* No forwarding account carries a real signing key: RegisterAccount never
\* turns an address that somebody has already used with a key into a
\* forwarding target (ValidateAccountFields), whatever credits, signed
\* transactions and registrations came before.
NoKeyedForwardingAccount ==
    \A a \in Addrs : IsForwarding(a) => accounts[a].pubKey # "user"

\* NumOfAccounts counts, per channel, exactly the forwarding accounts on
\* that channel: each address is upgraded or created once, on whichever of
\* the two registration paths it takes.
AccountCountMatches ==
    \A c \in Channels :
        numOfAccounts[c] = Cardinality({a \in Addrs : IsForwarding(a) /\ a.channel = c})

\* NumOfForwards and TotalForwarded agree with the transfers the transfer
\* keeper actually accepted on each channel, rejected forwards included in
\* neither.
ForwardCountersMatchOutbox ==
    \A c \in Channels :
        /\ numOfForwards[c] = Cardinality({t \in outbox : t.channel = c})
        /\ \A d \in Denoms :
              totalForwarded[c][d] =
                  MapThenSumSet(LAMBDA t : t.amount,
                                {t \in outbox : t.channel = c /\ t.denom = d})

\* A memo is only ever stored for an address that holds a forwarding
\* account: SetMemo and the initial memos of RegisterAccount never write
\* memos for a plain account or for an address with no account.
MemosOnlyOnForwardingAccounts ==
    \A a \in Addrs, d \in MemoDenoms : memos[a][d] # "" => IsForwarding(a)

\* Spec 3: the per-channel counters only ever increase, across blocks and
\* across a restart from exported genesis, where ExportGenesis and
\* InitGenesis must carry every counter over.
CountersNeverDecrease ==
    [][\A c \in Channels :
         /\ numOfAccounts'[c] >= numOfAccounts[c]
         /\ numOfForwards'[c] >= numOfForwards[c]
         /\ \A d \in Denoms : totalForwarded'[c][d] >= totalForwarded[c][d]]_vars

\* Funds of every denom that reach a queued forwarding account are
\* eventually sent on: the account's balance drops to zero, unless its
\* channel stops being open or the transfer keeper rejects that forward.
\* ExecuteForwards must run in the block the account was queued in, and
\* must skip only the accounts on closed channels, not the ones after them.
QueuedFundsForwarded ==
    \A a \in Addrs, d \in Denoms :
        (a \in pendingForwards /\ balances[a][d] > 0)
            ~> (balances[a][d] = 0 \/ ~ChannelOpen(a.channel) \/ <<a, d>> \in failedForwards)

\* Spec 4.5 step 4 and 7: no funds are created or lost, and a rejected
\* forward leaves the funds in the account.  Every unit credited from
\* outside is held by some address, travels in an unacknowledged packet,
\* or was delivered.  ExecuteForwards calls Transfer on the EndBlock
\* context, so a Transfer that fails after escrowing keeps the escrow.
FundsConserved ==
    sends = MapThenSumSet(LAMBDA p : balances[p[1]][p[2]], Holders \X Denoms)
            + MapThenSumSet(LAMBDA t : t.amount, inflight \cup delivered)

\* Spec 3: an account carries at most MaxMemoEntries distinct denom memos.
\* SetMemo adds entries without counting them.
MemoEntriesBounded ==
    \A a \in Addrs : Cardinality({d \in MemoDenoms : memos[a][d] # ""}) <= MaxMemoEntries

=============================================================================
