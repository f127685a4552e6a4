# TLA+ models of the forwarding module

This directory models the forwarding-account subsystem of
`initia-labs/forwarding`: accounts whose address is derived from
(channel, recipient, fallback), which hold no key and forward what they receive
over an IBC transfer channel at the end of each block.

## The system

| Component | Code | State | Operations |
|---|---|---|---|
| AddressDeriver | `types.GenerateAddress` (not under `src/`) | none | hash of (channel, recipient, fallback) |
| AccountRegistry | `src/keeper/msg_server.go` | x/auth accounts at derived addresses, `NumOfAccounts`, `AllowedDenoms` | `RegisterAccount`, `ValidateAccountFields`, `ClearAccount`, `SetAllowedDenoms` |
| MemoStore | `src/keeper/msg_server.go` | `Memos` (address, denom) -> memo | `SetMemo`, `setInitialMemos`, `validateMemoEntries` |
| PendingForwardQueue | `src/x/forwarding/keeper/keeper.go` | `PendingForwards` in the transient store | written by the hook and the handlers, discarded at commit |
| ForwardSweeper | `keeper.go` `ExecuteForwards` | `NumOfForwards`, `TotalForwarded` | one `Transfer` per balance of each queued account, at EndBlock |
| ReceiveHook | `keeper.go` `SendRestrictionFn` | none | queues a forwarding account on every bank credit |
| Genesis | `src/x/forwarding/genesis.go` | the three counter maps | `InitGenesis`, `ExportGenesis` |
| PacketCodec | `src/x/forwarding/types/packet.pb.go` | none | generated protobuf codec of the ICS-20 registration memo (`RegisterAccountMemo` > `Wrapper` > `RegisterAccountData`) |
| Glue | `types/codec.go`, `types/keys.go`, `simapp/legacy.go` | none | codec registration, prefixes, app wiring |

How they interact: a bank credit to an address runs `SendRestrictionFn`
first; if the address holds a `ForwardingAccount` it is written to
`PendingForwards`. `RegisterAccount` derives the address, requires the channel
to be open, and either creates a `ForwardingAccount` or upgrades a
`BaseAccount` already there (created by an earlier credit) after
`ValidateAccountFields` checks that no real key ever signed for it; an upgraded
account that already holds an allowed-denom balance is queued. `ClearAccount`
queues the account, or sends its allowed-denom balances to the fallback at
once. At EndBlock `ExecuteForwards` reads the queue, skips accounts whose
channel is not open and asks the transfer keeper for one transfer per balance;
a rejected transfer is only logged. The transient store is discarded at
commit, so a queue entry lives for one block.

Two keepers. `src/` holds two versions of the keeper. The message handlers
of `src/keeper/msg_server.go` belong to the `v2` keeper, which has
`AllowedDenoms`, `Memos` and the authority; its own struct, sweep and
genesis are not under `src/`. The hook, the sweep and the genesis of
`src/x/forwarding/` belong to the older `x/forwarding` keeper, which has
none of those stores and iterates `GetAllBalances`. The spec describes
one module with all of these operations, and `Forwarding.tla` joins the
two as one keeper. Each action is translated from the lines it names;
the join itself is not in the code. So the sweep forwards every balance,
the type `SendRestrictionFn` recognises is taken to be the account the
handlers store, and the project reports no disagreement that comes only
from comparing one version with the other (the sweep's denoms, the
stores genesis exports).

What is hard: the interplay of a credit, a registration and the sweep inside
one block and across blocks; funds that arrive before the account is
registered; a channel that closes between queueing and the sweep; a transfer
keeper that rejects some forwards of an account and accepts others; an
address that someone has already used with a key; a failing message whose
writes must all be discarded.

Correctness, per component:
- registry: no forwarding account carries a real key; one registration per
  address; `NumOfAccounts` counts the forwarding accounts of each channel;
- queue, hook and sweeper: every account that had to be swept in a block is
  empty after EndBlock unless its channel closed, except the balances whose
  own transfer was rejected; the forward counters equal the accepted
  transfers;
- genesis: the counters survive an export and re-import and never decrease;
- as a whole: funds leave a forwarding account only as whole balances to its
  own recipient over its own open channel, or to its own fallback
  (`ForwardingAbstract`), and queued funds are eventually sent on;
- codec: the varint size agrees with the bytes written, encoding round
  trips, a memo cut short is rejected, and what decoding accepts re-encodes
  to itself;
- memos: only forwarding accounts have memos; at most `MaxMemoEntries` per
  account (spec 3); `validateMemoEntries` accepts exactly the valid batches.

## Modules

- `MemoValidation.tla`: memo lengths, denom validity, `validateMemoEntries` as
  a `RECURSIVE` loop that returns the first error, and `MemoBatchAcceptable`,
  its reference definition as a set of conditions.
- `MCMemoValidation.tla`: one state per batch of up to `MaxBatch` entries;
  checks the loop against the reference.
- `Forwarding.tla`: the keeper and its collaborators, block by block.
  Variables: `accounts` (kind base/forwarding/other, public key nil/sentinel/
  user key, sequence), `balances`, `channelState`, `allowedDenoms`, the three
  counters, `memos`, `pendingForwards`, `outbox` (transfers the transfer keeper
  accepted), `phase` (messages, then after EndBlock), `height`; and history
  variables for the properties (`credited`, `upgradedFunded`, `clearQueued`,
  `failedForwards`, the account-denom pairs whose transfer was rejected,
  all reset at commit). Actions: `RegisterExistingAccount` and
  `RegisterNewAccount` (the two paths of `RegisterAccount`), `ClearAccount`,
  `SetAllowedDenoms`, `SetMemo`, `ExecuteForwards`, `Commit`; environment:
  `Receive` (a bank credit, which applies `SendRestrictionFn`), `SignWithKey`,
  `SignerlessAnte`, `CloseChannel`, `AcknowledgePacket` (success, or an
  error acknowledgement or timeout whose refund is a bank credit that runs
  `SendRestrictionFn`), `CreateOtherAccount` (a vesting account created at a
  derived address), and `GenesisRestart` (after a block, the chain restarts
  from `ExportGenesis`/`InitGenesis`: counters carried over, the transient
  queue dropped; memos and allowed denoms, which that keeper does not hold,
  carried over unchanged).
  `LateReceive` is a credit made in EndBlock after
  `ExecuteForwards`, by an end blocker ordered after forwarding; it is
  enabled by `LateCredits`. `Receive` and `LateReceive` share `Credit`, which
  creates a missing account as x/bank does (`CreatedOnCredit`).
  `inflight` holds the accepted transfers not yet acknowledged, and
  `delivered` the ones acknowledged with success. `escrowStuck` holds
  rejected transfers whose tokens stayed in escrow. With
  `FailsAfterEscrow`, a rejected `Transfer` may have escrowed the tokens
  before failing, and `ExecuteForwards` keeps that write because it has no
  cache context. A fallback may be a user or a derived address (chained
  forwarding). The fallback send of `ClearAccount` runs `SendRestrictionFn`
  and creates a missing account. `FairSpec` adds weak fairness of
  `ExecuteForwards` and `Commit`.
- `MCForwarding.tla`: the memo batches offered to `RegisterAccount`, the
  keyed addresses, the addresses where another account type may be
  created, and `MCChainedFallbacks` (derived addresses as fallbacks), for the
  `.cfg` files.
- `ForwardingAbstract.tla`: what the module promises about funds, with no
  blocks, queue or counters: `Register` (once, permanently), `Deposit` (funds
  arriving from outside), `Forward` (whole balances of registered targets on
  open channels, to their own recipients), `ToFallback`, `Close`.
- `MCForwardingRefinement.tla`: the refinement mapping (forwarding accounts
  to `registered`, `balances` to `funds`, accepted transfers without their
  height to `sent`, OPEN channels to `open`) and `AbstractSpec`, the
  abstract `Spec` under it.
- `PacketCodec.tla`: `packet.pb.go` translated: `sovPacket` (bit length of
  `x|1`), `encodeVarintPacket`, `Size`, `MarshalToSizedBuffer` on a buffer
  written from the end (a write out of range stands for the Go panic),
  `Marshal`, the three `Unmarshal` loops as mutually `RECURSIVE` operators,
  and `skipPacket` with its group depth. Bytes are naturals below 256.
- `MCPacketCodec.tla`: one state per probe: a varint value, a message of
  nested texts, or an arbitrary byte string of up to `MaxInput` bytes over
  an alphabet of tags, lengths and continuation bytes.

Abstractions. An address is the triple it is derived from (the hash is taken
as collision free). A failing handler changes nothing, because the SDK
discards the writes of a failing message, so error paths appear only as the
guards that disable an action; invalid ids and over-long recipients are not
enumerated. Credits are of one unit. A queued entry is an address: the
snapshot the code stores equals the account, whose fields never change.
Strings are model values; a memo is `""`, a short text, one of exactly
`MaxMemoLength` characters (`EdgeMemos`, the boundary the check `> MaxMemoLength`
at `msg_server.go:305` must accept; `MaxMemoLength` is 1024 in the code), or one over `MaxMemoLength`.

## Runs

| Run | Config | Expect | Shows |
|---|---|---|---|
| memo_validation | `MCMemoValidation.cfg` | pass | `ValidationMatchesReference` over 4369 batches (2 denoms, an invalid and an empty denom, empty/short/edge-length/long memos, `MaxMemoEntries = 2`, length up to 3) |
| sweep | `MCForwarding.cfg` | pass | `TypeOK`, `FundsForwardedAtEndBlock`, `ForwardCountersMatchOutbox`, `CountersNeverDecrease` (with genesis restarts between blocks): 2 channels, 2 denoms (one allowed), 2 credits, 2 blocks, transfers may fail, channels may close |
| registry | `MCForwardingRegistry.cfg` | pass | `NoKeyedForwardingAccount`, `AccountCountMatches`, `MemosOnlyOnForwardingAccounts`: 1 channel, addresses with and without fallback, a key holder for the no-fallback address, signerless ante, memos |
| memo_count | `MCForwardingMemoCount.cfg` | violation | `MemoEntriesBounded` with `MaxMemoEntries = 1`: register with one memo, `SetMemo` a second |
| packet_codec | `MCPacketCodec.cfg` | pass | `VarintMatchesSov` at every 7-bit boundary up to 2^28, `MarshalRoundTrip` for empty, 1-byte and 130-byte texts (a 2-byte length), `TruncatedMemoRejected` on every proper prefix of every encoded memo, and `DecodedReencodes` for every byte string of up to 4 bytes, decoded as each of the three messages |
| liveness | `MCForwardingLiveness.cfg` | pass | `QueuedFundsForwarded` under `FairSpec`, on the sweep instance without restart |
| refinement | `MCForwardingRefinement.cfg` | pass | `AbstractSpec`: 1 channel, an address with a fallback user, 2 denoms, rejected transfers and refunds, clears to the fallback, late credits |
| chained_fallback | `MCForwardingChained.cfg` | pass | `FundsForwardedAtEndBlock` when the fallback is a derived address: clearing to it queues it once it is a forwarding account, so the funds move on in the same block |
| escrow_on_failure | `MCForwardingEscrow.cfg` | violation | `FundsConserved`: register, credit, EndBlock with a `Transfer` that escrows and then fails; the unit is gone from the account with no packet |
| late_credit | `MCForwardingLate.cfg` | violation | `QueuedFundsForwarded` under `FairSpec`: register, EndBlock, a late credit queues the account, commit drops the entry, and the funds are never forwarded |

`FundsConserved` is checked only where it can fail: with
`FailsAfterEscrow = FALSE` every action moves exactly the amounts it takes,
so a passing run would show nothing. Each property of a passing run has a mutant
in `PROJECT.json`, a plausible bug in the definition it names, that TLC
finds violating it.

Bounds. Two blocks are enough for a credit in one block and a registration or
sweep in the next, and for a queue entry to be discarded at commit; two
credits let one account hold two denoms, or two accounts one each; two
channels let one close while the other forwards. `MaxMemoEntries` is 10 in the
code; the memo-count run lowers it to 1 so that exceeding it takes two steps.
`Terminated` lets the last block stutter so that the bound is not reported as
a deadlock. The codec probes are bounded by TLC's 32-bit integers: varints
of up to 4 bytes; byte strings of up to 4 bytes already reach every error
branch of the loops (a tag, a length and one byte past it), and every
nesting level since the three messages are each decoded directly.

Fairness: `FairSpec` assumes weak fairness of `ExecuteForwards` and `Commit`
only. The consensus engine runs EndBlock, and with it `ExecuteForwards`, in
every block it produces, and commits the block, whatever the transactions;
it says nothing about relayers, so acknowledgements get no fairness and a
refunded forward is not required to happen.

## Findings

1. `SetMemo` never counts an account's memos (`msg_server.go:260`), where
   spec 3 bounds them by `MaxMemoEntries`; `TestSetMemoAllowsAdditionalEntries`
   relies on the code's behaviour (`memo_count`).
2. `ExecuteForwards` calls `Transfer` on the EndBlock context, with no cache
   context (`keeper.go:103`). The ICS-20 keeper escrows the token before
   `SendPacket`, so a `Transfer` that fails there (for example on an expired
   client) leaves the funds in escrow with no packet. Spec 4.5 and 7 say a
   rejected forward leaves the funds in the account. This rests on the
   transfer keeper's order of writes, which is not under `src/`; the
   `escrow_on_failure` run shows the effect under `FailsAfterEscrow`.
3. Nothing in the module makes `ExecuteForwards` run after every other
   crediting end blocker (`keeper.go:88`). A late credit queues an entry that
   commit discards unprocessed (`late_credit`). The funds stay in the
   account, only waiting for another trigger.

Not reported: the sweep iterating every balance rather than the allowed
denoms of spec 4.5, and the memos and allowed denoms missing from
`genesis.go`. Both come from the two keeper versions (see "Two keepers"),
not from one program.

## Not modelled, and why

- `GenerateAddress`'s hash: taken as injective.
- The `v2` keeper's struct, sweep and genesis: not under `src/`; the model
  uses the `x/forwarding` keeper's (see "Two keepers").
- Transaction atomicity: a failing message is a step that changes nothing,
  so partial writes before an error (`setInitialMemos` after `SetAccount`)
  are out of reach.
- `codec.go` and `keys.go`: interface registration and store-key constants,
  with no state changes; the keys' disjointness is taken as given by the
  model's separate variables. Protobuf descriptor boilerplate and
  `sozPacket` (unused) likewise.
- App wiring (`legacy.go`'s `SetIBCKeepers`): runs once while the app is
  built, sequentially, before any block; it has nothing to interleave and
  nothing a property about blocks could distinguish.
- End-block module order: set outside `src/`. `LateCredits` covers the
  order in which an end blocker that credits runs after forwarding.
- `legacy.go`: keeper construction and the IBC router, with no state
  transitions of its own; the forwarding middleware it installs is not under
  `src/`.
- Relayer timing: acknowledgements come in any later block, or never.

## Plan

1. (done) `MemoValidation`, `Forwarding` with registry, memos, queue, hook,
   sweep; runs `memo_validation`, `sweep`, `registry` and two findings.
2. (done) Genesis restart, packet acknowledgements and refunds, other account
   types, `PacketCodec`, liveness under fairness of block production,
   `ForwardingAbstract` and its refinement.
3. (done) Late credits, `Transfer` failing after escrow, conservation of
   funds, chained fallbacks.
4. Larger instances of the refinement run. Two channels take TLC over 15
   minutes with the abstract `Forward` over subsets of address-denom pairs,
   so the run keeps one channel; the sweep and liveness runs cover two. Even
   without `AbstractSpec` the two-channel refinement instance has 3.36
   million states and takes about 4 minutes, too close to the 5-minute limit
   for a kept run.
5. `SetMemo`'s own length check (`msg_server.go:258`) is exercised with an
   edge-length memo in the registry run but compared with no reference;
   a property relating stored memo lengths to `MaxMemoLength` would need
   memo lengths kept in the state.
