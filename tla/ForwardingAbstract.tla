-------------------------- MODULE ForwardingAbstract --------------------------
(***************************************************************************)
(* What the forwarding module promises about funds, with no blocks, queue, *)
(* counters, memos or transfer keeper: funds reach addresses from outside  *)
(* (credits and refunds); an address becomes a forwarding target once and  *)
(* stays one; and funds leave a forwarding address only in two ways,       *)
(* whole balances sent to its own recipient over its own channel while     *)
(* that channel is open, or balances moved to its own fallback.  Nothing   *)
(* else ever takes funds out of any address.                               *)
(***************************************************************************)
EXTENDS Naturals

CONSTANTS
    Addresses,   \* derived addresses: records [channel, recipient, fallback]
    Holders,     \* every address that can hold funds (Addresses and users)
    Denoms,
    Channels,
    NoFallback

VARIABLES
    registered,  \* the forwarding targets
    funds,       \* holder -> denom -> amount
    sent,        \* transfers handed to the cross-chain transfer initiator
    open         \* the channels that are open

absvars == <<registered, funds, sent, open>>

Init ==
    /\ registered = {}
    /\ funds = [h \in Holders |-> [d \in Denoms |-> 0]]
    /\ sent = {}
    /\ open = Channels

\* An address becomes a forwarding target.
Register(a) ==
    /\ a \notin registered
    /\ registered' = registered \cup {a}
    /\ UNCHANGED <<funds, sent, open>>

\* Funds arrive at h in denom d from outside; no other balance moves.
Deposit(h, d) ==
    /\ funds'[h][d] > funds[h][d]
    /\ funds' = [funds EXCEPT ![h][d] = funds'[h][d]]
    /\ UNCHANGED <<registered, sent, open>>

\* The whole balances F (pairs of address and denom) of forwarding targets
\* on open channels are sent, each to its address's recipient.
Forward(F) ==
    /\ F # {}
    /\ \A p \in F : /\ p[1] \in registered
                    /\ p[1].channel \in open
                    /\ funds[p[1]][p[2]] > 0
    /\ funds' = [h \in Holders |-> [d \in Denoms |->
                    IF <<h, d>> \in F THEN 0 ELSE funds[h][d]]]
    /\ sent' = sent \cup {[sender |-> p[1], channel |-> p[1].channel,
                           receiver |-> p[1].recipient, denom |-> p[2],
                           amount |-> funds[p[1]][p[2]]] : p \in F}
    /\ UNCHANGED <<registered, open>>

\* The balances in denoms D of a forwarding target move to its fallback.
ToFallback(a, D) ==
    /\ a \in registered
    /\ a.fallback # NoFallback
    /\ funds' = [funds EXCEPT
                   ![a] = [d \in Denoms |-> IF d \in D THEN 0 ELSE @[d]],
                   ![a.fallback] = [d \in Denoms |->
                                      IF d \in D THEN @[d] + funds[a][d] ELSE @[d]]]
    /\ UNCHANGED <<registered, sent, open>>

Close(c) ==
    /\ c \in open
    /\ open' = open \ {c}
    /\ UNCHANGED <<registered, funds, sent>>

Next ==
    \/ \E a \in Addresses : Register(a)
    \/ \E h \in Holders, d \in Denoms : Deposit(h, d)
    \/ \E F \in SUBSET (Addresses \X Denoms) : Forward(F)
    \/ \E a \in Addresses, D \in SUBSET Denoms : ToFallback(a, D)
    \/ \E c \in Channels : Close(c)

Spec == Init /\ [][Next]_absvars

=============================================================================
