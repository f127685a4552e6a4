------------------------ MODULE MCForwardingRefinement ------------------------
(***************************************************************************)
(* Forwarding implements ForwardingAbstract: the forwarding accounts are   *)
(* the registered targets, bank balances the funds, the transfers the      *)
(* transfer keeper accepted (without their block height) the sent          *)
(* transfers, and the channels in state OPEN the open ones.               *)
(***************************************************************************)
EXTENDS MCForwarding

Abs == INSTANCE ForwardingAbstract WITH
           Addresses <- Addrs,
           registered <- {a \in Addrs : IsForwarding(a)},
           funds <- balances,
           sent <- {[sender |-> t.sender, channel |-> t.channel, receiver |-> t.receiver,
                     denom |-> t.denom, amount |-> t.amount] : t \in outbox},
           open <- {c \in Channels : ChannelOpen(c)}

\* Every step of the keeper, its message handlers, its hooks and the
\* environment is a step of ForwardingAbstract or leaves its state alone:
\* ExecuteForwards and ClearAccount move funds only to the account's own
\* recipient, channel and fallback, and only for registered accounts.
AbstractSpec == Abs!Spec

=============================================================================
