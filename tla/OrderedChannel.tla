--------------------------- MODULE OrderedChannel ---------------------------
(***************************************************************************)
(* What RELIABLE_ORDERED promises (PacketPriority.h: "Send packet reliable  *)
(* respecting ordering"): of what one peer sends, the other gets a prefix,  *)
(* every message once and in the order it was sent in.                      *)
(***************************************************************************)
EXTENDS Sequences, Naturals

CONSTANTS Peer, Message

VARIABLES sent, delivered   \* per sender, the messages so far, first to last

channelVars == <<sent, delivered>>

ChannelInit == sent = [p \in Peer |-> <<>>] /\ delivered = [p \in Peer |-> <<>>]

Send(p, m) ==
  /\ sent' = [sent EXCEPT ![p] = Append(@, m)]
  /\ UNCHANGED delivered

\* One datagram may carry, or release, several messages.
Deliver(p) ==
  /\ \E n \in Len(delivered[p]) + 1 .. Len(sent[p]) :
       delivered' = [delivered EXCEPT ![p] = SubSeq(sent[p], 1, n)]
  /\ UNCHANGED sent

ChannelNext == \E p \in Peer : Deliver(p) \/ \E m \in Message : Send(p, m)

ChannelSpec == ChannelInit /\ [][ChannelNext]_channelVars
=============================================================================
