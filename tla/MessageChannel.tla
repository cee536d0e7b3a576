--------------------------- MODULE MessageChannel ---------------------------
(***************************************************************************)
(* What SendChatMessage and ReceiveChatMessage promise together: messages  *)
(* arrive whole, in the order they were sent, none twice and none          *)
(* invented; those under way may be lost when the connection is.           *)
(* ChatServer takes its messages from such a channel.                      *)
(***************************************************************************)
EXTENDS Naturals, Sequences

VARIABLES sent, delivered

vars == <<sent, delivered>>

Init == sent = <<>> /\ delivered = <<>>

Send ==
    /\ Len(sent') = Len(sent) + 1
    /\ SubSeq(sent', 1, Len(sent)) = sent
    /\ UNCHANGED delivered

Deliver ==
    /\ Len(delivered) < Len(sent)
    /\ delivered' = Append(delivered, sent[Len(delivered) + 1])
    /\ UNCHANGED sent

Next == Send \/ Deliver

Spec == Init /\ [][Next]_vars
=============================================================================
