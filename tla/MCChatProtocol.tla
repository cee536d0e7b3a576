--------------------------- MODULE MCChatProtocol ---------------------------
(* Instances of ChatProtocol for TLC: an alphabet of newline, slash, space  *)
(* and one letter, in which the slash is a letter of the commands too.      *)
EXTENDS ChatProtocol

MCCommands == << <<4, 2>>, <<2>>, <<4>> >>
MCRequestTypes == << "active_users", "private_message", "quit" >>

\* After a block: the end of the readable memory at once, a space, or enough
\* other characters for any length.
MCAfterBlock == { <<>>, <<5, 3>>, [i \in 1 .. 70 |-> 5] }
=============================================================================
