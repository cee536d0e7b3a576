---------------------------- MODULE ClientSession ----------------------------
(***************************************************************************)
(* What the server may rely on from a run of the client program: one login *)
(* request, before anything else; user messages only after an answer that  *)
(* is not a refusal; nothing after it leaves.  These are the client runs   *)
(* of ChatServer.                                                          *)
(***************************************************************************)
EXTENDS Sequences

CONSTANTS UserRequests      \* what a line typed by the user comes to

VARIABLES
    state,                  \* idle, connected, login, chat, quit, closed
    response,               \* the first message received: none, refusal, other
    requests                \* what was sent, oldest first

vars == <<state, response, requests>>

Init == state = "idle" /\ response = "none" /\ requests = <<>>

Goto(from, to) == state = from /\ state' = to

Connect == Goto("idle", "connected") /\ UNCHANGED <<response, requests>>

SendLogin ==
    /\ Goto("connected", "login")
    /\ requests' = <<"login">>
    /\ UNCHANGED response

ReceiveResponse ==
    /\ response = "none"
    /\ \/ Goto("login", "chat") /\ response' = "other"
       \/ state = "login" /\ response' = "refusal" /\ UNCHANGED state
    /\ UNCHANGED requests

Say(r) ==
    /\ state = "chat" /\ UNCHANGED state
    /\ requests' = Append(requests, r)
    /\ UNCHANGED response

\* The client has read its last line.
Leave == Goto("chat", "quit") /\ UNCHANGED <<response, requests>>

Close ==
    /\ state \in {"connected", "login", "chat", "quit"}
    /\ state' = "closed"
    /\ UNCHANGED <<response, requests>>

Next ==
    \/ Connect \/ SendLogin \/ ReceiveResponse \/ Leave \/ Close
    \/ \E r \in UserRequests : Say(r)

Spec == Init /\ [][Next]_vars
=============================================================================
