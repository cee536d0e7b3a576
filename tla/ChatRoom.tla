------------------------------ MODULE ChatRoom ------------------------------
(***************************************************************************)
(* What the chat server promises about its room: a client run is in it at  *)
(* most once, with no more others than there is space for, and under a     *)
(* name that nobody else there has, if under any; it is greeted, announced *)
(* and, if it leaves, reported to have left, in that order and under its   *)
(* name; and what is announced goes out in the order it was announced in.  *)
(***************************************************************************)
EXTENDS Naturals, Sequences, FiniteSets

CONSTANTS
    Runs,           \* client runs
    NameOf,         \* NameOf[c]: the username run c asks for
    Capacity,       \* how many may be in the room
    Nameless        \* the name of one that was let in without its own

VARIABLES
    phase,          \* how far each run is
    name,           \* what those in the room are called
    announcements   \* what is announced and not sent yet, oldest first

vars == <<phase, name, announcements>>

Init ==
    /\ phase = [c \in Runs |-> "outside"]
    /\ name = [c \in Runs |-> Nameless]
    /\ announcements = <<>>

Inside == {c \in Runs : phase[c] \notin {"outside", "gone"}}

Move(S, to) == phase' = [c \in Runs |-> IF c \in S THEN to ELSE phase[c]]

\* The name stays taken until the run is gone.
Enter(c) ==
    /\ phase[c] = "outside" /\ Move({c}, "entered")
    /\ Cardinality(Inside) < Capacity
    /\ \/ (\A d \in Inside : name[d] # NameOf[c]) /\ name' = [name EXCEPT ![c] = NameOf[c]]
       \/ UNCHANGED name
    /\ UNCHANGED announcements

Announce(c, from, kind, to) ==
    /\ phase[c] = from /\ Move({c}, to)
    /\ announcements' = Append(announcements, [kind |-> kind, user |-> name[c], by |-> c])
    /\ UNCHANGED name

\* The greeting of a run that cannot be announced is worth nothing any more.
Withdraw(c) ==
    /\ phase[c] = "greeted" /\ (Move({c}, "ended") \/ UNCHANGED phase)
    /\ announcements' = [i \in DOMAIN announcements |->
           IF announcements[i].kind = "welcome" /\ announcements[i].by = c
           THEN [announcements[i] EXCEPT !.kind = "freed"]
           ELSE announcements[i]]
    /\ UNCHANGED name

Send ==
    /\ announcements # <<>> /\ announcements' = Tail(announcements)
    /\ UNCHANGED <<phase, name>>

\* The thread of a run ends, or is ended with the server.
End(c) == c \in Inside /\ Move({c}, "ended") /\ UNCHANGED <<name, announcements>>

Forget(c) ==
    /\ phase[c] = "ended" /\ Move({c}, "gone")
    /\ name' = [name EXCEPT ![c] = Nameless]
    /\ UNCHANGED announcements

TurnAway ==
    /\ \E S \in SUBSET {c \in Runs : phase[c] = "outside"} : Move(S, "gone")
    /\ UNCHANGED <<name, announcements>>

Next ==
    \/ \E c \in Runs :
        \/ Enter(c)
        \/ Announce(c, "entered", "welcome", "greeted")
        \/ Announce(c, "greeted", "joined", "member")
        \/ Announce(c, "member", "left", "leaving")
        \/ Withdraw(c) \/ End(c) \/ Forget(c)
    \/ Send \/ TurnAway

Spec == Init /\ [][Next]_vars
=============================================================================
