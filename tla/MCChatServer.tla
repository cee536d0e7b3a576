---------------------------- MODULE MCChatServer ----------------------------
(* Instances of ChatServer for TLC: who the client runs are and their names. *)
EXTENDS ChatServerProperties, TLC

CONSTANTS c1, c2, c3, alice, bob, longname

\* Two runs with names of their own; two runs given the same name.
MCUserPair == (c1 :> alice) @@ (c2 :> bob)
MCUserTwins == (c1 :> alice) @@ (c2 :> alice)
MCUserTriple == (c1 :> alice) @@ (c2 :> alice) @@ (c3 :> bob)
\* The third run has a name of 16 characters, which its client accepts.
MCUserLong == (c1 :> alice) @@ (c2 :> bob) @@ (c3 :> longname)

MCNameLength == [u \in Names |-> IF u = longname THEN 16 ELSE 5]

HandleSymmetry == Permutations(Handles)
\* Two runs with one name are interchangeable, too.
TwinSymmetry == Permutations(Handles) \cup Permutations(Conns)
=============================================================================
