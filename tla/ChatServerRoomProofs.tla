------------------------ MODULE ChatServerRoomProofs ------------------------
(* The server is a room: its threads, its table and its queue together      *)
(* implement ChatRoom, for every number of slots, clients and sockets, and  *)
(* whatever fails.                                                          *)
EXTENDS ChatServerRunProofs

-----------------------------------------------------------------------------
(* Who is in the room                                                       *)

\* Each slot with a thread seats its owner, and nobody else is seated.
Seats ==
    /\ \A s \in Slots : handler_pc[s] # "none" =>
           /\ owner[s] \in Conns /\ Seated(owner[s])
           /\ RoomPhase[owner[s]] = PhaseOf[handler_pc[s]]
           /\ RoomName[owner[s]] = username[s]
    /\ \A c \in Conns : ~Seated(c) =>
           /\ RoomPhase[c] = IF c \in Fresh \cup {conn} THEN "outside" ELSE "gone"
           /\ RoomName[c] = NoName

LEMMA SeatsFollow == TypeInv /\ OwnerInv => Seats
<1> SUFFICES ASSUME TypeInv, OwnerInv PROVE Seats
  OBVIOUS
<1>1. ASSUME NEW s \in Slots, handler_pc[s] # "none"
      PROVE  /\ owner[s] \in Conns /\ Seated(owner[s]) /\ SlotOf(owner[s]) = s
  <2>1. owner[s] # NoConn /\ owner[s] \in Conns
    BY <1>1 DEF OwnerInv, TypeInv, TypeOK, TableTypeOK
  <2>2. \A t \in Slots : owner[t] = owner[s] <=> t = s
    BY <2>1 DEF OwnerInv
  <2> QED BY <1>1, <2>1, <2>2 DEF Seated, SlotOf
<1> QED BY <1>1 DEF Seats, RoomPhase, RoomName

\* What the steps of the threads are judged by, before and after.
RunsInv == TypeInv /\ SlotInv /\ BacklogInv /\ OwnerInv /\ NameInv /\ Seats

LEMMA RunsInvariant == Spec => []RunsInv
<1>1. TypeInv /\ SlotInv /\ BacklogInv /\ OwnerInv /\ NameInv => RunsInv
  BY SeatsFollow DEF RunsInv
<1> QED BY <1>1, TypeInvariant, SlotInvariant, BacklogInvariant, OwnerInvariant, NameInvariant, PTL

LEMMA PhasesOfThreads ==
    /\ \A pc \in HandlerPCs : PhaseOf[pc] \notin {"outside", "gone"}
    /\ PhaseOf["welcome"] = "entered" /\ PhaseOf["joined"] = "greeted"
    /\ \A pc \in {"notify_login", "receive", "left"} : PhaseOf[pc] = "member"
    /\ \A pc \in {"notify_quit", "close"} : PhaseOf[pc] = "leaving"
    /\ \A pc \in Finished : PhaseOf[pc] = "ended"
BY DEF PhaseOf, HandlerPCs, Finished

\* Those inside are those seated.
LEMMA InsideSeated ==
    ASSUME RunsInv
    PROVE  Room!Inside = {c \in Conns : Seated(c)}
<1> SUFFICES ASSUME NEW c \in Conns PROVE RoomPhase[c] \notin {"outside", "gone"} <=> Seated(c)
  BY DEF Room!Inside
<1>1. CASE Seated(c)
  <2>1. PICK s \in Slots : owner[s] = c /\ handler_pc[s] # "none"
    BY <1>1 DEF Seated
  <2>2. RoomPhase[c] = PhaseOf[handler_pc[s]] /\ handler_pc[s] \in HandlerPCs
    BY <2>1 DEF RunsInv, Seats, TypeInv, TypeOK, ThreadsTypeOK
  <2> QED BY <1>1, <2>2, PhasesOfThreads
<1>2. CASE ~Seated(c)
  BY <1>2 DEF RunsInv, Seats
<1> QED BY <1>1, <1>2

-----------------------------------------------------------------------------
(* Steps that only turn somebody away                                       *)

\* Where no thread starts, moves or loses its slot, the room turns away those
\* that main has dropped, if any.
LEMMA Passive ==
    ASSUME RunsInv, RunsInv', UNCHANGED send_queue,
           \A s \in Slots : /\ handler_pc'[s] = handler_pc[s]
                            /\ handler_pc[s] # "none" =>
                                   owner'[s] = owner[s] /\ username'[s] = username[s],
           \A c \in Conns : c \in Fresh' \cup {conn'} => c \in Fresh \cup {conn}
    PROVE  Room!TurnAway
<1>1. \A c \in Conns : Seated(c)' <=> Seated(c)
  BY DEF Seated
<1>2. ASSUME NEW c \in Conns, Seated(c)
      PROVE  RoomPhase'[c] = RoomPhase[c] /\ RoomName'[c] = RoomName[c]
  <2>1. PICK s \in Slots : owner[s] = c /\ handler_pc[s] # "none"
    BY <1>2 DEF Seated
  <2>2. owner'[s] = c /\ handler_pc'[s] = handler_pc[s] /\ username'[s] = username[s]
    BY <2>1
  <2>3. RoomPhase[c] = PhaseOf[handler_pc[s]] /\ RoomName[c] = username[s]
    BY <2>1 DEF RunsInv, Seats
  <2>4. RoomPhase'[c] = PhaseOf[handler_pc'[s]] /\ RoomName'[c] = username'[s]
    BY <2>1, <2>2 DEF RunsInv, Seats
  <2> QED BY <2>2, <2>3, <2>4
<1>3. ASSUME NEW c \in Conns, ~Seated(c)
      PROVE  /\ RoomPhase[c] = "outside" \/ RoomPhase'[c] = RoomPhase[c]
             /\ RoomPhase'[c] \in {RoomPhase[c], "gone"}
             /\ RoomName'[c] = RoomName[c]
  <2>1. /\ RoomPhase[c] = IF c \in Fresh \cup {conn} THEN "outside" ELSE "gone"
        /\ RoomName[c] = NoName
    BY <1>3 DEF RunsInv, Seats
  <2>2. ~Seated(c)'
    BY <1>1, <1>3
  <2>3. /\ RoomPhase'[c] = IF c \in Fresh' \cup {conn'} THEN "outside" ELSE "gone"
        /\ RoomName'[c] = NoName
    BY <2>2 DEF RunsInv, Seats
  <2> QED BY <2>1, <2>3
<1>4. RoomName' = RoomName
  BY <1>2, <1>3 DEF RoomName
<1> DEFINE S == {c \in Conns : RoomPhase[c] = "outside" /\ RoomPhase'[c] = "gone"}
<1>5. S \in SUBSET {c \in Conns : RoomPhase[c] = "outside"}
  OBVIOUS
<1>6. \A c \in Conns : RoomPhase'[c] = IF c \in S THEN "gone" ELSE RoomPhase[c]
  BY <1>2, <1>3
<1>7. RoomPhase' = [c \in Conns |-> RoomPhase'[c]]
  BY DEF RoomPhase
<1> HIDE DEF S
<1>8. Room!Move(S, "gone")
  <2>1. RoomPhase' = [c \in Conns |-> IF c \in S THEN "gone" ELSE RoomPhase[c]]
    BY <1>6, <1>7
  <2> QED BY <2>1 DEF Room!Move
<1> QED BY <1>4, <1>5, <1>8 DEF Room!TurnAway
-----------------------------------------------------------------------------
(* Steps of the threads that are there                                      *)

\* Where some threads go on to the same phase, and the others stay, so do the
\* runs they are for.
LEMMA ThreadsMove ==
    ASSUME RunsInv, RunsInv', NEW T \in SUBSET Slots, NEW to,
           \A s \in T : /\ handler_pc[s] # "none" /\ handler_pc'[s] # "none"
                        /\ PhaseOf[handler_pc'[s]] = to,
           \A s \in Slots \ T : handler_pc'[s] = handler_pc[s],
           UNCHANGED <<owner, username, conn, backlog, client_state>>
    PROVE  Room!Move({owner[s] : s \in T}, to) /\ RoomName' = RoomName
<1> DEFINE S == {owner[s] : s \in T}
<1>1. \A c \in Conns : Seated(c)' <=> Seated(c)
  BY DEF Seated
<1>2. Fresh' = Fresh
  BY DEF Fresh, InBacklog
<1>3. ASSUME NEW c \in Conns, Seated(c)
      PROVE  RoomPhase'[c] = (IF c \in S THEN to ELSE RoomPhase[c]) /\ RoomName'[c] = RoomName[c]
  <2>1. PICK s \in Slots : owner[s] = c /\ handler_pc[s] # "none"
    BY <1>3 DEF Seated
  <2>2. handler_pc'[s] # "none" /\ owner'[s] = c
    BY <2>1
  <2>3. RoomPhase[c] = PhaseOf[handler_pc[s]] /\ RoomName[c] = username[s]
    BY <2>1 DEF RunsInv, Seats
  <2>4. RoomPhase'[c] = PhaseOf[handler_pc'[s]] /\ RoomName'[c] = username'[s]
    BY <2>2 DEF RunsInv, Seats
  <2>5. c \in S <=> s \in T
    <3>1. \A t \in Slots : owner[t] = owner[s] => t = s
      BY <2>1, SentinelAssumption DEF RunsInv, OwnerInv
    <3> QED BY <2>1, <3>1
  <2> QED BY <2>3, <2>4, <2>5
<1>4. ASSUME NEW c \in Conns, ~Seated(c)
      PROVE  RoomPhase'[c] = (IF c \in S THEN to ELSE RoomPhase[c]) /\ RoomName'[c] = RoomName[c]
  <2>1. c \notin S
    BY <1>4 DEF Seated
  <2>2. ~Seated(c)'
    BY <1>1, <1>4
  <2>3. /\ RoomPhase[c] = IF c \in Fresh \cup {conn} THEN "outside" ELSE "gone"
        /\ RoomName[c] = NoName
    BY <1>4 DEF RunsInv, Seats
  <2>4. /\ RoomPhase'[c] = IF c \in Fresh' \cup {conn'} THEN "outside" ELSE "gone"
        /\ RoomName'[c] = NoName
    BY <2>2 DEF RunsInv, Seats
  <2> QED BY <1>2, <2>1, <2>3, <2>4
<1>5. RoomName' = RoomName
  BY <1>3, <1>4 DEF RoomName
<1>6. \A c \in Conns : RoomPhase'[c] = IF c \in S THEN to ELSE RoomPhase[c]
  BY <1>3, <1>4
<1> HIDE DEF S
<1>7. RoomPhase' = [c \in Conns |-> RoomPhase'[c]]
  BY DEF RoomPhase
<1>8. RoomPhase' = [c \in Conns |-> IF c \in S THEN to ELSE RoomPhase[c]]
  BY <1>6, <1>7
<1> QED BY <1>5, <1>8 DEF Room!Move, S

\* One thread goes on.
LEMMA ThreadMoves ==
    ASSUME RunsInv, RunsInv', NEW s \in Slots, handler_pc[s] # "none", NEW pc \in HandlerPCs \ {"none"},
           handler_pc' = [handler_pc EXCEPT ![s] = pc],
           UNCHANGED <<owner, username, conn, backlog, client_state>>
    PROVE  /\ owner[s] \in Conns /\ RoomPhase[owner[s]] = PhaseOf[handler_pc[s]]
           /\ RoomName[owner[s]] = username[s]
           /\ Room!Move({owner[s]}, PhaseOf[pc]) /\ RoomName' = RoomName
<1>1. handler_pc \in [Slots -> HandlerPCs]
  BY DEF RunsInv, TypeInv, TypeOK, ThreadsTypeOK
<1>2. /\ \A t \in {s} : /\ handler_pc[t] # "none" /\ handler_pc'[t] # "none"
                        /\ PhaseOf[handler_pc'[t]] = PhaseOf[pc]
      /\ \A t \in Slots \ {s} : handler_pc'[t] = handler_pc[t]
  BY <1>1
<1>3. Room!Move({owner[t] : t \in {s}}, PhaseOf[pc]) /\ RoomName' = RoomName
  <2> PICK T \in SUBSET Slots : T = {s}
    OBVIOUS
  <2> PICK to : to = PhaseOf[pc]
    OBVIOUS
  <2>1. /\ \A t \in T : /\ handler_pc[t] # "none" /\ handler_pc'[t] # "none"
                        /\ PhaseOf[handler_pc'[t]] = to
        /\ \A t \in Slots \ T : handler_pc'[t] = handler_pc[t]
    BY <1>2
  <2>2. Room!Move({owner[t] : t \in T}, to) /\ RoomName' = RoomName
    BY ONLY <2>1, RunsInv, RunsInv', ThreadsMove, UNCHANGED <<owner, username, conn, backlog, client_state>>
  <2> QED BY <2>2
<1>4. {owner[t] : t \in {s}} = {owner[s]}
  OBVIOUS
<1> QED BY <1>3, <1>4 DEF RunsInv, Seats

-----------------------------------------------------------------------------
(* The sender and the clients                                               *)

LEMMA SenderInRoom ==
    ASSUME RunsInv, RunsInv', SenderNext
    PROVE  Room!TurnAway \/ Room!Send
<1>1. UNCHANGED <<owner, username, handler_pc, conn, backlog, client_state>>
  BY DEF SenderNext, tableVars, localVars
<1>2. Fresh' = Fresh
  BY <1>1 DEF Fresh, InBacklog
<1>3. CASE UNCHANGED send_queue
  BY <1>1, <1>2, <1>3, Passive
<1>4. CASE send_queue' # send_queue
  <2>1. send_queue # <<>> /\ send_queue' = Tail(send_queue)
    BY <1>4 DEF SenderNext, SenderDequeue, SenderWait, SenderLock, SenderScan, SenderMatch,
                SenderSend, SenderUsesFreed
  <2>2. RoomPhase' = RoomPhase /\ RoomName' = RoomName
    BY <1>1, <1>2 DEF RoomPhase, RoomName, Seated, SlotOf
  <2> QED BY <2>1, <2>2 DEF Room!Send
<1> QED BY <1>3, <1>4

LEMMA ClientsInRoom ==
    ASSUME RunsInv, RunsInv', [Next]_vars,
           (\E c \in Conns : LoginNext(c) \/ ClientNext(c)) \/ UNCHANGED vars
    PROVE  Room!TurnAway
<1>1. UNCHANGED <<owner, username, handler_pc, conn, send_queue>>
  BY DEF LoginNext, ClientNext, serverVars, vars, tableVars, localVars, queueVars
<1>2. Fresh' \subseteq Fresh
  BY BacklogStep DEF RunsInv
<1> QED BY <1>1, <1>2, Passive

-----------------------------------------------------------------------------
(* The handlers                                                             *)

RunsKept == UNCHANGED <<owner, username, conn, backlog, client_state>>

\* A thread that adds nothing to the queue ends, or is as far as it was.
LEMMA HandlerSilent ==
    ASSUME RunsInv, RunsInv', NEW s \in Slots, handler_pc[s] # "none", RunsKept,
           UNCHANGED send_queue,
           \/ UNCHANGED handler_pc
           \/ \E pc \in HandlerPCs \ {"none"} :
                  /\ handler_pc' = [handler_pc EXCEPT ![s] = pc]
                  /\ pc \in Finished \/ PhaseOf[pc] = PhaseOf[handler_pc[s]]
    PROVE  owner[s] \in Conns /\ (Room!TurnAway \/ Room!End(owner[s]))
<1>0. owner[s] \in Conns
  BY DEF RunsInv, Seats
<1>1. CASE UNCHANGED handler_pc
  BY <1>0, <1>1, Passive DEF RunsKept, Fresh, InBacklog
<1>2. ASSUME NEW pc \in HandlerPCs \ {"none"}, handler_pc' = [handler_pc EXCEPT ![s] = pc],
             pc \in Finished \/ PhaseOf[pc] = PhaseOf[handler_pc[s]]
      PROVE  Room!TurnAway \/ Room!End(owner[s])
  <2>1. /\ owner[s] \in Conns /\ RoomPhase[owner[s]] = PhaseOf[handler_pc[s]]
        /\ Room!Move({owner[s]}, PhaseOf[pc]) /\ RoomName' = RoomName
    BY <1>2, ThreadMoves DEF RunsKept
  <2>2. CASE pc \in Finished
    <3>1. PhaseOf[pc] = "ended"
      BY <2>2, PhasesOfThreads
    <3>2. owner[s] \in Room!Inside
      BY <2>1, InsideSeated DEF Seated
    <3> QED BY <2>1, <3>1, <3>2 DEF Room!End
  <2>3. CASE PhaseOf[pc] = PhaseOf[handler_pc[s]]
    <3>1. RoomPhase' = [c \in Conns |-> RoomPhase[c]]
      BY <2>1, <2>3 DEF Room!Move
    <3>2. Room!Move({}, "gone")
      BY <3>1 DEF Room!Move
    <3>3. {} \in SUBSET {c \in Conns : RoomPhase[c] = "outside"}
      OBVIOUS
    <3> QED BY <2>1, <3>2, <3>3 DEF Room!TurnAway
  <2> QED BY <1>2, <2>2, <2>3
<1> QED BY <1>0, <1>1, <1>2

\* A thread that enqueues a message announces its run under its name.
LEMMA HandlerAnnounces ==
    ASSUME RunsInv, RunsInv', NEW s \in Slots, handler_pc[s] # "none", RunsKept,
           NEW kind, Enqueue(MessageOf(s, kind)), NEW pc \in HandlerPCs \ {"none"},
           handler_pc' = [handler_pc EXCEPT ![s] = pc],
           NEW from, NEW to, PhaseOf[handler_pc[s]] = from, PhaseOf[pc] = to
    PROVE  owner[s] \in Conns /\ Room!Announce(owner[s], from, kind, to)
<1>1. /\ owner[s] \in Conns /\ RoomPhase[owner[s]] = from
      /\ RoomName[owner[s]] = username[s]
      /\ Room!Move({owner[s]}, to) /\ RoomName' = RoomName
  BY ThreadMoves DEF RunsKept
<1>2. send_queue' = Append(send_queue, [kind |-> kind, user |-> username[s], by |-> owner[s]])
  BY DEF Enqueue, MessageOf
<1> QED BY <1>1, <1>2 DEF Room!Announce

\* A thread whose second Enqueue fails withdraws the greeting.
LEMMA HandlerWithdraws ==
    ASSUME RunsInv, RunsInv', NEW s \in Slots, HandlerNext(s), JoinedFails(s)
    PROVE  \E c \in Conns : Room!Withdraw(c)
<1>1. RunsKept
  BY DEF HandlerNext, RunsKept, tableVars, localVars
<1>2. handler_pc[s] = "joined" /\ PhaseOf["joined"] = "greeted"
  BY PhasesOfThreads DEF JoinedFails
<1>3. owner[s] \in Conns /\ RoomPhase[owner[s]] = "greeted"
  BY <1>2 DEF RunsInv, Seats
<1>4. send_queue' = [i \in DOMAIN send_queue |->
          IF send_queue[i].kind = "welcome" /\ send_queue[i].by = owner[s]
          THEN [send_queue[i] EXCEPT !.kind = "freed"] ELSE send_queue[i]]
  <2>1. send_queue \in Seq(Message)
    BY DEF RunsInv, TypeInv, TypeOK, QueueTypeOK
  <2>2. \A i \in DOMAIN send_queue : send_queue[i] # NoMsg
    BY <2>1, ElementOfSeq, LenProperties, NoMsgAssumption
  <2> QED BY <2>2 DEF JoinedFails, AsFreed
<1>5. CASE UNCHANGED handler_pc
  <2>1. RoomPhase' = RoomPhase /\ RoomName' = RoomName
    BY <1>1, <1>5 DEF RunsKept, RoomPhase, RoomName, Seated, SlotOf, Fresh, InBacklog
  <2>2. Room!Withdraw(owner[s])
    BY <1>3, <1>4, <2>1 DEF Room!Withdraw
  <2> QED BY <1>3, <2>2
<1>6. CASE HandlerGoto(s, "done_fail")
  <2>1. Room!Move({owner[s]}, PhaseOf["done_fail"]) /\ RoomName' = RoomName
    BY <1>1, <1>2, <1>6, ThreadMoves DEF HandlerGoto, HandlerPCs, RunsKept
  <2>2. PhaseOf["done_fail"] = "ended"
    BY PhasesOfThreads DEF Finished
  <2>3. Room!Withdraw(owner[s])
    BY <1>3, <1>4, <2>1, <2>2 DEF Room!Withdraw
  <2> QED BY <1>3, <2>3
<1> QED BY <1>5, <1>6 DEF JoinedFails, HandlerFails

LEMMA HandlerInRoom ==
    ASSUME RunsInv, RunsInv', NEW s \in Slots, HandlerNext(s)
    PROVE  \/ Room!TurnAway
           \/ \E c \in Conns :
                  \/ Room!End(c)
                  \/ Room!Announce(c, "entered", "welcome", "greeted")
                  \/ Room!Announce(c, "greeted", "joined", "member")
                  \/ Room!Announce(c, "member", "left", "leaving")
                  \/ Room!Withdraw(c)
<1>1. RunsKept /\ handler_pc \in [Slots -> HandlerPCs]
  BY DEF HandlerNext, RunsKept, tableVars, localVars, RunsInv, TypeInv, TypeOK, ThreadsTypeOK
<1>2. ASSUME handler_pc[s] # "none", UNCHANGED send_queue, HandlerFails(s)
      PROVE  Room!TurnAway \/ \E c \in Conns : Room!End(c)
  BY <1>1, <1>2, HandlerSilent DEF HandlerFails, HandlerGoto, HandlerPCs, Finished
<1>3. ASSUME handler_pc[s] # "none", HandlerUsesFreed(s)
      PROVE  Room!TurnAway \/ \E c \in Conns : Room!End(c)
  BY <1>1, <1>2, <1>3, HandlerSilent DEF HandlerUsesFreed
<1>4. CASE EnqueueWelcome(s)
  <2>1. handler_pc[s] = "welcome" /\ PhaseOf["welcome"] = "entered" /\ PhaseOf["joined"] = "greeted"
    BY <1>4, PhasesOfThreads DEF EnqueueWelcome
  <2>2. CASE Enqueue(MessageOf(s, "welcome")) /\ HandlerGoto(s, "joined")
    <3>1. owner[s] \in Conns /\ Room!Announce(owner[s], "entered", "welcome", "greeted")
      BY <1>1, <2>1, <2>2, HandlerAnnounces DEF HandlerGoto, HandlerPCs
    <3> QED BY <3>1
  <2> QED BY <1>2, <1>3, <1>4, <2>1, <2>2 DEF EnqueueWelcome
<1>5. CASE EnqueueJoined(s)
  <2>1. handler_pc[s] = "joined" /\ PhaseOf["joined"] = "greeted" /\ PhaseOf["notify_login"] = "member"
    BY <1>5, PhasesOfThreads DEF EnqueueJoined
  <2>2. CASE Enqueue(MessageOf(s, "joined")) /\ HandlerGoto(s, "notify_login")
    <3>1. owner[s] \in Conns /\ Room!Announce(owner[s], "greeted", "joined", "member")
      BY <1>1, <2>1, <2>2, HandlerAnnounces DEF HandlerGoto, HandlerPCs
    <3> QED BY <3>1
  <2> QED BY <1>3, <1>5, <2>1, <2>2 DEF EnqueueJoined
<1>6. CASE EnqueueLeft(s)
  <2>1. handler_pc[s] = "left" /\ PhaseOf["left"] = "member" /\ PhaseOf["notify_quit"] = "leaving"
    BY <1>6, PhasesOfThreads DEF EnqueueLeft
  <2>2. CASE Enqueue(MessageOf(s, "left")) /\ HandlerGoto(s, "notify_quit")
    <3>1. owner[s] \in Conns /\ Room!Announce(owner[s], "member", "left", "leaving")
      BY <1>1, <2>1, <2>2, HandlerAnnounces DEF HandlerGoto, HandlerPCs
    <3> QED BY <3>1
  <2> QED BY <1>2, <1>3, <1>6, <2>1, <2>2 DEF EnqueueLeft
<1>7. CASE NotifySender(s)
  BY <1>1, <1>7, HandlerSilent, PhasesOfThreads DEF NotifySender, HandlerGoto, HandlerPCs
<1>8. CASE NotifyFails(s)
  BY <1>2, <1>8 DEF NotifyFails, queueVars
<1>9. ASSUME NEW r \in Requests, ReceiveRequest(s, r)
      PROVE  Room!TurnAway \/ \E c \in Conns : Room!End(c)
  BY <1>1, <1>9, HandlerSilent, PhasesOfThreads
     DEF ReceiveRequest, HandlerGoto, HandlerPCs, Finished, queueVars
<1>10. CASE ReceiveFails(s)
  BY <1>2, <1>10 DEF ReceiveFails, queueVars
<1>11. CASE CloseSocket(s)
  BY <1>1, <1>11, HandlerSilent DEF CloseSocket, HandlerGoto, HandlerPCs, Finished, queueVars
<1>12. CASE HandlerTerminated(s)
  BY <1>1, <1>12, HandlerSilent DEF HandlerTerminated, HandlerGoto, HandlerPCs, Finished, queueVars
<1>13. CASE JoinedFails(s)
  BY <1>13, HandlerWithdraws
<1> QED BY <1>4, <1>5, <1>6, <1>7, <1>8, <1>9, <1>10, <1>11, <1>12, <1>13 DEF HandlerNext

-----------------------------------------------------------------------------
(* The main thread                                                          *)

\* Those inside have a slot of their own: while main holds a slot that has no
\* thread yet, there is space for one more.
LEMMA SpaceForOne ==
    ASSUME RunsInv, NEW new \in Slots, handler_pc[new] = "none"
    PROVE  Cardinality(Room!Inside) < MaxClients
<1> PICK Inside : Inside = Room!Inside
  OBVIOUS
<1> DEFINE f == [c \in Inside |-> SlotOf(c)]
<1>1. Inside = {c \in Conns : Seated(c)}
  BY InsideSeated
<1>2. ASSUME NEW c \in Inside PROVE SlotOf(c) \in Slots \ {new} /\ owner[SlotOf(c)] = c
  <2>1. PICK s \in Slots : owner[s] = c /\ handler_pc[s] # "none"
    BY <1>1, <1>2 DEF Seated
  <2>2. \A t \in Slots : owner[t] = c => t = s
    BY <1>1, <1>2, <2>1, SentinelAssumption DEF RunsInv, OwnerInv
  <2>3. SlotOf(c) = s
    BY <2>1, <2>2 DEF SlotOf
  <2> QED BY <2>1, <2>3
<1>3. f \in Injection(Inside, Slots \ {new})
  <2>1. f \in [Inside -> Slots \ {new}]
    BY <1>2
  <2>2. \A c, d \in Inside : f[c] = f[d] => c = d
    BY <1>2
  <2> HIDE DEF f
  <2> QED BY <2>1, <2>2 DEF Injection, IsInjective
<1>4. IsFiniteSet(Slots) /\ Cardinality(Slots) = MaxClients /\ MaxClients \in Nat
  <2>1. MaxClients \in 1 .. 63
    BY ConstantsAssumption
  <2>2. 0 \in Int /\ MaxClients - 1 \in Int
    BY <2>1
  <2>3. /\ IsFiniteSet(0 .. MaxClients - 1)
        /\ Cardinality(0 .. MaxClients - 1) = IF 0 > MaxClients - 1 THEN 0 ELSE (MaxClients - 1) - 0 + 1
    BY <2>2, FS_Interval
  <2> QED BY <2>1, <2>3 DEF Slots
<1>5. IsFiniteSet(Slots \ {new}) /\ Cardinality(Slots \ {new}) = MaxClients - 1
  BY <1>4, FS_RemoveElement
<1> HIDE DEF f
<1>6. Cardinality(Inside) <= Cardinality(Slots \ {new}) /\ IsFiniteSet(Inside)
  BY <1>3, <1>5, FS_Injection
<1> QED BY <1>4, <1>5, <1>6, FS_CardinalityType

\* The room counts as the server does.
LEMMA SameCardinality == \A S : Room!Cardinality(S) = Cardinality(S)
BY DEF Room!Cardinality, Cardinality

LEMMA MainEnters ==
    ASSUME RunsInv, RunsInv', UNCHANGED <<backlog, client_state, send_queue, owner>>,
           main_pc = "store_name", conn' = NoConn,
           handler_pc' = [handler_pc EXCEPT ![new_client_id] = "welcome"],
           username' = [username EXCEPT ![new_client_id] =
                            IF is_username_available THEN UserOf[conn] ELSE NoName]
    PROVE  conn \in Conns /\ Room!Enter(conn)
<1> DEFINE new == new_client_id
<1>t. /\ new \in Slots /\ handler_pc[new] = "none" /\ owner[new] = conn
      /\ conn \in Conns /\ conn # NoConn
      /\ handler_pc \in [Slots -> HandlerPCs] /\ username \in [Slots -> Names \cup {NoName}]
      /\ \A s \in Slots : owner[s] = conn => s = new
  BY ConnIsRun DEF RunsInv, TypeInv, TypeOK, MainTypeOK, ThreadsTypeOK, TableTypeOK, SlotInv, OwnerInv,
                   StoresClient, HandlesConnection
<1>1. Fresh' = Fresh
  BY DEF Fresh, InBacklog
<1>2. ~Seated(conn) /\ RoomPhase[conn] = "outside" /\ RoomName[conn] = NoName
  <2>1. ~Seated(conn)
    BY <1>t DEF Seated
  <2> QED BY <1>t, <2>1 DEF RunsInv, Seats
<1>3. \A c \in Conns : Seated(c)' <=> Seated(c) \/ c = conn
  BY <1>t DEF Seated
<1>4. /\ RoomPhase'[conn] = "entered"
      /\ RoomName'[conn] = IF is_username_available THEN UserOf[conn] ELSE NoName
  <2>1. handler_pc'[new] = "welcome" /\ owner'[new] = conn
        /\ username'[new] = IF is_username_available THEN UserOf[conn] ELSE NoName
    BY <1>t
  <2>2. RoomPhase'[conn] = PhaseOf[handler_pc'[new]] /\ RoomName'[conn] = username'[new]
    BY <1>t, <2>1 DEF RunsInv, Seats
  <2> QED BY <2>1, <2>2, PhasesOfThreads
<1>5. ASSUME NEW c \in Conns, c # conn
      PROVE  RoomPhase'[c] = RoomPhase[c] /\ RoomName'[c] = RoomName[c]
  <2>1. CASE Seated(c)
    <3>1. PICK s \in Slots : owner[s] = c /\ handler_pc[s] # "none"
      BY <2>1 DEF Seated
    <3>2. /\ s # new /\ handler_pc'[s] = handler_pc[s] /\ username'[s] = username[s]
          /\ owner'[s] = c
      BY <1>t, <1>5, <3>1
    <3>3. RoomPhase[c] = PhaseOf[handler_pc[s]] /\ RoomName[c] = username[s]
      BY <3>1 DEF RunsInv, Seats
    <3>4. RoomPhase'[c] = PhaseOf[handler_pc'[s]] /\ RoomName'[c] = username'[s]
      BY <3>1, <3>2 DEF RunsInv, Seats
    <3> QED BY <3>2, <3>3, <3>4
  <2>2. CASE ~Seated(c)
    <3>1. ~Seated(c)'
      BY <1>3, <1>5, <2>2
    <3>2. /\ RoomPhase[c] = IF c \in Fresh \cup {conn} THEN "outside" ELSE "gone"
          /\ RoomName[c] = NoName
      BY <2>2 DEF RunsInv, Seats
    <3>3. /\ RoomPhase'[c] = IF c \in Fresh' \cup {conn'} THEN "outside" ELSE "gone"
          /\ RoomName'[c] = NoName
      BY <3>1 DEF RunsInv, Seats
    <3> QED BY <1>1, <1>5, <3>2, <3>3, SentinelAssumption
  <2> QED BY <2>1, <2>2
<1>6. Room!Move({conn}, "entered")
  <2>1. \A c \in Conns : RoomPhase'[c] = IF c \in {conn} THEN "entered" ELSE RoomPhase[c]
    BY <1>4, <1>5
  <2>2. RoomPhase' = [c \in Conns |-> RoomPhase'[c]]
    BY DEF RoomPhase
  <2>3. RoomPhase' = [c \in Conns |-> IF c \in {conn} THEN "entered" ELSE RoomPhase[c]]
    BY <2>1, <2>2
  <2> QED BY <2>3 DEF Room!Move
<1>7. /\ RoomName' = [c \in Conns |-> RoomName'[c]]
      /\ RoomName = [c \in Conns |-> RoomName[c]]
  BY DEF RoomName
<1>c. Room!Cardinality(Room!Inside) < MaxClients
  BY <1>t, SpaceForOne, SameCardinality
<1>8. CASE is_username_available
  <2>1. RoomName' = [RoomName EXCEPT ![conn] = UserOf[conn]]
    BY <1>4, <1>5, <1>7, <1>8
  <2>2. ASSUME NEW d \in Room!Inside PROVE RoomName[d] # UserOf[conn]
    <3>1. d \in Conns /\ Seated(d)
      BY InsideSeated
    <3>2. PICK s \in Slots : owner[s] = d /\ handler_pc[s] # "none"
      BY <3>1 DEF Seated
    <3>3. is_valid[s] /\ RoomName[d] = username[s]
      BY <3>2 DEF RunsInv, SlotInv, Seats
    <3>4. GetClientByUsername(UserOf[conn]) = {}
      BY <1>8 DEF RunsInv, NameInv, StoresClient
    <3> QED BY <3>3, <3>4 DEF GetClientByUsername
  <2> QED BY <1>c, <1>t, <1>2, <1>6, <2>1, <2>2 DEF Room!Enter
<1>9. CASE ~is_username_available
  <2>1. RoomName' = RoomName
    BY <1>2, <1>4, <1>5, <1>7, <1>9
  <2> QED BY <1>c, <1>t, <1>2, <1>6, <2>1 DEF Room!Enter
<1> QED BY <1>8, <1>9

\* A run whose slot is given back is gone for good.
LEMMA MainForgets ==
    ASSUME RunsInv, RunsInv', NEW s \in Slots, handler_pc[s] = "done_ok",
           UNCHANGED <<backlog, client_state, conn, send_queue>>, main_pc = "loop",
           ResetClient(s), handler_pc' = [handler_pc EXCEPT ![s] = "none"]
    PROVE  owner[s] \in Conns /\ Room!Forget(owner[s])
<1> DEFINE c == owner[s]
<1>t. /\ c \in Conns /\ RoomPhase[c] = PhaseOf[handler_pc[s]]
      /\ handler_pc \in [Slots -> HandlerPCs] /\ username \in [Slots -> Names \cup {NoName}]
      /\ owner \in [Slots -> Conns \cup {NoConn}]
      /\ \A t \in Slots : owner[t] = c => t = s
      /\ c \notin Fresh /\ conn = NoConn
  BY SentinelAssumption DEF RunsInv, Seats, TypeInv, TypeOK, ThreadsTypeOK, TableTypeOK, OwnerInv,
                            HandlesConnection
<1>1. Fresh' = Fresh
  BY DEF Fresh, InBacklog
<1>2. RoomPhase[c] = "ended"
  BY <1>t, PhasesOfThreads DEF Finished
<1>3. \A d \in Conns : Seated(d)' <=> Seated(d) /\ d # c
  <2>1. \A t \in Slots : /\ handler_pc'[t] = IF t = s THEN "none" ELSE handler_pc[t]
                         /\ owner'[t] = IF t = s THEN NoConn ELSE owner[t]
    BY <1>t DEF ResetClient
  <2> QED BY <1>t, <2>1, SentinelAssumption DEF Seated
<1>4. RoomPhase'[c] = "gone" /\ RoomName'[c] = NoName
  BY <1>t, <1>1, <1>3, SentinelAssumption DEF RunsInv, Seats
<1>5. ASSUME NEW d \in Conns, d # c
      PROVE  RoomPhase'[d] = RoomPhase[d] /\ RoomName'[d] = RoomName[d]
  <2>1. CASE Seated(d)
    <3>1. PICK t \in Slots : owner[t] = d /\ handler_pc[t] # "none"
      BY <2>1 DEF Seated
    <3>2. /\ t # s /\ handler_pc'[t] = handler_pc[t] /\ username'[t] = username[t]
          /\ owner'[t] = d
      BY <1>t, <1>5, <3>1 DEF ResetClient
    <3>3. RoomPhase[d] = PhaseOf[handler_pc[t]] /\ RoomName[d] = username[t]
      BY <3>1 DEF RunsInv, Seats
    <3>4. RoomPhase'[d] = PhaseOf[handler_pc'[t]] /\ RoomName'[d] = username'[t]
      BY <3>1, <3>2 DEF RunsInv, Seats
    <3> QED BY <3>2, <3>3, <3>4
  <2>2. CASE ~Seated(d)
    <3>1. ~Seated(d)'
      BY <1>3, <2>2
    <3>2. /\ RoomPhase[d] = IF d \in Fresh \cup {conn} THEN "outside" ELSE "gone"
          /\ RoomName[d] = NoName
      BY <2>2 DEF RunsInv, Seats
    <3>3. /\ RoomPhase'[d] = IF d \in Fresh' \cup {conn'} THEN "outside" ELSE "gone"
          /\ RoomName'[d] = NoName
      BY <3>1 DEF RunsInv, Seats
    <3> QED BY <1>1, <3>2, <3>3
  <2> QED BY <2>1, <2>2
<1> HIDE DEF c
<1>6. Room!Move({c}, "gone")
  <2>1. \A d \in Conns : RoomPhase'[d] = IF d \in {c} THEN "gone" ELSE RoomPhase[d]
    BY <1>4, <1>5
  <2>2. RoomPhase' = [d \in Conns |-> RoomPhase'[d]]
    BY DEF RoomPhase
  <2>3. RoomPhase' = [d \in Conns |-> IF d \in {c} THEN "gone" ELSE RoomPhase[d]]
    BY <2>1, <2>2
  <2> QED BY <2>3 DEF Room!Move
<1>7. RoomName' = [RoomName EXCEPT ![c] = NoName]
  <2>1. /\ RoomName' = [d \in Conns |-> RoomName'[d]]
        /\ RoomName = [d \in Conns |-> RoomName[d]]
    BY DEF RoomName
  <2> QED BY <1>4, <1>5, <2>1
<1>8. c \in Conns /\ Room!Forget(c)
  BY <1>t, <1>2, <1>6, <1>7 DEF Room!Forget
<1> QED BY <1>8 DEF c

LEMMA MainInRoom ==
    ASSUME RunsInv, RunsInv', MainNext
    PROVE  Room!TurnAway \/ \E c \in Conns : Room!Enter(c) \/ Room!Forget(c)
<1>f. Fresh' \subseteq Fresh
  BY BacklogStep DEF RunsInv, Next
<1>t. /\ SlotInv /\ \A s \in Slots : ~is_valid[s] => handler_pc[s] = "none"
      /\ owner \in [Slots -> Conns \cup {NoConn}] /\ username \in [Slots -> Names \cup {NoName}]
      /\ handler_pc \in [Slots -> HandlerPCs] /\ NoConn \notin Conns /\ new_client_id \in Slots
  BY SentinelAssumption DEF RunsInv, TypeInv, TypeOK, MainTypeOK, TableTypeOK, ThreadsTypeOK, SlotInv
<1>p. ASSUME UNCHANGED <<send_queue, handler_pc>>, conn' \in {conn, NoConn},
             \A s \in Slots : handler_pc[s] # "none" =>
                 owner'[s] = owner[s] /\ username'[s] = username[s]
      PROVE  Room!TurnAway
  BY <1>f, <1>p, <1>t, Passive
<1> USE DEF localVars, tableVars, queueVars
<1>0. CASE HandleParameters \/ InitializeWinSock2 \/ InitializeServer \/ WaitForEventFails
  BY <1>0, <1>p DEF HandleParameters, InitializeWinSock2, InitializeServer, WaitForEventFails
<1>1. CASE CreateSenderThread \/ InitializeListenerSocket \/ AcceptFails
  BY <1>1, <1>p DEF CreateSenderThread, InitializeListenerSocket, AcceptFails
<1>2. ASSUME NEW h \in Handles, AcceptConnection(h) PROVE Room!TurnAway
  <2>1. conn' = Head(backlog) /\ Head(backlog) \in Fresh
    BY <1>2, BacklogTaken DEF AcceptConnection, RunsInv
  <2>2. UNCHANGED <<send_queue, handler_pc, owner, username>>
    BY <1>2 DEF AcceptConnection
  <2> QED BY <1>f, <2>1, <2>2, Passive
<1>3. CASE LoginReceiveFails \/ LookupUsername \/ NoSlotAvailable
  BY <1>3, <1>p DEF LoginReceiveFails, LookupUsername, NoSlotAvailable, ConnectionFails, DropLocals
<1>4. ASSUME NEW r \in Requests, ReceiveLogin(r) PROVE Room!TurnAway
  BY <1>4, <1>p DEF ReceiveLogin, ConnectionFails, DropLocals
<1>5. CASE RefuseLogin \/ RefuseNoSlot
  BY <1>5, <1>p DEF RefuseLogin, RefuseNoSlot, ConnectionFails, ConnectionHandled, DropLocals
<1>6. ASSUME NEW s \in Slots, AllocateClientContainer(s) PROVE Room!TurnAway
  BY <1>6, <1>p DEF AllocateClientContainer
<1>7. CASE StoreSocket
  BY <1>7, <1>p, <1>t DEF StoreSocket, SlotInv, StoresClient
<1>8. CASE StoreNameAndStart
  <2>1. CASE UNCHANGED handler_pc
    BY <1>8, <1>p, <1>t, <2>1
       DEF StoreNameAndStart, ConnectionFails, ConnectionHandled, DropLocals, SlotInv, StoresClient
  <2>2. CASE handler_pc' # handler_pc
    <3>1. conn \in Conns /\ Room!Enter(conn)
      BY <1>8, <2>2, MainEnters DEF StoreNameAndStart, ConnectionHandled, DropLocals
    <3> QED BY <3>1
  <2> QED BY <2>1, <2>2
<1>9. ASSUME NEW s \in Slots, HandleThreadFinalization(s)
      PROVE  Room!TurnAway \/ \E c \in Conns : Room!Forget(c)
  <2>1. CASE handler_pc[s] = "done_ok"
    <3>1. owner[s] \in Conns /\ Room!Forget(owner[s])
      BY <1>9, <2>1, MainForgets DEF HandleThreadFinalization, WaitForEvent, netVars
    <3> QED BY <3>1
  <2>2. CASE handler_pc[s] # "done_ok"
    BY <1>9, <1>p, <2>2 DEF HandleThreadFinalization
  <2> QED BY <2>1, <2>2
<1>10. CASE SetExitSender \/ SignalSender \/ JoinSender \/ CloseListener \/ FreeQueue
           \/ FreeClients \/ ExitProcess
  BY <1>10, <1>p DEF SetExitSender, SignalSender, JoinSender, CloseListener, FreeQueue, FreeClients,
                     ExitProcess
<1> QED BY <1>0, <1>1, <1>2, <1>3, <1>4, <1>5, <1>6, <1>7, <1>8, <1>9, <1>10 DEF MainNext

-----------------------------------------------------------------------------
(* The room                                                                 *)

LEMMA RoomInit == Init => Room!Init
<1> SUFFICES ASSUME Init PROVE Room!Init
  OBVIOUS
<1>1. \A c \in Conns : ~Seated(c) /\ c \in Fresh
  BY DEF Init, Seated, Fresh
<1> QED BY <1>1 DEF Init, Room!Init, RoomPhase, RoomName

LEMMA RoomStep == RunsInv /\ RunsInv' /\ [Next]_vars => [Room!Next]_(Room!vars)
<1> SUFFICES ASSUME RunsInv, RunsInv', [Next]_vars PROVE Room!Next
  OBVIOUS
<1>1. CASE MainNext
  BY <1>1, MainInRoom DEF Room!Next
<1>2. CASE SenderNext
  BY <1>2, SenderInRoom DEF Room!Next
<1>3. ASSUME NEW s \in Slots, HandlerNext(s) PROVE Room!Next
  BY <1>3, HandlerInRoom DEF Room!Next
<1>4. CASE (\E c \in Conns : LoginNext(c) \/ ClientNext(c)) \/ UNCHANGED vars
  BY <1>4, ClientsInRoom DEF Room!Next
<1> QED BY <1>1, <1>2, <1>3, <1>4 DEF Next, Terminated

\* Server, sender and handlers implement the room, for every number of slots,
\* clients and sockets and whatever fails: no interleaving of their steps lets
\* a run in twice, beyond the table's size (Server.c:640) or under a name in
\* use (Server.c:643, :754), announces it out of turn or under a name it does
\* not have (ClientHandler.c:221), or sends what is queued in another order
\* (Sender.c:54).
THEOREM ServerIsRoom == Spec => ImplementsRoom
<1>1. RunsInv /\ RunsInv' /\ [Next]_vars => [Room!Next]_(Room!vars)
  BY RoomStep
<1> QED BY <1>1, RoomInit, RunsInvariant, PTL DEF Spec, ImplementsRoom, Room!Spec
=============================================================================
