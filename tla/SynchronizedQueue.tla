-------------------------- MODULE SynchronizedQueue --------------------------
(***************************************************************************)
(* SynchronizedQueue.c on LinkedList.c, pointer by pointer: the threads of *)
(* the server share a doubly linked list under queue_mutex.  A node that   *)
(* was freed may be handed out again by malloc; what it held is still      *)
(* readable through a pointer kept too long.                               *)
(***************************************************************************)
EXTENDS Naturals, Sequences, FiniteSets

CONSTANTS
    Producers,      \* client handlers
    Consumers,      \* the sender
    Entries,        \* messages
    Nodes,          \* bound: the heap's list nodes; malloc fails when all are in use
    NULL, NoThread

ASSUME PointersAssumption == NULL \notin Nodes /\ "open" \notin Nodes \cup {NULL}

ASSUME HeapAssumption == IsFiniteSet(Nodes)

ASSUME ThreadsAssumption ==
    Producers \cap Consumers = {} /\ NoThread \notin Producers \cup Consumers

Threads == Producers \cup Consumers
Pointers == Nodes \cup {NULL}

VARIABLES
    head, tail,                 \* LinkedList
    next, prev, entry,          \* ListNode, by address
    allocated,                  \* the nodes malloc has given out
    queue_mutex,
    pc, data, node,             \* of each thread: where it is, the entry, new_entry or node
    walk                        \* FreeLinkedList: its "entry", or "open" before it runs

listVars == <<head, tail, next, prev, entry, allocated>>
vars == <<listVars, queue_mutex, pc, data, node, walk>>

Init ==
    /\ head = NULL /\ tail = NULL
    /\ next = [n \in Nodes |-> NULL]
    /\ prev = [n \in Nodes |-> NULL]
    /\ \E e \in Entries : entry = [n \in Nodes |-> e]
    /\ allocated = {}
    /\ queue_mutex = NoThread
    /\ pc = [t \in Threads |-> "idle"]
    /\ \E e \in Entries : data = [t \in Threads |-> e]
    /\ node = [t \in Threads |-> NULL]
    /\ walk = "open"

Goto(t, from, to) == pc[t] = from /\ pc' = [pc EXCEPT ![t] = to]

-----------------------------------------------------------------------------
(* Enqueue and AddLinkedListEntry                                          *)

CallEnqueue(t, e) ==
    /\ walk = "open"
    /\ Goto(t, "idle", "lock")
    /\ data' = [data EXCEPT ![t] = e]
    /\ UNCHANGED <<listVars, queue_mutex, node, walk>>

\* Mutant: the mutex is not waited for.
TakeMutex(t) == queue_mutex' = t

\* WaitForSingleObject(queue_mutex, INFINITE)
WaitForMutex(t) == queue_mutex = NoThread /\ queue_mutex' = t

LockQueue(t) ==
    /\ Goto(t, "lock", IF t \in Producers THEN "malloc" ELSE "first")
    /\ WaitForMutex(t)
    /\ UNCHANGED <<listVars, data, node, walk>>

AllocateEntry(t) ==
    /\ \/ /\ Goto(t, "malloc", "link_tail")
          /\ \E n \in Nodes \ allocated :
                 /\ allocated' = allocated \cup {n}
                 /\ node' = [node EXCEPT ![t] = n]
                 /\ entry' = [entry EXCEPT ![n] = data[t]]
                 /\ next' = [next EXCEPT ![n] = NULL]
                 /\ prev' = [prev EXCEPT ![n] = tail]
       \/ /\ Goto(t, "malloc", "failed")
          /\ UNCHANGED <<allocated, node, entry, next, prev>>
    /\ UNCHANGED <<head, tail, queue_mutex, data, walk>>

LinkTail(t) ==
    /\ Goto(t, "link_tail", "link_head")
    /\ tail' = node[t]
    /\ UNCHANGED <<head, next, prev, entry, allocated, queue_mutex, data, node, walk>>

LinkHead(t) ==
    /\ Goto(t, "link_head", "unlock")
    /\ IF head = NULL
       THEN head' = node[t] /\ UNCHANGED next
       ELSE next' = [next EXCEPT ![prev[node[t]]] = node[t]] /\ UNCHANGED head
    /\ UNCHANGED <<tail, prev, entry, allocated, queue_mutex, data, node, walk>>

-----------------------------------------------------------------------------
(* Dequeue and RemoveFirstEntry                                            *)

CallDequeue(t) ==
    /\ walk = "open"
    /\ Goto(t, "idle", "lock")
    /\ UNCHANGED <<listVars, queue_mutex, data, node, walk>>

TakeFirst(t) ==
    /\ \/ head = NULL /\ Goto(t, "first", "empty") /\ UNCHANGED <<data, node>>
       \/ /\ head # NULL /\ Goto(t, "first", "advance")
          /\ node' = [node EXCEPT ![t] = head]
          /\ data' = [data EXCEPT ![t] = entry[head]]
    /\ UNCHANGED <<listVars, queue_mutex, walk>>

AdvanceHead(t) ==
    /\ Goto(t, "advance", "unlink")
    /\ head' = next[head]
    /\ UNCHANGED <<tail, next, prev, entry, allocated, queue_mutex, data, node, walk>>

\* Mutant: an emptied list keeps its tail.
KeepTail == UNCHANGED tail

ResetTail == tail' = NULL

UnlinkFirst(t) ==
    /\ Goto(t, "unlink", "free")
    /\ IF head # NULL
       THEN prev' = [prev EXCEPT ![head] = NULL] /\ UNCHANGED tail
       ELSE ResetTail /\ UNCHANGED prev
    /\ UNCHANGED <<head, next, entry, allocated, queue_mutex, data, node, walk>>

\* Mutant: what is freed is head, after it has moved on.
FreeHead(n) == allocated' = allocated \ {head}

Free(n) == allocated' = allocated \ {n}

FreeFirst(t) ==
    /\ Goto(t, "free", "unlock")
    /\ Free(node[t])
    /\ UNCHANGED <<head, tail, next, prev, entry, queue_mutex, data, node, walk>>

-----------------------------------------------------------------------------
\* The _finally block, and the return: "unlock" is a success, "empty" a
\* success with is_empty, "failed" a failure.
UnlockQueue(t) ==
    /\ \E from \in {"unlock", "empty", "failed"} : Goto(t, from, "idle")
    /\ queue_mutex' = NoThread
    /\ node' = [node EXCEPT ![t] = NULL]
    /\ UNCHANGED <<listVars, data, walk>>

\* FreeSynchronizedQueue, when no thread uses the queue any more: the walk of
\* FreeLinkedList.  The entries are left to their owners.
FreeSynchronizedQueue ==
    /\ walk = "open"
    /\ \A t \in Threads : pc[t] = "idle"
    /\ walk' = head
    /\ UNCHANGED <<listVars, queue_mutex, pc, data, node>>

FreeListEntry ==
    /\ walk \in Nodes
    /\ walk' = next[walk]
    /\ allocated' = allocated \ {walk}
    /\ UNCHANGED <<head, tail, next, prev, entry, queue_mutex, pc, data, node>>

Freed == walk = NULL /\ UNCHANGED vars

EnqueueNext(t) ==
    \/ \E e \in Entries : CallEnqueue(t, e)
    \/ AllocateEntry(t) \/ LinkTail(t) \/ LinkHead(t)

DequeueNext(t) ==
    CallDequeue(t) \/ TakeFirst(t) \/ AdvanceHead(t) \/ UnlinkFirst(t) \/ FreeFirst(t)

Next ==
    \/ \E t \in Producers : EnqueueNext(t)
    \/ \E t \in Consumers : DequeueNext(t)
    \/ \E t \in Threads : LockQueue(t) \/ UnlockQueue(t)
    \/ FreeSynchronizedQueue \/ FreeListEntry \/ Freed

Spec == Init /\ [][Next]_vars

-----------------------------------------------------------------------------
(* The list                                                                *)

\* Sequences of different nodes.
NodeSeqs ==
    UNION {{s \in [1 .. n -> Nodes] : \A i, j \in 1 .. n : s[i] = s[j] => i = j} :
               n \in 0 .. Cardinality(Nodes)}

NodesOf(s) == {s[i] : i \in 1 .. Len(s)}
First(s) == IF s = <<>> THEN NULL ELSE s[1]
Last(s) == IF s = <<>> THEN NULL ELSE s[Len(s)]

Leads(from, pointers, s) ==
    /\ from = First(s)
    /\ \A i \in 1 .. Len(s) : pointers[s[i]] = IF i = Len(s) THEN NULL ELSE s[i + 1]

\* s is what head and the next pointers lead to, prev leads back.
NextLeads(s) == Leads(head, next, s)
PrevLeads(s) == \A i \in 2 .. Len(s) : prev[s[i]] = s[i - 1]

IsList(s) ==
    /\ NextLeads(s) /\ PrevLeads(s)
    /\ tail = Last(s)
    /\ s # <<>> => prev[s[1]] = NULL

\* Whenever the mutex is free the list reads backwards what it reads forwards,
\* and it holds every node allocated: AddLinkedListEntry and RemoveFirstEntry
\* keep head, tail, next and prev together, though each sets them one by one.
WellLinked ==
    queue_mutex = NoThread /\ walk = "open" =>
        \E s \in NodeSeqs : IsList(s) /\ allocated = NodesOf(s)

\* Every node is freed once: what RemoveFirstEntry and each step of
\* FreeLinkedList's walk are about to free is still allocated, and when the walk
\* is over none is.
FreedOnce ==
    /\ \A t \in Consumers : pc[t] = "free" => node[t] \in allocated
    /\ walk \in Nodes => walk \in allocated
    /\ walk = NULL => allocated = {}

-----------------------------------------------------------------------------
(* Refinement                                                              *)

\* The nodes the pointers lead to; there is one such sequence, if any.
ListFrom(from, pointers) ==
    IF \E s \in NodeSeqs : Leads(from, pointers, s)
    THEN CHOOSE s \in NodeSeqs : Leads(from, pointers, s)
    ELSE <<>>

EntriesOf(s, contents) == [i \in 1 .. Len(s) |-> contents[s[i]]]

Contents == EntriesOf(ListFrom(head, next), entry)

\* An Enqueue takes effect when the new node becomes reachable from head, a
\* Dequeue when head moves on or is seen to be NULL.
CallOf(t) ==
    IF pc[t] = "idle" THEN "no" ELSE IF t \in Producers THEN "enqueue" ELSE "dequeue"

OutcomeOf(t) ==
    IF pc[t] \in {"empty", "failed"} THEN [what |-> pc[t]]
    ELSE IF pc[t] = "unlock" /\ t \in Producers THEN [what |-> "done"]
    ELSE IF pc[t] \in {"unlink", "free", "unlock"} THEN [what |-> "entry", entry |-> data[t]]
    ELSE [what |-> "pending"]

Calls == [t \in Threads |-> CallOf(t)]
Arguments == [t \in Producers |-> data[t]]
Outcomes == [t \in Threads |-> OutcomeOf(t)]

Fifo == INSTANCE MessageFifo WITH
            fifo <- Contents, calling <- Calls, argument <- Arguments, outcome <- Outcomes

\* Threads that share the queue see a queue of messages and nothing of the
\* list: the linearizability that ChatServer relies on.
ImplementsFifo == Fifo!Spec

-----------------------------------------------------------------------------
(* Inductive strengthenings                                                *)

ProducerPCs == {"idle", "lock", "malloc", "link_tail", "link_head", "unlock", "failed"}
ConsumerPCs == {"idle", "lock", "first", "advance", "unlink", "free", "unlock", "empty"}

TypeInv ==
    /\ head \in Pointers /\ tail \in Pointers
    /\ next \in [Nodes -> Pointers] /\ prev \in [Nodes -> Pointers]
    /\ entry \in [Nodes -> Entries]
    /\ allocated \subseteq Nodes
    /\ queue_mutex \in Threads \cup {NoThread}
    /\ \A t \in Producers : pc[t] \in ProducerPCs
    /\ \A t \in Consumers : pc[t] \in ConsumerPCs
    /\ pc \in [Threads -> ProducerPCs \cup ConsumerPCs]
    /\ data \in [Threads -> Entries]
    /\ node \in [Threads -> Pointers]
    /\ walk \in Pointers \cup {"open"}

\* The mutex belongs to the one thread that is past WaitForSingleObject.
OneThread ==
    /\ \A t \in Threads : pc[t] \notin {"idle", "lock"} <=> queue_mutex = t
    /\ walk # "open" => \A t \in Threads : pc[t] = "idle"

Owner(pcs) == queue_mutex # NoThread /\ pc[queue_mutex] \in pcs

\* The node of the owner that is allocated and in no list.
Loose ==
    IF Owner({"link_tail", "link_head", "unlink", "free"}) THEN {node[queue_mutex]} ELSE {}

\* What the two functions have made of the list s when the owner is where it is.
Shape(s) ==
    /\ NextLeads(s) /\ PrevLeads(s)
    /\ tail = IF Owner({"link_head"}) \/ (Owner({"unlink"}) /\ s = <<>>)
              THEN node[queue_mutex] ELSE Last(s)
    /\ s # <<>> => prev[s[1]] = IF Owner({"unlink"}) THEN node[queue_mutex] ELSE NULL
    /\ Loose \subseteq Nodes \ NodesOf(s)
    /\ Owner({"link_tail", "link_head"}) =>
           /\ next[node[queue_mutex]] = NULL
           /\ prev[node[queue_mutex]] = Last(s)
           /\ entry[node[queue_mutex]] = data[queue_mutex]
    /\ Owner({"advance"}) =>
           head # NULL /\ node[queue_mutex] = head /\ data[queue_mutex] = entry[head]
    /\ walk = "open" => allocated = NodesOf(s) \cup Loose
    /\ walk # "open" =>
           \E k \in 1 .. Len(s) + 1 :
               /\ walk = IF k = Len(s) + 1 THEN NULL ELSE s[k]
               /\ allocated = {s[i] : i \in k .. Len(s)}

QueueInv == TypeInv /\ OneThread /\ \E s \in NodeSeqs : Shape(s)
=============================================================================
