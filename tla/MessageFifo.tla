----------------------------- MODULE MessageFifo -----------------------------
(***************************************************************************)
(* What src/server/common/SynchronizedQueue.h promises the threads of the  *)
(* server: every call of Enqueue or Dequeue takes effect at one instant    *)
(* between its call and its return, on a queue of entries.  ChatServer     *)
(* takes these instants as its steps.                                      *)
(***************************************************************************)
EXTENDS Sequences

CONSTANTS
    Producers,      \* the threads that call Enqueue: the client handlers
    Consumers,      \* the threads that call Dequeue: the sender
    Entries

VARIABLES
    fifo,           \* the entries queued, oldest first
    calling,        \* calling[t]: "no", "enqueue" or "dequeue"
    argument,       \* argument[t]: the entry producer t enqueues
    outcome         \* outcome[t]: what its call came to

vars == <<fifo, calling, argument, outcome>>

Threads == Producers \cup Consumers

Pending == [what |-> "pending"]
Returns(what) == [what |-> what]
ReturnsEntry(e) == [what |-> "entry", entry |-> e]

Init ==
    /\ fifo = <<>>
    /\ calling = [t \in Threads |-> "no"]
    /\ argument \in [Producers -> Entries]
    /\ outcome = [t \in Threads |-> Pending]

CallEnqueue(t, e) ==
    /\ calling[t] = "no"
    /\ calling' = [calling EXCEPT ![t] = "enqueue"]
    /\ argument' = [argument EXCEPT ![t] = e]
    /\ UNCHANGED <<fifo, outcome>>

CallDequeue(t) ==
    /\ calling[t] = "no"
    /\ calling' = [calling EXCEPT ![t] = "dequeue"]
    /\ UNCHANGED <<fifo, argument, outcome>>

TakesEffect(t, call, result) ==
    /\ calling[t] = call /\ outcome[t] = Pending
    /\ outcome' = [outcome EXCEPT ![t] = result]
    /\ UNCHANGED <<calling, argument>>

Put(t) ==
    /\ TakesEffect(t, "enqueue", Returns("done"))
    /\ fifo' = Append(fifo, argument[t])

\* Enqueue may run out of memory; the queue is then as it was.
PutFails(t) ==
    /\ TakesEffect(t, "enqueue", Returns("failed"))
    /\ UNCHANGED fifo

Take(t) ==
    /\ fifo # <<>>
    /\ TakesEffect(t, "dequeue", ReturnsEntry(Head(fifo)))
    /\ fifo' = Tail(fifo)

FindEmpty(t) ==
    /\ fifo = <<>>
    /\ TakesEffect(t, "dequeue", Returns("empty"))
    /\ UNCHANGED fifo

Return(t) ==
    /\ outcome[t] # Pending
    /\ calling' = [calling EXCEPT ![t] = "no"]
    /\ outcome' = [outcome EXCEPT ![t] = Pending]
    /\ UNCHANGED <<fifo, argument>>

Next ==
    \/ \E t \in Producers :
           \/ \E e \in Entries : CallEnqueue(t, e)
           \/ Put(t) \/ PutFails(t) \/ Return(t)
    \/ \E t \in Consumers : CallDequeue(t) \/ Take(t) \/ FindEmpty(t) \/ Return(t)

Spec == Init /\ [][Next]_vars
=============================================================================
