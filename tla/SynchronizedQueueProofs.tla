----------------------- MODULE SynchronizedQueueProofs -----------------------
(* Theorems about the synchronized queue, for every number of threads,       *)
(* messages and list nodes.                                                  *)
EXTENDS SynchronizedQueue, SequenceTheorems, FiniteSetTheorems, FunctionTheorems,
        WellFoundedInduction, TLAPS

-----------------------------------------------------------------------------
(* Sequences of different nodes                                             *)

LEMMA NodeSeqIsSeq ==
    ASSUME NEW s
    PROVE  s \in NodeSeqs <=>
               s \in Seq(Nodes) /\ \A i, j \in 1 .. Len(s) : s[i] = s[j] => i = j
<1>1. ASSUME s \in NodeSeqs
      PROVE  s \in Seq(Nodes) /\ \A i, j \in 1 .. Len(s) : s[i] = s[j] => i = j
  <2>1. PICK n \in 0 .. Cardinality(Nodes) :
            s \in [1 .. n -> Nodes] /\ \A i, j \in 1 .. n : s[i] = s[j] => i = j
    BY <1>1 DEF NodeSeqs
  <2>2. n \in Nat /\ s \in Seq(Nodes)
    BY <2>1, FS_CardinalityType, HeapAssumption
  <2>3. Len(s) = n
    BY <2>1, <2>2
  <2> QED BY <2>1, <2>2, <2>3
<1>2. ASSUME s \in Seq(Nodes), \A i, j \in 1 .. Len(s) : s[i] = s[j] => i = j
      PROVE  s \in NodeSeqs
  <2>1. Len(s) \in Nat /\ s \in [1 .. Len(s) -> Nodes]
    BY <1>2, LenProperties
  <2>2. s \in Injection(1 .. Len(s), Nodes)
    BY <1>2, <2>1 DEF Injection, IsInjective
  <2>3. Len(s) <= Cardinality(Nodes)
    BY <2>1, <2>2, FS_Injection, FS_Interval, HeapAssumption
  <2>4. Cardinality(Nodes) \in Nat
    BY FS_CardinalityType, HeapAssumption
  <2> QED BY <1>2, <2>1, <2>3, <2>4 DEF NodeSeqs
<1> QED BY <1>1, <1>2

LEMMA NodeSeqAppend ==
    ASSUME NEW s \in NodeSeqs, NEW n \in Nodes \ NodesOf(s)
    PROVE  /\ Append(s, n) \in NodeSeqs
           /\ Len(s) \in Nat /\ Len(Append(s, n)) = Len(s) + 1
           /\ \A i \in 1 .. Len(s) : Append(s, n)[i] = s[i]
           /\ Append(s, n)[Len(s) + 1] = n
           /\ NodesOf(Append(s, n)) = NodesOf(s) \cup {n}
<1>1. s \in Seq(Nodes) /\ \A i, j \in 1 .. Len(s) : s[i] = s[j] => i = j
  BY NodeSeqIsSeq
<1> DEFINE a == Append(s, n)
<1>2. /\ a \in Seq(Nodes) /\ Len(s) \in Nat /\ Len(a) = Len(s) + 1
      /\ \A i \in 1 .. Len(s) : a[i] = s[i]
      /\ a[Len(s) + 1] = n
  BY <1>1, AppendProperties, LenProperties
<1> HIDE DEF a
<1>3. \A i \in 1 .. Len(s) : s[i] # n
  BY DEF NodesOf
<1>4. a \in NodeSeqs
  <2>1. \A i, j \in 1 .. Len(a) : a[i] = a[j] => i = j
    BY <1>1, <1>2, <1>3
  <2> QED BY <1>2, <2>1, NodeSeqIsSeq
<1>5. NodesOf(a) = NodesOf(s) \cup {n}
  BY <1>2 DEF NodesOf
<1> QED BY <1>2, <1>4, <1>5 DEF a

LEMMA NodeSeqTail ==
    ASSUME NEW s \in NodeSeqs, s # <<>>
    PROVE  /\ Tail(s) \in NodeSeqs
           /\ Len(s) \in Nat \ {0} /\ Len(Tail(s)) = Len(s) - 1
           /\ \A i \in 1 .. Len(Tail(s)) : Tail(s)[i] = s[i + 1]
           /\ s[1] \in Nodes
           /\ NodesOf(Tail(s)) = NodesOf(s) \ {s[1]}
<1>1. s \in Seq(Nodes) /\ \A i, j \in 1 .. Len(s) : s[i] = s[j] => i = j
  BY NodeSeqIsSeq
<1> DEFINE a == Tail(s)
<1>2. /\ a \in Seq(Nodes) /\ Len(s) \in Nat \ {0} /\ Len(a) = Len(s) - 1
      /\ \A i \in 1 .. Len(a) : a[i] = s[i + 1]
      /\ s[1] \in Nodes
  BY <1>1, HeadTailProperties, EmptySeq
<1> HIDE DEF a
<1>3. a \in NodeSeqs
  <2>1. \A i, j \in 1 .. Len(a) : a[i] = a[j] => i = j
    BY <1>1, <1>2
  <2> QED BY <1>2, <2>1, NodeSeqIsSeq
<1>4. NodesOf(a) = NodesOf(s) \ {s[1]}
  <2>1. ASSUME NEW n \in NodesOf(a) PROVE n \in NodesOf(s) \ {s[1]}
    <3>1. PICK i \in 1 .. Len(a) : n = a[i]
      BY DEF NodesOf
    <3>2. i + 1 \in 1 .. Len(s) /\ n = s[i + 1] /\ i + 1 # 1
      BY <1>2, <3>1
    <3> QED BY <1>1, <1>2, <3>2 DEF NodesOf
  <2>2. ASSUME NEW n \in NodesOf(s) \ {s[1]} PROVE n \in NodesOf(a)
    <3>1. PICK i \in 1 .. Len(s) : n = s[i]
      BY DEF NodesOf
    <3>2. i - 1 \in 1 .. Len(a) /\ a[i - 1] = n
      BY <1>2, <3>1
    <3> QED BY <3>2 DEF NodesOf
  <2> QED BY <2>1, <2>2
<1> QED BY <1>2, <1>3, <1>4 DEF a

\* Following the pointers from the same place, t goes wherever s goes.
LEMMA LeadsAlong ==
    ASSUME NEW from, NEW pointers, NEW s \in NodeSeqs, NEW t \in NodeSeqs,
           Leads(from, pointers, s), Leads(from, pointers, t)
    PROVE  \A i \in 1 .. Len(s) : i <= Len(t) /\ t[i] = s[i]
<1>1. s \in Seq(Nodes) /\ t \in Seq(Nodes) /\ Len(s) \in Nat /\ Len(t) \in Nat
  BY NodeSeqIsSeq, LenProperties
<1> DEFINE Differ == {i \in 1 .. Len(s) : ~(i <= Len(t) /\ t[i] = s[i])}
<1> SUFFICES ASSUME Differ # {} PROVE FALSE
  OBVIOUS
<1>2. Differ \subseteq Nat
  BY <1>1
<1>3. PICK i \in Differ : \A j \in Differ : ~(<<j, i>> \in OpToRel(<, Nat))
  BY <1>2, WFMin, NatLessThanWellFounded
<1>4. \A j \in Differ : ~(j < i)
  BY <1>2, <1>3 DEF OpToRel
<1>5. i # 1
  <2>1. CASE i = 1
    <3>1. First(s) = s[1] /\ s[1] # NULL
      BY <1>1, <2>1, PointersAssumption, ElementOfSeq DEF First
    <3>2. t # <<>> /\ t[1] = s[1]
      BY <3>1 DEF Leads, First
    <3> QED BY <1>1, <2>1, <3>2, EmptySeq
  <2> QED BY <2>1
<1>6. i - 1 \in 1 .. Len(s) /\ i - 1 \notin Differ /\ i \in 1 .. Len(s)
  BY <1>1, <1>4, <1>5
<1>7. i - 1 \in 1 .. Len(t) /\ t[i - 1] = s[i - 1]
  BY <1>1, <1>6
<1>8. pointers[s[i - 1]] = s[i] /\ s[i] # NULL
  <2>1. i - 1 # Len(s) /\ (i - 1) + 1 = i
    BY <1>1, <1>6
  <2>2. s[i] \in Nodes
    BY <1>1, <1>6, ElementOfSeq
  <2> QED BY <1>6, <2>1, <2>2, PointersAssumption DEF Leads
<1>9. i - 1 # Len(t) /\ t[i] = s[i]
  <2>1. (i - 1) + 1 = i
    BY <1>1, <1>6
  <2> QED BY <1>7, <1>8, <2>1 DEF Leads
<1> QED BY <1>1, <1>6, <1>7, <1>9

LEMMA OneList ==
    ASSUME NEW from, NEW pointers, NEW s \in NodeSeqs, NEW t \in NodeSeqs,
           Leads(from, pointers, s), Leads(from, pointers, t)
    PROVE  s = t
<1>1. s \in Seq(Nodes) /\ t \in Seq(Nodes) /\ Len(s) \in Nat /\ Len(t) \in Nat
  BY NodeSeqIsSeq, LenProperties
<1>2. \A i \in 1 .. Len(s) : i <= Len(t) /\ t[i] = s[i]
  BY LeadsAlong
<1>3. \A i \in 1 .. Len(t) : i <= Len(s)
  BY LeadsAlong
<1>4. Len(s) = Len(t)
  <2>1. Len(s) = 0 \/ Len(s) <= Len(t)
    BY <1>1, <1>2
  <2>2. Len(t) = 0 \/ Len(t) <= Len(s)
    BY <1>1, <1>3
  <2> QED BY <1>1, <2>1, <2>2
<1> QED BY <1>1, <1>2, <1>4, SeqEqual

-----------------------------------------------------------------------------
(* Types and the mutex                                                      *)

LEMMA TypeStep == QueueInv /\ [Next]_vars => TypeInv'
<1> SUFFICES ASSUME TypeInv, QueueInv, [Next]_vars PROVE TypeInv'
  BY DEF QueueInv
<1> USE DEF TypeInv, Pointers, Threads, ProducerPCs, ConsumerPCs, Goto, listVars
<1>1. ASSUME NEW t \in Producers, EnqueueNext(t) PROVE TypeInv'
  <2>1. ASSUME NEW e \in Entries, CallEnqueue(t, e) PROVE TypeInv'
    BY <2>1, ThreadsAssumption DEF CallEnqueue
  <2>2. ASSUME AllocateEntry(t) PROVE TypeInv'
    BY <2>2, ThreadsAssumption DEF AllocateEntry
  <2>3. ASSUME LinkTail(t) PROVE TypeInv'
    BY <2>3, ThreadsAssumption DEF LinkTail
  <2>4. ASSUME LinkHead(t) PROVE TypeInv'
    BY <2>4, ThreadsAssumption DEF LinkHead
  <2> QED BY <1>1, <2>1, <2>2, <2>3, <2>4 DEF EnqueueNext
<1>2. ASSUME NEW t \in Consumers, DequeueNext(t) PROVE TypeInv'
  <2>1. ASSUME CallDequeue(t) PROVE TypeInv'
    BY <2>1, ThreadsAssumption DEF CallDequeue
  <2>2. ASSUME TakeFirst(t) PROVE TypeInv'
    BY <2>2, ThreadsAssumption DEF TakeFirst
  <2>3. ASSUME AdvanceHead(t) PROVE TypeInv'
    <3>1. head # NULL
      <4>1. pc[t] = "advance" /\ queue_mutex = t /\ t # NoThread
        BY <2>3, ThreadsAssumption DEF AdvanceHead, QueueInv, OneThread
      <4> QED BY <4>1 DEF QueueInv, Shape, Owner
    <3> QED BY <2>3, <3>1, ThreadsAssumption DEF AdvanceHead
  <2>4. ASSUME UnlinkFirst(t) PROVE TypeInv'
    BY <2>4, ThreadsAssumption DEF UnlinkFirst, ResetTail
  <2>5. ASSUME FreeFirst(t) PROVE TypeInv'
    BY <2>5, ThreadsAssumption DEF FreeFirst, Free
  <2> QED BY <1>2, <2>1, <2>2, <2>3, <2>4, <2>5 DEF DequeueNext
<1>3. ASSUME NEW t \in Threads, LockQueue(t) \/ UnlockQueue(t) PROVE TypeInv'
  <2>1. ASSUME LockQueue(t) PROVE TypeInv'
    BY <2>1, <1>3, ThreadsAssumption DEF LockQueue, WaitForMutex
  <2>2. ASSUME UnlockQueue(t) PROVE TypeInv'
    BY <2>2, <1>3, ThreadsAssumption DEF UnlockQueue
  <2> QED BY <1>3, <2>1, <2>2
<1>4. ASSUME FreeSynchronizedQueue \/ FreeListEntry PROVE TypeInv'
  BY <1>4 DEF FreeSynchronizedQueue, FreeListEntry
<1>5. ASSUME Freed \/ UNCHANGED vars PROVE TypeInv'
  BY <1>5 DEF Freed, vars
<1> QED BY <1>1, <1>2, <1>3, <1>4, <1>5 DEF Next

LEMMA MutexStep == TypeInv /\ OneThread /\ [Next]_vars => OneThread'
<1> SUFFICES ASSUME TypeInv, OneThread, [Next]_vars PROVE OneThread'
  OBVIOUS
<1> USE DEF OneThread, Goto, listVars
<1>1. ASSUME NEW t \in Threads, CallDequeue(t) \/ \E e \in Entries : CallEnqueue(t, e)
      PROVE  OneThread'
  BY <1>1 DEF CallDequeue, CallEnqueue, TypeInv
<1>2. ASSUME NEW t \in Threads, LockQueue(t) PROVE OneThread'
  <2>1. \A u \in Threads : pc[u] \in {"idle", "lock"}
    BY <1>2, ThreadsAssumption DEF LockQueue, WaitForMutex, Threads
  <2>3. pc'[t] \notin {"idle", "lock"} /\ queue_mutex' = t /\ walk = "open" /\ walk' = walk
    BY <1>2 DEF LockQueue, WaitForMutex, TypeInv
  <2>4. \A u \in Threads : u # t => pc'[u] = pc[u]
    BY <1>2 DEF LockQueue, TypeInv
  <2> QED BY <2>1, <2>3, <2>4
<1>3. ASSUME NEW t \in Threads, UnlockQueue(t) PROVE OneThread'
  BY <1>3, ThreadsAssumption DEF UnlockQueue, TypeInv, Threads
<1>4. ASSUME NEW t \in Threads,
             AllocateEntry(t) \/ LinkTail(t) \/ LinkHead(t) \/ TakeFirst(t)
                 \/ AdvanceHead(t) \/ UnlinkFirst(t) \/ FreeFirst(t)
      PROVE  OneThread'
  BY <1>4 DEF AllocateEntry, LinkTail, LinkHead, TakeFirst, AdvanceHead, UnlinkFirst, FreeFirst,
     TypeInv
<1>5. ASSUME FreeSynchronizedQueue \/ FreeListEntry PROVE OneThread'
  BY <1>5, PointersAssumption DEF FreeSynchronizedQueue, FreeListEntry, TypeInv
<1>6. ASSUME Freed \/ UNCHANGED vars PROVE OneThread'
  BY <1>6 DEF Freed, vars
<1> QED
  BY <1>1, <1>2, <1>3, <1>4, <1>5, <1>6 DEF Next, EnqueueNext, DequeueNext, Threads

-----------------------------------------------------------------------------
(* The list                                                                 *)

LEMMA NodeSeqFacts ==
    ASSUME NEW s \in NodeSeqs
    PROVE  /\ s \in Seq(Nodes) /\ Len(s) \in Nat
           /\ s # <<>> => Len(s) # 0
           /\ \A i \in 1 .. Len(s) : s[i] \in Nodes /\ s[i] \in NodesOf(s)
           /\ \A i, j \in 1 .. Len(s) : s[i] = s[j] => i = j
           /\ NodesOf(s) \subseteq Nodes
           /\ First(s) = NULL <=> s = <<>>
           /\ Last(s) = NULL <=> s = <<>>
           /\ s # <<>> => First(s) \in NodesOf(s) /\ Last(s) \in NodesOf(s)
<1>1. s \in Seq(Nodes) /\ Len(s) \in Nat /\ (s # <<>> => Len(s) # 0)
  BY NodeSeqIsSeq, LenProperties, EmptySeq
<1>2. \A i, j \in 1 .. Len(s) : s[i] = s[j] => i = j
  BY NodeSeqIsSeq
<1>3. \A i \in 1 .. Len(s) : s[i] \in Nodes /\ s[i] \in NodesOf(s)
  BY <1>1, ElementOfSeq DEF NodesOf
<1>4. NodesOf(s) \subseteq Nodes
  BY <1>3 DEF NodesOf
<1> QED BY <1>1, <1>2, <1>3, <1>4, PointersAssumption DEF First, Last

LEMMA CallShape ==
    ASSUME TypeInv, OneThread, NEW s \in NodeSeqs, Shape(s), NEW t \in Threads,
           CallDequeue(t) \/ \E e \in Entries : CallEnqueue(t, e)
    PROVE  Shape(s)'
<1>1. pc[t] = "idle" /\ t # queue_mutex
  BY DEF CallDequeue, CallEnqueue, Goto, OneThread
<1>2. \A pcs : Owner(pcs)' = Owner(pcs)
  BY <1>1 DEF Owner, CallDequeue, CallEnqueue, Goto, TypeInv
<1>3. queue_mutex # NoThread => data'[queue_mutex] = data[queue_mutex]
  BY <1>1 DEF CallDequeue, CallEnqueue, TypeInv
<1>4. UNCHANGED <<listVars, queue_mutex, node, walk>>
  BY DEF CallDequeue, CallEnqueue
<1> QED
  BY <1>2, <1>3, <1>4 DEF Shape, Loose, Owner, NextLeads, PrevLeads, listVars

LEMMA LockShape ==
    ASSUME TypeInv, OneThread, NEW s \in NodeSeqs, Shape(s), NEW t \in Threads,
           LockQueue(t) \/ UnlockQueue(t)
    PROVE  Shape(s)'
<1> DEFINE Busy == {"link_tail", "link_head", "advance", "unlink", "free"}
<1>1. \A pcs \in SUBSET Busy : ~Owner(pcs)
  BY DEF LockQueue, UnlockQueue, WaitForMutex, Goto, OneThread, Owner
<1>2. \A pcs \in SUBSET Busy : ~Owner(pcs)'
  BY DEF LockQueue, UnlockQueue, WaitForMutex, Goto, TypeInv, Owner
<1>3. UNCHANGED <<listVars, data, walk>>
  BY DEF LockQueue, UnlockQueue
<1> QED
  BY <1>1, <1>2, <1>3 DEF Shape, Loose, NextLeads, PrevLeads, listVars

\* The thread that runs a step inside the functions owns the mutex.
Runs(t) ==
    \/ AllocateEntry(t) \/ LinkTail(t) \/ LinkHead(t)
    \/ TakeFirst(t) \/ AdvanceHead(t) \/ UnlinkFirst(t) \/ FreeFirst(t)

LEMMA RunnerOwns ==
    ASSUME TypeInv, OneThread, NEW t \in Threads, Runs(t)
    PROVE  /\ queue_mutex = t /\ queue_mutex' = t /\ t # NoThread
           /\ walk = "open" /\ walk' = "open"
           /\ \A pcs : Owner(pcs) <=> pc[t] \in pcs
           /\ \A pcs : Owner(pcs)' <=> pc'[t] \in pcs
<1>1. pc[t] \notin {"idle", "lock"}
  BY DEF Runs, AllocateEntry, LinkTail, LinkHead, TakeFirst, AdvanceHead, UnlinkFirst, FreeFirst,
     Goto
<1>2. queue_mutex = t /\ t # NoThread /\ walk = "open"
  BY <1>1, ThreadsAssumption DEF OneThread, Threads
<1>3. UNCHANGED <<queue_mutex, walk>>
  BY DEF Runs, AllocateEntry, LinkTail, LinkHead, TakeFirst, AdvanceHead, UnlinkFirst, FreeFirst
<1> QED BY <1>2, <1>3 DEF Owner

LEMMA AllocateShape ==
    ASSUME TypeInv, OneThread, NEW s \in NodeSeqs, Shape(s), NEW t \in Threads, AllocateEntry(t)
    PROVE  Shape(s)'
<1>1. /\ queue_mutex = t /\ queue_mutex' = t /\ t # NoThread /\ walk = "open" /\ walk' = "open"
      /\ \A pcs : Owner(pcs) <=> pc[t] \in pcs
      /\ \A pcs : Owner(pcs)' <=> pc'[t] \in pcs
  BY RunnerOwns DEF Runs
<1>2. allocated = NodesOf(s) /\ tail = Last(s)
  <2>1. pc[t] = "malloc"
    BY DEF AllocateEntry, Goto
  <2>2. Loose = {} /\ ~Owner({"link_head"}) /\ ~Owner({"unlink"})
    BY <1>1, <2>1 DEF Loose
  <2> QED BY <1>1, <2>2 DEF Shape
<1>3. CASE pc'[t] = "failed"
  <2>1. UNCHANGED <<head, tail, next, prev, entry, allocated, data>>
    BY <1>3 DEF AllocateEntry, Goto, TypeInv
  <2> QED
    BY <1>1, <1>2, <1>3, <2>1 DEF Shape, Loose, AllocateEntry, Goto, NextLeads, PrevLeads
<1>4. CASE pc'[t] # "failed"
  <2>1. pc[t] = "malloc" /\ pc'[t] = "link_tail" /\ UNCHANGED <<head, tail, data>>
    BY <1>4 DEF AllocateEntry, Goto, TypeInv
  <2>2. PICK n \in Nodes \ allocated :
            /\ allocated' = allocated \cup {n}
            /\ node'[t] = n
            /\ entry' = [entry EXCEPT ![n] = data[t]]
            /\ next' = [next EXCEPT ![n] = NULL]
            /\ prev' = [prev EXCEPT ![n] = tail]
    BY <1>4 DEF AllocateEntry, Goto, TypeInv
  <2>3. \A m \in NodesOf(s) : next'[m] = next[m] /\ prev'[m] = prev[m]
    BY <1>2, <2>2, NodeSeqFacts DEF TypeInv
  <2>4. Leads(head', next', s) /\ PrevLeads(s)'
    <3>1. \A i \in 1 .. Len(s) : next'[s[i]] = next[s[i]] /\ prev'[s[i]] = prev[s[i]]
      BY <2>3, NodeSeqFacts
    <3>2. Leads(head', next', s)
      BY <2>1, <3>1 DEF Shape, NextLeads, Leads
    <3>3. \A i \in 2 .. Len(s) : i \in 1 .. Len(s)
      BY NodeSeqFacts
    <3> QED BY <3>1, <3>2, <3>3 DEF Shape, PrevLeads
  <2>5. s # <<>> => prev'[s[1]] = NULL
    BY <1>1, <2>1, <2>3, NodeSeqFacts DEF Shape
  <2>6. next'[n] = NULL /\ prev'[n] = Last(s) /\ entry'[n] = data'[t]
    BY <1>2, <2>1, <2>2 DEF TypeInv
  <2>7. Loose' = {n}
    BY <1>1, <2>1, <2>2 DEF Loose
  <2> QED
    BY <1>1, <1>2, <2>1, <2>2, <2>4, <2>5, <2>6, <2>7 DEF Shape, NextLeads
<1> QED BY <1>3, <1>4

LEMMA LinkTailShape ==
    ASSUME TypeInv, OneThread, NEW s \in NodeSeqs, Shape(s), NEW t \in Threads, LinkTail(t)
    PROVE  Shape(s)'
<1>1. /\ queue_mutex = t /\ queue_mutex' = t /\ t # NoThread /\ walk = "open" /\ walk' = "open"
      /\ \A pcs : Owner(pcs) <=> pc[t] \in pcs
      /\ \A pcs : Owner(pcs)' <=> pc'[t] \in pcs
  BY RunnerOwns DEF Runs
<1>2. pc[t] = "link_tail" /\ pc'[t] = "link_head" /\ tail' = node[t]
  BY DEF LinkTail, Goto, TypeInv
<1> QED
  BY <1>1, <1>2 DEF Shape, Loose, LinkTail, NextLeads, PrevLeads

LEMMA LinkHeadShape ==
    ASSUME TypeInv, OneThread, NEW s \in NodeSeqs, Shape(s), NEW t \in Threads, LinkHead(t)
    PROVE  /\ node[t] \in Nodes \ NodesOf(s)
           /\ \E a \in NodeSeqs : a = Append(s, node[t]) /\ Shape(a)'
<1>1. /\ queue_mutex = t /\ queue_mutex' = t /\ t # NoThread /\ walk = "open" /\ walk' = "open"
      /\ \A pcs : Owner(pcs) <=> pc[t] \in pcs
      /\ \A pcs : Owner(pcs)' <=> pc'[t] \in pcs
  BY RunnerOwns DEF Runs
<1> PICK n : n = node[t]
  OBVIOUS
<1> PICK a : a = Append(s, n)
  OBVIOUS
<1>2. pc[t] = "link_head" /\ pc'[t] = "unlock"
  BY DEF LinkHead, Goto, TypeInv
<1>3. UNCHANGED <<tail, prev, entry, allocated, data, node>>
  BY DEF LinkHead
<1>4. Loose = {n} /\ Loose' = {}
  BY <1>1, <1>2, <1>3 DEF Loose
<1>5. /\ n \in Nodes \ NodesOf(s) /\ allocated = NodesOf(s) \cup {n}
      /\ tail = n /\ next[n] = NULL /\ prev[n] = Last(s)
      /\ s # <<>> => prev[s[1]] = NULL
  BY <1>1, <1>2, <1>4 DEF Shape
<1>6. /\ a \in NodeSeqs /\ Len(s) \in Nat /\ Len(a) = Len(s) + 1
      /\ \A i \in 1 .. Len(s) : a[i] = s[i] /\ s[i] \in Nodes
      /\ a[Len(s) + 1] = n
      /\ NodesOf(a) = NodesOf(s) \cup {n}
  BY <1>5, NodeSeqAppend, NodeSeqFacts
<1>7. Leads(head', next', a)
  <2>1. CASE s = <<>>
    <3>1. head' = n /\ next' = next
      BY <2>1 DEF LinkHead, Shape, NextLeads, Leads, First
    <3>2. Len(s) = 0 /\ Len(a) = 1 /\ a # <<>> /\ a[1] = n
      BY <1>6, <2>1, EmptySeq
    <3> QED BY <1>5, <3>1, <3>2 DEF Leads, First
  <2>2. CASE s # <<>>
    <3>1. Len(s) \in 1 .. Len(s) /\ head = s[1] /\ s[1] # NULL
      BY <1>6, <2>2, NodeSeqFacts, PointersAssumption DEF Shape, NextLeads, Leads, First
    <3>2. head' = head /\ next' = [next EXCEPT ![s[Len(s)]] = n]
      BY <1>5, <2>2, <3>1 DEF LinkHead, Last
    <3>3. a # <<>> /\ a[1] = s[1]
      BY <1>6, <3>1, EmptySeq
    <3>4. \A i \in 1 .. Len(s) : next'[s[i]] = IF i = Len(s) THEN n ELSE s[i + 1]
      BY <1>6, <3>1, <3>2, NodeSeqFacts DEF TypeInv, Shape, NextLeads, Leads
    <3>5. next'[n] = NULL
      BY <1>5, <3>1, <3>2, NodeSeqFacts DEF TypeInv
    <3>6. \A i \in 1 .. Len(a) : next'[a[i]] = IF i = Len(a) THEN NULL ELSE a[i + 1]
      BY <1>6, <3>4, <3>5
    <3> QED BY <3>1, <3>2, <3>3, <3>6 DEF Leads, First
  <2> QED BY <2>1, <2>2
<1>8. PrevLeads(a)' /\ prev'[a[1]] = NULL
  <2>1. CASE s = <<>>
    <3>1. Len(a) = 1 /\ a[1] = n
      BY <1>6, <2>1, EmptySeq
    <3> QED BY <1>3, <1>5, <2>1, <3>1 DEF PrevLeads, Last
  <2>2. CASE s # <<>>
    <3>1. Len(s) \in 1 .. Len(s) /\ prev[n] = s[Len(s)]
      BY <1>5, <1>6, <2>2, NodeSeqFacts DEF Last
    <3>2. \A i \in 2 .. Len(s) : prev[s[i]] = s[i - 1]
      BY DEF Shape, PrevLeads
    <3>3. \A i \in 2 .. Len(a) : prev[a[i]] = a[i - 1]
      BY <1>6, <3>1, <3>2
    <3> QED BY <1>3, <1>5, <1>6, <2>2, <3>1, <3>3 DEF PrevLeads
  <2> QED BY <2>1, <2>2
<1>9. Last(a) = n
  BY <1>6, EmptySeq DEF Last
<1>10. Shape(a)'
  <2>1. ~Owner({"link_head"})' /\ ~Owner({"unlink"})' /\ ~Owner({"link_tail", "link_head"})'
            /\ ~Owner({"advance"})'
    BY <1>1, <1>2
  <2> QED
    BY <1>1, <1>3, <1>4, <1>5, <1>6, <1>7, <1>8, <1>9, <2>1 DEF Shape, NextLeads
<1> QED BY <1>5, <1>6, <1>10

LEMMA TakeFirstShape ==
    ASSUME TypeInv, OneThread, NEW s \in NodeSeqs, Shape(s), NEW t \in Threads, TakeFirst(t)
    PROVE  Shape(s)'
<1>1. /\ queue_mutex = t /\ queue_mutex' = t /\ t # NoThread /\ walk = "open" /\ walk' = "open"
      /\ \A pcs : Owner(pcs) <=> pc[t] \in pcs
      /\ \A pcs : Owner(pcs)' <=> pc'[t] \in pcs
  BY RunnerOwns DEF Runs
<1>2. pc[t] = "first" /\ UNCHANGED listVars
  BY DEF TakeFirst, Goto
<1>3. \/ pc'[t] = "empty"
      \/ pc'[t] = "advance" /\ head # NULL /\ node'[t] = head /\ data'[t] = entry[head]
  BY DEF TakeFirst, Goto, TypeInv
<1>4. Loose = {} /\ Loose' = {}
  BY <1>1, <1>2, <1>3 DEF Loose
<1> QED
  BY <1>1, <1>2, <1>3, <1>4 DEF Shape, NextLeads, PrevLeads, listVars

LEMMA AdvanceShape ==
    ASSUME TypeInv, OneThread, NEW s \in NodeSeqs, Shape(s), NEW t \in Threads, AdvanceHead(t)
    PROVE  /\ s # <<>> /\ data[t] = entry[s[1]]
           /\ Tail(s) \in NodeSeqs
           /\ Shape(Tail(s))'
<1>1. /\ queue_mutex = t /\ queue_mutex' = t /\ t # NoThread /\ walk = "open" /\ walk' = "open"
      /\ \A pcs : Owner(pcs) <=> pc[t] \in pcs
      /\ \A pcs : Owner(pcs)' <=> pc'[t] \in pcs
  BY RunnerOwns DEF Runs
<1> DEFINE a == Tail(s)
<1>2. pc[t] = "advance" /\ pc'[t] = "unlink" /\ head' = next[head]
  BY DEF AdvanceHead, Goto, TypeInv
<1>3. UNCHANGED <<tail, next, prev, entry, allocated, data, node>>
  BY DEF AdvanceHead
<1>4. s # <<>> /\ head = s[1] /\ node[t] = s[1] /\ data[t] = entry[s[1]]
  BY <1>1, <1>2 DEF Shape, NextLeads, Leads, First
<1>5. /\ a \in NodeSeqs /\ Len(s) \in Nat \ {0} /\ Len(a) = Len(s) - 1
      /\ \A i \in 1 .. Len(a) : a[i] = s[i + 1]
      /\ s[1] \in Nodes
      /\ NodesOf(a) = NodesOf(s) \ {s[1]}
      /\ s[1] \in NodesOf(s)
      /\ a = <<>> <=> Len(a) = 0
  <2>1. s[1] \in NodesOf(s)
    BY <1>4, NodeSeqFacts
  <2>2. a \in NodeSeqs
    BY <1>4, NodeSeqTail
  <2>3. a = <<>> <=> Len(a) = 0
    BY <2>2, NodeSeqFacts, EmptySeq
  <2> QED BY <1>4, <2>1, <2>3, NodeSeqTail
<1> HIDE DEF a
<1>6. Loose = {} /\ Loose' = {s[1]} /\ tail = Last(s) /\ allocated = NodesOf(s)
  <2>1. Loose = {} /\ ~Owner({"link_head"}) /\ ~Owner({"unlink"})
    BY <1>1, <1>2 DEF Loose
  <2>2. Loose' = {s[1]}
    BY <1>1, <1>2, <1>3, <1>4 DEF Loose
  <2> QED BY <1>1, <2>1, <2>2 DEF Shape
<1>7. Leads(head', next', a)
  <2>1. \A i \in 1 .. Len(s) : next[s[i]] = IF i = Len(s) THEN NULL ELSE s[i + 1]
    BY DEF Shape, NextLeads, Leads
  <2>2. head' = First(a)
    BY <1>2, <1>4, <1>5, <2>1 DEF First
  <2>3. \A i \in 1 .. Len(a) : next[a[i]] = IF i = Len(a) THEN NULL ELSE a[i + 1]
    BY <1>5, <2>1
  <2> QED BY <1>3, <2>2, <2>3 DEF Leads
<1>8. PrevLeads(a)' /\ (a # <<>> => prev'[a[1]] = s[1])
  <2>1. \A i \in 2 .. Len(s) : prev[s[i]] = s[i - 1]
    BY DEF Shape, PrevLeads
  <2>2. \A i \in 2 .. Len(a) : prev[a[i]] = a[i - 1]
    BY <1>5, <2>1
  <2>3. a # <<>> => prev[a[1]] = s[1]
    BY <1>5, <2>1
  <2> QED BY <1>3, <2>2, <2>3 DEF PrevLeads
<1>9. tail' = IF a = <<>> THEN s[1] ELSE Last(a)
  BY <1>3, <1>4, <1>5, <1>6 DEF Last
<1>10. Shape(a)'
  BY <1>1, <1>2, <1>3, <1>4, <1>5, <1>6, <1>7, <1>8, <1>9 DEF Shape, NextLeads
<1> QED BY <1>4, <1>5, <1>10 DEF a

LEMMA UnlinkShape ==
    ASSUME TypeInv, OneThread, NEW s \in NodeSeqs, Shape(s), NEW t \in Threads, UnlinkFirst(t)
    PROVE  Shape(s)'
<1>1. /\ queue_mutex = t /\ queue_mutex' = t /\ t # NoThread /\ walk = "open" /\ walk' = "open"
      /\ \A pcs : Owner(pcs) <=> pc[t] \in pcs
      /\ \A pcs : Owner(pcs)' <=> pc'[t] \in pcs
  BY RunnerOwns DEF Runs
<1>2. pc[t] = "unlink" /\ pc'[t] = "free"
  BY DEF UnlinkFirst, Goto, TypeInv
<1>3. UNCHANGED <<head, next, entry, allocated, data, node>>
  BY DEF UnlinkFirst
<1>4. Loose' = Loose
  BY <1>1, <1>2, <1>3 DEF Loose
<1>5. tail' = Last(s)
  BY <1>1, <1>2, NodeSeqFacts, PointersAssumption DEF UnlinkFirst, ResetTail, Shape, NextLeads, Leads, First, Last
<1>6. PrevLeads(s)' /\ (s # <<>> => prev'[s[1]] = NULL)
  <2>1. CASE s = <<>>
    <3>1. Len(s) = 0
      BY <2>1, EmptySeq
    <3> QED BY <2>1, <3>1 DEF PrevLeads
  <2>2. CASE s # <<>>
    <3>1. head = s[1] /\ s[1] \in Nodes /\ 1 \in 1 .. Len(s)
      BY <2>2, NodeSeqFacts DEF Shape, NextLeads, Leads, First
    <3>2. prev' = [prev EXCEPT ![s[1]] = NULL]
      BY <3>1, PointersAssumption DEF UnlinkFirst
    <3>3. \A i \in 2 .. Len(s) : prev'[s[i]] = prev[s[i]]
      BY <3>1, <3>2, NodeSeqFacts DEF TypeInv
    <3> QED BY <3>1, <3>2, <3>3 DEF Shape, PrevLeads, TypeInv
  <2> QED BY <2>1, <2>2
<1>7. ~Owner({"link_head"})' /\ ~Owner({"unlink"})' /\ ~Owner({"link_tail", "link_head"})'
          /\ ~Owner({"advance"})'
  BY <1>1, <1>2
<1> QED
  BY <1>1, <1>3, <1>4, <1>5, <1>6, <1>7 DEF Shape, NextLeads

LEMMA FreeShape ==
    ASSUME TypeInv, OneThread, NEW s \in NodeSeqs, Shape(s), NEW t \in Threads, FreeFirst(t)
    PROVE  Shape(s)'
<1>1. /\ queue_mutex = t /\ queue_mutex' = t /\ t # NoThread /\ walk = "open" /\ walk' = "open"
      /\ \A pcs : Owner(pcs) <=> pc[t] \in pcs
      /\ \A pcs : Owner(pcs)' <=> pc'[t] \in pcs
  BY RunnerOwns DEF Runs
<1>2. pc[t] = "free" /\ pc'[t] = "unlock"
  BY DEF FreeFirst, Goto, TypeInv
<1>3. UNCHANGED <<head, tail, next, prev, entry, data, node>>
  BY DEF FreeFirst
<1>4. Loose = {node[t]} /\ Loose' = {}
  BY <1>1, <1>2 DEF Loose
<1>5. ~Owner({"link_head"}) /\ ~Owner({"unlink"})
  BY <1>1, <1>2
<1>6. allocated' = NodesOf(s)
  BY <1>1, <1>4, <1>5 DEF Shape, FreeFirst, Free
<1>7. ~Owner({"link_head"})' /\ ~Owner({"unlink"})' /\ ~Owner({"link_tail", "link_head"})'
          /\ ~Owner({"advance"})'
  BY <1>1, <1>2
<1> QED
  BY <1>1, <1>3, <1>4, <1>5, <1>6, <1>7 DEF Shape, NextLeads, PrevLeads

LEMMA StartWalkShape ==
    ASSUME TypeInv, OneThread, NEW s \in NodeSeqs, Shape(s), FreeSynchronizedQueue
    PROVE  Shape(s)'
<1>1. queue_mutex = NoThread
  BY DEF FreeSynchronizedQueue, OneThread, TypeInv
<1>2. UNCHANGED <<listVars, queue_mutex, pc, data, node>> /\ walk = "open" /\ walk' = head
  BY DEF FreeSynchronizedQueue
<1>3. \A pcs : ~Owner(pcs) /\ ~Owner(pcs)'
  BY <1>1, <1>2 DEF Owner
<1>4. Loose = {} /\ Loose' = {}
  BY <1>3 DEF Loose
<1>5. allocated' = {s[i] : i \in 1 .. Len(s)}
  BY <1>2, <1>4 DEF Shape, NodesOf, listVars
<1>6. 1 \in 1 .. Len(s) + 1 /\ walk' = IF 1 = Len(s) + 1 THEN NULL ELSE s[1]
  BY <1>2, NodeSeqFacts, EmptySeq DEF Shape, NextLeads, Leads, First
<1>7. walk' # "open"
  BY <1>2, PointersAssumption DEF TypeInv, Pointers
<1> QED
  BY <1>2, <1>3, <1>4, <1>5, <1>6, <1>7 DEF Shape, NextLeads, PrevLeads, listVars

LEMMA WalkShape ==
    ASSUME TypeInv, OneThread, NEW s \in NodeSeqs, Shape(s), FreeListEntry
    PROVE  Shape(s)'
<1>1. walk \in Nodes /\ walk # "open" /\ walk # NULL
  BY PointersAssumption DEF FreeListEntry
<1>2. queue_mutex = NoThread
  BY <1>1 DEF OneThread, TypeInv
<1>3. UNCHANGED <<head, tail, next, prev, entry, queue_mutex, pc, data, node>>
  BY DEF FreeListEntry
<1>4. \A pcs : ~Owner(pcs) /\ ~Owner(pcs)'
  BY <1>2, <1>3 DEF Owner
<1>5. Loose' = {}
  BY <1>4 DEF Loose
<1>6. PICK k \in 1 .. Len(s) + 1 :
          /\ walk = IF k = Len(s) + 1 THEN NULL ELSE s[k]
          /\ allocated = {s[i] : i \in k .. Len(s)}
  BY <1>1 DEF Shape
<1>7. k \in 1 .. Len(s) /\ k + 1 \in 1 .. Len(s) + 1 /\ walk = s[k]
  BY <1>1, <1>6, NodeSeqFacts
<1>8. walk' = IF k + 1 = Len(s) + 1 THEN NULL ELSE s[k + 1]
  BY <1>7, NodeSeqFacts DEF FreeListEntry, Shape, NextLeads, Leads
<1>9. allocated' = {s[i] : i \in k + 1 .. Len(s)}
  <2>1. allocated' = {s[i] : i \in k .. Len(s)} \ {s[k]}
    BY <1>6, <1>7 DEF FreeListEntry
  <2>2. \A i \in k .. Len(s) : s[i] # s[k] <=> i \in k + 1 .. Len(s)
    BY <1>7, NodeSeqFacts
  <2>3. k + 1 .. Len(s) \subseteq k .. Len(s)
    BY <1>7, NodeSeqFacts
  <2> QED BY <2>1, <2>2, <2>3
<1>10. walk' # "open"
  BY <1>7, <1>8, NodeSeqFacts, PointersAssumption
<1> QED
  BY <1>3, <1>4, <1>5, <1>7, <1>8, <1>9, <1>10 DEF Shape, NextLeads, PrevLeads

LEMMA QueueInvInit == Init => QueueInv
<1> SUFFICES ASSUME Init PROVE QueueInv
  OBVIOUS
<1>1. TypeInv
  BY ThreadsAssumption DEF Init, TypeInv, Pointers, Threads, ProducerPCs, ConsumerPCs
<1>2. OneThread
  BY ThreadsAssumption DEF Init, OneThread, Threads
<1>3. <<>> \in NodeSeqs /\ Len(<<>>) = 0
  <2>1. <<>> \in Seq(Nodes) /\ Len(<<>>) = 0
    BY EmptySeq
  <2>2. \A i, j \in 1 .. Len(<<>>) : <<>>[i] = <<>>[j] => i = j
    BY <2>1
  <2> QED BY <2>1, <2>2, NodeSeqIsSeq
<1>4. Shape(<<>>)
  <2>1. \A pcs : ~Owner(pcs)
    BY DEF Init, Owner
  <2>2. NodesOf(<<>>) = {}
    BY <1>3 DEF NodesOf
  <2> QED
    BY <1>3, <2>1, <2>2 DEF Init, Shape, Loose, NextLeads, Leads, PrevLeads, First, Last
<1> QED BY <1>1, <1>2, <1>3, <1>4 DEF QueueInv

LEMMA QueueInvStep == QueueInv /\ [Next]_vars => QueueInv'
<1> SUFFICES ASSUME QueueInv, [Next]_vars PROVE \E s \in NodeSeqs : Shape(s)'
  BY TypeStep, MutexStep DEF QueueInv
<1>1. TypeInv /\ OneThread
  BY DEF QueueInv
<1>2. PICK s \in NodeSeqs : Shape(s)
  BY DEF QueueInv
<1>3. ASSUME NEW t \in Producers, EnqueueNext(t) PROVE \E a \in NodeSeqs : Shape(a)'
  BY <1>1, <1>2, <1>3, CallShape, AllocateShape, LinkTailShape, LinkHeadShape
     DEF EnqueueNext, Threads
<1>4. ASSUME NEW t \in Consumers, DequeueNext(t) PROVE \E a \in NodeSeqs : Shape(a)'
  BY <1>1, <1>2, <1>4, CallShape, TakeFirstShape, AdvanceShape, UnlinkShape, FreeShape
     DEF DequeueNext, Threads
<1>5. ASSUME NEW t \in Threads, LockQueue(t) \/ UnlockQueue(t)
      PROVE  \E a \in NodeSeqs : Shape(a)'
  BY <1>1, <1>2, <1>5, LockShape
<1>6. CASE FreeSynchronizedQueue \/ FreeListEntry
  BY <1>1, <1>2, <1>6, StartWalkShape, WalkShape
<1>7. CASE Freed \/ UNCHANGED vars
  <2>1. Shape(s)'
    BY <1>2, <1>7 DEF Freed, vars, listVars, Shape, Loose, Owner, NextLeads, PrevLeads
  <2> QED BY <2>1
<1> QED BY <1>3, <1>4, <1>5, <1>6, <1>7 DEF Next

LEMMA QueueInvAlways == Spec => []QueueInv
BY QueueInvInit, QueueInvStep, PTL DEF Spec

\* Whoever takes the mutex finds a well-formed list of every node allocated,
\* however many handlers enqueue.
THEOREM ListStaysLinked == Spec => []WellLinked
<1>1. QueueInv => WellLinked
  <2> SUFFICES ASSUME QueueInv, queue_mutex = NoThread, walk = "open"
               PROVE  \E s \in NodeSeqs : IsList(s) /\ allocated = NodesOf(s)
    BY DEF WellLinked
  <2>1. PICK s \in NodeSeqs : Shape(s)
    BY DEF QueueInv
  <2>2. \A pcs : ~Owner(pcs)
    BY DEF Owner
  <2>3. Loose = {}
    BY <2>2 DEF Loose
  <2> QED BY <2>1, <2>2, <2>3 DEF Shape, IsList
<1> QED BY <1>1, QueueInvAlways, PTL

\* RemoveFirstEntry and the walk of FreeLinkedList free only nodes that are
\* allocated, and the walk leaves none.
THEOREM NodesFreedOnce == Spec => []FreedOnce
<1>1. QueueInv => FreedOnce
  <2> SUFFICES ASSUME QueueInv PROVE FreedOnce
    OBVIOUS
  <2>1. PICK s \in NodeSeqs : Shape(s)
    BY DEF QueueInv
  <2>2. ASSUME NEW t \in Consumers, pc[t] = "free" PROVE node[t] \in allocated
    <3>1. queue_mutex = t /\ walk = "open"
      BY <2>2 DEF QueueInv, OneThread, Threads
    <3>2. Owner({"link_tail", "link_head", "unlink", "free"})
      BY <2>2, <3>1, ThreadsAssumption DEF Owner, Threads
    <3>3. Loose = {node[t]} /\ allocated = NodesOf(s) \cup Loose
      BY <2>1, <3>1, <3>2 DEF Loose, Shape
    <3> QED BY <3>3
  <2>3. ASSUME walk \in Pointers
        PROVE  (walk \in Nodes => walk \in allocated) /\ (walk = NULL => allocated = {})
    <3>1. PICK k \in 1 .. Len(s) + 1 :
              /\ walk = IF k = Len(s) + 1 THEN NULL ELSE s[k]
              /\ allocated = {s[i] : i \in k .. Len(s)}
      BY <2>1, <2>3, PointersAssumption DEF Shape, Pointers
    <3>2. CASE k = Len(s) + 1
      BY <3>1, <3>2, NodeSeqFacts, PointersAssumption
    <3>3. CASE k \in 1 .. Len(s)
      BY <3>1, <3>3, NodeSeqFacts, PointersAssumption
    <3> QED BY <3>1, <3>2, <3>3, NodeSeqFacts
  <2> QED BY <2>2, <2>3, PointersAssumption DEF FreedOnce, Pointers
<1> QED BY <1>1, QueueInvAlways, PTL

-----------------------------------------------------------------------------
(* The queue of messages the list stands for                                *)

LEMMA ListFromIs ==
    ASSUME NEW from, NEW pointers, NEW s \in NodeSeqs, Leads(from, pointers, s)
    PROVE  ListFrom(from, pointers) = s
<1> DEFINE l == CHOOSE a \in NodeSeqs : Leads(from, pointers, a)
<1>1. l \in NodeSeqs /\ Leads(from, pointers, l)
  OBVIOUS
<1> HIDE DEF l
<1>2. l = s
  BY <1>1, OneList
<1> QED BY <1>2 DEF ListFrom, l

LEMMA EntriesOfSeq ==
    ASSUME NEW s \in NodeSeqs, NEW contents \in [Nodes -> Entries]
    PROVE  /\ EntriesOf(s, contents) \in Seq(Entries)
           /\ Len(EntriesOf(s, contents)) = Len(s)
           /\ \A i \in 1 .. Len(s) : EntriesOf(s, contents)[i] = contents[s[i]]
           /\ EntriesOf(s, contents) = <<>> <=> s = <<>>
<1> DEFINE c == EntriesOf(s, contents)
<1>1. c \in [1 .. Len(s) -> Entries]
  BY NodeSeqFacts DEF EntriesOf
<1>2. c \in Seq(Entries) /\ Len(c) = Len(s)
  BY <1>1, NodeSeqFacts
<1>3. \A i \in 1 .. Len(s) : c[i] = contents[s[i]]
  BY DEF EntriesOf
<1>4. c = <<>> <=> s = <<>>
  <2>1. Len(s) = 0 <=> s = <<>>
    BY NodeSeqFacts, EmptySeq
  <2>2. Len(c) = 0 <=> c = <<>>
    BY <1>2, EmptySeq
  <2> QED BY <1>2, <2>1, <2>2
<1> QED BY <1>2, <1>3, <1>4

LEMMA CallAndOutcome ==
    ASSUME TypeInv
    PROVE  /\ \A t \in Producers :
                  /\ CallOf(t) = IF pc[t] = "idle" THEN "no" ELSE "enqueue"
                  /\ OutcomeOf(t) = IF pc[t] = "failed" THEN [what |-> "failed"]
                                    ELSE IF pc[t] = "unlock" THEN [what |-> "done"]
                                    ELSE [what |-> "pending"]
           /\ \A t \in Consumers :
                  /\ CallOf(t) = IF pc[t] = "idle" THEN "no" ELSE "dequeue"
                  /\ OutcomeOf(t) = IF pc[t] = "empty" THEN [what |-> "empty"]
                                    ELSE IF pc[t] \in {"unlink", "free", "unlock"}
                                    THEN [what |-> "entry", entry |-> data[t]]
                                    ELSE [what |-> "pending"]
<1>1. ASSUME NEW t \in Producers
      PROVE  OutcomeOf(t) = IF pc[t] = "failed" THEN [what |-> "failed"]
                            ELSE IF pc[t] = "unlock" THEN [what |-> "done"]
                            ELSE [what |-> "pending"]
  BY ThreadsAssumption DEF TypeInv, ProducerPCs, OutcomeOf
<1>2. ASSUME NEW t \in Consumers
      PROVE  OutcomeOf(t) = IF pc[t] = "empty" THEN [what |-> "empty"]
                            ELSE IF pc[t] \in {"unlink", "free", "unlock"}
                            THEN [what |-> "entry", entry |-> data[t]]
                            ELSE [what |-> "pending"]
  BY ThreadsAssumption DEF TypeInv, ConsumerPCs, OutcomeOf
<1> QED BY <1>1, <1>2, ThreadsAssumption DEF CallOf

\* The calls and outcomes of all threads when thread t alone moves.
Moves(t, call, result) ==
    /\ Calls' = [Calls EXCEPT ![t] = call]
    /\ Outcomes' = [Outcomes EXCEPT ![t] = result]

LEMMA OneMoves ==
    ASSUME NEW t \in Threads,
           \A u \in Threads : u # t => pc'[u] = pc[u] /\ data'[u] = data[u]
    PROVE  Moves(t, CallOf(t)', OutcomeOf(t)')
<1>1. Calls' = [Calls EXCEPT ![t] = CallOf(t)']
  BY DEF Calls, CallOf
<1>2. Outcomes' = [Outcomes EXCEPT ![t] = OutcomeOf(t)']
  <2>1. ASSUME NEW u \in Threads PROVE Outcomes'[u] = OutcomeOf(u)' /\ Outcomes[u] = OutcomeOf(u)
    BY DEF Outcomes, OutcomeOf
  <2>2. ASSUME NEW u \in Threads, u # t PROVE OutcomeOf(u)' = OutcomeOf(u)
    BY <2>2 DEF OutcomeOf
  <2>3. \A u \in Threads : u # t => Outcomes'[u] = Outcomes[u]
    BY <2>1, <2>2
  <2>4. /\ Outcomes = [u \in Threads |-> Outcomes[u]]
        /\ Outcomes' = [u \in Threads |-> Outcomes'[u]]
    BY DEF Outcomes
  <2> QED BY <2>1, <2>3, <2>4
<1> QED BY <1>1, <1>2 DEF Moves

LEMMA CallsAt ==
    ASSUME NEW t \in Threads
    PROVE  Calls[t] = CallOf(t) /\ Outcomes[t] = OutcomeOf(t)
BY DEF Calls, Outcomes

LEMMA MutexSteps ==
    ASSUME TypeInv, TypeInv', NEW t \in Threads, LockQueue(t) \/ UnlockQueue(t)
    PROVE  Fifo!Next \/ UNCHANGED Fifo!vars
<1>1. Moves(t, CallOf(t)', OutcomeOf(t)')
  BY OneMoves DEF LockQueue, UnlockQueue, Goto, TypeInv
<1>2. UNCHANGED <<Contents, Arguments>>
  BY DEF LockQueue, UnlockQueue, Contents, Arguments, listVars
<1>3. CASE LockQueue(t)
  <2>1. pc[t] = "lock" /\ pc'[t] = IF t \in Producers THEN "malloc" ELSE "first"
    BY <1>3 DEF LockQueue, Goto, TypeInv
  <2>2. CallOf(t)' = CallOf(t) /\ OutcomeOf(t)' = OutcomeOf(t)
    BY <2>1, CallAndOutcome DEF CallOf, OutcomeOf
  <2> QED BY <1>1, <1>2, <2>2 DEF Moves, Calls, Outcomes, Fifo!vars
<1>4. CASE UnlockQueue(t)
  <2>1. pc[t] \in {"unlock", "empty", "failed"} /\ pc'[t] = "idle" /\ data' = data
    BY <1>4 DEF UnlockQueue, Goto, TypeInv
  <2>2. CallOf(t)' = "no" /\ OutcomeOf(t)' = [what |-> "pending"]
    BY <2>1 DEF CallOf, OutcomeOf
  <2>3. OutcomeOf(t) # [what |-> "pending"]
    <3>1. CASE t \in Producers
      BY <2>1, <3>1, CallAndOutcome DEF TypeInv, ProducerPCs
    <3>2. CASE t \in Consumers
      BY <2>1, <3>2, CallAndOutcome DEF TypeInv, ConsumerPCs
    <3> QED BY <3>1, <3>2 DEF Threads
  <2>4. Fifo!Return(t)
    BY <1>1, <1>2, <2>2, <2>3, CallsAt DEF Moves, Fifo!Return, Fifo!Pending
  <2> QED BY <2>4 DEF Fifo!Next, Threads
<1> QED BY <1>3, <1>4

LEMMA CallSteps ==
    ASSUME TypeInv, TypeInv', NEW t \in Threads,
           (t \in Consumers /\ CallDequeue(t))
               \/ (t \in Producers /\ \E e \in Entries : CallEnqueue(t, e))
    PROVE  Fifo!Next
<1>1. Moves(t, CallOf(t)', OutcomeOf(t)')
  BY OneMoves DEF CallDequeue, CallEnqueue, Goto, TypeInv
<1>2. Contents' = Contents
  BY DEF CallDequeue, CallEnqueue, Contents, listVars
<1>3. pc[t] = "idle" /\ pc'[t] = "lock"
  BY DEF CallDequeue, CallEnqueue, Goto, TypeInv
<1>4. CallOf(t) = "no" /\ OutcomeOf(t) = OutcomeOf(t)'
  BY <1>3 DEF CallOf, OutcomeOf
<1>5. CASE t \in Consumers /\ CallDequeue(t)
  <2>1. CallOf(t)' = "dequeue"
    BY <1>3, <1>5, ThreadsAssumption DEF CallOf
  <2>2. Fifo!CallDequeue(t)
    BY <1>1, <1>2, <1>4, <1>5, <2>1, CallsAt
       DEF Moves, Fifo!CallDequeue, CallDequeue, Outcomes, Arguments
  <2> QED BY <1>5, <2>2 DEF Fifo!Next
<1>6. CASE t \in Producers /\ \E e \in Entries : CallEnqueue(t, e)
  <2>1. CallOf(t)' = "enqueue"
    BY <1>3, <1>6 DEF CallOf
  <2>2. PICK e \in Entries : CallEnqueue(t, e)
    BY <1>6
  <2>3. Arguments' = [Arguments EXCEPT ![t] = e]
    BY <1>6, <2>2 DEF CallEnqueue, TypeInv, Threads, Arguments
  <2>4. Fifo!CallEnqueue(t, e)
    BY <1>1, <1>2, <1>4, <2>1, <2>3, CallsAt DEF Moves, Fifo!CallEnqueue, Outcomes
  <2> QED BY <1>6, <2>4 DEF Fifo!Next
<1> QED BY <1>5, <1>6

\* As long as head and next lead to the same entries the queue is the same.
LEMMA SameContents ==
    ASSUME NEW s \in NodeSeqs, Shape(s), Shape(s)',
           \A n \in NodesOf(s) : entry'[n] = entry[n]
    PROVE  Contents' = Contents
<1>1. ListFrom(head, next) = s /\ ListFrom(head', next') = s
  BY ListFromIs DEF Shape, NextLeads
<1>2. EntriesOf(s, entry) = EntriesOf(s, entry')
  BY NodeSeqFacts DEF EntriesOf
<1> QED BY <1>1, <1>2 DEF Contents

LEMMA EnqueueSteps ==
    ASSUME TypeInv, TypeInv', OneThread, NEW s \in NodeSeqs, Shape(s), NEW t \in Producers,
           AllocateEntry(t) \/ LinkTail(t) \/ LinkHead(t)
    PROVE  Fifo!Next \/ UNCHANGED Fifo!vars
<1>1. t \in Threads /\ t \notin Consumers /\ Runs(t)
  BY ThreadsAssumption DEF Threads, Runs
<1>2. data' = data /\ Arguments' = Arguments
  BY DEF AllocateEntry, LinkTail, LinkHead, Arguments
<1>3. Moves(t, CallOf(t)', OutcomeOf(t)')
  BY <1>1, <1>2, OneMoves DEF AllocateEntry, LinkTail, LinkHead, Goto, TypeInv
<1>4. pc[t] \in {"malloc", "link_tail", "link_head"} /\ pc'[t] # "idle"
  BY <1>1 DEF AllocateEntry, LinkTail, LinkHead, Goto, TypeInv
<1>5. CallOf(t) = "enqueue" /\ CallOf(t)' = "enqueue" /\ OutcomeOf(t) = [what |-> "pending"]
  BY <1>4, CallAndOutcome DEF CallOf
<1>6. CASE AllocateEntry(t)
  <2>1. Shape(s)'
    BY <1>1, <1>6, AllocateShape
  <2>2. ~Owner({"link_tail", "link_head", "unlink", "free"}) /\ walk = "open"
    BY <1>1, <1>6, RunnerOwns DEF AllocateEntry, Goto
  <2>3. allocated = NodesOf(s)
    BY <2>2 DEF Shape, Loose
  <2>4. \A n \in NodesOf(s) : entry'[n] = entry[n]
    BY <1>6, <2>3, NodeSeqFacts DEF AllocateEntry, TypeInv
  <2>5. Contents' = Contents
    BY <2>1, <2>4, SameContents
  <2>6. CASE pc'[t] = "failed"
    <3>1. OutcomeOf(t)' = [what |-> "failed"]
      BY <2>6 DEF OutcomeOf
    <3>2. Fifo!PutFails(t)
      BY <1>1, <1>2, <1>3, <1>5, <2>5, <3>1, CallsAt
         DEF Moves, Calls, Fifo!PutFails, Fifo!TakesEffect, Fifo!Returns, Fifo!Pending
    <3> QED BY <3>2 DEF Fifo!Next
  <2>7. CASE pc'[t] = "link_tail"
    <3>1. OutcomeOf(t)' = [what |-> "pending"]
      BY <2>7 DEF OutcomeOf
    <3> QED BY <1>1, <1>2, <1>3, <1>5, <2>5, <3>1, CallsAt DEF Moves, Calls, Outcomes, Fifo!vars
  <2> QED BY <1>1, <1>6, <2>6, <2>7 DEF AllocateEntry, Goto, TypeInv
<1>7. CASE LinkTail(t)
  <2>1. Shape(s)'
    BY <1>1, <1>7, LinkTailShape
  <2>2. Contents' = Contents
    BY <1>7, <2>1, SameContents DEF LinkTail
  <2>3. OutcomeOf(t)' = [what |-> "pending"]
    BY <1>1, <1>7 DEF OutcomeOf, LinkTail, Goto, TypeInv
  <2> QED BY <1>1, <1>2, <1>3, <1>5, <2>2, <2>3, CallsAt DEF Moves, Calls, Outcomes, Fifo!vars
<1>8. CASE LinkHead(t)
  <2>1. PICK n : n = node[t] /\ n \in Nodes \ NodesOf(s)
    BY <1>1, <1>8, LinkHeadShape
  <2>2. PICK a \in NodeSeqs : a = Append(s, n) /\ Shape(a)'
    BY <1>1, <1>8, <2>1, LinkHeadShape
  <2>3. ListFrom(head, next) = s /\ ListFrom(head', next') = a
    <3>1. Leads(head, next, s)
      BY <1>1 DEF Shape, NextLeads
    <3>2. Leads(head', next', a)
      BY <2>2 DEF Shape, NextLeads
    <3> QED BY <2>2, <3>1, <3>2, ListFromIs
  <2>4. entry' = entry /\ entry[n] = data[t] /\ data[t] \in Entries
    <3>1. pc[t] = "link_head" /\ queue_mutex = t /\ Owner({"link_tail", "link_head"})
      BY <1>1, <1>8, RunnerOwns DEF LinkHead, Goto
    <3> QED BY <1>1, <1>8, <2>1, <3>1 DEF Shape, LinkHead, TypeInv
  <2>5. Contents = EntriesOf(s, entry) /\ Contents' = EntriesOf(a, entry)
    BY <2>3, <2>4 DEF Contents
  <2>6. EntriesOf(a, entry) = Append(EntriesOf(s, entry), data[t])
    <3> DEFINE c == EntriesOf(s, entry)
               d == EntriesOf(a, entry)
    <3>1. /\ c \in Seq(Entries) /\ Len(c) = Len(s)
          /\ \A i \in 1 .. Len(s) : c[i] = entry[s[i]]
          /\ d \in Seq(Entries) /\ Len(d) = Len(a)
          /\ \A i \in 1 .. Len(a) : d[i] = entry[a[i]]
      BY EntriesOfSeq DEF TypeInv
    <3>2. /\ Len(s) \in Nat /\ Len(a) = Len(s) + 1
          /\ \A i \in 1 .. Len(s) : a[i] = s[i]
          /\ a[Len(s) + 1] = n
      BY <2>1, <2>2, NodeSeqAppend
    <3>3. /\ Append(c, data[t]) \in Seq(Entries)
          /\ Len(Append(c, data[t])) = Len(s) + 1
          /\ \A i \in 1 .. Len(s) : Append(c, data[t])[i] = c[i]
          /\ Append(c, data[t])[Len(s) + 1] = data[t]
      BY <2>4, <3>1, AppendProperties
    <3> HIDE DEF c, d
    <3>4. \A i \in 1 .. Len(d) : d[i] = Append(c, data[t])[i]
      BY <2>4, <3>1, <3>2, <3>3
    <3>5. d = Append(c, data[t])
      BY <3>1, <3>2, <3>3, <3>4, SeqEqual
    <3> QED BY <3>5 DEF c, d
  <2>7. OutcomeOf(t)' = [what |-> "done"]
    BY <1>1, <1>8 DEF OutcomeOf, LinkHead, Goto, TypeInv
  <2>8. Fifo!Put(t)
    BY <1>1, <1>2, <1>3, <1>5, <2>5, <2>6, <2>7, CallsAt
       DEF Moves, Calls, Arguments, Fifo!Put, Fifo!TakesEffect, Fifo!Returns, Fifo!Pending
  <2> QED BY <2>8 DEF Fifo!Next
<1> QED BY <1>6, <1>7, <1>8

LEMMA DequeueSteps ==
    ASSUME TypeInv, TypeInv', OneThread, NEW s \in NodeSeqs, Shape(s), NEW t \in Consumers,
           TakeFirst(t) \/ AdvanceHead(t) \/ UnlinkFirst(t) \/ FreeFirst(t)
    PROVE  Fifo!Next \/ UNCHANGED Fifo!vars
<1>1. t \in Threads /\ t \notin Producers /\ Runs(t)
  BY ThreadsAssumption DEF Threads, Runs
<1>2. entry' = entry /\ Arguments' = Arguments
  BY <1>1 DEF TakeFirst, AdvanceHead, UnlinkFirst, FreeFirst, Arguments, TypeInv, listVars, Threads
<1>3. Moves(t, CallOf(t)', OutcomeOf(t)')
  BY <1>1, OneMoves DEF TakeFirst, AdvanceHead, UnlinkFirst, FreeFirst, Goto, TypeInv
<1>4. pc[t] # "idle" /\ pc'[t] # "idle"
  BY <1>1 DEF TakeFirst, AdvanceHead, UnlinkFirst, FreeFirst, Goto, TypeInv
<1>5. CallOf(t) = "dequeue" /\ CallOf(t)' = "dequeue"
  BY <1>1, <1>4 DEF CallOf
<1>6. ListFrom(head, next) = s /\ Contents = EntriesOf(s, entry)
  BY ListFromIs DEF Shape, NextLeads, Contents
<1>7. CASE TakeFirst(t)
  <2>1. Contents' = Contents
    BY <1>7 DEF TakeFirst, listVars, Contents
  <2>2. pc[t] = "first" /\ OutcomeOf(t) = [what |-> "pending"]
    BY <1>7 DEF TakeFirst, Goto, OutcomeOf
  <2>3. CASE pc'[t] = "empty"
    <3>1. OutcomeOf(t)' = [what |-> "empty"]
      BY <2>3 DEF OutcomeOf
    <3>2. head = NULL
      BY <1>1, <1>7, <2>3 DEF TakeFirst, Goto, TypeInv
    <3>3. s = <<>>
      BY <3>2, NodeSeqFacts DEF Shape, NextLeads, Leads
    <3>4. Contents = <<>>
      BY <1>6, <3>3, EntriesOfSeq DEF TypeInv
    <3>5. Fifo!FindEmpty(t)
      BY <1>1, <1>2, <1>3, <1>5, <2>1, <2>2, <3>1, <3>4, CallsAt
         DEF Moves, Calls, Fifo!FindEmpty, Fifo!TakesEffect, Fifo!Returns, Fifo!Pending
    <3> QED BY <3>5 DEF Fifo!Next
  <2>4. CASE pc'[t] = "advance"
    <3>1. OutcomeOf(t)' = [what |-> "pending"]
      BY <2>4 DEF OutcomeOf
    <3> QED
      BY <1>1, <1>2, <1>3, <1>5, <2>1, <2>2, <3>1, CallsAt DEF Moves, Calls, Outcomes, Fifo!vars
  <2> QED BY <1>1, <1>7, <2>3, <2>4 DEF TakeFirst, Goto, TypeInv
<1>8. CASE AdvanceHead(t)
  <2>1. s # <<>> /\ data[t] = entry[s[1]] /\ Tail(s) \in NodeSeqs /\ Shape(Tail(s))'
    BY <1>1, <1>8, AdvanceShape
  <2>2. ListFrom(head', next') = Tail(s)
    BY <2>1, ListFromIs DEF Shape, NextLeads
  <2>3. Contents' = EntriesOf(Tail(s), entry)
    BY <1>2, <2>2 DEF Contents
  <2>4. Contents # <<>> /\ Head(Contents) = data[t] /\ Contents' = Tail(Contents)
    <3> DEFINE c == EntriesOf(s, entry)
               d == EntriesOf(Tail(s), entry)
    <3>1. /\ c \in Seq(Entries) /\ Len(c) = Len(s) /\ c # <<>>
          /\ \A i \in 1 .. Len(s) : c[i] = entry[s[i]]
          /\ d \in Seq(Entries) /\ Len(d) = Len(Tail(s))
          /\ \A i \in 1 .. Len(Tail(s)) : d[i] = entry[Tail(s)[i]]
      BY <2>1, EntriesOfSeq DEF TypeInv
    <3>2. /\ Len(s) \in Nat \ {0} /\ Len(Tail(s)) = Len(s) - 1
          /\ \A i \in 1 .. Len(Tail(s)) : Tail(s)[i] = s[i + 1]
      BY <2>1, NodeSeqTail
    <3> HIDE DEF c, d
    <3>3. /\ Tail(c) \in Seq(Entries) /\ Len(Tail(c)) = Len(c) - 1
          /\ \A i \in 1 .. Len(Tail(c)) : Tail(c)[i] = c[i + 1]
      BY <3>1, HeadTailProperties
    <3>4. \A i \in 1 .. Len(d) : d[i] = Tail(c)[i]
      BY <3>1, <3>2, <3>3
    <3>5. d = Tail(c)
      BY <3>1, <3>2, <3>3, <3>4, SeqEqual
    <3>6. Head(c) = entry[s[1]]
      BY <3>1, <3>2
    <3> QED BY <1>6, <2>1, <2>3, <3>1, <3>5, <3>6 DEF c, d
  <2>5. pc[t] = "advance" /\ pc'[t] = "unlink" /\ data' = data
    BY <1>1, <1>8 DEF AdvanceHead, Goto, TypeInv
  <2>6. OutcomeOf(t) = [what |-> "pending"]
            /\ OutcomeOf(t)' = [what |-> "entry", entry |-> data[t]]
    BY <1>1, <2>5, CallAndOutcome DEF OutcomeOf
  <2>7. Fifo!Take(t)
    BY <1>1, <1>2, <1>3, <1>5, <2>4, <2>6, CallsAt
       DEF Moves, Calls, Fifo!Take, Fifo!TakesEffect, Fifo!ReturnsEntry, Fifo!Pending
  <2> QED BY <2>7 DEF Fifo!Next
<1>9. CASE UnlinkFirst(t) \/ FreeFirst(t)
  <2>1. Shape(s)'
    BY <1>1, <1>9, UnlinkShape, FreeShape
  <2>2. Contents' = Contents
    BY <1>2, <2>1, SameContents
  <2>3. pc[t] \in {"unlink", "free"} /\ pc'[t] \in {"free", "unlock"} /\ data' = data
    BY <1>1, <1>9 DEF UnlinkFirst, FreeFirst, Goto, TypeInv
  <2>4. OutcomeOf(t)' = OutcomeOf(t)
    BY <1>1, <2>3 DEF OutcomeOf
  <2> QED
    BY <1>1, <1>2, <1>3, <1>5, <2>2, <2>4, CallsAt DEF Moves, Calls, Outcomes, Fifo!vars
<1> QED BY <1>7, <1>8, <1>9

LEMMA FifoInit == Init => Fifo!Init
<1> SUFFICES ASSUME Init PROVE Fifo!Init
  OBVIOUS
<1>1. QueueInv
  BY QueueInvInit
<1>2. PICK s \in NodeSeqs : Shape(s)
  BY <1>1 DEF QueueInv
<1>3. s = <<>>
  BY <1>2, NodeSeqFacts DEF Init, Shape, NextLeads, Leads
<1>4. Contents = <<>>
  BY <1>1, <1>2, <1>3, ListFromIs, EntriesOfSeq DEF Contents, Shape, NextLeads, QueueInv, TypeInv
<1>5. \A t \in Threads : pc[t] = "idle"
  BY DEF Init
<1>6. Calls = [t \in Threads |-> "no"]
  <2>1. \A t \in Threads : CallOf(t) = "no"
    BY <1>5 DEF CallOf
  <2> QED BY <2>1 DEF Calls
<1>7. Outcomes = [t \in Threads |-> [what |-> "pending"]]
  BY <1>5 DEF Outcomes, OutcomeOf
<1>8. Arguments \in [Producers -> Entries]
  BY <1>1 DEF QueueInv, TypeInv, Arguments, Threads
<1> QED BY <1>4, <1>6, <1>7, <1>8 DEF Fifo!Init, Fifo!Pending, Fifo!Threads, Threads

LEMMA FifoStep == QueueInv /\ QueueInv' /\ [Next]_vars => [Fifo!Next]_Fifo!vars
<1> SUFFICES ASSUME QueueInv, QueueInv', [Next]_vars PROVE Fifo!Next \/ UNCHANGED Fifo!vars
  OBVIOUS
<1>1. TypeInv /\ TypeInv' /\ OneThread
  BY DEF QueueInv
<1>2. PICK s \in NodeSeqs : Shape(s)
  BY DEF QueueInv
<1>3. ASSUME NEW t \in Producers, EnqueueNext(t) PROVE Fifo!Next \/ UNCHANGED Fifo!vars
  BY <1>1, <1>2, <1>3, CallSteps, EnqueueSteps DEF EnqueueNext, Threads
<1>4. ASSUME NEW t \in Consumers, DequeueNext(t) PROVE Fifo!Next \/ UNCHANGED Fifo!vars
  BY <1>1, <1>2, <1>4, CallSteps, DequeueSteps DEF DequeueNext, Threads
<1>5. ASSUME NEW t \in Threads, LockQueue(t) \/ UnlockQueue(t)
      PROVE  Fifo!Next \/ UNCHANGED Fifo!vars
  BY <1>1, <1>5, MutexSteps
<1>6. CASE FreeSynchronizedQueue \/ FreeListEntry \/ Freed \/ UNCHANGED vars
  <2>1. UNCHANGED <<head, next, entry, pc, data>>
    BY <1>6 DEF FreeSynchronizedQueue, FreeListEntry, Freed, vars, listVars
  <2> QED
    BY <2>1 DEF Fifo!vars, Contents, Calls, Arguments, Outcomes, CallOf, OutcomeOf
<1> QED BY <1>3, <1>4, <1>5, <1>6 DEF Next

\* Enqueue and Dequeue are linearizable: every run of the pointer code is a
\* run of a queue on which each call takes effect at one instant.
THEOREM QueueIsFifo == Spec => ImplementsFifo
BY FifoInit, FifoStep, QueueInvAlways, PTL DEF Spec, ImplementsFifo, Fifo!Spec
=============================================================================
