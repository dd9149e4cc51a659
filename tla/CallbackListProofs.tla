-------------------------- MODULE CallbackListProofs --------------------------
(***************************************************************************)
(* The linked list of CallbackList, for any set of listeners and any       *)
(* number of appends: it stays a doubly linked list, removed nodes form no *)
(* cycle of ownership, and the list implements ListenerSet.                *)
(***************************************************************************)
EXTENDS CallbackList, WellOrder, TLAPS

------------------------------------------------------------------------------
(* The inductive invariant. *)

\* The nodes append() has linked and remove() has not freed.
Live == {n \in Session : counter[n] # removedCounter /\ n # appending}

\* Removed nodes that are still allocated.
Removed == Allocated \ (Live \cup {appending})

\* The list that the mutex protects: the counters grow from head to tail.
ListInv ==
  /\ head \in Live \cup {NoSession} /\ tail \in Live \cup {NoSession}
  /\ (head = NoSession) <=> (Live = {})
  /\ (tail = NoSession) <=> (Live = {})
  /\ \A n \in Live :
       /\ next[n] \in Live \cup {NoSession} /\ previous[n] \in Live \cup {NoSession}
       /\ (previous[n] = NoSession) <=> (n = head)
       /\ (next[n] = NoSession) <=> (n = tail)
       /\ next[n] # NoSession => counter[n] < counter[next[n]]
  /\ \A m, n \in Live : next[m] = n <=> previous[n] = m

\* The counters, and the node that append() has allocated but not linked.
CounterInv ==
  /\ \A n \in Session : counter[n] <= currentCounter
  /\ snapshot <= currentCounter
  /\ appending # NoSession =>
       /\ counter[appending] # removedCounter
       /\ next[appending] = NoSession /\ previous[appending] = NoSession
       /\ \A n \in Live : counter[n] < counter[appending]
       /\ \A n \in Allocated : next[n] # appending /\ previous[n] # appending

\* The walk.
WalkInv ==
  /\ it = "idle" => node = NoSession
  /\ it = "call" => node # NoSession
  /\ node # NoSession => node # appending

\* The order in which nodes were removed: a removed node points to nodes that
\* were removed after it or are linked still.
RemovalOrder(rank, bound) ==
  \A n \in Removed :
    /\ rank[n] < bound
    /\ \A m \in LinksOf[n] \cap Removed : rank[n] < rank[m]

OwnershipInv == \E rank \in [Session -> Nat], bound \in Nat : RemovalOrder(rank, bound)

ListenersInv == CTypeOK /\ ListInv /\ CounterInv /\ WalkInv /\ OwnershipInv

------------------------------------------------------------------------------
(* What pointers lead to. *)

\* The nodes that the pointers in R keep allocated, and those ahead of x.
Heap(R, nx, pv) == Reach(R, [n \in Session |-> {nx[n], pv[n]}])
Ahead(x, nx)    == Reach({x}, [n \in Session |-> {nx[n]}])

Pointers == [Session -> Ptr]

\* What is reached contains the pointers it starts from and is closed under succ.
LEMMA ReachFact ==
  ASSUME NEW P \in SUBSET Ptr, NEW succ \in [Session -> SUBSET Ptr]
  PROVE  /\ Reach(P, succ) \subseteq Session
         /\ P \ {NoSession} \subseteq Reach(P, succ)
         /\ Closed(Reach(P, succ), succ)
<1>1. Reach(P, succ) \subseteq Session
  BY DEF Reach
<1>2. P \ {NoSession} \subseteq Reach(P, succ)
  BY DEF Reach, Ptr
<1>3. ASSUME NEW n \in Reach(P, succ), NEW m \in succ[n] \ {NoSession} PROVE m \in Reach(P, succ)
  <2>1. n \in Session /\ m \in Session
    BY <1>1 DEF Ptr
  <2>2. ASSUME NEW S \in SUBSET Session, P \ {NoSession} \subseteq S, Closed(S, succ) PROVE m \in S
    <3>1. n \in S
      BY <2>2 DEF Reach
    <3> QED BY <2>2, <3>1 DEF Closed
  <2> QED BY <2>1, <2>2 DEF Reach
<1> QED BY <1>1, <1>2, <1>3 DEF Closed

\* Any closed set of nodes with those pointers contains what is reached.
LEMMA ReachLeast ==
  ASSUME NEW P, NEW succ, NEW S \in SUBSET Session, P \ {NoSession} \subseteq S, Closed(S, succ)
  PROVE  Reach(P, succ) \subseteq S
BY DEF Reach

\* The nodes kept allocated are closed under both pointers of a node.
LEMMA HeapFact ==
  ASSUME NEW R \in SUBSET Ptr, NEW nx \in Pointers, NEW pv \in Pointers
  PROVE  /\ Heap(R, nx, pv) \subseteq Session
         /\ R \ {NoSession} \subseteq Heap(R, nx, pv)
         /\ \A n \in Heap(R, nx, pv) : /\ nx[n] \in Heap(R, nx, pv) \cup {NoSession}
                                       /\ pv[n] \in Heap(R, nx, pv) \cup {NoSession}
<1> DEFINE succ == [n \in Session |-> {nx[n], pv[n]}]
<1>1. succ \in [Session -> SUBSET Ptr]
  BY DEF Pointers
<1>2. \A n \in Session : succ[n] = {nx[n], pv[n]}
  OBVIOUS
<1>3. Heap(R, nx, pv) = Reach(R, succ)
  BY DEF Heap
<1> HIDE DEF succ
<1> QED BY <1>1, <1>2, <1>3, ReachFact DEF Closed

\* Any set of nodes closed under both pointers contains them.
LEMMA HeapLeast ==
  ASSUME NEW R \in SUBSET Ptr, NEW nx \in Pointers, NEW pv \in Pointers,
         NEW S \in SUBSET Session, R \ {NoSession} \subseteq S,
         \A n \in S : nx[n] \in S \cup {NoSession} /\ pv[n] \in S \cup {NoSession}
  PROVE  Heap(R, nx, pv) \subseteq S
<1> DEFINE succ == [n \in Session |-> {nx[n], pv[n]}]
<1>1. \A n \in Session : succ[n] = {nx[n], pv[n]}
  OBVIOUS
<1>2. Heap(R, nx, pv) = Reach(R, succ)
  BY DEF Heap
<1> HIDE DEF succ
<1>3. Closed(S, succ)
  BY <1>1 DEF Closed
<1> QED BY <1>2, <1>3, ReachLeast

\* The nodes ahead are closed under next.
LEMMA AheadFact ==
  ASSUME NEW x \in Ptr, NEW nx \in Pointers
  PROVE  /\ Ahead(x, nx) \subseteq Session
         /\ x # NoSession => x \in Ahead(x, nx)
         /\ \A n \in Ahead(x, nx) : nx[n] \in Ahead(x, nx) \cup {NoSession}
<1> DEFINE succ == [n \in Session |-> {nx[n]}]
<1>1. succ \in [Session -> SUBSET Ptr] /\ {x} \in SUBSET Ptr
  BY DEF Pointers
<1>2. \A n \in Session : succ[n] = {nx[n]}
  OBVIOUS
<1>3. Ahead(x, nx) = Reach({x}, succ)
  BY DEF Ahead
<1> HIDE DEF succ
<1> QED BY <1>1, <1>2, <1>3, ReachFact DEF Closed

\* Any set of nodes closed under next contains them.
LEMMA AheadLeast ==
  ASSUME NEW x \in Ptr, NEW nx \in Pointers, NEW S \in SUBSET Session,
         x \in S \cup {NoSession}, \A n \in S : nx[n] \in S \cup {NoSession}
  PROVE  Ahead(x, nx) \subseteq S
<1> DEFINE succ == [n \in Session |-> {nx[n]}]
<1>1. \A n \in Session : succ[n] = {nx[n]}
  OBVIOUS
<1>2. Ahead(x, nx) = Reach({x}, succ)
  BY DEF Ahead
<1> HIDE DEF succ
<1>3. Closed(S, succ)
  <2>1. ASSUME NEW n \in S PROVE succ[n] \ {NoSession} \subseteq S
    <3>1. succ[n] = {nx[n]} /\ nx[n] \in S \cup {NoSession}
      BY <1>1
    <3> QED BY <3>1
  <2> QED BY <2>1 DEF Closed
<1>4. {x} \ {NoSession} \subseteq S
  OBVIOUS
<1> QED BY <1>2, <1>3, <1>4, ReachLeast

\* The state's own sets are of this form.
LEMMA SetsOfTheState ==
  /\ Linked = Ahead(head, next)
  /\ Allocated = Heap({head, tail, node, appending}, next, previous)
BY DEF Linked, Allocated, Ahead, Heap, NextOf, LinksOf

\* The same in the next state.
LEMMA SetsAfterTheStep ==
  /\ Linked' = Ahead(head', next')
  /\ Allocated' = Heap({head', tail', node', appending'}, next', previous')
BY DEF Linked, Allocated, Ahead, Heap, NextOf, LinksOf

\* A pointer of the list, of the walk or of an allocated node never dangles.
LEMMA AllocatedFact ==
  CTypeOK => /\ Allocated \subseteq Session
             /\ {head, tail, node, appending} \ {NoSession} \subseteq Allocated
             /\ \A n \in Allocated : /\ next[n] \in Allocated \cup {NoSession}
                                     /\ previous[n] \in Allocated \cup {NoSession}
<1> SUFFICES ASSUME CTypeOK
             PROVE  /\ Allocated \subseteq Session
                    /\ {head, tail, node, appending} \ {NoSession} \subseteq Allocated
                    /\ \A n \in Allocated : /\ next[n] \in Allocated \cup {NoSession}
                                            /\ previous[n] \in Allocated \cup {NoSession}
  OBVIOUS
<1>1. {head, tail, node, appending} \in SUBSET Ptr /\ next \in Pointers /\ previous \in Pointers
  BY DEF CTypeOK, Pointers
<1> QED BY <1>1, SetsOfTheState, HeapFact

\* Every linked node is reached from head: of those that are not, the one with the
\* smallest counter would have a predecessor that is.
LEMMA LinkedIsLive == CTypeOK /\ ListInv => Linked = Live
<1> SUFFICES ASSUME CTypeOK, ListInv PROVE Linked = Live
  OBVIOUS
<1>1. next \in Pointers /\ previous \in Pointers /\ head \in Ptr /\ Live \in SUBSET Session
      /\ counter \in [Session -> Nat]
  BY ListAssumption DEF CTypeOK, Pointers, Live
<1>2. Linked \subseteq Live
  BY <1>1, AheadLeast, SetsOfTheState DEF ListInv
<1>3. /\ head # NoSession => head \in Linked
      /\ \A n \in Linked : next[n] \in Linked \cup {NoSession}
  BY <1>1, AheadFact, SetsOfTheState
<1> DEFINE T == {counter[n] : n \in Live \ Linked}
<1>4. ASSUME Live \ Linked # {} PROVE FALSE
  <2>1. T \subseteq Nat /\ T # {}
    BY <1>1, <1>4
  <2>2. PICK c \in T : \A k \in T : c <= k
    BY <2>1, MinNat
  <2>3. PICK n \in Live \ Linked : c = counter[n]
    OBVIOUS
  <2>4. n # head
    BY <1>3, <2>3, ListAssumption DEF Live
  <2>5. previous[n] \in Live /\ next[previous[n]] = n
    BY <2>3, <2>4 DEF ListInv
  <2>6. counter[previous[n]] < counter[n] /\ n # NoSession
    BY <1>1, <2>3, <2>5, ListAssumption DEF ListInv
  <2>7. previous[n] \notin Linked
    BY <1>3, <2>3, <2>5, <2>6
  <2>8. counter[n] <= counter[previous[n]]
    BY <2>2, <2>3, <2>5, <2>7
  <2> QED BY <1>1, <2>3, <2>5, <2>6, <2>8
<1> QED BY <1>2, <1>4

\* The list itself keeps its nodes: each is reached from head.
LEMMA LiveIsAllocated == CTypeOK /\ ListInv => Live \subseteq Allocated
<1> SUFFICES ASSUME CTypeOK, ListInv PROVE Live \subseteq Allocated
  OBVIOUS
<1>1. next \in Pointers /\ head \in Ptr /\ Allocated \in SUBSET Session
      /\ head \in Allocated \cup {NoSession}
      /\ \A n \in Allocated : next[n] \in Allocated \cup {NoSession}
  BY AllocatedFact DEF CTypeOK, Pointers
<1>2. Ahead(head, next) \subseteq Allocated
  BY <1>1, AheadLeast
<1> QED BY <1>2, LinkedIsLive, SetsOfTheState

------------------------------------------------------------------------------
(* The steps. *)

\* The invariant holds for the empty list.
LEMMA ListenersInit == CInit => ListenersInv
<1> SUFFICES ASSUME CInit PROVE ListenersInv
  OBVIOUS
<1> USE ListAssumption DEF CInit
<1>1. CTypeOK
  BY DEF CTypeOK, Ptr, removedCounter
<1>2. Live = {}
  BY DEF Live
<1>3. ListInv /\ CounterInv /\ WalkInv
  BY <1>2 DEF ListInv, CounterInv, WalkInv, removedCounter
<1>4. Allocated = {}
  <2>1. {head, tail, node, appending} \in SUBSET Ptr /\ next \in Pointers /\ previous \in Pointers
    BY <1>1 DEF CTypeOK, Pointers
  <2>2. {head, tail, node, appending} \ {NoSession} \subseteq {}
    OBVIOUS
  <2>3. Heap({head, tail, node, appending}, next, previous) \subseteq {}
    <3>1. /\ {} \in SUBSET Session
          /\ \A n \in {} : next[n] \in {} \cup {NoSession} /\ previous[n] \in {} \cup {NoSession}
      OBVIOUS
    <3> HIDE DEF CInit
    <3> QED BY <2>1, <2>2, <3>1, HeapLeast
  <2> QED BY <2>3, SetsOfTheState
<1>5. OwnershipInv
  <2>1. [n \in Session |-> 0] \in [Session -> Nat] /\ 0 \in Nat
    OBVIOUS
  <2>2. RemovalOrder([n \in Session |-> 0], 0)
    BY <1>4 DEF RemovalOrder, Removed
  <2> QED BY <2>1, <2>2 DEF OwnershipInv
<1> QED BY <1>1, <1>3, <1>5 DEF ListenersInv

\* A step that removes no node keeps the order of removal.
LEMMA OwnershipFrame ==
  ASSUME CTypeOK, OwnershipInv, Removed' \subseteq Removed,
         \A n \in Removed' : next'[n] = next[n] /\ previous'[n] = previous[n]
  PROVE  OwnershipInv'
<1>1. Removed \subseteq Session
  BY AllocatedFact DEF Removed
<1>2. PICK rank \in [Session -> Nat], bound \in Nat : RemovalOrder(rank, bound)
  BY DEF OwnershipInv
<1>3. \A n \in Removed' : LinksOf'[n] = LinksOf[n]
  BY <1>1 DEF LinksOf
<1>4. RemovalOrder(rank, bound)'
  BY <1>2, <1>3 DEF RemovalOrder
<1> QED BY <1>4 DEF OwnershipInv

\* The roots of a state and its pointers.
LEMMA Roots ==
  CTypeOK => /\ {head, tail, node, appending} \in SUBSET Ptr
             /\ next \in Pointers /\ previous \in Pointers
BY DEF CTypeOK, Pointers

\* append() takes a counter for a node that nothing points to.
LEMMA AppendAllocateKeeps ==
  ASSUME ListenersInv, NEW n \in Session, AppendAllocate(n)
  PROVE  ListenersInv' /\ Live' = Live /\ Allocated' \subseteq Allocated \cup {n}
<1> USE ListAssumption DEF ListenersInv
<1>1. /\ appending = NoSession /\ n \notin Allocated /\ currentCounter < MaxCounter
      /\ currentCounter' = currentCounter + 1
      /\ counter' = [counter EXCEPT ![n] = currentCounter + 1]
      /\ next' = [next EXCEPT ![n] = NoSession]
      /\ previous' = [previous EXCEPT ![n] = NoSession]
      /\ appending' = n
      /\ UNCHANGED <<head, tail, it, node, snapshot>>
  BY DEF AppendAllocate, walkVars
<1>2. /\ Allocated \subseteq Session
      /\ {head, tail, node, appending} \ {NoSession} \subseteq Allocated
      /\ \A m \in Allocated : next[m] \in Allocated \cup {NoSession}
                             /\ previous[m] \in Allocated \cup {NoSession}
  BY AllocatedFact
<1>3. Live \subseteq Allocated /\ n \notin Live
  BY <1>1, LiveIsAllocated
<1>4. CTypeOK'
  BY <1>1 DEF CTypeOK, Ptr
<1>5. counter[n] = 0 /\ Live' = Live
  <2>1. counter[n] = 0
    BY <1>1, <1>3 DEF Live, removedCounter
  <2>2. ASSUME NEW m \in Session PROVE m \in Live' <=> m \in Live
    <3>1. CASE m = n
      BY <1>1, <1>3, <3>1 DEF Live
    <3>2. CASE m # n
      BY <1>1, <3>2 DEF Live, CTypeOK
    <3> QED BY <3>1, <3>2
  <2> QED BY <2>1, <2>2 DEF Live
<1>6. Allocated' \subseteq Allocated \cup {n}
  <2>1. /\ {head', tail', node', appending'} \in SUBSET Ptr
        /\ next' \in Pointers /\ previous' \in Pointers
    BY <1>4 DEF CTypeOK, Pointers
  <2>2. {head', tail', node', appending'} \ {NoSession} \subseteq Allocated \cup {n}
    BY <1>1, <1>2
  <2>3. \A m \in Allocated \cup {n} : next'[m] \in (Allocated \cup {n}) \cup {NoSession}
                                  /\ previous'[m] \in (Allocated \cup {n}) \cup {NoSession}
    BY <1>1, <1>2 DEF CTypeOK
  <2>4. Allocated \cup {n} \in SUBSET Session
    BY <1>2
  <2> QED BY <2>1, <2>2, <2>3, <2>4, HeapLeast, SetsAfterTheStep
<1>7. \A m \in Session : m # n => /\ next'[m] = next[m] /\ previous'[m] = previous[m]
                                /\ counter'[m] = counter[m]
  BY <1>1 DEF CTypeOK
<1>8. ListInv'
  BY <1>1, <1>3, <1>5, <1>7 DEF ListInv
<1>9. CounterInv'
  <2>1. counter'[n] = currentCounter + 1 /\ next'[n] = NoSession /\ previous'[n] = NoSession
    BY <1>1 DEF CTypeOK
  <2>2. currentCounter \in Nat /\ snapshot \in Nat /\ \A m \in Session : counter[m] \in Nat
    BY DEF CTypeOK
  <2>3. \A m \in Session : counter'[m] <= currentCounter'
    BY <1>1, <1>7, <2>1, <2>2 DEF CounterInv
  <2>4. snapshot' <= currentCounter'
    BY <1>1, <2>2 DEF CounterInv
  <2>5. \A m \in Live' : counter'[m] < counter'[appending']
    BY <1>1, <1>2, <1>3, <1>5, <1>7, <2>1, <2>2 DEF CounterInv
  <2>6. \A m \in Allocated' : next'[m] # appending' /\ previous'[m] # appending'
    BY <1>1, <1>2, <1>6, <1>7, <2>1
  <2>7. counter'[appending'] # removedCounter
    BY <1>1, <2>1, <2>2 DEF removedCounter
  <2> QED BY <1>1, <2>1, <2>3, <2>4, <2>5, <2>6, <2>7 DEF CounterInv
<1>10. WalkInv'
  BY <1>1, <1>2 DEF WalkInv
<1>11. OwnershipInv'
  <2>1. Removed' \subseteq Removed
    BY <1>1, <1>2, <1>5, <1>6 DEF Removed
  <2>2. \A m \in Removed' : m # n /\ m \in Session
    BY <1>1, <1>2, <1>6 DEF Removed
  <2> QED BY <1>7, <2>1, <2>2, OwnershipFrame
<1> QED BY <1>4, <1>5, <1>6, <1>8, <1>9, <1>10, <1>11

\* append() links the node behind tail, with the greatest counter.
LEMMA AppendLinkKeeps ==
  ASSUME ListenersInv, NEW n \in Session, AppendLink(n)
  PROVE  ListenersInv' /\ Live' = Live \cup {n} /\ Allocated' \subseteq Allocated
<1> USE ListAssumption DEF ListenersInv
<1>1. /\ appending = n /\ appending' = NoSession /\ tail' = n
      /\ \/ /\ head # NoSession /\ head' = head
            /\ previous' = [previous EXCEPT ![n] = tail] /\ next' = [next EXCEPT ![tail] = n]
         \/ head = NoSession /\ head' = n /\ next' = next /\ previous' = previous
      /\ UNCHANGED <<counter, currentCounter, it, node, snapshot>>
  BY DEF AppendLink, walkVars
<1>2. /\ Allocated \subseteq Session
      /\ {head, tail, node, appending} \ {NoSession} \subseteq Allocated
      /\ \A m \in Allocated : next[m] \in Allocated \cup {NoSession}
                             /\ previous[m] \in Allocated \cup {NoSession}
  BY AllocatedFact
<1>3. Live \subseteq Allocated /\ n \notin Live /\ n \in Allocated /\ n # NoSession
  BY <1>1, <1>2, LiveIsAllocated DEF Live
<1>4. CTypeOK'
  BY <1>1 DEF CTypeOK, Ptr
<1>5. Live' = Live \cup {n}
  BY <1>1, <1>3 DEF Live, CounterInv
<1>6. head # NoSession => tail \in Live
  BY DEF ListInv
<1>7. \A m \in Session \ {n} : previous'[m] = previous[m] /\ (m # tail => next'[m] = next[m])
  BY <1>1 DEF CTypeOK
<1>8. /\ next'[n] = NoSession
      /\ previous'[n] = IF head # NoSession THEN tail ELSE NoSession
      /\ head # NoSession => next'[tail] = n
  BY <1>1, <1>3, <1>6 DEF CTypeOK, CounterInv, Live
<1>9. Allocated' \subseteq Allocated
  <2>1. /\ {head', tail', node', appending'} \in SUBSET Ptr
        /\ next' \in Pointers /\ previous' \in Pointers
    BY <1>4 DEF CTypeOK, Pointers
  <2>2. {head', tail', node', appending'} \ {NoSession} \subseteq Allocated
    BY <1>1, <1>2
  <2>3. \A m \in Allocated : next'[m] \in Allocated \cup {NoSession}
                           /\ previous'[m] \in Allocated \cup {NoSession}
    BY <1>1, <1>2, <1>3 DEF CTypeOK
  <2>4. Allocated \in SUBSET Session
    BY <1>2
  <2> QED BY <2>1, <2>2, <2>3, <2>4, HeapLeast, SetsAfterTheStep
<1>10. ListInv'
  <2>1. CASE head = NoSession
    <3>1. Live = {} /\ Live' = {n} /\ head' = n /\ tail' = n /\ next'[n] = NoSession /\ previous'[n] = NoSession
      BY <1>1, <1>5, <1>8, <2>1 DEF ListInv
    <3> QED BY <1>3, <3>1 DEF ListInv
  <2>2. CASE head # NoSession
    <3>1. /\ head' = head /\ head \in Live /\ tail \in Live /\ tail # n /\ next[tail] = NoSession
          /\ Live \subseteq Session
      BY <1>1, <1>3, <1>6, <2>2 DEF ListInv, Live
    <3>2. /\ next'[n] = NoSession /\ previous'[n] = tail /\ next'[tail] = n
          /\ \A m \in Live : previous'[m] = previous[m] /\ (m # tail => next'[m] = next[m])
      BY <1>3, <1>7, <1>8, <2>2, <3>1
    <3>3. \A m \in Live' : m = n \/ m = tail \/ (m \in Live /\ m # tail /\ m # n)
      BY <1>3, <1>5
    <3>4. counter[tail] < counter[n]
      BY <1>1, <1>3, <3>1 DEF CounterInv
    <3>5. ASSUME NEW m \in Live'
          PROVE  /\ next'[m] \in Live' \cup {NoSession} /\ previous'[m] \in Live' \cup {NoSession}
                 /\ (previous'[m] = NoSession) <=> (m = head')
                 /\ (next'[m] = NoSession) <=> (m = tail')
                 /\ next'[m] # NoSession => counter'[m] < counter'[next'[m]]
      <4>1. CASE m = n
        BY <1>1, <1>3, <1>5, <3>1, <3>2, <4>1 DEF Live
      <4>2. CASE m = tail
        BY <1>1, <1>3, <1>5, <3>1, <3>2, <3>4, <4>2 DEF ListInv
      <4>3. CASE m \in Live /\ m # tail /\ m # n
        BY <1>1, <1>5, <3>1, <3>2, <4>3 DEF ListInv
      <4> QED BY <3>3, <4>1, <4>2, <4>3
    <3>6. ASSUME NEW l \in Live', NEW m \in Live' PROVE next'[l] = m <=> previous'[m] = l
      <4>1. CASE m = n
        <5>1. CASE l = n
          BY <1>3, <3>1, <3>2, <4>1, <5>1
        <5>2. CASE l = tail
          BY <3>2, <4>1, <5>2
        <5>3. CASE l \in Live /\ l # tail /\ l # n
          BY <1>3, <3>2, <4>1, <5>3 DEF ListInv
        <5> QED BY <3>3, <5>1, <5>2, <5>3
      <4>2. CASE m # n
        <5>1. m \in Live /\ previous'[m] = previous[m] /\ m # NoSession
          BY <3>1, <3>2, <3>3, <4>2
        <5>2. CASE l = n
          BY <1>3, <3>2, <5>1, <5>2 DEF ListInv
        <5>3. CASE l = tail
          BY <3>1, <3>2, <4>2, <5>1, <5>3 DEF ListInv
        <5>4. CASE l \in Live /\ l # tail /\ l # n
          BY <3>2, <5>1, <5>4 DEF ListInv
        <5> QED BY <3>3, <5>2, <5>3, <5>4
      <4> QED BY <4>1, <4>2
    <3>7. /\ head' \in Live' \cup {NoSession} /\ tail' \in Live' \cup {NoSession}
          /\ (head' = NoSession) <=> (Live' = {})
          /\ (tail' = NoSession) <=> (Live' = {})
      BY <1>1, <1>3, <1>5, <2>2, <3>1
    <3> QED BY <3>5, <3>6, <3>7 DEF ListInv
  <2> QED BY <2>1, <2>2
<1>11. CounterInv' /\ WalkInv'
  BY <1>1, <1>3 DEF CounterInv, WalkInv
<1>12. OwnershipInv'
  <2>1. Removed' \subseteq Removed
    BY <1>1, <1>5, <1>9, <1>3 DEF Removed
  <2>2. \A m \in Removed' : m \in Session \ {n} /\ (head # NoSession => m # tail)
    BY <1>2, <1>5, <1>6, <1>9 DEF Removed
  <2>3. \A m \in Removed' : next'[m] = next[m] /\ previous'[m] = previous[m]
    BY <1>1, <1>7, <2>2
  <2> QED BY <2>1, <2>3, OwnershipFrame
<1> QED BY <1>4, <1>5, <1>9, <1>10, <1>11, <1>12

\* What remove() finds: n is in the list, between its neighbours.
LEMMA RemoveFact ==
  ASSUME ListenersInv, NEW n \in Session, Remove(n)
  PROVE  /\ n \in Live /\ appending = NoSession /\ appending' = NoSession
         /\ next[n] # n /\ previous[n] # n
         /\ next[n] \in (Live \ {n}) \cup {NoSession}
         /\ previous[n] \in (Live \ {n}) \cup {NoSession}
         /\ next[n] # NoSession => previous[next[n]] = n
         /\ previous[n] # NoSession => next[previous[n]] = n
         /\ \A m \in Session : m # previous[n] => next'[m] = next[m]
         /\ previous[n] # NoSession => next'[previous[n]] = next[n]
         /\ \A m \in Session : m # next[n] => previous'[m] = previous[m]
         /\ next[n] # NoSession => previous'[next[n]] = previous[n]
         /\ next'[n] = next[n] /\ previous'[n] = previous[n]
         /\ counter'[n] = removedCounter /\ \A m \in Session : m # n => counter'[m] = counter[m]
         /\ head' = IF head = n THEN next[n] ELSE head
         /\ tail' = IF tail = n THEN previous[n] ELSE tail
         /\ Live' = Live \ {n}
         /\ UNCHANGED <<currentCounter, it, node, snapshot>>
         /\ next' \in Pointers /\ previous' \in Pointers /\ counter' \in [Session -> 0..MaxCounter]
<1> USE ListAssumption DEF ListenersInv
<1>1. /\ appending = NoSession /\ counter[n] # removedCounter /\ doFreeNode(n)
      /\ UNCHANGED <<currentCounter, appending, it, node, snapshot>>
  BY DEF Remove, walkVars
<1>2. n \in Live /\ n # NoSession
  BY <1>1 DEF Live
<1>3. \A m \in Session : counter[m] \in Nat
  BY DEF CTypeOK
<1>4. next[n] # n
  BY <1>2, <1>3 DEF ListInv
<1>5. previous[n] # n
  BY <1>2, <1>4 DEF ListInv
<1>6. /\ next[n] \in (Live \ {n}) \cup {NoSession}
      /\ previous[n] \in (Live \ {n}) \cup {NoSession}
      /\ next[n] # NoSession => previous[next[n]] = n
      /\ previous[n] # NoSession => next[previous[n]] = n
  BY <1>2, <1>4, <1>5 DEF ListInv
<1>7. /\ \A m \in Session : m # previous[n] => next'[m] = next[m]
      /\ previous[n] # NoSession => next'[previous[n]] = next[n]
  BY <1>1, <1>6 DEF doFreeNode, Live
<1>p. /\ \A m \in Session : m # next[n] => previous'[m] = previous[m]
      /\ next[n] # NoSession => previous'[next[n]] = previous[n]
  BY <1>1, <1>6 DEF doFreeNode, Live
<1>n. next'[n] = next[n] /\ previous'[n] = previous[n]
  BY <1>4, <1>5, <1>7, <1>p
<1>8. counter'[n] = removedCounter /\ \A m \in Session : m # n => counter'[m] = counter[m]
  BY <1>1 DEF doFreeNode, CTypeOK
<1>9. /\ head' = IF head = n THEN next[n] ELSE head
      /\ tail' = IF tail = n THEN previous[n] ELSE tail
  BY <1>1 DEF doFreeNode
<1>10. Live' = Live \ {n}
  BY <1>1, <1>8 DEF Live
<1>11. next' \in Pointers /\ previous' \in Pointers
  <2>1. next \in Pointers /\ previous \in Pointers
    BY Roots
  <2>2. next' = [m \in Session |-> IF m = previous[n] THEN next[n] ELSE next[m]]
    BY <1>1 DEF doFreeNode
  <2>3. previous' = [m \in Session |-> IF m = next[n] THEN previous[n] ELSE previous[m]]
    BY <1>1 DEF doFreeNode
  <2> QED BY <2>1, <2>2, <2>3 DEF Pointers
<1>12. counter' \in [Session -> 0..MaxCounter]
  BY <1>1 DEF doFreeNode, CTypeOK, removedCounter
<1> HIDE DEF ListenersInv
<1> QED BY <1>1, <1>2, <1>4, <1>5, <1>6, <1>7, <1>p, <1>n, <1>8, <1>9, <1>10, <1>11, <1>12, Zenon

\* remove() links the neighbours with each other; the removed node ranks last.
LEMMA RemoveKeeps ==
  ASSUME ListenersInv, NEW n \in Session, Remove(n)
  PROVE  ListenersInv' /\ Live' = Live \ {n} /\ Allocated' \subseteq Allocated
<1> USE ListAssumption
<1>1. /\ n \in Live /\ appending = NoSession /\ appending' = NoSession
      /\ next[n] # n /\ previous[n] # n
      /\ next[n] \in (Live \ {n}) \cup {NoSession}
      /\ previous[n] \in (Live \ {n}) \cup {NoSession}
      /\ next[n] # NoSession => previous[next[n]] = n
      /\ previous[n] # NoSession => next[previous[n]] = n
  BY RemoveFact
<1>2. /\ \A m \in Session : m # previous[n] => next'[m] = next[m]
      /\ previous[n] # NoSession => next'[previous[n]] = next[n]
      /\ \A m \in Session : m # next[n] => previous'[m] = previous[m]
      /\ next[n] # NoSession => previous'[next[n]] = previous[n]
      /\ next'[n] = next[n] /\ previous'[n] = previous[n]
      /\ counter'[n] = removedCounter /\ \A m \in Session : m # n => counter'[m] = counter[m]
      /\ head' = IF head = n THEN next[n] ELSE head
      /\ tail' = IF tail = n THEN previous[n] ELSE tail
  BY RemoveFact
<1>3. /\ UNCHANGED <<currentCounter, it, node, snapshot>> /\ Live' = Live \ {n}
      /\ next' \in Pointers /\ previous' \in Pointers /\ counter' \in [Session -> 0..MaxCounter]
  BY RemoveFact
<1> USE DEF ListenersInv
<1>4. /\ Allocated \subseteq Session
      /\ {head, tail, node, appending} \ {NoSession} \subseteq Allocated
      /\ \A m \in Allocated : next[m] \in Allocated \cup {NoSession}
                             /\ previous[m] \in Allocated \cup {NoSession}
  BY AllocatedFact
<1>5. Live \subseteq Allocated
  BY LiveIsAllocated
<1>6. CTypeOK'
  <2>1. head' \in Ptr /\ tail' \in Ptr
    BY <1>2 DEF CTypeOK
  <2> QED BY <1>1, <1>3, <2>1 DEF CTypeOK, Pointers
<1>7. Allocated' \subseteq Allocated
  <2>1. {head', tail', node', appending'} \in SUBSET Ptr
    BY <1>6 DEF CTypeOK
  <2>2. {head', tail', node', appending'} \ {NoSession} \subseteq Allocated
    BY <1>1, <1>2, <1>3, <1>4, <1>5
  <2>3. \A m \in Allocated : next'[m] \in Allocated \cup {NoSession}
                           /\ previous'[m] \in Allocated \cup {NoSession}
    BY <1>1, <1>2, <1>4, <1>5
  <2>4. Allocated \in SUBSET Session
    BY <1>4
  <2> QED BY <1>3, <2>1, <2>2, <2>3, <2>4, HeapLeast, SetsAfterTheStep
<1>8. Live \subseteq Session /\ NoSession \notin Live
  BY DEF Live
<1>9. ListInv'
  <2>1. ASSUME NEW m \in Live'
        PROVE  /\ next'[m] \in Live' \cup {NoSession} /\ previous'[m] \in Live' \cup {NoSession}
               /\ (previous'[m] = NoSession) <=> (m = head')
               /\ (next'[m] = NoSession) <=> (m = tail')
    <3>1. m \in Live /\ m # n /\ m \in Session
      BY <1>3, <1>8
    <3>2. next[m] = n => m = previous[n]
      BY <1>1, <3>1 DEF ListInv
    <3>3. previous[m] = n => m = next[n]
      BY <1>1, <3>1 DEF ListInv
    <3>4. next'[m] \in Live' \cup {NoSession}
      BY <1>1, <1>2, <1>3, <3>1, <3>2 DEF ListInv
    <3>5. previous'[m] \in Live' \cup {NoSession}
      BY <1>1, <1>2, <1>3, <3>1, <3>3 DEF ListInv
    <3>6. (previous'[m] = NoSession) <=> (m = head')
      BY <1>1, <1>2, <1>8, <3>1, <3>3 DEF ListInv
    <3>7. (next'[m] = NoSession) <=> (m = tail')
      BY <1>1, <1>2, <1>8, <3>1, <3>2 DEF ListInv
    <3> QED BY <3>4, <3>5, <3>6, <3>7
  <2>2. ASSUME NEW m \in Live', next'[m] # NoSession PROVE counter'[m] < counter'[next'[m]]
    <3>1. m \in Live /\ m # n /\ m \in Session /\ next'[m] \in Live /\ next'[m] # n
      BY <1>3, <1>8, <2>1, <2>2
    <3>2. counter'[m] = counter[m] /\ counter'[next'[m]] = counter[next'[m]]
      BY <1>2, <1>8, <3>1
    <3>3. \A l \in Session : counter[l] \in Nat
      BY DEF CTypeOK
    <3>4. CASE m = previous[n]
      <4>1. next'[m] = next[n] /\ next[m] = n /\ next[n] # NoSession
        BY <1>1, <1>2, <1>8, <2>2, <3>1, <3>4
      <4>2. counter[m] < counter[n] /\ counter[n] < counter[next[n]]
        BY <1>1, <1>8, <3>1, <4>1 DEF ListInv
      <4> QED BY <1>8, <3>1, <3>2, <3>3, <4>1, <4>2
    <3>5. CASE m # previous[n]
      BY <1>2, <2>2, <3>1, <3>2, <3>5 DEF ListInv
    <3> QED BY <3>4, <3>5
  <2>3. ASSUME NEW l \in Live', NEW m \in Live' PROVE next'[l] = m <=> previous'[m] = l
    <3>1. l \in Live /\ m \in Live /\ l # n /\ m # n /\ l \in Session /\ m \in Session
      BY <1>3, <1>8
    <3>2. next[l] = m <=> previous[m] = l
      BY <3>1 DEF ListInv
    <3>3. CASE l = previous[n] /\ m = next[n]
      BY <1>2, <3>1, <3>3
    <3>4. CASE l = previous[n] /\ m # next[n]
      BY <1>1, <1>2, <1>8, <3>1, <3>2, <3>4
    <3>5. CASE l # previous[n] /\ m = next[n]
      BY <1>1, <1>2, <1>8, <3>1, <3>2, <3>5
    <3>6. CASE l # previous[n] /\ m # next[n]
      BY <1>2, <3>1, <3>2, <3>6
    <3> QED BY <3>3, <3>4, <3>5, <3>6
  <2>4. /\ head' \in Live' \cup {NoSession} /\ tail' \in Live' \cup {NoSession}
        /\ (head' = NoSession) <=> (Live' = {})
        /\ (tail' = NoSession) <=> (Live' = {})
    <3>1. head' \in Live' \cup {NoSession} /\ tail' \in Live' \cup {NoSession}
      BY <1>1, <1>2, <1>3 DEF ListInv
    <3>2. head' = NoSession => Live' = {}
      <4> SUFFICES ASSUME head' = NoSession PROVE Live' = {}
        OBVIOUS
      <4>1. head = n /\ next[n] = NoSession
        BY <1>1, <1>2, <1>8 DEF ListInv
      <4>2. tail = n
        BY <1>1, <4>1 DEF ListInv
      <4>3. Live = {n}
        <5>1. CTypeOK /\ ListInv
          OBVIOUS
        <5>2. Linked = Live /\ Linked = Ahead(head, next)
          BY <5>1, LinkedIsLive, SetsOfTheState
        <5>3. Ahead(head, next) \subseteq {n}
          <6>1. head \in Ptr /\ next \in Pointers /\ {n} \in SUBSET Session
            BY DEF CTypeOK, Pointers
          <6>2. head \in {n} \cup {NoSession} /\ \A m \in {n} : next[m] \in {n} \cup {NoSession}
            BY <4>1
          <6> QED BY <6>1, <6>2, AheadLeast
        <5> QED BY <1>1, <5>2, <5>3
      <4> QED BY <1>3, <4>3
    <3>3. tail' = NoSession => Live' = {}
      <4> SUFFICES ASSUME tail' = NoSession PROVE Live' = {}
        OBVIOUS
      <4>1. previous[n] = NoSession
        BY <1>1, <1>2, <1>8 DEF ListInv
      <4>2. head = n /\ tail = n
        BY <1>1, <1>2, <1>8, <4>1 DEF ListInv
      <4>3. head' = NoSession
        BY <1>1, <1>2, <4>2 DEF ListInv
      <4> QED BY <3>2, <4>3
    <3>4. Live' = {} => head' = NoSession /\ tail' = NoSession
      BY <3>1
    <3> QED BY <3>1, <3>2, <3>3, <3>4
  <2> QED BY <2>1, <2>2, <2>3, <2>4 DEF ListInv
<1>10. CounterInv' /\ WalkInv'
  <2>1. \A m \in Session : counter'[m] <= currentCounter'
    BY <1>2, <1>3 DEF CounterInv, CTypeOK, removedCounter
  <2> QED BY <1>1, <1>3, <2>1 DEF CounterInv, WalkInv
\* n is removed after all that were, and points to nodes that are linked.
<1>11. OwnershipInv'
  <2>1. PICK rank \in [Session -> Nat], bound \in Nat : RemovalOrder(rank, bound)
    BY DEF OwnershipInv
  <2> DEFINE r == [rank EXCEPT ![n] = bound]
  <2>2. r \in [Session -> Nat] /\ bound + 1 \in Nat /\ r[n] = bound
        /\ \A m \in Session : m # n => r[m] = rank[m]
    OBVIOUS
  <2> HIDE DEF r
  <2>3. Removed' \subseteq Removed \cup {n} /\ Removed' \cap Live' = {} /\ Removed \subseteq Session
        /\ Removed \cap Live = {}
    BY <1>1, <1>3, <1>4, <1>7 DEF Removed
  <2>4. \A m \in Session : LinksOf'[m] = {next'[m], previous'[m]} /\ LinksOf[m] = {next[m], previous[m]}
    BY DEF LinksOf
  <2>5. ASSUME NEW m \in Removed', NEW l \in LinksOf'[m] \cap Removed' PROVE r[m] < r[l]
    <3>1. CASE m = n
      <4>1. next'[n] = next[n] /\ previous'[n] = previous[n]
        BY <1>1, <1>2
      <4>2. l \in Live'
        BY <1>1, <1>3, <1>4, <1>7, <2>3, <2>4, <2>5, <3>1, <4>1
      <4> QED BY <2>3, <4>2
    <3>2. CASE m # n
      <4>1. m \in Removed /\ m \in Session /\ m \notin Live
        BY <2>3, <3>2
      <4>2. LinksOf'[m] = LinksOf[m]
        <5>1. m # next[n] /\ m # previous[n]
          BY <1>1, <4>1
        <5>2. next'[m] = next[m] /\ previous'[m] = previous[m]
          BY <1>2, <4>1, <5>1
        <5> QED BY <2>4, <4>1, <5>2
      <4>3. rank[m] < bound /\ rank[m] \in Nat /\ r[m] = rank[m]
        BY <2>1, <2>2, <3>2, <4>1 DEF RemovalOrder
      <4>4. CASE l = n
        BY <2>2, <4>3, <4>4
      <4>5. CASE l # n
        <5>1. l \in Removed /\ l \in LinksOf[m] /\ l \in Session
          BY <2>3, <4>2, <4>5
        <5> QED BY <2>1, <2>2, <4>1, <4>3, <4>5, <5>1 DEF RemovalOrder
      <4> QED BY <4>4, <4>5
    <3> QED BY <3>1, <3>2
  <2>6. ASSUME NEW m \in Removed' PROVE r[m] < bound + 1
    <3>1. CASE m = n
      BY <2>2, <3>1
    <3>2. CASE m # n
      <4>1. m \in Removed /\ m \in Session
        BY <2>3, <3>2
      <4>2. PICK x \in Nat : r[m] = x /\ x < bound
        BY <2>1, <2>2, <3>2, <4>1 DEF RemovalOrder
      <4> QED BY <4>2
    <3> QED BY <3>1, <3>2
  <2>7. RemovalOrder(r, bound + 1)'
    BY <2>5, <2>6 DEF RemovalOrder
  <2> QED BY <2>2, <2>7 DEF OwnershipInv
<1> QED BY <1>3, <1>6, <1>7, <1>9, <1>10, <1>11

\* The walk only moves its own pointer, along pointers it may follow.
LEMMA WalkKeeps ==
  ASSUME ListenersInv, WalkHead \/ WalkCounter \/ WalkCall \/ WalkNext \/ WalkEnd
  PROVE  ListenersInv' /\ Live' = Live /\ Allocated' \subseteq Allocated
<1> USE ListAssumption DEF ListenersInv
<1>1. UNCHANGED <<head, tail, next, previous, counter, currentCounter, appending>>
  BY DEF WalkHead, WalkCounter, WalkCall, WalkNext, WalkEnd, listVars
<1>2. /\ Allocated \subseteq Session
      /\ {head, tail, node, appending} \ {NoSession} \subseteq Allocated
      /\ \A m \in Allocated : next[m] \in Allocated \cup {NoSession}
                             /\ previous[m] \in Allocated \cup {NoSession}
  BY AllocatedFact
<1>3. WalkNext => node \in Session
  BY DEF WalkNext, WalkInv, CTypeOK, Ptr
<1>4. node' \in {node, head} \/ (node \in Session /\ node' = next[node])
  BY <1>3 DEF WalkHead, WalkCounter, WalkCall, WalkNext, WalkEnd
<1>5. /\ it' \in {"idle", "opening", "check", "call"} /\ snapshot' \in {snapshot, currentCounter, 0}
      /\ it' = "idle" => node' = NoSession
      /\ it' = "call" => node' # NoSession
  BY DEF WalkHead, WalkCounter, WalkCall, WalkNext, WalkEnd
<1>6. CTypeOK'
  <2>1. node' \in Ptr
    BY <1>4 DEF CTypeOK
  <2>2. snapshot' \in 0..MaxCounter
    BY <1>5 DEF CTypeOK
  <2> QED BY <1>1, <1>5, <2>1, <2>2 DEF CTypeOK
<1>7. Live' = Live
  BY <1>1 DEF Live
<1>8. node' \in Allocated \cup {NoSession}
  BY <1>2, <1>4 DEF CTypeOK, Ptr
<1>9. Allocated' \subseteq Allocated
  <2>1. /\ {head', tail', node', appending'} \in SUBSET Ptr
        /\ next' \in Pointers /\ previous' \in Pointers
    BY <1>6 DEF CTypeOK, Pointers
  <2>2. {head', tail', node', appending'} \ {NoSession} \subseteq Allocated
    BY <1>1, <1>2, <1>8
  <2>3. \A m \in Allocated : next'[m] \in Allocated \cup {NoSession}
                           /\ previous'[m] \in Allocated \cup {NoSession}
    BY <1>1, <1>2
  <2>4. Allocated \in SUBSET Session
    BY <1>2
  <2> QED BY <2>1, <2>2, <2>3, <2>4, HeapLeast, SetsAfterTheStep
<1>10. ListInv'
  BY <1>1, <1>7 DEF ListInv
<1>11. CounterInv'
  <2>1. snapshot' <= currentCounter
    BY <1>5 DEF CounterInv, CTypeOK
  <2> QED BY <1>1, <1>7, <1>9, <2>1 DEF CounterInv
<1>12. WalkInv'
  <2>1. ASSUME node' # NoSession, node' = appending PROVE FALSE
    <3>1. appending # NoSession
      BY <2>1
    <3>2. head # appending
      BY <3>1 DEF ListInv, Live
    <3>3. node \in Session => node \in Allocated
      BY <1>2
    <3> QED BY <1>4, <2>1, <3>1, <3>2, <3>3 DEF WalkInv, CounterInv
  <2> QED BY <1>1, <1>5, <2>1 DEF WalkInv
<1>13. OwnershipInv'
  <2>1. Removed' \subseteq Removed
    BY <1>1, <1>7, <1>9 DEF Removed
  <2> QED BY <1>1, <2>1, OwnershipFrame
<1> QED BY <1>6, <1>7, <1>9, <1>10, <1>11, <1>12, <1>13

\* A step that changes nothing.
LEMMA StutterKeeps ==
  ASSUME ListenersInv, UNCHANGED cvars
  PROVE  ListenersInv'
<1> USE DEF ListenersInv, cvars, listVars, walkVars
<1>1. Live' = Live /\ Allocated' = Allocated /\ LinksOf' = LinksOf
  BY SetsOfTheState, SetsAfterTheStep DEF Live, LinksOf
<1>2. CTypeOK' /\ ListInv'
  BY <1>1 DEF CTypeOK, ListInv
<1>3. CounterInv' /\ WalkInv'
  BY <1>1 DEF CounterInv, WalkInv
<1>4. OwnershipInv'
  BY <1>1 DEF OwnershipInv, RemovalOrder, Removed
<1> QED BY <1>2, <1>3, <1>4

\* Every step keeps the invariant.
LEMMA ListenersStep == ListenersInv /\ [CNext]_cvars => ListenersInv'
<1> SUFFICES ASSUME ListenersInv, [CNext]_cvars PROVE ListenersInv'
  OBVIOUS
<1>1. ASSUME NEW n \in Session, AppendAllocate(n) \/ AppendLink(n) \/ Remove(n)
      PROVE  ListenersInv'
  BY <1>1, AppendAllocateKeeps, AppendLinkKeeps, RemoveKeeps
<1> QED BY <1>1, WalkKeeps, StutterKeeps DEF CNext

\* The invariant holds in every reachable state.
LEMMA ListenersInductive == CSpec => []ListenersInv
BY ListenersInit, ListenersStep, PTL DEF CSpec

------------------------------------------------------------------------------
(* The theorems. *)

\* CTypeOK: append, remove and doForEachIf keep every pointer and counter in range.
THEOREM ListTypeCorrect == CSpec => []CTypeOK
<1>1. ListenersInv => CTypeOK
  BY DEF ListenersInv
<1> QED BY <1>1, ListenersInductive, PTL

\* ListWellFormed: after every append and remove, whatever the walk does meanwhile,
\* the list is doubly linked from head to tail and points to linked nodes only.
THEOREM ListStaysWellFormed == CSpec => []ListWellFormed
<1>1. ListenersInv => ListWellFormed
  <2> SUFFICES ASSUME ListenersInv PROVE ListWellFormed
    OBVIOUS
  <2>1. Linked = Live /\ ListInv
    BY LinkedIsLive DEF ListenersInv
  <2>2. (head = NoSession) = (Linked = {})
    BY <2>1 DEF ListInv
  <2>3. Linked # {} => /\ tail \in Linked /\ next[tail] = NoSession
                       /\ previous[head] = NoSession
    BY <2>1 DEF ListInv
  <2>4. /\ \A m, n \in Linked : next[m] = n <=> previous[n] = m
        /\ \A n \in Linked : previous[n] \in Linked \cup {NoSession}
        /\ \A n \in Linked : counter[n] # removedCounter
    BY <2>1 DEF ListInv, Live
  <2> QED BY <2>2, <2>3, <2>4 DEF ListWellFormed
<1> QED BY <1>1, ListenersInductive, PTL

\* NoOwnershipCycle: the shared_ptr links that doFreeNode leaves in removed nodes lead
\* to nodes removed later or linked still, so that no node keeps itself allocated.
THEOREM RemovedNodesAreFreed == CSpec => []NoOwnershipCycle
<1>1. ListenersInv => NoOwnershipCycle
  <2> SUFFICES ASSUME ListenersInv, NEW n \in Allocated \ Linked
               PROVE  n \notin Reach(LinksOf[n], LinksOf)
    BY DEF NoOwnershipCycle
  <2> USE ListAssumption DEF ListenersInv
  <2>1. Linked = Live /\ n \notin Live
    BY LinkedIsLive
  <2>2. /\ Allocated \subseteq Session
        /\ \A m \in Allocated : next[m] \in Allocated \cup {NoSession}
                               /\ previous[m] \in Allocated \cup {NoSession}
    BY AllocatedFact
  <2>3. Live \subseteq Allocated
    BY LiveIsAllocated
  <2>4. \A m \in Session : LinksOf[m] = {next[m], previous[m]}
    BY DEF LinksOf
  <2>5. CASE n = appending
    <3>1. LinksOf[n] \ {NoSession} \subseteq {}
      BY <2>2, <2>4, <2>5 DEF CounterInv
    <3>2. {} \in SUBSET Session /\ Closed({}, LinksOf)
      BY DEF Closed
    <3> HIDE DEF ListenersInv
    <3>3. Reach(LinksOf[n], LinksOf) \subseteq {}
      BY <3>1, <3>2, ReachLeast
    <3> QED BY <3>3
  <2>6. CASE n # appending
    <3>1. PICK rank \in [Session -> Nat], bound \in Nat : RemovalOrder(rank, bound)
      BY DEF OwnershipInv
    <3> DEFINE S == Live \cup {m \in Removed : rank[n] < rank[m]}
    <3>2. n \in Removed /\ Removed \subseteq Session /\ Live \subseteq Session
      BY <2>1, <2>2, <2>6 DEF Removed, Live
    <3>3. \A m \in Allocated : LinksOf[m] \subseteq Live \cup Removed \cup {NoSession}
      <4>1. ASSUME NEW m \in Allocated, NEW l \in LinksOf[m], l # NoSession PROVE l \in Live \cup Removed
        <5>1. l \in Allocated /\ l # appending
          BY <2>2, <2>4, <4>1 DEF CounterInv
        <5> QED BY <5>1 DEF Removed
      <4> QED BY <4>1
    <3>4. S \in SUBSET Session
      BY <3>2
    <3>5. LinksOf[n] \ {NoSession} \subseteq S
      BY <3>1, <3>2, <3>3 DEF RemovalOrder
    <3>6. Closed(S, LinksOf)
      <4>1. ASSUME NEW m \in Live PROVE LinksOf[m] \ {NoSession} \subseteq S
        BY <2>4, <3>2 DEF ListInv
      <4>2. ASSUME NEW m \in Removed, rank[n] < rank[m], NEW l \in LinksOf[m] \ {NoSession}
            PROVE  l \in S
        <5>1. l \in Live \/ l \in Removed
          BY <3>3 DEF Removed
        <5>2. CASE l \in Removed
          <6>1. rank[m] < rank[l] /\ rank[m] \in Nat /\ rank[l] \in Nat /\ rank[n] \in Nat
            BY <3>1, <3>2, <5>2 DEF RemovalOrder
          <6> QED BY <4>2, <5>2, <6>1
        <5> QED BY <5>1, <5>2
      <4> QED BY <4>1, <4>2 DEF Closed
    <3>7. n \notin S
      BY <2>1, <3>2
    <3> HIDE DEF S, ListenersInv
    <3> QED BY <3>4, <3>5, <3>6, <3>7, ReachLeast
  <2> QED BY <2>5, <2>6
<1> QED BY <1>1, ListenersInductive, PTL

------------------------------------------------------------------------------
(* The listener set. *)

\* The refinement mapping: removed nodes, the callback that runs, and the node the
\* walk goes to next.
Pinned  == Allocated \ (Linked \cup {appending})
Current == IF it = "call" THEN node ELSE NoSession
Front   == IF it = "call" THEN next[node] ELSE node

\* ToReach in terms of the nodes ahead of the walk.
LEMMA ToReachFact ==
  ToReach = {n \in Ahead(Front, next) : counter[n] # removedCounter
                                          /\ (it = "opening" \/ counter[n] <= snapshot)}
<1>1. CASE it = "call"
  BY <1>1 DEF ToReach, Front, Ahead, NextOf
<1>2. CASE it # "call"
  BY <1>2 DEF ToReach, Front, Ahead, NextOf
<1> QED BY <1>1, <1>2

\* The same in the next state.
LEMMA ToReachAfterTheStep ==
  ToReach' = {n \in Ahead(Front', next') : counter'[n] # removedCounter
                                            /\ (it' = "opening" \/ counter'[n] <= snapshot')}
<1>1. (ToReach = {n \in Ahead(Front, next) : counter[n] # removedCounter
                                          /\ (it = "opening" \/ counter[n] <= snapshot)})'
  BY ToReachFact, PTL
<1> QED BY <1>1

\* A walk that stands on a linked node, or on none, keeps no removed node.
LEMMA NothingPinned ==
  ListenersInv /\ node \in Live \cup {NoSession} =>
    Allocated = Live \cup ({appending} \ {NoSession})
<1> SUFFICES ASSUME ListenersInv, node \in Live \cup {NoSession}
             PROVE  Allocated = Live \cup ({appending} \ {NoSession})
  OBVIOUS
<1> USE ListAssumption DEF ListenersInv
<1> DEFINE S == Live \cup ({appending} \ {NoSession})
<1>1. Live \subseteq Allocated /\ {appending} \ {NoSession} \subseteq Allocated
  BY LiveIsAllocated, AllocatedFact
<1>2. S \in SUBSET Session
  BY DEF Live, CTypeOK, Ptr
<1>3. {head, tail, node, appending} \ {NoSession} \subseteq S
  BY DEF ListInv
<1>4. \A n \in S : next[n] \in S \cup {NoSession} /\ previous[n] \in S \cup {NoSession}
  BY DEF ListInv, CounterInv
<1> HIDE DEF S
<1>5. Allocated \subseteq S
  BY <1>2, <1>3, <1>4, Roots, HeapLeast, SetsOfTheState
<1> QED BY <1>1, <1>5 DEF S

\* What is ahead of the walk is allocated, and linked if it is to be called.
LEMMA AheadOfTheWalk ==
  ListenersInv => /\ Front \in Allocated \cup {NoSession}
                  /\ Ahead(Front, next) \subseteq Allocated \ {appending}
                  /\ ToReach \subseteq Live
<1> SUFFICES ASSUME ListenersInv
             PROVE  /\ Front \in Allocated \cup {NoSession}
                    /\ Ahead(Front, next) \subseteq Allocated \ {appending}
                    /\ ToReach \subseteq Live
  OBVIOUS
<1> USE ListAssumption DEF ListenersInv
<1>1. /\ Allocated \subseteq Session
      /\ {head, tail, node, appending} \ {NoSession} \subseteq Allocated
      /\ \A m \in Allocated : next[m] \in Allocated \cup {NoSession}
  BY AllocatedFact
<1> DEFINE S == Allocated \ {appending}
<1>2. node \in S \cup {NoSession}
  BY <1>1 DEF WalkInv
<1>3. \A n \in S : next[n] \in S \cup {NoSession}
  BY <1>1 DEF CounterInv
<1>4. Front \in S \cup {NoSession}
  BY <1>2, <1>3 DEF Front, WalkInv
<1>5. Front \in Ptr /\ next \in Pointers /\ S \in SUBSET Session
  BY <1>1, <1>4, Roots DEF Ptr
<1> HIDE DEF S
<1>6. Ahead(Front, next) \subseteq S
  BY <1>3, <1>4, <1>5, AheadLeast
<1>7. ToReach \subseteq Live
  BY <1>1, <1>6, ToReachFact DEF S, Live
<1> QED BY <1>4, <1>6, <1>7 DEF S

\* Ahead of a node are the node and what is ahead of its next.
LEMMA AheadUnfold ==
  ASSUME NEW x \in Session, NEW nx \in Pointers
  PROVE  Ahead(x, nx) = {x} \cup Ahead(nx[x], nx)
<1> USE ListAssumption
<1>1. x \in Ptr /\ nx[x] \in Ptr /\ x # NoSession
  BY DEF Ptr, Pointers
<1>2. /\ Ahead(x, nx) \subseteq Session /\ x \in Ahead(x, nx)
      /\ \A n \in Ahead(x, nx) : nx[n] \in Ahead(x, nx) \cup {NoSession}
  BY <1>1, AheadFact
<1>3. /\ Ahead(nx[x], nx) \subseteq Session
      /\ nx[x] # NoSession => nx[x] \in Ahead(nx[x], nx)
      /\ \A n \in Ahead(nx[x], nx) : nx[n] \in Ahead(nx[x], nx) \cup {NoSession}
  BY <1>1, AheadFact
<1> DEFINE S == {x} \cup Ahead(nx[x], nx)
<1>4. S \in SUBSET Session /\ x \in S \cup {NoSession} /\ \A n \in S : nx[n] \in S \cup {NoSession}
  BY <1>3
<1>5. Ahead(x, nx) \subseteq S
  <2> HIDE DEF S
  <2> QED BY <1>1, <1>4, AheadLeast
<1>6. Ahead(nx[x], nx) \subseteq Ahead(x, nx)
  BY <1>1, <1>2, AheadLeast
<1> QED BY <1>2, <1>5, <1>6

\* Nothing is ahead of the null pointer.
LEMMA AheadOfNothing ==
  ASSUME NEW nx \in Pointers
  PROVE  Ahead(NoSession, nx) = {}
<1> DEFINE S == {}
<1>1. NoSession \in Ptr /\ S \in SUBSET Session /\ NoSession \in S \cup {NoSession}
      /\ \A n \in S : nx[n] \in S \cup {NoSession}
  BY DEF Ptr
<1> HIDE DEF S
<1>2. Ahead(NoSession, nx) \subseteq S
  BY <1>1, AheadLeast
<1> QED BY <1>2 DEF S

\* Behind a linked node come linked nodes with larger counters.
LEMMA AheadOfLinked ==
  ASSUME ListenersInv, NEW x \in Live
  PROVE  Ahead(next[x], next) \subseteq {m \in Live : counter[x] < counter[m]}
<1> USE ListAssumption DEF ListenersInv
<1> DEFINE S == {m \in Live : counter[x] < counter[m]}
<1>1. Live \subseteq Session /\ \A m \in Live : counter[m] \in Nat
  BY DEF Live, CTypeOK
<1>2. S \in SUBSET Session /\ next[x] \in S \cup {NoSession}
  BY <1>1 DEF ListInv
<1>3. ASSUME NEW m \in S PROVE next[m] \in S \cup {NoSession}
  <2>1. CASE next[m] = NoSession
    BY <2>1
  <2>2. CASE next[m] # NoSession
    <3>1. next[m] \in Live /\ counter[m] < counter[next[m]] /\ counter[x] < counter[m]
      BY <2>2 DEF ListInv
    <3>2. counter[x] < counter[next[m]]
      BY <1>1, <3>1
    <3> QED BY <3>1, <3>2
  <2> QED BY <2>1, <2>2
<1>4. next[x] \in Ptr /\ next \in Pointers
  BY <1>1, Roots DEF Pointers
<1> HIDE DEF S
<1>5. Ahead(next[x], next) \subseteq S
  BY <1>2, <1>3, <1>4, AheadLeast
<1> QED BY <1>5 DEF S

\* What the invariants say of the listener set, before and after a step.
LEMMA MappedState ==
  ListenersInv => /\ Linked = Live /\ Live \subseteq Session
                  /\ Pinned = Allocated \ (Live \cup {appending})
                  /\ Front \in Ptr /\ next \in Pointers
                  /\ Allocated \subseteq Session
                  /\ {head, tail, node, appending} \ {NoSession} \subseteq Allocated
                  /\ \A n \in Allocated : /\ next[n] \in Allocated \cup {NoSession}
                                          /\ previous[n] \in Allocated \cup {NoSession}
                  /\ Live \subseteq Allocated
                  /\ Ahead(Front, next) \subseteq Allocated \ {appending}
                  /\ ToReach \subseteq Live
<1> SUFFICES ASSUME ListenersInv
             PROVE  /\ Linked = Live /\ Live \subseteq Session
                    /\ Pinned = Allocated \ (Live \cup {appending})
                    /\ Front \in Ptr /\ next \in Pointers
                    /\ Allocated \subseteq Session
                    /\ {head, tail, node, appending} \ {NoSession} \subseteq Allocated
                    /\ \A n \in Allocated : /\ next[n] \in Allocated \cup {NoSession}
                                            /\ previous[n] \in Allocated \cup {NoSession}
                    /\ Live \subseteq Allocated
                    /\ Ahead(Front, next) \subseteq Allocated \ {appending}
                    /\ ToReach \subseteq Live
  OBVIOUS
<1>1. CTypeOK /\ ListInv
  BY DEF ListenersInv
<1>2. Linked = Live /\ Live \subseteq Allocated
  BY <1>1, LinkedIsLive, LiveIsAllocated
<1>3. /\ Allocated \subseteq Session
      /\ {head, tail, node, appending} \ {NoSession} \subseteq Allocated
      /\ \A n \in Allocated : /\ next[n] \in Allocated \cup {NoSession}
                              /\ previous[n] \in Allocated \cup {NoSession}
  BY <1>1, AllocatedFact
<1>4. /\ Front \in Allocated \cup {NoSession} /\ ToReach \subseteq Live
      /\ Ahead(Front, next) \subseteq Allocated \ {appending}
  BY AheadOfTheWalk
<1>5. Front \in Ptr /\ next \in Pointers /\ Live \subseteq Session
  BY <1>1, <1>3, <1>4, Roots DEF Ptr, Live
<1>6. Pinned = Allocated \ (Live \cup {appending})
  BY <1>2 DEF Pinned
<1> QED BY <1>2, <1>3, <1>4, <1>5, <1>6

\* The same in the next state.
LEMMA MappedAfterTheStep ==
  ASSUME ListenersInv'
  PROVE  /\ Linked' = Live' /\ Live' \subseteq Session
         /\ Pinned' = Allocated' \ (Live' \cup {appending'})
         /\ Front' \in Ptr /\ next' \in Pointers
         /\ Allocated' \subseteq Session
         /\ {head', tail', node', appending'} \ {NoSession} \subseteq Allocated'
         /\ \A n \in Allocated' : /\ next'[n] \in Allocated' \cup {NoSession}
                                  /\ previous'[n] \in Allocated' \cup {NoSession}
         /\ Live' \subseteq Allocated'
         /\ Ahead(Front', next') \subseteq Allocated' \ {appending'}
         /\ ToReach' \subseteq Live'
<1>1. (ListenersInv => /\ Linked = Live /\ Live \subseteq Session
                       /\ Pinned = Allocated \ (Live \cup {appending})
                       /\ Front \in Ptr /\ next \in Pointers
                       /\ Allocated \subseteq Session
                       /\ {head, tail, node, appending} \ {NoSession} \subseteq Allocated
                       /\ \A n \in Allocated : /\ next[n] \in Allocated \cup {NoSession}
                                               /\ previous[n] \in Allocated \cup {NoSession}
                       /\ Live \subseteq Allocated
                       /\ Ahead(Front, next) \subseteq Allocated \ {appending}
                       /\ ToReach \subseteq Live)'
  BY MappedState, PTL
<1> QED BY <1>1

\* The same in the next state.
LEMMA NothingPinnedAfterTheStep ==
  ASSUME ListenersInv', node' \in Live' \cup {NoSession}
  PROVE  Allocated' = Live' \cup ({appending'} \ {NoSession})
<1>1. (ListenersInv /\ node \in Live \cup {NoSession} =>
        Allocated = Live \cup ({appending} \ {NoSession}))'
  BY NothingPinned, PTL
<1> QED BY <1>1

\* append() takes a counter: nobody sees the node yet.
LEMMA AppendAllocateMaps ==
  ASSUME ListenersInv, NEW n \in Session, AppendAllocate(n)
  PROVE  UNCHANGED <<Linked, Pinned, ToReach, Current, WalkPhase>>
<1> USE ListAssumption
<1>1. /\ appending = NoSession /\ n \notin Allocated
      /\ counter' = [counter EXCEPT ![n] = currentCounter + 1]
      /\ next' = [next EXCEPT ![n] = NoSession]
      /\ previous' = [previous EXCEPT ![n] = NoSession]
      /\ appending' = n
      /\ UNCHANGED <<head, tail, it, node, snapshot>>
  BY DEF AppendAllocate, walkVars
<1>2. ListenersInv' /\ Live' = Live /\ Allocated' \subseteq Allocated \cup {n}
  BY AppendAllocateKeeps
<1>3. CTypeOK /\ CounterInv /\ CounterInv' /\ WalkInv
  BY <1>2 DEF ListenersInv
<1>4. \A m \in Session : m # n => /\ next'[m] = next[m] /\ previous'[m] = previous[m]
                                /\ counter'[m] = counter[m]
  BY <1>1, <1>3 DEF CTypeOK
<1>5. Allocated' = Allocated \cup {n}
  <2> DEFINE S == Allocated' \ {n}
  <2>1. S \in SUBSET Session
    BY <1>2, MappedAfterTheStep
  <2>2. {head, tail, node, appending} \ {NoSession} \subseteq S
    BY <1>1, <1>2, MappedState, MappedAfterTheStep
  <2>3. \A m \in S : next[m] \in S \cup {NoSession} /\ previous[m] \in S \cup {NoSession}
    BY <1>1, <1>2, <1>3, <1>4, MappedAfterTheStep DEF CounterInv
  <2>4. n \in Allocated'
    BY <1>1, <1>2, MappedAfterTheStep
  <2> HIDE DEF S
  <2>5. Allocated \subseteq S
    BY <1>3, <2>1, <2>2, <2>3, Roots, HeapLeast, SetsOfTheState
  <2> QED BY <1>2, <2>4, <2>5 DEF S
<1>6. Linked' = Linked /\ Pinned' = Pinned
  <2>1. Linked' = Live /\ Linked = Live /\ Allocated \subseteq Session
    BY <1>2, MappedState, MappedAfterTheStep
  <2>2. Pinned = Allocated \ (Live \cup {NoSession})
    BY <1>1, MappedState
  <2>3. Pinned' = (Allocated \cup {n}) \ (Live \cup {n})
    BY <1>1, <1>2, <1>5, MappedAfterTheStep
  <2>4. \A m \in Allocated : m # n /\ m # NoSession
    BY <1>1, <2>1
  <2> QED BY <2>1, <2>2, <2>3, <2>4
<1>7. Front' = Front /\ Current' = Current
  <2>1. it = "call" => node \in Session /\ node # n
    BY <1>1, <1>3, MappedState DEF WalkInv
  <2> QED BY <1>1, <1>4, <2>1 DEF Front, Current
<1>8. Ahead(Front, next') = Ahead(Front, next)
  <2>1. Front \in Ptr /\ next \in Pointers /\ next' \in Pointers
    BY <1>2, MappedState, MappedAfterTheStep
  <2> DEFINE A == Ahead(Front, next)
             B == Ahead(Front, next')
             S == B \cap Allocated
  <2>2. /\ A \subseteq Session /\ (Front # NoSession => Front \in A)
        /\ \A m \in A : next[m] \in A \cup {NoSession}
    BY <2>1, AheadFact
  <2>3. /\ B \subseteq Session /\ (Front # NoSession => Front \in B)
        /\ \A m \in B : next'[m] \in B \cup {NoSession}
    BY <2>1, AheadFact
  <2>4. A \subseteq Allocated /\ n \notin A
    BY <1>1, MappedState
  <2>5. B \subseteq A
    <3>1. \A m \in A : next'[m] \in A \cup {NoSession}
      BY <1>4, <2>2, <2>4
    <3> HIDE DEF A
    <3> QED BY <2>1, <2>2, <3>1, AheadLeast
  <2>6. A \subseteq S
    <3>1. S \in SUBSET Session /\ Front \in S \cup {NoSession}
      BY <2>2, <2>3, <2>4
    <3>2. \A m \in S : next[m] \in S \cup {NoSession}
      BY <1>1, <1>4, <2>3, MappedState
    <3> HIDE DEF S
    <3> QED BY <2>1, <3>1, <3>2, AheadLeast
  <2> QED BY <2>5, <2>6
<1>9. ToReach' = ToReach
  <2>1. \A m \in Ahead(Front, next) : m \in Session /\ m # n
    BY <1>1, MappedState
  <2> QED BY <1>1, <1>4, <1>7, <1>8, <2>1, ToReachFact, ToReachAfterTheStep
<1>10. WalkPhase' = WalkPhase
  <2>1. ~(counter'[n] <= snapshot)
    BY <1>1, <1>3 DEF CTypeOK, CounterInv
  <2> QED BY <1>1, <2>1 DEF WalkPhase
<1> QED BY <1>6, <1>7, <1>9, <1>10

\* append() links the node.
LEMMA AppendLinkMaps ==
  ASSUME ListenersInv, NEW n \in Session, AppendLink(n)
  PROVE  Abstract!AppendListener(n)
<1> USE ListAssumption
<1>1. /\ appending = n /\ appending' = NoSession /\ tail' = n
      /\ \/ /\ head # NoSession /\ head' = head
            /\ previous' = [previous EXCEPT ![n] = tail] /\ next' = [next EXCEPT ![tail] = n]
         \/ head = NoSession /\ head' = n /\ next' = next /\ previous' = previous
      /\ UNCHANGED <<counter, currentCounter, it, node, snapshot>>
  BY DEF AppendLink, walkVars
<1>2. ListenersInv' /\ Live' = Live \cup {n} /\ Allocated' \subseteq Allocated
  BY AppendLinkKeeps
<1>3. CTypeOK /\ ListInv /\ CounterInv /\ WalkInv
  BY DEF ListenersInv
<1>4. /\ n \notin Live /\ n \in Allocated /\ n # NoSession /\ NoSession \notin Live
      /\ next[n] = NoSession /\ previous[n] = NoSession
  BY <1>1, <1>3, MappedState DEF Live, CounterInv
<1>5. /\ \A m \in Session : m # n => previous'[m] = previous[m]
      /\ \A m \in Session : m # tail => next'[m] = next[m]
      /\ tail # NoSession => next[tail] = NoSession /\ next'[tail] = n
      /\ tail \in Live \cup {NoSession} /\ (tail = NoSession => head = NoSession)
      /\ next'[n] = NoSession
  <2>1. tail \in Live \cup {NoSession} /\ (tail = NoSession <=> head = NoSession)
        /\ (tail # NoSession => next[tail] = NoSession)
    BY <1>3, <1>4 DEF ListInv
  <2>2. \A m \in Session : m # n => previous'[m] = previous[m]
    BY <1>1, <1>3 DEF CTypeOK
  <2>3. \A m \in Session : m # tail => next'[m] = next[m]
    BY <1>1, <1>3 DEF CTypeOK
  <2>4. tail # NoSession => next'[tail] = n
    BY <1>1, <1>3, <2>1 DEF CTypeOK, Live
  <2>5. next'[n] = NoSession
    BY <1>4, <2>1, <2>3
  <2> QED BY <2>1, <2>2, <2>3, <2>4, <2>5
<1>6. Allocated' = Allocated
  <2>1. Allocated' \in SUBSET Session
    BY <1>2, MappedAfterTheStep
  <2>2. {head, tail, node, appending} \ {NoSession} \subseteq Allocated'
    BY <1>1, <1>2, <1>5, MappedAfterTheStep
  <2>3. ASSUME NEW m \in Allocated'
        PROVE  next[m] \in Allocated' \cup {NoSession} /\ previous[m] \in Allocated' \cup {NoSession}
    <3>1. /\ m \in Session /\ next'[m] \in Allocated' \cup {NoSession}
          /\ previous'[m] \in Allocated' \cup {NoSession}
      BY <1>2, MappedAfterTheStep
    <3> QED BY <1>4, <1>5, <3>1
  <2>4. Allocated \subseteq Allocated'
    BY <1>3, <2>1, <2>2, <2>3, Roots, HeapLeast, SetsOfTheState
  <2> QED BY <1>2, <2>4
<1>7. Linked' = Linked \cup {n} /\ Pinned' = Pinned /\ n \notin Linked \cup Pinned /\ Current' = Current
  <2>1. Linked' = Live \cup {n} /\ Linked = Live /\ Allocated \subseteq Session
    BY <1>2, MappedState, MappedAfterTheStep
  <2>2. Pinned = Allocated \ (Live \cup {n})
    BY <1>1, MappedState
  <2>3. Pinned' = Allocated \ ((Live \cup {n}) \cup {NoSession})
    BY <1>1, <1>2, <1>6, MappedAfterTheStep
  <2>4. Current' = Current
    BY <1>1 DEF Current
  <2> QED BY <1>4, <2>1, <2>2, <2>3, <2>4
<1>8. Front \in Ptr /\ next \in Pointers /\ next' \in Pointers /\ Front' \in Ptr
  BY <1>2, MappedState, MappedAfterTheStep
<1>9. /\ Ahead(Front, next) \subseteq Ahead(Front', next')
      /\ Ahead(Front', next') \subseteq Ahead(Front, next) \cup {n}
  <2> DEFINE A == Ahead(Front, next)
             B == Ahead(Front', next')
             S == A \cup {n}
  <2>1. /\ A \subseteq Session /\ (Front # NoSession => Front \in A)
        /\ \A m \in A : next[m] \in A \cup {NoSession}
    BY <1>8, AheadFact
  <2>2. /\ B \subseteq Session /\ (Front' # NoSession => Front' \in B)
        /\ \A m \in B : next'[m] \in B \cup {NoSession}
    BY <1>8, AheadFact
  <2>3. Front' = Front \/ (Front = NoSession /\ Front' = n)
    <3>1. CASE it = "call"
      <4>1. node \in Session
        BY <1>3, <3>1 DEF CTypeOK, WalkInv, Ptr
      <4> QED BY <1>1, <1>5, <3>1, <4>1 DEF Front
    <3>2. CASE it # "call"
      BY <1>1, <3>2 DEF Front
    <3> QED BY <3>1, <3>2
  <2>4. A \subseteq B
    <3>1. \A m \in B : next[m] \in B \cup {NoSession}
      BY <1>5, <2>2
    <3>2. Front \in B \cup {NoSession} /\ B \in SUBSET Session
      BY <2>2, <2>3
    <3> HIDE DEF B
    <3> QED BY <1>8, <3>1, <3>2, AheadLeast
  <2>5. B \subseteq S
    <3>1. ASSUME NEW m \in S PROVE next'[m] \in S \cup {NoSession}
      BY <1>5, <2>1
    <3>2. Front' \in S \cup {NoSession} /\ S \in SUBSET Session
      BY <2>1, <2>3
    <3> HIDE DEF S
    <3> QED BY <1>8, <3>1, <3>2, AheadLeast
  <2> QED BY <2>4, <2>5
<1>10. \/ ToReach' = ToReach
       \/ WalkPhase \in {"opening", "late"} /\ ToReach' = ToReach \cup {n}
  <2>1. CASE n \in ToReach'
    <3>1. /\ n \in Ahead(Front', next')
          /\ it = "opening" \/ counter[n] <= snapshot
      BY <1>1, <2>1, ToReachAfterTheStep
    <3>2. it # "idle"
      <4> SUFFICES ASSUME it = "idle" PROVE FALSE
        OBVIOUS
      <4>1. Front' = NoSession
        BY <1>1, <1>3 DEF Front, WalkInv
      <4> QED BY <1>8, <3>1, <4>1, AheadOfNothing
    <3>3. WalkPhase \in {"opening", "late"}
      BY <1>1, <1>3, <1>4, <3>1, <3>2 DEF WalkPhase, CTypeOK
    <3>4. ToReach' = ToReach \cup {n}
      BY <1>1, <1>9, <2>1, ToReachFact, ToReachAfterTheStep
    <3> QED BY <3>3, <3>4
  <2>2. CASE n \notin ToReach'
    <3>1. n \notin ToReach
      BY <1>4, MappedState
    <3>2. ToReach' = ToReach
      BY <1>1, <1>9, <2>2, <3>1, ToReachFact, ToReachAfterTheStep
    <3> QED BY <3>2
  <2> QED BY <2>1, <2>2
<1>11. WalkPhase' = IF WalkPhase = "late" THEN "closed" ELSE WalkPhase
  <2>1. CASE it \in {"idle", "opening"}
    BY <1>1, <2>1 DEF WalkPhase
  <2>2. CASE it \notin {"idle", "opening"}
    BY <1>1, <2>2 DEF WalkPhase
  <2> QED BY <2>1, <2>2
<1> QED BY <1>7, <1>10, <1>11 DEF Abstract!AppendListener, Abstract!NodeHeld, Pinned, Current

\* Bypassing n changes nothing else ahead of a pointer.
LEMMA AheadBypass ==
  ASSUME NEW y \in Ptr, NEW n \in Session, NEW p \in Ptr, NEW nx \in Pointers, NEW ny \in Pointers,
         \A m \in Session : m # p => ny[m] = nx[m],
         p # NoSession => nx[p] = n /\ ny[p] = nx[n], p # n
  PROVE  Ahead(y, ny) \ {n} = Ahead(y, nx) \ {n}
<1> USE ListAssumption
<1> DEFINE A == Ahead(y, nx)
           B == Ahead(y, ny)
<1>1. A \subseteq Session /\ (y # NoSession => y \in A) /\ \A m \in A : nx[m] \in A \cup {NoSession}
  BY AheadFact
<1>2. B \subseteq Session /\ (y # NoSession => y \in B) /\ \A m \in B : ny[m] \in B \cup {NoSession}
  BY AheadFact
<1>3. ny[n] = nx[n] /\ n # NoSession
  OBVIOUS
<1>4. B \subseteq A
  <2>1. \A m \in A : ny[m] \in A \cup {NoSession}
    BY <1>1, <1>3
  <2> HIDE DEF A
  <2> QED BY <1>1, <2>1, AheadLeast
<1>5. A \subseteq B \cup {n}
  <2>1. CASE p \in B
    <3> DEFINE S == B \cup {n}
    <3>1. p # NoSession /\ ny[p] = nx[n]
      BY <1>2, <2>1
    <3>2. \A m \in S : nx[m] \in S \cup {NoSession}
      BY <1>2, <2>1, <3>1
    <3>3. S \in SUBSET Session /\ y \in S \cup {NoSession}
      BY <1>2
    <3> HIDE DEF S
    <3>4. A \subseteq S
      BY <3>2, <3>3, AheadLeast
    <3> QED BY <3>4 DEF S
  <2>2. CASE p \notin B
    <3>1. \A m \in B : nx[m] \in B \cup {NoSession}
      BY <1>2, <2>2
    <3> HIDE DEF B
    <3>2. A \subseteq B
      BY <1>2, <3>1, AheadLeast
    <3> QED BY <3>2
  <2> QED BY <2>1, <2>2
<1> QED BY <1>4, <1>5

\* remove(): the node is freed at once or kept by the walk.
LEMMA RemoveMaps ==
  ASSUME ListenersInv, NEW n \in Session, Remove(n)
  PROVE  Abstract!RemoveListener(n)
<1> USE ListAssumption
<1>1. /\ n \in Live /\ appending = NoSession /\ appending' = NoSession
      /\ next[n] # n /\ previous[n] # n
      /\ next[n] \in (Live \ {n}) \cup {NoSession}
      /\ previous[n] \in (Live \ {n}) \cup {NoSession}
      /\ next[n] # NoSession => previous[next[n]] = n
      /\ previous[n] # NoSession => next[previous[n]] = n
  BY RemoveFact
<1>2. /\ \A m \in Session : m # previous[n] => next'[m] = next[m]
      /\ previous[n] # NoSession => next'[previous[n]] = next[n]
      /\ \A m \in Session : m # next[n] => previous'[m] = previous[m]
      /\ next[n] # NoSession => previous'[next[n]] = previous[n]
      /\ next'[n] = next[n] /\ previous'[n] = previous[n]
      /\ counter'[n] = removedCounter /\ \A m \in Session : m # n => counter'[m] = counter[m]
      /\ head' = IF head = n THEN next[n] ELSE head
      /\ tail' = IF tail = n THEN previous[n] ELSE tail
  BY RemoveFact
<1>3. UNCHANGED <<currentCounter, it, node, snapshot>> /\ next' \in Pointers
  BY RemoveFact
<1>4. ListenersInv' /\ Live' = Live \ {n} /\ Allocated' \subseteq Allocated
  BY RemoveKeeps
<1>5. CTypeOK /\ WalkInv
  BY DEF ListenersInv
<1>6. Allocated \subseteq Allocated' \cup {n}
  <2> DEFINE S == Allocated' \cup {n}
  <2>1. S \in SUBSET Session
    BY <1>4, MappedAfterTheStep
  <2>2. {head, tail, node, appending} \ {NoSession} \subseteq S
    BY <1>1, <1>2, <1>3, <1>4, MappedAfterTheStep
  <2>3. \A m \in Allocated' : next[m] \in S \cup {NoSession} /\ previous[m] \in S \cup {NoSession}
    <3>1. ASSUME NEW m \in Allocated'
          PROVE  next[m] \in S \cup {NoSession} /\ previous[m] \in S \cup {NoSession}
      <4>1. /\ m \in Session /\ m # NoSession /\ next'[m] \in Allocated' \cup {NoSession}
            /\ previous'[m] \in Allocated' \cup {NoSession}
        BY <1>4, MappedAfterTheStep
      <4>2. next[m] \in S \cup {NoSession}
        BY <1>1, <1>2, <4>1
      <4>3. previous[m] \in S \cup {NoSession}
        BY <1>1, <1>2, <4>1
      <4> QED BY <4>2, <4>3
    <3> QED BY <3>1
  <2>4. next[n] \in S \cup {NoSession} /\ previous[n] \in S \cup {NoSession}
    BY <1>1, <1>4, MappedAfterTheStep
  <2>5. \A m \in S : next[m] \in S \cup {NoSession} /\ previous[m] \in S \cup {NoSession}
    BY <2>3, <2>4
  <2> HIDE DEF S
  <2>6. Allocated \subseteq S
    BY <1>5, <2>1, <2>2, <2>5, Roots, HeapLeast, SetsOfTheState
  <2> QED BY <2>6 DEF S
<1>7. /\ Linked = Live /\ Linked' = Live \ {n} /\ n \in Allocated /\ Allocated \subseteq Session
      /\ Pinned = Allocated \ (Live \cup {NoSession})
      /\ Pinned' = Allocated' \ ((Live \ {n}) \cup {NoSession})
  BY <1>1, <1>4, MappedState, MappedAfterTheStep
<1>8. Current' = Current /\ WalkPhase' = WalkPhase
  BY <1>1, <1>3 DEF Current, WalkPhase
<1>9. ToReach' = ToReach \ {n}
  <2>1. Front \in Ptr /\ Front' \in Ptr /\ next \in Pointers /\ previous[n] \in Ptr
        /\ next[n] \in Ptr
    BY <1>1, <1>4, MappedState, MappedAfterTheStep DEF Ptr
  <2>2. \A y \in Ptr : Ahead(y, next') \ {n} = Ahead(y, next) \ {n}
    BY <1>1, <1>2, <1>3, <2>1, AheadBypass
  <2>3. Ahead(Front', next') \ {n} = Ahead(Front, next) \ {n}
    <3>1. CASE Front' = Front
      BY <2>1, <2>2, <3>1
    <3>2. CASE Front' # Front
      <4>1. it = "call" /\ node \in Session /\ node = previous[n]
        BY <1>2, <1>3, <1>5, <3>2 DEF Front, WalkInv, CTypeOK, Ptr
      <4>2. Front = n /\ Front' = next[n]
        BY <1>1, <1>2, <1>3, <4>1 DEF Front
      <4>3. Ahead(n, next) = {n} \cup Ahead(next[n], next)
        BY <2>1, AheadUnfold
      <4>4. Ahead(next[n], next') \ {n} = Ahead(next[n], next) \ {n}
        BY <2>1, <2>2
      <4> QED BY <4>2, <4>3, <4>4
    <3> QED BY <3>1, <3>2
  <2>4. \A m \in Ahead(Front, next) \ {n} : counter'[m] = counter[m]
    BY <1>2, <1>7, MappedState
  <2>5. n \notin ToReach'
    BY <1>2, ToReachAfterTheStep
  <2> QED BY <1>3, <2>3, <2>4, <2>5, ToReachFact, ToReachAfterTheStep
<1>10. CASE n \in Allocated'
  <2>1. Pinned' = Pinned \cup {n}
    BY <1>1, <1>4, <1>6, <1>7, <1>10
  <2>2. WalkPhase # "idle"
    <3> SUFFICES ASSUME it = "idle" PROVE FALSE
      BY DEF WalkPhase
    <3>1. node' = NoSession
      BY <1>3, <1>5 DEF WalkInv
    <3>2. Allocated' = Live' \cup ({appending'} \ {NoSession})
      BY <1>4, <3>1, NothingPinnedAfterTheStep
    <3> QED BY <1>1, <1>4, <1>10, <3>2
  <2> QED BY <1>1, <1>7, <1>8, <1>9, <2>1, <2>2
      DEF Abstract!RemoveListener, Abstract!dispatching, Pinned, Current
<1>11. CASE n \notin Allocated'
  <2>1. Pinned' = Pinned
    BY <1>1, <1>4, <1>6, <1>7, <1>11
  <2>2. n # Current
    BY <1>3, <1>4, <1>11, MappedAfterTheStep DEF Current
  <2> QED BY <1>1, <1>7, <1>8, <1>9, <2>1, <2>2 DEF Abstract!RemoveListener, Pinned, Current
<1> QED BY <1>10, <1>11

\* doForEachIf reads the head.
LEMMA WalkHeadMaps ==
  ASSUME ListenersInv, WalkHead
  PROVE  Abstract!BeginDispatch
<1> USE ListAssumption
<1>1. /\ it = "idle" /\ it' = "opening" /\ node' = head /\ node = NoSession
      /\ UNCHANGED <<head, next, counter, appending>>
  BY DEF WalkHead, listVars, ListenersInv, WalkInv
<1>2. ListenersInv' /\ Live' = Live
  BY WalkKeeps
<1>3. Linked = Live /\ Linked' = Live /\ Linked = Ahead(head, next)
  BY <1>2, MappedState, MappedAfterTheStep, SetsOfTheState
<1>4. Pinned' = Pinned
  <2>1. Allocated = Live \cup ({appending} \ {NoSession})
    BY <1>1, NothingPinned
  <2>2. node' \in Live' \cup {NoSession}
    BY <1>1, <1>2 DEF ListenersInv, ListInv
  <2>3. Allocated' = Live \cup ({appending} \ {NoSession})
    BY <1>1, <1>2, <2>2, NothingPinnedAfterTheStep
  <2> QED BY <1>1, <1>3, <2>1, <2>3 DEF Pinned
<1>5. ToReach' = Live
  <2>1. Front' = head
    BY <1>1 DEF Front
  <2>2. Ahead(Front', next') = Live
    BY <1>1, <1>3, <2>1
  <2> QED BY <1>1, <2>2, ToReachAfterTheStep DEF Live
<1>6. Current = NoSession /\ Current' = NoSession /\ WalkPhase = "idle" /\ WalkPhase' = "opening"
  BY <1>1 DEF Current, WalkPhase
<1> QED BY <1>3, <1>4, <1>5, <1>6 DEF Abstract!BeginDispatch, Pinned, Current

\* doForEachIf reads the counter.
LEMMA WalkCounterMaps ==
  ASSUME ListenersInv, WalkCounter
  PROVE  Abstract!ReadCounter
<1>1. /\ it = "opening" /\ it' = "check" /\ snapshot' = currentCounter
      /\ UNCHANGED <<head, tail, next, previous, counter, appending, node>>
  BY DEF WalkCounter, listVars
<1>2. Linked' = Linked /\ Allocated' = Allocated /\ Front' = Front
  BY <1>1, SetsOfTheState, SetsAfterTheStep DEF Front
<1>3. \A m \in Ahead(Front, next) : counter[m] <= currentCounter
  BY MappedState DEF ListenersInv, CounterInv
<1>4. ToReach' = ToReach
  BY <1>1, <1>2, <1>3, ToReachFact, ToReachAfterTheStep
<1>5. Pinned' = Pinned /\ Current' = Current /\ WalkPhase = "opening" /\ WalkPhase' \in {"late", "closed"}
  BY <1>1, <1>2 DEF Pinned, Current, WalkPhase
<1> QED BY <1>2, <1>4, <1>5 DEF Abstract!ReadCounter, Pinned, Current

\* doForEachIf calls the node it stands on, which is linked.
LEMMA WalkCallMaps ==
  ASSUME ListenersInv, WalkCall
  PROVE  node \in Session /\ Abstract!Visit(node)
<1> USE ListAssumption
<1>1. /\ it = "check" /\ it' = "call" /\ node # NoSession /\ Callable(node)
      /\ UNCHANGED <<head, tail, next, previous, counter, appending, node, snapshot>>
  BY DEF WalkCall, listVars
<1>2. Linked' = Linked /\ Allocated' = Allocated
  BY <1>1, SetsOfTheState, SetsAfterTheStep
<1>3. node \in Live /\ node \in Session
  BY <1>1 DEF ListenersInv, WalkInv, CTypeOK, Ptr, Live, Callable
<1>4. Front = node /\ Front' = next[node] /\ next \in Pointers
  BY <1>1, MappedState DEF Front
<1>5. Ahead(node, next) = {node} \cup Ahead(next[node], next) /\ node \notin Ahead(next[node], next)
  <2>1. Ahead(node, next) = {node} \cup Ahead(next[node], next)
    BY <1>3, <1>4, AheadUnfold
  <2>2. Ahead(next[node], next) \subseteq {m \in Live : counter[node] < counter[m]}
    BY <1>3, AheadOfLinked
  <2>3. ~(counter[node] < counter[node])
    BY <1>3 DEF ListenersInv, CTypeOK
  <2> QED BY <2>1, <2>2, <2>3
<1>6. node \in ToReach /\ ToReach' = ToReach \ {node}
  <2>1. counter[node] # removedCounter /\ counter[node] <= snapshot
    BY <1>1, <1>3 DEF Callable, ListenersInv, CTypeOK
  <2>2. node \in ToReach
    BY <1>4, <1>5, <2>1, ToReachFact
  <2>3. ToReach' = {n \in Ahead(next[node], next) : counter[n] # removedCounter
                                                    /\ (it' = "opening" \/ counter[n] <= snapshot)}
    BY <1>1, <1>4, ToReachAfterTheStep
  <2>4. ToReach = {n \in {node} \cup Ahead(next[node], next) :
                     counter[n] # removedCounter /\ (it = "opening" \/ counter[n] <= snapshot)}
    BY <1>4, <1>5, ToReachFact
  <2> QED BY <1>1, <1>5, <2>2, <2>3, <2>4
<1>7. /\ Pinned' = Pinned /\ Current = NoSession /\ Current' = node
      /\ WalkPhase \in {"late", "closed"} /\ WalkPhase' = WalkPhase
  BY <1>1, <1>2 DEF Pinned, Current, WalkPhase
<1> QED BY <1>2, <1>3, <1>6, <1>7 DEF Abstract!Visit, Abstract!walking, Pinned, Current

\* doForEachIf moves on: from a callback, from a removed node, or from a node that
\* is too new, when nothing is left to call.
LEMMA WalkNextMaps ==
  ASSUME ListenersInv, WalkNext
  PROVE  \/ Abstract!Return
         \/ node \in Session /\ Abstract!Skip(node)
         \/ UNCHANGED <<Linked, Pinned, ToReach, Current, WalkPhase>>
<1> USE ListAssumption
<1>1. /\ it \in {"call", "check"} /\ it' = "check" /\ node # NoSession /\ node' = next[node]
      /\ (it = "check" => ~Callable(node))
      /\ UNCHANGED <<head, tail, next, previous, counter, appending, snapshot>>
  BY DEF WalkNext, listVars, ListenersInv, WalkInv
<1>2. ListenersInv' /\ Live' = Live /\ Allocated' \subseteq Allocated
  BY WalkKeeps
<1>3. /\ Linked = Live /\ Linked' = Live /\ ToReach' \subseteq Live
      /\ Pinned' \subseteq Pinned /\ next \in Pointers
  <2>1. Pinned = Allocated \ (Live \cup {appending}) /\ Pinned' = Allocated' \ (Live \cup {appending})
    BY <1>1, <1>2, MappedState, MappedAfterTheStep
  <2> QED BY <1>2, <2>1, MappedState, MappedAfterTheStep
<1>4. node \in Session /\ node # appending
  BY <1>1 DEF ListenersInv, WalkInv, CTypeOK, Ptr
<1>5. Front' = next[node] /\ Current' = NoSession /\ WalkPhase' = WalkPhase
      /\ WalkPhase \in {"late", "closed"}
  BY <1>1 DEF Front, Current, WalkPhase
<1>6. ToReach' = {n \in Ahead(next[node], next) : counter[n] # removedCounter /\ counter[n] <= snapshot}
  BY <1>1, <1>5, ToReachAfterTheStep
<1>7. CASE it = "call"
  <2>1. ToReach' = ToReach
    BY <1>6, <1>7, ToReachFact DEF Front
  <2>2. Current # NoSession
    BY <1>1, <1>7 DEF Current
  <2>3. Abstract!Return
    BY <1>3, <1>5, <2>1, <2>2 DEF Abstract!Return, Abstract!Unpin, Pinned, Current
  <2> QED BY <2>3
<1>8. CASE it = "check"
  <2>1. Current = NoSession /\ Front = node
    BY <1>8 DEF Current, Front
  <2>2. Ahead(node, next) = {node} \cup Ahead(next[node], next)
    BY <1>3, <1>4, AheadUnfold
  <2>3. ToReach = {n \in {node} \cup Ahead(next[node], next) :
                     counter[n] # removedCounter /\ counter[n] <= snapshot}
    BY <1>8, <2>1, <2>2, ToReachFact
  <2>4. CASE counter[node] = removedCounter
    <3>1. node \in Pinned
      BY <1>1, <1>4, <2>4, MappedState DEF Live
    <3>2. ToReach' = ToReach \ {node}
      BY <1>6, <2>3, <2>4
    <3>3. Abstract!Skip(node)
      BY <1>3, <1>5, <2>1, <3>1, <3>2 DEF Abstract!Skip, Abstract!Unpin, Abstract!walking, Pinned, Current
    <3> QED BY <1>4, <3>3
  <2>5. CASE counter[node] # removedCounter
    <3>1. node \in Live /\ snapshot < counter[node] /\ snapshot \in Nat
          /\ \A m \in Session : counter[m] \in Nat
      BY <1>1, <1>4, <1>8, <2>5 DEF Live, Callable, ListenersInv, CTypeOK
    <3>2. Ahead(next[node], next) \subseteq {m \in Live : counter[node] < counter[m]}
      BY <3>1, AheadOfLinked
    <3>3. \A m \in {node} \cup Ahead(next[node], next) : ~(counter[m] <= snapshot)
      <4>1. ASSUME NEW m \in {node} \cup Ahead(next[node], next) PROVE ~(counter[m] <= snapshot)
        <5>1. m \in Session /\ (counter[m] = counter[node] \/ counter[node] < counter[m])
          BY <1>4, <3>2 DEF Live
        <5> QED BY <1>4, <3>1, <5>1
      <4> QED BY <4>1
    <3>4. ToReach = {} /\ ToReach' = {}
      BY <1>6, <2>3, <3>3
    <3>5. Pinned' = Pinned
      <4>1. node' \in Live' \cup {NoSession}
        BY <1>1, <1>2, <3>1 DEF ListenersInv, ListInv
      <4>2. Allocated = Live \cup ({appending} \ {NoSession})
        BY <3>1, NothingPinned
      <4>3. Allocated' = Live \cup ({appending} \ {NoSession})
        BY <1>1, <1>2, <4>1, NothingPinnedAfterTheStep
      <4> QED BY <1>1, <1>3, <4>2, <4>3 DEF Pinned
    <3> QED BY <1>3, <1>5, <2>1, <3>4, <3>5
  <2> QED BY <2>4, <2>5
<1> QED BY <1>1, <1>7, <1>8

\* doForEachIf is at the end.
LEMMA WalkEndMaps ==
  ASSUME ListenersInv, WalkEnd
  PROVE  Abstract!EndDispatch
<1>1. /\ it = "check" /\ it' = "idle" /\ node = NoSession
      /\ UNCHANGED <<head, tail, next, previous, counter, appending, node>>
  BY DEF WalkEnd, listVars
<1>2. Linked' = Linked /\ Allocated' = Allocated
  BY <1>1, SetsOfTheState, SetsAfterTheStep
<1>3. Pinned = {}
  <2>1. Allocated = Live \cup ({appending} \ {NoSession})
    BY <1>1, NothingPinned
  <2> QED BY <2>1, MappedState
<1>4. ToReach = {} /\ ToReach' = {}
  <2>1. Front = NoSession /\ Front' = NoSession /\ next \in Pointers /\ next' = next
    BY <1>1, MappedState DEF Front
  <2>2. Ahead(Front, next) = {} /\ Ahead(Front', next') = {}
    BY <2>1, AheadOfNothing
  <2> QED BY <2>2, ToReachFact, ToReachAfterTheStep
<1>5. /\ Pinned' = Pinned /\ Current = NoSession /\ Current' = NoSession
      /\ WalkPhase \in {"late", "closed"} /\ WalkPhase' = "idle"
  BY <1>1, <1>2 DEF Pinned, Current, WalkPhase
<1> QED BY <1>2, <1>3, <1>4, <1>5 DEF Abstract!EndDispatch, Abstract!walking, Pinned, Current

\* Every step of the list is a step of the listener set, or none.
LEMMA ListenersMap ==
  ListenersInv /\ [CNext]_cvars => [Abstract!LNext]_(Abstract!lvars)
<1> SUFFICES ASSUME ListenersInv, [CNext]_cvars PROVE Abstract!LNext \/ UNCHANGED Abstract!lvars
  OBVIOUS
<1>1. ASSUME UNCHANGED <<Linked, Pinned, ToReach, Current, WalkPhase>>
      PROVE  UNCHANGED Abstract!lvars
  BY <1>1 DEF Abstract!lvars, Pinned, Current
<1>2. ASSUME NEW n \in Session, AppendAllocate(n) PROVE UNCHANGED Abstract!lvars
  BY <1>1, <1>2, AppendAllocateMaps
<1>3. ASSUME NEW n \in Session, AppendLink(n) \/ Remove(n) PROVE Abstract!LNext
  BY <1>3, AppendLinkMaps, RemoveMaps DEF Abstract!LNext
<1>4. ASSUME WalkHead \/ WalkCounter \/ WalkEnd PROVE Abstract!LNext
  BY <1>4, WalkHeadMaps, WalkCounterMaps, WalkEndMaps DEF Abstract!LNext
<1>5. ASSUME WalkCall PROVE Abstract!LNext
  BY <1>5, WalkCallMaps DEF Abstract!LNext
<1>6. ASSUME WalkNext PROVE Abstract!LNext \/ UNCHANGED Abstract!lvars
  BY <1>1, <1>6, WalkNextMaps DEF Abstract!LNext
<1>7. ASSUME UNCHANGED cvars PROVE UNCHANGED Abstract!lvars
  <2>1. /\ Linked' = Linked /\ Allocated' = Allocated /\ Front' = Front
        /\ UNCHANGED <<next, counter, it, snapshot, node, appending>>
    BY <1>7, SetsOfTheState, SetsAfterTheStep DEF cvars, listVars, walkVars, Front
  <2>2. ToReach' = ToReach
    BY <2>1, ToReachFact, ToReachAfterTheStep
  <2>3. UNCHANGED <<Pinned, Current, WalkPhase>>
    BY <2>1 DEF Pinned, Current, WalkPhase
  <2> QED BY <1>1, <2>1, <2>2, <2>3
<1> QED BY <1>2, <1>3, <1>4, <1>5, <1>6, <1>7 DEF CNext

\* The empty list is the empty listener set.
LEMMA ListenersMapInit == CInit => Abstract!LInit
<1> SUFFICES ASSUME CInit PROVE Abstract!LInit
  OBVIOUS
<1>1. ListenersInv
  BY ListenersInit
<1>2. Live = {} /\ node = NoSession /\ it = "idle"
  BY DEF CInit, Live
<1>3. Linked = {} /\ ToReach = {}
  BY <1>1, <1>2, MappedState
<1>4. Pinned = {}
  <2>1. Allocated = Live \cup ({appending} \ {NoSession})
    BY <1>1, <1>2, NothingPinned
  <2> QED BY <1>2, <2>1 DEF Pinned
<1>5. Current = NoSession /\ WalkPhase = "idle"
  BY <1>2 DEF Current, WalkPhase
<1> QED BY <1>3, <1>4, <1>5 DEF Abstract!LInit, Pinned, Current

\* ImplementsListenerSet: with its mutex taken for single pointers only, its counters and
\* its reference counts, the list is the listener set that the agent is built on.
THEOREM ListImplementsListenerSet == CSpec => ImplementsListenerSet
<1>1. CInit => Abstract!LInit
  BY ListenersMapInit
<1>2. ListenersInv /\ [CNext]_cvars => [Abstract!LNext]_(Abstract!lvars)
  BY ListenersMap
<1> QED BY <1>1, <1>2, ListenersInductive, PTL DEF CSpec, ImplementsListenerSet, Abstract!LSpec
==============================================================================
