----------------------------- MODULE CallbackList -----------------------------
(***************************************************************************)
(* eventpp's CallbackList as the agent uses it: a doubly linked list of    *)
(* reference-counted nodes.  The io thread appends and removes; the        *)
(* publisher walks the list, taking the mutex only to read a pointer and   *)
(* calling the callbacks without it.  A step is one critical section or    *)
(* one access outside it.  A listener has one node, which is its name.     *)
(***************************************************************************)
EXTENDS Naturals

CONSTANTS Session,    \* the listeners
          NoSession,  \* the null pointer
          MaxCounter  \* bound on currentCounter: listeners ever appended

ASSUME ListAssumption == MaxCounter \in Nat /\ NoSession \notin Session

VARIABLES
  head, tail, next, previous, counter, currentCounter,
  appending,  \* the node append() has allocated but not linked yet
  it,         \* where the walk is: idle, opening, check, call
  node,       \* doForEachIf's node
  snapshot    \* doForEachIf's counter

listVars == <<head, tail, next, previous, counter>>
walkVars == <<it, node, snapshot>>
cvars    == <<listVars, currentCounter, appending, walkVars>>

removedCounter == 0
Ptr == Session \cup {NoSession}

CTypeOK ==
  /\ head \in Ptr /\ tail \in Ptr /\ node \in Ptr /\ appending \in Ptr
  /\ next \in [Session -> Ptr] /\ previous \in [Session -> Ptr]
  /\ counter \in [Session -> 0..MaxCounter]
  /\ currentCounter \in 0..MaxCounter
  /\ snapshot \in 0..MaxCounter
  /\ it \in {"idle", "opening", "check", "call"}

\* S holds the nodes that its nodes point to, where succ[n] are the pointers n holds.
Closed(S, succ) == \A n \in S : succ[n] \ {NoSession} \subseteq S

\* The nodes that the pointers in P lead to, P included.
Reach(P, succ) ==
  {n \in Session : \A S \in SUBSET Session :
                     (P \ {NoSession} \subseteq S /\ Closed(S, succ)) => n \in S}

NextOf  == [n \in Session |-> {next[n]}]
LinksOf == [n \in Session |-> {next[n], previous[n]}]

Linked == Reach({head}, NextOf)

\* Nodes some shared_ptr still refers to: Handle::use_count() > 0.
Allocated == Reach({head, tail, node, appending}, LinksOf)

CInit ==
  /\ head = NoSession /\ tail = NoSession
  /\ next = [n \in Session |-> NoSession]
  /\ previous = [n \in Session |-> NoSession]
  /\ counter = [n \in Session |-> removedCounter]
  /\ currentCounter = 0
  /\ appending = NoSession
  /\ it = "idle" /\ node = NoSession /\ snapshot = 0

------------------------------------------------------------------------------
(* The io thread. *)

\* append(), doAllocateNode and getNextCounter: outside the mutex.
AppendAllocate(n) ==
  /\ appending = NoSession
  /\ n \notin Allocated
  /\ currentCounter < MaxCounter
  /\ currentCounter' = currentCounter + 1
  /\ counter' = [counter EXCEPT ![n] = currentCounter + 1]
  /\ next' = [next EXCEPT ![n] = NoSession]
  /\ previous' = [previous EXCEPT ![n] = NoSession]
  /\ appending' = n
  /\ UNCHANGED <<head, tail, walkVars>>

\* Mutant: the new node does not point back to the old tail.
AppendLinkOneWay(n) ==
  /\ appending = n
  /\ n # NoSession
  /\ appending' = NoSession
  /\ tail' = n
  /\ IF head # NoSession
     THEN next' = [next EXCEPT ![tail] = n] /\ UNCHANGED head
     ELSE head' = n /\ UNCHANGED next
  /\ UNCHANGED <<previous, counter, currentCounter, walkVars>>

\* append(): the critical section.
AppendLink(n) ==
  /\ appending = n
  /\ n # NoSession
  /\ appending' = NoSession
  /\ tail' = n
  /\ IF head # NoSession
     THEN /\ previous' = [previous EXCEPT ![n] = tail]
          /\ next' = [next EXCEPT ![tail] = n]
          /\ UNCHANGED head
     ELSE head' = n /\ UNCHANGED <<next, previous>>
  /\ UNCHANGED <<counter, currentCounter, walkVars>>

\* Mutant: the next node keeps its pointer back to n.
FreeKeepsBackLink(n) ==
  /\ next' = [m \in Session |-> IF m = previous[n] THEN next[n] ELSE next[m]]
  /\ counter' = [counter EXCEPT ![n] = removedCounter]
  /\ head' = IF head = n THEN next[n] ELSE head
  /\ tail' = IF tail = n THEN previous[n] ELSE tail
  /\ UNCHANGED previous

\* Mutant: n's own next is cleared while a walk may stand on n.
FreeClearsNext(n) ==
  /\ previous' = [m \in Session |->
       IF m = next[n] THEN previous[n] ELSE previous[m]]
  /\ next' = [m \in Session |-> CASE m = previous[n] -> next[n]
                                 [] m = n -> NoSession
                                 [] OTHER -> next[m]]
  /\ counter' = [counter EXCEPT ![n] = removedCounter]
  /\ head' = IF head = n THEN next[n] ELSE head
  /\ tail' = IF tail = n THEN previous[n] ELSE tail

\* doFreeNode: the neighbours bypass n; n's own links stay, for a walk that
\* stands on it.
doFreeNode(n) ==
  /\ previous' = [m \in Session |->
       IF m = next[n] THEN previous[n] ELSE previous[m]]
  /\ next' = [m \in Session |-> IF m = previous[n] THEN next[n] ELSE next[m]]
  /\ counter' = [counter EXCEPT ![n] = removedCounter]
  /\ head' = IF head = n THEN next[n] ELSE head
  /\ tail' = IF tail = n THEN previous[n] ELSE tail

\* remove(): the agent removes a listener once.
Remove(n) ==
  /\ appending = NoSession
  /\ n \in Allocated
  /\ counter[n] # removedCounter
  /\ doFreeNode(n)
  /\ UNCHANGED <<currentCounter, appending, walkVars>>

------------------------------------------------------------------------------
(* The publisher: doForEachIf. *)

WalkHead ==
  /\ it = "idle"
  /\ node' = head
  /\ it' = "opening"
  /\ UNCHANGED <<listVars, currentCounter, appending, snapshot>>

\* Mutant: the snapshot is the counter the next node will get.
WalkNextCounter ==
  /\ it = "opening"
  /\ snapshot' = currentCounter + 1
  /\ it' = "check"
  /\ UNCHANGED <<listVars, currentCounter, appending, node>>

WalkCounter ==
  /\ it = "opening"
  /\ snapshot' = currentCounter
  /\ it' = "check"
  /\ UNCHANGED <<listVars, currentCounter, appending, node>>

\* The test before the call reads the node's counter without the mutex.
Callable(n) == counter[n] # removedCounter /\ snapshot >= counter[n]

WalkCall ==
  /\ it = "check"
  /\ node # NoSession
  /\ Callable(node)
  /\ it' = "call"
  /\ UNCHANGED <<listVars, currentCounter, appending, node, snapshot>>

\* node = node->next, after the call or after a test that failed.
WalkNext ==
  /\ \/ it = "call"
     \/ it = "check" /\ node # NoSession /\ ~Callable(node)
  /\ node' = next[node]
  /\ it' = "check"
  /\ UNCHANGED <<listVars, currentCounter, appending, snapshot>>

WalkEnd ==
  /\ it = "check"
  /\ node = NoSession
  /\ it' = "idle"
  /\ snapshot' = 0
  /\ UNCHANGED <<listVars, currentCounter, appending, node>>

CNext ==
  \/ \E n \in Session : AppendAllocate(n) \/ AppendLink(n) \/ Remove(n)
  \/ WalkHead \/ WalkCounter \/ WalkCall \/ WalkNext \/ WalkEnd

CSpec == CInit /\ [][CNext]_cvars

------------------------------------------------------------------------------
(* Properties. *)

\* The list the mutex protects is a doubly linked list from head to tail, and
\* its nodes hold pointers to its nodes only, so that a removed node is freed
\* as soon as the walk has moved on.
ListWellFormed ==
  /\ (head = NoSession) = (Linked = {})
  /\ Linked # {} => /\ tail \in Linked /\ next[tail] = NoSession
                    /\ previous[head] = NoSession
  /\ \A m, n \in Linked : next[m] = n <=> previous[n] = m
  /\ \A n \in Linked : previous[n] \in Linked \cup {NoSession}
  /\ \A n \in Linked : counter[n] # removedCounter

\* The shared_ptr links of removed nodes form no cycle: each one is freed when
\* the last pointer to it goes, and with it the session its callback owns.
NoOwnershipCycle ==
  \A n \in Allocated \ Linked : n \notin Reach(LinksOf[n], LinksOf)

\* What the walk has still to reach.
ToReach ==
  LET ahead == CASE it = "call" -> Reach({next[node]}, NextOf)
                 [] OTHER       -> Reach({node}, NextOf)
  IN  {n \in ahead : counter[n] # removedCounter
                       /\ (it = "opening" \/ counter[n] <= snapshot)}

WalkPhase ==
  CASE it \in {"idle", "opening"} -> it
    [] OTHER -> IF appending # NoSession /\ counter[appending] <= snapshot
                THEN "late" ELSE "closed"

\* The list with its mutex, its counters and its reference counts is the
\* listener set that the agent's model is built on: in particular a walk
\* calls every listener that was there when it began and is not removed
\* meanwhile, exactly once, and it ends however many join.
Abstract ==
  INSTANCE ListenerSet WITH
    live   <- Linked,
    pinned <- Allocated \ (Linked \cup {appending}),
    todo   <- ToReach,
    cur    <- IF it = "call" THEN node ELSE NoSession,
    walk   <- WalkPhase

ImplementsListenerSet == Abstract!LSpec
==============================================================================
