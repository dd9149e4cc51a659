----------------------------- MODULE ListenerSet -----------------------------
(***************************************************************************)
(* What eventpp's CallbackList promises its users: a set of listeners that *)
(* one thread (the io thread) appends to and removes from while another    *)
(* thread (the publisher) walks it to hand one event to each listener.     *)
(* Newcomers cannot prolong a walk for ever: it compares node counters     *)
(* with a snapshot of the list's counter.                                  *)
(*                                                                         *)
(*   live        listeners linked in the list                              *)
(*   pinned      removed listeners whose node the walk still keeps         *)
(*               allocated, and with it everything the callback owns       *)
(*   todo        listeners the current walk has still to reach             *)
(*   cur         the listener whose callback is running, or NoSession      *)
(*   walk        "idle", no walk; "opening", the head was read but not yet *)
(*               the counter; "late", the counter was read while a         *)
(*               listener that took its counter before is still to be      *)
(*               linked; "closed", no newcomer is reached any more         *)
(*                                                                         *)
(* The module CallbackList is the linked list itself and implements this.  *)
(***************************************************************************)
CONSTANTS Session,   \* the listeners; in the agent, one per client session
          NoSession  \* no listener

ASSUME NoSessionAssumption == NoSession \notin Session

VARIABLES live, pinned, todo, cur, walk

lvars == <<live, pinned, todo, cur, walk>>

LTypeOK ==
  /\ live \subseteq Session
  /\ pinned \subseteq Session
  /\ todo \subseteq Session
  /\ cur \in Session \cup {NoSession}
  /\ walk \in {"idle", "opening", "late", "closed"}

LInit ==
  /\ live = {}
  /\ pinned = {}
  /\ todo = {}
  /\ cur = NoSession
  /\ walk = "idle"

dispatching == walk # "idle"

\* The walk has read the counter and visits nodes.
walking == walk \in {"late", "closed"}

\* Listeners whose node is allocated: Handle::use_count() > 0.
NodeHeld == live \cup pinned

\* Mutant: the walk does not stop at the counter it has read.
AppendExtendsWalk(l) ==
  /\ l \notin NodeHeld
  /\ live' = live \cup {l}
  /\ todo' = IF dispatching THEN todo \cup {l} ELSE todo
  /\ UNCHANGED <<pinned, cur, walk>>

\* A listener appended during a walk may or may not be reached by that walk.
\* There is one appending thread, so only the first one linked after the
\* counter was read can have taken its own counter before.
AppendListener(l) ==
  /\ l \notin NodeHeld
  /\ live' = live \cup {l}
  /\ \/ todo' = todo
     \/ walk \in {"opening", "late"} /\ todo' = todo \cup {l}
  /\ walk' = IF walk = "late" THEN "closed" ELSE walk
  /\ UNCHANGED <<pinned, cur>>

\* Mutant: removing a node breaks the chain a walk follows.
RemoveCutsWalk(l) ==
  /\ l \in live
  /\ live' = live \ {l}
  /\ todo' = {}
  /\ pinned' = IF dispatching THEN pinned \cup {l} ELSE pinned
  /\ UNCHANGED <<cur, walk>>

\* A walk that is under way may keep the node allocated, must do so while the
\* callback runs, and may still reach a node it keeps.
RemoveListener(l) ==
  /\ l \in live
  /\ live' = live \ {l}
  /\ \/ l # cur /\ pinned' = pinned /\ todo' = todo \ {l}
     \/ dispatching /\ pinned' = pinned \cup {l} /\ todo' \in {todo, todo \ {l}}
  /\ UNCHANGED <<cur, walk>>

BeginDispatch ==
  /\ walk = "idle"
  /\ walk' = "opening"
  /\ todo' = live
  /\ UNCHANGED <<live, pinned, cur>>

ReadCounter ==
  /\ walk = "opening"
  /\ walk' \in {"late", "closed"}
  /\ UNCHANGED <<live, pinned, todo, cur>>

\* The walk calls a listener; it may have been removed a moment ago.
Visit(l) ==
  /\ walking
  /\ cur = NoSession
  /\ l \in todo
  /\ cur' = l
  /\ todo' = todo \ {l}
  /\ UNCHANGED <<live, pinned, walk>>

\* Moving on releases some of the removed nodes, never one still to be reached.
Unpin ==
  /\ pinned' \in SUBSET pinned
  /\ todo' \subseteq live' \cup pinned'

\* The callback returns and the walk moves to the next node.
Return ==
  /\ cur # NoSession
  /\ cur' = NoSession
  /\ UNCHANGED <<live, todo, walk>>
  /\ Unpin

\* The walk steps over a removed node it still keeps.
Skip(l) ==
  /\ walking
  /\ cur = NoSession
  /\ l \in pinned
  /\ todo' = todo \ {l}
  /\ UNCHANGED <<live, cur, walk>>
  /\ Unpin

EndDispatch ==
  /\ walking
  /\ cur = NoSession
  /\ todo = {}
  /\ walk' = "idle"
  /\ pinned' = {}
  /\ UNCHANGED <<live, todo, cur>>

LNext ==
  \/ \E l \in Session : \/ AppendListener(l) \/ RemoveListener(l)
                        \/ Visit(l) \/ Skip(l)
  \/ BeginDispatch \/ ReadCounter \/ Return \/ EndDispatch

LSpec == LInit /\ [][LNext]_lvars
==============================================================================
