------------------------------ MODULE Mailbox ------------------------------
(* What the bus promises about one agent's mail, without streams, cursors or  *)
(* awaits (spec-v2, sections 7 and 11): an accepted message waits until it is *)
(* handed over by a fetch or dropped by retention (TTL, MAXLEN, the reaper),  *)
(* and never leaves the unread mail in any other way.  Module Inbox           *)
(* implements it.                                                             *)
EXTENDS FiniteSets

CONSTANT Messages

VARIABLES accepted,     \* every message a chat has stored
          waiting,      \* what a fetch with no limit would return now
          handed,       \* what some fetch has acknowledged
          gone          \* what retention has removed or let expire

vars == <<accepted, waiting, handed, gone>>

TypeOK ==
    /\ accepted \in SUBSET Messages
    /\ waiting \in SUBSET accepted
    /\ handed \in SUBSET accepted
    /\ gone \in SUBSET accepted

Init ==
    /\ accepted = {}
    /\ waiting = {}
    /\ handed = {}
    /\ gone = {}

\* A new message joins the unread mail; making room for it may drop old ones.
Accept(m, D) ==
    /\ m \notin accepted
    /\ accepted' = accepted \cup {m}
    /\ waiting' = (waiting \ D) \cup {m}
    /\ gone' = gone \cup D
    /\ UNCHANGED handed

\* Retention: expiry, or the deletion of the whole inbox.
Drop(D) ==
    /\ gone' = gone \cup D
    /\ waiting' = waiting \ D
    /\ UNCHANGED <<accepted, handed>>

\* A fetch acknowledges S.  Racing fetches may put handed messages back into
\* the unread mail, or take them out again (at-least-once); a message nobody
\* was handed keeps its place.
Answer(S, W) ==
    /\ handed' = handed \cup S
    /\ waiting' = W
    /\ W \ handed' = waiting \ handed'
    /\ UNCHANGED <<accepted, gone>>

Next ==
    \/ \E m \in Messages, D \in SUBSET accepted : Accept(m, D)
    \/ \E D \in SUBSET accepted : Drop(D)
    \/ \E S \in SUBSET accepted, W \in SUBSET (accepted \ gone) : Answer(S, W)

Spec == Init /\ [][Next]_vars

----------------------------------------------------------------------------
(* Every message a chat stored is unread, was handed over, or was dropped:    *)
(* nothing else can become of it (store.py:86-113, spec-v2:216).              *)
NothingVanishes == accepted = waiting \cup handed \cup gone

=============================================================================
