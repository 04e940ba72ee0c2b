----------------------------- MODULE EventFeed -----------------------------
(***************************************************************************)
(* What the event outbox promises its consumers, with inserts, statements, *)
(* requests and crashes left out.  An event is posted to the feed at most  *)
(* once, leaves the unread ones for good when a consumer takes it, alone   *)
(* or with others, and is seen by a consumer only after it was taken.      *)
(* EventOutbox implements it.  That an event is seen by one consumer only, *)
(* or seen at all once it was taken, is not promised.                      *)
(***************************************************************************)
CONSTANT Events

VARIABLES
    unread,  \* events waiting for a consumer
    taken,   \* events no later request will find
    seen     \* events a consumer has received

vars == <<unread, taken, seen>>

Init ==
    /\ unread = {}
    /\ taken = {}
    /\ seen = {}

\* An event is recorded.
Post(e) ==
    /\ e \notin unread \cup taken
    /\ unread' = unread \cup {e}
    /\ UNCHANGED <<taken, seen>>

\* What a request found is marked delivered.
Take(B) ==
    /\ B \subseteq unread
    /\ unread' = unread \ B
    /\ taken' = taken \cup B
    /\ UNCHANGED seen

\* An answer arrives.
See(B) ==
    /\ B \subseteq taken
    /\ seen' = seen \cup B
    /\ UNCHANGED <<unread, taken>>

Next ==
    \/ \E e \in Events : Post(e)
    \/ \E B \in SUBSET Events : Take(B) \/ See(B)

Spec == Init /\ [][Next]_vars
=============================================================================
