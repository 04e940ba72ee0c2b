---------------------------- MODULE EventOutbox ----------------------------
(***************************************************************************)
(* The event outbox: TrackerEventPublisherService.dispatch() records every *)
(* domain event in the table tracker_event, without awaiting the INSERT,   *)
(* and consumers drain the table through GET /tracker/events/unread.  A    *)
(* request runs two statements, findUnread() and then markDelivered(), and *)
(* other requests and inserts run between them.                            *)
(*                                                                         *)
(* An event is a number: its time occurredAt, taken by dispatch() when it  *)
(* is emitted.  Its row may appear later than that of a younger event.     *)
(***************************************************************************)
EXTENDS Naturals, FiniteSets

CONSTANTS
    MaxEvents,  \* bound on the events emitted
    Requests,   \* requests that may be under way at a time
    Limit,      \* the limit of a request
    MaxCrashes  \* bound on the crashes of the process

ASSUME LimitAssumption == Limit \in Nat \ {0}
ASSUME BoundAssumption == MaxEvents \in Nat /\ MaxCrashes \in Nat

Events == 1..MaxEvents

VARIABLES
    emitted,    \* events emitted so far are 1..emitted
    recording,  \* events whose INSERT is on its way
    row,        \* the tracker_event table: absent, unread or delivered
    phase,      \* where each request stands
    batch,      \* the events it found
    \* history, over all consumers
    returned,   \* events some answer carried to a consumer
    twice,      \* events carried by more than one answer
    lost,       \* events of an answer that never arrived
    unrecorded, \* events whose INSERT failed, or died with the process
    before,     \* what had been returned when the request was made
    crashes

requestVars == <<phase, batch, before>>
historyVars == <<returned, twice, lost, unrecorded>>
vars == <<emitted, recording, row, requestVars, historyVars, crashes>>

Phases == {"idle", "asked", "found", "marked"}

\* Mutant: the condition on delivered is dropped.
UnreadUnfiltered == { e \in Events : row[e] # "absent" }

Unread == { e \in Events : row[e] = "unread" }

----------------------------------------------------------------------------
Init ==
    /\ emitted = 0
    /\ recording = {}
    /\ row = [e \in Events |-> "absent"]
    /\ phase = [p \in Requests |-> "idle"]
    /\ batch = [p \in Requests |-> {}]
    /\ before = [p \in Requests |-> {}]
    /\ returned = {}
    /\ twice = {}
    /\ lost = {}
    /\ unrecorded = {}
    /\ crashes = 0

\* Mutant: the event number is off by one.
DispatchOffByOne ==
    /\ emitted < MaxEvents
    /\ emitted' = emitted + 1
    /\ recording' = recording \cup {emitted}
    /\ UNCHANGED <<row, requestVars, historyVars, crashes>>

\* dispatch(): outbox.record() is started, not awaited.
Dispatch ==
    /\ emitted < MaxEvents
    /\ emitted' = emitted + 1
    /\ recording' = recording \cup {emitted + 1}
    /\ UNCHANGED <<row, requestVars, historyVars, crashes>>

\* record(): the INSERT takes effect.
Record(e) ==
    /\ e \in recording
    /\ recording' = recording \ {e}
    /\ row' = [row EXCEPT ![e] = "unread"]
    /\ UNCHANGED <<emitted, requestVars, historyVars, crashes>>

\* The INSERT fails: the error is logged, the event is not recorded.
RecordFails(e) ==
    /\ e \in recording
    /\ recording' = recording \ {e}
    /\ unrecorded' = unrecorded \cup {e}
    /\ UNCHANGED <<emitted, row, requestVars, returned, twice, lost, crashes>>

----------------------------------------------------------------------------
(* listUnreadEvents()                                                      *)

Ask(p) ==
    /\ phase[p] = "idle"
    /\ phase' = [phase EXCEPT ![p] = "asked"]
    /\ before' = [before EXCEPT ![p] = returned]
    /\ UNCHANGED <<emitted, recording, row, batch, historyVars, crashes>>

\* ORDER BY occurredAt ASC, LIMIT Limit
Oldest(S) == { e \in S : Cardinality({ d \in S : d < e }) < Limit }

FindUnread(p) ==
    /\ phase[p] = "asked"
    /\ phase' = [phase EXCEPT ![p] = "found"]
    /\ batch' = [batch EXCEPT ![p] = Oldest(Unread)]
    /\ UNCHANGED <<emitted, recording, row, before, historyVars, crashes>>

\* Mutant: everything unread is marked, not what was found.
MarkAllDelivered(p) ==
    /\ phase[p] = "found"
    /\ batch[p] # {}
    /\ phase' = [phase EXCEPT ![p] = "marked"]
    /\ row' = [e \in Events |-> IF e \in Unread THEN "delivered" ELSE row[e]]
    /\ UNCHANGED <<emitted, recording, batch, before, historyVars, crashes>>

\* UPDATE ... WHERE id IN batch: also rows another request has marked since.
MarkDelivered(p) ==
    /\ phase[p] = "found"
    /\ batch[p] # {}
    /\ phase' = [phase EXCEPT ![p] = "marked"]
    /\ row' = [e \in Events |-> IF e \in batch[p] THEN "delivered" ELSE row[e]]
    /\ UNCHANGED <<emitted, recording, batch, before, historyVars, crashes>>

Finish(p) ==
    /\ phase' = [phase EXCEPT ![p] = "idle"]
    /\ batch' = [batch EXCEPT ![p] = {}]
    /\ before' = [before EXCEPT ![p] = {}]

\* Mutant: the answer does not wait for markDelivered().
AnswerUnmarked(p) ==
    /\ phase[p] \in {"found", "marked"}
    /\ Finish(p)
    /\ returned' = returned \cup batch[p]
    /\ twice' = twice \cup (returned \cap batch[p])
    /\ UNCHANGED <<emitted, recording, row, lost, unrecorded, crashes>>

\* The answer reaches the consumer.  An empty batch is answered as it is.
Answer(p) ==
    /\ phase[p] = "marked" \/ (phase[p] = "found" /\ batch[p] = {})
    /\ Finish(p)
    /\ returned' = returned \cup batch[p]
    /\ twice' = twice \cup (returned \cap batch[p])
    /\ UNCHANGED <<emitted, recording, row, lost, unrecorded, crashes>>

\* The answer is lost after the mark: the connection to the consumer drops, or
\* the UPDATE took effect but its answer did not come back.
AnswerLost(p) ==
    /\ phase[p] = "marked"
    /\ Finish(p)
    /\ lost' = lost \cup batch[p]
    /\ UNCHANGED <<emitted, recording, row, returned, twice, unrecorded, crashes>>

\* A statement fails before it took effect: the request ends in an error.
StatementFails(p) ==
    /\ phase[p] \in {"asked", "found"}
    /\ Finish(p)
    /\ UNCHANGED <<emitted, recording, row, historyVars, crashes>>

\* The process dies and is started again: requests and inserts under way are
\* gone, the table stays.
Crash ==
    /\ crashes < MaxCrashes
    /\ crashes' = crashes + 1
    /\ recording' = {}
    /\ unrecorded' = unrecorded \cup recording
    /\ phase' = [p \in Requests |-> "idle"]
    /\ batch' = [p \in Requests |-> {}]
    /\ before' = [p \in Requests |-> {}]
    /\ lost' = lost \cup UNION { batch[p] : p \in { q \in Requests : phase[q] = "marked" } }
    /\ UNCHANGED <<emitted, row, returned, twice>>

Next ==
    \/ Dispatch
    \/ \E e \in Events : Record(e) \/ RecordFails(e)
    \/ \E p \in Requests :
         \/ Ask(p) \/ FindUnread(p) \/ MarkDelivered(p)
         \/ Answer(p) \/ AnswerLost(p) \/ StatementFails(p)
    \/ Crash

Spec == Init /\ [][Next]_vars

(***************************************************************************)
(* A consumer keeps polling, a request that was made runs on, and the      *)
(* database does not fail every time a statement is tried.                 *)
(***************************************************************************)
FairSpec ==
    /\ Spec
    /\ \A p \in Requests :
         /\ WF_vars(Ask(p))
         /\ WF_vars(Answer(p) \/ AnswerLost(p))
         /\ SF_vars(FindUnread(p))
         /\ SF_vars(MarkDelivered(p))

----------------------------------------------------------------------------
(* Properties                                                              *)

\* Every variable has its type.
TypeOK ==
    /\ emitted \in 0..MaxEvents
    /\ recording \subseteq Events
    /\ row \in [Events -> {"absent", "unread", "delivered"}]
    /\ phase \in [Requests -> Phases]
    /\ batch \in [Requests -> SUBSET Events]
    /\ before \in [Requests -> SUBSET Events]
    /\ returned \subseteq Events
    /\ twice \subseteq Events
    /\ lost \subseteq Events
    /\ unrecorded \subseteq Events
    /\ crashes \in 0..MaxCrashes

\* A request never returns what an answer that arrived before the request was
\* made already carried: "a subsequent call only ever returns what's new",
\* with other requests, crashes and failures around it.
LaterRequestReturnsNews ==
    \A p \in Requests : batch[p] \cap before[p] = {}

\* Every event ever emitted can be accounted for.  If it has no row its INSERT
\* is on its way, failed, or died with the process; if its row is unread no
\* answer ever carried it; and it left the unread list only into an answer:
\* carried to a consumer, about to be, or lost with it.
EveryEventIsAccountedFor ==
    \A e \in 1..emitted :
        \/ row[e] = "absent" /\ e \in recording \cup unrecorded
        \/ row[e] = "unread" /\ e \notin recording \cup unrecorded \cup returned \cup lost
        \/ /\ row[e] = "delivered"
           /\ e \notin recording \cup unrecorded
           /\ \/ e \in returned \cup lost
              \/ \E p \in Requests : phase[p] = "marked" /\ e \in batch[p]

\* A row never goes back: delivered events are not listed as unread again and
\* recorded ones are not removed, by any interleaving of requests and inserts.
RowsOnlyAdvance ==
    [][\A e \in Events : /\ row[e] = "delivered" => row'[e] = "delivered"
                         /\ row[e] = "unread" => row'[e] # "absent"]_vars

\* With a consumer that keeps polling, every recorded event leaves the list:
\* a full page of older events does not hold it back for ever.
EveryRecordIsDelivered ==
    \A e \in Events : row[e] = "unread" ~> row[e] = "delivered"

\* What the outbox promises its consumers: see EventFeed.
Feed == INSTANCE EventFeed WITH
    unread <- Unread,
    taken  <- { e \in Events : row[e] = "delivered" },
    seen   <- returned
ImplementsFeed == Feed!Spec

\* What the endpoint's comment says of all its callers: since everything
\* returned is marked, no event is returned by two calls.
NoEventReturnedTwice == twice = {}
============================================================================
