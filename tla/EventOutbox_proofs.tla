------------------------- MODULE EventOutbox_proofs -------------------------
(***************************************************************************)
(* What the outbox guarantees for any number of events, requests, limits   *)
(* and crashes.                                                            *)
(***************************************************************************)
EXTENDS EventOutbox, TLAPS

\* An INSERT on its way is for an emitted event that has no row yet, and whose
\* INSERT did not fail before.
RecordingIsFresh ==
    /\ \A e \in recording : row[e] = "absent" /\ e <= emitted /\ e \notin unrecorded
    /\ \A e \in unrecorded : row[e] = "absent" /\ e <= emitted
    /\ \A e \in Events : e > emitted => row[e] = "absent"

\* A request holds events only between its two statements and its answer;
\* what it has found is in the table, what it has marked is delivered.
BatchIsRecorded ==
    \A p \in Requests :
        /\ phase[p] \in {"idle", "asked"} => batch[p] = {}
        /\ \A e \in batch[p] : row[e] # "absent"
        /\ phase[p] = "marked" => \A e \in batch[p] : row[e] = "delivered"

\* What had been returned before a request has been returned.
BeforeIsReturned == \A p \in Requests : before[p] \subseteq returned

\* What an answer carried, to its consumer or not, is marked.
ReturnedIsMarked == \A e \in returned \cup lost : row[e] = "delivered"

\* The inductive invariant.
IInv ==
    /\ TypeOK
    /\ RecordingIsFresh
    /\ BatchIsRecorded
    /\ BeforeIsReturned
    /\ LaterRequestReturnsNews
    /\ EveryEventIsAccountedFor
    /\ ReturnedIsMarked

\* FindUnread takes a page of the unread events and nothing else.
LEMMA OldestIsPart == \A S : Oldest(S) \subseteq S
  BY DEF Oldest

\* The invariant holds when the process first starts.
LEMMA InitInv == Init => IInv
  BY BoundAssumption
  DEF Init, IInv, TypeOK, RecordingIsFresh, BatchIsRecorded, BeforeIsReturned,
      LaterRequestReturnsNews, EveryEventIsAccountedFor, ReturnedIsMarked,
      Phases, Events

\* Every step of the publisher, the endpoint and the database keeps it.
LEMMA StepInv == IInv /\ [Next]_vars => IInv'
<1> SUFFICES ASSUME IInv, [Next]_vars PROVE IInv'
  OBVIOUS
<1> USE BoundAssumption
<1>0. /\ TypeOK /\ RecordingIsFresh /\ BatchIsRecorded /\ BeforeIsReturned
      /\ LaterRequestReturnsNews /\ EveryEventIsAccountedFor /\ ReturnedIsMarked
  BY DEF IInv
<1>1. CASE Dispatch
  <2>1. TypeOK' /\ RecordingIsFresh'
    BY <1>0, <1>1 DEF Dispatch, TypeOK, RecordingIsFresh, Events, requestVars, historyVars
  <2>2. BatchIsRecorded' /\ BeforeIsReturned' /\ LaterRequestReturnsNews' /\ ReturnedIsMarked'
    BY <1>0, <1>1 DEF Dispatch, BatchIsRecorded, BeforeIsReturned, requestVars,
         historyVars, LaterRequestReturnsNews, ReturnedIsMarked
  <2>3. EveryEventIsAccountedFor'
    <3>1. /\ emitted \in Nat /\ emitted + 1 \in Events /\ emitted' = emitted + 1
          /\ recording' = recording \cup {emitted + 1} /\ row[emitted + 1] = "absent"
          /\ UNCHANGED <<row, phase, batch, returned, lost, unrecorded>>
      BY <1>0, <1>1 DEF Dispatch, TypeOK, RecordingIsFresh, Events, requestVars, historyVars
    <3>2. \A e \in 1..emitted' : e \in 1..emitted \/ e = emitted + 1
      BY <3>1
    <3>3. \A e \in 1..emitted : e # emitted + 1
      BY <3>1
    <3>4. QED BY <1>0, <3>1, <3>2, <3>3 DEF EveryEventIsAccountedFor
  <2>4. QED BY <2>1, <2>2, <2>3 DEF IInv
<1>2. ASSUME NEW e \in Events, Record(e) PROVE IInv'
  <2>1. row[e] = "absent" /\ e <= emitted
    BY <1>0, <1>2 DEF Record, RecordingIsFresh
  <2>2. TypeOK' /\ RecordingIsFresh'
    BY <1>0, <1>2, <2>1 DEF Record, TypeOK, RecordingIsFresh, Events, requestVars, historyVars
  <2>3. \A d \in Events : row'[d] = IF d = e THEN "unread" ELSE row[d]
    BY <1>0, <1>2 DEF Record, TypeOK
  <2>4. BatchIsRecorded' /\ BeforeIsReturned' /\ LaterRequestReturnsNews'
    BY <1>0, <1>2, <2>1, <2>3 DEF Record, TypeOK, BatchIsRecorded, BeforeIsReturned,
         requestVars, historyVars, LaterRequestReturnsNews
  <2>5. EveryEventIsAccountedFor' /\ ReturnedIsMarked'
    <3>1. 1..emitted \subseteq Events
      BY <1>0 DEF TypeOK, Events
    <3>2. e \notin unrecorded /\ e \notin returned \cup lost
      BY <1>0, <1>2, <2>1 DEF Record, RecordingIsFresh, ReturnedIsMarked
    <3>3. QED
      BY <1>0, <1>2, <2>1, <2>3, <3>1, <3>2 DEF Record, requestVars, historyVars,
         EveryEventIsAccountedFor, ReturnedIsMarked
  <2>6. QED BY <2>2, <2>4, <2>5 DEF IInv
<1>3. ASSUME NEW e \in Events, RecordFails(e) PROVE IInv'
  <2>1. TypeOK' /\ RecordingIsFresh'
    BY <1>0, <1>3 DEF RecordFails, TypeOK, RecordingIsFresh, requestVars, historyVars
  <2>2. BatchIsRecorded' /\ BeforeIsReturned' /\ LaterRequestReturnsNews'
        /\ EveryEventIsAccountedFor' /\ ReturnedIsMarked'
    BY <1>0, <1>3 DEF RecordFails, BatchIsRecorded, BeforeIsReturned, requestVars,
         historyVars, LaterRequestReturnsNews, EveryEventIsAccountedFor, ReturnedIsMarked
  <2>3. QED BY <2>1, <2>2 DEF IInv
<1>4. ASSUME NEW p \in Requests, Ask(p) PROVE IInv'
  <2>1. TypeOK' /\ RecordingIsFresh'
    BY <1>0, <1>4 DEF Ask, TypeOK, RecordingIsFresh, Phases, historyVars
  <2>2. BatchIsRecorded' /\ BeforeIsReturned' /\ LaterRequestReturnsNews'
    BY <1>0, <1>4 DEF Ask, TypeOK, BatchIsRecorded, BeforeIsReturned, historyVars,
         LaterRequestReturnsNews
  <2>3. EveryEventIsAccountedFor' /\ ReturnedIsMarked'
    BY <1>0, <1>4 DEF Ask, TypeOK, historyVars, EveryEventIsAccountedFor, ReturnedIsMarked
  <2>4. QED BY <2>1, <2>2, <2>3 DEF IInv
<1>5. ASSUME NEW p \in Requests, FindUnread(p) PROVE IInv'
  <2>1. Oldest(Unread) \subseteq Unread /\ Unread \subseteq Events
    BY OldestIsPart DEF Unread
  <2>2. TypeOK' /\ RecordingIsFresh'
    BY <1>0, <1>5, <2>1 DEF FindUnread, TypeOK, RecordingIsFresh, Phases, historyVars
  <2>3. BatchIsRecorded' /\ BeforeIsReturned'
    BY <1>0, <1>5, <2>1 DEF FindUnread, TypeOK, BatchIsRecorded, BeforeIsReturned,
         historyVars, Unread
  <2>4. LaterRequestReturnsNews'
    \* what was returned before is delivered, hence not unread
    BY <1>0, <1>5, <2>1 DEF FindUnread, TypeOK, BeforeIsReturned, ReturnedIsMarked,
         historyVars, LaterRequestReturnsNews, Unread
  <2>5. EveryEventIsAccountedFor' /\ ReturnedIsMarked'
    BY <1>0, <1>5 DEF FindUnread, TypeOK, historyVars, EveryEventIsAccountedFor, ReturnedIsMarked
  <2>6. QED BY <2>2, <2>3, <2>4, <2>5 DEF IInv
<1>6. ASSUME NEW p \in Requests, MarkDelivered(p) PROVE IInv'
  <2>1. \A d \in Events : row'[d] = IF d \in batch[p] THEN "delivered" ELSE row[d]
    BY <1>6 DEF MarkDelivered
  <2>2. TypeOK'
    BY <1>0, <1>6 DEF MarkDelivered, TypeOK, Phases, historyVars
  <2>3. RecordingIsFresh' /\ BatchIsRecorded' /\ BeforeIsReturned'
    BY <1>0, <1>6, <2>1 DEF MarkDelivered, TypeOK, RecordingIsFresh, BatchIsRecorded,
         BeforeIsReturned, historyVars
  <2>4. LaterRequestReturnsNews' /\ ReturnedIsMarked'
    BY <1>0, <1>6, <2>1 DEF MarkDelivered, TypeOK, LaterRequestReturnsNews,
         ReturnedIsMarked, historyVars
  <2>5. EveryEventIsAccountedFor'
    <3>1. 1..emitted \subseteq Events
      BY <1>0 DEF TypeOK, Events
    <3>2. \A d \in batch[p] : d \notin recording \cup unrecorded
      BY <1>0 DEF BatchIsRecorded, RecordingIsFresh
    <3>3. /\ \A q \in Requests : phase[q] = "marked" => phase'[q] = "marked"
          /\ phase'[p] = "marked"
          /\ UNCHANGED <<emitted, recording, batch, returned, lost, unrecorded>>
      BY <1>0, <1>6 DEF MarkDelivered, TypeOK, historyVars
    <3>4. QED
      BY <1>0, <2>1, <3>1, <3>2, <3>3 DEF EveryEventIsAccountedFor
  <2>6. QED BY <2>2, <2>3, <2>4, <2>5 DEF IInv
<1>7. ASSUME NEW p \in Requests, Answer(p) PROVE IInv'
  <2>1. TypeOK' /\ RecordingIsFresh'
    BY <1>0, <1>7 DEF Answer, Finish, TypeOK, RecordingIsFresh, Phases
  <2>2. BatchIsRecorded' /\ BeforeIsReturned' /\ LaterRequestReturnsNews'
    BY <1>0, <1>7 DEF Answer, Finish, TypeOK, BatchIsRecorded, BeforeIsReturned,
         LaterRequestReturnsNews
  <2>3. \A d \in batch[p] : row[d] = "delivered"
    BY <1>0, <1>7 DEF Answer, BatchIsRecorded
  <2>4. EveryEventIsAccountedFor' /\ ReturnedIsMarked'
    BY <1>0, <1>7, <2>3 DEF Answer, Finish, TypeOK, EveryEventIsAccountedFor, ReturnedIsMarked
  <2>5. QED BY <2>1, <2>2, <2>4 DEF IInv
<1>8. ASSUME NEW p \in Requests, AnswerLost(p) PROVE IInv'
  <2>1. TypeOK' /\ RecordingIsFresh'
    BY <1>0, <1>8 DEF AnswerLost, Finish, TypeOK, RecordingIsFresh, Phases
  <2>2. BatchIsRecorded' /\ BeforeIsReturned' /\ LaterRequestReturnsNews'
    BY <1>0, <1>8 DEF AnswerLost, Finish, TypeOK, BatchIsRecorded, BeforeIsReturned,
         LaterRequestReturnsNews
  <2>3. EveryEventIsAccountedFor' /\ ReturnedIsMarked'
    BY <1>0, <1>8 DEF AnswerLost, Finish, TypeOK, BatchIsRecorded,
         EveryEventIsAccountedFor, ReturnedIsMarked
  <2>4. QED BY <2>1, <2>2, <2>3 DEF IInv
<1>9. ASSUME NEW p \in Requests, StatementFails(p) PROVE IInv'
  <2>1. TypeOK' /\ RecordingIsFresh'
    BY <1>0, <1>9 DEF StatementFails, Finish, TypeOK, RecordingIsFresh, Phases, historyVars
  <2>2. BatchIsRecorded' /\ BeforeIsReturned' /\ LaterRequestReturnsNews'
    BY <1>0, <1>9 DEF StatementFails, Finish, TypeOK, BatchIsRecorded, BeforeIsReturned,
         LaterRequestReturnsNews, historyVars
  <2>3. EveryEventIsAccountedFor' /\ ReturnedIsMarked'
    BY <1>0, <1>9 DEF StatementFails, Finish, TypeOK, historyVars,
         EveryEventIsAccountedFor, ReturnedIsMarked
  <2>4. QED BY <2>1, <2>2, <2>3 DEF IInv
<1>10. CASE Crash
  <2>1. TypeOK' /\ RecordingIsFresh'
    BY <1>0, <1>10 DEF Crash, TypeOK, RecordingIsFresh, Phases
  <2>2. BatchIsRecorded' /\ BeforeIsReturned' /\ LaterRequestReturnsNews'
    BY <1>0, <1>10 DEF Crash, BatchIsRecorded, BeforeIsReturned, LaterRequestReturnsNews
  <2>3. EveryEventIsAccountedFor' /\ ReturnedIsMarked'
    BY <1>0, <1>10 DEF Crash, BatchIsRecorded, EveryEventIsAccountedFor, ReturnedIsMarked
  <2>4. QED BY <2>1, <2>2, <2>3 DEF IInv
<1>11. CASE UNCHANGED vars
  BY <1>0, <1>11 DEF vars, requestVars, historyVars, IInv, TypeOK, RecordingIsFresh,
       BatchIsRecorded, BeforeIsReturned, LaterRequestReturnsNews,
       EveryEventIsAccountedFor, ReturnedIsMarked
<1>12. QED
  BY <1>1, <1>2, <1>3, <1>4, <1>5, <1>6, <1>7, <1>8, <1>9, <1>10, <1>11 DEF Next

\* The invariant holds in every reachable state.
THEOREM Invariance == Spec => []IInv
  BY InitInv, StepInv, PTL DEF Spec

\* A request made after an answer arrived returns none of what it carried,
\* whatever other requests, failures and crashes happen around the two
\* statements of listUnreadEvents().
THEOREM LaterRequests == Spec => []LaterRequestReturnsNews
<1>1. IInv => LaterRequestReturnsNews
  BY DEF IInv
<1>2. QED BY Invariance, <1>1, PTL

\* No event disappears: it is recorded, known not to have been recorded, waits
\* to be read, or left the unread list into an answer, arrived or lost.
THEOREM NoSilentLoss == Spec => []EveryEventIsAccountedFor
<1>1. IInv => EveryEventIsAccountedFor
  BY DEF IInv
<1>2. QED BY Invariance, <1>1, PTL

\* Type correctness of the outbox.
THEOREM TypeCorrect == Spec => []TypeOK
<1>1. IInv => TypeOK
  BY DEF IInv
<1>2. QED BY Invariance, <1>1, PTL

\* No step takes an event back: not a late INSERT, not a second markDelivered()
\* of the same rows, not a crash.
THEOREM RowsAdvance == Spec => RowsOnlyAdvance
<1> DEFINE Advance == \A e \in Events : /\ row[e] = "delivered" => row'[e] = "delivered"
                                        /\ row[e] = "unread" => row'[e] # "absent"
<1>1. IInv /\ [Next]_vars => [Advance]_vars
  <2> SUFFICES ASSUME IInv, [Next]_vars PROVE Advance \/ UNCHANGED vars
    OBVIOUS
  <2>1. CASE row' = row
    BY <2>1
  <2>2. ASSUME NEW e \in Events, Record(e) PROVE Advance
    BY <2>2 DEF Record, IInv, TypeOK, RecordingIsFresh
  <2>3. ASSUME NEW p \in Requests, MarkDelivered(p) PROVE Advance
    BY <2>3 DEF MarkDelivered
  <2>4. QED
    BY <2>1, <2>2, <2>3 DEF Next, Dispatch, RecordFails, Ask, FindUnread, Answer,
         AnswerLost, StatementFails, Crash
<1>2. QED
  BY Invariance, <1>1, PTL DEF Spec, RowsOnlyAdvance

----------------------------------------------------------------------------
(* The abstract feed                                                       *)

\* The refinement mapping of the rows.
Delivered == { e \in Events : row[e] = "delivered" }

\* Every step is a step of the feed, or none.
LEMMA StepFeed == IInv /\ [Next]_vars => [Feed!Next]_(Feed!vars)
<1> SUFFICES ASSUME IInv, [Next]_vars PROVE [Feed!Next]_(Feed!vars)
  OBVIOUS
<1>0. TypeOK /\ RecordingIsFresh /\ BatchIsRecorded
  BY DEF IInv
<1>1. CASE row' = row /\ returned' = returned
  BY <1>1 DEF Feed!vars, Unread
<1>2. ASSUME NEW e \in Events, Record(e) PROVE Feed!Next
  <2>1. /\ row[e] = "absent" /\ returned' = returned
        /\ \A d \in Events : row'[d] = IF d = e THEN "unread" ELSE row[d]
    BY <1>0, <1>2 DEF Record, TypeOK, RecordingIsFresh, historyVars
  <2>2. e \notin Unread \cup Delivered /\ Unread' = Unread \cup {e} /\ Delivered' = Delivered
    BY <2>1 DEF Unread, Delivered
  <2>3. Feed!Post(e)
    BY <2>1, <2>2 DEF Feed!Post, Delivered
  <2>4. QED BY <2>3 DEF Feed!Next
<1>3. ASSUME NEW p \in Requests, MarkDelivered(p) PROVE Feed!Next
  <2>0. PICK found \in SUBSET Events : found = batch[p] \cap Unread
    BY DEF Unread
  <2>1. /\ batch[p] \subseteq Unread \cup Delivered /\ returned' = returned
        /\ \A d \in Events : row'[d] = IF d \in batch[p] THEN "delivered" ELSE row[d]
    BY <1>0, <1>3 DEF MarkDelivered, TypeOK, BatchIsRecorded, Unread, Delivered, historyVars
  <2>2. Unread' = Unread \ found /\ Delivered' = Delivered \cup found
    BY <2>0, <2>1 DEF Unread, Delivered
  <2>3. Feed!Take(found)
    BY <2>0, <2>1, <2>2 DEF Feed!Take, Delivered
  <2>4. QED BY <2>3 DEF Feed!Next
<1>4. ASSUME NEW p \in Requests, Answer(p) PROVE Feed!Next
  <2>1. /\ row' = row /\ returned' = returned \cup batch[p]
        /\ batch[p] \in SUBSET Events /\ batch[p] \subseteq Delivered
    BY <1>0, <1>4 DEF Answer, TypeOK, BatchIsRecorded, Delivered
  <2>2. Feed!See(batch[p])
    BY <2>1 DEF Feed!See, Delivered, Unread
  <2>3. QED BY <2>1, <2>2 DEF Feed!Next
<1>5. QED
  BY <1>1, <1>2, <1>3, <1>4 DEF Next, Dispatch, RecordFails, Ask, FindUnread, AnswerLost,
     StatementFails, Crash, vars, historyVars

\* The outbox implements the feed, however requests, inserts, failures and
\* crashes interleave: an event is posted once, taken for good, and seen only
\* after it was taken.
THEOREM OutboxImplementsFeed == Spec => ImplementsFeed
<1>1. Init => Feed!Init
  BY DEF Init, Feed!Init, Unread
<1>2. QED
  BY Invariance, <1>1, StepFeed, PTL DEF Spec, ImplementsFeed, Feed!Spec
=============================================================================
