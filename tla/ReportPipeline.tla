--------------------------- MODULE ReportPipeline ---------------------------
(***************************************************************************)
(* What the two ingest servers promise for the reports devices send, with  *)
(* everything else - connections, devices, statements, acknowledgements -  *)
(* left out.  A report that is received is handled once; while it is being *)
(* handled it may be stored; the handling ends with the report published   *)
(* if, and only if, it is stored by then and nothing went wrong; nothing   *)
(* is stored or published for a report whose handling has ended.           *)
(* TrackerIngest and StarlinkIngest implement it.                          *)
(***************************************************************************)
CONSTANT Receptions  \* the receptions of reports: each happens at most once

VARIABLES
    seen,       \* receptions that have happened
    open,       \* those whose handling has not ended
    stored,     \* those that are in the database
    published   \* those consumers are told about

vars == <<seen, open, stored, published>>

Init ==
    /\ seen = {}
    /\ open = {}
    /\ stored = {}
    /\ published = {}

\* A frame with a report arrives and saveReport() is called.
Receive(j) ==
    /\ j \notin seen
    /\ seen' = seen \cup {j}
    /\ open' = open \cup {j}
    /\ UNCHANGED <<stored, published>>

\* The INSERT takes effect, at most once.
Store(j) ==
    /\ j \in open \ stored
    /\ stored' = stored \cup {j}
    /\ UNCHANGED <<seen, open, published>>

\* The promise is fulfilled: what is stored is published.
Fulfil(j) ==
    /\ j \in open \cap stored
    /\ open' = open \ {j}
    /\ published' = published \cup {j}
    /\ UNCHANGED <<seen, stored>>

\* The promise is rejected, or there was nothing to store.
GiveUp(j) ==
    /\ j \in open
    /\ open' = open \ {j}
    /\ UNCHANGED <<seen, stored, published>>

\* The process dies with everything it was handling.
Abandon ==
    /\ open' = {}
    /\ UNCHANGED <<seen, stored, published>>

Next ==
    \/ \E j \in Receptions : Receive(j) \/ Store(j) \/ Fulfil(j) \/ GiveUp(j)
    \/ Abandon

Spec == Init /\ [][Next]_vars
=============================================================================
