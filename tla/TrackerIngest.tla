--------------------------- MODULE TrackerIngest ---------------------------
(***************************************************************************)
(* The path of a decoded AVT110 frame through the server: the TCP server   *)
(* (src/tracker/tcp/tracker-tcp-server.service.ts), the in-memory          *)
(* connection registry and the PostgreSQL persistence service.             *)
(*                                                                         *)
(* Handlers of socket events run to completion on Node's single thread and *)
(* are one action each.  What they start and do not await - the statement  *)
(* that marks a device connected or disconnected, and saveReport() - goes  *)
(* on beside them: every SQL statement runs on a pooled connection, so     *)
(* statements of different calls take effect in any order, may fail, and   *)
(* may fail towards the caller after they took effect.                     *)
(***************************************************************************)
EXTENDS Naturals, FiniteSets

CONSTANTS
    Sockets,      \* TCP connections, each used once
    Imeis,        \* devices
    None,         \* no socket, no IMEI
    Speaks,       \* Speaks[s]: the IMEIs whose frames arrive on socket s
    Reports,      \* the reports devices send; a number, the generation time
    Owner,        \* Owner[r]: the device that sends report r
    Undecodable,  \* reports whose data zone does not decode
    Jobs,         \* one per report frame received: bounds the receptions
    MaxCrashes    \* bound on the crashes of the process

ASSUME ReportsAssumption == Reports \subseteq Nat \ {0} /\ Undecodable \subseteq Reports
ASSUME SpeaksAssumption  == Speaks \in [Sockets -> SUBSET Imeis]
ASSUME OwnerAssumption   == Owner \in [Reports -> Imeis]
ASSUME NoneAssumption    == None \notin Sockets /\ None \notin Imeis
ASSUME CrashAssumption   == MaxCrashes \in Nat

VARIABLES
    \* the server process
    sock,          \* state of each connection
    imei,          \* the variable imei in the closure of handleConnection
    registry,      \* TrackerConnectionRegistryService.sockets
    connecting,    \* connecting[i]: pending statements of markDeviceConnected(i)
    disconnecting, \* and of markDeviceDisconnected(i)
    job,           \* the calls of saveReport()
    \* PostgreSQL
    devices,       \* IMEIs with a tracker_device row
    tcpConnected,  \* that column
    lastReport,    \* the snapshot columns: which report they show, 0 if none
    rows,          \* tracker_report rows, named by the call that inserted them
    \* what the outside sees
    reportEvents,  \* REPORT_RECEIVED events, named by the call of saveReport()
    announced,     \* the last DEVICE_CONNECTED or DEVICE_DISCONNECTED event
    answered,      \* calls of saveReport() whose +SACK was written
    acked,         \* reports for which the device has received +SACK
    \* history
    outlived,      \* devices one of whose connections closed while another was
                   \* live, until one registers anew or the last one closes
    raced,         \* devices about whose tcpConnected two statements disagreed
                   \* on the way, or one failed, since it was last set alone
    applied,       \* calls of saveReport() whose upsert took effect
    before,        \* before[j]: those applied when the frame of call j arrived
    crashes

markVars   == <<connecting, disconnecting, raced>>
serverVars == <<sock, imei, registry, markVars, job>>
dbVars     == <<devices, tcpConnected, lastReport, rows>>
outVars    == <<reportEvents, announced, answered, acked>>
orderVars  == <<applied, before>>
vars       == <<serverVars, dbVars, outVars, outlived, orderVars, crashes>>

SocketStates == {"fresh", "open", "ending", "closed"}

(***************************************************************************)
(* Where a call of saveReport() stands.  empty: the frame carried no       *)
(* report.  upserting, inserting: that statement is on its way.  upserted, *)
(* inserted: it took effect, its answer is on its way.  saved, failed: the *)
(* promise settled and +SACK was written.  lost: the process crashed.      *)
(***************************************************************************)
InFlight == {"upserting", "upserted", "inserting", "inserted"}
Settled  == {"saved", "failed"}
Phases   == {"unused", "empty", "lost"} \cup InFlight \cup Settled

Live(s) == sock[s] \in {"open", "ending"}

\* A live connection has identified itself as device i.
Connected(i) == \E s \in Sockets : Live(s) /\ imei[s] = i

\* Statements on their way that will set the column tcpConnected of device i.
SayingTrue(i)  == \/ connecting[i] > 0
                  \/ \E j \in Jobs : job[j].phase = "upserting" /\ Owner[job[j].report] = i
SayingFalse(i) == disconnecting[i] > 0

\* The history raced after a statement about device i is sent: statements that
\* disagree race; one sent while none is on its way settles the matter.
RacedByTrue(i, old) ==
    IF SayingFalse(i) THEN old \cup {i} ELSE IF SayingTrue(i) THEN old ELSE old \ {i}
RacedByFalse(i, old) ==
    IF SayingTrue(i) THEN old \cup {i} ELSE IF SayingFalse(i) THEN old ELSE old \ {i}

\* And after a frame of device i on socket s.  Nobody will mark disconnected
\* the device this socket stood for before.
RacedByFrame(s, i, sends) ==
    LET old == raced \cup ({imei[s]} \ {None, i})
    IN  IF sends THEN RacedByTrue(i, old) ELSE old

\* The history outlived after connection s, identified as some device, closed.
OutlivedByClose(s) ==
    IF \E t \in Sockets \ {s} : Live(t) /\ imei[t] = imei[s]
    THEN outlived \cup {imei[s]} ELSE outlived \ {imei[s]}

----------------------------------------------------------------------------
Init ==
    /\ sock = [s \in Sockets |-> "fresh"]
    /\ imei = [s \in Sockets |-> None]
    /\ registry = [i \in Imeis |-> None]
    /\ connecting = [i \in Imeis |-> 0]
    /\ disconnecting = [i \in Imeis |-> 0]
    /\ job \in [Jobs -> {[phase |-> "unused", sock |-> None, report |-> 0]}]
    /\ devices = {}
    /\ tcpConnected = [i \in Imeis |-> FALSE]
    /\ lastReport = [i \in Imeis |-> 0]
    /\ rows = {}
    /\ reportEvents = {}
    /\ announced = [i \in Imeis |-> "none"]
    /\ answered = {}
    /\ acked = {}
    /\ outlived = {}
    /\ raced = {}
    /\ applied = {}
    /\ before = [j \in Jobs |-> {}]
    /\ crashes = 0

----------------------------------------------------------------------------
(* Socket events                                                           *)

\* handleConnection().  A device may connect again while the server still
\* holds its previous, half-open connection.
Accept(s) ==
    /\ sock[s] = "fresh"
    /\ sock' = [sock EXCEPT ![s] = "open"]
    /\ UNCHANGED <<imei, registry, markVars, job, dbVars, outVars, outlived, orderVars, crashes>>

\* register() and unregister() of the registry
Register(i, s) == registry' = [registry EXCEPT ![i] = s]
Unregister(i)  == registry' = [registry EXCEPT ![i] = None]

\* Mutant: an identified socket is only touched, never registered.
RegisterDeviceTouchOnly(s, i) ==
    IF imei[s] = i
    THEN UNCHANGED <<imei, registry, connecting, announced, outlived>>
    ELSE /\ imei' = [imei EXCEPT ![s] = i]
         /\ UNCHANGED registry
         /\ connecting' = [connecting EXCEPT ![i] = @ + 1]
         /\ announced' = [announced EXCEPT ![i] = "connected"]
         /\ outlived' = outlived \ {i}

\* registerDevice(): the closure shared by all frames of a socket.  touch()
\* only moves a timestamp.
RegisterDevice(s, i) ==
    IF imei[s] = i
    THEN UNCHANGED <<imei, registry, connecting, announced, outlived>>
    ELSE /\ imei' = [imei EXCEPT ![s] = i]
         /\ Register(i, s)
         /\ connecting' = [connecting EXCEPT ![i] = @ + 1]
         /\ announced' = [announced EXCEPT ![i] = "connected"]
         /\ outlived' = outlived \ {i}

\* Mutant: the report row is inserted without waiting for the device row.
HandleReportFrameNoUpsert(s, r, j) ==
    /\ Live(s)
    /\ Owner[r] \in Speaks[s]
    /\ r \notin acked
    /\ job[j].phase = "unused"
    /\ RegisterDevice(s, Owner[r])
    /\ job' = [job EXCEPT ![j] =
                 [phase |-> "inserting", sock |-> s, report |-> r]]
    /\ raced' = RacedByFrame(s, Owner[r], TRUE)
    /\ before' = [before EXCEPT ![j] = applied]
    /\ UNCHANGED <<sock, disconnecting, dbVars, reportEvents, answered, acked, applied, crashes>>

\* handleFrame() of +RPT or -RPT: the call of saveReport() is started, not
\* awaited.  The device sends a report until it is acknowledged.
HandleReportFrame(s, r, j) ==
    /\ Live(s)
    /\ Owner[r] \in Speaks[s]
    /\ r \notin acked
    /\ job[j].phase = "unused"
    /\ RegisterDevice(s, Owner[r])
    /\ job' = [job EXCEPT ![j] =
                 [phase  |-> IF r \in Undecodable THEN "empty" ELSE "upserting",
                  sock   |-> s,
                  report |-> r]]
    /\ raced' = RacedByFrame(s, Owner[r], imei[s] # Owner[r] \/ r \notin Undecodable)
    /\ before' = [before EXCEPT ![j] = applied]
    /\ UNCHANGED <<sock, disconnecting, dbVars, reportEvents, answered, acked, applied, crashes>>

\* handleFrame() of +HBD, of an ASCII frame or of an unknown head: every frame
\* whose header decodes identifies the connection, whatever its kind.
HandleOtherFrame(s, i) ==
    /\ Live(s)
    /\ i \in Speaks[s]
    /\ RegisterDevice(s, i)
    /\ raced' = RacedByFrame(s, i, imei[s] # i)
    /\ UNCHANGED <<sock, disconnecting, job, dbVars, reportEvents, answered, acked, orderVars,
                   crashes>>

\* 'timeout': socket.end() closes the sending half; frames may still arrive.
Timeout(s) ==
    /\ sock[s] = "open"
    /\ sock' = [sock EXCEPT ![s] = "ending"]
    /\ UNCHANGED <<imei, registry, markVars, job, dbVars, outVars, outlived, orderVars, crashes>>

\* Mutant: the device is not unregistered.
CloseKeepsRegistration(s) ==
    /\ Live(s)
    /\ sock' = [sock EXCEPT ![s] = "closed"]
    /\ IF imei[s] = None
       THEN UNCHANGED <<registry, markVars, announced, outlived>>
       ELSE /\ UNCHANGED registry
            /\ disconnecting' = [disconnecting EXCEPT ![imei[s]] = @ + 1]
            /\ UNCHANGED connecting
            /\ raced' = RacedByFalse(imei[s], raced)
            /\ announced' = [announced EXCEPT ![imei[s]] = "disconnected"]
            /\ outlived' = OutlivedByClose(s)
    /\ UNCHANGED <<imei, job, dbVars, reportEvents, answered, acked, orderVars, crashes>>

\* Mutant: no DEVICE_DISCONNECTED event.
CloseSilently(s) ==
    /\ Live(s)
    /\ sock' = [sock EXCEPT ![s] = "closed"]
    /\ IF imei[s] = None
       THEN UNCHANGED <<registry, markVars, announced, outlived>>
       ELSE /\ Unregister(imei[s])
            /\ disconnecting' = [disconnecting EXCEPT ![imei[s]] = @ + 1]
            /\ UNCHANGED connecting
            /\ raced' = RacedByFalse(imei[s], raced)
            /\ UNCHANGED announced
            /\ outlived' = OutlivedByClose(s)
    /\ UNCHANGED <<imei, job, dbVars, reportEvents, answered, acked, orderVars, crashes>>

\* Mutant: the connected mark is cancelled, even if it was applied long ago.
CloseCancelsMark(s) ==
    /\ Live(s)
    /\ sock' = [sock EXCEPT ![s] = "closed"]
    /\ IF imei[s] = None
       THEN UNCHANGED <<registry, markVars, announced, outlived>>
       ELSE /\ Unregister(imei[s])
            /\ connecting' = [connecting EXCEPT ![imei[s]] = @ - 1]
            /\ UNCHANGED <<disconnecting, raced>>
            /\ announced' = [announced EXCEPT ![imei[s]] = "disconnected"]
            /\ outlived' = OutlivedByClose(s)
    /\ UNCHANGED <<imei, job, dbVars, reportEvents, answered, acked, orderVars, crashes>>

\* Mutant: the device is not marked disconnected.
CloseUnmarked(s) ==
    /\ Live(s)
    /\ sock' = [sock EXCEPT ![s] = "closed"]
    /\ IF imei[s] = None
       THEN UNCHANGED <<registry, markVars, announced, outlived>>
       ELSE /\ Unregister(imei[s])
            /\ UNCHANGED <<connecting, disconnecting>>
            /\ raced' = RacedByFalse(imei[s], raced)
            /\ announced' = [announced EXCEPT ![imei[s]] = "disconnected"]
            /\ outlived' = OutlivedByClose(s)
    /\ UNCHANGED <<imei, job, dbVars, reportEvents, answered, acked, orderVars, crashes>>

\* 'close'
Close(s) ==
    /\ Live(s)
    /\ sock' = [sock EXCEPT ![s] = "closed"]
    /\ IF imei[s] = None
       THEN UNCHANGED <<registry, markVars, announced, outlived>>
       ELSE /\ Unregister(imei[s])
            /\ disconnecting' = [disconnecting EXCEPT ![imei[s]] = @ + 1]
            /\ UNCHANGED connecting
            /\ raced' = RacedByFalse(imei[s], raced)
            /\ announced' = [announced EXCEPT ![imei[s]] = "disconnected"]
            /\ outlived' = OutlivedByClose(s)
    /\ UNCHANGED <<imei, job, dbVars, reportEvents, answered, acked, orderVars, crashes>>

----------------------------------------------------------------------------
(* markDeviceConnected() and markDeviceDisconnected()                      *)

\* upsertDevice() is one statement: it creates the row or patches it.
MarkDeviceConnected(i) ==
    /\ connecting[i] > 0
    /\ connecting' = [connecting EXCEPT ![i] = @ - 1]
    /\ devices' = devices \cup {i}
    /\ tcpConnected' = [tcpConnected EXCEPT ![i] = TRUE]
    /\ UNCHANGED <<sock, imei, registry, disconnecting, job, lastReport, rows, outVars,
                   outlived, raced, orderVars, crashes>>

MarkDeviceDisconnected(i) ==
    /\ disconnecting[i] > 0
    /\ disconnecting' = [disconnecting EXCEPT ![i] = @ - 1]
    /\ devices' = devices \cup {i}
    /\ tcpConnected' = [tcpConnected EXCEPT ![i] = FALSE]
    /\ UNCHANGED <<sock, imei, registry, connecting, job, lastReport, rows, outVars,
                   outlived, raced, orderVars, crashes>>

\* The error of either is logged and nothing is retried.
MarkFails(i) ==
    /\ \/ /\ connecting[i] > 0
          /\ connecting' = [connecting EXCEPT ![i] = @ - 1]
          /\ UNCHANGED disconnecting
       \/ /\ disconnecting[i] > 0
          /\ disconnecting' = [disconnecting EXCEPT ![i] = @ - 1]
          /\ UNCHANGED connecting
    /\ raced' = raced \cup {i}
    /\ UNCHANGED <<sock, imei, registry, job, dbVars, outVars, outlived, orderVars, crashes>>

----------------------------------------------------------------------------
(* saveReport() and the promise chain handleReportFrame() hangs on it      *)

Device(j) == Owner[job[j].report]

ApplyUpsert(j) ==
    /\ job[j].phase = "upserting"
    /\ job' = [job EXCEPT ![j].phase = "upserted"]
    /\ devices' = devices \cup {Device(j)}
    /\ tcpConnected' = [tcpConnected EXCEPT ![Device(j)] = TRUE]
    /\ lastReport' = [lastReport EXCEPT ![Device(j)] = job[j].report]
    /\ applied' = applied \cup {j}
    /\ UNCHANGED <<sock, imei, registry, markVars, rows, outVars, outlived, before, crashes>>

\* Mutant: an upsert that succeeded is sent again, and again.
SendUpsertAgain(j) ==
    /\ job[j].phase = "upserted"
    /\ job' = [job EXCEPT ![j].phase = "upserting"]
    /\ UNCHANGED <<sock, imei, registry, markVars, dbVars, outVars, outlived, orderVars, crashes>>

\* Mutant: the report is acknowledged before it is stored.
SendInsertAcknowledging(j) ==
    /\ job[j].phase = "upserted"
    /\ job' = [job EXCEPT ![j].phase = "inserting"]
    /\ acked' = acked \cup {job[j].report}
    /\ UNCHANGED <<sock, imei, registry, markVars, dbVars, reportEvents, announced,
                   answered, outlived, orderVars, crashes>>

\* "await this.upsertDevice(...)" returns and the INSERT is sent.
SendInsert(j) ==
    /\ job[j].phase = "upserted"
    /\ job' = [job EXCEPT ![j].phase = "inserting"]
    /\ UNCHANGED <<sock, imei, registry, markVars, dbVars, outVars, outlived, orderVars, crashes>>

\* Mutant: an INSERT that was given up takes effect all the same.
ApplyInsertLate(j) ==
    /\ job[j].phase \in {"inserting", "failed"}
    /\ job' = [job EXCEPT ![j].phase = IF @ = "failed" THEN "failed" ELSE "inserted"]
    /\ rows' = rows \cup {j}
    /\ UNCHANGED <<sock, imei, registry, markVars, devices, tcpConnected, lastReport,
                   outVars, outlived, orderVars, crashes>>

ApplyInsert(j) ==
    /\ job[j].phase = "inserting"
    /\ job' = [job EXCEPT ![j].phase = "inserted"]
    /\ rows' = rows \cup {j}
    /\ UNCHANGED <<sock, imei, registry, markVars, devices, tcpConnected, lastReport,
                   outVars, outlived, orderVars, crashes>>

\* writeFrame("+SACK:...") on the socket the frame came from: it fails once
\* the sending half is closed, and what is written may be lost on the way.
WriteSack(j) ==
    IF sock[job[j].sock] = "open"
    THEN /\ answered' = answered \cup {j}
         /\ acked' \in {acked, acked \cup {job[j].report}}
    ELSE UNCHANGED <<answered, acked>>

\* save() returned: .then emits REPORT_RECEIVED, .finally acknowledges.
SaveSucceeds(j) ==
    /\ job[j].phase = "inserted"
    /\ job' = [job EXCEPT ![j].phase = "saved"]
    /\ reportEvents' = reportEvents \cup {j}
    /\ WriteSack(j)
    /\ UNCHANGED <<sock, imei, registry, markVars, dbVars, announced, outlived, orderVars,
                   crashes>>

\* saveReport() returned null: nothing is emitted, .finally acknowledges.
SaveReturnsNull(j) ==
    /\ job[j].phase = "empty"
    /\ job' = [job EXCEPT ![j].phase = "saved"]
    /\ WriteSack(j)
    /\ UNCHANGED <<sock, imei, registry, markVars, dbVars, reportEvents, announced,
                   outlived, orderVars, crashes>>

\* Mutant: the event is emitted in .finally.
SaveFailsPublishing(j) ==
    /\ job[j].phase \in InFlight
    /\ job' = [job EXCEPT ![j].phase = "failed"]
    /\ reportEvents' = reportEvents \cup {j}
    /\ WriteSack(j)
    /\ UNCHANGED <<sock, imei, registry, markVars, dbVars, announced, outlived, orderVars,
                   crashes>>

\* Mutant: +SACK is written in .then, not in .finally.
SaveFailsUnanswered(j) ==
    /\ job[j].phase \in InFlight
    /\ job' = [job EXCEPT ![j].phase = "failed"]
    /\ raced' = IF job[j].phase = "upserting" THEN raced \cup {Device(j)} ELSE raced
    /\ UNCHANGED <<sock, imei, registry, connecting, disconnecting, dbVars, outVars,
                   outlived, orderVars, crashes>>

\* A statement fails, or its answer is lost after it took effect: .catch logs
\* the error, .finally acknowledges.
SaveFails(j) ==
    /\ job[j].phase \in InFlight
    /\ job' = [job EXCEPT ![j].phase = "failed"]
    /\ raced' = IF job[j].phase = "upserting" THEN raced \cup {Device(j)} ELSE raced
    /\ WriteSack(j)
    /\ UNCHANGED <<sock, imei, registry, connecting, disconnecting, dbVars, reportEvents,
                   announced, outlived, orderVars, crashes>>

----------------------------------------------------------------------------
\* The process dies and is started again: memory is gone, the database stays.
Crash ==
    /\ crashes < MaxCrashes
    /\ crashes' = crashes + 1
    /\ sock' = [s \in Sockets |-> IF Live(s) THEN "closed" ELSE sock[s]]
    /\ imei' = [s \in Sockets |-> None]
    /\ registry' = [i \in Imeis |-> None]
    /\ connecting' = [i \in Imeis |-> 0]
    /\ disconnecting' = [i \in Imeis |-> 0]
    /\ job' = [j \in Jobs |-> IF job[j].phase \in InFlight \cup {"empty"}
                              THEN [job[j] EXCEPT !.phase = "lost"] ELSE job[j]]
    /\ raced' = Imeis
    /\ outlived' = {}
    /\ UNCHANGED <<dbVars, outVars, orderVars>>

SaveStep(j) ==
    \/ ApplyUpsert(j) \/ SendInsert(j) \/ ApplyInsert(j)
    \/ SaveSucceeds(j) \/ SaveReturnsNull(j) \/ SaveFails(j)

Next ==
    \/ \E s \in Sockets :
         \/ Accept(s) \/ Timeout(s) \/ Close(s)
         \/ \E r \in Reports, j \in Jobs : HandleReportFrame(s, r, j)
         \/ \E i \in Imeis : HandleOtherFrame(s, i)
    \/ \E i \in Imeis : MarkDeviceConnected(i) \/ MarkDeviceDisconnected(i) \/ MarkFails(i)
    \/ \E j \in Jobs : SaveStep(j)
    \/ Crash

Spec == Init /\ [][Next]_vars

----------------------------------------------------------------------------
(* Properties                                                              *)

\* Every variable has its type.
TypeOK ==
    /\ sock \in [Sockets -> SocketStates]
    /\ imei \in [Sockets -> Imeis \cup {None}]
    /\ registry \in [Imeis -> Sockets \cup {None}]
    /\ connecting \in [Imeis -> Nat]
    /\ disconnecting \in [Imeis -> Nat]
    /\ job \in [Jobs -> [phase : Phases, sock : Sockets \cup {None},
                         report : Reports \cup {0}]]
    /\ devices \subseteq Imeis
    /\ tcpConnected \in [Imeis -> BOOLEAN]
    /\ lastReport \in [Imeis -> Reports \cup {0}]
    /\ rows \subseteq Jobs
    /\ reportEvents \subseteq Jobs
    /\ announced \in [Imeis -> {"none", "connected", "disconnected"}]
    /\ answered \subseteq Jobs
    /\ acked \subseteq Reports
    /\ outlived \subseteq Imeis
    /\ raced \subseteq Imeis
    /\ applied \subseteq Jobs
    /\ before \in [Jobs -> SUBSET Jobs]
    /\ crashes \in 0..MaxCrashes

\* getSocket() never hands out a closed connection, nor one that belongs to
\* another device, even while connections of a device overlap.
RegisteredSocketIsLive ==
    \A i \in Imeis : registry[i] # None =>
        Live(registry[i]) /\ imei[registry[i]] = i

\* A device is in the registry, what the monitoring endpoints show as "online",
\* exactly while it has a live connection that identified itself, also when it
\* reconnects before its old connection closes.  Once one of its connections has
\* closed while another was live it may be missing, until it registers anew or
\* the last of them closes.
OnlineIsExact ==
    \A i \in Imeis : /\ registry[i] # None => Connected(i)
                     /\ Connected(i) /\ i \notin outlived => registry[i] # None

\* As long as the process has not crashed, the last connection event a
\* consumer was sent about a device agrees with its connections, with the same
\* exception: then a device with a live connection may have been announced as
\* disconnected.
AnnouncementsAreTrue ==
    crashes = 0 =>
        \A i \in Imeis :
            /\ announced[i] = "connected" => Connected(i)
            /\ Connected(i) /\ i \notin outlived => announced[i] = "connected"

\* The foreign key from tracker_report to tracker_device never rejects an
\* INSERT: when one is sent, its device row is there, whatever else is racing.
InsertFindsItsDevice ==
    \A j \in Jobs : (job[j].phase \in {"inserting", "inserted"} \/ j \in rows)
                       => Device(j) \in devices

\* A report the device has been told to forget is stored, unless some call
\* that tried to store it failed or it did not decode.
AckedIsStoredOrFailed ==
    \A r \in acked \ Undecodable : \E j \in Jobs :
        job[j].report = r /\ (j \in rows \/ job[j].phase = "failed")

\* tcp_connected, which the endpoints show beside "online", is right about
\* every device no statement about which is on its way, although the marks and
\* saveReport() set it without waiting for each other.  Exceptions, each until
\* the device is next heard of or closes: statements about it that disagree were
\* on their way together, one failed, the process crashed, or its socket went
\* over to another device (raced).  And a device one of whose connections closed
\* while another was live may be shown as not connected (outlived).
ConnectedColumnIsExact ==
    \A i \in Imeis \ raced : ~ SayingTrue(i) /\ ~ SayingFalse(i) =>
        /\ tcpConnected[i] => Connected(i)
        /\ Connected(i) /\ i \notin outlived => tcpConnected[i]

\* The snapshot of a device never goes back, although calls of saveReport() run
\* concurrently: it shows the report of a call of that device such that no call
\* for a frame that arrived after the upsert of the first took effect has had
\* its own upsert take effect.  Only upserts that were on their way at the same
\* time may win in either order.
SnapshotNeverGoesBack ==
    \A i \in Imeis : lastReport[i] # 0 =>
        \E j \in applied : /\ job[j].report = lastReport[i] /\ Device(j) = i
                           /\ \A k \in applied : Device(k) = i => j \notin before[k]

\* A consumer is told of a report only once its row is in the database.
PublishedIsStored == reportEvents \subseteq rows

\* Every report received is answered with +SACK when its call of saveReport()
\* is over and not before: whether it was stored, failed or did not decode, and
\* whatever other connections and calls do.  The one exception is a connection
\* that has stopped sending: it timed out, closed or was lost in a crash.
EveryReportIsAnswered ==
    /\ \A j \in answered : job[j].phase \in Settled
    /\ \A j \in Jobs : job[j].phase \in Settled \cup {"lost"} =>
                          j \in answered \/ sock[job[j].sock] # "open"

\* What the server promises for the reports: see ReportPipeline.
Pipeline == INSTANCE ReportPipeline WITH
    Receptions <- Jobs,
    open       <- {j \in Jobs : job[j].phase \in InFlight \cup {"empty"}},
    seen       <- {j \in Jobs : job[j].phase # "unused"},
    stored     <- rows,
    published  <- reportEvents
ImplementsPipeline == Pipeline!Spec

\* What the registry's comment promises: a live connection that identified
\* itself as a device makes the device "online right now".
LiveDeviceIsRegistered ==
    \A s \in Sockets : Live(s) /\ imei[s] # None => registry[imei[s]] # None

============================================================================
