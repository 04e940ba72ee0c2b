--------------------------- MODULE StarlinkIngest ---------------------------
(***************************************************************************)
(* The path of a decoded "SLU" message through the StarLink server: the    *)
(* TCP server (src/starlink/tcp/starlink-tcp-server.service.ts), its       *)
(* connection registry and the persistence service.                        *)
(*                                                                         *)
(* As in TrackerIngest, a handler of a socket event is one action, and the *)
(* statements it sends without waiting take effect in any order on the     *)
(* pooled connections, or fail.  There are no acknowledgements, so nothing *)
(* is sent twice: a report and its call of saveReport() are one.  Here the *)
(* snapshot of a device is kept column by column.                          *)
(***************************************************************************)
EXTENDS Naturals, FiniteSets

CONSTANTS
    Sockets,     \* TCP connections, each used once
    Devices,     \* device ids
    None,        \* no socket, no device, no report
    Speaks,      \* Speaks[s]: the devices whose messages arrive on socket s
    Reports,     \* the event reports (type 6) devices send
    Owner,       \* Owner[r]: the device that sends report r
    Columns,     \* snapshot columns that are only set by some reports
    Carries,     \* Carries[r]: the columns report r has a value for
    Lat, Long,   \* the columns of the last position
    MaxCrashes   \* bound on the crashes of the process

ASSUME ColumnsAssumption == {Lat, Long} \subseteq Columns
ASSUME CarriesAssumption == Carries \in [Reports -> SUBSET Columns]
ASSUME SpeaksAssumption  == Speaks \in [Sockets -> SUBSET Devices]
ASSUME OwnerAssumption   == Owner \in [Reports -> Devices]
ASSUME NoneAssumption    == None \notin Sockets \cup Devices \cup Reports
ASSUME CrashAssumption   == MaxCrashes \in Nat

VARIABLES
    \* the server process
    sock,          \* state of each connection
    deviceId,      \* the variable deviceId in the closure of handleConnection
    registry,      \* StarlinkConnectionRegistryService.sockets
    connecting,    \* connecting[i]: pending statements of markDeviceConnected(i)
    disconnecting, \* and of markDeviceDisconnected(i)
    phase,         \* where the call of saveReport() for each report stands
    \* PostgreSQL
    devices,       \* ids with a starlink_device row
    tcpConnected,  \* that column
    snapshot,      \* snapshot[i][c]: the report column c of device i shows
    rows,          \* starlink_report rows
    \* what the outside sees
    reportEvents,  \* REPORT_RECEIVED events
    announced,     \* the last DEVICE_CONNECTED or DEVICE_DISCONNECTED event
    \* history
    latest,        \* latest[i][c]: the last report of device i that carried c
    mixed,         \* devices with a report that arrived while the upsert of
                   \* another was on its way, or whose upsert failed
    outlived,      \* devices one of whose connections closed while another was
                   \* live, until one registers anew or the last one closes
    raced,         \* devices about whose tcpConnected two statements disagreed
                   \* on the way, or one failed, since it was last set alone
    crashes

connVars == <<sock, deviceId, registry, announced, outlived>>
markVars == <<connecting, disconnecting, raced>>
saveVars == <<phase, rows, reportEvents, mixed>>
dbVars   == <<devices, tcpConnected, snapshot>>
vars     == <<connVars, markVars, saveVars, dbVars, latest, crashes>>

SocketStates == {"fresh", "open", "ending", "closed"}

\* upserting, inserting: that statement is on its way.  upserted, inserted: it
\* took effect and its answer is on its way.  lost: the process crashed.
InFlight == {"upserting", "upserted", "inserting", "inserted"}
Phases   == {"unsent", "saved", "failed", "lost"} \cup InFlight

Live(s) == sock[s] \in {"open", "ending"}

\* A live connection has identified itself as device i.
Connected(i) == \E s \in Sockets : Live(s) /\ deviceId[s] = i

\* The upsert of a report of device i is on its way.
Upserting(i) == \E r \in Reports : Owner[r] = i /\ phase[r] = "upserting"

\* Statements on their way that will set the column tcpConnected of device i.
SayingTrue(i)  == connecting[i] > 0 \/ Upserting(i)
SayingFalse(i) == disconnecting[i] > 0

\* The history raced after a statement about device i is sent: statements that
\* disagree race; one sent while none is on its way settles the matter.
RacedByTrue(i, old) ==
    IF SayingFalse(i) THEN old \cup {i} ELSE IF SayingTrue(i) THEN old ELSE old \ {i}
RacedByFalse(i, old) ==
    IF SayingTrue(i) THEN old \cup {i} ELSE IF SayingFalse(i) THEN old ELSE old \ {i}

\* And after a message of device i on socket s.  Nobody will mark disconnected
\* the device this socket stood for before.
RacedByMessage(s, i, sends) ==
    LET old == raced \cup ({deviceId[s]} \ {None, i})
    IN  IF sends THEN RacedByTrue(i, old) ELSE old

\* The history outlived after connection s, identified as some device, closed.
OutlivedByClose(s) ==
    IF \E t \in Sockets \ {s} : Live(t) /\ deviceId[t] = deviceId[s]
    THEN outlived \cup {deviceId[s]} ELSE outlived \ {deviceId[s]}

----------------------------------------------------------------------------
Init ==
    /\ sock = [s \in Sockets |-> "fresh"]
    /\ deviceId = [s \in Sockets |-> None]
    /\ registry = [i \in Devices |-> None]
    /\ connecting = [i \in Devices |-> 0]
    /\ disconnecting = [i \in Devices |-> 0]
    /\ phase = [r \in Reports |-> "unsent"]
    /\ devices = {}
    /\ tcpConnected = [i \in Devices |-> FALSE]
    /\ snapshot = [i \in Devices |-> [c \in Columns |-> None]]
    /\ rows = {}
    /\ reportEvents = {}
    /\ announced = [i \in Devices |-> "none"]
    /\ latest = [i \in Devices |-> [c \in Columns |-> None]]
    /\ mixed = {}
    /\ outlived = {}
    /\ raced = {}
    /\ crashes = 0

----------------------------------------------------------------------------
(* Socket events                                                           *)

\* handleConnection().  A device may connect again while the server still
\* holds its previous, half-open connection.
Accept(s) ==
    /\ sock[s] = "fresh"
    /\ sock' = [sock EXCEPT ![s] = "open"]
    /\ UNCHANGED <<deviceId, registry, announced, outlived, markVars, saveVars, dbVars, latest,
                   crashes>>

\* register() and unregister() of the registry
Register(i, s) == registry' = [registry EXCEPT ![i] = s]
Unregister(i)  == registry' = [registry EXCEPT ![i] = None]

\* registerDevice(): the closure shared by all lines of a socket.  touch()
\* only moves a timestamp.
RegisterDevice(s, i) ==
    IF deviceId[s] = i
    THEN UNCHANGED <<deviceId, registry, connecting, announced, outlived>>
    ELSE /\ deviceId' = [deviceId EXCEPT ![s] = i]
         /\ Register(i, s)
         /\ connecting' = [connecting EXCEPT ![i] = @ + 1]
         /\ announced' = [announced EXCEPT ![i] = "connected"]
         /\ outlived' = outlived \ {i}

\* The values of report r replace those it has a value for.
Patch(columns, r) == [c \in Columns |-> IF c \in Carries[r] THEN r ELSE columns[c]]

\* handleLine() of an event report: the call of saveReport() is started, not
\* awaited.
HandleReport(s, r) ==
    /\ Live(s)
    /\ Owner[r] \in Speaks[s]
    /\ phase[r] = "unsent"
    /\ RegisterDevice(s, Owner[r])
    /\ phase' = [phase EXCEPT ![r] = "upserting"]
    /\ latest' = [latest EXCEPT ![Owner[r]] = Patch(latest[Owner[r]], r)]
    /\ mixed' = IF Upserting(Owner[r]) THEN mixed \cup {Owner[r]} ELSE mixed
    /\ raced' = RacedByMessage(s, Owner[r], TRUE)
    /\ UNCHANGED <<sock, disconnecting, rows, reportEvents, dbVars, crashes>>

\* handleLine() of a message of another type: it only identifies the device.
HandleOther(s, i) ==
    /\ Live(s)
    /\ i \in Speaks[s]
    /\ RegisterDevice(s, i)
    /\ raced' = RacedByMessage(s, i, deviceId[s] # i)
    /\ UNCHANGED <<sock, disconnecting, saveVars, dbVars, latest, crashes>>

\* 'timeout': socket.end() closes the sending half; lines may still arrive.
Timeout(s) ==
    /\ sock[s] = "open"
    /\ sock' = [sock EXCEPT ![s] = "ending"]
    /\ UNCHANGED <<deviceId, registry, announced, outlived, markVars, saveVars, dbVars, latest,
                   crashes>>

\* Mutant: the device is marked disconnected, but stays in the registry.
CloseKeepsRegistration(s) ==
    /\ Live(s)
    /\ sock' = [sock EXCEPT ![s] = "closed"]
    /\ IF deviceId[s] = None
       THEN UNCHANGED <<registry, markVars, announced, outlived>>
       ELSE /\ UNCHANGED <<registry, connecting>>
            /\ disconnecting' = [disconnecting EXCEPT ![deviceId[s]] = @ + 1]
            /\ raced' = RacedByFalse(deviceId[s], raced)
            /\ announced' = [announced EXCEPT ![deviceId[s]] = "disconnected"]
            /\ outlived' = OutlivedByClose(s)
    /\ UNCHANGED <<deviceId, saveVars, dbVars, latest, crashes>>

\* Mutant: the connected mark is cancelled, even if it was applied long ago.
CloseCancelsMark(s) ==
    /\ Live(s)
    /\ sock' = [sock EXCEPT ![s] = "closed"]
    /\ IF deviceId[s] = None
       THEN UNCHANGED <<registry, markVars, announced, outlived>>
       ELSE /\ Unregister(deviceId[s])
            /\ UNCHANGED <<disconnecting, raced>>
            /\ connecting' = [connecting EXCEPT ![deviceId[s]] = @ - 1]
            /\ announced' = [announced EXCEPT ![deviceId[s]] = "disconnected"]
            /\ outlived' = OutlivedByClose(s)
    /\ UNCHANGED <<deviceId, saveVars, dbVars, latest, crashes>>

\* Mutant: the device is not marked disconnected.
CloseUnmarked(s) ==
    /\ Live(s)
    /\ sock' = [sock EXCEPT ![s] = "closed"]
    /\ IF deviceId[s] = None
       THEN UNCHANGED <<registry, markVars, announced, outlived>>
       ELSE /\ Unregister(deviceId[s])
            /\ UNCHANGED <<connecting, disconnecting>>
            /\ raced' = RacedByFalse(deviceId[s], raced)
            /\ announced' = [announced EXCEPT ![deviceId[s]] = "disconnected"]
            /\ outlived' = OutlivedByClose(s)
    /\ UNCHANGED <<deviceId, saveVars, dbVars, latest, crashes>>

\* 'close'
Close(s) ==
    /\ Live(s)
    /\ sock' = [sock EXCEPT ![s] = "closed"]
    /\ IF deviceId[s] = None
       THEN UNCHANGED <<registry, markVars, announced, outlived>>
       ELSE /\ Unregister(deviceId[s])
            /\ UNCHANGED connecting
            /\ disconnecting' = [disconnecting EXCEPT ![deviceId[s]] = @ + 1]
            /\ raced' = RacedByFalse(deviceId[s], raced)
            /\ announced' = [announced EXCEPT ![deviceId[s]] = "disconnected"]
            /\ outlived' = OutlivedByClose(s)
    /\ UNCHANGED <<deviceId, saveVars, dbVars, latest, crashes>>

----------------------------------------------------------------------------
(* markDeviceConnected() and markDeviceDisconnected()                      *)

\* upsertDevice() is one statement: it creates the row or patches it.
MarkDeviceConnected(i) ==
    /\ connecting[i] > 0
    /\ connecting' = [connecting EXCEPT ![i] = @ - 1]
    /\ devices' = devices \cup {i}
    /\ tcpConnected' = [tcpConnected EXCEPT ![i] = TRUE]
    /\ UNCHANGED <<connVars, disconnecting, raced, saveVars, snapshot, latest, crashes>>

MarkDeviceDisconnected(i) ==
    /\ disconnecting[i] > 0
    /\ disconnecting' = [disconnecting EXCEPT ![i] = @ - 1]
    /\ devices' = devices \cup {i}
    /\ tcpConnected' = [tcpConnected EXCEPT ![i] = FALSE]
    /\ UNCHANGED <<connVars, connecting, raced, saveVars, snapshot, latest, crashes>>

\* The error of either is logged and nothing is retried.
MarkFails(i) ==
    /\ \/ /\ connecting[i] > 0
          /\ connecting' = [connecting EXCEPT ![i] = @ - 1]
          /\ UNCHANGED disconnecting
       \/ /\ disconnecting[i] > 0
          /\ disconnecting' = [disconnecting EXCEPT ![i] = @ - 1]
          /\ UNCHANGED connecting
    /\ raced' = raced \cup {i}
    /\ UNCHANGED <<connVars, saveVars, dbVars, latest, crashes>>

----------------------------------------------------------------------------
(* saveReport() and the promise chain handleReport() hangs on it           *)

\* Mutant: "?? null" for every column, so what the report lacks is nulled.
ApplyUpsertNulling(r) ==
    /\ phase[r] = "upserting"
    /\ phase' = [phase EXCEPT ![r] = "upserted"]
    /\ devices' = devices \cup {Owner[r]}
    /\ tcpConnected' = [tcpConnected EXCEPT ![Owner[r]] = TRUE]
    /\ snapshot' = [snapshot EXCEPT ![Owner[r]] =
                      [c \in Columns |-> IF c \in Carries[r] THEN r ELSE None]]
    /\ UNCHANGED <<connVars, markVars, rows, reportEvents, mixed, latest, crashes>>

\* Mutant: a column that has a value keeps it.
ApplyUpsertFillingIn(r) ==
    /\ phase[r] = "upserting"
    /\ phase' = [phase EXCEPT ![r] = "upserted"]
    /\ devices' = devices \cup {Owner[r]}
    /\ tcpConnected' = [tcpConnected EXCEPT ![Owner[r]] = TRUE]
    /\ snapshot' = [snapshot EXCEPT ![Owner[r]] =
                      [c \in Columns |-> IF @[c] = None /\ c \in Carries[r] THEN r ELSE @[c]]]
    /\ UNCHANGED <<connVars, markVars, rows, reportEvents, mixed, latest, crashes>>

\* Mutant: the statement is sent once for each column, and may fail between.
ApplyUpsertPiecemeal(r) ==
    /\ phase[r] = "upserting"
    /\ \E c \in Carries[r] :
          /\ snapshot' = [snapshot EXCEPT ![Owner[r]][c] = r]
          /\ phase' = IF \A d \in Carries[r] \ {c} : snapshot[Owner[r]][d] = r
                      THEN [phase EXCEPT ![r] = "upserted"] ELSE phase
    /\ devices' = devices \cup {Owner[r]}
    /\ tcpConnected' = [tcpConnected EXCEPT ![Owner[r]] = TRUE]
    /\ UNCHANGED <<connVars, markVars, rows, reportEvents, mixed, latest, crashes>>

\* The upsert of the device takes effect.  Its patch has only the columns the
\* report carried.
ApplyUpsert(r) ==
    /\ phase[r] = "upserting"
    /\ phase' = [phase EXCEPT ![r] = "upserted"]
    /\ devices' = devices \cup {Owner[r]}
    /\ tcpConnected' = [tcpConnected EXCEPT ![Owner[r]] = TRUE]
    /\ snapshot' = [snapshot EXCEPT ![Owner[r]] = Patch(snapshot[Owner[r]], r)]
    /\ UNCHANGED <<connVars, markVars, rows, reportEvents, mixed, latest, crashes>>

\* "await this.upsertDevice(...)" returns and the INSERT is sent.
SendInsert(r) ==
    /\ phase[r] = "upserted"
    /\ phase' = [phase EXCEPT ![r] = "inserting"]
    /\ UNCHANGED <<connVars, markVars, rows, reportEvents, mixed, dbVars, latest, crashes>>

ApplyInsert(r) ==
    /\ phase[r] = "inserting"
    /\ phase' = [phase EXCEPT ![r] = "inserted"]
    /\ rows' = rows \cup {r}
    /\ UNCHANGED <<connVars, markVars, reportEvents, mixed, dbVars, latest, crashes>>

\* Mutant: save() is not awaited.
SaveSucceedsUnawaited(r) ==
    /\ phase[r] = "inserting"
    /\ phase' = [phase EXCEPT ![r] = "saved"]
    /\ reportEvents' = reportEvents \cup {r}
    /\ UNCHANGED <<connVars, markVars, rows, mixed, dbVars, latest, crashes>>

\* save() returned: .then emits REPORT_RECEIVED.
SaveSucceeds(r) ==
    /\ phase[r] = "inserted"
    /\ phase' = [phase EXCEPT ![r] = "saved"]
    /\ reportEvents' = reportEvents \cup {r}
    /\ UNCHANGED <<connVars, markVars, rows, mixed, dbVars, latest, crashes>>

\* A statement fails, or its answer is lost after it took effect: .catch logs
\* the error and the report is gone.
SaveFails(r) ==
    /\ phase[r] \in InFlight
    /\ phase' = [phase EXCEPT ![r] = "failed"]
    /\ IF phase[r] = "upserting"
       THEN raced' = raced \cup {Owner[r]} /\ mixed' = mixed \cup {Owner[r]}
       ELSE UNCHANGED <<raced, mixed>>
    /\ UNCHANGED <<connVars, connecting, disconnecting, rows, reportEvents, dbVars, latest, crashes>>

----------------------------------------------------------------------------
\* The process dies and is started again: memory is gone, the database stays.
Crash ==
    /\ crashes < MaxCrashes
    /\ crashes' = crashes + 1
    /\ sock' = [s \in Sockets |-> IF Live(s) THEN "closed" ELSE sock[s]]
    /\ deviceId' = [s \in Sockets |-> None]
    /\ registry' = [i \in Devices |-> None]
    /\ connecting' = [i \in Devices |-> 0]
    /\ disconnecting' = [i \in Devices |-> 0]
    /\ phase' = [r \in Reports |-> IF phase[r] \in InFlight THEN "lost" ELSE phase[r]]
    /\ raced' = Devices
    /\ mixed' = mixed \cup { i \in Devices : Upserting(i) }
    /\ outlived' = {}
    /\ UNCHANGED <<announced, rows, reportEvents, dbVars, latest>>

SaveStep(r) ==
    ApplyUpsert(r) \/ SendInsert(r) \/ ApplyInsert(r) \/ SaveSucceeds(r) \/ SaveFails(r)

Next ==
    \/ \E s \in Sockets :
         \/ Accept(s) \/ Timeout(s) \/ Close(s)
         \/ \E r \in Reports : HandleReport(s, r)
         \/ \E i \in Devices : HandleOther(s, i)
    \/ \E i \in Devices : MarkDeviceConnected(i) \/ MarkDeviceDisconnected(i) \/ MarkFails(i)
    \/ \E r \in Reports : SaveStep(r)
    \/ Crash

Spec == Init /\ [][Next]_vars

----------------------------------------------------------------------------
(* Properties                                                              *)

\* Every variable has its type.
TypeOK ==
    /\ sock \in [Sockets -> SocketStates]
    /\ deviceId \in [Sockets -> Devices \cup {None}]
    /\ registry \in [Devices -> Sockets \cup {None}]
    /\ connecting \in [Devices -> Nat]
    /\ disconnecting \in [Devices -> Nat]
    /\ phase \in [Reports -> Phases]
    /\ devices \subseteq Devices
    /\ tcpConnected \in [Devices -> BOOLEAN]
    /\ snapshot \in [Devices -> [Columns -> Reports \cup {None}]]
    /\ rows \subseteq Reports
    /\ reportEvents \subseteq Reports
    /\ announced \in [Devices -> {"none", "connected", "disconnected"}]
    /\ latest \in [Devices -> [Columns -> Reports \cup {None}]]
    /\ mixed \subseteq Devices
    /\ outlived \subseteq Devices
    /\ raced \subseteq Devices
    /\ crashes \in 0..MaxCrashes

\* A device is in the registry, what the endpoints show as "online", exactly
\* while it has a live connection that identified itself, and with one of them,
\* also when it reconnects before its old connection closes.  Once one of its
\* connections has closed while another was live it may be missing, until it
\* registers anew or the last of them closes.
OnlineIsExact ==
    \A i \in Devices : /\ registry[i] # None => /\ Live(registry[i])
                                               /\ deviceId[registry[i]] = i
                       /\ Connected(i) /\ i \notin outlived => registry[i] # None

\* The column tcp_connected is right about every device no statement about
\* which is on its way.  Exceptions, each until the device is next heard of or
\* closes: statements about it that disagree were on their way together, one
\* failed, the process crashed, or its socket went over to another device
\* (raced).  And a device one of whose connections closed while another was
\* live may be shown as not connected (outlived).
ConnectedColumnIsExact ==
    \A i \in Devices \ raced : ~ SayingTrue(i) /\ ~ SayingFalse(i) =>
        /\ tcpConnected[i] => Connected(i)
        /\ Connected(i) /\ i \notin outlived => tcpConnected[i]

\* A column of the snapshot that had a value is never emptied: "an upsert for a
\* message without (say) a GNSS fix doesn't null out the last known position".
NothingKnownIsForgotten ==
    [][\A i \in Devices, c \in Columns :
          snapshot[i][c] # None => snapshot'[i][c] # None]_vars

\* A report with one half of a position: a field did not decode, or the format
\* has no tag for it.
Half(r) == Carries[r] \cap {Lat, Long} \notin {{}, {Lat, Long}}

\* The last position the endpoints show is one a device reported: latitude and
\* longitude are of the same report, however upserts of the device passed each
\* other, unless one of them is of a report with only half a position.
PositionIsOneReports ==
    \A i \in Devices :
        \/ snapshot[i][Lat] = snapshot[i][Long]
        \/ \E c \in {Lat, Long} : snapshot[i][c] # None /\ Half(snapshot[i][c])

\* Each column of the snapshot shows the last report that carried it, unless
\* the upserts of two reports were on their way at the same time - the last to
\* run wins, not the last report - or one failed.
SnapshotIsLatest ==
    \A i \in Devices \ mixed : ~ Upserting(i) => snapshot[i] = latest[i]

\* What the server promises for the reports: see ReportPipeline.
Pipeline == INSTANCE ReportPipeline WITH
    Receptions <- Reports,
    open       <- {r \in Reports : phase[r] \in InFlight},
    seen       <- {r \in Reports : phase[r] # "unsent"},
    stored     <- rows,
    published  <- reportEvents
ImplementsPipeline == Pipeline!Spec
=============================================================================
