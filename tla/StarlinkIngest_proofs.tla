----------------------- MODULE StarlinkIngest_proofs -----------------------
(***************************************************************************)
(* What the StarLink server guarantees for any number of connections,      *)
(* devices, reports, columns and crashes.  Only the result about the       *)
(* registry needs that a socket carries messages of one device.            *)
(***************************************************************************)
EXTENDS StarlinkIngest, TLAPS

Shown == [Columns -> Reports \cup {None}]

LEMMA PatchType ==
  ASSUME NEW shown \in Shown, NEW r \in Reports
  PROVE  Patch(shown, r) \in Shown
  BY DEF Patch, Shown

\* The type invariant in two parts: what the snapshots show, and the rest.
ShownOK == snapshot \in [Devices -> Shown] /\ latest \in [Devices -> Shown]

RestOK ==
    /\ sock \in [Sockets -> SocketStates]
    /\ deviceId \in [Sockets -> Devices \cup {None}]
    /\ registry \in [Devices -> Sockets \cup {None}]
    /\ connecting \in [Devices -> Nat]
    /\ disconnecting \in [Devices -> Nat]
    /\ phase \in [Reports -> Phases]
    /\ devices \subseteq Devices
    /\ tcpConnected \in [Devices -> BOOLEAN]
    /\ rows \subseteq Reports
    /\ reportEvents \subseteq Reports
    /\ announced \in [Devices -> {"none", "connected", "disconnected"}]
    /\ mixed \subseteq Devices
    /\ outlived \subseteq Devices
    /\ raced \subseteq Devices
    /\ crashes \in 0..MaxCrashes

LEMMA TypeParts == TypeOK <=> ShownOK /\ RestOK
  BY DEF TypeOK, ShownOK, RestOK, Shown

\* registerDevice() keeps the types.
LEMMA RegisterType ==
  ASSUME RestOK, NEW s \in Sockets, NEW i \in Devices, RegisterDevice(s, i)
  PROVE  /\ deviceId' \in [Sockets -> Devices \cup {None}]
         /\ registry' \in [Devices -> Sockets \cup {None}]
         /\ connecting' \in [Devices -> Nat]
         /\ announced' \in [Devices -> {"none", "connected", "disconnected"}]
         /\ outlived' \subseteq Devices
  BY DEF RestOK, RegisterDevice, Register

\* The history of racing statements is one of devices.
LEMMA RacedType ==
  ASSUME RestOK, NEW s \in Sockets, NEW i \in Devices, NEW sends \in BOOLEAN
  PROVE  RacedByMessage(s, i, sends) \subseteq Devices
<1>1. raced \cup ({deviceId[s]} \ {None, i}) \subseteq Devices
  BY DEF RestOK
<1> QED BY <1>1 DEF RacedByMessage, RacedByTrue

LEMMA InitType == Init => TypeOK
  BY CrashAssumption DEF Init, TypeOK, SocketStates, Phases

\* Every handler, statement and crash keeps the types.
LEMMA StepRest == RestOK /\ [Next]_vars => RestOK'
<1> SUFFICES ASSUME RestOK, [Next]_vars PROVE RestOK'
  OBVIOUS
<1> USE DEF connVars, markVars, saveVars, dbVars
<1>1. ASSUME NEW s \in Sockets, Accept(s) PROVE RestOK'
  BY <1>1, SpeaksAssumption DEF Accept, RestOK, SocketStates
<1>2. ASSUME NEW s \in Sockets, Timeout(s) PROVE RestOK'
  BY <1>2 DEF Timeout, RestOK, SocketStates
<1>3. ASSUME NEW s \in Sockets, Close(s) PROVE RestOK'
  <2>1. raced' \subseteq Devices /\ outlived' \subseteq Devices
    BY <1>3 DEF Close, RacedByFalse, OutlivedByClose, RestOK
  <2> QED BY <1>3, <2>1, NoneAssumption DEF Close, Unregister, RestOK, SocketStates
<1>4. ASSUME NEW s \in Sockets, NEW r \in Reports, HandleReport(s, r) PROVE RestOK'
  <2>1. Owner[r] \in Devices
    BY OwnerAssumption
  <2>2. phase' \in [Reports -> Phases]
    BY <1>4 DEF HandleReport, RestOK, Phases, InFlight
  <2>3. raced' \subseteq Devices /\ mixed' \subseteq Devices
    BY <1>4, <2>1, RacedType DEF HandleReport, RestOK
  <2>4. RegisterDevice(s, Owner[r])
    BY <1>4 DEF HandleReport
  <2>5. /\ deviceId' \in [Sockets -> Devices \cup {None}]
        /\ registry' \in [Devices -> Sockets \cup {None}]
        /\ connecting' \in [Devices -> Nat]
        /\ announced' \in [Devices -> {"none", "connected", "disconnected"}]
        /\ outlived' \subseteq Devices
    BY <2>1, <2>4, RegisterType
  <2> QED BY <1>4, <2>2, <2>3, <2>5 DEF HandleReport, RestOK
<1>5. ASSUME NEW s \in Sockets, NEW i \in Devices, HandleOther(s, i) PROVE RestOK'
  <2>1. raced' \subseteq Devices
    BY <1>5, RacedType DEF HandleOther
  <2>2. /\ deviceId' \in [Sockets -> Devices \cup {None}]
        /\ registry' \in [Devices -> Sockets \cup {None}]
        /\ connecting' \in [Devices -> Nat]
        /\ announced' \in [Devices -> {"none", "connected", "disconnected"}]
        /\ outlived' \subseteq Devices
    BY <1>5, RegisterType DEF HandleOther
  <2> QED BY <1>5, <2>1, <2>2 DEF HandleOther, RestOK
<1>6. ASSUME NEW i \in Devices,
             MarkDeviceConnected(i) \/ MarkDeviceDisconnected(i) \/ MarkFails(i)
      PROVE RestOK'
  <2>1. CASE MarkDeviceConnected(i)
    BY <2>1 DEF MarkDeviceConnected, RestOK
  <2>2. CASE MarkDeviceDisconnected(i)
    BY <2>2 DEF MarkDeviceDisconnected, RestOK
  <2>3. CASE MarkFails(i)
    BY <2>3 DEF MarkFails, RestOK
  <2> QED BY <1>6, <2>1, <2>2, <2>3
<1>7. ASSUME NEW r \in Reports, ApplyUpsert(r) PROVE RestOK'
  <2>1. Owner[r] \in Devices
    BY OwnerAssumption
  <2> QED BY <1>7, <2>1 DEF ApplyUpsert, RestOK, Phases, InFlight
<1>8. ASSUME NEW r \in Reports, SendInsert(r) \/ ApplyInsert(r) \/ SaveSucceeds(r)
      PROVE RestOK'
  BY <1>8 DEF SendInsert, ApplyInsert, SaveSucceeds, RestOK, Phases, InFlight
<1>9. ASSUME NEW r \in Reports, SaveFails(r) PROVE RestOK'
  <2>1. Owner[r] \in Devices
    BY OwnerAssumption
  <2>2. CASE phase[r] = "upserting"
    BY <1>9, <2>1, <2>2 DEF SaveFails, RestOK, Phases
  <2>3. CASE phase[r] # "upserting"
    BY <1>9, <2>3 DEF SaveFails, RestOK, Phases
  <2> QED BY <2>2, <2>3
<1>10. CASE Crash
  <2>1. phase' \in [Reports -> Phases]
    BY <1>10 DEF Crash, RestOK, Phases
  <2>2. mixed' \subseteq Devices /\ crashes' \in 0..MaxCrashes
    BY <1>10, CrashAssumption DEF Crash, RestOK
  <2> QED BY <1>10, <2>1, <2>2 DEF Crash, RestOK, SocketStates
<1>11. CASE UNCHANGED vars
  BY <1>11 DEF vars, RestOK
<1> QED
  BY <1>1, <1>2, <1>3, <1>4, <1>5, <1>6, <1>7, <1>8, <1>9, <1>10, <1>11 DEF Next, SaveStep

\* Only two actions touch what the snapshots show.
LEMMA SnapshotSteps ==
  ASSUME [Next]_vars
  PROVE  \/ UNCHANGED <<snapshot, latest>>
         \/ \E s \in Sockets, r \in Reports : HandleReport(s, r)
         \/ \E r \in Reports : ApplyUpsert(r)
<1> USE DEF connVars, markVars, saveVars, dbVars
<1>1. ASSUME NEW s \in Sockets,
             Accept(s) \/ Timeout(s) \/ Close(s) \/ \E i \in Devices : HandleOther(s, i)
      PROVE UNCHANGED <<snapshot, latest>>
  BY <1>1 DEF Accept, Timeout, Close, HandleOther
<1>2. ASSUME NEW i \in Devices,
             MarkDeviceConnected(i) \/ MarkDeviceDisconnected(i) \/ MarkFails(i)
      PROVE UNCHANGED <<snapshot, latest>>
  BY <1>2 DEF MarkDeviceConnected, MarkDeviceDisconnected, MarkFails
<1>3. ASSUME NEW r \in Reports, SendInsert(r) \/ ApplyInsert(r) \/ SaveSucceeds(r) \/ SaveFails(r)
      PROVE UNCHANGED <<snapshot, latest>>
  BY <1>3 DEF SendInsert, ApplyInsert, SaveSucceeds, SaveFails
<1>4. CASE Crash \/ UNCHANGED vars
  BY <1>4 DEF Crash, vars
<1> QED BY <1>1, <1>2, <1>3, <1>4 DEF Next, SaveStep

LEMMA StepShown == ShownOK /\ [Next]_vars => ShownOK'
<1> SUFFICES ASSUME ShownOK, [Next]_vars PROVE ShownOK'
  OBVIOUS
<1>1. ASSUME NEW s \in Sockets, NEW r \in Reports, HandleReport(s, r) PROVE ShownOK'
  BY <1>1, PatchType, OwnerAssumption DEF HandleReport, ShownOK, dbVars
<1>2. ASSUME NEW r \in Reports, ApplyUpsert(r) PROVE ShownOK'
  BY <1>2, PatchType, OwnerAssumption DEF ApplyUpsert, ShownOK
<1>3. CASE UNCHANGED <<snapshot, latest>>
  BY <1>3 DEF ShownOK
<1> QED BY <1>1, <1>2, <1>3, SnapshotSteps

LEMMA StepType == TypeOK /\ [Next]_vars => TypeOK'
<1>1. TypeOK' <=> ShownOK' /\ RestOK'
  BY TypeParts, PTL
<1> QED BY <1>1, TypeParts, StepRest, StepShown

\* Type correctness of the server, the database and what the outside sees.
THEOREM TypeCorrect == Spec => []TypeOK
  BY InitType, StepType, PTL DEF Spec

----------------------------------------------------------------------------
(* The snapshot                                                            *)

\* A column shows a report that carried it.
ShownWasCarried ==
    \A i \in Devices, c \in Columns :
        snapshot[i][c] # None => c \in Carries[snapshot[i][c]]

\* On its way is at most one upsert of a device whose reports did not mix, and
\* the snapshot is the latest but for that one.
LatestButOne ==
    \A i \in Devices \ mixed :
        /\ ~ Upserting(i) => snapshot[i] = latest[i]
        /\ \A r \in Reports : Owner[r] = i /\ phase[r] = "upserting" =>
              /\ latest[i] = Patch(snapshot[i], r)
              /\ \A q \in Reports : Owner[q] = i /\ phase[q] = "upserting" => q = r

SnapInv == TypeOK /\ ShownWasCarried /\ PositionIsOneReports /\ LatestButOne

LEMMA InitSnap == Init => SnapInv
  BY InitType, ColumnsAssumption
  DEF Init, SnapInv, ShownWasCarried, PositionIsOneReports, LatestButOne, Upserting

\* A patch of a position whose halves are of one report leaves one.
LEMMA PatchPosition ==
  ASSUME NEW shown \in Shown, NEW r \in Reports,
         \/ shown[Lat] = shown[Long]
         \/ \E c \in {Lat, Long} : shown[c] # None /\ Half(shown[c])
  PROVE  LET new == Patch(shown, r)
         IN  \/ new[Lat] = new[Long]
             \/ \E c \in {Lat, Long} : new[c] # None /\ Half(new[c])
<1>1. /\ Patch(shown, r)[Lat] = IF Lat \in Carries[r] THEN r ELSE shown[Lat]
      /\ Patch(shown, r)[Long] = IF Long \in Carries[r] THEN r ELSE shown[Long]
      /\ r # None
  BY ColumnsAssumption, NoneAssumption DEF Patch
<1>2. CASE Half(r)
  BY <1>1, <1>2 DEF Half
<1>3. CASE ~ Half(r)
  <2>1. Lat \in Carries[r] <=> Long \in Carries[r]
    BY <1>3 DEF Half
  <2> QED BY <1>1, <2>1
<1> QED BY <1>2, <1>3

\* Each step keeps the snapshot's invariant.
LEMMA StepSnap == SnapInv /\ [Next]_vars => SnapInv'
<1> SUFFICES ASSUME SnapInv, [Next]_vars PROVE SnapInv'
  OBVIOUS
<1> USE DEF connVars, markVars, saveVars, dbVars
<1>0. TypeOK /\ TypeOK' /\ ShownOK /\ RestOK /\ ShownWasCarried /\ PositionIsOneReports /\ LatestButOne
  BY StepType, TypeParts DEF SnapInv
<1>1. ASSUME UNCHANGED <<snapshot, latest, phase, mixed>> PROVE SnapInv'
  BY <1>0, <1>1 DEF SnapInv, ShownWasCarried, PositionIsOneReports, LatestButOne, Upserting
<1>2. ASSUME NEW s \in Sockets, NEW r \in Reports, HandleReport(s, r) PROVE SnapInv'
  <2> DEFINE i == Owner[r]
  <2>1. /\ i \in Devices /\ snapshot' = snapshot
        /\ \A k \in Devices : latest'[k] = IF k = i THEN Patch(latest[i], r) ELSE latest[k]
        /\ phase[r] = "unsent"
        /\ \A q \in Reports : phase'[q] = IF q = r THEN "upserting" ELSE phase[q]
    BY <1>0, <1>2, OwnerAssumption DEF HandleReport, ShownOK, RestOK
  <2>2. /\ mixed \subseteq mixed'
        /\ i \notin mixed' => ~ Upserting(i)
    BY <1>2 DEF HandleReport
  <2>3. ShownWasCarried' /\ PositionIsOneReports'
    BY <1>0, <2>1 DEF ShownWasCarried, PositionIsOneReports
  <2>4. ASSUME NEW k \in Devices, k \notin mixed'
        PROVE  /\ ~ Upserting(k)' => snapshot[k] = latest'[k]
               /\ \A p \in Reports : Owner[p] = k /\ phase'[p] = "upserting" =>
                    /\ latest'[k] = Patch(snapshot[k], p)
                    /\ \A q \in Reports : Owner[q] = k /\ phase'[q] = "upserting" => q = p
    <3>1. CASE k = i
      <4>1. ~ Upserting(i) /\ snapshot[i] = latest[i]
        BY <1>0, <2>1, <2>2, <2>4, <3>1 DEF LatestButOne
      <4>2. \A p \in Reports : Owner[p] = k /\ phase'[p] = "upserting" => p = r
        BY <2>1, <3>1, <4>1 DEF Upserting
      <4>3. latest'[k] = Patch(snapshot[k], r) /\ Upserting(k)'
        BY <2>1, <3>1, <4>1 DEF Upserting
      <4> QED BY <4>2, <4>3
    <3>2. CASE k # i
      <4>1. Upserting(k)' <=> Upserting(k)
        BY <2>1, <3>2 DEF Upserting
      <4> QED BY <1>0, <2>1, <2>2, <2>4, <3>2, <4>1 DEF LatestButOne
    <3> QED BY <3>1, <3>2
  <2> QED BY <1>0, <2>1, <2>3, <2>4 DEF SnapInv, LatestButOne
<1>3. ASSUME NEW r \in Reports, ApplyUpsert(r) PROVE SnapInv'
  <2> DEFINE i == Owner[r]
  <2>1. /\ i \in Devices /\ UNCHANGED <<latest, mixed>> /\ phase[r] = "upserting"
        /\ snapshot' = [snapshot EXCEPT ![i] = Patch(snapshot[i], r)]
        /\ \A q \in Reports : phase'[q] = IF q = r THEN "upserted" ELSE phase[q]
    BY <1>0, <1>3, OwnerAssumption DEF ApplyUpsert, RestOK
  <2>2. \A k \in Devices : snapshot'[k] = IF k = i THEN Patch(snapshot[i], r) ELSE snapshot[k]
    BY <1>0, <2>1 DEF ShownOK
  <2>3. \A c \in Columns : Patch(snapshot[i], r)[c] = IF c \in Carries[r] THEN r ELSE snapshot[i][c]
    BY DEF Patch
  <2>4. ShownWasCarried'
    BY <1>0, <2>2, <2>3 DEF ShownWasCarried
  <2>5. PositionIsOneReports'
    <3>1. snapshot[i] \in Shown
      BY <1>0, <2>1 DEF ShownOK
    <3>2. \/ Patch(snapshot[i], r)[Lat] = Patch(snapshot[i], r)[Long]
          \/ \E c \in {Lat, Long} : /\ Patch(snapshot[i], r)[c] # None
                                     /\ Half(Patch(snapshot[i], r)[c])
      BY <1>0, <2>1, <3>1, PatchPosition DEF PositionIsOneReports
    <3> QED BY <1>0, <2>1, <2>2, <3>2 DEF PositionIsOneReports
  <2>6. LatestButOne'
    <3>1. ASSUME NEW k \in Devices, k \notin mixed, k = i
          PROVE  /\ \A q \in Reports : ~ (Owner[q] = k /\ phase'[q] = "upserting")
                 /\ snapshot'[k] = latest[k]
      BY <1>0, <2>1, <2>2, <3>1 DEF LatestButOne
    <3>2. ASSUME NEW k \in Devices, k # i PROVE Upserting(k)' <=> Upserting(k)
      BY <2>1, <3>2 DEF Upserting
    <3> QED BY <1>0, <2>1, <2>2, <3>1, <3>2 DEF LatestButOne, Upserting
  <2> QED BY <1>0, <2>4, <2>5, <2>6 DEF SnapInv
<1>4. ASSUME UNCHANGED <<snapshot, latest>>, mixed \subseteq mixed',
             \A r \in Reports : phase'[r] = "upserting" => phase[r] = "upserting",
             \A r \in Reports : phase[r] = "upserting" /\ phase'[r] # "upserting"
                                    => Owner[r] \in mixed'
      PROVE SnapInv'
  <2>1. \A k \in Devices \ mixed' : Upserting(k)' <=> Upserting(k)
    BY <1>4 DEF Upserting
  <2> QED BY <1>0, <1>4, <2>1 DEF SnapInv, ShownWasCarried, PositionIsOneReports, LatestButOne
<1>5. ASSUME NEW s \in Sockets,
             Accept(s) \/ Timeout(s) \/ Close(s) \/ \E i \in Devices : HandleOther(s, i)
      PROVE SnapInv'
  BY <1>1, <1>5 DEF Accept, Timeout, Close, HandleOther
<1>6. ASSUME NEW i \in Devices,
             MarkDeviceConnected(i) \/ MarkDeviceDisconnected(i) \/ MarkFails(i)
      PROVE SnapInv'
  BY <1>1, <1>6 DEF MarkDeviceConnected, MarkDeviceDisconnected, MarkFails
<1>7. ASSUME NEW r \in Reports, SendInsert(r) \/ ApplyInsert(r) \/ SaveSucceeds(r) PROVE SnapInv'
  <2>1. /\ UNCHANGED <<snapshot, latest, mixed>> /\ phase[r] # "upserting" /\ phase'[r] # "upserting"
        /\ \A q \in Reports : q # r => phase'[q] = phase[q]
    BY <1>0, <1>7 DEF SendInsert, ApplyInsert, SaveSucceeds, RestOK
  <2> QED BY <1>4, <2>1
<1>8. ASSUME NEW r \in Reports, SaveFails(r) PROVE SnapInv'
  <2>1. /\ UNCHANGED <<snapshot, latest>> /\ mixed \subseteq mixed' /\ phase'[r] # "upserting"
        /\ phase[r] = "upserting" => Owner[r] \in mixed'
        /\ \A q \in Reports : q # r => phase'[q] = phase[q]
    BY <1>0, <1>8 DEF SaveFails, RestOK
  <2> QED BY <1>4, <2>1
<1>9. CASE Crash
  <2>1. /\ UNCHANGED <<snapshot, latest>> /\ mixed' = mixed \cup { i \in Devices : Upserting(i) }
        /\ \A q \in Reports : phase'[q] # "upserting"
    BY <1>0, <1>9 DEF Crash, RestOK, InFlight
  <2>2. \A q \in Reports : phase[q] = "upserting" => Owner[q] \in mixed'
    BY <2>1, OwnerAssumption DEF Upserting
  <2> QED BY <1>4, <2>1, <2>2
<1>10. CASE UNCHANGED vars
  BY <1>1, <1>10 DEF vars
<1> QED BY <1>2, <1>3, <1>5, <1>6, <1>7, <1>8, <1>9, <1>10 DEF Next, SaveStep

\* The snapshot's invariant holds in every reachable state.
THEOREM SnapshotInvariance == Spec => []SnapInv
  BY InitSnap, StepSnap, PTL DEF Spec

\* The last position is of one report, or one of its halves is of a report that
\* carried only that half.
THEOREM PositionWhole == Spec => []PositionIsOneReports
<1>1. SnapInv => PositionIsOneReports
  BY DEF SnapInv
<1> QED BY <1>1, SnapshotInvariance, PTL

\* Where no two upserts of a device were on their way at once and none failed,
\* its snapshot is what its reports last said, column by column.
THEOREM SnapshotLatest == Spec => []SnapshotIsLatest
<1>1. SnapInv => SnapshotIsLatest
  BY DEF SnapInv, LatestButOne, SnapshotIsLatest
<1> QED BY <1>1, SnapshotInvariance, PTL

\* No step empties a column of a snapshot.
THEOREM NothingForgotten == Spec => NothingKnownIsForgotten
<1>1. ASSUME TypeOK, [Next]_vars
      PROVE  [\A i \in Devices, c \in Columns :
                snapshot[i][c] # None => snapshot'[i][c] # None]_vars
  <2>0. ShownOK
    BY <1>1, TypeParts
  <2>1. ASSUME NEW r \in Reports, ApplyUpsert(r), NEW i \in Devices, NEW c \in Columns,
               snapshot[i][c] # None
        PROVE  snapshot'[i][c] # None
    <3>1. r # None
      BY NoneAssumption
    <3>2. snapshot'[i] = IF i = Owner[r] THEN Patch(snapshot[i], r) ELSE snapshot[i]
      BY <2>0, <2>1, OwnerAssumption DEF ApplyUpsert, ShownOK
    <3> QED BY <2>1, <3>1, <3>2 DEF Patch
  <2>2. ASSUME NEW s \in Sockets, NEW r \in Reports, HandleReport(s, r)
        PROVE  snapshot' = snapshot
    BY <2>2 DEF HandleReport, dbVars
  <2> QED BY <1>1, <2>1, <2>2, SnapshotSteps
<1> QED BY <1>1, TypeCorrect, PTL DEF Spec, NothingKnownIsForgotten

----------------------------------------------------------------------------
(* The abstract pipeline                                                   *)

InsertedHasRow == \A r \in Reports : phase[r] = "inserted" => r \in rows

StoreInv == RestOK /\ InsertedHasRow

\* A call of saveReport() that moves to another phase moves no other.
LEMMA SetPhase ==
  ASSUME RestOK, NEW r \in Reports, NEW ph, phase' = [phase EXCEPT ![r] = ph]
  PROVE  phase'[r] = ph /\ \A q \in Reports : q # r => phase'[q] = phase[q]
  BY DEF RestOK

LEMMA InitStore == Init => StoreInv
<1>1. Init => RestOK
  BY InitType, TypeParts
<1> QED BY <1>1 DEF Init, StoreInv, InsertedHasRow

LEMMA StepStore == StoreInv /\ [Next]_vars => StoreInv'
<1> SUFFICES ASSUME StoreInv, [Next]_vars PROVE InsertedHasRow'
  BY StepRest DEF StoreInv
<1> USE DEF connVars, markVars, saveVars, dbVars
<1>0. RestOK /\ InsertedHasRow
  BY DEF StoreInv
<1>1. ASSUME UNCHANGED <<phase, rows>> PROVE InsertedHasRow'
  BY <1>0, <1>1 DEF InsertedHasRow
<1>2. ASSUME NEW s \in Sockets,
             Accept(s) \/ Timeout(s) \/ Close(s) \/ \E i \in Devices : HandleOther(s, i)
      PROVE InsertedHasRow'
  BY <1>1, <1>2 DEF Accept, Timeout, Close, HandleOther
<1>3. ASSUME NEW i \in Devices,
             MarkDeviceConnected(i) \/ MarkDeviceDisconnected(i) \/ MarkFails(i)
      PROVE InsertedHasRow'
  BY <1>1, <1>3 DEF MarkDeviceConnected, MarkDeviceDisconnected, MarkFails
<1>4. ASSUME NEW s \in Sockets, NEW r \in Reports, HandleReport(s, r) PROVE InsertedHasRow'
  <2>1. rows' = rows /\ phase' = [phase EXCEPT ![r] = "upserting"]
    BY <1>4 DEF HandleReport
  <2> QED BY <1>0, <2>1, SetPhase DEF InsertedHasRow
<1>5. ASSUME NEW r \in Reports,
             ApplyUpsert(r) \/ SendInsert(r) \/ SaveSucceeds(r) \/ SaveFails(r)
      PROVE InsertedHasRow'
  <2>1. PICK ph : ph # "inserted" /\ phase' = [phase EXCEPT ![r] = ph]
    BY <1>5 DEF ApplyUpsert, SendInsert, SaveSucceeds, SaveFails
  <2>2. rows' = rows
    BY <1>5 DEF ApplyUpsert, SendInsert, SaveSucceeds, SaveFails
  <2> QED BY <1>0, <2>1, <2>2, SetPhase DEF InsertedHasRow
<1>6. ASSUME NEW r \in Reports, ApplyInsert(r) PROVE InsertedHasRow'
  BY <1>0, <1>6, SetPhase DEF ApplyInsert, InsertedHasRow
<1>7. CASE Crash
  BY <1>0, <1>7 DEF Crash, RestOK, InsertedHasRow, InFlight
<1>8. CASE UNCHANGED vars
  BY <1>1, <1>8 DEF vars
<1> QED BY <1>2, <1>3, <1>4, <1>5, <1>6, <1>7, <1>8 DEF Next, SaveStep

\* The refinement mapping of the reports.
Opened == {r \in Reports : phase[r] \in InFlight}
Seen   == {r \in Reports : phase[r] # "unsent"}

\* A call of saveReport() that moves on is as a report seen before, and open
\* as long as it is in flight.
LEMMA MapPhase ==
  ASSUME RestOK, NEW r \in Reports, NEW ph, phase[r] # "unsent", ph # "unsent",
         phase' = [phase EXCEPT ![r] = ph]
  PROVE  /\ Seen' = Seen
         /\ Opened' = IF ph \in InFlight THEN Opened \cup {r} ELSE Opened \ {r}
  BY SetPhase DEF Seen, Opened

\* Every step is a step of the pipeline, or none.
LEMMA StepPipeline == StoreInv /\ [Next]_vars => [Pipeline!Next]_(Pipeline!vars)
<1> SUFFICES ASSUME StoreInv, [Next]_vars PROVE [Pipeline!Next]_(Pipeline!vars)
  OBVIOUS
<1> USE DEF connVars, markVars, saveVars, dbVars
<1>0. RestOK /\ InsertedHasRow
  BY DEF StoreInv
<1>1. ASSUME UNCHANGED <<phase, rows, reportEvents>> PROVE UNCHANGED Pipeline!vars
  BY <1>1 DEF Pipeline!vars
<1>2. ASSUME NEW s \in Sockets,
             Accept(s) \/ Timeout(s) \/ Close(s) \/ \E i \in Devices : HandleOther(s, i)
      PROVE UNCHANGED Pipeline!vars
  BY <1>1, <1>2 DEF Accept, Timeout, Close, HandleOther
<1>3. ASSUME NEW i \in Devices,
             MarkDeviceConnected(i) \/ MarkDeviceDisconnected(i) \/ MarkFails(i)
      PROVE UNCHANGED Pipeline!vars
  BY <1>1, <1>3 DEF MarkDeviceConnected, MarkDeviceDisconnected, MarkFails
<1>4. ASSUME NEW s \in Sockets, NEW r \in Reports, HandleReport(s, r) PROVE Pipeline!Receive(r)
  <2>1. /\ phase[r] = "unsent" /\ phase' = [phase EXCEPT ![r] = "upserting"]
        /\ UNCHANGED <<rows, reportEvents>>
    BY <1>4 DEF HandleReport
  <2>2. phase'[r] = "upserting" /\ \A q \in Reports : q # r => phase'[q] = phase[q]
    BY <1>0, <2>1, SetPhase
  <2>3. r \notin Seen /\ Seen' = Seen \cup {r} /\ Opened' = Opened \cup {r}
    BY <2>1, <2>2 DEF Seen, Opened, InFlight
  <2> QED BY <2>1, <2>3 DEF Pipeline!Receive, Seen, Opened
<1>5. ASSUME NEW r \in Reports, ApplyUpsert(r) \/ SendInsert(r) PROVE UNCHANGED Pipeline!vars
  <2>1. PICK ph \in {"upserted", "inserting"} :
          phase[r] \in {"upserting", "upserted"} /\ phase' = [phase EXCEPT ![r] = ph]
    BY <1>5 DEF ApplyUpsert, SendInsert
  <2>2. ph \in InFlight /\ r \in Opened
    BY <2>1 DEF InFlight, Opened
  <2>3. Seen' = Seen /\ Opened' = Opened \cup {r}
    BY <1>0, <2>1, <2>2, MapPhase
  <2>4. Seen' = Seen /\ Opened' = Opened /\ UNCHANGED <<rows, reportEvents>>
    BY <1>5, <2>2, <2>3 DEF ApplyUpsert, SendInsert
  <2> QED BY <2>4 DEF Pipeline!vars, Seen, Opened
<1>6. ASSUME NEW r \in Reports, ApplyInsert(r) PROVE [Pipeline!Next]_(Pipeline!vars)
  <2>1. /\ phase[r] = "inserting" /\ phase' = [phase EXCEPT ![r] = "inserted"]
        /\ "inserted" \in InFlight /\ r \in Opened
        /\ rows' = rows \cup {r} /\ reportEvents' = reportEvents
    BY <1>6 DEF ApplyInsert, InFlight, Opened
  <2>2. Seen' = Seen /\ Opened' = Opened \cup {r}
    BY <1>0, <2>1, MapPhase
  <2>3. Seen' = Seen /\ Opened' = Opened
    BY <2>1, <2>2
  <2>4. CASE r \in rows
    BY <2>1, <2>3, <2>4 DEF Pipeline!vars, Seen, Opened
  <2>5. CASE r \notin rows
    <3>1. Pipeline!Store(r)
      BY <2>1, <2>3, <2>5 DEF Pipeline!Store, Seen, Opened
    <3> QED BY <3>1 DEF Pipeline!Next
  <2> QED BY <2>4, <2>5
<1>7. ASSUME NEW r \in Reports, SaveSucceeds(r) PROVE Pipeline!Fulfil(r)
  <2>1. /\ phase[r] = "inserted" /\ phase' = [phase EXCEPT ![r] = "saved"]
        /\ "saved" \notin InFlight /\ r \in Opened /\ r \in rows
        /\ rows' = rows /\ reportEvents' = reportEvents \cup {r}
    BY <1>0, <1>7 DEF SaveSucceeds, InFlight, Opened, InsertedHasRow
  <2>2. Seen' = Seen /\ Opened' = Opened \ {r}
    BY <1>0, <2>1, MapPhase
  <2> QED BY <2>1, <2>2 DEF Pipeline!Fulfil, Seen, Opened
<1>8. ASSUME NEW r \in Reports, SaveFails(r) PROVE Pipeline!GiveUp(r)
  <2>1. /\ phase[r] \in InFlight /\ phase' = [phase EXCEPT ![r] = "failed"]
        /\ "failed" \notin InFlight /\ phase[r] # "unsent" /\ r \in Opened
        /\ UNCHANGED <<rows, reportEvents>>
    BY <1>8 DEF SaveFails, InFlight, Opened
  <2>2. Seen' = Seen /\ Opened' = Opened \ {r}
    BY <1>0, <2>1, MapPhase
  <2> QED BY <2>1, <2>2 DEF Pipeline!GiveUp, Seen, Opened
<1>9. CASE Crash
  <2>1. /\ UNCHANGED <<rows, reportEvents>>
        /\ \A q \in Reports : phase'[q] = IF phase[q] \in InFlight THEN "lost" ELSE phase[q]
    BY <1>0, <1>9 DEF Crash, RestOK
  <2>2. Opened' = {} /\ Seen' = Seen
    BY <2>1 DEF Opened, Seen, InFlight
  <2>3. Pipeline!Abandon
    BY <2>1, <2>2 DEF Pipeline!Abandon, Seen, Opened
  <2> QED BY <2>3 DEF Pipeline!Next
<1>10. CASE UNCHANGED vars
  BY <1>1, <1>10 DEF vars
<1> QED
  BY <1>2, <1>3, <1>4, <1>5, <1>6, <1>7, <1>8, <1>9, <1>10 DEF Next, SaveStep, Pipeline!Next

\* The StarLink server implements the same pipeline as the tracker's: what it
\* publishes is stored, and what it gave up is not.
THEOREM StarlinkImplementsPipeline == Spec => ImplementsPipeline
<1>1. Init => Pipeline!Init
  BY DEF Init, Pipeline!Init, InFlight
<1> QED
  BY InitStore, StepStore, <1>1, StepPipeline, PTL DEF Spec, ImplementsPipeline, Pipeline!Spec

----------------------------------------------------------------------------
(* The connections                                                         *)

\* A socket is identified by a message it carried, so after it was accepted.
IdentifiedBySpeaking ==
    \A s \in Sockets : deviceId[s] # None => deviceId[s] \in Speaks[s] /\ sock[s] # "fresh"

ConnInv == RestOK /\ IdentifiedBySpeaking

\* What the socket events do to the connections.
AcceptSockets(s) ==
    /\ sock[s] = "fresh" /\ deviceId[s] = None
    /\ UNCHANGED <<deviceId, outlived>>
    /\ \A t \in Sockets : /\ Live(t)' <=> t = s \/ Live(t)
                          /\ sock'[t] = "fresh" => sock[t] = "fresh"
TimeoutSockets ==
    /\ UNCHANGED <<deviceId, outlived>>
    /\ \A t \in Sockets : /\ Live(t)' <=> Live(t)
                          /\ sock'[t] = "fresh" => sock[t] = "fresh"
CloseSockets(s) ==
    /\ Live(s) /\ deviceId' = deviceId
    /\ outlived' = IF deviceId[s] = None THEN outlived ELSE OutlivedByClose(s)
    /\ \A t \in Sockets : /\ Live(t)' <=> t # s /\ Live(t)
                          /\ sock'[t] = "fresh" => sock[t] = "fresh"
MessageSockets(s, i) ==
    /\ Live(s) /\ i \in Speaks[s] /\ i \in Devices /\ RegisterDevice(s, i)
    /\ sock' = sock
    /\ outlived' = IF deviceId[s] = i THEN outlived ELSE outlived \ {i}
    /\ \A t \in Sockets : /\ Live(t)' <=> Live(t)
                          /\ deviceId'[t] = IF t = s THEN i ELSE deviceId[t]
    /\ \A k \in Devices : registry'[k] = IF k = i /\ deviceId[s] # i THEN s ELSE registry[k]
CrashSockets == \A t \in Sockets : ~ Live(t)' /\ deviceId'[t] = None

LEMMA AcceptDoes ==
  ASSUME ConnInv, NEW s \in Sockets, Accept(s)
  PROVE  AcceptSockets(s)
  BY DEF ConnInv, RestOK, IdentifiedBySpeaking, Accept, AcceptSockets, Live

LEMMA TimeoutDoes ==
  ASSUME ConnInv, NEW s \in Sockets, Timeout(s)
  PROVE  TimeoutSockets
  BY DEF ConnInv, RestOK, Timeout, TimeoutSockets, Live

LEMMA CloseDoes ==
  ASSUME ConnInv, NEW s \in Sockets, Close(s)
  PROVE  CloseSockets(s)
  BY DEF ConnInv, RestOK, Close, CloseSockets, Live

LEMMA MessageDoes ==
  ASSUME ConnInv, NEW s \in Sockets, NEW i \in Speaks[s], Live(s), RegisterDevice(s, i),
         sock' = sock
  PROVE  MessageSockets(s, i)
<1>1. i \in Devices
  BY SpeaksAssumption
<1> QED BY <1>1 DEF ConnInv, RestOK, RegisterDevice, Register, MessageSockets, Live

LEMMA HandlersSpeak ==
  ASSUME ConnInv, NEW s \in Sockets
  PROVE  /\ \A r \in Reports : HandleReport(s, r) => MessageSockets(s, Owner[r])
         /\ \A i \in Devices : HandleOther(s, i) => MessageSockets(s, i)
<1>1. ASSUME NEW r \in Reports, HandleReport(s, r) PROVE MessageSockets(s, Owner[r])
  BY <1>1, MessageDoes DEF HandleReport
<1>2. ASSUME NEW i \in Devices, HandleOther(s, i) PROVE MessageSockets(s, i)
  BY <1>2, MessageDoes DEF HandleOther
<1> QED BY <1>1, <1>2

LEMMA CrashDoes == ConnInv /\ Crash => CrashSockets
  BY DEF ConnInv, RestOK, Crash, CrashSockets, Live

LEMMA InitConn == Init => ConnInv
<1>1. Init => RestOK
  BY InitType, TypeParts
<1> QED BY <1>1 DEF Init, ConnInv, IdentifiedBySpeaking

LEMMA StepConn == ConnInv /\ [Next]_vars => ConnInv'
<1> SUFFICES ASSUME ConnInv, [Next]_vars PROVE IdentifiedBySpeaking'
  BY StepRest DEF ConnInv
<1>0. RestOK /\ IdentifiedBySpeaking
  BY DEF ConnInv
<1>1. ASSUME NEW s \in Sockets, Accept(s) PROVE IdentifiedBySpeaking'
  BY <1>0, <1>1, AcceptDoes DEF AcceptSockets, IdentifiedBySpeaking
<1>2. ASSUME NEW s \in Sockets, Timeout(s) PROVE IdentifiedBySpeaking'
  BY <1>0, <1>2, TimeoutDoes DEF TimeoutSockets, IdentifiedBySpeaking
<1>3. ASSUME NEW s \in Sockets, Close(s) PROVE IdentifiedBySpeaking'
  BY <1>0, <1>3, CloseDoes DEF CloseSockets, IdentifiedBySpeaking
<1>4. ASSUME NEW s \in Sockets, NEW i \in Devices, MessageSockets(s, i)
      PROVE IdentifiedBySpeaking'
  BY <1>0, <1>4 DEF MessageSockets, IdentifiedBySpeaking, Live
<1>5. ASSUME UNCHANGED connVars PROVE IdentifiedBySpeaking'
  BY <1>0, <1>5 DEF connVars, IdentifiedBySpeaking
<1>6. CASE Crash
  BY <1>6, CrashDoes DEF CrashSockets, IdentifiedBySpeaking
<1>7. ASSUME NEW s \in Sockets, NEW r \in Reports, HandleReport(s, r)
      PROVE IdentifiedBySpeaking'
  BY <1>4, <1>7, HandlersSpeak, OwnerAssumption
<1>8. ASSUME NEW s \in Sockets, NEW i \in Devices, HandleOther(s, i)
      PROVE IdentifiedBySpeaking'
  BY <1>4, <1>8, HandlersSpeak
<1>9. ASSUME NEW i \in Devices,
             MarkDeviceConnected(i) \/ MarkDeviceDisconnected(i) \/ MarkFails(i)
      PROVE UNCHANGED connVars
  BY <1>9 DEF connVars, MarkDeviceConnected, MarkDeviceDisconnected, MarkFails
<1>10. ASSUME NEW r \in Reports, SaveStep(r) PROVE UNCHANGED connVars
  BY <1>10 DEF connVars, SaveStep, ApplyUpsert, SendInsert, ApplyInsert, SaveSucceeds, SaveFails
<1>11. CASE UNCHANGED vars
  BY <1>5, <1>11 DEF vars
<1> QED BY <1>1, <1>2, <1>3, <1>5, <1>6, <1>7, <1>8, <1>9, <1>10, <1>11 DEF Next

----------------------------------------------------------------------------
(* The registry                                                            *)

\* A socket carries the messages of one device.
OneDevicePerSocket == \A s \in Sockets : \A i, k \in Speaks[s] : i = k

RegInv == ConnInv /\ OnlineIsExact

LEMMA InitReg == Init => RegInv
  BY InitConn, NoneAssumption DEF Init, RegInv, OnlineIsExact, Connected, Live

\* A message that identifies its socket: the socket stood for no other device.
LEMMA RegisterReg ==
  ASSUME OneDevicePerSocket, RegInv, NEW s \in Sockets, NEW i \in Devices, MessageSockets(s, i)
  PROVE  OnlineIsExact'
<1>0. /\ IdentifiedBySpeaking /\ OnlineIsExact
      /\ \A k \in Devices : registry[k] # None => registry[k] \in Sockets
  BY DEF RegInv, ConnInv, RestOK
<1>1. /\ Live(s) /\ i \in Speaks[s]
      /\ outlived' = IF deviceId[s] = i THEN outlived ELSE outlived \ {i}
      /\ \A t \in Sockets : /\ Live(t)' <=> Live(t)
                            /\ deviceId'[t] = IF t = s THEN i ELSE deviceId[t]
      /\ \A k \in Devices : registry'[k] = IF k = i /\ deviceId[s] # i THEN s ELSE registry[k]
  BY DEF MessageSockets
<1>2. deviceId[s] \in {None, i}
  BY <1>0, <1>1 DEF IdentifiedBySpeaking, OneDevicePerSocket
<1>3. ASSUME NEW k \in Devices
      PROVE  /\ registry'[k] # None => Live(registry[k])' /\ deviceId'[registry'[k]] = k
             /\ Connected(k)' /\ k \notin outlived' => registry'[k] # None
  <2>1. CASE k = i /\ deviceId[s] # i
    BY <1>1, <2>1, NoneAssumption
  <2>2. CASE k # i \/ deviceId[s] = i
    <3>1. registry'[k] = registry[k] /\ (k \in outlived' <=> k \in outlived)
      BY <1>1, <2>2
    <3>2. /\ registry[k] # None => Live(registry[k]) /\ deviceId[registry[k]] = k
          /\ Connected(k) /\ k \notin outlived => registry[k] # None
      BY <1>0 DEF OnlineIsExact
    <3>3. Connected(k)' => Connected(k)
      BY <1>1, <2>2 DEF Connected
    <3> QED BY <1>0, <1>1, <1>2, <2>2, <3>1, <3>2, <3>3, NoneAssumption
  <2> QED BY <2>1, <2>2
<1> QED BY <1>3 DEF OnlineIsExact

LEMMA StepReg == OneDevicePerSocket /\ RegInv /\ [Next]_vars => RegInv'
<1> SUFFICES ASSUME OneDevicePerSocket, RegInv, [Next]_vars PROVE OnlineIsExact'
  BY StepConn DEF RegInv
<1>0. /\ ConnInv /\ RestOK /\ IdentifiedBySpeaking /\ OnlineIsExact
      /\ \A k \in Devices : registry[k] # None => registry[k] \in Sockets
  BY DEF RegInv, ConnInv, RestOK
<1>1. ASSUME NEW s \in Sockets, Accept(s) PROVE OnlineIsExact'
  <2>1. AcceptSockets(s) /\ registry' = registry
    BY <1>0, <1>1, AcceptDoes DEF Accept
  <2> QED BY <1>0, <2>1, NoneAssumption DEF AcceptSockets, OnlineIsExact, Connected
<1>2. ASSUME NEW s \in Sockets, Timeout(s) PROVE OnlineIsExact'
  <2>1. TimeoutSockets /\ registry' = registry
    BY <1>0, <1>2, TimeoutDoes DEF Timeout
  <2> QED BY <1>0, <2>1 DEF TimeoutSockets, OnlineIsExact, Connected
<1>3. ASSUME NEW s \in Sockets, Close(s) PROVE OnlineIsExact'
  <2>1. CloseSockets(s)
    BY <1>0, <1>3, CloseDoes
  <2>2. CASE deviceId[s] = None
    <3>1. registry' = registry
      BY <1>3, <2>2 DEF Close
    <3> QED BY <1>0, <2>1, <2>2, <3>1, NoneAssumption DEF CloseSockets, OnlineIsExact, Connected
  <2>3. CASE deviceId[s] # None
    <3> DEFINE i == deviceId[s]
    <3>1. i \in Devices
      BY <1>0, <2>3 DEF RestOK
    <3>2. \A k \in Devices : registry'[k] = IF k = i THEN None ELSE registry[k]
      BY <1>0, <1>3, <2>3, <3>1 DEF Close, Unregister, RestOK
    <3>3. /\ deviceId' = deviceId /\ outlived' = OutlivedByClose(s)
          /\ \A t \in Sockets : Live(t)' <=> t # s /\ Live(t)
      BY <2>1, <2>3 DEF CloseSockets
    <3>4. ASSUME NEW k \in Devices
          PROVE  /\ registry'[k] # None => Live(registry[k])' /\ deviceId'[registry'[k]] = k
                 /\ Connected(k)' /\ k \notin outlived' => registry'[k] # None
      <4>1. CASE k = i
        <5>1. Connected(k)' => k \in outlived'
          BY <3>3, <4>1 DEF Connected, OutlivedByClose
        <5> QED BY <3>2, <4>1, <5>1
      <4>2. CASE k # i
        <5>1. registry'[k] = registry[k] /\ (k \in outlived' <=> k \in outlived)
          BY <3>2, <3>3, <4>2 DEF OutlivedByClose
        <5>2. Connected(k)' => Connected(k)
          BY <3>3 DEF Connected
        <5> QED BY <1>0, <3>3, <4>2, <5>1, <5>2 DEF OnlineIsExact
      <4> QED BY <4>1, <4>2
    <3> QED BY <3>4 DEF OnlineIsExact
  <2> QED BY <2>2, <2>3
<1>4. ASSUME NEW s \in Sockets, NEW r \in Reports, HandleReport(s, r) PROVE OnlineIsExact'
  BY <1>0, <1>4, HandlersSpeak, RegisterReg, OwnerAssumption
<1>5. ASSUME NEW s \in Sockets, NEW i \in Devices, HandleOther(s, i) PROVE OnlineIsExact'
  BY <1>0, <1>5, HandlersSpeak, RegisterReg
<1>6. ASSUME UNCHANGED connVars PROVE OnlineIsExact'
  BY <1>0, <1>6 DEF connVars, OnlineIsExact, Connected, Live
<1>7. ASSUME NEW i \in Devices,
             MarkDeviceConnected(i) \/ MarkDeviceDisconnected(i) \/ MarkFails(i)
      PROVE UNCHANGED connVars
  BY <1>7 DEF connVars, MarkDeviceConnected, MarkDeviceDisconnected, MarkFails
<1>8. ASSUME NEW r \in Reports, SaveStep(r) PROVE UNCHANGED connVars
  BY <1>8 DEF connVars, SaveStep, ApplyUpsert, SendInsert, ApplyInsert, SaveSucceeds, SaveFails
<1>9. CASE Crash
  <2>1. CrashSockets /\ \A k \in Devices : registry'[k] = None
    BY <1>0, <1>9, CrashDoes DEF Crash
  <2> QED BY <2>1, NoneAssumption DEF CrashSockets, OnlineIsExact, Connected
<1>10. CASE UNCHANGED vars
  BY <1>6, <1>10 DEF vars
<1> QED BY <1>1, <1>2, <1>3, <1>4, <1>5, <1>6, <1>7, <1>8, <1>9, <1>10 DEF Next

\* "online" is exact, if a socket carries the messages of one device, also while
\* connections of a device overlap, until one closes while another is live.
THEOREM OnlineExact == OneDevicePerSocket => (Spec => []OnlineIsExact)
<1> SUFFICES ASSUME OneDevicePerSocket PROVE Spec => []OnlineIsExact
  OBVIOUS
<1>1. RegInv /\ [Next]_vars => RegInv'
  BY StepReg
<1>2. RegInv => OnlineIsExact
  BY DEF RegInv
<1> QED BY InitReg, <1>1, <1>2, PTL DEF Spec

----------------------------------------------------------------------------
(* The column tcpConnected                                                 *)

\* What is known of a device about which no two statements have raced: those
\* on their way agree with its connections, and so does the column once they
\* have arrived; except that a device one of whose connections closed while
\* another was live may have been marked disconnected.
Told(i) ==
    /\ Connected(i) /\ i \notin outlived
          => ~ SayingFalse(i) /\ (SayingTrue(i) \/ tcpConnected[i])
    /\ ~ Connected(i) => ~ SayingTrue(i) /\ (SayingFalse(i) \/ ~ tcpConnected[i])

AllTold == \A i \in Devices \ raced : Told(i)

\* The inductive invariant of the column.  It needs nothing of the registry.
ColumnInv == ConnInv /\ AllTold

\* What a step leaves of the connections and statements of device i.
SameFor(i) ==
    /\ Connected(i)' <=> Connected(i)
    /\ SayingTrue(i)' <=> SayingTrue(i)
    /\ SayingFalse(i)' <=> SayingFalse(i)

LEMMA InitColumn == Init => ColumnInv
  BY InitConn, NoneAssumption
  DEF Init, ColumnInv, AllTold, Told, Connected, Live, SayingTrue, SayingFalse, Upserting

\* Steps after which every device that has still not raced is as it was.
LEMMA SameColumn ==
  ASSUME ColumnInv, tcpConnected' = tcpConnected,
         raced \subseteq raced', outlived' = outlived,
         \A i \in Devices \ raced' : SameFor(i)
  PROVE  AllTold'
  BY DEF ColumnInv, AllTold, Told, SameFor

\* A message of device i, on a live socket s.
LEMMA MessageColumn ==
  ASSUME ColumnInv, NEW s \in Sockets, NEW i \in Devices, NEW sends \in BOOLEAN,
         MessageSockets(s, i), UNCHANGED <<disconnecting, tcpConnected>>,
         raced' = RacedByMessage(s, i, sends),
         sends => SayingTrue(i)', ~ sends => deviceId[s] = i,
         \A k \in Devices : (k # i \/ ~ sends) => (SayingTrue(k)' <=> SayingTrue(k))
  PROVE  AllTold'
<1>1. /\ Live(s)
      /\ outlived' = IF deviceId[s] = i THEN outlived ELSE outlived \ {i}
      /\ \A t \in Sockets : /\ Live(t)' <=> Live(t)
                            /\ deviceId'[t] = IF t = s THEN i ELSE deviceId[t]
  BY DEF MessageSockets
<1>2. ASSUME NEW k \in Devices, k \notin raced' PROVE Told(k)'
  <2>1. CASE k = i /\ sends
    <3>1. Connected(i)' /\ SayingTrue(i)'
      BY <1>1, <2>1 DEF Connected
    <3>2. ~ SayingFalse(i)
      BY <1>2, <2>1 DEF RacedByMessage, RacedByTrue
    <3> QED BY <2>1, <3>1, <3>2 DEF Told, SayingFalse
  <2>2. CASE k # i \/ ~ sends
    <3>1. k \notin raced
      BY <1>2, <2>2 DEF RacedByMessage, RacedByTrue
    <3>2. k = i \/ k # deviceId[s]
      BY <1>2, <2>2, NoneAssumption DEF RacedByMessage, RacedByTrue
    <3>3. (Connected(k)' <=> Connected(k)) /\ (k \in outlived' <=> k \in outlived)
      BY <1>1, <2>2, <3>2 DEF Connected
    <3>4. Told(k)
      BY <1>1, <1>2, <3>1 DEF ColumnInv, AllTold
    <3> QED BY <2>2, <3>3, <3>4 DEF Told, SayingFalse
  <2> QED BY <2>1, <2>2
<1> QED BY <1>2 DEF AllTold

LEMMA StepColumn == ColumnInv /\ [Next]_vars => ColumnInv'
<1> SUFFICES ASSUME ColumnInv, [Next]_vars PROVE AllTold'
  BY StepConn DEF ColumnInv
<1> USE DEF connVars, markVars, saveVars, dbVars
<1>0. ConnInv /\ RestOK /\ AllTold
  BY DEF ColumnInv, ConnInv
<1>1. ASSUME NEW s \in Sockets, Accept(s) PROVE AllTold'
  <2>1. /\ AcceptSockets(s) /\ outlived' = outlived
        /\ UNCHANGED <<connecting, disconnecting, raced, phase, tcpConnected>>
    BY <1>0, <1>1, AcceptDoes DEF Accept
  <2>2. \A k \in Devices : SameFor(k)
    BY <2>1, NoneAssumption
    DEF AcceptSockets, SameFor, Connected, SayingTrue, SayingFalse, Upserting
  <2> QED BY <2>1, <2>2, SameColumn
<1>2. ASSUME NEW s \in Sockets, Timeout(s) PROVE AllTold'
  <2>1. /\ TimeoutSockets
        /\ UNCHANGED <<connecting, disconnecting, raced, outlived, phase, tcpConnected>>
    BY <1>0, <1>2, TimeoutDoes DEF Timeout
  <2>2. \A k \in Devices : SameFor(k)
    BY <2>1 DEF TimeoutSockets, SameFor, Connected, SayingTrue, SayingFalse, Upserting
  <2> QED BY <2>1, <2>2, SameColumn
<1>3. ASSUME NEW s \in Sockets, Close(s) PROVE AllTold'
  <2>1. CloseSockets(s) /\ UNCHANGED <<phase, tcpConnected, deviceId>>
    BY <1>0, <1>3, CloseDoes DEF Close
  <2>2. \A k \in Devices : k # deviceId[s] => (Connected(k)' <=> Connected(k))
    BY <2>1 DEF CloseSockets, Connected
  <2>3. CASE deviceId[s] = None
    <3>1. UNCHANGED <<connecting, disconnecting, raced, outlived>>
      BY <1>3, <2>3 DEF Close
    <3>2. \A k \in Devices : SameFor(k)
      BY <2>1, <2>2, <2>3, <3>1, NoneAssumption
      DEF SameFor, SayingTrue, SayingFalse, Upserting
    <3> QED BY <2>1, <3>1, <3>2, SameColumn
  <2>4. CASE deviceId[s] # None
    <3> DEFINE i == deviceId[s]
    <3>1. i \in Devices
      BY <1>0, <2>4 DEF RestOK
    <3>2. /\ raced' = RacedByFalse(i, raced) /\ outlived' = OutlivedByClose(s)
          /\ \A k \in Devices : SayingTrue(k)' <=> SayingTrue(k)
          /\ \A k \in Devices : SayingFalse(k)' <=> k = i \/ SayingFalse(k)
      BY <1>0, <1>3, <2>1, <2>4, <3>1
      DEF Close, RestOK, SayingTrue, SayingFalse, Upserting
    <3>3. ASSUME NEW k \in Devices, k \notin raced' PROVE Told(k)'
      <4>1. CASE k = i
        <5>1. ~ SayingTrue(k)' /\ SayingFalse(k)'
          BY <3>1, <3>2, <3>3, <4>1 DEF RacedByFalse
        <5>2. Connected(k)' => k \in outlived'
          BY <2>1, <3>2, <4>1 DEF CloseSockets, Connected, OutlivedByClose
        <5> QED BY <5>1, <5>2 DEF Told
      <4>2. CASE k # i
        <5>1. k \notin raced
          BY <3>2, <3>3, <4>2 DEF RacedByFalse
        <5>2. k \in outlived' <=> k \in outlived
          BY <3>2, <4>2 DEF OutlivedByClose
        <5>3. Told(k)
          BY <1>0, <5>1 DEF AllTold
        <5> QED BY <2>1, <2>2, <3>2, <4>2, <5>2, <5>3 DEF Told
      <4> QED BY <4>1, <4>2
    <3> QED BY <3>3 DEF AllTold
  <2> QED BY <2>3, <2>4
<1>4. ASSUME NEW s \in Sockets, NEW r \in Reports, HandleReport(s, r) PROVE AllTold'
  <2> DEFINE i == Owner[r]
  <2>1. /\ i \in Devices /\ MessageSockets(s, i)
        /\ raced' = RacedByMessage(s, i, TRUE)
        /\ UNCHANGED <<disconnecting, tcpConnected>>
    BY <1>0, <1>4, HandlersSpeak, OwnerAssumption DEF HandleReport
  <2>2. phase'[r] = "upserting" /\ \A q \in Reports : q # r => phase'[q] = phase[q]
    BY <1>0, <1>4, SetPhase DEF HandleReport
  <2>3. \A k \in Devices : k # i => connecting'[k] = connecting[k]
    BY <1>0, <2>1 DEF MessageSockets, RegisterDevice, RestOK
  <2>4. SayingTrue(i)'
    BY <2>2 DEF SayingTrue, Upserting
  <2>5. ASSUME NEW k \in Devices, k # i PROVE SayingTrue(k)' <=> SayingTrue(k)
    BY <2>2, <2>3, <2>5 DEF SayingTrue, Upserting
  <2> QED BY <2>1, <2>4, <2>5, MessageColumn
<1>5. ASSUME NEW s \in Sockets, NEW i \in Devices, HandleOther(s, i) PROVE AllTold'
  <2> DEFINE sends == deviceId[s] # i
  <2>1. /\ MessageSockets(s, i) /\ phase' = phase /\ RegisterDevice(s, i)
        /\ raced' = RacedByMessage(s, i, sends)
        /\ UNCHANGED <<disconnecting, tcpConnected>>
    BY <1>0, <1>5, HandlersSpeak DEF HandleOther
  <2>2. /\ connecting[i] \in Nat
        /\ \A k \in Devices : connecting'[k] = IF k = i /\ sends THEN connecting[k] + 1
                                                                 ELSE connecting[k]
    BY <1>0, <2>1 DEF RegisterDevice, RestOK
  <2>3. sends => SayingTrue(i)'
    BY <2>2 DEF SayingTrue
  <2>4. \A k \in Devices : (k # i \/ ~ sends) => (SayingTrue(k)' <=> SayingTrue(k))
    BY <2>1, <2>2 DEF SayingTrue, Upserting
  <2>5. sends \in BOOLEAN /\ (~ sends => deviceId[s] = i)
    OBVIOUS
  <2> HIDE DEF sends
  <2> QED BY <2>1, <2>3, <2>4, <2>5, MessageColumn
<1>6. ASSUME NEW i \in Devices, MarkDeviceConnected(i) PROVE AllTold'
  <2>1. /\ UNCHANGED <<sock, deviceId, outlived, raced, disconnecting, phase>>
        /\ SayingTrue(i) /\ tcpConnected'[i]
        /\ \A k \in Devices : k # i => /\ tcpConnected'[k] = tcpConnected[k]
                                       /\ SayingTrue(k)' <=> SayingTrue(k)
        /\ \A k \in Devices : /\ SayingFalse(k)' <=> SayingFalse(k)
                              /\ Connected(k)' <=> Connected(k)
    BY <1>0, <1>6
    DEF MarkDeviceConnected, RestOK, SayingTrue, SayingFalse, Upserting, Connected, Live
  <2> QED BY <1>0, <2>1 DEF AllTold, Told
<1>7. ASSUME NEW i \in Devices, MarkDeviceDisconnected(i) PROVE AllTold'
  <2>1. /\ UNCHANGED <<sock, deviceId, outlived, raced, connecting, phase>>
        /\ SayingFalse(i) /\ ~ tcpConnected'[i]
        /\ \A k \in Devices : k # i => /\ tcpConnected'[k] = tcpConnected[k]
                                       /\ SayingFalse(k)' <=> SayingFalse(k)
        /\ \A k \in Devices : /\ SayingTrue(k)' <=> SayingTrue(k)
                              /\ Connected(k)' <=> Connected(k)
    BY <1>0, <1>7
    DEF MarkDeviceDisconnected, RestOK, SayingTrue, SayingFalse, Upserting, Connected, Live
  <2> QED BY <1>0, <2>1 DEF AllTold, Told
<1>8. ASSUME NEW i \in Devices, MarkFails(i) PROVE AllTold'
  <2>1. /\ UNCHANGED <<tcpConnected, outlived>> /\ raced' = raced \cup {i}
        /\ \A k \in Devices : k # i => SameFor(k)
    BY <1>0, <1>8
    DEF MarkFails, RestOK, SameFor, SayingTrue, SayingFalse, Upserting, Connected, Live
  <2> QED BY <2>1, SameColumn
<1>9. ASSUME NEW r \in Reports, ApplyUpsert(r) PROVE AllTold'
  <2> DEFINE i == Owner[r]
  <2>1. /\ i \in Devices /\ phase[r] = "upserting" /\ phase'[r] = "upserted"
        /\ \A q \in Reports : q # r => phase'[q] = phase[q]
    BY <1>0, <1>9, SetPhase, OwnerAssumption DEF ApplyUpsert
  <2>2. /\ UNCHANGED <<sock, deviceId, outlived, raced, connecting, disconnecting>>
        /\ SayingTrue(i) /\ tcpConnected'[i]
        /\ \A k \in Devices : k # i => tcpConnected'[k] = tcpConnected[k]
    BY <1>0, <1>9, <2>1 DEF ApplyUpsert, RestOK, SayingTrue, Upserting
  <2>3. \A k \in Devices : /\ k # i => (SayingTrue(k)' <=> SayingTrue(k))
                           /\ SayingFalse(k)' <=> SayingFalse(k)
                           /\ Connected(k)' <=> Connected(k)
    BY <2>1, <2>2 DEF SayingTrue, SayingFalse, Upserting, Connected, Live
  <2> QED BY <1>0, <2>1, <2>2, <2>3 DEF AllTold, Told
<1>10. ASSUME NEW r \in Reports, SendInsert(r) \/ ApplyInsert(r) \/ SaveSucceeds(r) \/ SaveFails(r)
       PROVE AllTold'
  <2>1. /\ UNCHANGED <<sock, deviceId, outlived, connecting, disconnecting, tcpConnected>>
        /\ raced \subseteq raced' /\ (phase[r] = "upserting" => Owner[r] \in raced')
    BY <1>10 DEF SendInsert, ApplyInsert, SaveSucceeds, SaveFails
  <2>2. PICK ph : ph # "upserting" /\ phase' = [phase EXCEPT ![r] = ph]
    BY <1>10 DEF SendInsert, ApplyInsert, SaveSucceeds, SaveFails
  <2>3. phase'[r] # "upserting" /\ \A q \in Reports : q # r => phase'[q] = phase[q]
    BY <1>0, <2>2, SetPhase
  <2>4. \A k \in Devices \ raced' : SameFor(k)
    BY <2>1, <2>3 DEF SameFor, SayingTrue, SayingFalse, Upserting, Connected, Live
  <2> QED BY <2>1, <2>4, SameColumn
<1>11. CASE Crash
  BY <1>11 DEF Crash, AllTold
<1>12. CASE UNCHANGED vars
  <2>1. UNCHANGED <<sock, deviceId, outlived, raced, connecting, disconnecting, tcpConnected, phase>>
    BY <1>12 DEF vars
  <2>2. \A k \in Devices : SameFor(k)
    BY <2>1 DEF SameFor, SayingTrue, SayingFalse, Upserting, Connected, Live
  <2> QED BY <2>1, <2>2, SameColumn
<1> QED
  BY <1>1, <1>2, <1>3, <1>4, <1>5, <1>6, <1>7, <1>8, <1>9, <1>10, <1>11, <1>12 DEF Next, SaveStep

\* tcp_connected is right, for any number of sockets, devices and reports and
\* whatever devices share a socket, about every device nothing is on its way
\* about, but after the events raced and outlived record.
THEOREM ColumnExact == Spec => []ConnectedColumnIsExact
<1>1. ColumnInv => ConnectedColumnIsExact
  BY DEF ColumnInv, AllTold, Told, ConnectedColumnIsExact
<1> QED BY InitColumn, StepColumn, <1>1, PTL DEF Spec
=============================================================================
