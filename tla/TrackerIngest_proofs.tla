------------------------ MODULE TrackerIngest_proofs ------------------------
(***************************************************************************)
(* What the server guarantees for any number of connections, devices,      *)
(* reports, receptions and crashes.  The results about the registry need   *)
(* what the TCP server's comment takes for granted: that a socket carries  *)
(* frames of one device only (OneImeiPerSocket).                           *)
(***************************************************************************)
EXTENDS TrackerIngest, TLAPS

\* A call that has started carries a report.
JobIsOfReport == \A j \in Jobs : job[j].phase # "unused" => job[j].report \in Reports

JobType == [phase : Phases, sock : Sockets \cup {None}, report : Reports \cup {0}]

\* Moving a call of saveReport() to another phase changes nothing else.
LEMMA SetPhase ==
  ASSUME TypeOK, JobIsOfReport, NEW j \in Jobs, NEW ph \in Phases,
         job[j].phase # "unused",
         job' = [job EXCEPT ![j].phase = ph]
  PROVE  /\ job' \in [Jobs -> JobType]
         /\ job[j].report \in Reports
         /\ Owner[job[j].report] \in Imeis
         /\ job'[j].phase = ph
         /\ \A k \in Jobs : /\ job'[k].report = job[k].report
                            /\ job'[k].sock = job[k].sock
                            /\ k # j => job'[k].phase = job[k].phase
<1>1. job \in [Jobs -> JobType]
  BY DEF TypeOK, JobType
<1>2. job[j].report \in Reports
  BY DEF JobIsOfReport
<1>3. Owner[job[j].report] \in Imeis
  BY <1>2, OwnerAssumption
<1>4. [job[j] EXCEPT !.phase = ph] \in JobType
  BY <1>1 DEF JobType
<1>5. job' = [job EXCEPT ![j] = [job[j] EXCEPT !.phase = ph]]
  OBVIOUS
<1>6. QED BY <1>1, <1>2, <1>3, <1>4, <1>5 DEF JobType

\* registerDevice() keeps the types.
LEMMA RegisterType ==
  ASSUME TypeOK, NEW s \in Sockets, NEW i \in Imeis, RegisterDevice(s, i)
  PROVE  /\ imei' \in [Sockets -> Imeis \cup {None}]
         /\ registry' \in [Imeis -> Sockets \cup {None}]
         /\ connecting' \in [Imeis -> Nat]
         /\ announced' \in [Imeis -> {"none", "connected", "disconnected"}]
         /\ outlived' \subseteq Imeis
  BY DEF TypeOK, RegisterDevice, Register

\* The history of racing statements is one of devices.
LEMMA RacedType ==
  ASSUME TypeOK, NEW s \in Sockets, NEW i \in Imeis, NEW sends \in BOOLEAN
  PROVE  RacedByFrame(s, i, sends) \subseteq Imeis
<1>1. raced \cup ({imei[s]} \ {None, i}) \subseteq Imeis
  BY DEF TypeOK
<1>2. QED BY <1>1 DEF RacedByFrame, RacedByTrue

\* A +SACK is for the report of its call.
LEMMA SackType ==
  ASSUME TypeOK, NEW j \in Jobs, job[j].report \in Reports, WriteSack(j)
  PROVE  acked' \subseteq Reports /\ answered' \subseteq Jobs
  BY DEF TypeOK, WriteSack

TypeInv == TypeOK /\ JobIsOfReport

LEMMA InitType == Init => TypeInv
  BY CrashAssumption
  DEF Init, TypeInv, TypeOK, JobIsOfReport, SocketStates, Phases, InFlight, Settled

\* Every handler, statement and crash keeps the types.
LEMMA StepType == TypeInv /\ [Next]_vars => TypeInv'
<1> SUFFICES ASSUME TypeInv, [Next]_vars PROVE TypeInv'
  OBVIOUS
<1> USE DEF TypeInv
<1> USE DEF serverVars, dbVars, outVars, markVars, orderVars
<1>1. ASSUME NEW s \in Sockets, Accept(s) PROVE TypeInv'
  BY <1>1, SpeaksAssumption DEF Accept, TypeOK, JobIsOfReport, SocketStates
<1>2. ASSUME NEW s \in Sockets, Timeout(s) PROVE TypeInv'
  BY <1>2 DEF Timeout, TypeOK, JobIsOfReport, SocketStates
<1>3. ASSUME NEW s \in Sockets, Close(s) PROVE TypeInv'
  <2>1. raced' \subseteq Imeis /\ outlived' \subseteq Imeis
    BY <1>3 DEF Close, RacedByFalse, OutlivedByClose, TypeOK
  <2>2. QED
    BY <1>3, <2>1, NoneAssumption DEF Close, Unregister, TypeOK, JobIsOfReport, SocketStates
<1>4. ASSUME NEW s \in Sockets, NEW r \in Reports, NEW j \in Jobs, HandleReportFrame(s, r, j)
      PROVE TypeInv'
  <2>1. Owner[r] \in Imeis
    BY OwnerAssumption
  <2>2. RegisterDevice(s, Owner[r])
    BY <1>4 DEF HandleReportFrame
  <2>3. job' \in [Jobs -> JobType] /\ JobIsOfReport'
    BY <1>4 DEF HandleReportFrame, TypeOK, JobType, JobIsOfReport, Phases, InFlight
  <2>4. raced' \subseteq Imeis
    BY <1>4, <2>1, RacedType DEF HandleReportFrame
  <2>5. QED
    BY <1>4, <2>1, <2>2, <2>3, <2>4, RegisterType DEF HandleReportFrame, TypeOK, JobType
<1>5. ASSUME NEW s \in Sockets, NEW i \in Imeis, HandleOtherFrame(s, i) PROVE TypeInv'
  <2>1. raced' \subseteq Imeis
    BY <1>5, RacedType DEF HandleOtherFrame
  <2>2. QED BY <1>5, <2>1, RegisterType DEF HandleOtherFrame, TypeOK, JobIsOfReport
<1>6. ASSUME NEW i \in Imeis, MarkDeviceConnected(i) PROVE TypeInv'
  BY <1>6 DEF MarkDeviceConnected, TypeOK, JobIsOfReport
<1>7. ASSUME NEW i \in Imeis, MarkDeviceDisconnected(i) PROVE TypeInv'
  BY <1>7 DEF MarkDeviceDisconnected, TypeOK, JobIsOfReport
<1>8. ASSUME NEW i \in Imeis, MarkFails(i) PROVE TypeInv'
  BY <1>8 DEF MarkFails, TypeOK, JobIsOfReport
<1>9. ASSUME NEW j \in Jobs, ApplyUpsert(j) PROVE TypeInv'
  <2>1. /\ job' \in [Jobs -> JobType] /\ job[j].report \in Reports /\ Device(j) \in Imeis
        /\ \A k \in Jobs : job'[k].report = job[k].report
        /\ \A k \in Jobs : k # j => job'[k].phase = job[k].phase
    BY <1>9, SetPhase DEF ApplyUpsert, Phases, InFlight, Device
  <2>2. QED BY <1>9, <2>1 DEF ApplyUpsert, TypeOK, JobIsOfReport, JobType
<1>10. ASSUME NEW j \in Jobs, SendInsert(j) PROVE TypeInv'
  <2>1. /\ job' \in [Jobs -> JobType] /\ job[j].report \in Reports
        /\ \A k \in Jobs : job'[k].report = job[k].report
        /\ \A k \in Jobs : k # j => job'[k].phase = job[k].phase
    BY <1>10, SetPhase DEF SendInsert, Phases, InFlight
  <2>2. QED BY <1>10, <2>1 DEF SendInsert, TypeOK, JobIsOfReport, JobType
<1>11. ASSUME NEW j \in Jobs, ApplyInsert(j) PROVE TypeInv'
  <2>1. /\ job' \in [Jobs -> JobType] /\ job[j].report \in Reports
        /\ \A k \in Jobs : job'[k].report = job[k].report
        /\ \A k \in Jobs : k # j => job'[k].phase = job[k].phase
    BY <1>11, SetPhase DEF ApplyInsert, Phases, InFlight
  <2>2. QED BY <1>11, <2>1 DEF ApplyInsert, TypeOK, JobIsOfReport, JobType
<1>12. ASSUME NEW j \in Jobs, SaveSucceeds(j) PROVE TypeInv'
  <2>1. /\ job' \in [Jobs -> JobType] /\ job[j].report \in Reports
        /\ \A k \in Jobs : job'[k].report = job[k].report
        /\ \A k \in Jobs : k # j => job'[k].phase = job[k].phase
    BY <1>12, SetPhase DEF SaveSucceeds, Phases, Settled
  <2>2. acked' \subseteq Reports /\ answered' \subseteq Jobs
    BY <1>12, <2>1, SackType DEF SaveSucceeds
  <2>3. QED BY <1>12, <2>1, <2>2 DEF SaveSucceeds, TypeOK, JobIsOfReport, JobType
<1>13. ASSUME NEW j \in Jobs, SaveReturnsNull(j) PROVE TypeInv'
  <2>1. /\ job' \in [Jobs -> JobType] /\ job[j].report \in Reports
        /\ \A k \in Jobs : job'[k].report = job[k].report
        /\ \A k \in Jobs : k # j => job'[k].phase = job[k].phase
    BY <1>13, SetPhase DEF SaveReturnsNull, Phases, Settled
  <2>2. acked' \subseteq Reports /\ answered' \subseteq Jobs
    BY <1>13, <2>1, SackType DEF SaveReturnsNull
  <2>3. QED BY <1>13, <2>1, <2>2 DEF SaveReturnsNull, TypeOK, JobIsOfReport, JobType
<1>14. ASSUME NEW j \in Jobs, SaveFails(j) PROVE TypeInv'
  <2>1. job[j].phase # "unused"
    BY <1>14 DEF SaveFails, InFlight
  <2>2. /\ job' \in [Jobs -> JobType] /\ job[j].report \in Reports
        /\ \A k \in Jobs : job'[k].report = job[k].report
        /\ \A k \in Jobs : k # j => job'[k].phase = job[k].phase
    BY <1>14, <2>1, SetPhase DEF SaveFails, Phases, Settled
  <2>3. acked' \subseteq Reports /\ answered' \subseteq Jobs
    BY <1>14, <2>2, SackType DEF SaveFails
  <2>4. raced' \subseteq Imeis
    BY <1>14, <2>2, OwnerAssumption DEF SaveFails, Device, TypeOK
  <2>5. QED BY <1>14, <2>2, <2>3, <2>4 DEF SaveFails, TypeOK, JobIsOfReport, JobType
<1>15. CASE Crash
  <2>1. job' \in [Jobs -> JobType] /\ JobIsOfReport'
    <3>1. job \in [Jobs -> JobType] /\ "lost" \in Phases
      BY DEF TypeOK, JobType, Phases
    <3>2. \A r \in JobType : /\ [r EXCEPT !.phase = "lost"] \in JobType
                             /\ [r EXCEPT !.phase = "lost"].report = r.report
      BY <3>1 DEF JobType
    <3>3. job' = [j \in Jobs |-> IF job[j].phase \in InFlight \cup {"empty"}
                                  THEN [job[j] EXCEPT !.phase = "lost"] ELSE job[j]]
      BY <1>15 DEF Crash
    <3>4. \A j \in Jobs : job[j].phase \in InFlight \cup {"empty"} => job[j].phase # "unused"
      BY DEF InFlight
    <3>5. QED BY <3>1, <3>2, <3>3, <3>4 DEF JobIsOfReport
  <2>2. QED BY <1>15, <2>1, CrashAssumption DEF Crash, TypeOK, JobType, SocketStates, Live
<1>16. CASE UNCHANGED vars
  BY <1>16 DEF vars, TypeOK, JobIsOfReport
<1>17. QED
  BY <1>1, <1>2, <1>3, <1>4, <1>5, <1>6, <1>7, <1>8, <1>9, <1>10, <1>11, <1>12,
     <1>13, <1>14, <1>15, <1>16 DEF Next, SaveStep

\* Type correctness of the server, the database and what the outside sees.
THEOREM TypeCorrect == Spec => []TypeOK
<1>1. TypeInv => TypeOK
  BY DEF TypeInv
<1>2. Spec => []TypeInv
  BY InitType, StepType, PTL DEF Spec
<1>3. QED BY <1>1, <1>2, PTL

----------------------------------------------------------------------------
(* The storage path                                                        *)

\* What each phase of saveReport() has left in the database: the device row
\* comes before the INSERT, the row before the answer, and only an undecoded
\* report skips both.
DeviceBeforeInsert ==
    \A j \in Jobs : job[j].phase \in {"upserted", "inserting", "inserted"}
                       => Device(j) \in devices

RowsHaveDevices == \A j \in rows : job[j].phase # "unused" /\ Device(j) \in devices

InsertedHasRow == \A j \in Jobs : job[j].phase = "inserted" => j \in rows

EmptyIsUndecodable == \A j \in Jobs : job[j].phase = "empty" => job[j].report \in Undecodable

PhaseInv == DeviceBeforeInsert /\ RowsHaveDevices /\ InsertedHasRow /\ EmptyIsUndecodable

\* The inductive invariant of the storage path.
SaveInv == TypeInv /\ PhaseInv /\ PublishedIsStored /\ AckedIsStoredOrFailed

LEMMA InitSave == Init => SaveInv
  BY InitType DEF Init, SaveInv, PhaseInv, DeviceBeforeInsert, RowsHaveDevices,
       InsertedHasRow, EmptyIsUndecodable, PublishedIsStored, AckedIsStoredOrFailed

\* Steps that touch no call of saveReport(), no row, no event and no
\* acknowledgement, and drop no device, keep the invariant.
LEMMA Elsewhere ==
  ASSUME SaveInv, TypeInv', job' = job, rows' = rows, reportEvents' = reportEvents,
         acked' = acked, devices \subseteq devices'
  PROVE  SaveInv'
  BY DEF SaveInv, PhaseInv, DeviceBeforeInsert, RowsHaveDevices, InsertedHasRow,
         EmptyIsUndecodable, PublishedIsStored, AckedIsStoredOrFailed, Device

\* Every step keeps the storage path's invariant.
LEMMA StepSave == SaveInv /\ [Next]_vars => SaveInv'
<1> SUFFICES ASSUME SaveInv, [Next]_vars PROVE SaveInv'
  OBVIOUS
<1> USE DEF serverVars, dbVars, outVars, markVars, orderVars
<1>0. TypeInv /\ TypeInv' /\ TypeOK /\ JobIsOfReport /\ PhaseInv
      /\ PublishedIsStored /\ AckedIsStoredOrFailed
  BY StepType DEF SaveInv, TypeInv
<1>1. ASSUME NEW s \in Sockets,
             Accept(s) \/ Timeout(s) \/ Close(s) \/ \E i \in Imeis : HandleOtherFrame(s, i)
      PROVE SaveInv'
  BY <1>0, <1>1, Elsewhere DEF Accept, Timeout, Close, Unregister, HandleOtherFrame
<1>2. ASSUME NEW i \in Imeis,
             MarkDeviceConnected(i) \/ MarkDeviceDisconnected(i) \/ MarkFails(i)
      PROVE SaveInv'
  BY <1>0, <1>2, Elsewhere DEF MarkDeviceConnected, MarkDeviceDisconnected, MarkFails
<1>3. ASSUME NEW s \in Sockets, NEW r \in Reports, NEW j \in Jobs, HandleReportFrame(s, r, j)
      PROVE SaveInv'
  <2>1. /\ job[j].phase = "unused" /\ job'[j].report = r
        /\ job'[j].phase = IF r \in Undecodable THEN "empty" ELSE "upserting"
        /\ \A k \in Jobs : k # j => job'[k] = job[k]
        /\ UNCHANGED <<devices, rows, reportEvents, acked>>
    BY <1>0, <1>3 DEF HandleReportFrame, TypeOK
  <2>2. PhaseInv'
    BY <1>0, <2>1 DEF TypeOK, PhaseInv, DeviceBeforeInsert, RowsHaveDevices,
         InsertedHasRow, EmptyIsUndecodable, Device
  <2>3. PublishedIsStored' /\ AckedIsStoredOrFailed'
    BY <1>0, <2>1 DEF TypeOK, PhaseInv, RowsHaveDevices, PublishedIsStored,
         AckedIsStoredOrFailed
  <2>4. QED BY <1>0, <2>2, <2>3 DEF SaveInv
<1>4. ASSUME NEW j \in Jobs, ApplyUpsert(j) PROVE SaveInv'
  <2>0. job[j].phase # "unused" /\ "upserted" \in Phases
    BY <1>4 DEF ApplyUpsert, InFlight, Settled, Phases
  <2>1. /\ job'[j].phase = "upserted"
        /\ \A k \in Jobs : job'[k].report = job[k].report
        /\ \A k \in Jobs : k # j => job'[k].phase = job[k].phase
    BY <1>0, <1>4, <2>0, SetPhase DEF ApplyUpsert
  <2>2. PhaseInv'
    BY <1>0, <1>4, <2>0, <2>1 DEF ApplyUpsert, TypeOK, PhaseInv, DeviceBeforeInsert, RowsHaveDevices,
         InsertedHasRow, EmptyIsUndecodable, Device
  <2>3. PublishedIsStored'
    BY <1>0, <1>4 DEF ApplyUpsert, PhaseInv, InsertedHasRow, PublishedIsStored
  <2>4. AckedIsStoredOrFailed'
    BY <1>0, <1>4, <2>1 DEF ApplyUpsert, AckedIsStoredOrFailed
  <2>5. QED BY <1>0, <2>2, <2>3, <2>4 DEF SaveInv
<1>5. ASSUME NEW j \in Jobs, SendInsert(j) PROVE SaveInv'
  <2>0. job[j].phase # "unused" /\ "inserting" \in Phases
    BY <1>5 DEF SendInsert, InFlight, Settled, Phases
  <2>1. /\ job'[j].phase = "inserting"
        /\ \A k \in Jobs : job'[k].report = job[k].report
        /\ \A k \in Jobs : k # j => job'[k].phase = job[k].phase
    BY <1>0, <1>5, <2>0, SetPhase DEF SendInsert
  <2>2. PhaseInv'
    BY <1>0, <1>5, <2>0, <2>1 DEF SendInsert, TypeOK, PhaseInv, DeviceBeforeInsert, RowsHaveDevices,
         InsertedHasRow, EmptyIsUndecodable, Device
  <2>3. PublishedIsStored'
    BY <1>0, <1>5 DEF SendInsert, PhaseInv, InsertedHasRow, PublishedIsStored
  <2>4. AckedIsStoredOrFailed'
    BY <1>0, <1>5, <2>1 DEF SendInsert, AckedIsStoredOrFailed
  <2>5. QED BY <1>0, <2>2, <2>3, <2>4 DEF SaveInv
<1>6. ASSUME NEW j \in Jobs, ApplyInsert(j) PROVE SaveInv'
  <2>0. job[j].phase # "unused" /\ "inserted" \in Phases
    BY <1>6 DEF ApplyInsert, InFlight, Settled, Phases
  <2>1. /\ job'[j].phase = "inserted"
        /\ \A k \in Jobs : job'[k].report = job[k].report
        /\ \A k \in Jobs : k # j => job'[k].phase = job[k].phase
    BY <1>0, <1>6, <2>0, SetPhase DEF ApplyInsert
  <2>2. PhaseInv'
    BY <1>0, <1>6, <2>0, <2>1 DEF ApplyInsert, TypeOK, PhaseInv, DeviceBeforeInsert, RowsHaveDevices,
         InsertedHasRow, EmptyIsUndecodable, Device
  <2>3. PublishedIsStored'
    BY <1>0, <1>6 DEF ApplyInsert, PhaseInv, InsertedHasRow, PublishedIsStored
  <2>4. AckedIsStoredOrFailed'
    BY <1>0, <1>6, <2>1 DEF ApplyInsert, AckedIsStoredOrFailed
  <2>5. QED BY <1>0, <2>2, <2>3, <2>4 DEF SaveInv
<1>7. ASSUME NEW j \in Jobs, SaveSucceeds(j) PROVE SaveInv'
  <2>0. job[j].phase # "unused" /\ "saved" \in Phases
    BY <1>7 DEF SaveSucceeds, InFlight, Settled, Phases
  <2>1. /\ job'[j].phase = "saved"
        /\ \A k \in Jobs : job'[k].report = job[k].report
        /\ \A k \in Jobs : k # j => job'[k].phase = job[k].phase
    BY <1>0, <1>7, <2>0, SetPhase DEF SaveSucceeds
  <2>2. PhaseInv'
    BY <1>0, <1>7, <2>0, <2>1 DEF SaveSucceeds, TypeOK, PhaseInv, DeviceBeforeInsert, RowsHaveDevices,
         InsertedHasRow, EmptyIsUndecodable, Device
  <2>3. PublishedIsStored'
    BY <1>0, <1>7 DEF SaveSucceeds, PhaseInv, InsertedHasRow, PublishedIsStored
  <2>4. AckedIsStoredOrFailed'
    BY <1>0, <1>7, <2>0, <2>1 DEF SaveSucceeds, WriteSack, InFlight, PhaseInv, EmptyIsUndecodable, InsertedHasRow, AckedIsStoredOrFailed
  <2>5. QED BY <1>0, <2>2, <2>3, <2>4 DEF SaveInv
<1>8. ASSUME NEW j \in Jobs, SaveReturnsNull(j) PROVE SaveInv'
  <2>0. job[j].phase # "unused" /\ "saved" \in Phases
    BY <1>8 DEF SaveReturnsNull, InFlight, Settled, Phases
  <2>1. /\ job'[j].phase = "saved"
        /\ \A k \in Jobs : job'[k].report = job[k].report
        /\ \A k \in Jobs : k # j => job'[k].phase = job[k].phase
    BY <1>0, <1>8, <2>0, SetPhase DEF SaveReturnsNull
  <2>2. PhaseInv'
    BY <1>0, <1>8, <2>0, <2>1 DEF SaveReturnsNull, TypeOK, PhaseInv, DeviceBeforeInsert, RowsHaveDevices,
         InsertedHasRow, EmptyIsUndecodable, Device
  <2>3. PublishedIsStored'
    BY <1>0, <1>8 DEF SaveReturnsNull, PhaseInv, InsertedHasRow, PublishedIsStored
  <2>4. AckedIsStoredOrFailed'
    BY <1>0, <1>8, <2>0, <2>1 DEF SaveReturnsNull, WriteSack, InFlight, PhaseInv, EmptyIsUndecodable, InsertedHasRow, AckedIsStoredOrFailed
  <2>5. QED BY <1>0, <2>2, <2>3, <2>4 DEF SaveInv
<1>9. ASSUME NEW j \in Jobs, SaveFails(j) PROVE SaveInv'
  <2>0. job[j].phase # "unused" /\ "failed" \in Phases
    BY <1>9 DEF SaveFails, InFlight, Settled, Phases
  <2>1. /\ job'[j].phase = "failed"
        /\ \A k \in Jobs : job'[k].report = job[k].report
        /\ \A k \in Jobs : k # j => job'[k].phase = job[k].phase
    BY <1>0, <1>9, <2>0, SetPhase DEF SaveFails
  <2>2. PhaseInv'
    BY <1>0, <1>9, <2>0, <2>1 DEF SaveFails, TypeOK, PhaseInv, DeviceBeforeInsert, RowsHaveDevices,
         InsertedHasRow, EmptyIsUndecodable, Device
  <2>3. PublishedIsStored'
    BY <1>0, <1>9 DEF SaveFails, PhaseInv, InsertedHasRow, PublishedIsStored
  <2>4. AckedIsStoredOrFailed'
    BY <1>0, <1>9, <2>0, <2>1 DEF SaveFails, WriteSack, InFlight, PhaseInv, EmptyIsUndecodable, InsertedHasRow, AckedIsStoredOrFailed
  <2>5. QED BY <1>0, <2>2, <2>3, <2>4 DEF SaveInv
<1>10. CASE Crash
  <2>1. \A k \in Jobs : /\ job'[k].report = job[k].report
                       /\ job'[k].phase = IF job[k].phase \in InFlight \cup {"empty"}
                                          THEN "lost" ELSE job[k].phase
    BY <1>0, <1>10 DEF Crash, TypeOK
  <2>2. PhaseInv'
    BY <1>0, <1>10, <2>1 DEF Crash, TypeOK, PhaseInv, DeviceBeforeInsert, RowsHaveDevices,
         InsertedHasRow, EmptyIsUndecodable, Device, InFlight
  <2>3. PublishedIsStored' /\ AckedIsStoredOrFailed'
    BY <1>0, <1>10, <2>1 DEF Crash, PublishedIsStored, AckedIsStoredOrFailed, InFlight
  <2>4. QED BY <1>0, <2>2, <2>3 DEF SaveInv
<1>11. CASE UNCHANGED vars
  BY <1>0, <1>11, Elsewhere DEF vars
<1>12. QED
  BY <1>1, <1>2, <1>3, <1>4, <1>5, <1>6, <1>7, <1>8, <1>9, <1>10, <1>11 DEF Next, SaveStep

\* The storage path's invariant holds in every reachable state.
THEOREM StorageInvariance == Spec => []SaveInv
  BY InitSave, StepSave, PTL DEF Spec

\* The order of the two statements of saveReport() is enough: no INSERT into
\* tracker_report ever meets a missing tracker_device row.
THEOREM ForeignKeyHolds == Spec => []InsertFindsItsDevice
<1>1. SaveInv => InsertFindsItsDevice
  BY DEF SaveInv, PhaseInv, DeviceBeforeInsert, RowsHaveDevices, InsertFindsItsDevice
<1>2. QED BY StorageInvariance, <1>1, PTL

\* REPORT_RECEIVED is only emitted for a report that is in the database.
THEOREM PublishedStored == Spec => []PublishedIsStored
<1>1. SaveInv => PublishedIsStored
  BY DEF SaveInv
<1>2. QED BY StorageInvariance, <1>1, PTL

\* +SACK tells a device to forget a report only if it is stored, could not be
\* decoded, or the failure to store it was reported to the server.
THEOREM AckedStored == Spec => []AckedIsStoredOrFailed
<1>1. SaveInv => AckedIsStoredOrFailed
  BY DEF SaveInv
<1>2. QED BY StorageInvariance, <1>1, PTL

\* The socket a call will answer on was accepted: it can stop sending, and
\* never begins again.
AskedOnAccepted ==
    \A j \in Jobs : job[j].phase # "unused" =>
                       job[j].sock \in Sockets /\ sock[job[j].sock] # "fresh"

\* The inductive invariant of the answers.
AnswerInv == TypeInv /\ AskedOnAccepted /\ EveryReportIsAnswered

LEMMA InitAnswer == Init => AnswerInv
  BY InitType DEF Init, AnswerInv, AskedOnAccepted, EveryReportIsAnswered, Settled

\* Steps that answer nothing, touch no call and open no accepted socket keep it.
LEMMA ElsewhereAnswer ==
  ASSUME AnswerInv, TypeInv', job' = job, answered' = answered,
         \A s \in Sockets : sock[s] # "fresh" => sock'[s] # "fresh",
         \A s \in Sockets : sock[s] # "fresh" /\ sock'[s] = "open" => sock[s] = "open"
  PROVE  AnswerInv'
<1>1. AskedOnAccepted'
  BY DEF AnswerInv, AskedOnAccepted
<1>2. EveryReportIsAnswered'
  BY DEF AnswerInv, AskedOnAccepted, EveryReportIsAnswered, Settled
<1>3. QED BY <1>1, <1>2 DEF AnswerInv

\* Every step keeps the invariant of the answers.
LEMMA StepAnswer == AnswerInv /\ [Next]_vars => AnswerInv'
<1> SUFFICES ASSUME AnswerInv, [Next]_vars PROVE AnswerInv'
  OBVIOUS
<1> USE DEF serverVars, dbVars, outVars, markVars, orderVars
<1>0. /\ TypeInv /\ TypeInv' /\ TypeOK /\ JobIsOfReport
      /\ AskedOnAccepted /\ EveryReportIsAnswered
  BY StepType DEF AnswerInv, TypeInv
<1>1. ASSUME NEW s \in Sockets,
             Accept(s) \/ Timeout(s) \/ Close(s) \/ \E i \in Imeis : HandleOtherFrame(s, i)
      PROVE AnswerInv'
  <2>1. UNCHANGED <<job, answered>>
    BY <1>1 DEF Accept, Timeout, Close, HandleOtherFrame
  <2>2. /\ \A t \in Sockets : sock[t] # "fresh" => sock'[t] # "fresh"
        /\ \A t \in Sockets : sock[t] # "fresh" /\ sock'[t] = "open" => sock[t] = "open"
    BY <1>0, <1>1 DEF Accept, Timeout, Close, HandleOtherFrame, TypeOK
  <2>3. QED BY <1>0, <2>1, <2>2, ElsewhereAnswer
<1>2. ASSUME NEW i \in Imeis,
             MarkDeviceConnected(i) \/ MarkDeviceDisconnected(i) \/ MarkFails(i)
      PROVE AnswerInv'
  BY <1>0, <1>2, ElsewhereAnswer DEF MarkDeviceConnected, MarkDeviceDisconnected, MarkFails
<1>3. ASSUME NEW s \in Sockets, NEW r \in Reports, NEW j \in Jobs, HandleReportFrame(s, r, j)
      PROVE AnswerInv'
  <2>1. /\ job[j].phase = "unused" /\ job'[j].sock = s /\ job'[j].phase \in {"empty", "upserting"}
        /\ \A k \in Jobs : k # j => job'[k] = job[k]
        /\ UNCHANGED <<sock, answered>> /\ sock[s] # "fresh"
    BY <1>0, <1>3 DEF HandleReportFrame, TypeOK, Live
  <2>2. AskedOnAccepted'
    BY <1>0, <2>1 DEF AskedOnAccepted
  <2>3. EveryReportIsAnswered'
    BY <1>0, <2>1 DEF EveryReportIsAnswered, Settled, TypeOK
  <2>4. QED BY <1>0, <2>2, <2>3 DEF AnswerInv
<1>4. ASSUME NEW j \in Jobs, ApplyUpsert(j) \/ SendInsert(j) \/ ApplyInsert(j)
      PROVE AnswerInv'
  <2>1. /\ job[j].phase \in InFlight /\ job[j].phase # "unused"
        /\ UNCHANGED <<sock, answered>>
    BY <1>4 DEF ApplyUpsert, SendInsert, ApplyInsert, InFlight
  <2>2. PICK ph \in InFlight : job' = [job EXCEPT ![j].phase = ph]
    BY <1>4 DEF ApplyUpsert, SendInsert, ApplyInsert, InFlight
  <2>3. ph \in Phases
    BY DEF Phases
  <2>4. /\ job'[j].phase = ph
        /\ \A k \in Jobs : /\ job'[k].sock = job[k].sock
                           /\ k # j => job'[k].phase = job[k].phase
    BY <1>0, <2>1, <2>2, <2>3, SetPhase
  <2>5. AskedOnAccepted'
    BY <1>0, <2>1, <2>4 DEF AskedOnAccepted
  <2>6. EveryReportIsAnswered'
    BY <1>0, <2>1, <2>4 DEF EveryReportIsAnswered, Settled, InFlight, TypeOK
  <2>7. QED BY <1>0, <2>5, <2>6 DEF AnswerInv
<1>5. ASSUME NEW j \in Jobs, SaveSucceeds(j) \/ SaveReturnsNull(j) \/ SaveFails(j)
      PROVE AnswerInv'
  <2>1. job[j].phase # "unused" /\ sock' = sock /\ WriteSack(j)
    BY <1>5 DEF SaveSucceeds, SaveReturnsNull, SaveFails, InFlight
  <2>2. PICK ph \in Settled : job' = [job EXCEPT ![j].phase = ph]
    BY <1>5 DEF SaveSucceeds, SaveReturnsNull, SaveFails, Settled
  <2>3. ph \in Phases
    BY DEF Phases
  <2>4. /\ job'[j].phase = ph
        /\ \A k \in Jobs : /\ job'[k].sock = job[k].sock
                           /\ k # j => job'[k].phase = job[k].phase
    BY <1>0, <2>1, <2>2, <2>3, SetPhase
  <2>5. AskedOnAccepted'
    BY <1>0, <2>1, <2>4 DEF AskedOnAccepted
  <2>6. IF sock[job[j].sock] = "open" THEN answered' = answered \cup {j}
                                     ELSE answered' = answered
    BY <2>1 DEF WriteSack
  <2>7. EveryReportIsAnswered'
    BY <1>0, <2>1, <2>4, <2>6 DEF EveryReportIsAnswered, TypeOK
  <2>8. QED BY <1>0, <2>5, <2>7 DEF AnswerInv
<1>6. CASE Crash
  <2>1. /\ answered' = answered
        /\ \A s \in Sockets : sock'[s] = IF Live(s) THEN "closed" ELSE sock[s]
        /\ \A k \in Jobs : /\ job'[k].sock = job[k].sock
                           /\ job'[k].phase = IF job[k].phase \in InFlight \cup {"empty"}
                                              THEN "lost" ELSE job[k].phase
    BY <1>0, <1>6 DEF Crash, TypeOK
  <2>2. AskedOnAccepted'
    BY <1>0, <2>1 DEF AskedOnAccepted, InFlight
  <2>3. \A s \in Sockets : sock'[s] # "open"
    BY <2>1 DEF Live
  <2>4. EveryReportIsAnswered'
    BY <1>0, <2>1, <2>2, <2>3 DEF EveryReportIsAnswered, AskedOnAccepted, Settled, InFlight, TypeOK
  <2>5. QED BY <1>0, <2>2, <2>4 DEF AnswerInv
<1>7. CASE UNCHANGED vars
  BY <1>0, <1>7, ElsewhereAnswer DEF vars
<1>8. QED
  BY <1>1, <1>2, <1>3, <1>4, <1>5, <1>6, <1>7 DEF Next, SaveStep

\* Every report received is answered with +SACK once its call of saveReport()
\* is over, as long as its connection sends, and none is answered before.
THEOREM AnsweredReports == Spec => []EveryReportIsAnswered
<1>1. AnswerInv => EveryReportIsAnswered
  BY DEF AnswerInv
<1>2. QED BY InitAnswer, StepAnswer, <1>1, PTL DEF Spec

\* What is known of the calls whose upsert took effect.  A call that is still
\* to send it is not among them, nor was it when any frame arrived.
AppliedInv ==
    /\ \A j \in applied : job[j].phase \notin {"unused", "empty", "upserting"}
    /\ \A j \in Jobs : before[j] \subseteq applied

\* The inductive invariant of the snapshots.
SnapInv == TypeInv /\ AppliedInv /\ SnapshotNeverGoesBack

LEMMA InitSnap == Init => SnapInv
  BY InitType DEF Init, SnapInv, AppliedInv, SnapshotNeverGoesBack

\* Steps that apply no upsert and begin no call keep the invariant.
LEMMA ElsewhereSnap ==
  ASSUME SnapInv, TypeInv', UNCHANGED <<lastReport, applied, before>>,
         \A j \in applied : /\ job'[j].report = job[j].report
                           /\ job'[j].phase \notin {"unused", "empty", "upserting"}
  PROVE  SnapInv'
<1>1. AppliedInv'
  BY DEF SnapInv, AppliedInv
<1>2. SnapshotNeverGoesBack'
  BY DEF SnapInv, SnapshotNeverGoesBack, Device
<1>3. QED BY <1>1, <1>2 DEF SnapInv

\* Every step keeps it.
LEMMA StepSnap == SnapInv /\ [Next]_vars => SnapInv'
<1> SUFFICES ASSUME SnapInv, [Next]_vars PROVE SnapInv'
  OBVIOUS
<1> USE DEF serverVars, dbVars, outVars, markVars, orderVars
<1>0. TypeInv /\ TypeInv' /\ TypeOK /\ JobIsOfReport /\ AppliedInv /\ SnapshotNeverGoesBack
  BY StepType DEF SnapInv, TypeInv
<1>1. ASSUME NEW s \in Sockets,
             Accept(s) \/ Timeout(s) \/ Close(s) \/ \E i \in Imeis : HandleOtherFrame(s, i)
      PROVE SnapInv'
  BY <1>0, <1>1, ElsewhereSnap DEF Accept, Timeout, Close, HandleOtherFrame, AppliedInv
<1>2. ASSUME NEW i \in Imeis,
             MarkDeviceConnected(i) \/ MarkDeviceDisconnected(i) \/ MarkFails(i)
      PROVE SnapInv'
  BY <1>0, <1>2, ElsewhereSnap
  DEF MarkDeviceConnected, MarkDeviceDisconnected, MarkFails, AppliedInv
<1>3. ASSUME NEW s \in Sockets, NEW r \in Reports, NEW j \in Jobs, HandleReportFrame(s, r, j)
      PROVE SnapInv'
  <2>1. /\ job[j].phase = "unused" /\ \A k \in Jobs : k # j => job'[k] = job[k]
        /\ before'[j] = applied /\ \A k \in Jobs : k # j => before'[k] = before[k]
        /\ UNCHANGED <<applied, lastReport>>
    BY <1>0, <1>3 DEF HandleReportFrame, TypeOK
  <2>2. j \notin applied /\ applied \subseteq Jobs
    BY <1>0, <2>1 DEF AppliedInv, TypeOK
  <2>3. AppliedInv'
    BY <1>0, <2>1, <2>2 DEF AppliedInv
  <2>4. \A k \in applied : job'[k] = job[k] /\ before'[k] = before[k]
    BY <2>1, <2>2
  <2>5. SnapshotNeverGoesBack'
    BY <1>0, <2>1, <2>4 DEF SnapshotNeverGoesBack, Device
  <2>6. QED BY <1>0, <2>3, <2>5 DEF SnapInv
<1>4. ASSUME NEW j \in Jobs, ApplyUpsert(j) PROVE SnapInv'
  <2>1. job[j].phase = "upserting" /\ job[j].phase # "unused" /\ "upserted" \in Phases
    BY <1>4 DEF ApplyUpsert, InFlight, Phases
  <2>2. /\ job[j].report \in Reports /\ Device(j) \in Imeis /\ job'[j].phase = "upserted"
        /\ \A k \in Jobs : job'[k].report = job[k].report
        /\ \A k \in Jobs : k # j => job'[k].phase = job[k].phase
    BY <1>0, <1>4, <2>1, SetPhase DEF ApplyUpsert, Device
  <2>3. /\ applied' = applied \cup {j} /\ before' = before
        /\ \A i \in Imeis : lastReport'[i] = IF i = Device(j) THEN job[j].report ELSE lastReport[i]
    BY <1>0, <1>4, <2>2 DEF ApplyUpsert, TypeOK
  <2>4. j \notin applied /\ applied \subseteq Jobs /\ \A k \in Jobs : j \notin before[k]
    BY <1>0, <2>1 DEF AppliedInv, TypeOK
  <2>5. AppliedInv'
    BY <1>0, <2>2, <2>3, <2>4 DEF AppliedInv
  <2>6. \A k \in Jobs : Device(k)' = Device(k)
    BY <2>2 DEF Device
  <2>7. SnapshotNeverGoesBack'
    <3> SUFFICES ASSUME NEW i \in Imeis, lastReport'[i] # 0
                 PROVE \E k \in applied' :
                          /\ job'[k].report = lastReport'[i] /\ Device(k)' = i
                          /\ \A m \in applied' : Device(m)' = i => k \notin before'[m]
      BY DEF SnapshotNeverGoesBack
    <3>1. CASE i = Device(j)
      <4>1. /\ j \in applied' /\ job'[j].report = lastReport'[i] /\ Device(j)' = i
        BY <2>2, <2>3, <2>6, <3>1
      <4>2. \A m \in applied' : j \notin before'[m]
        BY <2>3, <2>4
      <4>3. QED BY <4>1, <4>2
    <3>2. CASE i # Device(j)
      <4>1. lastReport[i] = lastReport'[i]
        BY <2>3, <3>2
      <4>2. PICK k \in applied : /\ job[k].report = lastReport[i] /\ Device(k) = i
                                 /\ \A m \in applied : Device(m) = i => k \notin before[m]
        BY <1>0, <4>1 DEF SnapshotNeverGoesBack
      <4>3. k \in applied' /\ job'[k].report = lastReport'[i] /\ Device(k)' = i
        BY <2>2, <2>3, <2>4, <2>6, <4>1, <4>2
      <4>4. ASSUME NEW m \in applied', Device(m)' = i PROVE k \notin before'[m]
        BY <2>3, <2>4, <2>6, <3>2, <4>2, <4>4
      <4>5. QED BY <4>3, <4>4
    <3>3. QED BY <3>1, <3>2
  <2>8. QED BY <1>0, <2>5, <2>7 DEF SnapInv
<1>5. ASSUME NEW j \in Jobs,
             SendInsert(j) \/ ApplyInsert(j) \/ SaveSucceeds(j) \/ SaveReturnsNull(j) \/ SaveFails(j)
      PROVE SnapInv'
  <2>1. job[j].phase # "unused" /\ UNCHANGED <<lastReport, applied, before>>
    BY <1>5 DEF SendInsert, ApplyInsert, SaveSucceeds, SaveReturnsNull, SaveFails, InFlight
  <2>2. PICK ph \in Phases : /\ job' = [job EXCEPT ![j].phase = ph]
                             /\ ph \notin {"unused", "empty", "upserting"}
    BY <1>5 DEF SendInsert, ApplyInsert, SaveSucceeds, SaveReturnsNull, SaveFails,
                Phases, InFlight, Settled
  <2>3. /\ job'[j].phase = ph
        /\ \A k \in Jobs : /\ job'[k].report = job[k].report
                           /\ k # j => job'[k].phase = job[k].phase
    BY <1>0, <2>1, <2>2, SetPhase
  <2>4. applied \subseteq Jobs
    BY <1>0 DEF TypeOK
  <2>5. QED BY <1>0, <2>1, <2>2, <2>3, <2>4, ElsewhereSnap DEF AppliedInv
<1>6. CASE Crash
  <2>1. /\ UNCHANGED <<lastReport, applied, before>>
        /\ \A k \in Jobs : /\ job'[k].report = job[k].report
                           /\ job'[k].phase = IF job[k].phase \in InFlight \cup {"empty"}
                                              THEN "lost" ELSE job[k].phase
    BY <1>0, <1>6 DEF Crash, TypeOK
  <2>2. applied \subseteq Jobs
    BY <1>0 DEF TypeOK
  <2>3. QED BY <1>0, <2>1, <2>2, ElsewhereSnap DEF AppliedInv
<1>7. CASE UNCHANGED vars
  BY <1>0, <1>7, ElsewhereSnap DEF vars, AppliedInv
<1>8. QED
  BY <1>1, <1>2, <1>3, <1>4, <1>5, <1>6, <1>7 DEF Next, SaveStep

\* The snapshot of a device never shows a report whose upsert had taken effect
\* before a frame arrived whose own upsert has taken effect since.
THEOREM SnapshotAdvances == Spec => []SnapshotNeverGoesBack
<1>1. SnapInv => SnapshotNeverGoesBack
  BY DEF SnapInv
<1>2. QED BY InitSnap, StepSnap, <1>1, PTL DEF Spec

----------------------------------------------------------------------------
(* The abstract pipeline                                                   *)

\* The refinement mapping of the calls.
Opened == {j \in Jobs : job[j].phase \in InFlight \cup {"empty"}}
Seen   == {j \in Jobs : job[j].phase # "unused"}

\* Steps that move no call and store and publish nothing are stutters.
LEMMA PipelineStutter ==
  ASSUME UNCHANGED <<job, rows, reportEvents>>
  PROVE  UNCHANGED Pipeline!vars
  BY DEF Pipeline!vars

\* A call that moves from one phase to another moves no other call.
LEMMA MapPhase ==
  ASSUME TypeOK, JobIsOfReport, NEW j \in Jobs, NEW ph \in Phases,
         job[j].phase # "unused", ph # "unused",
         job' = [job EXCEPT ![j].phase = ph]
  PROVE  /\ Seen' = Seen
         /\ Opened' = IF ph \in InFlight \cup {"empty"} THEN Opened \cup {j} ELSE Opened \ {j}
<1>1. /\ job'[j].phase = ph
      /\ \A k \in Jobs : k # j => job'[k].phase = job[k].phase
  BY SetPhase
<1>2. QED BY <1>1 DEF Seen, Opened

\* Every step is a step of the pipeline, or none.
LEMMA StepPipeline == SaveInv /\ [Next]_vars => [Pipeline!Next]_(Pipeline!vars)
<1> SUFFICES ASSUME SaveInv, [Next]_vars PROVE [Pipeline!Next]_(Pipeline!vars)
  OBVIOUS
<1> USE DEF serverVars, dbVars, outVars, markVars, orderVars
<1>0. TypeInv /\ TypeOK /\ JobIsOfReport /\ PhaseInv /\ RowsHaveDevices /\ InsertedHasRow
  BY DEF SaveInv, TypeInv, PhaseInv
<1>1. ASSUME NEW s \in Sockets,
             Accept(s) \/ Timeout(s) \/ Close(s) \/ \E i \in Imeis : HandleOtherFrame(s, i)
      PROVE UNCHANGED Pipeline!vars
  BY <1>1, PipelineStutter DEF Accept, Timeout, Close, HandleOtherFrame
<1>2. ASSUME NEW i \in Imeis,
             MarkDeviceConnected(i) \/ MarkDeviceDisconnected(i) \/ MarkFails(i)
      PROVE UNCHANGED Pipeline!vars
  BY <1>2, PipelineStutter DEF MarkDeviceConnected, MarkDeviceDisconnected, MarkFails
<1>3. ASSUME NEW s \in Sockets, NEW r \in Reports, NEW j \in Jobs, HandleReportFrame(s, r, j)
      PROVE Pipeline!Receive(j)
  <2>1. /\ job[j].phase = "unused" /\ \A k \in Jobs : k # j => job'[k] = job[k]
        /\ job'[j].phase \in {"empty", "upserting"}
        /\ UNCHANGED <<rows, reportEvents>>
    BY <1>0, <1>3 DEF HandleReportFrame, TypeOK
  <2>2. j \notin Seen /\ Seen' = Seen \cup {j} /\ Opened' = Opened \cup {j}
    BY <2>1 DEF Seen, Opened, InFlight
  <2>3. QED BY <2>1, <2>2 DEF Pipeline!Receive, Seen, Opened
<1>4. ASSUME NEW j \in Jobs, ApplyUpsert(j) \/ SendInsert(j) PROVE UNCHANGED Pipeline!vars
  <2>1. PICK ph \in {"upserted", "inserting"} :
          job[j].phase \in InFlight /\ job' = [job EXCEPT ![j].phase = ph]
    BY <1>4 DEF ApplyUpsert, SendInsert, InFlight
  <2>2. ph \in Phases /\ ph \in InFlight /\ ph # "unused" /\ job[j].phase # "unused" /\ j \in Opened
    BY <2>1 DEF Phases, InFlight, Opened
  <2>3. Seen' = Seen /\ Opened' = Opened \cup {j}
    BY <1>0, <2>1, <2>2, MapPhase
  <2>4. Seen' = Seen /\ Opened' = Opened /\ UNCHANGED <<rows, reportEvents>>
    BY <1>4, <2>2, <2>3 DEF ApplyUpsert, SendInsert
  <2>5. QED BY <2>4 DEF Pipeline!vars, Seen, Opened
<1>5. ASSUME NEW j \in Jobs, ApplyInsert(j) PROVE [Pipeline!Next]_(Pipeline!vars)
  <2>1. /\ "inserted" \in Phases /\ "inserted" \in InFlight /\ job[j].phase # "unused" /\ j \in Opened
        /\ rows' = rows \cup {j} /\ reportEvents' = reportEvents
    BY <1>5 DEF ApplyInsert, Phases, InFlight, Opened
  <2>2. Seen' = Seen /\ Opened' = Opened
    <3>1. Seen' = Seen /\ Opened' = Opened \cup {j}
      BY <1>0, <1>5, <2>1, MapPhase DEF ApplyInsert
    <3>2. QED BY <2>1, <3>1
  <2>3. CASE j \in rows
    BY <2>1, <2>2, <2>3 DEF Pipeline!vars, Seen, Opened
  <2>4. CASE j \notin rows
    <3>1. Pipeline!Store(j)
      BY <2>1, <2>2, <2>4 DEF Pipeline!Store, Seen, Opened
    <3>2. QED BY <3>1 DEF Pipeline!Next
  <2>5. QED BY <2>3, <2>4
<1>6. ASSUME NEW j \in Jobs, SaveSucceeds(j) PROVE Pipeline!Fulfil(j)
  <2>1. /\ "saved" \in Phases /\ "saved" \notin InFlight \cup {"empty"} /\ job[j].phase # "unused"
        /\ j \in Opened /\ j \in rows /\ rows' = rows /\ reportEvents' = reportEvents \cup {j}
    BY <1>0, <1>6 DEF SaveSucceeds, Phases, InFlight, Settled, Opened, InsertedHasRow
  <2>2. Seen' = Seen /\ Opened' = Opened \ {j}
    BY <1>0, <1>6, <2>1, MapPhase DEF SaveSucceeds
  <2>3. QED BY <2>1, <2>2 DEF Pipeline!Fulfil, Seen, Opened
<1>7. ASSUME NEW j \in Jobs, SaveReturnsNull(j) \/ SaveFails(j) PROVE Pipeline!GiveUp(j)
  <2>1. PICK ph \in Settled : job' = [job EXCEPT ![j].phase = ph]
    BY <1>7 DEF SaveReturnsNull, SaveFails, Settled
  <2>2. /\ ph \in Phases /\ ph \notin InFlight \cup {"empty"} /\ ph # "unused"
        /\ job[j].phase # "unused" /\ j \in Opened
        /\ UNCHANGED <<rows, reportEvents>>
    BY <1>7, <2>1 DEF SaveReturnsNull, SaveFails, Phases, InFlight, Settled, Opened
  <2>3. Seen' = Seen /\ Opened' = Opened \ {j}
    BY <1>0, <2>1, <2>2, MapPhase
  <2>4. QED BY <2>2, <2>3 DEF Pipeline!GiveUp, Seen, Opened
<1>8. CASE Crash
  <2>1. /\ UNCHANGED <<rows, reportEvents>>
        /\ \A k \in Jobs : job'[k].phase = IF job[k].phase \in InFlight \cup {"empty"}
                                           THEN "lost" ELSE job[k].phase
    BY <1>0, <1>8 DEF Crash, TypeOK
  <2>2. Opened' = {} /\ Seen' = Seen
    BY <2>1 DEF Opened, Seen, InFlight
  <2>3. Pipeline!Abandon
    BY <2>1, <2>2 DEF Pipeline!Abandon, Seen, Opened
  <2>4. QED BY <2>3 DEF Pipeline!Next
<1>9. CASE UNCHANGED vars
  BY <1>9, PipelineStutter DEF vars
<1>10. QED
  BY <1>1, <1>2, <1>3, <1>4, <1>5, <1>6, <1>7, <1>8, <1>9 DEF Next, SaveStep, Pipeline!Next

\* The server implements the pipeline: whatever statements, connections,
\* failures and crashes interleave, a report received is handled once, stored
\* only while it is handled, and published exactly if its handling succeeded.
THEOREM TrackerImplementsPipeline == Spec => ImplementsPipeline
<1>1. Init => Pipeline!Init
  BY DEF Init, Pipeline!Init, InFlight
<1>2. QED
  BY StorageInvariance, <1>1, StepPipeline, PTL DEF Spec, ImplementsPipeline, Pipeline!Spec

----------------------------------------------------------------------------
(* The registry                                                            *)

\* What the comment in handleConnection() assumes of devices.
OneImeiPerSocket == \A s \in Sockets : \A i, k \in Speaks[s] : i = k

\* A socket is identified by a frame it carried, so after it was accepted.
IdentifiedBySpeaking ==
    \A s \in Sockets : imei[s] # None => imei[s] \in Speaks[s] /\ sock[s] # "fresh"

\* The inductive invariant of the registry.
RegInv ==
    /\ TypeInv
    /\ IdentifiedBySpeaking
    /\ RegisteredSocketIsLive
    /\ OnlineIsExact
    /\ AnnouncementsAreTrue

LEMMA InitReg == Init => RegInv
  BY InitType, NoneAssumption
  DEF Init, RegInv, IdentifiedBySpeaking, RegisteredSocketIsLive, OnlineIsExact,
      AnnouncementsAreTrue, Connected, Live

\* registerDevice() called for a frame of a live socket keeps the invariant.
LEMMA RegisterReg ==
  ASSUME OneImeiPerSocket, RegInv, TypeInv', NEW s \in Sockets, NEW i \in Speaks[s],
         Live(s), RegisterDevice(s, i), UNCHANGED <<sock, crashes>>
  PROVE  RegInv'
<1>0. i \in Imeis /\ TypeOK
  BY SpeaksAssumption DEF RegInv, TypeInv
<1>1. CASE imei[s] = i
  BY <1>1 DEF RegisterDevice, RegInv, IdentifiedBySpeaking, RegisteredSocketIsLive,
       OnlineIsExact, AnnouncementsAreTrue, Connected, Live
<1>2. CASE imei[s] # i
  <2>1. imei[s] = None
    BY <1>0, <1>2 DEF RegInv, IdentifiedBySpeaking, OneImeiPerSocket
  <2>2. /\ \A t \in Sockets : imei'[t] = IF t = s THEN i ELSE imei[t]
        /\ \A k \in Imeis : registry'[k] = IF k = i THEN s ELSE registry[k]
        /\ \A k \in Imeis : announced'[k] = IF k = i THEN "connected" ELSE announced[k]
        /\ outlived' = outlived \ {i}
    BY <1>0, <1>2 DEF RegisterDevice, Register, TypeOK
  <2>3. \A t \in Sockets : Live(t)' <=> Live(t)
    BY DEF Live
  <2>4. IdentifiedBySpeaking'
    BY <2>2, <2>3 DEF RegInv, IdentifiedBySpeaking, Live
  <2>5. RegisteredSocketIsLive'
    BY <1>0, <2>1, <2>2, <2>3, NoneAssumption DEF RegInv, TypeOK, RegisteredSocketIsLive
  <2>6. \A k \in Imeis : Connected(k)' <=> k = i \/ Connected(k)
    BY <1>0, <2>1, <2>2, <2>3, NoneAssumption DEF Connected
  <2>7. OnlineIsExact'
    BY <2>2, <2>6, NoneAssumption DEF RegInv, OnlineIsExact
  <2>8. AnnouncementsAreTrue'
    BY <2>2, <2>6 DEF RegInv, AnnouncementsAreTrue
  <2>9. QED BY <2>4, <2>5, <2>7, <2>8 DEF RegInv
<1>3. QED BY <1>1, <1>2

\* Steps that leave sockets, registry and events alone keep the invariant.
LEMMA ElsewhereReg ==
  ASSUME RegInv, TypeInv', UNCHANGED <<sock, imei, registry, announced, outlived, crashes>>
  PROVE  RegInv'
  BY DEF RegInv, IdentifiedBySpeaking, RegisteredSocketIsLive, OnlineIsExact,
         AnnouncementsAreTrue, Connected, Live

\* Every step keeps the registry's invariant.
LEMMA StepReg == OneImeiPerSocket /\ RegInv /\ [Next]_vars => RegInv'
<1> SUFFICES ASSUME OneImeiPerSocket, RegInv, [Next]_vars PROVE RegInv'
  OBVIOUS
<1> USE DEF serverVars, dbVars, outVars, markVars, orderVars
<1>0. /\ TypeInv /\ TypeInv' /\ TypeOK /\ IdentifiedBySpeaking
      /\ RegisteredSocketIsLive /\ OnlineIsExact /\ AnnouncementsAreTrue
  BY StepType DEF RegInv, TypeInv
<1>1. ASSUME NEW s \in Sockets, Accept(s) \/ Timeout(s) PROVE RegInv'
  <2>1. /\ \A t \in Sockets : Live(t) => Live(t)'
        /\ \A t \in Sockets : Live(t)' => Live(t) \/ imei[t] = None
        /\ \A t \in Sockets : sock'[t] = "fresh" => sock[t] = "fresh"
        /\ UNCHANGED <<imei, registry, announced, outlived, crashes>>
    BY <1>0, <1>1 DEF Accept, Timeout, TypeOK, Live, IdentifiedBySpeaking
  <2>2. IdentifiedBySpeaking' /\ RegisteredSocketIsLive'
    BY <1>0, <2>1 DEF TypeOK, IdentifiedBySpeaking, RegisteredSocketIsLive
  <2>3. \A k \in Imeis : Connected(k)' <=> Connected(k)
    BY <2>1, NoneAssumption DEF Connected
  <2>4. OnlineIsExact' /\ AnnouncementsAreTrue'
    BY <1>0, <2>1, <2>3 DEF OnlineIsExact, AnnouncementsAreTrue
  <2>5. QED BY <1>0, <2>2, <2>4 DEF RegInv
<1>2. ASSUME NEW s \in Sockets, Close(s) PROVE RegInv'
  <2>1. /\ Live(s)
        /\ \A t \in Sockets : Live(t)' <=> t # s /\ Live(t)
        /\ \A t \in Sockets : sock'[t] = "fresh" => sock[t] = "fresh"
        /\ imei' = imei /\ crashes' = crashes
    BY <1>0, <1>2 DEF Close, Unregister, TypeOK, Live
  <2>2. IdentifiedBySpeaking'
    BY <1>0, <2>1 DEF IdentifiedBySpeaking
  <2>3. \A k \in Imeis : k # imei[s] => (Connected(k)' <=> Connected(k))
    BY <2>1 DEF Connected
  <2>4. CASE imei[s] = None
    <3>1. registry' = registry /\ announced' = announced /\ outlived' = outlived
      BY <1>2, <2>4 DEF Close, Unregister
    <3>2. RegisteredSocketIsLive'
      BY <1>0, <2>1, <2>4, <3>1, NoneAssumption DEF TypeOK, RegisteredSocketIsLive
    <3>3. OnlineIsExact' /\ AnnouncementsAreTrue'
      BY <1>0, <2>1, <2>3, <2>4, <3>1, NoneAssumption DEF OnlineIsExact, AnnouncementsAreTrue
    <3>4. QED BY <1>0, <2>2, <3>2, <3>3 DEF RegInv
  <2>5. CASE imei[s] # None
    <3> DEFINE i == imei[s]
    <3>1. i \in Imeis
      BY <1>0, <2>5 DEF TypeOK
    <3>2. /\ \A k \in Imeis : registry'[k] = IF k = i THEN None ELSE registry[k]
          /\ \A k \in Imeis : announced'[k] = IF k = i THEN "disconnected" ELSE announced[k]
          /\ outlived' = OutlivedByClose(s)
      BY <1>0, <1>2, <2>5, <3>1 DEF Close, Unregister, TypeOK
    <3>3. RegisteredSocketIsLive'
      BY <1>0, <2>1, <3>1, <3>2 DEF TypeOK, RegisteredSocketIsLive
    <3>4. Connected(i)' => i \in outlived'
      BY <2>1, <3>2 DEF Connected, OutlivedByClose
    <3>5. \A k \in Imeis : k # i => (k \in outlived' <=> k \in outlived)
      BY <3>2 DEF OutlivedByClose
    <3>6. OnlineIsExact'
      BY <1>0, <2>1, <2>3, <3>1, <3>2, <3>4, <3>5 DEF OnlineIsExact
    <3>7. AnnouncementsAreTrue'
      BY <1>0, <2>1, <2>3, <3>1, <3>2, <3>4, <3>5 DEF AnnouncementsAreTrue
    <3>8. QED BY <1>0, <2>2, <3>3, <3>6, <3>7 DEF RegInv
  <2>6. QED BY <2>4, <2>5
<1>3. ASSUME NEW s \in Sockets, NEW r \in Reports, NEW j \in Jobs, HandleReportFrame(s, r, j)
      PROVE RegInv'
  BY <1>0, <1>3, RegisterReg DEF HandleReportFrame
<1>4. ASSUME NEW s \in Sockets, NEW i \in Imeis, HandleOtherFrame(s, i) PROVE RegInv'
  BY <1>0, <1>4, RegisterReg DEF HandleOtherFrame
<1>5. ASSUME NEW i \in Imeis,
             MarkDeviceConnected(i) \/ MarkDeviceDisconnected(i) \/ MarkFails(i)
      PROVE RegInv'
  BY <1>0, <1>5, ElsewhereReg DEF MarkDeviceConnected, MarkDeviceDisconnected, MarkFails
<1>6. ASSUME NEW j \in Jobs, SaveStep(j) PROVE RegInv'
  BY <1>0, <1>6, ElsewhereReg DEF SaveStep, ApplyUpsert, SendInsert, ApplyInsert,
       SaveSucceeds, SaveReturnsNull, SaveFails
<1>7. CASE Crash
  <2>1. /\ \A t \in Sockets : ~ Live(t)' /\ imei'[t] = None
        /\ \A k \in Imeis : registry'[k] = None
        /\ crashes' # 0
    BY <1>0, <1>7, CrashAssumption DEF Crash, TypeOK, Live
  <2>2. QED
    BY <1>0, <2>1, NoneAssumption DEF RegInv, IdentifiedBySpeaking,
         RegisteredSocketIsLive, OnlineIsExact, AnnouncementsAreTrue, Connected
<1>8. CASE UNCHANGED vars
  BY <1>0, <1>8, ElsewhereReg DEF vars
<1>9. QED
  BY <1>1, <1>2, <1>3, <1>4, <1>5, <1>6, <1>7, <1>8 DEF Next

\* The registry's invariant holds in every reachable state, where a socket
\* carries frames of one device.
THEOREM RegistryInvariance == OneImeiPerSocket => (Spec => []RegInv)
<1> SUFFICES ASSUME OneImeiPerSocket PROVE Spec => []RegInv
  OBVIOUS
<1>1. RegInv /\ [Next]_vars => RegInv'
  BY StepReg
<1>2. QED BY InitReg, <1>1, PTL DEF Spec

\* getSocket() never returns a closed connection or another device's, even
\* while an old and a new connection of a device overlap.
THEOREM RegistryIsLive == OneImeiPerSocket => (Spec => []RegisteredSocketIsLive)
<1>1. RegInv => RegisteredSocketIsLive
  BY DEF RegInv
<1>2. QED BY RegistryInvariance, <1>1, PTL

\* "Online" is exact, also where connections of a device overlap, except after
\* one of them has closed while another was live.
THEOREM OnlineExact == OneImeiPerSocket => (Spec => []OnlineIsExact)
<1>1. RegInv => OnlineIsExact
  BY DEF RegInv
<1>2. QED BY RegistryInvariance, <1>1, PTL

\* And until a crash, so is the last connection event published.
THEOREM AnnouncedExact == OneImeiPerSocket => (Spec => []AnnouncementsAreTrue)
<1>1. RegInv => AnnouncementsAreTrue
  BY DEF RegInv
<1>2. QED BY RegistryInvariance, <1>1, PTL

----------------------------------------------------------------------------
(* The column tcpConnected                                                 *)

\* What is known of a device about which no two statements have raced: those
\* on their way agree with its connections, and so does the column once they
\* have arrived; except that a device one of whose connections closed while
\* another was live may have been marked disconnected.
Told(i) ==
    /\ Connected(i) /\ i \notin outlived
          => ~ SayingFalse(i) /\ (SayingTrue(i) \/ tcpConnected[i])
    /\ ~ Connected(i) => ~ SayingTrue(i) /\ (SayingFalse(i) \/ ~ tcpConnected[i])

\* A connection that was not yet accepted stands for no device.
FreshIsUnnamed == \A s \in Sockets : sock[s] = "fresh" => imei[s] = None

\* The inductive invariant of the column.  It needs nothing of the registry.
ColumnInv ==
    /\ TypeInv
    /\ FreshIsUnnamed
    /\ \A i \in Imeis \ raced : Told(i)

LEMMA InitColumn == Init => ColumnInv
  BY InitType, NoneAssumption
  DEF Init, ColumnInv, FreshIsUnnamed, Told, Connected, Live, SayingTrue, SayingFalse

\* Steps of the statements: no socket is touched.
LEMMA SameSockets ==
  ASSUME ColumnInv, UNCHANGED <<sock, imei>>
  PROVE  /\ FreshIsUnnamed'
         /\ \A i \in Imeis : Connected(i)' <=> Connected(i)
  BY DEF ColumnInv, FreshIsUnnamed, Live, Connected

\* A call of saveReport() moving on, other than by its upsert.
LEMMA SameStatements ==
  ASSUME TypeOK, JobIsOfReport, NEW j \in Jobs, NEW ph \in Phases,
         job[j].phase \notin {"unused", "upserting"}, ph # "upserting",
         job' = [job EXCEPT ![j].phase = ph], connecting' = connecting
  PROVE  \A i \in Imeis : SayingTrue(i)' <=> SayingTrue(i)
<1>1. /\ job'[j].phase = ph
      /\ \A k \in Jobs : /\ job'[k].report = job[k].report
                         /\ k # j => job'[k].phase = job[k].phase
  BY SetPhase
<1>2. QED BY <1>1 DEF SayingTrue

\* A frame of device i, on a live socket s.
LEMMA FrameColumn ==
  ASSUME ColumnInv, TypeInv', NEW s \in Sockets, NEW i \in Imeis, NEW sends \in BOOLEAN,
         Live(s), UNCHANGED <<sock, disconnecting, tcpConnected>>,
         RegisterDevice(s, i), raced' = RacedByFrame(s, i, sends),
         sends => SayingTrue(i)', ~ sends => imei[s] = i,
         \A k \in Imeis : (k # i \/ ~ sends) => (SayingTrue(k)' <=> SayingTrue(k))
  PROVE  ColumnInv'
<1>1. TypeOK
  BY DEF ColumnInv, TypeInv
<1>2. \A t \in Sockets : (Live(t)' <=> Live(t)) /\ imei'[t] = IF t = s THEN i ELSE imei[t]
  BY <1>1 DEF Live, RegisterDevice, TypeOK
<1>3. FreshIsUnnamed'
  BY <1>2 DEF ColumnInv, FreshIsUnnamed, Live
<1>4. ASSUME NEW k \in Imeis, k \notin raced' PROVE Told(k)'
  <2>1. CASE k = i /\ sends
    <3>1. Connected(i)' /\ SayingTrue(i)'
      BY <1>2, <2>1 DEF Connected
    <3>2. ~ SayingFalse(i)
      BY <1>4, <2>1 DEF RacedByFrame, RacedByTrue
    <3>3. QED BY <2>1, <3>1, <3>2 DEF Told, SayingFalse
  <2>2. CASE k # i \/ ~ sends
    <3>1. k \notin raced
      BY <1>4, <2>2 DEF RacedByFrame, RacedByTrue
    <3>2. k = i \/ k # imei[s]
      BY <1>1, <1>4, <2>2, NoneAssumption DEF RacedByFrame, RacedByTrue
    <3>3. Connected(k)' <=> Connected(k)
      BY <1>2, <2>2, <3>2 DEF Connected
    <3>4. k \in outlived' <=> k \in outlived
      BY <2>2 DEF RegisterDevice
    <3>5. Told(k)
      BY <1>4, <3>1 DEF ColumnInv
    <3>6. QED BY <2>2, <3>3, <3>4, <3>5 DEF Told, SayingFalse
  <2>3. QED BY <2>1, <2>2
<1>5. QED BY <1>3, <1>4 DEF ColumnInv

\* Every step keeps the column's invariant.
LEMMA StepColumn == ColumnInv /\ [Next]_vars => ColumnInv'
<1> SUFFICES ASSUME ColumnInv, [Next]_vars PROVE ColumnInv'
  OBVIOUS
<1> USE DEF serverVars, dbVars, outVars, markVars, orderVars
<1>0. TypeInv /\ TypeInv' /\ TypeOK /\ JobIsOfReport /\ FreshIsUnnamed
  BY StepType DEF ColumnInv, TypeInv
<1>1. ASSUME NEW s \in Sockets, Accept(s) \/ Timeout(s) PROVE ColumnInv'
  <2>1. /\ \A t \in Sockets : Live(t) => Live(t)'
        /\ \A t \in Sockets : Live(t)' => Live(t) \/ imei[t] = None
        /\ \A t \in Sockets : sock'[t] = "fresh" => sock[t] = "fresh"
        /\ UNCHANGED <<imei, connecting, disconnecting, raced, job, tcpConnected, outlived>>
    BY <1>0, <1>1 DEF Accept, Timeout, TypeOK, Live, FreshIsUnnamed
  <2>2. FreshIsUnnamed'
    BY <1>0, <2>1 DEF FreshIsUnnamed
  <2>3. \A k \in Imeis : Connected(k)' <=> Connected(k)
    BY <2>1, NoneAssumption DEF Connected
  <2>4. \A k \in Imeis : /\ SayingTrue(k)' <=> SayingTrue(k)
                         /\ SayingFalse(k)' <=> SayingFalse(k)
    BY <2>1 DEF SayingTrue, SayingFalse
  <2>5. QED BY <1>0, <2>1, <2>2, <2>3, <2>4 DEF ColumnInv, Told
<1>2. ASSUME NEW s \in Sockets, Close(s) PROVE ColumnInv'
  <2>1. /\ Live(s)
        /\ \A t \in Sockets : Live(t)' <=> t # s /\ Live(t)
        /\ \A t \in Sockets : sock'[t] = "fresh" => sock[t] = "fresh"
        /\ UNCHANGED <<imei, job, tcpConnected>>
    BY <1>0, <1>2 DEF Close, TypeOK, Live
  <2>2. FreshIsUnnamed'
    BY <1>0, <2>1 DEF FreshIsUnnamed
  <2>3. \A k \in Imeis : k # imei[s] => (Connected(k)' <=> Connected(k))
    BY <2>1 DEF Connected
  <2>4. CASE imei[s] = None
    <3>1. \A k \in Imeis : /\ SayingTrue(k)' <=> SayingTrue(k)
                           /\ SayingFalse(k)' <=> SayingFalse(k)
                           /\ k # imei[s]
          /\ raced' = raced /\ outlived' = outlived
      BY <1>2, <2>1, <2>4, NoneAssumption DEF Close, SayingTrue, SayingFalse
    <3>2. QED BY <1>0, <2>1, <2>2, <2>3, <3>1 DEF ColumnInv, Told
  <2>5. CASE imei[s] # None
    <3> DEFINE i == imei[s]
    <3>1. i \in Imeis
      BY <1>0, <2>5 DEF TypeOK
    <3>2. /\ raced' = RacedByFalse(i, raced) /\ outlived' = OutlivedByClose(s)
          /\ \A k \in Imeis : SayingTrue(k)' <=> SayingTrue(k)
          /\ \A k \in Imeis : SayingFalse(k)' <=> k = i \/ SayingFalse(k)
      BY <1>0, <1>2, <2>1, <2>5, <3>1 DEF Close, TypeOK, SayingTrue, SayingFalse
    <3>3. ASSUME NEW k \in Imeis, k \notin raced' PROVE Told(k)'
      <4>1. CASE k = i
        <5>1. ~ SayingTrue(k)' /\ SayingFalse(k)'
          BY <3>1, <3>2, <3>3, <4>1 DEF RacedByFalse
        <5>2. Connected(k)' => k \in outlived'
          BY <2>1, <3>2, <4>1 DEF Connected, OutlivedByClose
        <5>3. QED BY <5>1, <5>2 DEF Told
      <4>2. CASE k # i
        <5>1. k \notin raced
          BY <3>2, <3>3, <4>2 DEF RacedByFalse
        <5>2. Told(k)
          BY <3>3, <5>1 DEF ColumnInv
        <5>3. k \in outlived' <=> k \in outlived
          BY <3>2, <4>2 DEF OutlivedByClose
        <5>4. QED BY <2>1, <2>3, <3>2, <4>2, <5>2, <5>3 DEF Told
      <4>3. QED BY <4>1, <4>2
    <3>4. QED BY <1>0, <2>2, <3>3 DEF ColumnInv
  <2>6. QED BY <2>4, <2>5
<1>3. ASSUME NEW s \in Sockets, NEW r \in Reports, NEW j \in Jobs, HandleReportFrame(s, r, j)
      PROVE ColumnInv'
  <2> DEFINE i == Owner[r]
             sends == imei[s] # i \/ r \notin Undecodable
  <2>1. /\ i \in Imeis /\ Live(s) /\ RegisterDevice(s, i)
        /\ raced' = RacedByFrame(s, i, sends)
        /\ UNCHANGED <<sock, disconnecting, tcpConnected>>
    BY <1>3, OwnerAssumption DEF HandleReportFrame
  <2>2. /\ job[j].phase = "unused" /\ job'[j].report = r
        /\ job'[j].phase = IF r \in Undecodable THEN "empty" ELSE "upserting"
        /\ \A k \in Jobs : k # j => job'[k] = job[k]
    BY <1>0, <1>3 DEF HandleReportFrame, TypeOK
  <2>3. \A k \in Imeis : connecting'[k] = IF k = i /\ imei[s] # i THEN connecting[k] + 1
                                                                  ELSE connecting[k]
    BY <1>0, <2>1 DEF RegisterDevice, TypeOK
  <2>4. sends => SayingTrue(i)'
    <3>1. CASE imei[s] # i
      <4>1. connecting[i] \in Nat /\ connecting'[i] = connecting[i] + 1
        BY <1>0, <2>1, <2>3, <3>1 DEF TypeOK
      <4>2. QED BY <4>1 DEF SayingTrue
    <3>2. CASE r \notin Undecodable
      BY <2>2, <3>2 DEF SayingTrue
    <3>3. QED BY <3>1, <3>2
  <2>5. ASSUME NEW k \in Imeis, k # i \/ ~ sends PROVE SayingTrue(k)' <=> SayingTrue(k)
    <3>1. connecting'[k] = connecting[k]
      BY <2>3, <2>5
    <3>2. \A n \in Jobs : (job'[n].phase = "upserting" /\ Owner[job'[n].report] = k)
                              <=> (job[n].phase = "upserting" /\ Owner[job[n].report] = k)
      BY <2>2, <2>5
    <3>3. QED BY <3>1, <3>2 DEF SayingTrue
  <2>6. ~ sends => imei[s] = i
    OBVIOUS
  <2> HIDE DEF sends
  <2>7. QED
    <3>1. sends \in BOOLEAN
      BY DEF sends
    <3>2. QED BY <1>0, <2>1, <2>4, <2>5, <2>6, <3>1, FrameColumn
<1>4. ASSUME NEW s \in Sockets, NEW i \in Imeis, HandleOtherFrame(s, i) PROVE ColumnInv'
  <2> DEFINE sends == imei[s] # i
  <2>1. /\ Live(s) /\ RegisterDevice(s, i) /\ job' = job
        /\ raced' = RacedByFrame(s, i, sends)
        /\ UNCHANGED <<sock, disconnecting, tcpConnected>>
    BY <1>4 DEF HandleOtherFrame
  <2>2. /\ connecting[i] \in Nat
        /\ \A k \in Imeis : connecting'[k] = IF k = i /\ sends THEN connecting[k] + 1
                                                               ELSE connecting[k]
    BY <1>0, <2>1 DEF RegisterDevice, TypeOK
  <2>3. sends => SayingTrue(i)'
    BY <2>2 DEF SayingTrue
  <2>4. \A k \in Imeis : (k # i \/ ~ sends) => (SayingTrue(k)' <=> SayingTrue(k))
    BY <2>1, <2>2 DEF SayingTrue
  <2>5. sends \in BOOLEAN /\ (~ sends => imei[s] = i)
    OBVIOUS
  <2> HIDE DEF sends
  <2>6. QED BY <1>0, <2>1, <2>3, <2>4, <2>5, FrameColumn
<1>5. ASSUME NEW i \in Imeis, MarkDeviceConnected(i) PROVE ColumnInv'
  <2>1. /\ UNCHANGED <<sock, imei, outlived, raced, disconnecting, job>>
        /\ SayingTrue(i) /\ tcpConnected'[i]
        /\ \A k \in Imeis : k # i => /\ tcpConnected'[k] = tcpConnected[k]
                                     /\ SayingTrue(k)' <=> SayingTrue(k)
        /\ \A k \in Imeis : SayingFalse(k)' <=> SayingFalse(k)
    BY <1>0, <1>5 DEF MarkDeviceConnected, TypeOK, SayingTrue, SayingFalse
  <2>2. QED BY <1>0, <2>1, SameSockets DEF ColumnInv, Told
<1>6. ASSUME NEW i \in Imeis, MarkDeviceDisconnected(i) PROVE ColumnInv'
  <2>1. /\ UNCHANGED <<sock, imei, outlived, raced, connecting, job>>
        /\ SayingFalse(i) /\ ~ tcpConnected'[i]
        /\ \A k \in Imeis : k # i => /\ tcpConnected'[k] = tcpConnected[k]
                                     /\ SayingFalse(k)' <=> SayingFalse(k)
        /\ \A k \in Imeis : SayingTrue(k)' <=> SayingTrue(k)
    BY <1>0, <1>6 DEF MarkDeviceDisconnected, TypeOK, SayingTrue, SayingFalse
  <2>2. QED BY <1>0, <2>1, SameSockets DEF ColumnInv, Told
<1>7. ASSUME NEW i \in Imeis, MarkFails(i) PROVE ColumnInv'
  <2>1. /\ UNCHANGED <<sock, imei, outlived, job, tcpConnected>> /\ raced' = raced \cup {i}
        /\ \A k \in Imeis : k # i => /\ SayingFalse(k)' <=> SayingFalse(k)
                                     /\ SayingTrue(k)' <=> SayingTrue(k)
    BY <1>0, <1>7 DEF MarkFails, TypeOK, SayingTrue, SayingFalse
  <2>2. QED BY <1>0, <2>1, SameSockets DEF ColumnInv, Told
<1>8. ASSUME NEW j \in Jobs, ApplyUpsert(j) PROVE ColumnInv'
  <2>1. job[j].phase # "unused" /\ "upserted" \in Phases
    BY <1>8 DEF ApplyUpsert, InFlight, Phases
  <2>2. /\ Device(j) \in Imeis /\ job'[j].phase = "upserted"
        /\ \A k \in Jobs : job'[k].report = job[k].report
        /\ \A k \in Jobs : k # j => job'[k].phase = job[k].phase
    BY <1>0, <1>8, <2>1, SetPhase DEF ApplyUpsert, Device
  <2>3. /\ UNCHANGED <<sock, imei, outlived, raced, connecting, disconnecting>>
        /\ SayingTrue(Device(j)) /\ tcpConnected'[Device(j)]
        /\ \A k \in Imeis : k # Device(j) => tcpConnected'[k] = tcpConnected[k]
    BY <1>0, <1>8, <2>2 DEF ApplyUpsert, TypeOK, SayingTrue, Device
  <2>4. \A k \in Imeis : /\ k # Device(j) => (SayingTrue(k)' <=> SayingTrue(k))
                         /\ SayingFalse(k)' <=> SayingFalse(k)
    BY <2>2, <2>3 DEF SayingTrue, SayingFalse, Device
  <2>5. QED BY <1>0, <2>2, <2>3, <2>4, SameSockets DEF ColumnInv, Told
<1>9. ASSUME NEW j \in Jobs,
              SendInsert(j) \/ ApplyInsert(j) \/ SaveSucceeds(j) \/ SaveReturnsNull(j)
       PROVE ColumnInv'
  <2>1. /\ job[j].phase \notin {"unused", "upserting"}
        /\ UNCHANGED <<sock, imei, outlived, raced, connecting, disconnecting, tcpConnected>>
    BY <1>9 DEF SendInsert, ApplyInsert, SaveSucceeds, SaveReturnsNull
  <2>2. PICK ph \in Phases : ph # "upserting" /\ job' = [job EXCEPT ![j].phase = ph]
    BY <1>9 DEF SendInsert, ApplyInsert, SaveSucceeds, SaveReturnsNull, Phases, InFlight, Settled
  <2>3. \A k \in Imeis : (SayingTrue(k)' <=> SayingTrue(k)) /\ (SayingFalse(k)' <=> SayingFalse(k))
    BY <1>0, <2>1, <2>2, SameStatements DEF SayingFalse
  <2>4. QED BY <1>0, <2>1, <2>3, SameSockets DEF ColumnInv, Told
<1>10. ASSUME NEW j \in Jobs, SaveFails(j) PROVE ColumnInv'
  <2>1. /\ job[j].phase # "unused" /\ "failed" \in Phases
        /\ UNCHANGED <<sock, imei, outlived, connecting, disconnecting, tcpConnected>>
    BY <1>10 DEF SaveFails, InFlight, Settled, Phases
  <2>2. /\ Device(j) \in Imeis /\ job'[j].phase = "failed"
        /\ \A k \in Jobs : job'[k].report = job[k].report
        /\ \A k \in Jobs : k # j => job'[k].phase = job[k].phase
    BY <1>0, <1>10, <2>1, SetPhase DEF SaveFails, Device
  <2>3. raced \subseteq raced' /\ (job[j].phase = "upserting" => Device(j) \in raced')
    BY <1>10 DEF SaveFails
  <2>4. \A k \in Imeis \ raced' : /\ SayingTrue(k)' <=> SayingTrue(k)
                                  /\ SayingFalse(k)' <=> SayingFalse(k)
    BY <2>1, <2>2, <2>3 DEF SayingTrue, SayingFalse, Device
  <2>5. QED BY <1>0, <2>1, <2>3, <2>4, SameSockets DEF ColumnInv, Told
<1>11. CASE Crash
  <2>1. raced' = Imeis /\ \A t \in Sockets : ~ Live(t)' /\ imei'[t] = None
    BY <1>0, <1>11 DEF Crash, TypeOK, Live
  <2>2. QED BY <1>0, <2>1 DEF ColumnInv, FreshIsUnnamed
<1>12. CASE UNCHANGED vars
  <2>1. UNCHANGED <<sock, imei, outlived, raced, connecting, disconnecting, tcpConnected, job>>
    BY <1>12 DEF vars
  <2>2. \A k \in Imeis : (SayingTrue(k)' <=> SayingTrue(k)) /\ (SayingFalse(k)' <=> SayingFalse(k))
    BY <2>1 DEF SayingTrue, SayingFalse
  <2>3. QED BY <1>0, <2>1, <2>2, SameSockets DEF ColumnInv, Told
<1>13. QED
  BY <1>1, <1>2, <1>3, <1>4, <1>5, <1>6, <1>7, <1>8, <1>9, <1>10, <1>11, <1>12
  DEF Next, SaveStep

\* tcp_connected is right, for any number of sockets, devices and calls and
\* whatever devices share a socket, about every device nothing is on its way
\* about, but after the events raced and outlived record.
THEOREM ColumnExact == Spec => []ConnectedColumnIsExact
<1>1. ColumnInv => ConnectedColumnIsExact
  BY DEF ColumnInv, Told, ConnectedColumnIsExact
<1>2. QED BY InitColumn, StepColumn, <1>1, PTL DEF Spec
=============================================================================
