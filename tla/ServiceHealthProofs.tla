-------------------------- MODULE ServiceHealthProofs --------------------------
(***************************************************************************)
(* Proofs about ServiceHealth, for any callers, streams and durations.     *)
(***************************************************************************)
EXTENDS ServiceHealth, FiniteSetTheorems, TLAPS

(***************************************************************************)
(* The inductive invariant                                                 *)
(***************************************************************************)

ReportsAreFinite == IsFiniteSet(reports)

(* isConnecting is of one caller.  Who waits or goes on has a connection,  *)
(* an attempt to wait for, or an excuse.                                   *)
AttemptIsOne ==
  /\ isConnecting <=> \E c \in Caller : pc[c] = "connecting"
  /\ \A c, d \in Caller : pc[c] = "connecting" /\ pc[d] = "connecting" => c = d
  /\ \A c \in Caller : pc[c] \in {"waiting", "returned"} =>
       readyState \/ c \in excused \/ (pc[c] = "waiting" /\ isConnecting)

(* What is remembered of alerts is what was sent.                          *)
AlertIsRemembered == lastAlert.status = sent.last /\ lastAlert.at = sent.alert.at

(* The reports of a stream begin at least an interval apart, whoever has   *)
(* left it; one whose body is not late is younger than that.               *)
ReportsAreApart ==
  /\ \A r, q \in reports : r.by = q.by /\ r.started <= q.started =>
       r = q \/ r.started + Interval <= q.started
  /\ \A r \in reports :
       /\ r.started <= now
       /\ r.lateBody \/ now <= r.started + Timeout
       /\ streams[r.by].listening => r.started + Interval <= streams[r.by].due

(* The interval of a stream is set once, after its first report.           *)
IntervalsAreSetOnce ==
  /\ \A s \in Stream : streams[s].listening => streams[s].due # 0
  /\ \A r \in reports : streams[r.by].due = 0 => streams[r.by].open \/ streams[r.by].left
  /\ IntervalsEnd

(* What the dashboard has received is no later than a report to come,      *)
(* or an interval later.                                                   *)
NewestIsReceived ==
  /\ dashboard.newest <= now
  /\ \A r \in reports : r.by = dashboard.source =>
       dashboard.newest <= r.started \/ r.started + Interval <= dashboard.newest
  /\ DashboardShowsTheLatest

IInv ==
  /\ HealthTypeOK /\ ReportsAreFinite /\ AttemptIsOne /\ AlertIsRemembered
  /\ ReportsAreApart /\ IntervalsAreSetOnce /\ NewestIsReceived

(***************************************************************************)
(* Reports                                                                 *)
(***************************************************************************)

(* The worst of three statuses is one of them.                             *)
LEMMA WorstOfThree ==
  ASSUME NEW a \in Status, NEW b \in Status, NEW c \in Status
  PROVE  computeOverallStatus({a, b, c}) \in {a, b, c}
<1>1. \A x \in Status : rank(x) \in {0, 1, 2}
  BY DEF Status, rank
<1>2. rank(a) \in {0, 1, 2} /\ rank(b) \in {0, 1, 2} /\ rank(c) \in {0, 1, 2}
  BY <1>1
<1>3. \E x \in {a, b, c} : \A other \in {a, b, c} : rank(other) <= rank(x)
  BY <1>2
<1> QED
  BY <1>3 DEF computeOverallStatus

(* A report tells the worst of three probes.                               *)
worst(polygon, ipfs, database) == computeOverallStatus({polygon, ipfs, database})
LEMMA ReportTellsTheWorst ==
  ASSUME NEW r, NEW s \in overallStatus(r)
  PROVE  \E polygon \in checkPolygonHealth : \E ipfs \in checkIpfsHealth :
           \E database \in checkDatabaseHealth(r) : s = worst(polygon, ipfs, database)
<1>1. \E polygon \in checkPolygonHealth : \E ipfs \in checkIpfsHealth :
        \E database \in checkDatabaseHealth(r) :
          s = computeOverallStatus({polygon, ipfs, database})
  BY SMTT(30) DEF overallStatus
<1> QED
  BY <1>1, Zenon DEF worst

LEMMA ReportsTellAStatus ==
  ASSUME NEW r, NEW status \in overallStatus(r)
  PROVE  status \in Status
<1>1. \A polygon, ipfs, database \in Status : worst(polygon, ipfs, database) \in Status
  BY WorstOfThree DEF worst
<1>2. /\ checkPolygonHealth \subseteq Status /\ checkIpfsHealth \subseteq Status
      /\ checkDatabaseHealth(r) \subseteq Status
  BY DEF checkPolygonHealth, checkIpfsHealth, checkDatabaseHealth, Status
<1> QED
  BY <1>1, <1>2, ReportTellsTheWorst

(* A report that begins is one more, within the bound.                     *)
startedOne(s) ==
  /\ started(s) \in Report /\ reports' = reports \cup {started(s)}
  /\ started(s).by = s /\ started(s).started = now /\ started(s).lateBody = FALSE
  /\ IsFiniteSet(reports') /\ Cardinality(reports') <= MaxReports

LEMMA StartedOne ==
  ASSUME HealthAssumption, HealthTypeOK, ReportsAreFinite, NEW s \in Stream, startReport(s)
  PROVE  startedOne(s)
<1>1. /\ started(s) \in Report
      /\ started(s).by = s /\ started(s).started = now /\ started(s).lateBody = FALSE
  BY DEF HealthTypeOK, started, Report
<1>2. /\ IsFiniteSet(reports \cup {started(s)})
      /\ Cardinality(reports \cup {started(s)}) = Cardinality(reports) + 1
  BY FS_AddElement DEF startReport, ReportsAreFinite
<1>3. Cardinality(reports) \in Nat /\ MaxReports \in Nat /\ Cardinality(reports) < MaxReports
  BY FS_CardinalityType DEF HealthAssumption, startReport, ReportsAreFinite
<1> QED
  BY <1>1, <1>2, <1>3 DEF startReport, startedOne

(* A report that hangs is the same one, marked as late.                    *)
late(r) == [r EXCEPT !.lateBody = TRUE]
hungOne(r) ==
  /\ late(r) \in Report /\ reports' = (reports \ {r}) \cup {late(r)}
  /\ late(r).by = r.by /\ late(r).started = r.started /\ late(r).lateBody = TRUE
  /\ IsFiniteSet(reports') /\ Cardinality(reports') <= MaxReports

LEMMA HungOne ==
  ASSUME HealthAssumption, HealthTypeOK, ReportsAreFinite, NEW r \in reports, hang(r)
  PROVE  hungOne(r)
<1>1. /\ late(r) \in Report
      /\ late(r).by = r.by /\ late(r).started = r.started /\ late(r).lateBody = TRUE
  BY DEF HealthTypeOK, late, Report
<1>2. /\ IsFiniteSet(reports \ {r}) /\ Cardinality(reports \ {r}) = Cardinality(reports) - 1
  BY FS_RemoveElement DEF ReportsAreFinite
<1>3. /\ IsFiniteSet((reports \ {r}) \cup {late(r)})
      /\ Cardinality((reports \ {r}) \cup {late(r)}) \in
           {Cardinality(reports \ {r}), Cardinality(reports \ {r}) + 1}
  BY <1>2, FS_AddElement
<1>4. Cardinality(reports) \in Nat /\ MaxReports \in Nat /\ Cardinality(reports) <= MaxReports
  BY FS_CardinalityType DEF HealthAssumption, HealthTypeOK, ReportsAreFinite
<1>5. reports' = (reports \ {r}) \cup {late(r)}
  BY DEF hang, late
<1> QED
  BY <1>1, <1>2, <1>3, <1>4, <1>5 DEF hungOne

(* A report that ends is one less, told to its listeners once.             *)
endedOne(r) ==
  /\ \E status \in Status :
       /\ lastAlert' = alertAfter(status) /\ dashboard' = received(r, status)
       /\ sent' = [alert |-> IF shouldSendAlert(status) THEN [status |-> status, at |-> now]
                             ELSE sent.alert,
                   last |-> status]
  /\ reports' = reports \ {r} /\ streams' = [streams EXCEPT ![r.by] = afterReport(r.by)]
  /\ IsFiniteSet(reports') /\ Cardinality(reports') <= MaxReports
  /\ UNCHANGED <<now, databaseVars>>

LEMMA EndedOne ==
  ASSUME HealthAssumption, HealthTypeOK, ReportsAreFinite, NEW r \in reports, reportEnds(r)
  PROVE  endedOne(r)
<1>1. /\ IsFiniteSet(reports \ {r}) /\ Cardinality(reports \ {r}) = Cardinality(reports) - 1
  BY FS_RemoveElement DEF ReportsAreFinite
<1>2. Cardinality(reports) \in Nat /\ MaxReports \in Nat /\ Cardinality(reports) <= MaxReports
  BY FS_CardinalityType DEF HealthAssumption, HealthTypeOK, ReportsAreFinite
<1>3. Cardinality(reports \ {r}) <= MaxReports
  BY <1>1, <1>2
<1>4. PICK status \in overallStatus(r) : report(status) /\ dashboard' = received(r, status)
  BY DEF reportEnds
<1>5. status \in Status
  BY ReportsTellAStatus
<1> QED
  BY <1>1, <1>3, <1>4, <1>5 DEF reportEnds, endedOne, report

(* Each step keeps every variable in its type and the reports in bound.    *)
LEMMA StepType ==
  ASSUME HealthAssumption, IInv, [HealthNext]_healthVars
  PROVE  HealthTypeOK'
<1> USE HealthAssumption DEF IInv, HealthTypeOK
<1>1. ASSUME NEW c \in Caller, connectDatabase(c) PROVE HealthTypeOK'
  BY <1>1 DEF connectDatabase, reportsUnchanged, returned, Stage
<1>2. ASSUME NEW c \in Caller, attemptEnds(c) PROVE HealthTypeOK'
  BY <1>2 DEF attemptEnds, reportsUnchanged, returned, Stage
<1>3. ASSUME NEW c \in Caller, waiterPolls(c) PROVE HealthTypeOK'
  BY <1>3 DEF waiterPolls, reportsUnchanged, returned, Stage
<1>4. ASSUME NEW c \in Caller, useDatabase(c) PROVE HealthTypeOK'
  BY <1>4 DEF useDatabase, reportsUnchanged, returned, Stage
<1>5. ASSUME loseConnection PROVE HealthTypeOK'
  BY <1>5 DEF loseConnection, reportsUnchanged, returned, Stage
<1>6. ASSUME reconnect PROVE HealthTypeOK'
  BY <1>6 DEF reconnect, reportsUnchanged, returned, Stage
<1>7. ASSUME NEW r \in reports, hang(r) PROVE HealthTypeOK'
  BY <1>7, HungOne DEF ReportsAreFinite, hang, hungOne, databaseVars
<1>8. ASSUME NEW r \in reports, reportEnds(r) PROVE HealthTypeOK'
  <2>1. endedOne(r)
    BY <1>8, EndedOne DEF ReportsAreFinite
  <2>2. /\ reports' \subseteq Report /\ Cardinality(reports') <= MaxReports
        /\ UNCHANGED <<now, databaseVars>>
    BY <2>1 DEF endedOne
  <2>3. r.by \in Stream /\ r.started \in 0..MaxTime /\ r.lateBody \in BOOLEAN
    BY DEF Report
  <2>4. PICK status \in Status :
           lastAlert' = alertAfter(status) /\ dashboard' = received(r, status)
    BY <2>1 DEF endedOne
  <2>5. lastAlert' \in [status : Status \cup {"none"}, at : 0..MaxTime]
    BY <2>4 DEF alertAfter, Status
  <2>6. streams' \in [Stream -> StreamState]
    <3>1. streams[r.by] \in StreamState
      BY <2>3
    <3>2. now + Interval \in Nat
      BY DEF HealthAssumption
    <3>3. afterReport(r.by) \in StreamState
      BY <3>1, <3>2 DEF afterReport, StreamState
    <3> QED
      BY <2>1, <2>3, <3>3 DEF endedOne
  <2>7. dashboard' \in Dashboard
    BY <2>3, <2>4 DEF received, Dashboard
  <2> QED
    BY <2>2, <2>5, <2>6, <2>7 DEF databaseVars
<1>9. ASSUME NEW s \in Stream, openStream(s) PROVE HealthTypeOK'
  <2>1. startedOne(s)
    BY <1>9, StartedOne DEF openStream, ReportsAreFinite
  <2>2. reports' \subseteq Report /\ Cardinality(reports') <= MaxReports
    BY <2>1 DEF startedOne
  <2>3. streams' \in [Stream -> StreamState]
    BY <1>9 DEF openStream, NoConnection, StreamState
  <2>4. dashboard' \in Dashboard
    <3>1. 0 \in 0..MaxTime /\ dashboard \in Dashboard
      BY DEF HealthAssumption
    <3>2. dashboard' = [dashboard EXCEPT !.source = s, !.of = 0, !.newest = 0, !.lateBody = FALSE]
      BY <1>9 DEF openStream
    <3> HIDE DEF HealthTypeOK
    <3> QED
      BY <3>1, <3>2 DEF Dashboard
  <2> QED
    BY <1>9, <2>2, <2>3, <2>4 DEF openStream, databaseVars
<1>10. ASSUME NEW s \in Stream, intervalFires(s) PROVE HealthTypeOK'
  <2>1. startedOne(s)
    BY <1>10, StartedOne DEF intervalFires, ReportsAreFinite
  <2>2. reports' \subseteq Report /\ Cardinality(reports') <= MaxReports
    BY <2>1 DEF startedOne
  <2>3. now + Interval \in Nat
    BY DEF HealthAssumption
  <2>4. streams' \in [Stream -> StreamState]
    BY <1>10, <2>3 DEF intervalFires, StreamState
  <2> QED
    BY <1>10, <2>2, <2>4 DEF intervalFires, databaseVars
<1>11. ASSUME NEW s \in Stream, closeStream(s) PROVE HealthTypeOK'
  BY <1>11 DEF closeStream, StreamState, Dashboard, databaseVars
<1>12. ASSUME restart PROVE HealthTypeOK'
  <2>1. Cardinality({}) <= MaxReports
    BY FS_EmptySet DEF HealthAssumption
  <2>2. 0 \in 0..MaxTime
    BY DEF HealthAssumption
  <2>3. lastAlert' \in [status : Status \cup {"none"}, at : 0..MaxTime]
    BY <1>12, <2>2 DEF restart, NoAlert
  <2>4. streams' \in [Stream -> StreamState]
    BY <1>12 DEF restart, StreamState, NoConnection
  <2>5. dashboard' \in Dashboard
    BY <1>12 DEF restart, Dashboard
  <2> QED
    BY <1>12, <2>1, <2>3, <2>4, <2>5 DEF restart, Stage
<1>13. ASSUME tick PROVE HealthTypeOK'
  BY <1>13 DEF tick, databaseVars, HealthAssumption
<1>14. ASSUME UNCHANGED healthVars PROVE HealthTypeOK'
  BY <1>14 DEF healthVars, databaseVars
<1> HIDE DEF HealthTypeOK
<1> QED
  BY <1>1, <1>2, <1>3, <1>4, <1>5, <1>6, <1>7, <1>8, <1>9, <1>10, <1>11, <1>12, <1>13, <1>14
     DEF HealthNext

(* There are finitely many reports.                                        *)
LEMMA StepFinite ==
  ASSUME HealthAssumption, IInv, [HealthNext]_healthVars
  PROVE  ReportsAreFinite'
<1> USE HealthAssumption DEF IInv, ReportsAreFinite
<1>1. ASSUME NEW c \in Caller, connectDatabase(c) PROVE ReportsAreFinite'
  BY <1>1 DEF connectDatabase, reportsUnchanged
<1>2. ASSUME NEW c \in Caller, attemptEnds(c) PROVE ReportsAreFinite'
  BY <1>2 DEF attemptEnds, reportsUnchanged
<1>3. ASSUME NEW c \in Caller, waiterPolls(c) PROVE ReportsAreFinite'
  BY <1>3 DEF waiterPolls, reportsUnchanged
<1>4. ASSUME NEW c \in Caller, useDatabase(c) PROVE ReportsAreFinite'
  BY <1>4 DEF useDatabase, reportsUnchanged
<1>5. ASSUME loseConnection PROVE ReportsAreFinite'
  BY <1>5 DEF loseConnection, reportsUnchanged
<1>6. ASSUME reconnect PROVE ReportsAreFinite'
  BY <1>6 DEF reconnect, reportsUnchanged
<1>7. ASSUME NEW r \in reports, hang(r) PROVE ReportsAreFinite'
  BY <1>7, HungOne DEF hungOne
<1>8. ASSUME NEW r \in reports, reportEnds(r) PROVE ReportsAreFinite'
  BY <1>8, EndedOne DEF endedOne
<1>9. ASSUME NEW s \in Stream, openStream(s) PROVE ReportsAreFinite'
  BY <1>9, StartedOne DEF startedOne, openStream
<1>10. ASSUME NEW s \in Stream, intervalFires(s) PROVE ReportsAreFinite'
  BY <1>10, StartedOne DEF startedOne, intervalFires
<1>11. ASSUME NEW s \in Stream, closeStream(s) PROVE ReportsAreFinite'
  BY <1>11 DEF closeStream
<1>12. ASSUME restart PROVE ReportsAreFinite'
  BY <1>12, FS_EmptySet DEF restart
<1>13. ASSUME tick PROVE ReportsAreFinite'
  BY <1>13 DEF tick
<1>14. ASSUME UNCHANGED healthVars PROVE ReportsAreFinite'
  BY <1>14 DEF healthVars, databaseVars
<1> HIDE DEF ReportsAreFinite
<1> QED
  BY <1>1, <1>2, <1>3, <1>4, <1>5, <1>6, <1>7, <1>8, <1>9, <1>10, <1>11, <1>12, <1>13, <1>14
     DEF HealthNext

(* An attempt begins when there is none, and is ended by who began it.     *)
LEMMA StepAttempt ==
  ASSUME HealthAssumption, IInv, [HealthNext]_healthVars
  PROVE  AttemptIsOne'
<1> USE HealthAssumption DEF IInv, HealthTypeOK, AttemptIsOne
<1>1. ASSUME NEW c \in Caller, connectDatabase(c) PROVE AttemptIsOne'
  BY <1>1 DEF connectDatabase, returned
<1>2. ASSUME NEW c \in Caller, attemptEnds(c) PROVE AttemptIsOne'
  BY <1>2 DEF attemptEnds, returned
<1>3. ASSUME NEW c \in Caller, waiterPolls(c) PROVE AttemptIsOne'
  BY <1>3 DEF waiterPolls, returned
<1>4. ASSUME NEW c \in Caller, useDatabase(c) PROVE AttemptIsOne'
  BY <1>4 DEF useDatabase, returned
<1>5. ASSUME loseConnection PROVE AttemptIsOne'
  BY <1>5 DEF loseConnection, returned
<1>6. ASSUME reconnect PROVE AttemptIsOne'
  BY <1>6 DEF reconnect, returned
<1>7. ASSUME NEW r \in reports, hang(r) PROVE AttemptIsOne'
  BY <1>7 DEF hang, databaseVars
<1>8. ASSUME NEW r \in reports, reportEnds(r) PROVE AttemptIsOne'
  BY <1>8 DEF reportEnds, databaseVars
<1>9. ASSUME NEW s \in Stream, openStream(s) PROVE AttemptIsOne'
  BY <1>9 DEF openStream, databaseVars
<1>10. ASSUME NEW s \in Stream, intervalFires(s) PROVE AttemptIsOne'
  BY <1>10 DEF intervalFires, databaseVars
<1>11. ASSUME NEW s \in Stream, closeStream(s) PROVE AttemptIsOne'
  BY <1>11 DEF closeStream, databaseVars
<1>12. ASSUME restart PROVE AttemptIsOne'
  BY <1>12 DEF restart, returned
<1>13. ASSUME tick PROVE AttemptIsOne'
  BY <1>13 DEF tick, databaseVars
<1>14. ASSUME UNCHANGED healthVars PROVE AttemptIsOne'
  BY <1>14 DEF healthVars, databaseVars
<1> HIDE DEF AttemptIsOne
<1> QED
  BY <1>1, <1>2, <1>3, <1>4, <1>5, <1>6, <1>7, <1>8, <1>9, <1>10, <1>11, <1>12, <1>13, <1>14
     DEF HealthNext

(* lastAlert changes with what is sent.                                    *)
LEMMA StepAlert ==
  ASSUME HealthAssumption, IInv, [HealthNext]_healthVars
  PROVE  AlertIsRemembered'
<1> USE HealthAssumption DEF IInv, AlertIsRemembered
<1>1. ASSUME NEW c \in Caller, connectDatabase(c) PROVE AlertIsRemembered'
  BY <1>1 DEF connectDatabase, reportsUnchanged
<1>2. ASSUME NEW c \in Caller, attemptEnds(c) PROVE AlertIsRemembered'
  BY <1>2 DEF attemptEnds, reportsUnchanged
<1>3. ASSUME NEW c \in Caller, waiterPolls(c) PROVE AlertIsRemembered'
  BY <1>3 DEF waiterPolls, reportsUnchanged
<1>4. ASSUME NEW c \in Caller, useDatabase(c) PROVE AlertIsRemembered'
  BY <1>4 DEF useDatabase, reportsUnchanged
<1>5. ASSUME loseConnection PROVE AlertIsRemembered'
  BY <1>5 DEF loseConnection, reportsUnchanged
<1>6. ASSUME reconnect PROVE AlertIsRemembered'
  BY <1>6 DEF reconnect, reportsUnchanged
<1>7. ASSUME NEW r \in reports, hang(r) PROVE AlertIsRemembered'
  BY <1>7 DEF hang
<1>8. ASSUME NEW r \in reports, reportEnds(r) PROVE AlertIsRemembered'
  BY <1>8, EndedOne DEF endedOne, HealthTypeOK, alertAfter, shouldSendAlert
<1>9. ASSUME NEW s \in Stream, openStream(s) PROVE AlertIsRemembered'
  BY <1>9 DEF openStream
<1>10. ASSUME NEW s \in Stream, intervalFires(s) PROVE AlertIsRemembered'
  BY <1>10 DEF intervalFires
<1>11. ASSUME NEW s \in Stream, closeStream(s) PROVE AlertIsRemembered'
  BY <1>11 DEF closeStream
<1>12. ASSUME restart PROVE AlertIsRemembered'
  BY <1>12 DEF restart, NoAlert, NothingSent
<1>13. ASSUME tick PROVE AlertIsRemembered'
  BY <1>13 DEF tick
<1>14. ASSUME UNCHANGED healthVars PROVE AlertIsRemembered'
  BY <1>14 DEF healthVars, databaseVars
<1> HIDE DEF AlertIsRemembered
<1> QED
  BY <1>1, <1>2, <1>3, <1>4, <1>5, <1>6, <1>7, <1>8, <1>9, <1>10, <1>11, <1>12, <1>13, <1>14
     DEF HealthNext

(* What the steps of reports need to know of numbers.                      *)
timesAreNumbers ==
  /\ now \in Nat /\ Timeout \in Nat /\ Interval \in Nat /\ Timeout < Interval
  /\ \A r \in reports : r.started \in Nat /\ r.by \in Stream /\ r.lateBody \in BOOLEAN
  /\ streams \in [Stream -> StreamState]
  /\ \A s \in Stream :
       streams[s].due \in Nat /\ streams[s].open \in BOOLEAN
       /\ streams[s].listening \in BOOLEAN /\ streams[s].left \in BOOLEAN
  /\ dashboard \in Dashboard /\ dashboard.newest \in Nat /\ dashboard.of \in Nat
LEMMA TimesAreNumbers ==
  ASSUME HealthAssumption, HealthTypeOK PROVE timesAreNumbers
<1>1. now \in Nat
  BY DEF HealthAssumption, HealthTypeOK
<1>2. \A r \in reports : r.started \in Nat /\ r.by \in Stream /\ r.lateBody \in BOOLEAN
  BY DEF HealthAssumption, HealthTypeOK, Report
<1>3. /\ streams \in [Stream -> StreamState]
      /\ \A s \in Stream :
           streams[s].due \in Nat /\ streams[s].open \in BOOLEAN
           /\ streams[s].listening \in BOOLEAN /\ streams[s].left \in BOOLEAN
  BY DEF HealthTypeOK, StreamState
<1>4. dashboard \in Dashboard /\ dashboard.newest \in Nat /\ dashboard.of \in Nat
  BY DEF HealthAssumption, HealthTypeOK, Dashboard
<1> QED
  BY <1>1, <1>2, <1>3, <1>4 DEF HealthAssumption, timesAreNumbers

(* A new report is an interval later than the others of its stream.        *)
LEMMA StepApart ==
  ASSUME HealthAssumption, IInv, [HealthNext]_healthVars
  PROVE  ReportsAreApart'
<1>0. timesAreNumbers
  BY TimesAreNumbers DEF IInv
<1> USE <1>0 DEF timesAreNumbers, IInv, ReportsAreApart
<1>1. ASSUME NEW c \in Caller, connectDatabase(c) PROVE ReportsAreApart'
  BY <1>1 DEF connectDatabase, reportsUnchanged
<1>2. ASSUME NEW c \in Caller, attemptEnds(c) PROVE ReportsAreApart'
  BY <1>2 DEF attemptEnds, reportsUnchanged
<1>3. ASSUME NEW c \in Caller, waiterPolls(c) PROVE ReportsAreApart'
  BY <1>3 DEF waiterPolls, reportsUnchanged
<1>4. ASSUME NEW c \in Caller, useDatabase(c) PROVE ReportsAreApart'
  BY <1>4 DEF useDatabase, reportsUnchanged
<1>5. ASSUME loseConnection PROVE ReportsAreApart'
  BY <1>5 DEF loseConnection, reportsUnchanged
<1>6. ASSUME reconnect PROVE ReportsAreApart'
  BY <1>6 DEF reconnect, reportsUnchanged
<1>7. ASSUME NEW r \in reports, hang(r) PROVE ReportsAreApart'
  <2>1. hungOne(r) /\ ~r.lateBody /\ UNCHANGED <<now, streams>>
    BY <1>7, HungOne DEF IInv, hang
  <2>2. \A x \in reports' : \E p \in reports :
          /\ p.by = x.by /\ p.started = x.started
          /\ x = (IF p = r THEN late(r) ELSE p)
          /\ p = r => x.lateBody
    BY <2>1 DEF hungOne
  <2>3. \A x, y \in reports' : x.by = y.by /\ x.started <= y.started =>
          x = y \/ x.started + Interval <= y.started
    BY <2>2
  <2>4. \A x \in reports' :
          /\ x.started <= now /\ (x.lateBody \/ now <= x.started + Timeout)
          /\ streams[x.by].listening => x.started + Interval <= streams[x.by].due
    BY <2>2
  <2> QED
    BY <2>1, <2>3, <2>4
<1>8. ASSUME NEW r \in reports, reportEnds(r) PROVE ReportsAreApart'
  BY <1>8 DEF reportEnds, afterReport
<1>9. ASSUME NEW s \in Stream, openStream(s) PROVE ReportsAreApart'
  <2>1. startedOne(s) /\ now' = now /\ \A r \in reports : r.by # s
    BY <1>9, StartedOne DEF IInv, openStream, serving
  <2>2. \A x \in Stream : streams'[x].listening =>
          x # s /\ streams'[x] = streams[x]
    BY <1>9 DEF openStream, NoConnection
  <2> QED
    BY <2>1, <2>2 DEF startedOne
<1>10. ASSUME NEW s \in Stream, intervalFires(s) PROVE ReportsAreApart'
  <2>1. startedOne(s) /\ now' = now /\ streams[s].listening /\ streams[s].due = now
    BY <1>10, StartedOne DEF IInv, intervalFires
  <2>2. /\ streams'[s].due = now + Interval
        /\ \A x \in Stream : x # s => streams'[x] = streams[x]
    BY <1>10 DEF intervalFires
  <2>3. \A r \in reports : r.by = s => r.started + Interval <= now
    BY <2>1
  <2> QED
    BY <2>1, <2>2, <2>3 DEF startedOne
<1>11. ASSUME NEW s \in Stream, closeStream(s) PROVE ReportsAreApart'
  BY <1>11 DEF closeStream
<1>12. ASSUME restart PROVE ReportsAreApart'
  BY <1>12 DEF restart
<1>13. ASSUME tick PROVE ReportsAreApart'
  BY <1>13 DEF tick
<1>14. ASSUME UNCHANGED healthVars PROVE ReportsAreApart'
  BY <1>14 DEF healthVars, databaseVars
<1> HIDE DEF ReportsAreApart
<1> QED
  BY <1>1, <1>2, <1>3, <1>4, <1>5, <1>6, <1>7, <1>8, <1>9, <1>10, <1>11, <1>12, <1>13, <1>14
     DEF HealthNext

(* The first report sets the interval, of a stream still open or left.     *)
LEMMA StepIntervals ==
  ASSUME HealthAssumption, IInv, [HealthNext]_healthVars
  PROVE  IntervalsAreSetOnce'
<1>0. timesAreNumbers
  BY TimesAreNumbers DEF IInv
<1> USE <1>0 DEF timesAreNumbers, IInv, IntervalsAreSetOnce, IntervalsEnd
<1>1. ASSUME NEW c \in Caller, connectDatabase(c) PROVE IntervalsAreSetOnce'
  BY <1>1 DEF connectDatabase, reportsUnchanged
<1>2. ASSUME NEW c \in Caller, attemptEnds(c) PROVE IntervalsAreSetOnce'
  BY <1>2 DEF attemptEnds, reportsUnchanged
<1>3. ASSUME NEW c \in Caller, waiterPolls(c) PROVE IntervalsAreSetOnce'
  BY <1>3 DEF waiterPolls, reportsUnchanged
<1>4. ASSUME NEW c \in Caller, useDatabase(c) PROVE IntervalsAreSetOnce'
  BY <1>4 DEF useDatabase, reportsUnchanged
<1>5. ASSUME loseConnection PROVE IntervalsAreSetOnce'
  BY <1>5 DEF loseConnection, reportsUnchanged
<1>6. ASSUME reconnect PROVE IntervalsAreSetOnce'
  BY <1>6 DEF reconnect, reportsUnchanged
<1>7. ASSUME NEW r \in reports, hang(r) PROVE IntervalsAreSetOnce'
  <2>1. hungOne(r) /\ UNCHANGED streams
    BY <1>7, HungOne DEF hang
  <2>2. \A x \in reports' : \E p \in reports : p.by = x.by
    BY <2>1 DEF hungOne
  <2> QED
    BY <2>1, <2>2
<1>8. ASSUME NEW r \in reports, reportEnds(r) PROVE IntervalsAreSetOnce'
  BY <1>8 DEF reportEnds, afterReport
<1>9. ASSUME NEW s \in Stream, openStream(s) PROVE IntervalsAreSetOnce'
  <2>1. /\ startedOne(s) /\ streams'[s].open /\ ~streams'[s].listening
        /\ \A x \in Stream : x # s => streams'[x] = streams[x]
    BY <1>9, StartedOne DEF openStream, NoConnection
  <2> QED
    BY <2>1 DEF startedOne
<1>10. ASSUME NEW s \in Stream, intervalFires(s) PROVE IntervalsAreSetOnce'
  <2>1. /\ startedOne(s) /\ streams[s].listening
        /\ streams'[s].open = streams[s].open /\ streams'[s].left = streams[s].left
        /\ streams'[s].due # 0
        /\ \A x \in Stream : x # s => streams'[x] = streams[x]
    BY <1>10, StartedOne DEF intervalFires
  <2> QED
    BY <2>1 DEF startedOne
<1>11. ASSUME NEW s \in Stream, closeStream(s) PROVE IntervalsAreSetOnce'
  BY <1>11 DEF closeStream
<1>12. ASSUME restart PROVE IntervalsAreSetOnce'
  BY <1>12 DEF restart, NoConnection
<1>13. ASSUME tick PROVE IntervalsAreSetOnce'
  BY <1>13 DEF tick
<1>14. ASSUME UNCHANGED healthVars PROVE IntervalsAreSetOnce'
  BY <1>14 DEF healthVars, databaseVars
<1> HIDE DEF IntervalsAreSetOnce
<1> QED
  BY <1>1, <1>2, <1>3, <1>4, <1>5, <1>6, <1>7, <1>8, <1>9, <1>10, <1>11, <1>12, <1>13, <1>14
     DEF HealthNext

(* A report that ends after a later one is a late one.                     *)
LEMMA StepNewest ==
  ASSUME HealthAssumption, IInv, [HealthNext]_healthVars
  PROVE  NewestIsReceived'
<1>0. timesAreNumbers
  BY TimesAreNumbers DEF IInv
<1> USE <1>0 DEF timesAreNumbers, IInv, NewestIsReceived, DashboardShowsTheLatest
<1>1. ASSUME NEW c \in Caller, connectDatabase(c) PROVE NewestIsReceived'
  BY <1>1 DEF connectDatabase, reportsUnchanged
<1>2. ASSUME NEW c \in Caller, attemptEnds(c) PROVE NewestIsReceived'
  BY <1>2 DEF attemptEnds, reportsUnchanged
<1>3. ASSUME NEW c \in Caller, waiterPolls(c) PROVE NewestIsReceived'
  BY <1>3 DEF waiterPolls, reportsUnchanged
<1>4. ASSUME NEW c \in Caller, useDatabase(c) PROVE NewestIsReceived'
  BY <1>4 DEF useDatabase, reportsUnchanged
<1>5. ASSUME loseConnection PROVE NewestIsReceived'
  BY <1>5 DEF loseConnection, reportsUnchanged
<1>6. ASSUME reconnect PROVE NewestIsReceived'
  BY <1>6 DEF reconnect, reportsUnchanged
<1>7. ASSUME NEW r \in reports, hang(r) PROVE NewestIsReceived'
  BY <1>7, HungOne DEF hang, hungOne
<1>8. ASSUME NEW r \in reports, reportEnds(r) PROVE NewestIsReceived'
  <2>1. /\ reports' = reports \ {r} /\ r \in reports /\ now' = now
        /\ \E status \in Status : dashboard' = received(r, status)
    BY <1>8, EndedOne DEF reportEnds, endedOne
  <2>2. CASE dashboard.source # r.by
    BY <2>1, <2>2 DEF received
  <2>3. CASE dashboard.source = r.by
    <3>1. /\ dashboard'.source = r.by /\ dashboard'.of = r.started
          /\ dashboard'.newest =
               IF r.started > dashboard.newest THEN r.started ELSE dashboard.newest
          /\ dashboard'.lateBody = (dashboard.lateBody \/ r.lateBody)
      BY <2>1, <2>3 DEF received
    <3>2. dashboard.newest <= r.started \/ r.started + Interval <= dashboard.newest
      BY <2>1, <2>3
    <3>3. dashboard.newest <= now /\ r.started <= now
          /\ (r.lateBody \/ now <= r.started + Timeout)
      BY <2>1 DEF ReportsAreApart
    <3>4. r.started + Interval <= dashboard.newest => r.lateBody
      BY <2>1, <3>3
    <3>5. \A q \in reports : q.by = r.by =>
            q = r \/ r.started <= q.started \/ q.started + Interval <= r.started
      BY <2>1 DEF ReportsAreApart
    <3>6. \A q \in reports' : q.by = r.by =>
            dashboard'.newest <= q.started \/ q.started + Interval <= dashboard'.newest
      BY <2>1, <2>3, <3>1, <3>2, <3>5
    <3> QED
      BY <2>1, <3>1, <3>2, <3>3, <3>4, <3>6
  <2> QED
    BY <2>2, <2>3
<1>9. ASSUME NEW s \in Stream, openStream(s) PROVE NewestIsReceived'
  <2>1. /\ startedOne(s) /\ now' = now /\ dashboard'.source = s /\ dashboard'.newest = 0
        /\ dashboard'.of = 0
    BY <1>9, StartedOne DEF openStream
  <2>2. \A r \in reports : r.by # s
    BY <1>9 DEF openStream, serving
  <2> QED
    BY <2>1, <2>2 DEF startedOne
<1>10. ASSUME NEW s \in Stream, intervalFires(s) PROVE NewestIsReceived'
  BY <1>10, StartedOne DEF intervalFires, startedOne
<1>11. ASSUME NEW s \in Stream, closeStream(s) PROVE NewestIsReceived'
  BY <1>11 DEF closeStream, HealthAssumption
<1>12. ASSUME restart PROVE NewestIsReceived'
  BY <1>12 DEF restart, HealthAssumption
<1>13. ASSUME tick PROVE NewestIsReceived'
  BY <1>13 DEF tick
<1>14. ASSUME UNCHANGED healthVars PROVE NewestIsReceived'
  BY <1>14 DEF healthVars, databaseVars
<1> HIDE DEF NewestIsReceived
<1> QED
  BY <1>1, <1>2, <1>3, <1>4, <1>5, <1>6, <1>7, <1>8, <1>9, <1>10, <1>11, <1>12, <1>13, <1>14
     DEF HealthNext

(* The connection is up, and there is no report and no stream.             *)
LEMMA InitInv == HealthAssumption /\ HealthInit => IInv
<1> SUFFICES ASSUME HealthAssumption, HealthInit PROVE IInv
  OBVIOUS
<1>1. IsFiniteSet({}) /\ Cardinality({}) = 0
  BY FS_EmptySet
<1>2. HealthTypeOK
  <2>1. 0 \in 0..MaxTime /\ 0 <= MaxReports /\ now = 0
    BY DEF HealthAssumption, HealthInit
  <2>2. lastAlert \in [status : Status \cup {"none"}, at : 0..MaxTime]
    BY <2>1 DEF HealthInit, NoAlert
  <2>3. streams \in [Stream -> StreamState]
    BY DEF HealthInit, StreamState, NoConnection
  <2>4. dashboard \in Dashboard
    BY <2>1 DEF HealthInit, Dashboard
  <2> QED
    BY <1>1, <2>1, <2>2, <2>3, <2>4 DEF HealthInit, HealthTypeOK, Stage
<1>3. ReportsAreFinite /\ AttemptIsOne
  BY <1>1 DEF HealthInit, ReportsAreFinite, AttemptIsOne
<1>4. AlertIsRemembered
  BY DEF HealthInit, AlertIsRemembered, NoAlert, NothingSent
<1>5. ReportsAreApart /\ IntervalsAreSetOnce /\ NewestIsReceived
  BY DEF HealthInit, ReportsAreApart, IntervalsAreSetOnce, IntervalsEnd, NewestIsReceived,
         DashboardShowsTheLatest, NoConnection
<1> QED
  BY <1>2, <1>3, <1>4, <1>5 DEF IInv

(* Every step of the backend, of its streams and of time keeps it.         *)
LEMMA StepInv == HealthAssumption /\ IInv /\ [HealthNext]_healthVars => IInv'
<1> SUFFICES ASSUME HealthAssumption, IInv, [HealthNext]_healthVars PROVE IInv'
  OBVIOUS
<1>1. HealthTypeOK' /\ ReportsAreFinite' /\ AttemptIsOne' /\ AlertIsRemembered'
  BY StepType, StepFinite, StepAttempt, StepAlert
<1>2. ReportsAreApart' /\ IntervalsAreSetOnce' /\ NewestIsReceived'
  BY StepApart, StepIntervals, StepNewest
<1> QED
  BY <1>1, <1>2 DEF IInv

(* The inductive invariant of the services around the certificates.        *)
THEOREM HealthInvariance == HealthSpec => []IInv
<1>1. HealthAssumption
  BY HealthAssumption
<1> QED
  BY <1>1, InitInv, StepInv, PTL DEF HealthSpec

(***************************************************************************)
(* The properties                                                          *)
(***************************************************************************)

(* isConnecting is TRUE while exactly one caller's connection attempt is   *)
(* under way, and a caller that connectDatabase lets go on has a           *)
(* connection, unless it was lost since or the attempt it waited for       *)
(* failed (database.ts).                                                   *)
THEOREM ConnectionAttemptIsShared == HealthSpec => []ConnectionIsShared
<1>1. IInv => OneAttempt
  <2> SUFFICES ASSUME IInv PROVE OneAttempt
    OBVIOUS
  <2> DEFINE connecting == {c \in Caller : pc[c] = "connecting"}
  <2>1. isConnecting \in BOOLEAN
    BY DEF IInv, HealthTypeOK
  <2>2. CASE isConnecting
    <3>1. PICK c \in Caller : pc[c] = "connecting"
      BY <2>2 DEF IInv, AttemptIsOne
    <3>2. connecting = {c}
      BY <3>1 DEF IInv, AttemptIsOne
    <3> QED
      BY <2>2, <3>2, FS_Singleton DEF OneAttempt
  <2>3. CASE ~isConnecting
    <3>1. connecting = {}
      BY <2>3 DEF IInv, AttemptIsOne
    <3> QED
      BY <2>3, <3>1, FS_EmptySet DEF OneAttempt
  <2> QED
    BY <2>1, <2>2, <2>3
<1>2. IInv => HealthTypeOK /\ ConnectedUnlessExcused
  BY DEF IInv, AttemptIsOne, ConnectedUnlessExcused
<1> QED
  BY <1>1, <1>2, HealthInvariance, PTL DEF ConnectionIsShared

(* The dashboard shows the report that began last of those it received,    *)
(* unless the body of one was late, and an interval ends with its client   *)
(* but for one that left before the first report was written.              *)
THEOREM DashboardIsUpToDate == HealthSpec => []StreamTellsTheLatest
<1>1. IInv => StreamTellsTheLatest
  BY DEF IInv, IntervalsAreSetOnce, NewestIsReceived, StreamTellsTheLatest
<1> QED
  BY <1>1, HealthInvariance, PTL

(* However the reports of several readers interleave, each change to an    *)
(* unhealthy status is alerted at once, and the same status not again      *)
(* within the cooldown (architecture.service.ts, sendAlertIfNeeded).       *)
THEOREM AlertsAreNeitherLostNorRepeated == HealthSpec => AlertsFollowTheStatus
<1> DEFINE P == /\ sent'.last # sent.last /\ sent'.last \in {"degraded", "down"} =>
                     sent'.alert = [status |-> sent'.last, at |-> now]
                /\ sent'.alert # sent.alert /\ sent'.last = sent.last
                   /\ sent'.alert # NoAlert => now - sent.alert.at > Cooldown
<1>1. ASSUME HealthAssumption, IInv, [HealthNext]_healthVars PROVE P
  <2>1. ASSUME NEW r \in reports, reportEnds(r) PROVE P
    <3>1. PICK status \in Status :
            sent' = [alert |-> IF shouldSendAlert(status) THEN [status |-> status, at |-> now]
                               ELSE sent.alert,
                     last |-> status]
      BY <1>1, <2>1, EndedOne DEF endedOne, IInv
    <3>2. lastAlert.status = sent.last /\ lastAlert.at = sent.alert.at
      BY <1>1 DEF IInv, AlertIsRemembered
    <3> QED
      BY <3>1, <3>2 DEF shouldSendAlert
  <2>2. ASSUME restart PROVE P
    BY <2>2 DEF restart, NothingSent
  <2>3. ASSUME sent' = sent PROVE P
    BY <2>3
  <2>4. (\E r \in reports : reportEnds(r)) \/ restart \/ sent' = sent
    BY <1>1 DEF HealthNext, connectDatabase, attemptEnds, waiterPolls, useDatabase,
       loseConnection, reconnect, hang, openStream, intervalFires, closeStream, tick,
       reportsUnchanged, healthVars
  <2> QED
    BY <2>1, <2>2, <2>3, <2>4
<1>2. HealthAssumption
  BY HealthAssumption
<1> QED
  BY <1>1, <1>2, HealthInvariance, PTL DEF HealthSpec, AlertsFollowTheStatus

================================================================================
