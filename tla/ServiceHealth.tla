----------------------------- MODULE ServiceHealth -----------------------------
(***************************************************************************)
(* The services around the certificates: the shared MongoDB connection of  *)
(* config/database.ts, the reports of architecture.service.ts with their   *)
(* alerts, the stream of them (architecture.controller.ts) and the         *)
(* dashboard that listens to it (RealtimeArchitectureStatus.tsx).          *)
(*                                                                         *)
(* Time is discrete.  A probe ends within Timeout, but for the body of     *)
(* Pinata's answer, which is read outside withTimeout: a report that waits *)
(* for it hangs.  ALERT_WEBHOOK_URL is set.                                *)
(***************************************************************************)
EXTENDS Naturals, FiniteSets

CONSTANTS
  Caller,      (* requests and jobs that need MongoDB, each used again *)
  Stream,      (* connections to the stream, each used again *)
  NoStream,
  Timeout,     (* the longest withTimeout, 5 s *)
  Interval,    (* between two reports of a stream, 15 s *)
  Cooldown,    (* ALERT_COOLDOWN_MS, 5 min *)
  MaxTime,     (* a bound *)
  MaxReports   (* reports under way at once, a bound *)

ASSUME HealthAssumption ==
  /\ NoStream \notin Stream
  /\ Timeout \in Nat /\ Interval \in Nat /\ Timeout < Interval
  /\ Cooldown \in Nat /\ MaxTime \in Nat /\ MaxReports \in Nat

VARIABLES
  now,
  readyState,    (* of mongoose.connection, 1 or not *)
  isConnecting,
  pc,            (* of the callers of connectDatabase *)
  excused,       (* history: callers that went on as the connection failed them *)
  reports,       (* reports under way *)
  lastAlert,     (* lastAlertStatus and lastAlertAt *)
  sent,          (* history: the last alert, and the last status reported *)
  streams,       (* the server's side of the connections *)
  dashboard      (* the browser's side *)

databaseVars == <<readyState, isConnecting, pc, excused>>
healthVars == <<now, databaseVars, reports, lastAlert, sent, streams, dashboard>>

Status == {"healthy", "degraded", "down"}
Stage == {"idle", "waiting", "connecting", "returned"}

(* lateBody, history: its body was read after Timeout.                     *)
Report == [by : Stream, started : 0..MaxTime, connected : BOOLEAN, lateBody : BOOLEAN]

(* listening: the interval and the listener of close are set, which is     *)
(* after the first report; left, history: the client left before that.     *)
StreamState == [open : BOOLEAN, listening : BOOLEAN, due : Nat, left : BOOLEAN]
NoConnection == [open |-> FALSE, listening |-> FALSE, due |-> 0, left |-> FALSE]
serving(s) == streams[s].open \/ streams[s].listening \/ \E r \in reports : r.by = s

(* of, newest and lateBody are history: the start of the report shown, the *)
(* latest start of one received, and that a late body was among them.      *)
Dashboard ==
  [source : Stream \cup {NoStream}, status : Status \cup {"unknown"},
   of : 0..MaxTime, newest : 0..MaxTime, lateBody : BOOLEAN]
NoAlert == [status |-> "none", at |-> 0]
NothingSent == [alert |-> NoAlert, last |-> "none"]

(* bootstrap has connected before the backend listens.                     *)
HealthInit ==
  /\ now = 0
  /\ readyState = TRUE /\ isConnecting = FALSE
  /\ pc = [c \in Caller |-> "idle"] /\ excused = {}
  /\ reports = {}
  /\ lastAlert = NoAlert /\ sent = NothingSent
  /\ streams = [s \in Stream |-> NoConnection]
  /\ dashboard = [source |-> NoStream, status |-> "unknown", of |-> 0,
                  newest |-> 0, lateBody |-> FALSE]

------------------------------------------------------------------------------
(* The connection *)

reportsUnchanged == UNCHANGED <<now, reports, lastAlert, sent, streams, dashboard>>
returned(c) == pc' = [pc EXCEPT ![c] = "returned"]

connectDatabase(c) ==
  /\ pc[c] = "idle"
  /\ pc' = [pc EXCEPT ![c] = IF readyState THEN "returned"
                             ELSE IF isConnecting THEN "waiting" ELSE "connecting"]
  /\ isConnecting' = (isConnecting \/ ~readyState)
  /\ excused' = excused \ {c}
  /\ UNCHANGED readyState
  /\ reportsUnchanged

(* mongoose.connect answers, or throws after serverSelectionTimeoutMS: the *)
(* caller's request fails, and those that wait learn nothing of it.        *)
attemptEnds(c) ==
  /\ pc[c] = "connecting" /\ isConnecting' = FALSE
  /\ \/ readyState' = TRUE /\ returned(c) /\ UNCHANGED excused
     \/ /\ pc' = [pc EXCEPT ![c] = "idle"]
        /\ excused' = excused \cup {w \in Caller : pc[w] = "waiting"}
        /\ UNCHANGED readyState
  /\ reportsUnchanged

(* Mutant: the loop looks once, and not at the flag.                       *)
waiterPolls_Once(c) ==
  /\ pc[c] = "waiting" /\ returned(c)
  /\ UNCHANGED <<readyState, isConnecting, excused>>
  /\ reportsUnchanged

(* A waiter looks every 50 ms; another attempt may have begun meanwhile.   *)
waiterPolls(c) ==
  /\ pc[c] = "waiting" /\ ~isConnecting /\ returned(c)
  /\ UNCHANGED <<readyState, isConnecting, excused>>
  /\ reportsUnchanged

(* The caller's query, which mongoose keeps for later if it must.          *)
useDatabase(c) ==
  /\ pc[c] = "returned" /\ pc' = [pc EXCEPT ![c] = "idle"]
  /\ excused' = excused \ {c}
  /\ UNCHANGED <<readyState, isConnecting>>
  /\ reportsUnchanged

(* The driver loses its servers, and finds them again by itself.           *)
loseConnection ==
  /\ readyState /\ readyState' = FALSE
  /\ excused' = excused \cup {c \in Caller : pc[c] \in {"waiting", "returned"}}
  /\ UNCHANGED <<isConnecting, pc>>
  /\ reportsUnchanged

reconnect ==
  /\ ~readyState /\ readyState' = TRUE
  /\ UNCHANGED <<isConnecting, pc, excused>>
  /\ reportsUnchanged

------------------------------------------------------------------------------
(* Reports and alerts *)

rank(status) == CASE status = "healthy" -> 0 [] status = "degraded" -> 1 [] OTHER -> 2
computeOverallStatus(services) ==
  CHOOSE status \in services : \A other \in services : rank(other) <= rank(status)

(* Polygon is degraded on another network or without the contract.         *)
checkPolygonHealth == Status
checkIpfsHealth == {"healthy", "down"}
checkDatabaseHealth(r) == IF r.connected THEN {"healthy", "down"} ELSE {"down"}

overallStatus(r) ==
  {computeOverallStatus({polygon, ipfs, database}) :
     polygon \in checkPolygonHealth, ipfs \in checkIpfsHealth,
     database \in checkDatabaseHealth(r)}

started(s) == [by |-> s, started |-> now, connected |-> readyState, lateBody |-> FALSE]
startReport(s) ==
  /\ Cardinality(reports) < MaxReports /\ started(s) \notin reports
  /\ reports' = reports \cup {started(s)}

(* Mutant: a report of healthy is not remembered.                          *)
alertAfter_NoReset(status) ==
  IF status # "healthy" /\ (lastAlert.status # status \/ now - lastAlert.at > Cooldown)
  THEN [status |-> status, at |-> now] ELSE lastAlert

shouldSendAlert(status) ==
  /\ status # "healthy"
  /\ lastAlert.status # status \/ now - lastAlert.at > Cooldown

(* The webhook is not awaited: one that fails counts as an alert.          *)
alertAfter(status) ==
  IF shouldSendAlert(status) THEN [status |-> status, at |-> now]
  ELSE IF status = "healthy" THEN [lastAlert EXCEPT !.status = "healthy"] ELSE lastAlert

report(status) ==
  /\ lastAlert' = alertAfter(status)
  /\ sent' = [alert |-> IF shouldSendAlert(status) THEN [status |-> status, at |-> now]
                        ELSE sent.alert,
              last |-> status]

(* A body that is not read when the timer is over: the report hangs.       *)
hang(r) ==
  /\ r \in reports /\ ~r.lateBody /\ now = r.started + Timeout
  /\ reports' = (reports \ {r}) \cup {[r EXCEPT !.lateBody = TRUE]}
  /\ UNCHANGED <<now, databaseVars, lastAlert, sent, streams, dashboard>>

------------------------------------------------------------------------------
(* The stream and the dashboard *)

openStream(s) ==
  /\ dashboard.source = NoStream /\ ~serving(s)
  /\ startReport(s)
  /\ streams' = [streams EXCEPT ![s] = [NoConnection EXCEPT !.open = TRUE]]
  /\ dashboard' = [dashboard EXCEPT !.source = s, !.of = 0, !.newest = 0,
                     !.lateBody = FALSE]
  /\ UNCHANGED <<now, databaseVars, lastAlert, sent>>

received(r, status) ==
  IF dashboard.source # r.by THEN dashboard
  ELSE [dashboard EXCEPT !.status = status, !.of = r.started,
          !.newest = IF r.started > @ THEN r.started ELSE @,
          !.lateBody = @ \/ r.lateBody]

(* Mutant: every report sets the interval.                                 *)
afterReport_Rearms(s) == [streams[s] EXCEPT !.listening = TRUE, !.due = now + Interval]

(* After the first report the interval is set, also for a client that has  *)
(* left: its close event is over.                                          *)
afterReport(s) ==
  IF streams[s].listening THEN streams[s]
  ELSE IF streams[s].due # 0 THEN streams[s]
  ELSE [streams[s] EXCEPT !.listening = TRUE, !.due = now + Interval]

reportEnds(r) ==
  /\ r \in reports
  /\ \E status \in overallStatus(r) : report(status) /\ dashboard' = received(r, status)
  /\ reports' = reports \ {r}
  /\ streams' = [streams EXCEPT ![r.by] = afterReport(r.by)]
  /\ UNCHANGED <<now, databaseVars>>

intervalFires(s) ==
  /\ streams[s].listening /\ now = streams[s].due
  /\ startReport(s)
  /\ streams' = [streams EXCEPT ![s].due = now + Interval]
  /\ UNCHANGED <<now, databaseVars, lastAlert, sent, dashboard>>

(* The connection ends; the dashboard's EventSource will open another.     *)
closeStream(s) ==
  /\ streams[s].open
  /\ streams' = [streams EXCEPT ![s] =
       [@ EXCEPT !.open = FALSE, !.left = ~streams[s].listening, !.listening = FALSE]]
  /\ dashboard' = [dashboard EXCEPT !.source = NoStream, !.status = "unknown"]
  /\ UNCHANGED <<now, databaseVars, reports, lastAlert, sent>>

(* The backend starts anew, and bootstrap connects before it listens.      *)
restart ==
  /\ readyState' = TRUE /\ isConnecting' = FALSE
  /\ pc' = [c \in Caller |-> "idle"] /\ excused' = {}
  /\ reports' = {}
  /\ lastAlert' = NoAlert /\ sent' = NothingSent
  /\ streams' = [s \in Stream |-> NoConnection]
  /\ dashboard' = [dashboard EXCEPT !.source = NoStream, !.status = "unknown"]
  /\ UNCHANGED now

(* Time passes up to the end of a timer.                                   *)
tick ==
  /\ now < MaxTime /\ now' = now + 1
  /\ \A r \in reports : r.lateBody \/ now < r.started + Timeout
  /\ \A s \in Stream : streams[s].listening => now < streams[s].due
  /\ UNCHANGED <<databaseVars, reports, lastAlert, sent, streams, dashboard>>

HealthNext ==
  \/ \E c \in Caller : connectDatabase(c) \/ attemptEnds(c) \/ waiterPolls(c)
                       \/ useDatabase(c)
  \/ loseConnection
  \/ reconnect
  \/ \E r \in reports : hang(r) \/ reportEnds(r)
  \/ \E s \in Stream : openStream(s) \/ intervalFires(s) \/ closeStream(s)
  \/ restart
  \/ tick
HealthSpec == HealthInit /\ [][HealthNext]_healthVars

------------------------------------------------------------------------------
(* Properties *)

(* The state is well typed, and the shared connection attempt keeps its    *)
(* promise: a caller goes on with a connection, unless it was lost since   *)
(* or the attempt it waited for failed, of which it is not told            *)
(* (database.ts 12-17).                                                    *)
HealthTypeOK ==
  /\ now \in 0..MaxTime
  /\ readyState \in BOOLEAN /\ isConnecting \in BOOLEAN
  /\ pc \in [Caller -> Stage] /\ excused \subseteq Caller
  /\ reports \subseteq Report /\ Cardinality(reports) <= MaxReports
  /\ lastAlert \in [status : Status \cup {"none"}, at : 0..MaxTime]
  /\ streams \in [Stream -> StreamState] /\ dashboard \in Dashboard
OneAttempt ==
  LET connecting == {c \in Caller : pc[c] = "connecting"}
  IN Cardinality(connecting) = IF isConnecting THEN 1 ELSE 0
ConnectedUnlessExcused ==
  \A c \in Caller : pc[c] = "returned" => readyState \/ c \in excused
ConnectionIsShared == HealthTypeOK /\ OneAttempt /\ ConnectedUnlessExcused

(* However the reports of several readers interleave, each change to an    *)
(* unhealthy status is alerted at once, and the same status not again      *)
(* within the cooldown (architecture.service 197-223).                     *)
AlertsFollowTheStatus ==
  [][/\ sent'.last # sent.last /\ sent'.last \in {"degraded", "down"} =>
          sent'.alert = [status |-> sent'.last, at |-> now]
     /\ sent'.alert # sent.alert /\ sent'.last = sent.last /\ sent'.alert # NoAlert =>
          now - sent.alert.at > Cooldown]_healthVars

(* The dashboard shows the report that began last of those it received,    *)
(* unless the body of one was read after the timeouts; and the interval of *)
(* a stream ends with its client, unless that left before the first report *)
(* was written (architecture.controller 33-42, architecture.service        *)
(* 107-120).                                                               *)
DashboardShowsTheLatest ==
  dashboard.status # "unknown" /\ ~dashboard.lateBody => dashboard.of = dashboard.newest
IntervalsEnd ==
  \A s \in Stream : streams[s].listening => streams[s].open \/ streams[s].left
StreamTellsTheLatest == DashboardShowsTheLatest /\ IntervalsEnd

================================================================================
