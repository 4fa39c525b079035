---------------------------- MODULE EventStreams ----------------------------
(***************************************************************************)
(* Event streams and the update status (cloud/message_handler.go).  The    *)
(* first client to connect is the primary one: its connection id is kept   *)
(* in a global while its EventStream lasts.  StartUpdateEngine starts a    *)
(* goroutine, UpdateStatusStream, that reports the progress of the update  *)
(* to all streams as long as that id is set, and shares the last progress  *)
(* it reported with later requests through two more globals.               *)
(***************************************************************************)
EXTENDS Integers, FiniteSets

CONSTANTS Streams,     \* EventStream calls
          Ids,         \* the connection ids of clients, one of which may be ""
          StartRequests,    \* StartUpdateEngine calls, and the goroutines they start
          Size         \* bytes of an update, in a bounded run

ASSUME EventsAssumption == Size \in Nat \ {0}

VARIABLES
  idOf,            \* stream -> the connection id in its request
  streamAt,        \* stream -> how far its handler is
  primary,         \* the streams that were told they are the primary one
  connectionId,
  statusStreamRunning,
  lastProgress, lastExpected,
  requestAt,       \* request -> how far it, and then its goroutine, is
  status,          \* request -> the status its goroutine read
  updateStarted,   \* the goroutines that have sent a status
  told,            \* request -> the progress its goroutine sent last, and of how much
  disturbed        \* history: requests that overlapped with another

streamVars == <<idOf, streamAt, primary>>
progressVars == <<lastProgress, lastExpected>>
updateVars == <<statusStreamRunning, requestAt, status, updateStarted, told, disturbed>>
eventsVars == <<streamVars, connectionId, progressVars, updateVars>>

-----------------------------------------------------------------------------
\* EventStream.
Moves(s, state) == streamAt' = [streamAt EXCEPT ![s] = state]

\* The connection id of nobody.
NoId == ""

\* Under connectionIdLock.
checkConnectionID(s) ==
  /\ streamAt[s] = "start"
  /\ IF connectionId # NoId /\ idOf[s] # connectionId
       THEN UNCHANGED <<primary, connectionId>>
       ELSE primary' = primary \cup {s} /\ connectionId' = idOf[s]
  /\ Moves(s, "greeting")
  /\ UNCHANGED <<idOf, progressVars, updateVars>>

SendConnectionResponse(s) ==
  /\ streamAt[s] = "greeting"
  /\ Moves(s, "streaming")
  /\ UNCHANGED <<idOf, primary, connectionId, progressVars, updateVars>>

\* The client is gone when it is greeted, or when an event or the ping of every
\* second is sent, or the registry closed the channel.
EndStream(s) ==
  /\ streamAt[s] \in {"greeting", "streaming"}
  /\ Moves(s, "leaving")
  /\ UNCHANGED <<idOf, primary, connectionId, progressVars, updateVars>>

\* Deferred for a primary stream.  Without the lock.
onDisconnect(s) ==
  /\ streamAt[s] = "leaving"
  /\ connectionId' = IF s \in primary THEN NoId ELSE connectionId
  /\ Moves(s, "returned")
  /\ UNCHANGED <<idOf, primary, progressVars, updateVars>>

-----------------------------------------------------------------------------
\* StartUpdateEngine and the goroutine it starts.
Proceeds(r, state) == requestAt' = [requestAt EXCEPT ![r] = state]

Underway == {r \in StartRequests : requestAt[r] \notin {"none", "done"}}

\* systemctl fails.
StartFails(r) ==
  /\ requestAt[r] = "none"
  /\ Proceeds(r, "done")
  /\ UNCHANGED <<streamVars, connectionId, progressVars, statusStreamRunning, status,
                 updateStarted, told, disturbed>>

ResetProgress(r) ==
  /\ requestAt[r] = "none"
  /\ lastProgress' = 0
  /\ Proceeds(r, "resetting")
  /\ disturbed' = IF Underway = {} THEN disturbed ELSE disturbed \cup Underway \cup {r}
  /\ UNCHANGED <<streamVars, connectionId, lastExpected, statusStreamRunning, status,
                 updateStarted, told>>

ResetExpected(r) ==
  /\ requestAt[r] = "resetting"
  /\ lastExpected' = 1
  /\ Proceeds(r, "started")
  /\ UNCHANGED <<streamVars, connectionId, lastProgress, statusStreamRunning, status,
                 updateStarted, told, disturbed>>

\* "If this co-routine is already running, we don't need another one"
CheckRunning(r) ==
  /\ requestAt[r] = "started"
  /\ Proceeds(r, IF statusStreamRunning THEN "done" ELSE "claiming")
  /\ UNCHANGED <<streamVars, connectionId, progressVars, statusStreamRunning, status,
                 updateStarted, told, disturbed>>

SetRunning(r) ==
  /\ requestAt[r] = "claiming"
  /\ statusStreamRunning' = TRUE
  /\ Proceeds(r, "waiting")
  /\ UNCHANGED <<streamVars, connectionId, progressVars, status, updateStarted, told,
                 disturbed>>

\* At most ten times 250 ms.
AwaitConnection(r) ==
  /\ requestAt[r] = "waiting"
  /\ Proceeds(r, "looping")
  /\ UNCHANGED <<streamVars, connectionId, progressVars, statusStreamRunning, status,
                 updateStarted, told, disturbed>>

\* Mutant: nobody has to be connected.
ReadAnyway(r) ==
  /\ requestAt[r] = "looping"
  /\ Proceeds(r, "comparing")
  /\ UNCHANGED <<streamVars, connectionId, progressVars, statusStreamRunning, status,
                 updateStarted, told, disturbed>>

\* The files are read: CompareProgress says what was found.
GetUpdateStatus(r) ==
  /\ requestAt[r] = "looping"
  /\ Proceeds(r, IF connectionId = NoId THEN "ending" ELSE "comparing")
  /\ UNCHANGED <<streamVars, connectionId, progressVars, statusStreamRunning, status,
                 updateStarted, told, disturbed>>

\* What GetUpdateStatus may find in the files, each of which is written by itself:
\* any two numbers, -1 also for a file that is missing or cannot be parsed, and an
\* exit code or none.
Statuses == [progress : -1..Size, expected : -1..Size, exitCode : {-1, 0}]

NoStatus == [progress |-> -1, expected |-> -1, exitCode |-> -1]

\* p of e is more than q of f.
Exceeds(p, e, q, f) == p * f > q * e

\* Mutant: any valid progress is good.
IsAnyProgress(found) ==
  found.progress > 0 /\ found.expected > 0 /\ found.progress <= found.expected

IsProgress(found) ==
  /\ found.progress > 0 /\ found.expected > 0 /\ found.progress <= found.expected
  /\ Exceeds(found.progress, found.expected, lastProgress, lastExpected)

\* Of a status that is no progress only the exit code is ever used.
CompareProgress(r) ==
  /\ requestAt[r] = "comparing"
  /\ \E found \in Statuses :
       IF IsProgress(found)
         THEN Proceeds(r, "keeping progress") /\ status' = [status EXCEPT ![r] = found]
         ELSE /\ Proceeds(r, "taking progress")
              /\ status' = [status EXCEPT ![r].exitCode = found.exitCode]
  /\ UNCHANGED <<streamVars, connectionId, progressVars, statusStreamRunning,
                 updateStarted, told, disturbed>>

KeepProgress(r) ==
  /\ requestAt[r] = "keeping progress"
  /\ lastProgress' = status[r].progress
  /\ Proceeds(r, "keeping expected")
  /\ UNCHANGED <<streamVars, connectionId, lastExpected, statusStreamRunning, status,
                 updateStarted, told, disturbed>>

KeepExpected(r) ==
  /\ requestAt[r] = "keeping expected"
  /\ lastExpected' = status[r].expected
  /\ Proceeds(r, "sending")
  /\ UNCHANGED <<streamVars, connectionId, lastProgress, statusStreamRunning, status,
                 updateStarted, told, disturbed>>

\* "just send the last known good values"
TakeProgress(r) ==
  /\ requestAt[r] = "taking progress"
  /\ status' = [status EXCEPT ![r].progress = lastProgress]
  /\ Proceeds(r, "taking expected")
  /\ UNCHANGED <<streamVars, connectionId, progressVars, statusStreamRunning,
                 updateStarted, told, disturbed>>

TakeExpected(r) ==
  /\ requestAt[r] = "taking expected"
  /\ status' = [status EXCEPT ![r].expected = lastExpected]
  /\ Proceeds(r, "sending")
  /\ UNCHANGED <<streamVars, connectionId, progressVars, statusStreamRunning,
                 updateStarted, told, disturbed>>

\* The last of at least two statuses has an exit code.
SendStatus(r) ==
  /\ requestAt[r] = "sending"
  /\ told' = [told EXCEPT ![r] = <<status[r].progress, status[r].expected>>]
  /\ updateStarted' = updateStarted \cup {r}
  /\ status' = [status EXCEPT ![r] = NoStatus]
  /\ Proceeds(r, IF status[r].exitCode # -1 /\ r \in updateStarted THEN "ending" ELSE "looping")
  /\ UNCHANGED <<streamVars, connectionId, progressVars, statusStreamRunning, disturbed>>

EndStatusStream(r) ==
  /\ requestAt[r] = "ending"
  /\ statusStreamRunning' = FALSE
  /\ Proceeds(r, "done")
  /\ UNCHANGED <<streamVars, connectionId, progressVars, status, updateStarted, told,
                 disturbed>>

-----------------------------------------------------------------------------
EventsStart ==
  /\ primary = {} /\ connectionId = NoId
  /\ statusStreamRunning = FALSE
  /\ lastProgress = 0 /\ lastExpected = 0
  /\ status = [r \in StartRequests |-> NoStatus]
  /\ updateStarted = {} /\ disturbed = {}
  /\ told = [r \in StartRequests |-> <<0, 1>>]

\* Some clients and requests never come.
EventsInit ==
  /\ idOf \in [Streams -> Ids]
  /\ streamAt \in [Streams -> {"start", "returned"}]
  /\ requestAt \in [StartRequests -> {"none", "done"}]
  /\ EventsStart

EventsPresent ==
  Cardinality({s \in Streams : streamAt[s] = "start"})
    + Cardinality({r \in StartRequests : requestAt[r] = "none"})

EventsIdle ==
  /\ EventsInit /\ EventsPresent = 0
  /\ idOf = [s \in Streams |-> CHOOSE i \in Ids : TRUE]

HandleStream(s) == checkConnectionID(s) \/ SendConnectionResponse(s) \/ onDisconnect(s)

HandleStart(r) == StartFails(r) \/ ResetProgress(r) \/ ResetExpected(r)

UpdateStatusStream(r) ==
  \/ CheckRunning(r) \/ SetRunning(r) \/ AwaitConnection(r) \/ GetUpdateStatus(r)
  \/ CompareProgress(r) \/ KeepProgress(r) \/ KeepExpected(r)
  \/ TakeProgress(r) \/ TakeExpected(r) \/ SendStatus(r) \/ EndStatusStream(r)

EventsNext ==
  \/ \E s \in Streams : HandleStream(s) \/ EndStream(s)
  \/ \E r \in StartRequests : HandleStart(r) \/ UpdateStatusStream(r)

EventsSpec == EventsInit /\ [][EventsNext]_eventsVars

\* Handlers and goroutines run; no client has to leave.
EventsFairness ==
  /\ \A s \in Streams : WF_eventsVars(HandleStream(s))
  /\ \A r \in StartRequests : WF_eventsVars(UpdateStatusStream(r))

-----------------------------------------------------------------------------
EventsTypeOK ==
  /\ streamAt \in [Streams -> {"start", "greeting", "streaming", "leaving", "returned"}]
  /\ connectionId \in Ids \cup {NoId}
  /\ lastProgress \in 0..Size /\ lastExpected \in 0..Size
  /\ status \in [StartRequests -> Statuses]

\* "Keep streaming to the requestor until they disconnect": when no stream is
\* left, however they ended, every status goroutine ends.
StatusEndsWithConnection ==
  (\A s \in Streams : streamAt[s] = "returned") ~>
    (\A r \in StartRequests : requestAt[r] \in {"none", "resetting", "done"})

Valid(report) == report[1] >= 0 /\ report[2] > 0 /\ report[1] <= report[2]

\* Whatever is in the files, a goroutine that shares the globals with no other
\* request reports progress that is valid and never falls.
ReportsMakeSense ==
  [][\A r \in StartRequests : r \notin disturbed =>
       Valid(told'[r]) /\ ~Exceeds(told[r][1], told[r][2], told'[r][1], told'[r][2])]_told
=============================================================================
