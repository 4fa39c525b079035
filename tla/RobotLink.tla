----------------------------- MODULE RobotLink ------------------------------
(***************************************************************************)
(* The MCP server's connection to the gateway (cloud/robot.go): connect,   *)
(* ConnectWithRetry, the supervisor that main starts (cloud/main.go) and   *)
(* the loops that read the event stream.  A connection that is lost is     *)
(* made again by gRPC, but the streams on it end.                          *)
(***************************************************************************)
EXTENDS Naturals

CONSTANTS MaxAttempts,  \* of ConnectWithRetry: 10
          MaxConnects   \* how often connect is called

ASSUME LinkAssumption == MaxAttempts \in Nat \ {0} /\ MaxConnects \in Nat

VARIABLES
  linkAt,     \* "starting", "sleeping", "retrying" or "closed"
  conn,       \* rc.conn: "nil", "open" or "closed"
  attempt,    \* the attempts of ConnectWithRetry
  connects,   \* how often connect was called
  loops,      \* the event stream's loops that read
  failed      \* history: the initial connect failed

linkVars == <<linkAt, conn, attempt, connects, loops, failed>>

Count_connect == connects < MaxConnects /\ connects' = connects + 1

\* connect: the dialling fails; the handshake fails, when conn is set already and
\* is closed; or the event stream is started.
DialFails == conn' = conn

HandshakeFails == conn' = "closed"

Connected == conn' = "open"

\* NewRobotClientWithToken, which goes on if connect fails.
ConnectFirst ==
  /\ linkAt = "starting" /\ Count_connect
  /\ linkAt' = "sleeping"
  /\ \/ Connected /\ loops' = loops + 1 /\ failed' = FALSE
     \/ (DialFails \/ HandshakeFails) /\ failed' = TRUE /\ UNCHANGED loops
  /\ UNCHANGED attempt

\* The supervisor, every ten seconds.
Supervise ==
  /\ linkAt = "sleeping" /\ conn = "nil"
  /\ linkAt' = "retrying" /\ attempt' = 0
  /\ UNCHANGED <<conn, connects, loops, failed>>

\* An attempt, which first closes conn if there is one.  If it succeeds, connect
\* starts a loop and main another.
Attempt ==
  /\ linkAt = "retrying" /\ Count_connect
  /\ \/ Connected /\ loops' = loops + 2 /\ linkAt' = "sleeping" /\ UNCHANGED attempt
     \/ /\ (DialFails \/ HandshakeFails)
        /\ attempt' = attempt + 1
        /\ linkAt' = IF attempt + 1 = MaxAttempts THEN "sleeping" ELSE linkAt
        /\ UNCHANGED loops
  /\ UNCHANGED failed

\* A stream ends; nobody starts another.
StreamBreaks ==
  /\ loops > 0
  /\ loops' = loops - 1
  /\ UNCHANGED <<linkAt, conn, attempt, connects, failed>>

\* main ends.
CloseLink ==
  /\ linkAt \notin {"starting", "closed"}
  /\ linkAt' = "closed" /\ loops' = 0
  /\ conn' = IF conn = "open" THEN "closed" ELSE conn
  /\ UNCHANGED <<attempt, connects, failed>>

LinkInit ==
  /\ linkAt = "starting" /\ conn = "nil" /\ attempt = 0 /\ connects = 0
  /\ loops = 0 /\ failed = FALSE

\* There is no client.
LinkIdle ==
  /\ linkAt = "closed" /\ conn = "nil" /\ attempt = 0 /\ connects = 0
  /\ loops = 0 /\ failed = FALSE

LinkNext == ConnectFirst \/ Supervise \/ Attempt \/ StreamBreaks \/ CloseLink

LinkFairness == WF_linkVars(Supervise) /\ WF_linkVars(Attempt)

-----------------------------------------------------------------------------
LinkTypeOK ==
  /\ linkAt \in {"starting", "sleeping", "retrying", "closed"}
  /\ conn \in {"nil", "open", "closed"}
  /\ attempt \in 0..MaxAttempts /\ connects \in 0..MaxConnects
  /\ loops \in 0..2 /\ failed \in BOOLEAN
  /\ loops > 0 => conn = "open"

\* "initial connect failed: ... (will retry)" (NewRobotClientWithToken): unless the
\* program ends, connect is called again.
WillRetry == failed ~> (connects > 1 \/ linkAt = "closed")
=============================================================================
