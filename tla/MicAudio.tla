------------------------------ MODULE MicAudio ------------------------------
(***************************************************************************)
(* The microphone subscriber (cloud/audio.go): Start and Stop, which hold  *)
(* the lock, and the goroutine readLoop of each Start, which reads s.done  *)
(* and s.conn without it, each time anew.  Start and Stop are one step     *)
(* each.  The packets of vic-anim are external; what a packet makes        *)
(* readLoop send or remember is left out.                                  *)
(***************************************************************************)
EXTENDS Naturals

CONSTANT MaxStarts

ASSUME MicAssumption == MaxStarts \in Nat

VARIABLES
  active,    \* s.active: s.done is closed just when it is FALSE
  current,   \* which Start made s.conn and s.done
  openConns, \* the Starts whose conn is open
  reader     \* Start -> its readLoop: "checking", "reading" or "ended"; and the
             \* Start whose conn it reads

micVars == <<active, current, openConns, reader>>

Starts == 1..MaxStarts
Checking == [at |-> "checking", conn |-> 0]
ReaderEnded == [at |-> "ended", conn |-> 0]

Start ==
  /\ ~active /\ current < MaxStarts
  /\ active' = TRUE /\ current' = current + 1
  /\ openConns' = openConns \cup {current + 1}
  /\ reader' = [reader EXCEPT ![current + 1] = Checking]

\* Mutant: the connection stays open.
StopUnclosed ==
  /\ active
  /\ active' = FALSE
  /\ UNCHANGED <<current, openConns, reader>>

Stop ==
  /\ active
  /\ active' = FALSE
  /\ openConns' = openConns \ {current}
  /\ UNCHANGED <<current, reader>>

\* A look at s.done, and, unless it is closed, a Read of the conn of that time.
Check(r) ==
  /\ reader[r].at = "checking"
  /\ reader' = [reader EXCEPT ![r] = IF active THEN [at |-> "reading", conn |-> current]
                                     ELSE ReaderEnded]
  /\ UNCHANGED <<active, current, openConns>>

Packet(r) ==
  /\ reader[r].at = "reading" /\ reader[r].conn \in openConns
  /\ reader' = [reader EXCEPT ![r] = Checking]
  /\ UNCHANGED <<active, current, openConns>>

\* Any error ends the readLoop, also one of an open conn: then the subscriber stays
\* active, and Start does nothing, until a Stop.
ReadFails(r) ==
  /\ reader[r].at = "reading"
  /\ reader' = [reader EXCEPT ![r] = ReaderEnded]
  /\ UNCHANGED <<active, current, openConns>>

MicStart == active = FALSE /\ openConns = {} /\ reader = [r \in Starts |-> ReaderEnded]

MicInit == current = 0 /\ MicStart

\* Nobody subscribes.
MicIdle == current = MaxStarts /\ MicStart

MicNext ==
  \/ Start \/ Stop
  \/ \E r \in Starts : Check(r) \/ Packet(r) \/ ReadFails(r)

\* Goroutines run, and a Read of a closed conn fails; packets may stay away.
MicFairness ==
  \A r \in Starts : /\ WF_micVars(Check(r))
                    /\ WF_micVars(reader[r].conn \notin openConns /\ ReadFails(r))

-----------------------------------------------------------------------------
MicTypeOK ==
  /\ active \in BOOLEAN /\ current \in 0..MaxStarts
  /\ openConns \subseteq Starts
  /\ reader \in [Starts -> [at : {"checking", "reading", "ended"}, conn : 0..MaxStarts]]

\* However often the subscriber is stopped and started, and although a readLoop
\* that comes late may go on with the next Start's connection, after a Stop all of
\* them end, even if vic-anim is silent.
ReadersEnd ==
  ~active ~> (active \/ \A r \in Starts : reader[r].at = "ended")
=============================================================================
