----------------------------- MODULE MCIpcWedge -----------------------------
(***************************************************************************)
(* IpcListeners for TLC with the code's own bound on markedForDelete, five *)
(* entries: six handler calls listen for one tag, and one reader sends two *)
(* messages of it.  The run starts when the six, which are interchangeable, *)
(* have registered, a state that Init reaches by eighteen steps.           *)
(***************************************************************************)
EXTENDS IpcListeners, TLC

CONSTANTS c1, c2, c3, c4, c5, c6, s1, t1

MCTagOf == [c \in Channels |-> t1]

MCMaxSends == s1 :> (t1 :> 2)

WedgeInit ==
  /\ managedChannels = t1 :> Channels
  /\ writer = None
  /\ handler = [c \in Channels |-> "open"]
  /\ buffer = [c \in Channels |-> <<>>]
  /\ closes = [c \in Channels |-> 0]
  /\ taken = [c \in Channels |-> [s \in Senders |-> 0]]
  /\ sender = [s \in Senders |-> "idle"]
  /\ sendTag = [s \in Senders |-> None]
  /\ sent = [s \in Senders |-> [t \in Tags |-> 0]]
  /\ sending = [s \in Senders |-> {}]
  /\ timedOut = [s \in Senders |-> {}]
  /\ marked = [s \in Senders |-> {}]

WedgeSpec == WedgeInit /\ [][Next]_vars

Symmetry == Permutations(Channels)
=============================================================================
