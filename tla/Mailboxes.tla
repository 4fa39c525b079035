----------------------------- MODULE Mailboxes -----------------------------
(***************************************************************************)
(* What the gateway promises its RPC handlers about the channels it hands  *)
(* out: a mailbox is opened once and closed once; while it is open it      *)
(* takes messages of its own kind, in the order they are put, up to its    *)
(* capacity; once closed it takes no more, and its owner can only empty    *)
(* it.  IpcListeners, the registry of cloud/ipc_manager.go, implements it. *)
(***************************************************************************)
EXTENDS Naturals, Sequences

CONSTANTS Channels,   \* the mailboxes
          Accepts,    \* the messages of the kind each mailbox takes
          Capacity    \* how many messages a mailbox holds

VARIABLES phase,      \* "fresh", "open" or "closed", per mailbox
          inbox       \* the messages put and not yet taken, per mailbox

mailVars == <<phase, inbox>>

Init ==
  /\ phase = [c \in Channels |-> "fresh"]
  /\ inbox = [c \in Channels |-> <<>>]

Open(c) ==
  /\ phase[c] = "fresh"
  /\ phase' = [phase EXCEPT ![c] = "open"]
  /\ UNCHANGED inbox

Put(c, m) ==
  /\ phase[c] = "open"
  /\ m \in Accepts[c]
  /\ Len(inbox[c]) < Capacity
  /\ inbox' = [inbox EXCEPT ![c] = Append(@, m)]
  /\ UNCHANGED phase

Take(c) ==
  /\ inbox[c] # <<>>
  /\ inbox' = [inbox EXCEPT ![c] = Tail(@)]
  /\ UNCHANGED phase

\* Closing a mailbox that holds messages loses the oldest of them.
Close(S) ==
  /\ S # {}
  /\ \A c \in S : phase[c] = "open"
  /\ phase' = [c \in Channels |-> IF c \in S THEN "closed" ELSE phase[c]]
  /\ inbox' = [c \in Channels |-> IF c \in S /\ inbox[c] # <<>>
                                    THEN Tail(inbox[c]) ELSE inbox[c]]

Next ==
  \/ \E c \in Channels : Open(c) \/ Take(c)
  \/ \E c \in Channels : \E m \in Accepts[c] : Put(c, m)
  \/ \E S \in SUBSET Channels : Close(S)

Spec == Init /\ [][Next]_mailVars
=============================================================================
