---------------------------- MODULE IpcListeners ----------------------------
(***************************************************************************)
(* The listener registry of the gateway's IPC managers                     *)
(* (cloud/ipc_manager.go): RPC handlers register channels by message tag,  *)
(* socket readers hand every message to all channels of its tag, one       *)
(* goroutine per channel, and drop the channels that stay full for 250 ms. *)
(* EngineProto-, Switchboard- and EngineCladIpcManager carry three copies  *)
(* of the same code; the line numbers in PROJECT.json are those of the     *)
(* first.  A channel is made by one call of an RPC handler and never used  *)
(* again, so a member of Channels stands for both.                         *)
(***************************************************************************)
EXTENDS Naturals, Sequences, FiniteSets

CONSTANTS Channels,      \* the channels, each with the handler call owning it
          Senders,       \* goroutines calling SendToListeners
          Tags,          \* message types
          TagOf,         \* the message type each channel listens for
          Unique,        \* channels asked for with CreateUniqueChannel
          Capacity,      \* numChannels, the buffer of a listener channel
          MarkCapacity,  \* buffer of markedForDelete (5 in the code)
          MaxSends,      \* bound: how many messages of each tag a sender sends
          MaxNumber,     \* bound: the largest of these
          None           \* no goroutine, no tag

ASSUME ConstantsAssumption ==
  /\ TagOf \in [Channels -> Tags]
  /\ Unique \subseteq Channels
  /\ Channels \cap Senders = {}
  /\ None \notin Channels \cup Senders \cup Tags
  /\ Capacity \in Nat \ {0}
  /\ MarkCapacity \in Nat
  /\ MaxNumber \in Nat
  /\ MaxSends \in [Senders -> [Tags -> 0..MaxNumber]]

VARIABLES
  managedChannels,  \* tag -> channels, a map without empty entries
  writer,           \* the goroutine inside managerMutex.Lock(), or None
  handler,          \* what each RPC handler call is doing
  buffer,           \* contents of each channel
  closes,           \* how often each channel was closed
  taken,            \* history: number of the last message each handler took,
                    \* per sender; 0 before the first
  sender,           \* what each sender is doing
  sendTag,          \* tag of the message a sender is propagating, or None
  sent,             \* messages sent, per sender and tag
  sending,          \* channels a sender's goroutines still select on
  timedOut,         \* channels whose goroutine gave up, not yet marked
  marked            \* contents of the sender's markedForDelete

channelVars == <<buffer, closes, taken>>
senderVars  == <<sender, sendTag, sent, sending, timedOut, marked>>
vars == <<managedChannels, writer, handler, channelVars, senderVars>>

\* A message is named by its sender, its tag and its number among those.
Message == Senders \X Tags \X (1..MaxNumber)

-----------------------------------------------------------------------------
\* managerMutex: a sync.RWMutex that prefers writers.  Senders hold the read
\* lock while they send; a writer that has called Lock() keeps new readers
\* out and waits for the present ones to leave.
\* Mutant: the deferred calls run in the other order, so that a sender still
\* holds the read lock when it asks for the write lock.
ReadersUntilSwept == {s \in Senders : sender[s] \in {"sending", "sweeping"}}

Readers == {s \in Senders : sender[s] = "sending"}

WantsLock(p) ==
  IF p \in Senders THEN sender[p] = "sweeping"
                   ELSE handler[p] \in {"creating", "leaving"}

Lock(p) ==
  /\ WantsLock(p)
  /\ writer = None
  /\ writer' = p
  /\ UNCHANGED <<managedChannels, handler, channelVars, senderVars>>

CanRLock == writer = None

\* Mutant: a plain mutex for writers, which does not wait for readers.
HoldsLockAmongReaders(p) == writer = p

HoldsLock(p) == writer = p /\ Readers = {}

-----------------------------------------------------------------------------
\* The map and the channels.
Listening(tag) ==
  IF tag \in DOMAIN managedChannels THEN managedChannels[tag] ELSE {}

\* The map with channel c appended under its tag.
Added(c) ==
  [t \in DOMAIN managedChannels \cup {TagOf[c]} |->
     IF t = TagOf[c] THEN Listening(t) \cup {c} ELSE managedChannels[t]]

\* Mutant: the key stays when its list is empty.
RemovedButKey(D, tag) ==
  [t \in DOMAIN managedChannels |->
     IF t = tag THEN managedChannels[t] \ D ELSE managedChannels[t]]

\* deleteListenerUnsafe: the map without the channels D, and without the key
\* once its list is empty.
Removed(D, tag) ==
  LET rest == Listening(tag) \ D
  IN  [t \in IF rest = {} THEN DOMAIN managedChannels \ {tag}
                          ELSE DOMAIN managedChannels |->
         IF t = tag THEN rest ELSE managedChannels[t]]

\* Mutant: only channels that hold no message are closed.
SafeCloseIfEmpty(D) ==
  /\ closes' = [c \in Channels |-> IF c \in D /\ buffer[c] = <<>>
                                     THEN closes[c] + 1 ELSE closes[c]]
  /\ UNCHANGED <<buffer, taken>>

\* SafeClose receives one message, if there is one, and closes the channel;
\* it leaves a channel alone that is closed and empty.
SafeClose(D) ==
  /\ closes' = [c \in Channels |->
                  IF c \in D /\ (closes[c] = 0 \/ buffer[c] # <<>>)
                    THEN closes[c] + 1 ELSE closes[c]]
  /\ buffer' = [c \in Channels |->
                  IF c \in D /\ buffer[c] # <<>>
                    THEN Tail(buffer[c]) ELSE buffer[c]]
  /\ UNCHANGED taken

\* Every channel of D found in the list is removed and closed; for the others
\* the code only logs a warning.
DeleteListeners(D, tag) ==
  /\ managedChannels' = Removed(D, tag)
  /\ SafeClose(D \cap Listening(tag))

-----------------------------------------------------------------------------
\* RPC handlers.
CreateChannel(c) ==
  /\ handler[c] = "idle"
  /\ c \notin Unique
  /\ handler' = [handler EXCEPT ![c] = "creating"]
  /\ UNCHANGED <<managedChannels, writer, channelVars, senderVars>>

\* RLock, look the tag up, RUnlock; the channel is created only later.
CreateUniqueChannel(c) ==
  /\ handler[c] = "idle"
  /\ c \in Unique
  /\ CanRLock
  /\ handler' = [handler EXCEPT ![c] =
                   IF TagOf[c] \in DOMAIN managedChannels THEN "refused"
                                                          ELSE "creating"]
  /\ UNCHANGED <<managedChannels, writer, channelVars, senderVars>>

\* Mutant: the lock is not released.
RegisterKeepingLock(c) ==
  /\ handler[c] = "creating"
  /\ HoldsLock(c)
  /\ managedChannels' = Added(c)
  /\ handler' = [handler EXCEPT ![c] = "open"]
  /\ UNCHANGED <<writer, channelVars, senderVars>>

Register(c) ==
  /\ handler[c] = "creating"
  /\ HoldsLock(c)
  /\ managedChannels' = Added(c)
  /\ handler' = [handler EXCEPT ![c] = "open"]
  /\ writer' = None
  /\ UNCHANGED <<channelVars, senderVars>>

Receive(c) ==
  /\ handler[c] = "open"
  /\ buffer[c] # <<>>
  /\ buffer' = [buffer EXCEPT ![c] = Tail(@)]
  /\ taken' = [taken EXCEPT ![c][Head(buffer[c])[1]] = Head(buffer[c])[3]]
  /\ UNCHANGED <<managedChannels, writer, handler, closes, senderVars>>

\* The handler returns, with an answer, an error or a closed channel, and its
\* deferred deleteListenerCallback runs.
Leave(c) ==
  /\ handler[c] = "open"
  /\ handler' = [handler EXCEPT ![c] = "leaving"]
  /\ UNCHANGED <<managedChannels, writer, channelVars, senderVars>>

Unregister(c) ==
  /\ handler[c] = "leaving"
  /\ HoldsLock(c)
  /\ DeleteListeners({c}, TagOf[c])
  /\ handler' = [handler EXCEPT ![c] = "gone"]
  /\ writer' = None
  /\ UNCHANGED senderVars

-----------------------------------------------------------------------------
\* Senders: ProcessMessages of a manager, or UpdateStatusStream.
StartSend(s, tag) ==
  /\ sender[s] = "idle"
  /\ CanRLock
  /\ sent[s][tag] < MaxSends[s][tag]
  /\ sent' = [sent EXCEPT ![s][tag] = @ + 1]
  /\ IF Listening(tag) = {}
       THEN UNCHANGED <<sender, sendTag, sending>>
       ELSE /\ sender' = [sender EXCEPT ![s] = "sending"]
            /\ sendTag' = [sendTag EXCEPT ![s] = tag]
            /\ sending' = [sending EXCEPT ![s] = Listening(tag)]
  /\ UNCHANGED <<managedChannels, writer, handler, channelVars, timedOut, marked>>

\* Mutant: a channel takes messages beyond its capacity.
DeliverAnyway(s, c) ==
  /\ c \in sending[s]
  /\ buffer' = [buffer EXCEPT ![c] =
                  Append(@, <<s, sendTag[s], sent[s][sendTag[s]]>>)]
  /\ sending' = [sending EXCEPT ![s] = @ \ {c}]
  /\ UNCHANGED <<managedChannels, writer, handler, closes, taken,
                 sender, sendTag, sent, timedOut, marked>>

\* One goroutine's select: the channel takes the message...
Deliver(s, c) ==
  /\ c \in sending[s]
  /\ Len(buffer[c]) < Capacity
  /\ buffer' = [buffer EXCEPT ![c] =
                  Append(@, <<s, sendTag[s], sent[s][sendTag[s]]>>)]
  /\ sending' = [sending EXCEPT ![s] = @ \ {c}]
  /\ UNCHANGED <<managedChannels, writer, handler, closes, taken,
                 sender, sendTag, sent, timedOut, marked>>

\* ... or it was full for 250 ms.
TimeOut(s, c) ==
  /\ c \in sending[s]
  /\ Len(buffer[c]) = Capacity
  /\ sending' = [sending EXCEPT ![s] = @ \ {c}]
  /\ timedOut' = [timedOut EXCEPT ![s] = @ \cup {c}]
  /\ UNCHANGED <<managedChannels, writer, handler, channelVars,
                 sender, sendTag, sent, marked>>

\* Mutant: markedForDelete has one entry less.
MarkRoomOneLess(s) == Cardinality(marked[s]) < MarkCapacity - 1

MarkRoom(s) == Cardinality(marked[s]) < MarkCapacity

\* The goroutine that gave up marks its channel; it waits while
\* markedForDelete is full.
Mark(s, c) ==
  /\ c \in timedOut[s]
  /\ MarkRoom(s)
  /\ timedOut' = [timedOut EXCEPT ![s] = @ \ {c}]
  /\ marked' = [marked EXCEPT ![s] = @ \cup {c}]
  /\ UNCHANGED <<managedChannels, writer, handler, channelVars,
                 sender, sendTag, sent, sending>>

\* Mutant: marked channels are forgotten instead of deleted.
FinishSendForgetting(s) ==
  /\ sender[s] = "sending"
  /\ sending[s] = {}
  /\ timedOut[s] = {}
  /\ sender' = [sender EXCEPT ![s] = "idle"]
  /\ sendTag' = [sendTag EXCEPT ![s] = None]
  /\ marked' = [marked EXCEPT ![s] = {}]
  /\ UNCHANGED <<managedChannels, writer, handler, channelVars,
                 sent, sending, timedOut>>

\* wg.Wait() returns and the read lock is released, before marked channels
\* are looked at.
FinishSend(s) ==
  /\ sender[s] = "sending"
  /\ sending[s] = {}
  /\ timedOut[s] = {}
  /\ IF marked[s] = {}
       THEN /\ sender' = [sender EXCEPT ![s] = "idle"]
            /\ sendTag' = [sendTag EXCEPT ![s] = None]
       ELSE /\ sender' = [sender EXCEPT ![s] = "sweeping"]
            /\ UNCHANGED sendTag
  /\ UNCHANGED <<managedChannels, writer, handler, channelVars,
                 sent, sending, timedOut, marked>>

\* The deferred function deletes the marked channels under the write lock.
Sweep(s) ==
  /\ sender[s] = "sweeping"
  /\ HoldsLock(s)
  /\ DeleteListeners(marked[s], sendTag[s])
  /\ marked' = [marked EXCEPT ![s] = {}]
  /\ sender' = [sender EXCEPT ![s] = "idle"]
  /\ sendTag' = [sendTag EXCEPT ![s] = None]
  /\ writer' = None
  /\ UNCHANGED <<handler, sent, sending, timedOut>>

\* The socket returned nil: ProcessMessages returns and is never restarted.
SocketEnds(s) ==
  /\ sender[s] = "idle"
  /\ sender' = [sender EXCEPT ![s] = "stopped"]
  /\ UNCHANGED <<managedChannels, writer, handler, channelVars,
                 sendTag, sent, sending, timedOut, marked>>

-----------------------------------------------------------------------------
Init ==
  /\ managedChannels = [t \in {} |-> {}]
  /\ writer = None
  /\ handler = [c \in Channels |-> "idle"]
  /\ buffer = [c \in Channels |-> <<>>]
  /\ closes = [c \in Channels |-> 0]
  /\ taken = [c \in Channels |-> [s \in Senders |-> 0]]
  /\ sender = [s \in Senders |-> "idle"]
  /\ sendTag = [s \in Senders |-> None]
  /\ sent = [s \in Senders |-> [t \in Tags |-> 0]]
  /\ sending = [s \in Senders |-> {}]
  /\ timedOut = [s \in Senders |-> {}]
  /\ marked = [s \in Senders |-> {}]

HandlerStep(c) ==
  \/ CreateChannel(c)
  \/ CreateUniqueChannel(c)
  \/ Register(c)
  \/ Receive(c)
  \/ Leave(c)
  \/ Unregister(c)

SenderStep(s) ==
  \/ \E t \in Tags : StartSend(s, t)
  \/ \E c \in Channels : Deliver(s, c) \/ TimeOut(s, c) \/ Mark(s, c)
  \/ FinishSend(s)
  \/ Sweep(s)
  \/ SocketEnds(s)

Next ==
  \/ \E p \in Channels \cup Senders : Lock(p)
  \/ \E c \in Channels : HandlerStep(c)
  \/ \E s \in Senders : SenderStep(s)

Spec == Init /\ [][Next]_vars

\* The Go scheduler runs every goroutine that can run, and timers fire.
\* Nothing makes a handler read its channel or return, nor the engine send.
Fairness ==
  /\ \A p \in Channels \cup Senders : WF_vars(Lock(p))
  /\ \A c \in Channels : WF_vars(Register(c) \/ Unregister(c))
  /\ \A s \in Senders :
       /\ \A c \in Channels : WF_vars(Deliver(s, c) \/ TimeOut(s, c) \/ Mark(s, c))
       /\ WF_vars(FinishSend(s) \/ Sweep(s))

FairSpec == Spec /\ Fairness

-----------------------------------------------------------------------------
TypeOK ==
  /\ DOMAIN managedChannels \subseteq Tags
  /\ \A t \in DOMAIN managedChannels : managedChannels[t] \subseteq Channels
  /\ writer \in Channels \cup Senders \cup {None}
  /\ handler \in [Channels -> {"idle", "creating", "refused",
                               "open", "leaving", "gone"}]
  /\ buffer \in [Channels -> Seq(Message)]
  /\ \A c \in Channels : Len(buffer[c]) <= Capacity
  /\ closes \in [Channels -> Nat]
  /\ taken \in [Channels -> [Senders -> Nat]]
  /\ sender \in [Senders -> {"idle", "sending", "sweeping", "stopped"}]
  /\ sendTag \in [Senders -> Tags \cup {None}]
  /\ sent \in [Senders -> [Tags -> Nat]]
  /\ \A s \in Senders, t \in Tags : sent[s][t] <= MaxSends[s][t]
  /\ sending \in [Senders -> SUBSET Channels]
  /\ timedOut \in [Senders -> SUBSET Channels]
  /\ marked \in [Senders -> SUBSET Channels]

\* Go panics, and takes the gateway down, when a goroutine sends on a closed
\* channel or a channel is closed twice.  Neither happens, although senders,
\* sweeping senders and returning handlers all close channels.
NoPanic ==
  /\ \A s \in Senders : \A c \in sending[s] : closes[c] = 0
  /\ \A c \in Channels : closes[c] \in {0, 1}

\* The map lists exactly the channels that were registered and not closed,
\* each under its own tag, and keeps no key for an empty list: a key that
\* stayed would make CreateUniqueChannel refuse its tag for ever.
RegistryIsExact ==
  /\ \A t \in DOMAIN managedChannels : managedChannels[t] # {}
  /\ \A t \in Tags : Listening(t) =
       {c \in Channels : /\ TagOf[c] = t
                         /\ handler[c] \in {"open", "leaving"}
                         /\ closes[c] = 0}

\* Where channel c holds messages of sender s.
Own(s, c) == {i \in DOMAIN buffer[c] : buffer[c][i][1] = s}

\* A handler sees one sender's messages in the order they were sent, and as
\* long as its channel is open it has missed none in between: a sender that
\* could not deliver drops the channel before it sends again.  So each has the
\* number after the one before it, in the channel or taken last, or is the first
\* the handler gets.
FedInOrder ==
  \A c \in Channels, s \in Senders : \A i \in Own(s, c) :
    LET n == buffer[c][i][3]
    IN  /\ n > taken[c][s]
        /\ \A j \in Own(s, c) : j < i => buffer[c][j][3] < n
        /\ closes[c] = 0 => \/ n = taken[c][s] + 1
                            \/ \E j \in Own(s, c) : j < i /\ n = buffer[c][j][3] + 1
                            \/ taken[c][s] = 0 /\ \A j \in Own(s, c) : i <= j

\* CreateUniqueChannel's comment: a channel is established "as long as there
\* isn't already one open", so two of the same tag are never open together.
UniqueIsAlone ==
  \A c, d \in Unique :
    (c # d /\ TagOf[c] = TagOf[d]) => {c, d} \cap Listening(TagOf[c]) # {c, d}

\* "SendToListeners propagates messages to all waiting listener channels": no
\* sender is left waiting, with the read lock held, for room in its own
\* markedForDelete, which nobody empties before it is done.
NoSenderWedged ==
  \A s \in Senders : (sending[s] = {} /\ timedOut[s] # {})
                       => MarkRoom(s)

\* SendToListeners returns, and the reader can fetch the next message.
SendReturns ==
  \A s \in Senders : (sender[s] \in {"sending", "sweeping"}) ~> (sender[s] = "idle")

\* A handler that returns is not kept by the registry, and one that calls
\* CreateChannel gets its channel.
HandlersGetTheLock ==
  \A c \in Channels : /\ (handler[c] = "creating") ~> (handler[c] = "open")
                      /\ (handler[c] = "leaving") ~> (handler[c] = "gone")

\* Neither senders nor handlers wait for the lock for ever, although every sender
\* asks for it a second time, to sweep.
NobodyIsLockedOut == SendReturns /\ HandlersGetTheLock

\* A handler whose channel lost a message learns of it: the channel is closed.
LostMessageCloses ==
  \A c \in Channels : (\E s \in Senders : c \in timedOut[s]) ~> (closes[c] > 0)

-----------------------------------------------------------------------------
\* The registry implements mailboxes.
MailPhase ==
  [c \in Channels |-> IF closes[c] > 0 THEN "closed"
                      ELSE IF handler[c] \in {"open", "leaving"} THEN "open"
                      ELSE "fresh"]

Mail == INSTANCE Mailboxes
          WITH Accepts <- [c \in Channels |-> {m \in Message : m[2] = TagOf[c]}],
               phase <- MailPhase,
               inbox <- buffer

ImplementsMailboxes == Mail!Spec
=============================================================================
