----------------------------- MODULE IpcSockets -----------------------------
(***************************************************************************)
(* The datagram sockets between processes (internal/ipc), as the token     *)
(* service uses its one: newDatagramServer's reader, which tells peers     *)
(* apart by their addresses, baseServer on top of it, a handler per peer   *)
(* that reads and answers in turn, and the peers' baseConn with a reader   *)
(* of its own.  The reader holds one datagram until somebody takes it; it  *)
(* stays at the head of the socket here.  Unix datagrams are not lost and  *)
(* not reordered.                                                          *)
(***************************************************************************)
EXTENDS Naturals, Sequences, SequencesExt, Functions

CONSTANTS Peers,         \* processes with a socket of their own
          Leavers,       \* those that close or lose it, or start again
          MaxMessages,   \* how many messages they send in all
          MaxRestarts    \* how often they start again

ASSUME SocketsAssumption ==
  Leavers \subseteq Peers /\ MaxMessages \in Nat /\ MaxRestarts \in Nat

CONN == 0   \* connPacket; messages are numbered from 1

VARIABLES
  serverAt,     \* "open", "killed", "unlistened", "closed": how far Close is
  socket,       \* the datagrams the server has not taken, <<peer, number>>
  readerAt,     \* the server's reader: "reading", "passing" or "ended"
  packetClients,  \* listener.clients
  accepting,    \* baseServer's listen routine runs
  handing,      \* the peers whose new connection is being handed over
  handlerAt,    \* peer -> its handler: "none", "reading", "answering", "returned"
  handling,     \* peer -> the message its handler answers
  clientConn,   \* peer -> its baseConn: "none", "open", "killed", "closing", "closed"
  connReader,   \* peer -> the reader of it: "reading", "holding" or "ended"
  inbox,        \* peer -> the answers in its socket, by the number of the question
  sentBy,       \* peer -> how many messages it sent
  heard,        \* history: peer -> the answers it has read
  restarts

acceptVars == <<packetClients, accepting, handing>>
peerVars == <<clientConn, connReader, inbox, sentBy, heard, restarts>>
socketsVars == <<serverAt, socket, readerAt, acceptVars, handlerAt, handling, peerVars>>

Listening == serverAt \in {"open", "killed"}

\* newDatagramClient, after the peer's earlier socket is unlinked.
Dial(p) ==
  /\ Listening
  /\ socket' = Append(socket, <<p, CONN>>)
  /\ clientConn' = [clientConn EXCEPT ![p] = "open"]
  /\ connReader' = [connReader EXCEPT ![p] = "reading"]
  /\ inbox' = [inbox EXCEPT ![p] = <<>>]
  /\ UNCHANGED <<serverAt, readerAt, acceptVars, handlerAt, handling, sentBy, heard>>

DialFirst(p) == clientConn[p] = "none" /\ Dial(p) /\ UNCHANGED restarts

\* The process of the peer ends and starts again; to the server it is the same peer.
DialAgain(p) ==
  /\ clientConn[p] # "none" /\ restarts < MaxRestarts
  /\ restarts' = restarts + 1
  /\ Dial(p)

Send(p) ==
  /\ Listening /\ clientConn[p] = "open"
  /\ FoldFunction(+, 0, sentBy) < MaxMessages
  /\ sentBy' = [sentBy EXCEPT ![p] = @ + 1]
  /\ socket' = Append(socket, <<p, sentBy[p] + 1>>)
  /\ UNCHANGED <<serverAt, readerAt, acceptVars, handlerAt, handling, clientConn,
                 connReader, inbox, heard, restarts>>

-----------------------------------------------------------------------------
\* Mutant: what a known peer sends is dropped unless its handler is waiting.
IsDroppedInHaste(p, n) ==
  IF p \in packetClients THEN n = CONN \/ handlerAt[p] # "reading" ELSE n # CONN

\* A known peer that connects again, or an unknown one that does not connect.
IsDropped(p, n) == (p \in packetClients) = (n = CONN)

\* The reader's ReadFrom.
TakeDatagram ==
  /\ readerAt = "reading" /\ Listening /\ socket # <<>>
  /\ LET p == Head(socket)[1] IN
     IF IsDropped(p, Head(socket)[2])
     THEN socket' = Tail(socket) /\ UNCHANGED <<readerAt, packetClients>>
     ELSE /\ readerAt' = "passing"
          /\ packetClients' = packetClients \cup {p}
          /\ UNCHANGED socket
  /\ UNCHANGED <<serverAt, accepting, handing, handlerAt, handling, peerVars>>

Passed(p) ==
  /\ readerAt = "passing" /\ Head(socket)[1] = p
  /\ readerAt' = "reading"
  /\ socket' = Tail(socket)

Accept(p) ==
  /\ accepting /\ Passed(p) /\ Head(socket)[2] = CONN
  /\ handing' = handing \cup {p}
  /\ UNCHANGED <<serverAt, packetClients, accepting, handlerAt, handling, peerVars>>

\* The service takes the new connection and starts a handler for it.
HandOver(p) ==
  /\ p \in handing
  /\ handing' = handing \ {p}
  /\ handlerAt' = [handlerAt EXCEPT ![p] = "reading"]
  /\ UNCHANGED <<serverAt, socket, readerAt, packetClients, accepting, handling, peerVars>>

\* packetClient's ReadBlock.
HandlerReads(p) ==
  /\ handlerAt[p] = "reading" /\ Passed(p) /\ Head(socket)[2] # CONN
  /\ handlerAt' = [handlerAt EXCEPT ![p] = "answering"]
  /\ handling' = [handling EXCEPT ![p] = Head(socket)[2]]
  /\ UNCHANGED <<serverAt, acceptVars, peerVars>>

\* The answer is lost if nobody has the peer's address now, or the server none.
HandlerAnswers(p) ==
  /\ handlerAt[p] = "answering"
  /\ handlerAt' = [handlerAt EXCEPT ![p] = "reading"]
  /\ inbox' = IF Listening /\ clientConn[p] \in {"open", "killed"}
              THEN [inbox EXCEPT ![p] = Append(@, handling[p])] ELSE inbox
  /\ UNCHANGED <<serverAt, socket, readerAt, acceptVars, handling, clientConn, connReader,
                 sentBy, heard, restarts>>

-----------------------------------------------------------------------------
\* Close of the server, step by step.
Kill ==
  /\ serverAt = "open"
  /\ serverAt' = "killed"
  /\ UNCHANGED <<socket, readerAt, acceptVars, handlerAt, handling, peerVars>>

Unlisten ==
  /\ serverAt = "killed"
  /\ serverAt' = "unlistened"
  /\ UNCHANGED <<socket, readerAt, acceptVars, handlerAt, handling, peerVars>>

AllClosed ==
  /\ serverAt = "unlistened" /\ ~accepting /\ handing = {}
  /\ serverAt' = "closed"
  /\ UNCHANGED <<socket, readerAt, acceptVars, handlerAt, handling, peerVars>>

ReaderStops ==
  /\ readerAt # "ended" /\ ~Listening
  /\ readerAt' = "ended" /\ socket' = <<>>
  /\ UNCHANGED <<serverAt, acceptVars, handlerAt, handling, peerVars>>

AcceptStops ==
  /\ accepting /\ ~Listening
  /\ accepting' = FALSE
  /\ UNCHANGED <<serverAt, socket, readerAt, packetClients, handing, handlerAt, handling,
                 peerVars>>

HandingStops(p) ==
  /\ p \in handing /\ serverAt # "open"
  /\ handing' = handing \ {p}
  /\ UNCHANGED <<serverAt, socket, readerAt, packetClients, accepting, handlerAt, handling,
                 peerVars>>

HandlerReturns(p) ==
  /\ handlerAt[p] = "reading" /\ ~Listening
  /\ handlerAt' = [handlerAt EXCEPT ![p] = "returned"]
  /\ UNCHANGED <<serverAt, socket, readerAt, acceptVars, handling, peerVars>>

-----------------------------------------------------------------------------
\* baseConn: its reader takes an answer, fails, or ends with the connection.
serverVars == <<serverAt, socket, readerAt, acceptVars, handlerAt, handling>>

ReaderTakes(p) ==
  /\ connReader[p] = "reading" /\ clientConn[p] = "open" /\ inbox[p] # <<>>
  /\ connReader' = [connReader EXCEPT ![p] = "holding"]
  /\ UNCHANGED <<serverVars, clientConn, inbox, sentBy, heard, restarts>>

ReaderFails(p) ==
  /\ connReader[p] = "reading" /\ clientConn[p] = "open"
  /\ connReader' = [connReader EXCEPT ![p] = "ended"]
  /\ clientConn' = [clientConn EXCEPT ![p] = "killed"]
  /\ UNCHANGED <<serverVars, inbox, sentBy, heard, restarts>>

\* Read or ReadBlock, which may also take what the reader holds after the kill.
PeerReads(p) ==
  /\ connReader[p] = "holding"
  /\ connReader' = [connReader EXCEPT ![p] = "reading"]
  /\ heard' = [heard EXCEPT ![p] = Append(@, Head(inbox[p]))]
  /\ inbox' = [inbox EXCEPT ![p] = Tail(@)]
  /\ UNCHANGED <<serverVars, clientConn, sentBy, restarts>>

CloseConn(p) ==
  /\ clientConn[p] \in {"open", "killed"}
  /\ clientConn' = [clientConn EXCEPT ![p] = "closing"]
  /\ UNCHANGED <<serverVars, connReader, inbox, sentBy, heard, restarts>>

ConnReaderStops(p) ==
  /\ clientConn[p] = "closing" /\ connReader[p] # "ended"
  /\ connReader' = [connReader EXCEPT ![p] = "ended"]
  /\ UNCHANGED <<serverVars, clientConn, inbox, sentBy, heard, restarts>>

ConnClosed(p) ==
  /\ clientConn[p] = "closing" /\ connReader[p] = "ended"
  /\ clientConn' = [clientConn EXCEPT ![p] = "closed"]
  /\ inbox' = [inbox EXCEPT ![p] = <<>>]
  /\ UNCHANGED <<serverVars, connReader, sentBy, heard, restarts>>

-----------------------------------------------------------------------------
SocketsStart ==
  /\ socket = <<>> /\ packetClients = {} /\ handing = {} /\ restarts = 0
  /\ handlerAt = [p \in Peers |-> "none"] /\ handling = [p \in Peers |-> CONN]
  /\ clientConn = [p \in Peers |-> "none"] /\ connReader = [p \in Peers |-> "ended"]
  /\ inbox = [p \in Peers |-> <<>>] /\ heard = [p \in Peers |-> <<>>]
  /\ sentBy = [p \in Peers |-> 0]

SocketsInit ==
  serverAt = "open" /\ readerAt = "reading" /\ accepting = TRUE /\ SocketsStart

\* There is no server.
SocketsIdle ==
  serverAt = "closed" /\ readerAt = "ended" /\ accepting = FALSE /\ SocketsStart

HandlePeer(p) ==
  \/ Accept(p) \/ HandOver(p) \/ HandingStops(p)
  \/ HandlerReads(p) \/ HandlerAnswers(p) \/ HandlerReturns(p)

UsePeer(p) ==
  \/ DialFirst(p) \/ Send(p) \/ ReaderTakes(p) \/ PeerReads(p)
  \/ ConnReaderStops(p) \/ ConnClosed(p)
  \/ p \in Leavers /\ (DialAgain(p) \/ ReaderFails(p) \/ CloseConn(p))

SocketsNext ==
  \/ TakeDatagram \/ ReaderStops \/ AcceptStops
  \/ Kill \/ Unlisten \/ AllClosed
  \/ \E p \in Peers : HandlePeer(p) \/ UsePeer(p)

\* Goroutines run; no peer sends, reads or closes, and no handler answers, for sure.
SocketsFairness ==
  /\ WF_socketsVars(Unlisten) /\ WF_socketsVars(AllClosed)
  /\ WF_socketsVars(ReaderStops) /\ WF_socketsVars(AcceptStops)
  /\ \A p \in Peers :
       /\ WF_socketsVars(HandingStops(p)) /\ WF_socketsVars(HandlerReturns(p))
       /\ WF_socketsVars(ConnReaderStops(p)) /\ WF_socketsVars(ConnClosed(p))

SocketsSpec == SocketsInit /\ [][SocketsNext]_socketsVars

-----------------------------------------------------------------------------
SocketsTypeOK ==
  /\ serverAt \in {"open", "killed", "unlistened", "closed"}
  /\ readerAt \in {"reading", "passing", "ended"} /\ accepting \in BOOLEAN
  /\ handing \subseteq packetClients
  /\ handlerAt \in [Peers -> {"none", "reading", "answering", "returned"}]
  /\ clientConn \in [Peers -> {"none", "open", "killed", "closing", "closed"}]
  /\ connReader \in [Peers -> {"reading", "holding", "ended"}]
  /\ \A p \in Peers : connReader[p] = "holding" => inbox[p] # <<>>

\* The messages of a peer that are in the socket, by their places.
Waiting(p) == {i \in DOMAIN socket : socket[i][1] = p /\ socket[i][2] # CONN}

\* How many of its messages have been taken from there.
Taken(p) ==
  Len(heard[p]) + Len(inbox[p]) + (IF handlerAt[p] = "answering" THEN 1 ELSE 0)

\* Every message of a peer is heard, in its inbox, being answered or in the socket,
\* in this order and in the order in which it sent them.
AllOnTheWay(p) ==
  /\ \A i \in DOMAIN heard[p] : heard[p][i] = i
  /\ \A i \in DOMAIN inbox[p] : inbox[p][i] = Len(heard[p]) + i
  /\ handlerAt[p] = "answering" => handling[p] = Taken(p)
  /\ {socket[i][2] : i \in Waiting(p)} = (Taken(p) + 1)..sentBy[p]
  /\ \A i, j \in Waiting(p) : i < j => socket[i][2] < socket[j][2]

\* A peer hears the answers to its messages in the order in which it sent them,
\* whatever other peers send, and also when it has started again; and every
\* message of a peer that has not is somewhere on its way, or answered, as long
\* as server and connection last: even one sent before anybody serves the peer.
ArrivesInOrder ==
  \A p \in Peers :
    /\ \A i, j \in DOMAIN heard[p] : i < j => heard[p][i] < heard[p][j]
    /\ restarts = 0 /\ serverAt = "open" /\ clientConn[p] = "open" => AllOnTheWay(p)

\* Closing a server returns, and so does closing a connection, with readers
\* blocked on either side; all goroutines end, save a handler that does not answer.
SocketsClose ==
  /\ (serverAt # "open") ~>
       /\ serverAt = "closed" /\ readerAt = "ended"
       /\ \A p \in Peers : handlerAt[p] # "reading"
  /\ \A p \in Peers : (clientConn[p] = "closing") ~> (clientConn[p] # "closing")
=============================================================================
