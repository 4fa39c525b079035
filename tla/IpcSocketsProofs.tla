-------------------------- MODULE IpcSocketsProofs --------------------------
(***************************************************************************)
(* Theorems about the datagram sockets, for any number of peers, messages  *)
(* and restarts.                                                           *)
(***************************************************************************)
EXTENDS IpcSockets, TLAPS

\* The states of both sides, and what the sockets hold.
SocketsType ==
  /\ SocketsTypeOK
  /\ socket \in Seq(Peers \X Nat) /\ packetClients \subseteq Peers
  /\ inbox \in [Peers -> Seq(Nat)] /\ heard \in [Peers -> Seq(Nat)]
  /\ sentBy \in [Peers -> Nat] /\ handling \in [Peers -> Nat] /\ restarts \in Nat

\* Who has a handler, or gets one, is known; and who gets one has none.
Served ==
  \A p \in Peers :
    /\ handlerAt[p] # "none" => p \in packetClients
    /\ p \in handing => p \in packetClients /\ handlerAt[p] = "none"

\* What the reader passes on is of a peer it knows; if it is a new connection, the
\* peer has no handler and gets none.
PassesOn ==
  readerAt = "passing" =>
    /\ socket # <<>> /\ Head(socket)[1] \in packetClients
    /\ Head(socket)[2] = CONN =>
         handlerAt[Head(socket)[1]] = "none" /\ Head(socket)[1] \notin handing

\* Of a peer that has never connected, there is nothing.
Untouched(p) ==
  /\ sentBy[p] = 0 /\ heard[p] = <<>> /\ inbox[p] = <<>> /\ handlerAt[p] = "none"
  /\ p \notin packetClients /\ \A i \in DOMAIN socket : socket[i][1] # p

Strangers == \A p \in Peers : clientConn[p] = "none" => Untouched(p)

\* The answers that p has heard, or will hear next, are below n.
ReadBelow(p, n) ==
  /\ \A i \in DOMAIN heard[p] : heard[p][i] < n
  /\ \A i \in DOMAIN inbox[p] : inbox[p][i] < n

Below(p, n) == ReadBelow(p, n) /\ (handlerAt[p] = "answering" => handling[p] < n)

Rising(s) == \A i, j \in DOMAIN s : i < j => s[i] < s[j]

\* On the way from the socket to the peer the numbers of messages fall.
Answered(p) ==
  /\ Rising(heard[p]) /\ Rising(inbox[p])
  /\ \A i \in DOMAIN heard[p], j \in DOMAIN inbox[p] : heard[p][i] < inbox[p][j]
  /\ handlerAt[p] = "answering" => ReadBelow(p, handling[p])
  /\ Below(p, sentBy[p] + 1)

Unanswered(p) ==
  /\ \A i \in Waiting(p) : Below(p, socket[i][2]) /\ socket[i][2] <= sentBy[p]
  /\ \A i, j \in Waiting(p) : i < j => socket[i][2] < socket[j][2]

InOrder == \A p \in Peers : Answered(p) /\ Unanswered(p)

\* A message that waits is of a peer the reader knows or will know by then.
Known(p) ==
  \A i \in Waiting(p) :
    p \in packetClients \/ \E k \in DOMAIN socket : k < i /\ socket[k] = <<p, CONN>>

Lasting(p) == restarts = 0 /\ serverAt = "open" /\ clientConn[p] = "open"

\* Its connection has been made, or will be.
Reaching(p) == p \in packetClients \/ \E k \in DOMAIN socket : socket[k] = <<p, CONN>>

NothingLost == \A p \in Peers : Lasting(p) => AllOnTheWay(p) /\ Reaching(p) /\ Known(p)

\* The inductive invariant.
SocketsIInv ==
  SocketsType /\ Served /\ PassesOn /\ Strangers /\ InOrder /\ NothingLost

-----------------------------------------------------------------------------
\* The socket after its first datagram is taken, and after another is sent.
LEMMA TailWaits ==
  ASSUME socket \in Seq(Peers \X Nat), socket # <<>>, socket' = Tail(socket), NEW p
  PROVE  /\ socket' \in Seq(Peers \X Nat)
         /\ \A i \in DOMAIN socket' : i + 1 \in DOMAIN socket /\ socket'[i] = socket[i + 1]
         /\ \A i \in DOMAIN socket :
              i # 1 => i - 1 \in DOMAIN socket' /\ socket'[i - 1] = socket[i]
         /\ \A i \in Waiting(p)' : i + 1 \in Waiting(p) /\ socket'[i] = socket[i + 1]
         /\ \A i \in Waiting(p) :
              i # 1 => i - 1 \in Waiting(p)' /\ socket'[i - 1] = socket[i]
<1>1. PICK n \in Nat : n = Len(socket) /\ DOMAIN socket = 1..n
  OBVIOUS
<1>2. /\ socket' \in Seq(Peers \X Nat) /\ n # 0 /\ DOMAIN socket' = 1..(n - 1)
      /\ \A i \in 1..(n - 1) : socket'[i] = socket[i + 1]
  BY <1>1
<1>3. \A i \in DOMAIN socket' : i + 1 \in DOMAIN socket /\ socket'[i] = socket[i + 1]
  BY <1>1, <1>2
<1>4. \A i \in DOMAIN socket :
        i # 1 => i - 1 \in DOMAIN socket' /\ socket'[i - 1] = socket[i]
  <2> SUFFICES ASSUME NEW i \in 1..n, i # 1
               PROVE  i - 1 \in 1..(n - 1) /\ socket'[i - 1] = socket[i]
    BY <1>1, <1>2
  <2>1. i - 1 \in 1..(n - 1) /\ (i - 1) + 1 = i
    OBVIOUS
  <2> QED
    BY <1>2, <2>1
<1> QED
  BY <1>2, <1>3, <1>4 DEF Waiting

LEMMA AppendWaits ==
  ASSUME socket \in Seq(Peers \X Nat), NEW q \in Peers, NEW n \in Nat,
         socket' = Append(socket, <<q, n>>), NEW p
  PROVE  /\ socket' \in Seq(Peers \X Nat) /\ socket' # <<>>
         /\ socket # <<>> => Head(socket') = Head(socket)
         /\ \A i \in DOMAIN socket : i \in DOMAIN socket' /\ socket'[i] = socket[i]
         /\ \A i \in DOMAIN socket' :
              \/ i \in DOMAIN socket /\ socket'[i] = socket[i]
              \/ /\ i = Len(socket) + 1 /\ socket'[i] = <<q, n>>
                 /\ \A j \in DOMAIN socket : j < i
         /\ Len(socket) + 1 \in DOMAIN socket' /\ socket'[Len(socket) + 1] = <<q, n>>
<1>1. <<q, n>> \in Peers \X Nat
  OBVIOUS
<1>2. PICK m \in Nat : m = Len(socket) /\ DOMAIN socket = 1..m
  OBVIOUS
<1>3. /\ socket' \in Seq(Peers \X Nat) /\ Len(socket') = m + 1
      /\ \A i \in 1..m : socket'[i] = socket[i]
      /\ socket'[m + 1] = <<q, n>>
  BY <1>1, <1>2
<1>4. DOMAIN socket' = 1..(m + 1)
  BY <1>3
<1>5. socket # <<>> => Head(socket') = Head(socket)
  BY <1>2, <1>3
<1> QED
  BY <1>2, <1>3, <1>4, <1>5

-----------------------------------------------------------------------------
LEMMA StartSockets ==
  ASSUME serverAt \in {"open", "closed"}, readerAt \in {"reading", "ended"},
         accepting \in BOOLEAN, SocketsStart
  PROVE  SocketsIInv
<1> USE DEF SocketsStart
<1>1. SocketsType
  <2>1. <<>> \in Seq(Peers \X Nat) /\ <<>> \in Seq(Nat) /\ 0 \in Nat
    OBVIOUS
  <2>2. inbox \in [Peers -> Seq(Nat)] /\ heard \in [Peers -> Seq(Nat)]
    BY <2>1
  <2>3. handling \in [Peers -> Nat] /\ sentBy \in [Peers -> Nat] /\ restarts \in Nat
    BY <2>1 DEF CONN
  <2>4. SocketsTypeOK
    BY DEF SocketsTypeOK
  <2> QED
    BY <2>1, <2>2, <2>3, <2>4 DEF SocketsType
<1>2. Served /\ PassesOn /\ Strangers
  BY DEF Served, PassesOn, Strangers, Untouched
<1>3. InOrder
  BY DEF InOrder, Answered, Unanswered, Rising, Below, ReadBelow, Waiting
<1>4. NothingLost
  BY DEF NothingLost, Lasting
<1> QED
  BY <1>1, <1>2, <1>3, <1>4 DEF SocketsIInv

LEMMA InitSockets == SocketsInit \/ SocketsIdle => SocketsIInv
  BY StartSockets DEF SocketsInit, SocketsIdle

\* What peers do: connect and send.
LEMMA DialType ==
  ASSUME SocketsType, NEW p \in Peers, DialFirst(p) \/ DialAgain(p)
  PROVE  SocketsType'
<1>1. socket' \in Seq(Peers \X Nat)
  BY AppendWaits DEF SocketsType, DialFirst, DialAgain, Dial, CONN
<1>2. restarts' \in Nat
  BY DEF SocketsType, DialFirst, DialAgain
<1>3. inbox' \in [Peers -> Seq(Nat)]
  <2>1. <<>> \in Seq(Nat)
    OBVIOUS
  <2> QED
    BY <2>1 DEF SocketsType, DialFirst, DialAgain, Dial
<1>4. SocketsTypeOK'
  BY ZenonT(60) DEF SocketsType, SocketsTypeOK, DialFirst, DialAgain, Dial, acceptVars
<1> QED
  BY <1>1, <1>2, <1>3, <1>4 DEF SocketsType, DialFirst, DialAgain, Dial, acceptVars

LEMMA SendType ==
  ASSUME SocketsType, NEW p \in Peers, Send(p)
  PROVE  SocketsType'
<1>1. sentBy[p] + 1 \in Nat /\ sentBy' \in [Peers -> Nat]
  <2>1. sentBy[p] + 1 \in Nat
    BY DEF SocketsType
  <2> QED
    BY <2>1 DEF SocketsType, Send
<1>2. socket' \in Seq(Peers \X Nat)
  BY <1>1, AppendWaits DEF SocketsType, Send
<1> QED
  BY <1>1, <1>2 DEF SocketsType, SocketsTypeOK, Send, acceptVars

\* The reader and what it passes on.
LEMMA ReaderType ==
  ASSUME SocketsType, PassesOn, TakeDatagram \/ ReaderStops \/ AcceptStops
  PROVE  SocketsType'
<1>1. CASE TakeDatagram
  <2>1. /\ Head(socket) \in Peers \X Nat
        /\ Tail(socket) \in Seq(Peers \X Nat)
    BY SMTT(40), <1>1 DEF TakeDatagram, SocketsType
  <2>2. socket' \in Seq(Peers \X Nat)
    BY <1>1, <2>1 DEF TakeDatagram, SocketsType
  <2>3. packetClients' \subseteq Peers /\ packetClients \subseteq packetClients'
    BY <1>1, <2>1 DEF TakeDatagram, SocketsType
  <2>4. readerAt' \in {"reading", "passing", "ended"}
    BY <1>1 DEF TakeDatagram, SocketsType, SocketsTypeOK
  <2> QED
    BY <1>1, <2>2, <2>3, <2>4 DEF TakeDatagram, SocketsType, SocketsTypeOK, peerVars
<1>2. CASE ReaderStops \/ AcceptStops
  <2>1. <<>> \in Seq(Peers \X Nat)
    OBVIOUS
  <2>2. socket' \in Seq(Peers \X Nat)
    BY <1>2, <2>1 DEF ReaderStops, AcceptStops, SocketsType
  <2> QED
    BY <1>2, <2>2 DEF ReaderStops, AcceptStops, SocketsType, SocketsTypeOK, peerVars, acceptVars
<1> QED
  BY <1>1, <1>2

LEMMA HandleType ==
  ASSUME SocketsType, PassesOn, NEW p \in Peers, HandlePeer(p)
  PROVE  SocketsType'
<1>1. CASE Accept(p)
  <2>1. socket # <<>> /\ p \in packetClients /\ socket' = Tail(socket)
    BY <1>1 DEF Accept, Passed, PassesOn
  <2>2. socket' \in Seq(Peers \X Nat)
    BY <2>1 DEF SocketsType
  <2> QED
    BY <1>1, <2>1, <2>2 DEF Accept, Passed, SocketsType, SocketsTypeOK, peerVars
<1>2. CASE HandlerReads(p)
  <2>1. socket # <<>> /\ Head(socket) \in Peers \X Nat /\ socket' = Tail(socket)
    BY SMTT(40), <1>2 DEF HandlerReads, Passed, PassesOn, SocketsType
  <2>2. socket' \in Seq(Peers \X Nat)
    BY <2>1 DEF SocketsType
  <2>3. Head(socket)[2] \in Nat
    BY <2>1
  <2>4. /\ handlerAt' \in [Peers -> {"none", "reading", "answering", "returned"}]
        /\ handling' \in [Peers -> Nat]
    BY <1>2, <2>3 DEF HandlerReads, SocketsType, SocketsTypeOK
  <2> QED
    BY <1>2, <2>2, <2>4 DEF HandlerReads, Passed, SocketsType, SocketsTypeOK, peerVars, acceptVars
<1>3. CASE HandlerAnswers(p)
  <2>1. inbox[p] \in Seq(Nat) /\ handling[p] \in Nat
    BY DEF SocketsType
  <2>2. Append(inbox[p], handling[p]) \in Seq(Nat) /\ Append(inbox[p], handling[p]) # <<>>
    BY <2>1
  <2>3. inbox' \in [Peers -> Seq(Nat)]
    BY <1>3, <2>2 DEF HandlerAnswers, SocketsType
  <2>4. \A q \in Peers : inbox'[q] = inbox[q] \/ inbox'[q] # <<>>
    BY <1>3, <2>2 DEF HandlerAnswers, SocketsType
  <2> QED
    BY <1>3, <2>3, <2>4 DEF HandlerAnswers, SocketsType, SocketsTypeOK, acceptVars
<1>4. CASE HandOver(p) \/ HandingStops(p) \/ HandlerReturns(p)
  BY <1>4 DEF HandOver, HandingStops, HandlerReturns, SocketsType, SocketsTypeOK, acceptVars,
     peerVars
<1> QED
  BY <1>1, <1>2, <1>3, <1>4 DEF HandlePeer

\* The rest of what peers do, and the closing of the server.
LEMMA ConnType ==
  ASSUME SocketsType, NEW p \in Peers,
         \/ ReaderTakes(p) \/ ReaderFails(p) \/ PeerReads(p)
         \/ CloseConn(p) \/ ConnReaderStops(p) \/ ConnClosed(p)
  PROVE  SocketsType'
<1> USE DEF serverVars, acceptVars
<1>1. CASE PeerReads(p)
  <2>1. inbox[p] \in Seq(Nat) /\ inbox[p] # <<>> /\ heard[p] \in Seq(Nat)
    BY <1>1 DEF PeerReads, SocketsType, SocketsTypeOK
  <2>2. Tail(inbox[p]) \in Seq(Nat) /\ Append(heard[p], Head(inbox[p])) \in Seq(Nat)
    BY <2>1
  <2>3. inbox' \in [Peers -> Seq(Nat)] /\ heard' \in [Peers -> Seq(Nat)]
    BY <1>1, <2>2 DEF PeerReads, SocketsType
  <2> QED
    BY <1>1, <2>3 DEF PeerReads, SocketsType, SocketsTypeOK
<1>2. CASE ConnClosed(p)
  <2>1. inbox' \in [Peers -> Seq(Nat)]
    BY <1>2 DEF ConnClosed, SocketsType
  <2> QED
    BY <1>2, <2>1 DEF ConnClosed, SocketsType, SocketsTypeOK
<1>3. CASE ReaderTakes(p) \/ ReaderFails(p) \/ CloseConn(p) \/ ConnReaderStops(p)
  BY ZenonT(60), <1>3
     DEF ReaderTakes, ReaderFails, CloseConn, ConnReaderStops, SocketsType, SocketsTypeOK
<1> QED
  BY <1>1, <1>2, <1>3

LEMMA CloseType ==
  ASSUME SocketsType, Kill \/ Unlisten \/ AllClosed
  PROVE  SocketsType'
BY DEF Kill, Unlisten, AllClosed, SocketsType, SocketsTypeOK, peerVars, acceptVars

LEMMA TypeNext == SocketsType /\ PassesOn /\ [SocketsNext]_socketsVars => SocketsType'
<1>1. SocketsType /\ UNCHANGED socketsVars => SocketsType'
  BY DEF SocketsType, SocketsTypeOK, socketsVars, acceptVars, peerVars
<1> QED
  BY <1>1, DialType, SendType, ReaderType, HandleType, ConnType, CloseType
  DEF SocketsNext, UsePeer

-----------------------------------------------------------------------------
\* Who is served.
LEMMA ServedNext ==
  ASSUME SocketsType, Served, PassesOn, [SocketsNext]_socketsVars
  PROVE  Served'
<1> USE DEF Served, SocketsType, SocketsTypeOK
<1>1. CASE UNCHANGED <<packetClients, handing, handlerAt>>
  BY <1>1
<1>2. CASE TakeDatagram
  BY <1>2 DEF TakeDatagram
<1>3. ASSUME NEW p \in Peers, HandlePeer(p) PROVE Served'
  <2>1. CASE Accept(p)
    BY ZenonT(60), <2>1 DEF Accept, Passed, PassesOn
  <2>2. CASE HandOver(p) \/ HandingStops(p)
    BY <2>2 DEF HandOver, HandingStops
  <2>3. CASE HandlerReads(p) \/ HandlerAnswers(p) \/ HandlerReturns(p)
    BY <2>3 DEF HandlerReads, HandlerAnswers, HandlerReturns, acceptVars
  <2> QED
    BY <1>3, <2>1, <2>2, <2>3 DEF HandlePeer
<1>4. ReaderStops \/ AcceptStops \/ Kill \/ Unlisten \/ AllClosed
        => UNCHANGED <<packetClients, handing, handlerAt>>
  BY DEF ReaderStops, AcceptStops, Kill, Unlisten, AllClosed, acceptVars
<1>5. \A p \in Peers : UsePeer(p) => UNCHANGED <<packetClients, handing, handlerAt>>
  BY DEF UsePeer, DialFirst, DialAgain, Dial, Send, ReaderTakes, ReaderFails, PeerReads,
         CloseConn, ConnReaderStops, ConnClosed, serverVars, acceptVars
<1>6. UNCHANGED socketsVars => UNCHANGED <<packetClients, handing, handlerAt>>
  BY DEF socketsVars, acceptVars
<1> QED
  BY <1>1, <1>2, <1>3, <1>4, <1>5, <1>6 DEF SocketsNext

LEMMA PassesOnNext ==
  ASSUME SocketsType, Served, PassesOn, [SocketsNext]_socketsVars
  PROVE  PassesOn'
<1> SUFFICES ASSUME readerAt' = "passing"
             PROVE  /\ socket' # <<>> /\ Head(socket')[1] \in packetClients'
                    /\ Head(socket')[2] = CONN =>
                         /\ handlerAt'[Head(socket')[1]] = "none"
                         /\ Head(socket')[1] \notin handing'
  BY DEF PassesOn, CONN
<1>1. CASE TakeDatagram
  <2>1. /\ UNCHANGED <<socket, handing, handlerAt>> /\ socket # <<>>
        /\ ~IsDropped(Head(socket)[1], Head(socket)[2])
        /\ packetClients' = packetClients \cup {Head(socket)[1]}
    BY <1>1 DEF TakeDatagram
  <2>2. Head(socket)[1] \in Peers
    BY <2>1 DEF SocketsType
  <2> QED
    BY <2>1, <2>2 DEF IsDropped, Served
<1> DEFINE h == Head(socket)
<1>2. CASE ~TakeDatagram
  <2>1. readerAt = "passing"
    BY ZenonT(60), <1>2 DEF SocketsNext, UsePeer, HandlePeer, DialFirst, DialAgain, Dial, Send,
       ReaderTakes, ReaderFails, PeerReads, CloseConn, ConnReaderStops, ConnClosed,
       ReaderStops, AcceptStops, Kill, Unlisten, AllClosed, Accept, HandOver, HandingStops,
       HandlerReads, HandlerAnswers, HandlerReturns, Passed, serverVars, socketsVars
  <2>2. /\ socket # <<>> /\ h[1] \in packetClients /\ h[1] \in Peers
        /\ h[2] = CONN => handlerAt[h[1]] = "none" /\ h[1] \notin handing
    BY <2>1 DEF PassesOn, SocketsType
  <2>3. socket' # <<>> /\ Head(socket') = h /\ packetClients' = packetClients
    <3>1. ASSUME NEW p \in Peers, NEW n \in Nat, socket' = Append(socket, <<p, n>>)
          PROVE  socket' # <<>> /\ Head(socket') = h
      BY <2>2, <3>1, AppendWaits DEF SocketsType
    <3>2. ASSUME NEW p \in Peers, DialFirst(p) \/ DialAgain(p) \/ Send(p)
          PROVE  socket' # <<>> /\ Head(socket') = h /\ packetClients' = packetClients
      <4>1. sentBy[p] + 1 \in Nat /\ CONN \in Nat
        BY DEF SocketsType, CONN
      <4> QED
        BY <3>1, <3>2, <4>1 DEF DialFirst, DialAgain, Dial, Send, acceptVars
    <3>3. ASSUME NEW p \in Peers, HandlePeer(p) PROVE UNCHANGED <<socket, packetClients>>
      BY <3>3 DEF HandlePeer, Accept, HandOver, HandingStops,
         HandlerReads, HandlerAnswers, HandlerReturns, Passed, acceptVars
    <3>4. ASSUME NEW p \in Peers,
                 \/ ReaderTakes(p) \/ ReaderFails(p) \/ PeerReads(p)
                 \/ CloseConn(p) \/ ConnReaderStops(p) \/ ConnClosed(p)
          PROVE  UNCHANGED <<socket, packetClients>>
      BY <3>4 DEF ReaderTakes, ReaderFails, PeerReads, CloseConn, ConnReaderStops, ConnClosed,
         serverVars, acceptVars
    <3>5. CASE \/ ReaderStops \/ AcceptStops \/ Kill \/ Unlisten \/ AllClosed
               \/ UNCHANGED socketsVars
      BY <2>2, <3>5
      DEF ReaderStops, AcceptStops, Kill, Unlisten, AllClosed, socketsVars, acceptVars
    <3> QED
      BY <1>2, <2>2, <3>2, <3>3, <3>4, <3>5 DEF SocketsNext, UsePeer
  <2>4. handing' \subseteq handing
    BY <1>2 DEF SocketsNext, UsePeer, HandlePeer, DialFirst, DialAgain, Dial, Send,
       ReaderTakes, ReaderFails, PeerReads, CloseConn, ConnReaderStops, ConnClosed,
       ReaderStops, AcceptStops, Kill, Unlisten, AllClosed, Accept, HandOver, HandingStops,
       HandlerReads, HandlerAnswers, HandlerReturns, Passed, serverVars, socketsVars, acceptVars
  <2>5. ASSUME NEW p \in Peers, handlerAt[p] = "none", p \notin handing
        PROVE  handlerAt'[p] = "none"
    BY ZenonT(60), <1>2, <2>5
       DEF SocketsNext, UsePeer, HandlePeer, DialFirst, DialAgain, Dial, Send,
       ReaderTakes, ReaderFails, PeerReads, CloseConn, ConnReaderStops, ConnClosed,
       ReaderStops, AcceptStops, Kill, Unlisten, AllClosed, Accept, HandOver, HandingStops,
       HandlerReads, HandlerAnswers, HandlerReturns, serverVars, socketsVars, acceptVars,
       SocketsType, SocketsTypeOK
  <2> QED
    BY <2>2, <2>3, <2>4, <2>5
<1> QED
  BY <1>1, <1>2

\* A socket that is read holds nothing of a peer that it held nothing of.
LEMMA TailForeign ==
  ASSUME socket \in Seq(Peers \X Nat), NEW p, \A i \in DOMAIN socket : socket[i][1] # p,
         socket' = socket \/ (socket # <<>> /\ socket' = Tail(socket))
  PROVE  \A i \in DOMAIN socket' : socket'[i][1] # p
<1>1. CASE socket' = socket
  BY <1>1
<1>2. CASE socket # <<>> /\ socket' = Tail(socket)
  <2>1. \A i \in DOMAIN socket' : i + 1 \in DOMAIN socket /\ socket'[i] = socket[i + 1]
    BY <1>2, TailWaits
  <2> QED
    BY <2>1
<1> QED
  BY <1>1, <1>2

LEMMA StrangersNext ==
  ASSUME SocketsType, Served, Strangers, PassesOn, [SocketsNext]_socketsVars
  PROVE  Strangers'
<1> SUFFICES ASSUME NEW p \in Peers, clientConn'[p] = "none" PROVE Untouched(p)'
  BY DEF Strangers
<1>1. clientConn[p] = "none"
  <2>0. clientConn \in [Peers -> {"none", "open", "killed", "closing", "closed"}]
    BY DEF SocketsType, SocketsTypeOK
  <2>1. CASE \E q \in Peers : UsePeer(q)
    BY <2>0, <2>1 DEF UsePeer, DialFirst, DialAgain, Dial, Send, ReaderTakes, ReaderFails,
       PeerReads, CloseConn, ConnReaderStops, ConnClosed
  <2>2. CASE \E q \in Peers : HandlePeer(q)
    BY <2>2 DEF HandlePeer, Accept, HandOver, HandingStops, HandlerReads, HandlerAnswers,
       HandlerReturns, peerVars
  <2>3. CASE \/ ReaderStops \/ AcceptStops \/ TakeDatagram \/ Kill \/ Unlisten \/ AllClosed
             \/ UNCHANGED socketsVars
    BY <2>3 DEF ReaderStops, AcceptStops, TakeDatagram, Kill, Unlisten, AllClosed,
       socketsVars, peerVars
  <2> QED
    BY <2>1, <2>2, <2>3 DEF SocketsNext
<1>2. /\ Untouched(p) /\ p \notin handing
      /\ \A i \in DOMAIN socket : socket[i][1] # p
  BY <1>1 DEF Strangers, Untouched, Served
<1>3. socket # <<>> => Head(socket)[1] # p
  <2>1. socket \in Seq(Peers \X Nat)
    BY DEF SocketsType
  <2>2. socket # <<>> => 1 \in DOMAIN socket /\ Head(socket) = socket[1]
    BY <2>1
  <2> QED
    BY <1>2, <2>2
<1>4. CASE TakeDatagram
  <2>1. \A i \in DOMAIN socket' : socket'[i][1] # p
    <3>1. socket' = socket \/ (socket # <<>> /\ socket' = Tail(socket))
      BY <1>4 DEF TakeDatagram
    <3> QED
      BY <1>2, <3>1, TailForeign DEF SocketsType
  <2> QED
    BY <1>2, <1>3, <1>4, <2>1 DEF TakeDatagram, Untouched, peerVars
<1>5. ASSUME NEW q \in Peers, HandlePeer(q) PROVE Untouched(p)'
  <2>1. p # q
    BY <1>2, <1>3, <1>5 DEF HandlePeer, Accept, HandOver, HandingStops, HandlerReads,
       HandlerAnswers, HandlerReturns, Passed, PassesOn, Untouched
  <2>2. \A i \in DOMAIN socket' : socket'[i][1] # p
    <3>1. socket' = socket \/ (socket # <<>> /\ socket' = Tail(socket))
      BY <1>5 DEF HandlePeer, Accept, HandOver, HandingStops, HandlerReads,
         HandlerAnswers, HandlerReturns, Passed, PassesOn
    <3> QED
      BY <1>2, <3>1, TailForeign DEF SocketsType
  <2> QED
    BY <1>2, <1>5, <2>1, <2>2 DEF HandlePeer, Accept, HandOver, HandingStops, HandlerReads,
       HandlerAnswers, HandlerReturns, Untouched, peerVars, acceptVars, SocketsType,
       SocketsTypeOK
<1>6. ASSUME NEW q \in Peers, DialFirst(q) \/ DialAgain(q) \/ Send(q) PROVE Untouched(p)'
  <2>1. p # q
    BY <1>1, <1>6 DEF DialFirst, DialAgain, Dial, Send, SocketsType, SocketsTypeOK
  <2>2. PICK n \in Nat : socket' = Append(socket, <<q, n>>)
    <3>1. CONN \in Nat /\ sentBy[q] + 1 \in Nat
      BY DEF CONN, SocketsType
    <3> QED
      BY <1>6, <3>1 DEF DialFirst, DialAgain, Dial, Send
  <2>3. \A i \in DOMAIN socket' : socket'[i][1] # p
    <3>1. \A i \in DOMAIN socket' :
            (i \in DOMAIN socket /\ socket'[i] = socket[i]) \/ socket'[i] = <<q, n>>
      BY <2>2, AppendWaits DEF SocketsType
    <3>2. <<q, n>>[1] = q
      OBVIOUS
    <3> QED
      BY <1>2, <2>1, <3>1, <3>2
  <2> QED
    BY ZenonT(60), <1>2, <1>6, <2>1, <2>3
       DEF DialFirst, DialAgain, Dial, Send, Untouched, acceptVars,
       SocketsType, SocketsTypeOK
<1>7. ASSUME NEW q \in Peers,
             \/ ReaderTakes(q) \/ ReaderFails(q) \/ PeerReads(q)
             \/ CloseConn(q) \/ ConnReaderStops(q) \/ ConnClosed(q)
      PROVE  Untouched(p)'
  <2>1. PeerReads(q) => p # q
    <3>1. PeerReads(q) => inbox[q] # <<>>
      BY DEF PeerReads, SocketsType, SocketsTypeOK
    <3> QED
      BY <1>2, <3>1 DEF Untouched
  <2> QED
    BY ZenonT(60), <1>2, <1>7, <2>1
       DEF ReaderTakes, ReaderFails, PeerReads, CloseConn, ConnReaderStops,
       ConnClosed, Untouched, serverVars, acceptVars, SocketsType, SocketsTypeOK
<1>8. CASE \/ ReaderStops \/ AcceptStops \/ Kill \/ Unlisten \/ AllClosed
           \/ UNCHANGED socketsVars
  BY <1>2, <1>8 DEF ReaderStops, AcceptStops, Kill, Unlisten, AllClosed, Untouched,
     socketsVars, acceptVars, peerVars
<1> QED
  BY <1>4, <1>5, <1>6, <1>7, <1>8 DEF SocketsNext, UsePeer

-----------------------------------------------------------------------------
\* The order of messages.
LEMMA AppendPlaces ==
  ASSUME NEW s \in Seq(Nat), NEW x \in Nat
  PROVE  /\ Append(s, x) \in Seq(Nat) /\ Len(Append(s, x)) = Len(s) + 1
         /\ \A i \in DOMAIN Append(s, x) :
              \/ i \in DOMAIN s /\ Append(s, x)[i] = s[i]
              \/ i = Len(s) + 1 /\ Append(s, x)[i] = x /\ \A j \in DOMAIN s : j < i
<1>1. PICK n \in Nat : n = Len(s) /\ DOMAIN s = 1..n
  OBVIOUS
<1>2. /\ Append(s, x) \in Seq(Nat) /\ Len(Append(s, x)) = n + 1
      /\ \A i \in 1..n : Append(s, x)[i] = s[i]
      /\ Append(s, x)[n + 1] = x
  BY <1>1
<1>3. DOMAIN Append(s, x) = 1..(n + 1)
  BY <1>2
<1> QED
  BY <1>1, <1>2, <1>3

LEMMA TailPlaces ==
  ASSUME NEW s \in Seq(Nat), s # <<>>
  PROVE  /\ Tail(s) \in Seq(Nat) /\ Len(Tail(s)) = Len(s) - 1
         /\ 1 \in DOMAIN s /\ Head(s) = s[1] /\ s[1] \in Nat
         /\ \A i \in DOMAIN Tail(s) : i + 1 \in DOMAIN s /\ Tail(s)[i] = s[i + 1] /\ i \in Nat
<1>1. PICK n \in Nat : n = Len(s) /\ DOMAIN s = 1..n /\ n # 0
  OBVIOUS
<1>2. /\ Tail(s) \in Seq(Nat) /\ Len(Tail(s)) = n - 1 /\ DOMAIN Tail(s) = 1..(n - 1)
      /\ \A i \in 1..(n - 1) : Tail(s)[i] = s[i + 1]
  BY <1>1
<1> QED
  BY <1>1, <1>2

\* Numbers in their places.
LEMMA Numbers ==
  ASSUME SocketsType, NEW p \in Peers
  PROVE  /\ heard[p] \in Seq(Nat) /\ inbox[p] \in Seq(Nat)
         /\ sentBy[p] \in Nat /\ handling[p] \in Nat
         /\ \A i \in DOMAIN heard[p] : i \in Nat /\ heard[p][i] \in Nat
         /\ \A i \in DOMAIN inbox[p] : i \in Nat /\ inbox[p][i] \in Nat
         /\ \A i \in DOMAIN socket : i \in Nat /\ socket[i] \in Peers \X Nat /\ socket[i][2] \in Nat
         /\ \A i \in Waiting(p) : i \in Nat /\ socket[i][2] \in Nat
<1>1. heard[p] \in Seq(Nat) /\ inbox[p] \in Seq(Nat) /\ socket \in Seq(Peers \X Nat)
  BY DEF SocketsType
<1>2. \A i \in DOMAIN socket : i \in Nat /\ socket[i] \in Peers \X Nat
  BY <1>1
<1> QED
  BY <1>1, <1>2 DEF SocketsType, Waiting

\* The socket is as it was, or empty, or its first datagram is gone, or one has come
\* that is not a message of p.
Moves(p) ==
  \/ socket' = socket \/ socket' = <<>>
  \/ socket # <<>> /\ socket' = Tail(socket)
  \/ \E q \in Peers, n \in Nat : socket' = Append(socket, <<q, n>>) /\ (q # p \/ n = CONN)

LEMMA MovesWaiting ==
  ASSUME SocketsType, NEW p \in Peers, Moves(p)
  PROVE  \E k \in Nat : \A i \in Waiting(p)' :
           i \in Nat /\ i + k \in Waiting(p) /\ socket'[i] = socket[i + k]
<1>1. socket \in Seq(Peers \X Nat)
  BY DEF SocketsType
<1>2. CASE socket' = socket
  <2>1. \A i \in Waiting(p)' : i \in Nat /\ i + 0 \in Waiting(p) /\ socket'[i] = socket[i + 0]
    BY <1>1, <1>2 DEF Waiting
  <2> QED
    BY <2>1
<1>3. CASE socket' = <<>>
  BY <1>3 DEF Waiting
<1>4. CASE socket # <<>> /\ socket' = Tail(socket)
  <2>1. socket' \in Seq(Peers \X Nat)
    BY <1>1, <1>4, TailWaits
  <2>2. \A i \in Waiting(p)' : i \in Nat /\ i + 1 \in Waiting(p) /\ socket'[i] = socket[i + 1]
    BY <1>1, <1>4, <2>1, TailWaits DEF Waiting
  <2> QED
    BY <2>2
<1>5. ASSUME NEW q \in Peers, NEW n \in Nat, socket' = Append(socket, <<q, n>>),
             q # p \/ n = CONN
      PROVE  \A i \in Waiting(p)' :
               i \in Nat /\ i + 0 \in Waiting(p) /\ socket'[i] = socket[i + 0]
  <2>1. \A i \in DOMAIN socket' :
          (i \in DOMAIN socket /\ socket'[i] = socket[i]) \/ socket'[i] = <<q, n>>
    BY <1>1, <1>5, AppendWaits
  <2>2. <<q, n>>[1] = q /\ <<q, n>>[2] = n
    OBVIOUS
  <2>3. \A i \in Waiting(p)' : i \in DOMAIN socket /\ socket'[i] = socket[i]
    BY <1>5, <2>1, <2>2 DEF Waiting
  <2> QED
    BY <1>1, <2>3 DEF Waiting
<1>6. (\E q \in Peers, n \in Nat : socket' = Append(socket, <<q, n>>) /\ (q # p \/ n = CONN))
        => \E k \in Nat : \A i \in Waiting(p)' :
             i \in Nat /\ i + k \in Waiting(p) /\ socket'[i] = socket[i + k]
  BY <1>5
<1> QED
  BY <1>2, <1>3, <1>4, <1>6 DEF Moves

\* Nothing of p moves on, save the first datagram of the socket; its inbox may be lost.
LEMMA OrderStays ==
  ASSUME SocketsType, NEW p \in Peers, Answered(p), Unanswered(p), Moves(p),
         heard'[p] = heard[p], inbox'[p] = inbox[p] \/ inbox'[p] = <<>>,
         sentBy'[p] = sentBy[p],
         handlerAt'[p] = "answering" => handlerAt[p] = "answering" /\ handling'[p] = handling[p]
  PROVE  Answered(p)' /\ Unanswered(p)'
<1>1. \A n : Below(p, n) => ReadBelow(p, n)' /\ Below(p, n)'
  BY DEF Below, ReadBelow
<1>2. \A n : ReadBelow(p, n) => ReadBelow(p, n)'
  BY DEF ReadBelow
<1>3. Answered(p)'
  <2>1. Rising(heard[p])' /\ Rising(inbox[p])'
    BY DEF Answered, Rising
  <2>2. \A i \in DOMAIN heard'[p], j \in DOMAIN inbox'[p] : heard'[p][i] < inbox'[p][j]
    BY DEF Answered
  <2>3. handlerAt'[p] = "answering" => ReadBelow(p, handling[p])'
    BY <1>2 DEF Answered, ReadBelow
  <2>4. Below(p, sentBy[p] + 1)'
    BY <1>1 DEF Answered, Below, ReadBelow
  <2> QED
    BY <2>1, <2>2, <2>3, <2>4 DEF Answered
<1>4. Unanswered(p)'
  <2>1. PICK k \in Nat : \A i \in Waiting(p)' :
          i \in Nat /\ i + k \in Waiting(p) /\ socket'[i] = socket[i + k]
    BY MovesWaiting
  <2>2. \A i \in Waiting(p)' : Below(p, socket[i][2])' /\ socket'[i][2] <= sentBy'[p]
    <3> SUFFICES ASSUME NEW i \in Waiting(p)'
                 PROVE  Below(p, socket[i][2])' /\ socket'[i][2] <= sentBy'[p]
      OBVIOUS
    <3>1. Below(p, socket[i + k][2]) /\ socket[i + k][2] <= sentBy[p] /\ socket'[i] = socket[i + k]
      BY <2>1 DEF Unanswered
    <3> QED
      BY <3>1 DEF Below, ReadBelow
  <2>3. \A i, j \in Waiting(p)' : i < j => socket'[i][2] < socket'[j][2]
    <3> SUFFICES ASSUME NEW i \in Waiting(p)', NEW j \in Waiting(p)', i < j
                 PROVE  socket'[i][2] < socket'[j][2]
      OBVIOUS
    <3>1. i \in Nat /\ j \in Nat /\ i + k < j + k
      BY <2>1
    <3> QED
      BY <2>1, <3>1 DEF Unanswered
  <2> QED
    BY <2>2, <2>3 DEF Unanswered
<1> QED
  BY <1>3, <1>4

LEMMA OrderSend ==
  ASSUME SocketsType, NEW p \in Peers, Answered(p), Unanswered(p), Send(p)
  PROVE  Answered(p)' /\ Unanswered(p)'
<1>1. PICK m \in Nat : m = sentBy[p] + 1
  BY DEF SocketsType
<1>2. /\ UNCHANGED <<handlerAt, handling, inbox, heard>>
      /\ sentBy'[p] = m /\ socket' = Append(socket, <<p, m>>)
  BY <1>1 DEF Send, SocketsType
<1>3. Below(p, m) /\ sentBy[p] \in Nat /\ sentBy[p] < m
  BY <1>1, Numbers DEF Answered
<1>4. \A n : Below(p, n) => Below(p, n)'
  BY <1>2 DEF Below, ReadBelow
<1>5. Answered(p)'
  <2>1. Below(p, m + 1)
    BY SMTT(40), <1>1, <1>3, Numbers DEF Below, ReadBelow
  <2>2. Below(p, sentBy[p] + 1)'
    BY <1>2, <2>1 DEF Below, ReadBelow
  <2> QED
    BY <1>2, <2>2 DEF Answered, Rising, ReadBelow
<1>6. \A i \in Waiting(p)' :
        \/ i \in Waiting(p) /\ socket'[i] = socket[i]
        \/ socket'[i] = <<p, m>> /\ \A j \in DOMAIN socket : j < i
  <2>1. socket \in Seq(Peers \X Nat) /\ m \in Nat
    BY DEF SocketsType
  <2>2. \A i \in DOMAIN socket' :
          \/ i \in DOMAIN socket /\ socket'[i] = socket[i]
          \/ socket'[i] = <<p, m>> /\ \A j \in DOMAIN socket : j < i
    BY <1>2, <2>1, AppendWaits
  <2> QED
    BY <2>2 DEF Waiting
<1>7. <<p, m>>[2] = m
  OBVIOUS
<1>8. Unanswered(p)'
  <2>1. ASSUME NEW i \in Waiting(p)' PROVE Below(p, socket[i][2])' /\ socket'[i][2] <= sentBy'[p]
    <3>1. Below(p, socket'[i][2]) /\ socket'[i][2] <= m
      BY <1>3, <1>6, <1>7, <2>1, Numbers DEF Unanswered
    <3> QED
      BY <1>2, <3>1 DEF Below, ReadBelow
  <2>2. ASSUME NEW i \in Waiting(p)', NEW j \in Waiting(p)', i < j
        PROVE  socket'[i][2] < socket'[j][2]
    <3>1. i \in Waiting(p) /\ socket'[i] = socket[i]
      <4>1. i \in Nat /\ j \in Nat
        <5>1. socket' \in Seq(Peers \X Nat)
          BY <1>2, AppendWaits DEF SocketsType
        <5> QED
          BY <5>1 DEF Waiting
      <4>2. j = Len(socket) + 1 \/ j \in DOMAIN socket
        BY <1>2, AppendWaits DEF Waiting, SocketsType
      <4>3. i \in DOMAIN socket \/ i = Len(socket) + 1
        BY ZenonT(60), <1>2, AppendWaits DEF Waiting, SocketsType
      <4>4. ~(i = Len(socket) + 1)
        <5>1. \A k \in DOMAIN socket : k < Len(socket) + 1
          BY DEF SocketsType
        <5> QED
          BY <2>2, <4>1, <4>2, <5>1
      <4>5. \A k \in DOMAIN socket : ~(k < k)
        BY Numbers
      <4> QED
        BY <1>6, <4>3, <4>4, <4>5
    <3> QED
      BY <1>3, <1>6, <1>7, <2>2, <3>1, Numbers DEF Unanswered
  <2> QED
    BY <2>1, <2>2 DEF Unanswered
<1> QED
  BY <1>5, <1>8

LEMMA OrderRead ==
  ASSUME SocketsType, PassesOn, NEW p \in Peers, Answered(p), Unanswered(p), HandlerReads(p)
  PROVE  /\ Answered(p)' /\ Unanswered(p)'
         /\ 1 \in Waiting(p) /\ handling'[p] = socket[1][2]
<1>1. /\ UNCHANGED <<inbox, heard, sentBy>> /\ handlerAt[p] = "reading"
      /\ socket # <<>> /\ socket' = Tail(socket) /\ socket \in Seq(Peers \X Nat)
  BY DEF HandlerReads, Passed, PassesOn, peerVars, SocketsType
<1>2. 1 \in DOMAIN socket /\ Head(socket) = socket[1] /\ Head(socket) \in Peers \X Nat
  BY <1>1
<1>3. 1 \in Waiting(p) /\ handling'[p] = socket[1][2] /\ handlerAt'[p] = "answering"
  BY <1>1, <1>2 DEF Waiting, HandlerReads, Passed, SocketsType, SocketsTypeOK
<1>4. PICK h \in Nat : h = socket[1][2] /\ ReadBelow(p, h) /\ h <= sentBy[p]
  BY <1>3, Numbers DEF Unanswered, Below
<1>5. \A i \in Waiting(p)' :
        i \in Nat /\ i + 1 \in Waiting(p) /\ socket'[i] = socket[i + 1] /\ 1 < i + 1
  <2>1. \A i \in Waiting(p)' : i \in DOMAIN socket' /\ socket' \in Seq(Peers \X Nat)
    BY <1>1, TailWaits DEF Waiting
  <2>2. \A i \in DOMAIN socket' : i \in Nat /\ 1 < i + 1
    BY <1>1, TailWaits
  <2> QED
    BY <1>1, <2>1, <2>2, TailWaits
<1>6. \A n : ReadBelow(p, n) => ReadBelow(p, n)'
  BY <1>1 DEF ReadBelow
<1>7. Answered(p)'
  <2>1. Below(p, sentBy[p] + 1)'
    BY <1>1, <1>3, <1>4, Numbers DEF Answered, Below, ReadBelow
  <2>2. ReadBelow(p, handling[p])'
    BY <1>1, <1>3, <1>4 DEF ReadBelow
  <2> QED
    BY <1>1, <2>1, <2>2 DEF Answered, Rising
<1>8. Unanswered(p)'
  <2>1. ASSUME NEW i \in Waiting(p)' PROVE Below(p, socket[i][2])' /\ socket'[i][2] <= sentBy'[p]
    <3>1. ReadBelow(p, socket[i + 1][2]) /\ h < socket[i + 1][2]
          /\ socket[i + 1][2] <= sentBy[p] /\ socket'[i] = socket[i + 1]
      BY <1>3, <1>4, <1>5, <2>1 DEF Unanswered, Below
    <3> QED
      BY <1>1, <1>3, <1>4, <3>1 DEF Below, ReadBelow
  <2>2. ASSUME NEW i \in Waiting(p)', NEW j \in Waiting(p)', i < j
        PROVE  socket'[i][2] < socket'[j][2]
    <3>1. i + 1 < j + 1
      BY <1>5, <2>2
    <3> QED
      BY <1>5, <3>1 DEF Unanswered
  <2> QED
    BY <2>1, <2>2 DEF Unanswered
<1> QED
  BY <1>3, <1>7, <1>8

LEMMA OrderAnswer ==
  ASSUME SocketsType, NEW p \in Peers, Answered(p), Unanswered(p), HandlerAnswers(p)
  PROVE  Answered(p)' /\ Unanswered(p)'
<1>1. /\ UNCHANGED <<heard, sentBy, socket>> /\ handlerAt[p] = "answering"
      /\ handlerAt'[p] = "reading"
      /\ inbox'[p] = inbox[p] \/ inbox'[p] = Append(inbox[p], handling[p])
  BY DEF HandlerAnswers, SocketsType, SocketsTypeOK
<1>2. PICK x \in Nat : x = handling[p]
  BY Numbers
<1>3. \A i \in DOMAIN inbox'[p] :
        \/ i \in DOMAIN inbox[p] /\ inbox'[p][i] = inbox[p][i] /\ inbox'[p][i] < x
        \/ inbox'[p][i] = x /\ \A j \in DOMAIN inbox[p] : j < i
  <2>1. \A i \in DOMAIN inbox[p] : inbox[p][i] < x
    BY <1>1, <1>2 DEF Answered, ReadBelow
  <2>2. CASE inbox'[p] = Append(inbox[p], x)
    BY <2>1, <2>2, Numbers, AppendPlaces
  <2> QED
    BY <1>1, <1>2, <2>1, <2>2
<1>4. \A i, j \in DOMAIN inbox'[p] : i < j => i \in DOMAIN inbox[p] /\ inbox'[p][i] = inbox[p][i]
  <2> SUFFICES ASSUME NEW i \in DOMAIN inbox'[p], NEW j \in DOMAIN inbox'[p], i < j
               PROVE  i \in DOMAIN inbox[p] /\ inbox'[p][i] = inbox[p][i]
    OBVIOUS
  <2>1. CASE inbox'[p] = inbox[p]
    BY <2>1
  <2>2. CASE inbox'[p] = Append(inbox[p], handling[p])
    <3>1. PICK n \in Nat : n = Len(inbox[p]) /\ DOMAIN inbox[p] = 1..n
      BY Numbers
    <3>2. /\ (i \in DOMAIN inbox[p] /\ inbox'[p][i] = inbox[p][i]) \/ i = n + 1
          /\ j \in 1..n \/ j = n + 1
      BY <2>2, <3>1, Numbers, AppendPlaces
    <3>3. i # n + 1
      BY <3>2
    <3> QED
      BY <3>2, <3>3
  <2> QED
    BY <1>1, <2>1, <2>2
<1>5. \A n : Below(p, n) => Below(p, n)'
  BY <1>1, <1>2, <1>3 DEF Below, ReadBelow
<1>6. Answered(p)'
  <2>1. Rising(heard[p])'
    BY <1>1 DEF Answered, Rising
  <2>2. Rising(inbox[p])'
    BY <1>2, <1>3, <1>4 DEF Answered, Rising
  <2>3. \A i \in DOMAIN heard'[p], j \in DOMAIN inbox'[p] : heard'[p][i] < inbox'[p][j]
    BY <1>1, <1>2, <1>3 DEF Answered, ReadBelow
  <2>4. Below(p, sentBy[p] + 1)'
    BY <1>1, <1>5 DEF Answered, Below, ReadBelow
  <2> QED
    BY <1>1, <2>1, <2>2, <2>3, <2>4 DEF Answered
<1>7. Unanswered(p)'
  BY <1>1, <1>5 DEF Unanswered, Waiting, Below, ReadBelow
<1> QED
  BY <1>6, <1>7

LEMMA OrderHear ==
  ASSUME SocketsType, NEW p \in Peers, Answered(p), Unanswered(p), PeerReads(p)
  PROVE  Answered(p)' /\ Unanswered(p)'
<1>1. /\ UNCHANGED <<handlerAt, handling, sentBy, socket>> /\ inbox[p] # <<>>
      /\ heard'[p] = Append(heard[p], Head(inbox[p])) /\ inbox'[p] = Tail(inbox[p])
  BY DEF PeerReads, SocketsType, SocketsTypeOK, serverVars
<1>0. inbox[p] \in Seq(Nat) /\ Len(inbox[p]) \in Nat
  BY DEF SocketsType
<1>2. PICK x \in Nat : 1 \in DOMAIN inbox[p] /\ x = Head(inbox[p]) /\ x = inbox[p][1]
  BY <1>0, <1>1, TailPlaces
<1>3. \A i \in DOMAIN inbox'[p] :
        i \in Nat /\ i + 1 \in DOMAIN inbox[p] /\ inbox'[p][i] = inbox[p][i + 1]
          /\ x < inbox'[p][i]
  <2>1. \A i \in DOMAIN inbox'[p] :
          i \in Nat /\ i + 1 \in DOMAIN inbox[p] /\ inbox'[p][i] = inbox[p][i + 1]
    BY SMTT(40), <1>1, Numbers, TailPlaces
  <2>2. \A i \in DOMAIN inbox'[p] : i + 1 # 1 /\ i + 1 > 1
    <3>1. \A i \in DOMAIN inbox'[p] : i \in Nat /\ i # 0
      BY <1>0, <1>1
    <3> QED
      BY <3>1
  <2> QED
    BY <1>2, <2>1, <2>2 DEF Answered, Rising
<1>4. \A i \in DOMAIN heard'[p] :
        \/ i \in DOMAIN heard[p] /\ heard'[p][i] = heard[p][i] /\ heard'[p][i] < x
        \/ i = Len(heard[p]) + 1 /\ heard'[p][i] = x
  <2>1. heard[p] \in Seq(Nat)
    BY DEF SocketsType
  <2>2. \A i \in DOMAIN heard'[p] :
          \/ i \in DOMAIN heard[p] /\ heard'[p][i] = heard[p][i]
          \/ i = Len(heard[p]) + 1 /\ heard'[p][i] = x
    BY <1>1, <1>2, <2>1, AppendPlaces
  <2>3. \A i \in DOMAIN heard[p] : heard[p][i] < x
    BY <1>2 DEF Answered
  <2> QED
    BY <2>2, <2>3
<1>5. \A n \in Nat : Below(p, n) => Below(p, n)'
  BY <1>1, <1>2, <1>3, <1>4 DEF Below, ReadBelow
<1>6. \A n \in Nat : ReadBelow(p, n) => ReadBelow(p, n)'
  BY <1>1, <1>2, <1>3, <1>4 DEF ReadBelow
<1>7. Answered(p)'
  <2>1. Rising(heard[p])'
    <3> SUFFICES ASSUME NEW i \in DOMAIN heard'[p], NEW j \in DOMAIN heard'[p], i < j
                 PROVE  heard'[p][i] < heard'[p][j]
      BY DEF Rising
    <3>1. PICK n \in Nat : n = Len(heard[p]) /\ DOMAIN heard[p] = 1..n
      BY Numbers
    <3>2. i # n + 1
      BY <1>4, <3>1
    <3> QED
      BY <1>4, <3>1, <3>2 DEF Answered, Rising
  <2>2. Rising(inbox[p])'
    <3> SUFFICES ASSUME NEW i \in DOMAIN inbox'[p], NEW j \in DOMAIN inbox'[p], i < j
                 PROVE  inbox'[p][i] < inbox'[p][j]
      BY DEF Rising
    <3>1. i + 1 < j + 1
      BY <1>3
    <3> QED
      BY <1>3, <3>1 DEF Answered, Rising
  <2>3. \A i \in DOMAIN heard'[p], j \in DOMAIN inbox'[p] : heard'[p][i] < inbox'[p][j]
    BY <1>3, <1>4, Numbers DEF Answered
  <2>4. handlerAt'[p] = "answering" => ReadBelow(p, handling[p])'
    BY <1>1, <1>6, Numbers DEF Answered, ReadBelow
  <2>5. Below(p, sentBy[p] + 1)'
    <3>1. sentBy[p] + 1 \in Nat
      BY Numbers
    <3> QED
      BY <1>1, <1>5, <3>1 DEF Answered, Below, ReadBelow
  <2> QED
    BY <2>1, <2>2, <2>3, <2>4, <2>5 DEF Answered
<1>8. Unanswered(p)'
  <2>1. Waiting(p)' = Waiting(p)
    BY <1>1 DEF Waiting
  <2> QED
    BY <1>1, <1>5, <2>1, Numbers DEF Unanswered, Below, ReadBelow
<1> QED
  BY <1>7, <1>8

\* Whatever happens, p sends, is read, answered or hears, or nothing of it moves.
Quiet(p) ==
  /\ heard'[p] = heard[p] /\ (inbox'[p] = inbox[p] \/ inbox'[p] = <<>>)
  /\ sentBy'[p] = sentBy[p] /\ Moves(p)
  /\ handlerAt'[p] = "answering" => handlerAt[p] = "answering" /\ handling'[p] = handling[p]

LEMMA StepsOfPeer ==
  ASSUME SocketsType, PassesOn, NEW p \in Peers, [SocketsNext]_socketsVars
  PROVE  Send(p) \/ HandlerReads(p) \/ HandlerAnswers(p) \/ PeerReads(p) \/ Quiet(p)
<1> SUFFICES ASSUME ~Send(p), ~HandlerReads(p), ~HandlerAnswers(p), ~PeerReads(p)
             PROVE  Quiet(p)
  OBVIOUS
<1> USE DEF SocketsType, SocketsTypeOK, Quiet
<1>1. CASE TakeDatagram
  BY <1>1 DEF TakeDatagram, peerVars, Moves
<1>2. ASSUME NEW q \in Peers, HandlePeer(q) PROVE Quiet(p)
  <2>1. Moves(p)
    BY <1>2 DEF HandlePeer, Accept, HandOver, HandingStops, HandlerReads, HandlerAnswers,
       HandlerReturns, Passed, PassesOn, Moves
  <2> QED
    BY ZenonT(60), <1>2, <2>1 DEF HandlePeer, Accept, HandOver, HandingStops, HandlerReads,
       HandlerAnswers, HandlerReturns, peerVars
<1>3. ASSUME NEW q \in Peers, Send(q) PROVE Quiet(p)
  <2>1. sentBy[q] + 1 \in Nat /\ p # q
    BY <1>3
  <2>2. Moves(p)
    BY <1>3, <2>1 DEF Send, Moves
  <2> QED
    BY <1>3, <2>1, <2>2 DEF Send
<1>4. ASSUME NEW q \in Peers, DialFirst(q) \/ DialAgain(q) PROVE Quiet(p)
  <2>1. Moves(p)
    <3>1. CONN \in Nat
      BY DEF CONN
    <3> QED
      BY <1>4, <3>1 DEF DialFirst, DialAgain, Dial, Moves
  <2> QED
    BY <1>4, <2>1 DEF DialFirst, DialAgain, Dial
<1>5. ASSUME NEW q \in Peers,
             \/ ReaderTakes(q) \/ ReaderFails(q) \/ PeerReads(q)
             \/ CloseConn(q) \/ ConnReaderStops(q) \/ ConnClosed(q)
      PROVE  Quiet(p)
  BY <1>5 DEF ReaderTakes, ReaderFails, PeerReads, CloseConn, ConnReaderStops, ConnClosed,
     serverVars, Moves
<1>6. CASE \/ ReaderStops \/ AcceptStops \/ Kill \/ Unlisten \/ AllClosed
           \/ UNCHANGED socketsVars
  BY <1>6 DEF ReaderStops, AcceptStops, Kill, Unlisten, AllClosed, socketsVars, peerVars, Moves
<1> QED
  BY <1>1, <1>2, <1>3, <1>4, <1>5, <1>6 DEF SocketsNext, UsePeer

LEMMA InOrderNext ==
  ASSUME SocketsType, PassesOn, InOrder, [SocketsNext]_socketsVars
  PROVE  InOrder'
<1> SUFFICES ASSUME NEW p \in Peers PROVE Answered(p)' /\ Unanswered(p)'
  BY DEF InOrder
<1>1. Answered(p) /\ Unanswered(p)
  BY DEF InOrder
<1>2. CASE Quiet(p)
  BY <1>1, <1>2, OrderStays DEF Quiet
<1> QED
  BY <1>1, <1>2, StepsOfPeer, OrderSend, OrderRead, OrderAnswer, OrderHear

-----------------------------------------------------------------------------
\* Nothing is lost.
LEMMA TakenSent ==
  ASSUME SocketsType, NEW p \in Peers, Answered(p), AllOnTheWay(p)
  PROVE  Taken(p) \in Nat /\ Taken(p) <= sentBy[p]
<1>0. heard[p] \in Seq(Nat) /\ inbox[p] \in Seq(Nat)
  BY DEF SocketsType
<1>1. PICK a \in Nat : a = Len(heard[p]) /\ DOMAIN heard[p] = 1..a
  BY <1>0
<1>2. PICK b \in Nat : b = Len(inbox[p]) /\ DOMAIN inbox[p] = 1..b
  BY <1>0
<1>3. handlerAt[p] = "answering" => Taken(p) = a + b + 1
  BY <1>1, <1>2 DEF Taken
<1>4. handlerAt[p] # "answering" => Taken(p) = a + b
  BY <1>1, <1>2 DEF Taken
<1>5. sentBy[p] \in Nat
  BY Numbers
<1>6. CASE handlerAt[p] = "answering"
  <2>1. handling[p] = Taken(p) /\ handling[p] < sentBy[p] + 1
    BY <1>6 DEF AllOnTheWay, Answered, Below
  <2> QED
    BY <1>3, <1>5, <1>6, <2>1
<1>7. CASE handlerAt[p] # "answering" /\ b # 0
  <2>1. b \in DOMAIN inbox[p]
    BY <1>2, <1>7
  <2>2. inbox[p][b] = Len(heard[p]) + b
    BY <2>1 DEF AllOnTheWay
  <2>3. inbox[p][b] < sentBy[p] + 1
    BY <2>1 DEF Answered, Below, ReadBelow
  <2> QED
    BY <1>1, <1>4, <1>5, <1>7, <2>2, <2>3
<1>8. CASE handlerAt[p] # "answering" /\ b = 0 /\ a # 0
  <2>1. a \in DOMAIN heard[p]
    BY <1>1, <1>8
  <2>2. heard[p][a] = a
    BY <2>1 DEF AllOnTheWay
  <2>3. heard[p][a] < sentBy[p] + 1
    BY <2>1 DEF Answered, Below, ReadBelow
  <2> QED
    BY <1>4, <1>5, <1>8, <2>2, <2>3
<1>9. CASE handlerAt[p] # "answering" /\ b = 0 /\ a = 0
  BY <1>4, <1>5, <1>9
<1> QED
  BY <1>6, <1>7, <1>8, <1>9

\* A server that is open was so before, and nobody has started again.
LEMMA OpenBefore ==
  ASSUME SocketsType, [SocketsNext]_socketsVars, restarts' = 0, serverAt' = "open"
  PROVE  restarts = 0 /\ serverAt = "open" /\ \A q \in Peers : ~DialAgain(q)
<1> USE DEF SocketsType, SocketsTypeOK
<1>1. \A q \in Peers : ~DialAgain(q)
  BY DEF DialAgain, Dial
<1>2. restarts = 0
  BY <1>1 DEF SocketsNext, UsePeer, HandlePeer, DialFirst, Send,
     ReaderTakes, ReaderFails, PeerReads, CloseConn, ConnReaderStops, ConnClosed,
     ReaderStops, AcceptStops, TakeDatagram, Kill, Unlisten, AllClosed, Accept, HandOver,
     HandingStops, HandlerReads, HandlerAnswers, HandlerReturns, socketsVars, peerVars
<1>3. serverAt = "open"
  BY <1>1 DEF SocketsNext, UsePeer, HandlePeer, DialFirst, Dial, Send,
     ReaderTakes, ReaderFails, PeerReads, CloseConn, ConnReaderStops, ConnClosed,
     ReaderStops, AcceptStops, TakeDatagram, Kill, Unlisten, AllClosed, Accept, HandOver,
     HandingStops, HandlerReads, HandlerAnswers, HandlerReturns, serverVars, socketsVars
<1> QED
  BY <1>1, <1>2, <1>3

\* A connection that lasts has lasted, or is the first of its peer.
LEMMA LastingBefore ==
  ASSUME SocketsType, NEW p \in Peers, [SocketsNext]_socketsVars, Lasting(p)'
  PROVE  /\ DialFirst(p) \/ Lasting(p)
         /\ ~DialFirst(p) => ~DialAgain(p)
<1> USE DEF Lasting, SocketsType, SocketsTypeOK
<1>1. restarts = 0 /\ serverAt = "open" /\ \A q \in Peers : ~DialAgain(q)
  BY OpenBefore
<1>2. DialFirst(p) \/ clientConn[p] = "open"
  <2>0. /\ clientConn \in [Peers -> {"none", "open", "killed", "closing", "closed"}]
        /\ clientConn'[p] = "open"
    OBVIOUS
  <2> HIDE DEF Lasting, SocketsType, SocketsTypeOK
  <2>1. ASSUME NEW q \in Peers, UsePeer(q)
        PROVE  DialFirst(p) \/ clientConn[p] = "open"
    <3>1. CASE DialFirst(q)
      BY <2>0, <3>1 DEF DialFirst, Dial
    <3>2. CASE ReaderFails(q) \/ CloseConn(q) \/ ConnClosed(q)
      BY <2>0, <3>2 DEF ReaderFails, CloseConn, ConnClosed
    <3>3. CASE Send(q) \/ ReaderTakes(q) \/ PeerReads(q) \/ ConnReaderStops(q)
      BY <2>0, <3>3 DEF Send, ReaderTakes, PeerReads, ConnReaderStops
    <3> QED
      BY <1>1, <2>1, <3>1, <3>2, <3>3 DEF UsePeer
  <2>2. CASE \E q \in Peers : HandlePeer(q)
    BY <2>0, <2>2 DEF HandlePeer, Accept, HandOver, HandingStops, HandlerReads,
       HandlerAnswers, HandlerReturns, peerVars
  <2>3. CASE \/ ReaderStops \/ AcceptStops \/ TakeDatagram \/ Kill \/ Unlisten \/ AllClosed
             \/ UNCHANGED socketsVars
    BY <2>0, <2>3 DEF ReaderStops, AcceptStops, TakeDatagram, Kill, Unlisten, AllClosed,
       socketsVars, peerVars
  <2> QED
    BY <2>1, <2>2, <2>3 DEF SocketsNext
<1> QED
  BY <1>1, <1>2

\* As long as the reader does not know p, what p sent first stays.
LEMMA StaysUnknown ==
  ASSUME SocketsType, PassesOn, NEW p \in Peers, [SocketsNext]_socketsVars,
         serverAt = "open", p \notin packetClients'
  PROVE  /\ p \notin packetClients
         /\ \/ socket' = socket
            \/ socket # <<>> /\ socket' = Tail(socket) /\ Head(socket) # <<p, CONN>>
            \/ \E q \in Peers, n \in Nat : socket' = Append(socket, <<q, n>>)
<1> USE DEF SocketsType, SocketsTypeOK
<1>1. <<p, CONN>>[1] = p /\ <<p, CONN>>[2] = CONN
  OBVIOUS
<1>2. CASE TakeDatagram
  <2>1. p \notin packetClients /\ (socket' = socket \/ socket' = Tail(socket)) /\ socket # <<>>
    BY <1>2 DEF TakeDatagram
  <2>2. ASSUME Head(socket) = <<p, CONN>> PROVE FALSE
    <3>1. Head(socket)[1] = p /\ Head(socket)[2] = CONN
      BY <1>1, <2>2
    <3> QED
      BY <1>2, <2>1, <3>1 DEF TakeDatagram, IsDropped
  <2> QED
    BY <2>1, <2>2
<1>3. ASSUME NEW q \in Peers, HandlePeer(q)
      PROVE  /\ p \notin packetClients
             /\ \/ socket' = socket
                \/ socket # <<>> /\ socket' = Tail(socket) /\ Head(socket) # <<p, CONN>>
  <2>1. UNCHANGED packetClients
    BY <1>3 DEF HandlePeer, Accept, HandOver, HandingStops, HandlerReads, HandlerAnswers,
       HandlerReturns, acceptVars
  <2>2. socket' = socket \/ Passed(q)
    BY <1>3 DEF HandlePeer, Accept, HandOver, HandingStops, HandlerReads, HandlerAnswers,
       HandlerReturns
  <2>3. CASE Passed(q)
    <3>1. Head(socket)[1] # p
      BY <2>1, <2>3 DEF Passed, PassesOn
    <3> QED
      BY <1>1, <2>1, <2>3, <3>1 DEF Passed, PassesOn
  <2> QED
    BY <2>1, <2>2, <2>3
<1>4. ASSUME NEW q \in Peers, DialFirst(q) \/ DialAgain(q) \/ Send(q)
      PROVE  /\ p \notin packetClients
             /\ \E r \in Peers, n \in Nat : socket' = Append(socket, <<r, n>>)
  <2>1. sentBy[q] + 1 \in Nat /\ CONN \in Nat
    BY DEF CONN
  <2> QED
    BY <1>4, <2>1 DEF DialFirst, DialAgain, Dial, Send, acceptVars
<1>5. ASSUME NEW q \in Peers,
             \/ ReaderTakes(q) \/ ReaderFails(q) \/ PeerReads(q)
             \/ CloseConn(q) \/ ConnReaderStops(q) \/ ConnClosed(q)
      PROVE  p \notin packetClients /\ socket' = socket
  BY <1>5 DEF ReaderTakes, ReaderFails, PeerReads, CloseConn, ConnReaderStops, ConnClosed,
     serverVars, acceptVars
<1>6. CASE \/ ReaderStops \/ AcceptStops \/ Kill \/ Unlisten \/ AllClosed
           \/ UNCHANGED socketsVars
  BY <1>6 DEF ReaderStops, AcceptStops, Kill, Unlisten, AllClosed, socketsVars, acceptVars,
     Listening
<1> QED
  BY <1>2, <1>3, <1>4, <1>5, <1>6 DEF SocketsNext, UsePeer

LEMMA StaysConnected ==
  ASSUME SocketsType, PassesOn, NEW p \in Peers, [SocketsNext]_socketsVars,
         serverAt = "open", Reaching(p), Known(p)
  PROVE  Reaching(p)' /\ Known(p)'
<1> SUFFICES ASSUME p \notin packetClients' PROVE Reaching(p)' /\ Known(p)'
  BY DEF Reaching, Known
<1>1. PICK k \in DOMAIN socket : socket[k] = <<p, CONN>>
  BY StaysUnknown DEF Reaching
<1>2. \A i \in Waiting(p) : \E l \in DOMAIN socket : l < i /\ socket[l] = <<p, CONN>>
  BY StaysUnknown DEF Known
<1>3. socket \in Seq(Peers \X Nat) /\ \A i \in DOMAIN socket : i \in Nat
  BY Numbers DEF SocketsType
<1>4. CASE socket' = socket
  BY <1>1, <1>2, <1>4 DEF Reaching, Known, Waiting
<1>5. CASE socket # <<>> /\ socket' = Tail(socket) /\ Head(socket) # <<p, CONN>>
  <2>1. \A l \in DOMAIN socket :
          socket[l] = <<p, CONN>> => l - 1 \in DOMAIN socket' /\ socket'[l - 1] = <<p, CONN>>
    <3>1. Head(socket) = socket[1]
      BY <1>3, <1>5
    <3> QED
      BY <1>3, <1>5, <3>1, TailWaits
  <2>2. Reaching(p)'
    BY <1>1, <2>1 DEF Reaching
  <2>3. ASSUME NEW i \in Waiting(p)'
        PROVE  \E l \in DOMAIN socket' : l < i /\ socket'[l] = <<p, CONN>>
    <3>1. i + 1 \in Waiting(p)
      BY <1>3, <1>5, <2>3, TailWaits
    <3>2. PICK l \in DOMAIN socket : l < i + 1 /\ socket[l] = <<p, CONN>>
      BY <1>2, <3>1
    <3>3. i \in Nat
      <4>1. socket' \in Seq(Peers \X Nat)
        BY <1>3, <1>5, TailWaits
      <4> QED
        BY <4>1 DEF Waiting
    <3>4. l - 1 < i
      BY <1>3, <3>2, <3>3
    <3> QED
      BY <2>1, <3>2, <3>4
  <2> QED
    BY <2>2, <2>3 DEF Known
<1>6. ASSUME NEW q \in Peers, NEW n \in Nat, socket' = Append(socket, <<q, n>>)
      PROVE  Reaching(p)' /\ Known(p)'
  <2>1. \A i \in DOMAIN socket : i \in DOMAIN socket' /\ socket'[i] = socket[i]
    BY <1>3, <1>6, AppendWaits
  <2>2. ASSUME NEW i \in Waiting(p)'
        PROVE  \E l \in DOMAIN socket' : l < i /\ socket'[l] = <<p, CONN>>
    <3>1. \/ i \in DOMAIN socket /\ socket'[i] = socket[i]
          \/ \A j \in DOMAIN socket : j < i
      BY <1>3, <1>6, AppendWaits DEF Waiting
    <3>2. i \in DOMAIN socket /\ socket'[i] = socket[i] => i \in Waiting(p)
      BY DEF Waiting
    <3> QED
      BY <1>1, <1>2, <2>1, <3>1, <3>2
  <2> QED
    BY <1>1, <2>1, <2>2 DEF Reaching, Known
<1> QED
  BY <1>4, <1>5, <1>6, StaysUnknown

-----------------------------------------------------------------------------
\* The numbers of the messages of p that wait in the socket.
Numbered(p) == {socket[i][2] : i \in Waiting(p)}

LEMMA SameNumbered ==
  ASSUME SocketsType, NEW p \in Peers,
         \/ socket' = socket
         \/ socket # <<>> /\ socket' = Tail(socket) /\ 1 \notin Waiting(p)
         \/ \E q \in Peers, n \in Nat : socket' = Append(socket, <<q, n>>) /\ (q # p \/ n = CONN)
  PROVE  Numbered(p)' = Numbered(p)
<1>1. socket \in Seq(Peers \X Nat)
  BY DEF SocketsType
<1>2. CASE socket' = socket
  BY <1>2 DEF Numbered, Waiting
<1>3. CASE socket # <<>> /\ socket' = Tail(socket) /\ 1 \notin Waiting(p)
  <2>1. \A i \in Waiting(p)' : i + 1 \in Waiting(p) /\ socket'[i] = socket[i + 1]
    BY <1>1, <1>3, TailWaits
  <2>2. \A i \in Waiting(p) : i - 1 \in Waiting(p)' /\ socket'[i - 1] = socket[i]
    BY <1>1, <1>3, TailWaits
  <2> QED
    BY <2>1, <2>2 DEF Numbered
<1>4. ASSUME NEW q \in Peers, NEW n \in Nat, socket' = Append(socket, <<q, n>>),
             q # p \/ n = CONN
      PROVE  Numbered(p)' = Numbered(p)
  <2>1. <<q, n>>[1] = q /\ <<q, n>>[2] = n
    OBVIOUS
  <2>2. \A i \in DOMAIN socket : i \in DOMAIN socket' /\ socket'[i] = socket[i]
    BY <1>1, <1>4, AppendWaits
  <2>3. \A i \in DOMAIN socket' :
          (i \in DOMAIN socket /\ socket'[i] = socket[i]) \/ socket'[i] = <<q, n>>
    BY <1>1, <1>4, AppendWaits
  <2>4. \A i \in Waiting(p)' : i \in Waiting(p) /\ socket'[i] = socket[i]
    BY <1>4, <2>1, <2>3 DEF Waiting
  <2>5. \A i \in Waiting(p) : i \in Waiting(p)' /\ socket'[i] = socket[i]
    BY <2>2 DEF Waiting
  <2> QED
    BY <2>4, <2>5 DEF Numbered
<1> QED
  BY <1>2, <1>3, <1>4

\* A step with which nothing of p moves on takes none of its messages away.
LEMMA QuietKeeps ==
  ASSUME SocketsType, Served, PassesOn, NEW p \in Peers, [SocketsNext]_socketsVars,
         Quiet(p), ~HandlerAnswers(p), ~DialFirst(p), Known(p), Lasting(p), Lasting(p)'
  PROVE  /\ Numbered(p)' = Numbered(p)
         /\ inbox'[p] = inbox[p]
         /\ handlerAt'[p] = "answering" <=> handlerAt[p] = "answering"
<1> USE DEF SocketsType, SocketsTypeOK
<1>1. \A q \in Peers : ~DialAgain(q)
  BY DEF DialAgain, Lasting
<1>2. ~ReaderStops /\ ~HandlerReturns(p) /\ ~ConnClosed(p) /\ ~HandlerReads(p) /\ ~Send(p)
  <2>1. ~ReaderStops /\ ~HandlerReturns(p) /\ ~ConnClosed(p)
    BY DEF ReaderStops, HandlerReturns, ConnClosed, Lasting, Listening
  <2>2. ~HandlerReads(p)
    BY DEF HandlerReads, Quiet
  <2>3. ~Send(p)
    <3>1. \A n \in Nat : n + 1 # n
      OBVIOUS
    <3>2. Send(p) => sentBy'[p] = sentBy[p] + 1
      BY DEF Send
    <3> QED
      BY <3>1, <3>2 DEF Quiet
  <2> QED
    BY <2>1, <2>2, <2>3
<1>3. inbox'[p] = inbox[p]
  <2>1. \A q \in Peers : DialFirst(q) => inbox'[p] = inbox[p]
    BY ZenonT(60) DEF DialFirst, Dial
  <2>2. \A q \in Peers : HandlerAnswers(q) => inbox'[p] = inbox[p]
    BY ZenonT(60) DEF HandlerAnswers
  <2>3. \A q \in Peers : PeerReads(q) => inbox'[p] = inbox[p] \/ p = q
    BY DEF PeerReads
  <2>4. ~PeerReads(p)
    <3>1. \A t \in Seq(Nat), x \in Nat : Append(t, x) # t
      <4> SUFFICES ASSUME NEW t \in Seq(Nat), NEW x \in Nat PROVE Append(t, x) # t
        OBVIOUS
      <4>1. Len(Append(t, x)) = Len(t) + 1 /\ Len(t) \in Nat
        OBVIOUS
      <4> QED
        BY <4>1
    <3>2. ASSUME PeerReads(p) PROVE FALSE
      <4>1. inbox[p] # <<>> /\ inbox[p] \in Seq(Nat) /\ heard[p] \in Seq(Nat)
        BY <3>2 DEF PeerReads
      <4>2. Head(inbox[p]) \in Nat
        BY <4>1
      <4>3. heard'[p] = Append(heard[p], Head(inbox[p])) /\ heard'[p] = heard[p]
        BY <3>2 DEF PeerReads, Quiet
      <4> QED
        BY <3>1, <4>1, <4>2, <4>3
    <3> QED
      BY <3>2
  <2>5. \A q \in Peers : ConnClosed(q) => inbox'[p] = inbox[p] \/ p = q
    BY DEF ConnClosed
  <2> QED
    BY <1>1, <1>2, <2>1, <2>2, <2>3, <2>4, <2>5
    DEF SocketsNext, UsePeer, HandlePeer, Send, ReaderTakes, ReaderFails, CloseConn,
      ConnReaderStops, AcceptStops, TakeDatagram, Kill, Unlisten, AllClosed, Accept, HandOver,
      HandingStops, HandlerReads, HandlerReturns, socketsVars, serverVars, peerVars, acceptVars
<1>4. handlerAt[p] = "answering" => handlerAt'[p] = "answering"
  <2>1. \A q \in Peers : HandOver(q) => handlerAt[q] = "none"
    BY DEF HandOver, Served
  <2> QED
    BY ZenonT(60), <1>1, <1>2, <2>1
    DEF SocketsNext, UsePeer, HandlePeer, DialFirst, Dial, Send, ReaderTakes, ReaderFails,
      PeerReads, CloseConn, ConnReaderStops, ConnClosed, AcceptStops, TakeDatagram, Kill, Unlisten,
      AllClosed, Accept, HandOver, HandingStops, HandlerReads, HandlerAnswers, HandlerReturns,
      socketsVars, serverVars, peerVars, acceptVars
<1>5. ASSUME socket # <<>>, 1 \in Waiting(p), socket' = Tail(socket), socket' # socket PROVE FALSE
  <2>1. Head(socket) = socket[1] /\ Head(socket)[1] = p /\ Head(socket)[2] # CONN
    BY <1>5 DEF Waiting
  <2>2. p \in packetClients
    <3>1. \A k \in DOMAIN socket : ~(k < 1)
      OBVIOUS
    <3> QED
      BY <1>5, <3>1 DEF Known
  <2>3. CASE TakeDatagram
    BY <1>5, <2>1, <2>2, <2>3 DEF TakeDatagram, IsDropped
  <2>4. ASSUME NEW q \in Peers, HandlePeer(q) PROVE FALSE
    BY <1>2, <1>5, <2>1, <2>4 DEF HandlePeer, Accept, HandOver, HandingStops, HandlerReads,
       HandlerAnswers, HandlerReturns, Passed
  <2>5. ASSUME NEW q \in Peers, NEW x \in Peers \X Nat, socket' = Append(socket, x) PROVE FALSE
    <3>1. Len(Append(socket, x)) = Len(socket) + 1 /\ Len(Tail(socket)) = Len(socket) - 1
          /\ Len(socket) \in Nat
      BY <1>5
    <3>2. Append(socket, x) = Tail(socket)
      BY <1>5, <2>5
    <3> HIDE <2>5
    <3>3. Len(Append(socket, x)) = Len(Tail(socket))
      BY <3>2
    <3> QED
      BY SMTT(40), <3>1, <3>3
  <2>6. ASSUME NEW q \in Peers, DialFirst(q) \/ Send(q) PROVE FALSE
    <3>1. <<q, CONN>> \in Peers \X Nat /\ <<q, sentBy[q] + 1>> \in Peers \X Nat
      BY DEF CONN
    <3> QED
      BY <2>5, <2>6, <3>1 DEF DialFirst, Dial, Send
  <2> QED
    BY <1>1, <1>2, <1>5, <2>3, <2>4, <2>6
    DEF SocketsNext, UsePeer, ReaderTakes, ReaderFails, PeerReads, CloseConn, ConnReaderStops,
      ConnClosed, AcceptStops, Kill, Unlisten, AllClosed, socketsVars, serverVars
<1>6. socket' = <<>> => socket = <<>> \/ socket' = Tail(socket)
  <2>1. ASSUME NEW q \in Peers, NEW n \in Nat, socket' = Append(socket, <<q, n>>)
        PROVE  socket' # <<>>
    BY <2>1, AppendWaits
  <2>2. \A q \in Peers : sentBy[q] + 1 \in Nat /\ CONN \in Nat
    BY DEF CONN
  <2>3. \A q \in Peers : DialFirst(q) \/ Send(q) => socket' # <<>>
    BY <2>1, <2>2 DEF DialFirst, Dial, Send
  <2> QED
    BY ZenonT(60), <1>1, <1>2, <2>3
    DEF SocketsNext, UsePeer, HandlePeer, ReaderTakes, ReaderFails, PeerReads, CloseConn,
      ConnReaderStops, ConnClosed, AcceptStops, TakeDatagram, Kill, Unlisten, AllClosed,
      Accept, HandOver, HandingStops, HandlerReads, HandlerAnswers, HandlerReturns, Passed,
      socketsVars, serverVars, peerVars, acceptVars
<1>7. Numbered(p)' = Numbered(p)
  BY <1>5, <1>6, SameNumbered DEF Quiet, Moves
<1> QED
  BY <1>3, <1>4, <1>7 DEF Quiet

\* What AllOnTheWay says when the numbers of the waiting messages are known to rise.
OnTheWay(p) ==
  /\ \A i \in DOMAIN heard[p] : heard[p][i] = i
  /\ \A i \in DOMAIN inbox[p] : inbox[p][i] = Len(heard[p]) + i
  /\ handlerAt[p] = "answering" => handling[p] = Taken(p)
  /\ Numbered(p) = (Taken(p) + 1)..sentBy[p]

LEMMA WayIsOn == ASSUME NEW p, Unanswered(p) PROVE AllOnTheWay(p) <=> OnTheWay(p)
BY DEF AllOnTheWay, OnTheWay, Unanswered, Numbered

LEMMA WayStays ==
  ASSUME NEW p \in Peers, OnTheWay(p), Numbered(p)' = Numbered(p),
         inbox'[p] = inbox[p], heard'[p] = heard[p], sentBy'[p] = sentBy[p],
         handlerAt'[p] = "answering" <=> handlerAt[p] = "answering",
         handlerAt'[p] = "answering" => handling'[p] = handling[p]
  PROVE  OnTheWay(p)'
<1>1. Taken(p)' = Taken(p)
  BY DEF Taken
<1> QED
  BY <1>1 DEF OnTheWay

LEMMA WayDial ==
  ASSUME SocketsType, NEW p \in Peers, Untouched(p), DialFirst(p)
  PROVE  OnTheWay(p)' /\ Reaching(p)' /\ Known(p)'
<1>1. /\ heard'[p] = <<>> /\ inbox'[p] = <<>> /\ sentBy'[p] = 0 /\ handlerAt'[p] # "answering"
      /\ socket' = Append(socket, <<p, CONN>>)
  BY DEF Untouched, DialFirst, Dial, SocketsType
<1>2. Taken(p)' = 0
  BY <1>1 DEF Taken
<1>3. CONN \in Nat /\ <<p, CONN>>[2] = CONN /\ socket \in Seq(Peers \X Nat)
  BY DEF CONN, SocketsType
<1>4. Waiting(p)' = {}
  <2>1. \A i \in DOMAIN socket' :
          (i \in DOMAIN socket /\ socket'[i] = socket[i]) \/ socket'[i] = <<p, CONN>>
    BY <1>1, <1>3, AppendWaits
  <2> QED
    BY <1>3, <2>1 DEF Waiting, Untouched
<1>5. Len(socket) + 1 \in DOMAIN socket' /\ socket'[Len(socket) + 1] = <<p, CONN>>
  BY <1>1, <1>3, AppendWaits
<1>6. (0 + 1)..0 = {}
  OBVIOUS
<1> QED
  BY <1>1, <1>2, <1>4, <1>5, <1>6 DEF OnTheWay, Numbered, Reaching, Known

LEMMA WaySend ==
  ASSUME SocketsType, NEW p \in Peers, Answered(p), Unanswered(p), OnTheWay(p), Send(p)
  PROVE  OnTheWay(p)'
<1>1. PICK m \in Nat : m = sentBy[p] + 1
  BY Numbers
<1>2. /\ UNCHANGED <<handlerAt, handling, inbox, heard>>
      /\ sentBy'[p] = m /\ socket' = Append(socket, <<p, m>>)
  BY <1>1 DEF Send, SocketsType
<1>3. Taken(p)' = Taken(p)
  BY <1>2 DEF Taken
<1>4. PICK t \in Nat : t = Taken(p) /\ t <= sentBy[p]
  BY TakenSent, WayIsOn
<1>5. Numbered(p)' = Numbered(p) \cup {m}
  <2>1. socket \in Seq(Peers \X Nat) /\ <<p, m>>[2] = m /\ <<p, m>>[1] = p /\ m # CONN
    BY <1>1, Numbers DEF SocketsType, CONN
  <2>2. \A i \in DOMAIN socket : i \in DOMAIN socket' /\ socket'[i] = socket[i]
    BY <1>2, <2>1, AppendWaits
  <2>3. \A i \in DOMAIN socket' :
          (i \in DOMAIN socket /\ socket'[i] = socket[i]) \/ socket'[i] = <<p, m>>
    BY <1>2, <2>1, AppendWaits
  <2>4. Len(socket) + 1 \in DOMAIN socket' /\ socket'[Len(socket) + 1] = <<p, m>>
    BY <1>2, <2>1, AppendWaits
  <2>5. \A i \in Waiting(p)' : (i \in Waiting(p) /\ socket'[i] = socket[i]) \/ socket'[i][2] = m
    BY <2>1, <2>3 DEF Waiting
  <2>6. \A i \in Waiting(p) : i \in Waiting(p)' /\ socket'[i] = socket[i]
    BY <2>2 DEF Waiting
  <2>7. Len(socket) + 1 \in Waiting(p)' /\ socket'[Len(socket) + 1][2] = m
    BY <2>1, <2>4 DEF Waiting
  <2> QED
    BY <2>5, <2>6, <2>7 DEF Numbered
<1>6. (t + 1)..m = ((t + 1)..sentBy[p]) \cup {m}
  BY <1>1, <1>4, Numbers
<1>7. Numbered(p)' = (Taken(p)' + 1)..sentBy'[p]
  BY <1>2, <1>3, <1>4, <1>5, <1>6 DEF OnTheWay
<1> QED
  BY <1>2, <1>3, <1>7 DEF OnTheWay

\* The first datagram of the socket is the message after those that were taken.
LEMMA WayRead ==
  ASSUME SocketsType, PassesOn, NEW p \in Peers, Answered(p), Unanswered(p), OnTheWay(p),
         HandlerReads(p)
  PROVE  OnTheWay(p)'
<1>1. /\ UNCHANGED <<inbox, heard, sentBy>> /\ handlerAt[p] = "reading"
      /\ handlerAt'[p] = "answering"
      /\ socket # <<>> /\ socket' = Tail(socket) /\ socket \in Seq(Peers \X Nat)
  BY DEF HandlerReads, Passed, PassesOn, peerVars, SocketsType, SocketsTypeOK
<1>2. 1 \in Waiting(p) /\ handling'[p] = socket[1][2]
  BY OrderRead
<1>3. PICK h \in Nat : h = socket[1][2] /\ h \in Numbered(p)
  BY <1>2, Numbers DEF Numbered
<1>4. PICK t \in Nat : t = Taken(p) /\ t <= sentBy[p]
  BY TakenSent, WayIsOn
<1>5. PICK s \in Nat : s = sentBy[p]
  BY Numbers
<1>6. Taken(p)' = t + 1
  <2>1. Taken(p)' = Len(heard[p]) + Len(inbox[p]) + 1
    BY <1>1 DEF Taken
  <2>2. Taken(p) = Len(heard[p]) + Len(inbox[p]) + 0
    BY <1>1 DEF Taken
  <2>3. Len(heard[p]) \in Nat /\ Len(inbox[p]) \in Nat
    BY Numbers
  <2> QED
    BY <1>4, <2>1, <2>2, <2>3
<1>7. Numbered(p) = (t + 1)..s
  BY <1>4, <1>5 DEF OnTheWay
<1>8. \A i \in Waiting(p) : i # 1 => 1 < i /\ h < socket[i][2]
  <2>1. \A i \in Waiting(p) : i \in Nat /\ i # 0
    BY <1>1 DEF Waiting
  <2>2. \A i \in Nat : i # 0 /\ i # 1 => 1 < i
    OBVIOUS
  <2> QED
    BY <1>2, <1>3, <2>1, <2>2 DEF Unanswered
<1>9. h = t + 1
  <2>1. t + 1 <= h /\ h <= s /\ t + 1 \in Numbered(p)
    BY <1>3, <1>7
  <2>2. PICK i \in Waiting(p) : socket[i][2] = t + 1
    BY <2>1 DEF Numbered
  <2>3. i # 1 => h < t + 1
    BY <1>8, <2>2
  <2> QED
    BY <1>3, <2>1, <2>2, <2>3
<1>10. Numbered(p)' = Numbered(p) \ {h}
  <2>1. \A i \in Waiting(p)' : i + 1 \in Waiting(p) /\ socket'[i] = socket[i + 1]
    BY <1>1, TailWaits
  <2>2. \A i \in Waiting(p) : i # 1 => i - 1 \in Waiting(p)' /\ socket'[i - 1] = socket[i]
    BY <1>1, TailWaits
  <2>3. \A i \in Waiting(p)' : i + 1 # 1
    <3>1. socket' \in Seq(Peers \X Nat)
      BY <1>1, TailWaits
    <3>2. \A i \in Waiting(p)' : i \in Nat /\ i # 0
      BY <3>1 DEF Waiting
    <3> QED
      BY <3>2
  <2>4. \A n \in Nat : ~(n < n)
    OBVIOUS
  <2>5. \A i \in Waiting(p) : socket[i][2] = h <=> i = 1
    BY <1>3, <1>8, <2>4
  <2>6. \A x \in Numbered(p)' : x \in Numbered(p) /\ x # h
    BY <2>1, <2>3, <2>5 DEF Numbered
  <2>7. \A x \in Numbered(p) : x # h => x \in Numbered(p)'
    BY <1>3, <2>2 DEF Numbered
  <2> QED
    BY <2>6, <2>7
<1>11. ((t + 1)..s) \ {t + 1} = (t + 1 + 1)..s
  BY <1>4, <1>5
<1> QED
  BY <1>1, <1>2, <1>3, <1>5, <1>6, <1>7, <1>9, <1>10, <1>11 DEF OnTheWay

LEMMA WayAnswer ==
  ASSUME SocketsType, NEW p \in Peers, OnTheWay(p), Lasting(p), HandlerAnswers(p)
  PROVE  OnTheWay(p)'
<1>1. /\ UNCHANGED <<heard, sentBy, socket>> /\ handlerAt[p] = "answering"
      /\ handlerAt'[p] = "reading" /\ inbox'[p] = Append(inbox[p], handling[p])
  BY DEF HandlerAnswers, Lasting, Listening, SocketsType, SocketsTypeOK
<1>0. heard[p] \in Seq(Nat) /\ inbox[p] \in Seq(Nat) /\ handling[p] \in Nat
  BY DEF SocketsType
<1>2. PICK a \in Nat : a = Len(heard[p])
  BY <1>0
<1>3. PICK b \in Nat : b = Len(inbox[p])
  BY <1>0
<1>4. Len(inbox'[p]) = b + 1
  BY <1>0, <1>1, <1>3, AppendPlaces
<1>5. Taken(p) = a + b + 1 /\ Taken(p)' = a + (b + 1)
  BY <1>1, <1>2, <1>3, <1>4 DEF Taken
<1>6. handling[p] = a + (b + 1)
  BY <1>1, <1>5 DEF OnTheWay
<1>7. \A i \in DOMAIN inbox'[p] : inbox'[p][i] = Len(heard'[p]) + i
  <2>1. \A i \in DOMAIN inbox'[p] :
          \/ i \in DOMAIN inbox[p] /\ inbox'[p][i] = inbox[p][i]
          \/ i = b + 1 /\ inbox'[p][i] = handling[p]
    BY <1>1, <1>3, Numbers, AppendPlaces
  <2> QED
    BY <1>1, <1>2, <1>6, <2>1 DEF OnTheWay
<1>8. Numbered(p)' = Numbered(p) /\ Taken(p)' = Taken(p)
  BY <1>1, <1>5 DEF Numbered, Waiting
<1> QED
  BY <1>1, <1>7, <1>8 DEF OnTheWay

LEMMA WayHear ==
  ASSUME SocketsType, NEW p \in Peers, OnTheWay(p), PeerReads(p)
  PROVE  OnTheWay(p)'
<1>1. /\ UNCHANGED <<handlerAt, handling, sentBy, socket>> /\ inbox[p] # <<>>
      /\ heard'[p] = Append(heard[p], Head(inbox[p])) /\ inbox'[p] = Tail(inbox[p])
  BY DEF PeerReads, SocketsType, SocketsTypeOK, serverVars
<1>2. PICK a \in Nat : a = Len(heard[p])
  BY Numbers
<1>3. PICK b \in Nat : b = Len(inbox[p])
  BY Numbers
<1>4. 1 \in DOMAIN inbox[p] /\ Head(inbox[p]) = inbox[p][1]
  BY <1>1, Numbers, TailPlaces
<1>5. Head(inbox[p]) = a + 1
  BY <1>2, <1>4 DEF OnTheWay
<1>6. Len(heard'[p]) = a + 1 /\ Len(inbox'[p]) = b - 1
  <2>1. Len(heard'[p]) = a + 1
    BY <1>1, <1>2, <1>5, Numbers, AppendPlaces
  <2>2. Len(inbox'[p]) = b - 1
    BY <1>1, <1>3, Numbers, TailPlaces
  <2> QED
    BY <2>1, <2>2
<1>7. Taken(p)' = Taken(p)
  <2>1. handlerAt[p] = "answering" => Taken(p) = a + b + 1 /\ Taken(p)' = (a + 1) + (b - 1) + 1
    BY <1>1, <1>2, <1>3, <1>6 DEF Taken
  <2>2. handlerAt[p] # "answering" => Taken(p) = a + b + 0 /\ Taken(p)' = (a + 1) + (b - 1) + 0
    BY <1>1, <1>2, <1>3, <1>6 DEF Taken
  <2> QED
    BY <2>1, <2>2
<1>8. \A i \in DOMAIN heard'[p] : heard'[p][i] = i
  <2>1. \A i \in DOMAIN heard'[p] :
          \/ i \in DOMAIN heard[p] /\ heard'[p][i] = heard[p][i]
          \/ i = a + 1 /\ heard'[p][i] = a + 1
    BY <1>1, <1>2, <1>5, Numbers, AppendPlaces
  <2> QED
    BY <2>1 DEF OnTheWay
<1>9. \A i \in DOMAIN inbox'[p] : inbox'[p][i] = Len(heard'[p]) + i
  <2>1. \A i \in DOMAIN inbox'[p] :
          i \in Nat /\ i + 1 \in DOMAIN inbox[p] /\ inbox'[p][i] = inbox[p][i + 1]
    BY SMTT(40), <1>1, Numbers, TailPlaces
  <2>2. \A i \in DOMAIN inbox'[p] : inbox'[p][i] = a + (i + 1)
    BY <1>2, <2>1 DEF OnTheWay
  <2> QED
    BY SMTT(40), <1>6, <2>1, <2>2
<1>10. Numbered(p)' = Numbered(p)
  BY <1>1 DEF Numbered, Waiting
<1> QED
  BY <1>1, <1>7, <1>8, <1>9, <1>10 DEF OnTheWay

LEMMA NothingLostNext ==
  ASSUME SocketsIInv, [SocketsNext]_socketsVars, InOrder'
  PROVE  NothingLost'
<1> SUFFICES ASSUME NEW p \in Peers, Lasting(p)'
             PROVE  AllOnTheWay(p)' /\ Reaching(p)' /\ Known(p)'
  BY DEF NothingLost
<1>1. /\ SocketsType /\ Served /\ PassesOn /\ Strangers
      /\ Answered(p) /\ Unanswered(p) /\ Unanswered(p)'
  BY DEF SocketsIInv, InOrder
<1>2. AllOnTheWay(p)' <=> OnTheWay(p)'
  BY <1>1 DEF AllOnTheWay, OnTheWay, Unanswered, Numbered
<1>3. CASE DialFirst(p)
  <2>1. Untouched(p)
    BY <1>1, <1>3 DEF Strangers, DialFirst
  <2> QED
    BY <1>1, <1>2, <1>3, <2>1, WayDial
<1>4. CASE ~DialFirst(p)
  <2>1. Lasting(p)
    BY <1>1, <1>4, LastingBefore
  <2>2. AllOnTheWay(p) /\ Reaching(p) /\ Known(p)
    BY <2>1 DEF SocketsIInv, NothingLost
  <2>3. OnTheWay(p)
    BY <1>1, <2>2, WayIsOn
  <2>4. Reaching(p)' /\ Known(p)'
    <3>1. serverAt = "open"
      BY <2>1 DEF Lasting
    <3> QED
      BY <1>1, <2>2, <3>1, StaysConnected
  <2>5. CASE Quiet(p) /\ ~HandlerAnswers(p)
    <3>1. /\ Numbered(p)' = Numbered(p) /\ inbox'[p] = inbox[p]
          /\ handlerAt'[p] = "answering" <=> handlerAt[p] = "answering"
      BY <1>1, <1>4, <2>1, <2>2, <2>5, QuietKeeps
    <3> QED
      BY <1>2, <2>3, <2>4, <2>5, <3>1, WayStays DEF Quiet
  <2> QED
    BY <1>1, <1>2, <2>1, <2>3, <2>4, <2>5, StepsOfPeer, WaySend, WayRead, WayAnswer, WayHear
<1> QED
  BY <1>3, <1>4

-----------------------------------------------------------------------------
\* One step preserves the inductive invariant.
LEMMA NextSockets == SocketsIInv /\ [SocketsNext]_socketsVars => SocketsIInv'
<1> SUFFICES ASSUME SocketsIInv, [SocketsNext]_socketsVars PROVE SocketsIInv'
  OBVIOUS
<1>1. SocketsType /\ Served /\ PassesOn /\ Strangers /\ InOrder
  BY DEF SocketsIInv
<1>2. SocketsType' /\ Served' /\ PassesOn' /\ Strangers' /\ InOrder'
  BY <1>1, TypeNext, ServedNext, PassesOnNext, StrangersNext, InOrderNext
<1>3. NothingLost'
  BY <1>2, NothingLostNext
<1> QED
  BY <1>2, <1>3 DEF SocketsIInv

LEMMA SocketsIInvSays == SocketsIInv => SocketsTypeOK /\ ArrivesInOrder
<1> SUFFICES ASSUME SocketsIInv PROVE SocketsTypeOK /\ ArrivesInOrder
  OBVIOUS
<1>1. \A p \in Peers : Rising(heard[p])
  BY DEF SocketsIInv, InOrder, Answered
<1>2. \A p \in Peers : Lasting(p) => AllOnTheWay(p)
  BY DEF SocketsIInv, NothingLost
<1>3. SocketsTypeOK
  BY DEF SocketsIInv, SocketsType
<1> QED
  BY <1>1, <1>2, <1>3 DEF ArrivesInOrder, Rising, Lasting

THEOREM SocketsInductive == SocketsSpec => []SocketsIInv
<1>1. SocketsInit => SocketsIInv
  BY InitSockets
<1>2. SocketsIInv /\ [SocketsNext]_socketsVars => SocketsIInv'
  BY NextSockets
<1> QED
  BY <1>1, <1>2, PTL DEF SocketsSpec

\* The states of both sides: a new connection is handed over only for a known peer,
\* and a connection's reader holds an answer only if there is one.
THEOREM SocketsTypeCorrect == SocketsSpec => []SocketsTypeOK
<1>1. SocketsIInv => SocketsTypeOK
  BY SocketsIInvSays
<1> QED
  BY <1>1, SocketsInductive, PTL

\* A peer hears the answers in the order of its messages, also when it starts again
\* while earlier ones are on their way; and as long as server and connection last,
\* every message is on its way, being answered or heard, even one that was sent
\* before anybody served the peer, and whatever the other peers do.
THEOREM MessagesArriveInOrder == SocketsSpec => []ArrivesInOrder
<1>1. SocketsIInv => ArrivesInOrder
  BY SocketsIInvSays
<1> QED
  BY <1>1, SocketsInductive, PTL

-----------------------------------------------------------------------------
\* The abstract promise of the sockets: a dialogue is intact until the peer's
\* connection or the server is closed, or somebody starts again.
Intact ==
  {p \in Peers : restarts = 0 /\ serverAt = "open" /\ clientConn[p] \in {"none", "open"}}

Talk == INSTANCE Dialogues WITH asked <- sentBy, read <- heard, intact <- Intact

\* What is answered is a message, not a connect.
OnlyMessages ==
  \A p \in Peers :
    /\ \A i \in DOMAIN inbox[p] : inbox[p][i] # CONN
    /\ handlerAt[p] = "answering" => handling[p] # CONN

LEMMA OnlyMessagesNext ==
  ASSUME SocketsType, PassesOn, OnlyMessages, [SocketsNext]_socketsVars
  PROVE  OnlyMessages'
<1> SUFFICES ASSUME NEW p \in Peers
             PROVE  /\ \A i \in DOMAIN inbox'[p] : inbox'[p][i] # CONN
                    /\ handlerAt'[p] = "answering" => handling'[p] # CONN
  BY DEF OnlyMessages
<1>1. /\ \A i \in DOMAIN inbox[p] : inbox[p][i] # CONN
      /\ handlerAt[p] = "answering" => handling[p] # CONN
      /\ inbox[p] \in Seq(Nat)
  BY DEF OnlyMessages, SocketsType
<1>2. CASE Send(p)
  BY <1>1, <1>2 DEF Send
<1>3. CASE HandlerReads(p)
  <2>1. inbox' = inbox /\ Head(socket)[2] # CONN /\ handling'[p] = Head(socket)[2]
    BY <1>3 DEF HandlerReads, peerVars, SocketsType
  <2> QED
    BY <1>1, <2>1
<1>4. CASE HandlerAnswers(p)
  <2>1. /\ handlerAt'[p] # "answering" /\ handling[p] # CONN
        /\ inbox'[p] = inbox[p] \/ inbox'[p] = Append(inbox[p], handling[p])
    BY <1>1, <1>4 DEF HandlerAnswers, SocketsType, SocketsTypeOK
  <2>2. CASE inbox'[p] = Append(inbox[p], handling[p])
    BY <1>1, <2>1, <2>2, Numbers, AppendPlaces
  <2> QED
    BY <1>1, <2>1, <2>2
<1>5. CASE PeerReads(p)
  <2>1. /\ inbox[p] # <<>> /\ inbox'[p] = Tail(inbox[p])
        /\ handlerAt' = handlerAt /\ handling' = handling
    BY <1>5 DEF PeerReads, SocketsType, SocketsTypeOK, serverVars
  <2>2. \A i \in DOMAIN inbox'[p] : i + 1 \in DOMAIN inbox[p] /\ inbox'[p][i] = inbox[p][i + 1]
    BY <1>1, <2>1, TailPlaces, SMTT(40)
  <2> QED
    BY <1>1, <2>1, <2>2
<1>6. CASE Quiet(p)
  BY <1>1, <1>6 DEF Quiet
<1> QED
  BY <1>2, <1>3, <1>4, <1>5, <1>6, StepsOfPeer

\* No dialogue is intact again.
LEMMA IntactShrinks ==
  ASSUME SocketsType, [SocketsNext]_socketsVars
  PROVE  Intact' \subseteq Intact
<1> SUFFICES ASSUME NEW p \in Peers, p \in Intact' PROVE p \in Intact
  BY DEF Intact
<1>1. restarts' = 0 /\ serverAt' = "open" /\ clientConn'[p] \in {"none", "open"}
  BY DEF Intact
<1>2. restarts = 0 /\ serverAt = "open" /\ \A q \in Peers : ~DialAgain(q)
  BY <1>1, OpenBefore
<1>3. CASE clientConn'[p] = "open"
  <2>1. DialFirst(p) \/ Lasting(p)
    BY <1>1, <1>3, LastingBefore DEF Lasting
  <2> QED
    BY <1>1, <1>2, <2>1 DEF DialFirst, Lasting, Intact
<1>4. CASE clientConn'[p] = "none"
  <2>1. clientConn \in [Peers -> {"none", "open", "killed", "closing", "closed"}]
    BY DEF SocketsType, SocketsTypeOK
  <2>2. ASSUME NEW q \in Peers, UsePeer(q)
        PROVE  clientConn[p] = "none"
    <3>1. CASE DialFirst(q) \/ ReaderFails(q) \/ CloseConn(q) \/ ConnClosed(q)
      BY <1>1, <1>4, <2>1, <3>1 DEF DialFirst, Dial, ReaderFails, CloseConn, ConnClosed
    <3>2. CASE Send(q) \/ ReaderTakes(q) \/ PeerReads(q) \/ ConnReaderStops(q)
      BY <1>4, <3>2 DEF Send, ReaderTakes, PeerReads, ConnReaderStops
    <3> QED
      BY <1>2, <2>2, <3>1, <3>2 DEF UsePeer
  <2>3. ASSUME \E q \in Peers : HandlePeer(q)
        PROVE  clientConn[p] = "none"
    <3>1. clientConn' = clientConn
      BY <2>3 DEF HandlePeer, Accept, HandOver, HandingStops, HandlerReads,
         HandlerAnswers, HandlerReturns, peerVars
    <3> QED
      BY <1>4, <3>1
  <2>4. ASSUME \/ ReaderStops \/ AcceptStops \/ TakeDatagram \/ Kill \/ Unlisten \/ AllClosed
               \/ UNCHANGED socketsVars
        PROVE  clientConn[p] = "none"
    <3>1. clientConn' = clientConn
      BY <2>4 DEF ReaderStops, AcceptStops, TakeDatagram, Kill, Unlisten, AllClosed,
         socketsVars, peerVars
    <3> QED
      BY <1>4, <3>1
  <2>5. clientConn[p] = "none"
    BY <2>2, <2>3, <2>4 DEF SocketsNext
  <2> QED
    BY <1>1, <1>2, <2>5 DEF Intact
<1> QED
  BY <1>1, <1>3, <1>4

\* Reading an answer in the sockets is reading one in the dialogue.
LEMMA HearingReads ==
  ASSUME SocketsIInv, OnlyMessages, NEW p \in Peers, PeerReads(p)
  PROVE  \E n \in 1..sentBy[p] : Talk!ReadAnswer(p, n)
<1>1. /\ inbox[p] \in Seq(Nat) /\ heard[p] \in Seq(Nat) /\ sentBy[p] \in Nat
      /\ inbox[p] # <<>> /\ connReader[p] = "holding"
  BY DEF PeerReads, SocketsIInv, SocketsType, SocketsTypeOK
<1>2. PICK n \in Nat : 1 \in DOMAIN inbox[p] /\ n = Head(inbox[p]) /\ n = inbox[p][1]
  BY <1>1, TailPlaces
<1>3. n # 0
  BY <1>2 DEF OnlyMessages, CONN
<1>4. n < sentBy[p] + 1 /\ \A i \in DOMAIN heard[p] : heard[p][i] < n
  BY <1>2 DEF SocketsIInv, InOrder, Answered, Below, ReadBelow
<1>5. n \in 1..sentBy[p]
  BY <1>1, <1>2, <1>3, <1>4
<1>6. p \in Intact => n = Len(heard[p]) + 1
  <2> SUFFICES ASSUME p \in Intact PROVE n = Len(heard[p]) + 1
    OBVIOUS
  <2>1. clientConn[p] # "none"
    BY <1>1 DEF SocketsIInv, Strangers, Untouched
  <2>2. AllOnTheWay(p)
    BY <2>1 DEF Intact, SocketsIInv, NothingLost, Lasting
  <2> QED
    BY <1>2, <2>2 DEF AllOnTheWay
<1>7. /\ heard' = [heard EXCEPT ![p] = Append(@, n)] /\ sentBy' = sentBy
      /\ UNCHANGED <<restarts, serverAt, clientConn>>
  BY <1>2 DEF PeerReads, serverVars
<1>8. Intact' = Intact
  BY <1>7 DEF Intact
<1>9. Talk!ReadAnswer(p, n)
  BY <1>4, <1>6, <1>7, <1>8 DEF Talk!ReadAnswer
<1> QED
  BY <1>5, <1>9

LEMMA StepTalks ==
  SocketsIInv /\ OnlyMessages /\ [SocketsNext]_socketsVars => [Talk!Next]_(Talk!dialogueVars)
<1> SUFFICES ASSUME SocketsIInv, OnlyMessages, [SocketsNext]_socketsVars
             PROVE  [Talk!Next]_(Talk!dialogueVars)
  OBVIOUS
<1>1. SocketsType
  BY DEF SocketsIInv
<1>2. ASSUME NEW p \in Peers, Send(p)
      PROVE  Talk!Next
  <2>1. /\ sentBy' = [sentBy EXCEPT ![p] = @ + 1]
        /\ UNCHANGED <<heard, restarts, serverAt, clientConn>>
    BY <1>2 DEF Send
  <2>2. Intact' = Intact
    BY <2>1 DEF Intact
  <2>3. Talk!Ask(p)
    BY <2>1, <2>2 DEF Talk!Ask
  <2> QED
    BY <2>3 DEF Talk!Next
<1>3. ASSUME NEW p \in Peers, PeerReads(p)
      PROVE  Talk!Next
  BY <1>3, HearingReads DEF Talk!Next
<1>4. CASE UNCHANGED <<sentBy, heard>>
  <2>1. Intact' \subseteq Intact
    BY <1>1, IntactShrinks
  <2>2. CASE Intact' = Intact
    BY <1>4, <2>2 DEF Talk!dialogueVars
  <2>3. CASE Intact' # Intact
    <3>1. PICK S : S = Intact \ Intact'
      OBVIOUS
    <3>2. S # {} /\ S \in SUBSET Peers /\ Intact' = Intact \ S
      BY <2>1, <2>3, <3>1 DEF Intact
    <3>3. Talk!Interrupt(S)
      BY <1>4, <3>2 DEF Talk!Interrupt
    <3> QED
      BY <3>2, <3>3 DEF Talk!Next
  <2> QED
    BY <2>2, <2>3
<1>5. CASE \E p \in Peers : HandlePeer(p)
  BY <1>4, <1>5 DEF HandlePeer, Accept, HandOver, HandingStops, HandlerReads, HandlerAnswers,
     HandlerReturns, peerVars
<1>6. ASSUME NEW p \in Peers, UsePeer(p)
      PROVE  [Talk!Next]_(Talk!dialogueVars)
  <2>1. \/ Send(p) \/ PeerReads(p)
        \/ DialFirst(p) \/ DialAgain(p) \/ ReaderTakes(p) \/ ReaderFails(p)
        \/ CloseConn(p) \/ ConnReaderStops(p) \/ ConnClosed(p)
    BY <1>6 DEF UsePeer
  <2> QED
    BY <1>2, <1>3, <1>4, <2>1 DEF DialFirst, DialAgain, Dial, ReaderTakes, ReaderFails,
       CloseConn, ConnReaderStops, ConnClosed
<1>7. CASE \/ TakeDatagram \/ ReaderStops \/ AcceptStops \/ Kill \/ Unlisten \/ AllClosed
           \/ UNCHANGED socketsVars
  BY <1>4, <1>7 DEF TakeDatagram, ReaderStops, AcceptStops, Kill, Unlisten, AllClosed,
     socketsVars, peerVars
<1> QED
  BY <1>5, <1>6, <1>7 DEF SocketsNext

\* To the peers the sockets, with the readers, handlers and connections on both sides,
\* are dialogues: each peer reads answers to what it asked, at most once and in order,
\* also when it has started again or the server is being closed, and none is left out
\* before that.
THEOREM Refinement == SocketsSpec => Talk!Spec
<1>1. SocketsInit => Talk!Init /\ OnlyMessages
  BY DEF SocketsInit, SocketsStart, Talk!Init, OnlyMessages, Intact
<1>2. SocketsIInv /\ OnlyMessages /\ [SocketsNext]_socketsVars => OnlyMessages'
  BY OnlyMessagesNext DEF SocketsIInv
<1>3. SocketsIInv /\ OnlyMessages /\ [SocketsNext]_socketsVars => [Talk!Next]_(Talk!dialogueVars)
  BY StepTalks
<1> QED
  BY <1>1, <1>2, <1>3, SocketsInductive, PTL DEF SocketsSpec, Talk!Spec
=============================================================================
