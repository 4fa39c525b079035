----------------------- MODULE BehaviorControlProofs -----------------------
(***************************************************************************)
(* Theorems about the control of behaviors, for any number of clients,     *)
(* streams and animation goroutines.                                       *)
(***************************************************************************)
EXTENDS BehaviorControl, TLAPS

\* The answers in a channel that are grants are of connections in G.
RealGrants(q, G) == \A i \in DOMAIN q : q[i][1] = "granted" => q[i][2] \in G

\* A grant, wherever it is on its way, is of a connection the engine gave control
\* to, and on a stream itself it is that stream's.  Who waits for one has a stream.
GrantsOnTheWay ==
  /\ RealGrants(fromEngine, granted)
  /\ \A k \in Streams : RealGrants(inbox[k], granted)
  /\ \A k \in Streams : \A i \in DOMAIN heard[k] : heard[k][i] = "granted" => k \in granted
  /\ \A t \in Threads : pc[t] = "receiving" => mine[t] \in Streams

\* Stream k asked for control in q, and what it asked for is followed by a release.
Asked(q, k) == \E i \in DOMAIN q : q[i] = <<"request", k>>
Released(q, k) ==
  \E i \in DOMAIN q : /\ q[i] = <<"release", k>>
                      /\ \A n \in DOMAIN q : q[n] = <<"request", k>> => n < i

\* The inductive invariant.
IInv == TypeOK /\ GrantsOnTheWay /\ GrantIsReal /\ ReleaseFollows

\* Thread t is between the beginning and the end of a StartForegroundActivity or a
\* StopForegroundActivity; while it works with the robot it is not.
InCall(t) == pc[t] \notin {"idle", "working"}

\* These calls are made one at a time, by whichever threads.  The code does not see
\* to it; a mutex that both functions hold would.
OneCall == \A t, u \in Threads : InCall(t) /\ InCall(u) => t = u

\* When they are: bcStream and bcCancel are of the same stream, but for named places
\* in the one call there is; what it is about to clear, it has closed.
FieldsAgree ==
  /\ (\A t \in Threads : ~InCall(t)) => bcCancel = bcStream
  /\ \A t \in Threads :
       /\ pc[t] \in {"receiving", "storing stream", "stopping", "sending release", "cancelling",
                     "clearing stream"} => bcCancel = bcStream
       /\ pc[t] = "storing cancel" => bcStream = mine[t]
       /\ pc[t] \in {"sending release", "cancelling", "clearing stream"} => bcStream # None
       /\ pc[t] = "clearing stream" => client[bcStream] = "closed"
       /\ pc[t] = "clearing cancel" => bcStream = None

\* RobotClient has stream k in hand: in bcStream, or in a start not yet over.
InHand(k) ==
  \/ bcStream = k
  \/ \E t \in Threads :
       pc[t] \in {"receiving", "storing stream", "storing cancel"} /\ mine[t] = k

\* A stream in hand that stays open stays in hand, unless it is in bcStream and a
\* second start stores its own there.
LostToSecondStart ==
  \A k \in OwnStreams : InHand(k) /\ client'[k] = "open" =>
    \/ InHand(k)'
    \/ /\ bcStream = k
       /\ \E t \in Threads : pc[t] = "storing stream" /\ mine[t] # k /\ bcStream' = mine[t]

Requests == {"request", "release"}
Answers == {"granted", "lost"}

-----------------------------------------------------------------------------
\* What taking the first of a queue and putting one more into it do to a release
\* that follows.
LEMMA TailReleased ==
  ASSUME NEW q \in Seq(Requests \X Streams), NEW k \in Streams, q # <<>>
  PROVE  /\ Asked(Tail(q), k) => Asked(q, k)
         /\ Released(q, k) /\ (Head(q) # <<"release", k>> \/ Asked(Tail(q), k))
              => Released(Tail(q), k)
<1>1. /\ Len(q) \in Nat \ {0} /\ DOMAIN q = 1..Len(q) /\ DOMAIN Tail(q) = 1..(Len(q) - 1)
      /\ \A i \in 1..(Len(q) - 1) : Tail(q)[i] = q[i + 1]
      /\ Head(q) = q[1]
  OBVIOUS
<1>2. ASSUME NEW i \in DOMAIN Tail(q), Tail(q)[i] = <<"request", k>>
      PROVE  i + 1 \in DOMAIN q /\ q[i + 1] = <<"request", k>>
  BY <1>1, <1>2
<1>3. ASSUME Released(q, k), Head(q) # <<"release", k>> \/ Asked(Tail(q), k)
      PROVE  Released(Tail(q), k)
  <2>1. PICK i \in DOMAIN q : /\ q[i] = <<"release", k>>
                              /\ \A n \in DOMAIN q : q[n] = <<"request", k>> => n < i
    BY <1>3 DEF Released
  <2>2. i # 1
    <3>1. CASE Head(q) # <<"release", k>>
      BY <1>1, <2>1, <3>1
    <3>2. CASE Asked(Tail(q), k)
      <4>1. PICK n \in DOMAIN Tail(q) : Tail(q)[n] = <<"request", k>>
        BY <3>2 DEF Asked
      <4>2. n + 1 < i /\ n \in Nat
        BY <1>1, <1>2, <2>1, <4>1
      <4> QED
        BY <1>1, <2>1, <4>2
    <3> QED
      BY <1>3, <3>1, <3>2
  <2>3. i - 1 \in DOMAIN Tail(q) /\ Tail(q)[i - 1] = <<"release", k>>
    BY <1>1, <2>1, <2>2
  <2>4. \A n \in DOMAIN Tail(q) : Tail(q)[n] = <<"request", k>> => n < i - 1
    BY <1>1, <1>2, <2>1
  <2> QED
    BY <2>3, <2>4 DEF Released
<1> QED
  BY <1>2, <1>3 DEF Asked

LEMMA AppendReleased ==
  ASSUME NEW q \in Seq(Requests \X Streams), NEW k \in Streams,
         NEW e \in Requests \X Streams, e # <<"request", k>>
  PROVE  /\ Asked(Append(q, e), k) => Asked(q, k)
         /\ Released(q, k) => Released(Append(q, e), k)
         /\ e = <<"release", k>> => Released(Append(q, e), k)
<1> DEFINE p == Append(q, e)
<1>1. PICK m \in Nat : m = Len(q)
  OBVIOUS
<1>2. /\ DOMAIN q = 1..m /\ DOMAIN p = 1..(m + 1)
      /\ \A i \in 1..m : p[i] = q[i]
      /\ p[m + 1] = e
  BY <1>1
<1> HIDE DEF p
<1>3. Asked(p, k) => Asked(q, k)
  BY <1>2 DEF Asked
<1>4. ASSUME NEW n \in DOMAIN p, p[n] = <<"request", k>>
      PROVE  n \in DOMAIN q /\ q[n] = <<"request", k>> /\ n < m + 1
  BY <1>2, <1>4
<1>5. Released(q, k) => Released(p, k)
  <2>1. SUFFICES ASSUME Released(q, k) PROVE Released(p, k)
    OBVIOUS
  <2>2. PICK i \in DOMAIN q : /\ q[i] = <<"release", k>>
                              /\ \A n \in DOMAIN q : q[n] = <<"request", k>> => n < i
    BY <2>1 DEF Released
  <2>3. i \in DOMAIN p /\ p[i] = <<"release", k>>
    BY <1>2, <2>2
  <2> QED
    BY <1>4, <2>2, <2>3 DEF Released
<1>6. e = <<"release", k>> => Released(p, k)
  <2>1. m + 1 \in DOMAIN p
    BY <1>2
  <2> QED
    BY <1>2, <1>4, <2>1 DEF Released
<1> QED
  BY <1>3, <1>5, <1>6 DEF p

\* Grants in a channel stay real when one is taken or a real one is added, and
\* when more connections have had control.
LEMMA GrantsKept ==
  ASSUME NEW q \in Seq(Answers \X Streams), NEW G, RealGrants(q, G)
  PROVE  /\ \A H : G \subseteq H => RealGrants(q, H)
         /\ q # <<>> => RealGrants(Tail(q), G) /\ RealGrants(<<Head(q)>>, G)
         /\ \A k : RealGrants(q \o <<<<"lost", k>>>>, G)
         /\ \A k \in G : RealGrants(q \o <<<<"granted", k>>>>, G)
<1>1. \A H : G \subseteq H => RealGrants(q, H)
  BY DEF RealGrants
<1>2. q # <<>> => RealGrants(Tail(q), G) /\ RealGrants(<<Head(q)>>, G)
  <2>1. SUFFICES ASSUME q # <<>> PROVE RealGrants(Tail(q), G) /\ RealGrants(<<Head(q)>>, G)
    OBVIOUS
  <2>2. /\ DOMAIN q = 1..Len(q) /\ Len(q) \in Nat \ {0} /\ DOMAIN Tail(q) = 1..(Len(q) - 1)
        /\ \A i \in 1..(Len(q) - 1) : Tail(q)[i] = q[i + 1] /\ i + 1 \in DOMAIN q
        /\ Head(q) = q[1]
    BY <2>1
  <2>3. RealGrants(Tail(q), G)
    BY <2>2 DEF RealGrants
  <2>4. RealGrants(<<Head(q)>>, G)
    BY <2>2 DEF RealGrants
  <2> QED
    BY <2>3, <2>4
<1>3. ASSUME NEW e, e[1] # "granted" \/ e[2] \in G PROVE RealGrants(q \o <<e>>, G)
  BY <1>3 DEF RealGrants
<1> QED
  BY <1>1, <1>2, <1>3

-----------------------------------------------------------------------------
LEMMA InitIInv == Init => IInv
<1> SUFFICES ASSUME Init PROVE IInv
  OBVIOUS
<1>1. TypeOK
  BY DEF Init, TypeOK, Threads
<1>2. GrantsOnTheWay /\ GrantIsReal
  BY DEF Init, GrantsOnTheWay, RealGrants, GrantIsReal
<1>3. ReleaseFollows
  BY DEF Init, ReleaseFollows
<1> QED
  BY <1>1, <1>2, <1>3 DEF IInv

\* What opening and closing a stream does to its client's end.
LEMMA OpenType ==
  ASSUME TypeOK, NEW k \in Streams, Open(k)
  PROVE  /\ client' \in [Streams -> {"unused", "open", "closed"}]
         /\ up' \in [Streams -> Seq({"request", "release"})]
<1>1. /\ client \in [Streams -> {"unused", "open", "closed"}]
      /\ up \in [Streams -> Seq({"request", "release"})]
  BY DEF TypeOK
<1>2. <<"request">> \in Seq({"request", "release"})
  OBVIOUS
<1> QED
  BY <1>1, <1>2 DEF Open

LEMMA CloseType ==
  ASSUME TypeOK, NEW k, Close(k)
  PROVE  /\ client' \in [Streams -> {"unused", "open", "closed"}]
         /\ heard' \in [Streams -> Seq({"granted", "lost", "keepAlive"})]
         /\ \A q \in Streams : heard'[q] \in {heard[q], <<>>}
<1>1. /\ client \in [Streams -> {"unused", "open", "closed"}]
      /\ heard \in [Streams -> Seq({"granted", "lost", "keepAlive"})]
  BY DEF TypeOK
<1>2. <<>> \in Seq({"granted", "lost", "keepAlive"})
  OBVIOUS
<1> QED
  BY <1>1, <1>2 DEF Close

\* What the clients and the threads do leaves the handlers and the engine alone.
LEMMA ClientsKeep ==
  ASSUME IInv, UNCHANGED <<handlerVars, engineVars>>,
         \A k \in Streams : heard'[k] \in {heard[k], <<>>},
         \A t \in Threads : pc'[t] = "receiving" => mine'[t] \in Streams
  PROVE  GrantsOnTheWay' /\ ReleaseFollows'
<1>1. GrantsOnTheWay'
  BY DEF IInv, GrantsOnTheWay, handlerVars, engineVars, RealGrants
<1>2. ReleaseFollows'
  BY DEF IInv, ReleaseFollows, handlerVars, engineVars
<1> QED
  BY <1>1, <1>2

\* A thread that returns to another state than waiting keeps its grant, or has none.
LEMMA ReturnKeeps ==
  ASSUME IInv, NEW t \in Threads, NEW state, ReturnTo(t, state),
         state \in {"idle", "storing cancel", "working", "stopping", "sending release",
                    "cancelling", "clearing stream", "clearing cancel", "storing stream"},
         state \in {"storing stream", "storing cancel", "working"} => mine[t] \in granted,
         UNCHANGED granted
  PROVE  /\ pc' \in [Threads -> {"idle", "receiving", "storing stream", "storing cancel",
                                 "working", "stopping", "sending release", "cancelling",
                                 "clearing stream", "clearing cancel"}]
         /\ job' \in [Threads -> {"start", "hold", None}]
         /\ mine' \in [Threads -> Streams \cup {None}]
         /\ \A u \in Threads : pc'[u] = "receiving" => mine'[u] \in Streams
         /\ GrantIsReal'
<1>1. /\ pc' \in [Threads -> {"idle", "receiving", "storing stream", "storing cancel",
                              "working", "stopping", "sending release", "cancelling",
                              "clearing stream", "clearing cancel"}]
      /\ job' \in [Threads -> {"start", "hold", None}]
      /\ mine' \in [Threads -> Streams \cup {None}]
  BY DEF IInv, TypeOK, ReturnTo
<1>2. /\ pc'[t] = state /\ (state = "idle" \/ mine'[t] = mine[t])
      /\ \A u \in Threads \ {t} : pc'[u] = pc[u] /\ mine'[u] = mine[u]
  BY DEF IInv, TypeOK, ReturnTo
<1>3. \A u \in Threads : pc'[u] = "receiving" => mine'[u] \in Streams
  BY <1>2 DEF IInv, GrantsOnTheWay
<1>4. GrantIsReal'
  BY <1>2 DEF IInv, GrantIsReal
<1> QED
  BY <1>1, <1>3, <1>4

LEMMA ThreadKeeps ==
  ASSUME IInv, NEW t \in Threads, ThreadStep(t)
  PROVE  IInv'
<1>1. UNCHANGED <<handlerVars, engineVars>>
  BY DEF ThreadStep, StartForegroundActivity, ReceiveGrant, ReceiveOther, StoreStream,
     StoreCancel, Stop, CheckStream, SendRelease, Cancel, ClearStream, ClearCancel
<1>2. UNCHANGED granted
  BY <1>1 DEF engineVars
<1> DEFINE Rest == /\ GrantIsReal'
                   /\ \A u \in Threads : pc'[u] = "receiving" => mine'[u] \in Streams
<1>3. CASE \E j \in {"start", "hold"} : StartForegroundActivity(t, j)
  <2>1. PICK j \in {"start", "hold"}, k \in OwnStreams :
          /\ pc[t] = "idle" /\ Open(k) /\ mine' = [mine EXCEPT ![t] = k]
          /\ pc' = [pc EXCEPT ![t] = "receiving"] /\ job' = [job EXCEPT ![t] = j]
          /\ UNCHANGED <<heard, bcStream, bcCancel>>
    BY <1>3 DEF StartForegroundActivity
  <2>2. k \in Streams
    BY DEF Streams
  <2>3. TypeOK'
    <3>1. /\ client' \in [Streams -> {"unused", "open", "closed"}]
          /\ up' \in [Streams -> Seq({"request", "release"})]
      BY <2>1, <2>2, OpenType DEF IInv
    <3> QED
      BY <1>1, <2>1, <2>2, <3>1 DEF IInv, TypeOK, handlerVars, engineVars
  <2>4. Rest
    BY <1>2, <2>1, <2>2 DEF IInv, TypeOK, GrantIsReal, GrantsOnTheWay
  <2> QED
    BY <1>1, <2>1, <2>3, <2>4, ClientsKeep DEF IInv
<1>4. CASE ReceiveGrant(t)
  <2>1. mine[t] \in granted
    <3>1. mine[t] \in Streams /\ heard[mine[t]] # <<>> /\ Head(heard[mine[t]]) = "granted"
      BY <1>4 DEF IInv, GrantsOnTheWay, ReceiveGrant
    <3>2. heard[mine[t]] \in Seq({"granted", "lost", "keepAlive"})
      BY <3>1 DEF IInv, TypeOK
    <3>3. 1 \in DOMAIN heard[mine[t]] /\ heard[mine[t]][1] = "granted"
      BY <3>1, <3>2
    <3> QED
      BY <3>1, <3>3 DEF IInv, GrantsOnTheWay
  <2>2. ReturnTo(t, "storing stream") /\ UNCHANGED <<clientVars, bcStream, bcCancel>>
    BY <1>4 DEF ReceiveGrant
  <2>3. TypeOK'
    BY <1>1, <1>2, <2>1, <2>2, ReturnKeeps DEF IInv, TypeOK, clientVars, handlerVars, engineVars
  <2>4. Rest
    BY <1>2, <2>1, <2>2, ReturnKeeps
  <2> QED
    BY <1>1, <2>2, <2>3, <2>4, ClientsKeep DEF IInv, clientVars
<1>5. CASE ReceiveOther(t)
  <2>1. ReturnTo(t, "idle") /\ Close(mine[t]) /\ UNCHANGED <<up, bcStream, bcCancel>>
    BY <1>5 DEF ReceiveOther
  <2>2. TypeOK'
    <3>1. client' \in [Streams -> {"unused", "open", "closed"}]
          /\ heard' \in [Streams -> Seq({"granted", "lost", "keepAlive"})]
      BY <2>1, CloseType DEF IInv
    <3> QED
      BY <1>1, <1>2, <2>1, <3>1, ReturnKeeps DEF IInv, TypeOK, handlerVars, engineVars
  <2>3. Rest
    BY <1>2, <2>1, ReturnKeeps
  <2>4. \A k \in Streams : heard'[k] \in {heard[k], <<>>}
    BY <2>1, CloseType DEF IInv
  <2> QED
    BY <1>1, <2>2, <2>3, <2>4, ClientsKeep DEF IInv
<1>6. CASE StoreStream(t)
  <2>1. ReturnTo(t, "storing cancel") /\ UNCHANGED <<clientVars, bcCancel>> /\ bcStream' = mine[t]
    BY <1>6 DEF StoreStream
  <2>2. mine[t] \in granted /\ mine[t] \in Streams
    BY <1>6 DEF IInv, TypeOK, GrantIsReal, StoreStream
  <2>3. TypeOK'
    BY <1>1, <1>2, <2>1, <2>2, ReturnKeeps DEF IInv, TypeOK, clientVars, handlerVars, engineVars
  <2>4. Rest
    BY <1>2, <2>1, <2>2, ReturnKeeps
  <2> QED
    BY <1>1, <2>1, <2>3, <2>4, ClientsKeep DEF IInv, clientVars
<1>7. CASE StoreCancel(t)
  <2>1. PICK state \in {"working", "idle"} :
          ReturnTo(t, state) /\ UNCHANGED <<clientVars, bcStream>> /\ bcCancel' = mine[t]
    BY <1>7 DEF StoreCancel
  <2>2. mine[t] \in granted /\ mine[t] \in Streams
    BY <1>7 DEF IInv, TypeOK, GrantIsReal, StoreCancel
  <2>3. TypeOK'
    BY <1>1, <1>2, <2>1, <2>2, ReturnKeeps DEF IInv, TypeOK, clientVars, handlerVars, engineVars
  <2>4. Rest
    BY <1>2, <2>1, <2>2, ReturnKeeps
  <2> QED
    BY <1>1, <2>1, <2>3, <2>4, ClientsKeep DEF IInv, clientVars
<1>8. CASE Stop(t)
  <2>1. pc' = [pc EXCEPT ![t] = "stopping"]
        /\ UNCHANGED <<clientVars, job, mine, bcStream, bcCancel>>
    BY <1>8 DEF Stop
  <2>2. TypeOK'
    BY <1>1, <2>1 DEF IInv, TypeOK, clientVars, handlerVars, engineVars
  <2>3. Rest
    BY <1>2, <2>1 DEF IInv, TypeOK, GrantIsReal, GrantsOnTheWay
  <2> QED
    BY <1>1, <2>1, <2>2, <2>3, ClientsKeep DEF IInv, clientVars
<1>9. CASE CheckStream(t)
  <2>1. PICK state \in {"idle", "sending release"} :
          ReturnTo(t, state) /\ UNCHANGED <<clientVars, bcStream, bcCancel>>
    BY <1>9 DEF CheckStream
  <2>2. TypeOK'
    BY <1>1, <1>2, <2>1, ReturnKeeps DEF IInv, TypeOK, clientVars, handlerVars, engineVars
  <2>3. Rest
    BY <1>2, <2>1, ReturnKeeps
  <2> QED
    BY <1>1, <2>1, <2>2, <2>3, ClientsKeep DEF IInv, clientVars
<1>10. CASE SendRelease(t)
  <2>1. ReturnTo(t, "cancelling") /\ UNCHANGED <<client, heard, bcStream, bcCancel>>
    BY <1>10 DEF SendRelease
  <2>2. TypeOK'
    <3>1. up' \in [Streams -> Seq({"request", "release"})]
      <4>1. up \in [Streams -> Seq({"request", "release"})]
        BY DEF IInv, TypeOK
      <4>2. bcStream \in Streams
        BY <1>10 DEF IInv, TypeOK, SendRelease
      <4>3. Append(up[bcStream], "release") \in Seq({"request", "release"})
        BY <4>1, <4>2
      <4> QED
        BY <1>10, <4>1, <4>3 DEF SendRelease
    <3> QED
      BY <1>1, <1>2, <2>1, <3>1, ReturnKeeps DEF IInv, TypeOK, handlerVars, engineVars
  <2>3. Rest
    BY <1>2, <2>1, ReturnKeeps
  <2> QED
    BY <1>1, <2>1, <2>2, <2>3, ClientsKeep DEF IInv
<1>11. CASE Cancel(t)
  <2>1. ReturnTo(t, "clearing stream") /\ Close(bcCancel) /\ UNCHANGED <<up, bcStream, bcCancel>>
    BY <1>11 DEF Cancel
  <2>2. TypeOK'
    <3>1. client' \in [Streams -> {"unused", "open", "closed"}]
          /\ heard' \in [Streams -> Seq({"granted", "lost", "keepAlive"})]
      BY <2>1, CloseType DEF IInv
    <3> QED
      BY <1>1, <1>2, <2>1, <3>1, ReturnKeeps DEF IInv, TypeOK, handlerVars, engineVars
  <2>3. Rest
    BY <1>2, <2>1, ReturnKeeps
  <2>4. \A k \in Streams : heard'[k] \in {heard[k], <<>>}
    BY <2>1, CloseType DEF IInv
  <2> QED
    BY <1>1, <2>2, <2>3, <2>4, ClientsKeep DEF IInv
<1>12. CASE ClearStream(t) \/ ClearCancel(t)
  <2>1. PICK state \in {"clearing cancel", "idle"} :
          /\ ReturnTo(t, state) /\ UNCHANGED clientVars
          /\ bcStream' \in {bcStream, None} /\ bcCancel' \in {bcCancel, None}
    BY <1>12 DEF ClearStream, ClearCancel
  <2>2. TypeOK'
    BY <1>1, <1>2, <2>1, ReturnKeeps DEF IInv, TypeOK, clientVars, handlerVars, engineVars
  <2>3. Rest
    BY <1>2, <2>1, ReturnKeeps
  <2> QED
    BY <1>1, <2>1, <2>2, <2>3, ClientsKeep DEF IInv, clientVars
<1> QED
  BY <1>3, <1>4, <1>5, <1>6, <1>7, <1>8, <1>9, <1>10, <1>11, <1>12 DEF ThreadStep

LEMMA SdkKeeps ==
  ASSUME IInv, NEW k \in Streams, SdkOpens(k) \/ SdkCloses(k)
  PROVE  IInv'
<1>1. UNCHANGED <<threadVars, handlerVars, engineVars>>
  BY DEF SdkOpens, SdkCloses
<1>2. /\ client' \in [Streams -> {"unused", "open", "closed"}]
      /\ up' \in [Streams -> Seq({"request", "release"})]
      /\ heard' \in [Streams -> Seq({"granted", "lost", "keepAlive"})]
      /\ \A q \in Streams : heard'[q] \in {heard[q], <<>>}
  <2>1. CASE SdkOpens(k)
    BY <2>1, OpenType DEF IInv, TypeOK, SdkOpens
  <2>2. CASE SdkCloses(k)
    BY <2>2, CloseType DEF IInv, TypeOK, SdkCloses
  <2> QED
    BY <2>1, <2>2
<1>3. TypeOK'
  BY <1>1, <1>2 DEF IInv, TypeOK, threadVars, handlerVars, engineVars
<1>4. GrantIsReal'
  BY <1>1 DEF IInv, GrantIsReal, threadVars, engineVars
<1>5. \A t \in Threads : pc'[t] = "receiving" => mine'[t] \in Streams
  BY <1>1 DEF IInv, GrantsOnTheWay, threadVars
<1> QED
  BY <1>1, <1>2, <1>3, <1>4, <1>5, ClientsKeep DEF IInv

\* What the handlers do besides their own variables, when they write nothing to the
\* engine and end no request handler.
LEMMA HandlersKeep ==
  ASSUME IInv, UNCHANGED <<threadVars, engineVars>>,
         \A k \in Streams : reader'[k] = "done" => reader[k] = "done",
         \A k \in Streams : RealGrants(inbox'[k], granted),
         \A k \in Streams : \A i \in DOMAIN heard'[k] : heard'[k][i] = "granted" => k \in granted
  PROVE  GrantsOnTheWay' /\ GrantIsReal' /\ ReleaseFollows'
<1>1. GrantsOnTheWay'
  BY DEF IInv, GrantsOnTheWay, threadVars, engineVars, RealGrants
<1>2. GrantIsReal'
  BY DEF IInv, GrantIsReal, threadVars, engineVars
<1>3. ReleaseFollows'
  BY DEF IInv, ReleaseFollows, engineVars
<1> QED
  BY <1>1, <1>2, <1>3

\* Steps of the request handler.
LEMMA ReaderKeeps ==
  ASSUME IInv, NEW k \in Streams, ReadRequest(k) \/ ReadError(k) \/ Release(k)
  PROVE  IInv'
<1>1. UNCHANGED <<client, heard, threadVars, responder, listening, inbox,
                  fromEngine, holder, granted>>
  BY DEF ReadRequest, ReadError, Release, clientVars, handlerVars, engineVars
<1>2. GrantsOnTheWay' /\ GrantIsReal'
  BY <1>1 DEF IInv, GrantsOnTheWay, GrantIsReal, RealGrants, threadVars
<1>3. /\ up \in [Streams -> Seq({"request", "release"})]
      /\ reader \in [Streams -> {"none", "reading", "releasing", "done"}]
      /\ toEngine \in Seq(Requests \X Streams)
  BY DEF IInv, TypeOK, Requests
<1>4. CASE ReadRequest(k)
  <2>1. /\ reader[k] = "reading" /\ up[k] # <<>> /\ up' = [up EXCEPT ![k] = Tail(@)]
        /\ toEngine' = Append(toEngine, <<Head(up[k]), k>>) /\ reader' = reader
    BY <1>4 DEF ReadRequest, handlerVars
  <2>2. up[k] \in Seq({"request", "release"}) /\ up[k] # <<>>
    BY <1>3, <2>1
  <2>3. Head(up[k]) \in Requests /\ Tail(up[k]) \in Seq({"request", "release"})
    BY <2>2 DEF Requests
  <2>4. <<Head(up[k]), k>> \in Requests \X Streams
    BY <2>3
  <2>5. TypeOK'
    <3>1. up' \in [Streams -> Seq({"request", "release"})]
          /\ toEngine' \in Seq({"request", "release"} \X Streams)
      BY <1>3, <2>1, <2>3, <2>4 DEF Requests
    <3> QED
      BY <1>1, <2>1, <3>1 DEF IInv, TypeOK, threadVars
  <2>6. ReleaseFollows'
    <3>1. SUFFICES ASSUME NEW q \in Streams, reader[q] = "done", holder = q \/ Asked(toEngine', q)
                   PROVE  Released(toEngine', q)
      BY <1>1, <2>1 DEF ReleaseFollows, Asked, Released
    <3>2. <<Head(up[k]), k>> # <<"request", q>>
      BY <2>1, <3>1
    <3>3. Asked(toEngine', q) => Asked(toEngine, q)
      BY <1>3, <2>1, <2>4, <3>2, AppendReleased
    <3>4. Released(toEngine, q)
      BY <3>1, <3>3 DEF IInv, ReleaseFollows, Asked, Released
    <3> QED
      BY <1>3, <2>1, <2>4, <3>2, <3>4, AppendReleased
  <2> QED
    BY <1>2, <2>5, <2>6 DEF IInv
<1>5. CASE ReadError(k)
  <2>1. /\ up' = [up EXCEPT ![k] = <<>>] /\ reader' = [reader EXCEPT ![k] = "releasing"]
        /\ toEngine' = toEngine
    BY <1>5 DEF ReadError, engineVars
  <2>2. TypeOK'
    <3>1. <<>> \in Seq({"request", "release"})
      OBVIOUS
    <3>2. up' \in [Streams -> Seq({"request", "release"})]
          /\ reader' \in [Streams -> {"none", "reading", "releasing", "done"}]
      BY <1>3, <2>1, <3>1
    <3> QED
      BY <1>1, <2>1, <3>2 DEF IInv, TypeOK, threadVars
  <2>3. ReleaseFollows'
    BY <1>1, <1>3, <2>1 DEF IInv, ReleaseFollows
  <2> QED
    BY <1>2, <2>2, <2>3 DEF IInv
<1>6. CASE Release(k)
  <2>1. /\ up' = up /\ reader' = [reader EXCEPT ![k] = "done"]
        /\ toEngine' = Append(toEngine, <<"release", k>>)
    BY <1>6 DEF Release, clientVars
  <2>2. <<"release", k>> \in Requests \X Streams
    BY DEF Requests
  <2>3. TypeOK'
    <3>1. toEngine' \in Seq({"request", "release"} \X Streams)
          /\ reader' \in [Streams -> {"none", "reading", "releasing", "done"}]
      BY <1>3, <2>1, <2>2 DEF Requests
    <3> QED
      BY <1>1, <2>1, <3>1 DEF IInv, TypeOK, threadVars
  <2>4. ReleaseFollows'
    <3>1. SUFFICES ASSUME NEW q \in Streams, reader'[q] = "done", holder = q \/ Asked(toEngine', q)
                   PROVE  Released(toEngine', q)
      BY <1>1 DEF ReleaseFollows, Asked, Released
    <3>2. <<"release", k>> # <<"request", q>>
      OBVIOUS
    <3>3. CASE q = k
      BY <1>3, <2>1, <2>2, <3>2, <3>3, AppendReleased
    <3>4. CASE q # k
      <4>1. reader[q] = "done"
        BY <1>3, <2>1, <3>1, <3>4
      <4>2. Asked(toEngine', q) => Asked(toEngine, q)
        BY <1>3, <2>1, <2>2, <3>2, AppendReleased
      <4>3. Released(toEngine, q)
        BY <3>1, <4>1, <4>2 DEF IInv, ReleaseFollows, Asked, Released
      <4> QED
        BY <1>3, <2>1, <2>2, <3>2, <4>3, AppendReleased
    <3> QED
      BY <3>3, <3>4
  <2> QED
    BY <1>2, <2>3, <2>4 DEF IInv
<1> QED
  BY <1>4, <1>5, <1>6

\* Steps of the handler itself and of its response handler.
LEMMA ResponderKeeps ==
  ASSUME IInv, NEW k \in Streams,
         Accept(k) \/ Respond(k) \/ Ping(k) \/ EndResponses(k) \/ Return(k)
  PROVE  IInv'
<1>1. UNCHANGED <<client, up, threadVars, engineVars>>
  BY DEF Accept, Respond, Ping, EndResponses, Return, clientVars
<1>2. /\ heard \in [Streams -> Seq({"granted", "lost", "keepAlive"})]
      /\ reader \in [Streams -> {"none", "reading", "releasing", "done"}]
      /\ responder \in [Streams -> {"none", "running", "leaving", "returned"}]
      /\ listening \subseteq Streams
      /\ inbox \in [Streams -> Seq(Answers \X Streams)]
      /\ \A q \in Streams : Len(inbox[q]) <= 1
  BY DEF IInv, TypeOK, Answers
<1>3. /\ \A q \in Streams : RealGrants(inbox[q], granted)
      /\ \A q \in Streams : \A i \in DOMAIN heard[q] : heard[q][i] = "granted" => q \in granted
  BY DEF IInv, GrantsOnTheWay
<1> DEFINE Types == /\ heard' \in [Streams -> Seq({"granted", "lost", "keepAlive"})]
                    /\ reader' \in [Streams -> {"none", "reading", "releasing", "done"}]
                    /\ responder' \in [Streams -> {"none", "running", "leaving", "returned"}]
                    /\ listening' \subseteq Streams
                    /\ inbox' \in [Streams -> Seq(Answers \X Streams)]
                    /\ \A q \in Streams : Len(inbox'[q]) <= 1
           Kept == /\ \A q \in Streams : reader'[q] = "done" => reader[q] = "done"
                   /\ \A q \in Streams : RealGrants(inbox'[q], granted)
                   /\ \A q \in Streams : \A i \in DOMAIN heard'[q] :
                        heard'[q][i] = "granted" => q \in granted
<1>4. Types /\ Kept
  <2>1. CASE Accept(k)
    BY <1>2, <1>3, <2>1 DEF Accept, clientVars
  <2>2. CASE Respond(k)
    <3>1. /\ inbox[k] # <<>> /\ inbox' = [inbox EXCEPT ![k] = Tail(@)]
          /\ reader' = reader /\ listening' = listening
          /\ responder' \in {responder, [responder EXCEPT ![k] = "leaving"]}
          /\ \/ heard' = heard
             \/ /\ Head(inbox[k])[2] = k
                /\ heard' = [heard EXCEPT ![k] = Append(@, Head(inbox[k])[1])]
      BY <2>2 DEF Respond, ForMe
    <3>2. inbox[k] \in Seq(Answers \X Streams) /\ inbox[k] # <<>> /\ RealGrants(inbox[k], granted)
          /\ Len(inbox[k]) <= 1
      BY <1>2, <1>3, <3>1
    <3>3. /\ Tail(inbox[k]) \in Seq(Answers \X Streams)
          /\ Len(Tail(inbox[k])) <= 1
          /\ Head(inbox[k]) \in Answers \X Streams
          /\ Head(inbox[k])[1] = "granted" => Head(inbox[k])[2] \in granted
      BY <3>2 DEF RealGrants
    <3>4. RealGrants(Tail(inbox[k]), granted)
      BY <3>2, GrantsKept
    <3>5. Head(inbox[k])[1] \in Answers
      BY <3>3
    <3>6. Types
      <4>1. heard[k] \in Seq({"granted", "lost", "keepAlive"})
        BY <1>2
      <4>2. Append(heard[k], Head(inbox[k])[1]) \in Seq({"granted", "lost", "keepAlive"})
        BY <3>5, <4>1 DEF Answers
      <4>3. heard' \in [Streams -> Seq({"granted", "lost", "keepAlive"})]
        BY ZenonT(60), <1>2, <3>1, <4>2
      <4>4. /\ inbox' \in [Streams -> Seq(Answers \X Streams)]
            /\ \A q \in Streams : Len(inbox'[q]) <= 1
        BY <1>2, <3>1, <3>3
      <4> QED
        BY <1>2, <3>1, <4>3, <4>4
    <3>7. \A q \in Streams : RealGrants(inbox'[q], granted)
      BY <1>2, <1>3, <3>1, <3>4
    <3>8. \A q \in Streams : \A i \in DOMAIN heard'[q] : heard'[q][i] = "granted" => q \in granted
      <4>1. CASE heard' = heard
        BY <1>3, <4>1
      <4>2. CASE /\ Head(inbox[k])[2] = k
                 /\ heard' = [heard EXCEPT ![k] = Append(@, Head(inbox[k])[1])]
        <5>1. \A q \in Streams \ {k} : heard'[q] = heard[q]
          BY <1>2, <4>2
        <5>2. heard'[k] = Append(heard[k], Head(inbox[k])[1]) /\ heard[k] \in Seq({"granted", "lost", "keepAlive"})
          BY <1>2, <4>2
        <5>3. \A i \in DOMAIN heard'[k] : heard'[k][i] = "granted" => k \in granted
          BY <1>3, <3>3, <4>2, <5>2
        <5> QED
          BY <1>3, <5>1, <5>3
      <4> QED
        BY <3>1, <4>1, <4>2
    <3> QED
      BY <3>1, <3>6, <3>7, <3>8
  <2>3. CASE Ping(k)
    <3>1. heard' = [heard EXCEPT ![k] = <<"keepAlive">>] /\ UNCHANGED handlerVars
      BY <2>3 DEF Ping
    <3>2. <<"keepAlive">> \in Seq({"granted", "lost", "keepAlive"})
          /\ \A i \in DOMAIN <<"keepAlive">> : <<"keepAlive">>[i] # "granted"
      OBVIOUS
    <3>3. Types
      BY <1>2, <3>1, <3>2 DEF handlerVars
    <3> QED
      BY <1>2, <1>3, <3>1, <3>2, <3>3 DEF handlerVars
  <2>4. CASE EndResponses(k)
    BY <1>2, <1>3, <2>4 DEF EndResponses, clientVars
  <2>5. CASE Return(k)
    <3>1. <<>> \in Seq(Answers \X Streams) /\ Len(<<>>) <= 1 /\ RealGrants(<<>>, granted)
      BY DEF RealGrants
    <3> QED
      BY <1>2, <1>3, <2>5, <3>1 DEF Return, clientVars
  <2> QED
    BY <2>1, <2>2, <2>3, <2>4, <2>5
<1>5. TypeOK'
  BY <1>1, <1>4 DEF IInv, TypeOK, Answers, threadVars, engineVars
<1> QED
  BY <1>1, <1>4, <1>5, HandlersKeep DEF IInv

LEMMA PropagateKeeps ==
  ASSUME IInv, Propagate
  PROVE  IInv'
<1>1. UNCHANGED <<client, up, heard, threadVars, reader, responder, toEngine, holder, granted>>
  BY DEF Propagate, clientVars
<1>2. /\ fromEngine \in Seq(Answers \X Streams) /\ fromEngine # <<>>
      /\ inbox \in [Streams -> Seq(Answers \X Streams)]
      /\ \A k \in Streams : Len(inbox[k]) <= 1 /\ RealGrants(inbox[k], granted)
      /\ RealGrants(fromEngine, granted)
  BY DEF IInv, TypeOK, GrantsOnTheWay, Propagate, Answers
<1>3. /\ Tail(fromEngine) \in Seq(Answers \X Streams)
      /\ <<Head(fromEngine)>> \in Seq(Answers \X Streams) /\ Len(<<Head(fromEngine)>>) = 1
      /\ RealGrants(Tail(fromEngine), granted) /\ RealGrants(<<Head(fromEngine)>>, granted)
  <2>1. RealGrants(Tail(fromEngine), granted) /\ RealGrants(<<Head(fromEngine)>>, granted)
    BY <1>2, GrantsKept
  <2>2. /\ Tail(fromEngine) \in Seq(Answers \X Streams)
        /\ <<Head(fromEngine)>> \in Seq(Answers \X Streams) /\ Len(<<Head(fromEngine)>>) = 1
    BY <1>2
  <2> QED
    BY <2>1, <2>2
<1>4. <<>> \in Seq(Answers \X Streams) /\ Len(<<>>) = 0 /\ RealGrants(<<>>, granted)
  BY DEF RealGrants
<1>5. \A k \in Streams : inbox'[k] \in {<<Head(fromEngine)>>, <<>>, inbox[k]}
  BY DEF Propagate
<1>6. /\ inbox' \in [Streams -> Seq(Answers \X Streams)]
      /\ \A k \in Streams : Len(inbox'[k]) <= 1 /\ RealGrants(inbox'[k], granted)
  <2>1. inbox' = [k \in Streams |-> inbox'[k]]
    BY DEF Propagate
  <2>2. \A k \in Streams : inbox'[k] \in Seq(Answers \X Streams) /\ Len(inbox'[k]) <= 1
                           /\ RealGrants(inbox'[k], granted)
    <3>1. TAKE k \in Streams
    <3>2. CASE inbox'[k] = inbox[k]
      BY <1>2, <3>2
    <3>3. CASE inbox'[k] = <<Head(fromEngine)>>
      BY <1>3, <3>3
    <3>4. CASE inbox'[k] = <<>>
      BY <1>4, <3>4
    <3> QED
      BY <1>5, <3>2, <3>3, <3>4
  <2> QED
    BY <2>1, <2>2
<1>7. fromEngine' = Tail(fromEngine) /\ listening' \subseteq listening
  BY DEF Propagate
<1>8. TypeOK'
  BY <1>1, <1>3, <1>6, <1>7 DEF IInv, TypeOK, Answers, threadVars
<1>9. GrantsOnTheWay'
  BY <1>1, <1>3, <1>6, <1>7 DEF IInv, GrantsOnTheWay, threadVars
<1>10. GrantIsReal' /\ ReleaseFollows'
  BY <1>1 DEF IInv, GrantIsReal, ReleaseFollows, threadVars
<1> QED
  BY <1>8, <1>9, <1>10 DEF IInv

LEMMA EngineKeeps ==
  ASSUME IInv, EngineStep
  PROVE  IInv'
<1>1. UNCHANGED <<clientVars, threadVars, handlerVars>>
  BY DEF EngineStep, EngineGrants, EngineIgnores, EngineReleases, EngineReclaims
<1>2. /\ fromEngine \in Seq(Answers \X Streams) /\ toEngine \in Seq(Requests \X Streams)
      /\ holder \in Streams \cup {None} /\ granted \subseteq Streams
  BY DEF IInv, TypeOK, Answers, Requests
<1>3. RealGrants(fromEngine, granted)
  BY DEF IInv, GrantsOnTheWay
<1>4. fromEngine \o Losing \in Seq(Answers \X Streams) /\ RealGrants(fromEngine \o Losing, granted)
  <2>1. CASE holder = None
    BY <1>2, <1>3, <2>1 DEF Losing
  <2>2. CASE holder # None
    <3>1. Losing = <<<<"lost", holder>>>> /\ Losing \in Seq(Answers \X Streams)
      BY <1>2, <2>2 DEF Losing, Answers
    <3>2. RealGrants(fromEngine \o <<<<"lost", holder>>>>, granted)
      BY <1>2, <1>3, GrantsKept
    <3>3. fromEngine \o Losing \in Seq(Answers \X Streams)
      BY <1>2, <3>1
    <3> QED
      BY <3>1, <3>2, <3>3
  <2> QED
    BY <2>1, <2>2
\* The answers: more connections have had control, and all grants are theirs.
<1> DEFINE AnswersKept == /\ fromEngine' \in Seq(Answers \X Streams)
                          /\ granted \subseteq granted' /\ granted' \subseteq Streams
                          /\ RealGrants(fromEngine', granted')
\* The requests: one is taken from the first end, or none.
           RequestsKept == /\ toEngine' \in Seq(Requests \X Streams)
                           /\ holder' \in Streams \cup {None}
                           /\ ReleaseFollows'
<1>5. ASSUME AnswersKept, RequestsKept PROVE IInv'
  <2>1. TypeOK'
    BY <1>1, <1>5 DEF IInv, TypeOK, Answers, Requests, clientVars, threadVars, handlerVars
  <2>2. GrantsOnTheWay' /\ GrantIsReal'
    BY <1>1, <1>5 DEF IInv, GrantsOnTheWay, GrantIsReal, RealGrants, clientVars, threadVars, handlerVars
  <2> QED
    BY <1>5, <2>1, <2>2 DEF IInv
<1>6. ASSUME NEW k \in Streams, NEW kind \in Requests, toEngine # <<>>,
             Head(toEngine) = <<kind, k>>, toEngine' = Tail(toEngine),
             \/ holder' = holder /\ kind = "request"
             \/ holder' = k /\ kind = "request"
             \/ kind = "release" /\ holder' = (IF holder = k THEN None ELSE holder)
      PROVE  RequestsKept
  <2>0. toEngine' \in Seq(Requests \X Streams) /\ holder' \in Streams \cup {None}
    BY <1>2, <1>6
  <2>1. SUFFICES ASSUME NEW q \in Streams, reader[q] = "done", holder' = q \/ Asked(toEngine', q)
                 PROVE  Released(toEngine', q)
    <3>1. reader' = reader
      BY <1>1 DEF handlerVars
    <3> QED
      BY <2>0, <3>1 DEF ReleaseFollows, Asked, Released
  <2>2. holder = q \/ Asked(toEngine, q)
    <3>1. Asked(Tail(toEngine), q) => Asked(toEngine, q)
      BY <1>2, <1>6, TailReleased
    <3>2. kind = "request" => Asked(toEngine, k)
      BY <1>2, <1>6 DEF Asked
    <3>3. CASE Asked(toEngine', q)
      BY <1>6, <3>1, <3>3
    <3>4. CASE holder' = q
      <4>1. holder = q \/ (q = k /\ kind = "request")
        BY <1>6, <3>4, ControlAssumption
      <4> QED
        BY <3>2, <4>1
    <3> QED
      BY <2>1, <3>3, <3>4
  <2>3. Released(toEngine, q)
    BY <2>1, <2>2 DEF IInv, ReleaseFollows, Asked, Released
  <2>4. Head(toEngine) # <<"release", q>> \/ Asked(Tail(toEngine), q)
    BY <1>2, <1>6, <2>1, ControlAssumption
  <2> QED
    BY <1>2, <1>6, <2>3, <2>4, TailReleased
<1>7. CASE \E k \in Streams : EngineGrants(k)
  <2>1. PICK k \in Streams : EngineGrants(k)
    BY <1>7
  <2>2. AnswersKept
    <3>1. granted' = granted \cup {k} /\ fromEngine' = (fromEngine \o Losing) \o <<<<"granted", k>>>>
      BY <2>1 DEF EngineGrants
    <3>2. RealGrants(fromEngine \o Losing, granted')
      BY <1>4, <3>1 DEF RealGrants
    <3>3. RealGrants(fromEngine', granted')
      BY <1>4, <3>1, <3>2, GrantsKept
    <3>4. <<<<"granted", k>>>> \in Seq(Answers \X Streams)
      BY DEF Answers
    <3> QED
      BY <1>2, <1>4, <3>1, <3>3, <3>4
  <2>3. RequestsKept
    BY <1>6, <2>1 DEF EngineGrants, Requests
  <2> QED
    BY <1>5, <2>2, <2>3
<1>8. CASE \E k \in Streams : EngineIgnores(k) \/ EngineReleases(k)
  <2>1. PICK k \in Streams : EngineIgnores(k) \/ EngineReleases(k)
    BY <1>8
  <2>2. AnswersKept
    BY <1>2, <1>3, <2>1 DEF EngineIgnores, EngineReleases
  <2>3. RequestsKept
    BY <1>6, <2>1 DEF EngineIgnores, EngineReleases, Requests
  <2> QED
    BY <1>5, <2>2, <2>3
<1>9. CASE EngineReclaims
  <2>1. AnswersKept
    BY <1>2, <1>4, <1>9 DEF EngineReclaims
  <2>2. RequestsKept
    BY <1>1, <1>2, <1>9, ControlAssumption DEF EngineReclaims, IInv, ReleaseFollows, handlerVars
  <2> QED
    BY <1>5, <2>1, <2>2
<1> QED
  BY <1>7, <1>8, <1>9 DEF EngineStep

LEMMA NextIInv == IInv /\ [Next]_vars => IInv'
<1> SUFFICES ASSUME IInv, [Next]_vars PROVE IInv'
  OBVIOUS
<1>1. CASE UNCHANGED vars
  <2>1. TypeOK'
    BY <1>1 DEF IInv, TypeOK, vars, clientVars, threadVars, handlerVars, engineVars
  <2>2. (GrantsOnTheWay /\ GrantIsReal /\ ReleaseFollows)'
    BY <1>1 DEF IInv, GrantsOnTheWay, RealGrants, GrantIsReal, ReleaseFollows, vars, clientVars,
       threadVars, handlerVars, engineVars
  <2> QED
    BY <2>1, <2>2 DEF IInv
<1> QED
  BY <1>1, ThreadKeeps, SdkKeeps, ReaderKeeps, ResponderKeeps, PropagateKeeps, EngineKeeps
     DEF Next, HandlerStep

-----------------------------------------------------------------------------
THEOREM Inductive == Spec => []IInv
<1>1. Init => IInv
  BY InitIInv
<1>2. IInv /\ [Next]_vars => IInv'
  BY NextIInv
<1> QED
  BY <1>1, <1>2, PTL DEF Spec

\* The types of clients, threads, handlers, channels and sockets; no response
\* channel holds more than one answer.
THEOREM TypeCorrect == Spec => []TypeOK
<1>1. IInv => TypeOK
  BY DEF IInv
<1> QED
  BY <1>1, Inductive, PTL

\* StartForegroundActivity succeeds only for a stream the engine gave control to,
\* whatever other connections are granted meanwhile.
THEOREM GrantsAreReal == Spec => []GrantIsReal
<1>1. IInv => GrantIsReal
  BY DEF IInv
<1> QED
  BY <1>1, Inductive, PTL

\* However a client went away, once its request handler is done the engine has got
\* or will get a release after everything the stream asked for.
THEOREM ReleaseAlwaysFollows == Spec => []ReleaseFollows
<1>1. IInv => ReleaseFollows
  BY DEF IInv
<1> QED
  BY <1>1, Inductive, PTL

-----------------------------------------------------------------------------
PcType ==
  pc \in [Threads -> {"idle", "receiving", "storing stream", "storing cancel",
                      "working", "stopping", "sending release", "cancelling",
                      "clearing stream", "clearing cancel"}]

\* A step of a thread is one of a call or begins one, so when calls are made one at a
\* time no other thread is in one.
LEMMA OthersRest ==
  ASSUME TypeOK, NEW t \in Threads, ThreadStep(t), OneCall, OneCall'
  PROVE  \A u \in Threads \ {t} :
           ~InCall(u) /\ ~InCall(u)' /\ pc'[u] = pc[u] /\ mine'[u] = mine[u]
<1>1. PcType /\ mine \in [Threads -> Streams \cup {None}]
  BY DEF TypeOK, PcType
<1>2. \A u \in Threads \ {t} : pc'[u] = pc[u] /\ mine'[u] = mine[u]
  BY <1>1 DEF PcType, ThreadStep, StartForegroundActivity, ReceiveGrant, ReceiveOther, StoreStream,
     StoreCancel, Stop, CheckStream, SendRelease, Cancel, ClearStream, ClearCancel, ReturnTo
<1>3. InCall(t) \/ InCall(t)'
  BY <1>1 DEF InCall, PcType, ThreadStep, StartForegroundActivity, ReceiveGrant, ReceiveOther,
     StoreStream, StoreCancel, Stop, CheckStream, SendRelease, Cancel, ClearStream, ClearCancel
<1> QED
  BY <1>2, <1>3 DEF OneCall, InCall

\* A step of the one thread that is in a call, one case per action.
LEMMA CallKeepsFields ==
  ASSUME IInv, FieldsAgree, NEW t \in Threads, ThreadStep(t), OneCall, OneCall'
  PROVE  FieldsAgree'
<1>1. /\ PcType /\ mine \in [Threads -> Streams \cup {None}]
      /\ bcStream \in Streams \cup {None} /\ granted \subseteq Streams
      /\ client \in [Streams -> {"unused", "open", "closed"}]
  BY DEF IInv, TypeOK, PcType
<1>2. \A u \in Threads \ {t} : ~InCall(u) /\ ~InCall(u)'
  BY OthersRest DEF IInv
<1>3. SUFFICES
        /\ ~InCall(t)' => bcCancel' = bcStream'
        /\ pc'[t] \in {"receiving", "storing stream", "stopping", "sending release", "cancelling",
                       "clearing stream"} => bcCancel' = bcStream'
        /\ pc'[t] = "storing cancel" => bcStream' = mine'[t]
        /\ pc'[t] \in {"sending release", "cancelling", "clearing stream"} => bcStream' # None
        /\ pc'[t] = "clearing stream" => client'[bcStream'] = "closed"
        /\ pc'[t] = "clearing cancel" => bcStream' = None
  BY <1>2 DEF FieldsAgree, InCall
<1>4. \/ ~InCall(t) /\ bcCancel = bcStream
      \/ InCall(t)
  BY <1>2 DEF FieldsAgree
<1>5. CASE \/ \E j \in {"start", "hold"} : StartForegroundActivity(t, j)
           \/ ReceiveGrant(t) \/ ReceiveOther(t) \/ Stop(t) \/ CheckStream(t) \/ SendRelease(t)
  <2>1. UNCHANGED <<bcStream, bcCancel>>
    BY <1>5 DEF StartForegroundActivity, ReceiveGrant, ReceiveOther, Stop, CheckStream, SendRelease
  <2>2. /\ pc[t] \in {"idle", "receiving", "working", "stopping", "sending release"}
        /\ pc'[t] \in {"receiving", "storing stream", "idle", "stopping", "sending release",
                       "cancelling"}
        /\ pc'[t] = "sending release" => bcStream # None
        /\ pc'[t] = "cancelling" => pc[t] = "sending release"
    BY <1>1, <1>5 DEF PcType, StartForegroundActivity, ReceiveGrant, ReceiveOther, Stop, CheckStream,
       SendRelease, ReturnTo
  <2>3. bcCancel = bcStream /\ (pc[t] = "sending release" => bcStream # None)
    BY <1>4, <2>2 DEF FieldsAgree, InCall
  <2> QED
    BY <2>1, <2>2, <2>3
<1>6. CASE StoreStream(t)
  <2>1. pc'[t] = "storing cancel" /\ bcStream' = mine[t] /\ mine'[t] = mine[t]
    BY <1>1, <1>6 DEF PcType, StoreStream, ReturnTo
  <2> QED
    BY <2>1 DEF InCall
<1>7. CASE StoreCancel(t)
  <2>1. /\ pc[t] = "storing cancel" /\ pc'[t] \in {"working", "idle"}
        /\ bcCancel' = mine[t] /\ bcStream' = bcStream
    BY <1>1, <1>7 DEF PcType, StoreCancel, ReturnTo
  <2>2. bcStream = mine[t]
    BY <2>1 DEF FieldsAgree
  <2> QED
    BY <2>1, <2>2
<1>8. CASE Cancel(t)
  <2>1. /\ pc[t] = "cancelling" /\ pc'[t] = "clearing stream"
        /\ client' = [client EXCEPT ![bcCancel] = "closed"]
        /\ bcCancel' = bcCancel /\ bcStream' = bcStream
    BY <1>1, <1>8 DEF PcType, Cancel, Close, ReturnTo
  <2>2. bcCancel = bcStream /\ bcStream # None
    BY <2>1 DEF FieldsAgree
  <2> QED
    BY <1>1, <2>1, <2>2 DEF InCall
<1>9. CASE ClearStream(t)
  <2>1. pc'[t] = "clearing cancel" /\ bcStream' = None
    BY <1>1, <1>9 DEF PcType, ClearStream, ReturnTo
  <2> QED
    BY <2>1 DEF InCall
<1>10. CASE ClearCancel(t)
  <2>1. /\ pc[t] = "clearing cancel" /\ pc'[t] = "idle"
        /\ bcCancel' = None /\ bcStream' = bcStream
    BY <1>1, <1>10 DEF PcType, ClearCancel, ReturnTo
  <2>2. bcStream = None
    BY <2>1 DEF FieldsAgree
  <2> QED
    BY <2>1, <2>2
<1> QED
  BY <1>5, <1>6, <1>7, <1>8, <1>9, <1>10 DEF ThreadStep

\* Nobody else touches the fields, and a stream that is closed stays closed.
LEMMA StepKeepsFields ==
  ASSUME IInv, FieldsAgree, [Next]_vars, OneCall, OneCall'
  PROVE  FieldsAgree'
<1>1. ASSUME UNCHANGED threadVars,
             \A k \in Streams : client[k] = "closed" => client'[k] = "closed"
      PROVE  FieldsAgree'
  <2>1. bcStream \in Streams \cup {None}
    BY DEF IInv, TypeOK
  <2> QED
    BY <1>1, <2>1 DEF FieldsAgree, InCall, threadVars
<1>2. CASE \E t \in Threads : ThreadStep(t)
  BY <1>2, CallKeepsFields
<1>3. CASE \E k \in Streams : SdkOpens(k) \/ SdkCloses(k)
  <2>1. client \in [Streams -> {"unused", "open", "closed"}]
    BY DEF IInv, TypeOK
  <2>2. UNCHANGED threadVars /\ \A k \in Streams : client[k] = "closed" => client'[k] = "closed"
    BY <1>3, <2>1 DEF SdkOpens, SdkCloses, Open, Close
  <2> QED
    BY <1>1, <2>2
<1>4. CASE (\E k \in Streams : HandlerStep(k)) \/ Propagate \/ EngineStep \/ UNCHANGED vars
  <2>1. UNCHANGED threadVars /\ client' = client
    BY <1>4 DEF HandlerStep, Accept, ReadRequest, ReadError, Release, Respond, Ping, EndResponses,
       Return, Propagate, EngineStep, EngineGrants, EngineIgnores, EngineReleases, EngineReclaims,
       clientVars, vars
  <2> QED
    BY <1>1, <2>1
<1> QED
  BY <1>2, <1>3, <1>4 DEF Next

LEMMA SerialFields == Spec /\ []OneCall => []FieldsAgree
<1>1. Init => FieldsAgree
  BY ControlAssumption DEF Init, FieldsAgree, Threads
<1>2. IInv /\ FieldsAgree /\ [Next]_vars /\ OneCall /\ OneCall' => FieldsAgree'
  BY StepKeepsFields
<1>3. Spec => []IInv
  BY Inductive
<1> QED
  BY <1>1, <1>2, <1>3, PTL DEF Spec

\* As long as StartForegroundActivity and StopForegroundActivity do not overlap, no
\* tool call and no animation calls through a bcStream or a bcCancel that is nil,
\* although a call reads the fields a second time after it has checked one of them,
\* and whatever animations hold control between their two calls.
THEOREM NilNeedsOverlap == Spec /\ []OneCall => []NoNilCall
<1>1. FieldsAgree => NoNilCall
  BY DEF FieldsAgree, NoNilCall, Panics
<1> QED
  BY <1>1, SerialFields, PTL

-----------------------------------------------------------------------------
\* What a step of the one thread in a call does to the streams in hand, one case per
\* action.
LEMMA CallKeepsInHand ==
  ASSUME IInv, FieldsAgree, NEW t \in Threads, ThreadStep(t), OneCall, OneCall'
  PROVE  LostToSecondStart
<1> DEFINE Starting == {"receiving", "storing stream", "storing cancel"}
<1>1. /\ PcType /\ mine \in [Threads -> Streams \cup {None}]
      /\ bcStream \in Streams \cup {None}
      /\ client \in [Streams -> {"unused", "open", "closed"}]
  BY DEF IInv, TypeOK, PcType
<1>2. \A u \in Threads \ {t} : pc[u] \notin Starting
  BY OthersRest DEF IInv, InCall
<1>3. SUFFICES ASSUME NEW k \in OwnStreams, client'[k] = "open",
                      bcStream = k \/ (pc[t] \in Starting /\ mine[t] = k)
               PROVE  \/ bcStream' = k
                      \/ pc'[t] \in Starting /\ mine'[t] = k
                      \/ /\ bcStream = k /\ pc[t] = "storing stream"
                         /\ mine[t] # k /\ bcStream' = mine[t]
  BY <1>2 DEF LostToSecondStart, InHand
<1>4. k \in Streams
  BY DEF Streams
<1>5. CASE \/ \E j \in {"start", "hold"} : StartForegroundActivity(t, j)
           \/ Stop(t) \/ CheckStream(t) \/ SendRelease(t) \/ Cancel(t) \/ ClearCancel(t)
  <2>1. bcStream' = bcStream /\ pc[t] \notin Starting
    BY <1>5 DEF StartForegroundActivity, Stop, CheckStream, SendRelease, Cancel, ClearCancel
  <2> QED
    BY <1>3, <2>1
<1>6. CASE ReceiveGrant(t)
  <2>1. bcStream' = bcStream /\ pc'[t] = "storing stream" /\ mine'[t] = mine[t]
    BY <1>1, <1>6 DEF PcType, ReceiveGrant, ReturnTo
  <2> QED
    BY <1>3, <2>1
<1>7. CASE ReceiveOther(t)
  <2>1. bcStream' = bcStream /\ client' = [client EXCEPT ![mine[t]] = "closed"]
    BY <1>7 DEF ReceiveOther, Close
  <2>2. mine[t] # k
    BY <1>1, <1>3, <1>4, <2>1
  <2> QED
    BY <1>3, <2>1, <2>2
<1>8. CASE StoreStream(t)
  <2>1. pc[t] = "storing stream" /\ bcStream' = mine[t]
    BY <1>8 DEF StoreStream
  <2> QED
    BY <1>3, <2>1
<1>9. CASE StoreCancel(t)
  <2>1. pc[t] = "storing cancel" /\ bcStream' = bcStream
    BY <1>9 DEF StoreCancel
  <2>2. bcStream = mine[t]
    BY <2>1 DEF FieldsAgree
  <2> QED
    BY <1>3, <2>1, <2>2
<1>10. CASE ClearStream(t)
  <2>1. pc[t] = "clearing stream" /\ client' = client
    BY <1>10 DEF ClearStream, clientVars
  <2>2. client[bcStream] = "closed"
    BY <2>1 DEF FieldsAgree
  <2> QED
    BY <1>3, <2>1, <2>2
<1> QED
  BY <1>5, <1>6, <1>7, <1>8, <1>9, <1>10 DEF ThreadStep

\* What the run BehaviorLeak finds is all there is, as long as StartForegroundActivity
\* and StopForegroundActivity do not overlap: RobotClient loses an open stream only
\* when a second start overwrites bcStream, whatever the animations, the engine and
\* other clients do.
THEOREM LeakIsSecondStart == Spec /\ []OneCall => [][LostToSecondStart]_vars
<1>1. ASSUME UNCHANGED threadVars PROVE LostToSecondStart
  BY <1>1 DEF LostToSecondStart, InHand, threadVars
<1>2. IInv /\ FieldsAgree /\ OneCall /\ OneCall' /\ [Next]_vars => [LostToSecondStart]_vars
  <2>1. SUFFICES ASSUME IInv, FieldsAgree, OneCall, OneCall', Next PROVE LostToSecondStart
    OBVIOUS
  <2>2. CASE \E t \in Threads : ThreadStep(t)
    BY <2>1, <2>2, CallKeepsInHand
  <2>3. CASE \/ \E k \in Streams : SdkOpens(k) \/ SdkCloses(k) \/ HandlerStep(k)
             \/ Propagate \/ EngineStep
    BY <1>1, <2>3 DEF SdkOpens, SdkCloses, HandlerStep, Accept, ReadRequest, ReadError, Release,
       Respond, Ping, EndResponses, Return, Propagate, EngineStep, EngineGrants, EngineIgnores,
       EngineReleases, EngineReclaims
  <2> QED
    BY <2>1, <2>2, <2>3 DEF Next
<1>3. Spec => []IInv
  BY Inductive
<1> QED
  BY <1>2, <1>3, SerialFields, PTL DEF Spec

=============================================================================
