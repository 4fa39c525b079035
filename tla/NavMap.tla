------------------------------- MODULE NavMap -------------------------------
(***************************************************************************)
(* NavMapFeed (cloud/message_handler.go): a map comes from vic-engine as a *)
(* begin, some messages with quads, and an end, which the registry hands   *)
(* out through three channels; the handler selects among those that have   *)
(* something, in any order.                                                *)
(***************************************************************************)
EXTENDS Naturals, Sequences, SequencesExt

CONSTANTS Maps,          \* how many maps the engine sends, in a bounded run
          Parts,         \* messages with quads in a map
          DataCapacity   \* how many of them their channel holds, 50 in the code

ASSUME NavMapAssumption == Maps \in Nat /\ Parts \in Nat /\ DataCapacity \in Nat \ {0}

VARIABLES
  feedAt,       \* how far the handler is
  registered,   \* the kinds of message whose channel is registered
  mapBox,       \* kind -> its channel
  pendingMap,   \* the map in progress, or <<>>: its begin and its quads
  mapsSent,     \* the maps the client was sent
  upcoming,     \* the engine's next message: its map and its place; sent when broadcasting
  broadcasting,
  hurried       \* history: a message came while the handler was not waiting for one

mapVars == <<feedAt, registered, mapBox, pendingMap, mapsSent, upcoming, broadcasting,
             hurried>>

Kinds == <<"begin", "data", "end">>

MapMessage(map, place) ==
  <<IF place = 0 THEN "begin" ELSE IF place <= Parts THEN "data" ELSE "end", map, place>>

\* What is made of the messages of a map, without its end.
Map(map) == [k \in 1..(Parts + 1) |-> MapMessage(map, k - 1)]

FollowingMessage(m) == IF m[2] = Parts + 1 THEN <<m[1] + 1, 0>> ELSE <<m[1], m[2] + 1>>

MapCapacity(kind) == IF kind = "data" THEN DataCapacity ELSE 1

\* SetNavMapBroadcastFrequency; only what it is set to at last matters.
SetNavMapBroadcastFrequency(on) == broadcasting' = on

StartBroadcast ==
  /\ feedAt = "start"
  /\ feedAt' = Kinds[1]
  /\ SetNavMapBroadcastFrequency(TRUE)
  /\ UNCHANGED <<registered, mapBox, pendingMap, mapsSent, upcoming, hurried>>

\* The frequency cannot be written.
StartBroadcastFails ==
  /\ feedAt = "start"
  /\ feedAt' = "returned"
  /\ UNCHANGED <<registered, mapBox, pendingMap, mapsSent, upcoming, broadcasting, hurried>>

\* The channels are registered one after the other.
RegisterKind(n) ==
  /\ feedAt = Kinds[n]
  /\ registered' = registered \cup {Kinds[n]}
  /\ feedAt' = IF n = Len(Kinds) THEN "reading" ELSE Kinds[n + 1]
  /\ UNCHANGED <<mapBox, pendingMap, mapsSent, upcoming, broadcasting, hurried>>

Received(kind) ==
  /\ feedAt = "reading" /\ mapBox[kind] # <<>>
  /\ mapBox' = [mapBox EXCEPT ![kind] = Tail(@)]

\* A pending map is discarded.
ReceiveBegin ==
  /\ Received("begin")
  /\ pendingMap' = <<Head(mapBox["begin"])>>
  /\ UNCHANGED <<feedAt, registered, mapsSent, upcoming, broadcasting, hurried>>

\* Mutant: quads without a begin start a map.
ReceiveAnyData ==
  /\ Received("data")
  /\ pendingMap' = Append(pendingMap, Head(mapBox["data"]))
  /\ UNCHANGED <<feedAt, registered, mapsSent, upcoming, broadcasting, hurried>>

ReceiveData ==
  /\ Received("data")
  /\ pendingMap' = IF pendingMap = <<>> THEN <<>> ELSE Append(pendingMap, Head(mapBox["data"]))
  /\ UNCHANGED <<feedAt, registered, mapsSent, upcoming, broadcasting, hurried>>

\* The map is sent; if the client is gone by then, the handler returns.
ReceiveEnd ==
  /\ Received("end")
  /\ mapsSent' = IF pendingMap = <<>> THEN mapsSent ELSE Append(mapsSent, pendingMap)
  /\ pendingMap' = <<>>
  /\ feedAt' \in IF pendingMap = <<>> THEN {feedAt} ELSE {feedAt, "leaving"}
  /\ UNCHANGED <<registered, upcoming, broadcasting, hurried>>

FeedDied ==
  /\ feedAt = "reading"
  /\ \E n \in DOMAIN Kinds : Kinds[n] \notin registered /\ mapBox[Kinds[n]] = <<>>
  /\ feedAt' = "leaving"
  /\ UNCHANGED <<registered, mapBox, pendingMap, mapsSent, upcoming, broadcasting, hurried>>

\* The deferred calls.
StopBroadcast ==
  /\ feedAt = "leaving"
  /\ feedAt' = "returned"
  /\ registered' = {}
  /\ mapBox' = [kind \in DOMAIN mapBox |-> <<>>]
  /\ SetNavMapBroadcastFrequency(FALSE)
  /\ UNCHANGED <<pendingMap, mapsSent, upcoming, hurried>>

\* A channel that is full loses its oldest message and is closed.
EngineBroadcasts ==
  /\ broadcasting /\ upcoming[1] <= Maps
  /\ upcoming' = FollowingMessage(upcoming)
  /\ LET m == MapMessage(upcoming[1], upcoming[2])
         kind == m[1]
         waiting == feedAt = "reading" /\ \A k \in DOMAIN mapBox : mapBox[k] = <<>>
         full == Len(mapBox[kind]) = MapCapacity(kind) IN
       /\ mapBox' = IF kind \notin registered THEN mapBox
                    ELSE [mapBox EXCEPT ![kind] = IF full THEN Tail(@) ELSE Append(@, m)]
       /\ registered' = IF full THEN registered \ {kind} ELSE registered
       /\ hurried' = (hurried \/ (registered # {} /\ ~waiting))
  /\ UNCHANGED <<feedAt, pendingMap, mapsSent, broadcasting>>

-----------------------------------------------------------------------------
NavMapStart ==
  /\ registered = {}
  /\ mapBox = [kind \in ToSet(Kinds) |-> <<>>]
  /\ pendingMap = <<>> /\ mapsSent = <<>>
  /\ broadcasting = FALSE /\ hurried = FALSE

\* The engine may be in the middle of a map.
NavMapInit ==
  /\ feedAt = "start"
  /\ upcoming \in (1..Maps) \X (0..(Parts + 1))
  /\ NavMapStart

NavMapIdle == feedAt = "returned" /\ upcoming = <<Maps + 1, 0>> /\ NavMapStart

NavMapNext ==
  \/ StartBroadcast \/ StartBroadcastFails \/ \E n \in DOMAIN Kinds : RegisterKind(n)
  \/ ReceiveBegin \/ ReceiveData \/ ReceiveEnd \/ FeedDied \/ StopBroadcast
  \/ EngineBroadcasts

NavMapSpec == NavMapInit /\ [][NavMapNext]_mapVars

-----------------------------------------------------------------------------
NavMapTypeOK ==
  /\ feedAt \in {"start", "reading", "leaving", "returned"} \cup ToSet(Kinds)
  /\ \A k \in DOMAIN mapBox : Len(mapBox[k]) <= MapCapacity(k)
  /\ pendingMap = <<>> \/ pendingMap[1][1] = "begin"

\* As long as the handler, once it has begun to register, takes each message
\* before the next one comes, the client is sent whole maps only, although the
\* feed may start in the middle of one.
MapsAreWhole ==
  hurried \/ \A k \in DOMAIN mapsSent : \E map \in 1..Maps : mapsSent[k] = Map(map)
=============================================================================
