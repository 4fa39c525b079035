----------------------------- MODULE MCGateway -----------------------------
(***************************************************************************)
(* The gateway's handlers for TLC: unary calls, feeds, maps and event      *)
(* streams.  They are handlers of one process but have no state in common, *)
(* and in a behavior of this module the clients of one kind come: its      *)
(* states are those of the four modules side by side, not their product.   *)
(* Clients of a kind are alike: of the initial states that differ only in  *)
(* their names, one is taken.                                              *)
(***************************************************************************)
EXTENDS GatewayCalls, Feeds, NavMap, EventStreams

First(S) == CHOOSE x \in S : TRUE

\* One client feeds; the other may feed, too, or capture a single image.
FeedsPlan == rpc[First(Users)] # "CaptureSingleImage"

\* Three clients of event streams and of updates, so that two of a kind meet one
\* of the other.
EventsPlan ==
  /\ EventsPresent = 3
  /\ streamAt[First(Streams)] = "start" /\ requestAt[First(StartRequests)] = "none"
  /\ \A s \in Streams :
       (s = First(Streams) \/ streamAt[s] = "returned") => idOf[s] = First(Ids)

GatewayInit ==
  \/ CallsInit /\ FeedsIdle /\ NavMapIdle /\ EventsIdle
  \/ CallsIdle /\ FeedsInit /\ FeedsPlan /\ NavMapIdle /\ EventsIdle
  \/ CallsIdle /\ FeedsIdle /\ NavMapInit /\ EventsIdle
  \/ CallsIdle /\ FeedsIdle /\ NavMapIdle /\ EventsInit /\ EventsPlan

GatewayNext ==
  \/ CallsNext /\ UNCHANGED <<feedsVars, mapVars, eventsVars>>
  \/ FeedsNext /\ UNCHANGED <<callsVars, mapVars, eventsVars>>
  \/ NavMapNext /\ UNCHANGED <<callsVars, feedsVars, eventsVars>>
  \/ EventsNext /\ UNCHANGED <<callsVars, feedsVars, mapVars>>

GatewaySpec ==
  /\ GatewayInit /\ [][GatewayNext]_<<callsVars, feedsVars, mapVars, eventsVars>>
  /\ CallsFairness /\ FeedsFairness /\ EventsFairness

\* The state of each of the four modules is what its handlers can produce.
GatewayTypeOK == CallsTypeOK /\ FeedsTypeOK /\ NavMapTypeOK /\ EventsTypeOK
=============================================================================
