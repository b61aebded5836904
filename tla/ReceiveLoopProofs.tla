--------------------------- MODULE ReceiveLoopProofs ---------------------------
(***************************************************************************)
(* Proofs about ConnectionManager and ReceiveLoop.                         *)
(*                                                                         *)
(* The manager's inductive invariant is ManagerTypeOK (which bounds the    *)
(* keys of the map by the ids drawn) with RecheckNeverRejects: every entry *)
(* of the map leads to a connection that lists its key.  That a repeated   *)
(* id costs exactly one connection rests on EntriesFollow besides.         *)
(*                                                                         *)
(* Every step of the loop is a step of the manager or leaves it alone, so  *)
(* what is shown of one manager step carries over.  KnownIdKeepsConnection *)
(* is not inductive: it needs KnownRoutesHold, which relates the packets   *)
(* already dispatched to the manager's table of now.                       *)
(* RepeatedGoesToPrevious needs LastHeader as well: as long as no datagram *)
(* is waiting to be dispatched, the array still holds the header of the    *)
(* last packet.                                                            *)
(***************************************************************************)
EXTENDS ReceiveLoop, FiniteSetTheorems, TLAPS

-----------------------------------------------------------------------------
(* The connection manager.                                                 *)

ManagerInv == ManagerTypeOK /\ RecheckNeverRejects

(* An entry of the map leads to a connection that lists its key: what      *)
(* RecheckNeverRejects says, without getConnection.                        *)
LEMMA RecheckMeaning ==
  RecheckNeverRejects <=>
    \A id \in ConnectionId :
      connections[id] # nullptr => id \in connectionIds[connections[id]]
BY DEF RecheckNeverRejects, getConnection

LEMMA RecheckMeaningNext ==
  RecheckNeverRejects' <=>
    \A id \in ConnectionId :
      connections'[id] # nullptr => id \in connectionIds'[connections'[id]]
BY DEF RecheckNeverRejects, getConnection

(* The manager starts with an empty map.                                   *)
LEMMA ManagerInitInv == ManagerInit => ManagerInv
BY DEF ManagerInit, ManagerInv, ManagerTypeOK, RecheckNeverRejects, getConnection

(* addNewConnection enters an id the new connection lists.                 *)
LEMMA AddNewConnectionInv ==
  ASSUME ManagerInv,
         NEW connection \in Connection, NEW id \in ConnectionId,
         addNewConnection(connection, id)
  PROVE  ManagerInv'
<1> USE NullptrAssumption
<1>1. ManagerTypeOK'
  BY DEF ManagerInv, ManagerTypeOK, addNewConnection
<1>2. RecheckNeverRejects'
  <2> SUFFICES ASSUME NEW k \in ConnectionId, connections'[k] # nullptr
               PROVE  k \in connectionIds'[connections'[k]]
    BY RecheckMeaningNext
  <2>1. CASE k = id
    BY <2>1 DEF ManagerInv, ManagerTypeOK, addNewConnection
  <2>2. CASE k # id
    <3>1. connections'[k] = connections[k]
      BY <2>2 DEF ManagerInv, ManagerTypeOK, addNewConnection
    <3>2. k \in connectionIds[connections[k]] /\ connections[k] \in Connection
      BY <3>1, RecheckMeaning DEF ManagerInv, ManagerTypeOK
    <3>3. QED
      BY <3>1, <3>2 DEF ManagerInv, ManagerTypeOK, addNewConnection
  <2>3. QED
    BY <2>1, <2>2
<1>3. QED
  BY <1>1, <1>2 DEF ManagerInv

(* addConnectionId only makes a list longer.                               *)
LEMMA AddConnectionIdInv ==
  ASSUME ManagerInv,
         NEW connection \in Connection, NEW id \in ConnectionId,
         addConnectionId(connection, id)
  PROVE  ManagerInv'
<1>1. ManagerTypeOK'
  BY DEF ManagerInv, ManagerTypeOK, addConnectionId
<1>2. RecheckNeverRejects'
  <2> SUFFICES ASSUME NEW k \in ConnectionId, connections'[k] # nullptr
               PROVE  k \in connectionIds'[connections'[k]]
    BY RecheckMeaningNext
  <2>1. connections'[k] = connections[k]
    BY DEF addConnectionId
  <2>2. k \in connectionIds[connections[k]] /\ connections[k] \in Connection
    BY <2>1, RecheckMeaning DEF ManagerInv, ManagerTypeOK
  <2>3. QED
    BY <2>1, <2>2 DEF ManagerInv, ManagerTypeOK, addConnectionId
<1>3. QED
  BY <1>1, <1>2 DEF ManagerInv

LEMMA ManagerUnchangedInv ==
  ManagerInv /\ UNCHANGED managerVars => ManagerInv'
BY DEF ManagerInv, ManagerTypeOK, RecheckNeverRejects, getConnection, managerVars

LEMMA ManagerNextInv == ManagerInv /\ [ManagerNext]_managerVars => ManagerInv'
BY AddNewConnectionInv, AddConnectionIdInv, ManagerUnchangedInv DEF ManagerNext

LEMMA ManagerInvariant == ManagerSpec => []ManagerInv
BY ManagerInitInv, ManagerNextInv, PTL DEF ManagerSpec

(* The second look-up of getConnection never rejects an entry, whatever    *)
(* RAND_bytes does.                                                        *)
THEOREM RecheckIsRedundant == ManagerSpec => []RecheckNeverRejects
BY ManagerInvariant, PTL DEF ManagerInv

-----------------------------------------------------------------------------
(* Routing.                                                                *)

(* With distinct random ids a new connection never takes an entry over.    *)
LEMMA AddNewConnectionKeepsRoutes ==
  ASSUME ~RandFails, ManagerInv,
         NEW connection \in Connection, NEW id \in ConnectionId,
         addNewConnection(connection, id),
         NEW k \in ConnectionId, getConnection(k) # nullptr
  PROVE  getConnection(k)' = getConnection(k)
<1>1. connections[k] # nullptr /\ getConnection(k) = connections[k]
  BY DEF getConnection
<1>2. k # id
  BY <1>1 DEF ManagerInv, ManagerTypeOK, addNewConnection, getNewConnectionId
<1>3. connections'[k] = connections[k]
  BY <1>2 DEF ManagerInv, ManagerTypeOK, addNewConnection
<1>4. RecheckNeverRejects'
  BY AddNewConnectionInv DEF ManagerInv
<1>5. QED
  BY <1>1, <1>3, <1>4 DEF RecheckNeverRejects

(* addConnectionId changes no route: it does not touch the map.            *)
LEMMA AddConnectionIdKeepsRoutes ==
  ASSUME ManagerInv,
         NEW connection \in Connection, NEW id \in ConnectionId,
         addConnectionId(connection, id),
         NEW k \in ConnectionId
  PROVE  getConnection(k)' = getConnection(k)
<1>1. RecheckNeverRejects /\ RecheckNeverRejects'
  BY AddConnectionIdInv DEF ManagerInv
<1>2. QED
  BY <1>1 DEF RecheckNeverRejects, addConnectionId

LEMMA RoutesStep ==
  ASSUME ~RandFails, ManagerInv, [ManagerNext]_managerVars,
         NEW k \in ConnectionId, getConnection(k) # nullptr
  PROVE  getConnection(k)' = getConnection(k)
<1>1. CASE UNCHANGED managerVars
  BY <1>1 DEF managerVars, getConnection
<1>2. CASE ManagerNext
  BY <1>2, AddNewConnectionKeepsRoutes, AddConnectionIdKeepsRoutes DEF ManagerNext
<1>3. QED
  BY <1>1, <1>2

(* As long as random ids do not repeat, an id that leads to a connection   *)
(* leads to it forever.                                                    *)
THEOREM RoutingIsStable ==
  ASSUME ~RandFails
  PROVE  ManagerSpec => RoutesAreStable
<1>1. ManagerInv /\ [ManagerNext]_managerVars
        => [\A id \in ConnectionId :
              getConnection(id) # nullptr => getConnection(id)' = getConnection(id)]_managerVars
  BY RoutesStep
<1>2. QED
  BY <1>1, ManagerInvariant, PTL DEF ManagerSpec, RoutesAreStable

-----------------------------------------------------------------------------
(* Reachability.                                                           *)

(* Every id that was drawn has an entry, and no two have the same one.     *)
EntriesFollow ==
  /\ IsFiniteSet(drawn)
  /\ \A id \in drawn : connections[id] # nullptr
  /\ \A id1, id2 \in ConnectionId :
       (connections[id1] # nullptr /\ connections[id1] = connections[id2]) => id1 = id2

(* A new object takes one entry, that of its id; it had none before.       *)
LEMMA NewEntryFollows ==
  ASSUME ManagerInv, EntriesFollow,
         NEW connection \in Connection, NEW id \in ConnectionId,
         addNewConnection(connection, id)
  PROVE  EntriesFollow'
<1>1. \A k \in ConnectionId : connections[k] # connection
  <2> SUFFICES ASSUME NEW k \in ConnectionId, connections[k] = connection PROVE FALSE
    OBVIOUS
  <2>1. k \in connectionIds[connection]
    BY NullptrAssumption, RecheckMeaning DEF ManagerInv
  <2>2. QED
    BY <2>1 DEF addNewConnection, Live
<1>2. /\ connections'[id] = connection /\ connection # nullptr
      /\ \A k \in ConnectionId \ {id} : connections'[k] = connections[k]
  BY NullptrAssumption DEF addNewConnection, ManagerInv, ManagerTypeOK
<1>3. drawn' = drawn \union {id} /\ drawn \subseteq ConnectionId
  BY DEF addNewConnection, ManagerInv, ManagerTypeOK
<1>4. IsFiniteSet(drawn')
  BY <1>3, FS_AddElement DEF EntriesFollow
<1>5. \A k \in drawn' : connections'[k] # nullptr
  BY <1>2, <1>3 DEF EntriesFollow
<1>6. ASSUME NEW id1 \in ConnectionId, NEW id2 \in ConnectionId,
             connections'[id1] # nullptr, connections'[id1] = connections'[id2]
      PROVE  id1 = id2
  BY <1>1, <1>2, <1>6 DEF EntriesFollow
<1>7. QED
  BY <1>4, <1>5, <1>6 DEF EntriesFollow

LEMMA EntriesStep ==
  ManagerInv /\ EntriesFollow /\ [ManagerNext]_managerVars => EntriesFollow'
<1> SUFFICES ASSUME ManagerInv, EntriesFollow, [ManagerNext]_managerVars
             PROVE  EntriesFollow'
  OBVIOUS
<1>1. ASSUME UNCHANGED <<connections, drawn>> PROVE EntriesFollow'
  BY <1>1 DEF EntriesFollow
<1>2. QED
  BY <1>1, NewEntryFollows DEF ManagerNext, managerVars, addConnectionId

(* The reachable connections are those the entries of the drawn ids lead   *)
(* to, one for each.                                                       *)
LEMMA ReachableAreCounted == ManagerInv /\ EntriesFollow => OneLostPerRepeatedId
<1> SUFFICES ASSUME ManagerInv, EntriesFollow PROVE OneLostPerRepeatedId
  OBVIOUS
<1> DEFINE R == {c \in Live : Reachable(c)}
           entry == [id \in drawn |-> connections[id]]
<1>1. ASSUME NEW id \in drawn PROVE connections[id] \in R
  <2>1. id \in ConnectionId /\ connections[id] \in Connection
    BY DEF ManagerInv, ManagerTypeOK, EntriesFollow
  <2>2. id \in connectionIds[connections[id]]
    BY <2>1, RecheckMeaning DEF ManagerInv, EntriesFollow
  <2>3. getConnection(id) = connections[id]
    BY <2>1 DEF ManagerInv, RecheckNeverRejects
  <2>4. QED
    BY <2>1, <2>2, <2>3 DEF Live, Reachable
<1>2. ASSUME NEW c \in R PROVE \E id \in drawn : connections[id] = c
  <2>1. c \in Connection /\ Reachable(c)
    BY DEF Live
  <2>2. PICK id \in connectionIds[c] : getConnection(id) = c
    BY <2>1 DEF Reachable
  <2>3. id \in ConnectionId /\ connections[id] = c /\ c # nullptr
    BY <2>1, <2>2, NullptrAssumption DEF ManagerInv, ManagerTypeOK, RecheckNeverRejects
  <2>4. QED
    BY <2>3 DEF ManagerInv, ManagerTypeOK
<1>3. drawn \subseteq ConnectionId
  BY DEF ManagerInv, ManagerTypeOK
<1>4. ASSUME NEW id1 \in drawn, NEW id2 \in drawn, entry[id1] = entry[id2] PROVE id1 = id2
  BY <1>3, <1>4 DEF EntriesFollow
<1> HIDE DEF R
<1>5. entry \in [drawn -> R] /\ \A c \in R : \E id \in drawn : entry[id] = c
  BY <1>1, <1>2
<1>6. ExistsBijection(drawn, R)
  <2> HIDE DEF entry
  <2>1. entry \in Bijection(drawn, R)
    BY <1>4, <1>5 DEF Bijection, Injection, Surjection, IsInjective
  <2>2. QED
    BY <2>1 DEF ExistsBijection
<1>7. Cardinality(R) = Cardinality(drawn)
  BY <1>6, FS_Bijection DEF EntriesFollow
<1>8. QED
  BY <1>7 DEF R, OneLostPerRepeatedId

(* Whatever RAND_bytes does, an id that is drawn again costs exactly the   *)
(* connection whose entry it overwrites, and nothing else loses one.       *)
THEOREM LossesAreRepeatedIds == ManagerSpec => []OneLostPerRepeatedId
<1>1. ManagerInit => EntriesFollow
  BY FS_EmptySet DEF ManagerInit, EntriesFollow
<1>2. QED
  BY <1>1, EntriesStep, ReachableAreCounted, ManagerInvariant, PTL DEF ManagerSpec

(* With distinct random ids a new connection is reachable by its own id    *)
(* and leaves the others reachable.                                        *)
LEMMA ReachableStep ==
  ASSUME ~RandFails, ManagerInv, EveryConnectionReachable,
         [ManagerNext]_managerVars
  PROVE  EveryConnectionReachable'
<1> SUFFICES ASSUME NEW c \in Connection, c \in Live'
             PROVE  Reachable(c)'
  BY DEF EveryConnectionReachable, Live
<1>1. ManagerInv'
  BY ManagerNextInv
<1>2. ASSUME c \in Live
      PROVE  Reachable(c)'
  <2>1. PICK k \in connectionIds[c] : getConnection(k) = c
    BY <1>2 DEF EveryConnectionReachable, Reachable
  <2>2. k \in ConnectionId /\ c # nullptr
    BY <2>1, NullptrAssumption DEF ManagerInv, ManagerTypeOK
  <2>3. getConnection(k)' = c
    BY <2>1, <2>2, RoutesStep
  <2>4. k \in connectionIds'[c]
    BY <1>1, <2>2, <2>3 DEF getConnection
  <2>5. QED
    BY <2>3, <2>4 DEF Reachable
<1>3. ASSUME NEW id \in ConnectionId, addNewConnection(c, id)
      PROVE  Reachable(c)'
  <2>1. connections'[id] = c /\ id \in connectionIds'[c]
    BY <1>3 DEF addNewConnection, ManagerInv, ManagerTypeOK
  <2>2. getConnection(id)' = c
    BY <1>1, <2>1 DEF ManagerInv, RecheckNeverRejects
  <2>3. QED
    BY <2>1, <2>2 DEF Reachable
<1>4. ASSUME c \notin Live
      PROVE  \E id \in ConnectionId : addNewConnection(c, id)
  <2>1. connectionIds[c] = {} /\ connectionIds'[c] # {}
    BY <1>4 DEF Live
  <2>2. PICK connection \in Connection, id \in ConnectionId :
          addNewConnection(connection, id) \/ addConnectionId(connection, id)
    BY <2>1 DEF ManagerNext, managerVars
  <2>3. connection = c
    BY <2>1, <2>2 DEF addNewConnection, addConnectionId, ManagerInv, ManagerTypeOK
  <2>4. ~addConnectionId(c, id)
    BY <1>4 DEF addConnectionId
  <2>5. QED
    BY <2>2, <2>3, <2>4
<1>5. QED
  BY <1>2, <1>3, <1>4

(* As long as random ids do not repeat, every connection ever created can  *)
(* be found by one of its ids.                                             *)
THEOREM NoConnectionIsLost ==
  ASSUME ~RandFails
  PROVE  ManagerSpec => []EveryConnectionReachable
<1>1. ManagerInit => EveryConnectionReachable
  BY DEF ManagerInit, EveryConnectionReachable, Live
<1>2. ManagerInv /\ EveryConnectionReachable /\ [ManagerNext]_managerVars
        => EveryConnectionReachable'
  BY ReachableStep
<1>3. QED
  BY <1>1, <1>2, ManagerInvariant, PTL DEF ManagerSpec

-----------------------------------------------------------------------------
(* The receive loop.                                                       *)

KnownRoutesHold ==
  \A i \in DOMAIN log :
    log[i].known => getConnection(log[i].header) = log[i].connection

LastHeader ==
  (pc # "dispatch" \/ repeated) /\ log # <<>> => log[Len(log)].header = Header

LoopInv ==
  /\ TypeOK /\ ManagerInv
  /\ KnownRoutesHold /\ LastHeader
  /\ KnownIdKeepsConnection /\ RepeatedGoesToPrevious

LEMMA InitLoopInv == Init => LoopInv
<1> SUFFICES ASSUME Init PROVE LoopInv
  OBVIOUS
<1>1. ManagerInv
  BY ManagerInitInv DEF Init
<1>2. TypeOK
  BY <1>1, SizesAssumption, BoundsAssumption DEF Init, TypeOK, ManagerInv, Length
<1>3. KnownRoutesHold /\ LastHeader /\ KnownIdKeepsConnection /\ RepeatedGoesToPrevious
  BY DEF Init, KnownRoutesHold, LastHeader, KnownIdKeepsConnection, RepeatedGoesToPrevious
<1>4. QED
  BY <1>1, <1>2, <1>3 DEF LoopInv

-----------------------------------------------------------------------------
(* Steps of the loop as steps of the manager.                              *)

LEMMA StepsOfManager == [Next]_vars => [ManagerNext]_managerVars
<1>1. Arrive => UNCHANGED managerVars
  BY DEF Arrive
<1>2. LoopStep => [ManagerNext]_managerVars
  BY DEF LoopStep, AdvanceTime, ReceiveDatagram, ReceiveWouldBlock, ReceiveError,
         Dispatch, Sleep, getConnectionForPacket, ManagerNext
<1>3. Application => ManagerNext
  BY DEF Application, ManagerNext
<1>4. QED
  BY <1>1, <1>2, <1>3 DEF Next, vars

-----------------------------------------------------------------------------
(* The receive array and its header.                                       *)

LEMMA DatagramLength ==
  ASSUME NEW d \in Datagram
  PROVE  /\ Len(d) \in 0..BufSize
         /\ \A i \in 1..Len(d) : d[i] \in Byte
<1>1. PICK k \in 0..BufSize : d \in [1..k -> Byte]
  BY DEF Datagram
<1>2. k \in Nat
  BY <1>1, SizesAssumption
<1>3. Len(d) = k
  BY <1>1, <1>2
<1>4. QED
  BY <1>1, <1>2, <1>3

LEMMA HeaderType == ASSUME TypeOK PROVE Header \in ConnectionId
BY SizesAssumption DEF TypeOK, Header

LEMMA OverwrittenType ==
  ASSUME TypeOK, NEW d \in Datagram
  PROVE  Overwritten(d) \in [1..BufSize -> Byte]
<1> SUFFICES ASSUME NEW i \in 1..BufSize
             PROVE  (IF i <= Len(d) THEN d[i] ELSE buf[i]) \in Byte
  BY DEF Overwritten
<1>1. CASE i <= Len(d)
  BY <1>1, DatagramLength, SizesAssumption
<1>2. CASE ~(i <= Len(d))
  BY <1>2 DEF TypeOK
<1>3. QED
  BY <1>1, <1>2

-----------------------------------------------------------------------------
(* Dispatch.                                                               *)

(* What Dispatch adds to the log: one record, with the header of the       *)
(* array, and, if the header is known, the connection it leads to.         *)
LEMMA DispatchEffect ==
  ASSUME TypeOK, Dispatch
  PROVE  \E e \in LogEntry :
           /\ log' = Append(log, e)
           /\ e.header = Header /\ e.repeated = repeated
           /\ e.known = (getConnection(Header) # nullptr)
           /\ e.known => e.connection = getConnection(Header)
<1> DEFINE Entry(connection, known) ==
             [header |-> Header, length |-> n, repeated |-> repeated,
              known |-> known, connection |-> connection]
<1>1. ASSUME NEW connection \in Connection, NEW known \in BOOLEAN
      PROVE  Entry(connection, known) \in LogEntry
  BY HeaderType DEF TypeOK, LogEntry
<1>2. CASE getConnection(Header) # nullptr
  <2>1. getConnection(Header) \in Connection
    BY <1>2, HeaderType DEF TypeOK, ManagerTypeOK, getConnection
  <2>2. log' = Append(log, Entry(getConnection(Header), TRUE))
    BY <1>2 DEF Dispatch, getConnectionForPacket, HandlePacket
  <2>3. QED
    BY <1>1, <1>2, <2>1, <2>2
<1>3. CASE getConnection(Header) = nullptr
  <2>1. PICK connection \in Connection : log' = Append(log, Entry(connection, FALSE))
    BY <1>3 DEF Dispatch, getConnectionForPacket, HandlePacket
  <2>2. QED
    BY <1>1, <1>3, <2>1
<1>4. QED
  BY <1>2, <1>3

-----------------------------------------------------------------------------
(* Types.                                                                  *)

LEMMA TypeStep == ASSUME TypeOK, ManagerInv, [Next]_vars PROVE TypeOK'
<1>0. ManagerTypeOK'
  BY ManagerNextInv, StepsOfManager DEF ManagerInv
<1> USE SizesAssumption, BoundsAssumption DEF TypeOK, Length
<1>1. CASE Arrive
  BY <1>0, <1>1 DEF Arrive
<1>2. CASE AdvanceTime
  BY <1>0, <1>2 DEF AdvanceTime, counters
<1>3. CASE ReceiveDatagram
  <2>1. Head(inbox) \in Datagram /\ inbox' \in Seq(Datagram)
    BY <1>3 DEF ReceiveDatagram
  <2>2. buf' \in [1..BufSize -> Byte] /\ n' \in Length
    BY <1>3, <2>1, OverwrittenType, DatagramLength DEF ReceiveDatagram
  <2>3. QED
    BY <1>0, <1>3, <2>1, <2>2 DEF ReceiveDatagram, counters
<1>4. CASE ReceiveWouldBlock
  BY <1>0, <1>4 DEF ReceiveWouldBlock, counters
<1>5. CASE ReceiveError
  BY <1>0, <1>5 DEF ReceiveError
<1>6. CASE Dispatch
  <2>1. PICK e \in LogEntry : log' = Append(log, e)
    BY <1>6, DispatchEffect
  <2>2. log' \in Seq(LogEntry)
    BY <2>1
  <2>3. QED
    BY <1>0, <1>6, <2>2 DEF Dispatch, counters
<1>7. CASE Sleep
  BY <1>0, <1>7 DEF Sleep, counters
<1>8. CASE Application
  BY <1>0, <1>8 DEF Application, loopVars
<1>9. CASE UNCHANGED vars
  BY <1>0, <1>9 DEF vars, loopVars, counters
<1>10. QED
  BY <1>1, <1>2, <1>3, <1>4, <1>5, <1>6, <1>7, <1>8, <1>9 DEF Next, LoopStep

-----------------------------------------------------------------------------
(* The log.                                                                *)

(* Every step but Dispatch leaves the log alone.                           *)
LEMMA OnlyDispatchLogs == [Next]_vars /\ ~Dispatch => log' = log
BY DEF Next, LoopStep, Arrive, AdvanceTime, ReceiveDatagram, ReceiveWouldBlock,
       ReceiveError, Sleep, Application, vars, loopVars

LEMMA LastHeaderStep == ASSUME LoopInv, [Next]_vars PROVE LastHeader'
<1> USE DEF LoopInv, LastHeader, TypeOK, Header
<1>1. CASE Dispatch
  <2>1. PICK e \in LogEntry : log' = Append(log, e) /\ e.header = Header
    BY <1>1, DispatchEffect
  <2>2. buf' = buf /\ log'[Len(log')].header = Header
    BY <1>1, <2>1 DEF Dispatch
  <2>3. QED
    BY <2>2
<1>2. CASE ReceiveDatagram
  BY <1>2 DEF ReceiveDatagram
<1>3. CASE ~Dispatch /\ ~ReceiveDatagram
  <2>1. log' = log
    BY <1>3, OnlyDispatchLogs
  <2>2. /\ buf' = buf
        /\ (pc' # "dispatch" \/ repeated') => (pc # "dispatch" \/ repeated)
    BY <1>3 DEF Next, LoopStep, Arrive, AdvanceTime, ReceiveWouldBlock,
               ReceiveError, Sleep, Application, vars, loopVars
  <2>3. QED
    BY <2>1, <2>2
<1>4. QED
  BY <1>1, <1>2, <1>3

(* A known route of the log is a non-null entry of the table, and the      *)
(* manager keeps it.                                                       *)
LEMMA KnownRouteKept ==
  ASSUME ~RandFails, LoopInv, [Next]_vars,
         NEW i \in DOMAIN log, log[i].known,
         NEW h \in ConnectionId, h = log[i].header
  PROVE  /\ getConnection(h) = log[i].connection
         /\ log[i].connection # nullptr
         /\ getConnection(h)' = log[i].connection
<1>1. log[i] \in LogEntry
  BY DEF LoopInv, TypeOK
<1>2. log[i].connection # nullptr
  BY <1>1, NullptrAssumption DEF LogEntry
<1>3. getConnection(h) = log[i].connection
  BY DEF LoopInv, KnownRoutesHold
<1>4. getConnection(h)' = getConnection(h)
  BY <1>2, <1>3, StepsOfManager, RoutesStep DEF LoopInv
<1>5. QED
  BY <1>2, <1>3, <1>4

(* What every dispatched record satisfies: the old ones keep their place,  *)
(* the new one is last.                                                    *)
LEMMA AppendedLog ==
  ASSUME TypeOK, NEW e \in LogEntry, log' = Append(log, e)
  PROVE  /\ DOMAIN log' = DOMAIN log \union {Len(log) + 1}
         /\ DOMAIN log = 1..Len(log) /\ Len(log) \in Nat
         /\ \A i \in DOMAIN log : log'[i] = log[i]
         /\ log'[Len(log) + 1] = e
BY DEF TypeOK

LEMMA KnownRoutesStep ==
  ASSUME ~RandFails, LoopInv, [Next]_vars PROVE KnownRoutesHold'
<1> SUFFICES ASSUME NEW i \in DOMAIN log', log'[i].known,
                    NEW h, h = log'[i].header
             PROVE  getConnection(h)' = log'[i].connection
  BY DEF KnownRoutesHold
<1>1. TypeOK
  BY DEF LoopInv
<1>2. ASSUME NEW j \in DOMAIN log, log[j] = log'[i]
      PROVE  getConnection(h)' = log'[i].connection
  <2>1. log[j] \in LogEntry
    BY <1>1 DEF TypeOK
  <2>2. log[j].known /\ h = log[j].header
    BY <1>2
  <2>3. h \in ConnectionId
    BY <2>1, <2>2 DEF LogEntry
  <2>4. QED
    BY <1>2, <2>2, <2>3, KnownRouteKept
<1>3. CASE ~Dispatch
  BY <1>2, <1>3, OnlyDispatchLogs
<1>4. CASE Dispatch
  <2>1. PICK e \in LogEntry :
          /\ log' = Append(log, e) /\ e.header = Header
          /\ e.known = (getConnection(Header) # nullptr)
          /\ e.known => e.connection = getConnection(Header)
    BY <1>1, <1>4, DispatchEffect
  <2>2. CASE i = Len(log) + 1
    <3>1. log'[i] = e
      BY <1>1, <2>1, <2>2, AppendedLog
    <3>2. h \in ConnectionId /\ getConnection(h) # nullptr
             /\ log'[i].connection = getConnection(h)
      BY <1>1, <2>1, <3>1, HeaderType
    <3>3. QED
      BY <3>2, StepsOfManager, RoutesStep DEF LoopInv
  <2>3. CASE i # Len(log) + 1
    BY <1>1, <1>2, <2>1, <2>3, AppendedLog
  <2>4. QED
    BY <2>2, <2>3
<1>5. QED
  BY <1>3, <1>4

LEMMA KnownIdStep ==
  ASSUME ~RandFails, LoopInv, [Next]_vars PROVE KnownIdKeepsConnection'
<1>1. TypeOK
  BY DEF LoopInv
<1>2. CASE ~Dispatch
  BY <1>2, OnlyDispatchLogs DEF LoopInv, KnownIdKeepsConnection
<1>3. CASE Dispatch
  <2>1. PICK e \in LogEntry :
          /\ log' = Append(log, e) /\ e.header = Header
          /\ e.known = (getConnection(Header) # nullptr)
          /\ e.known => e.connection = getConnection(Header)
    BY <1>1, <1>3, DispatchEffect
  <2>2. ASSUME NEW i \in DOMAIN log, log[i].known, e.header = log[i].header
        PROVE  e.known /\ e.connection = log[i].connection
    BY <1>1, <2>1, <2>2, HeaderType, KnownRouteKept
  <2>3. ASSUME NEW i \in DOMAIN log', NEW j \in DOMAIN log', i < j,
               log'[i].known, log'[j].header = log'[i].header
        PROVE  log'[j].known /\ log'[j].connection = log'[i].connection
    <3>1. i \in DOMAIN log /\ log'[i] = log[i]
      BY <1>1, <2>1, <2>3, AppendedLog
    <3>2. CASE j = Len(log) + 1
      BY <1>1, <2>1, <2>2, <2>3, <3>1, <3>2, AppendedLog
    <3>3. CASE j # Len(log) + 1
      <4>1. j \in DOMAIN log /\ log'[j] = log[j]
        BY <1>1, <2>1, <3>3, AppendedLog
      <4>2. QED
        BY <2>3, <3>1, <4>1 DEF LoopInv, KnownIdKeepsConnection
    <3>4. QED
      BY <3>2, <3>3
  <2>4. QED
    BY <2>3 DEF KnownIdKeepsConnection
<1>4. QED
  BY <1>2, <1>3

LEMMA RepeatedStep ==
  ASSUME ~RandFails, LoopInv, [Next]_vars PROVE RepeatedGoesToPrevious'
<1>1. TypeOK
  BY DEF LoopInv
<1>2. CASE ~Dispatch
  BY <1>2, OnlyDispatchLogs DEF LoopInv, RepeatedGoesToPrevious
<1>3. CASE Dispatch
  <2>1. PICK e \in LogEntry :
          /\ log' = Append(log, e) /\ e.header = Header /\ e.repeated = repeated
          /\ e.known = (getConnection(Header) # nullptr)
          /\ e.known => e.connection = getConnection(Header)
    BY <1>1, <1>3, DispatchEffect
  <2>2. ASSUME log # <<>>, repeated, log[Len(log)].known
        PROVE  e.known /\ e.connection = log[Len(log)].connection
    <3>1. Len(log) \in DOMAIN log
      BY <1>1, <2>2 DEF TypeOK
    <3>2. log[Len(log)].header = Header
      BY <2>2 DEF LoopInv, LastHeader
    <3>3. QED
      BY <1>1, <2>1, <2>2, <3>1, <3>2, HeaderType, KnownRouteKept
  <2>3. ASSUME NEW i \in DOMAIN log', i > 1, log'[i].repeated, log'[i-1].known
        PROVE  log'[i].known /\ log'[i].connection = log'[i-1].connection
    <3>1. i - 1 \in DOMAIN log /\ log'[i-1] = log[i-1]
      BY <1>1, <2>1, <2>3, AppendedLog
    <3>2. CASE i = Len(log) + 1
      <4>1. i - 1 = Len(log) /\ log # <<>> /\ log'[i] = e
        BY <1>1, <2>1, <3>1, <3>2, AppendedLog
      <4>2. QED
        BY <2>1, <2>2, <2>3, <3>1, <4>1
    <3>3. CASE i # Len(log) + 1
      <4>1. i \in DOMAIN log /\ log'[i] = log[i]
        BY <1>1, <2>1, <3>3, AppendedLog
      <4>2. QED
        BY <2>3, <3>1, <4>1 DEF LoopInv, RepeatedGoesToPrevious
    <3>4. QED
      BY <3>2, <3>3
  <2>4. QED
    BY <2>3 DEF RepeatedGoesToPrevious
<1>4. QED
  BY <1>2, <1>3

-----------------------------------------------------------------------------
(* The theorems.                                                           *)

LEMMA LoopInvariant == ASSUME ~RandFails PROVE Spec => []LoopInv
<1>1. LoopInv /\ [Next]_vars => LoopInv'
  <2> SUFFICES ASSUME LoopInv, [Next]_vars PROVE LoopInv'
    OBVIOUS
  <2>1. TypeOK' /\ ManagerInv'
    BY TypeStep, ManagerNextInv, StepsOfManager DEF LoopInv
  <2>2. QED
    BY <2>1, KnownRoutesStep, LastHeaderStep, KnownIdStep, RepeatedStep DEF LoopInv
<1>2. QED
  BY <1>1, InitLoopInv, PTL DEF Spec

(* The loop uses the connection table only as its operations allow: what   *)
(* the theorems above say of the table, they say of it inside the loop.    *)
THEOREM LoopUsesTable == Spec => ManagerSpec
<1>1. Init => ManagerInit
  BY DEF Init
<1>2. QED
  BY <1>1, StepsOfManager, PTL DEF Spec, ManagerSpec

(* The loop's variables keep their types, whatever arrives and whatever    *)
(* RAND_bytes does.                                                        *)
THEOREM LoopTypeCorrect == Spec => []TypeOK
<1>1. Init => TypeOK /\ ManagerInv
  BY InitLoopInv DEF LoopInv
<1>2. TypeOK /\ ManagerInv /\ [Next]_vars => (TypeOK /\ ManagerInv)'
  BY TypeStep, ManagerNextInv, StepsOfManager
<1>3. QED
  BY <1>1, <1>2, PTL DEF Spec

(* As long as random ids do not repeat, a peer whose id was found once     *)
(* reaches the same connection with every later packet, in any             *)
(* interleaving with short, unknown and repeated packets and application   *)
(* calls.                                                                  *)
THEOREM PeerKeepsConnection ==
  ASSUME ~RandFails PROVE Spec => []KnownIdKeepsConnection
BY LoopInvariant, PTL DEF LoopInv

(* As long as random ids do not repeat, the packet a receive error makes   *)
(* the loop build again goes where the previous one went, if that one was  *)
(* found by its id.                                                        *)
THEOREM RepeatsAreHarmless ==
  ASSUME ~RandFails PROVE Spec => []RepeatedGoesToPrevious
BY LoopInvariant, PTL DEF LoopInv
=============================================================================
