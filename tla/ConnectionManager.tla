-------------------------- MODULE ConnectionManager --------------------------
(***************************************************************************)
(* The connection table of the protocol library: ConnectionManager,        *)
(* ConnectionIdHandler and the id list of Connection (namespace SUP, under *)
(* Protocol/include/Protocol/connection).                                  *)
(*                                                                         *)
(* The manager maps a connection id to a heap-allocated Connection; every  *)
(* Connection also keeps the list of its own ids.  The two structures are  *)
(* kept in step by hand: addNewConnection writes both, addConnectionId     *)
(* writes only the list, and getConnection reads both.  Nothing removes an *)
(* entry from either.                                                      *)
(*                                                                         *)
(* A vector of ids is only ever searched with std::ranges::find, so it is  *)
(* modelled by its set of elements.                                        *)
(***************************************************************************)
EXTENDS FiniteSets

CONSTANTS
  ConnectionId,  \* the values of Connection::ConnectionId, an array of bytes
  Connection,    \* the objects `new Connection()' can return
  nullptr,       \* the null Connection *
  RandFails      \* TRUE: RAND_bytes may fail (its result is ignored)

ASSUME NullptrAssumption == nullptr \notin Connection
ASSUME RandFailsAssumption == RandFails \in BOOLEAN

VARIABLES
  connections,    \* the manager's map; nullptr where there is no entry
  connectionIds,  \* the id list of every Connection; {} before it is created
  drawn           \* history: the ids getNewConnectionId has returned

managerVars == <<connections, connectionIds, drawn>>

(* The objects created so far: an object is created with one id and never  *)
(* loses one.                                                              *)
Live == {c \in Connection : connectionIds[c] # {}}

ManagerInit ==
  /\ connections = [id \in ConnectionId |-> nullptr]
  /\ connectionIds = [c \in Connection |-> {}]
  /\ drawn = {}

-----------------------------------------------------------------------------
(* The operations.                                                         *)

(* The entry of id, if the connection it leads to still lists id.          *)
getConnection(id) ==
  IF /\ connections[id] # nullptr
     /\ id \in connectionIds[connections[id]]
    THEN connections[id]
    ELSE nullptr

(* Faulty variant: random bytes that may repeat.                           *)
NewConnectionIdRepeating == ConnectionId

(* Twelve random bytes.  A successful RAND_bytes does not repeat an id; a  *)
(* failed one leaves the uninitialised array as it was, which may hold     *)
(* any bytes, those of an earlier id included.                             *)
getNewConnectionId == IF RandFails THEN ConnectionId ELSE ConnectionId \ drawn

(* Faulty variant: addNewConnection without its call of addConnectionId.   *)
AddNewConnectionUnlisted(connection, id) ==
  /\ connection \in Connection \ Live
  /\ id \in getNewConnectionId
  /\ connections' = [connections EXCEPT ![id] = connection]
  /\ drawn' = drawn \union {id}
  /\ UNCHANGED connectionIds

(* A new object with a new id, listed in the object and entered in the     *)
(* map.  map::operator[] overwrites: with a repeated id the earlier        *)
(* connection loses its entry.                                             *)
addNewConnection(connection, id) ==
  /\ connection \in Connection \ Live
  /\ id \in getNewConnectionId
  /\ connectionIds' = [connectionIds EXCEPT ![connection] = @ \union {id}]
  /\ connections' = [connections EXCEPT ![id] = connection]
  /\ drawn' = drawn \union {id}

(* Faulty variant: the extra id is entered in the map as well, over        *)
(* whatever entry it had.                                                  *)
AddConnectionIdAndRegister(connection, id) ==
  /\ connection \in Live
  /\ connectionIds' = [connectionIds EXCEPT ![connection] = @ \union {id}]
  /\ connections' = [connections EXCEPT ![id] = connection]
  /\ UNCHANGED drawn

(* The public Connection::addConnectionId, called by the application on a  *)
(* connection it holds.                                                    *)
addConnectionId(connection, id) ==
  /\ connection \in Live
  /\ connectionIds' = [connectionIds EXCEPT ![connection] = @ \union {id}]
  /\ UNCHANGED <<connections, drawn>>

ManagerNext ==
  \E connection \in Connection, id \in ConnectionId :
    \/ addNewConnection(connection, id)
    \/ addConnectionId(connection, id)

ManagerSpec == ManagerInit /\ [][ManagerNext]_managerVars

-----------------------------------------------------------------------------
(* Properties.                                                             *)

(* The variables have their types, and only ids the manager drew are keys  *)
(* of its map.                                                             *)
ManagerTypeOK ==
  /\ connections \in [ConnectionId -> Connection \union {nullptr}]
  /\ connectionIds \in [Connection -> SUBSET ConnectionId]
  /\ drawn \subseteq ConnectionId
  /\ \A id \in ConnectionId : connections[id] # nullptr => id \in drawn

(* The map and the lists agree in one direction: an entry leads to a       *)
(* connection that lists its key, so the second look-up of getConnection   *)
(* never turns a found entry away (ConnectionManager.h, lines 23-27).      *)
RecheckNeverRejects ==
  \A id \in ConnectionId : getConnection(id) = connections[id]

(* A connection can be found by one of its ids.                            *)
Reachable(c) == \E id \in connectionIds[c] : getConnection(id) = c

(* No connection is lost: as long as random ids do not repeat, every       *)
(* Connection the manager ever created can still be found through it.      *)
EveryConnectionReachable == \A c \in Live : Reachable(c)

(* Routing is stable: once packets with an id go to a connection, no later *)
(* call makes them go elsewhere or get lost, as long as random ids do not  *)
(* repeat.                                                                 *)
RoutesAreStable ==
  [][\A id \in ConnectionId :
       getConnection(id) # nullptr => getConnection(id)' = getConnection(id)]_managerVars

(* When random ids do repeat, each repetition costs exactly the connection *)
(* whose entry it overwrites: an id that was drawn leads to one connection *)
(* and every other one is lost.  (Live has one connection for each draw,   *)
(* drawn one id for each draw that was not a repetition.)                  *)
OneLostPerRepeatedId ==
  Cardinality({c \in Live : Reachable(c)}) = Cardinality(drawn)
=============================================================================
