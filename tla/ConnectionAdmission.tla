-------------------------- MODULE ConnectionAdmission --------------------------
(***************************************************************************)
(* StreamUP::createConnection (StreamUP/src/StreamUP.cpp), called by       *)
(* several threads of the application: the number of outgoing connections  *)
(* is compared with the limit, an id is drawn from an atomic counter, and  *)
(* a Connection is constructed, three steps with no lock around them.  The *)
(* constructor sizes a vector and may throw.  The caller owns the          *)
(* connection and destroys it when it likes.                               *)
(*                                                                         *)
(* numberOutgoingConnections is declared nowhere in the repository; it is  *)
(* taken to be the number of connections that exist.  The counter is       *)
(* ConnectionManager's, a uint64_t, which wraps around.                    *)
(***************************************************************************)
EXTENDS Naturals, FiniteSets

CONSTANTS
  Thread,                  \* the application's threads
  IdMod,                   \* an id is a number below IdMod (2^64)
  maxOutgoingConnections,  \* the member of StreamUPConfig
  MaxCalls                 \* bound: calls of createConnection

ASSUME AdmissionAssumption ==
  /\ IsFiniteSet(Thread)
  /\ IdMod \in Nat \ {0}
  /\ maxOutgoingConnections \in Nat
  /\ MaxCalls \in Nat

Id == 0 .. IdMod - 1

VARIABLES
  connectionIdCounter,
  connections,  \* the connections that exist, with the number of their draw
  pc,           \* where every thread is in createConnection
  local,        \* what its call has drawn
  calls,        \* how many calls there have been
  draws,        \* history: how many ids have been drawn
  raced         \* history: has a call passed the check while another was past it?

admissionVars == <<connectionIdCounter, connections, pc, local, calls, draws, raced>>

NotDrawn == [id |-> 0, draw |-> 0]

(* connectionIdCounter is value-initialised.                               *)
Init ==
  /\ connectionIdCounter = 0
  /\ connections = {}
  /\ pc = [t \in Thread |-> "idle"]
  /\ local = [t \in Thread |-> NotDrawn]
  /\ calls = 0
  /\ draws = 0
  /\ raced = FALSE

Goto(t, from, to) == pc[t] = from /\ pc' = [pc EXCEPT ![t] = to]

(* The calls that have passed the check and not yet constructed.           *)
InFlight == {t \in Thread : pc[t] \in {"draw", "construct"}}

-----------------------------------------------------------------------------
(* createConnection, step by step.                                         *)

Call(t) ==
  /\ calls < MaxCalls
  /\ Goto(t, "idle", "check")
  /\ calls' = calls + 1
  /\ UNCHANGED <<connectionIdCounter, connections, local, draws, raced>>

numberOutgoingConnections == Cardinality(connections)

(* Faulty variant: the limit itself is let through.                        *)
TooManyOffByOne == numberOutgoingConnections = maxOutgoingConnections + 1

TooMany == numberOutgoingConnections = maxOutgoingConnections

(* Returns TOO_MANY_CONNECTIONS, or goes on to draw an id.                 *)
Check(t) ==
  /\ \/ TooMany /\ Goto(t, "check", "idle") /\ UNCHANGED raced
     \/ /\ ~TooMany /\ Goto(t, "check", "draw")
        /\ raced' = (raced \/ InFlight # {})
  /\ UNCHANGED <<connectionIdCounter, connections, local, calls, draws>>

(* Faulty variant: the counter does not move while no connection exists.   *)
AfterReusing(id) == IF connections = {} THEN id ELSE (id + 1) % IdMod

(* Faulty variant: the counter is wider than an id.                        *)
AfterWide(id) == id + 1

(* An unsigned addition.                                                   *)
After(id) == IF id = IdMod - 1 THEN 0 ELSE id + 1

(* nextConnectionIdAtomic: a fetch_add, one indivisible step.              *)
DrawId(t) ==
  /\ Goto(t, "draw", "construct")
  /\ local' = [local EXCEPT ![t] = [id |-> connectionIdCounter, draw |-> draws + 1]]
  /\ connectionIdCounter' = After(connectionIdCounter)
  /\ draws' = draws + 1
  /\ UNCHANGED <<connections, calls, raced>>

(* make_unique<Connection>: an exception costs the id and nothing else.    *)
Construct(t) ==
  /\ Goto(t, "construct", "idle")
  /\ \/ connections' = connections \union {local[t]}
     \/ UNCHANGED connections
  /\ UNCHANGED <<connectionIdCounter, local, calls, draws, raced>>

(* The owner destroys its connection.                                      *)
Destroy(c) ==
  /\ connections' = connections \ {c}
  /\ UNCHANGED <<connectionIdCounter, pc, local, calls, draws, raced>>

Next ==
  \/ \E t \in Thread : Call(t) \/ Check(t) \/ DrawId(t) \/ Construct(t)
  \/ \E c \in connections : Destroy(c)

Spec == Init /\ [][Next]_admissionVars

-----------------------------------------------------------------------------
(* Properties.                                                             *)

(* The variables have their types.                                         *)
TypeOK ==
  /\ connectionIdCounter \in Id
  /\ connections \subseteq [id : Id, draw : 1 .. draws]
  /\ pc \in [Thread -> {"idle", "check", "draw", "construct"}]
  /\ local \in [Thread -> [id : Id, draw : 0 .. draws]]
  /\ calls \in 0 .. MaxCalls
  /\ draws \in Nat
  /\ raced \in BOOLEAN

(* Ids are unique whatever the threads' interleaving, failed constructions *)
(* and destroyed connections: two connections that exist together have the *)
(* same id only if the counter has gone all the way round between them.    *)
IdsRepeatOnlyAfterWrap ==
  \A c, d \in connections : c # d /\ c.id = d.id =>
    c.draw + IdMod <= d.draw \/ d.draw + IdMod <= c.draw

(* The limit holds as long as no call passes the check while another is    *)
(* between its check and its construction, which is all that an            *)
(* application has to rule out; the number itself never jumps over the     *)
(* limit, so that comparing with = is as good as with >=.                  *)
LimitHoldsUnlessRaced ==
  raced \/ numberOutgoingConnections <= maxOutgoingConnections
=============================================================================
