----------------------------- MODULE ReceiveLoop -----------------------------
(***************************************************************************)
(* The receive path: the event loop of the library's usage example         *)
(* (Protocol/test/ProtocolUsageExample.cpp), Protocol::                    *)
(* getConnectionForPacket and, below it, the ConnectionManager, all on one *)
(* thread, against a UDP socket that other hosts send to at any moment.    *)
(*                                                                         *)
(* One array, buf, is reused for every datagram: a datagram overwrites     *)
(* only as many bytes as it has, and the connection id is read from the    *)
(* first CONNECTION_ID_SIZE bytes of the array whatever the packet's       *)
(* length.  A receive error other than would_block is printed, and the     *)
(* loop then goes on to build a packet from buf and n as they are.         *)
(*                                                                         *)
(* Left out: the payload, the sender's endpoint (nothing reads it) and     *)
(* the clock; Protocol::advance_time and Connection::handlePacket have     *)
(* empty bodies, so only the fact that they are called is kept.            *)
(***************************************************************************)
EXTENDS ConnectionManager, Naturals, Sequences

CONSTANTS
  Byte,                \* the values of a byte of the header
  Zero,                \* the byte 0: buf{} is zero-initialised
  CONNECTION_ID_SIZE,  \* Connection::CONNECTION_ID_SIZE, 12 in the code
  BufSize,             \* buf.size(), 2048 in the code
  Unset,               \* the value of an uninitialised length
  InboxCap,            \* datagrams the socket's receive buffer holds
  MaxArrivals,         \* bound: datagrams that arrive
  MaxErrors,           \* bound: receive errors other than would_block
  MaxAppCalls          \* bound: calls the application makes by itself

ASSUME SizesAssumption ==
  /\ CONNECTION_ID_SIZE \in Nat \ {0}
  /\ BufSize \in Nat
  /\ CONNECTION_ID_SIZE <= BufSize
  /\ Zero \in Byte
  /\ ConnectionId = [1..CONNECTION_ID_SIZE -> Byte]

ASSUME BoundsAssumption ==
  /\ InboxCap \in Nat \ {0}
  /\ MaxArrivals \in Nat
  /\ MaxErrors \in Nat
  /\ MaxAppCalls \in Nat

(* What receive_from can deliver into buf: from nothing up to BufSize      *)
(* bytes (a longer datagram is cut).                                       *)
Datagram == UNION {[1..k -> Byte] : k \in 0..BufSize}

VARIABLES
  pc,        \* where the loop is
  inbox,     \* datagrams in the socket's receive buffer, oldest first
  buf,       \* the receive array
  n,         \* the length the next packet is built with
  repeated,  \* history: buf and n are those of the previous packet, or unset
  log,       \* history: one record per packet given to a connection
  arrived,   \* how many datagrams have arrived
  errors,    \* how many receive errors there were
  appCalls   \* how many calls the application made by itself

loopVars == <<pc, inbox, buf, n, repeated, log>>
counters == <<arrived, errors, appCalls>>
vars == <<managerVars, loopVars, counters>>

Init ==
  /\ ManagerInit
  /\ pc = "advance"
  /\ inbox = <<>>
  /\ buf = [i \in 1..BufSize |-> Zero]
  /\ n = Unset
  /\ repeated = TRUE
  /\ log = <<>>
  /\ arrived = 0 /\ errors = 0 /\ appCalls = 0

-----------------------------------------------------------------------------
(* The socket.                                                             *)

(* A datagram from some host reaches the socket.  Loss, duplication and    *)
(* reordering need no action of their own: any datagram may arrive at any  *)
(* moment, and none has to.                                                *)
Arrive ==
  /\ arrived < MaxArrivals
  /\ Len(inbox) < InboxCap
  /\ \E d \in Datagram : inbox' = Append(inbox, d)
  /\ arrived' = arrived + 1
  /\ UNCHANGED <<managerVars, pc, buf, n, repeated, log, errors, appCalls>>

(* The contents of buf once receive_from has copied datagram d into it.    *)
Overwritten(d) ==
  [i \in 1..BufSize |-> IF i <= Len(d) THEN d[i] ELSE buf[i]]

-----------------------------------------------------------------------------
(* The loop.                                                               *)

(* A new round: the clock is read, advance_time is called, and n is a new  *)
(* uninitialised variable: any value, which no step looks at.              *)
AdvanceTime ==
  /\ pc = "advance"
  /\ n' = Unset
  /\ repeated' = TRUE
  /\ pc' = "receive"
  /\ UNCHANGED <<managerVars, inbox, buf, log, counters>>

(* Faulty variant: the socket is read until it is empty, and only then is  *)
(* a packet built.                                                         *)
ReceiveDatagramDraining ==
  /\ pc = "receive"
  /\ inbox # <<>>
  /\ buf' = Overwritten(Head(inbox))
  /\ n' = Len(Head(inbox))
  /\ inbox' = Tail(inbox)
  /\ repeated' = FALSE
  /\ pc' = IF inbox' # <<>> THEN "receive" ELSE "dispatch"
  /\ UNCHANGED <<managerVars, log, counters>>

(* receive_from returns the oldest datagram.                               *)
ReceiveDatagram ==
  /\ pc = "receive"
  /\ inbox # <<>>
  /\ buf' = Overwritten(Head(inbox))
  /\ n' = Len(Head(inbox))
  /\ inbox' = Tail(inbox)
  /\ repeated' = FALSE
  /\ pc' = "dispatch"
  /\ UNCHANGED <<managerVars, log, counters>>

(* Faulty variant: would_block does not leave the inner loop.              *)
ReceiveWouldBlockContinues ==
  /\ pc = "receive"
  /\ inbox = <<>>
  /\ pc' = "receive"
  /\ UNCHANGED <<managerVars, inbox, buf, n, repeated, log, counters>>

(* No more data to read: the inner loop ends.                              *)
ReceiveWouldBlock ==
  /\ pc = "receive"
  /\ inbox = <<>>
  /\ pc' = "sleep"
  /\ UNCHANGED <<managerVars, inbox, buf, n, repeated, log, counters>>

(* Faulty variant: the array is cleared before the error is reported.      *)
ReceiveErrorClearing ==
  /\ pc = "receive"
  /\ errors < MaxErrors
  /\ errors' = errors + 1
  /\ buf' = [i \in 1..BufSize |-> Zero]
  /\ repeated' = TRUE
  /\ pc' = "dispatch"
  /\ UNCHANGED <<managerVars, inbox, n, log, arrived, appCalls>>

(* Any other error: it is printed, and the loop goes on to the packet with *)
(* buf and n unchanged.                                                    *)
ReceiveError ==
  /\ pc = "receive"
  /\ errors < MaxErrors
  /\ errors' = errors + 1
  /\ repeated' = TRUE
  /\ pc' = "dispatch"
  /\ UNCHANGED <<managerVars, inbox, buf, n, log, arrived, appCalls>>

(* The id getConnectionForPacket reads.                                    *)
Header == [i \in 1..CONNECTION_ID_SIZE |-> buf[i]]

(* The packet is handed to connection; known tells whether the connection  *)
(* was found or made for it.                                               *)
HandlePacket(connection, known) ==
  log' = Append(log, [header |-> Header, length |-> n, repeated |-> repeated,
                      known |-> known, connection |-> connection])

(* Protocol::getConnectionForPacket: the connection of the header, or a    *)
(* new one, which gets a random id and not the header.                     *)
getConnectionForPacket ==
  \/ /\ getConnection(Header) # nullptr
     /\ HandlePacket(getConnection(Header), TRUE)
     /\ UNCHANGED managerVars
  \/ /\ getConnection(Header) = nullptr
     /\ \E connection \in Connection, id \in ConnectionId :
          /\ addNewConnection(connection, id)
          /\ HandlePacket(connection, FALSE)

Dispatch ==
  /\ pc = "dispatch"
  /\ getConnectionForPacket
  /\ pc' = "receive"
  /\ UNCHANGED <<inbox, buf, n, repeated, counters>>

Sleep ==
  /\ pc = "sleep"
  /\ pc' = "advance"
  /\ UNCHANGED <<managerVars, inbox, buf, n, repeated, log, counters>>

(* Protocol::createNewConnection and Connection::addConnectionId, called   *)
(* by the program that runs the loop, between two rounds.                  *)
Application ==
  /\ pc = "advance"
  /\ appCalls < MaxAppCalls
  /\ appCalls' = appCalls + 1
  /\ \E connection \in Connection, id \in ConnectionId :
       \/ addNewConnection(connection, id)
       \/ addConnectionId(connection, id)
  /\ UNCHANGED <<loopVars, arrived, errors>>

LoopStep ==
  \/ AdvanceTime \/ ReceiveDatagram \/ ReceiveWouldBlock \/ ReceiveError
  \/ Dispatch \/ Sleep

Next == Arrive \/ LoopStep \/ Application

Spec == Init /\ [][Next]_vars

(* The loop never blocks: the socket is non-blocking and its thread keeps  *)
(* running.  Nothing is assumed of the network or of the application.      *)
FairSpec == Spec /\ WF_vars(LoopStep)

-----------------------------------------------------------------------------
(* Properties.                                                             *)

Length == 0..BufSize \union {Unset}

LogEntry == [header : ConnectionId, length : Length, repeated : BOOLEAN,
             known : BOOLEAN, connection : Connection]

(* The variables have their types.                                         *)
TypeOK ==
  /\ ManagerTypeOK
  /\ pc \in {"advance", "receive", "dispatch", "sleep"}
  /\ inbox \in Seq(Datagram)
  /\ buf \in [1..BufSize -> Byte]
  /\ n \in Length
  /\ repeated \in BOOLEAN
  /\ log \in Seq(LogEntry)
  /\ arrived \in 0..MaxArrivals
  /\ errors \in 0..MaxErrors
  /\ appCalls \in 0..MaxAppCalls

(* A peer keeps its connection: once a packet with some id has been given  *)
(* to a connection found by that id, every later packet with that id goes  *)
(* to the same connection, whatever short, unknown or repeated packets and *)
(* application calls come between (ids drawn at random do not repeat).     *)
KnownIdKeepsConnection ==
  \A i, j \in DOMAIN log :
    (i < j /\ log[i].known /\ log[j].header = log[i].header)
      => log[j].known /\ log[j].connection = log[i].connection

(* A receive error gives the previous packet's bytes to the loop once      *)
(* more: the packet built from them goes to the connection that packet     *)
(* went to, if that one was found by its id, and so never opens a          *)
(* connection on behalf of an established peer.                            *)
RepeatedGoesToPrevious ==
  \A i \in DOMAIN log :
    (i > 1 /\ log[i].repeated /\ log[i-1].known)
      => log[i].known /\ log[i].connection = log[i-1].connection

(* A packet that was received, and carries all of a connection id.         *)
IsWhole(packet) == ~packet.repeated /\ packet.length >= CONNECTION_ID_SIZE

WholeDispatched == Len(SelectSeq(log, IsWhole))

(* With the packet received last, if it is yet to be dispatched, and those *)
(* that wait in the socket.                                                *)
WholeReceived ==
  WholeDispatched
    + (IF pc = "dispatch" /\ ~repeated /\ n >= CONNECTION_ID_SIZE THEN 1 ELSE 0)
    + Len(SelectSeq(inbox, LAMBDA d : Len(d) >= CONNECTION_ID_SIZE))

(* Every datagram with a whole connection id is given to a connection: no  *)
(* error, no other datagram and no unfinished round makes the loop drop    *)
(* it.  (Nothing is asked for a datagram that is too short for an id; the  *)
(* code routes it by bytes that are not its own, see RoutedByOwnBytes.)    *)
WholeIdsDispatched ==
  \A k \in 1..MaxArrivals : (WholeReceived >= k) ~> (WholeDispatched >= k)

(* The inner loop always ends, so that advance_time keeps being called     *)
(* (this holds because arrivals and errors are finite: the code bounds     *)
(* neither, and stays in the inner loop as long as one follows another).   *)
TimeKeepsAdvancing == []<>(pc = "advance")

(* "Returns the corresponding connection for the packet" (Protocol.h:168): *)
(* two packets received with the same connection id correspond to the same *)
(* connection.                                                             *)
SameIdSameConnection ==
  \A i, j \in DOMAIN log :
    (IsWhole(log[i]) /\ IsWhole(log[j]) /\ log[i].header = log[j].header)
      => log[i].connection = log[j].connection

(* "Returns the corresponding connection for the packet" (Protocol.h:168): *)
(* a datagram too short to hold an id corresponds to no peer's connection, *)
(* so it does not go to the connection of a peer whose datagram came       *)
(* before it and was found by its id (one other than the zeros the array   *)
(* begins with).                                                           *)
RoutedByOwnBytes ==
  \A i, j \in DOMAIN log :
    (/\ i < j
     /\ IsWhole(log[i]) /\ log[i].known
     /\ log[i].header # [k \in 1..CONNECTION_ID_SIZE |-> Zero]
     /\ ~log[j].repeated /\ log[j].length < CONNECTION_ID_SIZE)
      => log[j].connection # log[i].connection
=============================================================================
