---------------------------- MODULE StreamRegistry ----------------------------
(***************************************************************************)
(* What Connection::createStream promises its callers, as its doc comment  *)
(* (StreamUP/Connection/Connection.h, lines 49-55) and its code have it:   *)
(* every call is decided in one step, against one set of ids in use.       *)
(* StreamTable implements it with threads and a mutex per id.              *)
(***************************************************************************)
EXTENDS Naturals

CONSTANTS
  Thread,      \* the application's threads
  RequestId,   \* the stream ids they ask for
  maxStreams,  \* ConnectionConfig::maxStreams
  None         \* no id

VARIABLES
  used,     \* the ids that have a stream
  phase,    \* of every thread: "idle", in an "open" call, or "decided"
  request,  \* the id of every thread's call
  reply     \* what the call returns

registryVars == <<used, phase, request, reply>>

RegistryInit ==
  /\ used = {}
  /\ phase = [t \in Thread |-> "idle"]
  /\ request = [t \in Thread |-> None]
  /\ reply = [t \in Thread |-> "none"]

Request(t, id) ==
  /\ phase[t] = "idle"
  /\ phase' = [phase EXCEPT ![t] = "open"]
  /\ request' = [request EXCEPT ![t] = id]
  /\ UNCHANGED <<used, reply>>

(* An exception may leave the id in use or not.                            *)
Outcome(id, result) ==
  \/ result = "INVALID_STREAM_ID" /\ id >= maxStreams /\ UNCHANGED used
  \/ result = "ALREADY_IN_USE" /\ id \in used /\ UNCHANGED used
  \/ result = "PENDING" /\ id < maxStreams /\ id \notin used /\ used' = used \union {id}
  \/ result = "exception" /\ id < maxStreams /\ id \notin used
     /\ (UNCHANGED used \/ used' = used \union {id})

Decide(t) ==
  /\ phase[t] = "open"
  /\ phase' = [phase EXCEPT ![t] = "decided"]
  /\ \E result \in {"INVALID_STREAM_ID", "ALREADY_IN_USE", "PENDING", "exception"} :
       /\ Outcome(request[t], result)
       /\ reply' = [reply EXCEPT ![t] = result]
  /\ UNCHANGED request

Reply(t) ==
  /\ phase[t] = "decided"
  /\ phase' = [phase EXCEPT ![t] = "idle"]
  /\ request' = [request EXCEPT ![t] = None]
  /\ reply' = [reply EXCEPT ![t] = "none"]
  /\ UNCHANGED used

RegistryNext ==
  \E t \in Thread :
    (\E id \in RequestId : Request(t, id)) \/ Decide(t) \/ Reply(t)

RegistrySpec == RegistryInit /\ [][RegistryNext]_registryVars
=============================================================================
