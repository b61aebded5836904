----------------------------- MODULE StreamTable -----------------------------
(***************************************************************************)
(* Connection::createStream of the StreamUP layer                          *)
(* (StreamUP/Connection/Connection.h), called by several threads: a vector *)
(* of slots, one per stream id, each a pointer to a Stream with a mutex of *)
(* its own.  The vector is sized by the constructor and never again.       *)
(*                                                                         *)
(* std::make_unique may throw bad_alloc before it assigns the pointer.     *)
(* Stream::initialize is called but defined nowhere in the repository; it  *)
(* runs under the lock and may throw, which leaves the id in use without a *)
(* stream that anyone was promised.  A lock_guard lets go of the mutex     *)
(* either way.  What a Stream is made of is left out.                      *)
(***************************************************************************)
EXTENDS Naturals, FiniteSets

CONSTANTS
  Thread,      \* the application's threads
  RequestId,   \* the stream ids they ask for, invalid ones included
  maxStreams,  \* ConnectionConfig::maxStreams
  None,        \* no id, and no owner of a mutex
  MaxCalls     \* bound: calls of createStream

StreamId == 0 .. maxStreams - 1

ASSUME StreamsAssumption ==
  /\ maxStreams \in Nat /\ MaxCalls \in Nat
  /\ RequestId \subseteq Nat
  /\ None \notin Nat /\ None \notin Thread

VARIABLES
  streams,  \* the pointer of every slot, and how far its Stream is
  owner,    \* the owner of every slot's mutex
  pc,       \* where every thread is in createStream
  arg,      \* the stream id of its call
  result,   \* what its call returns
  calls,    \* how many calls there have been
  number,   \* history: the number of every thread's call
  granted,  \* history: the calls that return PENDING, with their id
  orphans   \* history: the ids whose Stream::initialize threw

tableVars == <<streams, owner, pc, arg, result, calls, number, granted, orphans>>

Init ==
  /\ streams = [s \in StreamId |-> "nullptr"]
  /\ owner = [s \in StreamId |-> None]
  /\ pc = [t \in Thread |-> "idle"]
  /\ arg = [t \in Thread |-> None]
  /\ result = [t \in Thread |-> "none"]
  /\ calls = 0
  /\ number = [t \in Thread |-> 0]
  /\ granted = {}
  /\ orphans = {}

Goto(t, from, to) == pc[t] = from /\ pc' = [pc EXCEPT ![t] = to]

ReturnValue(t, value) == result' = [result EXCEPT ![t] = value]

-----------------------------------------------------------------------------
(* createStream, step by step.                                             *)

Call(t) ==
  /\ calls < MaxCalls
  /\ Goto(t, "idle", "check")
  /\ \E id \in RequestId : arg' = [arg EXCEPT ![t] = id]
  /\ calls' = calls + 1
  /\ number' = [number EXCEPT ![t] = calls + 1]
  /\ UNCHANGED <<streams, owner, result, granted, orphans>>

(* Faulty variant: > for >=.                                               *)
CheckRangeOffByOne(t) ==
  /\ \/ Goto(t, "check", "return") /\ arg[t] > maxStreams
        /\ ReturnValue(t, "INVALID_STREAM_ID")
     \/ Goto(t, "check", "lock") /\ arg[t] <= maxStreams /\ UNCHANGED result
  /\ UNCHANGED <<streams, owner, arg, calls, number, granted, orphans>>

CheckRange(t) ==
  /\ \/ Goto(t, "check", "return") /\ arg[t] >= maxStreams
        /\ ReturnValue(t, "INVALID_STREAM_ID")
     \/ Goto(t, "check", "lock") /\ arg[t] < maxStreams /\ UNCHANGED result
  /\ UNCHANGED <<streams, owner, arg, calls, number, granted, orphans>>

(* Faulty variant: the slot is looked at and filled without waiting for    *)
(* its mutex.                                                              *)
LockWithoutWaiting(t) ==
  /\ Goto(t, "lock", "test")
  /\ owner' = [owner EXCEPT ![arg[t]] = t]
  /\ UNCHANGED <<streams, arg, result, calls, number, granted, orphans>>

Lock(t) ==
  /\ Goto(t, "lock", "test")
  /\ owner[arg[t]] = None
  /\ owner' = [owner EXCEPT ![arg[t]] = t]
  /\ UNCHANGED <<streams, arg, result, calls, number, granted, orphans>>

Test(t) ==
  /\ \/ Goto(t, "test", "unlock") /\ streams[arg[t]] # "nullptr"
        /\ ReturnValue(t, "ALREADY_IN_USE")
     \/ Goto(t, "test", "allocate") /\ streams[arg[t]] = "nullptr"
        /\ UNCHANGED result
  /\ UNCHANGED <<streams, owner, arg, calls, number, granted, orphans>>

(* Faulty variant: the slot is marked before the allocation, and an        *)
(* exception leaves it marked.                                             *)
AllocateMarkingFirst(t) ==
  /\ \/ Goto(t, "allocate", "initialize") /\ UNCHANGED result
     \/ Goto(t, "allocate", "unlock") /\ ReturnValue(t, "exception")
  /\ streams' = [streams EXCEPT ![arg[t]] = "allocated"]
  /\ UNCHANGED <<owner, arg, calls, number, granted, orphans>>

(* Faulty variant: an exception skips the unlock, as it would with a       *)
(* plain mutex.lock().                                                     *)
AllocateWithoutGuard(t) ==
  /\ \/ /\ Goto(t, "allocate", "initialize")
        /\ streams' = [streams EXCEPT ![arg[t]] = "allocated"]
        /\ UNCHANGED result
     \/ /\ Goto(t, "allocate", "return")
        /\ ReturnValue(t, "exception")
        /\ UNCHANGED streams
  /\ UNCHANGED <<owner, arg, calls, number, granted, orphans>>

(* make_unique: an exception leaves the slot as it was.                    *)
Allocate(t) ==
  /\ \/ /\ Goto(t, "allocate", "initialize")
        /\ streams' = [streams EXCEPT ![arg[t]] = "allocated"]
        /\ UNCHANGED result
     \/ /\ Goto(t, "allocate", "unlock")
        /\ ReturnValue(t, "exception")
        /\ UNCHANGED streams
  /\ UNCHANGED <<owner, arg, calls, number, granted, orphans>>

(* stream->initialize(): an exception leaves the slot occupied.            *)
Initialize(t) ==
  /\ Goto(t, "initialize", "unlock")
  /\ \/ /\ streams' = [streams EXCEPT ![arg[t]] = "initialized"]
        /\ ReturnValue(t, "PENDING")
        /\ granted' = granted \union {[call |-> number[t], id |-> arg[t]]}
        /\ UNCHANGED orphans
     \/ /\ orphans' = orphans \union {arg[t]}
        /\ ReturnValue(t, "exception")
        /\ UNCHANGED <<streams, granted>>
  /\ UNCHANGED <<owner, arg, calls, number>>

Unlock(t) ==
  /\ Goto(t, "unlock", "return")
  /\ owner' = [owner EXCEPT ![arg[t]] = None]
  /\ UNCHANGED <<streams, arg, result, calls, number, granted, orphans>>

Return(t) ==
  /\ Goto(t, "return", "idle")
  /\ arg' = [arg EXCEPT ![t] = None]
  /\ result' = [result EXCEPT ![t] = "none"]
  /\ UNCHANGED <<streams, owner, calls, number, granted, orphans>>

(* The steps of a thread inside createStream.                              *)
createStream(t) ==
  \/ CheckRange(t) \/ Lock(t) \/ Test(t) \/ Allocate(t) \/ Initialize(t)
  \/ Unlock(t) \/ Return(t)

Next == \E t \in Thread : Call(t) \/ createStream(t)

Spec == Init /\ [][Next]_tableVars

(* A thread inside createStream keeps running, and a mutex that stays free *)
(* is eventually taken by a thread that waits for it.  No thread has to    *)
(* call, and nothing is assumed of the order in which a mutex is granted.  *)
FairSpec == Spec /\ \A t \in Thread : WF_tableVars(createStream(t))

-----------------------------------------------------------------------------
(* Properties.                                                             *)

Inside == {"test", "allocate", "initialize", "unlock"}

(* The variables have their types; a thread has an id while it calls, and  *)
(* a valid one, a slot of the vector, from the range check on.             *)
TypeOK ==
  /\ streams \in [StreamId -> {"nullptr", "allocated", "initialized"}]
  /\ owner \in [StreamId -> Thread \union {None}]
  /\ pc \in [Thread -> {"idle", "check", "lock", "return"} \union Inside]
  /\ arg \in [Thread -> RequestId \union {None}]
  /\ result \in [Thread -> {"none", "INVALID_STREAM_ID", "ALREADY_IN_USE",
                            "PENDING", "exception"}]
  /\ calls \in 0..MaxCalls
  /\ number \in [Thread -> 0..MaxCalls]
  /\ granted \subseteq [call : 0..MaxCalls, id : StreamId]
  /\ orphans \subseteq StreamId
  /\ \A t \in Thread :
       /\ arg[t] = None <=> pc[t] = "idle"
       /\ pc[t] \in {"lock"} \union Inside => arg[t] \in StreamId

(* Only one thread at a time is between lock and unlock of a slot, and the *)
(* mutex says which; it is free when there is none, even after exceptions. *)
OneThreadPerSlot ==
  /\ \A t \in Thread : pc[t] \in Inside => owner[arg[t]] = t
  /\ \A s \in StreamId :
       owner[s] # None => pc[owner[s]] \in Inside /\ arg[owner[s]] = s

(* However the calls interleave, a stream id is granted once: no two calls *)
(* with the same id both return PENDING.                                   *)
GrantedOnce == \A g, h \in granted : g.id = h.id => g = h

(* A call is turned away as ALREADY_IN_USE only if the id's stream is      *)
(* complete and some call returns PENDING for it, or if Stream::initialize *)
(* threw for that id: a call that failed to allocate does not use up the   *)
(* id, and no call sees another's half-made stream.                        *)
RefusedOnlyIfGranted ==
  \A t \in Thread :
    result[t] = "ALREADY_IN_USE" =>
      \/ /\ streams[arg[t]] = "initialized"
         /\ \E g \in granted : g.id = arg[t]
      \/ arg[t] \in orphans

(* Every call returns: exceptions included, no call leaves a mutex locked  *)
(* behind it (others call finitely often, as MaxCalls has it).             *)
EveryCallReturns == \A t \in Thread : pc[t] = "check" ~> pc[t] = "idle"

(* The table implements the registry.  A stream counts as existing once    *)
(* the thread that makes it is past Initialize; a call is decided where    *)
(* its result is.                                                          *)
Registry == INSTANCE StreamRegistry WITH
  used <- {s \in StreamId :
             /\ streams[s] # "nullptr"
             /\ \A t \in Thread : ~(pc[t] = "initialize" /\ arg[t] = s)},
  phase <- [t \in Thread |->
              IF pc[t] = "idle" THEN "idle"
              ELSE IF pc[t] \in {"unlock", "return"} THEN "decided" ELSE "open"],
  request <- arg,
  reply <- result

(* Whatever the threads do and whichever call throws, callers see calls    *)
(* that are decided one at a time.                                         *)
ImplementsRegistry == Registry!RegistrySpec
=============================================================================
