--------------------------- MODULE StreamTableProofs ---------------------------
(***************************************************************************)
(* Proofs about StreamTable: its safety properties, and that it implements *)
(* StreamRegistry, for any number of threads and streams and whichever     *)
(* calls throw.  The inductive invariant joins the mutex (OneThreadPerSlot)*)
(* to the slot: what the thread inside it may assume of the pointer it has *)
(* tested.                                                                 *)
(***************************************************************************)
EXTENDS StreamTable, TLAPS

(* What the thread inside a slot knows of its pointer, and what a grant    *)
(* says of the slot.                                                       *)
SlotsFollow ==
  /\ \A t \in Thread :
       /\ pc[t] = "allocate" => streams[arg[t]] = "nullptr"
       /\ pc[t] = "initialize" => streams[arg[t]] = "allocated"
  /\ \A g \in granted : streams[g.id] = "initialized"
  /\ \A s \in StreamId : streams[s] = "initialized" => \E g \in granted : g.id = s

(* A call has no result before it is decided.                              *)
ResultsFollow ==
  \A t \in Thread : pc[t] \notin {"unlock", "return"} => result[t] = "none"

TableInv ==
  /\ TypeOK /\ OneThreadPerSlot /\ SlotsFollow /\ ResultsFollow /\ GrantedOnce

LEMMA TableInit == Init => TableInv
BY StreamsAssumption
DEF Init, TableInv, TypeOK, OneThreadPerSlot, SlotsFollow, ResultsFollow,
    GrantedOnce, Inside

-----------------------------------------------------------------------------
(* Types.                                                                  *)

LEMMA TypeStep == ASSUME TypeOK, [Next]_tableVars PROVE TypeOK'
<1> USE StreamsAssumption DEF TypeOK, Inside, Goto, ReturnValue
<1>1. ASSUME NEW t \in Thread, Call(t) PROVE TypeOK'
  <2>1. PICK id \in RequestId : arg' = [arg EXCEPT ![t] = id]
    BY <1>1 DEF Call
  <2>2. id # None /\ calls + 1 \in 0..MaxCalls
    BY <1>1 DEF Call
  <2>3. QED
    BY <1>1, <2>1, <2>2 DEF Call
<1>2. ASSUME NEW t \in Thread, CheckRange(t) PROVE TypeOK'
  <2>1. arg[t] \in Nat
    BY <1>2 DEF CheckRange
  <2>2. arg[t] < maxStreams => arg[t] \in StreamId
    BY <2>1 DEF StreamId
  <2>3. CASE pc' = [pc EXCEPT ![t] = "return"]
    BY <1>2, <2>3 DEF CheckRange
  <2>4. CASE pc' = [pc EXCEPT ![t] = "lock"] /\ arg[t] < maxStreams
    BY <1>2, <2>2, <2>4 DEF CheckRange
  <2>5. QED
    BY <1>2, <2>3, <2>4 DEF CheckRange
<1>3. ASSUME NEW t \in Thread, Lock(t) PROVE TypeOK'
  BY <1>3 DEF Lock
<1>4. ASSUME NEW t \in Thread, Test(t) PROVE TypeOK'
  BY <1>4 DEF Test
<1>5. ASSUME NEW t \in Thread, Allocate(t) PROVE TypeOK'
  BY <1>5 DEF Allocate
<1>6. ASSUME NEW t \in Thread, Initialize(t) PROVE TypeOK'
  BY <1>6 DEF Initialize
<1>7. ASSUME NEW t \in Thread, Unlock(t) PROVE TypeOK'
  BY <1>7 DEF Unlock
<1>8. ASSUME NEW t \in Thread, Return(t) PROVE TypeOK'
  BY <1>8 DEF Return
<1>9. CASE UNCHANGED tableVars
  BY <1>9 DEF tableVars
<1>10. QED
  BY <1>1, <1>2, <1>3, <1>4, <1>5, <1>6, <1>7, <1>8, <1>9 DEF Next, createStream

-----------------------------------------------------------------------------
(* The rest of the invariant, action by action.                            *)

LEMMA CallInv == ASSUME TableInv, NEW t \in Thread, Call(t) PROVE TableInv'
<1>1. TypeOK'
  BY TypeStep DEF TableInv, Next, createStream
<1>2. OneThreadPerSlot' /\ SlotsFollow' /\ ResultsFollow' /\ GrantedOnce'
  BY DEF TableInv, TypeOK, OneThreadPerSlot, SlotsFollow, ResultsFollow,
         GrantedOnce, Inside, Goto, ReturnValue, Call
<1>3. QED
  BY <1>1, <1>2 DEF TableInv

LEMMA CheckRangeInv == ASSUME TableInv, NEW t \in Thread, CheckRange(t) PROVE TableInv'
<1>1. TypeOK'
  BY TypeStep DEF TableInv, Next, createStream
<1>2. OneThreadPerSlot' /\ SlotsFollow' /\ ResultsFollow' /\ GrantedOnce'
  BY DEF TableInv, TypeOK, OneThreadPerSlot, SlotsFollow, ResultsFollow,
         GrantedOnce, Inside, Goto, ReturnValue, CheckRange
<1>3. QED
  BY <1>1, <1>2 DEF TableInv

LEMMA LockInv == ASSUME TableInv, NEW t \in Thread, Lock(t) PROVE TableInv'
<1>1. TypeOK'
  BY TypeStep DEF TableInv, Next, createStream
<1>2. OneThreadPerSlot'
  <2>1. /\ pc[t] = "lock" /\ arg[t] \in StreamId /\ owner[arg[t]] = None /\ t # None
        /\ pc' = [pc EXCEPT ![t] = "test"] /\ arg' = arg
        /\ owner' = [owner EXCEPT ![arg[t]] = t]
    BY StreamsAssumption DEF TableInv, TypeOK, Lock, Goto
  <2>2. ASSUME NEW u \in Thread, pc'[u] \in Inside PROVE owner'[arg'[u]] = u
    BY <2>1, <2>2, StreamsAssumption DEF TableInv, TypeOK, OneThreadPerSlot, Inside
  <2>3. ASSUME NEW s \in StreamId, owner'[s] # None
        PROVE  pc'[owner'[s]] \in Inside /\ arg'[owner'[s]] = s
    <3>1. CASE s = arg[t]
      BY <2>1, <3>1 DEF TableInv, TypeOK, Inside
    <3>2. CASE s # arg[t]
      <4>1. owner'[s] = owner[s] /\ owner[s] \in Thread
        BY <2>1, <2>3, <3>2 DEF TableInv, TypeOK
      <4>2. pc[owner[s]] \in Inside /\ arg[owner[s]] = s
        BY <2>3, <4>1 DEF TableInv, OneThreadPerSlot
      <4>3. QED
        BY <2>1, <3>2, <4>1, <4>2 DEF TableInv, TypeOK
    <3>3. QED
      BY <3>1, <3>2
  <2>4. QED
    BY <2>2, <2>3 DEF OneThreadPerSlot
<1>3. SlotsFollow' /\ ResultsFollow' /\ GrantedOnce'
  BY DEF TableInv, TypeOK, SlotsFollow, ResultsFollow, GrantedOnce, Goto, Lock
<1>4. QED
  BY <1>1, <1>2, <1>3 DEF TableInv

LEMMA TestInv == ASSUME TableInv, NEW t \in Thread, Test(t) PROVE TableInv'
<1>1. TypeOK'
  BY TypeStep DEF TableInv, Next, createStream
<1>2. OneThreadPerSlot' /\ SlotsFollow' /\ ResultsFollow' /\ GrantedOnce'
  BY DEF TableInv, TypeOK, OneThreadPerSlot, SlotsFollow, ResultsFollow,
         GrantedOnce, Inside, Goto, ReturnValue, Test
<1>3. QED
  BY <1>1, <1>2 DEF TableInv

LEMMA AllocateInv == ASSUME TableInv, NEW t \in Thread, Allocate(t) PROVE TableInv'
<1>1. TypeOK'
  BY TypeStep DEF TableInv, Next, createStream
<1>2. OneThreadPerSlot' /\ SlotsFollow' /\ ResultsFollow' /\ GrantedOnce'
  BY DEF TableInv, TypeOK, OneThreadPerSlot, SlotsFollow, ResultsFollow,
         GrantedOnce, Inside, Goto, ReturnValue, Allocate
<1>3. QED
  BY <1>1, <1>2 DEF TableInv

(* Two threads inside are inside different slots.                          *)
LEMMA SoleInside ==
  ASSUME TableInv, NEW t \in Thread, NEW u \in Thread,
         pc[t] \in Inside, pc[u] \in Inside, arg[t] = arg[u]
  PROVE  t = u
BY DEF TableInv, OneThreadPerSlot

LEMMA InitializeInv == ASSUME TableInv, NEW t \in Thread, Initialize(t) PROVE TableInv'
<1>1. TypeOK'
  BY TypeStep DEF TableInv, Next, createStream
<1>2. /\ pc[t] = "initialize" /\ arg[t] \in StreamId
      /\ streams[arg[t]] = "allocated"
      /\ pc' = [pc EXCEPT ![t] = "unlock"] /\ arg' = arg /\ owner' = owner
  BY DEF TableInv, TypeOK, SlotsFollow, Initialize, Goto, Inside
<1>3. OneThreadPerSlot' /\ ResultsFollow'
  BY <1>2 DEF TableInv, TypeOK, OneThreadPerSlot, ResultsFollow, Inside,
              ReturnValue, Initialize
<1>4. \A g \in granted : g.id # arg[t]
  BY <1>2 DEF TableInv, SlotsFollow
<1>5. CASE streams' = streams /\ granted' = granted
  <2>1. SlotsFollow' /\ GrantedOnce'
    BY <1>2, <1>5 DEF TableInv, TypeOK, SlotsFollow, GrantedOnce
  <2>2. QED
    BY <1>1, <1>3, <2>1 DEF TableInv
<1>6. CASE /\ streams' = [streams EXCEPT ![arg[t]] = "initialized"]
           /\ granted' = granted \union {[call |-> number[t], id |-> arg[t]]}
  <2>1. GrantedOnce'
    BY <1>4, <1>6 DEF TableInv, GrantedOnce
  <2>2. ASSUME NEW u \in Thread, pc'[u] \in {"allocate", "initialize"}
        PROVE  u # t /\ pc[u] = pc'[u] /\ streams'[arg'[u]] = streams[arg[u]]
    <3>1. u # t /\ pc[u] = pc'[u]
      BY <1>2, <2>2 DEF TableInv, TypeOK
    <3>2. arg[u] # arg[t]
      BY <1>2, <2>2, <3>1, SoleInside DEF Inside
    <3>3. QED
      BY <1>2, <1>6, <3>1, <3>2 DEF TableInv, TypeOK
  <2>3. \A g \in granted' : streams'[g.id] = "initialized"
    BY <1>2, <1>6 DEF TableInv, TypeOK, SlotsFollow
  <2>4. \A s \in StreamId : streams'[s] = "initialized" => \E g \in granted' : g.id = s
    <3> SUFFICES ASSUME NEW s \in StreamId, streams'[s] = "initialized"
                 PROVE  \E g \in granted' : g.id = s
      OBVIOUS
    <3>1. CASE s = arg[t]
      <4>1. [call |-> number[t], id |-> arg[t]] \in granted'
        BY <1>6
      <4>2. [call |-> number[t], id |-> arg[t]].id = s
        BY <3>1
      <4>3. QED
        BY <4>1, <4>2
    <3>2. CASE s # arg[t]
      <4>1. streams[s] = "initialized"
        BY <1>6, <3>2 DEF TableInv, TypeOK
      <4>2. QED
        BY <1>6, <4>1 DEF TableInv, SlotsFollow
    <3>3. QED
      BY <3>1, <3>2
  <2>5. SlotsFollow'
    BY <2>2, <2>3, <2>4 DEF TableInv, SlotsFollow
  <2>6. QED
    BY <1>1, <1>3, <2>1, <2>5 DEF TableInv
<1>7. QED
  BY <1>5, <1>6 DEF Initialize

LEMMA UnlockInv == ASSUME TableInv, NEW t \in Thread, Unlock(t) PROVE TableInv'
<1>1. TypeOK'
  BY TypeStep DEF TableInv, Next, createStream
<1>2. OneThreadPerSlot' /\ SlotsFollow' /\ ResultsFollow' /\ GrantedOnce'
  BY DEF TableInv, TypeOK, OneThreadPerSlot, SlotsFollow, ResultsFollow,
         GrantedOnce, Inside, Goto, ReturnValue, Unlock
<1>3. QED
  BY <1>1, <1>2 DEF TableInv

LEMMA ReturnInv == ASSUME TableInv, NEW t \in Thread, Return(t) PROVE TableInv'
<1>1. TypeOK'
  BY TypeStep DEF TableInv, Next, createStream
<1>2. OneThreadPerSlot' /\ SlotsFollow' /\ ResultsFollow' /\ GrantedOnce'
  BY DEF TableInv, TypeOK, OneThreadPerSlot, SlotsFollow, ResultsFollow,
         GrantedOnce, Inside, Goto, ReturnValue, Return
<1>3. QED
  BY <1>1, <1>2 DEF TableInv

LEMMA TableStep == TableInv /\ [Next]_tableVars => TableInv'
<1>1. CASE UNCHANGED tableVars
  BY <1>1 DEF tableVars, TableInv, TypeOK, OneThreadPerSlot, SlotsFollow,
              ResultsFollow, GrantedOnce
<1>2. QED
  BY <1>1, CallInv, CheckRangeInv, LockInv, TestInv, AllocateInv, InitializeInv,
     UnlockInv, ReturnInv DEF Next, createStream

LEMMA TableInvariant == Spec => []TableInv
BY TableInit, TableStep, PTL DEF Spec

(* The variables keep their types; no thread past the range check has an   *)
(* id without a slot.                                                      *)
THEOREM TableTypeCorrect == Spec => []TypeOK
BY TableInvariant, PTL DEF TableInv

(* The per-slot mutex excludes, and exceptions let go of it.               *)
THEOREM MutualExclusion == Spec => []OneThreadPerSlot
BY TableInvariant, PTL DEF TableInv

(* No two calls with the same id both return PENDING, whatever throws.     *)
THEOREM StreamIdsAreGrantedOnce == Spec => []GrantedOnce
BY TableInvariant, PTL DEF TableInv

-----------------------------------------------------------------------------
(* Refusals.                                                               *)

(* A half-made stream has a thread at work on it or is an orphan, and a    *)
(* refusal is explained by a complete stream or an orphan.                 *)
StreamsExplained ==
  /\ \A s \in StreamId :
       streams[s] = "allocated" =>
         \/ s \in orphans
         \/ \E t \in Thread : pc[t] = "initialize" /\ arg[t] = s
  /\ \A t \in Thread :
       result[t] = "ALREADY_IN_USE" =>
         \/ arg[t] \in orphans
         \/ arg[t] \in StreamId /\ streams[arg[t]] = "initialized"

LEMMA ExplainedStep ==
  ASSUME TableInv, StreamsExplained, [Next]_tableVars PROVE StreamsExplained'
<1> USE DEF TableInv, TypeOK, StreamsExplained, ResultsFollow, Goto, ReturnValue
<1>1. ASSUME NEW t \in Thread, Call(t) PROVE StreamsExplained'
  BY <1>1 DEF Call
<1>2. ASSUME NEW t \in Thread, CheckRange(t) PROVE StreamsExplained'
  BY <1>2 DEF CheckRange
<1>3. ASSUME NEW t \in Thread, Lock(t) PROVE StreamsExplained'
  BY <1>3 DEF Lock
<1>4. ASSUME NEW t \in Thread, Test(t) PROVE StreamsExplained'
  <2>1. pc[t] = "test" /\ arg[t] \in StreamId
    BY <1>4 DEF Test, Inside
  <2>2. streams[arg[t]] = "allocated" => arg[t] \in orphans
    BY <2>1, SoleInside DEF Inside
  <2>3. streams' = streams /\ arg' = arg /\ orphans' = orphans
    BY <1>4 DEF Test
  <2>4. ASSUME NEW s \in StreamId, streams'[s] = "allocated"
        PROVE  \/ s \in orphans'
               \/ \E u \in Thread : pc'[u] = "initialize" /\ arg'[u] = s
    BY <1>4, <2>1, <2>3, <2>4 DEF Test
  <2>5. ASSUME NEW u \in Thread, result'[u] = "ALREADY_IN_USE"
        PROVE  \/ arg'[u] \in orphans'
               \/ arg'[u] \in StreamId /\ streams'[arg'[u]] = "initialized"
    BY <1>4, <2>1, <2>2, <2>3, <2>5 DEF Test
  <2>6. QED
    BY <2>4, <2>5
<1>5. ASSUME NEW t \in Thread, Allocate(t) PROVE StreamsExplained'
  <2>1. /\ pc[t] = "allocate" /\ arg[t] \in StreamId /\ arg' = arg
        /\ streams[arg[t]] = "nullptr" /\ result[t] = "none"
        /\ orphans' = orphans
    BY <1>5 DEF Allocate, Inside, SlotsFollow
  <2>2. CASE /\ pc' = [pc EXCEPT ![t] = "initialize"] /\ result' = result
             /\ streams' = [streams EXCEPT ![arg[t]] = "allocated"]
    BY <2>1, <2>2
  <2>3. CASE /\ pc' = [pc EXCEPT ![t] = "unlock"] /\ streams' = streams
             /\ result' = [result EXCEPT ![t] = "exception"]
    BY <2>1, <2>3
  <2>4. QED
    BY <1>5, <2>2, <2>3 DEF Allocate
<1>6. ASSUME NEW t \in Thread, Initialize(t) PROVE StreamsExplained'
  BY <1>6 DEF Initialize, Inside
<1>7. ASSUME NEW t \in Thread, Unlock(t) PROVE StreamsExplained'
  BY <1>7 DEF Unlock
<1>8. ASSUME NEW t \in Thread, Return(t) PROVE StreamsExplained'
  BY <1>8 DEF Return
<1>9. CASE UNCHANGED tableVars
  BY <1>9 DEF tableVars
<1>10. QED
  BY <1>1, <1>2, <1>3, <1>4, <1>5, <1>6, <1>7, <1>8, <1>9 DEF Next, createStream

(* A call is turned away only for a stream that another call completed, or *)
(* that another call left behind when Stream::initialize threw.            *)
THEOREM RefusalsAreJustified == Spec => []RefusedOnlyIfGranted
<1>1. Init => StreamsExplained
  BY DEF Init, StreamsExplained
<1>2. TableInv /\ StreamsExplained /\ [Next]_tableVars => StreamsExplained'
  BY ExplainedStep
<1>3. TableInv /\ StreamsExplained => RefusedOnlyIfGranted
  BY DEF TableInv, StreamsExplained, SlotsFollow, RefusedOnlyIfGranted
<1>4. QED
  BY <1>1, <1>2, <1>3, TableInvariant, PTL DEF Spec

-----------------------------------------------------------------------------
(* Refinement.                                                             *)

Used == {s \in StreamId :
           /\ streams[s] # "nullptr"
           /\ \A t \in Thread : ~(pc[t] = "initialize" /\ arg[t] = s)}

Phase == [t \in Thread |->
            IF pc[t] = "idle" THEN "idle"
            ELSE IF pc[t] \in {"unlock", "return"} THEN "decided" ELSE "open"]

(* A step that decides t's call, seen from the registry.                   *)
LEMMA Decision ==
  ASSUME NEW t \in Thread,
         NEW value \in {"INVALID_STREAM_ID", "ALREADY_IN_USE", "PENDING", "exception"},
         Phase[t] = "open", Phase' = [Phase EXCEPT ![t] = "decided"],
         result' = [result EXCEPT ![t] = value], arg' = arg,
         \/ value = "INVALID_STREAM_ID" /\ arg[t] >= maxStreams /\ Used' = Used
         \/ value = "ALREADY_IN_USE" /\ arg[t] \in Used /\ Used' = Used
         \/ value = "PENDING" /\ arg[t] < maxStreams /\ arg[t] \notin Used
            /\ Used' = Used \union {arg[t]}
         \/ value = "exception" /\ arg[t] < maxStreams /\ arg[t] \notin Used
            /\ (Used' = Used \/ Used' = Used \union {arg[t]})
  PROVE  Registry!RegistryNext
<1>1. Registry!Outcome(arg[t], value)
  BY DEF Registry!Outcome, Used
<1>2. Registry!Decide(t)
  BY <1>1 DEF Registry!Decide, Phase
<1>3. QED
  BY <1>2 DEF Registry!RegistryNext

(* A step inside the call that decides nothing.                            *)
LEMMA Stutter ==
  ASSUME Used' = Used, Phase' = Phase, arg' = arg, result' = result
  PROVE  UNCHANGED Registry!registryVars
BY DEF Registry!registryVars, Used, Phase

(* How the phase of a call follows its program counter.                    *)
LEMMA PhaseFollows ==
  ASSUME TypeOK, NEW t \in Thread, NEW from, NEW to, Goto(t, from, to)
  PROVE  /\ from \in {"check", "lock", "test", "allocate", "initialize"}
              => Phase[t] = "open"
         /\ Phase' = [Phase EXCEPT ![t] =
                        IF to = "idle" THEN "idle"
                        ELSE IF to \in {"unlock", "return"} THEN "decided" ELSE "open"]
BY DEF TypeOK, Goto, Phase

LEMMA UsedUnchanged ==
  ASSUME TypeOK, NEW t \in Thread, NEW from, NEW to, Goto(t, from, to),
         from # "initialize", to # "initialize",
         streams' = streams, arg' = arg
  PROVE  Used' = Used
BY DEF TypeOK, Goto, Used

LEMMA RegistryStep ==
  ASSUME TableInv, [Next]_tableVars
  PROVE  [Registry!RegistryNext]_(Registry!registryVars)
<1> USE DEF TableInv
<1>1. ASSUME NEW t \in Thread, Call(t)
      PROVE  Registry!RegistryNext
  <2>1. PICK id \in RequestId : arg' = [arg EXCEPT ![t] = id]
    BY <1>1 DEF Call
  <2>2. Phase[t] = "idle" /\ Phase' = [Phase EXCEPT ![t] = "open"]
    BY <1>1 DEF Call, Goto, Phase, TypeOK
  <2>3. Used' = Used
    BY <1>1 DEF Call, Goto, Used, TypeOK
  <2>4. Registry!Request(t, id)
    BY <1>1, <2>1, <2>2, <2>3 DEF Call, Registry!Request, Phase, Used
  <2>5. QED
    BY <2>4 DEF Registry!RegistryNext
<1>2. ASSUME NEW t \in Thread, CheckRange(t)
      PROVE  [Registry!RegistryNext]_(Registry!registryVars)
  <2>1. CASE /\ Goto(t, "check", "return") /\ arg[t] >= maxStreams
             /\ ReturnValue(t, "INVALID_STREAM_ID")
    <3>1. Used' = Used
      BY <1>2, <2>1, UsedUnchanged DEF CheckRange
    <3>2. Phase[t] = "open" /\ Phase' = [Phase EXCEPT ![t] = "decided"]
      BY <2>1, PhaseFollows
    <3>3. QED
      BY <1>2, <2>1, <3>1, <3>2, Decision DEF CheckRange, ReturnValue
  <2>2. CASE Goto(t, "check", "lock") /\ result' = result
    <3>1. Used' = Used
      BY <1>2, <2>2, UsedUnchanged DEF CheckRange
    <3>2. Phase' = Phase
      BY <2>2 DEF Goto, Phase, TypeOK
    <3>3. QED
      BY <1>2, <2>2, <3>1, <3>2, Stutter DEF CheckRange
  <2>3. QED
    BY <1>2, <2>1, <2>2 DEF CheckRange
<1>3. ASSUME NEW t \in Thread, Lock(t)
      PROVE  UNCHANGED Registry!registryVars
  <2>1. Used' = Used
    BY <1>3, UsedUnchanged DEF Lock
  <2>2. Phase' = Phase
    BY <1>3 DEF Lock, Goto, Phase, TypeOK
  <2>3. QED
    BY <1>3, <2>1, <2>2, Stutter DEF Lock
<1>4. ASSUME NEW t \in Thread, Test(t)
      PROVE  [Registry!RegistryNext]_(Registry!registryVars)
  <2>0. pc[t] = "test" /\ arg[t] \in StreamId
    BY <1>4 DEF Test, Goto, TypeOK, Inside
  <2>1. CASE /\ Goto(t, "test", "unlock") /\ streams[arg[t]] # "nullptr"
             /\ ReturnValue(t, "ALREADY_IN_USE")
    <3>1. Used' = Used
      BY <1>4, <2>1, UsedUnchanged DEF Test
    <3>2. Phase[t] = "open" /\ Phase' = [Phase EXCEPT ![t] = "decided"]
      BY <2>1, PhaseFollows
    <3>3. arg[t] \in Used
      BY <2>0, <2>1, SoleInside DEF Used, Inside
    <3>4. QED
      BY <1>4, <2>1, <3>1, <3>2, <3>3, Decision DEF Test, ReturnValue
  <2>2. CASE Goto(t, "test", "allocate") /\ result' = result
    <3>1. Used' = Used
      BY <1>4, <2>2, UsedUnchanged DEF Test
    <3>2. Phase' = Phase
      BY <2>2 DEF Goto, Phase, TypeOK
    <3>3. QED
      BY <1>4, <2>2, <3>1, <3>2, Stutter DEF Test
  <2>3. QED
    BY <1>4, <2>1, <2>2 DEF Test
<1>5. ASSUME NEW t \in Thread, Allocate(t)
      PROVE  [Registry!RegistryNext]_(Registry!registryVars)
  <2>0. /\ pc[t] = "allocate" /\ arg[t] \in StreamId
        /\ arg[t] < maxStreams /\ arg[t] \notin Used
    BY <1>5, StreamsAssumption
    DEF Allocate, Goto, TypeOK, Inside, SlotsFollow, Used, StreamId
  <2>1. CASE /\ Goto(t, "allocate", "initialize")
             /\ streams' = [streams EXCEPT ![arg[t]] = "allocated"]
             /\ result' = result
    <3>1. Used' = Used
      BY <1>5, <2>0, <2>1 DEF Allocate, Goto, TypeOK, Used
    <3>2. Phase' = Phase
      BY <2>1 DEF Goto, Phase, TypeOK
    <3>3. QED
      BY <1>5, <2>1, <3>1, <3>2, Stutter DEF Allocate
  <2>2. CASE /\ Goto(t, "allocate", "unlock") /\ streams' = streams
             /\ ReturnValue(t, "exception")
    <3>1. Used' = Used
      BY <1>5, <2>2, UsedUnchanged DEF Allocate
    <3>2. Phase[t] = "open" /\ Phase' = [Phase EXCEPT ![t] = "decided"]
      BY <2>2, PhaseFollows
    <3>3. QED
      BY <1>5, <2>0, <2>2, <3>1, <3>2, Decision DEF Allocate, ReturnValue
  <2>3. QED
    BY <1>5, <2>1, <2>2 DEF Allocate
<1>6. ASSUME NEW t \in Thread, Initialize(t)
      PROVE  Registry!RegistryNext
  <2>1. /\ pc[t] = "initialize" /\ arg[t] \in StreamId /\ arg' = arg
        /\ Goto(t, "initialize", "unlock")
        /\ streams[arg[t]] # "nullptr" /\ streams'[arg[t]] # "nullptr"
        /\ \A s \in StreamId \ {arg[t]} : streams'[s] = streams[s]
    BY <1>6 DEF Initialize, Goto, TypeOK, Inside, SlotsFollow
  <2>2. \A u \in Thread \ {t} : ~(pc[u] = "initialize" /\ arg[u] = arg[t])
    BY <2>1, SoleInside DEF Inside
  <2>3. arg[t] < maxStreams /\ arg[t] \notin Used
    BY <2>1, StreamsAssumption DEF Used, StreamId
  <2>4. Used' = Used \union {arg[t]}
    BY <2>1, <2>2 DEF Used, Goto, TypeOK
  <2>5. Phase[t] = "open" /\ Phase' = [Phase EXCEPT ![t] = "decided"]
    BY <2>1, PhaseFollows
  <2>6. QED
    BY <1>6, <2>1, <2>3, <2>4, <2>5, Decision DEF Initialize, ReturnValue
<1>7. ASSUME NEW t \in Thread, Unlock(t)
      PROVE  UNCHANGED Registry!registryVars
  <2>1. Used' = Used
    BY <1>7, UsedUnchanged DEF Unlock
  <2>2. Phase' = Phase
    BY <1>7 DEF Unlock, Goto, Phase, TypeOK
  <2>3. QED
    BY <1>7, <2>1, <2>2, Stutter DEF Unlock
<1>8. ASSUME NEW t \in Thread, Return(t)
      PROVE  Registry!RegistryNext
  <2>1. Phase[t] = "decided" /\ Phase' = [Phase EXCEPT ![t] = "idle"]
    BY <1>8 DEF Return, Goto, Phase, TypeOK
  <2>2. Used' = Used
    BY <1>8 DEF Return, Goto, Used, TypeOK
  <2>3. Registry!Reply(t)
    BY <1>8, <2>1, <2>2 DEF Return, Registry!Reply, Phase, Used
  <2>4. QED
    BY <2>3 DEF Registry!RegistryNext
<1>9. CASE UNCHANGED tableVars
  BY <1>9 DEF tableVars, Registry!registryVars
<1>10. QED
  BY <1>1, <1>2, <1>3, <1>4, <1>5, <1>6, <1>7, <1>8, <1>9 DEF Next, createStream

(* The table of slots with a mutex each implements the registry that       *)
(* decides every call in one step.                                         *)
THEOREM TableImplementsRegistry == Spec => ImplementsRegistry
<1>1. Init => Registry!RegistryInit
  BY DEF Init, Registry!RegistryInit
<1>2. QED
  BY <1>1, RegistryStep, TableInvariant, PTL
  DEF Spec, ImplementsRegistry, Registry!RegistrySpec
=============================================================================
