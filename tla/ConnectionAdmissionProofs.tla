----------------------- MODULE ConnectionAdmissionProofs -----------------------
(***************************************************************************)
(* Theorems of ConnectionAdmission, for any number of threads, any limit   *)
(* and any width of the counter.                                           *)
(***************************************************************************)
EXTENDS ConnectionAdmission, FiniteSetTheorems, TLAPS

(* The ids that are in use or about to be.                                 *)
Drawn == connections \union {local[t] : t \in {u \in Thread : pc[u] = "construct"}}

(* The counter stands where the later draws have taken it from an id.      *)
Follows(r) ==
  draws < r.draw + IdMod - 1 =>
    LET k == draws + 1 - r.draw
    IN  connectionIdCounter = (IF r.id + k < IdMod THEN r.id + k ELSE r.id + k - IdMod)

(* Two draws less than a full turn apart have different ids.               *)
Apart(r, s) == r.draw < s.draw /\ s.draw < r.draw + IdMod => r.id # s.id

IdInv ==
  /\ TypeOK
  /\ \A t \in Thread : pc[t] = "construct" => local[t].draw # 0
  /\ \A r \in Drawn : Follows(r)
  /\ \A r, s \in Drawn : Apart(r, s)

(* Without a race at most one call is past the check, and there is room    *)
(* for its connection.                                                     *)
RoomInv ==
  /\ IsFiniteSet(connections)
  /\ ~raced =>
       \/ InFlight = {} /\ Cardinality(connections) <= maxOutgoingConnections
       \/ /\ \E t \in Thread : InFlight = {t}
          /\ Cardinality(connections) < maxOutgoingConnections

-----------------------------------------------------------------------------
(* Ids.                                                                    *)

LEMMA InitIds == Init => IdInv
  <1>. SUFFICES ASSUME Init PROVE IdInv
    OBVIOUS
  <1>1. 0 \in Id  BY AdmissionAssumption DEF Id
  <1>2. TypeOK
    <2>1. NotDrawn \in [id : Id, draw : 0 .. 0]  BY <1>1 DEF NotDrawn
    <2>2. local \in [Thread -> [id : Id, draw : 0 .. draws]]
      BY <2>1 DEF Init
    <2>3. connections \subseteq [id : Id, draw : 1 .. draws]  BY DEF Init
    <2>4. pc \in [Thread -> {"idle", "check", "draw", "construct"}]  BY DEF Init
    <2>5. calls \in 0 .. MaxCalls /\ draws \in Nat
      <3>1. calls = 0 /\ draws = 0  BY DEF Init
      <3>. QED  BY <3>1, AdmissionAssumption
    <2>7. raced \in BOOLEAN  BY DEF Init
    <2>6. connectionIdCounter \in Id  BY <1>1 DEF Init
    <2>. QED  BY <2>2, <2>3, <2>4, <2>5, <2>6, <2>7 DEF TypeOK
  <1>3. Drawn = {}  BY DEF Init, Drawn
  <1>. QED  BY <1>2, <1>3 DEF Init, IdInv

(* A step that draws nothing and constructs or destroys something.         *)
LEMMA DrawnShrinks ==
  ASSUME IdInv, TypeOK', UNCHANGED <<connectionIdCounter, draws>>,
         Drawn' \subseteq Drawn,
         \A t \in Thread : pc'[t] = "construct" => local'[t].draw # 0
  PROVE  IdInv'
  <1>1. \A r \in Drawn' : Follows(r)'  BY DEF IdInv, Follows
  <1>2. \A r, s \in Drawn' : Apart(r, s)'  BY DEF IdInv, Apart
  <1>. QED  BY <1>1, <1>2 DEF IdInv

(* One more turn of the counter.                                           *)
LEMMA AfterInRange ==
  ASSUME NEW n \in Id PROVE After(n) \in Id
  BY AdmissionAssumption DEF Id, After

LEMMA DrawKeepsIds ==
  ASSUME IdInv, NEW t \in Thread, DrawId(t) PROVE IdInv'
  <1>. PICK new : new = [id |-> connectionIdCounter, draw |-> draws + 1]
    OBVIOUS
  <1>. USE AdmissionAssumption
  <1>1. new \in [id : Id, draw : 1 .. draws + 1] /\ draws \in Nat
    BY DEF IdInv, TypeOK
  <1>2. TypeOK'
    <2>1. connectionIdCounter' \in Id
      BY AfterInRange DEF IdInv, TypeOK, DrawId
    <2>2. connections' \subseteq [id : Id, draw : 1 .. draws']
      BY <1>1 DEF IdInv, TypeOK, DrawId
    <2>3. pc' \in [Thread -> {"idle", "check", "draw", "construct"}]
      BY DEF IdInv, TypeOK, DrawId, Goto
    <2>4. \A u \in Thread : local[u] \in [id : Id, draw : 0 .. draws + 1]
      BY <1>1 DEF IdInv, TypeOK
    <2>5. local' \in [Thread -> [id : Id, draw : 0 .. draws']]
      BY <1>1, <2>4 DEF IdInv, TypeOK, DrawId
    <2>. QED  BY <1>1, <2>1, <2>2, <2>3, <2>5 DEF IdInv, TypeOK, DrawId
  <1>3. Drawn' \subseteq Drawn \union {new}
    BY DEF Drawn, DrawId, Goto, IdInv, TypeOK
  <1>4. \A r \in Drawn : r \in [id : Id, draw : 1 .. draws]
    BY DEF IdInv, TypeOK, Drawn
  <1>5. \A u \in Thread : pc'[u] = "construct" => local'[u].draw # 0
    BY <1>1 DEF IdInv, TypeOK, DrawId, Goto
  <1>6. connectionIdCounter \in Id /\ draws' = draws + 1
        /\ connectionIdCounter' = After(connectionIdCounter)
    BY DEF IdInv, TypeOK, DrawId
  <1>7. ASSUME NEW r \in Drawn PROVE Follows(r)'
    <2>1. r.id \in Id /\ r.draw \in 1 .. draws  BY <1>4
    <2>2. Follows(r)  BY DEF IdInv
    <2>. QED  BY <1>1, <1>6, <2>1, <2>2 DEF Follows, After, Id
  <1>8. Follows(new)'
    BY <1>1, <1>6 DEF Follows, After, Id
  <1>9. ASSUME NEW r \in Drawn PROVE Apart(r, new) /\ Apart(new, r)
    <2>1. r.id \in Id /\ r.draw \in 1 .. draws  BY <1>4
    <2>2. Follows(r)  BY DEF IdInv
    <2>. QED  BY <1>1, <1>6, <2>1, <2>2 DEF Follows, Apart, Id
  <1>10. Apart(new, new)  BY <1>1 DEF Apart
  <1>11. \A r \in Drawn' : Follows(r)'  BY <1>3, <1>7, <1>8
  <1>12. \A r, s \in Drawn' : Apart(r, s)
    BY <1>3, <1>9, <1>10 DEF IdInv
  <1>. QED  BY <1>2, <1>5, <1>11, <1>12 DEF IdInv, Apart

LEMMA StepKeepsIds == IdInv /\ [Next]_admissionVars => IdInv'
  <1>. SUFFICES ASSUME IdInv, [Next]_admissionVars PROVE IdInv'
    OBVIOUS
  <1>1. ASSUME NEW t \in Thread, Call(t) PROVE IdInv'
    <2>1. TypeOK'
      BY <1>1, AdmissionAssumption DEF IdInv, TypeOK, Call, Goto
    <2>2. Drawn' \subseteq Drawn  BY <1>1 DEF Drawn, Call, Goto, IdInv, TypeOK
    <2>. QED  BY <1>1, <2>1, <2>2, DrawnShrinks DEF Call, Goto, IdInv, TypeOK
  <1>2. ASSUME NEW t \in Thread, Check(t) PROVE IdInv'
    <2>1. TypeOK'  BY <1>2 DEF IdInv, TypeOK, Check, Goto
    <2>2. Drawn' \subseteq Drawn  BY <1>2 DEF Drawn, Check, Goto, IdInv, TypeOK
    <2>. QED  BY <1>2, <2>1, <2>2, DrawnShrinks DEF Check, Goto, IdInv, TypeOK
  <1>3. ASSUME NEW t \in Thread, Construct(t) PROVE IdInv'
    <2>1. local[t] \in [id : Id, draw : 1 .. draws]
      BY <1>3 DEF IdInv, TypeOK, Construct, Goto
    <2>2. TypeOK'  BY <1>3, <2>1 DEF IdInv, TypeOK, Construct, Goto
    <2>3. Drawn' \subseteq Drawn
      BY <1>3 DEF Drawn, Construct, Goto, IdInv, TypeOK
    <2>. QED  BY <1>3, <2>2, <2>3, DrawnShrinks DEF Construct, Goto, IdInv, TypeOK
  <1>4. ASSUME NEW c \in connections, Destroy(c) PROVE IdInv'
    <2>1. TypeOK'  BY <1>4 DEF IdInv, TypeOK, Destroy
    <2>2. Drawn' \subseteq Drawn  BY <1>4 DEF Drawn, Destroy
    <2>. QED  BY <1>4, <2>1, <2>2, DrawnShrinks DEF Destroy, IdInv
  <1>5. CASE UNCHANGED admissionVars
    BY <1>5 DEF admissionVars, IdInv, TypeOK, Drawn, Follows, Apart
  <1>. QED  BY <1>1, <1>2, <1>3, <1>4, <1>5, DrawKeepsIds DEF Next

LEMMA IdInvImplies == IdInv => TypeOK /\ IdsRepeatOnlyAfterWrap
  <1>. SUFFICES ASSUME IdInv, NEW c \in connections, NEW d \in connections,
                       c # d, c.id = d.id
                PROVE  c.draw + IdMod <= d.draw \/ d.draw + IdMod <= c.draw
    BY DEF IdInv, IdsRepeatOnlyAfterWrap
  <1>1. c \in [id : Id, draw : 1 .. draws] /\ d \in [id : Id, draw : 1 .. draws]
    BY DEF IdInv, TypeOK
  <1>2. c.draw # d.draw  BY <1>1
  <1>3. Apart(c, d) /\ Apart(d, c)  BY DEF IdInv, Drawn
  <1>. QED  BY <1>1, <1>2, <1>3, AdmissionAssumption DEF Apart, Id, IdInv, TypeOK

LEMMA IdsHold == Spec => []IdInv
  BY InitIds, StepKeepsIds, PTL DEF Spec

(* The variables have their types.                                         *)
THEOREM AdmissionTypeCorrect == Spec => []TypeOK
  BY IdsHold, IdInvImplies, PTL

(* Connections that exist together have different ids, unless the counter  *)
(* went all the way round between the two.                                 *)
THEOREM ConnectionIdsAreUnique == Spec => []IdsRepeatOnlyAfterWrap
  BY IdsHold, IdInvImplies, PTL

-----------------------------------------------------------------------------
(* The limit.                                                              *)

LEMMA InitRoom == Init => RoomInv
  BY AdmissionAssumption, FS_EmptySet DEF Init, RoomInv, InFlight

LEMMA CountIsNat == RoomInv => Cardinality(connections) \in Nat
  BY FS_CardinalityType DEF RoomInv

LEMMA StepKeepsRoom == IdInv /\ RoomInv /\ [Next]_admissionVars => RoomInv'
  <1>. SUFFICES ASSUME IdInv, RoomInv, [Next]_admissionVars PROVE RoomInv'
    OBVIOUS
  <1>. USE AdmissionAssumption
  <1>0. Cardinality(connections) \in Nat /\ pc \in [Thread -> {"idle", "check", "draw", "construct"}]
    BY CountIsNat DEF IdInv, TypeOK
  <1>1. ASSUME NEW t \in Thread, Call(t) PROVE RoomInv'
    <2>1. InFlight' = InFlight  BY <1>0, <1>1 DEF InFlight, Call, Goto
    <2>. QED  BY <1>1, <2>1 DEF RoomInv, Call
  <1>2. ASSUME NEW t \in Thread, Check(t) PROVE RoomInv'
    <2>1. CASE TooMany /\ Goto(t, "check", "idle") /\ UNCHANGED raced
      <3>1. InFlight' = InFlight  BY <1>0, <2>1 DEF InFlight, Goto
      <3>. QED  BY <1>2, <2>1, <3>1 DEF RoomInv, Check
    <2>2. CASE ~TooMany /\ Goto(t, "check", "draw") /\ raced' = (raced \/ InFlight # {})
      <3>1. InFlight' = InFlight \union {t}  BY <1>0, <2>2 DEF InFlight, Goto
      <3>2. ~raced' => Cardinality(connections) < maxOutgoingConnections /\ InFlight' = {t}
        <4>1. ~raced' => ~raced /\ InFlight = {}  BY <2>2
        <4>. QED  BY <1>0, <2>2, <3>1, <4>1 DEF RoomInv, TooMany, numberOutgoingConnections
      <3>. QED  BY <1>2, <3>2 DEF RoomInv, Check
    <2>. QED  BY <1>2, <2>1, <2>2 DEF Check
  <1>3. ASSUME NEW t \in Thread, DrawId(t) PROVE RoomInv'
    <2>1. InFlight' = InFlight  BY <1>0, <1>3 DEF InFlight, DrawId, Goto
    <2>. QED  BY <1>3, <2>1 DEF RoomInv, DrawId
  <1>4. ASSUME NEW t \in Thread, Construct(t) PROVE RoomInv'
    <2>1. t \in InFlight /\ InFlight' = InFlight \ {t}
      BY <1>0, <1>4 DEF InFlight, Construct, Goto
    <2>2. /\ IsFiniteSet(connections')
          /\ Cardinality(connections') \in Nat
          /\ Cardinality(connections') <= Cardinality(connections) + 1
      BY <1>0, <1>4, FS_AddElement DEF RoomInv, Construct
    <2>3. ~raced => InFlight = {t} /\ Cardinality(connections) < maxOutgoingConnections
      BY <2>1 DEF RoomInv
    <2>. QED  BY <1>0, <1>4, <2>1, <2>2, <2>3 DEF RoomInv, Construct
  <1>5. ASSUME NEW c \in connections, Destroy(c) PROVE RoomInv'
    <2>1. InFlight' = InFlight  BY <1>5 DEF InFlight, Destroy
    <2>2. /\ IsFiniteSet(connections')
          /\ Cardinality(connections') \in Nat
          /\ Cardinality(connections') <= Cardinality(connections)
      <3>1. /\ IsFiniteSet(connections \ {c})
            /\ Cardinality(connections \ {c}) = Cardinality(connections) - 1
        BY <1>5, FS_RemoveElement DEF RoomInv
      <3>2. Cardinality(connections \ {c}) \in Nat  BY <3>1, FS_CardinalityType
      <3>. QED  BY <1>0, <1>5, <3>1, <3>2 DEF Destroy
    <2>. QED  BY <1>0, <1>5, <2>1, <2>2 DEF RoomInv, Destroy
  <1>6. CASE UNCHANGED admissionVars
    BY <1>6 DEF admissionVars, RoomInv, InFlight
  <1>. QED  BY <1>1, <1>2, <1>3, <1>4, <1>5, <1>6 DEF Next

LEMMA RoomInvImplies == RoomInv => LimitHoldsUnlessRaced
  BY CountIsNat, AdmissionAssumption
     DEF RoomInv, LimitHoldsUnlessRaced, numberOutgoingConnections

(* As long as calls do not overlap between check and construction, there   *)
(* are never more connections than the limit.                              *)
THEOREM LimitHoldsWithoutRaces == Spec => []LimitHoldsUnlessRaced
  <1>1. Spec => []RoomInv
    BY IdsHold, InitRoom, StepKeepsRoom, PTL DEF Spec
  <1>. QED  BY <1>1, RoomInvImplies, PTL
=============================================================================
