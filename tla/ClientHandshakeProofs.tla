------------------------- MODULE ClientHandshakeProofs -------------------------
(***************************************************************************)
(* Proofs about ClientHandshake, for all messages, configurations and      *)
(* limits.  The reader's checks work on a size_t difference, so they mean  *)
(* what they say only while the position is inside the message: the bound  *)
(* is its own induction hypothesis (EnsureMeaning).  The choice of a group *)
(* rests on ephemeralGroupRank giving the first place of a group.          *)
(*                                                                         *)
(* That the header decides rests on FollowsHeader: behind each list the    *)
(* reader stands where the documented header has the next one.             *)
(***************************************************************************)
EXTENDS ClientHandshake, RecursionLemmas

HandshakeInv == TypeOK /\ AccessesInBounds /\ BestCommonGroup

(* What a caller may conclude from the place and the result; inductive     *)
(* once the choice is made only behind the ciphers.                        *)
ResultsFollow ==
  /\ pc # "done" => result = "none"
  /\ pc \in {"keyCount", "keys"} => numCipherSuites # 0
  /\ pc \in {"versions", "ciphers", "keyCount"} => choosenKeyGroup = Unset
  /\ InsecureOnlyIfAllowed

-----------------------------------------------------------------------------
(* Lemmas about the operators.                                             *)

(* ephemeralGroupRank is the first place of a group in the server's list,  *)
(* or -1 if the list does not have it.                                     *)
LEMMA RankIsFirstPlace ==
  ASSUME TypeOK, NEW group,
         NEW rank, rank = ephemeralGroupRank(group)
  PROVE  \/ /\ rank = -1
            /\ \A n \in DOMAIN supportedEphemeralGroups :
                 supportedEphemeralGroups[n] # group
         \/ /\ rank \in 0 .. Len(supportedEphemeralGroups) - 1
            /\ supportedEphemeralGroups[rank + 1] = group
            /\ \A n \in 1 .. rank : supportedEphemeralGroups[n] # group
<1>1. supportedEphemeralGroups \in Seq(EphemeralKeyGroup)
  BY HandshakeAssumption DEF TypeOK
<1>2. CASE Places(group) = {}
  <2>1. rank = -1
    BY <1>2 DEF ephemeralGroupRank
  <2>2. ASSUME NEW n \in DOMAIN supportedEphemeralGroups,
               supportedEphemeralGroups[n] = group
        PROVE  FALSE
    <3>1. n - 1 \in 0 .. Len(supportedEphemeralGroups) - 1 /\ (n - 1) + 1 = n
      BY <1>1
    <3>2. n - 1 \in Places(group)
      BY <2>2, <3>1 DEF Places
    <3>3. QED
      BY <1>2, <3>2
  <2>3. QED
    BY <2>1, <2>2
<1>3. CASE Places(group) # {}
  <2>1. Places(group) \subseteq Nat
    BY <1>1 DEF Places
  <2>2. \E n \in Places(group) : \A m \in Places(group) : n <= m
    BY <1>3, <2>1, LeastNumber
  <2>3. /\ FirstPlace(group) \in Places(group)
        /\ \A m \in Places(group) : FirstPlace(group) <= m
    BY <2>2 DEF FirstPlace
  <2>4. rank = FirstPlace(group)
    BY <1>3 DEF ephemeralGroupRank
  <2>5. /\ rank \in 0 .. Len(supportedEphemeralGroups) - 1
        /\ supportedEphemeralGroups[rank + 1] = group
    BY <2>3, <2>4 DEF Places
  <2>6. ASSUME NEW n \in 1 .. rank, supportedEphemeralGroups[n] = group
        PROVE  FALSE
    <3>1. n - 1 \in 0 .. Len(supportedEphemeralGroups) - 1 /\ (n - 1) + 1 = n
      BY <1>1, <2>5
    <3>2. n - 1 \in Places(group)
      BY <2>6, <3>1 DEF Places
    <3>3. QED
      BY <2>3, <2>4, <2>5, <3>2
  <2>7. QED
    BY <2>5, <2>6
<1>4. QED
  BY <1>2, <1>3

(* Inside the message the check is exact; the difference does not wrap.    *)
LEMMA EnsureMeaning ==
  ASSUME TypeOK, NEW at \in Nat, at <= Len(data), NEW numBytes \in Nat
  PROVE  ensureReadableBytes(at, numBytes) <=> at + numBytes <= Len(data)
<1>1. Len(data) \in Nat /\ Len(data) < SizeMod /\ SizeMod \in Nat
  BY HandshakeAssumption DEF TypeOK
<1>2. (Len(data) - at) % SizeMod = Len(data) - at
  BY <1>1
<1>3. QED
  BY <1>1, <1>2 DEF ensureReadableBytes

LEMMA EnsureIsBound ==
  ASSUME TypeOK, NEW at \in Nat, at <= Len(data),
         NEW numBytes \in Nat, ensureReadableBytes(at, numBytes)
  PROVE  at + numBytes <= Len(data)
BY EnsureMeaning

LEMMA ReadsAreBytes ==
  ASSUME TypeOK, NEW at \in Nat
  PROVE  UInt8(at) \in Byte /\ UInt8(at) \in Nat /\ UInt16(at) \in Nat
<1>1. ASSUME NEW j PROVE UInt8(j) \in Byte
  BY HandshakeAssumption DEF TypeOK, UInt8, Byte
<1>2. QED
  BY <1>1, HandshakeAssumption DEF UInt16, Byte

(* The check in front of a list leaves room for its count and elements.    *)
LEMMA ListFits ==
  ASSUME TypeOK, AccessesInBounds, NEW size \in Nat, ListIsReadable(size)
  PROVE  /\ readIndex + 1 <= Len(data)
         /\ readIndex + 1 + size * UInt8(readIndex) <= Len(data)
<1>1. readIndex \in Nat /\ readIndex <= Len(data) /\ UInt8(readIndex) \in Nat
  BY ReadsAreBytes DEF TypeOK, AccessesInBounds
<1>2. readIndex + 1 <= Len(data)
  BY <1>1, EnsureIsBound DEF ListIsReadable
<1>3. size * UInt8(readIndex) \in Nat
  BY <1>1
<1>4. readIndex + 1 \in Nat
  BY <1>1
<1>5. QED
  BY <1>2, <1>3, <1>4, EnsureIsBound DEF ListIsReadable

-----------------------------------------------------------------------------
(* The inductive invariant.                                                *)

LEMMA HandshakeInit == Init => HandshakeInv
BY HandshakeAssumption
DEF Init, Called, HandshakeInv, TypeOK, AccessesInBounds, BestCommonGroup, Byte, Unset

(* Early returns change the place and the result only.                     *)
LEMMA EarlyReturnInv ==
  ASSUME HandshakeInv, NEW value,
         value \in {"ILL_FORMED_HANDSHAKE", "rejected", "completed"},
         ReturnEarly(value)
  PROVE  HandshakeInv'
BY DEF HandshakeInv, TypeOK, AccessesInBounds, BestCommonGroup, ReturnEarly,
       Return, configVars, headerVars, keyVars

LEMMA VersionsInv == ASSUME HandshakeInv, ReadVersions PROVE HandshakeInv'
<1>1. CASE ReturnEarly("ILL_FORMED_HANDSHAKE")
  BY <1>1, EarlyReturnInv
<1>2. CASE ListIsReadable(1) /\ ~ReturnEarly("ILL_FORMED_HANDSHAKE")
  <2> USE DEF HandshakeInv
  <2>0. readIndex \in Nat /\ UInt8(readIndex) \in Nat
    BY ReadsAreBytes DEF TypeOK
  <2>1. readIndex + 1 + UInt8(readIndex) <= Len(data)
    <3>1. readIndex + 1 + 1 * UInt8(readIndex) <= Len(data)
      BY <1>2, ListFits
    <3>2. 1 * UInt8(readIndex) = UInt8(readIndex)
      BY <2>0
    <3>3. QED
      BY <3>1, <3>2
  <2>2. /\ readIndex' = readIndex + 1 + UInt8(readIndex) /\ pc' = "ciphers"
        /\ UNCHANGED <<configVars, result, headerVars, numClientEphemeralKeys, keyVars>>
    BY <1>2 DEF ReadVersions
  <2>3. TypeOK'
    BY <2>0, <2>2 DEF TypeOK, configVars, headerVars, keyVars
  <2>4. AccessesInBounds' /\ BestCommonGroup'
    BY <2>1, <2>2 DEF AccessesInBounds, BestCommonGroup, configVars, keyVars
  <2>5. QED
    BY <2>3, <2>4
<1>3. QED
  BY <1>1, <1>2 DEF ReadVersions

LEMMA CiphersInv == ASSUME HandshakeInv, NegotiateCiphers PROVE HandshakeInv'
<1>1. CASE ReturnEarly("ILL_FORMED_HANDSHAKE")
  BY <1>1, EarlyReturnInv
<1>2. CASE ListIsReadable(2) /\ ~ReturnEarly("ILL_FORMED_HANDSHAKE")
  <2> USE DEF HandshakeInv
  <2>1. readIndex + 1 <= Len(data) /\ UInt8(readIndex) \in Byte
    BY <1>2, ListFits, ReadsAreBytes DEF TypeOK
  <2>2. /\ readIndex' = readIndex + 1 /\ numCipherSuites' = UInt8(readIndex)
        /\ cipherSuitesNegotiated' \subseteq CipherSuite
        /\ AfterCiphers
        /\ UNCHANGED <<configVars, numClientEphemeralKeys, keyVars>>
    BY <1>2 DEF NegotiateCiphers, idToCipherSuite
  <2>3. /\ pc' \in {"keyCount", "done"}
        /\ result' \in {result, "completed", "SECURE_CONNECTION_REQUIRED"}
    BY <2>2 DEF AfterCiphers, Return
  <2>4. TypeOK'
    BY <2>1, <2>2, <2>3 DEF TypeOK, configVars, keyVars
  <2>5. AccessesInBounds' /\ BestCommonGroup'
    BY <2>1, <2>2 DEF AccessesInBounds, BestCommonGroup, configVars, keyVars
  <2>6. QED
    BY <2>4, <2>5
<1>3. QED
  BY <1>1, <1>2 DEF NegotiateCiphers

LEMMA KeyCountInv == ASSUME HandshakeInv, ReadKeyCount PROVE HandshakeInv'
<1>1. CASE ReturnEarly("rejected")
  BY <1>1, EarlyReturnInv
<1>2. CASE KeyCountInBound /\ ~ReturnEarly("rejected")
  <2> USE DEF HandshakeInv
  <2>1. readIndex + 1 <= Len(data) /\ UInt8(readIndex) \in Byte
    BY <1>2, EnsureIsBound, ReadsAreBytes DEF TypeOK, AccessesInBounds, KeyCountInBound
  <2>2. /\ readIndex' = readIndex + 1 /\ numClientEphemeralKeys' = UInt8(readIndex)
        /\ pc' = "keys"
        /\ UNCHANGED <<configVars, result, headerVars, keyVars>>
    BY <1>2 DEF ReadKeyCount
  <2>3. TypeOK'
    BY <2>1, <2>2 DEF TypeOK, configVars, headerVars, keyVars
  <2>4. QED
    BY <2>1, <2>2, <2>3 DEF AccessesInBounds, BestCommonGroup, configVars, keyVars
<1>3. QED
  BY <1>1, <1>2 DEF ReadKeyCount

(* The array after a key has been copied into it.                          *)
LEMMA CopiedKeyFits ==
  ASSUME HandshakeInv, NEW at \in Nat, NEW length \in Nat,
         length <= MAX_EPHEMERAL_KEY_VALUE_LENGTH, ReadToArray(at, length)
  PROVE  /\ ephemeralKey' \in Seq(Byte)
         /\ Len(ephemeralKey') <= MAX_EPHEMERAL_KEY_VALUE_LENGTH
<1> DEFINE size == IF length > Len(ephemeralKey) THEN length ELSE Len(ephemeralKey)
<1>1. /\ ephemeralKey \in Seq(Byte) /\ Len(ephemeralKey) \in Nat
      /\ Len(ephemeralKey) <= MAX_EPHEMERAL_KEY_VALUE_LENGTH
  BY DEF HandshakeInv, TypeOK, AccessesInBounds
<1>2. size \in Nat /\ size <= MAX_EPHEMERAL_KEY_VALUE_LENGTH
  BY <1>1
<1>3. ASSUME NEW n \in 1 .. size
      PROVE  (IF n <= length THEN UInt8(at + n - 1) ELSE ephemeralKey[n]) \in Byte
  <2>1. CASE n <= length
    <3>1. at + n - 1 \in Nat
      BY <1>2
    <3>2. QED
      BY <2>1, <3>1, ReadsAreBytes DEF HandshakeInv
  <2>2. CASE ~ (n <= length)
    BY <1>1, <1>2, <2>2
  <2>3. QED
    BY <2>1, <2>2
<1>4. ephemeralKey' = [n \in 1 .. size |->
                         IF n <= length THEN UInt8(at + n - 1) ELSE ephemeralKey[n]]
  BY DEF ReadToArray
<1> HIDE DEF size
<1>5. ephemeralKey' \in [1 .. size -> Byte]
  BY <1>3, <1>4
<1>6. ephemeralKey' \in Seq(Byte) /\ Len(ephemeralKey') = size
  BY <1>2, <1>5
<1>7. QED
  BY <1>2, <1>6

(* One more key: the better of it and the choice so far is the best.       *)
LEMMA ConsiderKeepsBest ==
  ASSUME HandshakeInv, NEW type \in Byte, Consider(type),
         offered' = offered \union {type}, UNCHANGED configVars
  PROVE  /\ BestCommonGroup'
         /\ keyGroupRank' \in -1 .. Len(supportedEphemeralGroups) - 1
         /\ choosenKeyGroup' \in EphemeralKeyGroup \union {Unset}
<1> DEFINE groups == supportedEphemeralGroups
           rank == ephemeralGroupRank(type)
<1>0. /\ groups' = groups /\ groups \in Seq(EphemeralKeyGroup)
      /\ keyGroupRank \in -1 .. Len(groups) - 1
      /\ choosenKeyGroup \in EphemeralKeyGroup \union {Unset}
  BY HandshakeAssumption DEF HandshakeInv, TypeOK, configVars
<1>1. \/ /\ rank = -1
         /\ \A n \in DOMAIN groups : groups[n] # type
      \/ /\ rank \in 0 .. Len(groups) - 1
         /\ groups[rank + 1] = type
         /\ \A n \in 1 .. rank : groups[n] # type
  BY RankIsFirstPlace DEF HandshakeInv
<1>2. type \notin EphemeralKeyGroup => \A n \in DOMAIN groups : groups[n] # type
  BY <1>0
<1> HIDE DEF rank
<1>3. CASE IsBetter(type)
  <2>1. /\ type \in EphemeralKeyGroup /\ rank # -1
        /\ keyGroupRank = -1 \/ rank < keyGroupRank
        /\ keyGroupRank' = rank /\ choosenKeyGroup' = type
    BY <1>3 DEF IsBetter, getEphemeralKeyGroup, Consider, rank
  <2>2. /\ rank \in 0 .. Len(groups) - 1 /\ groups[rank + 1] = type
        /\ \A n \in 1 .. rank : groups[n] # type
    BY <1>1, <2>1
  <2>3. \A n \in 1 .. rank : groups[n] \notin offered
    BY <1>0, <2>1, <2>2 DEF HandshakeInv, BestCommonGroup
  <2>4. QED
    BY <1>0, <2>1, <2>2, <2>3 DEF BestCommonGroup
<1>4. CASE ~IsBetter(type)
  <2>1. /\ keyGroupRank' = keyGroupRank /\ choosenKeyGroup' = choosenKeyGroup
        /\ \/ type \notin EphemeralKeyGroup \/ rank = -1
           \/ keyGroupRank # -1 /\ ~ (rank < keyGroupRank)
    BY <1>4 DEF IsBetter, getEphemeralKeyGroup, Consider, rank
  <2>2. CASE keyGroupRank = -1
    <3>1. \A n \in DOMAIN groups : groups[n] # type
      BY <1>1, <1>2, <2>1, <2>2
    <3>2. QED
      BY <1>0, <2>1, <2>2, <3>1 DEF HandshakeInv, BestCommonGroup
  <2>3. CASE keyGroupRank # -1
    <3>1. \A n \in 1 .. keyGroupRank : groups[n] # type
      BY <1>0, <1>1, <1>2, <2>1, <2>3
    <3>2. QED
      BY <1>0, <2>1, <2>3, <3>1 DEF HandshakeInv, BestCommonGroup
  <2>4. QED
    BY <2>2, <2>3
<1>5. QED
  BY <1>3, <1>4

LEMMA KeyInv == ASSUME HandshakeInv, ReadKey PROVE HandshakeInv'
<1> DEFINE type == UInt8(readIndex)
           length == UInt16(readIndex + 1)
<1>1. CASE ReturnEarly("rejected")
  BY <1>1, EarlyReturnInv
<1>2. CASE KeyIsReadable(length) /\ ~ReturnEarly("rejected")
  <2>0. /\ readIndex \in Nat /\ readIndex + 1 \in Nat
        /\ readIndex <= Len(data) /\ TypeOK
    BY DEF HandshakeInv, TypeOK, AccessesInBounds
  <2>1. /\ readIndex \in Nat /\ readIndex <= Len(data)
        /\ type \in Byte /\ length \in Nat
    BY <2>0, ReadsAreBytes
  <2>2. readIndex + 3 <= Len(data)
    BY <1>2, <2>1, EnsureIsBound DEF HandshakeInv, KeyIsReadable
  <2>3. readIndex + 3 \in Nat
    BY <2>1
  <2>4. /\ length <= MAX_EPHEMERAL_KEY_VALUE_LENGTH
        /\ readIndex + 3 + length <= Len(data)
    BY <1>2, <2>1, <2>2, <2>3, EnsureIsBound DEF HandshakeInv, KeyIsReadable
  <2>5. /\ readIndex' = readIndex + 3 + length
        /\ ReadToArray(readIndex + 3, length) /\ Consider(type)
        /\ offered' = offered \union {type} /\ i' = i + 1
        /\ i < numClientEphemeralKeys
        /\ UNCHANGED <<configVars, pc, result, headerVars, numClientEphemeralKeys>>
    BY <1>2 DEF ReadKey
  <2> HIDE DEF type, length
  <2>6. /\ ephemeralKey' \in Seq(Byte)
        /\ Len(ephemeralKey') <= MAX_EPHEMERAL_KEY_VALUE_LENGTH
    BY <2>1, <2>3, <2>4, <2>5, CopiedKeyFits
  <2>7. /\ BestCommonGroup'
        /\ keyGroupRank' \in -1 .. Len(supportedEphemeralGroups) - 1
        /\ choosenKeyGroup' \in EphemeralKeyGroup \union {Unset}
    BY <2>1, <2>5, ConsiderKeepsBest
  <2>8. i' \in Byte
    BY <2>5, HandshakeAssumption DEF HandshakeInv, TypeOK, Byte
  <2>9. TypeOK'
    BY <2>1, <2>5, <2>6, <2>7, <2>8 DEF HandshakeInv, TypeOK, configVars, headerVars
  <2>10. AccessesInBounds'
    BY <2>4, <2>5, <2>6 DEF AccessesInBounds, configVars
  <2>11. QED
    BY <2>7, <2>9, <2>10 DEF HandshakeInv
<1>3. QED
  BY <1>1, <1>2 DEF ReadKey

LEMMA HandshakeStep == ASSUME HandshakeInv, [Next]_handshakeVars PROVE HandshakeInv'
<1>1. CASE ReadVersions
  BY <1>1, VersionsInv
<1>2. CASE NegotiateCiphers
  BY <1>2, CiphersInv
<1>3. CASE ReadKeyCount
  BY <1>3, KeyCountInv
<1>4. CASE ReadKey
  BY <1>4, KeyInv
<1>5. CASE FinishKeys
  BY <1>5, EarlyReturnInv DEF FinishKeys
<1>6. CASE UNCHANGED handshakeVars
  BY <1>6 DEF HandshakeInv, TypeOK, AccessesInBounds, BestCommonGroup,
              handshakeVars, configVars, headerVars, keyVars
<1>7. QED
  BY <1>1, <1>2, <1>3, <1>4, <1>5, <1>6 DEF Next, Returned

LEMMA HandshakeInvariant == Spec => []HandshakeInv
<1>1. QED
  BY HandshakeInit, HandshakeStep, PTL DEF Spec

-----------------------------------------------------------------------------
(* The theorems.                                                           *)

(* acceptClientHandshake keeps its variables in their types.               *)
THEOREM HandshakeTypeCorrect == Spec => []TypeOK
<1>1. HandshakeInv => TypeOK
  BY DEF HandshakeInv
<1>2. QED
  BY <1>1, HandshakeInvariant, PTL

(* No message makes the reader of acceptClientHandshake pass its end, and  *)
(* no key overruns the array it is copied to.                              *)
THEOREM HandshakeStaysInBounds == Spec => []AccessesInBounds
<1>1. HandshakeInv => AccessesInBounds
  BY DEF HandshakeInv
<1>2. QED
  BY <1>1, HandshakeInvariant, PTL

(* acceptClientHandshake chooses the first group of the server's list that *)
(* any of the client's keys has, in whatever order the keys come.          *)
THEOREM BestGroupIsChosen == Spec => []BestCommonGroup
<1>1. HandshakeInv => BestCommonGroup
  BY DEF HandshakeInv
<1>2. QED
  BY <1>1, HandshakeInvariant, PTL

LEMMA ResultsInit == Init => ResultsFollow
BY DEF Init, Called, ResultsFollow, InsecureOnlyIfAllowed

(* A rank is set exactly where a group is.                                 *)
LEMMA RankAndGroup ==
  ASSUME HandshakeInv PROVE keyGroupRank # -1 => choosenKeyGroup # Unset
BY HandshakeAssumption DEF HandshakeInv, TypeOK, BestCommonGroup, Byte, Unset

LEMMA ResultsStep ==
  ASSUME HandshakeInv, ResultsFollow, [Next]_handshakeVars PROVE ResultsFollow'
<1> USE DEF ResultsFollow, InsecureOnlyIfAllowed, configVars, headerVars, keyVars,
            Return, ReturnEarly
<1>1. CASE ReadVersions
  BY <1>1 DEF ReadVersions
<1>2. CASE NegotiateCiphers
  BY <1>2 DEF NegotiateCiphers, AfterCiphers
<1>3. CASE ReadKeyCount
  BY <1>3 DEF ReadKeyCount
<1>4. CASE ReadKey
  BY <1>4 DEF ReadKey
<1>5. CASE FinishKeys
  BY <1>5, RankAndGroup DEF FinishKeys
<1>6. CASE UNCHANGED handshakeVars
  BY <1>6 DEF handshakeVars
<1>7. QED
  BY <1>1, <1>2, <1>3, <1>4, <1>5, <1>6 DEF Next, Returned

(* acceptClientHandshake runs to its end without a common key group only   *)
(* for a client that asked for an insecure connection where those are      *)
(* allowed.                                                                *)
THEOREM SecureUnlessAllowed == Spec => []InsecureOnlyIfAllowed
<1>1. ResultsFollow => InsecureOnlyIfAllowed
  BY DEF ResultsFollow
<1>2. QED
  BY <1>1, HandshakeInvariant, ResultsInit, ResultsStep, PTL DEF Spec

-----------------------------------------------------------------------------
(* The header.  Behind each list the reader stands at the place where the  *)
(* documented header has the next one.                                     *)

FollowsHeader ==
  /\ pc = "versions" => readIndex = 0
  /\ pc = "ciphers" => NumVersions < MAX_NUMBER_NEGOTIABLES /\ readIndex = 1 + NumVersions
  /\ pc \in {"keyCount", "keys"} => HeaderFits /\ NumCiphers # 0
  /\ HeaderDecides

LEMMA HeaderIsRead == ASSUME TypeOK PROVE NumVersions \in Nat /\ NumCiphers \in Nat
BY ReadsAreBytes DEF NumVersions, NumCiphers

(* A message has the same header during the whole call.                    *)
LEMMA HeaderUnchanged ==
  ASSUME UNCHANGED configVars
  PROVE  /\ NumVersions' = NumVersions /\ NumCiphers' = NumCiphers
         /\ HeaderFits <=> HeaderFits'
         /\ allowInsecureConnections' = allowInsecureConnections
BY DEF configVars, HeaderFits, NumVersions, NumCiphers, UInt8

LEMMA HeaderInit == Init => FollowsHeader
BY DEF Init, Called, FollowsHeader, HeaderDecides

LEMMA IllFormedReturn ==
  ASSUME ReturnEarly("ILL_FORMED_HANDSHAKE"), ~HeaderFits PROVE FollowsHeader'
<1>1. pc' = "done" /\ result' = "ILL_FORMED_HANDSHAKE" /\ ~HeaderFits'
  BY HeaderUnchanged DEF ReturnEarly, Return
<1>2. QED
  BY <1>1 DEF FollowsHeader, HeaderDecides

(* Behind the header no return says that the message is ill-formed.        *)
LEMMA LaterReturn ==
  ASSUME NEW value \in {"rejected", "completed"}, ReturnEarly(value),
         HeaderFits, NumCiphers # 0
  PROVE  FollowsHeader'
<1>1. pc' = "done" /\ result' = value /\ HeaderFits' /\ NumCiphers' # 0
  BY HeaderUnchanged DEF ReturnEarly, Return
<1>2. QED
  BY <1>1 DEF FollowsHeader, HeaderDecides

LEMMA VersionsFollow ==
  ASSUME HandshakeInv, FollowsHeader, ReadVersions PROVE FollowsHeader'
<1>0. TypeOK /\ readIndex = 0 /\ UInt8(readIndex) = NumVersions /\ 0 <= Len(data)
  BY DEF HandshakeInv, FollowsHeader, ReadVersions, NumVersions, TypeOK
<1>1. NumVersions \in Nat /\ NumCiphers \in Nat /\ Len(data) \in Nat
  BY <1>0, HeaderIsRead DEF TypeOK
<1>2. CASE ListIsReadable(1) /\ ~ReturnEarly("ILL_FORMED_HANDSHAKE")
  <2>1. NumVersions < MAX_NUMBER_NEGOTIABLES
    BY <1>0, <1>2 DEF ListIsReadable
  <2>2. readIndex' = 1 + NumVersions /\ pc' = "ciphers" /\ UNCHANGED configVars
    BY <1>0, <1>1, <1>2 DEF ReadVersions
  <2>3. NumVersions' = NumVersions
    BY <2>2, HeaderUnchanged
  <2>4. QED
    BY <2>1, <2>2, <2>3 DEF FollowsHeader, HeaderDecides
<1>3. ASSUME ~ListIsReadable(1) PROVE ~HeaderFits
  <2>1. CASE ~ensureReadableBytes(0, 1)
    <3>1. ~ (0 + 1 <= Len(data))
      BY <1>0, <2>1, EnsureMeaning
    <3>2. QED
      BY <1>1, <3>1 DEF HeaderFits
  <2>2. CASE ~ (NumVersions < MAX_NUMBER_NEGOTIABLES)
    BY <2>2 DEF HeaderFits
  <2>3. CASE ensureReadableBytes(0, 1) /\ ~ensureReadableBytes(0 + 1, 1 * NumVersions)
    <3>1. 0 + 1 <= Len(data)
      BY <1>0, <2>3, EnsureMeaning
    <3>2. 1 * NumVersions \in Nat /\ 0 + 1 \in Nat
      BY <1>1
    <3>3. ~ (0 + 1 + 1 * NumVersions <= Len(data))
      BY <1>0, <2>3, <3>1, <3>2, EnsureMeaning
    <3>4. QED
      BY <1>1, <3>3 DEF HeaderFits
  <2>4. QED
    BY <1>0, <1>3, <2>1, <2>2, <2>3 DEF ListIsReadable
<1>4. ASSUME ListIsReadable(1) PROVE ~ReturnEarly("ILL_FORMED_HANDSHAKE")
  BY <1>4 DEF ReadVersions, ReturnEarly, Return
<1>5. QED
  BY <1>2, <1>3, <1>4, IllFormedReturn DEF ReadVersions

LEMMA CiphersFollow ==
  ASSUME HandshakeInv, FollowsHeader, NegotiateCiphers PROVE FollowsHeader'
<1>0. /\ TypeOK /\ readIndex = 1 + NumVersions /\ NumVersions < MAX_NUMBER_NEGOTIABLES
      /\ UInt8(readIndex) = NumCiphers /\ readIndex <= Len(data)
  BY DEF HandshakeInv, AccessesInBounds, FollowsHeader, NegotiateCiphers, NumCiphers
<1>1. NumVersions \in Nat /\ NumCiphers \in Nat /\ Len(data) \in Nat /\ readIndex \in Nat
  BY <1>0, HeaderIsRead DEF TypeOK
<1>2. ListIsReadable(2) <=> HeaderFits
  <2>1. ensureReadableBytes(readIndex, 1) <=> readIndex + 1 <= Len(data)
    BY <1>0, <1>1, EnsureMeaning
  <2>2. ASSUME readIndex + 1 <= Len(data)
        PROVE  ensureReadableBytes(readIndex + 1, 2 * NumCiphers)
                 <=> readIndex + 1 + 2 * NumCiphers <= Len(data)
    <3>1. readIndex + 1 \in Nat /\ 2 * NumCiphers \in Nat
      BY <1>1
    <3>2. QED
      BY <1>0, <2>2, <3>1, EnsureMeaning
  <2>3. HeaderFits <=> /\ readIndex + 1 <= Len(data)
                       /\ NumCiphers < MAX_NUMBER_NEGOTIABLES
                       /\ readIndex + 1 + 2 * NumCiphers <= Len(data)
    BY <1>0, <1>1 DEF HeaderFits
  <2>4. QED
    BY <1>0, <2>1, <2>2, <2>3 DEF ListIsReadable
<1>3. CASE ~ListIsReadable(2)
  BY <1>2, <1>3, IllFormedReturn DEF NegotiateCiphers
<1>4. CASE ListIsReadable(2)
  <2>1. numCipherSuites' = NumCiphers /\ AfterCiphers /\ UNCHANGED configVars
    BY <1>0, <1>4 DEF NegotiateCiphers
  <2>2. /\ NumCiphers' = NumCiphers /\ HeaderFits'
        /\ allowInsecureConnections' = allowInsecureConnections
    BY <1>2, <1>4, <2>1, HeaderUnchanged
  <2>3. CASE NumCiphers # 0
    <3>1. pc' = "keyCount"
      BY <2>1, <2>3 DEF AfterCiphers
    <3>2. QED
      BY <2>2, <2>3, <3>1 DEF FollowsHeader, HeaderDecides
  <2>4. CASE NumCiphers = 0
    <3>1. /\ pc' = "done"
          /\ result' = IF allowInsecureConnections THEN "completed"
                                                   ELSE "SECURE_CONNECTION_REQUIRED"
      BY <2>1, <2>4 DEF AfterCiphers, Return
    <3>2. QED
      BY <2>2, <2>4, <3>1 DEF FollowsHeader, HeaderDecides
  <2>5. QED
    BY <2>3, <2>4
<1>5. QED
  BY <1>3, <1>4

LEMMA KeysFollow ==
  ASSUME FollowsHeader, ReadKeyCount \/ ReadKey \/ FinishKeys PROVE FollowsHeader'
<1>1. HeaderFits /\ NumCiphers # 0
  BY DEF FollowsHeader, ReadKeyCount, ReadKey, FinishKeys
<1>2. CASE ReturnEarly("rejected") \/ ReturnEarly("completed")
  BY <1>1, <1>2, LaterReturn
<1>3. CASE pc' = "keys" /\ UNCHANGED configVars
  <2>1. HeaderFits' /\ NumCiphers' # 0
    BY <1>1, <1>3, HeaderUnchanged
  <2>2. QED
    BY <1>3, <2>1 DEF FollowsHeader, HeaderDecides
<1>4. QED
  BY <1>2, <1>3 DEF ReadKeyCount, ReadKey, FinishKeys

LEMMA HeaderStep ==
  ASSUME HandshakeInv, FollowsHeader, [Next]_handshakeVars PROVE FollowsHeader'
<1>1. CASE UNCHANGED handshakeVars
  <2>1. /\ NumVersions' = NumVersions /\ NumCiphers' = NumCiphers
        /\ HeaderFits <=> HeaderFits'
        /\ allowInsecureConnections' = allowInsecureConnections
        /\ pc' = pc /\ readIndex' = readIndex /\ result' = result
    BY <1>1, HeaderUnchanged DEF handshakeVars
  <2>2. QED
    BY <2>1 DEF FollowsHeader, HeaderDecides
<1>2. QED
  BY <1>1, VersionsFollow, CiphersFollow, KeysFollow DEF Next, Returned

(* Reading list by list with a check in front of every read finds exactly  *)
(* the messages ill-formed whose documented header does not fit, and       *)
(* decides as configured on those that offer no cipher suite, for every    *)
(* sequence of bytes and every limit.                                      *)
THEOREM HeaderDecidesAsDocumented == Spec => []HeaderDecides
<1>1. FollowsHeader => HeaderDecides
  BY DEF FollowsHeader
<1>2. QED
  BY <1>1, HandshakeInvariant, HeaderInit, HeaderStep, PTL DEF Spec
=============================================================================
