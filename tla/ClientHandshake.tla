---------------------------- MODULE ClientHandshake ----------------------------
(***************************************************************************)
(* Protocol::acceptClientHandshake (Protocol/Protocol.h): the server reads *)
(* a Client Hello and chooses an ephemeral key group.                      *)
(*                                                                         *)
(* The message and the configuration are fixed when the call begins.  Each *)
(* step below is one part of the function, with its early returns; the     *)
(* reader of the message (ReadBufferWrapper) is its read position.  The    *)
(* function is void and some of its returns have no value: result names    *)
(* them "rejected", and "completed" where it runs to its end.              *)
(***************************************************************************)
EXTENDS Integers, Sequences

CONSTANTS
  Message,            \* the byte sequences a peer may send
  Ranking,            \* the lists of key groups a server may support
  ByteMod,            \* a byte is a number below ByteMod (256)
  SizeMod,            \* a size_t is a number below SizeMod
  CipherSuite,        \* the ids of the known cipher suites
  EphemeralKeyGroup,  \* the ids of the known key groups
  MAX_NUMBER_NEGOTIABLES,
  MAX_EPHEMERAL_KEY_VALUE_LENGTH

Byte == 0 .. ByteMod - 1

(* No known cipher suite has a small id: the least is 0x1301.              *)
ASSUME HandshakeAssumption ==
  /\ ByteMod \in Nat \ {0} /\ SizeMod \in Nat \ {0}
  /\ \A m \in Message : m \in Seq(Byte) /\ Len(m) < SizeMod
  /\ EphemeralKeyGroup \subseteq Byte
  /\ \A groups \in Ranking : groups \in Seq(EphemeralKeyGroup)
  /\ MAX_NUMBER_NEGOTIABLES \in Nat
  /\ MAX_EPHEMERAL_KEY_VALUE_LENGTH \in Nat
  /\ \A id \in CipherSuite : id \in Nat /\ id >= MAX_NUMBER_NEGOTIABLES

Unset == -1

VARIABLES
  data,                      \* the message
  supportedEphemeralGroups,  \* the groups of this server, best first
  allowInsecureConnections,
  pc,                        \* the part of the function that comes next
  result,                    \* how the function returned
  readIndex,                 \* the reader's position, counted from 0
  numCipherSuites,
  cipherSuitesNegotiated,    \* as a set
  numClientEphemeralKeys,
  i,                         \* the index of the loop over the keys
  keyGroupRank,
  choosenKeyGroup,           \* the source's spelling; uninitialised at first
  ephemeralKey,              \* what has been written of the array
  offered                    \* history: the key types read so far

configVars == <<data, supportedEphemeralGroups, allowInsecureConnections>>
headerVars == <<numCipherSuites, cipherSuitesNegotiated>>
keyVars == <<i, keyGroupRank, choosenKeyGroup, ephemeralKey, offered>>
handshakeVars ==
  <<configVars, pc, result, readIndex, headerVars, numClientEphemeralKeys, keyVars>>

(* The beginning of a call.                                                *)
Called ==
  /\ pc = "versions" /\ result = "none" /\ readIndex = 0
  /\ numCipherSuites = 0 /\ cipherSuitesNegotiated = {}
  /\ numClientEphemeralKeys = 0 /\ i = 0
  /\ keyGroupRank = -1 /\ choosenKeyGroup = Unset
  /\ ephemeralKey = <<>> /\ offered = {}

(* The configurations createProtocol lets through.                         *)
Init ==
  /\ data \in Message
  /\ supportedEphemeralGroups \in Ranking
  /\ allowInsecureConnections \in BOOLEAN
  /\ allowInsecureConnections \/ supportedEphemeralGroups # <<>>
  /\ Called

-----------------------------------------------------------------------------
(* The reader.  A read past the end, which the guards are there to         *)
(* prevent, would give whatever lies behind the message: 0 here.           *)

UInt8(at) == IF at + 1 \in DOMAIN data THEN data[at + 1] ELSE 0
UInt16(at) == UInt8(at) * ByteMod + UInt8(at + 1)

(* Faulty variant: one byte too many counts as readable.                   *)
EnsureReadableBytesOffByOne(at, numBytes) ==
  (Len(data) - at + 1) % SizeMod >= numBytes

(* With the reader at position at; the difference is a size_t.             *)
ensureReadableBytes(at, numBytes) == (Len(data) - at) % SizeMod >= numBytes

(* Faulty variant: as many bytes as elements are asked for.                *)
ListIsReadableCounted(size) ==
  /\ ensureReadableBytes(readIndex, 1)
  /\ UInt8(readIndex) < MAX_NUMBER_NEGOTIABLES
  /\ ensureReadableBytes(readIndex + 1, UInt8(readIndex))

(* The check in front of a list: a count and the elements are there.       *)
ListIsReadable(size) ==
  /\ ensureReadableBytes(readIndex, 1)
  /\ UInt8(readIndex) < MAX_NUMBER_NEGOTIABLES
  /\ ensureReadableBytes(readIndex + 1, size * UInt8(readIndex))

Return(value) == pc' = "done" /\ result' = value

(* Early returns leave everything else as it is: the function's variables  *)
(* go away with it.                                                        *)
ReturnEarly(value) ==
  /\ Return(value)
  /\ UNCHANGED <<configVars, readIndex, headerVars, numClientEphemeralKeys, keyVars>>

-----------------------------------------------------------------------------
(* The function.                                                           *)

(* The versions are read and not looked at.                                *)
ReadVersions ==
  /\ pc = "versions"
  /\ \/ ~ListIsReadable(1) /\ ReturnEarly("ILL_FORMED_HANDSHAKE")
     \/ /\ ListIsReadable(1)
        /\ readIndex' = readIndex + 1 + UInt8(readIndex)
        /\ pc' = "ciphers"
        /\ UNCHANGED <<configVars, result, headerVars, numClientEphemeralKeys, keyVars>>

(* Faulty variant: no key exchange is required of anyone.                  *)
AfterCiphersUnchecked ==
  \/ numCipherSuites' # 0 /\ pc' = "keyCount" /\ UNCHANGED result
  \/ numCipherSuites' = 0 /\ Return("completed")

(* Without cipher suites there is no key exchange: the function is at its  *)
(* end, unless the server insists on a secure connection.                  *)
AfterCiphers ==
  \/ numCipherSuites' # 0 /\ pc' = "keyCount" /\ UNCHANGED result
  \/ numCipherSuites' = 0 /\ allowInsecureConnections /\ Return("completed")
  \/ /\ numCipherSuites' = 0 /\ ~allowInsecureConnections
     /\ Return("SECURE_CONNECTION_REQUIRED")

(* An optional result is a set of at most one element.                     *)
idToCipherSuite(id) == {id} \intersect CipherSuite
getEphemeralKeyGroup(id) == {id} \intersect EphemeralKeyGroup

(* The loop asks for the suite of its own index.  The ids in the message   *)
(* are checked to be there and stay unread.                                *)
NegotiateCiphers ==
  /\ pc = "ciphers"
  /\ \/ ~ListIsReadable(2) /\ ReturnEarly("ILL_FORMED_HANDSHAKE")
     \/ /\ ListIsReadable(2)
        /\ numCipherSuites' = UInt8(readIndex)
        /\ readIndex' = readIndex + 1
        /\ cipherSuitesNegotiated' = UNION {idToCipherSuite(k) : k \in 0 .. numCipherSuites' - 1}
        /\ AfterCiphers
        /\ UNCHANGED <<configVars, numClientEphemeralKeys, keyVars>>

KeyCountInBound ==
  /\ ensureReadableBytes(readIndex, 1)
  /\ UInt8(readIndex) < MAX_NUMBER_NEGOTIABLES

ReadKeyCount ==
  /\ pc = "keyCount"
  /\ \/ ~KeyCountInBound /\ ReturnEarly("rejected")
     \/ /\ KeyCountInBound
        /\ numClientEphemeralKeys' = UInt8(readIndex)
        /\ readIndex' = readIndex + 1
        /\ pc' = "keys"
        /\ UNCHANGED <<configVars, result, headerVars, keyVars>>

(* Where group stands in the list, counted from 0, at its first place.     *)
Places(group) ==
  {n \in 0 .. Len(supportedEphemeralGroups) - 1 : supportedEphemeralGroups[n + 1] = group}
FirstPlace(group) ==
  CHOOSE n \in Places(group) : \A m \in Places(group) : n <= m

(* Faulty variant: an unsupported group gets the position past the end.    *)
EphemeralGroupRankOrEnd(group) ==
  IF Places(group) = {} THEN Len(supportedEphemeralGroups) ELSE FirstPlace(group)

ephemeralGroupRank(group) == IF Places(group) = {} THEN -1 ELSE FirstPlace(group)

(* Faulty variant: the last supported group of the message wins.           *)
IsBetterWhenSupported(type) ==
  getEphemeralKeyGroup(type) # {} /\ ephemeralGroupRank(type) # -1

(* The key of this type is preferred to what has been chosen so far.       *)
IsBetter(type) ==
  /\ getEphemeralKeyGroup(type) # {}
  /\ ephemeralGroupRank(type) # -1
  /\ keyGroupRank = -1 \/ ephemeralGroupRank(type) < keyGroupRank

Consider(type) ==
  \/ /\ IsBetter(type)
     /\ keyGroupRank' = ephemeralGroupRank(type)
     /\ choosenKeyGroup' = type
  \/ ~IsBetter(type) /\ UNCHANGED <<keyGroupRank, choosenKeyGroup>>

(* readToArray: length bytes from position at over the array's beginning.  *)
ReadToArray(at, length) ==
  ephemeralKey' =
    [n \in 1 .. (IF length > Len(ephemeralKey) THEN length ELSE Len(ephemeralKey)) |->
       IF n <= length THEN UInt8(at + n - 1) ELSE ephemeralKey[n]]

(* Faulty variant: the length is not compared with the array's.            *)
KeyIsReadableUnbounded(length) ==
  /\ ensureReadableBytes(readIndex, 3)
  /\ ensureReadableBytes(readIndex + 3, length)

KeyIsReadable(length) ==
  /\ ensureReadableBytes(readIndex, 3)
  /\ length <= MAX_EPHEMERAL_KEY_VALUE_LENGTH
  /\ ensureReadableBytes(readIndex + 3, length)

(* One turn of the loop over the keys: type, length, value.                *)
ReadKey ==
  /\ pc = "keys" /\ i < numClientEphemeralKeys
  /\ LET type == UInt8(readIndex)
         length == UInt16(readIndex + 1)
     IN  \/ ~KeyIsReadable(length) /\ ReturnEarly("rejected")
         \/ /\ KeyIsReadable(length)
            /\ readIndex' = readIndex + 3 + length
            /\ ReadToArray(readIndex + 3, length)
            /\ Consider(type)
            /\ offered' = offered \union {type}
            /\ i' = i + 1
            /\ UNCHANGED <<configVars, pc, result, headerVars, numClientEphemeralKeys>>

FinishKeys ==
  /\ pc = "keys" /\ i = numClientEphemeralKeys
  /\ ReturnEarly(IF keyGroupRank = -1 THEN "rejected" ELSE "completed")

(* The function has returned.                                              *)
Returned == pc = "done" /\ UNCHANGED handshakeVars

Next ==
  \/ ReadVersions \/ NegotiateCiphers
  \/ ReadKeyCount \/ ReadKey \/ FinishKeys
  \/ Returned

Spec == Init /\ [][Next]_handshakeVars

-----------------------------------------------------------------------------
(* The documented header (Message Formats.md, Client Hello), without       *)
(* reading it in order: a count and so many versions of a byte each, a     *)
(* count and so many cipher suites of two bytes each.                      *)

NumVersions == UInt8(0)
NumCiphers == UInt8(1 + NumVersions)

HeaderFits ==
  /\ NumVersions < MAX_NUMBER_NEGOTIABLES
  /\ NumCiphers < MAX_NUMBER_NEGOTIABLES
  /\ 2 + NumVersions + 2 * NumCiphers <= Len(data)

-----------------------------------------------------------------------------
(* Properties.                                                             *)

(* The variables have their types.                                         *)
TypeOK ==
  /\ data \in Seq(Byte) /\ Len(data) < SizeMod
  /\ supportedEphemeralGroups \in Ranking
  /\ allowInsecureConnections \in BOOLEAN
  /\ pc \in {"versions", "ciphers", "keyCount", "keys", "done"}
  /\ result \in {"none", "ILL_FORMED_HANDSHAKE", "SECURE_CONNECTION_REQUIRED",
                 "rejected", "completed"}
  /\ readIndex \in Nat
  /\ numCipherSuites \in Byte
  /\ cipherSuitesNegotiated \in SUBSET CipherSuite
  /\ numClientEphemeralKeys \in Byte
  /\ i \in Byte
  /\ keyGroupRank \in -1 .. Len(supportedEphemeralGroups) - 1
  /\ choosenKeyGroup \in EphemeralKeyGroup \union {Unset}
  /\ ephemeralKey \in Seq(Byte)
  /\ offered \in SUBSET Byte

(* Whatever counts and lengths a message claims, the reader never passes   *)
(* its end (past which the size_t difference would allow every further     *)
(* read), and no key is larger than the array it is copied to.             *)
AccessesInBounds ==
  /\ readIndex <= Len(data)
  /\ Len(ephemeralKey) <= MAX_EPHEMERAL_KEY_VALUE_LENGTH

(* The choice does not depend on the order or number of the client's keys: *)
(* it is the first group of the server's list that any key read so far     *)
(* has, and there is none only if no key's group is on the list.           *)
BestCommonGroup ==
  \/ /\ keyGroupRank = -1 /\ choosenKeyGroup = Unset
     /\ \A n \in DOMAIN supportedEphemeralGroups :
          supportedEphemeralGroups[n] \notin offered
  \/ /\ keyGroupRank # -1 /\ choosenKeyGroup \in offered
     /\ supportedEphemeralGroups[keyGroupRank + 1] = choosenKeyGroup
     /\ \A n \in 1 .. keyGroupRank : supportedEphemeralGroups[n] \notin offered

(* A handshake completes without a common key group only if the server     *)
(* allows insecure connections and the client asked for one.               *)
InsecureOnlyIfAllowed ==
  result = "completed" /\ choosenKeyGroup = Unset =>
    allowInsecureConnections /\ numCipherSuites = 0

(* The documented header alone decides which messages are ill-formed, and, *)
(* as it says there, zero cipher suites are a wish for unencrypted         *)
(* traffic, which is granted or refused as this server is configured,      *)
(* whatever follows.  Nothing is said of a message that offers suites: the *)
(* code takes their bytes for keys (OfferedCiphersNegotiated, below).      *)
HeaderDecides ==
  pc = "done" =>
    /\ result = "ILL_FORMED_HANDSHAKE" <=> ~HeaderFits
    /\ HeaderFits /\ NumCiphers = 0 =>
         result = IF allowInsecureConnections THEN "completed"
                                              ELSE "SECURE_CONNECTION_REQUIRED"

(* Message Formats.md: "The ciphers the client supports.  Each value is    *)
(* uint16 and is an id representing the cipher number."  The known ones    *)
(* among them are negotiated.                                              *)
OfferedCiphersNegotiated ==
  \A k \in 0 .. numCipherSuites - 1 :
    LET id == UInt16(2 + NumVersions + 2 * k)
    IN  id \in CipherSuite => id \in cipherSuitesNegotiated
=============================================================================
