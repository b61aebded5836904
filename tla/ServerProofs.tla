------------------------------ MODULE ServerProofs ------------------------------
(***************************************************************************)
(* Theorems of Server.  The configuration that createProtocol let through  *)
(* is followed into the object and from there into every handshake, where  *)
(* the lemmas of ClientHandshakeProofs about one step take over.           *)
(***************************************************************************)
EXTENDS Server, ClientHandshakeProofs

(* The configuration asks for no more than it gives, checked list by list. *)
ListsChecked ==
  ~config.allowInsecureConnections => config.cipherSuites /\ config.supportedEphemeralGroups
KeysChecked == config.privateKey = config.publicKey

(* Behind every check of createProtocol its condition holds.               *)
ChecksHold ==
  /\ config \in Create!Config
  /\ createPc \notin {"checkLists", "failed"} => ListsChecked
  /\ createPc \notin {"checkLists", "checkKeys", "failed"} => KeysChecked
  /\ createPc = "failed" =>
       error = "FAILED_TO_CREATE_SSL_CTX" \/ ~Create!ArgumentsAreConsistent

(* The object's members are those of the configuration, and a call needs   *)
(* an object.                                                              *)
MembersFollow ==
  /\ called => createPc = "created"
  /\ createPc = "created" =>
       /\ allowInsecureConnections = config.allowInsecureConnections
       /\ (supportedEphemeralGroups # <<>>) = config.supportedEphemeralGroups
  /\ ~called => Called

ServerInv ==
  ChecksHold /\ MembersFollow /\ HandshakeInv /\ ResultsFollow /\ FollowsHeader

-----------------------------------------------------------------------------
(* Creation.                                                               *)

CreateAction ==
  \/ Create!CheckLists \/ Create!CheckKeys \/ Create!CreateContext
  \/ Create!InitializeMembers \/ Create!AssertContext \/ Create!AssertArguments
  \/ Create!AssignMembers

LEMMA CreateKeepsChecks ==
  ASSUME ChecksHold, CreateAction PROVE ChecksHold'
<1> USE DEF ChecksHold, ListsChecked, KeysChecked, Create!Config, Create!Fail,
            Create!Continue, Create!Assert, Create!ArgumentsAreConsistent
<1>1. CASE Create!CheckLists
  BY <1>1 DEF Create!CheckLists
<1>2. CASE Create!CheckKeys
  BY <1>2 DEF Create!CheckKeys
<1>3. CASE Create!CreateContext
  BY <1>3 DEF Create!CreateContext
<1>4. CASE Create!InitializeMembers
  BY <1>4 DEF Create!InitializeMembers
<1>5. CASE Create!AssertContext
  BY <1>5 DEF Create!AssertContext
<1>6. CASE Create!AssertArguments
  BY <1>6 DEF Create!AssertArguments
<1>7. CASE Create!AssignMembers
  BY <1>7 DEF Create!AssignMembers
<1>8. QED
  BY <1>1, <1>2, <1>3, <1>4, <1>5, <1>6, <1>7 DEF CreateAction

(* Only the last of these steps leads to an object, and every one of them  *)
(* starts without one.                                                     *)
LEMMA CreationEnds ==
  ASSUME CreateAction
  PROVE  createPc # "created" /\ (createPc' = "created" => Create!AssignMembers)
                              /\ (Create!AssignMembers => object' = config)
                              /\ config' = config
BY DEF CreateAction, Create!CheckLists, Create!CheckKeys, Create!CreateContext,
       Create!InitializeMembers, Create!AssertContext, Create!AssertArguments,
       Create!AssignMembers, Create!Fail, Create!Continue, Create!Assert

-----------------------------------------------------------------------------
(* The inductive invariant.                                                *)

(* A call of acceptClientHandshake that has not yet read anything.         *)
FreshCall ==
  /\ data \in Seq(Byte) /\ Len(data) < SizeMod
  /\ supportedEphemeralGroups \in Ranking
  /\ allowInsecureConnections \in BOOLEAN
  /\ Called

LEMMA FreshCallInv == FreshCall => HandshakeInv /\ ResultsFollow /\ FollowsHeader
<1> SUFFICES ASSUME FreshCall PROVE HandshakeInv /\ ResultsFollow /\ FollowsHeader
  OBVIOUS
<1>1. HandshakeInv
  BY HandshakeAssumption
  DEF FreshCall, Called, HandshakeInv, TypeOK, AccessesInBounds, BestCommonGroup,
      Byte, Unset
<1>2. ResultsFollow /\ FollowsHeader
  BY DEF FreshCall, Called, ResultsFollow, InsecureOnlyIfAllowed, FollowsHeader,
         HeaderDecides
<1>3. QED
  BY <1>1, <1>2

LEMMA FreshCallInvNext ==
  FreshCall' => HandshakeInv' /\ ResultsFollow' /\ FollowsHeader'
BY FreshCallInv, PTL

LEMMA ServerStarts == ServerInit => ServerInv
<1> SUFFICES ASSUME ServerInit PROVE ServerInv
  OBVIOUS
<1>1. FreshCall
  <2>1. <<>> \in Seq(Byte) /\ Len(<<>>) < SizeMod
    BY HandshakeAssumption
  <2>2. allowInsecureConnections \in BOOLEAN
    BY DEF ServerInit
  <2>3. QED
    BY <2>1, <2>2, ServerAssumption DEF ServerInit, FreshCall
<1>2. ChecksHold /\ MembersFollow
  BY DEF ServerInit, Create!Init, ChecksHold, MembersFollow
<1>3. QED
  BY <1>1, <1>2, FreshCallInv DEF ServerInv

(* Creation and the handshakes leave each other's variables alone.         *)
LEMMA ChecksUnchanged ==
  ASSUME ChecksHold, UNCHANGED createVars PROVE ChecksHold'
BY DEF createVars, ChecksHold, ListsChecked, KeysChecked, Create!Config,
       Create!ArgumentsAreConsistent

LEMMA CreateStepKeepsInv ==
  ASSUME ServerInv, CreateStep PROVE ServerInv'
<1>1. ChecksHold' /\ createPc # "created" /\ config' = config
  BY CreateKeepsChecks, CreationEnds DEF ServerInv, CreateStep, CreateAction
<1>2. createPc' # "created"
  BY CreationEnds DEF CreateStep, Create!CheckLists, Create!CheckKeys, Create!CreateContext,
     Create!InitializeMembers, Create!AssertContext, Create!AssertArguments,
     Create!Fail, Create!Continue, Create!Assert
<1>3. UNCHANGED handshakeVars /\ called' = called
  BY DEF CreateStep
<1>4. HandshakeInv'
  BY <1>3, HandshakeStep DEF ServerInv
<1>5. ResultsFollow' /\ FollowsHeader'
  BY <1>3, ResultsStep, HeaderStep DEF ServerInv
<1>6. MembersFollow'
  <2>1. ~called
    BY <1>1 DEF ServerInv, MembersFollow
  <2>2. Called'
    BY <1>3, <2>1 DEF ServerInv, MembersFollow, Called, handshakeVars, headerVars, keyVars
  <2>3. QED
    BY <1>2, <1>3, <2>1, <2>2 DEF MembersFollow
<1>7. QED
  BY <1>1, <1>4, <1>5, <1>6 DEF ServerInv

LEMMA AssignKeepsInv ==
  ASSUME ServerInv, AssignMembers PROVE ServerInv'
<1>1. ChecksHold' /\ createPc # "created" /\ object' = config /\ config' = config
  BY CreateKeepsChecks, CreationEnds DEF ServerInv, AssignMembers, CreateAction
<1>2. createPc' = "created"
  BY DEF AssignMembers, Create!AssignMembers
<1>3. ~called' /\ Called'
  BY <1>1 DEF ServerInv, MembersFollow, AssignMembers, Called, headerVars, keyVars
<1>4. allowInsecureConnections' \in BOOLEAN
  BY <1>1 DEF AssignMembers, ServerInv, ChecksHold, Create!Config
<1>5. FreshCall'
  BY <1>3, <1>4 DEF FreshCall, AssignMembers, ServerInv, HandshakeInv, TypeOK
<1>6. MembersFollow'
  BY <1>1, <1>3 DEF MembersFollow, AssignMembers
<1>7. QED
  BY <1>1, <1>5, <1>6, FreshCallInvNext DEF ServerInv

LEMMA AcceptKeepsInv ==
  ASSUME ServerInv, AcceptClient PROVE ServerInv'
<1>1. ChecksHold'
  BY ChecksUnchanged DEF ServerInv, AcceptClient
<1>2. Called'
  BY DEF ServerInv, MembersFollow, AcceptClient, Called, headerVars, keyVars
<1>3. data' \in Seq(Byte) /\ Len(data') < SizeMod
  BY HandshakeAssumption DEF AcceptClient
<1>4. FreshCall'
  BY <1>2, <1>3 DEF FreshCall, AcceptClient, ServerInv, HandshakeInv, TypeOK
<1>5. MembersFollow'
  BY DEF ServerInv, MembersFollow, AcceptClient, createVars
<1>6. QED
  BY <1>1, <1>4, <1>5, FreshCallInvNext DEF ServerInv

LEMMA AcceptStepKeepsInv ==
  ASSUME ServerInv, AcceptStep PROVE ServerInv'
<1>1. ChecksHold'
  BY ChecksUnchanged DEF ServerInv, AcceptStep
<1>2. HandshakeInv' /\ ResultsFollow' /\ FollowsHeader'
  BY HandshakeStep, ResultsStep, HeaderStep DEF ServerInv, AcceptStep, Next
<1>3. UNCHANGED configVars
  BY DEF AcceptStep, ReadVersions, NegotiateCiphers, ReadKeyCount, ReadKey, FinishKeys,
         ReturnEarly
<1>4. MembersFollow'
  BY <1>3 DEF ServerInv, MembersFollow, AcceptStep, createVars, configVars
<1>5. QED
  BY <1>1, <1>2, <1>4 DEF ServerInv

LEMMA FinishKeepsInv ==
  ASSUME ServerInv, FinishClient PROVE ServerInv'
<1>1. ChecksHold'
  BY ChecksUnchanged DEF ServerInv, FinishClient
<1>2. Called'
  BY DEF FinishClient, Called
<1>3. <<>> \in Seq(Byte) /\ Len(<<>>) < SizeMod
  BY HandshakeAssumption
<1>4. FreshCall'
  BY <1>2, <1>3 DEF FreshCall, FinishClient, ServerInv, HandshakeInv, TypeOK
<1>5. MembersFollow'
  BY <1>2 DEF ServerInv, MembersFollow, FinishClient, createVars
<1>6. QED
  BY <1>1, <1>4, <1>5, FreshCallInvNext DEF ServerInv

LEMMA ServerUnchanged == ASSUME ServerInv, UNCHANGED serverVars PROVE ServerInv'
<1>1. ChecksHold'
  BY ChecksUnchanged DEF ServerInv, serverVars
<1>2. HandshakeInv' /\ ResultsFollow' /\ FollowsHeader'
  BY HandshakeStep, ResultsStep, HeaderStep DEF ServerInv, serverVars
<1>3. MembersFollow'
  BY DEF ServerInv, MembersFollow, serverVars, createVars, handshakeVars, configVars,
         headerVars, keyVars, Called
<1>4. QED
  BY <1>1, <1>2, <1>3 DEF ServerInv

LEMMA ServerKeepsInv == ServerInv /\ [ServerNext]_serverVars => ServerInv'
BY CreateStepKeepsInv, AssignKeepsInv, AcceptKeepsInv, AcceptStepKeepsInv,
   FinishKeepsInv, ServerUnchanged DEF ServerNext, NoServer

LEMMA ServerInvariant == ServerSpec => []ServerInv
BY ServerStarts, ServerKeepsInv, PTL DEF ServerSpec

-----------------------------------------------------------------------------
(* The theorems.                                                           *)

(* createProtocol's checks imply the constructor's assertions.             *)
THEOREM AssertionsAreRedundant == ServerSpec => []ArgumentsAsAsserted
<1>1. ServerInv => ArgumentsAsAsserted
  BY DEF ServerInv, ChecksHold, ListsChecked, KeysChecked, ArgumentsAsAsserted,
         Create!ArgumentsAsAsserted, Create!ArgumentsAreConsistent, Create!Config
<1>2. QED
  BY <1>1, ServerInvariant, PTL

(* createProtocol refuses no configuration the constructor would accept,   *)
(* except for want of an SSL context.                                      *)
THEOREM RefusalsAreRight == ServerSpec => []RefusedOnlyIfInconsistent
<1>1. ServerInv => RefusedOnlyIfInconsistent
  BY DEF ServerInv, ChecksHold, RefusedOnlyIfInconsistent, Create!RefusedOnlyIfInconsistent
<1>2. QED
  BY <1>1, ServerInvariant, PTL

(* A server created to require security has a group to agree on in every   *)
(* handshake and completes none without one.                               *)
THEOREM ServersAreAsSecureAsConfigured == ServerSpec => []SecurityAsConfigured
<1>1. ServerInv => SecurityAsConfigured
  <2> SUFFICES ASSUME ServerInv, called, ~config.allowInsecureConnections
               PROVE  SecurityAsConfigured
    BY DEF SecurityAsConfigured
  <2>1. createPc = "created" /\ ~allowInsecureConnections
    BY DEF ServerInv, MembersFollow
  <2>2. supportedEphemeralGroups # <<>>
    BY <2>1 DEF ServerInv, MembersFollow, ChecksHold, ListsChecked
  <2>3. ASSUME result = "completed"
        PROVE  \E n \in DOMAIN supportedEphemeralGroups :
                 supportedEphemeralGroups[n] = choosenKeyGroup
    <3>1. choosenKeyGroup # Unset
      BY <2>1, <2>3 DEF ServerInv, ResultsFollow, InsecureOnlyIfAllowed
    <3>2. /\ keyGroupRank # -1
          /\ supportedEphemeralGroups[keyGroupRank + 1] = choosenKeyGroup
      BY <3>1 DEF ServerInv, HandshakeInv, BestCommonGroup
    <3>3. keyGroupRank + 1 \in DOMAIN supportedEphemeralGroups
      BY <3>2, HandshakeAssumption DEF ServerInv, HandshakeInv, TypeOK
    <3>4. QED
      BY <3>2, <3>3
  <2>4. QED
    BY <2>2, <2>3 DEF SecurityAsConfigured
<1>2. QED
  BY <1>1, ServerInvariant, PTL

(* Every handshake of a server that createProtocol made keeps the          *)
(* properties of a handshake that is called on its own: no read past the   *)
(* message, the best common group, no insecure completion unless allowed,  *)
(* and the documented header decides what is ill-formed.                   *)
THEOREM ServerHandshakesAreSound ==
  ServerSpec => [](/\ AccessesInBounds /\ BestCommonGroup /\ InsecureOnlyIfAllowed
                   /\ HeaderDecides)
<1>1. ServerInv => /\ AccessesInBounds /\ BestCommonGroup /\ InsecureOnlyIfAllowed
                   /\ HeaderDecides
  BY DEF ServerInv, HandshakeInv, ResultsFollow, FollowsHeader
<1>2. QED
  BY <1>1, ServerInvariant, PTL

(* The server's object is created as createProtocol creates one on its     *)
(* own: its handshakes neither wait for that nor touch it.                 *)
THEOREM ServersAreCreated == ServerSpec => Create!Spec
<1>1. ServerInit => Create!Init
  BY DEF ServerInit
<1>2. [ServerNext]_serverVars => [Create!Next]_(Create!createVars)
  BY DEF ServerNext, CreateStep, AssignMembers, NoServer, AcceptClient, AcceptStep,
         FinishClient, Create!Next, Create!createVars, createVars, serverVars
<1>3. QED
  BY <1>1, <1>2, PTL DEF ServerSpec, Create!Spec
=============================================================================
