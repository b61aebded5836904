--------------------------------- MODULE Server ---------------------------------
(***************************************************************************)
(* A Protocol object from its creation to the handshakes of its clients:   *)
(* createProtocol and the constructor (CreateProtocol) store a             *)
(* configuration, acceptClientHandshake (ClientHandshake) reads it, once   *)
(* for each client, one client after the other.                            *)
(*                                                                         *)
(* ClientHandshake assumes of a configuration that it lists a group unless *)
(* insecure connections are allowed; here it is whatever createProtocol    *)
(* let through.  Only a build without assertions has objects at all.       *)
(***************************************************************************)
EXTENDS ClientHandshake

VARIABLES
  config, NDEBUG, error, localCtx, parameterCtx, memberCtx, object,
  createPc,  \* the place in createProtocol
  called     \* is a call of acceptClientHandshake in progress?

Create == INSTANCE CreateProtocol WITH pc <- createPc

createVars ==
  <<config, NDEBUG, createPc, error, localCtx, parameterCtx, memberCtx, object>>
serverVars == <<createVars, handshakeVars, called>>

(* Before the first assignment the list of groups is empty.                *)
ASSUME ServerAssumption == <<>> \in Ranking

ServerInit ==
  /\ Create!Init
  /\ data = <<>> /\ supportedEphemeralGroups = <<>> /\ allowInsecureConnections = FALSE
  /\ Called
  /\ called = FALSE

-----------------------------------------------------------------------------

(* createProtocol and the constructor, up to the assignment of the members.*)
CreateStep ==
  /\ \/ Create!CheckLists \/ Create!CheckKeys \/ Create!CreateContext
     \/ Create!InitializeMembers \/ Create!AssertContext \/ Create!AssertArguments
  /\ UNCHANGED <<handshakeVars, called>>

(* Faulty variant: the list of groups stays empty.                         *)
AssignMembersPartly ==
  /\ Create!AssignMembers
  /\ allowInsecureConnections' = object'.allowInsecureConnections
  /\ UNCHANGED <<data, supportedEphemeralGroups, pc, result, readIndex, headerVars,
                 numClientEphemeralKeys, keyVars, called>>

(* The object gets the groups, in their order, and the flag of the         *)
(* configuration.                                                          *)
AssignMembers ==
  /\ Create!AssignMembers
  /\ supportedEphemeralGroups' \in
       {groups \in Ranking : (groups # <<>>) = object'.supportedEphemeralGroups}
  /\ allowInsecureConnections' = object'.allowInsecureConnections
  /\ UNCHANGED <<data, pc, result, readIndex, headerVars,
                 numClientEphemeralKeys, keyVars, called>>

(* The program passes a client's message to acceptClientHandshake ...      *)
AcceptClient ==
  /\ createPc = "created"
  /\ ~called
  /\ data' \in Message
  /\ called' = TRUE
  /\ UNCHANGED <<createVars, supportedEphemeralGroups, allowInsecureConnections,
                 pc, result, readIndex, headerVars, numClientEphemeralKeys, keyVars>>

(* ... and the call's variables go away when it is over.                   *)
FinishClient ==
  /\ called /\ pc = "done"
  /\ data' = <<>>
  /\ pc' = "versions" /\ result' = "none" /\ readIndex' = 0
  /\ numCipherSuites' = 0 /\ cipherSuitesNegotiated' = {}
  /\ numClientEphemeralKeys' = 0 /\ i' = 0
  /\ keyGroupRank' = -1 /\ choosenKeyGroup' = Unset
  /\ ephemeralKey' = <<>> /\ offered' = {}
  /\ called' = FALSE
  /\ UNCHANGED <<createVars, supportedEphemeralGroups, allowInsecureConnections>>

AcceptStep ==
  /\ called
  /\ \/ ReadVersions \/ NegotiateCiphers \/ ReadKeyCount \/ ReadKey \/ FinishKeys
  /\ UNCHANGED <<createVars, called>>

(* Without an object there is no server.                                   *)
NoServer == createPc \in {"failed", "aborted"} /\ UNCHANGED serverVars

ServerNext ==
  \/ CreateStep \/ AssignMembers \/ NoServer
  \/ AcceptClient \/ AcceptStep \/ FinishClient

ServerSpec == ServerInit /\ [][ServerNext]_serverVars

-----------------------------------------------------------------------------
(* Properties, besides those of ClientHandshake.                           *)

(* Whatever createProtocol lets through, the constructor's assertions      *)
(* about its arguments (Protocol.h, lines 144 to 154) find to be as they   *)
(* say.                                                                    *)
ArgumentsAsAsserted == Create!ArgumentsAsAsserted

(* createProtocol returns an error only for a configuration the            *)
(* constructor would not accept, or if there is no SSL context.            *)
RefusedOnlyIfInconsistent == Create!RefusedOnlyIfInconsistent

(* A server that was created to require security can provide it: in every  *)
(* one of its handshakes it has a group to agree on, and no handshake      *)
(* completes without one.                                                  *)
SecurityAsConfigured ==
  called /\ ~config.allowInsecureConnections =>
    /\ supportedEphemeralGroups # <<>>
    /\ result = "completed" =>
         \E n \in DOMAIN supportedEphemeralGroups :
           supportedEphemeralGroups[n] = choosenKeyGroup
=============================================================================
