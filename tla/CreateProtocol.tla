----------------------------- MODULE CreateProtocol -----------------------------
(***************************************************************************)
(* Protocol::createProtocol and the constructor it calls                   *)
(* (Protocol/Protocol.h).                                                  *)
(*                                                                         *)
(* A configuration is abstracted to what the code asks of it: which lists  *)
(* are empty, which keys are given, and whether insecure connections are   *)
(* allowed.  The SSL context is one object; each unique_ptr that may own   *)
(* it is a variable.  Assertions are compiled in or not (NDEBUG).          *)
(***************************************************************************)
EXTENDS Naturals

Config ==
  [cipherSuites : BOOLEAN, supportedEphemeralGroups : BOOLEAN,  \* not empty?
   privateKey : BOOLEAN, publicKey : BOOLEAN,                   \* given?
   allowInsecureConnections : BOOLEAN]

NoConfig == "none"

VARIABLES
  config,        \* the argument
  NDEBUG,        \* is the assert macro empty?
  pc,
  error,         \* the CreateProtocolError returned, if any
  localCtx,      \* createProtocol's ctx
  parameterCtx,  \* the constructor's parameter ctx, which hides the member
  memberCtx,     \* this->ctx
  object         \* the configuration the object has stored

createVars ==
  <<config, NDEBUG, pc, error, localCtx, parameterCtx, memberCtx, object>>
ctxVars == <<localCtx, parameterCtx, memberCtx>>

Init ==
  /\ config \in Config
  /\ NDEBUG \in BOOLEAN
  /\ pc = "checkLists" /\ error = "none" /\ object = NoConfig
  /\ localCtx = "nullptr" /\ parameterCtx = "nullptr" /\ memberCtx = "nullptr"

-----------------------------------------------------------------------------
(* createProtocol.                                                         *)

Fail(reason) ==
  /\ pc' = "failed" /\ error' = reason
  /\ UNCHANGED <<config, NDEBUG, ctxVars, object>>

Continue(place) ==
  /\ pc' = place
  /\ UNCHANGED <<config, NDEBUG, error, ctxVars, object>>

(* Faulty variant: the list of groups is not checked.                      *)
CheckListsShort ==
  /\ pc = "checkLists"
  /\ LET required == ~config.allowInsecureConnections
     IN  \/ required /\ ~config.cipherSuites /\ Fail("MISSING_CIPHER_SUITES")
         \/ ~(required /\ ~config.cipherSuites) /\ Continue("checkKeys")

CheckLists ==
  /\ pc = "checkLists"
  /\ LET required == ~config.allowInsecureConnections
     IN  \/ required /\ ~config.cipherSuites /\ Fail("MISSING_CIPHER_SUITES")
         \/ /\ required /\ config.cipherSuites /\ ~config.supportedEphemeralGroups
            /\ Fail("MISSING_EPHEMERAL_GROUPS")
         \/ /\ required => config.cipherSuites /\ config.supportedEphemeralGroups
            /\ Continue("checkKeys")

(* Faulty variant: a server always needs a key pair.                       *)
CheckKeysAlways ==
  /\ pc = "checkKeys"
  /\ \/ ~config.privateKey /\ Fail("MISSING_PRIVATE_KEY")
     \/ config.privateKey /\ ~config.publicKey /\ Fail("MISSING_PUBLIC_KEY")
     \/ config.privateKey /\ config.publicKey /\ Continue("createContext")

(* If one key is provided, both must be.                                   *)
CheckKeys ==
  /\ pc = "checkKeys"
  /\ \/ ~config.privateKey /\ config.publicKey /\ Fail("MISSING_PRIVATE_KEY")
     \/ config.privateKey /\ ~config.publicKey /\ Fail("MISSING_PUBLIC_KEY")
     \/ config.privateKey = config.publicKey /\ Continue("createContext")

(* SSL_CTX_new may fail.                                                   *)
CreateContext ==
  /\ pc = "createContext"
  /\ \/ Fail("FAILED_TO_CREATE_SSL_CTX")
     \/ /\ localCtx' = "context"
        /\ pc' = "initialize"
        /\ UNCHANGED <<config, NDEBUG, error, parameterCtx, memberCtx, object>>

-----------------------------------------------------------------------------
(* The constructor.                                                        *)

(* The parameter is moved from the local pointer and, in the initializer   *)
(* list, the member from the parameter.                                    *)
InitializeMembers ==
  /\ pc = "initialize"
  /\ memberCtx' = localCtx
  /\ localCtx' = "nullptr" /\ parameterCtx' = "nullptr"
  /\ pc' = "assertContext"
  /\ UNCHANGED <<config, NDEBUG, error, object>>

Assert(condition, place) ==
  \/ (condition \/ NDEBUG) /\ Continue(place)
  \/ ~condition /\ ~NDEBUG /\ Continue("aborted")

(* ctx is the parameter here.                                              *)
AssertContext ==
  /\ pc = "assertContext"
  /\ Assert(parameterCtx # "nullptr", "assertArguments")

ArgumentsAreConsistent ==
  /\ ~config.allowInsecureConnections =>
       config.cipherSuites /\ config.supportedEphemeralGroups
  /\ config.privateKey \/ config.publicKey => config.privateKey /\ config.publicKey

AssertArguments ==
  /\ pc = "assertArguments"
  /\ Assert(ArgumentsAreConsistent, "assign")

(* The moved-from parameter is moved from again, into the member, which    *)
(* frees the context it has.                                               *)
AssignMembers ==
  /\ pc = "assign"
  /\ memberCtx' = parameterCtx /\ parameterCtx' = "nullptr"
  /\ object' = config
  /\ pc' = "created"
  /\ UNCHANGED <<config, NDEBUG, error, localCtx>>

(* The call is over: with an object, an error, or the whole program.       *)
Over == pc \in {"created", "failed", "aborted"} /\ UNCHANGED createVars

Next ==
  \/ CheckLists \/ CheckKeys \/ CreateContext
  \/ InitializeMembers \/ AssertContext \/ AssertArguments \/ AssignMembers
  \/ Over

Spec == Init /\ [][Next]_createVars

-----------------------------------------------------------------------------
(* Properties.                                                             *)

(* Whatever createProtocol lets through, the constructor's assertions      *)
(* about its arguments (lines 144 to 154) find to be as they say.          *)
ArgumentsAsAsserted ==
  pc \in {"assertArguments", "assign", "created"} => ArgumentsAreConsistent

(* An error is returned only for a configuration the constructor would not *)
(* accept, or if there is no SSL context: the two lists of conditions, one *)
(* in each function, say the same.                                         *)
RefusedOnlyIfInconsistent ==
  pc = "failed" =>
    error = "FAILED_TO_CREATE_SSL_CTX" \/ ~ArgumentsAreConsistent

(* The constructor's assertion "ctx != nullptr" (line 143) holds.          *)
ContextAsserted == pc = "assertContext" => parameterCtx # "nullptr"
=============================================================================
