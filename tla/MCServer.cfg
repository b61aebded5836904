SPECIFICATION ServerSpec
CONSTANTS
  Message <- Messages
  Ranking <- Rankings
  ByteMod = 5
  SizeMod = 64
  CipherSuite = {6}
  EphemeralKeyGroup = {1, 2, 3}
  MAX_NUMBER_NEGOTIABLES = 4
  MAX_EPHEMERAL_KEY_VALUE_LENGTH = 2
INVARIANTS
  TypeOK AccessesInBounds BestCommonGroup InsecureOnlyIfAllowed 
  ArgumentsAsAsserted RefusedOnlyIfInconsistent SecurityAsConfigured
