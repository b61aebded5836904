--------------------------- MODULE MCClientHandshake ---------------------------
(* Small instances of ClientHandshake: bytes 0 to 4, fewer than four of    *)
(* any list, keys of at most two bytes, the key groups 1 to 3, and one     *)
(* cipher suite, 6, which is sent as <<1, 1>>.                             *)
EXTENDS ClientHandshake, SequencesExt

Rankings == {<<>>, <<3>>, <<2, 1>>, <<1, 2, 3>>, <<2, 3, 2>>}

(* A key as the code reads it: type, length and value; lengths up to one   *)
(* more than the array has.                                                *)
Keys ==
  {<<type, 0, length>> \o [n \in 1 .. length |-> type] :
     type \in Byte, length \in {0, 1, MAX_EPHEMERAL_KEY_VALUE_LENGTH + 1}}

TwoKeys(head) == {head \o <<2>> \o k1 \o k2 : k1, k2 \in Keys}
ThreeKeys(head) == {head \o <<3>> \o k1 \o k2 \o k3 : k1, k2, k3 \in Keys}
(* One key more than a message may have, each without a value.             *)
TooManyKeys == {<<0, 1, 4, t, 0, 0, 1, 0, 0, 2, 0, 0, 3, 0, 0>> : t \in Byte}

(* Every short message, messages with two keys cut off anywhere, and       *)
(* messages with three and four keys.                                      *)
Messages ==
  UNION {[1 .. n -> Byte] : n \in 0 .. 5}
    \union UNION {Prefixes(m) : m \in TwoKeys(<<0, 1>>) \union TwoKeys(<<1, 2, 1>>)}
    \union ThreeKeys(<<0, 1>>) \union TooManyKeys

(* Messages of the documented form: no or one version, one or two cipher   *)
(* suites, one key.                                                        *)
DocumentedHellos ==
  {versions \o <<Len(ciphers) \div 2>> \o ciphers \o key :
     versions \in {<<0>>, <<1, 1>>}, ciphers \in {<<1, 1>>, <<1, 1, 1, 2>>}, key \in Keys}
=============================================================================
