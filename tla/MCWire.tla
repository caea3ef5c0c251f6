------------------------------- MODULE MCWire -------------------------------
(* Wire for TLC: one message of every type with all its fields set, and the *)
(* bodies of other versions, and worse.                                     *)
EXTENDS Wire

MCMessages ==
  {[type |-> t, values |-> [i \in 1 .. Len(Fields[t]) |-> i]] : t \in MessageType}

MCOthers ==
  { <<2, kKeyVersion, 2, kKeyType, 4>>,                    \* the id is missing
    <<4, 77, 5, kKeyType, 4, 78, 6, kKeyId, 3>>,           \* unknown keys
    <<3, kKeyType, 4, kKeyId, 3, kKeyId, 5>>,              \* a key twice
    <<2, kKeyType, 4, kKeyId, Alien>>,                     \* a string for an id
    <<2, kKeyType, Alien, kKeyId, 3>>,                     \* ... and for a type
    <<2, kKeyType, 9, kKeyId, 3>>,                         \* a type to come
    <<1, kKeyId, 3>>,                                      \* no type
    <<3, kKeyType, 4, kKeyId>>,                            \* cut short
    <<2, kKeyType, 4, kKeyId, 3, kKeyId, 5>>,              \* more than announced
    <<>>,                                                  \* nothing
    [i \in 1 .. MaxBody + 1 |-> 1] }                       \* over the cap
=============================================================================
