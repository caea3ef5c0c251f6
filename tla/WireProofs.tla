----------------------------- MODULE WireProofs -----------------------------
(***************************************************************************)
(* Proofs about Wire, for any messages, bodies of other versions, capacity *)
(* and cap: however the bytes are cut, the reader hands on the messages    *)
(* that were sent, in order, until an end gives up.                        *)
(***************************************************************************)
EXTENDS Wire, Integers, SequenceTheorems, WellFoundedInduction, TLAPS

-----------------------------------------------------------------------------
(***************************************************************************)
(* Bodies.                                                                 *)
(***************************************************************************)

\* What the fields are called, which the header's two keys are not.
FieldKey == 13..32

KeysOf(t)   == <<kKeyVersion, kKeyType>> \o Fields[t]
ValuesOf(m) == <<kProtocolVersion, m.type>> \o m.values

LEMMA CapIsSmall ==
  MaxBody \in Nat /\ MaxBody # 0 /\ 1..MaxBody \subseteq FrameLength
  <1>1. MaxBody \in FrameLength /\ MaxBody # 0
    BY WireAssumption, Zenon
  <1> QED BY <1>1, SMT DEF FrameLength

\* No type has a field twice, or one that is called like the header.
LEMMA FieldsDistinct ==
  ASSUME NEW t \in MessageType
  PROVE  /\ Fields[t] \in Seq(FieldKey) /\ Len(Fields[t]) \in 1..9
         /\ \A i, j \in 1..Len(Fields[t]) : Fields[t][i] = Fields[t][j] => i = j
  <1> USE DEF Fields, kKeyId, kKeyCode, kKeyContext, kKeyCandidates, kKeyAppId,
      kKeyOrder, kKeyScores, kKeyLatencyUs, kKeyModelVersion, kKeyText,
      kKeyErrCode, kKeyErrMsg, kKeyRerankCount, kKeyPingCount, kKeyCommitCount,
      kKeyErrorCount, kKeyRerankLatSum, kKeyRerankLatMax, kKeyRerankModelVer,
      kKeyUptimeSec, FieldKey
  <1>1. CASE t = 1
    BY <1>1
  <1>2. CASE t = 2
    BY <1>2
  <1>3. CASE t = 3
    BY <1>3
  <1>4. CASE t = 4
    BY <1>4
  <1>5. CASE t = 5
    BY <1>5
  <1>6. CASE t = 6
    BY <1>6
  <1>7. CASE t = 7
    BY <1>7
  <1>8. CASE t = 8
    BY <1>8
  <1> QED BY <1>1, <1>2, <1>3, <1>4, <1>5, <1>6, <1>7, <1>8 DEF MessageType

LEMMA TwoInFront ==
  ASSUME NEW S, NEW a \in S, NEW b \in S, NEW f \in Seq(S)
  PROVE  /\ <<a, b>> \o f \in Seq(S) /\ Len(<<a, b>> \o f) = Len(f) + 2
         /\ (<<a, b>> \o f)[1] = a /\ (<<a, b>> \o f)[2] = b
         /\ \A i \in 1..Len(f) : (<<a, b>> \o f)[i + 2] = f[i]
  <1>1. <<a, b>> \in Seq(S) /\ Len(<<a, b>>) = 2 /\ <<a, b>>[1] = a /\ <<a, b>>[2] = b
    OBVIOUS
  <1>2. Len(f) \in Nat
    OBVIOUS
  <1>3. /\ <<a, b>> \o f \in Seq(S) /\ Len(<<a, b>> \o f) = 2 + Len(f)
        /\ \A i \in 1..2 + Len(f) :
             (<<a, b>> \o f)[i] = IF i <= 2 THEN <<a, b>>[i] ELSE f[i - 2]
    BY <1>1, ConcatProperties
  <1>4. \A i \in 1..Len(f) : (<<a, b>> \o f)[i + 2] = f[i]
    <2> TAKE i \in 1..Len(f)
    <2>1. i + 2 \in 1..2 + Len(f) /\ ~(i + 2 <= 2) /\ (i + 2) - 2 = i
      BY <1>2
    <2> QED BY <1>3, <2>1
  <1>5. 1 \in 1..2 + Len(f) /\ 2 \in 1..2 + Len(f)
    BY <1>2
  <1> QED BY <1>1, <1>2, <1>3, <1>4, <1>5

NoRepeat(f) == \A i, j \in 1..Len(f) : f[i] = f[j] => i = j

TwoNewInFront(f, K) ==
  /\ Len(K) = Len(f) + 2
  /\ K[1] # K[2]
  /\ \A i \in 1..Len(f) : K[i + 2] = f[i] /\ f[i] # K[1] /\ f[i] # K[2]

LEMMA Distinct ==
  ASSUME NEW S, NEW f \in Seq(S), NEW K \in Seq(S), NoRepeat(f), TwoNewInFront(f, K)
  PROVE  NoRepeat(K)
  <1> DEFINE n == Len(f)
  <1> n \in Nat
    OBVIOUS
  <1> HIDE DEF n
  <1>0. /\ Len(K) = n + 2 /\ K[1] # K[2]
        /\ \A i, j \in 1..n : f[i] = f[j] => i = j
        /\ \A i \in 1..n : f[i] # K[1] /\ f[i] # K[2]
        /\ \A i \in 1..n : K[i + 2] = f[i]
    BY DEF n, NoRepeat, TwoNewInFront
  <1>1. \A i \in 3..n + 2 : i - 2 \in 1..n /\ (i - 2) + 2 = i
    OBVIOUS
  <1>2. \A i \in 3..n + 2 : K[i] = f[i - 2]
    <2> TAKE i \in 3..n + 2
    <2>1. K[(i - 2) + 2] = f[i - 2]
      BY <1>0, <1>1
    <2> QED BY <1>1, <2>1
  <1>3. SUFFICES ASSUME NEW i \in 1..n + 2, NEW j \in 1..n + 2, K[i] = K[j]
                 PROVE  i = j
    BY <1>0 DEF NoRepeat
  <1>4. CASE i \in 3..n + 2 /\ j \in 3..n + 2
    <2>1. i - 2 = j - 2
      BY <1>0, <1>1, <1>2, <1>3, <1>4
    <2> QED BY <2>1
  <1>5. CASE i \in 3..n + 2 /\ (j = 1 \/ j = 2)
    BY <1>0, <1>1, <1>2, <1>3, <1>5
  <1>6. CASE j \in 3..n + 2 /\ (i = 1 \/ i = 2)
    BY <1>0, <1>1, <1>2, <1>3, <1>6
  <1>7. CASE (i = 1 \/ i = 2) /\ (j = 1 \/ j = 2)
    BY <1>0, <1>3, <1>7
  <1>8. (i = 1 \/ i = 2 \/ i \in 3..n + 2) /\ (j = 1 \/ j = 2 \/ j \in 3..n + 2)
    OBVIOUS
  <1> QED BY <1>4, <1>5, <1>6, <1>7, <1>8

LEMMA KeysTyped ==
  ASSUME NEW t \in MessageType
  PROVE  /\ KeysOf(t) \in Seq(Byte) /\ Len(KeysOf(t)) = Len(Fields[t]) + 2
         /\ KeysOf(t)[1] = kKeyVersion /\ KeysOf(t)[2] = kKeyType
         /\ \A i \in 1..Len(Fields[t]) : KeysOf(t)[i + 2] = Fields[t][i]
         /\ NoRepeat(KeysOf(t))
  <1> DEFINE f == Fields[t]
             K == KeysOf(t)
  <1>1. /\ f \in Seq(FieldKey)
        /\ \A i, j \in 1..Len(f) : f[i] = f[j] => i = j
    BY FieldsDistinct
  <1>2. K = <<kKeyVersion, kKeyType>> \o f
    BY DEF KeysOf
  <1> HIDE DEF f, K
  <1>3. /\ FieldKey \subseteq Byte /\ kKeyVersion \in Byte /\ kKeyType \in Byte
        /\ kKeyVersion # kKeyType
        /\ \A x \in FieldKey : x # kKeyVersion /\ x # kKeyType
    BY DEF FieldKey, Byte, kKeyVersion, kKeyType
  <1>4. f \in Seq(Byte)
    <2>1. Seq(FieldKey) \subseteq Seq(Byte)
      BY <1>3, SeqMonotonic, Zenon
    <2> QED BY <1>1, <2>1
  <1>5. /\ K \in Seq(Byte) /\ Len(K) = Len(f) + 2
        /\ K[1] = kKeyVersion /\ K[2] = kKeyType
        /\ \A i \in 1..Len(f) : K[i + 2] = f[i]
    <2> DEFINE L == <<kKeyVersion, kKeyType>> \o f
    <2>1. /\ L \in Seq(Byte) /\ Len(L) = Len(f) + 2
          /\ L[1] = kKeyVersion /\ L[2] = kKeyType
          /\ \A i \in 1..Len(f) : L[i + 2] = f[i]
      BY <1>3, <1>4, TwoInFront
    <2> QED BY <1>2, <2>1, Zenon
  <1>6. TwoNewInFront(f, K)
    <2>1. \A i \in 1..Len(f) : f[i] \in FieldKey
      BY <1>1, ElementOfSeq, Zenon
    <2> QED BY <1>3, <1>5, <2>1, Zenon DEF TwoNewInFront
  <1>7. NoRepeat(f)
    BY <1>1, Zenon DEF NoRepeat
  <1>8. NoRepeat(K)
    BY <1>4, <1>5, <1>6, <1>7, Distinct, Zenon
  <1> QED BY <1>5, <1>8, Zenon DEF f, K

LEMMA ValuesTyped ==
  ASSUME NEW m, IsMessage(m)
  PROVE  /\ ValuesOf(m) \in Seq(Byte \ {Alien})
         /\ Len(ValuesOf(m)) = Len(Fields[m.type]) + 2
         /\ ValuesOf(m)[2] = m.type
         /\ \A i \in 1..Len(Fields[m.type]) : ValuesOf(m)[i + 2] = m.values[i]
  <1>1. kProtocolVersion \in Byte \ {Alien} /\ m.type \in Byte \ {Alien}
    <2>1. m.type \in MessageType
      BY DEF IsMessage, Valued
    <2>2. kProtocolVersion \in Byte \ {Alien} /\ \A t \in MessageType : t \in Byte \ {Alien}
      BY DEF kProtocolVersion, MessageType, Byte, Alien
    <2> QED BY <2>1, <2>2, Zenon
  <1>2. m.values \in Seq(Byte \ {Alien}) /\ Len(m.values) = Len(Fields[m.type])
    BY DEF IsMessage, Valued
  <1> QED BY <1>1, <1>2, TwoInFront DEF ValuesOf

-----------------------------------------------------------------------------
(***************************************************************************)
(* What MapGet finds.                                                      *)
(***************************************************************************)

Below == {ss \in Nat \X Nat : ss[1] < ss[2]}

LEMMA LeastExists ==
  ASSUME NEW T \in SUBSET Nat, T # {}
  PROVE  \E x \in T : \A y \in T : x <= y
  <1>1. IsWellFoundedOn(Below, Nat)
    <2>1. Below = OpToRel(<, Nat)
      BY DEF Below, OpToRel
    <2> QED BY <2>1, NatLessThanWellFounded
  <1>2. PICK x \in T : \A y \in T : ~(<<y, x>> \in Below)
    BY <1>1, WFMin
  <1>3. \A y \in T : /\ <<y, x>> \in Nat \X Nat
                     /\ <<y, x>>[1] = y /\ <<y, x>>[2] = x
    OBVIOUS
  <1>4. \A y \in T : ~(y < x)
    BY <1>2, <1>3 DEF Below
  <1> QED BY <1>4

\* The pairs with a key; the first of them.
Found(body, k)    == {i \in 1..body[1] : body[2 * i] = k}
IsFirst(T, p)     == p \in T /\ \A j \in T : p <= j
Says(body, k, v)  ==
  \E i \in 1..body[1] : /\ body[2 * i] = k /\ body[2 * i + 1] = v
                        /\ \A j \in 1..body[1] : j < i => body[2 * j] # k

LEMMA MapGetNone ==
  ASSUME NEW body, NEW k, Found(body, k) = {}
  PROVE  MapGet(body, k) = 0
  BY Zenon DEF MapGet, Found

LEMMA FirstIsOne ==
  ASSUME NEW T \in SUBSET Nat, NEW p, IsFirst(T, p)
  PROVE  (CHOOSE i \in T : \A j \in T : i <= j) = p
  <1>1. \A i \in T : (\A j \in T : i <= j) => i = p
    BY DEF IsFirst
  <1>2. p \in T /\ \A j \in T : p <= j
    BY DEF IsFirst
  <1> QED BY <1>1, <1>2

LEMMA MapGetFirst ==
  ASSUME NEW body, body[1] \in Nat, NEW k, NEW p, IsFirst(Found(body, k), p)
  PROVE  MapGet(body, k) =
           IF body[2 * p + 1] = Alien THEN 0 ELSE body[2 * p + 1]
  <1>1. Found(body, k) \in SUBSET Nat
    BY DEF Found
  <1>2. (CHOOSE i \in Found(body, k) : \A j \in Found(body, k) : i <= j) = p
    BY <1>1, FirstIsOne
  <1>3. Found(body, k) # {}
    BY DEF IsFirst
  <1>4. MapGet(body, k) =
          LET first == CHOOSE i \in Found(body, k) : \A j \in Found(body, k) : i <= j
          IN  IF Found(body, k) = {} \/ body[2 * first + 1] = Alien THEN 0
              ELSE body[2 * first + 1]
    BY DEF MapGet, Found
  <1> QED BY <1>2, <1>3, <1>4

LEMMA SaysFirst ==
  ASSUME NEW body, body[1] \in Nat, NEW k, NEW p, IsFirst(Found(body, k), p), NEW v
  PROVE  Says(body, k, v) <=> v = body[2 * p + 1]
  <1>1. p \in 1..body[1] /\ body[2 * p] = k
    BY DEF IsFirst, Found
  <1>2. \A j \in 1..body[1] : j < p => body[2 * j] # k
    BY <1>1 DEF IsFirst, Found
  <1>3. ASSUME NEW i \in 1..body[1], body[2 * i] = k,
               \A j \in 1..body[1] : j < i => body[2 * j] # k
        PROVE  i = p
    <2>1. p <= i
      BY <1>3 DEF IsFirst, Found
    <2>2. ~(p < i)
      BY <1>1, <1>3
    <2> QED BY <1>1, <2>1, <2>2
  <1> QED BY <1>1, <1>2, <1>3 DEF Says

LEMMA CountIsNat ==
  ASSUME NEW body \in Seq(Byte), Len(body) >= 1
  PROVE  body[1] \in Nat
  <1>1. 1 \in 1..Len(body)
    OBVIOUS
  <1>2. body[1] \in Byte
    BY <1>1, ElementOfSeq, Zenon
  <1>3. \A x \in Byte : x \in Nat
    BY DEF Byte
  <1> QED BY <1>2, <1>3, Zenon

\* MapGet's answer is the value a pair says, and 0 when none says any.
LEMMA MapGetSays ==
  ASSUME NEW body \in Seq(Byte), Len(body) >= 1, Unpacks(body), NEW k
  PROVE  /\ MapGet(body, k) \in Byte \ {Alien}
         /\ \A v \in Byte \ {Alien} :
              (Says(body, k, v) \/ (v = 0 /\ \A w \in Byte \ {0, Alien} : ~Says(body, k, w)))
                <=> v = MapGet(body, k)
         /\ \A v \in Byte \ {0, Alien} : Says(body, k, v) <=> v = MapGet(body, k)
  <1> DEFINE g == MapGet(body, k)
  <1>1. body[1] \in Nat /\ 0 \in Byte /\ 0 # Alien
    <2>1. 0 \in Byte /\ 0 # Alien
      BY DEF Byte, Alien
    <2> QED BY <2>1, CountIsNat
  <1>2. CASE Found(body, k) = {}
    <2>1. g = 0
      BY <1>2, MapGetNone
    <2>2. \A v : ~Says(body, k, v)
      BY <1>2, Zenon DEF Says, Found
    <2> QED BY <1>1, <2>1, <2>2, Zenon
  <1>3. CASE Found(body, k) # {}
    <2>1. PICK p : IsFirst(Found(body, k), p)
      <3>1. Found(body, k) \in SUBSET Nat
        BY <1>1 DEF Found
      <3> QED BY <1>3, <3>1, LeastExists DEF IsFirst
    <2> DEFINE x == body[2 * p + 1]
    <2>2. g = IF x = Alien THEN 0 ELSE x
      BY <1>1, <2>1, MapGetFirst
    <2>3. \A v : Says(body, k, v) <=> v = x
      BY <1>1, <2>1, SaysFirst
    <2>4. x \in Byte
      <3>1. p \in 1..body[1]
        BY <2>1 DEF IsFirst, Found
      <3>2. 2 * p + 1 \in 1..Len(body)
        BY <1>1, <3>1 DEF Unpacks
      <3> QED BY <3>2
    <2> HIDE DEF g, x
    <2>5. CASE x = Alien
      <3>1. g = 0
        BY <2>2, <2>5, Zenon
      <3>2. \A v \in Byte \ {Alien} : ~Says(body, k, v)
        BY <2>3, <2>5, Zenon
      <3> QED BY <1>1, <3>1, <3>2, Zenon DEF g
    <2>6. CASE x # Alien
      <3>1. g = x /\ g \in Byte \ {Alien}
        BY <2>2, <2>4, <2>6, Zenon
      <3>2. \A v : Says(body, k, v) <=> v = g
        BY <2>3, <3>1, Zenon
      <3>3. \A v \in Byte \ {Alien} :
              (Says(body, k, v) \/ (v = 0 /\ \A w \in Byte \ {0, Alien} : ~Says(body, k, w)))
                <=> v = g
        BY <3>1, <3>2, Zenon
      <3> QED BY <3>1, <3>2, <3>3, Zenon DEF g
    <2> QED BY <2>5, <2>6, Zenon
  <1> QED BY <1>2, <1>3

LEMMA FieldsAreSequences ==
  ASSUME NEW t \in MessageType
  PROVE  DOMAIN Fields[t] = 1..Len(Fields[t]) /\ Len(Fields[t]) \in Nat
  <1> DEFINE f == Fields[t]
  <1>1. f \in Seq(FieldKey)
    BY FieldsDistinct
  <1> HIDE DEF f
  <1>2. DOMAIN f = 1..Len(f) /\ Len(f) \in Nat
    BY <1>1, LenProperties, Zenon
  <1> QED BY <1>2, Zenon DEF f

\* What DecodeBody looks up, key by key, is what the protocol gives the body
\* for a meaning.
LEMMA DecodesMeaning ==
  ASSUME NEW body \in Seq(Byte)
  PROVE  DecodeBody(body) = Meaning(body)
  <1>1. Len(body) \in Nat /\ MaxBody \in Nat
    BY CapIsSmall, LenProperties, Zenon
  <1>2. CASE Len(body) = 0 \/ Len(body) > MaxBody
    BY <1>1, <1>2 DEF DecodeBody, Meaning
  <1>3. CASE Len(body) \in 1..MaxBody /\ ~Unpacks(body)
    <2>1. DecodeBody(body) = Nothing
      BY <1>3, Zenon DEF DecodeBody
    <2>2. body[1] \in Nat
      BY <1>1, <1>3, CountIsNat
    <2>3. Len(body) < 2 * body[1] + 1
      BY <1>1, <1>3, <2>2 DEF Unpacks
    <2> QED BY <1>3, <2>1, <2>3, Zenon DEF Meaning
  <1>4. CASE Len(body) \in 1..MaxBody /\ Unpacks(body)
    <2> DEFINE Value(k) == CHOOSE v \in Byte \ {Alien} :
                 Says(body, k, v) \/ (v = 0 /\ \A w \in Byte \ {0, Alien} : ~Says(body, k, w))
               t == MapGet(body, kKeyType)
    <2>1. Len(body) >= 1
      BY <1>1, <1>4
    <2>2. \A k : Value(k) = MapGet(body, k)
      BY <1>4, <2>1, MapGetSays
    <2>3. MessageType \subseteq Byte \ {0, Alien}
      BY DEF MessageType, Byte, Alien
    <2>4. \A u \in MessageType : Says(body, kKeyType, u) <=> u = t
      <3>1. \A v \in Byte \ {0, Alien} : Says(body, kKeyType, v) <=> v = MapGet(body, kKeyType)
        BY <1>4, <2>1, MapGetSays
      <3> QED BY <2>3, <3>1
    <2>5. ~(Len(body) < 2 * body[1] + 1)
      <3>1. body[1] \in Nat
        BY <2>1, CountIsNat
      <3> QED BY <1>1, <1>4, <3>1 DEF Unpacks
    <2>6. ~(Len(body) = 0 \/ Len(body) > MaxBody)
      BY <1>1, <1>4
    <2> HIDE DEF Value
    <2>7. Meaning(body) =
            IF \E u \in MessageType : Says(body, kKeyType, u)
            THEN [type |-> CHOOSE u \in MessageType : Says(body, kKeyType, u),
                  values |-> [i \in DOMAIN Fields[CHOOSE u \in MessageType : Says(body, kKeyType, u)] |->
                     Value(Fields[CHOOSE u \in MessageType : Says(body, kKeyType, u)][i])]]
            ELSE Nothing
      BY <1>4, <2>5, Zenon DEF Meaning, Says, Value
    <2>8. CASE t \in MessageType
      <3>1. (CHOOSE u \in MessageType : Says(body, kKeyType, u)) = t
        BY <2>4, <2>8
      <3>2. \E u \in MessageType : Says(body, kKeyType, u)
        BY <2>4, <2>8
      <3>3. DOMAIN Fields[t] = 1..Len(Fields[t])
        BY <2>8, FieldsAreSequences
      <3>4. Meaning(body) = [type |-> t, values |-> [i \in 1..Len(Fields[t]) |-> Value(Fields[t][i])]]
        BY <2>7, <3>1, <3>2, <3>3, Zenon
      <3>5. DecodeBody(body) =
              [type |-> t, values |-> [i \in 1..Len(Fields[t]) |-> MapGet(body, Fields[t][i])]]
        BY <1>4, <2>6, <2>8, Zenon DEF DecodeBody
      <3>6. [i \in 1..Len(Fields[t]) |-> Value(Fields[t][i])] =
            [i \in 1..Len(Fields[t]) |-> MapGet(body, Fields[t][i])]
        BY <2>2, Zenon
      <3> QED BY <3>4, <3>5, <3>6, Zenon
    <2>9. CASE t \notin MessageType
      <3>1. ~\E u \in MessageType : Says(body, kKeyType, u)
        BY <2>4, <2>9
      <3>2. DecodeBody(body) = Nothing
        BY <1>4, <2>6, <2>9, Zenon DEF DecodeBody
      <3> QED BY <2>7, <3>1, <3>2, Zenon
    <2> QED BY <2>8, <2>9
  <1> QED BY <1>1, <1>2, <1>3, <1>4

LEMMA DecodesMessages ==
  ASSUME NEW body \in Seq(Byte), DecodeBody(body) # Nothing
  PROVE  IsMessage(DecodeBody(body)) /\ Len(body) \in 1..MaxBody
  <1> DEFINE t == MapGet(body, kKeyType)
             n == Len(Fields[t])
             values == [i \in 1..n |-> MapGet(body, Fields[t][i])]
  <1>1. Len(body) \in Nat /\ MaxBody \in Nat
    BY CapIsSmall, LenProperties, Zenon
  <1>2. /\ ~(Len(body) = 0 \/ Len(body) > MaxBody) /\ Unpacks(body)
        /\ t \in MessageType
        /\ DecodeBody(body) = [type |-> t, values |-> values]
    BY Zenon DEF DecodeBody
  <1>3. n \in Nat
    BY <1>2, FieldsAreSequences
  <1>4. \A k : MapGet(body, k) \in Byte \ {Alien}
    BY <1>1, <1>2, MapGetSays
  <1>5. values \in Seq(Byte \ {Alien}) /\ Len(values) = n
    <2> HIDE DEF n
    <2>1. values \in [1..n -> Byte \ {Alien}]
      BY <1>4, Zenon
    <2> HIDE DEF values
    <2> QED BY <1>3, <2>1
  <1>6. Len(body) \in 1..MaxBody
    BY <1>1, <1>2
  <1> HIDE DEF values
  <1> QED BY <1>2, <1>5, <1>6 DEF IsMessage, Valued

-----------------------------------------------------------------------------
(***************************************************************************)
(* What EncodeBody packs, DecodeBody finds.                                *)
(***************************************************************************)

PackedPairs(K, V) ==
  [i \in 1..2 * Len(K) + 1 |->
     IF i = 1 THEN Len(K) ELSE IF i % 2 = 0 THEN K[i \div 2] ELSE V[i \div 2]]

LEMMA Halves ==
  ASSUME NEW i \in Nat
  PROVE  /\ (2 * i) % 2 = 0 /\ (2 * i) \div 2 = i
         /\ (2 * i + 1) % 2 = 1 /\ (2 * i + 1) \div 2 = i
  OBVIOUS

LEMMA PackedRead ==
  ASSUME NEW K \in Seq(Byte), NEW V \in Seq(Byte), Len(V) = Len(K), Len(K) \in Byte
  PROVE  /\ PackedPairs(K, V) \in Seq(Byte)
         /\ Len(PackedPairs(K, V)) = 2 * Len(K) + 1
         /\ PackedPairs(K, V)[1] = Len(K)
         /\ \A i \in 1..Len(K) : /\ PackedPairs(K, V)[2 * i] = K[i]
                                 /\ PackedPairs(K, V)[2 * i + 1] = V[i]
  <1> DEFINE n == Len(K)
             b == PackedPairs(K, V)
  <1>1. n \in Nat
    OBVIOUS
  <1>2. \A i \in 1..n : K[i] \in Byte /\ V[i] \in Byte
    BY ElementOfSeq
  <1>3. \A i \in 1..2 * n + 1 :
          b[i] = IF i = 1 THEN n ELSE IF i % 2 = 0 THEN K[i \div 2] ELSE V[i \div 2]
    BY DEF PackedPairs
  <1>4. b = [i \in 1..2 * n + 1 |-> b[i]]
    BY DEF PackedPairs
  <1>5. Len(K) = n /\ n \in Byte
    OBVIOUS
  <1> HIDE DEF n, b
  <1>6. \A i \in 1..2 * n + 1 : i # 1 => i \div 2 \in 1..n
    BY <1>1
  <1>7. b \in [1..2 * n + 1 -> Byte]
    <2>1. \A i \in 1..2 * n + 1 : b[i] \in Byte
      BY <1>2, <1>3, <1>5, <1>6, Zenon
    <2> QED BY <1>4, <2>1
  <1>8. b \in Seq(Byte) /\ Len(b) = 2 * n + 1
    BY <1>1, <1>7
  <1>9. \A i \in 1..n : b[2 * i] = K[i] /\ b[2 * i + 1] = V[i]
    <2> TAKE i \in 1..n
    <2>1. i \in Nat /\ 2 * i \in 1..2 * n + 1 /\ 2 * i + 1 \in 1..2 * n + 1
      BY <1>1
    <2>2. 2 * i # 1 /\ 2 * i + 1 # 1
      BY <2>1
    <2>3. b[2 * i] = K[(2 * i) \div 2] /\ b[2 * i + 1] = V[(2 * i + 1) \div 2]
      BY <1>3, <2>1, <2>2, Halves
    <2> QED BY <2>1, <2>3, Halves
  <1>10. b[1] = n
    <2>1. 1 \in 1..2 * n + 1
      BY <1>1
    <2> QED BY <1>3, <2>1
  <1> QED BY <1>8, <1>9, <1>10, <1>5 DEF b

\* With no key twice, each finds its own value.
LEMMA PackedFound ==
  ASSUME NEW K \in Seq(Byte), NEW V \in Seq(Byte), Len(V) = Len(K), Len(K) \in Byte,
         NoRepeat(K), NEW i \in 1..Len(K), V[i] # Alien
  PROVE  MapGet(PackedPairs(K, V), K[i]) = V[i]
  <1> DEFINE b == PackedPairs(K, V)
  <1>1. /\ b[1] = Len(K)
        /\ \A j \in 1..Len(K) : b[2 * j] = K[j] /\ b[2 * j + 1] = V[j]
    BY PackedRead
  <1>2. Len(K) \in Nat
    OBVIOUS
  <1> HIDE DEF b
  <1>3. \A j \in 1..Len(K) : K[j] = K[i] => j = i
    BY DEF NoRepeat
  <1>4. Found(b, K[i]) = {i}
    <2>1. \A j \in 1..Len(K) : b[2 * j] = K[i] <=> j = i
      BY <1>1, <1>3
    <2>2. Found(b, K[i]) = {j \in 1..Len(K) : b[2 * j] = K[i]}
      BY <1>1, Zenon DEF Found
    <2> QED BY <2>1, <2>2
  <1>5. IsFirst(Found(b, K[i]), i)
    <2>1. i <= i
      BY <1>2
    <2> QED BY <1>4, <2>1 DEF IsFirst
  <1>6. MapGet(b, K[i]) = IF b[2 * i + 1] = Alien THEN 0 ELSE b[2 * i + 1]
    BY <1>1, <1>2, <1>5, MapGetFirst
  <1> QED BY <1>1, <1>6, Zenon DEF b

LEMMA EncodesPairs ==
  ASSUME NEW m, IsMessage(m)
  PROVE  /\ EncodeBody(m) = PackedPairs(KeysOf(m.type), ValuesOf(m))
         /\ KeysOf(m.type) \in Seq(Byte) /\ NoRepeat(KeysOf(m.type))
         /\ ValuesOf(m) \in Seq(Byte) /\ Len(ValuesOf(m)) = Len(KeysOf(m.type))
         /\ Len(KeysOf(m.type)) \in Byte \ {0}
  <1>1. m.type \in MessageType
    BY DEF IsMessage, Valued
  <1>2. /\ KeysOf(m.type) \in Seq(Byte) /\ NoRepeat(KeysOf(m.type))
        /\ Len(KeysOf(m.type)) = Len(Fields[m.type]) + 2
    BY <1>1, KeysTyped
  <1>3. /\ ValuesOf(m) \in Seq(Byte \ {Alien})
        /\ Len(ValuesOf(m)) = Len(Fields[m.type]) + 2
    BY ValuesTyped
  <1>4. ValuesOf(m) \in Seq(Byte)
    <2>1. Byte \ {Alien} \subseteq Byte
      OBVIOUS
    <2>2. Seq(Byte \ {Alien}) \subseteq Seq(Byte)
      BY <2>1, SeqMonotonic, Zenon
    <2> QED BY <1>3, <2>2, Zenon
  <1>5. Len(Fields[m.type]) \in 1..9
    BY <1>1, FieldsDistinct
  <1>6. \A n \in 1..9 : n + 2 \in Byte \ {0}
    BY DEF Byte
  <1>7. EncodeBody(m) = PackedPairs(KeysOf(m.type), ValuesOf(m))
    BY Zenon DEF EncodeBody, PackedPairs, KeysOf, ValuesOf
  <1> QED BY <1>2, <1>3, <1>4, <1>5, <1>6, <1>7, Zenon

LEMMA EncodedBodies ==
  ASSUME NEW m, IsMessage(m)
  PROVE  /\ EncodeBody(m) \in Seq(Byte)
         /\ Len(EncodeBody(m)) \in Nat /\ Len(EncodeBody(m)) <= 1000
         /\ Unpacks(EncodeBody(m))
  <1> DEFINE b == EncodeBody(m)
             n == Len(KeysOf(m.type))
  <1>1. /\ b \in Seq(Byte) /\ Len(b) = 2 * n + 1 /\ b[1] = n
    BY EncodesPairs, PackedRead
  <1>2. n \in Byte
    BY EncodesPairs
  <1> HIDE DEF b, n
  <1>3. n \in Nat /\ n <= 255
    BY <1>2 DEF Byte
  <1>4. Unpacks(b)
    BY <1>1, <1>3 DEF Unpacks
  <1> QED BY <1>1, <1>3, <1>4 DEF b

\* A message of this version that fits under the cap is decoded as it was.
LEMMA RoundTrip ==
  ASSUME NEW m, IsMessage(m), Len(EncodeBody(m)) <= MaxBody
  PROVE  DecodeBody(EncodeBody(m)) = m
  <1> DEFINE K == KeysOf(m.type)
             V == ValuesOf(m)
             b == EncodeBody(m)
             f == Fields[m.type]
  <1>1. /\ b = PackedPairs(K, V) /\ K \in Seq(Byte) /\ NoRepeat(K)
        /\ V \in Seq(Byte) /\ Len(V) = Len(K) /\ Len(K) \in Byte
    BY EncodesPairs
  <1>2. /\ m.type \in MessageType /\ m.type # Alien
        /\ m = [type |-> m.type, values |-> m.values]
        /\ m.values = [i \in 1..Len(f) |-> m.values[i]]
        /\ \A i \in 1..Len(f) : m.values[i] # Alien
    BY DEF IsMessage, Valued, MessageType, Alien
  <1>3. Len(f) \in Nat
    BY <1>2, FieldsAreSequences
  <1>4. /\ Len(K) = Len(f) + 2 /\ K[2] = kKeyType
        /\ \A i \in 1..Len(f) : K[i + 2] = f[i]
    BY <1>2, KeysTyped
  <1>5. V[2] = m.type /\ \A i \in 1..Len(f) : V[i + 2] = m.values[i]
    BY ValuesTyped
  <1>6. Len(b) \in Nat /\ Len(b) # 0 /\ ~(Len(b) > MaxBody) /\ Unpacks(b)
    <2>1. b \in Seq(Byte) /\ Unpacks(b)
      BY EncodedBodies
    <2> HIDE DEF b
    <2>2. Len(b) \in Nat /\ Len(b) >= 1
      BY <2>1 DEF Unpacks
    <2>3. Len(b) <= MaxBody
      BY DEF b
    <2> QED BY <2>1, <2>2, <2>3, CapIsSmall
  <1> HIDE DEF K, V, b, f
  <1>7. \A i \in 1..Len(K) : V[i] # Alien => MapGet(b, K[i]) = V[i]
    BY <1>1, PackedFound, Zenon
  <1>8. MapGet(b, kKeyType) = m.type
    <2>1. 2 \in 1..Len(K)
      BY <1>3, <1>4
    <2> QED BY <1>2, <1>4, <1>5, <1>7, <2>1, Zenon
  <1>9. \A i \in 1..Len(f) : MapGet(b, f[i]) = m.values[i]
    <2> TAKE i \in 1..Len(f)
    <2>1. i + 2 \in 1..Len(K)
      BY <1>3, <1>4
    <2> QED BY <1>2, <1>4, <1>5, <1>7, <2>1, Zenon
  <1>10. DecodeBody(b) =
           [type |-> m.type, values |-> [i \in 1..Len(f) |-> MapGet(b, f[i])]]
    BY <1>2, <1>6, <1>8, Zenon DEF DecodeBody, f
  <1>11. [i \in 1..Len(f) |-> MapGet(b, f[i])] = [i \in 1..Len(f) |-> m.values[i]]
    BY <1>9, Zenon
  <1> QED BY <1>2, <1>10, <1>11, Zenon DEF b

-----------------------------------------------------------------------------
(***************************************************************************)
(* Frames: the four bytes and the length they stand for.                   *)
(***************************************************************************)

Byte1(n) == (n \div 16777216) % 256
Byte2(n) == (n \div 65536) % 256
Byte3(n) == (n \div 256) % 256
Byte4(n) == n % 256

Quad(a, b, c, d) == a * 16777216 + b * 65536 + c * 256 + d

LEMMA Bytes == \A x : x \in Byte <=> x \in Nat /\ x < 256
  BY SMT DEF Byte

LEMMA DivideBy256 ==
  ASSUME NEW n \in Nat
  PROVE  \E q, r \in Nat : n = q * 256 + r /\ r < 256
  <1> DEFINE q == n \div 256
             r == n % 256
  <1>1. q \in Nat
    BY SMT
  <1>2. r \in Nat
    BY SMT
  <1>3. r < 256
    BY SMT
  <1>4. n = q * 256 + r
    <2> SUFFICES ASSUME NEW x, NEW y, x = n \div 256, y = n % 256
                 PROVE  n = x * 256 + y
      OBVIOUS
    <2> QED BY SMT
  <1> HIDE DEF q, r
  <1> QED BY <1>1, <1>2, <1>3, <1>4

LEMMA DivideBack ==
  ASSUME NEW q \in Nat, NEW r \in Nat
  PROVE  /\ r < 256 => (q * 256 + r) \div 256 = q /\ (q * 256 + r) % 256 = r
         /\ r < 65536 => (q * 65536 + r) \div 65536 = q
         /\ r < 16777216 => (q * 16777216 + r) \div 16777216 = q
  BY SMT

LEMMA QuadOfBytes ==
  ASSUME NEW a \in Byte, NEW b \in Byte, NEW c \in Byte, NEW d \in Byte
  PROVE  /\ Quad(a, b, c, d) \in Nat
         /\ Byte1(Quad(a, b, c, d)) = a /\ Byte2(Quad(a, b, c, d)) = b
         /\ Byte3(Quad(a, b, c, d)) = c /\ Byte4(Quad(a, b, c, d)) = d
  <1> DEFINE n == Quad(a, b, c, d)
  <1>1. /\ a \in Nat /\ b \in Nat /\ c \in Nat /\ d \in Nat
        /\ a < 256 /\ b < 256 /\ c < 256 /\ d < 256
    BY Bytes, Zenon
  <1>2. n \div 16777216 = a
    <2>1. b * 65536 + c * 256 + d \in Nat /\ b * 65536 + c * 256 + d < 16777216
      BY <1>1, SMT
    <2>2. n = a * 16777216 + (b * 65536 + c * 256 + d)
      BY <1>1, SMT DEF Quad
    <2> HIDE DEF n
    <2> QED BY <1>1, <2>1, <2>2, DivideBack, SMT
  <1>3. n \div 65536 = a * 256 + b
    <2>1. c * 256 + d \in Nat /\ c * 256 + d < 65536 /\ a * 256 + b \in Nat
      BY <1>1, SMT
    <2>2. n = (a * 256 + b) * 65536 + (c * 256 + d)
      BY <1>1, SMT DEF Quad
    <2> HIDE DEF n
    <2> QED BY <1>1, <2>1, <2>2, DivideBack, SMT
  <1>4. n \div 256 = (a * 65536 + b * 256) + c /\ n % 256 = d
    <2>1. a * 65536 + b * 256 + c \in Nat
      BY <1>1, SMT
    <2>2. n = (a * 65536 + b * 256 + c) * 256 + d
      BY <1>1, SMT DEF Quad
    <2> HIDE DEF n
    <2> QED BY <1>1, <2>1, <2>2, DivideBack, SMT
  <1>5. n \in Nat
    BY <1>1, SMT DEF Quad
  <1> HIDE DEF n
  <1>6. Byte1(n) = a
    BY <1>1, <1>2, SMT DEF Byte1
  <1>7. Byte2(n) = b
    BY <1>1, <1>3, SMT DEF Byte2
  <1>8. Byte3(n) = c
    <2>1. a * 65536 + b * 256 + c = (a * 256 + b) * 256 + c /\ a * 256 + b \in Nat
      BY <1>1, SMT
    <2> QED BY <1>1, <1>4, <2>1, DivideBack, SMT DEF Byte3
  <1>9. Byte4(n) = d
    BY <1>4, SMT DEF Byte4
  <1> QED BY <1>5, <1>6, <1>7, <1>8, <1>9 DEF n

LEMMA QuadExists ==
  ASSUME NEW n \in FrameLength
  PROVE  \E a, b, c, d \in Byte : n = Quad(a, b, c, d)
  <1>0. n \in Nat
    BY SMT DEF FrameLength
  <1>1. n <= 2147483647
    BY SMT DEF FrameLength
  <1>2. PICK q1 \in Nat, d \in Nat : n = q1 * 256 + d /\ d < 256
    BY <1>0, DivideBy256, Zenon
  <1>3. PICK q2 \in Nat, c \in Nat : q1 = q2 * 256 + c /\ c < 256
    BY DivideBy256, Zenon
  <1>4. PICK a \in Nat, b \in Nat : q2 = a * 256 + b /\ b < 256
    BY DivideBy256, Zenon
  <1>5. a < 256
    BY <1>0, <1>1, <1>2, <1>3, <1>4, SMT
  <1>6. n = Quad(a, b, c, d)
    BY <1>2, <1>3, <1>4, SMT DEF Quad
  <1> QED BY <1>2, <1>3, <1>4, <1>5, <1>6, Bytes, Zenon

LEMMA BytesOfQuad ==
  ASSUME NEW n \in FrameLength
  PROVE  /\ n = Quad(Byte1(n), Byte2(n), Byte3(n), Byte4(n))
         /\ Byte1(n) \in Byte /\ Byte2(n) \in Byte /\ Byte3(n) \in Byte /\ Byte4(n) \in Byte
  <1>1. PICK a \in Byte, b \in Byte, c \in Byte, d \in Byte : n = Quad(a, b, c, d)
    BY QuadExists, Zenon
  <1>2. Byte1(n) = a /\ Byte2(n) = b /\ Byte3(n) = c /\ Byte4(n) = d
    <2> DEFINE m == Quad(a, b, c, d)
    <2>1. Byte1(m) = a /\ Byte2(m) = b /\ Byte3(m) = c /\ Byte4(m) = d
      BY QuadOfBytes
    <2> HIDE DEF m
    <2>2. n = m
      BY <1>1, Zenon DEF m
    <2> QED BY <2>1, <2>2, Zenon
  <1> QED BY <1>1, <1>2, Zenon

LEMMA FourBytes ==
  ASSUME NEW n \in FrameLength
  PROVE  /\ WriteFrameLength(n) = <<Byte1(n), Byte2(n), Byte3(n), Byte4(n)>>
         /\ Byte1(n) \in Byte /\ Byte2(n) \in Byte /\ Byte3(n) \in Byte /\ Byte4(n) \in Byte
  <1>1. WriteFrameLength(n) = <<Byte1(n), Byte2(n), Byte3(n), Byte4(n)>>
    BY SMT DEF WriteFrameLength, Byte1, Byte2, Byte3, Byte4
  <1> QED BY <1>1, BytesOfQuad, Zenon

LEMMA LengthWritten ==
  ASSUME NEW n \in FrameLength
  PROVE  /\ WriteFrameLength(n) \in Seq(Byte) /\ Len(WriteFrameLength(n)) = 4
         /\ \A m \in FrameLength : WriteFrameLength(m) = WriteFrameLength(n) => m = n
  <1>1. ASSUME NEW a \in Byte, NEW b \in Byte, NEW c \in Byte, NEW d \in Byte
        PROVE  <<a, b, c, d>> \in Seq(Byte) /\ Len(<<a, b, c, d>>) = 4
    OBVIOUS
  <1>2. WriteFrameLength(n) \in Seq(Byte) /\ Len(WriteFrameLength(n)) = 4
    BY <1>1, FourBytes, Zenon
  <1>3. ASSUME NEW m \in FrameLength, WriteFrameLength(m) = WriteFrameLength(n)
        PROVE  m = n
    <2>1. <<Byte1(m), Byte2(m), Byte3(m), Byte4(m)>> = <<Byte1(n), Byte2(n), Byte3(n), Byte4(n)>>
      BY <1>3, FourBytes, Zenon
    <2>2. Byte1(m) = Byte1(n) /\ Byte2(m) = Byte2(n) /\ Byte3(m) = Byte3(n) /\ Byte4(m) = Byte4(n)
      BY <2>1
    <2>3. /\ m = Quad(Byte1(m), Byte2(m), Byte3(m), Byte4(m))
          /\ n = Quad(Byte1(n), Byte2(n), Byte3(n), Byte4(n))
      BY BytesOfQuad, Zenon
    <2> QED BY <2>2, <2>3, Zenon
  <1> QED BY <1>2, <1>3

\* A length that is read is the one those four bytes were written for.
LEMMA LengthRead ==
  ASSUME NEW h \in Seq(Byte), Len(h) = 4, ReadFrameLength(h) # 0
  PROVE  /\ ReadFrameLength(h) \in FrameLength /\ ReadFrameLength(h) \in 1..MaxBody
         /\ WriteFrameLength(ReadFrameLength(h)) = h
  <1> DEFINE n == Quad(h[1], h[2], h[3], h[4])
  <1>1. h[1] \in Byte /\ h[2] \in Byte /\ h[3] \in Byte /\ h[4] \in Byte
    BY ElementOfSeq
  <1>2. h = <<h[1], h[2], h[3], h[4]>>
    OBVIOUS
  <1>3. ReadFrameLength(h) = n /\ n # 0 /\ ~(n > MaxBody)
    BY SMT DEF ReadFrameLength, Quad
  <1>4. /\ n \in Nat
        /\ Byte1(n) = h[1] /\ Byte2(n) = h[2] /\ Byte3(n) = h[3] /\ Byte4(n) = h[4]
    BY <1>1, QuadOfBytes
  <1> HIDE DEF n
  <1>5. n \in 1..MaxBody
    BY <1>3, <1>4, CapIsSmall
  <1>6. n \in FrameLength
    BY <1>5, CapIsSmall
  <1>7. WriteFrameLength(n) = h
    BY <1>2, <1>4, <1>6, FourBytes, Zenon
  <1> QED BY <1>3, <1>5, <1>6, <1>7, Zenon

LEMMA BodiesFit ==
  ASSUME NEW b \in Bodies
  PROVE  /\ b \in Seq(Byte) /\ Len(b) \in FrameLength
         /\ EncodeFrame(b) \in Seq(Byte)
  <1>1. b \in Seq(Byte) /\ Len(b) \in FrameLength
    <2>1. CASE b \in Others
      BY <2>1, WireAssumption
    <2>2. CASE b \notin Others
      <3>1. PICK m \in Messages : b = EncodeBody(m)
        BY <2>2 DEF Bodies
      <3>2. IsMessage(m)
        BY MessageAssumption, Zenon
      <3>3. b \in Seq(Byte) /\ Len(b) \in Nat /\ Len(b) <= 1000
        BY <3>1, <3>2, EncodedBodies
      <3> QED BY <3>3, SMT DEF FrameLength
    <2> QED BY <2>1, <2>2
  <1>2. EncodeFrame(b) \in Seq(Byte)
    <2>1. WriteFrameLength(Len(b)) \in Seq(Byte)
      BY <1>1, LengthWritten
    <2> QED BY <1>1, <2>1, ConcatProperties, Zenon DEF EncodeFrame
  <1> QED BY <1>1, <1>2

\* A sequence and its two parts.
LEMMA FirstAndRest ==
  ASSUME NEW S, NEW s \in Seq(S), NEW n \in 1..Len(s)
  PROVE  /\ First(s, n) \in Seq(S) /\ Rest(s, n) \in Seq(S)
         /\ Len(First(s, n)) = n /\ Len(Rest(s, n)) = Len(s) - n
         /\ First(s, n) \o Rest(s, n) = s
  <1>1. Len(s) \in Nat /\ \A i \in 1..Len(s) : s[i] \in S
    BY ElementOfSeq
  <1>2. First(s, n) \in Seq(S) /\ Len(First(s, n)) = n
    <2>1. \A i \in 1..n : s[i] \in S
      BY <1>1
    <2>2. 1 <= n /\ n - 1 + 1 = n /\ n \in Int
      BY <1>1
    <2> QED BY <2>1, <2>2, SubSeqProperties DEF First
  <1>3. Rest(s, n) \in Seq(S) /\ Len(Rest(s, n)) = Len(s) - n
    <2>1. \A i \in (n + 1)..Len(s) : s[i] \in S
      BY <1>1
    <2>2. n + 1 \in Int /\ Len(s) \in Int
      BY <1>1
    <2>3. /\ Rest(s, n) \in Seq(S)
          /\ Len(Rest(s, n)) = IF n + 1 <= Len(s) THEN Len(s) - (n + 1) + 1 ELSE 0
      BY <2>1, <2>2, SubSeqProperties DEF Rest
    <2> QED BY <1>1, <2>3
  <1>4. First(s, n) \o Rest(s, n) = s
    <2>1. 1 \in 1..Len(s) + 1 /\ n \in (1 - 1)..Len(s) /\ Len(s) \in n..Len(s)
      BY <1>1
    <2>2. SubSeq(s, 1, n) \o SubSeq(s, n + 1, Len(s)) = SubSeq(s, 1, Len(s))
      BY <2>1, ConcatAdjacentSubSeq
    <2> QED BY <2>2, SubSeqFull DEF First, Rest
  <1> QED BY <1>2, <1>3, <1>4

-----------------------------------------------------------------------------
(***************************************************************************)
(* Type correctness.                                                       *)
(***************************************************************************)

LEMMA TypeInit == Init => TypeOK
  <1> SUFFICES ASSUME Init PROVE TypeOK
    OBVIOUS
  <1>1. MaxSends \in Nat /\ Capacity \in Nat
    BY WireAssumption
  <1> QED BY <1>1 DEF Init, TypeOK, Parts, Header, kFrameHeaderBytes

LEMMA SizesAreNumbers ==
  ASSUME NEW p \in Parts
  PROVE  p.size \in Nat
  BY CapIsSmall DEF Parts, Header, kFrameHeaderBytes

LEMMA WriteTyped ==
  ASSUME TypeOK, NEW n \in Nat, WriteAll(n)
  PROVE  TypeOK'
  <1>1. out' \in Seq(Byte)
    BY FirstAndRest DEF TypeOK, WriteAll
  <1>2. First(out, n) \in Seq(Byte) /\ Len(First(out, n)) = n
    BY FirstAndRest DEF TypeOK, WriteAll
  <1>3. net' \in Seq(Byte) /\ Len(net') <= Capacity
    <2>1. net \in Seq(Byte) /\ net' = net \o First(out, n) /\ Len(net) + n <= Capacity
      BY DEF TypeOK, WriteAll
    <2>2. /\ net \o First(out, n) \in Seq(Byte)
          /\ Len(net \o First(out, n)) = Len(net) + Len(First(out, n))
      BY <1>2, <2>1, ConcatProperties, Zenon
    <2> QED BY <1>2, <2>1, <2>2, Zenon
  <1> QED BY <1>1, <1>3 DEF TypeOK, WriteAll

LEMMA ReadTyped ==
  ASSUME TypeOK, NEW n \in Nat, ReadFull(n)
  PROVE  TypeOK'
  <1>1. /\ First(net, n) \in Seq(Byte) /\ Len(First(net, n)) = n
        /\ Rest(net, n) \in Seq(Byte) /\ Len(Rest(net, n)) = Len(net) - n
    BY FirstAndRest DEF TypeOK, ReadFull
  <1>2. net' \in Seq(Byte) /\ Len(net') <= Capacity
    <2>1. Len(net) <= Capacity /\ Len(net) \in Nat /\ net' = Rest(net, n)
      BY DEF TypeOK, ReadFull
    <2> QED BY <1>1, <2>1, WireAssumption
  <1>3. got' \in Seq(Byte) /\ Len(got') <= part.size
    <2>1. got \in Seq(Byte) /\ got' = got \o First(net, n) /\ Len(got) + n <= part.size
      BY DEF TypeOK, ReadFull
    <2>2. /\ got \o First(net, n) \in Seq(Byte)
          /\ Len(got \o First(net, n)) = Len(got) + Len(First(net, n))
      BY <1>1, <2>1, ConcatProperties, Zenon
    <2> QED BY <1>1, <2>1, <2>2, Zenon
  <1> QED BY <1>2, <1>3 DEF TypeOK, ReadFull

LEMMA TypeNext == TypeOK /\ [Next]_vars => TypeOK'
  <1> SUFFICES ASSUME TypeOK, [Next]_vars PROVE TypeOK'
    OBVIOUS
  <1>1. ASSUME NEW b \in Bodies, Send(b) PROVE TypeOK'
    <2>1. EncodeFrame(b) \in Seq(Byte)
      BY BodiesFit
    <2>2. /\ sent \in Seq(Bodies) /\ Len(sent) \in Nat /\ Len(sent) < MaxSends
          /\ sent' = Append(sent, b)
      BY <1>1 DEF TypeOK, Send
    <2>3. sent' \in Seq(Bodies) /\ Len(sent') = Len(sent) + 1
      BY <2>2, AppendProperties
    <2>4. Len(sent') <= MaxSends
      BY <2>2, <2>3, WireAssumption
    <2> QED BY <1>1, <2>1, <2>3, <2>4 DEF TypeOK, Send
  <1>2. ASSUME NEW n \in 1..Capacity, NEW is_read \in BOOLEAN, DoIo(n, is_read)
        PROVE  TypeOK'
    <2>1. n \in Nat
      BY WireAssumption
    <2> QED BY <1>2, <2>1, ReadTyped, WriteTyped DEF DoIo
  <1>3. ASSUME HeaderRead PROVE TypeOK'
    <2>1. part = Header
      BY <1>3 DEF TypeOK, HeaderRead, Parts
    <2>2. got \in Seq(Byte) /\ Len(got) = 4 /\ ReadFrameLength(got) # 0
      BY <1>3, <2>1 DEF TypeOK, HeaderRead, Header, kFrameHeaderBytes
    <2>3. ReadFrameLength(got) \in 1..MaxBody
      BY <2>2, LengthRead
    <2>4. /\ part' = [of |-> "body", size |-> ReadFrameLength(got)]
          /\ got' = <<>>
      BY <1>3 DEF HeaderRead
    <2>5. part' \in Parts
      BY <2>3, <2>4 DEF Parts
    <2>6. part'.size \in Nat
      BY <2>3, <2>4, CapIsSmall
    <2> HIDE DEF Parts
    <2> QED BY <1>3, <2>4, <2>5, <2>6 DEF TypeOK, HeaderRead
  <1>4. ASSUME BodyRead PROVE TypeOK'
    <2>1. got \in Seq(Byte) /\ DecodeBody(got) # Nothing
      BY <1>4 DEF TypeOK, BodyRead
    <2>2. IsMessage(DecodeBody(got))
      BY <2>1, DecodesMessages
    <2>3. /\ received \in Seq(Valued)
          /\ \A i \in 1..Len(received) : IsMessage(received[i])
          /\ received' = Append(received, DecodeBody(got))
      BY <1>4 DEF TypeOK, BodyRead
    <2>4. DecodeBody(got) \in Valued
      BY <2>2 DEF IsMessage
    <2>5. received' \in Seq(Valued) /\ \A i \in 1..Len(received') : IsMessage(received'[i])
      <3> DEFINE m == DecodeBody(got)
      <3> HIDE DEF m
      <3>1. IsMessage(m) /\ m \in Valued /\ received' = Append(received, m)
        BY <2>2, <2>3, <2>4 DEF m
      <3>2. /\ received' \in Seq(Valued) /\ Len(received') = Len(received) + 1
            /\ \A i \in 1..Len(received) : received'[i] = received[i]
            /\ received'[Len(received) + 1] = m
        BY <2>3, <3>1, AppendProperties
      <3>3. Len(received) \in Nat
        BY <2>3
      <3>4. \A i \in 1..Len(received) + 1 : i \in 1..Len(received) \/ i = Len(received) + 1
        BY <3>3
      <3> QED BY <2>3, <3>1, <3>2, <3>4, Zenon
    <2>6. part' = Header /\ got' = <<>>
      BY <1>4 DEF BodyRead
    <2>7. part' \in Parts /\ got' \in Seq(Byte) /\ Len(got') <= part'.size
      BY <2>6 DEF Parts, Header, kFrameHeaderBytes
    <2> QED BY <1>4, <2>5, <2>7 DEF TypeOK, BodyRead
  <1>5. ASSUME StopReceiving PROVE TypeOK'
    <2>1. net' = <<>> /\ receiving' = FALSE
      BY <1>5, Zenon DEF StopReceiving
    <2>2. <<>> \in Seq(Byte) /\ Len(<<>>) <= Capacity
      BY WireAssumption
    <2> QED BY <1>5, <2>1, <2>2, Zenon DEF TypeOK, StopReceiving
  <1>6. CASE Reject
    BY <1>5, <1>6 DEF Reject
  <1>7. CASE StopSending
    <2>1. out' = <<>> /\ sending' = FALSE /\ <<>> \in Seq(Byte)
      BY <1>7, EmptySeq, Zenon DEF StopSending
    <2> QED BY <1>7, <2>1, Zenon DEF TypeOK, StopSending
  <1>8. CASE UNCHANGED vars
    BY <1>8 DEF TypeOK, vars
  <1> QED BY <1>1, <1>2, <1>3, <1>4, <1>5, <1>6, <1>7, <1>8 DEF Next, Moves

\* Bytes stay bytes and messages messages; no more is under way than the
\* connection holds, and no more read than was asked for.
THEOREM TypeCorrect == Spec => []TypeOK
  <1> QED BY TypeInit, TypeNext, PTL DEF Spec

-----------------------------------------------------------------------------
(***************************************************************************)
(* Frames that follow one another.                                         *)
(***************************************************************************)

LEMMA PrefixUnique ==
  ASSUME NEW S, NEW s \in Seq(S), NEW t \in Seq(S), NEW u \in Seq(S), NEW v \in Seq(S),
         s \o u = t \o v, Len(s) = Len(t)
  PROVE  s = t /\ u = v
  <1>1. Len(s) \in Nat /\ Len(u) \in Nat /\ Len(v) \in Nat
    OBVIOUS
  <1>2. \A i \in 1..Len(s) : s[i] = t[i]
    <2> TAKE i \in 1..Len(s)
    <2>1. i \in 1..Len(s) + Len(u) /\ i \in 1..Len(t) + Len(v) /\ i <= Len(s) /\ i <= Len(t)
      BY <1>1
    <2>2. (s \o u)[i] = s[i] /\ (t \o v)[i] = t[i]
      BY <2>1, ConcatProperties
    <2> QED BY <2>2
  <1>3. s = t
    BY <1>2, SeqEqual
  <1> QED BY <1>3, ConcatSimplifications

Associate(s, t, u) == (s \o t) \o u = s \o (t \o u)

LEMMA Associates ==
  ASSUME NEW S, NEW s \in Seq(S), NEW t \in Seq(S), NEW u \in Seq(S)
  PROVE  Associate(s, t, u)
  BY ConcatAssociative DEF Associate

SameParts(w, g, r, x, b, t) ==
  /\ (w \o g) \o r = (x \o b) \o t
  /\ Len(w) = Len(x) /\ (w = x => Len(g) = Len(b))
  => g = b /\ r = t

LEMMA TwoPrefixes ==
  ASSUME NEW w \in Seq(Byte), NEW g \in Seq(Byte), NEW r \in Seq(Byte),
         NEW x \in Seq(Byte), NEW b \in Seq(Byte), NEW t \in Seq(Byte)
  PROVE  SameParts(w, g, r, x, b, t)
  <1> DEFINE u == g \o r
             v == b \o t
  <1>1. Associate(w, g, r) /\ Associate(x, b, t)
    BY Associates, Zenon
  <1>2. (w \o g) \o r = w \o u /\ (x \o b) \o t = x \o v
    BY <1>1, Zenon DEF Associate
  <1>3. u \in Seq(Byte) /\ v \in Seq(Byte)
    BY ConcatProperties
  <1>4. SUFFICES ASSUME (w \o g) \o r = (x \o b) \o t,
                        Len(w) = Len(x), w = x => Len(g) = Len(b)
                 PROVE  g = b /\ r = t
    BY Zenon DEF SameParts
  <1>5. w \o u = x \o v
    BY <1>2, <1>4, Zenon
  <1>6. w = x /\ u = v
    <2> HIDE DEF u, v
    <2> QED BY <1>3, <1>4, <1>5, PrefixUnique
  <1>7. Len(g) = Len(b) /\ g \o r = b \o t
    BY <1>4, <1>6
  <1> QED BY <1>7, PrefixUnique

LEMMA ConcatBytes ==
  ASSUME NEW s \in Seq(Byte), NEW t \in Seq(Byte)
  PROVE  /\ s \o t \in Seq(Byte) /\ Len(s \o t) = Len(s) + Len(t)
         /\ Len(s) \in Nat /\ Len(t) \in Nat
  BY ConcatProperties

SameFrame(g, r, b, t) == EncodeFrame(g) \o r = EncodeFrame(b) \o t => g = b /\ r = t

\* Where one frame ends and the next begins is never in doubt.
LEMMA FrameUnique ==
  ASSUME NEW g \in Seq(Byte), Len(g) \in FrameLength, NEW r \in Seq(Byte),
         NEW b \in Seq(Byte), Len(b) \in FrameLength, NEW t \in Seq(Byte)
  PROVE  SameFrame(g, r, b, t)
  <1> DEFINE w == WriteFrameLength(Len(g))
             x == WriteFrameLength(Len(b))
  <1>1. w \in Seq(Byte) /\ x \in Seq(Byte) /\ Len(w) = 4 /\ Len(x) = 4
    BY LengthWritten
  <1>2. w = x => Len(g) = Len(b)
    BY LengthWritten
  <1>3. (w \o g) \o r = (x \o b) \o t => g = b /\ r = t
    <2> HIDE DEF w, x
    <2>1. SameParts(w, g, r, x, b, t)
      BY <1>1, TwoPrefixes, Zenon
    <2> QED BY <1>1, <1>2, <2>1, Zenon DEF SameParts
  <1> QED BY <1>3, Zenon DEF EncodeFrame, SameFrame

\* tails[i]: the frames of the bodies from the i-th on. From k on they are all.
Laid(bodies, k, tails, all) ==
  /\ tails \in [Nat -> Seq(Byte)]
  /\ tails[Len(bodies) + 1] = <<>>
  /\ \A i \in k..Len(bodies) : tails[i] = EncodeFrame(bodies[i]) \o tails[i + 1]
  /\ tails[k] = all

LEMMA LaidMore ==
  ASSUME NEW bodies \in Seq(Bodies), NEW k \in 1..Len(bodies) + 1, NEW b \in Bodies,
         NEW tails, NEW all, Laid(bodies, k, tails, all)
  PROVE  \E more : Laid(Append(bodies, b), k, more, all \o EncodeFrame(b))
  <1> DEFINE n == Len(bodies)
             f == EncodeFrame(b)
             more == [i \in Nat |-> IF i <= n + 1 THEN tails[i] \o f ELSE <<>>]
             longer == Append(bodies, b)
  <1>1. n \in Nat /\ k \in Nat /\ k <= n + 1 /\ f \in Seq(Byte)
    BY BodiesFit
  <1>2. /\ Len(longer) = n + 1 /\ longer[n + 1] = b
        /\ \A i \in 1..n : longer[i] = bodies[i]
    BY AppendProperties
  <1>3. /\ tails \in [Nat -> Seq(Byte)] /\ tails[n + 1] = <<>> /\ tails[k] = all
        /\ \A i \in k..n : tails[i] = EncodeFrame(bodies[i]) \o tails[i + 1]
    BY Zenon DEF Laid
  <1>4. \A i \in 1..n : EncodeFrame(bodies[i]) \in Seq(Byte)
    BY BodiesFit, ElementOfSeq
  <1> HIDE DEF n, f, longer
  <1>5. \A i \in Nat : more[i] \in Seq(Byte)
    <2> TAKE i \in Nat
    <2>1. tails[i] \o f \in Seq(Byte) /\ <<>> \in Seq(Byte)
      BY <1>1, <1>3, ConcatProperties, EmptySeq
    <2> QED BY <2>1
  <1>6. more \in [Nat -> Seq(Byte)]
    BY <1>5, Zenon
  <1>7. more[(n + 1) + 1] = <<>>
    BY <1>1
  <1>8. more[k] = all \o f
    BY <1>1, <1>3
  <1>9. \A i \in k..n + 1 : more[i] = EncodeFrame(longer[i]) \o more[i + 1]
    <2> TAKE i \in k..n + 1
    <2>1. CASE i = n + 1
      <3>1. more[i] = tails[n + 1] \o f /\ more[i + 1] = <<>>
        BY <1>1, <2>1
      <3>2. EncodeFrame(longer[i]) = f
        BY <1>2, <2>1, Zenon DEF f
      <3> QED BY <1>1, <1>3, <3>1, <3>2, ConcatEmptySeq, Zenon
    <2>2. CASE i # n + 1
      <3>1. i \in 1..n /\ i \in k..n /\ i <= n + 1 /\ i + 1 <= n + 1 /\ i \in Nat /\ i + 1 \in Nat
        BY <1>1, <2>2
      <3> DEFINE e == EncodeFrame(bodies[i])
                 u == tails[i + 1]
      <3>2. e \in Seq(Byte) /\ u \in Seq(Byte) /\ EncodeFrame(longer[i]) = e
        BY <1>2, <1>3, <1>4, <3>1
      <3>3. more[i] = tails[i] \o f /\ more[i + 1] = u \o f
        BY <3>1
      <3>4. tails[i] = e \o u
        BY <1>3, <3>1
      <3> HIDE DEF e, u
      <3>5. Associate(e, u, f)
        BY <1>1, <3>2, Associates, Zenon
      <3> QED BY <3>2, <3>3, <3>4, <3>5, Zenon DEF Associate
    <2> QED BY <2>1, <2>2
  <1> HIDE DEF more
  <1> QED BY <1>2, <1>6, <1>7, <1>8, <1>9, Zenon DEF Laid, f, longer

\* The bytes that are not handed on yet: the length that stood before the body
\* being read, what is read of it, what is under way, what is still to write.
Ahead(p) == IF p.of = "header" THEN <<>> ELSE WriteFrameLength(p.size)
Stream(p, g, n, o) == ((Ahead(p) \o g) \o n) \o o

\* They begin the frames of the bodies from k on; while the sender is there
\* they are all of them.
Follows(bodies, k, open, stream) ==
  \E lost, tails : /\ lost \in Seq(Byte) /\ (open => lost = <<>>)
                   /\ Laid(bodies, k, tails, stream \o lost)

LEMMA AheadTyped ==
  ASSUME NEW p \in Parts
  PROVE  Ahead(p) \in Seq(Byte)
  <1>1. CASE p = Header
    BY <1>1, EmptySeq DEF Ahead, Header
  <1>2. CASE p # Header
    <2>1. p.of = "body" /\ p.size \in 1..MaxBody
      BY <1>2 DEF Parts
    <2>2. p.size \in FrameLength
      BY <2>1, CapIsSmall
    <2>3. Ahead(p) = WriteFrameLength(p.size)
      BY <2>1 DEF Ahead
    <2> QED BY <2>2, <2>3, LengthWritten, Zenon
  <1> QED BY <1>1, <1>2

LEMMA StreamTyped ==
  ASSUME NEW p \in Parts, NEW g \in Seq(Byte), NEW n \in Seq(Byte), NEW o \in Seq(Byte)
  PROVE  /\ Ahead(p) \in Seq(Byte) /\ Ahead(p) \o g \in Seq(Byte)
         /\ (Ahead(p) \o g) \o n \in Seq(Byte)
         /\ Stream(p, g, n, o) \in Seq(Byte)
  <1> DEFINE a == Ahead(p)
             b == a \o g
             c == b \o n
  <1>1. a \in Seq(Byte)
    BY AheadTyped
  <1> HIDE DEF a
  <1>2. b \in Seq(Byte)
    BY <1>1, ConcatProperties
  <1> HIDE DEF b
  <1>3. c \in Seq(Byte)
    BY <1>2, ConcatProperties
  <1> HIDE DEF c
  <1>4. c \o o \in Seq(Byte)
    BY <1>3, ConcatProperties
  <1> QED BY <1>1, <1>2, <1>3, <1>4, Zenon DEF Stream, a, b, c

LEMMA WriteStream ==
  ASSUME NEW p \in Parts, NEW g \in Seq(Byte), NEW n \in Seq(Byte), NEW o \in Seq(Byte),
         NEW m \in 1..Len(o)
  PROVE  Stream(p, g, n \o First(o, m), Rest(o, m)) = Stream(p, g, n, o)
  <1> DEFINE a == Ahead(p) \o g
             f == First(o, m)
             r == Rest(o, m)
             c == a \o n
  <1>1. a \in Seq(Byte) /\ c \in Seq(Byte)
    BY StreamTyped
  <1>2. f \in Seq(Byte) /\ r \in Seq(Byte) /\ f \o r = o
    BY FirstAndRest
  <1> HIDE DEF a, f, r
  <1>3. Associate(a, n, f)
    BY <1>1, <1>2, Associates, Zenon
  <1> HIDE DEF c
  <1>4. Associate(c, f, r)
    BY <1>1, <1>2, Associates, Zenon
  <1>5. a \o (n \o f) = c \o f
    BY <1>3, Zenon DEF Associate, c
  <1>6. (c \o f) \o r = c \o o
    BY <1>2, <1>4, Zenon DEF Associate
  <1> QED BY <1>5, <1>6, Zenon DEF Stream, a, f, r, c

LEMMA ReadStream ==
  ASSUME NEW p \in Parts, NEW g \in Seq(Byte), NEW n \in Seq(Byte), NEW o \in Seq(Byte),
         NEW m \in 1..Len(n)
  PROVE  Stream(p, g \o First(n, m), Rest(n, m), o) = Stream(p, g, n, o)
  <1> DEFINE a == Ahead(p)
             f == First(n, m)
             r == Rest(n, m)
             c == a \o g
  <1>1. a \in Seq(Byte) /\ c \in Seq(Byte)
    BY StreamTyped
  <1>2. f \in Seq(Byte) /\ r \in Seq(Byte) /\ f \o r = n
    BY FirstAndRest
  <1> HIDE DEF a, f, r
  <1>3. Associate(a, g, f)
    BY <1>1, <1>2, Associates, Zenon
  <1> HIDE DEF c
  <1>4. Associate(c, f, r)
    BY <1>1, <1>2, Associates, Zenon
  <1>5. a \o (g \o f) = c \o f
    BY <1>3, Zenon DEF Associate, c
  <1>6. (c \o f) \o r = c \o n
    BY <1>2, <1>4, Zenon DEF Associate
  <1> QED BY <1>5, <1>6, Zenon DEF Stream, a, f, r, c

LEMMA HeaderStream ==
  ASSUME NEW g \in Seq(Byte), Len(g) = 4, ReadFrameLength(g) # 0,
         NEW n \in Seq(Byte), NEW o \in Seq(Byte)
  PROVE  Stream([of |-> "body", size |-> ReadFrameLength(g)], <<>>, n, o)
           = Stream(Header, g, n, o)
  <1>1. Ahead([of |-> "body", size |-> ReadFrameLength(g)]) = g
    BY LengthRead DEF Ahead
  <1>2. Ahead(Header) = <<>>
    BY DEF Ahead, Header
  <1>3. g \o <<>> = g /\ <<>> \o g = g
    BY ConcatEmptySeq
  <1> QED BY <1>1, <1>2, <1>3, Zenon DEF Stream

\* A body that is queued comes after everything else.
LEMMA SendFollows ==
  ASSUME NEW bodies \in Seq(Bodies), NEW k \in 1..Len(bodies) + 1, NEW b \in Bodies,
         NEW p \in Parts, NEW g \in Seq(Byte), NEW n \in Seq(Byte),
         Follows(bodies, k, TRUE, Stream(p, g, n, <<>>))
  PROVE  Follows(Append(bodies, b), k, TRUE, Stream(p, g, n, EncodeFrame(b)))
  <1> DEFINE c == (Ahead(p) \o g) \o n
             f == EncodeFrame(b)
  <1>1. c \in Seq(Byte) /\ f \in Seq(Byte)
    BY StreamTyped, BodiesFit
  <1>2. PICK tails : Laid(bodies, k, tails, (c \o <<>>) \o <<>>)
    BY Zenon DEF Follows, Stream
  <1> HIDE DEF c
  <1>3. c \o <<>> = c
    BY <1>1, ConcatEmptySeq
  <1>4. PICK more : Laid(Append(bodies, b), k, more, c \o f)
    <2>1. Laid(bodies, k, tails, c)
      BY <1>2, <1>3, Zenon
    <2> QED BY <2>1, LaidMore, Zenon
  <1> HIDE DEF f
  <1>5. (c \o f) \o <<>> = c \o f
    <2>1. c \o f \in Seq(Byte)
      BY <1>1, ConcatProperties
    <2> QED BY <2>1, ConcatEmptySeq
  <1>6. <<>> \in Seq(Byte)
    BY EmptySeq
  <1>7. Laid(Append(bodies, b), k, more, (c \o f) \o <<>>)
    BY <1>4, <1>5, Zenon
  <1> QED BY <1>6, <1>7, Zenon DEF Follows, Stream, c, f

\* What is not written is lost, and nothing before it.
LEMMA StopFollows ==
  ASSUME NEW bodies, NEW k, NEW open,
         NEW p \in Parts, NEW g \in Seq(Byte), NEW n \in Seq(Byte), NEW o \in Seq(Byte),
         Follows(bodies, k, open, Stream(p, g, n, o))
  PROVE  Follows(bodies, k, FALSE, Stream(p, g, n, <<>>))
  <1> DEFINE c == (Ahead(p) \o g) \o n
  <1>1. c \in Seq(Byte)
    BY StreamTyped
  <1>2. PICK lost, tails : /\ lost \in Seq(Byte)
                            /\ Laid(bodies, k, tails, (c \o o) \o lost)
    BY Zenon DEF Follows, Stream
  <1> HIDE DEF c
  <1> DEFINE more == o \o lost
  <1>3. more \in Seq(Byte)
    BY <1>2, ConcatProperties
  <1>4. (c \o o) \o lost = c \o more
    <2>1. Associate(c, o, lost)
      BY <1>2, <1>1, Associates, Zenon
    <2> QED BY <2>1, Zenon DEF Associate
  <1>5. c \o <<>> = c
    BY <1>1, ConcatEmptySeq
  <1> HIDE DEF more
  <1>6. Laid(bodies, k, tails, (c \o <<>>) \o more)
    BY <1>2, <1>4, <1>5, Zenon
  <1> QED BY <1>3, <1>6, Zenon DEF Follows, Stream, c

\* The body that was read is the next that was sent.
LEMMA BodyFollows ==
  ASSUME NEW bodies \in Seq(Bodies), NEW k \in 1..Len(bodies) + 1, NEW open,
         NEW p \in Parts, NEW g \in Seq(Byte), NEW n \in Seq(Byte), NEW o \in Seq(Byte),
         p.of = "body", Len(g) = p.size,
         Follows(bodies, k, open, Stream(p, g, n, o))
  PROVE  /\ k <= Len(bodies) /\ g = bodies[k]
         /\ Follows(bodies, k + 1, open, Stream(Header, <<>>, n, o))
  <1> DEFINE wg == EncodeFrame(g)
             c == n \o o
  <1>1. Len(g) \in FrameLength /\ Ahead(p) \o g = wg
    <2>1. p # Header /\ Ahead(p) = WriteFrameLength(p.size)
      BY DEF Header, Ahead
    <2>2. p.size \in 1..MaxBody
      BY <2>1 DEF Parts
    <2>3. Len(g) \in FrameLength
      BY <2>2, CapIsSmall
    <2> QED BY <2>1, <2>3, Zenon DEF EncodeFrame
  <1>2. PICK lost, tails :
          lost \in Seq(Byte) /\ (open => lost = <<>>) /\ Laid(bodies, k, tails, ((wg \o n) \o o) \o lost)
    BY <1>1, Zenon DEF Follows, Stream
  <1> DEFINE rest == c \o lost
  <1>3. wg \in Seq(Byte) /\ Len(wg) \in Nat \ {0}
    <2> DEFINE w == WriteFrameLength(Len(g))
    <2>1. w \in Seq(Byte) /\ Len(w) = 4
      BY <1>1, LengthWritten
    <2> HIDE DEF w
    <2>2. w \o g \in Seq(Byte) /\ Len(w \o g) = 4 + Len(g) /\ Len(g) \in Nat
      BY <2>1, ConcatBytes, Zenon
    <2>3. wg = w \o g
      BY Zenon DEF EncodeFrame, w
    <2> HIDE DEF wg
    <2> QED BY <2>2, <2>3
  <1> HIDE DEF wg
  <1>5. c \in Seq(Byte)
    BY ConcatBytes
  <1>6. (wg \o n) \o o = wg \o c
    <2>1. Associate(wg, n, o)
      BY <1>3, Associates, Zenon
    <2> QED BY <2>1, Zenon DEF Associate
  <1> HIDE DEF c
  <1>7. rest \in Seq(Byte) /\ (wg \o c) \o lost = wg \o rest
    <2>1. Associate(wg, c, lost)
      BY <1>2, <1>3, <1>5, Associates, Zenon
    <2>2. rest \in Seq(Byte)
      BY <1>2, <1>5, ConcatBytes
    <2> QED BY <2>1, <2>2, Zenon DEF Associate
  <1> HIDE DEF rest
  <1>8. /\ tails \in [Nat -> Seq(Byte)] /\ tails[Len(bodies) + 1] = <<>>
        /\ \A i \in k..Len(bodies) : tails[i] = EncodeFrame(bodies[i]) \o tails[i + 1]
        /\ tails[k] = wg \o rest
    BY <1>2, <1>6, <1>7, Zenon DEF Laid
  <1>9. k \in Nat /\ k >= 1 /\ Len(bodies) \in Nat /\ k <= Len(bodies) + 1
    OBVIOUS
  <1>10. wg \o rest # <<>>
    <2>1. Len(wg \o rest) = Len(wg) + Len(rest) /\ Len(rest) \in Nat
      BY <1>3, <1>7, ConcatBytes, Zenon
    <2>2. Len(wg \o rest) # 0
      BY <1>3, <2>1
    <2>3. Len(<<>>) = 0
      OBVIOUS
    <2> QED BY <2>2, <2>3, Zenon
  <1>11. k <= Len(bodies)
    <2>1. k # Len(bodies) + 1
      BY <1>8, <1>10, Zenon
    <2> QED BY <1>9, <2>1
  <1>12. bodies[k] \in Bodies /\ tails[k] = EncodeFrame(bodies[k]) \o tails[k + 1]
    <2>1. k \in 1..Len(bodies) /\ k \in k..Len(bodies)
      BY <1>9, <1>11
    <2> QED BY <1>8, <2>1, ElementOfSeq, Zenon
  <1>13. tails[k + 1] \in Seq(Byte)
    <2>1. k + 1 \in Nat
      BY <1>9
    <2> QED BY <1>8, <2>1, Zenon
  <1>14. g = bodies[k] /\ rest = tails[k + 1]
    <2>1. bodies[k] \in Seq(Byte) /\ Len(bodies[k]) \in FrameLength
      BY <1>12, BodiesFit, Zenon
    <2>2. SameFrame(g, rest, bodies[k], tails[k + 1])
      BY <1>1, <1>7, <1>13, <2>1, FrameUnique, Zenon
    <2>3. EncodeFrame(g) \o rest = EncodeFrame(bodies[k]) \o tails[k + 1]
      BY <1>8, <1>12, Zenon DEF wg
    <2> QED BY <2>2, <2>3, Zenon DEF SameFrame
  <1>15. Laid(bodies, k + 1, tails, rest)
    <2>1. \A i \in (k + 1)..Len(bodies) : i \in k..Len(bodies)
      BY <1>9
    <2> QED BY <1>8, <1>14, <2>1, Zenon DEF Laid
  <1>16. Stream(Header, <<>>, n, o) \o lost = rest
    <2>1. Ahead(Header) = <<>>
      BY DEF Ahead, Header
    <2>2. <<>> \o <<>> = <<>> /\ <<>> \o n = n
      BY ConcatEmptySeq, EmptySeq
    <2> QED BY <2>1, <2>2, Zenon DEF Stream, rest, c
  <1> QED BY <1>2, <1>11, <1>14, <1>15, <1>16, Zenon DEF Follows

-----------------------------------------------------------------------------
(***************************************************************************)
(* The invariant: what was handed on are the first bodies, decoded; while  *)
(* both ends are there, every byte of the others is somewhere between.     *)
(***************************************************************************)

Arrived ==
  /\ Len(received) <= Len(sent)
  /\ \A i \in 1..Len(received) :
       received[i] = DecodeBody(sent[i]) /\ DecodeBody(sent[i]) # Nothing

InFlight ==
  receiving =>
    Follows(sent, Len(received) + 1, sending, Stream(part, got, net, out))

IInv == TypeOK /\ Arrived /\ InFlight

LEMMA InvInit == Init => IInv
  <1> SUFFICES ASSUME Init PROVE IInv
    OBVIOUS
  <1>1. TypeOK
    BY TypeInit
  <1>2. sent = <<>> /\ received = <<>> /\ out = <<>> /\ net = <<>> /\ got = <<>> /\ part = Header
    BY DEF Init
  <1>3. Len(received) = 0 /\ Len(sent) = 0
    BY <1>2
  <1>4. Arrived
    BY <1>3 DEF Arrived
  <1>5. Follows(<<>>, 1, sending, Stream(Header, <<>>, <<>>, <<>>))
    <2> DEFINE tails == [i \in Nat |-> <<>>]
    <2>1. Ahead(Header) = <<>>
      BY DEF Ahead, Header
    <2>2. <<>> \o <<>> = <<>> /\ <<>> \in Seq(Byte)
      BY ConcatEmptySeq, EmptySeq
    <2>3. Stream(Header, <<>>, <<>>, <<>>) \o <<>> = <<>>
      BY <2>1, <2>2, Zenon DEF Stream
    <2>4. Laid(<<>>, 1, tails, <<>>)
      <3>1. tails \in [Nat -> Seq(Byte)]
        BY <2>2
      <3>2. tails[Len(<<>>) + 1] = <<>> /\ tails[1] = <<>>
        OBVIOUS
      <3>3. \A i \in 1..Len(<<>>) : FALSE
        OBVIOUS
      <3> HIDE DEF tails
      <3> QED BY <3>1, <3>2, <3>3, Zenon DEF Laid
    <2> HIDE DEF tails
    <2> QED BY <2>2, <2>3, <2>4, Zenon DEF Follows
  <1>6. Len(received) + 1 = 1
    BY <1>3
  <1>7. InFlight
    BY <1>2, <1>5, <1>6, Zenon DEF InFlight
  <1> QED BY <1>1, <1>4, <1>7 DEF IInv

\* A later body does not change what came before it.
LEMMA SendKeeps ==
  ASSUME IInv, NEW b \in Bodies, Send(b)
  PROVE  Arrived' /\ InFlight'
  <1>1. /\ sent \in Seq(Bodies) /\ sent' = Append(sent, b) /\ UNCHANGED <<received, receiving>>
        /\ out = <<>> /\ out' = EncodeFrame(b) /\ UNCHANGED <<net, got, part>>
        /\ net \in Seq(Byte) /\ got \in Seq(Byte) /\ part \in Parts
        /\ sending /\ UNCHANGED sending /\ sending \in BOOLEAN /\ receiving \in BOOLEAN
        /\ received \in Seq(Valued)
    BY Zenon DEF IInv, TypeOK, Send
  <1>2. /\ Len(received) <= Len(sent)
        /\ \A i \in 1..Len(received) :
             received[i] = DecodeBody(sent[i]) /\ DecodeBody(sent[i]) # Nothing
    BY Zenon DEF IInv, Arrived
  <1>3. /\ Len(sent') = Len(sent) + 1
        /\ \A i \in 1..Len(sent) : sent'[i] = sent[i]
    BY <1>1, AppendProperties
  <1>4. Len(received) \in Nat /\ Len(sent) \in Nat
    BY <1>1
  <1>5. Arrived'
    <2>1. Len(received) <= Len(sent')
      BY <1>2, <1>3, <1>4
    <2>2. \A i \in 1..Len(received) : sent'[i] = sent[i]
      BY <1>2, <1>3, <1>4
    <2> QED BY <1>1, <1>2, <2>1, <2>2, Zenon DEF Arrived
  <1>6. InFlight'
    <2> SUFFICES ASSUME receiving
                 PROVE  Follows(sent', Len(received) + 1, sending, Stream(part, got, net, out'))
      BY <1>1, Zenon DEF InFlight
    <2>1. sending = TRUE
      BY <1>1, Zenon
    <2>2. Follows(sent, Len(received) + 1, TRUE, Stream(part, got, net, <<>>))
      BY <1>1, <2>1, Zenon DEF IInv, InFlight
    <2>3. Len(received) + 1 \in 1..Len(sent) + 1
      BY <1>2, <1>4
    <2>4. Follows(Append(sent, b), Len(received) + 1, TRUE, Stream(part, got, net, EncodeFrame(b)))
      BY <1>1, <2>2, <2>3, SendFollows
    <2> QED BY <1>1, <2>1, <2>4, Zenon
  <1> QED BY <1>5, <1>6

\* Moving bytes on, or reading a length, moves none out of order.
LEMMA MovesKeep ==
  ASSUME IInv,
         \/ \E n \in 1..Capacity, is_read \in BOOLEAN : DoIo(n, is_read)
         \/ HeaderRead
  PROVE  Arrived' /\ InFlight'
  <1>0. /\ net \in Seq(Byte) /\ got \in Seq(Byte) /\ out \in Seq(Byte) /\ part \in Parts
    BY Zenon DEF IInv, TypeOK
  <1>1. UNCHANGED <<sent, received, sending, receiving>>
    BY Zenon DEF DoIo, ReadFull, WriteAll, HeaderRead
  <1>2. Stream(part', got', net', out') = Stream(part, got, net, out)
    <2>1. ASSUME NEW n \in 1..Capacity, ReadFull(n)
          PROVE  Stream(part', got', net', out') = Stream(part, got, net, out)
      <3>1. /\ n \in 1..Len(net) /\ got' = got \o First(net, n) /\ net' = Rest(net, n)
            /\ out' = out /\ part' = part
        BY <2>1, Zenon DEF ReadFull
      <3>2. Stream(part, got \o First(net, n), Rest(net, n), out) = Stream(part, got, net, out)
        BY <1>0, <3>1, ReadStream, Zenon
      <3> QED BY <3>1, <3>2, Zenon
    <2>2. ASSUME NEW n \in 1..Capacity, WriteAll(n)
          PROVE  Stream(part', got', net', out') = Stream(part, got, net, out)
      <3>1. /\ n \in 1..Len(out) /\ net' = net \o First(out, n) /\ out' = Rest(out, n)
            /\ got' = got /\ part' = part
        BY <2>2, Zenon DEF WriteAll
      <3>2. Stream(part, got, net \o First(out, n), Rest(out, n)) = Stream(part, got, net, out)
        BY <1>0, <3>1, WriteStream, Zenon
      <3> QED BY <3>1, <3>2, Zenon
    <2>3. ASSUME HeaderRead
          PROVE  Stream(part', got', net', out') = Stream(part, got, net, out)
      <3>1. part = Header
        BY <2>3 DEF IInv, TypeOK, HeaderRead, Parts
      <3>2. Len(got) = 4 /\ ReadFrameLength(got) # 0
        BY <2>3, <3>1 DEF HeaderRead, Header, kFrameHeaderBytes
      <3>3. /\ part' = [of |-> "body", size |-> ReadFrameLength(got)]
            /\ got' = <<>> /\ net' = net /\ out' = out
        BY <2>3, Zenon DEF HeaderRead
      <3>4. Stream([of |-> "body", size |-> ReadFrameLength(got)], <<>>, net, out)
              = Stream(Header, got, net, out)
        BY <1>0, <3>2, HeaderStream, Zenon
      <3> QED BY <3>1, <3>3, <3>4, Zenon
    <2> QED BY <2>1, <2>2, <2>3, Zenon DEF DoIo
  <1>3. Arrived'
    BY <1>1, Zenon DEF IInv, Arrived
  <1>4. InFlight'
    BY <1>1, <1>2, Zenon DEF IInv, InFlight
  <1> QED BY <1>3, <1>4

\* The body that is handed on is the one after those handed on before.
LEMMA BodyIsNext ==
  ASSUME IInv, BodyRead
  PROVE  /\ Len(received) < Len(sent) /\ got = sent[Len(received) + 1]
         /\ Follows(sent, Len(received) + 2, sending, Stream(Header, <<>>, net, out))
  <1> DEFINE k == Len(received) + 1
  <1>1. /\ sent \in Seq(Bodies) /\ received \in Seq(Valued) /\ part \in Parts
        /\ got \in Seq(Byte) /\ net \in Seq(Byte) /\ out \in Seq(Byte)
    BY Zenon DEF IInv, TypeOK
  <1>2. Len(received) <= Len(sent) /\ Len(received) \in Nat /\ Len(sent) \in Nat
    BY <1>1 DEF IInv, Arrived
  <1>3. k \in 1..Len(sent) + 1 /\ k + 1 = Len(received) + 2
    BY <1>2
  <1>4. part.of = "body" /\ Len(got) = part.size /\ receiving
    BY Zenon DEF BodyRead
  <1>5. Follows(sent, k, sending, Stream(part, got, net, out))
    BY <1>4, Zenon DEF IInv, InFlight
  <1> HIDE DEF k
  <1>6. /\ k <= Len(sent) /\ got = sent[k]
        /\ Follows(sent, k + 1, sending, Stream(Header, <<>>, net, out))
    BY <1>1, <1>3, <1>4, <1>5, BodyFollows
  <1>7. Len(received) < Len(sent)
    BY <1>2, <1>6 DEF k
  <1> QED BY <1>3, <1>6, <1>7, Zenon DEF k

LEMMA BodyKeeps ==
  ASSUME IInv, BodyRead
  PROVE  Arrived' /\ InFlight'
  <1> DEFINE m == DecodeBody(got)
             n == Len(received)
  <1>1. /\ Len(received) < Len(sent) /\ got = sent[n + 1]
        /\ Follows(sent, n + 2, sending, Stream(Header, <<>>, net, out))
    BY BodyIsNext
  <1>2. /\ m # Nothing /\ received' = Append(received, m) /\ part' = Header /\ got' = <<>>
        /\ UNCHANGED <<sent, sending, receiving, out, net>>
    BY Zenon DEF BodyRead
  <1>3. /\ received \in Seq(Valued) /\ got \in Seq(Byte) /\ sent \in Seq(Bodies)
    BY Zenon DEF IInv, TypeOK
  <1>4. m \in Valued
    BY <1>2, <1>3, DecodesMessages DEF IsMessage
  <1>5. m = DecodeBody(sent[n + 1])
    BY <1>1, Zenon
  <1> HIDE DEF m
  <1>6. /\ Len(received') = n + 1 /\ received'[n + 1] = m
        /\ \A i \in 1..n : received'[i] = received[i]
    BY <1>2, <1>3, <1>4, AppendProperties
  <1>7. n \in Nat /\ Len(sent) \in Nat
    BY <1>3
  <1>8. \A i \in 1..n : received[i] = DecodeBody(sent[i]) /\ DecodeBody(sent[i]) # Nothing
    BY Zenon DEF IInv, Arrived
  <1> HIDE DEF n
  <1>9. Arrived'
    <2>1. n + 1 <= Len(sent)
      BY <1>1, <1>7 DEF n
    <2>2. \A i \in 1..n + 1 : i \in 1..n \/ i = n + 1
      BY <1>7
    <2> QED BY <1>2, <1>5, <1>6, <1>8, <2>1, <2>2, Zenon DEF Arrived
  <1>10. InFlight'
    <2>1. Len(received') + 1 = n + 2
      BY <1>6, <1>7
    <2> QED BY <1>1, <1>2, <2>1, Zenon DEF InFlight
  <1> QED BY <1>9, <1>10

LEMMA StopsKeep ==
  ASSUME IInv, StopSending \/ StopReceiving
  PROVE  Arrived' /\ InFlight'
  <1>1. UNCHANGED <<sent, received>>
    BY Zenon DEF StopSending, StopReceiving
  <1>2. Arrived'
    BY <1>1, Zenon DEF IInv, Arrived
  <1>3. CASE StopReceiving
    <2>1. ~receiving'
      BY <1>3, Zenon DEF StopReceiving
    <2> QED BY <1>2, <2>1, Zenon DEF InFlight
  <1>4. CASE StopSending
    <2>1. /\ sending' = FALSE /\ out' = <<>>
          /\ UNCHANGED <<receiving, net, got, part>>
      BY <1>4, Zenon DEF StopSending
    <2>2. /\ net \in Seq(Byte) /\ got \in Seq(Byte) /\ out \in Seq(Byte) /\ part \in Parts
      BY Zenon DEF IInv, TypeOK
    <2>3. SUFFICES ASSUME receiving
                   PROVE  Follows(sent, Len(received) + 1, FALSE, Stream(part, got, net, <<>>))
      BY <1>1, <1>2, <2>1, Zenon DEF InFlight
    <2>4. Follows(sent, Len(received) + 1, sending, Stream(part, got, net, out))
      BY <2>3, Zenon DEF IInv, InFlight
    <2> QED BY <2>2, <2>4, StopFollows, Zenon
  <1> QED BY <1>3, <1>4

LEMMA InvNext == IInv /\ [Next]_vars => IInv'
  <1> SUFFICES ASSUME IInv, [Next]_vars PROVE IInv'
    OBVIOUS
  <1>1. TypeOK'
    BY TypeNext DEF IInv
  <1>2. CASE \E b \in Bodies : Send(b)
    BY <1>1, <1>2, SendKeeps, Zenon DEF IInv
  <1>3. CASE \E n \in 1..Capacity, is_read \in BOOLEAN : DoIo(n, is_read)
    BY <1>1, <1>3, MovesKeep, Zenon DEF IInv
  <1>4. CASE HeaderRead
    BY <1>1, <1>4, MovesKeep, Zenon DEF IInv
  <1>5. CASE BodyRead
    BY <1>1, <1>5, BodyKeeps, Zenon DEF IInv
  <1>6. CASE Reject \/ StopSending \/ StopReceiving
    BY <1>1, <1>6, StopsKeep, Zenon DEF IInv, Reject
  <1>7. CASE UNCHANGED vars
    <2>1. Arrived' /\ InFlight'
      BY <1>7, Zenon DEF IInv, Arrived, InFlight, vars
    <2> QED BY <1>1, <2>1, Zenon DEF IInv
  <1> QED BY <1>2, <1>3, <1>4, <1>5, <1>6, <1>7, Zenon DEF Next, Moves

LEMMA Inductive == Spec => []IInv
  <1> QED BY InvInit, InvNext, PTL DEF Spec

\* What the reader hands on are the first of the bodies sent, in order and
\* decoded; and as long as neither end gives up, the bytes of the others are
\* all between the two, in order, wherever they are cut.
THEOREM NothingBetween == Spec => [](Arrived /\ InFlight)
  <1>1. IInv => Arrived /\ InFlight
    BY DEF IInv
  <1> QED BY <1>1, Inductive, PTL

\* A message of this version is handed on as it was meant, whatever its type
\* and its values, by whichever pieces it came.
THEOREM SameVersionHolds == Spec => []SameVersion
  <1>1. IInv => SameVersion
    <2> SUFFICES ASSUME IInv, NEW i \in 1..Len(received), NEW m \in Messages,
                        sent[i] = EncodeBody(m)
                 PROVE  received[i] = m
      BY Zenon DEF SameVersion
    <2>1. IsMessage(m)
      BY MessageAssumption, Zenon
    <2>2. received[i] = DecodeBody(EncodeBody(m)) /\ DecodeBody(EncodeBody(m)) # Nothing
      BY Zenon DEF IInv, Arrived
    <2>3. EncodeBody(m) \in Seq(Byte)
      BY <2>1, EncodedBodies
    <2>4. Len(EncodeBody(m)) \in 1..MaxBody
      BY <2>2, <2>3, DecodesMessages
    <2>5. Len(EncodeBody(m)) <= MaxBody
      BY <2>4
    <2> QED BY <2>1, <2>2, <2>5, RoundTrip, Zenon
  <1> QED BY <1>1, Inductive, PTL

\* The connection is a channel of whole messages (FrameChannel): every step of
\* the loops is a send, a receive or an end there, or none at all.
THEOREM ChannelImplemented == Spec => ImplementsChannel
  <1>1. Init => Channel!Init
    BY Zenon DEF Init, Channel!Init
  <1>2. IInv /\ [Next]_vars => [Channel!Next]_(Channel!vars)
    <2> SUFFICES ASSUME IInv, [Next]_vars
                 PROVE  Channel!Next \/ UNCHANGED Channel!vars
      OBVIOUS
    <2>1. ASSUME NEW b \in Bodies, Send(b)
          PROVE  Channel!Next
      BY <2>1, Zenon DEF Send, Channel!Send, Channel!Next
    <2>2. CASE \/ \E n \in 1..Capacity, is_read \in BOOLEAN : DoIo(n, is_read)
               \/ HeaderRead
      BY <2>2, Zenon DEF DoIo, ReadFull, WriteAll, HeaderRead, Channel!vars
    <2>3. CASE BodyRead
      <3>1. Len(received) < Len(sent) /\ got = sent[Len(received) + 1]
        BY <2>3, BodyIsNext, Zenon
      <3>2. got \in Seq(Byte)
        BY Zenon DEF IInv, TypeOK
      <3>3. DecodeBody(got) = Meaning(sent[Len(received) + 1])
        BY <3>1, <3>2, DecodesMeaning, Zenon
      <3>4. Channel!Receive
        BY <2>3, <3>1, <3>3, Zenon DEF BodyRead, Channel!Receive
      <3> QED BY <3>4, Zenon DEF Channel!Next
    <2>4. CASE Reject \/ StopSending \/ StopReceiving
      <3>1. Channel!End
        BY <2>4, Zenon DEF Reject, StopSending, StopReceiving, Channel!End
      <3> QED BY <3>1, Zenon DEF Channel!Next
    <2>5. CASE UNCHANGED vars
      BY <2>5, Zenon DEF vars, Channel!vars
    <2> QED BY <2>1, <2>2, <2>3, <2>4, <2>5, Zenon DEF Next, Moves
  <1> QED BY <1>1, <1>2, Inductive, PTL DEF Spec, ImplementsChannel, Channel!Spec
=============================================================================
