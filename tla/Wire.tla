-------------------------------- MODULE Wire --------------------------------
(***************************************************************************)
(* The wire protocol: messages as MessagePack maps (protocol.cc), a length  *)
(* in front of each, and the loops that move the bytes through a socket or  *)
(* a named pipe, in pieces of any size (endpoint_unix.cc, endpoint_win.cc). *)
(* One direction of one connection; a reader that could not make out a       *)
(* frame gives the connection up (server.cc, client.cc).                    *)
(*                                                                          *)
(* A byte stands for itself in the length, and for a key, a value or the    *)
(* number of pairs in a body: MessagePack's own encoding of those is a      *)
(* library's.                                                               *)
(***************************************************************************)
EXTENDS Naturals, Sequences

CONSTANTS
  Messages,   \* messages of this version that may be sent
  Others,     \* bodies a peer of another version may send
  MaxBody,    \* kMaxFrameBodyBytes
  Capacity,   \* bytes the socket or the pipe holds
  MaxSends    \* bound: messages on the connection

Byte == 0 .. 255

\* No body has 2 GiB: EncodeFrame would cut its length to 32 bits.
FrameLength == {n \in Nat : n <= 2147483647}

ASSUME WireAssumption ==
  /\ MaxBody \in FrameLength \ {0}
  /\ Capacity \in Nat \ {0}
  /\ MaxSends \in Nat
  /\ Others \subseteq Seq(Byte)
  /\ \A b \in Others : Len(b) \in FrameLength

-----------------------------------------------------------------------------
(* Bodies.                                                                  *)

kProtocolVersion == 1

\* The keys, as the code names them; each is one byte here.
kKeyVersion        == 11
kKeyType           == 12
kKeyId             == 13
kKeyCode           == 14
kKeyContext        == 15
kKeyCandidates     == 16
kKeyAppId          == 17
kKeyOrder          == 18
kKeyScores         == 19
kKeyLatencyUs      == 20
kKeyModelVersion   == 21
kKeyText           == 22
kKeyErrCode        == 23
kKeyErrMsg         == 24
kKeyRerankCount    == 25
kKeyPingCount      == 26
kKeyCommitCount    == 27
kKeyErrorCount     == 28
kKeyRerankLatSum   == 29
kKeyRerankLatMax   == 30
kKeyRerankModelVer == 31
kKeyUptimeSec      == 32

\* A value of a type the field does not have: convert() throws.
Alien == 255

MessageType == 1 .. 8

\* The fields of each type, in the order they are packed.
Fields ==
  << <<kKeyId, kKeyCode, kKeyContext, kKeyCandidates, kKeyAppId>>,
     <<kKeyId, kKeyOrder, kKeyScores, kKeyLatencyUs, kKeyModelVersion>>,
     <<kKeyCode, kKeyText, kKeyContext>>,
     <<kKeyId>>,
     <<kKeyId>>,
     <<kKeyId, kKeyErrCode, kKeyErrMsg>>,
     <<kKeyId>>,
     <<kKeyId, kKeyRerankCount, kKeyPingCount, kKeyCommitCount, kKeyErrorCount,
       kKeyRerankLatSum, kKeyRerankLatMax, kKeyRerankModelVer, kKeyUptimeSec>> >>

\* A message is its type, and a value for each of its fields.
Valued == [type : MessageType, values : Seq(Byte \ {Alien})]

IsMessage(m) ==
  /\ m \in Valued
  /\ Len(m.values) = Len(Fields[m.type])

ASSUME MessageAssumption == \A m \in Messages : IsMessage(m)

\* pack_map counts the fields only.
EncodeBody_ShortMap(m) ==
  LET fields == Fields[m.type]
      keys   == <<kKeyVersion, kKeyType>> \o fields
      values == <<kProtocolVersion, m.type>> \o m.values
  IN  [i \in 1 .. 2 * Len(keys) + 1 |->
         IF i = 1 THEN Len(fields)
         ELSE IF i % 2 = 0 THEN keys[i \div 2] ELSE values[i \div 2]]

\* pack_map counts the pairs that follow, the header's two included.
EncodeBody(m) ==
  LET fields == Fields[m.type]
      keys   == <<kKeyVersion, kKeyType>> \o fields
      values == <<kProtocolVersion, m.type>> \o m.values
  IN  [i \in 1 .. 2 * Len(keys) + 1 |->
         IF i = 1 THEN Len(keys)
         ELSE IF i % 2 = 0 THEN keys[i \div 2] ELSE values[i \div 2]]

Bodies == {EncodeBody(m) : m \in Messages} \cup Others

Nothing == [type |-> 0]

\* unpack throws when the map announces more than there is.
Unpacks(body) == Len(body) >= 1 /\ Len(body) >= 1 + 2 * body[1]

\* The first pair with the key counts; 0, the default, stays if there is none
\* or its value does not convert.
MapGet(body, key) ==
  LET found == {i \in 1 .. body[1] : body[2 * i] = key}
      first == CHOOSE i \in found : \A j \in found : i <= j
  IN  IF found = {} \/ body[2 * first + 1] = Alien THEN 0 ELSE body[2 * first + 1]

DecodeBody(body) ==
  IF Len(body) = 0 \/ Len(body) > MaxBody \/ ~Unpacks(body) THEN Nothing
  ELSE LET t == MapGet(body, kKeyType) IN
       IF t \notin MessageType THEN Nothing
       ELSE [type |-> t, values |-> [i \in 1 .. Len(Fields[t]) |-> MapGet(body, Fields[t][i])]]

-----------------------------------------------------------------------------
(* Frames: four bytes of length, big-endian, and the body.                  *)

kFrameHeaderBytes == 4

WriteFrameLength(n) ==
  <<(n \div 16777216) % 256, (n \div 65536) % 256, (n \div 256) % 256, n % 256>>

\* 0 stands for nullopt: no length is 0, or more than the cap.
ReadFrameLength(h) ==
  LET n == h[1] * 16777216 + h[2] * 65536 + h[3] * 256 + h[4]
  IN  IF n > MaxBody THEN 0 ELSE n

EncodeFrame(body) == WriteFrameLength(Len(body)) \o body

-----------------------------------------------------------------------------
(* The connection.                                                          *)

VARIABLES
  sent, received,      \* bodies sent, messages handed on: history
  sending, receiving,  \* an end that is FALSE has closed the connection
  out,                 \* what WriteAll has still to write
  net,                 \* bytes under way
  got, part            \* what ReadFull has read, and of what

vars == <<sent, received, sending, receiving, out, net, got, part>>

Header == [of |-> "header", size |-> kFrameHeaderBytes]
Parts  == {Header} \cup [of : {"body"}, size : 1 .. MaxBody]

TypeOK ==
  /\ sent \in Seq(Bodies) /\ Len(sent) <= MaxSends
  /\ received \in Seq(Valued)
  /\ \A i \in 1 .. Len(received) : IsMessage(received[i])
  /\ sending \in BOOLEAN
  /\ receiving \in BOOLEAN
  /\ out \in Seq(Byte)
  /\ net \in Seq(Byte) /\ Len(net) <= Capacity
  /\ part \in Parts
  /\ got \in Seq(Byte) /\ Len(got) <= part.size

Init ==
  /\ sent = <<>> /\ received = <<>>
  /\ sending = TRUE /\ receiving = TRUE
  /\ out = <<>> /\ net = <<>>
  /\ got = <<>> /\ part = Header

Send(b) ==
  /\ sending /\ out = <<>>
  /\ Len(sent) < MaxSends
  /\ sent' = Append(sent, b)
  /\ out' = EncodeFrame(b)
  /\ UNCHANGED <<received, sending, receiving, net, got, part>>

\* Prefix and rest of a sequence.
First(s, n) == SubSeq(s, 1, n)
Rest(s, n)  == SubSeq(s, n + 1, Len(s))

\* A write() is tried only when all that is left fits.
WriteAll_AtOnce(n) ==
  /\ sending /\ receiving
  /\ n = Len(out) /\ n > 0
  /\ Len(net) + n <= Capacity
  /\ net' = net \o out
  /\ out' = <<>>
  /\ UNCHANGED <<sent, received, sending, receiving, got, part>>

\* One write(): as many bytes as there is room for, or fewer.
WriteAll(n) ==
  /\ sending /\ receiving
  /\ n \in 1 .. Len(out)
  /\ Len(net) + n <= Capacity
  /\ net' = net \o First(out, n)
  /\ out' = Rest(out, n)
  /\ UNCHANGED <<sent, received, sending, receiving, got, part>>

\* The connection is kept after a write that failed.
StopSending_Keeps ==
  /\ sending
  /\ out # <<>>
  /\ out' = <<>>
  /\ UNCHANGED <<sent, received, sending, receiving, net, got, part>>

\* The deadline, a closed peer, an error: the frame stays cut short. A sender
\* with nothing to write may close as well.
StopSending ==
  /\ sending
  /\ sending' = FALSE
  /\ out' = <<>>
  /\ UNCHANGED <<sent, received, receiving, net, got, part>>

\* One read().
ReadFull(n) ==
  /\ receiving
  /\ n \in 1 .. Len(net)
  /\ Len(got) + n <= part.size
  /\ got' = got \o First(net, n)
  /\ net' = Rest(net, n)
  /\ UNCHANGED <<sent, received, sending, receiving, out, part>>

\* On Windows both are one function, over overlapped operations.
DoIo(n, is_read) ==
  \/ is_read  /\ ReadFull(n)
  \/ ~is_read /\ WriteAll(n)

\* The deadline, the end of the stream, an error. On Windows the read that is
\* cancelled may have taken bytes with it: they are dropped too.
StopReceiving ==
  /\ receiving
  /\ receiving' = FALSE
  /\ net' = <<>>
  /\ UNCHANGED <<sent, received, sending, out, got, part>>

HeaderRead ==
  /\ receiving
  /\ part.of = "header" /\ Len(got) = part.size
  /\ ReadFrameLength(got) # 0
  /\ part' = [of |-> "body", size |-> ReadFrameLength(got)]
  /\ got' = <<>>
  /\ UNCHANGED <<sent, received, sending, receiving, out, net>>

BodyRead ==
  /\ receiving
  /\ part.of = "body" /\ Len(got) = part.size
  /\ DecodeBody(got) # Nothing
  /\ received' = Append(received, DecodeBody(got))
  /\ part' = Header
  /\ got' = <<>>
  /\ UNCHANGED <<sent, sending, receiving, out, net>>

\* A length or a body that makes no sense ends the connection.
Reject ==
  /\ Len(got) = part.size
  /\ IF part.of = "header" THEN ReadFrameLength(got) = 0
                           ELSE DecodeBody(got) = Nothing
  /\ StopReceiving

Moves ==
  \/ \E n \in 1 .. Capacity, is_read \in BOOLEAN : DoIo(n, is_read)
  \/ HeaderRead \/ BodyRead \/ Reject

Next ==
  \/ \E b \in Bodies : Send(b)
  \/ Moves
  \/ StopSending \/ StopReceiving

Spec == Init /\ [][Next]_vars /\ WF_vars(Moves)

-----------------------------------------------------------------------------
(* Properties.                                                              *)

\* What a body means, by protocol.h:9: unknown keys are ignored, and missing
\* ones take their default. Of two pairs with one key the first counts.
Meaning(body) ==
  LET pairs == 1 .. body[1]
      Says(k, v) ==
        \E i \in pairs : /\ body[2 * i] = k /\ body[2 * i + 1] = v
                         /\ \A j \in pairs : j < i => body[2 * j] # k
      Value(k) == CHOOSE v \in Byte \ {Alien} :
        Says(k, v) \/ (v = 0 /\ \A w \in Byte \ {0, Alien} : ~Says(k, w))
      OfType(t) == [type |-> t, values |-> [i \in DOMAIN Fields[t] |-> Value(Fields[t][i])]]
  IN  IF Len(body) \notin 1 .. MaxBody THEN Nothing
      ELSE IF Len(body) < 2 * body[1] + 1 THEN Nothing
      ELSE IF \E t \in MessageType : Says(kKeyType, t)
        THEN OfType(CHOOSE t \in MessageType : Says(kKeyType, t))
        ELSE Nothing

Channel == INSTANCE FrameChannel

\* However the bytes are cut and wherever a deadline strikes, the reader hands
\* on whole messages in order, each once, and none after one it did not get.
ImplementsChannel == Channel!Spec

\* A message of this version is understood as it was meant: what EncodeBody
\* packs is what DecodeBody looks for, field by field.
SameVersion ==
  \A i \in 1 .. Len(received), m \in Messages :
    sent[i] = EncodeBody(m) => received[i] = m

\* What was sent is handed on, unless an end gives the connection up.
SentArrives ==
  \A i \in 1 .. MaxSends :
    Len(sent) = i ~> Len(received) >= i \/ ~sending \/ ~receiving
=============================================================================
