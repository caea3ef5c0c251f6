------------------------ MODULE RerankedOrderProofs ------------------------
(***************************************************************************)
(* Proofs about ComputeOrder, for all options, numbers of candidates and   *)
(* replies: OrderInv is inductive, and the properties follow from it. Then *)
(* about RerankedOrder, for any scores: what the rerankers return is a     *)
(* permutation of the candidates, the best first, and so the user sees it. *)
(***************************************************************************)
EXTENDS RerankedOrder, SequenceTheorems, FiniteSetTheorems, TLAPS

-----------------------------------------------------------------------------
(***************************************************************************)
(* Lemmas about the operators.                                             *)
(***************************************************************************)

\* The block lies between the protected candidates and the last one.
LEMMA Bounds ==
  ASSUME options \in Options, n \in Nat
  PROVE  /\ protect_n \in 0..n
         /\ rerank_start = protect_n + 1
         /\ rerank_end \in Int
         /\ rerank_end <= n
         /\ ~Bypass => rerank_end >= protect_n
BY DEF Options, protect_n, rerank_start, rerank_end, Bypass, AtMost, AtLeast

\* What Run(a, b) is.
LEMMA RunFacts ==
  ASSUME NEW a \in Int, NEW b \in Int, b >= a - 1, NEW S, a..b \subseteq S
  PROVE  /\ Run(a, b) \in Seq(S)
         /\ Len(Run(a, b)) = b - a + 1
         /\ \A k \in 1..(b - a + 1) : Run(a, b)[k] = a + k - 1
<1> DEFINE m == b - a + 1
           r == [k \in 1..m |-> a + k - 1]
<1>1. m \in Nat /\ m = IF b < a THEN 0 ELSE b - a + 1
  OBVIOUS
<1>2. Run(a, b) = r
  BY <1>1 DEF Run
<1>3. \A k \in 1..m : a + k - 1 \in S
  BY <1>1
<1> HIDE DEF m
<1>4. r \in Seq(S) /\ Len(r) = m /\ \A k \in 1..m : r[k] = a + k - 1
  BY <1>1, <1>3
<1>5. QED
  BY <1>2, <1>4 DEF m

\* Appending a run of the candidates to out.
LEMMA OutThenRun ==
  ASSUME n \in Int, out \in Seq(1..n), NEW a \in Int, NEW b \in Int,
         1 <= a, b >= a - 1, b <= n
  PROVE  /\ out \o Run(a, b) \in Seq(1..n)
         /\ Len(out \o Run(a, b)) = Len(out) + (b - a + 1)
         /\ \A j \in 1..Len(out) : (out \o Run(a, b))[j] = out[j]
         /\ \A j \in (Len(out) + 1)..(Len(out) + (b - a + 1)) :
              (out \o Run(a, b))[j] = a + (j - Len(out)) - 1
<1> DEFINE r == Run(a, b)
           m == b - a + 1
           S == 1..n
<1>0. a..b \subseteq S /\ out \in Seq(S)
  OBVIOUS
<1>1. m \in Nat /\ Len(out) \in Nat
  BY LenProperties
<1>2. r \in Seq(S) /\ Len(r) = m /\ \A k \in 1..m : r[k] = a + k - 1
  <2> HIDE DEF S
  <2>1. Run(a, b) \in Seq(S)
    BY <1>0, RunFacts
  <2>2. QED
    BY <1>0, <2>1, RunFacts
<1> HIDE DEF r, m, S
<1>3. /\ out \o r \in Seq(S)
      /\ Len(out \o r) = Len(out) + m
      /\ \A j \in 1..(Len(out) + m) :
           (out \o r)[j] = IF j <= Len(out) THEN out[j] ELSE r[j - Len(out)]
  BY <1>0, <1>2, ConcatProperties
<1>4. \A j \in (Len(out) + 1)..(Len(out) + m) :
        /\ j \in 1..(Len(out) + m) /\ ~(j <= Len(out)) /\ j - Len(out) \in 1..m
  BY <1>1
<1>5. \A j \in 1..Len(out) : j \in 1..(Len(out) + m) /\ j <= Len(out)
  BY <1>1
<1>6. \A j \in (Len(out) + 1)..(Len(out) + m) :
        (out \o r)[j] = a + (j - Len(out)) - 1
  BY <1>2, <1>3, <1>4
<1>7. QED
  BY <1>3, <1>5, <1>6 DEF r, m, S

\* Appending one candidate.
LEMMA AppendFacts ==
  ASSUME NEW S, NEW s \in Seq(S), NEW e \in S
  PROVE  /\ Append(s, e) \in Seq(S)
         /\ Len(s) \in Nat
         /\ Len(Append(s, e)) = Len(s) + 1
         /\ \A j \in 1..Len(s) : Append(s, e)[j] = s[j]
         /\ Append(s, e)[Len(s) + 1] = e
BY LenProperties

\* The divisions of the candidates depend on the options and their number.
LEMMA Unmoved ==
  ASSUME UNCHANGED <<options, n>>
  PROVE  /\ protect_n' = protect_n
         /\ rerank_start' = rerank_start
         /\ rerank_end' = rerank_end
         /\ Block' = Block
         /\ Bypass' = Bypass
BY DEF protect_n, rerank_start, rerank_end, Block, Bypass

\* result.indices are as many as the reply has, each one greater.
LEMMA IndicesFacts ==
  ASSUME reply \in Seq(Int)
  PROVE  /\ Len(reply) \in Nat
         /\ Len(indices) = Len(reply)
         /\ \A k \in 1..Len(reply) : indices[k] = reply[k] + 1
         /\ \A k \in 1..Len(reply) : reply[k] \in Int
<1>1. /\ reply \in [1..Len(reply) -> Int]
      /\ Len(reply) \in Nat
      /\ DOMAIN reply = 1..Len(reply)
  BY LenProperties
<1>2. indices = [k \in 1..Len(reply) |-> reply[k] + 1]
  BY <1>1 DEF indices
<1>3. Len(indices) = Len(reply)
  BY <1>1, <1>2
<1>4. QED
  BY <1>1, <1>2, <1>3

\* A bounded sequence is a sequence.
LEMMA UpToFacts ==
  ASSUME NEW S, NEW m \in Nat
  PROVE  UpTo(S, m) \subseteq Seq(S)
BY DEF UpTo
-----------------------------------------------------------------------------
(***************************************************************************)
(* The invariant.                                                          *)
(***************************************************************************)

\* Numbers in the state, and where the block is.
LEMMA Typed ==
  ASSUME TypeOK
  PROVE  /\ n \in Nat /\ i \in Nat /\ i >= 1
         /\ out \in Seq(1..n) /\ Len(out) \in Nat
         /\ \A j \in 1..Len(out) : out[j] \in 1..n
         /\ protect_n \in Nat /\ protect_n <= n
         /\ rerank_start = protect_n + 1
         /\ rerank_end \in Int /\ rerank_end <= n
         /\ ~Bypass => rerank_end >= protect_n
         /\ Block = rerank_start..rerank_end
<1>1. options \in Options /\ n \in Nat /\ i \in Nat /\ i >= 1
  BY OptionAssumption, SizeAssumption DEF TypeOK
<1>2. out \in Seq(1..n) /\ Len(out) \in Nat
      /\ \A j \in 1..Len(out) : out[j] \in 1..n
  BY LenProperties, ElementOfSeq DEF TypeOK
<1>3. QED
  BY <1>1, <1>2, Bounds DEF Block

LEMMA InitStep == Init => OrderInv
<1> SUFFICES ASSUME Init PROVE OrderInv
  OBVIOUS
<1>1. <<>> \in Seq(1..n) /\ <<>> \in Seq(Int) /\ Len(<<>>) = 0
  BY EmptySeq
<1>2. TypeOK
  BY <1>1, SizeAssumption DEF Init, TypeOK
<1>3. Emitting /\ Unrepeated /\ Following
  BY DEF Init, Emitting, Unrepeated, Following
<1>4. NothingLost /\ ProtectedStay /\ NoneTwice /\ ReplyRespected
  BY <1>1 DEF Init, NothingLost, ProtectedStay, NoneTwice, ReplyRespected,
     Distinct
<1>5. QED
  BY <1>2, <1>3, <1>4 DEF OrderInv

LEMMA KeystrokeStep ==
  ASSUME OrderInv, NEW m \in 0..MaxN, Keystroke(m)
  PROVE  OrderInv'
<1>1. <<>> \in Seq(1..n') /\ <<>> \in Seq(Int) /\ Len(<<>>) = 0
  BY EmptySeq
<1>2. TypeOK'
  BY <1>1 DEF OrderInv, TypeOK, Keystroke
<1>3. (Emitting /\ Unrepeated /\ Following)'
  BY DEF Keystroke, Emitting, Unrepeated, Following
<1>4. (NothingLost /\ ProtectedStay /\ NoneTwice /\ ReplyRespected)'
  BY <1>1 DEF Keystroke, NothingLost, ProtectedStay, NoneTwice, ReplyRespected,
              Distinct
<1>5. QED
  BY <1>2, <1>3, <1>4 DEF OrderInv

LEMMA PassThroughStep ==
  ASSUME OrderInv, PassThrough
  PROVE  OrderInv'
<1>1. TypeOK /\ Emitting
  BY DEF OrderInv
<1>2. /\ pc = "start" /\ pc' = "done" /\ reply' = <<>> /\ out' = Run(1, n)
      /\ UNCHANGED <<options, n>>
      /\ n = 0 \/ Bypass
  BY <1>1 DEF PassThrough, Emitting
<1>3. /\ out' \in Seq(1..n)
      /\ Len(out') = n
      /\ \A k \in 1..n : out'[k] = k
<2>1. n \in Int /\ 1 \in Int /\ n >= 1 - 1 /\ 1..n \subseteq 1..n
  BY <1>1, Typed
<2>2. /\ Run(1, n) \in Seq(1..n)
      /\ Len(Run(1, n)) = n - 1 + 1
      /\ \A k \in 1..(n - 1 + 1) : Run(1, n)[k] = 1 + k - 1
  BY <2>1, RunFacts
<2>3. QED
  BY <1>2, <2>1, <2>2
<1>4. TypeOK'
  BY <1>1, <1>2, <1>3, Unmoved DEF TypeOK, PassThrough
<1>5. (Emitting /\ Unrepeated /\ Following /\ ReplyRespected)'
  BY <1>2 DEF Emitting, Unrepeated, Following, ReplyRespected
<1>6. NothingLost'
  BY <1>2, <1>3 DEF NothingLost
<1>7. ProtectedStay' /\ NoneTwice'
  BY <1>1, <1>2, <1>3, Typed, Unmoved DEF ProtectedStay, NoneTwice, Distinct
<1>8. QED
  BY <1>4, <1>5, <1>6, <1>7 DEF OrderInv

LEMMA ProtectStep ==
  ASSUME OrderInv, Protect
  PROVE  OrderInv'
<1>1. TypeOK /\ Emitting
  BY DEF OrderInv
<1>2. /\ pc = "start" /\ reply = <<>> /\ emitted = {}
      /\ UNCHANGED <<options, n, reply, i, emitted>>
      /\ n > 0 /\ ~Bypass
      /\ out' = Run(1, protect_n)
      /\ pc' = IF rerank_end >= rerank_start THEN "asking" ELSE "tail"
      /\ i = 1
  BY <1>1 DEF Protect, Emitting
<1>3. /\ protect_n' = protect_n /\ rerank_start' = rerank_start
      /\ rerank_end' = rerank_end /\ Block' = Block /\ Bypass' = Bypass
  BY <1>2, Unmoved
<1>4. /\ out' \in Seq(1..n)
      /\ Len(out') = protect_n
      /\ \A k \in 1..protect_n : out'[k] = k
  BY <1>1, <1>2, RunFacts, Typed
<1>5. TypeOK'
  BY <1>1, <1>2, <1>3, <1>4 DEF TypeOK
<1>6. rerank_start..Len(out') = {}
  BY <1>1, <1>4, Typed
<1>7. Offered(rerank_start)' = {}
  BY <1>3, <1>6 DEF Offered
<1>8. pc' = "tail" => Block = {}
  BY <1>1, <1>2, Typed
<1>9. Emitting'
  BY <1>1, <1>2, <1>3, <1>4, <1>6, <1>7, <1>8, Typed DEF Emitting
<1>10. (Unrepeated /\ Following /\ ReplyRespected /\ NothingLost /\ ProtectedStay)'
  BY <1>2 DEF Unrepeated, Following, ReplyRespected, NothingLost, ProtectedStay
<1>11. NoneTwice'
  BY <1>1, <1>4, Typed DEF NoneTwice, Distinct
<1>12. QED
  BY <1>5, <1>9, <1>10, <1>11 DEF OrderInv

\* Whatever comes back.
LEMMA AskStep ==
  ASSUME OrderInv, NEW r \in Seq(Int), Ask(r)
  PROVE  OrderInv'
<1>1. TypeOK /\ Emitting
  BY DEF OrderInv
<1>2. /\ pc = "asking" /\ reply' = r /\ emitted = {} /\ i = 1
      /\ pc' = IF r = <<>> THEN "fallback" ELSE "taking"
      /\ UNCHANGED <<options, n, out, i, emitted>>
      /\ Len(out) = protect_n
  BY <1>1 DEF Ask, Emitting
<1>3. /\ protect_n' = protect_n /\ rerank_start' = rerank_start
      /\ rerank_end' = rerank_end /\ Block' = Block /\ Bypass' = Bypass
  BY <1>2, Unmoved
<1>4. r \in Seq(Int) /\ Len(r) \in Nat
  BY LenProperties
<1>5. TypeOK'
  BY <1>1, <1>2, <1>3, <1>4 DEF TypeOK
<1>6. rerank_start..Len(out) = {}
  BY <1>1, <1>2, Typed
<1>7. Offered(rerank_start)' = {}
  BY <1>2, <1>3, <1>6 DEF Offered
<1>8. Emitting'
  BY <1>1, <1>2, <1>3, <1>6, <1>7 DEF Emitting
<1>9. Unrepeated' /\ Following'
  BY <1>1, <1>2, <1>3, <1>4, <1>6, Typed DEF Unrepeated, Following
<1>10. (ReplyRespected /\ NothingLost /\ ProtectedStay)'
  BY <1>2 DEF ReplyRespected, NothingLost, ProtectedStay
<1>11. NoneTwice'
  BY <1>1, <1>2, Typed DEF NoneTwice, Distinct, Emitting
<1>12. QED
  BY <1>5, <1>8, <1>9, <1>10, <1>11 DEF OrderInv

LEMMA AskFailsStep ==
  ASSUME OrderInv, AskFails
  PROVE  OrderInv'
<1>1. TypeOK /\ Emitting /\ NoneTwice
  BY DEF OrderInv
<1>2. /\ pc = "asking" /\ pc' = "fallback" /\ reply = <<>>
      /\ UNCHANGED <<options, n, out, reply, i, emitted>>
  BY <1>1 DEF AskFails, Emitting
<1>3. /\ protect_n' = protect_n /\ rerank_start' = rerank_start
      /\ rerank_end' = rerank_end /\ Block' = Block /\ Bypass' = Bypass
  BY <1>2, Unmoved
<1>4. TypeOK'
  BY <1>1, <1>2, <1>3 DEF TypeOK
<1>5. Emitting'
  BY <1>1, <1>2, <1>3 DEF Emitting
<1>6. (Unrepeated /\ Following /\ ReplyRespected /\ NothingLost /\ ProtectedStay)'
  BY <1>2 DEF Unrepeated, Following, ReplyRespected, NothingLost, ProtectedStay
<1>7. NoneTwice'
  BY <1>1, <1>2 DEF NoneTwice
<1>8. QED
  BY <1>4, <1>5, <1>6, <1>7 DEF OrderInv

LEMMA TakeIndexStep ==
  ASSUME OrderInv, TakeIndex
  PROVE  OrderInv'
<1> DEFINE actual == indices[i] + protect_n
<1>1. TypeOK /\ Emitting /\ Unrepeated /\ Following /\ NoneTwice
  BY DEF OrderInv
<1>0. /\ n \in Int /\ i \in Int /\ i >= 1
      /\ Len(out) \in Int /\ Len(out) >= 0
      /\ protect_n \in Int /\ 0 <= protect_n /\ protect_n <= n
      /\ rerank_start = protect_n + 1
      /\ rerank_end \in Int /\ rerank_end <= n
      /\ Block = rerank_start..rerank_end
  BY <1>1, Typed
<1>2. /\ pc = "taking" /\ pc' = "taking" /\ i' = i + 1
      /\ UNCHANGED <<options, n, pc, reply>>
      /\ i <= Len(indices)
      /\ IF actual \in Block
           THEN out' = Append(out, actual) /\ emitted' = emitted \cup {actual}
           ELSE UNCHANGED <<out, emitted>>
  BY DEF TakeIndex
<1>3. /\ protect_n' = protect_n /\ rerank_start' = rerank_start
      /\ rerank_end' = rerank_end /\ Block' = Block /\ Bypass' = Bypass
  BY <1>2, Unmoved
<1>4. /\ reply \in Seq(Int) /\ Len(reply) \in Nat
      /\ \A k \in 1..Len(reply) : reply[k] \in Int
      /\ i \in 1..Len(reply)
      /\ actual = rerank_start + reply[i]
  <2>1. /\ reply \in Seq(Int) /\ Len(reply) \in Nat /\ Len(indices) = Len(reply)
        /\ \A k \in 1..Len(reply) : indices[k] = reply[k] + 1
        /\ \A k \in 1..Len(reply) : reply[k] \in Int
    BY <1>1, IndicesFacts DEF TypeOK
  <2>2. i \in 1..Len(reply)
    BY <1>0, <1>2, <2>1
  <2>3. indices[i] = reply[i] + 1 /\ reply[i] \in Int
    BY <2>1, <2>2
  <2>4. actual = rerank_start + reply[i]
    <3> HIDE DEF actual
    <3>1. actual = indices[i] + protect_n
      BY DEF actual
    <3>2. QED
      BY <1>0, <2>3, <3>1
  <2>5. QED
    BY <2>1, <2>2, <2>4
<1>5. /\ n > 0 /\ ~Bypass /\ protect_n <= Len(out)
      /\ \A j \in 1..protect_n : out[j] = j
      /\ \A j \in rerank_start..Len(out) : out[j] \in Block
      /\ rerank_start <= rerank_end
      /\ Offered(rerank_start) = emitted
      /\ emitted \subseteq Block
  BY <1>1, <1>2 DEF Emitting, TypeOK
<1>6. (ReplyRespected /\ NothingLost /\ ProtectedStay)'
  BY <1>2 DEF ReplyRespected, NothingLost, ProtectedStay
<1> HIDE DEF actual
<1>7. CASE actual \in Block
  <2>1. out' = Append(out, actual) /\ emitted' = emitted \cup {actual}
    BY <1>2, <1>7
  <2>2. actual \in 1..n
    BY <1>0, <1>7
  <2>3. /\ out' \in Seq(1..n)
        /\ Len(out') = Len(out) + 1
        /\ \A j \in 1..Len(out) : out'[j] = out[j]
        /\ out'[Len(out) + 1] = actual
    BY <1>1, <2>1, <2>2, AppendFacts, Typed
  <2>4. \A j \in rerank_start..Len(out') :
          \/ j \in rerank_start..Len(out) /\ out'[j] = out[j]
          \/ j = Len(out) + 1 /\ out'[j] = actual
    BY <1>0, <2>3
  <2>5. TypeOK'
    BY <1>1, <1>2, <1>3, <1>7, <2>1, <2>3 DEF TypeOK
  <2>6. Offered(rerank_start)' = emitted'
    <3>1. \A j \in rerank_start..Len(out') : out'[j] \in emitted'
      BY <1>5, <2>1, <2>4 DEF Offered
    <3>2. \A j \in rerank_start..Len(out) :
            j \in rerank_start..Len(out') /\ out'[j] = out[j]
      BY <1>0, <2>3
    <3>3. Len(out) + 1 \in rerank_start..Len(out')
      BY <1>0, <1>5, <2>3
    <3>4. \A e \in emitted' : \E j \in rerank_start..Len(out') : out'[j] = e
      BY <1>5, <2>1, <2>3, <3>2, <3>3 DEF Offered
    <3>5. QED
      BY <1>3, <3>1, <3>4 DEF Offered
  <2>7. Emitting'
    <3>1. \A j \in 1..protect_n : out'[j] = j
      <4>1. \A j \in 1..protect_n : j \in 1..Len(out)
        BY <1>0, <1>5
      <4>2. QED
        BY <1>5, <2>3, <4>1
    <3>2. \A j \in rerank_start..Len(out') : out'[j] \in Block
      BY <1>5, <1>7, <2>4
    <3>3. protect_n <= Len(out')
      BY <1>0, <1>5, <2>3
    <3>4. QED
      BY <1>2, <1>3, <1>5, <2>6, <3>1, <3>2, <3>3 DEF Emitting
  <2>8. Unrepeated'
    <3>1. ASSUME Distinct(reply), NEW j \in (i + 1)..Len(reply)
          PROVE  rerank_start + reply[j] \notin emitted'
      <4>1. j \in i..Len(reply) /\ j \in 1..Len(reply) /\ j # i
        BY <1>4, <3>1
      <4>2. reply[j] # reply[i]
        BY <1>4, <3>1, <4>1 DEF Distinct
      <4>3. rerank_start + reply[j] # actual
        BY <1>0, <1>4, <4>1, <4>2
      <4>4. QED
        BY <1>1, <1>2, <2>1, <3>1, <4>1, <4>3 DEF Unrepeated
    <3>2. i' <= Len(reply) + 1
      BY <1>2, <1>4
    <3>3. QED
      BY <1>2, <1>3, <3>1, <3>2 DEF Unrepeated
  <2>9. Following'
    <3>1. ASSUME reply # <<>>, Permutes(reply, rerank_end - protect_n)
          PROVE  /\ Len(out') = protect_n + i' - 1
                 /\ \A j \in rerank_start..Len(out') :
                      out'[j] = rerank_start + reply[j - protect_n]
      <4>1. /\ Len(out) = protect_n + i - 1
            /\ \A j \in rerank_start..Len(out) :
                 out[j] = rerank_start + reply[j - protect_n]
        BY <1>1, <1>2, <3>1 DEF Following
      <4>2. (Len(out) + 1) - protect_n = i
        BY <1>0, <4>1
      <4>3. Len(out') = protect_n + i' - 1
        BY <1>0, <1>2, <2>3, <4>1
      <4>4. ASSUME NEW j \in rerank_start..Len(out')
            PROVE  out'[j] = rerank_start + reply[j - protect_n]
        <5>1. CASE j \in rerank_start..Len(out) /\ out'[j] = out[j]
          BY <4>1, <5>1
        <5>2. CASE j = Len(out) + 1 /\ out'[j] = actual
          BY <1>4, <4>2, <5>2
        <5>3. QED
          BY <2>4, <5>1, <5>2
      <4>5. QED
        BY <4>3, <4>4
    <3>2. QED
      BY <1>2, <1>3, <3>1 DEF Following
  <2>10. NoneTwice'
    <3>1. ASSUME Distinct(reply) PROVE Distinct(out')
      <4>1. Distinct(out)
        BY <1>1, <3>1 DEF NoneTwice
      <4>2. actual \notin emitted
        BY <1>1, <1>2, <1>4, <3>1 DEF Unrepeated
      <4>3. \A j \in 1..Len(out) : out[j] # actual
        <5>1. \A j \in 1..protect_n : out[j] # actual
          BY <1>0, <1>5, <1>7
        <5>2. \A j \in rerank_start..Len(out) : out[j] # actual
          BY <1>5, <4>2 DEF Offered
        <5>3. QED
          BY <1>0, <5>1, <5>2
      <4>4. \A j \in 1..Len(out') : j \in 1..Len(out) \/ j = Len(out) + 1
        BY <1>0, <2>3
      <4>5. QED
        BY <2>3, <4>1, <4>3, <4>4 DEF Distinct
    <3>2. QED
      BY <1>2, <3>1 DEF NoneTwice
  <2>11. QED
    BY <1>6, <2>5, <2>7, <2>8, <2>9, <2>10 DEF OrderInv
<1>8. CASE actual \notin Block
  <2>1. UNCHANGED <<out, emitted>>
    BY <1>2, <1>8
  <2>2. TypeOK'
    BY <1>1, <1>2, <1>3, <2>1 DEF TypeOK
  <2>3. Emitting'
    BY <1>1, <1>2, <1>3, <1>5, <2>1 DEF Emitting, Offered
  <2>4. Unrepeated'
    <3>1. ASSUME Distinct(reply), NEW j \in (i + 1)..Len(reply)
          PROVE  rerank_start + reply[j] \notin emitted
      BY <1>1, <1>2, <1>4, <3>1 DEF Unrepeated
    <3>2. i' <= Len(reply) + 1
      BY <1>2, <1>4
    <3>3. QED
      BY <1>2, <1>3, <2>1, <3>1, <3>2 DEF Unrepeated
  <2>5. ~Permutes(reply, rerank_end - protect_n)
    <3>1. SUFFICES ASSUME Permutes(reply, rerank_end - protect_n) PROVE FALSE
      OBVIOUS
    <3>2. reply[i] \in 0..(rerank_end - protect_n - 1)
      BY <1>4, <3>1 DEF Permutes
    <3>3. QED
      BY <1>0, <1>4, <1>8, <3>2
  <2>6. Following'
    BY <1>2, <1>3, <2>5 DEF Following
  <2>7. NoneTwice'
    BY <1>1, <1>2, <2>1 DEF NoneTwice
  <2>8. QED
    BY <1>6, <2>2, <2>3, <2>4, <2>6, <2>7 DEF OrderInv
<1>9. QED
  BY <1>7, <1>8

LEMMA TakenStep ==
  ASSUME OrderInv, Taken
  PROVE  OrderInv'
<1>1. TypeOK /\ Emitting /\ Unrepeated /\ Following /\ NoneTwice
  BY DEF OrderInv
<1>0. /\ n \in Int /\ i \in Int /\ i >= 1
      /\ Len(out) \in Int /\ Len(out) >= 0
      /\ protect_n \in Int /\ 0 <= protect_n /\ protect_n <= n
      /\ rerank_start = protect_n + 1
      /\ rerank_end \in Int /\ rerank_end <= n
      /\ Block = rerank_start..rerank_end
  BY <1>1, Typed
<1>2. /\ pc = "taking" /\ pc' = "filling" /\ i' = rerank_start
      /\ UNCHANGED <<options, n, out, reply, emitted>>
      /\ i > Len(indices)
  BY DEF Taken
<1>3. /\ protect_n' = protect_n /\ rerank_start' = rerank_start
      /\ rerank_end' = rerank_end /\ Block' = Block /\ Bypass' = Bypass
  BY <1>2, Unmoved
<1>4. Len(reply) \in Nat /\ i = Len(reply) + 1
  <2>1. Len(reply) \in Nat /\ Len(indices) = Len(reply)
    BY <1>1, IndicesFacts DEF TypeOK
  <2>2. i <= Len(reply) + 1
    BY <1>1, <1>2 DEF Unrepeated
  <2>3. QED
    BY <1>0, <1>2, <2>1, <2>2
<1>5. TypeOK'
  BY <1>0, <1>1, <1>2, <1>3 DEF TypeOK
<1>6. Emitting'
  <2>1. Offered(rerank_start)' = emitted' /\ rerank_start..(i' - 1) = {}
    BY <1>0, <1>1, <1>2, <1>3 DEF Emitting, Offered
  <2>2. i' \in rerank_start..(rerank_end + 1)
    BY <1>0, <1>1, <1>2 DEF Emitting
  <2>3. QED
    BY <1>1, <1>2, <1>3, <2>1, <2>2 DEF Emitting
<1>7. Following'
  <2>1. ASSUME reply # <<>>, Permutes(reply, rerank_end - protect_n)
        PROVE  /\ Len(out) = rerank_end
               /\ emitted = Block
               /\ \A j \in rerank_start..Len(out) :
                    out[j] = rerank_start + reply[j - protect_n]
    <3>1. /\ Len(out) = protect_n + i - 1
          /\ \A j \in rerank_start..Len(out) :
               out[j] = rerank_start + reply[j - protect_n]
      BY <1>1, <1>2, <2>1 DEF Following
    <3>2. Len(out) = rerank_end
      BY <1>0, <1>1, <1>4, <2>1, <3>1 DEF Permutes
    <3>3. ASSUME NEW b \in Block PROVE b \in emitted
      <4>1. b - rerank_start \in 0..(rerank_end - protect_n - 1)
        BY <1>0, <1>1
      <4>2. PICK j \in 1..(rerank_end - protect_n) : reply[j] = b - rerank_start
        BY <2>1, <4>1 DEF Permutes
      <4>3. /\ j + protect_n \in rerank_start..Len(out)
            /\ (j + protect_n) - protect_n = j
        BY <1>0, <3>2
      <4>4. out[j + protect_n] = b
        BY <1>0, <3>1, <4>2, <4>3
      <4>5. QED
        BY <1>1, <1>2, <4>3, <4>4 DEF Emitting, Offered
    <3>4. emitted \subseteq Block
      BY <1>1 DEF TypeOK
    <3>5. QED
      BY <3>1, <3>2, <3>3, <3>4
  <2>2. QED
    BY <1>2, <1>3, <2>1 DEF Following
<1>8. (Unrepeated /\ ReplyRespected /\ NothingLost /\ ProtectedStay)'
  BY <1>2 DEF Unrepeated, ReplyRespected, NothingLost, ProtectedStay
<1>9. NoneTwice'
  BY <1>1, <1>2 DEF NoneTwice
<1>10. QED
  BY <1>5, <1>6, <1>7, <1>8, <1>9 DEF OrderInv

LEMMA FillDroppedStep ==
  ASSUME OrderInv, FillDropped
  PROVE  OrderInv'
<1>1. TypeOK /\ Emitting /\ Following /\ NoneTwice
  BY DEF OrderInv
<1>0. /\ n \in Int /\ i \in Int /\ i >= 1
      /\ Len(out) \in Int /\ Len(out) >= 0
      /\ protect_n \in Int /\ 0 <= protect_n /\ protect_n <= n
      /\ rerank_start = protect_n + 1
      /\ rerank_end \in Int /\ rerank_end <= n
      /\ Block = rerank_start..rerank_end
  BY <1>1, Typed
<1>2. /\ pc = "filling" /\ pc' = "filling" /\ i' = i + 1
      /\ UNCHANGED <<options, n, pc, reply, emitted>>
      /\ i <= rerank_end
      /\ out' = IF i \in emitted THEN out ELSE Append(out, i)
  BY DEF FillDropped
<1>3. /\ protect_n' = protect_n /\ rerank_start' = rerank_start
      /\ rerank_end' = rerank_end /\ Block' = Block /\ Bypass' = Bypass
  BY <1>2, Unmoved
<1>4. /\ n > 0 /\ ~Bypass /\ protect_n <= Len(out)
      /\ \A j \in 1..protect_n : out[j] = j
      /\ \A j \in rerank_start..Len(out) : out[j] \in Block
      /\ rerank_start <= rerank_end
      /\ i \in rerank_start..(rerank_end + 1)
      /\ Offered(rerank_start) = emitted \cup (rerank_start..(i - 1))
      /\ emitted \subseteq Block
  BY <1>1, <1>2 DEF Emitting, TypeOK
<1>5. /\ i \in Block /\ i' \in rerank_start..(rerank_end + 1)
      /\ rerank_start..(i' - 1) = (rerank_start..(i - 1)) \cup {i}
  BY <1>0, <1>2, <1>4
<1>6. (Unrepeated /\ ReplyRespected /\ NothingLost /\ ProtectedStay)'
  BY <1>2 DEF Unrepeated, ReplyRespected, NothingLost, ProtectedStay
<1>7. CASE i \in emitted
  <2>1. out' = out
    BY <1>2, <1>7
  <2>2. TypeOK'
    BY <1>0, <1>1, <1>2, <1>3, <2>1 DEF TypeOK
  <2>3. Offered(rerank_start)' = emitted \cup (rerank_start..(i' - 1))
    BY <1>3, <1>4, <1>5, <1>7, <2>1 DEF Offered
  <2>4. Emitting'
    BY <1>2, <1>3, <1>4, <1>5, <2>1, <2>3 DEF Emitting
  <2>5. Following' /\ NoneTwice'
    BY <1>1, <1>2, <1>3, <2>1 DEF Following, NoneTwice
  <2>6. QED
    BY <1>6, <2>2, <2>4, <2>5 DEF OrderInv
<1>8. CASE i \notin emitted
  <2>1. out' = Append(out, i) /\ i \in 1..n
    BY <1>0, <1>2, <1>5, <1>8
  <2>2. /\ out' \in Seq(1..n)
        /\ Len(out') = Len(out) + 1
        /\ \A j \in 1..Len(out) : out'[j] = out[j]
        /\ out'[Len(out) + 1] = i
    BY <1>1, <2>1, AppendFacts, Typed
  <2>3. /\ \A j \in rerank_start..Len(out') :
             \/ j \in rerank_start..Len(out) /\ out'[j] = out[j]
             \/ j = Len(out) + 1 /\ out'[j] = i
        /\ \A j \in rerank_start..Len(out) :
             j \in rerank_start..Len(out') /\ out'[j] = out[j]
        /\ Len(out) + 1 \in rerank_start..Len(out')
        /\ \A j \in 1..protect_n : j \in 1..Len(out)
    <3>1. \A j \in rerank_start..Len(out') :
            \/ j \in rerank_start..Len(out) /\ j \in 1..Len(out)
            \/ j = Len(out) + 1
      BY <1>0, <2>2
    <3>2. \A j \in rerank_start..Len(out) :
            j \in rerank_start..Len(out') /\ j \in 1..Len(out)
      BY <1>0, <2>2
    <3>3. Len(out) + 1 \in rerank_start..Len(out')
      BY <1>0, <1>4, <2>2
    <3>4. \A j \in 1..protect_n : j \in 1..Len(out)
      BY <1>0, <1>4
    <3>5. QED
      BY <2>2, <3>1, <3>2, <3>3, <3>4
  <2>4. TypeOK'
    BY <1>0, <1>1, <1>2, <1>3, <2>2 DEF TypeOK
  <2>5. Offered(rerank_start)' = emitted \cup (rerank_start..(i' - 1))
    <3>1. \A j \in rerank_start..Len(out') :
            out'[j] \in Offered(rerank_start) \cup {i}
      BY <2>3 DEF Offered
    <3>2. \A e \in Offered(rerank_start) \cup {i} :
            \E j \in rerank_start..Len(out') : out'[j] = e
      BY <2>2, <2>3 DEF Offered
    <3>3. Offered(rerank_start)' = Offered(rerank_start) \cup {i}
      BY <1>3, <3>1, <3>2 DEF Offered
    <3>4. QED
      BY <1>4, <1>5, <3>3
  <2>6. Emitting'
    <3>1. \A j \in 1..protect_n : out'[j] = j
      BY <1>4, <2>2, <2>3
    <3>2. \A j \in rerank_start..Len(out') : out'[j] \in Block
      BY <1>4, <1>5, <2>3
    <3>3. protect_n <= Len(out')
      BY <1>0, <1>4, <2>2
    <3>4. QED
      BY <1>2, <1>3, <1>4, <1>5, <2>5, <3>1, <3>2, <3>3 DEF Emitting
  <2>7. Following'
    <3>1. ~(reply # <<>> /\ Permutes(reply, rerank_end - protect_n))
      BY <1>1, <1>2, <1>5, <1>8 DEF Following
    <3>2. QED
      BY <1>2, <1>3, <3>1 DEF Following
  <2>8. NoneTwice'
    <3>1. i \notin Offered(rerank_start)
      BY <1>0, <1>4, <1>8
    <3>2. \A j \in 1..Len(out) : out[j] # i
      <4>1. \A j \in 1..protect_n : out[j] # i
        BY <1>0, <1>4
      <4>2. \A j \in rerank_start..Len(out) : out[j] # i
        BY <3>1 DEF Offered
      <4>3. QED
        BY <1>0, <4>1, <4>2
    <3>3. \A j \in 1..Len(out') : j \in 1..Len(out) \/ j = Len(out) + 1
      BY <1>0, <2>2
    <3>4. Distinct(out) => Distinct(out')
      BY <2>2, <3>2, <3>3 DEF Distinct
    <3>5. QED
      BY <1>1, <1>2, <3>4 DEF NoneTwice
  <2>9. QED
    BY <1>6, <2>4, <2>6, <2>7, <2>8 DEF OrderInv
<1>9. QED
  BY <1>7, <1>8

LEMMA FilledStep ==
  ASSUME OrderInv, Filled
  PROVE  OrderInv'
<1>1. TypeOK /\ Emitting /\ Following /\ NoneTwice
  BY DEF OrderInv
<1>0. /\ n \in Int /\ i \in Int /\ i >= 1
      /\ Len(out) \in Int /\ Len(out) >= 0
      /\ protect_n \in Int /\ 0 <= protect_n /\ protect_n <= n
      /\ rerank_start = protect_n + 1
      /\ rerank_end \in Int /\ rerank_end <= n
      /\ Block = rerank_start..rerank_end
  BY <1>1, Typed
<1>2. /\ pc = "filling" /\ pc' = "tail"
      /\ UNCHANGED <<options, n, out, reply, i, emitted>>
      /\ i > rerank_end
  BY DEF Filled
<1>3. /\ protect_n' = protect_n /\ rerank_start' = rerank_start
      /\ rerank_end' = rerank_end /\ Block' = Block /\ Bypass' = Bypass
  BY <1>2, Unmoved
<1>4. TypeOK'
  BY <1>1, <1>2, <1>3 DEF TypeOK
<1>5. Offered(rerank_start)' = Block
  <2>1. i \in rerank_start..(rerank_end + 1) /\ emitted \subseteq Block
    BY <1>1, <1>2 DEF Emitting, TypeOK
  <2>2. rerank_start..(i - 1) = Block
    BY <1>0, <1>2, <2>1
  <2>3. Offered(rerank_start) = Block
    BY <1>1, <1>2, <2>1, <2>2 DEF Emitting
  <2>4. QED
    BY <1>2, <1>3, <2>3 DEF Offered
<1>6. Emitting'
  BY <1>1, <1>2, <1>3, <1>5 DEF Emitting
<1>7. Following'
  BY <1>1, <1>2, <1>3 DEF Following
<1>8. (Unrepeated /\ ReplyRespected /\ NothingLost /\ ProtectedStay)'
  BY <1>2 DEF Unrepeated, ReplyRespected, NothingLost, ProtectedStay
<1>9. NoneTwice'
  BY <1>1, <1>2 DEF NoneTwice
<1>10. QED
  BY <1>4, <1>6, <1>7, <1>8, <1>9 DEF OrderInv

LEMMA FallbackStep ==
  ASSUME OrderInv, Fallback
  PROVE  OrderInv'
<1>1. TypeOK /\ Emitting /\ NoneTwice
  BY DEF OrderInv
<1>0. /\ n \in Int /\ i \in Int /\ i >= 1
      /\ Len(out) \in Int /\ Len(out) >= 0
      /\ protect_n \in Int /\ 0 <= protect_n /\ protect_n <= n
      /\ rerank_start = protect_n + 1
      /\ rerank_end \in Int /\ rerank_end <= n
      /\ Block = rerank_start..rerank_end
  BY <1>1, Typed
<1>2. /\ pc = "fallback" /\ pc' = "tail" /\ reply = <<>>
      /\ UNCHANGED <<options, n, reply, i, emitted>>
      /\ out' = out \o Run(rerank_start, rerank_end)
      /\ n > 0 /\ ~Bypass
      /\ Len(out) = protect_n
      /\ \A j \in 1..protect_n : out[j] = j
      /\ rerank_start <= rerank_end
  BY <1>1 DEF Fallback, Emitting
<1>3. /\ protect_n' = protect_n /\ rerank_start' = rerank_start
      /\ rerank_end' = rerank_end /\ Block' = Block /\ Bypass' = Bypass
  BY <1>2, Unmoved
<1>4. /\ out' \in Seq(1..n)
      /\ Len(out') = rerank_end
      /\ \A j \in 1..rerank_end : out'[j] = j
  <2> DEFINE r == out \o Run(rerank_start, rerank_end)
  <2>1. /\ rerank_start \in Int /\ rerank_end \in Int
        /\ rerank_end >= rerank_start - 1
        /\ 1 <= rerank_start /\ rerank_end <= n /\ n \in Int
        /\ out \in Seq(1..n)
    BY <1>0, <1>1, <1>2 DEF TypeOK
  <2>2. /\ r \in Seq(1..n)
        /\ Len(r) = Len(out) + (rerank_end - rerank_start + 1)
        /\ \A j \in 1..Len(out) : r[j] = out[j]
        /\ \A j \in (Len(out) + 1)..(Len(out) + (rerank_end - rerank_start + 1)) :
             r[j] = rerank_start + (j - Len(out)) - 1
    BY <2>1, OutThenRun, Zenon
  <2> HIDE DEF r
  <2>3. Len(r) = rerank_end
    BY <1>0, <1>2, <2>2
  <2>4. ASSUME NEW j \in 1..rerank_end PROVE r[j] = j
    <3>1. CASE j \in 1..protect_n
      BY <1>2, <2>2, <3>1
    <3>2. CASE j \notin 1..protect_n
      BY <1>0, <1>2, <2>2, <3>2
    <3>3. QED
      BY <3>1, <3>2
  <2>5. QED
    BY <1>2, <2>2, <2>3, <2>4 DEF r
<1>5. TypeOK'
  BY <1>1, <1>2, <1>3, <1>4 DEF TypeOK
<1>6. \A j \in rerank_start..rerank_end : j \in 1..rerank_end
  BY <1>0
<1>7. Offered(rerank_start)' = Block
  BY <1>0, <1>3, <1>4, <1>6 DEF Offered
<1>8. Emitting'
  <2>1. protect_n <= Len(out') /\ \A j \in 1..protect_n : out'[j] = j
    BY <1>0, <1>2, <1>4
  <2>2. \A j \in rerank_start..Len(out') : out'[j] \in Block
    BY <1>0, <1>4, <1>6
  <2>3. QED
    BY <1>2, <1>3, <1>7, <2>1, <2>2 DEF Emitting
<1>9. (Unrepeated /\ Following /\ ReplyRespected /\ NothingLost /\ ProtectedStay)'
  BY <1>2 DEF Unrepeated, Following, ReplyRespected, NothingLost, ProtectedStay
<1>10. NoneTwice'
  BY <1>4 DEF NoneTwice, Distinct
<1>11. QED
  BY <1>5, <1>8, <1>9, <1>10 DEF OrderInv

LEMMA TailFollowsStep ==
  ASSUME OrderInv, TailFollows
  PROVE  OrderInv'
<1>1. TypeOK /\ Emitting /\ Following /\ NoneTwice
  BY DEF OrderInv
<1>0. /\ n \in Int /\ i \in Int /\ i >= 1
      /\ Len(out) \in Int /\ Len(out) >= 0
      /\ protect_n \in Int /\ 0 <= protect_n /\ protect_n <= n
      /\ rerank_start = protect_n + 1
      /\ rerank_end \in Int /\ rerank_end <= n
      /\ Block = rerank_start..rerank_end
  BY <1>1, Typed
<1>2. /\ pc = "tail" /\ pc' = "done"
      /\ UNCHANGED <<options, n, reply, i, emitted>>
      /\ out' = out \o Run(rerank_end + 1, n)
      /\ protect_n <= Len(out)
      /\ \A j \in 1..protect_n : out[j] = j
      /\ \A j \in rerank_start..Len(out) : out[j] \in Block
      /\ Offered(rerank_start) = Block
      /\ ~Bypass
  BY <1>1 DEF TailFollows, Emitting
<1>3. /\ protect_n' = protect_n /\ rerank_start' = rerank_start
      /\ rerank_end' = rerank_end /\ Block' = Block /\ Bypass' = Bypass
  BY <1>2, Unmoved
<1>4. /\ out' \in Seq(1..n)
      /\ Len(out') = Len(out) + (n - rerank_end)
      /\ \A j \in 1..Len(out) : out'[j] = out[j]
      /\ \A j \in (Len(out) + 1)..Len(out') :
           out'[j] = rerank_end + (j - Len(out))
  <2> DEFINE r == out \o Run(rerank_end + 1, n)
  <2>1. /\ rerank_end + 1 \in Int /\ n \in Int
        /\ n >= (rerank_end + 1) - 1
        /\ 1 <= rerank_end + 1 /\ n <= n
        /\ out \in Seq(1..n)
    BY <1>0, <1>1, <1>2, Typed DEF TypeOK
  <2>2. /\ r \in Seq(1..n)
        /\ Len(r) = Len(out) + (n - (rerank_end + 1) + 1)
        /\ \A j \in 1..Len(out) : r[j] = out[j]
        /\ \A j \in (Len(out) + 1)..(Len(out) + (n - (rerank_end + 1) + 1)) :
             r[j] = (rerank_end + 1) + (j - Len(out)) - 1
    BY <2>1, OutThenRun, Zenon
  <2>3. out' = r
    BY <1>2
  <2> HIDE DEF r
  <2>4. Len(r) = Len(out) + (n - rerank_end)
    BY <1>0, <2>2
  <2>5. ASSUME NEW j \in (Len(out) + 1)..Len(r)
        PROVE  r[j] = rerank_end + (j - Len(out))
    BY <1>0, <2>2, <2>4
  <2>6. QED
    BY <2>2, <2>3, <2>4, <2>5
<1>5. TypeOK'
  BY <1>1, <1>2, <1>3, <1>4 DEF TypeOK
<1>6. rerank_end >= protect_n
  BY <1>1, <1>2, Typed
\* Where each candidate in out' comes from.
<1>7. \A j \in 1..Len(out') :
        \/ j \in 1..protect_n /\ j \in 1..Len(out) /\ out'[j] = j
        \/ j \in rerank_start..Len(out) /\ j \in 1..Len(out) /\ out'[j] \in Block
        \/ j \in (Len(out) + 1)..Len(out') /\ out'[j] \in (rerank_end + 1)..n
  <2>1. TAKE j \in 1..Len(out')
  <2>2. \/ j \in 1..protect_n /\ j \in 1..Len(out)
        \/ j \in rerank_start..Len(out) /\ j \in 1..Len(out)
        \/ j \in (Len(out) + 1)..Len(out')
    BY <1>0, <1>2, <2>1
  <2>3. j \in (Len(out) + 1)..Len(out') => out'[j] \in (rerank_end + 1)..n
    <3>1. SUFFICES ASSUME j \in (Len(out) + 1)..Len(out')
                   PROVE  out'[j] \in (rerank_end + 1)..n
      OBVIOUS
    <3>2. out'[j] = rerank_end + (j - Len(out))
      BY <1>4, <3>1
    <3>3. QED
      BY <1>0, <1>4, <3>1, <3>2
  <2>4. QED
    BY <1>2, <1>4, <2>2, <2>3
<1>8. NothingLost'
  <2>1. ASSUME NEW k \in 1..n PROVE \E j \in 1..Len(out') : out'[j] = k
    <3>1. CASE k \in 1..protect_n
      <4>1. k \in 1..Len(out) /\ k \in 1..Len(out')
        BY <1>0, <1>2, <1>4, <3>1
      <4>2. QED
        BY <1>2, <1>4, <3>1, <4>1
    <3>2. CASE k \in Block
      <4>1. PICK j \in rerank_start..Len(out) : out[j] = k
        BY <1>2, <3>2 DEF Offered
      <4>2. j \in 1..Len(out) /\ j \in 1..Len(out')
        BY <1>0, <1>4, <4>1
      <4>3. QED
        BY <1>4, <4>1, <4>2
    <3>3. CASE k \in (rerank_end + 1)..n
      <4>1. /\ Len(out) + (k - rerank_end) \in (Len(out) + 1)..Len(out')
            /\ Len(out) + (k - rerank_end) \in 1..Len(out')
            /\ rerank_end + ((Len(out) + (k - rerank_end)) - Len(out)) = k
        BY <1>0, <1>4, <3>3
      <4>2. QED
        BY <1>4, <4>1
    <3>4. QED
      BY <1>0, <1>6, <3>1, <3>2, <3>3
  <2>2. QED
    BY <1>2, <2>1 DEF NothingLost
<1>9. ProtectedStay'
  BY <1>0, <1>2, <1>3, <1>6, <1>7 DEF ProtectedStay
<1>10. NoneTwice'
  <2>1. ASSUME Distinct(out), NEW j \in 1..Len(out'), NEW k \in 1..Len(out'),
               out'[j] = out'[k]
        PROVE  j = k
    <3>1. CASE j \in 1..Len(out) /\ k \in 1..Len(out)
      BY <1>4, <2>1, <3>1 DEF Distinct
    <3>2. CASE j \notin 1..Len(out) /\ k \notin 1..Len(out)
      <4>1. j \in (Len(out) + 1)..Len(out') /\ k \in (Len(out) + 1)..Len(out')
        BY <1>0, <2>1, <3>2
      <4>2. rerank_end + (j - Len(out)) = rerank_end + (k - Len(out))
        BY <1>4, <2>1, <4>1
      <4>3. QED
        BY <1>0, <4>1, <4>2
    <3>3. \A l \in 1..Len(out') :
            out'[l] \in Int /\ (l \in 1..Len(out) <=> out'[l] <= rerank_end)
      BY <1>0, <1>6, <1>7
    <3>4. QED
      BY <2>1, <3>1, <3>2, <3>3
  <2>2. QED
    BY <1>1, <1>2, <2>1 DEF NoneTwice, Distinct
<1>11. ReplyRespected'
  <2>1. ASSUME reply # <<>>, Permutes(reply, rerank_end - protect_n),
               NEW j \in 1..n
        PROVE  out'[j] = IF j \in Block THEN rerank_start + reply[j - protect_n]
                         ELSE j
    <3>1. /\ Len(out) = rerank_end
          /\ \A k \in rerank_start..Len(out) :
               out[k] = rerank_start + reply[k - protect_n]
      BY <1>1, <1>2, <2>1 DEF Following
    <3>2. CASE j \in Block
      BY <1>0, <1>4, <3>1, <3>2
    <3>3. CASE j \in 1..protect_n
      <4>1. j \in 1..Len(out) /\ j \notin Block
        BY <1>0, <1>2, <3>3
      <4>2. QED
        BY <1>2, <1>4, <3>3, <4>1
    <3>4. CASE j \in (rerank_end + 1)..n
      BY <1>0, <1>4, <3>1, <3>4
    <3>5. QED
      BY <1>0, <1>6, <3>2, <3>3, <3>4
  <2>2. QED
    BY <1>2, <1>3, <2>1 DEF ReplyRespected
<1>12. (Emitting /\ Unrepeated /\ Following)'
  BY <1>2 DEF Emitting, Unrepeated, Following
<1>13. QED
  BY <1>5, <1>8, <1>9, <1>10, <1>11, <1>12 DEF OrderInv

LEMMA NextStep == OrderInv /\ [Next]_vars => OrderInv'
<1> SUFFICES ASSUME OrderInv, [Next]_vars PROVE OrderInv'
  OBVIOUS
<1>1. CASE \E m \in 0..MaxN : Keystroke(m)
  BY <1>1, KeystrokeStep
<1>2. CASE PassThrough
  BY <1>2, PassThroughStep
<1>3. CASE Protect
  BY <1>3, ProtectStep
<1>4. CASE \E r \in UpTo(Indices, MaxReply) : Ask(r)
  <2>1. UpTo(Indices, MaxReply) \subseteq Seq(Int)
    BY UpToFacts, SizeAssumption, IndexAssumption, SeqMonotonic
  <2> QED
    BY <1>4, <2>1, AskStep
<1>5. CASE AskFails
  BY <1>5, AskFailsStep
<1>6. CASE TakeIndex
  BY <1>6, TakeIndexStep
<1>7. CASE Taken
  BY <1>7, TakenStep
<1>8. CASE FillDropped
  BY <1>8, FillDroppedStep
<1>9. CASE Filled
  BY <1>9, FilledStep
<1>10. CASE Fallback
  BY <1>10, FallbackStep
<1>11. CASE TailFollows
  BY <1>11, TailFollowsStep
<1>12. CASE UNCHANGED vars
  BY <1>12 DEF vars, OrderInv, TypeOK, Emitting, Unrepeated, Following,
     NothingLost, ProtectedStay, NoneTwice, ReplyRespected, Offered, Block,
     Bypass, protect_n, rerank_start, rerank_end
<1>13. QED
  BY <1>1, <1>2, <1>3, <1>4, <1>5, <1>6, <1>7, <1>8, <1>9, <1>10, <1>11, <1>12
     DEF Next
-----------------------------------------------------------------------------
(***************************************************************************)
(* The theorems.                                                           *)
(***************************************************************************)

\* compute_order and the bridge: the invariant holds in every reachable state.
THEOREM Inductive == Spec => []OrderInv
  BY InitStep, NextStep, PTL DEF Spec

\* Type correctness: what is yielded is always one of the candidates.
THEOREM TypeCorrect == Spec => []TypeOK
  BY Inductive, PTL DEF OrderInv

\* Whatever the daemon answers, the filter offers every candidate.
THEOREM EveryCandidate == Spec => []NothingLost
  BY Inductive, PTL DEF OrderInv

\* Whatever the daemon answers, the protected candidates stay in place.
THEOREM Protection == Spec => []ProtectedStay
  BY Inductive, PTL DEF OrderInv

\* A reply without repetitions makes no candidate appear twice.
THEOREM NoCopies == Spec => []NoneTwice
  BY Inductive, PTL DEF OrderInv

\* A reranker's permutation reaches the user unchanged.
THEOREM OrderReachesUser == Spec => []ReplyRespected
  BY Inductive, PTL DEF OrderInv
-----------------------------------------------------------------------------
(***************************************************************************)
(* The rerankers behind it.                                                *)
(***************************************************************************)

Ahead(k, s, a) == {b \in 1..k : Before(s, b, a)}

(* Of two scores one is before the other.                                   *)
LEMMA TotalOrder ==
  ASSUME NEW k \in Nat, NEW s \in [1..k -> Int]
  PROVE  \A a, b \in 1..k :
           /\ ~Before(s, a, a)
           /\ a # b => Before(s, a, b) \/ Before(s, b, a)
           /\ ~(Before(s, a, b) /\ Before(s, b, a))
           /\ \A c \in 1..k : Before(s, c, a) /\ Before(s, a, b) => Before(s, c, b)
<1>1. \A c \in 1..k : s[c] \in Int
  OBVIOUS
<1> QED
  BY <1>1 DEF Before

(* Who is before another has a place before it, and all places are taken.   *)
LEMMA Places ==
  ASSUME NEW k \in Nat, NEW s \in [1..k -> Int]
  PROVE  /\ \A a \in 1..k : Place(s, a) \in 1..k
         /\ \A a, b \in 1..k : Before(s, a, b) => Place(s, a) < Place(s, b)
         /\ \A p \in 1..k : \E a \in 1..k : Place(s, a) = p
         /\ \A a, b \in 1..k : Place(s, a) = Place(s, b) => a = b
<1>1. DOMAIN s = 1..k /\ IsFiniteSet(1..k) /\ Cardinality(1..k) = k
  BY FS_Interval
<1>2. ASSUME NEW a \in 1..k
      PROVE  /\ IsFiniteSet(Ahead(k, s, a)) /\ Cardinality(Ahead(k, s, a)) \in Nat
             /\ Place(s, a) = Cardinality(Ahead(k, s, a)) + 1
             /\ Cardinality(Ahead(k, s, a)) < k
  <2>1. Ahead(k, s, a) \in SUBSET (1..k) /\ a \notin Ahead(k, s, a)
    BY TotalOrder DEF Ahead
  <2>2. IsFiniteSet(Ahead(k, s, a)) /\ Cardinality(Ahead(k, s, a)) <= k
        /\ (k = Cardinality(Ahead(k, s, a)) => 1..k = Ahead(k, s, a))
    BY <1>1, <2>1, FS_Subset
  <2>3. Cardinality(Ahead(k, s, a)) \in Nat
    BY <2>2, FS_CardinalityType
  <2>4. Cardinality(Ahead(k, s, a)) # k
    BY <2>1, <2>2
  <2>5. Place(s, a) = Cardinality(Ahead(k, s, a)) + 1
    BY <1>1 DEF Place, Ahead
  <2> QED
    BY <2>2, <2>3, <2>4, <2>5
<1>3. ASSUME NEW a \in 1..k, NEW b \in 1..k, Before(s, a, b)
      PROVE  Place(s, a) < Place(s, b)
  <2>1. Ahead(k, s, a) \in SUBSET Ahead(k, s, b)
    BY <1>3, TotalOrder DEF Ahead
  <2>2. a \in Ahead(k, s, b) /\ a \notin Ahead(k, s, a)
    BY <1>3, TotalOrder DEF Ahead
  <2>3. Cardinality(Ahead(k, s, a)) <= Cardinality(Ahead(k, s, b))
        /\ (Cardinality(Ahead(k, s, b)) = Cardinality(Ahead(k, s, a)) => Ahead(k, s, b) = Ahead(k, s, a))
    BY <1>2, <2>1, FS_Subset
  <2>4. Cardinality(Ahead(k, s, b)) # Cardinality(Ahead(k, s, a))
    BY <2>2, <2>3
  <2> QED
    BY <1>2, <2>3, <2>4
<1>4. \A a \in 1..k : Place(s, a) \in 1..k
  <2> TAKE a \in 1..k
  <2>1. PICK c \in Nat : c = Cardinality(Ahead(k, s, a))
    BY <1>2
  <2>2. Place(s, a) = c + 1 /\ c < k
    BY <1>2, <2>1
  <2> QED
    BY <2>2
<1>5. /\ \A p \in 1..k : \E a \in 1..k : Place(s, a) = p
      /\ \A a, b \in 1..k : Place(s, a) = Place(s, b) => a = b
  <2> DEFINE f == [a \in 1..k |-> Place(s, a)]
  <2>1. ASSUME NEW a \in 1..k, NEW b \in 1..k, Place(s, a) = Place(s, b) PROVE a = b
    <3>1. ~(Place(s, a) < Place(s, b)) /\ ~(Place(s, b) < Place(s, a))
      BY <1>4, <2>1
    <3>2. ~Before(s, a, b) /\ ~Before(s, b, a)
      BY <1>3, <3>1
    <3> QED
      BY <3>2, TotalOrder
  <2>2. f \in Injection(1..k, 1..k)
    BY <1>4, <2>1 DEF Injection, IsInjective
  <2>3. f \in Surjection(1..k, 1..k)
    BY <1>1, <2>2, FS_Injection
  <2> QED
    BY <2>1, <2>3 DEF Surjection
<1> QED
  BY <1>3, <1>4, <1>5

(* What a reranker that has scores returns.                                *)
LEMMA Sorted ==
  ASSUME NEW k \in Nat, NEW s \in [1..k -> Int]
  PROVE  /\ ByScore(s) \in [1..k -> 0..(k - 1)]
         /\ Permutes(ByScore(s), k)
         /\ \A p, q \in 1..k :
              p < q => Before(s, ByScore(s)[p] + 1, ByScore(s)[q] + 1)
<1> PICK r : r = ByScore(s)
  OBVIOUS
<1>1. \A p \in 1..k : r[p] + 1 \in 1..k /\ Place(s, r[p] + 1) = p /\ r[p] \in 0..(k - 1)
  <2> TAKE p \in 1..k
  <2> PICK a : a = CHOOSE b \in 1..k : Place(s, b) = p
    OBVIOUS
  <2>0. \E b \in 1..k : Place(s, b) = p
    BY Places
  <2>1. a \in 1..k /\ Place(s, a) = p
    BY <2>0
  <2>2. r[p] = a - 1
    BY DEF ByScore
  <2>3. r[p] + 1 = a /\ r[p] \in 0..(k - 1)
    BY <2>1, <2>2
  <2> QED
    BY <2>1, <2>3
<1>2. DOMAIN r = 1..k
  BY DEF ByScore
<1>3. r \in [1..k -> 0..(k - 1)]
  <2>1. r = [p \in 1..k |-> r[p]]
    BY DEF ByScore
  <2> QED
    BY <1>1, <2>1
<1>4. \A p, q \in 1..k : p < q => Before(s, r[p] + 1, r[q] + 1)
  <2> SUFFICES ASSUME NEW p \in 1..k, NEW q \in 1..k, p < q
               PROVE  Before(s, r[p] + 1, r[q] + 1)
    OBVIOUS
  <2>1. PICK a \in 1..k : a = r[p] + 1 /\ Place(s, a) = p
    BY <1>1
  <2>2. PICK b \in 1..k : b = r[q] + 1 /\ Place(s, b) = q
    BY <1>1
  <2>3. ~(Place(s, b) < Place(s, a)) /\ a # b
    BY <2>1, <2>2
  <2>4. ~Before(s, b, a)
    BY <2>3, Places
  <2>5. Before(s, a, b)
    BY <2>3, <2>4, TotalOrder
  <2> QED
    BY <2>1, <2>2, <2>5
<1>5. Permutes(r, k)
  <2>1. Len(r) = k /\ r \in Seq(Int)
    BY <1>3
  <2>2. \A p, q \in 1..k : r[p] = r[q] => p = q
    BY <1>1
  <2>3. ASSUME NEW m \in 0..(k - 1) PROVE \E p \in 1..k : r[p] = m
    <3>1. m + 1 \in 1..k
      OBVIOUS
    <3>2. PICK p \in 1..k : p = Place(s, m + 1)
      BY <3>1, Places
    <3>3. Place(s, r[p] + 1) = Place(s, m + 1) /\ r[p] + 1 \in 1..k
      BY <1>1, <3>2
    <3>4. r[p] + 1 = m + 1
      BY <3>1, <3>3, Places
    <3> QED
      BY <1>1, <3>4
  <2> QED
    BY <1>1, <2>1, <2>2, <2>3 DEF Permutes, Distinct
<1> QED
  BY <1>3, <1>4, <1>5

(* Every reranker of this repository returns a permutation.                 *)
LEMMA Permutation ==
  ASSUME NEW b \in Backends, NEW k \in Nat, NEW s \in Scored(b, k)
  PROVE  Rerank(b, k, s) \in Seq(Int) /\ Permutes(Rerank(b, k, s), k)
<1>1. CASE b = "mock"
  <2>1. PICK r : r = [p \in 1..k |-> k - p]
    OBVIOUS
  <2>2. r \in Seq(Int) /\ Len(r) = k /\ \A p \in 1..k : r[p] = k - p
    BY <2>1
  <2>3. \A m \in 0..(k - 1) : k - m \in 1..k /\ r[k - m] = m
    BY <2>2
  <2>4. Permutes(r, k)
    BY <2>2, <2>3 DEF Permutes, Distinct
  <2> QED
    BY <1>1, <2>1, <2>2, <2>4 DEF Rerank
<1>2. CASE b # "mock" /\ s = Failed
  <2>1. PICK r : r = [p \in 1..k |-> p - 1]
    OBVIOUS
  <2>2. r \in Seq(Int) /\ Len(r) = k /\ \A p \in 1..k : r[p] = p - 1
    BY <2>1
  <2>3. \A m \in 0..(k - 1) : m + 1 \in 1..k /\ r[m + 1] = m
    BY <2>2
  <2>4. Permutes(r, k)
    BY <2>2, <2>3 DEF Permutes, Distinct
  <2> QED
    BY <1>2, <2>1, <2>2, <2>4 DEF Rerank
<1>3. CASE b # "mock" /\ s # Failed
  <2>1. s \in [1..k -> Int]
    BY <1>3, ScoreAssumption DEF Scored, Backends, Sink, Failed
  <2>2. ByScore(s) \in [1..k -> 0..(k - 1)] /\ Permutes(ByScore(s), k)
    BY <2>1, Sorted
  <2>3. ByScore(s) \in Seq(Int)
    BY <2>2
  <2> QED
    BY <1>3, <2>2, <2>3 DEF Rerank
<1> QED
  BY <1>1, <1>2, <1>3

(* The number of candidates that are reranked.                             *)
count == rerank_end - protect_n

(* A reply that a reranker made is its own for this keystroke.              *)
ServedInv ==
  served = Nobody \/
    /\ pc \notin {"start", "asking"}
    /\ rerank_start <= rerank_end
    /\ served.by \in Backends
    /\ served.scores \in Scored(served.by, count)
    /\ reply = Rerank(served.by, count, served.scores)

LEMMA CountType ==
  ASSUME OrderInv
  PROVE  /\ protect_n \in 0..n /\ rerank_start = protect_n + 1
         /\ rerank_end \in Int /\ rerank_end <= n
         /\ (rerank_start <= rerank_end => count \in Nat \ {0})
<1>1. options \in Options /\ n \in Nat
  BY OptionAssumption, SizeAssumption DEF OrderInv, TypeOK
<1> QED
  BY <1>1, Bounds DEF count, rerank_end, AtMost, Options

(* Each step of the composition keeps both invariants.                      *)
THEOREM AllStep == OrderInv /\ ServedInv /\ [AllNext]_allVars => OrderInv' /\ ServedInv'
<1> SUFFICES ASSUME OrderInv, ServedInv, [AllNext]_allVars
             PROVE  OrderInv' /\ ServedInv'
  OBVIOUS
<1>1. CASE UNCHANGED allVars
  <2>1. UNCHANGED vars /\ UNCHANGED served
    BY <1>1 DEF allVars
  <2>2. OrderInv'
    BY <2>1, NextStep
  <2>3. ServedInv'
    BY <2>1 DEF vars, ServedInv, count, rerank_start, rerank_end, protect_n
  <2> QED
    BY <2>2, <2>3
<1>2. CASE NextKeystroke
  BY <1>2, NextStep DEF NextKeystroke, Next, ServedInv
<1>3. ASSUME UNCHANGED <<options, n, served, reply>>,
             pc' \notin {"start", "asking"} \/ served = Nobody
      PROVE  ServedInv'
  BY <1>3 DEF ServedInv, count, rerank_start, rerank_end, protect_n
<1>4. CASE FilterStep
  <2>1. OrderInv'
    BY <1>4, NextStep DEF FilterStep, Next
  <2>2. UNCHANGED <<options, n, served, reply>>
    BY <1>4 DEF FilterStep, PassThrough, Protect, AskFails, TakeIndex, Taken,
       FillDropped, Filled, Fallback, TailFollows
  <2>3. pc' \notin {"start", "asking"} \/ served = Nobody
    BY <1>4 DEF FilterStep, PassThrough, Protect, AskFails, TakeIndex, Taken,
       FillDropped, Filled, Fallback, TailFollows, ServedInv
  <2> QED
    BY <1>3, <2>1, <2>2, <2>3
<1>5. CASE ForeignReply
  <2>1. OrderInv'
    BY <1>5, NextStep DEF ForeignReply, Next
  <2>2. served' = Nobody
    BY <1>5 DEF ForeignReply, Ask, ServedInv
  <2> QED
    BY <2>1, <2>2 DEF ServedInv
<1>6. ASSUME NEW b \in Backends, Serve(b) PROVE OrderInv' /\ ServedInv'
  <2>1. pc = "asking" /\ rerank_start <= rerank_end
    BY <1>6 DEF Serve, OrderInv, Emitting
  <2>2. count \in Nat
    BY <2>1, CountType
  <2>3. PICK s \in Scored(b, count) :
          Ask(Rerank(b, count, s)) /\ served' = [by |-> b, scores |-> s]
    BY <1>6 DEF Serve, count
  <2>4. OrderInv'
    BY <2>2, <2>3, Permutation, AskStep
  <2>5. count' = count /\ rerank_start' = rerank_start /\ rerank_end' = rerank_end
    BY <2>3, Unmoved DEF Ask, count
  <2>6. reply' = Rerank(b, count, s) /\ pc' \notin {"start", "asking"}
    BY <2>3 DEF Ask
  <2> QED
    BY <2>1, <2>3, <2>4, <2>5, <2>6 DEF ServedInv
<1> QED
  BY <1>1, <1>2, <1>4, <1>5, <1>6 DEF AllNext

(* With the daemon behind it, compute_order keeps all it promises (OrderInv).  *)
THEOREM AllInductive == AllSpec => [](OrderInv /\ ServedInv)
<1>1. AllInit => OrderInv /\ ServedInv
  BY InitStep DEF AllInit, ServedInv
<1> QED
  BY <1>1, AllStep, PTL DEF AllSpec

(* The invariant of ComputeOrder holds whoever made the reply.              *)
THEOREM OrderKept == AllSpec => []OrderInv
BY AllInductive, PTL

(* At the end of a keystroke that a reranker answered, each place of the    *)
(* block has the candidate the reranker put there.                         *)
LEMMA Answered ==
  ASSUME OrderInv, ServedInv, pc = "done", served # Nobody
  PROVE  /\ count \in Nat \ {0} /\ protect_n \in Nat /\ n \in Nat
         /\ served.by \in Backends /\ served.scores \in Scored(served.by, count)
         /\ Permutes(reply, count) /\ reply \in Seq(Int)
         /\ reply = Rerank(served.by, count, served.scores)
         /\ Distinct(out) /\ out \in Seq(1..n)
         /\ \A j \in 1..n :
              out[j] = IF j \in Block THEN protect_n + 1 + reply[j - protect_n] ELSE j
         /\ \A j \in Block : j \in 1..n /\ j - protect_n \in 1..count
<1>1. /\ rerank_start <= rerank_end /\ served.by \in Backends
      /\ served.scores \in Scored(served.by, count)
      /\ reply = Rerank(served.by, count, served.scores)
  BY DEF ServedInv
<1>2. /\ protect_n \in 0..n /\ rerank_start = protect_n + 1 /\ rerank_end \in Int
      /\ rerank_end <= n /\ count \in Nat \ {0} /\ n \in Nat
  BY <1>1, CountType, SizeAssumption DEF OrderInv, TypeOK
<1>3. Permutes(reply, count) /\ reply \in Seq(Int)
  BY <1>1, <1>2, Permutation
<1>4. reply # <<>> /\ Distinct(reply)
  BY <1>2, <1>3 DEF Permutes
<1>5. \A j \in 1..n : out[j] = IF j \in Block THEN rerank_start + reply[j - protect_n] ELSE j
  BY <1>3, <1>4 DEF OrderInv, ReplyRespected, count
<1>6. Distinct(out) /\ out \in Seq(1..n)
  BY <1>4 DEF OrderInv, NoneTwice, TypeOK
<1>7. \A j \in Block : j \in 1..n /\ j - protect_n \in 1..count
  BY <1>2 DEF Block, count
<1> QED
  BY <1>1, <1>2, <1>3, <1>5, <1>6, <1>7

(* Better candidates come before worse ones, and equals in librime's order.  *)
THEOREM BestComesFirst == AllSpec => []BestFirst
<1>1. ASSUME OrderInv, ServedInv PROVE BestFirst
  <2> SUFFICES ASSUME pc = "done", served.scores # <<>>,
                      NEW j \in 1..Len(out), NEW k \in 1..Len(out), Reranked(j, k)
               PROVE  \/ served.scores[out[j] - protect_n] > served.scores[out[k] - protect_n]
                      \/ served.scores[out[j] - protect_n] = served.scores[out[k] - protect_n]
                           /\ out[j] < out[k]
    BY DEF BestFirst
  <2>1. served # Nobody
    BY DEF Nobody
  <2> PICK s : s = served.scores
    OBVIOUS
  <2> PICK b : b = served.by
    OBVIOUS
  <2>2. /\ count \in Nat \ {0} /\ protect_n \in Nat /\ n \in Nat
        /\ b \in Backends /\ s \in Scored(b, count)
        /\ reply = Rerank(b, count, s) /\ reply \in Seq(Int)
        /\ \A l \in 1..n :
             out[l] = IF l \in Block THEN protect_n + 1 + reply[l - protect_n] ELSE l
        /\ \A l \in Block : l \in 1..n /\ l - protect_n \in 1..count
    BY <1>1, <2>1, Answered
  <2>3. b # "mock" /\ s # Failed
    BY <2>2 DEF Scored, Failed
  <2>4. s \in [1..count -> Int]
    BY <2>2, <2>3, ScoreAssumption DEF Scored, Backends, Sink, Failed
  <2>5. reply = ByScore(s)
    BY <2>2, <2>3 DEF Rerank
  <2>6. PICK p \in 1..count : p = j - protect_n
    BY <2>2 DEF Reranked
  <2>7. PICK q \in 1..count : q = k - protect_n
    BY <2>2 DEF Reranked
  <2>8. p < q
    BY <2>2, <2>6, <2>7 DEF Reranked
  <2>9. Before(s, reply[p] + 1, reply[q] + 1)
    BY <2>2, <2>4, <2>5, <2>8, Sorted
  <2>10. reply[p] \in Int /\ reply[q] \in Int /\ protect_n \in Int
    BY <2>2, <2>4, <2>5, Sorted
  <2>11. PICK x \in Int, y \in Int, d \in Int :
            x = reply[p] /\ y = reply[q] /\ d = protect_n
    BY <2>10
  <2>12. out[j] = d + 1 + x /\ out[k] = d + 1 + y
    BY <2>2, <2>6, <2>7, <2>11 DEF Reranked
  <2>13. out[j] - d = x + 1 /\ out[k] - d = y + 1 /\ (x + 1 < y + 1 => out[j] < out[k])
    BY <2>12
  <2>14. \/ s[x + 1] > s[y + 1]
         \/ s[x + 1] = s[y + 1] /\ x + 1 < y + 1
    BY <2>9, <2>11 DEF Before
  <2> QED
    BY <2>11, <2>13, <2>14
<1> QED
  BY <1>1, AllInductive, PTL

(* If the language model cannot score, the user sees librime's order.        *)
THEOREM UnscoredAsBefore == AllSpec => []UnscoredUntouched
<1>1. ASSUME OrderInv, ServedInv PROVE UnscoredUntouched
  <2> SUFFICES ASSUME pc = "done", served.by = "llama_cpp", served.scores = Failed
               PROVE  out = Run(1, n)
    BY DEF UnscoredUntouched
  <2>1. served # Nobody
    BY DEF Nobody
  <2>2. /\ count \in Nat \ {0} /\ protect_n \in Nat /\ n \in Nat
        /\ reply = [p \in 1..count |-> p - 1]
        /\ Distinct(out) /\ out \in Seq(1..n)
        /\ \A j \in 1..n :
             out[j] = IF j \in Block THEN protect_n + 1 + reply[j - protect_n] ELSE j
        /\ \A j \in Block : j \in 1..n /\ j - protect_n \in 1..count
    BY <1>1, <2>1, Answered DEF Rerank
  <2>3. \A j \in 1..n : out[j] = j
    BY <2>2
  <2>4. \A m \in 1..n : \E j \in 1..Len(out) : out[j] = m
    BY <1>1 DEF OrderInv, NothingLost
  <2>5. Len(out) \in Nat /\ \A j \in 1..Len(out) : out[j] \in 1..n
    BY <2>2
  <2>6. ASSUME Len(out) > n PROVE FALSE
    <3>1. n + 1 \in 1..Len(out) /\ out[n + 1] \in 1..n
      BY <2>2, <2>5, <2>6
    <3>2. PICK m \in 1..n : m = out[n + 1]
      BY <3>1
    <3>3. out[m] = out[n + 1] /\ m \in 1..Len(out)
      BY <2>2, <2>3, <2>5, <2>6, <3>2
    <3>4. m = n + 1
      BY <2>2, <3>1, <3>3 DEF Distinct
    <3> QED
      BY <2>2, <3>4
  <2>7. ASSUME Len(out) < n PROVE FALSE
    <3>1. PICK j \in 1..Len(out) : out[j] = n
      BY <2>2, <2>4, <2>5, <2>7
    <3>2. out[j] = j /\ j < n
      BY <2>2, <2>3, <2>5, <2>7
    <3> QED
      BY <2>2, <3>1, <3>2
  <2>8. Len(out) = n
    BY <2>2, <2>5, <2>6, <2>7
  <2>9. Len(Run(1, n)) = n /\ Run(1, n) \in Seq(1..n) /\ \A j \in 1..n : Run(1, n)[j] = j
    <3>1. 1 \in Int /\ n \in Int /\ n >= 1 - 1 /\ 1..n \subseteq 1..n
      BY <2>2
    <3>2. /\ Run(1, n) \in Seq(1..n) /\ Len(Run(1, n)) = n - 1 + 1
          /\ \A j \in 1..(n - 1 + 1) : Run(1, n)[j] = 1 + j - 1
      BY <3>1, RunFacts
    <3> QED
      BY <2>2, <3>2
  <2> QED
    BY <2>2, <2>3, <2>8, <2>9
<1> QED
  BY <1>1, AllInductive, PTL
=============================================================================
