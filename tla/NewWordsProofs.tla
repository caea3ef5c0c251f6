--------------------------- MODULE NewWordsProofs ---------------------------
(***************************************************************************)
(* Proofs about NewWords, for any commits, any dictionary, any window and   *)
(* any clock.                                                               *)
(***************************************************************************)
EXTENDS NewWords, SequenceTheorems, FiniteSetTheorems, WellFoundedInduction, TLAPS

-----------------------------------------------------------------------------
(***************************************************************************)
(* Induction, loops and choices.                                           *)
(***************************************************************************)

\* The order of the natural numbers as a relation.
Below == {ss \in Nat \X Nat : ss[1] < ss[2]}

\* A set of natural numbers has a least element.
LEMMA LeastExists ==
  ASSUME NEW T \in SUBSET Nat, T # {}
  PROVE  \E x \in T : \A y \in T : x <= y
  <1>1. IsWellFoundedOn(Below, Nat)
    <2>1. Below = OpToRel(<, Nat)
      BY DEF Below, OpToRel
    <2> QED BY <2>1, NatLessThanWellFounded
  <1>2. PICK x \in T : \A y \in T : ~(<<y, x>> \in Below)
    BY <1>1, WFMin
  <1>3. \A y \in T : /\ <<y, x>> \in Nat \X Nat
                     /\ <<y, x>>[1] = y /\ <<y, x>>[2] = x
    OBVIOUS
  <1>4. \A y \in T : ~(y < x)
    BY <1>2, <1>3 DEF Below
  <1> QED BY <1>4

\* Induction: a set with 0 and with the successor of each of its numbers.
LEMMA Induct ==
  ASSUME NEW P, 0 \in P, \A n \in Nat : n \in P => n + 1 \in P
  PROVE  \A n \in Nat : n \in P
  <1> SUFFICES ASSUME Nat \ P # {} PROVE FALSE
    OBVIOUS
  <1>1. PICK x \in Nat \ P : \A y \in Nat \ P : x <= y
    BY LeastExists
  <1>2. x # 0
    BY <1>1
  <1>3. x - 1 \in Nat /\ ~(x <= x - 1)
    BY <1>1, <1>2
  <1>4. x - 1 \in P
    BY <1>1, <1>3
  <1>5. (x - 1) + 1 = x
    BY <1>1
  <1> QED BY <1>1, <1>3, <1>4, <1>5

\* The states of a loop that begins before row m + 1 and ends after row n.
IsLoop(f, S, a, step, m, n) ==
  /\ f \in [m..n -> S]
  /\ f[m] = a
  /\ \A i \in (m + 1)..n : f[i] = step[i][f[i - 1]]

\* A loop over m+1..n has a value after every turn.
LEMMA LoopExists ==
  ASSUME NEW S, NEW a \in S, NEW m \in Nat, NEW n \in Nat, m <= n,
         NEW step \in [(m + 1)..n -> [S -> S]]
  PROVE  \E f : IsLoop(f, S, a, step, m, n)
  <1> DEFINE P == {k \in Nat : m + k <= n => \E f : IsLoop(f, S, a, step, m, m + k)}
  <1>1. 0 \in P
    <2> DEFINE f == [i \in m..m |-> a]
    <2>1. IsLoop(f, S, a, step, m, m)
      BY DEF IsLoop
    <2>2. m + 0 = m
      OBVIOUS
    <2> QED BY <2>1, <2>2
  <1>2. \A k \in Nat : k \in P => k + 1 \in P
    <2> SUFFICES ASSUME NEW k \in Nat, k \in P, m + (k + 1) <= n
                 PROVE  \E f : IsLoop(f, S, a, step, m, m + (k + 1))
      OBVIOUS
    <2>1. PICK f : IsLoop(f, S, a, step, m, m + k)
      OBVIOUS
    <2> DEFINE j == m + (k + 1)
               g == [i \in m..j |-> IF i = j THEN step[j][f[j - 1]] ELSE f[i]]
    <2>2. j \in (m + 1)..n /\ j - 1 \in m..(m + k) /\ j - 1 = m + k
      OBVIOUS
    <2>3. f[j - 1] \in S /\ step[j] \in [S -> S]
      BY <2>1, <2>2 DEF IsLoop
    <2>4. step[j][f[j - 1]] \in S
      BY <2>3
    <2>5. g \in [m..j -> S]
      <3>1. \A i \in m..j : i # j => i \in m..(m + k)
        OBVIOUS
      <3> HIDE DEF j
      <3> QED BY <2>1, <2>4, <3>1 DEF IsLoop
    <2>6. g[m] = a
      BY <2>1, <2>2 DEF IsLoop
    <2>7. \A i \in (m + 1)..j : g[i] = step[i][g[i - 1]]
      <3> SUFFICES ASSUME NEW i \in (m + 1)..j PROVE g[i] = step[i][g[i - 1]]
        OBVIOUS
      <3>1. i - 1 \in m..j /\ i - 1 # j /\ i \in m..j /\ g[i - 1] = f[i - 1]
        OBVIOUS
      <3>2. CASE i = j
        BY <3>1, <3>2
      <3>3. CASE i # j
        <4>1. i \in (m + 1)..(m + k)
          BY <3>3
        <4> QED BY <2>1, <3>1, <3>3, <4>1 DEF IsLoop
      <3> QED BY <3>2, <3>3
    <2> QED BY <2>5, <2>6, <2>7 DEF IsLoop
  <1>3. n - m \in Nat /\ m + (n - m) = n
    OBVIOUS
  <1>4. \A k \in Nat : k \in P
    <2> HIDE DEF P
    <2> QED BY <1>1, <1>2, Induct
  <1>5. n - m \in P
    BY <1>3, <1>4
  <1> QED BY <1>3, <1>5

\* In a finite set that R orders, one element is before all others.
Orders2(R, D) ==
  /\ \A x, y \in D : x # y => <<x, y>> \in R \/ <<y, x>> \in R
  /\ \A x, y, z \in D : <<x, y>> \in R /\ <<y, z>> \in R => <<x, z>> \in R

\* A finite set that is ordered has a first element.
LEMMA FirstExists ==
  ASSUME NEW R, NEW D, IsFiniteSet(D), D # {}, Orders2(R, D)
  PROVE  \E x \in D : \A y \in D \ {x} : <<x, y>> \in R
  <1> DEFINE Has(T) == \E x \in T : \A y \in T \ {x} : <<x, y>> \in R
             P == {n \in Nat : \A T \in SUBSET D : Cardinality(T) = n + 1 => Has(T)}
  <1>1. 0 \in P
    <2> SUFFICES ASSUME NEW T \in SUBSET D, Cardinality(T) = 1 PROVE Has(T)
      OBVIOUS
    <2>1. IsFiniteSet(T)
      BY FS_Subset
    <2>2. PICK x : T = {x}
      BY <2>1, FS_Singleton
    <2> QED BY <2>2
  <1>2. \A n \in Nat : n \in P => n + 1 \in P
    <2> SUFFICES ASSUME NEW n \in Nat, n \in P,
                        NEW T \in SUBSET D, Cardinality(T) = (n + 1) + 1
                 PROVE  Has(T)
      OBVIOUS
    <2>1. IsFiniteSet(T)
      BY FS_Subset
    <2>2. T # {}
      BY <2>1, FS_EmptySet
    <2>3. PICK x \in T : TRUE
      BY <2>2
    <2>4. Cardinality(T \ {x}) = n + 1 /\ T \ {x} \in SUBSET D
      BY <2>1, FS_RemoveElement
    <2>5. PICK b \in T \ {x} : \A y \in T \ {x, b} : <<b, y>> \in R
      BY <2>4
    <2>6. CASE <<b, x>> \in R
      BY <2>5, <2>6
    <2>7. CASE <<x, b>> \in R
      <3>1. \A y \in T \ {x} : <<x, y>> \in R
        BY <2>5, <2>7 DEF Orders2
      <3> QED BY <3>1
    <2> QED BY <2>5, <2>6, <2>7 DEF Orders2
  <1>3. \A n \in Nat : n \in P
    <2> HIDE DEF P
    <2> QED BY <1>1, <1>2, Induct
  <1>4. Cardinality(D) - 1 \in Nat /\ Cardinality(D) = (Cardinality(D) - 1) + 1
    BY FS_CardinalityType, FS_EmptySet
  <1>5. Cardinality(D) - 1 \in P
    BY <1>3, <1>4
  <1> QED BY <1>4, <1>5

\* f gives every element of S one of T, and every one of T once.
Matches(f, S, T) ==
  /\ f \in [S -> T]
  /\ \A x, y \in S : f[x] = f[y] => x = y
  /\ \A z \in T : \E x \in S : f[x] = z

\* Sets that match one to one have as many elements.
LEMMA SameSize ==
  ASSUME NEW S, NEW T, NEW f, Matches(f, S, T), IsFiniteSet(S)
  PROVE  IsFiniteSet(T) /\ Cardinality(T) = Cardinality(S)
  <1>1. f \in Bijection(S, T)
    BY DEF Matches, Bijection, Injection, Surjection, IsInjective
  <1>2. ExistsBijection(S, T)
    BY <1>1 DEF ExistsBijection
  <1> QED BY <1>2, FS_Bijection

-----------------------------------------------------------------------------
(***************************************************************************)
(* What is scanned.                                                        *)
(***************************************************************************)

\* The parts of a row of the history.
LEMMA EntryTyped ==
  ASSUME NEW h \in Seq(Entry)
  PROVE  /\ DOMAIN h = 1..Len(h) /\ Len(h) \in Nat
         /\ \A i \in 1..Len(h) :
              /\ h[i].ts \in Int /\ h[i].code \in Seq(Keys)
              /\ h[i].text \in Seq(Chars) /\ Len(h[i].text) \in Nat \ {0}
              /\ DOMAIN h[i].text = 1..Len(h[i].text)
              /\ \A k \in 1..Len(h[i].text) : h[i].text[k] \in Chars
  <1>1. \A i \in 1..Len(h) : h[i] \in Entry
    BY ElementOfSeq, Zenon
  <1>2. ASSUME NEW e \in Entry
        PROVE  /\ e.ts \in Int /\ e.code \in Seq(Keys)
               /\ e.text \in Seq(Chars) /\ Len(e.text) \in Nat \ {0}
               /\ DOMAIN e.text = 1..Len(e.text)
               /\ \A k \in 1..Len(e.text) : e.text[k] \in Chars
    <2>1. e.ts \in Int /\ e.code \in Seq(Keys) /\ e.text \in Seq(Chars) /\ e.text # <<>>
      BY DEF Entry, Texts
    <2> DEFINE x == e.text
    <2>2. x \in Seq(Chars) /\ x # <<>>
      BY <2>1
    <2> HIDE DEF x
    <2>3. /\ Len(x) \in Nat \ {0} /\ DOMAIN x = 1..Len(x)
          /\ \A k \in 1..Len(x) : x[k] \in Chars
      BY <2>2
    <2> QED BY <2>1, <2>3, Zenon DEF x
  <1>3. DOMAIN h = 1..Len(h) /\ Len(h) \in Nat
    OBVIOUS
  <1> QED BY <1>1, <1>2, <1>3, Zenon

\* What an order of a scan is, spelled out.
LEMMA OrdersTyped ==
  ASSUME NEW h \in Seq(Entry), NEW s \in Orders(h)
  PROVE  /\ Smaller(Window, Len(h)) \in 0..Len(h)
         /\ s \in [1..Smaller(Window, Len(h)) -> 1..Len(h)]
         /\ \A i, j \in 1..Smaller(Window, Len(h)) : s[i] = s[j] => i = j
         /\ \A i, j \in 1..Smaller(Window, Len(h)) : i < j => h[s[i]].ts <= h[s[j]].ts
         /\ \A r \in 1..Len(h), i \in 1..Smaller(Window, Len(h)) :
              \/ \E j \in 1..Smaller(Window, Len(h)) : s[j] = r
              \/ h[r].ts <= h[s[i]].ts
  <1>1. DOMAIN h = 1..Len(h) /\ Len(h) \in Nat
    OBVIOUS
  <1>2. Smaller(Window, Len(h)) \in 0..Len(h)
    BY <1>1, WindowAssumption DEF Smaller
  <1> DEFINE n == Smaller(Window, Len(h))
  <1> HIDE DEF n
  <1>3. /\ s \in [1..n -> DOMAIN h] /\ IsInjective(s)
        /\ \A i, j \in DOMAIN s : i < j => h[s[i]].ts <= h[s[j]].ts
        /\ \A r \in DOMAIN h \ ToSet(s), i \in DOMAIN s : h[r].ts <= h[s[i]].ts
    BY Zenon DEF Orders, n
  <1>4. DOMAIN s = 1..n /\ ToSet(s) = {s[j] : j \in DOMAIN s}
    BY <1>3 DEF ToSet
  <1>5. s \in [1..n -> 1..Len(h)] /\ \A i, j \in 1..n : s[i] = s[j] => i = j
    BY <1>1, <1>3, <1>4 DEF IsInjective
  <1>6. \A i, j \in 1..n : i < j => h[s[i]].ts <= h[s[j]].ts
    BY <1>3, <1>4, Zenon
  <1>7. \A r \in 1..Len(h), i \in 1..n :
          (\E j \in 1..n : s[j] = r) \/ h[r].ts <= h[s[i]].ts
    BY <1>1, <1>3, <1>4, Zenon
  <1> QED BY <1>2, <1>5, <1>6, <1>7, Zenon DEF n

\* A scan is a sequence of rows, and no longer than the window.
LEMMA ScansTyped ==
  ASSUME NEW h \in Seq(Entry), NEW es \in Scans(h)
  PROVE  es \in Seq(Entry) /\ Len(es) = Smaller(Window, Len(h)) /\ Len(es) \in Nat
  <1>1. PICK s \in Orders(h) : es = [i \in DOMAIN s |-> h[s[i]]]
    BY DEF Scans
  <1> DEFINE n == Smaller(Window, Len(h))
  <1>2. n \in Nat /\ s \in [1..n -> 1..Len(h)]
    BY OrdersTyped
  <1> HIDE DEF n
  <1>3. DOMAIN s = 1..n /\ \A i \in 1..n : h[s[i]] \in Entry
    BY <1>2
  <1>4. es \in [1..n -> Entry]
    BY <1>1, <1>3
  <1> QED BY <1>2, <1>4 DEF n

\* Functions that agree everywhere are equal.
LEMMA SameFunction ==
  ASSUME NEW D, NEW S, NEW f \in [D -> S], NEW g \in [D -> S], \A x \in D : f[x] = g[x]
  PROVE  f = g
  OBVIOUS

\* The times of the rows of h are all different.
Apiece(h) == \A r, s \in DOMAIN h : r # s => h[r].ts # h[s].ts

\* From the end on, two scans of such a history take the same rows.
LEMMA OneOrder ==
  ASSUME NEW h \in Seq(Entry), Apiece(h), NEW s \in Orders(h), NEW t \in Orders(h)
  PROVE  s = t
  <1> DEFINE n == Smaller(Window, Len(h))
             Differ == {k \in Nat : k < n /\ s[n - k] # t[n - k]}
             Takes(u) ==
               /\ u \in [1..n -> 1..Len(h)]
               /\ \A i, j \in 1..n : u[i] = u[j] => i = j
               /\ \A i, j \in 1..n : i < j => h[u[i]].ts <= h[u[j]].ts
               /\ \A r \in 1..Len(h), i \in 1..n :
                    (\E j \in 1..n : u[j] = r) \/ h[r].ts <= h[u[i]].ts
  <1>1. n \in Nat /\ Len(h) \in Nat /\ DOMAIN h = 1..Len(h)
    BY OrdersTyped
  <1>2. Takes(s) /\ Takes(t)
    BY OrdersTyped, Zenon
  <1> HIDE DEF n
  <1>3. \A r \in 1..Len(h) : h[r].ts \in Int
    BY EntryTyped, Zenon
  <1>4. ASSUME NEW u, NEW v, Takes(u), Takes(v), NEW i \in 1..n,
               \A j \in 1..n : i < j => u[j] = v[j]
        PROVE  h[u[i]].ts <= h[v[i]].ts
    <2>1. u[i] \in 1..Len(h) /\ v[i] \in 1..Len(h)
      BY <1>4
    <2>2. CASE \E j \in 1..n : v[j] = u[i]
      <3>1. PICK j \in 1..n : v[j] = u[i]
        BY <2>2
      <3>2. ~(i < j)
        <4> SUFFICES ASSUME i < j PROVE FALSE
          OBVIOUS
        <4>1. u[j] = v[j]
          BY <1>4
        <4>2. u[j] = u[i]
          BY <3>1, <4>1
        <4>3. j = i
          BY <1>4, <4>2
        <4> QED BY <4>3
      <3>3. CASE j = i
        BY <1>3, <2>1, <3>1, <3>3
      <3>4. CASE j < i
        <4>1. h[v[j]].ts <= h[v[i]].ts
          BY <1>4, <3>4
        <4> QED BY <3>1, <4>1
      <3> QED BY <3>2, <3>3, <3>4
    <2>3. CASE ~(\E j \in 1..n : v[j] = u[i])
      BY <1>4, <2>1, <2>3
    <2> QED BY <2>2, <2>3
  <1>5. Differ = {}
    <2> SUFFICES ASSUME Differ # {} PROVE FALSE
      OBVIOUS
    <2>1. PICK k \in Differ : \A l \in Differ : k <= l
      BY LeastExists
    <2> DEFINE i == n - k
    <2>2. i \in 1..n /\ s[i] # t[i]
      BY <1>1, <2>1
    <2>3. \A j \in 1..n : i < j => s[j] = t[j]
      <3> SUFFICES ASSUME NEW j \in 1..n, i < j, s[j] # t[j] PROVE FALSE
        OBVIOUS
      <3>1. n - j \in Nat /\ n - j < n /\ n - (n - j) = j
        BY <1>1
      <3>2. n - j \in Differ
        BY <3>1
      <3>3. k <= n - j /\ k \in Nat
        BY <2>1, <3>2
      <3> HIDE DEF Differ
      <3> QED BY <1>1, <3>3
    <2> HIDE DEF i, Differ
    <2>4. h[s[i]].ts <= h[t[i]].ts
      BY <1>2, <1>4, <2>2, <2>3
    <2>5. h[t[i]].ts <= h[s[i]].ts
      <3>1. \A j \in 1..n : i < j => t[j] = s[j]
        BY <2>3
      <3> QED BY <1>2, <1>4, <2>2, <3>1
    <2>6. s[i] \in 1..Len(h) /\ t[i] \in 1..Len(h)
      BY <1>2, <2>2
    <2>7. h[s[i]].ts = h[t[i]].ts
      BY <1>3, <2>4, <2>5, <2>6
    <2> QED BY <1>1, <2>2, <2>6, <2>7 DEF Apiece
  <1>6. \A i \in 1..n : s[i] = t[i]
    <2> SUFFICES ASSUME NEW i \in 1..n, s[i] # t[i] PROVE FALSE
      OBVIOUS
    <2>1. n - i \in Nat /\ n - i < n /\ n - (n - i) = i
      BY <1>1
    <2> QED BY <1>5, <2>1
  <1>7. s \in [1..n -> 1..Len(h)] /\ t \in [1..n -> 1..Len(h)]
    BY <1>2
  <1> DEFINE D == 1..n
             R == 1..Len(h)
  <1>8. s \in [D -> R] /\ t \in [D -> R] /\ \A i \in D : s[i] = t[i]
    BY <1>6, <1>7
  <1> HIDE DEF D, R
  <1> QED BY <1>8, SameFunction

\* Of rows that are of different times there is one scan.
LEMMA OneScan ==
  ASSUME NEW h \in Seq(Entry), Apiece(h), NEW es \in Scans(h), NEW fs \in Scans(h)
  PROVE  es = fs
  <1>1. PICK s \in Orders(h) : es = [i \in DOMAIN s |-> h[s[i]]]
    BY DEF Scans
  <1>2. PICK t \in Orders(h) : fs = [i \in DOMAIN t |-> h[t[i]]]
    BY DEF Scans
  <1>3. s = t
    BY OneOrder
  <1> QED BY <1>1, <1>2, <1>3

\* A history in the order of time that the window holds is scanned as it is.
Rising(h) == \A r, s \in DOMAIN h : r < s => h[r].ts < h[s].ts

\* Rows that rise in time and fit the window are their own scan.
LEMMA ScanOfRising ==
  ASSUME NEW h \in Seq(Entry), Rising(h), Len(h) <= Window, NEW es \in Scans(h)
  PROVE  es = h
  <1> DEFINE n == Len(h)
             s == [i \in 1..n |-> i]
  <1>1. n \in Nat /\ DOMAIN h = 1..n /\ Smaller(Window, Len(h)) = n
    BY WindowAssumption DEF Smaller
  <1>2. \A r \in 1..n : h[r].ts \in Int
    BY EntryTyped, Zenon
  <1>3. Apiece(h)
    <2> SUFFICES ASSUME NEW r \in 1..n, NEW q \in 1..n, r # q PROVE h[r].ts # h[q].ts
      BY <1>1 DEF Apiece
    <2>1. r < q \/ q < r
      OBVIOUS
    <2> QED BY <1>1, <1>2, <2>1 DEF Rising
  <1>4. s \in Orders(h)
    <2>1. DOMAIN s = 1..n /\ \A i \in 1..n : s[i] = i
      OBVIOUS
    <2>2. ToSet(s) = 1..n
      BY <2>1 DEF ToSet
    <2> HIDE DEF s
    <2>3. IsInjective(s)
      BY <2>1 DEF IsInjective
    <2>4. \A i, j \in DOMAIN s : i < j => h[s[i]].ts <= h[s[j]].ts
      BY <1>1, <1>2, <2>1 DEF Rising
    <2>5. s \in [1..Smaller(Window, Len(h)) -> DOMAIN h]
      BY <1>1, <2>1 DEF s
    <2>6. DOMAIN h \ ToSet(s) = {}
      BY <1>1, <2>2
    <2> QED BY <2>3, <2>4, <2>5, <2>6, Zenon DEF Orders
  <1>5. [i \in DOMAIN s |-> h[s[i]]] \in Scans(h)
    <2> HIDE DEF s
    <2> QED BY <1>4, Zenon DEF Scans
  <1>6. [i \in DOMAIN s |-> h[s[i]]] = h
    BY <1>1
  <1> QED BY <1>3, <1>5, <1>6, OneScan

-----------------------------------------------------------------------------
(***************************************************************************)
(* The places of a scan.                                                   *)
(***************************************************************************)

\* How many characters row i has.
Size(es, i) == Len(es[i].text)
\* The character at a place.
Char(es, p) == es[p[1]].text[p[2]]

\* The places of a scan.
LEMMA PlaceParts ==
  ASSUME NEW es \in Seq(Entry)
  PROVE  /\ \A p \in Places(es) : /\ p = <<p[1], p[2]>>
                                  /\ p[1] \in 1..Len(es) /\ p[2] \in 1..Size(es, p[1])
                                  /\ Char(es, p) \in Chars
         /\ \A i \in 1..Len(es) : \A k \in 1..Size(es, i) : <<i, k>> \in Places(es)
  <1>1. /\ DOMAIN es = 1..Len(es)
        /\ \A i \in 1..Len(es) : DOMAIN es[i].text = 1..Size(es, i)
        /\ \A i \in 1..Len(es) : \A k \in 1..Size(es, i) : es[i].text[k] \in Chars
    BY EntryTyped, Zenon DEF Size
  <1>2. \A p : p \in Places(es) <=>
               \E i \in 1..Len(es) : \E k \in 1..Size(es, i) : p = <<i, k>>
    <2> DEFINE row(i) == {<<i, k>> : k \in DOMAIN es[i].text}
               rows == {row(i) : i \in DOMAIN es}
    <2>1. Places(es) = UNION rows
      BY Zenon DEF Places
    <2>2. \A p : p \in UNION rows <=> \E i \in 1..Len(es) : p \in row(i)
      BY <1>1
    <2>3. \A i \in 1..Len(es) : \A p : p \in row(i) <=> \E k \in 1..Size(es, i) : p = <<i, k>>
      BY <1>1, Zenon
    <2> HIDE DEF row, rows
    <2> QED BY <2>1, <2>2, <2>3, Zenon
  <1>3. ASSUME NEW p, NEW i \in 1..Len(es), NEW k \in 1..Size(es, i), p = <<i, k>>
        PROVE  /\ p = <<p[1], p[2]>>
               /\ p[1] \in 1..Len(es) /\ p[2] \in 1..Size(es, p[1])
               /\ Char(es, p) \in Chars
    <2>1. p[1] = i /\ p[2] = k
      BY <1>3
    <2> QED BY <1>1, <1>3, <2>1, Zenon DEF Char
  <1> QED BY <1>2, <1>3, Zenon

\* There are finitely many.
LEMMA PlacesFinite ==
  ASSUME NEW es \in Seq(Entry)
  PROVE  IsFiniteSet(Places(es))
  <1> DEFINE Upto(n) == {p \in Places(es) : p[1] <= n}
             P == {n \in Nat : n <= Len(es) => IsFiniteSet(Upto(n))}
  <1>1. 0 \in P
    <2>1. Upto(0) = {}
      BY PlaceParts
    <2> QED BY <2>1, FS_EmptySet
  <1>2. \A n \in Nat : n \in P => n + 1 \in P
    <2> SUFFICES ASSUME NEW n \in Nat, n \in P, n + 1 <= Len(es)
                 PROVE  IsFiniteSet(Upto(n + 1))
      OBVIOUS
    <2> DEFINE row == {n + 1} \X (1..Size(es, n + 1))
    <2>1. n + 1 \in 1..Len(es) /\ n <= Len(es) /\ Size(es, n + 1) \in Nat
      BY EntryTyped DEF Size
    <2>2. IsFiniteSet(row)
      <3>1. IsFiniteSet({n + 1})
        BY FS_Singleton, Zenon
      <3>2. IsFiniteSet(1..Size(es, n + 1))
        BY <2>1, FS_Interval
      <3> QED BY <3>1, <3>2, FS_Product, Zenon
    <2>3. IsFiniteSet(Upto(n))
      BY <2>1
    <2>4. IsFiniteSet(Upto(n) \cup row)
      BY <2>2, <2>3, FS_Union, Zenon
    <2>5. Upto(n + 1) \subseteq Upto(n) \cup row
      <3> SUFFICES ASSUME NEW p \in Places(es), p[1] <= n + 1, ~(p[1] <= n)
                   PROVE  p \in row
        OBVIOUS
      <3>1. p = <<p[1], p[2]>> /\ p[1] \in 1..Len(es) /\ p[2] \in 1..Size(es, p[1])
        BY PlaceParts
      <3>2. p[1] = n + 1
        BY <3>1
      <3> QED BY <3>1, <3>2
    <2> HIDE DEF Upto, row
    <2> QED BY <2>4, <2>5, FS_Subset
  <1>3. \A n \in Nat : n \in P
    <2> HIDE DEF P
    <2> QED BY <1>1, <1>2, Induct
  <1>4. Upto(Len(es)) = Places(es) /\ Len(es) \in Nat
    BY PlaceParts, EntryTyped
  <1> QED BY <1>3, <1>4

\* Follows, in numbers.
LEMMA FollowsParts ==
  ASSUME NEW es \in Seq(Entry), NEW p \in Places(es), NEW q \in Places(es)
  PROVE  Follows(es, p, q) <=>
           \/ q[1] = p[1] /\ q[2] = p[2] + 1
           \/ /\ q[1] = p[1] + 1 /\ p[2] = Size(es, p[1]) /\ q[2] = 1
              /\ ~Apart(es[p[1]].ts, es[q[1]].ts)
  <1>1. p = <<p[1], p[2]>> /\ q = <<q[1], q[2]>>
    BY PlaceParts, Zenon
  <1>2. \A a, b : q = <<a, b>> <=> q[1] = a /\ q[2] = b
    BY <1>1
  <1> QED BY <1>2, Zenon DEF Follows, Size

-----------------------------------------------------------------------------
(***************************************************************************)
(* UpdateBigrams counts the neighbours.                                    *)
(***************************************************************************)

\* The neighbours x and y of which the second is in one of the first n rows.
Links(es, n, x, y) ==
  {ph \in Places(es) \X Places(es) :
     /\ Follows(es, ph[1], ph[2]) /\ ph[2][1] <= n
     /\ Char(es, ph[1]) = x /\ Char(es, ph[2]) = y}

\* Those of which the second is in row i.
LinksInto(es, i, x, y) == {ph \in Links(es, i, x, y) : ph[2][1] = i}

\* There are finitely many neighbours.
LEMMA LinksFinite ==
  ASSUME NEW es \in Seq(Entry), NEW n, NEW x, NEW y
  PROVE  IsFiniteSet(Links(es, n, x, y))
  <1>1. IsFiniteSet(Places(es) \X Places(es))
    BY PlacesFinite, FS_Product, Zenon
  <1>2. Links(es, n, x, y) \in SUBSET (Places(es) \X Places(es))
    BY Zenon DEF Links
  <1> QED BY <1>1, <1>2, FS_Subset, Zenon

\* The loop of UpdateBigrams, row by row.
IsTally(es, f) ==
  /\ f[0] = [prev |-> <<>>, ts |-> 0, table |-> NoCounts]
  /\ \A i \in 1..Len(es) : f[i] = Count(f[i - 1], es[i])

\* What it knows after i rows.
Tallied(es, i, st) ==
  /\ st.table \in [Chars \X Chars -> Nat]
  /\ \A x, y \in Chars : st.table[<<x, y>>] = Cardinality(Links(es, i, x, y))
  /\ i = 0 => st.prev = <<>>
  /\ i > 0 => st.prev = <<es[i].text[Size(es, i)]>> /\ st.ts = es[i].ts

\* The characters of row i, after the one before them if it counts.
IsLine(es, i, d, line) ==
  /\ line \in Seq(Chars) /\ d \in {0, 1} /\ Len(line) = d + Size(es, i)
  /\ \A k \in 1..Size(es, i) : line[d + k] = es[i].text[k]
  /\ d = 1 => /\ i > 1 /\ line[1] = es[i - 1].text[Size(es, i - 1)]
              /\ ~Apart(es[i - 1].ts, es[i].ts)
  /\ d = 0 => i = 1 \/ Apart(es[i - 1].ts, es[i].ts)

\* The line of a row is its text, after the last character before it unless
\* there was a pause.
LEMMA LineOfRow ==
  ASSUME NEW es \in Seq(Entry), NEW i \in 1..Len(es), NEW st, Tallied(es, i - 1, st)
  PROVE  \E d : IsLine(es, i, d, Chain(st.prev, st.ts, es[i]) \o es[i].text)
  <1> DEFINE w == es[i].text
             m == Size(es, i)
             c == es[i - 1].text[Size(es, i - 1)]
  <1>1. w \in Seq(Chars) /\ m \in Nat \ {0} /\ Len(w) = m /\ i \in Nat /\ i >= 1
    BY EntryTyped DEF Size
  <1>2. i > 1 => c \in Chars /\ i - 1 \in 1..Len(es)
    <2> SUFFICES ASSUME i > 1 PROVE c \in Chars /\ i - 1 \in 1..Len(es)
      OBVIOUS
    <2>1. i - 1 \in 1..Len(es)
      OBVIOUS
    <2>2. Size(es, i - 1) \in 1..Size(es, i - 1)
      BY <2>1, EntryTyped DEF Size
    <2> QED BY <2>1, <2>2, EntryTyped, Zenon DEF Size
  <1>3. /\ i = 1 => st.prev = <<>>
        /\ i > 1 => st.prev = <<c>> /\ st.ts = es[i - 1].ts
    BY <1>1 DEF Tallied
  <1> HIDE DEF c, w, m
  <1>4. CASE i > 1 /\ ~Apart(es[i - 1].ts, es[i].ts)
    <2>1. Chain(st.prev, st.ts, es[i]) = <<c>>
      BY <1>3, <1>4 DEF Chain
    <2> DEFINE line == <<c>> \o w
    <2>2. line \in Seq(Chars) /\ Len(line) = 1 + m
      BY <1>1, <1>2, <1>4
    <2>3. line[1] = c /\ \A k \in 1..m : line[1 + k] = w[k]
      BY <1>1, <1>2, <1>4
    <2> HIDE DEF line
    <2>4. IsLine(es, i, 1, line)
      BY <1>4, <2>2, <2>3 DEF IsLine, w, m, c
    <2> QED BY <2>1, <2>4, Zenon DEF line, w
  <1>5. CASE i = 1 \/ Apart(es[i - 1].ts, es[i].ts)
    <2>1. Chain(st.prev, st.ts, es[i]) = <<>>
      BY <1>1, <1>3, <1>5 DEF Chain
    <2>2. <<>> \o w = w
      BY <1>1
    <2>3. IsLine(es, i, 0, w)
      BY <1>1, <1>5 DEF IsLine, w, m
    <2> QED BY <2>1, <2>2, <2>3, Zenon DEF w
  <1> QED BY <1>1, <1>4, <1>5

\* What stands in a line and what was typed one after the other match.
LEMMA RowLinks ==
  ASSUME NEW es \in Seq(Entry), NEW i \in 1..Len(es), NEW d, NEW line,
         IsLine(es, i, d, line), NEW x, NEW y
  PROVE  Cardinality(LinksInto(es, i, x, y)) = Pairs(line, x, y)
  <1> DEFINE m == Size(es, i)
             K == {k \in 1..(Len(line) - 1) : line[k] = x /\ line[k + 1] = y}
             New == {ph \in Links(es, i, x, y) : ph[2][1] = i}
             at(k) == IF k <= d THEN <<i - 1, Size(es, i - 1)>> ELSE <<i, k - d>>
             f == [k \in K |-> <<at(k), at(k + 1)>>]
  <1>1. /\ m \in Nat \ {0} /\ i \in Nat /\ i >= 1
        /\ i > 1 => i - 1 \in 1..Len(es) /\ Size(es, i - 1) \in Nat \ {0}
    <2>1. \A j \in 1..Len(es) : Size(es, j) \in Nat \ {0}
      BY EntryTyped DEF Size
    <2>2. i > 1 => i - 1 \in 1..Len(es)
      OBVIOUS
    <2> QED BY <2>1, <2>2
  <1>2. /\ d \in {0, 1} /\ Len(line) = d + m
        /\ \A k \in 1..m : line[d + k] = es[i].text[k]
        /\ d = 1 => /\ i > 1 /\ line[1] = es[i - 1].text[Size(es, i - 1)]
                    /\ ~Apart(es[i - 1].ts, es[i].ts)
        /\ d = 0 => i = 1 \/ Apart(es[i - 1].ts, es[i].ts)
    BY DEF IsLine
  <1>3. \A k \in 1..(d + m) : at(k) \in Places(es) /\ Char(es, at(k)) = line[k]
    <2> SUFFICES ASSUME NEW k \in 1..(d + m)
                 PROVE  at(k) \in Places(es) /\ Char(es, at(k)) = line[k]
      OBVIOUS
    <2>1. CASE k <= d
      <3>1. k = 1 /\ d = 1 /\ at(k) = <<i - 1, Size(es, i - 1)>>
        BY <1>2, <2>1
      <3>2. Size(es, i - 1) \in 1..Size(es, i - 1) /\ i - 1 \in 1..Len(es)
        BY <1>1, <1>2, <3>1
      <3> HIDE DEF at
      <3>3. at(k) \in Places(es)
        BY <3>1, <3>2, PlaceParts
      <3>4. Char(es, at(k)) = es[i - 1].text[Size(es, i - 1)]
        BY <3>1 DEF Char
      <3> QED BY <1>2, <3>1, <3>3, <3>4
    <2>2. CASE ~(k <= d)
      <3>1. k - d \in 1..m /\ at(k) = <<i, k - d>> /\ d + (k - d) = k
        BY <1>1, <1>2, <2>2
      <3> HIDE DEF at
      <3>2. at(k) \in Places(es)
        BY <3>1, PlaceParts
      <3>3. Char(es, at(k)) = es[i].text[k - d]
        BY <3>1 DEF Char
      <3> QED BY <1>2, <3>1, <3>2, <3>3
    <2> QED BY <2>1, <2>2
  <1>4. \A k \in 1..(d + m - 1) : /\ k \in 1..(d + m) /\ k + 1 \in 1..(d + m)
                                  /\ at(k + 1) = <<i, (k + 1) - d>>
                                  /\ (k + 1) - d \in 1..m
    <2> SUFFICES ASSUME NEW k \in 1..(d + m - 1)
                 PROVE  /\ k \in 1..(d + m) /\ k + 1 \in 1..(d + m)
                        /\ at(k + 1) = <<i, (k + 1) - d>>
                        /\ (k + 1) - d \in 1..m
      OBVIOUS
    <2> HIDE DEF m
    <2>1. /\ k \in 1..(d + m) /\ k + 1 \in 1..(d + m)
          /\ (k + 1) - d \in 1..m /\ ~(k + 1 <= d)
      <3>1. CASE d = 0
        BY <1>1, <3>1
      <3>2. CASE d = 1
        BY <1>1, <3>2
      <3> QED BY <1>2, <3>1, <3>2
    <2>2. at(k + 1) = <<i, (k + 1) - d>>
      <3>1. ~(k + 1 <= d)
        BY <2>1
      <3>2. \A j : ~(j <= d) => at(j) = <<i, j - d>>
        BY Zenon
      <3> HIDE DEF at
      <3> QED BY <3>1, <3>2, Zenon
    <2> QED BY <2>1, <2>2, Zenon
  <1>5. \A k \in 1..(d + m - 1) : Follows(es, at(k), at(k + 1))
    <2> SUFFICES ASSUME NEW k \in 1..(d + m - 1) PROVE Follows(es, at(k), at(k + 1))
      OBVIOUS
    <2>1. at(k) \in Places(es) /\ at(k + 1) \in Places(es)
      BY <1>3, <1>4
    <2>2. at(k + 1)[1] = i /\ at(k + 1)[2] = (k + 1) - d
      BY <1>4
    <2>3. CASE k <= d
      <3>1. k = 1 /\ d = 1 /\ at(k)[1] = i - 1 /\ at(k)[2] = Size(es, i - 1)
        BY <1>2, <2>3
      <3> HIDE DEF at
      <3>2. at(k + 1)[1] = at(k)[1] + 1 /\ at(k + 1)[2] = 1
        BY <1>1, <2>2, <3>1
      <3> QED BY <1>2, <2>1, <2>2, <3>1, <3>2, FollowsParts
    <2>4. CASE ~(k <= d)
      <3>1. at(k)[1] = i /\ at(k)[2] = k - d
        BY <2>4
      <3> HIDE DEF at
      <3>2. at(k + 1)[1] = at(k)[1] /\ at(k + 1)[2] = at(k)[2] + 1
        BY <1>2, <2>2, <3>1
      <3> QED BY <2>1, <3>2, FollowsParts
    <2> QED BY <2>3, <2>4
  <1>6. K = {k \in 1..(d + m - 1) : line[k] = x /\ line[k + 1] = y}
    <2> DEFINE R == 1..(Len(line) - 1)
    <2>1. R = 1..(d + m - 1)
      BY <1>1, <1>2
    <2>2. \A k : k \in K <=> k \in R /\ line[k] = x /\ line[k + 1] = y
      BY Zenon
    <2> HIDE DEF R, K
    <2> QED BY <2>1, <2>2
  <1> HIDE DEF at, m
  <1>7. \A k \in K : <<at(k), at(k + 1)>> \in New
    <2> SUFFICES ASSUME NEW k \in K PROVE <<at(k), at(k + 1)>> \in New
      OBVIOUS
    <2> DEFINE ph == <<at(k), at(k + 1)>>
    <2>1. k \in 1..(d + m - 1) /\ line[k] = x /\ line[k + 1] = y
      BY <1>6
    <2>2. ph[1] = at(k) /\ ph[2] = at(k + 1) /\ at(k + 1)[1] = i
      BY <1>4, <2>1
    <2>3. ph \in Places(es) \X Places(es)
      BY <1>3, <1>4, <2>1
    <2> HIDE DEF ph
    <2>4. Char(es, ph[1]) = x /\ Char(es, ph[2]) = y
      BY <1>3, <1>4, <2>1, <2>2
    <2>5. Follows(es, ph[1], ph[2])
      BY <1>5, <2>1, <2>2
    <2>6. ph[2][1] = i /\ ph[2][1] <= i
      BY <1>1, <2>2
    <2>7. ph \in New
      BY <2>3, <2>4, <2>5, <2>6, Zenon DEF Links
    <2> QED BY <2>7, Zenon DEF ph
  <1>8. \A j, k \in K : <<at(j), at(j + 1)>> = <<at(k), at(k + 1)>> => j = k
    <2> SUFFICES ASSUME NEW j \in K, NEW k \in K, at(j + 1) = at(k + 1) PROVE j = k
      OBVIOUS
    <2>1. j \in 1..(d + m - 1) /\ k \in 1..(d + m - 1)
      BY <1>6
    <2>2. (j + 1) - d = (k + 1) - d
      BY <1>4, <2>1
    <2> QED BY <1>1, <1>2, <2>1, <2>2 DEF m
  <1>9. \A ph \in New : \E k \in K : <<at(k), at(k + 1)>> = ph
    <2> SUFFICES ASSUME NEW ph \in New PROVE \E k \in K : <<at(k), at(k + 1)>> = ph
      OBVIOUS
    <2>1. /\ ph \in Places(es) \X Places(es) /\ Follows(es, ph[1], ph[2]) /\ ph[2][1] = i
          /\ Char(es, ph[1]) = x /\ Char(es, ph[2]) = y
      BY Zenon DEF Links
    <2>2. ph = <<ph[1], ph[2]>> /\ ph[1] \in Places(es) /\ ph[2] \in Places(es)
      BY <2>1
    <2>3. /\ ph[1] = <<ph[1][1], ph[1][2]>> /\ ph[2] = <<i, ph[2][2]>>
          /\ ph[1][1] \in 1..Len(es) /\ ph[1][2] \in 1..Size(es, ph[1][1])
          /\ ph[2][2] \in 1..m
      BY <2>1, <2>2, PlaceParts, Zenon DEF m
    <2> DEFINE k == ph[2][2] - 1 + d
    <2>4. k \in 1..(d + m - 1) /\ at(k) = ph[1]
      <3>1. CASE ph[2][1] = ph[1][1] /\ ph[2][2] = ph[1][2] + 1
        <4>1. ph[1][2] \in Nat \ {0} /\ ph[1][1] = i /\ k = ph[1][2] + d
          BY <1>1, <1>2, <2>1, <2>3, <3>1 DEF m
        <4>2. k \in 1..(d + m - 1) /\ ~(k <= d) /\ k - d = ph[1][2]
          <5>1. ASSUME NEW a \in Nat \ {0}, a + 1 \in 1..m
                PROVE  a + d \in 1..(d + m - 1) /\ ~(a + d <= d) /\ (a + d) - d = a
            <6>1. CASE d = 0
              BY <1>1, <5>1, <6>1
            <6>2. CASE d = 1
              BY <1>1, <5>1, <6>2
            <6> QED BY <1>2, <6>1, <6>2
          <5>2. ph[1][2] + 1 \in 1..m
            BY <2>3, <3>1
          <5> HIDE DEF k
          <5> QED BY <4>1, <5>1, <5>2
        <4>3. at(k) = <<i, ph[1][2]>>
          BY <4>2 DEF at
        <4> QED BY <2>3, <4>1, <4>2, <4>3
      <3>2. CASE /\ ph[2][1] = ph[1][1] + 1 /\ ph[1][2] = Size(es, ph[1][1]) /\ ph[2][2] = 1
                 /\ ~Apart(es[ph[1][1]].ts, es[ph[2][1]].ts)
        <4>1. ph[1][1] = i - 1 /\ i > 1
          BY <1>1, <2>1, <2>3, <3>2
        <4>2. ~Apart(es[i - 1].ts, es[i].ts)
          BY <2>1, <3>2, <4>1
        <4>3. d = 1 /\ k = 1
          BY <1>2, <3>2, <4>1, <4>2
        <4>4. at(k) = <<i - 1, Size(es, i - 1)>>
          BY <4>3 DEF at
        <4>5. ph[1] = <<i - 1, Size(es, i - 1)>>
          BY <2>3, <3>2, <4>1
        <4> QED BY <1>1, <4>3, <4>4, <4>5
      <3> QED BY <2>1, <2>2, <3>1, <3>2, FollowsParts
    <2>5. at(k + 1) = ph[2]
      <3>1. at(k + 1) = <<i, (k + 1) - d>> /\ (k + 1) - d = ph[2][2]
        BY <1>2, <1>4, <2>3, <2>4
      <3> QED BY <2>3, <3>1
    <2> HIDE DEF k
    <2>6. k \in K
      <3>1. line[k] = x /\ line[k + 1] = y
        BY <1>3, <1>4, <2>1, <2>4, <2>5, Zenon
      <3> QED BY <1>6, <2>4, <3>1
    <2>7. <<at(k), at(k + 1)>> = ph
      BY <2>2, <2>4, <2>5
    <2> QED BY <2>6, <2>7
  <1>10. IsFiniteSet(K)
    <2>1. IsFiniteSet(1..(d + m - 1))
      BY <1>1, <1>2, FS_Interval
    <2>2. K \in SUBSET (1..(d + m - 1))
      BY <1>6
    <2> HIDE DEF K
    <2> QED BY <2>1, <2>2, FS_Subset
  <1>11. Matches(f, K, New)
    <2> HIDE DEF K, New
    <2> QED BY <1>7, <1>8, <1>9 DEF Matches
  <1>12. Cardinality(K) = Pairs(line, x, y)
    BY Zenon DEF Pairs
  <1> HIDE DEF K, New, f
  <1>13. Cardinality(New) = Cardinality(K)
    BY <1>10, <1>11, SameSize, Zenon
  <1> QED BY <1>12, <1>13, Zenon DEF New, LinksInto

\* The neighbours up to row i are those before it and those that end in it.
LEMMA MoreLinks ==
  ASSUME NEW es \in Seq(Entry), NEW i \in 1..Len(es), NEW x, NEW y, NEW n \in Nat,
         Cardinality(LinksInto(es, i, x, y)) = n
  PROVE  Cardinality(Links(es, i, x, y)) = Cardinality(Links(es, i - 1, x, y)) + n
  <1> DEFINE New == {ph \in Links(es, i, x, y) : ph[2][1] = i}
             Old == Links(es, i - 1, x, y)
  <1>1. \A ph \in Places(es) \X Places(es) :
          /\ ph[2][1] <= i <=> ph[2][1] <= i - 1 \/ ph[2][1] = i
          /\ ~(ph[2][1] <= i - 1 /\ ph[2][1] = i)
    <2>1. \A p \in Places(es) : p[1] \in 1..Len(es)
      BY PlaceParts, Zenon
    <2>2. \A j \in 1..Len(es) : /\ j <= i <=> j <= i - 1 \/ j = i
                                /\ ~(j <= i - 1 /\ j = i)
      BY EntryTyped
    <2>3. \A ph \in Places(es) \X Places(es) : ph[2] \in Places(es)
      OBVIOUS
    <2> QED BY <2>1, <2>2, <2>3, Zenon
  <1>2. Links(es, i, x, y) = Old \cup New /\ Old \cap New = {}
    <2>1. \A ph : ph \in Links(es, i, x, y) <=> ph \in Old \/ ph \in New
      BY <1>1, Zenon DEF Links
    <2>2. \A ph : ~(ph \in Old /\ ph \in New)
      BY <1>1, Zenon DEF Links
    <2> HIDE DEF Old, New
    <2> QED BY <2>1, <2>2
  <1>3. IsFiniteSet(Old) /\ IsFiniteSet(Links(es, i, x, y))
    BY LinksFinite, Zenon
  <1>4. IsFiniteSet(New)
    <2>1. New \in SUBSET Links(es, i, x, y)
      OBVIOUS
    <2> HIDE DEF New
    <2> QED BY <1>3, <2>1, FS_Subset, Zenon
  <1>5. Cardinality(New) = n
    BY Zenon DEF LinksInto
  <1> HIDE DEF Old, New
  <1>6. Cardinality(Old \cup New) = Cardinality(Old) + Cardinality(New) - Cardinality(Old \cap New)
    BY <1>3, <1>4, FS_Union, Zenon
  <1>7. Cardinality(Old \cap New) = 0 /\ Cardinality(Old) \in Nat
    BY <1>2, <1>3, FS_EmptySet, FS_CardinalityType
  <1>8. Cardinality(Links(es, i, x, y)) = Cardinality(Old) + n
    BY <1>2, <1>5, <1>6, <1>7
  <1> QED BY <1>8, Zenon DEF Old

\* Pairs counts.
LEMMA PairsNat ==
  ASSUME NEW line \in Seq(Chars), NEW x, NEW y
  PROVE  Pairs(line, x, y) \in Nat
  <1> DEFINE R == 1..(Len(line) - 1)
             K == {k \in R : line[k] = x /\ line[k + 1] = y}
  <1>1. IsFiniteSet(R)
    BY FS_Interval
  <1>2. K \in SUBSET R
    OBVIOUS
  <1>3. Cardinality(K) = Pairs(line, x, y)
    BY Zenon DEF Pairs
  <1> HIDE DEF K, R
  <1>4. IsFiniteSet(K)
    BY <1>1, <1>2, FS_Subset, Zenon
  <1> QED BY <1>3, <1>4, FS_CardinalityType, Zenon

\* What UpdateBigrams keeps from row to row.
Tallies == [prev : Seq(Chars), ts : Int, table : [Chars \X Chars -> Nat]]

\* The characters whose pairs a row adds.
Line(st, e) == Chain(st.prev, st.ts, e) \o e.text

\* The table with the pairs of a line.
Added(old, line) ==
  [pair \in Chars \X Chars |-> old[pair] + Pairs(line, pair[1], pair[2])]

\* What Count makes.
LEMMA CountParts ==
  ASSUME NEW st, NEW e
  PROVE  /\ Count(st, e).prev = <<Line(st, e)[Len(Line(st, e))]>> /\ Count(st, e).ts = e.ts
         /\ Count(st, e).table = Added(st.table, Line(st, e))
         /\ Count(st, e) = [prev |-> <<Line(st, e)[Len(Line(st, e))]>>, ts |-> e.ts,
                            table |-> Count(st, e).table]
  <1> DEFINE line == Line(st, e)
             last == <<line[Len(line)]>>
             t == Added(st.table, line)
             c == Count(st, e)
             now == e.ts
  <1>1. c = [prev |-> last, ts |-> now, table |-> t]
    BY DEF Count, Line, Added
  <1> HIDE DEF t, last, c, now
  <1>2. c.prev = last /\ c.ts = now /\ c.table = t
    BY <1>1
  <1> QED BY <1>1, <1>2, Zenon DEF t, last, c, now

\* The table after a line.
LEMMA AddedTable ==
  ASSUME NEW old \in [Chars \X Chars -> Nat], NEW line \in Seq(Chars)
  PROVE  /\ Added(old, line) \in [Chars \X Chars -> Nat]
         /\ \A x, y \in Chars : Added(old, line)[<<x, y>>] = old[<<x, y>>] + Pairs(line, x, y)
  <1>1. \A pair \in Chars \X Chars :
          old[pair] + Pairs(line, pair[1], pair[2]) \in Nat
    <2> SUFFICES ASSUME NEW pair \in Chars \X Chars
                 PROVE  old[pair] + Pairs(line, pair[1], pair[2]) \in Nat
      OBVIOUS
    <2>1. Pairs(line, pair[1], pair[2]) \in Nat
      BY PairsNat, Zenon
    <2>2. old[pair] \in Nat
      OBVIOUS
    <2> QED BY <2>1, <2>2
  <1>2. \A x, y \in Chars : /\ <<x, y>> \in Chars \X Chars
                            /\ <<x, y>>[1] = x /\ <<x, y>>[2] = y
    OBVIOUS
  <1>3. \A x, y \in Chars : Added(old, line)[<<x, y>>] = old[<<x, y>>] + Pairs(line, x, y)
    <2> SUFFICES ASSUME NEW x \in Chars, NEW y \in Chars
                 PROVE  Added(old, line)[<<x, y>>] = old[<<x, y>>] + Pairs(line, x, y)
      OBVIOUS
    <2> DEFINE pair == <<x, y>>
    <2>1. pair \in Chars \X Chars /\ pair[1] = x /\ pair[2] = y
      BY <1>2
    <2> HIDE DEF pair
    <2>2. Added(old, line)[pair] = old[pair] + Pairs(line, pair[1], pair[2])
      BY <2>1 DEF Added
    <2> QED BY <2>1, <2>2, Zenon DEF pair
  <1> QED BY <1>1, <1>3 DEF Added

\* Count makes a tally of a tally.
LEMMA CountTyped ==
  ASSUME NEW st \in Tallies, NEW e \in Entry
  PROVE  Count(st, e) \in Tallies
  <1> DEFINE line == Line(st, e)
             w == e.text
             c == Chain(st.prev, st.ts, e)
  <1>1. c \in Seq(Chars) /\ w \in Seq(Chars) /\ w # <<>> /\ e.ts \in Int
    BY DEF Tallies, Entry, Texts, Chain
  <1>2. line \in Seq(Chars) /\ Len(line) \in 1..Len(line)
    <2> HIDE DEF c, w
    <2>1. Len(c \o w) = Len(c) + Len(w) /\ Len(c) \in Nat /\ Len(w) \in Nat /\ Len(w) # 0
          /\ c \o w \in Seq(Chars)
      BY <1>1
    <2>2. line = c \o w
      BY Zenon DEF c, w, Line
    <2> HIDE DEF line
    <2> QED BY <2>1, <2>2
  <1> HIDE DEF line
  <1>3. <<line[Len(line)]>> \in Seq(Chars)
    BY <1>2
  <1>4. st.table \in [Chars \X Chars -> Nat]
    BY DEF Tallies
  <1> DEFINE t == Count(st, e).table
  <1>5. t = Added(st.table, line)
    BY CountParts, Zenon DEF line, t
  <1>6. Count(st, e) = [prev |-> <<line[Len(line)]>>, ts |-> e.ts, table |-> t]
    BY CountParts, Zenon DEF line, t
  <1>7. t \in [Chars \X Chars -> Nat]
    <2> HIDE DEF t
    <2> QED BY <1>2, <1>4, <1>5, AddedTable, Zenon
  <1> HIDE DEF t
  <1> QED BY <1>1, <1>3, <1>6, <1>7 DEF Tallies

\* Bigrams is the last of a sequence of tallies.
LEMMA TallyExists ==
  ASSUME NEW es \in Seq(Entry)
  PROVE  \E f : IsTally(es, f) /\ Bigrams(es) = f[Len(es)].table
  <1> DEFINE a == [prev |-> <<>>, ts |-> 0, table |-> NoCounts]
             n == Len(es)
             Row1(g) == [i \in 0..n |-> IF i = 0 THEN a ELSE Count(g[i - 1], es[i])]
             step == [i \in 1..n |-> [st \in Tallies |-> Count(st, es[i])]]
  <1>1. n \in Nat /\ \A i \in 1..n : es[i] \in Entry
    BY ElementOfSeq, EntryTyped, Zenon
  <1>2. a \in Tallies
    BY DEF Tallies, NoCounts
  <1>3. step \in [(0 + 1)..n -> [Tallies -> Tallies]]
    BY <1>1, CountTyped
  <1> HIDE DEF a, n
  <1>4. PICK f : IsLoop(f, Tallies, a, step, 0, n)
    <2> HIDE DEF step
    <2>1. 0 \in Nat /\ 0 <= n
      BY <1>1
    <2> QED BY <1>1, <1>2, <1>3, <2>1, LoopExists
  <1>5. f = Row1(f)
    <2>1. f \in [0..n -> Tallies] /\ f[0] = a /\ \A i \in 1..n : f[i] = step[i][f[i - 1]]
      BY <1>4 DEF IsLoop
    <2>2. \A i \in 1..n : f[i] = Count(f[i - 1], es[i])
      <3> SUFFICES ASSUME NEW i \in 1..n PROVE f[i] = Count(f[i - 1], es[i])
        OBVIOUS
      <3>1. i - 1 \in 0..n
        BY <1>1
      <3>2. f[i - 1] \in Tallies
        BY <2>1, <3>1
      <3> QED BY <2>1, <3>2
    <2>3. \A i \in 0..n : i # 0 => i \in 1..n
      BY <1>1
    <2> HIDE DEF step
    <2> QED BY <2>1, <2>2, <2>3
  <1> DEFINE g == CHOOSE h : h = Row1(h)
  <1>6. g = Row1(g)
    <2> HIDE DEF Row1
    <2> QED BY <1>5, Zenon
  <1>7. Bigrams(es) = g[n].table
    BY Zenon DEF Bigrams, n, a
  <1> HIDE DEF g
  <1>8. IsTally(es, g)
    <2>1. \A i \in 1..n : i \in 0..n /\ i # 0
      BY <1>1
    <2>2. 0 \in 0..n
      BY <1>1
    <2>3. g[0] = a
      BY <1>6, <2>2
    <2>4. \A i \in 1..n : g[i] = Count(g[i - 1], es[i])
      BY <1>6, <2>1
    <2> QED BY <2>3, <2>4, Zenon DEF IsTally, a, n
  <1> QED BY <1>7, <1>8, Zenon DEF n

\* One row more: the table has the neighbours that end in it.
LEMMA TallyOfRow ==
  ASSUME NEW es \in Seq(Entry), NEW i \in 1..Len(es), NEW st, Tallied(es, i - 1, st)
  PROVE  Tallied(es, i, Count(st, es[i]))
  <1> DEFINE line == Line(st, es[i])
             new == Count(st, es[i])
  <1>1. PICK d : IsLine(es, i, d, line)
    BY LineOfRow, Zenon DEF Line
  <1>2. /\ new.prev = <<line[Len(line)]>> /\ new.ts = es[i].ts
        /\ new.table = Added(st.table, line)
    BY CountParts, Zenon
  <1>3. line[Len(line)] = es[i].text[Size(es, i)]
    <2>1. Size(es, i) \in 1..Size(es, i)
      BY EntryTyped DEF Size
    <2> HIDE DEF line
    <2> QED BY <1>1, <2>1 DEF IsLine
  <1>4. line \in Seq(Chars)
    BY <1>1, Zenon DEF IsLine
  <1>5. /\ st.table \in [Chars \X Chars -> Nat]
        /\ \A x, y \in Chars : st.table[<<x, y>>] = Cardinality(Links(es, i - 1, x, y))
    BY Zenon DEF Tallied
  <1> HIDE DEF line, new
  <1>6. /\ new.table \in [Chars \X Chars -> Nat]
        /\ \A x, y \in Chars : new.table[<<x, y>>] = st.table[<<x, y>>] + Pairs(line, x, y)
    <2> DEFINE old == st.table
               sum == Added(old, line)
    <2>1. old \in [Chars \X Chars -> Nat] /\ new.table = sum
      BY <1>2, <1>5
    <2> HIDE DEF old
    <2>2. /\ sum \in [Chars \X Chars -> Nat]
          /\ \A x, y \in Chars : sum[<<x, y>>] = old[<<x, y>>] + Pairs(line, x, y)
      BY <1>4, <2>1, AddedTable, Zenon
    <2> HIDE DEF sum
    <2> QED BY <2>1, <2>2, Zenon DEF old
  <1>7. \A x, y \in Chars : new.table[<<x, y>>] = Cardinality(Links(es, i, x, y))
    <2> SUFFICES ASSUME NEW x \in Chars, NEW y \in Chars
                 PROVE  new.table[<<x, y>>] = Cardinality(Links(es, i, x, y))
      OBVIOUS
    <2> DEFINE m == Pairs(line, x, y)
    <2>1. m \in Nat
      BY <1>4, PairsNat, Zenon
    <2>2. Cardinality(LinksInto(es, i, x, y)) = m
      BY <1>1, RowLinks
    <2>3. Cardinality(Links(es, i, x, y)) = Cardinality(Links(es, i - 1, x, y)) + m
      <3> HIDE DEF m
      <3> QED BY <2>1, <2>2, MoreLinks
    <2> QED BY <1>5, <1>6, <2>3, Zenon
  <1>8. i > 0
    OBVIOUS
  <1>9. i # 0 /\ new.prev = <<es[i].text[Size(es, i)]>> /\ new.ts = es[i].ts
    BY <1>2, <1>3, <1>8
  <1> QED BY <1>6, <1>7, <1>9, Zenon DEF Tallied, new

\* The table holds for every pair how often it was typed.
LEMMA BigramsCount ==
  ASSUME NEW es \in Seq(Entry)
  PROVE  /\ Bigrams(es) \in [Chars \X Chars -> Nat]
         /\ \A x, y \in Chars : Bigrams(es)[<<x, y>>] = Cardinality(Links(es, Len(es), x, y))
  <1>1. PICK f : IsTally(es, f) /\ Bigrams(es) = f[Len(es)].table
    BY TallyExists
  <1> DEFINE P == {i \in Nat : i <= Len(es) => Tallied(es, i, f[i])}
  <1>2. 0 \in P
    <2>1. f[0].prev = <<>> /\ f[0].table = NoCounts
      BY <1>1 DEF IsTally
    <2>2. NoCounts \in [Chars \X Chars -> Nat] /\ \A x, y \in Chars : NoCounts[<<x, y>>] = 0
      BY DEF NoCounts
    <2>3. \A x, y \in Chars : Cardinality(Links(es, 0, x, y)) = 0
      <3> SUFFICES ASSUME NEW x \in Chars, NEW y \in Chars
                   PROVE  Cardinality(Links(es, 0, x, y)) = 0
        OBVIOUS
      <3>1. \A p \in Places(es) : ~(p[1] <= 0)
        BY PlaceParts
      <3>2. Links(es, 0, x, y) = {}
        BY <3>1 DEF Links
      <3> QED BY <3>2, FS_EmptySet
    <2>4. Tallied(es, 0, f[0])
      BY <2>1, <2>2, <2>3 DEF Tallied
    <2> QED BY <2>4
  <1>3. \A i \in Nat : i \in P => i + 1 \in P
    <2> SUFFICES ASSUME NEW i \in Nat, i \in P, i + 1 <= Len(es)
                 PROVE  Tallied(es, i + 1, f[i + 1])
      OBVIOUS
    <2> DEFINE j == i + 1
    <2>1. j \in 1..Len(es) /\ j - 1 = i /\ i <= Len(es)
      BY EntryTyped
    <2>2. Tallied(es, i, f[i])
      BY <2>1
    <2> HIDE DEF j
    <2>3. Tallied(es, j, Count(f[i], es[j]))
      BY <2>1, <2>2, TallyOfRow, Zenon
    <2>4. f[j] = Count(f[i], es[j])
      BY <1>1, <2>1, Zenon DEF IsTally
    <2> QED BY <2>3, <2>4, Zenon DEF j
  <1>4. Len(es) \in P
    <2> HIDE DEF P
    <2> QED BY <1>2, <1>3, Induct, EntryTyped
  <1>5. Tallied(es, Len(es), f[Len(es)])
    BY <1>4, EntryTyped
  <1> QED BY <1>1, <1>5, Zenon DEF Tallied

-----------------------------------------------------------------------------
(***************************************************************************)
(* Where Discover puts the characters it scans.                            *)
(***************************************************************************)

\* What entry_to_tokens makes of a character.
Token == [ch : Chars, code : Seq(Keys)]

\* The tokens of a row are its characters, in their order.
LEMMA TokensParts ==
  ASSUME NEW es \in Seq(Entry), NEW i \in 1..Len(es)
  PROVE  /\ Tokens(es[i]) \in Seq(Token) /\ Len(Tokens(es[i])) = Size(es, i)
         /\ Size(es, i) \in Nat \ {0}
         /\ \A k \in 1..Size(es, i) :
              /\ Tokens(es[i])[k].ch = es[i].text[k]
              /\ Tokens(es[i])[k].code = IF Size(es, i) = 1 THEN es[i].code ELSE <<>>
  <1> DEFINE m == Size(es, i)
             w == es[i].text
             own == IF m = 1 THEN es[i].code ELSE <<>>
  <1>1. /\ m \in Nat \ {0} /\ DOMAIN w = 1..m /\ \A k \in 1..m : w[k] \in Chars
        /\ own \in Seq(Keys)
    BY EntryTyped DEF Size
  <1>2. Tokens(es[i]) = [k \in DOMAIN w |-> [ch |-> w[k], code |-> own]]
    BY DEF Tokens, Size
  <1> HIDE DEF w, own, m
  <1> DEFINE s == [k \in 1..m |-> [ch |-> w[k], code |-> own]]
  <1>3. s \in Seq(Token) /\ Len(s) = m /\ \A k \in 1..m : s[k].ch = w[k] /\ s[k].code = own
    BY <1>1 DEF Token
  <1>4. Tokens(es[i]) = s
    BY <1>1, <1>2, Zenon
  <1> HIDE DEF s
  <1> QED BY <1>1, <1>3, <1>4, Zenon DEF w, own, m

\* The token of the character at a place.
TokenAt(es, p) == Tokens(es[p[1]])[p[2]]

\* The scanned characters of the first n rows.
Upto(es, n) == {p \in Places(es) : p[1] <= n}

\* Where the tokens of the runs A are.
Spots(A) == {s \in (1..Len(A)) \X Nat : s[2] \in 1..Len(A[s[1]])}
\* The token at a spot.
At(A, s) == A[s[1]][s[2]]
\* The last spot.
End(A) == <<Len(A), Len(A[Len(A)])>>

\* After n rows: each character has its spot in the runs A, and the characters
\* typed one after the other are neighbours there.
Placed(es, n, A, g) ==
  /\ A \in Seq(Seq(Token)) /\ Matches(g, Upto(es, n), Spots(A))
  /\ \A p \in Upto(es, n) : At(A, g[p]) = TokenAt(es, p)
  /\ n > 0 => g[<<n, Size(es, n)>>] = End(A)
  /\ \A p, q \in Upto(es, n) : Follows(es, p, q) <=> g[q] = <<g[p][1], g[p][2] + 1>>

\* B is A and the tokens T, in run R behind its first o.
Grows(A, B, T, R, o) ==
  /\ B \in Seq(Seq(Token)) /\ o \in Nat /\ End(B) = <<R, o + Len(T)>>
  /\ \A s : s \in Spots(B) <=> s \in Spots(A) \/ \E k \in 1..Len(T) : s = <<R, o + k>>
  /\ \A s \in Spots(A) : At(B, s) = At(A, s) /\ ~(s[1] = R /\ s[2] > o)
  /\ \A k \in 1..Len(T) : At(B, <<R, o + k>>) = T[k]

\* Places of the rows before i are at the spots of A; those of row i come to
\* the ones B has more.
LEMMA PlacedNext ==
  ASSUME NEW es \in Seq(Entry), NEW i \in 1..Len(es),
         NEW A, NEW B, NEW g, Placed(es, i - 1, A, g),
         NEW R, NEW o, Grows(A, B, Tokens(es[i]), R, o),
         \/ i > 1 /\ ~Apart(es[i - 1].ts, es[i].ts) /\ <<R, o>> = End(A)
         \/ (i = 1 \/ Apart(es[i - 1].ts, es[i].ts)) /\ \A s \in Spots(A) : s[1] # R
  PROVE  \E h : Placed(es, i, B, h)
  <1> DEFINE Old == Upto(es, i - 1)
             New == Upto(es, i)
             m == Size(es, i)
             row(k) == <<i, k>>
             spot(k) == <<R, o + k>>
             h == [p \in New |-> IF p[1] = i THEN spot(p[2]) ELSE g[p]]
  <1>1. /\ m \in Nat \ {0} /\ Len(Tokens(es[i])) = m /\ i \in Nat \ {0}
        /\ \A k \in 1..m : Tokens(es[i])[k] \in Token
    BY TokensParts
  <1>2. \A p : p \in New <=> p \in Old \/ \E k \in 1..m : p = row(k)
    <2>1. \A p \in Places(es) : p[1] <= i <=> p[1] <= i - 1 \/ p[1] = i
      BY PlaceParts
    <2>2. \A k \in 1..m : <<i, k>> \in Places(es) /\ <<i, k>>[1] = i
      BY PlaceParts
    <2>3. \A p \in Places(es) : p[1] = i => p = <<i, p[2]>> /\ p[2] \in 1..m
      BY PlaceParts, Zenon
    <2>4. \A p : p \in New <=> p \in Places(es) /\ p[1] <= i
      BY DEF Upto
    <2>5. \A p : p \in Old <=> p \in Places(es) /\ p[1] <= i - 1
      BY DEF Upto
    <2> HIDE DEF Old, New, m
    <2> QED BY <2>1, <2>2, <2>3, <2>4, <2>5, Zenon
  <1>3. \A p \in Old : p[1] # i /\ p \in New
    BY <1>1, <1>2, PlaceParts DEF Upto
  <1>4. /\ \A p \in Old : h[p] = g[p] /\ g[p] \in Spots(A)
        /\ \A k \in 1..m : row(k) \in New /\ h[row(k)] = spot(k)
    <2>1. \A p \in Old : g[p] \in Spots(A)
      BY DEF Placed, Matches
    <2>2. \A k \in 1..m : <<i, k>> \in New /\ <<i, k>>[1] = i /\ <<i, k>>[2] = k
      BY <1>2
    <2> HIDE DEF New, Old, m
    <2> QED BY <1>3, <2>1, <2>2
  <1>5. /\ \A s : s \in Spots(B) <=> s \in Spots(A) \/ \E k \in 1..m : s = spot(k)
        /\ \A s \in Spots(A) : At(B, s) = At(A, s) /\ ~(s[1] = R /\ s[2] > o)
        /\ \A k \in 1..m : At(B, spot(k)) = Tokens(es[i])[k]
        /\ B \in Seq(Seq(Token)) /\ o \in Nat /\ End(B) = <<R, o + m>>
    BY <1>1 DEF Grows
  <1>6. \A k \in 1..m : spot(k) \notin Spots(A)
    <2>1. \A k \in 1..m : /\ o + k > o /\ <<R, o + k>>[1] = R
                          /\ <<R, o + k>>[2] = o + k
      BY <1>1, <1>5
    <2> HIDE DEF m
    <2> QED BY <1>5, <2>1, Zenon
  <1>7. /\ DOMAIN h = New /\ h = [p \in New |-> h[p]]
        /\ \A k, l \in 1..m : spot(k) = spot(l) => k = l
    BY <1>1, <1>5
  <1> HIDE DEF h, New, Old, m, row, spot
  <1>8. Matches(h, New, Spots(B))
    <2>0. ASSUME NEW p \in New, p \notin Old
          PROVE  \E k \in 1..m : p = row(k) /\ h[p] = spot(k)
      <3>1. PICK k \in 1..m : p = row(k)
        BY <1>2, <2>0, Zenon
      <3>2. h[p] = spot(k)
        BY <1>4, <3>1
      <3> QED BY <3>1, <3>2
    <2>1. \A p \in New : h[p] \in Spots(B)
      <3> SUFFICES ASSUME NEW p \in New PROVE h[p] \in Spots(B)
        OBVIOUS
      <3>1. CASE p \in Old
        BY <1>4, <1>5, <3>1
      <3>2. CASE p \notin Old
        <4>1. PICK k \in 1..m : h[p] = spot(k)
          BY <2>0, <3>2, Zenon
        <4> QED BY <1>5, <4>1
      <3> QED BY <3>1, <3>2
    <2>2. ASSUME NEW p \in New, NEW q \in New, h[p] = h[q] PROVE p = q
      <3>1. CASE p \in Old /\ q \in Old
        BY <1>4, <2>2, <3>1 DEF Placed, Matches, Old
      <3>2. CASE p \in Old /\ q \notin Old
        <4>1. PICK k \in 1..m : h[q] = spot(k)
          BY <2>0, <3>2, Zenon
        <4> QED BY <1>4, <1>6, <2>2, <3>2, <4>1
      <3>3. CASE p \notin Old /\ q \in Old
        <4>1. PICK k \in 1..m : h[p] = spot(k)
          BY <2>0, <3>3, Zenon
        <4> QED BY <1>4, <1>6, <2>2, <3>3, <4>1
      <3>4. CASE p \notin Old /\ q \notin Old
        <4>1. PICK k \in 1..m : p = row(k) /\ h[p] = spot(k)
          BY <2>0, <3>4, Zenon
        <4>2. PICK l \in 1..m : q = row(l) /\ h[q] = spot(l)
          BY <2>0, <3>4, Zenon
        <4>3. k = l
          BY <1>7, <2>2, <4>1, <4>2
        <4> QED BY <4>1, <4>2, <4>3
      <3> QED BY <3>1, <3>2, <3>3, <3>4
    <2>3. ASSUME NEW s \in Spots(B) PROVE \E p \in New : h[p] = s
      <3>1. CASE s \in Spots(A)
        <4>1. \E p \in Old : g[p] = s
          BY <3>1 DEF Placed, Matches, Old
        <4> QED BY <1>3, <1>4, <4>1, Zenon
      <3>2. CASE s \notin Spots(A)
        <4>1. PICK k \in 1..m : s = spot(k)
          BY <1>5, <3>2, Zenon
        <4> QED BY <1>4, <4>1
      <3> QED BY <3>1, <3>2
    <2>4. h \in [New -> Spots(B)]
      BY <1>7, <2>1
    <2> QED BY <2>2, <2>3, <2>4 DEF Matches
  <1>9. \A p \in New : At(B, h[p]) = TokenAt(es, p)
    <2>1. \A p \in Old : At(A, g[p]) = TokenAt(es, p)
      BY DEF Placed, Old
    <2>2. \A k \in 1..m : TokenAt(es, row(k)) = Tokens(es[i])[k]
      BY DEF TokenAt, row
    <2>3. \A p \in Old : At(B, h[p]) = TokenAt(es, p)
      BY <1>4, <1>5, <2>1, Zenon
    <2>4. \A k \in 1..m : At(B, h[row(k)]) = TokenAt(es, row(k))
      BY <1>4, <1>5, <2>2, Zenon
    <2> QED BY <1>2, <2>3, <2>4, Zenon
  <1>10. h[<<i, m>>] = End(B)
    <2>1. m \in 1..m
      BY <1>1
    <2> QED BY <1>4, <1>5, <2>1, Zenon DEF row, spot
  <1>11. \A p, q \in New : Follows(es, p, q) <=> h[q] = <<h[p][1], h[p][2] + 1>>
    <2> SUFFICES ASSUME NEW p \in New, NEW q \in New
                 PROVE  Follows(es, p, q) <=> h[q] = <<h[p][1], h[p][2] + 1>>
      OBVIOUS
    <2>1. /\ p \in Places(es) /\ q \in Places(es)
          /\ Follows(es, p, q) <=>
               \/ q[1] = p[1] /\ q[2] = p[2] + 1
               \/ /\ q[1] = p[1] + 1 /\ p[2] = Size(es, p[1]) /\ q[2] = 1
                  /\ ~Apart(es[p[1]].ts, es[q[1]].ts)
      BY FollowsParts DEF Upto, New
    <2>2. CASE p \in Old /\ q \in Old
      BY <1>4, <2>2 DEF Placed, Old
    <2>3. CASE p \notin Old /\ q \in Old
      <3>1. PICK k \in 1..m : p = <<i, k>>
        BY <1>2, <2>3 DEF row
      <3>2. q[1] \in 1..(i - 1)
        BY <1>1, <2>1, <2>3, PlaceParts DEF Upto, Old
      <3>3. ~Follows(es, p, q)
        BY <1>1, <2>1, <3>1, <3>2
      <3>4. h[p][1] = R /\ h[p][2] = o + k
        BY <1>4, <3>1 DEF row, spot
      <3>5. <<R, (o + k) + 1>> \notin Spots(A)
        <4>1. (o + k) + 1 > o /\ <<R, (o + k) + 1>>[1] = R
              /\ <<R, (o + k) + 1>>[2] = (o + k) + 1
          BY <1>1, <1>5
        <4> QED BY <1>5, <4>1, Zenon
      <3>6. h[q] \in Spots(A)
        BY <1>4, <2>3
      <3> QED BY <3>3, <3>4, <3>5, <3>6
    <2>4. CASE p \notin Old /\ q \notin Old
      <3>1. PICK k \in 1..m : p = <<i, k>>
        BY <1>2, <2>4 DEF row
      <3>2. PICK l \in 1..m : q = <<i, l>>
        BY <1>2, <2>4 DEF row
      <3>3. Follows(es, p, q) <=> l = k + 1
        BY <1>1, <2>1, <3>1, <3>2
      <3>4. h[p] = <<R, o + k>> /\ h[q] = <<R, o + l>>
        BY <1>4, <3>1, <3>2 DEF row, spot
      <3>5. <<R, o + l>> = <<R, (o + k) + 1>> <=> l = k + 1
        BY <1>1, <1>5
      <3> QED BY <3>3, <3>4, <3>5
    <2>5. CASE p \in Old /\ q \notin Old
      <3>1. PICK k \in 1..m : q = <<i, k>>
        BY <1>2, <2>5 DEF row
      <3>2. h[q] = <<R, o + k>> /\ h[p] = g[p] /\ g[p] \in Spots(A)
        BY <1>4, <2>5, <3>1 DEF row, spot
      <3>3. /\ p[1] \in 1..(i - 1) /\ p = <<p[1], p[2]>> /\ p[2] \in 1..Size(es, p[1])
        BY <1>1, <2>1, <2>5, PlaceParts DEF Upto, Old
      <3>4. Follows(es, p, q) <=>
              i = p[1] + 1 /\ p[2] = Size(es, p[1]) /\ k = 1 /\ ~Apart(es[p[1]].ts, es[i].ts)
        BY <1>1, <2>1, <3>1, <3>3
      <3>5. g[p] = <<g[p][1], g[p][2]>> /\ g[p][2] \in Nat
        BY <3>2 DEF Spots
      <3>6. CASE i > 1 /\ ~Apart(es[i - 1].ts, es[i].ts) /\ <<R, o>> = End(A)
        <4> DEFINE last == <<i - 1, Size(es, i - 1)>>
        <4>1. Follows(es, p, q) <=> p = last /\ k = 1
          BY <1>1, <3>3, <3>4, <3>6
        <4>2. last \in Old /\ g[last] = <<R, o>>
          <5>1. i - 1 \in 1..Len(es) /\ i - 1 > 0
            BY <3>6
          <5>2. Size(es, i - 1) \in 1..Size(es, i - 1)
            BY <5>1, TokensParts
          <5>3. last \in Places(es) /\ last[1] = i - 1
            BY <5>1, <5>2, PlaceParts
          <5> QED BY <3>6, <5>1, <5>3 DEF Upto, Old, Placed
        <4> HIDE DEF last
        <4>3. p = last <=> g[p] = <<R, o>>
          BY <2>5, <4>2 DEF Placed, Matches, Old
        <4>4. g[p] = <<R, o>> <=> g[p][1] = R /\ g[p][2] = o
          BY <3>5
        <4>5. <<R, o + k>> = <<g[p][1], g[p][2] + 1>> <=> g[p][1] = R /\ o + k = g[p][2] + 1
          OBVIOUS
        <4>6. g[p][1] = R => g[p][2] <= o
          BY <1>5, <3>2, <3>5
        <4>7. (g[p][1] = R /\ o + k = g[p][2] + 1) <=> (g[p][1] = R /\ g[p][2] = o /\ k = 1)
          BY <1>1, <1>5, <3>5, <4>6
        <4> QED BY <3>2, <4>1, <4>3, <4>4, <4>5, <4>7
      <3>7. CASE (i = 1 \/ Apart(es[i - 1].ts, es[i].ts)) /\ \A s \in Spots(A) : s[1] # R
        <4>1. ~Follows(es, p, q)
          BY <1>1, <3>3, <3>4, <3>7
        <4>2. g[p][1] # R
          BY <3>2, <3>7
        <4> QED BY <3>2, <4>1, <4>2
      <3> QED BY <3>6, <3>7
    <2> QED BY <2>2, <2>3, <2>4, <2>5
  <1>12. Placed(es, i, B, h)
    BY <1>5, <1>8, <1>9, <1>10, <1>11, Zenon DEF Placed, New, m
  <1> QED BY <1>12

\* A row that begins a run, and a row that continues the last one.
LEMMA NewRun ==
  ASSUME NEW A \in Seq(Seq(Token)), NEW T \in Seq(Token), T # <<>>
  PROVE  /\ Grows(A, Append(A, T), T, Len(A) + 1, 0)
         /\ \A s \in Spots(A) : s[1] # Len(A) + 1
  <1> DEFINE B == Append(A, T)
             R == Len(A) + 1
             m == Len(T)
  <1>1. /\ B \in Seq(Seq(Token)) /\ Len(B) = R /\ B[R] = T /\ R \in 1..R /\ Len(A) \in Nat
        /\ \A r \in 1..Len(A) : B[r] = A[r] /\ r # R /\ r \in 1..R
        /\ m \in Nat \ {0}
    OBVIOUS
  <1>2. \A r \in 1..R : r # R => r \in 1..Len(A)
    OBVIOUS
  <1> HIDE DEF B, R, m
  <1>3. \A s \in Spots(A) : s[1] \in 1..Len(A) /\ s[2] \in 1..Len(A[s[1]]) /\ s \in (1..Len(A)) \X Nat
    BY DEF Spots
  <1>4. \A s \in Spots(A) : s \in Spots(B) /\ At(B, s) = At(A, s) /\ s[1] # R
    <2> SUFFICES ASSUME NEW s \in Spots(A)
                 PROVE  s \in Spots(B) /\ At(B, s) = At(A, s) /\ s[1] # R
      OBVIOUS
    <2>1. B[s[1]] = A[s[1]] /\ s[1] # R /\ s[1] \in 1..R
      BY <1>1, <1>3
    <2>2. s \in (1..R) \X Nat
      BY <1>3, <2>1
    <2> QED BY <1>1, <1>3, <2>1, <2>2 DEF Spots, At
  <1>5. \A k \in 1..m : /\ <<R, 0 + k>> \in Spots(B) /\ At(B, <<R, 0 + k>>) = T[k]
    <2> SUFFICES ASSUME NEW k \in 1..m
                 PROVE  <<R, 0 + k>> \in Spots(B) /\ At(B, <<R, 0 + k>>) = T[k]
      OBVIOUS
    <2>1. 0 + k = k /\ k \in Nat
      BY <1>1
    <2>2. <<R, k>> \in (1..R) \X Nat /\ <<R, k>>[1] = R /\ <<R, k>>[2] = k
      BY <1>1, <2>1
    <2> QED BY <1>1, <2>1, <2>2 DEF Spots, At, m
  <1>6. ASSUME NEW s \in Spots(B), s \notin Spots(A)
        PROVE  \E k \in 1..m : s = <<R, 0 + k>>
    <2>1. s \in (1..R) \X Nat /\ s[2] \in 1..Len(B[s[1]])
      BY <1>1, <1>6 DEF Spots
    <2>2. s = <<s[1], s[2]>> /\ s[1] \in 1..R /\ s[2] \in Nat
      BY <2>1
    <2>3. s[1] = R
      <3> SUFFICES ASSUME s[1] # R PROVE FALSE
        OBVIOUS
      <3>1. s[1] \in 1..Len(A)
        BY <1>2, <2>2
      <3>2. s \in (1..Len(A)) \X Nat /\ s[2] \in 1..Len(A[s[1]])
        BY <1>1, <2>1, <2>2, <3>1
      <3> QED BY <1>6, <3>2 DEF Spots
    <2>4. s[2] \in 1..m /\ 0 + s[2] = s[2]
      BY <1>1, <2>1, <2>2, <2>3 DEF m
    <2> QED BY <2>2, <2>3, <2>4
  <1>7. End(B) = <<R, 0 + m>> /\ 0 \in Nat
    BY <1>1 DEF End, m
  <1>8. Grows(A, B, T, R, 0)
    BY <1>1, <1>4, <1>5, <1>6, <1>7 DEF Grows, m
  <1> QED BY <1>4, <1>8 DEF B, R

\* To continue the open run is to add spots at its end.
LEMMA SameRun ==
  ASSUME NEW X \in Seq(Seq(Token)), NEW run \in Seq(Token), NEW T \in Seq(Token), T # <<>>
  PROVE  /\ Grows(Append(X, run), Append(X, run \o T), T, Len(X) + 1, Len(run))
         /\ End(Append(X, run)) = <<Len(X) + 1, Len(run)>>
  <1> DEFINE A == Append(X, run)
             B == Append(X, run \o T)
             R == Len(X) + 1
             m == Len(T)
             o == Len(run)
             both == run \o T
  <1>1. /\ both \in Seq(Token) /\ Len(both) = o + m /\ o \in Nat /\ m \in Nat \ {0}
        /\ \A q \in 1..o : both[q] = run[q]
        /\ \A k \in 1..m : both[o + k] = T[k]
    OBVIOUS
  <1> HIDE DEF both, m, o
  <1>2. /\ A \in Seq(Seq(Token)) /\ Len(A) = R /\ A[R] = run /\ R \in Nat /\ R \in 1..R
        /\ B \in Seq(Seq(Token)) /\ Len(B) = R /\ B[R] = both
        /\ \A r \in 1..R : r # R => B[r] = A[r]
    BY <1>1 DEF both
  <1> HIDE DEF A, B, R
  <1>3. \A s : s \in Spots(A) <=> s \in (1..R) \X Nat /\ s[2] \in 1..Len(A[s[1]])
    BY <1>2 DEF Spots
  <1>4. \A s : s \in Spots(B) <=> s \in (1..R) \X Nat /\ s[2] \in 1..Len(B[s[1]])
    BY <1>2 DEF Spots
  <1>5. \A s \in Spots(A) : s \in Spots(B) /\ At(B, s) = At(A, s) /\ ~(s[1] = R /\ s[2] > o)
    <2> SUFFICES ASSUME NEW s \in Spots(A)
                 PROVE  s \in Spots(B) /\ At(B, s) = At(A, s) /\ ~(s[1] = R /\ s[2] > o)
      OBVIOUS
    <2>1. s \in (1..R) \X Nat /\ s[2] \in 1..Len(A[s[1]]) /\ s[1] \in 1..R /\ s[2] \in Nat
      BY <1>3
    <2>2. CASE s[1] # R
      <3>1. B[s[1]] = A[s[1]]
        BY <1>2, <2>1, <2>2
      <3> QED BY <1>4, <2>1, <2>2, <3>1 DEF At
    <2>3. CASE s[1] = R
      <3>1. s[2] \in 1..o
        BY <1>2, <2>1, <2>3 DEF o
      <3>2. s[2] \in 1..Len(both) /\ ~(s[2] > o)
        BY <1>1, <3>1
      <3>3. B[s[1]] = both /\ A[s[1]] = run /\ both[s[2]] = run[s[2]]
        BY <1>1, <1>2, <2>3, <3>1
      <3> QED BY <1>4, <2>1, <3>2, <3>3 DEF At
    <2> QED BY <2>2, <2>3
  <1>6. \A k \in 1..m : /\ <<R, o + k>> \in Spots(B) /\ At(B, <<R, o + k>>) = T[k]
    <2> SUFFICES ASSUME NEW k \in 1..m
                 PROVE  <<R, o + k>> \in Spots(B) /\ At(B, <<R, o + k>>) = T[k]
      OBVIOUS
    <2>1. o + k \in 1..Len(both) /\ o + k \in Nat
      BY <1>1
    <2>2. <<R, o + k>> \in (1..R) \X Nat /\ <<R, o + k>>[1] = R /\ <<R, o + k>>[2] = o + k
      BY <1>2, <2>1
    <2> QED BY <1>1, <1>2, <1>4, <2>1, <2>2 DEF At
  <1>7. ASSUME NEW s \in Spots(B), s \notin Spots(A)
        PROVE  \E k \in 1..m : s = <<R, o + k>>
    <2>1. s \in (1..R) \X Nat /\ s[2] \in 1..Len(B[s[1]])
      BY <1>4
    <2>2. s = <<s[1], s[2]>> /\ s[1] \in 1..R /\ s[2] \in Nat
      BY <2>1
    <2>3. s[1] = R
      BY <1>2, <1>3, <1>7, <2>1, <2>2
    <2>4. s[2] \in 1..(o + m) /\ ~(s[2] \in 1..o)
      <3>1. s[2] \in 1..Len(both) /\ ~(s[2] \in 1..Len(run))
        BY <1>2, <1>3, <1>7, <2>1, <2>3
      <3> QED BY <1>1, <3>1 DEF o
    <2> DEFINE k == s[2] - o
    <2>5. k \in 1..m /\ o + k = s[2]
      BY <1>1, <2>4
    <2> HIDE DEF k
    <2> QED BY <2>2, <2>3, <2>5
  <1>8. End(B) = <<R, o + m>> /\ End(A) = <<R, o>>
    BY <1>1, <1>2 DEF End, o
  <1>9. Grows(A, B, T, R, o)
    BY <1>1, <1>2, <1>5, <1>6, <1>7, <1>8 DEF Grows, m
  <1> QED BY <1>8, <1>9 DEF A, B, R, o, both

\* What Discover keeps from row to row.
Chains == [runs : Seq(Seq(Token)), run : Seq(Token), ts : Int]

\* The runs, the open one included.
AllRuns(st) == IF st.run = <<>> THEN st.runs ELSE Append(st.runs, st.run)

\* What Extend makes of the runs: it begins one, or continues the last.
LEMMA ExtendParts ==
  ASSUME NEW st \in Chains, NEW e, NEW T, T = Tokens(e), T \in Seq(Token), T # <<>>,
         e.ts \in Int
  PROVE  /\ Extend(st, e) \in Chains /\ Extend(st, e).ts = e.ts /\ Extend(st, e).run # <<>>
         /\ st.run # <<>> /\ Apart(st.ts, e.ts) =>
              AllRuns(Extend(st, e)) = Append(Append(st.runs, st.run), T)
         /\ st.run = <<>> \/ ~Apart(st.ts, e.ts) =>
              AllRuns(Extend(st, e)) = Append(st.runs, st.run \o T)
  <1> DEFINE runs == st.runs
             run == st.run
             now == e.ts
             new == Extend(st, e)
  <1>1. runs \in Seq(Seq(Token)) /\ run \in Seq(Token) /\ now \in Int
    BY DEF Chains
  <1>2. CASE run # <<>> /\ Apart(st.ts, e.ts)
    <2> DEFINE more == Append(runs, run)
    <2>1. new = [runs |-> more, run |-> T, ts |-> now]
      BY <1>2 DEF Extend
    <2>2. more \in Seq(Seq(Token))
      BY <1>1
    <2> HIDE DEF more, new, now
    <2>3. new \in Chains /\ new.ts = now /\ new.run = T /\ new.runs = more
      BY <1>1, <2>1, <2>2 DEF Chains
    <2>4. AllRuns(new) = Append(more, T)
      BY <2>3 DEF AllRuns
    <2> QED BY <1>2, <2>3, <2>4, Zenon DEF new, more, now
  <1>3. CASE ~(run # <<>> /\ Apart(st.ts, e.ts))
    <2> DEFINE both == run \o T
    <2>1. new = [runs |-> runs, run |-> both, ts |-> now]
      BY <1>3 DEF Extend
    <2>2. both \in Seq(Token) /\ both # <<>>
      <3>1. both \in Seq(Token) /\ Len(both) = Len(run) + Len(T) /\ Len(T) \in Nat \ {0}
            /\ Len(run) \in Nat
        BY <1>1
      <3>2. Len(both) # 0
        BY <3>1
      <3> QED BY <3>1, <3>2
    <2> HIDE DEF both, new, now, runs
    <2>3. new \in Chains /\ new.ts = now /\ new.run = both /\ new.runs = runs
      BY <1>1, <2>1, <2>2 DEF Chains
    <2>4. AllRuns(new) = Append(runs, both)
      BY <2>2, <2>3 DEF AllRuns
    <2> QED BY <1>3, <2>2, <2>3, <2>4, Zenon DEF new, both, now, runs
  <1> QED BY <1>2, <1>3

\* What Discover knows after i rows.
ChainedTo(es, i, st) ==
  /\ st \in Chains /\ \E g : Placed(es, i, AllRuns(st), g)
  /\ i = 0 => st.run = <<>> /\ st.runs = <<>>
  /\ i > 0 => st.run # <<>> /\ st.ts = es[i].ts

\* One row more: its places have their spots.
LEMMA ChainOfRow ==
  ASSUME NEW es \in Seq(Entry), NEW i \in 1..Len(es), NEW st, ChainedTo(es, i - 1, st)
  PROVE  ChainedTo(es, i, Extend(st, es[i]))
  <1> DEFINE T == Tokens(es[i])
             A == AllRuns(st)
             new == Extend(st, es[i])
             B == AllRuns(new)
             runs == st.runs
             run == st.run
  <1>1. T \in Seq(Token) /\ T # <<>> /\ es[i].ts \in Int
    <2>1. T \in Seq(Token) /\ Len(T) \in Nat \ {0}
      BY TokensParts
    <2>2. T # <<>>
      BY <2>1
    <2> QED BY <2>1, <2>2, EntryTyped
  <1>2. /\ st \in Chains /\ runs \in Seq(Seq(Token)) /\ run \in Seq(Token)
        /\ i = 1 => run = <<>> /\ runs = <<>>
        /\ i > 1 => run # <<>> /\ st.ts = es[i - 1].ts
    <2>1. i = 1 => i - 1 = 0
      OBVIOUS
    <2>2. i > 1 => i - 1 > 0
      OBVIOUS
    <2> QED BY <2>1, <2>2 DEF ChainedTo, Chains
  <1>3. PICK g : Placed(es, i - 1, A, g)
    BY Zenon DEF ChainedTo
  <1>4. /\ new \in Chains /\ new.ts = es[i].ts /\ new.run # <<>>
        /\ run # <<>> /\ Apart(st.ts, es[i].ts) => B = Append(Append(runs, run), T)
        /\ run = <<>> \/ ~Apart(st.ts, es[i].ts) => B = Append(runs, run \o T)
    <2> HIDE DEF T
    <2>1. T = Tokens(es[i])
      BY DEF T
    <2> QED BY <1>1, <1>2, <2>1, ExtendParts
  <1> HIDE DEF T, new
  <1>5. \E h : Placed(es, i, B, h)
    <2>1. CASE i = 1
      <3>1. A = <<>> /\ A \in Seq(Seq(Token)) /\ B = Append(A, T)
        <4>1. run \o T = T
          BY <1>1, <1>2, <2>1
        <4> QED BY <1>2, <1>4, <2>1, <4>1 DEF AllRuns
      <3>2. Grows(A, B, T, Len(A) + 1, 0) /\ \A s \in Spots(A) : s[1] # Len(A) + 1
        <4> HIDE DEF A, B
        <4> QED BY <1>1, <3>1, NewRun
      <3> HIDE DEF A, B
      <3> QED BY <1>3, <2>1, <3>2, PlacedNext DEF T
    <2>2. CASE i > 1 /\ Apart(es[i - 1].ts, es[i].ts)
      <3>1. A \in Seq(Seq(Token)) /\ B = Append(A, T)
        <4>1. A = Append(runs, run)
          BY <1>2, <2>2 DEF AllRuns
        <4> QED BY <1>2, <1>4, <2>2, <4>1
      <3>2. Grows(A, B, T, Len(A) + 1, 0) /\ \A s \in Spots(A) : s[1] # Len(A) + 1
        <4> HIDE DEF A, B
        <4> QED BY <1>1, <3>1, NewRun
      <3> HIDE DEF A, B
      <3> QED BY <1>3, <2>2, <3>2, PlacedNext DEF T
    <2>3. CASE i > 1 /\ ~Apart(es[i - 1].ts, es[i].ts)
      <3>1. A = Append(runs, run) /\ B = Append(runs, run \o T)
        BY <1>2, <1>4, <2>3 DEF AllRuns
      <3> DEFINE R == Len(runs) + 1
                 o == Len(run)
      <3> HIDE DEF A, B
      <3>2. Grows(A, B, T, R, o) /\ End(A) = <<R, o>>
        <4> HIDE DEF runs, run
        <4> QED BY <1>1, <1>2, <3>1, SameRun
      <3> HIDE DEF R, o
      <3> QED BY <1>3, <2>3, <3>2, PlacedNext DEF T
    <2> QED BY <2>1, <2>2, <2>3
  <1>6. i # 0 /\ i > 0
    OBVIOUS
  <1> QED BY <1>4, <1>5, <1>6, Zenon DEF ChainedTo, new

\* The loop of Discover, row by row.
IsChain(es, f) ==
  /\ f[0] = [runs |-> <<>>, run |-> <<>>, ts |-> 0]
  /\ \A i \in 1..Len(es) : f[i] = Extend(f[i - 1], es[i])

\* Extend makes a chain of a chain.
LEMMA ExtendTyped ==
  ASSUME NEW es \in Seq(Entry), NEW i \in 1..Len(es), NEW st \in Chains
  PROVE  Extend(st, es[i]) \in Chains
  <1> DEFINE T == Tokens(es[i])
  <1>1. T \in Seq(Token) /\ Len(T) \in Nat \ {0} /\ es[i].ts \in Int
    BY TokensParts, EntryTyped
  <1>2. T = Tokens(es[i])
    OBVIOUS
  <1> HIDE DEF T
  <1>3. T # <<>>
    BY <1>1
  <1> QED BY <1>1, <1>2, <1>3, ExtendParts

\* Chained is the last of a sequence of chains.
LEMMA ChainExists ==
  ASSUME NEW es \in Seq(Entry)
  PROVE  \E f : IsChain(es, f) /\ Chained(es) = f[Len(es)]
  <1> DEFINE a == [runs |-> <<>>, run |-> <<>>, ts |-> 0]
             n == Len(es)
             Row1(g) == [i \in 0..n |-> IF i = 0 THEN a ELSE Extend(g[i - 1], es[i])]
             step == [i \in 1..n |-> [st \in Chains |-> Extend(st, es[i])]]
  <1>1. n \in Nat
    OBVIOUS
  <1>2. a \in Chains
    BY DEF Chains
  <1>3. step \in [(0 + 1)..n -> [Chains -> Chains]]
    BY ExtendTyped
  <1> HIDE DEF a, n
  <1>4. PICK f : IsLoop(f, Chains, a, step, 0, n)
    <2> HIDE DEF step
    <2>1. 0 \in Nat /\ 0 <= n
      BY <1>1
    <2> QED BY <1>1, <1>2, <1>3, <2>1, LoopExists
  <1>5. f = Row1(f)
    <2>1. f \in [0..n -> Chains] /\ f[0] = a /\ \A i \in 1..n : f[i] = step[i][f[i - 1]]
      BY <1>4 DEF IsLoop
    <2>2. \A i \in 1..n : f[i] = Extend(f[i - 1], es[i])
      <3> SUFFICES ASSUME NEW i \in 1..n PROVE f[i] = Extend(f[i - 1], es[i])
        OBVIOUS
      <3>1. i - 1 \in 0..n
        BY <1>1
      <3>2. f[i - 1] \in Chains
        BY <2>1, <3>1
      <3> QED BY <2>1, <3>2
    <2>3. \A i \in 0..n : i # 0 => i \in 1..n
      BY <1>1
    <2> HIDE DEF step
    <2> QED BY <2>1, <2>2, <2>3
  <1> DEFINE g == CHOOSE h : h = Row1(h)
  <1>6. g = Row1(g)
    <2> HIDE DEF Row1
    <2> QED BY <1>5, Zenon
  <1>7. Chained(es) = g[n]
    BY Zenon DEF Chained, n, a
  <1> HIDE DEF g
  <1>8. IsChain(es, g)
    <2>1. \A i \in 1..n : i \in 0..n /\ i # 0
      BY <1>1
    <2>2. 0 \in 0..n
      BY <1>1
    <2>3. g[0] = a
      BY <1>6, <2>2
    <2>4. \A i \in 1..n : g[i] = Extend(g[i - 1], es[i])
      BY <1>6, <2>1
    <2> QED BY <2>3, <2>4, Zenon DEF IsChain, a, n
  <1> QED BY <1>7, <1>8, Zenon DEF n

\* Every scanned character has its place in the runs, and the neighbours there
\* are the characters typed one after the other.
LEMMA RunsPlaced ==
  ASSUME NEW es \in Seq(Entry)
  PROVE  \E g : Placed(es, Len(es), Runs(es), g)
  <1>1. PICK f : IsChain(es, f) /\ Chained(es) = f[Len(es)]
    BY ChainExists
  <1> DEFINE P == {i \in Nat : i <= Len(es) => ChainedTo(es, i, f[i])}
  <1>2. 0 \in P
    <2>1. /\ f[0].run = <<>> /\ f[0].runs = <<>> /\ f[0] \in Chains
      BY <1>1 DEF IsChain, Chains
    <2>2. AllRuns(f[0]) = <<>>
      BY <2>1 DEF AllRuns
    <2>3. Upto(es, 0) = {}
      <3>1. \A p \in Places(es) : ~(p[1] <= 0)
        BY PlaceParts
      <3> QED BY <3>1 DEF Upto
    <2>4. Spots(<<>>) = {}
      BY DEF Spots
    <2> DEFINE g == [p \in {} |-> p]
    <2>5. Placed(es, 0, <<>>, g)
      BY <2>3, <2>4 DEF Placed, Matches
    <2>6. ChainedTo(es, 0, f[0])
      BY <2>1, <2>2, <2>5 DEF ChainedTo
    <2> QED BY <2>6
  <1>3. \A i \in Nat : i \in P => i + 1 \in P
    <2> SUFFICES ASSUME NEW i \in Nat, i \in P, i + 1 <= Len(es)
                 PROVE  ChainedTo(es, i + 1, f[i + 1])
      OBVIOUS
    <2> DEFINE j == i + 1
    <2>1. j \in 1..Len(es) /\ j - 1 = i /\ i <= Len(es)
      BY EntryTyped
    <2>2. ChainedTo(es, i, f[i])
      BY <2>1
    <2> HIDE DEF j
    <2>3. ChainedTo(es, j, Extend(f[i], es[j]))
      BY <2>1, <2>2, ChainOfRow, Zenon
    <2>4. f[j] = Extend(f[i], es[j])
      BY <1>1, <2>1, Zenon DEF IsChain
    <2> QED BY <2>3, <2>4, Zenon DEF j
  <1>4. Len(es) \in P
    <2> HIDE DEF P
    <2> QED BY <1>2, <1>3, Induct, EntryTyped
  <1>5. ChainedTo(es, Len(es), Chained(es))
    BY <1>1, <1>4, EntryTyped
  <1>6. Runs(es) = AllRuns(Chained(es))
    BY Zenon DEF Runs, AllRuns
  <1> QED BY <1>5, <1>6 DEF ChainedTo

-----------------------------------------------------------------------------
(***************************************************************************)
(* The pairs and triples of Discover are the phrases that were typed.      *)
(***************************************************************************)

\* A phrase is two or three places that follow each other.
LEMMA PhraseParts ==
  ASSUME NEW es, NEW ph \in Phrases(es)
  PROVE  /\ Len(ph) \in {2, 3} /\ DOMAIN ph = 1..Len(ph)
         /\ ph[1] \in Places(es) /\ ph[2] \in Places(es) /\ Follows(es, ph[1], ph[2])
         /\ Len(ph) = 2 => ph = <<ph[1], ph[2]>>
         /\ Len(ph) = 3 => /\ ph = <<ph[1], ph[2], ph[3]>>
                           /\ ph[3] \in Places(es) /\ Follows(es, ph[2], ph[3])
  <1> DEFINE two   == {x \in Places(es) \X Places(es) : Follows(es, x[1], x[2])}
             three == {<<x[1], x[2], q>> : x \in two, q \in Places(es)}
  <1>1. ph \in two \/ (ph \in three /\ Follows(es, ph[2], ph[3]))
    BY DEF Phrases
  <1>2. CASE ph \in two
    <2>1. ph = <<ph[1], ph[2]>> /\ ph[1] \in Places(es) /\ ph[2] \in Places(es)
      BY <1>2
    <2>2. Follows(es, ph[1], ph[2])
      BY <1>2
    <2>3. Len(ph) = 2 /\ DOMAIN ph = 1..2
      <3>1. Len(<<ph[1], ph[2]>>) = 2 /\ DOMAIN <<ph[1], ph[2]>> = 1..2
        OBVIOUS
      <3> QED BY <2>1, <3>1, Zenon
    <2> QED BY <2>1, <2>2, <2>3
  <1>3. CASE ph \in three /\ Follows(es, ph[2], ph[3])
    <2>1. PICK x \in two, q \in Places(es) : ph = <<x[1], x[2], q>>
      BY <1>3
    <2>2. x[1] \in Places(es) /\ x[2] \in Places(es) /\ Follows(es, x[1], x[2])
      BY <2>1
    <2>3. Len(ph) = 3 /\ DOMAIN ph = 1..3 /\ ph[1] = x[1] /\ ph[2] = x[2] /\ ph[3] = q
      BY <2>1
    <2> QED BY <1>3, <2>1, <2>2, <2>3
  <1> QED BY <1>1, <1>2, <1>3

\* And these are phrases.
LEMMA IsPhrase ==
  ASSUME NEW es, NEW p \in Places(es), NEW q \in Places(es), Follows(es, p, q)
  PROVE  /\ <<p, q>> \in Phrases(es)
         /\ \A r \in Places(es) : Follows(es, q, r) => <<p, q, r>> \in Phrases(es)
  <1> DEFINE two   == {x \in Places(es) \X Places(es) : Follows(es, x[1], x[2])}
             three == {<<x[1], x[2], r>> : x \in two, r \in Places(es)}
             pair  == <<p, q>>
  <1>1. pair \in two /\ pair[1] = p /\ pair[2] = q
    OBVIOUS
  <1> HIDE DEF pair
  <1>2. ASSUME NEW r \in Places(es), Follows(es, q, r)
        PROVE  <<p, q, r>> \in three /\ Follows(es, <<p, q, r>>[2], <<p, q, r>>[3])
    <2>1. <<p, q, r>> = <<pair[1], pair[2], r>>
      BY <1>1
    <2>2. <<p, q, r>> \in three
      <3> HIDE DEF two
      <3> QED BY <1>1, <2>1
    <2>3. <<p, q, r>>[2] = q /\ <<p, q, r>>[3] = r
      OBVIOUS
    <2> QED BY <1>2, <2>2, <2>3
  <1>3. Phrases(es) = two \cup {ph \in three : Follows(es, ph[2], ph[3])}
    BY DEF Phrases
  <1> HIDE DEF two, three
  <1> QED BY <1>1, <1>2, <1>3 DEF pair

\* There are finitely many phrases.
LEMMA PhrasesFinite ==
  ASSUME NEW es \in Seq(Entry)
  PROVE  IsFiniteSet(Phrases(es))
  <1> DEFINE P == Places(es)
             PP == P \X P
             D == PP \X P
             T == {<<x[1][1], x[1][2], x[2]>> : x \in D}
             f == [x \in D |-> <<x[1][1], x[1][2], x[2]>>]
  <1>1. IsFiniteSet(P)
    BY PlacesFinite
  <1> HIDE DEF P
  <1>2. IsFiniteSet(PP)
    BY <1>1, FS_Product, Zenon
  <1>3. IsFiniteSet(D)
    <2> HIDE DEF PP
    <2> QED BY <1>1, <1>2, FS_Product, Zenon
  <1>4. f \in Surjection(D, T)
    <2> HIDE DEF D
    <2> QED BY DEF Surjection
  <1>5. IsFiniteSet(T)
    <2> HIDE DEF D, T, f
    <2> QED BY <1>3, <1>4, FS_Surjection, Zenon
  <1>6. Phrases(es) \subseteq PP \cup T
    <2> SUFFICES ASSUME NEW ph \in Phrases(es) PROVE ph \in PP \cup T
      OBVIOUS
    <2>1. CASE Len(ph) = 2
      BY <2>1, PhraseParts DEF P
    <2>2. CASE Len(ph) = 3
      <3>1. /\ ph = <<ph[1], ph[2], ph[3]>> /\ ph[1] \in P /\ ph[2] \in P /\ ph[3] \in P
        BY <2>2, PhraseParts DEF P
      <3> DEFINE x == <<<<ph[1], ph[2]>>, ph[3]>>
      <3>2. x \in D /\ x[1][1] = ph[1] /\ x[1][2] = ph[2] /\ x[2] = ph[3]
        BY <3>1
      <3> HIDE DEF x, D
      <3>3. ph = <<x[1][1], x[1][2], x[2]>>
        BY <3>1, <3>2
      <3> QED BY <3>2, <3>3
    <2> QED BY <2>1, <2>2, PhraseParts
  <1>7. IsFiniteSet(PP \cup T)
    BY <1>2, <1>5, FS_Union, Zenon
  <1> HIDE DEF PP, T
  <1> QED BY <1>6, <1>7, FS_Subset

\* The parts of a gram.
LEMMA GramParts ==
  ASSUME NEW A \in Seq(Seq(Token)), NEW g \in Grams(A)
  PROVE  /\ g = [run |-> g.run, at |-> g.at, span |-> g.span]
         /\ g.run \in 1..Len(A) /\ g.span \in {2, 3} /\ g.at \in Nat \ {0}
         /\ g.at + g.span - 1 <= Len(A[g.run])
  <1> DEFINE of(r, m) == {[run |-> r, at |-> i, span |-> m] : i \in 1..(Len(A[r]) - m + 1)}
             all == {of(r, m) : r \in DOMAIN A, m \in {2, 3}}
  <1>1. Grams(A) = UNION all
    BY DEF Grams
  <1>2. PICK r \in DOMAIN A, m \in {2, 3} : g \in of(r, m)
    BY <1>1
  <1>3. PICK i \in 1..(Len(A[r]) - m + 1) : g = [run |-> r, at |-> i, span |-> m]
    BY <1>2
  <1>4. r \in 1..Len(A) /\ Len(A[r]) \in Nat
    <2>1. DOMAIN A = 1..Len(A) /\ \A k \in 1..Len(A) : A[k] \in Seq(Token)
      OBVIOUS
    <2>2. r \in 1..Len(A) /\ A[r] \in Seq(Token)
      BY <2>1
    <2> DEFINE a == A[r]
    <2> HIDE DEF a
    <2>3. a \in Seq(Token) => Len(a) \in Nat
      OBVIOUS
    <2> QED BY <2>2, <2>3 DEF a
  <1> QED BY <1>3, <1>4

\* And these make a gram.
LEMMA IsGram ==
  ASSUME NEW A \in Seq(Seq(Token)), NEW r \in 1..Len(A), NEW m \in {2, 3}, NEW i \in Nat \ {0},
         i + m - 1 <= Len(A[r])
  PROVE  [run |-> r, at |-> i, span |-> m] \in Grams(A)
  <1> DEFINE of(q, s) == {[run |-> q, at |-> j, span |-> s] : j \in 1..(Len(A[q]) - s + 1)}
             all == {of(q, s) : q \in DOMAIN A, s \in {2, 3}}
             n == Len(A[r])
  <1>1. Grams(A) = UNION all
    BY DEF Grams
  <1>2. r \in DOMAIN A /\ n \in Nat
    OBVIOUS
  <1> HIDE DEF n
  <1>3. i \in 1..(n - m + 1)
    BY <1>2 DEF n
  <1>4. [run |-> r, at |-> i, span |-> m] \in of(r, m)
    BY <1>3, Zenon DEF n
  <1>5. of(r, m) \in all
    <2> HIDE DEF of
    <2> QED BY <1>2
  <1> HIDE DEF of, all
  <1> QED BY <1>1, <1>4, <1>5

\* The tokens of a gram are those of its spots.
LEMMA GramTokens ==
  ASSUME NEW A \in Seq(Seq(Token)), NEW g \in Grams(A)
  PROVE  /\ Gram(A, g) \in Seq(Token) /\ Len(Gram(A, g)) = g.span
         /\ DOMAIN Gram(A, g) = 1..g.span
         /\ \A k \in 1..g.span : /\ <<g.run, g.at + (k - 1)>> \in Spots(A)
                                 /\ Gram(A, g)[k] = At(A, <<g.run, g.at + (k - 1)>>)
  <1> DEFINE r == g.run
             i == g.at
             m == g.span
             a == A[r]
             j == i + m - 1
  <1>1. r \in 1..Len(A) /\ m \in {2, 3} /\ i \in Nat \ {0} /\ j <= Len(a)
    BY GramParts
  <1>2. a \in Seq(Token)
    BY <1>1
  <1>3. Gram(A, g) = SubSeq(a, i, j)
    BY DEF Gram
  <1> HIDE DEF r, i, m, a
  <1>4. i \in 1..(Len(a) + 1) /\ j \in (i - 1)..Len(a) /\ Len(a) \in Nat /\ (j - i) + 1 = m
    BY <1>1, <1>2
  <1> HIDE DEF j
  <1>5. /\ SubSeq(a, i, j) \in Seq(Token) /\ Len(SubSeq(a, i, j)) = m
        /\ \A k \in 1..m : SubSeq(a, i, j)[k] = a[i + (k - 1)]
    BY <1>1, <1>2, <1>4
  <1>6. \A k \in 1..m : <<r, i + (k - 1)>> \in Spots(A) /\ At(A, <<r, i + (k - 1)>>) = a[i + (k - 1)]
    <2> SUFFICES ASSUME NEW k \in 1..m
                 PROVE  /\ <<r, i + (k - 1)>> \in Spots(A)
                        /\ At(A, <<r, i + (k - 1)>>) = a[i + (k - 1)]
      OBVIOUS
    <2> DEFINE q == i + (k - 1)
    <2>1. q \in 1..Len(a) /\ q \in Nat
      BY <1>1, <1>4
    <2> HIDE DEF q
    <2>2. <<r, q>> \in (1..Len(A)) \X Nat /\ <<r, q>>[1] = r /\ <<r, q>>[2] = q
      BY <1>1, <2>1
    <2> QED BY <2>1, <2>2 DEF Spots, At, a, q
  <1>7. DOMAIN SubSeq(a, i, j) = 1..m
    BY <1>5
  <1> QED BY <1>3, <1>5, <1>6, <1>7 DEF r, i, m

\* The pair or triple in the runs where the characters of a phrase are.
Placing(g, ph) == [run |-> g[ph[1]][1], at |-> g[ph[1]][2], span |-> Len(ph)]

\* Everything about the runs of a scan that the rest needs.
IsPlacing(es, A, g) ==
  /\ A \in Seq(Seq(Token)) /\ Matches(g, Places(es), Spots(A))
  /\ \A p \in Places(es) : At(A, g[p]) = TokenAt(es, p)
  /\ \A p, q \in Places(es) : Follows(es, p, q) <=> g[q] = <<g[p][1], g[p][2] + 1>>

\* Every place has a spot in the runs of a scan, and every spot a place.
LEMMA PlacingExists ==
  ASSUME NEW es \in Seq(Entry)
  PROVE  \E g : IsPlacing(es, Runs(es), g)
  <1>1. PICK g : Placed(es, Len(es), Runs(es), g)
    BY RunsPlaced
  <1>2. Upto(es, Len(es)) = Places(es)
    <2>1. \A p \in Places(es) : p[1] <= Len(es)
      BY PlaceParts, EntryTyped
    <2> QED BY <2>1 DEF Upto
  <1>3. IsPlacing(es, Runs(es), g)
    <2> DEFINE A == Runs(es)
    <2>1. Placed(es, Len(es), A, g)
      BY <1>1
    <2> HIDE DEF A
    <2>2. IsPlacing(es, A, g)
      BY <1>2, <2>1 DEF Placed, IsPlacing
    <2> QED BY <2>2 DEF A
  <1> QED BY <1>3

\* The spot of a place.
LEMMA PlacingSpots ==
  ASSUME NEW es, NEW A, NEW g, IsPlacing(es, A, g), NEW p \in Places(es)
  PROVE  /\ g[p] \in Spots(A) /\ g[p] = <<g[p][1], g[p][2]>>
         /\ g[p][1] \in 1..Len(A) /\ g[p][2] \in Nat \ {0} /\ g[p][2] <= Len(A[g[p][1]])
  <1> DEFINE s == g[p]
  <1>1. s \in Spots(A)
    BY DEF IsPlacing, Matches
  <1> HIDE DEF s
  <1>2. s \in (1..Len(A)) \X Nat /\ s[2] \in 1..Len(A[s[1]])
    BY <1>1 DEF Spots
  <1>3. s = <<s[1], s[2]>> /\ s[1] \in 1..Len(A) /\ s[2] \in Nat
    BY <1>2
  <1>4. Len(A[s[1]]) \in Nat
    <2>1. A \in Seq(Seq(Token))
      BY DEF IsPlacing
    <2>2. A[s[1]] \in Seq(Token)
      BY <1>3, <2>1
    <2> QED BY <2>2
  <1> QED BY <1>1, <1>2, <1>3, <1>4 DEF s

\* The spots of a phrase follow each other in one run.
InARow(es, g, ph) ==
  \A k \in 1..Len(ph) : /\ ph[k] \in Places(es)
                        /\ g[ph[k]] = <<g[ph[1]][1], g[ph[1]][2] + (k - 1)>>

\* They do.
LEMMA PhraseSpots ==
  ASSUME NEW es, NEW A, NEW g, IsPlacing(es, A, g), NEW ph \in Phrases(es)
  PROVE  InARow(es, g, ph)
  <1> DEFINE r == g[ph[1]][1]
             i == g[ph[1]][2]
  <1>1. g[ph[1]] = <<r, i>> /\ i \in Nat \ {0}
    BY PhraseParts, PlacingSpots
  <1>2. g[ph[2]] = <<r, i + 1>>
    BY PhraseParts DEF IsPlacing
  <1>3. Len(ph) = 3 => g[ph[3]] = <<r, (i + 1) + 1>>
    <2> SUFFICES ASSUME Len(ph) = 3 PROVE g[ph[3]] = <<r, (i + 1) + 1>>
      OBVIOUS
    <2>1. g[ph[3]] = <<g[ph[2]][1], g[ph[2]][2] + 1>>
      BY PhraseParts DEF IsPlacing
    <2>2. g[ph[2]][1] = r /\ g[ph[2]][2] = i + 1
      BY <1>2
    <2> QED BY <2>1, <2>2
  <1> HIDE DEF r, i
  <1>4. ASSUME NEW k \in 1..Len(ph)
        PROVE  ph[k] \in Places(es) /\ g[ph[k]] = <<r, i + (k - 1)>>
    <2>0. Len(ph) \in {2, 3}
      BY PhraseParts
    <2>1. CASE k = 1
      <3>1. i + (1 - 1) = i
        BY <1>1
      <3> QED BY <1>1, <2>1, <3>1, PhraseParts
    <2>2. CASE k = 2
      <3>1. i + (2 - 1) = i + 1
        BY <1>1
      <3> QED BY <1>2, <2>2, <3>1, PhraseParts
    <2>3. CASE k = 3
      <3>1. i + (3 - 1) = (i + 1) + 1
        BY <1>1
      <3>2. Len(ph) = 3
        <4>1. Len(ph) = 2 => k \in 1..2
          OBVIOUS
        <4>2. ~(3 \in 1..2)
          OBVIOUS
        <4> QED BY <2>0, <2>3, <4>1, <4>2
      <3> QED BY <1>3, <2>3, <3>1, <3>2, PhraseParts
    <2> QED BY <2>0, <2>1, <2>2, <2>3
  <1> QED BY <1>4 DEF r, i, InARow

\* A phrase is where Discover looks for it, and reads there as it was typed.
LEMMA PhraseIsGram ==
  ASSUME NEW es \in Seq(Entry), NEW A, NEW g, IsPlacing(es, A, g), NEW ph \in Phrases(es)
  PROVE  /\ Placing(g, ph) \in Grams(A)
         /\ Text(Gram(A, Placing(g, ph))) = Typed(es, ph)
         /\ \A k \in 1..Len(ph) : Gram(A, Placing(g, ph))[k] = TokenAt(es, ph[k])
         /\ DOMAIN Gram(A, Placing(g, ph)) = 1..Len(ph)
  <1> DEFINE r == g[ph[1]][1]
             i == g[ph[1]][2]
             m == Len(ph)
             G == Placing(g, ph)
             gram == Gram(A, G)
  <1>1. A \in Seq(Seq(Token)) /\ m \in {2, 3} /\ DOMAIN ph = 1..m
    BY PhraseParts DEF IsPlacing
  <1>2. \A k \in 1..m : ph[k] \in Places(es) /\ g[ph[k]] = <<r, i + (k - 1)>>
    BY PhraseSpots DEF InARow
  <1>3. r \in 1..Len(A) /\ i \in Nat \ {0} /\ i + m - 1 <= Len(A[r])
    <2>1. ph[1] \in Places(es) /\ ph[m] \in Places(es) /\ g[ph[m]] = <<r, i + (m - 1)>>
      <3>1. m \in 1..m
        BY <1>1
      <3> QED BY <1>2, <3>1, PhraseParts
    <2>2. r \in 1..Len(A) /\ i \in Nat \ {0}
      BY <2>1, PlacingSpots
    <2>3. g[ph[m]][1] = r /\ g[ph[m]][2] = i + (m - 1)
      BY <2>1
    <2>4. i + (m - 1) <= Len(A[r])
      BY <2>1, <2>3, PlacingSpots
    <2>5. i + (m - 1) = i + m - 1
      BY <1>1, <2>2
    <2> QED BY <2>2, <2>4, <2>5
  <1>4. G = [run |-> r, at |-> i, span |-> m]
    BY DEF Placing
  <1> HIDE DEF r, i, m, G
  <1>5. G \in Grams(A) /\ G.run = r /\ G.at = i /\ G.span = m
    BY <1>1, <1>3, <1>4, IsGram
  <1>6. DOMAIN gram = 1..m /\ \A k \in 1..m : gram[k] = At(A, <<r, i + (k - 1)>>)
    BY <1>1, <1>5, GramTokens
  <1>7. \A k \in 1..m : gram[k] = TokenAt(es, ph[k])
    BY <1>2, <1>6 DEF IsPlacing
  <1>8. \A k \in 1..m : gram[k].ch = Char(es, ph[k])
    <2> SUFFICES ASSUME NEW k \in 1..m PROVE gram[k].ch = Char(es, ph[k])
      OBVIOUS
    <2>1. ph[k] \in Places(es)
      BY <1>2
    <2>2. TokenAt(es, ph[k]).ch = Char(es, ph[k])
      BY <2>1, PlaceParts, TokensParts DEF TokenAt, Char
    <2> QED BY <1>7, <2>2
  <1> HIDE DEF gram
  <1>9. Text(gram) = [k \in 1..m |-> Char(es, ph[k])]
    BY <1>6, <1>8 DEF Text
  <1>10. Typed(es, ph) = [k \in 1..m |-> Char(es, ph[k])]
    BY <1>1 DEF Typed, Char
  <1> QED BY <1>5, <1>6, <1>7, <1>9, <1>10 DEF G, gram, m

\* Phrases at different places are different grams.
LEMMA OneGram ==
  ASSUME NEW es, NEW A, NEW g, IsPlacing(es, A, g),
         NEW ph \in Phrases(es), NEW qh \in Phrases(es), Placing(g, ph) = Placing(g, qh)
  PROVE  ph = qh
  <1> DEFINE r == g[ph[1]][1]
             i == g[ph[1]][2]
             s == g[qh[1]][1]
             j == g[qh[1]][2]
             m == Len(ph)
             n == Len(qh)
  <1>1. r = s /\ i = j /\ m = n
    <2>1. [run |-> r, at |-> i, span |-> m] = [run |-> s, at |-> j, span |-> n]
      BY DEF Placing
    <2> HIDE DEF r, s, i, j, m, n
    <2> QED BY <2>1
  <1>2. \A k \in 1..m : ph[k] \in Places(es) /\ g[ph[k]] = <<r, i + (k - 1)>>
    <2>1. InARow(es, g, ph)
      BY PhraseSpots, Zenon
    <2> QED BY <2>1, Zenon DEF InARow
  <1>3. \A k \in 1..n : qh[k] \in Places(es) /\ g[qh[k]] = <<s, j + (k - 1)>>
    <2>1. InARow(es, g, qh)
      BY PhraseSpots, Zenon
    <2> QED BY <2>1, Zenon DEF InARow
  <1> HIDE DEF r, s, i, j
  <1>4. \A k \in 1..m : ph[k] = qh[k]
    <2> SUFFICES ASSUME NEW k \in 1..m PROVE ph[k] = qh[k]
      OBVIOUS
    <2>1. g[ph[k]] = g[qh[k]] /\ ph[k] \in Places(es) /\ qh[k] \in Places(es)
      BY <1>1, <1>2, <1>3
    <2> QED BY <2>1 DEF IsPlacing, Matches
  <1>5. m \in {2, 3} /\ m = n
    BY <1>1, PhraseParts
  <1>6. ph[1] = qh[1] /\ ph[2] = qh[2] /\ (m = 3 => ph[3] = qh[3])
    BY <1>4, <1>5
  <1> QED BY <1>5, <1>6, PhraseParts

\* Every gram is where a phrase is.
LEMMA GramIsPhrase ==
  ASSUME NEW es, NEW A, NEW g, IsPlacing(es, A, g), NEW G \in Grams(A)
  PROVE  \E ph \in Phrases(es) : Placing(g, ph) = G
  <1> DEFINE r == G.run
             i == G.at
             m == G.span
             spot(k) == <<r, i + (k - 1)>>
  <1>1. /\ G = [run |-> r, at |-> i, span |-> m] /\ r \in 1..Len(A) /\ m \in {2, 3}
        /\ i \in Nat \ {0} /\ A \in Seq(Seq(Token))
    BY GramParts DEF IsPlacing
  <1>2. \A k \in 1..m : spot(k) \in Spots(A)
    BY <1>1, GramTokens
  <1> HIDE DEF r, i, m
  <1>3. /\ spot(1) = <<r, i>> /\ spot(2) = <<r, i + 1>> /\ spot(3) = <<r, (i + 1) + 1>>
        /\ spot(1)[1] = r /\ spot(1)[2] = i /\ spot(2)[1] = r /\ spot(2)[2] = i + 1
    <2>1. i + (1 - 1) = i /\ i + (2 - 1) = i + 1 /\ i + (3 - 1) = (i + 1) + 1
      BY <1>1
    <2> QED BY <2>1
  <1> HIDE DEF spot
  <1>4. \A s \in Spots(A) : \E p \in Places(es) : g[p] = s
    BY DEF IsPlacing, Matches
  <1>5. PICK p \in Places(es) : g[p] = spot(1)
    BY <1>1, <1>2, <1>4
  <1>6. PICK q \in Places(es) : g[q] = spot(2)
    BY <1>1, <1>2, <1>4
  <1>7. Follows(es, p, q)
    BY <1>3, <1>5, <1>6 DEF IsPlacing
  <1>8. CASE m = 2
    <2> DEFINE ph == <<p, q>>
    <2>1. ph \in Phrases(es) /\ ph[1] = p /\ Len(ph) = 2
      BY <1>7, IsPhrase
    <2> HIDE DEF ph
    <2>2. Placing(g, ph) = G
      BY <1>1, <1>3, <1>5, <1>8, <2>1 DEF Placing
    <2> QED BY <2>1, <2>2
  <1>9. CASE m = 3
    <2>1. PICK z \in Places(es) : g[z] = spot(3)
      BY <1>2, <1>4, <1>9
    <2>2. Follows(es, q, z)
      BY <1>3, <1>6, <2>1 DEF IsPlacing
    <2> DEFINE ph == <<p, q, z>>
    <2>3. ph \in Phrases(es) /\ ph[1] = p /\ Len(ph) = 3
      BY <1>7, <2>2, IsPhrase
    <2> HIDE DEF ph
    <2>4. Placing(g, ph) = G
      BY <1>1, <1>3, <1>5, <1>9, <2>3 DEF Placing
    <2> QED BY <2>3, <2>4
  <1> QED BY <1>1, <1>8, <1>9

\* What Discover finds of a text, and where it was typed.
Found(A, text) == {G \in Grams(A) : Text(Gram(A, G)) = text}
\* Where text was typed.
Uses(es, text) == {ph \in Phrases(es) : Typed(es, ph) = text}

\* A text is found in the runs as often as it was typed.
LEMMA FoundAsTyped ==
  ASSUME NEW es \in Seq(Entry), NEW text
  PROVE  /\ IsFiniteSet(Found(Runs(es), text)) /\ IsFiniteSet(Uses(es, text))
         /\ Cardinality(Found(Runs(es), text)) = Cardinality(Uses(es, text))
  <1> DEFINE A == Runs(es)
             S == Uses(es, text)
             T == Found(A, text)
  <1>1. PICK g : IsPlacing(es, A, g)
    BY PlacingExists
  <1> HIDE DEF A
  <1> DEFINE f == [ph \in S |-> Placing(g, ph)]
  <1>2. \A ph : ph \in S <=> ph \in Phrases(es) /\ Typed(es, ph) = text
    BY DEF Uses
  <1>3. \A G : G \in T <=> G \in Grams(A) /\ Text(Gram(A, G)) = text
    BY DEF Found
  <1> HIDE DEF S, T
  <1>4. f \in [S -> T]
    BY <1>1, <1>2, <1>3, PhraseIsGram
  <1>5. \A x, y \in S : f[x] = f[y] => x = y
    BY <1>1, <1>2, OneGram
  <1>6. \A G \in T : \E ph \in S : f[ph] = G
    <2> SUFFICES ASSUME NEW G \in T PROVE \E ph \in S : f[ph] = G
      OBVIOUS
    <2>1. PICK ph \in Phrases(es) : Placing(g, ph) = G
      BY <1>1, <1>3, GramIsPhrase
    <2>2. Typed(es, ph) = text
      BY <1>1, <1>3, <2>1, PhraseIsGram
    <2> QED BY <1>2, <2>1, <2>2
  <1>7. IsFiniteSet(S)
    <2>1. S \in SUBSET Phrases(es)
      BY <1>2
    <2> QED BY <2>1, PhrasesFinite, FS_Subset, Zenon
  <1>8. Matches(f, S, T)
    <2> HIDE DEF f
    <2> QED BY <1>4, <1>5, <1>6 DEF Matches
  <1> HIDE DEF f
  <1>9. IsFiniteSet(T) /\ Cardinality(T) = Cardinality(S)
    BY <1>7, <1>8, SameSize
  <1> QED BY <1>7, <1>9 DEF S, T, A

\* The characters x and y, typed one after the other, are the phrase <<x, y>>.
LEMMA UsesOfPair ==
  ASSUME NEW es \in Seq(Entry), NEW x, NEW y
  PROVE  Uses(es, <<x, y>>) = Links(es, Len(es), x, y)
  <1>1. ASSUME NEW ph \in Uses(es, <<x, y>>) PROVE ph \in Links(es, Len(es), x, y)
    <2>1. ph \in Phrases(es) /\ Typed(es, ph) = <<x, y>>
      BY DEF Uses
    <2>2. DOMAIN Typed(es, ph) = DOMAIN ph /\ DOMAIN <<x, y>> = 1..2
      BY DEF Typed
    <2>3. Len(ph) = 2
      <3>1. 1..Len(ph) = 1..2
        BY <2>1, <2>2, PhraseParts
      <3>2. 3 \notin 1..2 /\ 3 \in 1..3
        OBVIOUS
      <3>3. Len(ph) = 2 \/ Len(ph) = 3
        BY <2>1, PhraseParts
      <3> QED BY <3>1, <3>2, <3>3
    <2>4. /\ ph = <<ph[1], ph[2]>> /\ ph[1] \in Places(es) /\ ph[2] \in Places(es)
          /\ Follows(es, ph[1], ph[2])
      BY <2>1, <2>3, PhraseParts
    <2>5. 1 \in DOMAIN ph /\ 2 \in DOMAIN ph
      BY <2>2, <2>1
    <2>6. Typed(es, ph)[1] = Char(es, ph[1]) /\ Typed(es, ph)[2] = Char(es, ph[2])
      BY <2>5 DEF Typed, Char
    <2>7. <<x, y>>[1] = x /\ <<x, y>>[2] = y
      OBVIOUS
    <2>8. ph[2][1] <= Len(es)
      BY <2>4, PlaceParts
    <2> QED BY <2>1, <2>4, <2>6, <2>7, <2>8 DEF Links
  <1>2. ASSUME NEW ph \in Links(es, Len(es), x, y) PROVE ph \in Uses(es, <<x, y>>)
    <2>1. /\ ph \in Places(es) \X Places(es) /\ Follows(es, ph[1], ph[2])
          /\ Char(es, ph[1]) = x /\ Char(es, ph[2]) = y
      BY DEF Links
    <2>2. ph = <<ph[1], ph[2]>> /\ ph[1] \in Places(es) /\ ph[2] \in Places(es)
      BY <2>1
    <2>3. ph \in Phrases(es)
      BY <2>1, <2>2, IsPhrase
    <2>4. DOMAIN ph = 1..2
      BY <2>1
    <2>5. Typed(es, ph) = [k \in 1..2 |-> Char(es, ph[k])]
      BY <2>4 DEF Typed, Char
    <2>6. Typed(es, ph) = <<x, y>>
      BY <2>1, <2>5
    <2> QED BY <2>3, <2>6 DEF Uses
  <1> QED BY <1>1, <1>2

-----------------------------------------------------------------------------
(***************************************************************************)
(* The code of a word.                                                     *)
(***************************************************************************)

\* Sequences, joined, are a sequence.
LEMMA FlatTyped ==
  ASSUME NEW K, NEW ss \in Seq(Seq(K)), Len(ss) > 0
  PROVE  FlattenSeq(ss) \in Seq(K)
  <1> DEFINE n == Len(ss)
             a == ss[1]
             S == Seq(K)
             Flat(g) == [i \in 1..n |-> IF i = 1 THEN a ELSE g[i - 1] \o ss[i]]
             step == [i \in 2..n |-> [s \in S |-> s \o ss[i]]]
  <1>1. n \in Nat /\ n >= 1 /\ \A i \in 1..n : ss[i] \in S
    OBVIOUS
  <1>2. a \in S
    BY <1>1
  <1>3. \A i \in 2..n : \A s \in S : s \o ss[i] \in S
    <2> SUFFICES ASSUME NEW i \in 2..n, NEW s \in S PROVE s \o ss[i] \in S
      OBVIOUS
    <2>1. ss[i] \in S
      BY <1>1
    <2> QED BY <2>1
  <1> HIDE DEF n, a, S
  <1>4. step \in [(1 + 1)..n -> [S -> S]]
    BY <1>3
  <1>5. PICK f : IsLoop(f, S, a, step, 1, n)
    <2> HIDE DEF step
    <2> QED BY <1>1, <1>2, <1>4, LoopExists
  <1>6. f = Flat(f)
    <2>1. f \in [1..n -> S] /\ f[1] = a /\ \A i \in 2..n : f[i] = step[i][f[i - 1]]
      <3> HIDE DEF step
      <3>1. 1 + 1 = 2
        OBVIOUS
      <3> QED BY <1>5, <3>1 DEF IsLoop
    <2>2. \A i \in 2..n : f[i] = f[i - 1] \o ss[i]
      <3> SUFFICES ASSUME NEW i \in 2..n PROVE f[i] = f[i - 1] \o ss[i]
        OBVIOUS
      <3>1. i - 1 \in 1..n
        BY <1>1
      <3>2. f[i - 1] \in S
        BY <2>1, <3>1
      <3> QED BY <2>1, <3>2
    <2>3. \A i \in 1..n : i # 1 => i \in 2..n
      BY <1>1
    <2> HIDE DEF step
    <2> QED BY <2>1, <2>2, <2>3
  <1> DEFINE g == CHOOSE h : h = Flat(h)
  <1>7. g = Flat(g)
    <2> HIDE DEF Flat
    <2> QED BY <1>6, Zenon
  <1>8. FlattenSeq(ss) = g[n]
    <2>1. n # 0
      BY <1>1
    <2> QED BY <2>1, Zenon DEF FlattenSeq, n, a
  <1> HIDE DEF g
  <1>9. \A i \in Nat : i \in {k \in Nat : k + 1 <= n => g[k + 1] \in S}
    <2> DEFINE P == {k \in Nat : k + 1 <= n => g[k + 1] \in S}
    <2>1. 0 \in P
      <3>1. 0 + 1 = 1 /\ 1 \in 1..n
        BY <1>1
      <3> QED BY <1>2, <1>7, <3>1
    <2>2. \A k \in Nat : k \in P => k + 1 \in P
      <3> SUFFICES ASSUME NEW k \in Nat, k \in P, (k + 1) + 1 <= n
                   PROVE  g[(k + 1) + 1] \in S
        OBVIOUS
      <3> DEFINE i == (k + 1) + 1
      <3>1. i \in 2..n /\ i - 1 = k + 1 /\ i # 1 /\ i \in 1..n /\ k + 1 <= n
        BY <1>1
      <3>2. g[k + 1] \in S
        BY <3>1
      <3> HIDE DEF i
      <3>3. g[i] = g[k + 1] \o ss[i]
        BY <1>7, <3>1
      <3>4. g[i] \in S
        BY <1>3, <3>1, <3>2, <3>3
      <3> QED BY <3>4 DEF i
    <2> HIDE DEF P
    <2>3. \A i \in Nat : i \in P
      BY <2>1, <2>2, Induct
    <2> QED BY <2>3 DEF P
  <1>10. g[n] \in S
    <2>1. n - 1 \in Nat /\ (n - 1) + 1 = n
      BY <1>1
    <2> QED BY <1>1, <1>9, <2>1
  <1> QED BY <1>8, <1>10 DEF S

\* The code of a gram is a sequence of keys.
LEMMA CodeTyped ==
  ASSUME NEW A \in Seq(Seq(Token)), NEW G \in Grams(A)
  PROVE  Code(Gram(A, G)) \in Seq(Keys) /\ Len(Code(Gram(A, G))) \in Nat
  <1> DEFINE gram == Gram(A, G)
             codes == [k \in DOMAIN gram |-> gram[k].code]
  <1>1. gram \in Seq(Token) /\ Len(gram) \in {2, 3} /\ DOMAIN gram = 1..Len(gram)
    BY GramTokens, GramParts
  <1> HIDE DEF gram
  <1>2. \A k \in 1..Len(gram) : gram[k].code \in Seq(Keys)
    <2>1. \A k \in 1..Len(gram) : gram[k] \in Token
      BY <1>1
    <2>2. \A x \in Token : x.code \in Seq(Keys)
      BY DEF Token
    <2> QED BY <2>1, <2>2
  <1>3. codes \in Seq(Seq(Keys)) /\ Len(codes) > 0
    <2> DEFINE n == Len(gram)
               S == Seq(Keys)
    <2>0. n \in {2, 3} /\ DOMAIN gram = 1..n /\ \A k \in 1..n : gram[k].code \in S
      BY <1>1, <1>2
    <2> HIDE DEF n, S
    <2>1. codes \in [1..n -> S] /\ n \in Nat /\ n > 0
      BY <2>0
    <2> HIDE DEF codes
    <2>2. codes \in Seq(S) /\ Len(codes) = n
      BY <2>1
    <2> QED BY <2>1, <2>2 DEF S
  <1>4. Code(gram) = <<>> \/ Code(gram) = FlattenSeq(codes)
    BY DEF Code
  <1> HIDE DEF codes
  <1>5. FlattenSeq(codes) \in Seq(Keys)
    BY <1>3, FlatTyped
  <1>6. Code(gram) \in Seq(Keys)
    <2>1. <<>> \in Seq(Keys)
      OBVIOUS
    <2> QED BY <1>4, <1>5, <2>1, Zenon
  <1> QED BY <1>6 DEF gram

\* Of those that read alike, one has the longest code and came first.
IsBest(A, T, G) ==
  /\ G \in T
  /\ \A H \in T \ {G} : Stays(Code(Gram(A, G)), Code(Gram(A, H)), Earlier(G, H))

\* One of the grams of a text has the code that stays.
LEMMA BestExists ==
  ASSUME NEW A \in Seq(Seq(Token)), NEW T \in SUBSET Grams(A), IsFiniteSet(T), T # {},
         \A G, H \in T : G.span = H.span
  PROVE  \E G \in T : IsBest(A, T, G)
  <1> DEFINE len(G) == Len(Code(Gram(A, G)))
             better(G, H) == Stays(Code(Gram(A, G)), Code(Gram(A, H)), Earlier(G, H))
             R == {x \in T \X T : better(x[1], x[2])}
  <1>1. \A G \in T : /\ len(G) \in Nat /\ G.run \in Nat /\ G.at \in Nat
                     /\ G = [run |-> G.run, at |-> G.at, span |-> G.span]
    <2> SUFFICES ASSUME NEW G \in T PROVE /\ len(G) \in Nat /\ G.run \in Nat /\ G.at \in Nat
                                          /\ G = [run |-> G.run, at |-> G.at, span |-> G.span]
      OBVIOUS
    <2>1. len(G) \in Nat
      BY CodeTyped
    <2> QED BY <2>1, GramParts
  <1>2. \A G, H : better(G, H) <=>
          len(G) > len(H) \/ (len(G) = len(H) /\ (G.run < H.run \/ (G.run = H.run /\ G.at < H.at)))
    BY DEF Stays, Earlier
  <1> HIDE DEF len, better
  <1>3. \A G, H \in T : <<G, H>> \in R <=> better(G, H)
    OBVIOUS
  <1>4. \A G, H \in T : G # H => G.run # H.run \/ G.at # H.at
    BY <1>1
  <1>5. \A G, H \in T : G # H => better(G, H) \/ better(H, G)
    <2> SUFFICES ASSUME NEW G \in T, NEW H \in T, G # H PROVE better(G, H) \/ better(H, G)
      OBVIOUS
    <2>1. /\ len(G) \in Nat /\ G.run \in Nat /\ G.at \in Nat
          /\ len(H) \in Nat /\ H.run \in Nat /\ H.at \in Nat
      BY <1>1
    <2>2. G.run # H.run \/ G.at # H.at
      BY <1>4
    <2> QED BY <1>2, <2>1, <2>2
  <1>6. \A G, H, I \in T : better(G, H) /\ better(H, I) => better(G, I)
    <2> SUFFICES ASSUME NEW G \in T, NEW H \in T, NEW I \in T, better(G, H), better(H, I)
                 PROVE  better(G, I)
      OBVIOUS
    <2>1. /\ len(G) \in Nat /\ G.run \in Nat /\ G.at \in Nat
          /\ len(H) \in Nat /\ H.run \in Nat /\ H.at \in Nat
          /\ len(I) \in Nat /\ I.run \in Nat /\ I.at \in Nat
      BY <1>1
    <2>2. len(G) > len(H) \/ (len(G) = len(H) /\ (G.run < H.run \/ (G.run = H.run /\ G.at < H.at)))
      BY <1>2
    <2>3. len(H) > len(I) \/ (len(H) = len(I) /\ (H.run < I.run \/ (H.run = I.run /\ H.at < I.at)))
      BY <1>2
    <2>4. len(G) > len(I) \/ (len(G) = len(I) /\ (G.run < I.run \/ (G.run = I.run /\ G.at < I.at)))
      BY <2>1, <2>2, <2>3
    <2> QED BY <1>2, <2>4
  <1>7. Orders2(R, T)
    BY <1>3, <1>5, <1>6 DEF Orders2
  <1> HIDE DEF R
  <1>8. PICK G \in T : \A H \in T \ {G} : <<G, H>> \in R
    BY <1>7, FirstExists
  <1>9. \A H \in T \ {G} : better(G, H)
    BY <1>3, <1>8
  <1> QED BY <1>9 DEF IsBest, better

-----------------------------------------------------------------------------
(***************************************************************************)
(* The words that Discover finds.                                          *)
(***************************************************************************)

\* The gram whose code stays.
Best(A, text) ==
  CHOOSE g \in Found(A, text) : \A h \in Found(A, text) \ {g} :
    Stays(Code(Gram(A, g)), Code(Gram(A, h)), Earlier(g, h))

\* What Discover says of a text.
WordOf(A, text) ==
  [text |-> text, frequency |-> Cardinality(Found(A, text)),
   code |-> Code(Gram(A, Best(A, text)))]

\* The texts Discover takes for words.
LikelyTexts(A) ==
  {text \in {Text(Gram(A, g)) : g \in Grams(A)} :
     Cardinality(Found(A, text)) >= MinFrequency /\ LooksLikeRealCandidate(text)}

\* Discovered in these terms.
LEMMA DiscoveredIs ==
  ASSUME NEW es
  PROVE  Discovered(es) = {WordOf(Runs(es), text) : text \in LikelyTexts(Runs(es))}
  BY DEF Discovered, WordOf, LikelyTexts, Best, Found

\* The code of a word is that of a gram of it.
LEMMA BestIsFound ==
  ASSUME NEW es \in Seq(Entry), NEW text, Found(Runs(es), text) # {}
  PROVE  Best(Runs(es), text) \in Found(Runs(es), text)
  <1> DEFINE A == Runs(es)
             T == Found(A, text)
  <1>1. A \in Seq(Seq(Token)) /\ IsFiniteSet(T)
    BY PlacingExists, FoundAsTyped DEF IsPlacing
  <1> HIDE DEF A
  <1>2. T \in SUBSET Grams(A) /\ T # {}
    BY DEF Found, A
  <1>3. \A G \in T : /\ G \in Grams(A) /\ DOMAIN text = 1..G.span
                     /\ G.span = 2 \/ G.span = 3
    <2> SUFFICES ASSUME NEW G \in T
                 PROVE  /\ G \in Grams(A) /\ DOMAIN text = 1..G.span
                        /\ G.span = 2 \/ G.span = 3
      OBVIOUS
    <2>1. G \in Grams(A) /\ Text(Gram(A, G)) = text
      BY DEF Found
    <2>2. DOMAIN Text(Gram(A, G)) = DOMAIN Gram(A, G)
      BY DEF Text
    <2> QED BY <1>1, <2>1, <2>2, GramTokens, GramParts
  <1>4. \A G, H \in T : G.span = H.span
    <2>1. 1..2 # 1..3
      <3>1. 3 \notin 1..2 /\ 3 \in 1..3
        OBVIOUS
      <3> QED BY <3>1
    <2> QED BY <1>3, <2>1
  <1> HIDE DEF T
  <1>5. PICK G \in T : IsBest(A, T, G)
    BY <1>1, <1>2, <1>4, BestExists, Zenon
  <1>6. Best(A, text) = CHOOSE g \in T : \A h \in T \ {g} :
          Stays(Code(Gram(A, g)), Code(Gram(A, h)), Earlier(g, h))
    BY Zenon DEF Best, T
  <1>7. Best(A, text) \in T
    BY <1>5, <1>6, Zenon DEF IsBest
  <1> QED BY <1>7 DEF A, T

\* A text that was typed is found, and only such a text.
LEMMA TextsFound ==
  ASSUME NEW es \in Seq(Entry), NEW text
  PROVE  /\ text \in {Text(Gram(Runs(es), g)) : g \in Grams(Runs(es))}
              <=> Found(Runs(es), text) # {}
         /\ text \in {Typed(es, ph) : ph \in Phrases(es)} <=> Uses(es, text) # {}
         /\ Found(Runs(es), text) # {} <=> Uses(es, text) # {}
  <1>1. text \in {Text(Gram(Runs(es), g)) : g \in Grams(Runs(es))}
          <=> Found(Runs(es), text) # {}
    BY DEF Found
  <1>2. text \in {Typed(es, ph) : ph \in Phrases(es)} <=> Uses(es, text) # {}
    BY DEF Uses
  <1>3. Found(Runs(es), text) # {} <=> Uses(es, text) # {}
    <2> DEFINE F == Found(Runs(es), text)
               U == Uses(es, text)
    <2>1. IsFiniteSet(F) /\ IsFiniteSet(U) /\ Cardinality(F) = Cardinality(U)
      BY FoundAsTyped
    <2> HIDE DEF F, U
    <2>2. (Cardinality(F) = 0 <=> F = {}) /\ (Cardinality(U) = 0 <=> U = {})
      BY <2>1, FS_EmptySet
    <2> QED BY <2>1, <2>2 DEF F, U
  <1> QED BY <1>1, <1>2, <1>3

\* What is said of a word.
IsWord(es, w) ==
  /\ w = [text |-> w.text, frequency |-> w.frequency, code |-> w.code]
  /\ w.frequency = Cardinality(Uses(es, w.text)) /\ w.frequency \in Nat
  /\ w.frequency >= MinFrequency /\ LooksLikeRealCandidate(w.text)
  /\ \E G \in Found(Runs(es), w.text) : w.code = Code(Gram(Runs(es), G))

\* Each word Discover finds is one of the scan, and each likely text is found.
LEMMA DiscoveredWords ==
  ASSUME NEW es \in Seq(Entry)
  PROVE  /\ \A w \in Discovered(es) : IsWord(es, w)
         /\ \A text : Cardinality(Uses(es, text)) >= MinFrequency /\ LooksLikeRealCandidate(text)
              => \E w \in Discovered(es) : w.text = text
  <1> DEFINE A == Runs(es)
             Likely == LikelyTexts(A)
  <1>1. \A text : text \in Likely <=>
          /\ Found(A, text) # {} /\ Cardinality(Uses(es, text)) >= MinFrequency
          /\ LooksLikeRealCandidate(text)
    <2> SUFFICES ASSUME NEW text
                 PROVE  text \in Likely <=>
                          /\ Found(A, text) # {} /\ Cardinality(Uses(es, text)) >= MinFrequency
                          /\ LooksLikeRealCandidate(text)
      OBVIOUS
    <2>1. text \in {Text(Gram(A, g)) : g \in Grams(A)} <=> Found(A, text) # {}
      BY TextsFound
    <2>2. Cardinality(Found(A, text)) = Cardinality(Uses(es, text))
      BY FoundAsTyped
    <2> HIDE DEF A
    <2> QED BY <2>1, <2>2, Zenon DEF LikelyTexts
  <1>2. \A text : Cardinality(Uses(es, text)) \in Nat
    BY FoundAsTyped, FS_CardinalityType, Zenon
  <1>3. \A text : Cardinality(Uses(es, text)) >= MinFrequency => Found(A, text) # {}
    <2> SUFFICES ASSUME NEW text, Cardinality(Uses(es, text)) >= MinFrequency, Found(A, text) = {}
                 PROVE  FALSE
      OBVIOUS
    <2>1. Uses(es, text) = {}
      BY TextsFound
    <2>2. Cardinality(Uses(es, text)) = 0
      BY <2>1, FS_EmptySet
    <2> QED BY <2>2, WindowAssumption
  <1>4. \A text : /\ WordOf(A, text).text = text
                  /\ WordOf(A, text).frequency = Cardinality(Found(A, text))
                  /\ WordOf(A, text).code = Code(Gram(A, Best(A, text)))
                  /\ WordOf(A, text) = [text |-> WordOf(A, text).text,
                                        frequency |-> WordOf(A, text).frequency,
                                        code |-> WordOf(A, text).code]
    BY DEF WordOf
  <1>5. ASSUME NEW text \in Likely PROVE IsWord(es, WordOf(A, text))
    <2> DEFINE w == WordOf(A, text)
    <2>1. /\ w.text = text /\ w.frequency = Cardinality(Found(A, text))
          /\ w.code = Code(Gram(A, Best(A, text)))
          /\ w = [text |-> w.text, frequency |-> w.frequency, code |-> w.code]
      BY <1>4
    <2>2. /\ Found(A, text) # {} /\ Cardinality(Uses(es, text)) >= MinFrequency
          /\ LooksLikeRealCandidate(text)
      BY <1>1, <1>5, Zenon
    <2>3. Cardinality(Found(A, text)) = Cardinality(Uses(es, text))
      BY FoundAsTyped
    <2>4. Best(A, text) \in Found(A, text)
      BY <2>2, BestIsFound
    <2> HIDE DEF w, Likely, A
    <2>5. w.frequency = Cardinality(Uses(es, text)) /\ w.frequency \in Nat
      BY <1>2, <2>1, <2>3
    <2>6. \E G \in Found(A, text) : w.code = Code(Gram(A, G))
      BY <2>1, <2>4, Zenon
    <2> QED BY <2>1, <2>2, <2>5, <2>6 DEF IsWord, w, A
  <1>6. Discovered(es) = {WordOf(A, text) : text \in Likely}
    BY DiscoveredIs
  <1> HIDE DEF A, Likely
  <1> QED BY <1>1, <1>3, <1>4, <1>5, <1>6, Zenon

\* The text of a phrase.
LEMMA TypedText ==
  ASSUME NEW es \in Seq(Entry), NEW ph \in Phrases(es)
  PROVE  /\ Typed(es, ph) \in Seq(Chars) /\ Len(Typed(es, ph)) = Len(ph)
         /\ DOMAIN Typed(es, ph) = 1..Len(ph)
         /\ \A k \in 1..Len(ph) : Typed(es, ph)[k] = Char(es, ph[k])
         /\ Typed(es, ph) \in [1..2 -> Chars] \cup [1..3 -> Chars]
  <1> DEFINE m == Len(ph)
             t == Typed(es, ph)
  <1>1. /\ m = 2 \/ m = 3
        /\ DOMAIN ph = 1..m
        /\ ph[1] \in Places(es) /\ ph[2] \in Places(es) /\ (m = 3 => ph[3] \in Places(es))
    BY PhraseParts
  <1>2. t = [k \in 1..m |-> Char(es, ph[k])]
    BY <1>1 DEF Typed, Char
  <1> HIDE DEF m, t
  <1>3. \A k \in 1..m : Char(es, ph[k]) \in Chars
    <2> SUFFICES ASSUME NEW k \in 1..m PROVE Char(es, ph[k]) \in Chars
      OBVIOUS
    <2>1. k = 1 \/ k = 2 \/ (k = 3 /\ m = 3)
      BY <1>1
    <2>2. ph[k] \in Places(es)
      BY <1>1, <2>1
    <2> QED BY <2>2, PlaceParts
  <1>4. m \in Nat /\ t \in [1..m -> Chars]
    BY <1>1, <1>2, <1>3
  <1>5. t \in Seq(Chars) /\ Len(t) = m
    BY <1>4
  <1>6. t \in [1..2 -> Chars] \cup [1..3 -> Chars]
    BY <1>1, <1>4
  <1> QED BY <1>2, <1>5, <1>6 DEF m, t

\* Row by row from i on, the characters of text were typed without a pause.
RowByRow(es, text, i) ==
  /\ \A k \in DOMAIN text : es[i + k - 1].text = <<text[k]>>
  /\ \A k \in 2..Len(text) : ~Apart(es[i + k - 2].ts, es[i + k - 1].ts)

\* The codes of the rows from i on, as many as text has characters.
CodesFrom(es, text, i) == FlattenSeq([k \in DOMAIN text |-> es[i + k - 1].code])

\* A code of what was typed is the code of single characters.
LEMMA CodeOfRows ==
  ASSUME NEW es \in Seq(Entry), NEW text, NEW G \in Found(Runs(es), text),
         Code(Gram(Runs(es), G)) # <<>>
  PROVE  \E i \in 1..(Len(es) - Len(text) + 1) :
           RowByRow(es, text, i) /\ Code(Gram(Runs(es), G)) = CodesFrom(es, text, i)
  <1> DEFINE A == Runs(es)
             gram == Gram(A, G)
  <1>1. PICK g : IsPlacing(es, A, g)
    BY PlacingExists
  <1>2. G \in Grams(A) /\ Text(gram) = text
    BY DEF Found
  <1>3. PICK ph \in Phrases(es) : Placing(g, ph) = G
    BY <1>1, <1>2, GramIsPhrase
  <1> DEFINE m == Len(ph)
             i == ph[1][1]
  <1>4. /\ Text(gram) = Typed(es, ph) /\ DOMAIN gram = 1..m
        /\ \A k \in 1..m : gram[k] = TokenAt(es, ph[k])
    <2>1. /\ Text(Gram(A, Placing(g, ph))) = Typed(es, ph)
          /\ DOMAIN Gram(A, Placing(g, ph)) = 1..m
          /\ \A k \in 1..m : Gram(A, Placing(g, ph))[k] = TokenAt(es, ph[k])
      BY <1>1, PhraseIsGram
    <2> QED BY <1>3, <2>1
  <1>5. /\ text \in Seq(Chars) /\ Len(text) = m /\ DOMAIN text = 1..m
        /\ \A k \in 1..m : text[k] = Char(es, ph[k])
    BY <1>2, <1>4, TypedText
  <1>6. /\ m = 2 \/ m = 3
        /\ ph[1] \in Places(es) /\ ph[2] \in Places(es) /\ Follows(es, ph[1], ph[2])
        /\ m = 3 => ph[3] \in Places(es) /\ Follows(es, ph[2], ph[3])
    BY PhraseParts
  <1> HIDE DEF A, gram, m
  <1>7. /\ \A k \in 1..m : gram[k].code # <<>>
        /\ Code(gram) = FlattenSeq([k \in 1..m |-> gram[k].code])
    <2>1. Code(gram) # <<>>
      BY DEF gram, A
    <2> QED BY <1>4, <2>1 DEF Code
  <1>8. ASSUME NEW p \in Places(es), TokenAt(es, p).code # <<>>
        PROVE  /\ p[1] \in 1..Len(es) /\ p[2] = 1 /\ Size(es, p[1]) = 1
               /\ TokenAt(es, p).code = es[p[1]].code
               /\ es[p[1]].text = <<Char(es, p)>>
    <2> DEFINE j == p[1]
               x == es[j].text
    <2>1. j \in 1..Len(es) /\ p[2] \in 1..Size(es, j)
      BY PlaceParts
    <2>2. TokenAt(es, p).code = IF Size(es, j) = 1 THEN es[j].code ELSE <<>>
      BY <2>1, TokensParts DEF TokenAt
    <2>3. Size(es, j) = 1 /\ p[2] = 1
      BY <1>8, <2>1, <2>2
    <2>4. x \in Seq(Chars) /\ Len(x) = 1
      BY <2>1, <2>3, EntryTyped DEF Size
    <2>5. Char(es, p) = x[1]
      BY <2>3 DEF Char
    <2> HIDE DEF x
    <2>6. x = <<x[1]>>
      BY <2>4
    <2> QED BY <2>1, <2>2, <2>3, <2>5, <2>6 DEF x
  <1>9. ASSUME NEW p \in Places(es), NEW q \in Places(es), Follows(es, p, q),
               p[2] = 1, q[2] = 1
        PROVE  q[1] = p[1] + 1 /\ ~Apart(es[p[1]].ts, es[q[1]].ts)
    BY <1>9, FollowsParts
  <1>10. \A k \in 1..m : /\ ph[k] \in Places(es) /\ ph[k][2] = 1 /\ ph[k][1] \in 1..Len(es)
                         /\ gram[k].code = es[ph[k][1]].code
                         /\ es[ph[k][1]].text = <<text[k]>>
    <2> SUFFICES ASSUME NEW k \in 1..m
                 PROVE  /\ ph[k] \in Places(es) /\ ph[k][2] = 1 /\ ph[k][1] \in 1..Len(es)
                        /\ gram[k].code = es[ph[k][1]].code
                        /\ es[ph[k][1]].text = <<text[k]>>
      OBVIOUS
    <2>1. k = 1 \/ k = 2 \/ (k = 3 /\ m = 3)
      BY <1>6
    <2>2. ph[k] \in Places(es)
      BY <1>6, <2>1
    <2>3. TokenAt(es, ph[k]).code # <<>> /\ gram[k] = TokenAt(es, ph[k])
      BY <1>4, <1>7
    <2> QED BY <1>5, <1>8, <2>2, <2>3
  <1>11. /\ i \in 1..Len(es) /\ ph[2][1] = i + 1 /\ (m = 3 => ph[3][1] = (i + 1) + 1)
         /\ ~Apart(es[i].ts, es[i + 1].ts)
         /\ m = 3 => ~Apart(es[i + 1].ts, es[(i + 1) + 1].ts)
    <2>1. 1 \in 1..m /\ 2 \in 1..m /\ (m = 3 => 3 \in 1..m)
      BY <1>6
    <2>2. ph[2][1] = i + 1 /\ ~Apart(es[i].ts, es[ph[2][1]].ts)
      BY <1>6, <1>9, <1>10, <2>1
    <2>3. m = 3 => ph[3][1] = ph[2][1] + 1 /\ ~Apart(es[ph[2][1]].ts, es[ph[3][1]].ts)
      BY <1>6, <1>9, <1>10, <2>1
    <2> QED BY <1>10, <2>1, <2>2, <2>3
  <1> HIDE DEF i
  <1>12. \A k \in 1..m : ph[k][1] = i + k - 1
    <2> SUFFICES ASSUME NEW k \in 1..m PROVE ph[k][1] = i + k - 1
      OBVIOUS
    <2>1. k = 1 \/ k = 2 \/ (k = 3 /\ m = 3)
      BY <1>6
    <2>2. ph[1][1] = i /\ i + 1 - 1 = i /\ i + 2 - 1 = i + 1 /\ i + 3 - 1 = (i + 1) + 1
      BY <1>11 DEF i
    <2> QED BY <1>11, <2>1, <2>2
  <1>13. i \in 1..(Len(es) - m + 1)
    <2>1. m \in 1..m /\ m \in Nat
      BY <1>6
    <2>2. i + m - 1 \in 1..Len(es)
      BY <1>10, <1>12, <2>1
    <2>3. Len(es) \in Nat
      OBVIOUS
    <2> QED BY <1>11, <2>1, <2>2, <2>3
  <1>14. \A k \in 1..m : es[i + k - 1].text = <<text[k]>> /\ es[i + k - 1].code = gram[k].code
    BY <1>10, <1>12
  <1>15. \A k \in 2..m : ~Apart(es[i + k - 2].ts, es[i + k - 1].ts)
    <2> SUFFICES ASSUME NEW k \in 2..m PROVE ~Apart(es[i + k - 2].ts, es[i + k - 1].ts)
      OBVIOUS
    <2>1. k = 2 \/ (k = 3 /\ m = 3)
      BY <1>6
    <2>2. /\ i + 2 - 2 = i /\ i + 2 - 1 = i + 1
          /\ i + 3 - 2 = i + 1 /\ i + 3 - 1 = (i + 1) + 1
      BY <1>11
    <2> QED BY <1>11, <2>1, <2>2
  <1>16. Code(gram) = CodesFrom(es, text, i)
    <2>1. [k \in 1..m |-> gram[k].code] = [k \in DOMAIN text |-> es[i + k - 1].code]
      BY <1>5, <1>14
    <2> QED BY <1>7, <2>1, Zenon DEF CodesFrom
  <1>17. RowByRow(es, text, i)
    BY <1>5, <1>14, <1>15 DEF RowByRow
  <1> QED BY <1>5, <1>13, <1>16, <1>17 DEF gram, A

-----------------------------------------------------------------------------
(***************************************************************************)
(* WubiCodec.                                                              *)
(***************************************************************************)

\* The rows of a character in the Wubi dictionary.
Rows(c) == {k \in DOMAIN wubi : wubi[k].text = <<c>> /\ wubi[k].code # <<>>}

\* The one whose code stays.
BestRow(c) ==
  CHOOSE k \in Rows(c) : \A j \in Rows(c) \ {k} : Stays(wubi[k].code, wubi[j].code, k < j)

\* The characters that have one.
CodedChars == IF wubi = Unreadable THEN {} ELSE {c \in Chars : Rows(c) # {}}

\* FullCodes in these terms.
LEMMA FullCodesIs ==
  FullCodes = [c \in CodedChars |-> wubi[BestRow(c)].code]
  BY DEF FullCodes, CodedChars, BestRow, Rows

\* A full code is some keys.
LEMMA FullCodeTyped ==
  ASSUME wubi \in WubiFiles \cup {Unreadable}, NEW c \in DOMAIN FullCodes
  PROVE  FullCodes[c] \in Seq(Keys) /\ FullCodes[c] # <<>>
  <1> DEFINE T == Rows(c)
             len(k) == Len(wubi[k].code)
             better(k, j) == Stays(wubi[k].code, wubi[j].code, k < j)
             R == {x \in T \X T : better(x[1], x[2])}
  <1>1. c \in CodedChars /\ FullCodes[c] = wubi[BestRow(c)].code
    <2>1. DOMAIN FullCodes = CodedChars
      BY FullCodesIs
    <2> QED BY <2>1, FullCodesIs
  <1>2. wubi \in Seq(Row) /\ T # {}
    BY <1>1, FileAssumption DEF CodedChars
  <1>3. \A k \in T : k \in 1..Len(wubi) /\ wubi[k].code \in Seq(Keys) /\ wubi[k].code # <<>>
    <2>1. DOMAIN wubi = 1..Len(wubi) /\ \A k \in 1..Len(wubi) : wubi[k] \in Row
      BY <1>2
    <2>2. \A x \in Row : x.code \in Seq(Keys)
      BY DEF Row
    <2> QED BY <2>1, <2>2 DEF Rows
  <1>4. \A k \in T : len(k) \in Nat /\ k \in Int
    <2> SUFFICES ASSUME NEW k \in T PROVE len(k) \in Nat /\ k \in Int
      OBVIOUS
    <2>1. wubi[k].code \in Seq(Keys) /\ k \in 1..Len(wubi)
      BY <1>3
    <2> QED BY <2>1
  <1>5. IsFiniteSet(T)
    <2>1. Len(wubi) \in Nat
      BY <1>2
    <2>2. IsFiniteSet(1..Len(wubi))
      BY <2>1, FS_Interval
    <2>3. T \in SUBSET (1..Len(wubi))
      BY <1>3
    <2> QED BY <2>2, <2>3, FS_Subset
  <1>6. \A k, j \in T : better(k, j) <=> len(k) > len(j) \/ (len(k) = len(j) /\ k < j)
    BY DEF Stays
  <1> HIDE DEF T, better, len
  <1>7. Orders2(R, T)
    <2>1. \A k, j \in T : <<k, j>> \in R <=> better(k, j)
      OBVIOUS
    <2>2. \A k, j \in T : k # j => better(k, j) \/ better(j, k)
      BY <1>4, <1>6
    <2>3. \A k, j, i \in T : better(k, j) /\ better(j, i) => better(k, i)
      BY <1>4, <1>6
    <2> HIDE DEF R
    <2> QED BY <2>1, <2>2, <2>3 DEF Orders2
  <1>8. PICK k \in T : \A j \in T \ {k} : <<k, j>> \in R
    <2> HIDE DEF R
    <2> QED BY <1>2, <1>5, <1>7, FirstExists
  <1>9. \A j \in T \ {k} : better(k, j)
    BY <1>8
  <1>10. BestRow(c) \in T
    <2>1. BestRow(c) = CHOOSE i \in T : \A j \in T \ {i} : better(i, j)
      BY Zenon DEF BestRow, T, better
    <2> QED BY <1>8, <1>9, <2>1, Zenon
  <1> QED BY <1>1, <1>3, <1>10

\* Key n of a code, if it has that many.
KeyOf(code, n) == IF n <= Len(code) THEN <<code[n]>> ELSE <<>>

\* The first keys of a code, one by one.
LEMMA TakeParts ==
  ASSUME NEW code \in Seq(Keys), code # <<>>
  PROVE  /\ Take(code, 1) = KeyOf(code, 1) /\ Take(code, 1) \in Seq(Keys) /\ Take(code, 1) # <<>>
         /\ Take(code, 2) = KeyOf(code, 1) \o KeyOf(code, 2)
         /\ Take(code, 2) \in Seq(Keys) /\ Take(code, 2) # <<>>
         /\ KeyOf(code, 1) \in Seq(Keys) /\ KeyOf(code, 2) \in Seq(Keys)
  <1> DEFINE n == Len(code)
  <1>1. n \in Nat /\ n >= 1 /\ code[1] \in Keys /\ (n >= 2 => code[2] \in Keys)
    OBVIOUS
  <1> HIDE DEF n
  <1>2. Smaller(1, n) = 1 /\ Smaller(2, n) = IF n = 1 THEN 1 ELSE 2
    BY <1>1 DEF Smaller
  <1>a. \A s \in Seq(Keys) : /\ Len(s) = 1 => s = <<s[1]>>
                             /\ Len(s) = 2 => s = <<s[1], s[2]>>
    OBVIOUS
  <1>3. SubSeq(code, 1, 1) = <<code[1]>>
    <2> DEFINE s == SubSeq(code, 1, 1)
    <2>1. s \in Seq(Keys) /\ Len(s) = 1 /\ s[1] = code[1]
      BY <1>1 DEF n
    <2> HIDE DEF s
    <2> QED BY <1>a, <2>1 DEF s
  <1>4. n >= 2 => SubSeq(code, 1, 2) = <<code[1], code[2]>>
    <2> SUFFICES ASSUME n >= 2 PROVE SubSeq(code, 1, 2) = <<code[1], code[2]>>
      OBVIOUS
    <2> DEFINE s == SubSeq(code, 1, 2)
    <2>1. s \in Seq(Keys) /\ Len(s) = 2 /\ s[1] = code[1] /\ s[2] = code[2]
      BY <1>1 DEF n
    <2> HIDE DEF s
    <2> QED BY <1>a, <2>1 DEF s
  <1>5. /\ n >= 2 => <<code[1]>> \o <<code[2]>> = <<code[1], code[2]>>
        /\ <<code[1]>> \o <<>> = <<code[1]>>
    <2>1. ASSUME n >= 2 PROVE <<code[1]>> \o <<code[2]>> = <<code[1], code[2]>>
      <3> DEFINE a == code[1]
                 b == code[2]
                 s == <<a>> \o <<b>>
      <3>1. a \in Keys /\ b \in Keys
        BY <1>1, <2>1
      <3> HIDE DEF a, b
      <3>2. s \in Seq(Keys) /\ Len(s) = 2 /\ s[1] = a /\ s[2] = b
        BY <3>1
      <3> HIDE DEF s
      <3>3. s = <<a, b>>
        BY <1>a, <3>2
      <3> QED BY <3>3 DEF s, a, b
    <2>2. <<code[1]>> \in Seq(Keys)
      BY <1>1
    <2> QED BY <2>1, <2>2, ConcatEmptySeq
  <1>6. KeyOf(code, 1) = <<code[1]>> /\ KeyOf(code, 2) = IF n = 1 THEN <<>> ELSE <<code[2]>>
    BY <1>1 DEF KeyOf, n
  <1>7. Take(code, 1) = <<code[1]>>
        /\ Take(code, 2) = IF n = 1 THEN <<code[1]>> ELSE <<code[1], code[2]>>
    <2>1. Take(code, 1) = SubSeq(code, 1, Smaller(1, n)) /\ Take(code, 2) = SubSeq(code, 1, Smaller(2, n))
      BY Zenon DEF Take, n
    <2>2. CASE n = 1
      <3>1. Smaller(1, n) = 1 /\ Smaller(2, n) = 1
        BY <1>2, <2>2
      <3> QED BY <1>3, <2>1, <2>2, <3>1
    <2>3. CASE n # 1
      <3>1. Smaller(1, n) = 1 /\ Smaller(2, n) = 2 /\ n >= 2
        BY <1>1, <1>2, <2>3
      <3> QED BY <1>3, <1>4, <2>1, <2>3, <3>1
    <2> QED BY <2>2, <2>3
  <1>8. CASE n = 1
    <2>1. <<code[1]>> \in Seq(Keys) /\ <<code[1]>> # <<>> /\ <<>> \in Seq(Keys)
      BY <1>1
    <2> QED BY <1>5, <1>6, <1>7, <1>8, <2>1
  <1>9. CASE n # 1
    <2>1. /\ <<code[1]>> \in Seq(Keys) /\ <<code[1]>> # <<>> /\ <<code[2]>> \in Seq(Keys)
          /\ <<code[1], code[2]>> \in Seq(Keys) /\ <<code[1], code[2]>> # <<>>
      BY <1>1, <1>9
    <2>2. /\ KeyOf(code, 1) = <<code[1]>> /\ KeyOf(code, 2) = <<code[2]>>
          /\ Take(code, 1) = <<code[1]>> /\ Take(code, 2) = <<code[1], code[2]>>
      BY <1>6, <1>7, <1>9
    <2>3. <<code[1]>> \o <<code[2]>> = <<code[1], code[2]>>
      BY <1>1, <1>5, <1>9
    <2> QED BY <2>1, <2>2, <2>3, Zenon
  <1> QED BY <1>8, <1>9

\* The code of a word of known characters, key by key.
Canonical(text) ==
  IF Len(text) = 2
    THEN Key(text[1], 1) \o Key(text[1], 2) \o Key(text[2], 1) \o Key(text[2], 2)
    ELSE Key(text[1], 1) \o Key(text[2], 1) \o Key(text[3], 1) \o Key(text[3], 2)

\* To append one by one is to append all at once.
LEMMA JoinedKeys ==
  ASSUME NEW a \in Seq(Keys), NEW b \in Seq(Keys), NEW c \in Seq(Keys)
  PROVE  (a \o b) \o c = a \o (b \o c)
  BY ConcatAssociative

\* A word of known characters gets its code, and no other word gets one.
LEMMA PhraseEncoded ==
  ASSUME wubi \in WubiFiles \cup {Unreadable},
         NEW text \in Seq(Chars), Len(text) = 2 \/ Len(text) = 3
  PROVE  /\ Known(text) => /\ EncodePhrase(text) = Canonical(text)
                           /\ EncodePhrase(text) # <<>> /\ EncodePhrase(text) \in Seq(Keys)
         /\ ~Known(text) => EncodePhrase(text) = <<>>
  <1>1. ~Known(text) => EncodePhrase(text) = <<>>
    BY DEF EncodePhrase
  <1>2. ASSUME Known(text)
        PROVE  /\ EncodePhrase(text) = Canonical(text)
               /\ EncodePhrase(text) # <<>> /\ EncodePhrase(text) \in Seq(Keys)
    <2> DEFINE c(k) == FullCodes[text[k]]
    <2>1. \A k \in 1..Len(text) : c(k) \in Seq(Keys) /\ c(k) # <<>>
      <3> SUFFICES ASSUME NEW k \in 1..Len(text) PROVE c(k) \in Seq(Keys) /\ c(k) # <<>>
        OBVIOUS
      <3>1. text[k] \in ToSet(text)
        BY DEF ToSet
      <3>2. text[k] \in DOMAIN FullCodes
        BY <1>2, <3>1 DEF Known
      <3> QED BY <3>2, FullCodeTyped
    <2>2. \A k : Key(text[k], 1) = KeyOf(c(k), 1) /\ Key(text[k], 2) = KeyOf(c(k), 2)
      BY DEF Key, KeyOf
    <2>3. 1 \in 1..Len(text) /\ 2 \in 1..Len(text) /\ (Len(text) = 3 => 3 \in 1..Len(text))
      <3> DEFINE n == Len(text)
      <3>1. n = 2 \/ n = 3
        OBVIOUS
      <3> HIDE DEF n
      <3>2. 1 \in 1..n /\ 2 \in 1..n /\ (n = 3 => 3 \in 1..n)
        BY <3>1
      <3> QED BY <3>2 DEF n
    <2> HIDE DEF c
    <2>4. ASSUME NEW a \in Seq(Keys), NEW b \in Seq(Keys), a # <<>>
          PROVE  a \o b \in Seq(Keys) /\ a \o b # <<>>
      <3>1. a \o b \in Seq(Keys) /\ Len(a \o b) = Len(a) + Len(b) /\ Len(b) \in Nat
            /\ Len(a) \in Nat /\ Len(a) # 0
        BY <2>4
      <3>2. Len(a \o b) # 0
        BY <3>1
      <3> QED BY <3>1, <3>2
    <2>5. CASE Len(text) = 2
      <3> DEFINE x1 == KeyOf(c(1), 1)
                 x2 == KeyOf(c(1), 2)
                 y1 == KeyOf(c(2), 1)
                 y2 == KeyOf(c(2), 2)
                 x == Take(c(1), 2)
                 y == Take(c(2), 2)
      <3>1. /\ x = x1 \o x2 /\ y = y1 \o y2 /\ x \in Seq(Keys) /\ y \in Seq(Keys) /\ x # <<>>
            /\ x1 \in Seq(Keys) /\ x2 \in Seq(Keys) /\ y1 \in Seq(Keys) /\ y2 \in Seq(Keys)
        BY <2>1, <2>3, TakeParts
      <3>2. EncodePhrase(text) = x \o y
        BY <1>2, <2>5 DEF EncodePhrase, c
      <3>3. Canonical(text) = ((x1 \o x2) \o y1) \o y2
        BY <2>2, <2>5 DEF Canonical
      <3> HIDE DEF x1, x2, y1, y2, x, y
      <3>4. ((x1 \o x2) \o y1) \o y2 = x \o y
        <4>1. x1 \o x2 \in Seq(Keys)
          BY <3>1
        <4>2. ((x1 \o x2) \o y1) \o y2 = (x1 \o x2) \o (y1 \o y2)
          BY <3>1, <4>1, JoinedKeys
        <4> QED BY <3>1, <4>2
      <3> QED BY <2>4, <3>1, <3>2, <3>3, <3>4
    <2>6. CASE Len(text) = 3
      <3> DEFINE x == Take(c(1), 1)
                 y == Take(c(2), 1)
                 z1 == KeyOf(c(3), 1)
                 z2 == KeyOf(c(3), 2)
                 z == Take(c(3), 2)
      <3>1. /\ x = KeyOf(c(1), 1) /\ y = KeyOf(c(2), 1) /\ z = z1 \o z2 /\ x # <<>>
            /\ x \in Seq(Keys) /\ y \in Seq(Keys) /\ z \in Seq(Keys)
            /\ z1 \in Seq(Keys) /\ z2 \in Seq(Keys)
        BY <2>1, <2>3, <2>6, TakeParts
      <3>2. EncodePhrase(text) = (x \o y) \o z
        BY <1>2, <2>6 DEF EncodePhrase, c
      <3> HIDE DEF x, y
      <3>3. Canonical(text) = ((x \o y) \o z1) \o z2
        <4>1. /\ Key(text[1], 1) = x /\ Key(text[2], 1) = y
              /\ Key(text[3], 1) = z1 /\ Key(text[3], 2) = z2
          BY <2>2, <3>1
        <4>2. Len(text) # 2
          BY <2>6
        <4> QED BY <4>1, <4>2 DEF Canonical
      <3> HIDE DEF z1, z2, z
      <3>4. x \o y \in Seq(Keys) /\ x \o y # <<>>
        BY <2>4, <3>1
      <3>5. ((x \o y) \o z1) \o z2 = (x \o y) \o z
        <4> DEFINE xy == x \o y
        <4>1. xy \in Seq(Keys)
          BY <3>4
        <4> HIDE DEF xy
        <4>2. (xy \o z1) \o z2 = xy \o (z1 \o z2)
          <5>1. xy \in Seq(Keys) /\ z1 \in Seq(Keys) /\ z2 \in Seq(Keys)
            BY <3>1, <4>1
          <5> QED BY <5>1, JoinedKeys
        <4> QED BY <3>1, <4>2 DEF xy
      <3> QED BY <2>4, <3>1, <3>2, <3>3, <3>4, <3>5
    <2> QED BY <2>5, <2>6
  <1> QED BY <1>1, <1>2

-----------------------------------------------------------------------------
(***************************************************************************)
(* What a round knows, at every step.                                      *)
(***************************************************************************)

\* The type of a word.
WordSet == [text : [1..2 -> Chars] \cup [1..3 -> Chars], frequency : Nat, code : Seq(Keys)]

\* A word of a scan is of that type.
LEMMA WordTyped ==
  ASSUME NEW es \in Seq(Entry), NEW w, IsWord(es, w)
  PROVE  w \in WordSet
  <1> DEFINE t == w.text
  <1>1. PICK G \in Found(Runs(es), t) : w.code = Code(Gram(Runs(es), G))
    BY Zenon DEF IsWord
  <1>2. PICK ph \in Phrases(es) : Typed(es, ph) = t
    <2>1. Uses(es, t) # {}
      BY <1>1, TextsFound
    <2> QED BY <2>1 DEF Uses
  <1>3. t \in [1..2 -> Chars] \cup [1..3 -> Chars]
    BY <1>2, TypedText
  <1>4. w.code \in Seq(Keys)
    <2>1. Runs(es) \in Seq(Seq(Token)) /\ G \in Grams(Runs(es))
      BY PlacingExists DEF IsPlacing, Found
    <2> QED BY <1>1, <2>1, CodeTyped
  <1>5. w = [text |-> w.text, frequency |-> w.frequency, code |-> w.code] /\ w.frequency \in Nat
    BY DEF IsWord
  <1> QED BY <1>3, <1>4, <1>5 DEF WordSet

\* A function on 1..n is a text of n characters.
LEMMA TextOfSize ==
  ASSUME NEW n \in Nat, NEW t \in [1..n -> Chars]
  PROVE  t \in Seq(Chars) /\ Len(t) = n
  OBVIOUS

\* The parts of a word.
LEMMA WordText ==
  ASSUME NEW w \in WordSet
  PROVE  /\ w.text \in Seq(Chars) /\ (Len(w.text) = 2 \/ Len(w.text) = 3)
         /\ w.frequency \in Nat /\ w.code \in Seq(Keys)
         /\ w = [text |-> w.text, frequency |-> w.frequency, code |-> w.code]
  <1> DEFINE t == w.text
  <1>1. /\ t \in [1..2 -> Chars] \cup [1..3 -> Chars] /\ w.frequency \in Nat /\ w.code \in Seq(Keys)
        /\ w = [text |-> w.text, frequency |-> w.frequency, code |-> w.code]
    BY DEF WordSet
  <1> HIDE DEF t
  <1>2. t \in Seq(Chars) /\ (Len(t) = 2 \/ Len(t) = 3)
    <2>1. CASE t \in [1..2 -> Chars]
      BY <2>1, TextOfSize
    <2>2. CASE t \in [1..3 -> Chars]
      BY <2>2, TextOfSize
    <2> QED BY <1>1, <2>1, <2>2
  <1> QED BY <1>1, <1>2 DEF t

\* Encoding changes the code of a word, and only if all its characters are
\* known.
LEMMA EncodedParts ==
  ASSUME wubi \in WubiFiles \cup {Unreadable}, NEW w \in WordSet
  PROVE  /\ Encoded(w) \in WordSet
         /\ Encoded(w).text = w.text /\ Encoded(w).frequency = w.frequency
         /\ Known(w.text) => Encoded(w).code = Canonical(w.text)
         /\ ~Known(w.text) => Encoded(w) = w
  <1> DEFINE t == w.text
             c == EncodePhrase(t)
             f == w.frequency
  <1>1. /\ t \in Seq(Chars) /\ (Len(t) = 2 \/ Len(t) = 3)
        /\ w = [text |-> t, frequency |-> f, code |-> w.code]
        /\ t \in [1..2 -> Chars] \cup [1..3 -> Chars] /\ f \in Nat
    BY WordText DEF WordSet
  <1>2. /\ Known(t) => c = Canonical(t) /\ c # <<>> /\ c \in Seq(Keys)
        /\ ~Known(t) => c = <<>>
    BY <1>1, PhraseEncoded
  <1>3. Encoded(w) = IF c = <<>> THEN w ELSE [w EXCEPT !.code = c]
    BY DEF Encoded
  <1> HIDE DEF t, c, f
  <1>4. [w EXCEPT !.code = c] = [text |-> t, frequency |-> f, code |-> c]
    BY <1>1
  <1>5. CASE Known(t)
    <2>1. Encoded(w) = [text |-> t, frequency |-> f, code |-> c]
      BY <1>2, <1>3, <1>4, <1>5
    <2>2. /\ Encoded(w).text = t /\ Encoded(w).frequency = f /\ Encoded(w).code = c
          /\ Encoded(w) \in WordSet
      BY <1>1, <1>2, <1>5, <2>1 DEF WordSet
    <2> QED BY <1>2, <1>5, <2>2, Zenon DEF t, f
  <1>6. CASE ~Known(t)
    <2>1. Encoded(w) = w
      BY <1>2, <1>3, <1>6
    <2> QED BY <1>6, <2>1, Zenon DEF t, f
  <1> QED BY <1>5, <1>6

\* What was scanned when the table was made, and when the words were found.
Scanned(n) == Scans(SubSeq(history, 1, n))

\* The table of a round is that of a scan of the rows there were when it was
\* made.
TableExact ==
  pc # "idle" => \E es \in Scanned(counted) : table = Bigrams(es)

\* What the words of a scan are at this point of the round.
WordsOf(es) ==
  IF pc = "encode" THEN Discovered(es) ELSE {Encoded(w) : w \in Discovered(es)}

\* The words of a round are those of a scan of the rows there were when they
\* were found.
WordsExact ==
  pc \in {"encode", "write"} =>
    counted <= found /\ \E es \in Scanned(found) : words = WordsOf(es)

\* The inductive invariant.
IInv == TypeOK /\ TableExact /\ WordsExact

\* The rows there were.
LEMMA PrefixTyped ==
  ASSUME NEW h \in Seq(Entry), NEW n \in 0..Len(h)
  PROVE  /\ SubSeq(h, 1, n) \in Seq(Entry) /\ Len(SubSeq(h, 1, n)) = n
         /\ \A i \in 1..n : SubSeq(h, 1, n)[i] = h[i]
         /\ n = Len(h) => SubSeq(h, 1, n) = h
  OBVIOUS

\* A row that is stored leaves them as they are.
LEMMA PrefixOfMore ==
  ASSUME NEW h \in Seq(Entry), NEW e \in Entry, NEW n \in 0..Len(h)
  PROVE  SubSeq(Append(h, e), 1, n) = SubSeq(h, 1, n)
  <1> DEFINE D == 1..n
             a == SubSeq(Append(h, e), 1, n)
             b == SubSeq(h, 1, n)
  <1>1. Append(h, e) \in Seq(Entry) /\ Len(Append(h, e)) = Len(h) + 1
        /\ \A i \in 1..Len(h) : Append(h, e)[i] = h[i]
    OBVIOUS
  <1>2. n \in 0..Len(Append(h, e))
    BY <1>1
  <1>3. a \in Seq(Entry) /\ Len(a) = n /\ b \in Seq(Entry) /\ Len(b) = n
        /\ \A i \in 1..n : a[i] = b[i]
    <2>1. a \in Seq(Entry) /\ Len(a) = n /\ \A i \in 1..n : a[i] = Append(h, e)[i]
      <3> DEFINE g == Append(h, e)
      <3> HIDE DEF g
      <3>1. g \in Seq(Entry) /\ n \in 0..Len(g)
        BY <1>1, <1>2 DEF g
      <3> QED BY <3>1, PrefixTyped DEF g
    <2>2. b \in Seq(Entry) /\ Len(b) = n /\ \A i \in 1..n : b[i] = h[i]
      BY PrefixTyped
    <2>3. \A i \in 1..n : i \in 1..Len(h)
      OBVIOUS
    <2> HIDE DEF a, b
    <2> QED BY <1>1, <2>1, <2>2, <2>3
  <1> HIDE DEF a, b
  <1>4. a = b
    BY <1>3, SeqEqual
  <1> QED BY <1>4 DEF a, b

\* It holds at first,
LEMMA InitIInv == Init => IInv
  <1> SUFFICES ASSUME Init PROVE IInv
    OBVIOUS
  <1> USE DEF Init
  <1>1. TypeOK
    <2>1. NoCounts \in [Chars \X Chars -> Nat]
      BY DEF NoCounts
    <2>2. history \in Seq(Entry) /\ Len(history) = 0
      OBVIOUS
    <2> QED BY <2>1, <2>2 DEF TypeOK
  <1>2. TableExact
    BY DEF TableExact
  <1>3. WordsExact
    BY DEF WordsExact
  <1> QED BY <1>1, <1>2, <1>3 DEF IInv

\* A scan of the rows there were.
LEMMA ScannedTyped ==
  ASSUME history \in Seq(Entry), NEW n \in 0..Len(history), NEW es \in Scanned(n)
  PROVE  es \in Seq(Entry)
  BY PrefixTyped, ScansTyped DEF Scanned

\* The encoding depends on the dictionary alone.
LEMMA EncodedStays ==
  ASSUME UNCHANGED wubi
  PROVE  \A w : Encoded(w)' = Encoded(w)
  BY DEF Encoded, EncodePhrase, Known, FullCodes

\* So do the words of a scan.
LEMMA WordsOfStays ==
  ASSUME UNCHANGED <<wubi, pc>>
  PROVE  \A es : WordsOf(es)' = WordsOf(es)
  <1>1. \A w : Encoded(w)' = Encoded(w)
    BY EncodedStays
  <1> QED BY <1>1 DEF WordsOf

\* A commit leaves the invariant true: it is about the rows before it.
LEMMA InsertIInv ==
  ASSUME IInv, NEW c \in Commits, NEW d \in Moves, Insert(c, d)
  PROVE  IInv'
  <1> DEFINE e == [ts |-> clock + d, code |-> c.code, text |-> c.text]
  <1>1. /\ history' = Append(history, e) /\ clock' = clock + d
        /\ UNCHANGED <<wubi, pc, table, words, counted, found>>
    BY DEF Insert
  <1>2. /\ history \in Seq(Entry) /\ clock \in Int /\ wubi \in WubiFiles \cup {Unreadable}
        /\ pc \in {"idle", "discover", "encode", "write"}
        /\ table \in [Chars \X Chars -> Nat] /\ words \subseteq WordSet
        /\ counted \in 0..Len(history) /\ found \in 0..Len(history)
    BY DEF IInv, TypeOK, WordSet
  <1>3. e \in Entry /\ clock + d \in Int
    <2>1. c.code \in Seq(Keys) /\ c.text \in Texts
      BY CommitAssumption
    <2>2. clock + d \in Int
      BY <1>2, ClockAssumption
    <2> QED BY <2>1, <2>2 DEF Entry
  <1> HIDE DEF e
  <1>4. /\ history' \in Seq(Entry) /\ Len(history') = Len(history) + 1
        /\ counted \in 0..Len(history') /\ found \in 0..Len(history')
    BY <1>1, <1>2, <1>3
  <1>5. TypeOK'
    BY <1>1, <1>2, <1>3, <1>4 DEF TypeOK, WordSet
  <1>6. SubSeq(history', 1, counted) = SubSeq(history, 1, counted)
        /\ SubSeq(history', 1, found) = SubSeq(history, 1, found)
    BY <1>1, <1>2, <1>3, PrefixOfMore
  <1>7. TableExact'
    BY <1>1, <1>6 DEF IInv, TableExact, Scanned
  <1>8. WordsExact'
    <2>1. \A es : WordsOf(es)' = WordsOf(es)
      BY <1>1, WordsOfStays
    <2> QED BY <1>1, <1>6, <2>1 DEF IInv, WordsExact, Scanned
  <1> QED BY <1>5, <1>7, <1>8 DEF IInv

\* UpdateBigrams makes a table of the rows there are.
LEMMA UpdateBigramsIInv ==
  ASSUME IInv, UpdateBigrams
  PROVE  IInv'
  <1>1. /\ history \in Seq(Entry) /\ clock \in Int /\ wubi \in WubiFiles \cup {Unreadable}
        /\ words \subseteq WordSet /\ found \in 0..Len(history) /\ Len(history) \in Nat
    BY DEF IInv, TypeOK, WordSet
  <1>2. PICK es \in Scans(history) : table' = Bigrams(es)
    BY DEF UpdateBigrams
  <1>3. /\ counted' = Len(history) /\ pc' = "discover"
        /\ UNCHANGED <<history, clock, wubi, words, found>>
    BY DEF UpdateBigrams
  <1>4. table' \in [Chars \X Chars -> Nat]
    BY <1>1, <1>2, ScansTyped, BigramsCount
  <1>5. TypeOK'
    BY <1>1, <1>3, <1>4 DEF TypeOK, WordSet
  <1>6. SubSeq(history, 1, Len(history)) = history
    BY <1>1, PrefixTyped
  <1>7. TableExact'
    BY <1>2, <1>3, <1>6 DEF TableExact, Scanned
  <1>8. WordsExact'
    BY <1>3 DEF WordsExact
  <1> QED BY <1>5, <1>7, <1>8 DEF IInv

\* Discover finds the words of the rows there are.
LEMMA DiscoverIInv ==
  ASSUME IInv, Discover
  PROVE  IInv'
  <1>1. /\ history \in Seq(Entry) /\ clock \in Int /\ wubi \in WubiFiles \cup {Unreadable}
        /\ table \in [Chars \X Chars -> Nat]
        /\ counted \in 0..Len(history) /\ Len(history) \in Nat
    BY DEF IInv, TypeOK
  <1>2. PICK es \in Scans(history) : words' = Discovered(es)
    BY DEF Discover
  <1>3. /\ found' = Len(history) /\ pc = "discover" /\ pc' = "encode"
        /\ UNCHANGED <<history, clock, wubi, table, counted>>
    BY DEF Discover
  <1>4. words' \subseteq WordSet
    BY <1>1, <1>2, ScansTyped, DiscoveredWords, WordTyped
  <1>5. TypeOK'
    BY <1>1, <1>3, <1>4 DEF TypeOK, WordSet
  <1>6. SubSeq(history, 1, Len(history)) = history
    BY <1>1, PrefixTyped
  <1>7. TableExact'
    BY <1>3 DEF IInv, TableExact, Scanned
  <1>8. WordsExact'
    <2>1. counted' <= found'
      BY <1>1, <1>3
    <2>2. es \in Scanned(found)' /\ words' = WordsOf(es)'
      BY <1>2, <1>3, <1>6 DEF Scanned, WordsOf
    <2> QED BY <2>1, <2>2 DEF WordsExact
  <1> QED BY <1>5, <1>7, <1>8 DEF IInv

\* Encode encodes them.
LEMMA EncodeIInv ==
  ASSUME IInv, Encode
  PROVE  IInv'
  <1>1. TypeOK /\ words \subseteq WordSet /\ wubi \in WubiFiles \cup {Unreadable}
    BY DEF IInv, TypeOK, WordSet
  <1>2. /\ pc = "encode" /\ pc' = "write" /\ words' = {Encoded(w) : w \in words}
        /\ UNCHANGED <<history, clock, wubi, table, counted, found>>
    BY DEF Encode
  <1>3. words' \subseteq WordSet
    <2>1. \A w \in words : Encoded(w) \in WordSet
      BY <1>1, EncodedParts
    <2> QED BY <1>2, <2>1
  <1>4. TypeOK'
    BY <1>1, <1>2, <1>3 DEF TypeOK, WordSet
  <1>5. TableExact'
    BY <1>2 DEF IInv, TableExact, Scanned
  <1>6. WordsExact'
    <2>1. PICK es \in Scanned(found) : words = Discovered(es)
      BY <1>2 DEF IInv, WordsExact, WordsOf
    <2>2. words' = {Encoded(w) : w \in Discovered(es)}
      BY <1>2, <2>1
    <2>3. \A w : Encoded(w)' = Encoded(w)
      BY <1>2, EncodedStays
    <2>4. {Encoded(w)' : w \in Discovered(es)} = {Encoded(w) : w \in Discovered(es)}
      BY <2>3
    <2>5. WordsOf(es)' = {Encoded(w)' : w \in Discovered(es)}
      BY <1>2 DEF WordsOf
    <2>6. es \in Scanned(found)' /\ counted' <= found'
      BY <1>2, <2>1 DEF Scanned, IInv, WordsExact
    <2> QED BY <2>2, <2>4, <2>5, <2>6 DEF WordsExact
  <1> QED BY <1>4, <1>5, <1>6 DEF IInv

\* EndRound drops them.
LEMMA EndRoundIInv ==
  ASSUME IInv, EndRound
  PROVE  IInv'
  <1>1. NoCounts \in [Chars \X Chars -> Nat]
    BY DEF NoCounts
  <1>2. TypeOK'
    <2>1. history \in Seq(Entry) /\ Len(history) \in Nat
      BY DEF IInv, TypeOK
    <2> QED BY <1>1, <2>1 DEF EndRound, IInv, TypeOK
  <1>3. TableExact' /\ WordsExact'
    BY DEF EndRound, TableExact, WordsExact
  <1> QED BY <1>2, <1>3 DEF IInv

\* So every step leaves the invariant true.
LEMMA NextIInv ==
  ASSUME IInv, [Next]_vars
  PROVE  IInv'
  <1>1. CASE UNCHANGED vars
    <2>2. \A es : WordsOf(es)' = WordsOf(es)
      BY <1>1, WordsOfStays DEF vars
    <2>3. TypeOK' /\ TableExact'
      BY <1>1 DEF vars, IInv, TypeOK, TableExact, Scanned
    <2>4. WordsExact'
      BY <1>1, <2>2 DEF vars, IInv, WordsExact, Scanned
    <2> QED BY <2>3, <2>4 DEF IInv
  <1>2. CASE Next
    BY <1>2, InsertIInv, UpdateBigramsIInv, DiscoverIInv, EncodeIInv, EndRoundIInv DEF Next
  <1> QED BY <1>1, <1>2

-----------------------------------------------------------------------------
(***************************************************************************)
(* The counts.                                                             *)
(***************************************************************************)

\* The words of a scan and how often each was typed, as CountsExact has them.
CountedWords(es) ==
  {[text |-> t, frequency |-> Cardinality(Uses(es, t))] :
     t \in {u \in {Typed(es, ph) : ph \in Phrases(es)} :
              Cardinality(Uses(es, u)) >= MinFrequency /\ LooksLikeRealCandidate(u)}}

\* The words without their codes.
WordCounts(ws) == {[text |-> w.text, frequency |-> w.frequency] : w \in ws}

\* Discover counts what was typed.
LEMMA CountsOfDiscovered ==
  ASSUME NEW es \in Seq(Entry)
  PROVE  WordCounts(Discovered(es)) = CountedWords(es)
  <1> DEFINE D == Discovered(es)
             C == CountedWords(es)
             n(t) == Cardinality(Uses(es, t))
             Likely(t) == n(t) >= MinFrequency /\ LooksLikeRealCandidate(t)
             Seen == {Typed(es, ph) : ph \in Phrases(es)}
  <1>1. \A t : Likely(t) => t \in Seen
    <2> SUFFICES ASSUME NEW t, Likely(t) PROVE t \in Seen
      OBVIOUS
    <2>1. Uses(es, t) # {}
      <3>1. Cardinality({}) = 0
        BY FS_EmptySet
      <3> QED BY <3>1, WindowAssumption
    <2> QED BY <2>1, TextsFound
  <1>2. C = {[text |-> t, frequency |-> n(t)] : t \in {u \in Seen : Likely(u)}}
    BY DEF CountedWords
  <1>3. \A w \in D : w.frequency = n(w.text) /\ Likely(w.text)
    BY DiscoveredWords DEF IsWord
  <1>4. \A t : Likely(t) => \E w \in D : w.text = t
    BY DiscoveredWords
  <1> HIDE DEF D, C, n, Likely, Seen
  <1>5. ASSUME NEW x \in WordCounts(D) PROVE x \in C
    <2>1. PICK w \in D : x = [text |-> w.text, frequency |-> w.frequency]
      BY DEF WordCounts
    <2> DEFINE t == w.text
    <2>2. x = [text |-> t, frequency |-> n(t)] /\ Likely(t) /\ t \in Seen
      BY <1>1, <1>3, <2>1
    <2> HIDE DEF t
    <2> QED BY <1>2, <2>2
  <1>6. ASSUME NEW x \in C PROVE x \in WordCounts(D)
    <2>1. PICK t \in Seen : Likely(t) /\ x = [text |-> t, frequency |-> n(t)]
      BY <1>2, <1>6
    <2>2. PICK w \in D : w.text = t
      BY <1>4, <2>1
    <2>3. x = [text |-> w.text, frequency |-> w.frequency]
      BY <1>3, <2>1, <2>2
    <2> QED BY <2>3 DEF WordCounts
  <1> QED BY <1>5, <1>6 DEF D, C

\* Encoding does not change it.
LEMMA CountsOfEncoded ==
  ASSUME wubi \in WubiFiles \cup {Unreadable}, NEW ws \in SUBSET WordSet
  PROVE  WordCounts({Encoded(w) : w \in ws}) = WordCounts(ws)
  <1> DEFINE es == {Encoded(w) : w \in ws}
             of(w) == [text |-> w.text, frequency |-> w.frequency]
  <1>1. \A w \in ws : of(Encoded(w)) = of(w)
    BY EncodedParts
  <1>2. WordCounts(es) = {of(v) : v \in es} /\ WordCounts(ws) = {of(w) : w \in ws}
    BY DEF WordCounts
  <1> HIDE DEF of
  <1>3. {of(v) : v \in es} = {of(Encoded(w)) : w \in ws}
    OBVIOUS
  <1>4. {of(Encoded(w)) : w \in ws} = {of(w) : w \in ws}
    BY <1>1
  <1> QED BY <1>2, <1>3, <1>4

\* Words are of their type.
LEMMA DiscoveredTyped ==
  ASSUME NEW es \in Seq(Entry)
  PROVE  Discovered(es) \in SUBSET WordSet
  BY DiscoveredWords, WordTyped

\* The invariant says that the counts are exact,
LEMMA CountsInv == IInv => CountsExact
  <1> SUFFICES ASSUME IInv, Current
               PROVE  \E es \in Scans(history) : WordCounts(words) = CountedWords(es)
    BY DEF CountsExact, WordCounts, CountedWords, Uses
  <1>1. /\ history \in Seq(Entry) /\ wubi \in WubiFiles \cup {Unreadable}
        /\ found = Len(history)
    BY DEF IInv, TypeOK, Current
  <1>2. PICK es \in Scanned(found) : words = WordsOf(es)
    BY DEF IInv, WordsExact, Current
  <1>3. es \in Scans(history)
    <2>1. SubSeq(history, 1, found) = history
      BY <1>1, PrefixTyped
    <2> QED BY <1>2, <2>1 DEF Scanned
  <1>4. es \in Seq(Entry)
    BY <1>1, <1>3, ScansTyped
  <1>5. WordCounts(words) = WordCounts(Discovered(es))
    BY <1>1, <1>2, <1>4, DiscoveredTyped, CountsOfEncoded DEF WordsOf
  <1> QED BY <1>3, <1>4, <1>5, CountsOfDiscovered

\* A code in the words of the round.
LEMMA WordsOfParts ==
  ASSUME wubi \in WubiFiles \cup {Unreadable}, NEW es \in Seq(Entry), NEW w \in WordsOf(es)
  PROVE  /\ w \in WordSet
         /\ w.frequency = Cardinality(Uses(es, w.text)) /\ w.frequency \in Nat
         /\ pc # "encode" /\ Known(w.text) => w.code = Canonical(w.text)
         /\ ~(pc # "encode" /\ Known(w.text)) =>
              \E G \in Found(Runs(es), w.text) : w.code = Code(Gram(Runs(es), G))
  <1>1. PICK v \in Discovered(es) : w = IF pc = "encode" THEN v ELSE Encoded(v)
    BY DEF WordsOf
  <1>2. v \in WordSet /\ IsWord(es, v)
    BY DiscoveredWords, DiscoveredTyped
  <1>3. /\ v.frequency = Cardinality(Uses(es, v.text)) /\ v.frequency \in Nat
        /\ \E G \in Found(Runs(es), v.text) : v.code = Code(Gram(Runs(es), G))
    BY <1>2 DEF IsWord
  <1>4. /\ Encoded(v) \in WordSet
        /\ Encoded(v).text = v.text /\ Encoded(v).frequency = v.frequency
        /\ Known(v.text) => Encoded(v).code = Canonical(v.text)
        /\ ~Known(v.text) => Encoded(v) = v
    BY <1>2, EncodedParts
  <1>5. CASE pc = "encode"
    BY <1>1, <1>2, <1>3, <1>5
  <1>6. CASE pc # "encode" /\ Known(v.text)
    BY <1>1, <1>3, <1>4, <1>6
  <1>7. CASE pc # "encode" /\ ~Known(v.text)
    BY <1>1, <1>2, <1>3, <1>4, <1>7
  <1> QED BY <1>5, <1>6, <1>7

\* that codes are canonical or as typed,
LEMMA CodesInv == IInv => CodesExplained
  <1> SUFFICES ASSUME IInv PROVE CodesExplained
    OBVIOUS
  <1>1. /\ history \in Seq(Entry) /\ wubi \in WubiFiles \cup {Unreadable}
        /\ found \in 0..Len(history)
    BY DEF IInv, TypeOK
  <1>2. CodesCanonical
    <2> SUFFICES ASSUME pc = "write", NEW w \in words, Known(w.text)
                 PROVE  w.code = Canonical(w.text)
      BY DEF CodesCanonical, Canonical
    <2>1. PICK es \in Scanned(found) : words = WordsOf(es)
      BY DEF IInv, WordsExact
    <2>2. es \in Seq(Entry)
      BY <1>1, <2>1, ScannedTyped
    <2> QED BY <1>1, <2>1, <2>2, WordsOfParts
  <1>3. CodesAsTyped
    <2> SUFFICES ASSUME Current, NEW w \in words, w.code # <<>>, pc = "write" => ~Known(w.text)
                 PROVE  \E es \in Scans(history) : \E i \in 1..(Len(es) - Len(w.text) + 1) :
                          RowByRow(es, w.text, i) /\ w.code = CodesFrom(es, w.text, i)
      BY DEF CodesAsTyped, RowByRow, CodesFrom
    <2>1. PICK es \in Scanned(found) : words = WordsOf(es)
      BY DEF IInv, WordsExact, Current
    <2>2. es \in Scans(history)
      BY <1>1, PrefixTyped DEF Scanned, Current
    <2>3. es \in Seq(Entry)
      BY <1>1, <2>2, ScansTyped
    <2>4. ~(pc # "encode" /\ Known(w.text))
      BY DEF Current
    <2>5. PICK G \in Found(Runs(es), w.text) : w.code = Code(Gram(Runs(es), G))
      BY <1>1, <2>1, <2>3, <2>4, WordsOfParts
    <2>6. PICK i \in 1..(Len(es) - Len(w.text) + 1) :
            RowByRow(es, w.text, i) /\ Code(Gram(Runs(es), G)) = CodesFrom(es, w.text, i)
      <3> DEFINE t == w.text
                 c == Code(Gram(Runs(es), G))
      <3>1. c # <<>> /\ G \in Found(Runs(es), t)
        BY <2>5
      <3> HIDE DEF t
      <3>2. \E i \in 1..(Len(es) - Len(t) + 1) : RowByRow(es, t, i) /\ c = CodesFrom(es, t, i)
        BY <2>3, <3>1, CodeOfRows
      <3> QED BY <3>2 DEF t
    <2> QED BY <2>2, <2>5, <2>6
  <1> QED BY <1>2, <1>3 DEF CodesExplained

-----------------------------------------------------------------------------
(***************************************************************************)
(* The bigrams and the words of two characters.                            *)
(***************************************************************************)

\* More rows have no fewer neighbours.
LEMMA PrefixLinks ==
  ASSUME NEW h \in Seq(Entry), NEW m \in 0..Len(h), NEW n \in 0..Len(h), m <= n,
         NEW x, NEW y
  PROVE  LET a == SubSeq(h, 1, m) b == SubSeq(h, 1, n)
         IN Cardinality(Links(a, m, x, y)) <= Cardinality(Links(b, n, x, y))
  <1> DEFINE a == SubSeq(h, 1, m)
             b == SubSeq(h, 1, n)
  <1>1. /\ a \in Seq(Entry) /\ Len(a) = m /\ b \in Seq(Entry) /\ Len(b) = n
        /\ \A i \in 1..m : i \in 1..n /\ a[i] = b[i]
    <2>1. a \in Seq(Entry) /\ Len(a) = m /\ \A i \in 1..m : a[i] = h[i]
      BY PrefixTyped
    <2>2. b \in Seq(Entry) /\ Len(b) = n /\ \A i \in 1..n : b[i] = h[i]
      BY PrefixTyped
    <2>3. \A i \in 1..m : i \in 1..n
      OBVIOUS
    <2> HIDE DEF a, b
    <2> QED BY <2>1, <2>2, <2>3
  <1> HIDE DEF a, b
  <1>2. \A p \in Places(a) : /\ p \in Places(b) /\ Char(a, p) = Char(b, p)
                             /\ p[1] \in 1..m
    <2> SUFFICES ASSUME NEW p \in Places(a)
                 PROVE  p \in Places(b) /\ Char(a, p) = Char(b, p) /\ p[1] \in 1..m
      OBVIOUS
    <2>1. p = <<p[1], p[2]>> /\ p[1] \in 1..m /\ p[2] \in 1..Size(a, p[1])
      BY <1>1, PlaceParts
    <2>2. a[p[1]] = b[p[1]] /\ p[1] \in 1..n
      BY <1>1, <2>1
    <2>3. p[2] \in 1..Size(b, p[1])
      BY <2>1, <2>2 DEF Size
    <2>4. <<p[1], p[2]>> \in Places(b)
      BY <1>1, <2>2, <2>3, PlaceParts
    <2> QED BY <2>1, <2>2, <2>4 DEF Char
  <1>3. ASSUME NEW p \in Places(a), NEW q \in Places(a), Follows(a, p, q)
        PROVE  Follows(b, p, q)
    <2>1. a[p[1]] = b[p[1]] /\ a[q[1]] = b[q[1]]
      BY <1>1, <1>2
    <2> QED BY <1>3, <2>1 DEF Follows
  <1>4. Links(a, m, x, y) \subseteq Links(b, n, x, y)
    <2> SUFFICES ASSUME NEW ph \in Links(a, m, x, y) PROVE ph \in Links(b, n, x, y)
      OBVIOUS
    <2>1. /\ ph \in Places(a) \X Places(a) /\ Follows(a, ph[1], ph[2])
          /\ Char(a, ph[1]) = x /\ Char(a, ph[2]) = y
      BY Zenon DEF Links
    <2>2. ph = <<ph[1], ph[2]>> /\ ph[1] \in Places(a) /\ ph[2] \in Places(a)
      BY <2>1
    <2>3. ph \in Places(b) \X Places(b) /\ Char(b, ph[1]) = x /\ Char(b, ph[2]) = y
      BY <1>2, <2>1, <2>2
    <2>4. ph[2][1] <= n
      BY <1>2, <2>2
    <2>5. Follows(b, ph[1], ph[2])
      BY <1>3, <2>1, <2>2
    <2> QED BY <2>3, <2>4, <2>5 DEF Links
  <1>5. IsFiniteSet(Links(b, n, x, y))
    BY <1>1, LinksFinite
  <1> QED BY <1>4, <1>5, FS_Subset DEF a, b

\* The table of one scan and the words of another.
PairsAgree(es, fs, x, y) ==
  LET times == Bigrams(es)[<<x, y>>]
  IN /\ times >= MinFrequency /\ LooksLikeRealCandidate(<<x, y>>) =>
          \E w \in WordsOf(fs) : w.text = <<x, y>>
     /\ \A w \in WordsOf(fs) : w.text = <<x, y>> =>
          /\ w.frequency = times \/ w.frequency > times
          /\ es = fs => w.frequency = times

\* The second scan is the first, or has no fewer neighbours x and y.
LinksGrow(es, fs, x, y) ==
  \/ es = fs
  \/ Cardinality(Links(es, Len(es), x, y)) <= Cardinality(Links(fs, Len(fs), x, y))

\* A word of two characters has been seen as often as its bigram, or more
\* often.
LEMMA PairCounts ==
  ASSUME wubi \in WubiFiles \cup {Unreadable}, NEW es \in Seq(Entry), NEW fs \in Seq(Entry),
         NEW x \in Chars, NEW y \in Chars, LinksGrow(es, fs, x, y)
  PROVE  PairsAgree(es, fs, x, y)
  <1> DEFINE t == <<x, y>>
             n == Cardinality(Uses(fs, t))
             times == Bigrams(es)[<<x, y>>]
  <1>1. /\ times = Cardinality(Uses(es, t)) /\ times \in Nat /\ n \in Nat
        /\ times <= n /\ (es = fs => n = times)
    <2>1. /\ times = Cardinality(Uses(es, t))
          /\ Uses(es, t) = Links(es, Len(es), x, y) /\ Uses(fs, t) = Links(fs, Len(fs), x, y)
      BY BigramsCount, UsesOfPair
    <2>2. Cardinality(Uses(es, t)) \in Nat /\ n \in Nat
      BY FoundAsTyped, FS_CardinalityType
    <2> HIDE DEF t
    <2> QED BY <2>1, <2>2 DEF LinksGrow
  <1> HIDE DEF t, times
  <1>2. ASSUME times >= MinFrequency, LooksLikeRealCandidate(t)
        PROVE  \E w \in WordsOf(fs) : w.text = t
    <2>1. n >= MinFrequency
      BY <1>1, <1>2, WindowAssumption
    <2>2. PICK v \in Discovered(fs) : v.text = t
      BY <1>2, <2>1, DiscoveredWords
    <2>3. v \in WordSet
      BY DiscoveredTyped
    <2>4. Encoded(v).text = v.text
      BY <2>3, EncodedParts
    <2> QED BY <2>2, <2>4 DEF WordsOf
  <1>3. ASSUME NEW w \in WordsOf(fs), w.text = t
        PROVE  w.frequency = n
    BY <1>3, WordsOfParts
  <1> HIDE DEF n
  <1>4. ASSUME NEW w \in WordsOf(fs), w.text = t
        PROVE  /\ w.frequency = times \/ w.frequency > times
               /\ es = fs => w.frequency = times
    BY <1>1, <1>3, <1>4
  <1> QED BY <1>2, <1>4 DEF t, times, PairsAgree

\* and that bigrams and words agree.
LEMMA BigramsInv == IInv => BigramsAgree
  <1> SUFFICES ASSUME IInv, pc \in {"encode", "write"},
                      (Distinct /\ counted = found) \/ (Ordered /\ found <= Window),
                      NEW x \in Chars, NEW y \in Chars
               PROVE  LET seen == {w \in words : w.text = <<x, y>>}
                          times == table[<<x, y>>]
                      IN /\ times >= MinFrequency /\ LooksLikeRealCandidate(<<x, y>>) => seen # {}
                         /\ \A w \in seen : \/ w.frequency = times
                                            \/ w.frequency > times /\ counted < found
    BY DEF BigramsAgree
  <1>1. /\ history \in Seq(Entry) /\ wubi \in WubiFiles \cup {Unreadable}
        /\ counted \in 0..Len(history) /\ found \in 0..Len(history) /\ Len(history) \in Nat
    BY DEF IInv, TypeOK
  <1> DEFINE a == SubSeq(history, 1, counted)
             b == SubSeq(history, 1, found)
  <1>2. PICK es \in Scans(a) : table = Bigrams(es)
    BY DEF IInv, TableExact, Scanned
  <1>3. counted <= found /\ \E fs \in Scans(b) : words = WordsOf(fs)
    BY DEF IInv, WordsExact, Scanned
  <1>4. PICK fs \in Scans(b) : words = WordsOf(fs)
    BY <1>3
  <1>5. /\ a \in Seq(Entry) /\ Len(a) = counted /\ \A i \in 1..counted : a[i] = history[i]
        /\ b \in Seq(Entry) /\ Len(b) = found /\ \A i \in 1..found : b[i] = history[i]
        /\ DOMAIN a = 1..counted /\ DOMAIN b = 1..found /\ DOMAIN history = 1..Len(history)
    <2>1. a \in Seq(Entry) /\ Len(a) = counted /\ \A i \in 1..counted : a[i] = history[i]
      BY <1>1, PrefixTyped
    <2>2. b \in Seq(Entry) /\ Len(b) = found /\ \A i \in 1..found : b[i] = history[i]
      BY <1>1, PrefixTyped
    <2> HIDE DEF a, b
    <2> QED BY <1>1, <2>1, <2>2
  <1>6. \A i : (i \in 1..counted => i \in 1..Len(history)) /\ (i \in 1..found => i \in 1..Len(history))
    BY <1>1
  <1>7. counted = found => a = b
    OBVIOUS
  <1>8. es \in Seq(Entry) /\ fs \in Seq(Entry)
    <2> HIDE DEF a, b
    <2> QED BY <1>2, <1>4, <1>5, ScansTyped
  <1>9. /\ counted = found => es = fs
        /\ \/ es = fs
           \/ Cardinality(Links(es, Len(es), x, y)) <= Cardinality(Links(fs, Len(fs), x, y))
    <2>1. CASE Distinct /\ counted = found
      <3>1. Apiece(b) /\ a = b
        <4> HIDE DEF a, b
        <4>1. \A r, s \in 1..found : r # s => b[r].ts # b[s].ts
          BY <1>5, <1>6, <2>1 DEF Distinct
        <4> QED BY <1>5, <1>7, <2>1, <4>1 DEF Apiece
      <3> HIDE DEF a, b
      <3>2. es = fs
        BY <1>2, <1>4, <1>5, <3>1, OneScan
      <3> QED BY <3>2
    <2>2. CASE Ordered /\ found <= Window
      <3>1. Len(a) <= Window /\ Len(b) <= Window
        BY <1>1, <1>3, <1>5, <2>2, WindowAssumption
      <3>2. Rising(a) /\ Rising(b)
        <4> HIDE DEF a, b
        <4>1. \A r, s \in 1..counted : r < s => a[r].ts < a[s].ts
          BY <1>5, <1>6, <2>2 DEF Ordered
        <4>2. \A r, s \in 1..found : r < s => b[r].ts < b[s].ts
          BY <1>5, <1>6, <2>2 DEF Ordered
        <4> QED BY <1>5, <4>1, <4>2 DEF Rising
      <3>3. es = a /\ fs = b
        <4> HIDE DEF a, b
        <4> QED BY <1>2, <1>4, <1>5, <3>1, <3>2, ScanOfRising
      <3>4. Cardinality(Links(a, counted, x, y)) <= Cardinality(Links(b, found, x, y))
        BY <1>1, <1>3, PrefixLinks
      <3> HIDE DEF a, b
      <3> QED BY <1>5, <1>7, <3>3, <3>4
    <2> QED BY <2>1, <2>2
  <1> DEFINE times == table[<<x, y>>]
  <1>10. times = Bigrams(es)[<<x, y>>]
    BY <1>2
  <1> HIDE DEF a, b, times
  <1>11. /\ times >= MinFrequency /\ LooksLikeRealCandidate(<<x, y>>) =>
              \E w \in words : w.text = <<x, y>>
         /\ \A w \in words : w.text = <<x, y>> =>
              /\ w.frequency = times \/ w.frequency > times
              /\ es = fs => w.frequency = times
    <2>1. LinksGrow(es, fs, x, y)
      BY <1>9 DEF LinksGrow
    <2>2. PairsAgree(es, fs, x, y)
      BY <1>1, <1>8, <2>1, PairCounts
    <2> QED BY <1>4, <1>10, <2>2 DEF PairsAgree
  <1>12. counted # found => counted < found
    BY <1>1, <1>3
  <1> QED BY <1>9, <1>11, <1>12 DEF times

-----------------------------------------------------------------------------
(***************************************************************************)
(* Theorems.                                                               *)
(***************************************************************************)

\* At every step of a round its table is the count of a scan of the history as
\* it was when UpdateBigrams read it, and its words are those of a scan of the
\* history as it was when Discover read it, which is never the shorter one.
THEOREM RoundExplained == Spec => []IInv
  <1>1. Init => IInv
    BY InitIInv
  <1>2. IInv /\ [Next]_vars => IInv'
    BY NextIInv
  <1> QED BY <1>1, <1>2, PTL DEF Spec

\* Every variable keeps its type, for any commits, dictionary, window and clock.
THEOREM TypeCorrect == Spec => []TypeOK
  <1>1. IInv => TypeOK
    BY DEF IInv
  <1> QED BY <1>1, RoundExplained, PTL

\* FrequencyDiscovery finds exactly the texts of two or three characters that
\* were typed often enough, with the number of times that they were typed.
THEOREM CountsCorrect == Spec => []CountsExact
  BY CountsInv, RoundExplained, PTL

\* ngram.cc and new_word.cc count a pair of characters alike.
THEOREM BigramsCorrect == Spec => []BigramsAgree
  BY BigramsInv, RoundExplained, PTL

\* Every code is canonical or was typed character by character.
THEOREM CodesCorrect == Spec => []CodesExplained
  BY CodesInv, RoundExplained, PTL
=============================================================================
