------------------------- MODULE ReplForwardProofs -------------------------
(***************************************************************************)
(* Proofs about ReplForward: that the forwarding thread writes every unit  *)
(* at most once and in order (ForwardOnce), that nothing of a closed       *)
(* connection is left in its hands (NoDangling), and that the queue's      *)
(* byte count is right and the limits hold (Accounting).                   *)
(*                                                                         *)
(* The first part is about the recursive functions of the model: Kept and  *)
(* Bytes compute what their equations say for every queue.  The induction  *)
(* over the length of the queue is a set of naturals that holds 0 and with *)
(* i - 1 also i (UpTo), from the least element of its complement.          *)
(*                                                                         *)
(* The invariant FwdInv puts together, for each address, the units the     *)
(* socket has taken, the send buffer and the water mark (Ordered): what    *)
(* the thread wrote ascends, all of it lies below what the buffer still    *)
(* holds, and nothing lies above the water mark.  Nodes are pieces of the  *)
(* history (Run), so what lies above the mark is found by cutting.         *)
(***************************************************************************)
EXTENDS ReplForward, Integers, SequenceTheorems, WellFoundedInduction, TLAPS

-----------------------------------------------------------------------------
(* Induction                                                               *)

\* A set of natural numbers has a least one.
LEMMA LeastNat ==
    ASSUME NEW T \in SUBSET Nat, T # {}
    PROVE  \E m \in T : \A k \in T : m <= k
<1> DEFINE R == OpToRel(<, Nat)
<1>1. IsWellFoundedOn(R, Nat)
  BY NatLessThanWellFounded, Zenon
<1> HIDE DEF R
<1>2. PICK m \in T : \A k \in T : ~(<<k, m>> \in R)
  BY <1>1, WFMin, Zenon
<1>3. \A k \in T : ~(k < m)
  <2> TAKE k \in T
  <2>1. k \in Nat /\ m \in Nat
    BY Zenon
  <2>2. k < m => <<k, m>> \in R
    BY <2>1 DEF R, OpToRel
  <2> QED BY <1>2, <2>2, Zenon
<1> QED BY <1>3

\* Induction from 0 to N, with the set of the numbers for which a fact holds.
LEMMA UpTo ==
    ASSUME NEW N \in Nat, NEW S, 0 \in S, \A i \in 1..N : i - 1 \in S => i \in S
    PROVE  \A i \in 0..N : i \in S
<1> DEFINE T == {n \in 0..N : n \notin S}
<1> SUFFICES ASSUME T # {} PROVE FALSE
  BY Zenon
<1>1. T \in SUBSET Nat
  OBVIOUS
<1> HIDE DEF T
<1>2. PICK m \in T : \A k \in T : m <= k
  BY <1>1, LeastNat, Zenon
<1>3. m \in 0..N /\ m \notin S
  BY <1>2 DEF T
<1>4. m # 0
  BY <1>3, Zenon
<1>5. m \in 1..N /\ m - 1 \in 0..N /\ ~(m <= m - 1)
  BY <1>3, <1>4
<1>6. m - 1 \notin S
  BY <1>3, <1>5, Zenon
<1>7. m - 1 \in T
  BY <1>5, <1>6 DEF T
<1> QED BY <1>2, <1>5, <1>7, Zenon

\* f starts with b and takes its other values from g, each from the one before.
Steps(f, N, V, b, g) ==
    /\ f \in [0..N -> V]
    /\ f[0] = b /\ \A i \in 1..N : f[i] = g[i][f[i - 1]]

\* A function may be given by its value at 0 and by how each value follows from
\* the one before.
LEMMA StepFunction ==
    ASSUME NEW V, NEW b \in V, NEW N \in Nat, NEW g \in [1..N -> [V -> V]]
    PROVE  \E f : Steps(f, N, V, b, g)
<1> USE DEF Steps
<1> DEFINE P(n) == \E f \in [0..n -> V] : f[0] = b /\ \A i \in 1..n : f[i] = g[i][f[i - 1]]
           S == {n \in 0..N : P(n)}
<1>1. 0 \in S
  <2> DEFINE f == [i \in 0..0 |-> b]
  <2>1. f \in [0..0 -> V] /\ f[0] = b
    OBVIOUS
  <2> HIDE DEF f
  <2>2. \A i \in 1..0 : f[i] = g[i][f[i - 1]]
    OBVIOUS
  <2>3. P(0)
    BY <2>1, <2>2, Zenon
  <2> QED BY <2>3
<1>2. ASSUME NEW m \in 1..N, m - 1 \in S PROVE m \in S
  <2> DEFINE n == m - 1
  <2>1. P(n) /\ n \in Nat /\ n + 1 = m
    BY <1>2
  <2>2. n + 1 \in 1..N
    BY <2>1
  <2> HIDE DEF n
  <2>3. PICK f \in [0..n -> V] : f[0] = b /\ \A i \in 1..n : f[i] = g[i][f[i - 1]]
    BY <2>1
  <2> DEFINE x == g[n + 1][f[n]]
             h == [i \in 0..(n + 1) |-> IF i = n + 1 THEN x ELSE f[i]]
  <2>4. x \in V
    <3>1. n \in 0..n
      BY <2>1
    <3>2. f[n] \in V /\ g[n + 1] \in [V -> V]
      BY <2>2, <3>1
    <3> QED BY <3>2
  <2> HIDE DEF x
  <2>5. h \in [0..(n + 1) -> V]
    BY <2>1, <2>4
  <2>6. h[0] = b
    BY <2>1, <2>3
  <2>7. ASSUME NEW i \in 1..(n + 1) PROVE h[i] = g[i][h[i - 1]]
    <3>1. i - 1 \in 0..n /\ h[i - 1] = f[i - 1]
      BY <2>1
    <3>2. CASE i = n + 1
      <4>1. h[i] = x /\ i - 1 = n
        BY <2>1, <3>2
      <4> QED BY <3>1, <3>2, <4>1 DEF x
    <3>3. CASE i # n + 1
      <4>1. i \in 1..n /\ h[i] = f[i]
        BY <2>1, <3>3
      <4> QED BY <2>3, <3>1, <4>1
    <3> QED BY <3>2, <3>3
  <2> HIDE DEF h
  <2>8. P(n + 1)
    BY <2>5, <2>6, <2>7, Zenon
  <2>9. P(m)
    BY <2>1, <2>8, Zenon
  <2> QED BY <2>9, SMTT(30)
<1> HIDE DEF S
<1>3. \A i \in 0..N : i \in S
  BY <1>1, <1>2, UpTo, Zenon
<1>4. N \in 0..N
  OBVIOUS
<1> QED BY <1>3, <1>4, Zenon DEF S

-----------------------------------------------------------------------------
(* A part of a list                                                        *)

\* f collects the elements of q at the places in K.
Collects(f, q, K, S) ==
    /\ f \in [0..Len(q) -> Seq(S)]
    /\ f[0] = << >>
    /\ \A i \in 1..Len(q) : f[i] = IF i \in K THEN Append(f[i - 1], q[i]) ELSE f[i - 1]

\* Kept collects the chosen elements one after the other.
LEMMA KeptFunction ==
    ASSUME NEW S, NEW q \in Seq(S), NEW K
    PROVE  \E f : Collects(f, q, K, S) /\ Kept(q, K) = f[Len(q)]
<1> DEFINE N == Len(q)
           g == [i \in 1..N |-> [x \in Seq(S) |-> IF i \in K THEN Append(x, q[i]) ELSE x]]
           F(f) == [i \in 0..N |-> IF i = 0 THEN << >>
                                  ELSE IF i \in K THEN Append(f[i - 1], q[i]) ELSE f[i - 1]]
           c == CHOOSE f : f = F(f)
<1>1. N \in Nat /\ << >> \in Seq(S) /\ \A i \in 1..N : q[i] \in S
  BY LenProperties, ElementOfSeq, EmptySeq
<1>2. \A i \in 1..N : \A x \in Seq(S) : (IF i \in K THEN Append(x, q[i]) ELSE x) \in Seq(S)
  BY <1>1, AppendProperties
<1>3. g \in [1..N -> [Seq(S) -> Seq(S)]]
  BY <1>2, Zenon
<1>4. \A i \in 1..N : \A x \in Seq(S) : g[i][x] = IF i \in K THEN Append(x, q[i]) ELSE x
  BY Zenon
<1> HIDE DEF g
<1>5. PICK f \in [0..N -> Seq(S)] : f[0] = << >> /\ \A i \in 1..N : f[i] = g[i][f[i - 1]]
  <2>1. \E f : Steps(f, N, Seq(S), << >>, g)
    BY <1>1, <1>3, StepFunction, Zenon
  <2> QED BY <2>1, Zenon DEF Steps
<1>6. \A i \in 1..N : i - 1 \in 0..N /\ i # 0
  BY <1>1
<1>7. \A i \in 1..N : f[i] = IF i \in K THEN Append(f[i - 1], q[i]) ELSE f[i - 1]
  BY <1>4, <1>5, <1>6, Zenon
<1>8. f = F(f)
  <2>1. \A i \in 0..N : i = 0 \/ i \in 1..N
    BY <1>1
  <2>2. \A i \in 0..N : f[i] = F(f)[i]
    BY <1>5, <1>7, <2>1, Zenon
  <2>3. DOMAIN f = 0..N /\ f = [i \in 0..N |-> f[i]]
    BY Zenon
  <2> QED BY <2>2, <2>3, SMTT(30)
<1>9. c = F(c)
  BY <1>8, Zenon
<1>10. Kept(q, K) = c[N]
  BY Zenon DEF Kept
<1> HIDE DEF c
<1>11. DOMAIN c = 0..N /\ c[0] = << >>
  BY <1>1, <1>9
<1>12. \A i \in 1..N : c[i] = IF i \in K THEN Append(c[i - 1], q[i]) ELSE c[i - 1]
  <2> TAKE i \in 1..N
  <2>1. i \in 0..N /\ i # 0
    BY <1>1
  <2>2. c[i] = F(c)[i]
    BY <1>9, Zenon
  <2> QED BY <2>1, <2>2, Zenon
<1>13. \A i \in 0..N : c[i] \in Seq(S)
  <2> DEFINE T == {i \in 0..N : c[i] \in Seq(S)}
  <2>1. 0 \in T
    <3>1. 0 \in 0..N
      BY <1>1
    <3> QED BY <1>1, <1>11, <3>1, Zenon
  <2>2. ASSUME NEW i \in 1..N, i - 1 \in T PROVE i \in T
    <3>1. c[i] \in Seq(S)
      BY <1>2, <1>12, <2>2, Zenon
    <3> QED BY <1>1, <3>1
  <2> HIDE DEF T
  <2>3. \A i \in 0..N : i \in T
    BY <1>1, <2>1, <2>2, UpTo, Zenon
  <2> QED BY <2>3 DEF T
<1>14. c \in [0..N -> Seq(S)]
  <2>1. c = [i \in 0..N |-> c[i]]
    <3>1. \A i \in 0..N : F(c)[i] = c[i]
      BY <1>9, Zenon
    <3>2. F(c) = [i \in 0..N |-> F(c)[i]]
      BY Zenon
    <3> QED BY <1>9, <3>1, <3>2, Zenon
  <2> QED BY <1>13, <2>1, Zenon
<1>15. Collects(c, q, K, S)
  BY <1>11, <1>12, <1>14, Zenon DEF Collects
<1> QED BY <1>10, <1>15, Zenon

\* Every element of r is one of q, at one of the places in K.
From(r, q, K) == \A j \in 1..Len(r) : \E i \in 1..Len(q) : i \in K /\ r[j] = q[i]

\* What is kept was there, at one of the places.
LEMMA KeptElements ==
    ASSUME NEW S, NEW q \in Seq(S), NEW K
    PROVE  Kept(q, K) \in Seq(S) /\ From(Kept(q, K), q, K)
<1> DEFINE N == Len(q)
           Taken(s) == \A j \in 1..Len(s) : \E i \in 1..N : i \in K /\ s[j] = q[i]
<1>1. PICK f \in [0..N -> Seq(S)] :
         /\ f[0] = << >>
         /\ \A i \in 1..N : f[i] = IF i \in K THEN Append(f[i - 1], q[i]) ELSE f[i - 1]
         /\ Kept(q, K) = f[N]
  <2>1. \E f : Collects(f, q, K, S) /\ Kept(q, K) = f[N]
    BY KeptFunction, Zenon
  <2> QED BY <2>1, Zenon DEF Collects
<1>2. N \in Nat /\ \A i \in 1..N : q[i] \in S
  BY LenProperties, ElementOfSeq
<1> HIDE DEF N
<1> DEFINE T == {i \in 0..N : Taken(f[i])}
<1>3. 0 \in T
  BY <1>1, <1>2
<1>4. ASSUME NEW i \in 1..N, i - 1 \in T PROVE i \in T
  <2> DEFINE s == f[i - 1]
  <2>1. Taken(s) /\ i \in 0..N /\ i - 1 \in 0..N
    BY <1>2, <1>4
  <2>2. s \in Seq(S) /\ q[i] \in S
    BY <1>2, <2>1
  <2>3. f[i] = s \/ (i \in K /\ f[i] = Append(s, q[i]))
    BY <1>1, Zenon
  <2> HIDE DEF s
  <2>4. ASSUME i \in K PROVE Taken(Append(s, q[i]))
    <3> SUFFICES ASSUME NEW j \in 1..Len(Append(s, q[i]))
                 PROVE  \E k \in 1..N : k \in K /\ Append(s, q[i])[j] = q[k]
      BY Zenon
    <3>1. /\ Len(Append(s, q[i])) = Len(s) + 1 /\ Len(s) \in Nat
          /\ \A k \in 1..Len(s) : Append(s, q[i])[k] = s[k]
          /\ Append(s, q[i])[Len(s) + 1] = q[i]
      BY <2>2, AppendProperties, LenProperties
    <3>2. j \in 1..Len(s) \/ j = Len(s) + 1
      BY <3>1
    <3> QED BY <2>1, <2>4, <3>1, <3>2, Zenon
  <2>5. Taken(f[i])
    BY <2>1, <2>3, <2>4, ZenonT(40)
  <2> QED BY <2>1, <2>5
<1> HIDE DEF T
<1>5. \A i \in 0..N : i \in T
  BY <1>2, <1>3, <1>4, UpTo, Zenon
<1>6. N \in T /\ N \in 0..N
  BY <1>2, <1>5
<1>7. Taken(f[N]) /\ f[N] \in Seq(S)
  BY <1>6 DEF T
<1> HIDE DEF Taken
<1>8. Taken(Kept(q, K)) /\ Kept(q, K) \in Seq(S)
  BY <1>1, <1>7, Zenon
<1> QED BY <1>8, Zenon DEF From, Taken, N

-----------------------------------------------------------------------------
(* The bytes of a queue                                                    *)

\* The nodes of the queue: bytes and the offset behind them, for a connection.
Nodes == [c : Addrs, bytes : Seq(Nat), end : Nat]

\* f sums up the bytes of the nodes.
Sums(f, q) ==
    /\ f \in [0..Len(q) -> Nat]
    /\ f[0] = 0 /\ \A i \in 1..Len(q) : f[i] = f[i - 1] + Len(q[i].bytes)

\* Bytes is the last of the sums.
LEMMA BytesFunction ==
    ASSUME NEW q \in Seq(Nodes)
    PROVE  \E f : Sums(f, q) /\ Bytes(q) = f[Len(q)]
<1> DEFINE N == Len(q)
           len(i) == Len(q[i].bytes)
           g == [i \in 1..N |-> [x \in Nat |-> x + len(i)]]
           F(f) == [i \in 0..N |-> IF i = 0 THEN 0 ELSE f[i - 1] + len(i)]
           c == CHOOSE f : f = F(f)
<1>1. N \in Nat /\ \A i \in 1..N : q[i] \in Nodes
  BY LenProperties, ElementOfSeq
<1>2. \A i \in 1..N : len(i) \in Nat
  <2>1. \A n \in Nodes : n.bytes \in Seq(Nat)
    BY DEF Nodes
  <2> QED BY <1>1, <2>1, LenProperties
<1>3. Bytes(q) = c[N]
  BY Zenon DEF Bytes
<1> HIDE DEF len
<1>4. \A i \in 1..N : \A x \in Nat : x + len(i) \in Nat
  BY <1>2
<1>5. g \in [1..N -> [Nat -> Nat]]
  BY <1>4, Zenon
<1>6. \A i \in 1..N : \A x \in Nat : g[i][x] = x + len(i)
  BY Zenon
<1> HIDE DEF g
<1>7. PICK f \in [0..N -> Nat] : f[0] = 0 /\ \A i \in 1..N : f[i] = g[i][f[i - 1]]
  <2>1. 0 \in Nat
    OBVIOUS
  <2>2. \E f : Steps(f, N, Nat, 0, g)
    BY <1>1, <1>5, <2>1, StepFunction, Zenon
  <2> QED BY <2>2, Zenon DEF Steps
<1>8. \A i \in 1..N : i - 1 \in 0..N /\ i # 0
  BY <1>1
<1>9. \A i \in 1..N : f[i] = f[i - 1] + len(i)
  BY <1>6, <1>7, <1>8, Zenon
<1>10. f = F(f)
  <2>1. \A i \in 0..N : i = 0 \/ i \in 1..N
    BY <1>1
  <2>2. \A i \in 0..N : f[i] = F(f)[i]
    BY <1>7, <1>9, <2>1, Zenon
  <2>3. DOMAIN f = 0..N /\ f = [i \in 0..N |-> f[i]]
    BY Zenon
  <2> QED BY <2>2, <2>3
<1>11. c = F(c)
  BY <1>10, Zenon
<1> HIDE DEF c
<1>12. c[0] = 0
  BY <1>1, <1>11
<1>13. \A i \in 1..N : c[i] = c[i - 1] + len(i)
  <2> TAKE i \in 1..N
  <2>1. i \in 0..N /\ i # 0
    BY <1>1
  <2>2. c[i] = F(c)[i]
    BY <1>11, Zenon
  <2> QED BY <2>1, <2>2, Zenon
<1>14. \A i \in 0..N : c[i] \in Nat
  <2> DEFINE T == {i \in 0..N : c[i] \in Nat}
  <2>1. 0 \in T
    BY <1>1, <1>12
  <2>2. ASSUME NEW i \in 1..N, i - 1 \in T PROVE i \in T
    <3>1. c[i] \in Nat
      BY <1>2, <1>13, <2>2
    <3> QED BY <1>1, <3>1
  <2> HIDE DEF T
  <2>3. \A i \in 0..N : i \in T
    BY <1>1, <2>1, <2>2, UpTo, Zenon
  <2> QED BY <2>3 DEF T
<1>15. c \in [0..N -> Nat]
  <2>1. \A i \in 0..N : F(c)[i] = c[i]
    BY <1>11, Zenon
  <2>2. F(c) = [i \in 0..N |-> F(c)[i]]
    BY Zenon
  <2>3. c = [i \in 0..N |-> c[i]]
    BY <1>11, <2>1, <2>2, Zenon
  <2> QED BY <1>14, <2>3, Zenon
<1>16. Sums(c, q)
  BY <1>12, <1>13, <1>15, Zenon DEF Sums, len
<1> QED BY <1>3, <1>16, Zenon

\* Two sums differ by d at i.
Differ(f, h, d, i) == h[i] \in Nat /\ f[i] = h[i] + d

\* Two sums over the same nodes go on to differ by what they start with.
LEMMA SumsAgree ==
    ASSUME NEW N \in Nat, NEW f, NEW h, NEW d, Differ(f, h, d, 0),
           \A i \in 1..N : Differ(f, h, d, i - 1) => Differ(f, h, d, i)
    PROVE  Differ(f, h, d, N)
<1> DEFINE T == {i \in 0..N : Differ(f, h, d, i)}
<1>1. 0 \in T
  OBVIOUS
<1>2. ASSUME NEW i \in 1..N, i - 1 \in T PROVE i \in T
  BY <1>2
<1> HIDE DEF T
<1>3. \A i \in 0..N : i \in T
  BY <1>1, <1>2, UpTo, Zenon
<1>4. N \in 0..N
  OBVIOUS
<1> QED BY <1>3, <1>4 DEF T

\* A queue without nodes holds no bytes, and one more node adds its own.
LEMMA BytesAppend ==
    ASSUME NEW q \in Seq(Nodes), NEW n \in Nodes
    PROVE  Bytes(Append(q, n)) = Bytes(q) + Len(n.bytes) /\ Bytes(q) \in Nat /\ Len(n.bytes) \in Nat
<1> DEFINE N == Len(q)
           r == Append(q, n)
<1>1. /\ N \in Nat /\ r \in Seq(Nodes) /\ Len(r) = N + 1
      /\ (\A i \in 1..N : r[i] = q[i]) /\ r[N + 1] = n
  BY AppendProperties, LenProperties
<1> HIDE DEF r
<1>2. PICK f : Sums(f, q) /\ Bytes(q) = f[N]
  BY BytesFunction, Zenon
<1>3. PICK h : Sums(h, r) /\ Bytes(r) = h[Len(r)]
  BY <1>1, BytesFunction, Zenon
<1>4. Len(n.bytes) \in Nat
  BY LenProperties DEF Nodes
<1>5. N \in 0..N /\ N + 1 \in 1..(N + 1) /\ (N + 1) - 1 = N /\ (\A i \in 1..N : i \in 1..(N + 1) /\ i - 1 \in 0..N /\ i \in 0..N)
  BY <1>1
<1> HIDE DEF N
<1>6. /\ f[0] = 0 /\ (\A i \in 0..N : f[i] \in Nat)
      /\ \A i \in 1..N : f[i] = f[i - 1] + Len(q[i].bytes)
  BY <1>2, Zenon DEF Sums, N
<1>7. h[0] = 0 /\ \A i \in 1..(N + 1) : h[i] = h[i - 1] + Len(r[i].bytes)
  BY <1>1, <1>3, Zenon DEF Sums
<1>8. \A i \in 1..N : h[i] = h[i - 1] + Len(q[i].bytes)
  BY <1>1, <1>5, <1>7, Zenon
<1>9. h[N] = f[N]
  <2> USE DEF Differ
  <2>1. \A i \in 1..N : Differ(h, f, 0, i - 1) => Differ(h, f, 0, i)
    <3> TAKE i \in 1..N
    <3> HAVE Differ(h, f, 0, i - 1)
    <3>1. h[i - 1] = f[i - 1]
      OBVIOUS
    <3>2. h[i] = f[i] /\ f[i] \in Nat
      BY <1>5, <1>6, <1>8, <3>1, Zenon
    <3> QED BY <3>2
  <2>2. Differ(h, f, 0, 0)
    BY <1>6, <1>7
  <2> HIDE DEF Differ
  <2>3. Differ(h, f, 0, N)
    BY <1>1, <2>1, <2>2, SumsAgree, Zenon
  <2> QED BY <2>3 DEF Differ
<1>10. h[N + 1] = h[N] + Len(n.bytes)
  BY <1>1, <1>5, <1>7, Zenon
<1> QED BY <1>1, <1>2, <1>3, <1>4, <1>5, <1>6, <1>9, <1>10, Zenon DEF r

\* The first node taken away takes its bytes with it.
LEMMA BytesTail ==
    ASSUME NEW q \in Seq(Nodes), q # << >>
    PROVE  /\ Bytes(Tail(q)) \in Nat /\ Len(Head(q).bytes) \in Nat
           /\ Bytes(q) = Bytes(Tail(q)) + Len(Head(q).bytes)
<1> DEFINE M == Len(Tail(q))
           t == Tail(q)
           d == Len(Head(q).bytes)
<1>1. /\ M \in Nat /\ t \in Seq(Nodes) /\ Len(t) = M /\ Len(q) = M + 1
      /\ (\A i \in 1..M : t[i] = q[i + 1]) /\ Head(q) = q[1] /\ Head(q) \in Nodes
  BY HeadTailProperties, LenProperties, EmptySeq
<1>2. d \in Nat
  <2>1. Head(q).bytes \in Seq(Nat)
    BY <1>1 DEF Nodes
  <2> QED BY <2>1, LenProperties
<1> HIDE DEF M, t
<1>3. PICK f : Sums(f, q) /\ Bytes(q) = f[Len(q)]
  BY BytesFunction, Zenon
<1>4. PICK h : Sums(h, t) /\ Bytes(t) = h[Len(t)]
  BY <1>1, BytesFunction, Zenon
<1>5. f[0] = 0 /\ \A i \in 1..(M + 1) : f[i] = f[i - 1] + Len(q[i].bytes)
  BY <1>1, <1>3, Zenon DEF Sums
<1>6. h[0] = 0 /\ (\A i \in 0..M : h[i] \in Nat) /\ \A i \in 1..M : h[i] = h[i - 1] + Len(t[i].bytes)
  BY <1>1, <1>4, Zenon DEF Sums
<1> DEFINE e == [i \in 0..M |-> f[i + 1]]
<1>7. \A i \in 0..M : e[i] = f[i + 1]
  BY Zenon
<1>8. /\ 0 \in 0..M /\ M \in 0..M /\ 1 \in 1..(M + 1) /\ 1 - 1 = 0 /\ 0 + 1 = 1
      /\ \A i \in 1..M : i \in 0..M /\ i - 1 \in 0..M /\ i + 1 \in 1..(M + 1) /\ (i + 1) - 1 = i /\ (i - 1) + 1 = i
  BY <1>1
<1> HIDE DEF e
<1>9. f[1] = f[0] + d
  <2>1. f[1] = f[1 - 1] + Len(q[1].bytes)
    BY <1>5, <1>8, Zenon
  <2> QED BY <1>1, <1>8, <2>1, Zenon
<1>10. Differ(e, h, d, 0)
  <2>1. e[0] = f[1] /\ h[0] = 0 /\ f[0] = 0
    BY <1>5, <1>6, <1>7, <1>8, Zenon
  <2> QED BY <1>9, <2>1 DEF Differ
<1>11. \A i \in 1..M : Differ(e, h, d, i - 1) => Differ(e, h, d, i)
  <2> USE DEF Differ
  <2> TAKE i \in 1..M
  <2> HAVE Differ(e, h, d, i - 1)
  <2> DEFINE l == Len(t[i].bytes)
  <2>1. e[i - 1] = f[i]
    BY <1>7, <1>8, Zenon
  <2>2. e[i] = f[i + 1] /\ f[i + 1] = f[i] + Len(q[i + 1].bytes)
    BY <1>5, <1>7, <1>8, Zenon
  <2>3. t[i] = q[i + 1] /\ t[i] \in Nodes
    <3>1. t[i] \in Nodes
      BY <1>1, ElementOfSeq
    <3> QED BY <1>1, <3>1, Zenon
  <2>4. l \in Nat
    <3>1. t[i].bytes \in Seq(Nat)
      BY <2>3 DEF Nodes
    <3> QED BY <3>1, LenProperties
  <2>5. e[i] = (h[i - 1] + d) + l /\ h[i] = h[i - 1] + l /\ h[i] \in Nat
    BY <1>6, <1>8, <2>1, <2>2, <2>3, Zenon
  <2> HIDE DEF l, d
  <2> QED BY <1>2, <2>4, <2>5
<1> HIDE DEF d
<1>12. e[M] = h[M] + d /\ h[M] \in Nat
  <2>1. Differ(e, h, d, M)
    BY <1>1, <1>10, <1>11, SumsAgree, Zenon
  <2> QED BY <2>1, Zenon DEF Differ
<1>13. Bytes(q) = e[M] /\ Bytes(t) = h[M]
  BY <1>1, <1>3, <1>4, <1>7, <1>8, Zenon
<1>14. Bytes(q) = Bytes(t) + d /\ Bytes(t) \in Nat
  BY <1>12, <1>13, Zenon
<1> QED BY <1>2, <1>14, Zenon DEF t, d

\* What is kept of a queue and what is not make up its bytes.
LEMMA BytesKept ==
    ASSUME NEW q \in Seq(Nodes), NEW K
    PROVE  /\ Bytes(Kept(q, K)) \in Nat /\ Bytes(Kept(q, DOMAIN q \ K)) \in Nat
           /\ Bytes(q) = Bytes(Kept(q, K)) + Bytes(Kept(q, DOMAIN q \ K))
<1> DEFINE N == Len(q)
           L == DOMAIN q \ K
<1>1. N \in Nat /\ DOMAIN q = 1..N /\ \A i \in 1..N : q[i] \in Nodes
  BY LenProperties, ElementOfSeq
<1>2. \A i \in 1..N : i \in L <=> i \notin K
  BY <1>1, Zenon
<1> HIDE DEF L
<1>3. PICK f : Sums(f, q) /\ Bytes(q) = f[N]
  BY BytesFunction, Zenon
<1>4. PICK x : Collects(x, q, K, Nodes) /\ Kept(q, K) = x[N]
  BY KeptFunction, Zenon
<1>5. PICK y : Collects(y, q, L, Nodes) /\ Kept(q, L) = y[N]
  BY KeptFunction, Zenon
<1> HIDE DEF N
<1>6. /\ x[0] = << >> /\ (\A i \in 0..N : x[i] \in Seq(Nodes))
      /\ \A i \in 1..N : x[i] = IF i \in K THEN Append(x[i - 1], q[i]) ELSE x[i - 1]
  BY <1>4, Zenon DEF Collects, N
<1>7. /\ y[0] = << >> /\ (\A i \in 0..N : y[i] \in Seq(Nodes))
      /\ \A i \in 1..N : y[i] = IF i \in L THEN Append(y[i - 1], q[i]) ELSE y[i - 1]
  BY <1>5, Zenon DEF Collects, N
<1>8. f[0] = 0 /\ (\A i \in 1..N : f[i] = f[i - 1] + Len(q[i].bytes))
  BY <1>3, Zenon DEF Sums, N
<1> DEFINE X(i) == Bytes(x[i])
           Y(i) == Bytes(y[i])
           T == {i \in 0..N : f[i] = X(i) + Y(i) /\ X(i) \in Nat /\ Y(i) \in Nat}
<1>9. Bytes(<< >>) = 0
  <2>1. << >> \in Seq(Nodes) /\ Len(<< >>) = 0
    BY EmptySeq
  <2>2. PICK h : Sums(h, << >>) /\ Bytes(<< >>) = h[Len(<< >>)]
    BY <2>1, BytesFunction, Zenon
  <2> QED BY <2>1, <2>2, Zenon DEF Sums
<1>10. 0 \in T
  <2>1. X(0) = 0 /\ Y(0) = 0
    BY <1>6, <1>7, <1>9, Zenon
  <2> HIDE DEF X, Y
  <2> QED BY <1>1, <1>8, <2>1
<1>11. ASSUME NEW i \in 1..N, i - 1 \in T PROVE i \in T
  <2> DEFINE l == Len(q[i].bytes)
             j == i - 1
  <2>1. i \in 0..N /\ j \in 0..N
    BY <1>1
  <2>2. f[j] = X(j) + Y(j) /\ X(j) \in Nat /\ Y(j) \in Nat /\ f[i] = f[j] + l
    BY <1>8, <1>11, Zenon
  <2>3. /\ x[j] \in Seq(Nodes) /\ y[j] \in Seq(Nodes) /\ q[i] \in Nodes
    BY <1>1, <1>6, <1>7, <2>1, Zenon
  <2>4. l \in Nat /\ Bytes(Append(x[j], q[i])) = X(j) + l /\ Bytes(Append(y[j], q[i])) = Y(j) + l
    BY <2>3, BytesAppend, Zenon
  <2>5. \/ X(i) = X(j) + l /\ Y(i) = Y(j)
        \/ X(i) = X(j) /\ Y(i) = Y(j) + l
    <3>1. CASE i \in K
      BY <1>2, <1>6, <1>7, <2>4, <3>1, Zenon
    <3>2. CASE i \notin K
      BY <1>2, <1>6, <1>7, <2>4, <3>2, Zenon
    <3> QED BY <3>1, <3>2
  <2>6. f[i] = X(i) + Y(i) /\ X(i) \in Nat /\ Y(i) \in Nat
    <3> HIDE DEF X, Y, l, j
    <3> QED BY <2>2, <2>4, <2>5
  <2> QED BY <2>1, <2>6, Zenon
<1> HIDE DEF T
<1>12. \A i \in 0..N : i \in T
  BY <1>1, <1>10, <1>11, UpTo, Zenon
<1>13. N \in 0..N
  BY <1>1
<1>14. f[N] = X(N) + Y(N) /\ X(N) \in Nat /\ Y(N) \in Nat
  BY <1>12, <1>13, Zenon DEF T
<1>15. Bytes(q) = Bytes(Kept(q, K)) + Bytes(Kept(q, L)) /\ Bytes(Kept(q, K)) \in Nat /\ Bytes(Kept(q, L)) \in Nat
  BY <1>3, <1>4, <1>5, <1>14, Zenon
<1> QED BY <1>15, Zenon DEF L

-----------------------------------------------------------------------------
(* The buffer of a replica                                                 *)

WireUnits == [n : Nat, fwd : BOOLEAN]

\* A connection, as far as the argument needs it.
Connection(c) ==
    /\ DOMAIN c = DOMAIN Free
    /\ c.ring \in Seq(Nat) /\ c.wire \in Seq(WireUnits) /\ c.base \in Nat

\* The state of the thread for a replica; its buffer has a limit.
Buffering(s) ==
    /\ DOMAIN s = DOMAIN NoState
    /\ s.buf \in Seq(Nat) /\ s.wm \in Nat /\ Len(s.buf) <= BufMax

\* The bytes are those of the history up to offset end.
Run(bytes, end) ==
    Len(bytes) <= end /\ \A i \in 1..Len(bytes) : bytes[i] = (end - Len(bytes)) + i

\* What the thread has written to w, what it has in the buffer and the water mark
\* are in order.
Ordered(w, s) ==
    /\ \A i, j \in 1..Len(w) : i < j /\ w[i].fwd /\ w[j].fwd => w[i].n < w[j].n
    /\ \A i, j \in 1..Len(s.buf) : i < j => s.buf[i] < s.buf[j]
    /\ \A i \in 1..Len(s.buf) : s.buf[i] <= s.wm
    /\ ~s.dropped => \A i \in 1..Len(w) : w[i].fwd =>
           w[i].n <= s.wm /\ \A j \in 1..Len(s.buf) : w[i].n < s.buf[j]

\* Bytes that lie above the water mark m and reach up to e.
Above(rest, m, e) ==
    /\ rest \in Seq(Nat) /\ m < e
    /\ \A i, j \in 1..Len(rest) : i < j => rest[i] < rest[j]
    /\ \A i \in 1..Len(rest) : m < rest[i] /\ rest[i] <= e

\* t is s with the bytes rest added, or with nothing added.
Extends(s, t) ==
    /\ DOMAIN t = DOMAIN s /\ t.exists = s.exists /\ t.dropped = s.dropped
    /\ \/ t.buf = s.buf /\ t.wm = s.wm
       \/ \E rest \in Seq(Nat) : /\ Above(rest, s.wm, t.wm)
                                 /\ t.wm \in Nat /\ t.buf = s.buf \o rest
                                 /\ Len(s.buf) + Len(rest) <= BufMax

\* Order of numbers, as the next lemmas use it.
LEMMA Transitive ==
    /\ \A x, y, z \in Nat : x <= y /\ y < z => x < z
    /\ \A x, y, z \in Nat : x <= y /\ y < z => x <= z
    /\ \A x, y, z \in Nat : x < y /\ y <= z => x < z
    /\ \A x, y, z \in Nat : x <= y /\ y <= z => x <= z
OBVIOUS

\* Added bytes lie above all that was in the buffer or on the wire.
LEMMA ExtendedOrder ==
    ASSUME NEW w \in Seq(WireUnits), NEW s, NEW t, Buffering(s), Ordered(w, s), Extends(s, t)
    PROVE  Buffering(t) /\ Ordered(w, t)
<1>1. CASE t.buf = s.buf /\ t.wm = s.wm
  BY <1>1, Zenon DEF Extends, Buffering, Ordered
<1>2. CASE \E rest \in Seq(Nat) : /\ Above(rest, s.wm, t.wm)
                                  /\ t.wm \in Nat /\ t.buf = s.buf \o rest
                                  /\ Len(s.buf) + Len(rest) <= BufMax
  <2>1. PICK rest \in Seq(Nat) : /\ Above(rest, s.wm, t.wm)
                                 /\ t.wm \in Nat /\ t.buf = s.buf \o rest
                                 /\ Len(s.buf) + Len(rest) <= BufMax
    BY <1>2, Zenon
  <2> DEFINE b == s.buf
             c == t.buf
             L == Len(b)
             M == Len(rest)
  <2>2. b \in Seq(Nat) /\ s.wm \in Nat /\ t.wm \in Nat /\ L \in Nat /\ M \in Nat
    BY <2>1, LenProperties DEF Buffering
  <2>3. /\ c \in Seq(Nat) /\ Len(c) = L + M
        /\ \A i \in 1..(L + M) : c[i] = IF i <= L THEN b[i] ELSE rest[i - L]
    <3> HIDE DEF b
    <3> QED BY <2>1, <2>2, ConcatProperties DEF b
  <2>4. Buffering(t)
    BY <2>1, <2>2, <2>3 DEF Extends, Buffering
  <2>5. /\ \A i, j \in 1..L : i < j => b[i] < b[j]
        /\ \A i \in 1..L : b[i] <= s.wm
    BY Zenon DEF Ordered
  <2>6. /\ \A i, j \in 1..M : i < j => rest[i] < rest[j]
        /\ \A i \in 1..M : s.wm < rest[i] /\ rest[i] <= t.wm
        /\ s.wm < t.wm
    BY <2>1, Zenon DEF Above
  <2>7. (\A i \in 1..L : b[i] \in Nat) /\ (\A i \in 1..M : rest[i] \in Nat)
    BY <2>2, ElementOfSeq, SMTT(30)
  <2> HIDE DEF b, c, L, M
  <2>8. \A i, j \in 1..(L + M) : i < j => c[i] < c[j]
    <3> SUFFICES ASSUME NEW i \in 1..(L + M), NEW j \in 1..(L + M), i < j PROVE c[i] < c[j]
      BY Zenon
    <3>1. CASE j <= L
      <4>1. i \in 1..L /\ j \in 1..L /\ c[i] = b[i] /\ c[j] = b[j]
        BY <2>2, <2>3, <3>1
      <4> QED BY <2>5, <4>1, Zenon
    <3>2. CASE i <= L /\ ~(j <= L)
      <4>1. i \in 1..L /\ j - L \in 1..M /\ c[i] = b[i] /\ c[j] = rest[j - L]
        BY <2>2, <2>3, <3>2
      <4>2. b[i] <= s.wm /\ s.wm < rest[j - L] /\ b[i] \in Nat /\ rest[j - L] \in Nat
        BY <2>5, <2>6, <2>7, <4>1, Zenon
      <4>3. b[i] < rest[j - L]
        BY <2>2, <4>2, Transitive, Zenon
      <4> QED BY <4>1, <4>3, Zenon
    <3>3. CASE ~(i <= L)
      <4>1. i - L \in 1..M /\ j - L \in 1..M /\ i - L < j - L
        BY <2>2, <3>3
      <4>2. c[i] = rest[i - L] /\ c[j] = rest[j - L]
        <5>1. ~(j <= L)
          BY <2>2, <3>3
        <5> QED BY <2>3, <3>3, <5>1, Zenon
      <4>3. rest[i - L] < rest[j - L]
        BY <2>6, <4>1, Zenon
      <4> QED BY <4>2, <4>3, Zenon
    <3> QED BY <2>2, <3>1, <3>2, <3>3
  <2>9. \A i \in 1..(L + M) : c[i] <= t.wm /\ ((c[i] = rest[i - L] /\ s.wm < c[i]) \/ (i \in 1..L /\ c[i] = b[i]))
    <3> TAKE i \in 1..(L + M)
    <3>1. CASE i <= L
      <4>1. i \in 1..L /\ c[i] = b[i] /\ b[i] <= s.wm /\ b[i] \in Nat
        BY <2>2, <2>3, <2>5, <2>7, <3>1, SMTT(30)
      <4>2. b[i] <= t.wm
        BY <2>2, <2>6, <4>1, Transitive, Zenon
      <4> QED BY <4>1, <4>2, Zenon
    <3>2. CASE ~(i <= L)
      <4>1. i - L \in 1..M /\ c[i] = rest[i - L]
        BY <2>2, <2>3, <3>2, SMTT(30)
      <4>2. s.wm < rest[i - L] /\ rest[i - L] <= t.wm
        BY <2>6, <4>1, Zenon
      <4> QED BY <4>1, <4>2, Zenon
    <3> QED BY <2>2, <3>1, <3>2
  <2>10. ~t.dropped => \A i \in 1..Len(w) : w[i].fwd =>
             w[i].n <= t.wm /\ \A j \in 1..(L + M) : w[i].n < c[j]
    <3> SUFFICES ASSUME ~t.dropped, NEW i \in 1..Len(w), w[i].fwd, NEW j \in 1..(L + M)
                 PROVE  w[i].n <= t.wm /\ w[i].n < c[j]
      <4>1. ASSUME ~t.dropped, NEW i \in 1..Len(w), w[i].fwd PROVE w[i].n <= t.wm
        <5>1. ~s.dropped
          BY <4>1, Zenon DEF Extends
        <5>2. w[i].n <= s.wm /\ w[i].n \in Nat
          <6>1. w[i] \in WireUnits
            BY ElementOfSeq
          <6>2. w[i].n \in Nat
            BY <6>1 DEF WireUnits
          <6> QED BY <4>1, <5>1, <6>2, Zenon DEF Ordered
        <5> QED BY <2>2, <2>6, <5>2
      <4> QED BY <4>1, Zenon
    <3>1. ~s.dropped
      BY Zenon DEF Extends
    <3>2. w[i].n \in Nat
      <4>1. w[i] \in WireUnits
        BY ElementOfSeq
      <4> QED BY <4>1 DEF WireUnits
    <3>3. w[i].n <= s.wm /\ \A k \in 1..L : w[i].n < b[k]
      BY <3>1, Zenon DEF Ordered, b, L
    <3>4. c[j] \in Nat
      BY <2>3, ElementOfSeq
    <3>5. w[i].n < c[j]
      <4>1. CASE c[j] = rest[j - L] /\ s.wm < c[j]
        BY <2>2, <3>2, <3>3, <3>4, <4>1, Transitive, Zenon
      <4>2. CASE j \in 1..L /\ c[j] = b[j]
        BY <3>3, <4>2, Zenon
      <4> QED BY <2>9, <4>1, <4>2, Zenon
    <3> QED BY <2>2, <2>6, <3>2, <3>3, <3>5
  <2>11. \A i, j \in 1..Len(w) : i < j /\ w[i].fwd /\ w[j].fwd => w[i].n < w[j].n
    BY Zenon DEF Ordered
  <2>12. Ordered(w, t)
    BY <2>3, <2>8, <2>9, <2>10, <2>11, Zenon DEF Ordered, c
  <2> QED BY <2>4, <2>12
<1> QED BY <1>1, <1>2, Zenon DEF Extends

\* repl_fwd_append takes the part of a node that lies above the water mark.
LEMMA AppendExtends ==
    ASSUME NEW s, NEW bytes \in Seq(Nat), NEW end \in Nat, Buffering(s), Run(bytes, end)
    PROVE  Extends(s, FwdAppend(s, bytes, end))
<1> DEFINE start == IF end > Len(bytes) THEN end - Len(bytes) ELSE 0
           covered == IF start < s.wm THEN s.wm - start ELSE 0
           rest == SubSeq(bytes, covered + 1, Len(bytes))
           t == FwdAppend(s, bytes, end)
           L == Len(bytes)
<1>1. \/ t = s
      \/ ~(end <= s.wm) /\ Len(s.buf) + Len(rest) > BufMax /\ t = [s EXCEPT !.stalled = TRUE]
      \/ ~(end <= s.wm) /\ ~(Len(s.buf) + Len(rest) > BufMax) /\ t = [s EXCEPT !.buf = @ \o rest, !.wm = end]
  BY Zenon DEF FwdAppend
<1>2. L \in Nat /\ L <= end /\ s.wm \in Nat /\ \A i \in 1..L : bytes[i] = (end - L) + i
  BY LenProperties DEF Run, Buffering
<1>3. start = end - L /\ covered \in Nat /\ s.wm <= (end - L) + covered /\ end - L >= 0
  BY <1>2
<1>4. \A i \in 1..L : bytes[i] \in Nat
  BY ElementOfSeq
<1> HIDE DEF start
<1>5. CASE t = s
  BY <1>5, Zenon DEF Extends
<1>6. CASE t = [s EXCEPT !.stalled = TRUE]
  <2>1. /\ DOMAIN t = DOMAIN s /\ t.exists = s.exists /\ t.dropped = s.dropped /\ t.buf = s.buf /\ t.wm = s.wm
    <3> HIDE DEF t
    <3> QED BY <1>6 DEF Buffering, NoState
  <2> QED BY <2>1, Zenon DEF Extends
<1>7. CASE ~(end <= s.wm) /\ ~(Len(s.buf) + Len(rest) > BufMax) /\ t = [s EXCEPT !.buf = @ \o rest, !.wm = end]
  <2> HIDE DEF covered, t, L
  <2>1. \A i \in (covered + 1)..L : i \in 1..L
    BY <1>2, <1>3
  <2>2. /\ rest \in Seq(Nat) /\ Len(rest) = (IF covered + 1 <= L THEN L - (covered + 1) + 1 ELSE 0)
        /\ \A i \in 1..(L - (covered + 1) + 1) : rest[i] = bytes[(covered + 1) + i - 1]
    <3>1. covered + 1 \in Int /\ L \in Int /\ \A i \in (covered + 1)..L : bytes[i] \in Nat
      BY <1>2, <1>3, <1>4, <2>1
    <3> QED BY <3>1, SubSeqProperties DEF L
  <2> HIDE DEF rest
  <2>3. \A i \in 1..Len(rest) : rest[i] = ((end - L) + covered) + i /\ i <= L - covered
    <3> TAKE i \in 1..Len(rest)
    <3>1. i \in 1..(L - (covered + 1) + 1) /\ covered + i \in 1..L /\ (covered + 1) + i - 1 = covered + i
      BY <1>2, <1>3, <2>2
    <3>2. rest[i] = bytes[covered + i]
      BY <2>2, <3>1
    <3>3. bytes[covered + i] = (end - L) + (covered + i)
      BY <1>2, <3>1
    <3> QED BY <1>2, <1>3, <3>1, <3>2, <3>3
  <2>4. Len(rest) \in Nat
    BY <2>2, LenProperties
  <2>5. \A i \in 1..Len(rest) : s.wm < rest[i] /\ rest[i] <= end
    BY <1>2, <1>3, <2>3, <2>4
  <2>6. \A i, j \in 1..Len(rest) : i < j => rest[i] < rest[j]
    BY <1>2, <1>3, <2>3, <2>4
  <2>7. s.wm < end
    BY <1>2, <1>7
  <2>8. Above(rest, s.wm, end)
    BY <2>2, <2>5, <2>6, <2>7, Zenon DEF Above
  <2>9. /\ DOMAIN t = DOMAIN s /\ t.exists = s.exists /\ t.dropped = s.dropped
        /\ t.buf = s.buf \o rest /\ t.wm = end
    BY <1>7, SMTT(30) DEF Buffering, NoState
  <2>10. Len(s.buf) + Len(rest) <= BufMax
    <3>1. Len(s.buf) \in Nat /\ BufMax \in Nat
      BY LenProperties, FwdAssumption DEF Buffering
    <3> DEFINE x == Len(s.buf)
               y == Len(rest)
    <3>2. ~(x + y > BufMax)
      BY <1>7, Zenon
    <3>3. x \in Nat /\ y \in Nat /\ BufMax \in Nat
      BY <2>4, <3>1
    <3> HIDE DEF x, y
    <3>4. x + y <= BufMax
      BY <3>2, <3>3
    <3> QED BY <3>4 DEF x, y
  <2>11. t.wm \in Nat /\ Above(rest, s.wm, t.wm)
    BY <2>8, <2>9, Zenon
  <2>12. Extends(s, t)
    BY <2>2, <2>9, <2>10, <2>11, Zenon DEF Extends
  <2> QED BY <2>12 DEF t
<1> QED BY <1>1, <1>5, <1>6, <1>7, Zenon

\* Nothing that was there is touched by taking nothing, or by going on in two
\* steps of which the first adds nothing.
LEMMA ExtendsOn ==
    ASSUME NEW s, NEW u, NEW t, DOMAIN u = DOMAIN s, u.exists = s.exists, u.dropped = s.dropped,
           u.buf = s.buf, u.wm = s.wm, Extends(u, t)
    PROVE  Extends(s, t)
BY Zenon DEF Extends

\* The first half of repl_fwd_refill changes no byte.
LEMMA UnstallKeeps ==
    ASSUME NEW s, Buffering(s)
    PROVE  /\ Buffering(Unstall(s)) /\ DOMAIN Unstall(s) = DOMAIN s
           /\ Unstall(s).exists = s.exists /\ Unstall(s).dropped = s.dropped
           /\ Unstall(s).buf = s.buf /\ Unstall(s).wm = s.wm
<1> DEFINE u == Unstall(s)
<1>1. u = s \/ u = [s EXCEPT !.stalled = FALSE]
  BY Zenon DEF Unstall
<1>2. CASE u = s
  BY <1>2, Zenon
<1>3. CASE u = [s EXCEPT !.stalled = FALSE]
  <2> HIDE DEF u
  <2>1. /\ DOMAIN u = DOMAIN s /\ u.exists = s.exists /\ u.dropped = s.dropped
        /\ u.buf = s.buf /\ u.wm = s.wm
    BY <1>3 DEF Buffering, NoState
  <2>2. Buffering(u)
    BY <2>1, Zenon DEF Buffering
  <2> QED BY <2>1, <2>2, Zenon DEF u
<1> QED BY <1>1, <1>2, <1>3, Zenon

\* The ends of the backlog and the offset are numbers.
Numbers ==
    /\ off \in Nat
    /\ DOMAIN fwdLog = {"buf", "start", "end", "contig"} /\ fwdLog.start \in Nat /\ fwdLog.end \in Nat

\* repl_backlog_copy_range gives a piece of the history, up to the end of the
\* backlog.
LEMMA CopiedRun ==
    ASSUME Numbers, NEW from \in Nat
    PROVE  /\ CopyRange(from) \in Seq(Nat)
           /\ Run(CopyRange(from), from + Len(CopyRange(from)))
           /\ CopyRange(from) # << >> => from + Len(CopyRange(from)) = fwdLog.end
<1>1. CASE CopyRange(from) = << >>
  <2>1. Len(<< >>) = 0 /\ << >> \in Seq(Nat)
    BY EmptySeq
  <2>2. Run(<< >>, from + Len(<< >>))
    BY <2>1 DEF Run
  <2> QED BY <1>1, <2>1, <2>2, Zenon
<1>2. CASE from \in fwdLog.start..fwdLog.end /\ CopyRange(from) = Units(from, fwdLog.end)
  <2> DEFINE n == fwdLog.end - from
             u == [i \in 1..n |-> from + i]
  <2>1. n \in Nat /\ from + n = fwdLog.end
    BY <1>2 DEF Numbers
  <2>2. CopyRange(from) = u
    BY <1>2, Zenon DEF Units
  <2> HIDE DEF n
  <2>3. u \in Seq(Nat) /\ Len(u) = n /\ \A i \in 1..n : u[i] = from + i
    BY <2>1
  <2> HIDE DEF u
  <2>4. Run(u, from + Len(u))
    BY <2>1, <2>3 DEF Run
  <2> QED BY <2>1, <2>2, <2>3, <2>4, Zenon
<1> QED BY <1>1, <1>2, Zenon DEF CopyRange

\* repl_fwd_refill goes on behind the water mark.
LEMMA RefillExtends ==
    ASSUME Numbers, NEW s, Buffering(s)
    PROVE  Extends(s, FwdRefill(s))
<1> DEFINE u == Unstall(s)
           x == CopyRange(u.wm)
<1>1. /\ Buffering(u) /\ DOMAIN u = DOMAIN s /\ u.exists = s.exists /\ u.dropped = s.dropped
      /\ u.buf = s.buf /\ u.wm = s.wm
  BY UnstallKeeps, Zenon
<1>2. \/ FwdRefill(s) = s \/ FwdRefill(s) = u
      \/ FwdRefill(s) = FwdAppend(u, x, u.wm + Len(x))
  BY Zenon DEF FwdRefill
<1> HIDE DEF u
<1>3. u.wm \in Nat
  BY <1>1, Zenon DEF Buffering
<1>4. x \in Seq(Nat) /\ Run(x, u.wm + Len(x))
  BY <1>3, CopiedRun, Zenon
<1>5. u.wm + Len(x) \in Nat
  <2>1. Len(x) \in Nat
    BY <1>4, LenProperties
  <2> QED BY <1>3, <2>1
<1> HIDE DEF x
<1>6. Extends(u, FwdAppend(u, x, u.wm + Len(x)))
  BY <1>1, <1>4, <1>5, AppendExtends, Zenon
<1>7. Extends(s, s) /\ Extends(s, u)
  BY <1>1, Zenon DEF Extends
<1> QED BY <1>1, <1>2, <1>6, <1>7, ExtendsOn, Zenon

\* What goes to the socket leaves the buffer from the front.
Drains(s, d, k) ==
    /\ k \in 0..Len(s.buf)
    /\ DOMAIN d.s = DOMAIN s /\ d.s.exists = s.exists /\ d.s.dropped = s.dropped /\ d.s.wm = s.wm
    /\ d.s.buf \in Seq(Nat) /\ Len(d.s.buf) <= Len(s.buf) - k
    /\ \A i \in 1..Len(d.s.buf) : d.s.buf[i] = s.buf[k + i]
    /\ d.out \in Seq(Nat) /\ Len(d.out) = k /\ \A i \in 1..k : d.out[i] = s.buf[i]

\* repl_fwd_drain_send
LEMMA DrainDrains ==
    ASSUME NEW c, NEW s, Buffering(s), NEW d \in FwdDrain(c, s)
    PROVE  \E k : Drains(s, d, k)
<1> DEFINE b == s.buf
           L == Len(b)
<1>1. b \in Seq(Nat) /\ L \in Nat /\ \A i \in 1..L : b[i] \in Nat
  <2>1. b \in Seq(Nat)
    BY Zenon DEF Buffering
  <2> QED BY <2>1, LenProperties, ElementOfSeq
<1>2. ASSUME NEW k \in 0..L
      PROVE  /\ SubSeq(b, 1, k) \in Seq(Nat) /\ Len(SubSeq(b, 1, k)) = k
             /\ (\A i \in 1..k : SubSeq(b, 1, k)[i] = b[i])
             /\ SubSeq(b, k + 1, L) \in Seq(Nat) /\ Len(SubSeq(b, k + 1, L)) = L - k
             /\ \A i \in 1..(L - k) : SubSeq(b, k + 1, L)[i] = b[k + i]
  <2> HIDE DEF b, L
  <2>1. (\A i \in 1..k : b[i] \in Nat) /\ (\A i \in (k + 1)..L : b[i] \in Nat)
    BY <1>1
  <2>2. /\ SubSeq(b, 1, k) \in Seq(Nat) /\ Len(SubSeq(b, 1, k)) = (IF 1 <= k THEN k - 1 + 1 ELSE 0)
        /\ (\A i \in 1..(k - 1 + 1) : SubSeq(b, 1, k)[i] = b[1 + i - 1])
    BY <1>1, <2>1, SubSeqProperties
  <2>3. /\ SubSeq(b, k + 1, L) \in Seq(Nat)
        /\ Len(SubSeq(b, k + 1, L)) = (IF k + 1 <= L THEN L - (k + 1) + 1 ELSE 0)
        /\ (\A i \in 1..(L - (k + 1) + 1) : SubSeq(b, k + 1, L)[i] = b[(k + 1) + i - 1])
    BY <1>1, <2>1, SubSeqProperties
  <2>4. /\ (IF 1 <= k THEN k - 1 + 1 ELSE 0) = k /\ k - 1 + 1 = k /\ (\A i \in 1..k : 1 + i - 1 = i)
        /\ (IF k + 1 <= L THEN L - (k + 1) + 1 ELSE 0) = L - k /\ L - (k + 1) + 1 = L - k
        /\ \A i \in 1..(L - k) : (k + 1) + i - 1 = k + i
    BY <1>1
  <2> QED BY <2>2, <2>3, <2>4, Zenon
<1>3. CASE d = [s |-> s, out |-> << >>, broken |-> c.broken, up |-> TRUE]
  <2>1. d.s = s /\ d.out = << >>
    BY <1>3
  <2>2. Drains(s, d, 0)
    BY <1>1, <2>1, EmptySeq DEF Drains
  <2> QED BY <2>2
<1>4. ASSUME NEW k \in 0..L,
             d = [s   |-> [s EXCEPT !.buf = SubSeq(@, k + 1, Len(@)), !.armed = k < Len(s.buf)],
                  out |-> SubSeq(s.buf, 1, k), broken |-> FALSE, up |-> TRUE]
      PROVE  Drains(s, d, k)
  <2> DEFINE t == [s EXCEPT !.buf = SubSeq(@, k + 1, Len(@)), !.armed = k < Len(s.buf)]
  <2>1. d.s = t /\ d.out = SubSeq(b, 1, k)
    BY <1>4
  <2>2. /\ DOMAIN t = DOMAIN s /\ t.exists = s.exists /\ t.dropped = s.dropped /\ t.wm = s.wm
        /\ t.buf = SubSeq(b, k + 1, L)
    BY Zenon DEF Buffering, NoState
  <2> HIDE DEF t
  <2>3. Len(t.buf) = L - k /\ L - k <= L - k
    BY <1>1, <1>2, <2>2
  <2> QED BY <1>2, <2>1, <2>2, <2>3, Zenon DEF Drains
<1>5. ASSUME NEW k \in 0..L, NEW v,
             d = [s   |-> [s EXCEPT !.buf = << >>, !.armed = FALSE],
                  out |-> SubSeq(s.buf, 1, k), broken |-> TRUE, up |-> v]
      PROVE  Drains(s, d, k)
  <2> DEFINE t == [s EXCEPT !.buf = << >>, !.armed = FALSE]
  <2>1. d.s = t /\ d.out = SubSeq(b, 1, k)
    BY <1>5
  <2>2. /\ DOMAIN t = DOMAIN s /\ t.exists = s.exists /\ t.dropped = s.dropped /\ t.wm = s.wm
        /\ t.buf = << >>
    BY DEF Buffering, NoState
  <2> HIDE DEF t
  <2>3. t.buf \in Seq(Nat) /\ Len(t.buf) <= L - k /\ \A i \in 1..Len(t.buf) : t.buf[i] = b[k + i]
    <3> HIDE DEF L
    <3>1. t.buf \in Seq(Nat) /\ Len(t.buf) = 0
      BY <2>2, EmptySeq
    <3> QED BY <1>1, <3>1
  <2> QED BY <1>2, <2>1, <2>2, <2>3, Zenon DEF Drains
<1>6. \A k \in 0..(L - 1) : k \in 0..L
  BY <1>1
<1>7. 0 \in 0..L
  BY <1>1
<1>8. \/ d = [s |-> s, out |-> << >>, broken |-> c.broken, up |-> TRUE]
      \/ \E k \in 0..L : d = [s   |-> [s EXCEPT !.buf = SubSeq(@, k + 1, Len(@)), !.armed = k < Len(s.buf)],
                              out |-> SubSeq(s.buf, 1, k), broken |-> FALSE, up |-> TRUE]
      \/ \E k \in 0..L : d = [s   |-> [s EXCEPT !.buf = << >>, !.armed = FALSE],
                              out |-> SubSeq(s.buf, 1, k), broken |-> TRUE, up |-> k = 0]
  BY <1>6, <1>7, Zenon DEF FwdDrain
<1> QED BY <1>3, <1>4, <1>5, <1>8, Zenon

\* The units the thread writes.
Marked(out, flag) == [i \in DOMAIN out |-> [n |-> out[i], fwd |-> flag]]

\* They are units of the wire.
LEMMA MarkedUnits ==
    ASSUME NEW out \in Seq(Nat), NEW flag \in BOOLEAN
    PROVE  /\ Marked(out, flag) \in Seq(WireUnits) /\ Len(Marked(out, flag)) = Len(out) /\ Len(out) \in Nat
           /\ \A i \in 1..Len(out) : Marked(out, flag)[i].n = out[i] /\ (Marked(out, flag)[i].fwd <=> flag)
<1> DEFINE L == Len(out)
           m == Marked(out, flag)
<1>1. L \in Nat /\ DOMAIN out = 1..L /\ \A i \in 1..L : out[i] \in Nat
  BY LenProperties, ElementOfSeq
<1>2. m = [i \in 1..L |-> [n |-> out[i], fwd |-> flag]]
  BY <1>1, Zenon DEF Marked
<1>3. \A i \in 1..L : [n |-> out[i], fwd |-> flag] \in WireUnits
  BY <1>1 DEF WireUnits
<1> HIDE DEF L, m
<1>4. m \in [1..L -> WireUnits] /\ \A i \in 1..L : m[i] = [n |-> out[i], fwd |-> flag]
  BY <1>2, <1>3, Zenon
<1>5. m \in Seq(WireUnits) /\ Len(m) = L
  BY <1>1, <1>2, <1>3
<1>6. \A i \in 1..L : m[i].n = out[i] /\ (m[i].fwd <=> flag)
  BY <1>4
<1> QED BY <1>1, <1>5, <1>6, Zenon DEF L, m

\* What the thread writes lies above what it has written, and below what stays.
LEMMA DrainedOrder ==
    ASSUME NEW w \in Seq(WireUnits), NEW s, NEW d, NEW k, Buffering(s), Ordered(w, s), ~s.dropped, Drains(s, d, k)
    PROVE  /\ Buffering(d.s) /\ w \o Marked(d.out, TRUE) \in Seq(WireUnits)
           /\ Ordered(w \o Marked(d.out, TRUE), d.s)
<1> DEFINE b == s.buf
           c == d.s.buf
           m == Marked(d.out, TRUE)
           v == w \o m
           L == Len(b)
           W == Len(w)
<1>1. b \in Seq(Nat) /\ L \in Nat /\ L <= BufMax /\ BufMax \in Nat /\ s.wm \in Nat
  BY LenProperties, FwdAssumption DEF Buffering
<1>2. /\ k \in 0..L /\ DOMAIN d.s = DOMAIN s /\ d.s.exists = s.exists /\ d.s.dropped = s.dropped /\ d.s.wm = s.wm
      /\ c \in Seq(Nat) /\ Len(c) <= L - k /\ (\A i \in 1..Len(c) : c[i] = b[k + i])
      /\ d.out \in Seq(Nat) /\ Len(d.out) = k /\ \A i \in 1..k : d.out[i] = b[i]
  BY Zenon DEF Drains
<1>3. m \in Seq(WireUnits) /\ Len(m) = k /\ \A i \in 1..k : m[i].n = b[i] /\ m[i].fwd
  <2>1. d.out \in Seq(Nat) /\ TRUE \in BOOLEAN
    BY <1>2, Zenon
  <2>2. /\ m \in Seq(WireUnits) /\ Len(m) = Len(d.out)
        /\ \A i \in 1..Len(d.out) : m[i].n = d.out[i] /\ (m[i].fwd <=> TRUE)
    BY <2>1, MarkedUnits, Zenon
  <2> QED BY <1>2, <2>2, Zenon
<1>4. /\ v \in Seq(WireUnits) /\ Len(v) = W + k /\ W \in Nat
      /\ \A i \in 1..(W + k) : v[i] = IF i <= W THEN w[i] ELSE m[i - W]
  <2> HIDE DEF m
  <2> QED BY <1>3, ConcatProperties, LenProperties, Zenon
<1>5. Len(c) \in Nat
  BY <1>2, LenProperties
<1>6. /\ \A i, j \in 1..W : i < j /\ w[i].fwd /\ w[j].fwd => w[i].n < w[j].n
      /\ \A i, j \in 1..L : i < j => b[i] < b[j]
      /\ \A i \in 1..L : b[i] <= s.wm
      /\ \A i \in 1..W : w[i].fwd => w[i].n <= s.wm /\ \A j \in 1..L : w[i].n < b[j]
  BY Zenon DEF Ordered
<1> HIDE DEF b, c, m, v, L, W
<1>7. Buffering(d.s)
  <2>1. Len(c) <= BufMax
    BY <1>1, <1>2, <1>5
  <2> QED BY <1>1, <1>2, <2>1, Zenon DEF Buffering, c
<1>8. \A i \in 1..Len(c) : k + i \in 1..L /\ c[i] = b[k + i]
  <2>1. \A i \in 1..Len(c) : k + i \in 1..L
    BY <1>1, <1>2, <1>5
  <2> QED BY <1>2, <2>1, Zenon
<1>9. \A i \in 1..(W + k) : \/ i \in 1..W /\ v[i] = w[i]
                            \/ i - W \in 1..k /\ i - W \in 1..L /\ v[i].n = b[i - W] /\ v[i].fwd
  <2> TAKE i \in 1..(W + k)
  <2>1. CASE i <= W
    <3>1. i \in 1..W
      BY <1>4, <2>1
    <3> QED BY <1>4, <2>1, <3>1, Zenon
  <2>2. CASE ~(i <= W)
    <3>1. i - W \in 1..k /\ i - W \in 1..L
      BY <1>1, <1>2, <1>4, <2>2
    <3>2. v[i] = m[i - W]
      BY <1>4, <2>2, Zenon
    <3> QED BY <1>3, <3>1, <3>2, Zenon
  <2> QED BY <2>1, <2>2
<1>10. \A i, j \in 1..(W + k) : i < j /\ v[i].fwd /\ v[j].fwd => v[i].n < v[j].n
  <2> SUFFICES ASSUME NEW i \in 1..(W + k), NEW j \in 1..(W + k), i < j, v[i].fwd, v[j].fwd
               PROVE  v[i].n < v[j].n
    BY Zenon
  <2>1. CASE j \in 1..W /\ v[j] = w[j]
    <3>1. i \in 1..W /\ ~(i - W \in 1..k)
      BY <1>2, <1>4, <2>1
    <3>2. v[i] = w[i]
      BY <1>9, <3>1, Zenon
    <3> QED BY <1>6, <2>1, <3>1, <3>2, Zenon
  <2>2. CASE j - W \in 1..k /\ j - W \in 1..L /\ v[j].n = b[j - W]
    <3>1. CASE i \in 1..W /\ v[i] = w[i]
      BY <1>6, <2>2, <3>1, Zenon
    <3>2. CASE i - W \in 1..k /\ i - W \in 1..L /\ v[i].n = b[i - W]
      <4>1. i - W < j - W
        BY <1>2, <1>4
      <4> QED BY <1>6, <2>2, <3>2, <4>1, Zenon
    <3> QED BY <1>9, <3>1, <3>2, Zenon
  <2> QED BY <1>9, <2>1, <2>2, Zenon
<1>11. \A i, j \in 1..Len(c) : i < j => c[i] < c[j]
  <2> SUFFICES ASSUME NEW i \in 1..Len(c), NEW j \in 1..Len(c), i < j PROVE c[i] < c[j]
    BY Zenon
  <2>1. k + i < k + j
    BY <1>2, <1>5
  <2> QED BY <1>6, <1>8, <2>1, Zenon
<1>12. \A i \in 1..Len(c) : c[i] <= d.s.wm
  BY <1>2, <1>6, <1>8, Zenon
<1>13. \A i \in 1..(W + k) : v[i].fwd => v[i].n <= d.s.wm /\ \A j \in 1..Len(c) : v[i].n < c[j]
  <2> SUFFICES ASSUME NEW i \in 1..(W + k), v[i].fwd
               PROVE  v[i].n <= s.wm /\ \A j \in 1..Len(c) : v[i].n < b[k + j]
    BY <1>2, <1>8, Zenon
  <2>1. CASE i \in 1..W /\ v[i] = w[i]
    BY <1>6, <1>8, <2>1, Zenon
  <2>2. CASE i - W \in 1..k /\ i - W \in 1..L /\ v[i].n = b[i - W]
    <3>1. \A j \in 1..Len(c) : i - W < k + j
      BY <1>2, <1>4, <1>5, <2>2
    <3> QED BY <1>6, <1>8, <2>2, <3>1, Zenon
  <2> QED BY <1>9, <2>1, <2>2, Zenon
<1>14. Ordered(v, d.s)
  BY <1>4, <1>10, <1>11, <1>12, <1>13, Zenon DEF Ordered, c
<1> QED BY <1>4, <1>7, <1>14, Zenon DEF v, m

\* What the reactor writes of the output ring is not the thread's.
LEMMA FlushedOrder ==
    ASSUME NEW w \in Seq(WireUnits), NEW out \in Seq(Nat), NEW s, Buffering(s), Ordered(w, s)
    PROVE  /\ w \o Marked(out, FALSE) \in Seq(WireUnits)
           /\ Ordered(w \o Marked(out, FALSE), s)
<1> DEFINE m == Marked(out, FALSE)
           v == w \o m
           W == Len(w)
           k == Len(out)
<1>1. m \in Seq(WireUnits) /\ Len(m) = k /\ k \in Nat /\ \A i \in 1..k : ~m[i].fwd
  BY MarkedUnits, Zenon
<1>2. /\ v \in Seq(WireUnits) /\ Len(v) = W + k /\ W \in Nat
      /\ \A i \in 1..(W + k) : v[i] = IF i <= W THEN w[i] ELSE m[i - W]
  <2> HIDE DEF m, k
  <2> QED BY <1>1, ConcatProperties, LenProperties, Zenon
<1> HIDE DEF m, v, W, k
<1>3. \A i \in 1..(W + k) : v[i].fwd => i \in 1..W /\ v[i] = w[i]
  <2> TAKE i \in 1..(W + k)
  <2>1. CASE i <= W
    <3>1. i \in 1..W
      BY <1>2, <2>1
    <3> QED BY <1>2, <2>1, <3>1, Zenon
  <2>2. CASE ~(i <= W)
    <3>1. i - W \in 1..k
      BY <1>1, <1>2, <2>2
    <3> QED BY <1>1, <1>2, <2>2, <3>1, Zenon
  <2> QED BY <2>1, <2>2
<1>4. Ordered(v, s)
  BY <1>2, <1>3, Zenon DEF Ordered, W
<1> QED BY <1>2, <1>4, Zenon DEF v, m

-----------------------------------------------------------------------------
(* The invariant                                                           *)

\* A connection and the thread's state for its address.
Paired(c, s) ==
    /\ Connection(c) /\ Buffering(s) /\ Ordered(c.wire, s)
    /\ c.loading => c.phase # "free"
    /\ s.exists /\ ~s.dropped => c.phase # "free"

Conns == DOMAIN peer = Addrs /\ DOMAIN st = Addrs /\ \A a \in Addrs : Paired(peer[a], st[a])

OpenAddrs == {a \in Addrs : peer[a].phase # "free"}

\* A node holds a piece of the history, for an open connection.
LiveNodes == {n \in Nodes : n.c \in OpenAddrs /\ Run(n.bytes, n.end)}

\* The lists name open connections only: g_replicas, the queue, and the walk and
\* the node the reactor is at.
Lists ==
    /\ replicas \in Seq(OpenAddrs) /\ queue \in Seq(LiveNodes)
    /\ DOMAIN rx = {"pc", "todo", "node"} /\ rx.todo \in Seq(OpenAddrs)
    /\ rx.pc \in {"idle", "each", "put", "wait"}
    /\ rx.pc = "idle" => rx.todo = << >>
    /\ rx.pc = "each" => rx.todo # << >>
    /\ rx.todo # << >> => off # 0
    /\ rx.pc \in {"put", "wait"} => rx.node \in LiveNodes

Accounted == qbytes = Bytes(queue) /\ qbytes <= QueueMax

FwdInv == Numbers /\ Conns /\ Lists /\ Accounted

\* The invariant holds before the first connection.
LEMMA FwdInvInit == FwdInit => FwdInv
<1> SUFFICES ASSUME FwdInit PROVE FwdInv
  OBVIOUS
<1>1. Numbers
  BY DEF FwdInit, Numbers
<1>2. << >> \in Seq(Nat) /\ << >> \in Seq(WireUnits) /\ Len(<< >>) = 0
  BY EmptySeq
<1>3. Connection(Free) /\ Free.wire = << >> /\ ~Free.loading
  BY <1>2 DEF Connection, Free
<1>4. Buffering(NoState) /\ NoState.buf = << >> /\ ~NoState.exists
  BY <1>2, FwdAssumption DEF Buffering, NoState
<1>5. Ordered(Free.wire, NoState)
  BY <1>2, <1>3, <1>4 DEF Ordered
<1>6. Paired(Free, NoState)
  BY <1>3, <1>4, <1>5, Zenon DEF Paired
<1>7. Conns
  BY <1>6, Zenon DEF FwdInit, Conns
<1>8. Lists
  BY EmptySeq DEF FwdInit, Lists, Idle
<1>9. Accounted
  <2>1. << >> \in Seq(Nodes)
    BY EmptySeq
  <2>2. PICK h : Sums(h, << >>) /\ Bytes(<< >>) = h[Len(<< >>)]
    BY <2>1, BytesFunction, Zenon
  <2>3. Bytes(<< >>) = 0
    BY <1>2, <2>2, Zenon DEF Sums
  <2>4. queue = << >> /\ qbytes = 0
    BY DEF FwdInit
  <2>5. 0 <= QueueMax
    BY FwdAssumption
  <2> QED BY <2>3, <2>4, <2>5, Zenon DEF Accounted
<1> QED BY <1>1, <1>7, <1>8, <1>9 DEF FwdInv

-----------------------------------------------------------------------------
(* What a step leaves as it is                                             *)

\* Only the connection a and the state for it change.
LEMMA OneConn ==
    ASSUME Conns, NEW a \in Addrs, DOMAIN peer' = Addrs, DOMAIN st' = Addrs,
           \A b \in Addrs : b # a => peer'[b] = peer[b] /\ st'[b] = st[b],
           Paired(peer'[a], st'[a]), peer[a].phase # "free" => peer'[a].phase # "free"
    PROVE  Conns' /\ OpenAddrs \subseteq OpenAddrs'
<1>1. \A b \in Addrs : Paired(peer'[b], st'[b])
  BY Zenon DEF Conns
<1>2. Conns'
  BY <1>1, Zenon DEF Conns
<1>3. \A b \in Addrs : peer[b].phase # "free" => peer'[b].phase # "free"
  BY Zenon
<1> QED BY <1>2, <1>3, Zenon DEF OpenAddrs

\* d differs from c in nothing the argument uses.
Keeps(c, d) ==
    /\ DOMAIN d = DOMAIN c
    /\ d.ring = c.ring /\ d.wire = c.wire /\ d.base = c.base /\ d.phase = c.phase
    /\ d.loading => c.loading

\* Such a change keeps the invariant.
LEMMA KeptConn ==
    ASSUME Conns, NEW a \in Addrs, NEW d, Keeps(peer[a], d), peer' = [peer EXCEPT ![a] = d], st' = st
    PROVE  Conns' /\ OpenAddrs \subseteq OpenAddrs'
<1>1. DOMAIN peer = Addrs /\ DOMAIN st = Addrs /\ Paired(peer[a], st[a])
  BY Zenon DEF Conns
<1>2. DOMAIN peer' = Addrs /\ DOMAIN st' = Addrs /\ peer'[a] = d /\ st'[a] = st[a]
      /\ \A b \in Addrs : b # a => peer'[b] = peer[b] /\ st'[b] = st[b]
  BY <1>1
<1>3. Paired(d, st[a])
  BY <1>1, Zenon DEF Keeps, Paired, Connection
<1>4. Paired(peer'[a], st'[a]) /\ (peer[a].phase # "free" => peer'[a].phase # "free")
  BY <1>2, <1>3, Zenon DEF Keeps
<1> QED BY <1>2, <1>4, OneConn, Zenon

\* Naming what was lost is such a change.
LEMMA MarkKeeps ==
    ASSUME NEW c, NEW g, Connection(c)
    PROVE  Keeps(c, Mark(c, g))
<1>1. Mark(c, g) = c \/ Mark(c, g) = [c EXCEPT !.gap = g]
  BY Zenon DEF Mark
<1>2. Keeps(c, c)
  BY Zenon DEF Keeps
<1>3. Keeps(c, [c EXCEPT !.gap = g])
  BY DEF Keeps, Connection, Free
<1> QED BY <1>1, <1>2, <1>3, Zenon

\* More connections are open: what was a list of open ones still is.
LEMMA OpenStays ==
    ASSUME OpenAddrs \subseteq OpenAddrs'
    PROVE  /\ \A q : q \in Seq(OpenAddrs) => q \in Seq(OpenAddrs')
           /\ LiveNodes \subseteq LiveNodes'
           /\ \A q : q \in Seq(LiveNodes) => q \in Seq(LiveNodes')
<1>1. LiveNodes \subseteq LiveNodes'
  BY Zenon DEF LiveNodes
<1>2. \A q : q \in Seq(OpenAddrs) => q \in Seq(OpenAddrs')
  BY SeqMonotonic, Zenon
<1>3. \A q : q \in Seq(LiveNodes) => q \in Seq(LiveNodes')
  BY <1>1, SeqMonotonic, Zenon
<1> QED BY <1>1, <1>2, <1>3, Zenon

\* A step that changes no list.
LEMMA ListsSame ==
    ASSUME Lists, OpenAddrs \subseteq OpenAddrs', UNCHANGED <<replicas, queue, rx>>, off' = off
    PROVE  Lists'
<1>1. replicas' = replicas /\ queue' = queue /\ rx' = rx
  OBVIOUS
<1> QED BY <1>1, OpenStays, Zenon DEF Lists

\* A step that leaves the queue alone.
LEMMA AccountedSame == ASSUME Accounted, UNCHANGED <<queue, qbytes>> PROVE Accounted'
<1>1. queue' = queue /\ qbytes' = qbytes
  OBVIOUS
<1> QED BY <1>1, Zenon DEF Accounted

\* A step that leaves the backlog alone.
LEMMA NumbersSame == ASSUME Numbers, UNCHANGED <<off, fwdLog>> PROVE Numbers'
<1>1. off' = off /\ fwdLog' = fwdLog
  OBVIOUS
<1> QED BY <1>1, Zenon DEF Numbers

-----------------------------------------------------------------------------
(* The forwarding thread                                                   *)

\* The thread writes to a replica and refills its buffer.
LEMMA PumpKeeps ==
    ASSUME Numbers, Conns, NEW a \in Addrs, NEW s, Paired(peer[a], s), ~s.dropped, Pump(a, s)
    PROVE  Conns' /\ OpenAddrs \subseteq OpenAddrs'
<1> DEFINE c == peer[a]
<1>1. PICK d \in FwdDrain(c, s) :
         /\ st' = [st EXCEPT ![a] = FwdRefill(d.s)]
         /\ peer' = [peer EXCEPT ![a] = Written(@, d)]
  BY Zenon DEF Pump
<1>2. Connection(c) /\ Buffering(s) /\ Ordered(c.wire, s) /\ c.wire \in Seq(WireUnits)
  BY Zenon DEF Paired, Connection
<1>3. PICK k : Drains(s, d, k)
  BY <1>1, <1>2, DrainDrains, Zenon
<1> DEFINE v == c.wire \o Marked(d.out, TRUE)
           t == FwdRefill(d.s)
           w == [c EXCEPT !.broken = d.broken, !.wire = v]
<1>4. Buffering(d.s) /\ v \in Seq(WireUnits) /\ Ordered(v, d.s)
  BY <1>2, <1>3, DrainedOrder, Zenon
<1>5. Extends(d.s, t)
  BY <1>4, RefillExtends, Zenon
<1> HIDE DEF v, t
<1>6. Buffering(t) /\ Ordered(v, t)
  BY <1>4, <1>5, ExtendedOrder, Zenon
<1>7. /\ DOMAIN w = DOMAIN Free /\ w.ring = c.ring /\ w.wire = v /\ w.base = c.base
      /\ w.phase = c.phase /\ w.loading = c.loading
  <2> HIDE DEF c
  <2> QED BY <1>2 DEF Connection, Free
<1>8. Written(c, d) = w \/ Written(c, d) = Mark(w, "crossed") \/ Written(c, d) = Mark(w, "stranded")
  BY Zenon DEF Written, Marked, v
<1> HIDE DEF w
<1>9. Connection(w)
  BY <1>2, <1>4, <1>7, Zenon DEF Connection
<1>10. Keeps(w, Written(c, d))
  <2>1. Keeps(w, w)
    BY Zenon DEF Keeps
  <2> QED BY <1>8, <1>9, <2>1, MarkKeeps, Zenon
<1>11. s.exists = t.exists /\ s.dropped = t.dropped
  BY <1>3, <1>5, Zenon DEF Extends, Drains
<1>12. Paired(w, t)
  BY <1>6, <1>7, <1>9, <1>11, Zenon DEF Paired
<1>13. Paired(Written(c, d), t)
  BY <1>10, <1>12, Zenon DEF Keeps, Paired, Connection
<1>14. Written(c, d).phase = c.phase
  BY <1>7, <1>10, Zenon DEF Keeps
<1>15. DOMAIN peer = Addrs /\ DOMAIN st = Addrs
  BY Zenon DEF Conns
<1>16. /\ DOMAIN peer' = Addrs /\ DOMAIN st' = Addrs /\ peer'[a] = Written(c, d) /\ st'[a] = t
       /\ \A b \in Addrs : b # a => peer'[b] = peer[b] /\ st'[b] = st[b]
  <2>1. st' = [st EXCEPT ![a] = t] /\ peer' = [peer EXCEPT ![a] = Written(c, d)]
    BY <1>1, Zenon DEF t
  <2> QED BY <1>15, <2>1
<1> QED BY <1>13, <1>14, <1>16, OneConn, Zenon

\* repl_fwd_process_one: the node leaves the queue with its bytes.
LEMMA FwdTakeKeeps ==
    ASSUME FwdInv, FwdTake
    PROVE  FwdInv'
<1> DEFINE n == Head(queue)
           s == [st[n.c] EXCEPT !.exists = TRUE]
<1>1. Numbers /\ Conns /\ Lists /\ Accounted
  BY Zenon DEF FwdInv
<1>2. /\ queue # << >> /\ queue' = Tail(queue) /\ qbytes' = qbytes - Len(n.bytes)
      /\ off' = off /\ fwdLog' = fwdLog /\ replicas' = replicas /\ rx' = rx
      /\ \/ s.dropped /\ peer' = peer /\ st' = st
         \/ ~s.dropped /\ Pump(n.c, FwdAppend(s, n.bytes, n.end))
  BY Zenon DEF FwdTake
<1>3. queue \in Seq(LiveNodes) /\ queue \in Seq(Nodes)
  <2>1. queue \in Seq(LiveNodes) /\ LiveNodes \subseteq Nodes
    BY <1>1, Zenon DEF Lists, LiveNodes
  <2> QED BY <2>1, SeqMonotonic
<1>4. n \in LiveNodes /\ Tail(queue) \in Seq(LiveNodes)
  BY <1>2, <1>3, HeadTailProperties
<1>5. n \in Nodes /\ n.c \in Addrs /\ peer[n.c].phase # "free" /\ Run(n.bytes, n.end)
  BY <1>4, Zenon DEF LiveNodes, OpenAddrs
<1>6. n.bytes \in Seq(Nat) /\ n.end \in Nat
  BY <1>5 DEF Nodes
<1> HIDE DEF n
<1>7. Conns' /\ OpenAddrs \subseteq OpenAddrs'
  <2>1. CASE peer' = peer /\ st' = st
    BY <1>1, <2>1, Zenon DEF Conns, OpenAddrs
  <2>2. CASE ~s.dropped /\ Pump(n.c, FwdAppend(s, n.bytes, n.end))
    <3> DEFINE o == st[n.c]
               t == FwdAppend(s, n.bytes, n.end)
    <3>1. Paired(peer[n.c], o)
      BY <1>1, <1>5, Zenon DEF Conns
    <3>2. Buffering(o) /\ Ordered(peer[n.c].wire, o) /\ Connection(peer[n.c]) /\ peer[n.c].wire \in Seq(WireUnits)
      BY <3>1, Zenon DEF Paired, Connection
    <3>3. DOMAIN s = DOMAIN o /\ s.buf = o.buf /\ s.wm = o.wm /\ s.dropped = o.dropped
      <4> HIDE DEF o
      <4> QED BY <3>2 DEF Buffering, NoState, o
    <3> HIDE DEF s, o
    <3>4. Buffering(s) /\ Ordered(peer[n.c].wire, s)
      BY <3>2, <3>3, Zenon DEF Buffering, Ordered
    <3>5. Extends(s, t)
      BY <1>5, <1>6, <3>4, AppendExtends, Zenon
    <3>6. Buffering(t) /\ Ordered(peer[n.c].wire, t) /\ t.dropped = s.dropped
      <4> HIDE DEF t
      <4> QED BY <3>2, <3>4, <3>5, ExtendedOrder, Zenon DEF Extends
    <3> HIDE DEF t
    <3>7. Paired(peer[n.c], t) /\ ~t.dropped
      BY <1>5, <2>2, <3>1, <3>2, <3>6, Zenon DEF Paired
    <3> QED BY <1>1, <1>5, <2>2, <3>7, PumpKeeps, Zenon DEF t
  <2> QED BY <1>2, <2>1, <2>2, Zenon
<1>8. Numbers'
  BY <1>1, <1>2, NumbersSame, Zenon
<1>9. Lists'
  <2>1. Tail(queue) \in Seq(LiveNodes')
    BY <1>4, <1>7, OpenStays, Zenon
  <2> QED BY <1>1, <1>2, <1>7, <2>1, OpenStays, Zenon DEF Lists
<1>10. Accounted'
  <2>1. /\ Bytes(Tail(queue)) \in Nat /\ Len(n.bytes) \in Nat
        /\ Bytes(queue) = Bytes(Tail(queue)) + Len(n.bytes)
    BY <1>2, <1>3, BytesTail, Zenon DEF n
  <2> DEFINE x == Bytes(Tail(queue))
             y == Len(n.bytes)
  <2>2. qbytes = x + y /\ qbytes <= QueueMax /\ qbytes' = qbytes - y /\ x \in Nat /\ y \in Nat /\ QueueMax \in Nat
    BY <1>1, <1>2, <2>1, FwdAssumption, Zenon DEF Accounted
  <2> HIDE DEF x, y
  <2>3. qbytes' = x /\ x <= QueueMax
    BY <2>2
  <2> QED BY <1>2, <2>3, Zenon DEF Accounted, x
<1> QED BY <1>7, <1>8, <1>9, <1>10, Zenon DEF FwdInv

\* repl_fwd_drain_fd
LEMMA FwdWritableKeeps ==
    ASSUME FwdInv, NEW a \in Addrs, FwdWritable(a)
    PROVE  FwdInv'
<1>1. Numbers /\ Conns /\ Lists /\ Accounted
  BY Zenon DEF FwdInv
<1>2. /\ ~st[a].dropped /\ Pump(a, st[a])
      /\ off' = off /\ fwdLog' = fwdLog /\ replicas' = replicas /\ rx' = rx /\ queue' = queue /\ qbytes' = qbytes
  BY DEF FwdWritable
<1>3. Paired(peer[a], st[a])
  BY <1>1, Zenon DEF Conns
<1>4. Conns' /\ OpenAddrs \subseteq OpenAddrs'
  BY <1>1, <1>2, <1>3, PumpKeeps, Zenon
<1>5. Numbers' /\ Accounted'
  BY <1>1, <1>2, NumbersSame, AccountedSame, Zenon
<1>6. Lists'
  BY <1>1, <1>2, <1>4, ListsSame, Zenon
<1> QED BY <1>4, <1>5, <1>6, Zenon DEF FwdInv

-----------------------------------------------------------------------------
(* The reactor                                                             *)

\* Where the walk over the replicas stands next.
LEMMA Walks ==
    ASSUME NEW todo
    PROVE  /\ DOMAIN Walk(todo) = {"pc", "todo", "node"} /\ Walk(todo).todo = todo
           /\ Walk(todo).pc \in {"idle", "each"} /\ (Walk(todo).pc = "each" => todo # << >>)
           /\ (Walk(todo).pc = "idle" => todo = << >>)
<1>1. CASE todo = << >>
  BY <1>1 DEF Walk, Idle
<1>2. CASE todo # << >>
  BY <1>2 DEF Walk, Idle
<1> QED BY <1>1, <1>2

\* A node to be queued.
LEMMA Enqueues ==
    ASSUME NEW a \in OpenAddrs, NEW bytes \in Seq(Nat), NEW end \in Nat, Run(bytes, end), NEW todo
    PROVE  /\ Enqueueing(a, bytes, end, todo).node \in LiveNodes
           /\ DOMAIN Enqueueing(a, bytes, end, todo) = {"pc", "todo", "node"}
           /\ Enqueueing(a, bytes, end, todo).todo = todo
           /\ Enqueueing(a, bytes, end, todo).pc = "put"
<1> DEFINE n == [c |-> a, bytes |-> bytes, end |-> end]
<1>1. n \in Nodes /\ n.c = a /\ n.bytes = bytes /\ n.end = end
  BY DEF Nodes, OpenAddrs
<1> HIDE DEF n
<1>2. n \in LiveNodes
  BY <1>1, Zenon DEF LiveNodes
<1>3. Enqueueing(a, bytes, end, todo) = [pc |-> "put", todo |-> todo, node |-> n]
  BY Zenon DEF Enqueueing, n
<1> QED BY <1>2, <1>3

\* The lists after the reactor has put a node aside for a.
LEMMA ListsPut ==
    ASSUME Lists, OpenAddrs \subseteq OpenAddrs', replicas' = replicas, queue' = queue, NEW a \in OpenAddrs,
           NEW bytes \in Seq(Nat), NEW end \in Nat, Run(bytes, end), NEW todo \in Seq(OpenAddrs),
           rx' = Enqueueing(a, bytes, end, todo), todo # << >> => off' # 0
    PROVE  Lists'
<1> DEFINE e == Enqueueing(a, bytes, end, todo)
<1>0. e.node \in LiveNodes /\ DOMAIN e = {"pc", "todo", "node"} /\ e.todo = todo /\ e.pc = "put"
  BY Enqueues
<1> HIDE DEF e
<1>1. /\ rx'.node \in LiveNodes /\ DOMAIN rx' = {"pc", "todo", "node"}
      /\ rx'.todo = todo /\ rx'.pc = "put"
  BY <1>0, Zenon DEF e
<1>2. rx'.pc \in {"idle", "each", "put", "wait"} /\ rx'.pc # "idle" /\ rx'.pc # "each"
  BY <1>1
<1> QED BY <1>1, <1>2, OpenStays, Zenon DEF Lists

\* The lists after the walk has gone on.
LEMMA ListsWalk ==
    ASSUME Lists, OpenAddrs \subseteq OpenAddrs', queue' \in Seq(LiveNodes), replicas' \in Seq(OpenAddrs),
           NEW todo \in Seq(OpenAddrs), rx' = Walk(todo), todo # << >> => off' # 0
    PROVE  Lists'
<1>1. /\ DOMAIN rx' = {"pc", "todo", "node"} /\ rx'.todo = todo
      /\ rx'.pc \in {"idle", "each"} /\ (rx'.pc = "each" => todo # << >>)
      /\ (rx'.pc = "idle" => todo = << >>)
  BY Walks, Zenon
<1>2. rx'.pc \in {"idle", "each", "put", "wait"} /\ rx'.pc \notin {"put", "wait"}
  BY <1>1
<1> QED BY <1>1, <1>2, OpenStays, Zenon DEF Lists

\* on_accept
LEMMA AcceptKeeps ==
    ASSUME FwdInv, NEW a \in Addrs, Accept(a)
    PROVE  FwdInv'
<1> DEFINE c == [Free EXCEPT !.phase = "client"]
<1>1. Numbers /\ Conns /\ Lists /\ Accounted
  BY Zenon DEF FwdInv
<1>2. /\ peer' = [peer EXCEPT ![a] = c] /\ off' = off /\ fwdLog' = fwdLog /\ replicas' = replicas
      /\ rx' = rx /\ queue' = queue /\ qbytes' = qbytes /\ st' = st
  BY DEF Accept
<1>3. << >> \in Seq(Nat) /\ << >> \in Seq(WireUnits) /\ Len(<< >>) = 0
  BY EmptySeq
<1>4. Connection(c) /\ c.wire = << >> /\ c.phase = "client" /\ c.phase # "free"
  BY <1>3 DEF Connection, Free
<1> HIDE DEF c
<1>5. DOMAIN peer = Addrs /\ DOMAIN st = Addrs /\ Buffering(st[a]) /\ Ordered(peer[a].wire, st[a])
  BY <1>1, Zenon DEF Conns, Paired
<1>6. 1..Len(<< >>) = {}
  BY <1>3
<1>7. Ordered(c.wire, st[a])
  BY <1>4, <1>5, <1>6, Zenon DEF Ordered
<1>8. Paired(c, st[a])
  BY <1>4, <1>5, <1>7, Zenon DEF Paired
<1>9. /\ DOMAIN peer' = Addrs /\ DOMAIN st' = Addrs /\ peer'[a] = c /\ st'[a] = st[a]
      /\ \A b \in Addrs : b # a => peer'[b] = peer[b] /\ st'[b] = st[b]
  BY <1>2, <1>5
<1>10. Conns' /\ OpenAddrs \subseteq OpenAddrs'
  BY <1>1, <1>4, <1>8, <1>9, OneConn, Zenon
<1>11. Lists' /\ Numbers' /\ Accounted'
  BY <1>1, <1>2, <1>10, ListsSame, NumbersSame, AccountedSame, Zenon
<1> QED BY <1>10, <1>11, Zenon DEF FwdInv

\* The replay that follows +CONTINUE.
LEMMA UnitsSeq == ASSUME NEW lo \in Nat, NEW hi \in Nat PROVE Units(lo, hi) \in Seq(Nat)
<1>1. CASE lo <= hi
  <2> DEFINE n == hi - lo
             u == [i \in 1..n |-> lo + i]
  <2>1. n \in Nat
    BY <1>1
  <2> HIDE DEF n
  <2>2. u \in Seq(Nat)
    BY <2>1
  <2> QED BY <2>2, Zenon DEF Units, n
<1>2. CASE ~(lo <= hi)
  <2>1. 1..(hi - lo) = 1..0
    BY <1>2
  <2>2. Units(lo, hi) = [i \in 1..0 |-> lo + i]
    BY <2>1, Zenon DEF Units
  <2>3. [i \in 1..0 |-> lo + i] \in Seq(Nat)
    OBVIOUS
  <2> QED BY <2>2, <2>3
<1> QED BY <1>1, <1>2

\* repl_add_slave: the replica comes first in the list.
LEMMA Added ==
    ASSUME NEW O, NEW q \in Seq(O), NEW a \in O
    PROVE  <<a>> \o q \in Seq(O)
<1>1. <<a>> \in Seq(O)
  OBVIOUS
<1> QED BY <1>1, ConcatProperties

\* A client that has become a replica.
LEMMA SyncKeeps ==
    ASSUME FwdInv, NEW a \in Addrs, peer[a].phase = "client", replicas' = <<a>> \o replicas,
           NEW d, peer' = [peer EXCEPT ![a] = d],
           DOMAIN d = DOMAIN peer[a] /\ d.ring \in Seq(Nat) /\ d.wire = peer[a].wire /\ d.base \in Nat
               /\ d.phase = "sync",
           UNCHANGED <<off, rx, queue, qbytes, st>>
    PROVE  Conns' /\ Lists' /\ Accounted'
<1>1. Conns /\ Lists /\ Accounted
  BY Zenon DEF FwdInv
<1>2. off' = off /\ rx' = rx /\ queue' = queue /\ qbytes' = qbytes /\ st' = st
  OBVIOUS
<1>3. DOMAIN peer = Addrs /\ DOMAIN st = Addrs /\ Paired(peer[a], st[a])
  BY <1>1, Zenon DEF Conns
<1>4. /\ DOMAIN peer' = Addrs /\ DOMAIN st' = Addrs /\ peer'[a] = d /\ st'[a] = st[a]
      /\ \A b \in Addrs : b # a => peer'[b] = peer[b] /\ st'[b] = st[b]
  BY <1>2, <1>3
<1>5. d.phase # "free"
  OBVIOUS
<1>6. Paired(d, st[a])
  BY <1>3, <1>5, Zenon DEF Paired, Connection
<1>7. Conns' /\ OpenAddrs \subseteq OpenAddrs'
  BY <1>1, <1>4, <1>5, <1>6, OneConn, Zenon
<1>8. a \in OpenAddrs
  BY DEF OpenAddrs
<1>9. replicas' \in Seq(OpenAddrs)
  BY <1>1, <1>8, Added, Zenon DEF Lists
<1>10. Lists'
  BY <1>1, <1>2, <1>7, <1>9, OpenStays, Zenon DEF Lists
<1>11. Accounted'
  BY <1>1, <1>2, AccountedSame, Zenon
<1> QED BY <1>7, <1>10, <1>11, Zenon

\* REPLSYNC, answered with +CONTINUE.
LEMMA FwdSyncContinueKeeps ==
    ASSUME FwdInv, NEW a \in Addrs, NEW req \in Nat, FwdSyncContinue(a, req)
    PROVE  FwdInv'
<1> DEFINE c == peer[a]
           u == Units(req, off)
           d == [c EXCEPT !.phase = "sync", !.replica = TRUE, !.base = req, !.upto = off, !.ring = u]
<1>1. Numbers /\ Conns
  BY Zenon DEF FwdInv
<1>2. Connection(c) /\ u \in Seq(Nat)
  BY <1>1, UnitsSeq, Zenon DEF Conns, Paired, Numbers
<1>3. /\ c.phase = "client" /\ replicas' = <<a>> \o replicas /\ peer' = [peer EXCEPT ![a] = d]
      /\ UNCHANGED <<off, rx, queue, qbytes, st>> /\ UNCHANGED <<off, fwdLog>>
  BY DEF FwdSyncContinue
<1> HIDE DEF c, u
<1>4. DOMAIN d = DOMAIN c /\ d.ring = u /\ d.wire = c.wire /\ d.base = req /\ d.phase = "sync"
  BY <1>2 DEF Connection, Free
<1> HIDE DEF d
<1>5. Conns' /\ Lists' /\ Accounted'
  BY <1>2, <1>3, <1>4, SyncKeeps, Zenon DEF c
<1>6. Numbers'
  BY <1>1, <1>3, NumbersSame, Zenon
<1> QED BY <1>5, <1>6, Zenon DEF FwdInv

\* REPLSYNC, answered with +FULLRESYNC.
LEMMA FwdSyncFullKeeps ==
    ASSUME FwdInv, NEW a \in Addrs, NEW ok \in BOOLEAN, FwdSyncFull(a, ok)
    PROVE  FwdInv'
<1> DEFINE c == peer[a]
           d == [c EXCEPT !.phase = "sync", !.replica = TRUE, !.base = off, !.upto = off,
                          !.pending = ok, !.loading = ok, !.draining = ~ok]
<1>1. Numbers /\ Conns
  BY Zenon DEF FwdInv
<1>2. Connection(c) /\ off \in Nat
  BY <1>1, Zenon DEF Conns, Paired, Numbers
<1>3. /\ c.phase = "client" /\ replicas' = <<a>> \o replicas /\ peer' = [peer EXCEPT ![a] = d]
      /\ UNCHANGED <<off, rx, queue, qbytes, st>> /\ off' = off /\ fwdLog' = Reset(off)
  BY DEF FwdSyncFull
<1> HIDE DEF c
<1>4. DOMAIN d = DOMAIN c /\ d.ring = c.ring /\ d.wire = c.wire /\ d.base = off /\ d.phase = "sync"
  BY <1>2 DEF Connection, Free
<1> HIDE DEF d
<1>5. c.ring \in Seq(Nat)
  BY <1>2, Zenon DEF Connection
<1>6. Conns' /\ Lists' /\ Accounted'
  BY <1>2, <1>3, <1>4, <1>5, SyncKeeps, Zenon DEF c
<1>7. Numbers'
  BY <1>1, <1>3 DEF Numbers, Reset
<1> QED BY <1>6, <1>7, Zenon DEF FwdInv

\* flush_conn_output
LEMMA FlushRingKeeps ==
    ASSUME FwdInv, NEW a \in Addrs, NEW k \in Nat, FlushRing(a, k)
    PROVE  FwdInv'
<1> DEFINE c == peer[a]
           m == [i \in 1..k |-> [n |-> c.ring[i], fwd |-> FALSE]]
           r == SubSeq(c.ring, k + 1, Len(c.ring))
           v == c.wire \o m
           d == [c EXCEPT !.ring = r, !.wire = v]
           out == SubSeq(c.ring, 1, k)
<1>1. Numbers /\ Conns /\ Lists /\ Accounted
  BY Zenon DEF FwdInv
<1>2. Paired(c, st[a]) /\ DOMAIN peer = Addrs /\ DOMAIN st = Addrs
  BY <1>1, Zenon DEF Conns
<1>3. /\ Connection(c) /\ Buffering(st[a]) /\ Ordered(c.wire, st[a])
      /\ c.wire \in Seq(WireUnits) /\ c.ring \in Seq(Nat)
  BY <1>2, Zenon DEF Paired, Connection
<1>4. /\ k \in 1..Len(c.ring) /\ peer' = [peer EXCEPT ![a] = d] /\ off' = off /\ fwdLog' = fwdLog
      /\ replicas' = replicas /\ rx' = rx /\ queue' = queue /\ qbytes' = qbytes /\ st' = st
  <2>1. peer' = [peer EXCEPT ![a] = d]
    BY Zenon DEF FlushRing
  <2> HIDE DEF d
  <2> QED BY <2>1, Zenon DEF FlushRing
<1> HIDE DEF c
<1>5. Len(c.ring) \in Nat /\ k <= Len(c.ring)
  BY <1>3, <1>4
<1>6. out \in Seq(Nat) /\ Len(out) = k /\ DOMAIN out = 1..k /\ \A i \in 1..k : out[i] = c.ring[i]
  BY <1>3, <1>5
<1>7. r \in Seq(Nat)
  BY <1>3, <1>5
<1> HIDE DEF out, r
<1>8. m = Marked(out, FALSE)
  BY <1>6, Zenon DEF Marked
<1>9. v \in Seq(WireUnits) /\ Ordered(v, st[a])
  BY <1>3, <1>6, <1>8, FlushedOrder, Zenon
<1> HIDE DEF v
<1>10. DOMAIN d = DOMAIN c /\ d.ring = r /\ d.wire = v /\ d.base = c.base /\ d.phase = c.phase /\ d.loading = c.loading
  BY <1>3 DEF Connection, Free
<1> HIDE DEF d
<1>11. Paired(d, st[a])
  BY <1>2, <1>7, <1>9, <1>10, Zenon DEF Paired, Connection
<1>12. /\ DOMAIN peer' = Addrs /\ DOMAIN st' = Addrs /\ peer'[a] = d /\ st'[a] = st[a]
       /\ \A b \in Addrs : b # a => peer'[b] = peer[b] /\ st'[b] = st[b]
  BY <1>2, <1>4
<1>13. Conns' /\ OpenAddrs \subseteq OpenAddrs'
  BY <1>1, <1>10, <1>11, <1>12, OneConn, Zenon DEF c
<1>14. Lists' /\ Numbers' /\ Accounted'
  BY <1>1, <1>4, <1>13, ListsSame, NumbersSame, AccountedSame, Zenon
<1> QED BY <1>13, <1>14, Zenon DEF FwdInv

\* A client's write.
LEMMA FwdClientWriteKeeps ==
    ASSUME FwdInv, FwdClientWrite
    PROVE  FwdInv'
<1>1. Numbers /\ Conns /\ Lists /\ Accounted
  BY Zenon DEF FwdInv
<1>2. /\ off' = off + 1 /\ fwdLog' = Feed /\ rx' = Walk(replicas) /\ replicas' = replicas
      /\ peer' = peer /\ st' = st /\ queue' = queue /\ qbytes' = qbytes
  BY DEF FwdClientWrite
<1>3. off \in Nat /\ off' \in Nat /\ off' # 0
  BY <1>1, <1>2 DEF Numbers
<1>4. Numbers'
  <2>1. FwdBacklogSize \in Nat
    BY FwdAssumption
  <2>2. CASE replicas = << >>
    BY <1>1, <1>2, <1>3, <2>2 DEF Numbers, Feed
  <2>3. CASE replicas # << >>
    <3> DEFINE from == IF fwdLog.buf THEN fwdLog.start ELSE off
               end  == (IF fwdLog.buf THEN fwdLog.end ELSE off) + 1
               start == IF end - from > FwdBacklogSize THEN end - FwdBacklogSize ELSE from
    <3>1. from \in Nat /\ end \in Nat
      BY <1>1, <1>3 DEF Numbers
    <3>2. fwdLog' = [fwdLog EXCEPT !.buf = TRUE, !.end = end, !.start = start]
      BY <1>2, <2>3, Zenon DEF Feed
    <3> HIDE DEF from, end
    <3>3. start \in Nat
      BY <2>1, <3>1
    <3> HIDE DEF start
    <3> QED BY <1>1, <1>3, <3>1, <3>2, <3>3 DEF Numbers
  <2> QED BY <2>2, <2>3
<1>5. Conns' /\ OpenAddrs \subseteq OpenAddrs'
  BY <1>1, <1>2, Zenon DEF Conns, OpenAddrs
<1>6. Lists'
  <2>1. replicas \in Seq(OpenAddrs) /\ queue \in Seq(LiveNodes)
    BY <1>1, Zenon DEF Lists
  <2> QED BY <1>1, <1>2, <1>3, <1>5, <2>1, ListsWalk, Zenon
<1>7. Accounted'
  BY <1>1, <1>2, AccountedSame, Zenon
<1> QED BY <1>4, <1>5, <1>6, <1>7, Zenon DEF FwdInv

\* repl_unlink_replica_locked leaves the other replicas in the list.
LEMMA UnlinkLists ==
    ASSUME NEW O, replicas \in Seq(O), NEW a
    PROVE  FwdUnlink(a) \in Seq(O \ {a}) /\ FwdUnlink(a) \in Seq(O)
<1> DEFINE K == {i \in DOMAIN replicas : replicas[i] # a}
           r == Kept(replicas, K)
<1>1. r \in Seq(O) /\ From(r, replicas, K)
  BY KeptElements, Zenon
<1>2. \A i \in K : replicas[i] # a
  OBVIOUS
<1> HIDE DEF r, K
<1>3. \A j \in 1..Len(r) : r[j] \in O
  BY <1>1, ElementOfSeq
<1>4. \A j \in 1..Len(r) : r[j] \in O \ {a}
  BY <1>1, <1>2, <1>3, Zenon DEF From
<1>5. r \in Seq(O \ {a})
  BY <1>1, <1>4
<1> QED BY <1>1, <1>5, Zenon DEF FwdUnlink, r, K

\* One replica of repl_broadcast.
LEMMA BroadcastNextKeeps ==
    ASSUME FwdInv, BroadcastNext
    PROVE  FwdInv'
<1> DEFINE a == Head(rx.todo)
           c == peer[a]
<1>1. Numbers /\ Conns /\ Lists /\ Accounted
  BY Zenon DEF FwdInv
<1>2. /\ rx.pc = "each" /\ off' = off /\ fwdLog' = fwdLog /\ queue' = queue /\ qbytes' = qbytes /\ st' = st
      /\ \/ replicas' = FwdUnlink(a) /\ peer' = [peer EXCEPT ![a] = Unlinked(c)] /\ rx' = Walk(Tail(rx.todo))
         \/ /\ replicas' = replicas /\ rx' = Walk(Tail(rx.todo))
            /\ peer' = [peer EXCEPT ![a] = IF fullsync /\ ~c.pending THEN Mark(c, "passed") ELSE c]
         \/ peer' = peer /\ replicas' = replicas /\ rx' = Enqueueing(a, <<off>>, off, Tail(rx.todo))
  BY DEF BroadcastNext
<1>3. /\ rx.todo \in Seq(OpenAddrs) /\ rx.todo # << >> /\ off # 0 /\ off' # 0 /\ off \in Nat
      /\ replicas \in Seq(OpenAddrs) /\ queue' \in Seq(LiveNodes)
  BY <1>1, <1>2, Zenon DEF Lists, Numbers
<1>4. a \in OpenAddrs /\ Tail(rx.todo) \in Seq(OpenAddrs)
  BY <1>3, HeadTailProperties
<1> HIDE DEF a
<1>5. a \in Addrs
  BY <1>4, Zenon DEF OpenAddrs
<1>6. Connection(c)
  BY <1>1, <1>5, Zenon DEF Conns, Paired
<1>7. Numbers' /\ Accounted'
  BY <1>1, <1>2, NumbersSame, AccountedSame, Zenon
<1>8. CASE replicas' = FwdUnlink(a) /\ peer' = [peer EXCEPT ![a] = Unlinked(c)] /\ rx' = Walk(Tail(rx.todo))
  <2>1. Keeps(c, Unlinked(c))
    <3> HIDE DEF c
    <3> QED BY <1>6 DEF Keeps, Unlinked, Connection, Free
  <2>2. Conns' /\ OpenAddrs \subseteq OpenAddrs'
    BY <1>1, <1>2, <1>5, <1>8, <2>1, KeptConn, Zenon
  <2>3. replicas' \in Seq(OpenAddrs)
    BY <1>3, <1>8, UnlinkLists, Zenon
  <2>4. Lists'
    BY <1>1, <1>3, <1>4, <1>8, <2>2, <2>3, ListsWalk, Zenon
  <2> QED BY <1>7, <2>2, <2>4, Zenon DEF FwdInv
<1>9. CASE /\ replicas' = replicas /\ rx' = Walk(Tail(rx.todo))
           /\ peer' = [peer EXCEPT ![a] = IF fullsync /\ ~c.pending THEN Mark(c, "passed") ELSE c]
  <2> DEFINE d == IF fullsync /\ ~c.pending THEN Mark(c, "passed") ELSE c
  <2>1. Keeps(c, c)
    BY Zenon DEF Keeps
  <2>2. Keeps(c, d)
    BY <1>6, <2>1, MarkKeeps, Zenon
  <2> HIDE DEF d
  <2>3. Conns' /\ OpenAddrs \subseteq OpenAddrs'
    BY <1>1, <1>2, <1>5, <1>9, <2>2, KeptConn, Zenon DEF d
  <2>4. Lists'
    BY <1>1, <1>3, <1>4, <1>9, <2>3, ListsWalk, Zenon
  <2> QED BY <1>7, <2>3, <2>4, Zenon DEF FwdInv
<1>10. CASE peer' = peer /\ replicas' = replicas /\ rx' = Enqueueing(a, <<off>>, off, Tail(rx.todo))
  <2>1. Conns' /\ OpenAddrs \subseteq OpenAddrs'
    BY <1>1, <1>2, <1>10, Zenon DEF Conns, OpenAddrs
  <2>2. <<off>> \in Seq(Nat) /\ Run(<<off>>, off)
    BY <1>3 DEF Run
  <2>3. queue' = queue
    BY <1>2, Zenon
  <2>4. Lists'
    BY <1>1, <1>3, <1>4, <1>10, <2>1, <2>2, <2>3, ListsPut, Zenon
  <2> QED BY <1>7, <2>1, <2>4, Zenon DEF FwdInv
<1> QED BY <1>2, <1>8, <1>9, <1>10, Zenon

\* repl_fwd_enqueue
LEMMA EnqueueKeeps ==
    ASSUME FwdInv, Enqueue
    PROVE  FwdInv'
<1>1. Numbers /\ Conns /\ Lists /\ Accounted
  BY Zenon DEF FwdInv
<1>2. /\ rx.pc = "put" /\ off' = off /\ fwdLog' = fwdLog /\ replicas' = replicas /\ peer' = peer /\ st' = st
      /\ \/ rx' = [rx EXCEPT !.pc = "wait"] /\ queue' = queue /\ qbytes' = qbytes
         \/ /\ qbytes + Len(rx.node.bytes) <= QueueMax /\ queue' = Append(queue, rx.node)
            /\ qbytes' = qbytes + Len(rx.node.bytes) /\ rx' = Walk(rx.todo)
  BY DEF Enqueue
<1>3. Numbers'
  BY <1>1, <1>2, NumbersSame, Zenon
<1>4. Conns' /\ OpenAddrs \subseteq OpenAddrs'
  BY <1>1, <1>2, Zenon DEF Conns, OpenAddrs
<1>5. rx.pc \in {"put", "wait"}
  BY <1>2
<1>6. /\ rx.node \in LiveNodes /\ rx.node \in Nodes /\ rx.todo \in Seq(OpenAddrs)
      /\ queue \in Seq(LiveNodes) /\ replicas \in Seq(OpenAddrs)
  BY <1>1, <1>5, Zenon DEF Lists, LiveNodes
<1>7. CASE rx' = [rx EXCEPT !.pc = "wait"] /\ queue' = queue /\ qbytes' = qbytes
  <2>1. /\ DOMAIN rx' = DOMAIN rx /\ rx'.todo = rx.todo /\ rx'.node = rx.node
        /\ rx'.pc \in {"idle", "each", "put", "wait"} /\ rx'.pc # "idle" /\ rx'.pc # "each"
    BY <1>1, <1>7 DEF Lists
  <2>2. Lists'
    BY <1>1, <1>2, <1>4, <1>6, <1>7, <2>1, OpenStays, Zenon DEF Lists
  <2>3. Accounted'
    BY <1>1, <1>7, AccountedSame, Zenon
  <2> QED BY <1>3, <1>4, <2>2, <2>3, Zenon DEF FwdInv
<1>8. CASE /\ qbytes + Len(rx.node.bytes) <= QueueMax /\ queue' = Append(queue, rx.node)
           /\ qbytes' = qbytes + Len(rx.node.bytes) /\ rx' = Walk(rx.todo)
  <2>1. queue' \in Seq(LiveNodes)
    BY <1>6, <1>8, AppendProperties
  <2>2. rx.todo # << >> => off' # 0
    BY <1>1, <1>2, Zenon DEF Lists
  <2>3. Lists'
    BY <1>1, <1>2, <1>4, <1>6, <1>8, <2>1, <2>2, ListsWalk, Zenon
  <2>4. queue \in Seq(Nodes)
    <3>1. LiveNodes \subseteq Nodes
      BY Zenon DEF LiveNodes
    <3> QED BY <1>6, <3>1, SeqMonotonic
  <2>5. Bytes(Append(queue, rx.node)) = Bytes(queue) + Len(rx.node.bytes)
    BY <1>6, <2>4, BytesAppend, Zenon
  <2>6. Accounted'
    BY <1>1, <1>8, <2>5, Zenon DEF Accounted
  <2> QED BY <1>3, <1>4, <2>3, <2>6, Zenon DEF FwdInv
<1> QED BY <1>2, <1>7, <1>8, Zenon

\* pthread_cond_wait returns.
LEMMA SpuriousWakeupKeeps ==
    ASSUME FwdInv, SpuriousWakeup
    PROVE  FwdInv'
<1>1. Numbers /\ Conns /\ Lists /\ Accounted
  BY Zenon DEF FwdInv
<1>2. /\ rx.pc = "wait" /\ off' = off /\ fwdLog' = fwdLog /\ replicas' = replicas /\ peer' = peer /\ st' = st
      /\ rx' = [rx EXCEPT !.pc = "put"] /\ queue' = queue /\ qbytes' = qbytes
  BY DEF SpuriousWakeup
<1>3. Numbers' /\ Accounted'
  BY <1>1, <1>2, NumbersSame, AccountedSame, Zenon
<1>4. Conns' /\ OpenAddrs \subseteq OpenAddrs'
  BY <1>1, <1>2, Zenon DEF Conns, OpenAddrs
<1>5. rx.pc \in {"put", "wait"}
  BY <1>2
<1>6. /\ DOMAIN rx' = DOMAIN rx /\ rx'.todo = rx.todo /\ rx'.node = rx.node
      /\ rx'.pc \in {"idle", "each", "put", "wait"} /\ rx'.pc # "idle" /\ rx'.pc # "each"
  BY <1>1, <1>2 DEF Lists
<1>7. Lists'
  BY <1>1, <1>2, <1>4, <1>5, <1>6, OpenStays, Zenon DEF Lists
<1> QED BY <1>3, <1>4, <1>7, Zenon DEF FwdInv

\* A piece of the backlog, put aside for the replica at a.
LEMMA ListsCopy ==
    ASSUME Numbers, Lists, OpenAddrs \subseteq OpenAddrs', replicas' = replicas, queue' = queue, NEW a \in OpenAddrs,
           NEW from \in Nat, CopyRange(from) # << >>, rx' = Enqueueing(a, CopyRange(from), fwdLog.end, << >>)
    PROVE  Lists'
<1> DEFINE u == CopyRange(from)
<1>1. u \in Seq(Nat) /\ Run(u, from + Len(u)) /\ from + Len(u) = fwdLog.end
  BY CopiedRun, Zenon
<1> HIDE DEF u
<1>2. Run(u, fwdLog.end) /\ fwdLog.end \in Nat
  BY <1>1, Zenon DEF Numbers
<1>3. << >> \in Seq(OpenAddrs)
  BY EmptySeq
<1> QED BY <1>1, <1>2, <1>3, ListsPut, Zenon DEF u

\* The water mark of a connection, and the larger of two offsets, are offsets.
LEMMA Offsets ==
    ASSUME Conns, NEW a \in Addrs, NEW m \in Nat
    PROVE  Larger(m, Watermark(a)) \in Nat
<1>1. st[a].wm \in Nat
  BY Zenon DEF Conns, Paired, Buffering
<1>2. Watermark(a) \in Nat
  BY <1>1 DEF Watermark
<1> QED BY <1>2, Zenon DEF Larger

\* REPLACK
LEMMA FwdReplAckKeeps ==
    ASSUME FwdInv, NEW a \in Addrs, NEW k \in Nat, FwdReplAck(a, k)
    PROVE  FwdInv'
<1> DEFINE c == peer[a]
           applied == c.base + k
           from == Larger(applied, Watermark(a))
           d == IF from < c.upto THEN Mark(c, "resent") ELSE c
<1>1. Numbers /\ Conns /\ Lists /\ Accounted
  BY Zenon DEF FwdInv
<1>2. /\ c.phase = "sync" /\ off' = off /\ fwdLog' = fwdLog /\ replicas' = replicas
      /\ queue' = queue /\ qbytes' = qbytes /\ st' = st
      /\ \/ rx' = rx /\ peer' = peer
         \/ /\ CopyRange(from) # << >> /\ rx' = Enqueueing(a, CopyRange(from), fwdLog.end, << >>)
            /\ peer' = [peer EXCEPT ![a] = d]
  BY Zenon DEF FwdReplAck
<1>3. Numbers' /\ Accounted'
  BY <1>1, <1>2, NumbersSame, AccountedSame, Zenon
<1>4. Connection(c) /\ c.base \in Nat
  BY <1>1, Zenon DEF Conns, Paired, Connection
<1>5. applied \in Nat
  BY <1>4
<1> HIDE DEF applied
<1>6. from \in Nat
  BY <1>1, <1>5, Offsets, Zenon
<1> HIDE DEF from
<1>7. CASE rx' = rx /\ peer' = peer
  <2>1. Conns' /\ OpenAddrs \subseteq OpenAddrs'
    BY <1>1, <1>2, <1>7, Zenon DEF Conns, OpenAddrs
  <2>2. Lists'
    BY <1>1, <1>2, <1>7, <2>1, ListsSame, Zenon
  <2> QED BY <1>3, <2>1, <2>2, Zenon DEF FwdInv
<1>8. CASE /\ CopyRange(from) # << >> /\ rx' = Enqueueing(a, CopyRange(from), fwdLog.end, << >>)
           /\ peer' = [peer EXCEPT ![a] = d]
  <2>1. Keeps(c, c)
    BY Zenon DEF Keeps
  <2>2. Keeps(c, d)
    BY <1>4, <2>1, MarkKeeps, Zenon
  <2> HIDE DEF d
  <2>3. Conns' /\ OpenAddrs \subseteq OpenAddrs'
    BY <1>1, <1>2, <1>8, <2>2, KeptConn, Zenon
  <2>4. a \in OpenAddrs
    BY <1>2 DEF OpenAddrs
  <2>5. Lists'
    BY <1>1, <1>2, <1>6, <1>8, <2>3, <2>4, ListsCopy, Zenon
  <2> QED BY <1>3, <2>3, <2>5, Zenon DEF FwdInv
<1> QED BY <1>2, <1>7, <1>8, Zenon

\* REPLDONE
LEMMA FwdReplDoneKeeps ==
    ASSUME FwdInv, NEW a \in Addrs, FwdReplDone(a)
    PROVE  FwdInv'
<1> DEFINE b == peer[a]
           c == [b EXCEPT !.loading = FALSE, !.pending = FALSE]
           from == Larger(fwdLog.start, Watermark(a))
           d == IF fwdLog.start > c.base THEN Mark(c, "wrapped") ELSE c
<1>1. Numbers /\ Conns /\ Lists /\ Accounted
  BY Zenon DEF FwdInv
<1>2. /\ b.loading /\ off' = off /\ fwdLog' = fwdLog /\ replicas' = replicas
      /\ queue' = queue /\ qbytes' = qbytes /\ st' = st /\ peer' = [peer EXCEPT ![a] = d]
      /\ \/ rx' = rx
         \/ CopyRange(from) # << >> /\ rx' = Enqueueing(a, CopyRange(from), fwdLog.end, << >>)
  BY Zenon DEF FwdReplDone
<1>3. Numbers' /\ Accounted'
  BY <1>1, <1>2, NumbersSame, AccountedSame, Zenon
<1>4. Connection(b) /\ b.phase # "free"
  BY <1>1, <1>2, Zenon DEF Conns, Paired
<1> HIDE DEF b
<1>5. /\ DOMAIN c = DOMAIN b /\ c.ring = b.ring /\ c.wire = b.wire /\ c.base = b.base /\ c.phase = b.phase
      /\ ~c.loading
  BY <1>4 DEF Connection, Free
<1> HIDE DEF c
<1>6. Connection(c)
  BY <1>4, <1>5, Zenon DEF Connection
<1>7. Keeps(c, d)
  <2>1. Keeps(c, c)
    BY Zenon DEF Keeps
  <2> QED BY <1>6, <2>1, MarkKeeps, Zenon
<1> HIDE DEF d
<1>8. Keeps(b, d)
  BY <1>5, <1>7, Zenon DEF Keeps
<1>9. Conns' /\ OpenAddrs \subseteq OpenAddrs'
  BY <1>1, <1>2, <1>8, KeptConn, Zenon DEF b
<1>10. fwdLog.start \in Nat
  BY <1>1, Zenon DEF Numbers
<1>11. from \in Nat
  BY <1>1, <1>10, Offsets, Zenon
<1> HIDE DEF from
<1>12. a \in OpenAddrs
  BY <1>4, Zenon DEF OpenAddrs, b
<1>13. CASE rx' = rx
  <2>1. Lists'
    BY <1>1, <1>2, <1>9, <1>13, ListsSame, Zenon
  <2> QED BY <1>3, <1>9, <2>1, Zenon DEF FwdInv
<1>14. CASE CopyRange(from) # << >> /\ rx' = Enqueueing(a, CopyRange(from), fwdLog.end, << >>)
  <2>1. Lists'
    BY <1>1, <1>2, <1>9, <1>11, <1>12, <1>14, ListsCopy, Zenon
  <2> QED BY <1>3, <1>9, <2>1, Zenon DEF FwdInv
<1> QED BY <1>2, <1>13, <1>14, Zenon

\* close_conn: neither the list of replicas nor the queue names the connection
\* any more, and what the queue holds has been counted off.
LEMMA FwdCloseKeeps ==
    ASSUME FwdInv, NEW a \in Addrs, FwdClose(a)
    PROVE  FwdInv'
<1> DEFINE K == NodesOf(a)
           L == DOMAIN queue \ K
           q == Kept(queue, L)
<1>1. Numbers /\ Conns /\ Lists /\ Accounted
  BY Zenon DEF FwdInv
<1>2. /\ rx.pc = "idle" /\ replicas' = FwdUnlink(a) /\ Purge(a) /\ peer' = [peer EXCEPT ![a] = Free]
      /\ off' = off /\ fwdLog' = fwdLog /\ rx' = rx
  BY DEF FwdClose, Ready
<1>3. /\ queue' = q /\ qbytes' = qbytes - Bytes(Kept(queue, K))
      /\ st' = IF st[a].exists THEN [st EXCEPT ![a].dropped = TRUE, ![a].armed = FALSE] ELSE st
  BY <1>2, Zenon DEF Purge
<1>4. DOMAIN peer = Addrs /\ DOMAIN st = Addrs /\ Paired(peer[a], st[a])
  BY <1>1, Zenon DEF Conns
<1>5. Numbers'
  BY <1>1, <1>2, NumbersSame, Zenon
<1>6. Free.phase = "free" /\ ~Free.loading /\ Free.wire = << >> /\ DOMAIN Free = DOMAIN Free
  BY DEF Free
<1>7. << >> \in Seq(Nat) /\ << >> \in Seq(WireUnits) /\ 1..Len(<< >>) = {}
  BY EmptySeq
<1>8. Connection(Free)
  BY <1>7 DEF Connection, Free
<1>9. /\ DOMAIN st' = Addrs /\ \A b \in Addrs : b # a => st'[b] = st[b]
      /\ DOMAIN st'[a] = DOMAIN NoState /\ st'[a].buf = st[a].buf /\ st'[a].wm = st[a].wm
      /\ ~(st'[a].exists /\ ~st'[a].dropped)
  <2> DEFINE s == st[a]
             t == [s EXCEPT !.dropped = TRUE, !.armed = FALSE]
  <2>0. DOMAIN s = DOMAIN NoState
    BY <1>4, Zenon DEF Paired, Buffering
  <2>1. CASE s.exists
    <3>1. st' = [st EXCEPT ![a].dropped = TRUE, ![a].armed = FALSE]
      BY <1>3, <2>1, Zenon
    <3>2. DOMAIN st' = Addrs /\ (\A b \in Addrs : b # a => st'[b] = st[b]) /\ st'[a] = t
      BY <1>4, <3>1
    <3> HIDE DEF s
    <3>3. DOMAIN t = DOMAIN NoState /\ t.buf = s.buf /\ t.wm = s.wm /\ t.dropped = TRUE
      BY <2>0 DEF NoState
    <3> HIDE DEF t
    <3> QED BY <3>2, <3>3, Zenon DEF s
  <2>2. CASE ~s.exists
    BY <1>3, <1>4, <2>0, <2>2, Zenon
  <2> QED BY <2>1, <2>2
<1>10. Buffering(st'[a])
  BY <1>4, <1>9, Zenon DEF Paired, Buffering
<1>11. Ordered(Free.wire, st'[a])
  BY <1>4, <1>6, <1>7, <1>9, Zenon DEF Paired, Ordered
<1>12. Paired(Free, st'[a])
  BY <1>6, <1>8, <1>9, <1>10, <1>11, Zenon DEF Paired
<1>13. DOMAIN peer' = Addrs /\ peer'[a] = Free /\ \A b \in Addrs : b # a => peer'[b] = peer[b]
  BY <1>2, <1>4
<1>14. Conns'
  <2>1. \A b \in Addrs : Paired(peer'[b], st'[b])
    BY <1>1, <1>9, <1>12, <1>13, Zenon DEF Conns
  <2> QED BY <1>9, <1>13, <2>1, Zenon DEF Conns
<1>15. OpenAddrs' = OpenAddrs \ {a}
  <2>1. \A b : b \in OpenAddrs' <=> b \in OpenAddrs \ {a}
    BY <1>6, <1>13, Zenon DEF OpenAddrs
  <2> QED BY <2>1
<1>16. queue \in Seq(LiveNodes) /\ queue \in Seq(Nodes)
  <2>1. queue \in Seq(LiveNodes) /\ LiveNodes \subseteq Nodes
    BY <1>1, Zenon DEF Lists, LiveNodes
  <2> QED BY <2>1, SeqMonotonic
<1>17. q \in Seq(LiveNodes')
  <2>1. q \in Seq(LiveNodes) /\ From(q, queue, L)
    BY <1>16, KeptElements, Zenon
  <2>2. \A i \in L : queue[i].c # a
    BY DEF NodesOf
  <2> HIDE DEF q, L
  <2>3. \A j \in 1..Len(q) : q[j] \in LiveNodes
    BY <2>1, ElementOfSeq
  <2>4. \A j \in 1..Len(q) : q[j].c # a
    BY <2>1, <2>2, <2>3, Zenon DEF From
  <2>5. \A j \in 1..Len(q) : q[j] \in LiveNodes'
    BY <1>15, <2>3, <2>4, Zenon DEF LiveNodes
  <2> QED BY <2>1, <2>5
<1>18. replicas' \in Seq(OpenAddrs')
  BY <1>1, <1>2, <1>15, UnlinkLists, Zenon DEF Lists
<1>19. Lists'
  <2>1. rx.pc = "idle" /\ rx.todo = << >>
    BY <1>1, <1>2, Zenon DEF Lists
  <2>2. rx'.pc # "each" /\ rx'.pc \notin {"put", "wait"} /\ rx'.pc \in {"idle", "each", "put", "wait"}
    BY <1>2
  <2>3. << >> \in Seq(OpenAddrs')
    BY EmptySeq
  <2>4. queue' \in Seq(LiveNodes')
    BY <1>3, <1>17, Zenon
  <2>5. rx' = rx /\ rx'.todo = << >>
    BY <1>2, <2>1, Zenon
  <2> QED BY <1>1, <1>18, <2>2, <2>3, <2>4, <2>5, Zenon DEF Lists
<1>20. Accounted'
  <2> DEFINE x == Bytes(Kept(queue, K))
             y == Bytes(q)
  <2>1. x \in Nat /\ y \in Nat /\ Bytes(queue) = x + y
    BY <1>16, BytesKept, Zenon
  <2>2. qbytes = x + y /\ x + y <= QueueMax /\ qbytes' = qbytes - x
    BY <1>1, <1>3, <2>1, Zenon DEF Accounted
  <2> HIDE DEF x, y
  <2>3. qbytes' = y /\ y <= QueueMax
    BY <2>1, <2>2, FwdAssumption
  <2> QED BY <1>3, <2>3, Zenon DEF Accounted, y
<1> QED BY <1>5, <1>14, <1>19, <1>20, Zenon DEF FwdInv

-----------------------------------------------------------------------------
(* The invariant                                                           *)

\* Every step of the reactor and of the thread keeps the invariant.
LEMMA FwdInvNext == FwdInv /\ [FwdNext]_fwdVars => FwdInv'
<1> SUFFICES ASSUME FwdInv, [FwdNext]_fwdVars PROVE FwdInv'
  OBVIOUS
<1>1. 0..MaxFwdWrites \subseteq Nat /\ 1..MaxFwdWrites \subseteq Nat /\ 0..(2 * MaxFwdWrites) \subseteq Nat
  BY FwdAssumption
<1>2. CASE FwdClientWrite
  BY <1>2, FwdClientWriteKeeps, Zenon
<1>3. CASE BroadcastNext
  BY <1>3, BroadcastNextKeeps, Zenon
<1>4. CASE Enqueue
  BY <1>4, EnqueueKeeps, Zenon
<1>5. CASE SpuriousWakeup
  BY <1>5, SpuriousWakeupKeeps, Zenon
<1>6. CASE FwdTake
  BY <1>6, FwdTakeKeeps, Zenon
<1>7. ASSUME NEW a \in Addrs, Accept(a) PROVE FwdInv'
  BY <1>7, AcceptKeeps, Zenon
<1>8. ASSUME NEW a \in Addrs, NEW req \in 0..MaxFwdWrites, FwdSyncContinue(a, req) PROVE FwdInv'
  BY <1>1, <1>8, FwdSyncContinueKeeps, Zenon
<1>9. ASSUME NEW a \in Addrs, NEW ok \in BOOLEAN, FwdSyncFull(a, ok) PROVE FwdInv'
  BY <1>9, FwdSyncFullKeeps, Zenon
<1>10. ASSUME NEW a \in Addrs, NEW k \in 1..MaxFwdWrites, FlushRing(a, k) PROVE FwdInv'
  BY <1>1, <1>10, FlushRingKeeps, Zenon
<1>11. ASSUME NEW a \in Addrs, NEW k \in 0..(2 * MaxFwdWrites), FwdReplAck(a, k) PROVE FwdInv'
  BY <1>1, <1>11, FwdReplAckKeeps, Zenon
<1>12. ASSUME NEW a \in Addrs, FwdReplDone(a) PROVE FwdInv'
  BY <1>12, FwdReplDoneKeeps, Zenon
<1>13. ASSUME NEW a \in Addrs, FwdClose(a) PROVE FwdInv'
  BY <1>13, FwdCloseKeeps, Zenon
<1>14. ASSUME NEW a \in Addrs, FwdWritable(a) PROVE FwdInv'
  BY <1>14, FwdWritableKeeps, Zenon
<1>15. CASE UNCHANGED fwdVars
  <2>1. /\ off' = off /\ fwdLog' = fwdLog /\ replicas' = replicas /\ peer' = peer /\ rx' = rx
        /\ queue' = queue /\ qbytes' = qbytes /\ st' = st
    BY <1>15 DEF fwdVars
  <2> QED BY <2>1, Zenon DEF FwdInv, Numbers, Conns, Lists, Accounted, OpenAddrs, LiveNodes
<1> QED
  BY <1>2, <1>3, <1>4, <1>5, <1>6, <1>7, <1>8, <1>9, <1>10, <1>11, <1>12, <1>13, <1>14, <1>15, Zenon DEF FwdNext

\* The invariant holds throughout.
LEMMA FwdInvHolds == FwdSpec => []FwdInv
  BY FwdInvInit, FwdInvNext, PTL DEF FwdSpec

\* Whatever the queue, the refill, the catch-up after REPLACK and REPLDONE and
\* the reuse of a closed connection's memory do, the forwarding thread writes
\* no unit twice to a connection and none after a later one.
THEOREM ForwardOnceHolds == FwdSpec => []ForwardOnce
<1>1. FwdInv => ForwardOnce
  <2> SUFFICES ASSUME FwdInv, NEW a \in Addrs
               PROVE  \A i, j \in DOMAIN peer[a].wire :
                          i < j /\ peer[a].wire[i].fwd /\ peer[a].wire[j].fwd
                              => peer[a].wire[i].n < peer[a].wire[j].n
    BY Zenon DEF ForwardOnce
  <2> DEFINE w == peer[a].wire
  <2>1. w \in Seq(WireUnits) /\ Ordered(w, st[a])
    BY Zenon DEF FwdInv, Conns, Paired, Connection
  <2> HIDE DEF w
  <2>2. DOMAIN w = 1..Len(w)
    BY <2>1, LenProperties
  <2>3. \A i, j \in DOMAIN w : i < j /\ w[i].fwd /\ w[j].fwd => w[i].n < w[j].n
    BY <2>1, <2>2, Zenon DEF Ordered
  <2> QED BY <2>3, Zenon DEF w
<1> QED BY <1>1, FwdInvHolds, PTL

\* After close_conn no node of the queue and no live state of the thread names
\* the connection, until its address is that of a new one.
THEOREM NoDanglingHolds == FwdSpec => []NoDangling
<1>1. FwdInv => NoDangling
  <2> SUFFICES ASSUME FwdInv PROVE NoDangling
    OBVIOUS
  <2>1. queue \in Seq(LiveNodes)
    BY Zenon DEF FwdInv, Lists
  <2>2. \A i \in DOMAIN queue : queue[i] \in LiveNodes
    BY <2>1
  <2>3. \A i \in DOMAIN queue : peer[queue[i].c].phase # "free"
    BY <2>2, Zenon DEF LiveNodes, OpenAddrs
  <2>4. \A a \in Addrs : st[a].exists /\ ~st[a].dropped => peer[a].phase # "free"
    BY Zenon DEF FwdInv, Conns, Paired
  <2> QED BY <2>3, <2>4, Zenon DEF NoDangling
<1> QED BY <1>1, FwdInvHolds, PTL

\* g_fwd_queue_bytes is the sum over the nodes in the queue at every moment, a
\* purge from its middle included, and the limits of the queue and of every
\* send buffer are kept.
THEOREM AccountingHolds == FwdSpec => []Accounting
<1>1. FwdInv => Accounting
  <2> SUFFICES ASSUME FwdInv PROVE Accounting
    OBVIOUS
  <2>1. \A a \in Addrs : Len(st[a].buf) <= BufMax
    BY Zenon DEF FwdInv, Conns, Paired, Buffering
  <2> QED BY <2>1, Zenon DEF FwdInv, Accounted, Accounting
<1> QED BY <1>1, FwdInvHolds, PTL
=============================================================================
