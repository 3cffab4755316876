------------------------ MODULE SnapRecoveryProofs ------------------------
(***************************************************************************)
(* Recovery rebuilds the durable commands (CrashSafe), and SAVE leaves     *)
(* nothing to replay (SaveZeroReplay), for every set of keys and every     *)
(* bound of SnapRecovery.                                                  *)
(*                                                                         *)
(* Two facts about replay carry the proof.  A snapshot of a store, one SET *)
(* per key in any order, rebuilds that store (SnapshotRebuilds).  And      *)
(* commands are absolute: replaying once more commands that the store      *)
(* already contains leads to the same store (ReplayAgain), which is what   *)
(* makes it harmless that a rewrite writes the commands of the current     *)
(* slot to the new AOF before that slot lands in it.                       *)
(*                                                                         *)
(* The invariant SnapInv says which commands are pending (Numbered) and    *)
(* what the AOF, the memory, the rewrite child and every dump about lead   *)
(* to (Contents): the dump file, but also the one that a BGSAVE child will *)
(* rename in later, from this process or from one that crashed.            *)
(***************************************************************************)
EXTENDS SnapRecovery, Integers, SequenceTheorems, FiniteSetTheorems, WellFoundedInduction, TLAPS

-----------------------------------------------------------------------------
(* Induction                                                               *)

\* A set of natural numbers has a least one.
LEMMA LeastNat ==
    ASSUME NEW T \in SUBSET Nat, T # {}
    PROVE  \E m \in T : \A k \in T : m <= k
<1> DEFINE R == OpToRel(<, Nat)
<1>1. IsWellFoundedOn(R, Nat)
  BY NatLessThanWellFounded, Zenon
<1> HIDE DEF R
<1>2. PICK m \in T : \A k \in T : ~(<<k, m>> \in R)
  BY <1>1, WFMin, Zenon
<1>3. \A k \in T : ~(k < m)
  <2> TAKE k \in T
  <2>1. k \in Nat /\ m \in Nat
    BY Zenon
  <2>2. k < m => <<k, m>> \in R
    BY <2>1 DEF R, OpToRel
  <2> QED BY <1>2, <2>2, Zenon
<1> QED BY <1>3

\* Induction from 0 to N, with the set of the numbers for which a fact holds.
LEMMA UpTo ==
    ASSUME NEW N \in Nat, NEW S, 0 \in S, \A i \in 1..N : i - 1 \in S => i \in S
    PROVE  \A i \in 0..N : i \in S
<1> DEFINE T == {n \in 0..N : n \notin S}
<1> SUFFICES ASSUME T # {} PROVE FALSE
  BY Zenon
<1>1. T \in SUBSET Nat
  OBVIOUS
<1> HIDE DEF T
<1>2. PICK m \in T : \A k \in T : m <= k
  BY <1>1, LeastNat, Zenon
<1>3. m \in 0..N /\ m \notin S
  BY <1>2 DEF T
<1>4. m # 0
  BY <1>3, Zenon
<1>5. m \in 1..N /\ m - 1 \in 0..N /\ ~(m <= m - 1)
  BY <1>3, <1>4
<1>6. m - 1 \notin S
  BY <1>3, <1>5, Zenon
<1>7. m - 1 \in T
  BY <1>5, <1>6 DEF T
<1> QED BY <1>2, <1>5, <1>7, Zenon

\* f starts with b and takes its other values from g, each from the one before.
Steps(f, N, V, b, g) ==
    /\ f \in [0..N -> V]
    /\ f[0] = b /\ \A i \in 1..N : f[i] = g[i][f[i - 1]]

\* A function may be given by its value at 0 and by how each value follows from
\* the one before.
LEMMA StepFunction ==
    ASSUME NEW V, NEW b \in V, NEW N \in Nat, NEW g \in [1..N -> [V -> V]]
    PROVE  \E f : Steps(f, N, V, b, g)
<1> USE DEF Steps
<1> DEFINE P(n) == \E f \in [0..n -> V] : f[0] = b /\ \A i \in 1..n : f[i] = g[i][f[i - 1]]
           S == {n \in 0..N : P(n)}
<1>1. 0 \in S
  <2> DEFINE f == [i \in 0..0 |-> b]
  <2>1. f \in [0..0 -> V] /\ f[0] = b
    OBVIOUS
  <2> HIDE DEF f
  <2>2. \A i \in 1..0 : f[i] = g[i][f[i - 1]]
    OBVIOUS
  <2>3. P(0)
    BY <2>1, <2>2, Zenon
  <2> QED BY <2>3
<1>2. ASSUME NEW m \in 1..N, m - 1 \in S PROVE m \in S
  <2> DEFINE n == m - 1
  <2>1. P(n) /\ n \in Nat /\ n + 1 = m
    BY <1>2
  <2>2. n + 1 \in 1..N
    BY <2>1
  <2> HIDE DEF n
  <2>3. PICK f \in [0..n -> V] : f[0] = b /\ \A i \in 1..n : f[i] = g[i][f[i - 1]]
    BY <2>1
  <2> DEFINE x == g[n + 1][f[n]]
             h == [i \in 0..(n + 1) |-> IF i = n + 1 THEN x ELSE f[i]]
  <2>4. x \in V
    <3>1. n \in 0..n
      BY <2>1
    <3>2. f[n] \in V /\ g[n + 1] \in [V -> V]
      BY <2>2, <3>1
    <3> QED BY <3>2
  <2> HIDE DEF x
  <2>5. h \in [0..(n + 1) -> V]
    BY <2>1, <2>4
  <2>6. h[0] = b
    BY <2>1, <2>3
  <2>7. ASSUME NEW i \in 1..(n + 1) PROVE h[i] = g[i][h[i - 1]]
    <3>1. i - 1 \in 0..n /\ h[i - 1] = f[i - 1]
      BY <2>1
    <3>2. CASE i = n + 1
      <4>1. h[i] = x /\ i - 1 = n
        BY <2>1, <3>2
      <4> QED BY <3>1, <3>2, <4>1 DEF x
    <3>3. CASE i # n + 1
      <4>1. i \in 1..n /\ h[i] = f[i]
        BY <2>1, <3>3
      <4> QED BY <2>3, <3>1, <4>1
    <3> QED BY <3>2, <3>3
  <2> HIDE DEF h
  <2>8. P(n + 1)
    BY <2>5, <2>6, <2>7, Zenon
  <2>9. P(m)
    BY <2>1, <2>8, Zenon
  <2> QED BY <2>9, SMTT(30)
<1> HIDE DEF S
<1>3. \A i \in 0..N : i \in S
  BY <1>1, <1>2, UpTo, Zenon
<1>4. N \in 0..N
  OBVIOUS
<1> QED BY <1>3, <1>4, Zenon DEF S

-----------------------------------------------------------------------------
(* Replay                                                                  *)

Commands == [key : SnapKeys, val : Nat]
Stores == [SnapKeys -> Nat]

\* e differs from d in what c says.
Executed(d, c, e) ==
    /\ e \in Stores /\ c.key \in SnapKeys /\ e[c.key] = c.val
    /\ \A k \in SnapKeys : k # c.key => e[k] = d[k]

\* A command leads from a store to a store.
LEMMA ExecuteStores ==
    ASSUME NEW d \in Stores, NEW c \in Commands
    PROVE  Executed(d, c, Execute(d, c))
BY DEF Stores, Commands, Execute, Executed

\* f holds the stores during the replay of cmds over d.
Replays(f, d, cmds) ==
    /\ f \in [0..Len(cmds) -> Stores]
    /\ f[0] = d /\ \A i \in 1..Len(cmds) : f[i] = Execute(f[i - 1], cmds[i])

\* ReplayAll is the last of them.
LEMMA ReplayFunction ==
    ASSUME NEW d \in Stores, NEW cmds \in Seq(Commands)
    PROVE  \E f : Replays(f, d, cmds) /\ ReplayAll(d, cmds) = f[Len(cmds)]
<1> DEFINE N == Len(cmds)
           g == [i \in 1..N |-> [x \in Stores |-> Execute(x, cmds[i])]]
           F(f) == [i \in 0..N |-> IF i = 0 THEN d ELSE Execute(f[i - 1], cmds[i])]
           c == CHOOSE f : f = F(f)
<1>1. N \in Nat /\ \A i \in 1..N : cmds[i] \in Commands
  BY LenProperties, ElementOfSeq
<1>2. ReplayAll(d, cmds) = c[N]
  BY Zenon DEF ReplayAll
<1>3. \A i \in 1..N : \A x \in Stores : Execute(x, cmds[i]) \in Stores
  BY <1>1, ExecuteStores, Zenon DEF Executed
<1>4. g \in [1..N -> [Stores -> Stores]]
  BY <1>3, Zenon
<1>5. \A i \in 1..N : \A x \in Stores : g[i][x] = Execute(x, cmds[i])
  BY Zenon
<1> HIDE DEF g
<1>6. PICK f \in [0..N -> Stores] : f[0] = d /\ \A i \in 1..N : f[i] = g[i][f[i - 1]]
  <2>1. \E f : Steps(f, N, Stores, d, g)
    BY <1>1, <1>4, StepFunction, Zenon
  <2> QED BY <2>1, Zenon DEF Steps
<1>7. \A i \in 1..N : i - 1 \in 0..N /\ i # 0 /\ i \in 0..N
  BY <1>1
<1>8. \A i \in 1..N : f[i] = Execute(f[i - 1], cmds[i])
  BY <1>5, <1>6, <1>7, Zenon
<1>9. f = F(f)
  <2>1. \A i \in 0..N : i = 0 \/ i \in 1..N
    BY <1>1
  <2>2. \A i \in 0..N : f[i] = F(f)[i]
    BY <1>6, <1>8, <2>1, Zenon
  <2>3. DOMAIN f = 0..N /\ f = [i \in 0..N |-> f[i]]
    BY Zenon
  <2>4. F(f) = [i \in 0..N |-> F(f)[i]]
    BY Zenon
  <2> QED BY <2>2, <2>3, <2>4, Zenon
<1>10. c = F(c)
  BY <1>9, Zenon
<1> HIDE DEF c
<1>11. c[0] = d
  <2>1. 0 \in 0..N
    BY <1>1
  <2>2. c[0] = F(c)[0]
    BY <1>10, Zenon
  <2> QED BY <2>1, <2>2, Zenon
<1>12. \A i \in 1..N : c[i] = Execute(c[i - 1], cmds[i])
  <2> TAKE i \in 1..N
  <2>1. c[i] = F(c)[i]
    BY <1>10, Zenon
  <2> QED BY <1>7, <2>1, Zenon
<1>13. \A i \in 0..N : c[i] \in Stores
  <2> DEFINE T == {i \in 0..N : c[i] \in Stores}
  <2>1. 0 \in T
    <3>1. 0 \in 0..N
      BY <1>1
    <3> QED BY <1>11, <3>1, Zenon
  <2>2. ASSUME NEW i \in 1..N, i - 1 \in T PROVE i \in T
    BY <1>3, <1>7, <1>12, <2>2, Zenon
  <2> HIDE DEF T
  <2>3. \A i \in 0..N : i \in T
    BY <1>1, <2>1, <2>2, UpTo, Zenon
  <2> QED BY <2>3 DEF T
<1>14. c \in [0..N -> Stores]
  <2>1. \A i \in 0..N : F(c)[i] = c[i]
    BY <1>10, Zenon
  <2>2. F(c) = [i \in 0..N |-> F(c)[i]]
    BY Zenon
  <2>3. c = [i \in 0..N |-> c[i]]
    BY <1>10, <2>1, <2>2, Zenon
  <2> QED BY <1>13, <2>3, Zenon
<1>15. Replays(c, d, cmds)
  BY <1>11, <1>12, <1>14, Zenon DEF Replays
<1> QED BY <1>2, <1>15, Zenon

\* Nothing is replayed.
LEMMA ReplayNothing == \A d \in Stores : ReplayAll(d, << >>) = d
<1> TAKE d \in Stores
<1>1. << >> \in Seq(Commands) /\ Len(<< >>) = 0
  BY EmptySeq
<1>2. PICK f : Replays(f, d, << >>) /\ ReplayAll(d, << >>) = f[Len(<< >>)]
  BY <1>1, ReplayFunction, Zenon
<1> QED BY <1>1, <1>2, Zenon DEF Replays

\* f from p on and h from q on have the same value after i steps.
Same(f, h, p, q, i) == f[p + i] = h[q + i]

\* Two replays of the same commands from the same store stay together.
LEMMA StaySame ==
    ASSUME NEW N \in Nat, NEW f, NEW h, NEW p, NEW q, Same(f, h, p, q, 0),
           \A i \in 1..N : Same(f, h, p, q, i - 1) => Same(f, h, p, q, i)
    PROVE  Same(f, h, p, q, N)
<1> DEFINE T == {i \in 0..N : Same(f, h, p, q, i)}
<1>1. 0 \in T
  OBVIOUS
<1>2. ASSUME NEW i \in 1..N, i - 1 \in T PROVE i \in T
  BY <1>2
<1> HIDE DEF T
<1>3. \A i \in 0..N : i \in T
  BY <1>1, <1>2, UpTo, Zenon
<1>4. N \in 0..N
  OBVIOUS
<1> QED BY <1>3, <1>4 DEF T

\* Commands may be replayed in two parts.
LEMMA ReplayParts ==
    ASSUME NEW d \in Stores, NEW a \in Seq(Commands), NEW b \in Seq(Commands)
    PROVE  /\ ReplayAll(d, a) \in Stores
           /\ a \o b \in Seq(Commands)
           /\ ReplayAll(d, a \o b) = ReplayAll(ReplayAll(d, a), b)
<1> DEFINE A == Len(a)
           B == Len(b)
           ab == a \o b
           e == ReplayAll(d, a)
<1>1. A \in Nat /\ B \in Nat
  BY LenProperties
<1>2. /\ ab \in Seq(Commands) /\ Len(ab) = A + B
      /\ \A i \in 1..(A + B) : ab[i] = IF i <= A THEN a[i] ELSE b[i - A]
  BY ConcatProperties
<1> HIDE DEF ab
<1>3. PICK f : Replays(f, d, ab) /\ ReplayAll(d, ab) = f[Len(ab)]
  BY <1>2, ReplayFunction, Zenon
<1>4. PICK g : Replays(g, d, a) /\ ReplayAll(d, a) = g[A]
  BY ReplayFunction, Zenon
<1>5. e \in Stores
  <2>1. A \in 0..A
    BY <1>1
  <2> QED BY <1>4, <2>1, Zenon DEF Replays
<1> HIDE DEF e
<1>6. PICK h : Replays(h, e, b) /\ ReplayAll(e, b) = h[B]
  BY <1>5, ReplayFunction, Zenon
<1>7. Same(f, g, 0, 0, 0)
  <2>1. 0 + 0 = 0
    OBVIOUS
  <2> QED BY <1>3, <1>4, <2>1, Zenon DEF Same, Replays
<1>8. ASSUME NEW i \in 1..A, Same(f, g, 0, 0, i - 1) PROVE Same(f, g, 0, 0, i)
  <2>1. i \in 1..(A + B) /\ i <= A /\ 0 + i = i /\ 0 + (i - 1) = i - 1
    BY <1>1
  <2>2. f[i] = Execute(f[i - 1], a[i]) /\ g[i] = Execute(g[i - 1], a[i])
    BY <1>2, <1>3, <1>4, <2>1, Zenon DEF Replays
  <2> QED BY <1>8, <2>1, <2>2, Zenon DEF Same
<1>9. Same(f, g, 0, 0, A)
  BY <1>1, <1>7, <1>8, StaySame, Zenon
<1>10. f[A] = e
  <2>1. 0 + A = A
    BY <1>1
  <2> QED BY <1>4, <1>9, <2>1, Zenon DEF Same, e
<1>11. Same(f, h, A, 0, 0)
  <2>1. A + 0 = A /\ 0 + 0 = 0
    BY <1>1
  <2> QED BY <1>6, <1>10, <2>1, Zenon DEF Same, Replays
<1>12. ASSUME NEW i \in 1..B, Same(f, h, A, 0, i - 1) PROVE Same(f, h, A, 0, i)
  <2>1. /\ A + i \in 1..(A + B) /\ ~(A + i <= A) /\ (A + i) - A = i
        /\ 0 + i = i /\ 0 + (i - 1) = i - 1 /\ A + (i - 1) = (A + i) - 1
    BY <1>1
  <2>2. f[A + i] = Execute(f[(A + i) - 1], b[i]) /\ h[i] = Execute(h[i - 1], b[i])
    BY <1>2, <1>3, <1>6, <2>1, ZenonT(40) DEF Replays
  <2> QED BY <1>12, <2>1, <2>2, Zenon DEF Same
<1>13. Same(f, h, A, 0, B)
  BY <1>1, <1>11, <1>12, StaySame, Zenon
<1>14. 0 + B = B
  BY <1>1
<1>15. ReplayAll(d, ab) = ReplayAll(e, b)
  BY <1>2, <1>3, <1>6, <1>13, <1>14, Zenon DEF Same
<1> QED BY <1>2, <1>5, <1>15, Zenon DEF ab, e

\* One more command.
LEMMA ReplayOne ==
    ASSUME NEW d \in Stores, NEW a \in Seq(Commands), NEW c \in Commands
    PROVE  ReplayAll(d, Append(a, c)) = Execute(ReplayAll(d, a), c)
<1> DEFINE e == ReplayAll(d, a)
<1>1. <<c>> \in Seq(Commands) /\ Len(<<c>>) = 1 /\ <<c>>[1] = c
  OBVIOUS
<1>2. e \in Stores /\ ReplayAll(d, a \o <<c>>) = ReplayAll(e, <<c>>)
  BY <1>1, ReplayParts, Zenon
<1> HIDE DEF e
<1>3. PICK f : Replays(f, e, <<c>>) /\ ReplayAll(e, <<c>>) = f[Len(<<c>>)]
  BY <1>1, <1>2, ReplayFunction, Zenon
<1>4. 1 \in 1..1 /\ 1 - 1 = 0
  OBVIOUS
<1>5. f[1] = Execute(f[0], c) /\ f[0] = e
  BY <1>1, <1>3, <1>4, Zenon DEF Replays
<1>6. ReplayAll(e, <<c>>) = Execute(e, c)
  BY <1>1, <1>3, <1>5, Zenon
<1>7. Append(a, c) = a \o <<c>>
  BY AppendIsConcat, Zenon
<1> QED BY <1>2, <1>6, <1>7, Zenon DEF e

\* SAVE, BGSAVE and the rewrite child write one SET for every key: replayed over
\* an empty store they rebuild it.
LEMMA SnapshotRebuilds ==
    ASSUME NEW d \in Stores
    PROVE  SnapshotOf(d) \in Seq(Commands) /\ ReplayAll(Empty, SnapshotOf(d)) = d
<1> DEFINE K == {k \in SnapKeys : d[k] # NoValue}
           c(k) == [key |-> k, val |-> d[k]]
           sets == {c(k) : k \in K}
           n == Cardinality(sets)
           Fills(s) == {s[i] : i \in 1..n} = sets
           q == CHOOSE s \in [1..n -> sets] : Fills(s)
<1>1. \A k \in SnapKeys : c(k) \in Commands /\ c(k).key = k /\ c(k).val = d[k]
  BY DEF Stores, Commands
<1> HIDE DEF c
<1>2. IsFiniteSet(K)
  <2>1. IsFiniteSet(SnapKeys) /\ K \in SUBSET SnapKeys
    BY SnapAssumption, Zenon
  <2> QED BY <2>1, FS_Subset, Zenon
<1>3. IsFiniteSet(sets)
  <2> DEFINE f == [k \in K |-> c(k)]
  <2>1. f \in Surjection(K, sets)
    BY Zenon DEF Surjection
  <2> QED BY <1>2, <2>1, FS_Surjection, Zenon
<1>4. n \in Nat /\ ExistsBijection(1..n, sets)
  BY <1>3, FS_CardinalityType, Zenon
<1> HIDE DEF n
<1>5. \E s \in [1..n -> sets] : Fills(s)
  <2>1. PICK s \in [1..n -> sets] : \A t \in sets : \E i \in 1..n : s[i] = t
    <3>1. PICK s : s \in Bijection(1..n, sets)
      BY <1>4, Zenon DEF ExistsBijection
    <3> QED BY <3>1, Zenon DEF Bijection, Surjection
  <2>2. Fills(s)
    BY <2>1, Zenon
  <2> QED BY <2>2, Zenon
<1>6. q \in [1..n -> sets] /\ Fills(q)
  BY <1>5, Zenon
<1>7. SnapshotOf(d) = q
  BY Zenon DEF SnapshotOf, n, c
<1> HIDE DEF q
<1>8. \A t \in sets : t \in Commands
  BY <1>1, Zenon
<1> HIDE DEF sets
<1>9. q \in Seq(Commands) /\ Len(q) = n
  <2>1. q \in [1..n -> Commands]
    BY <1>6, <1>8, Zenon
  <2> QED BY <1>4, <2>1
<1>10. \A i \in 1..n : q[i] \in Commands /\ q[i].key \in SnapKeys /\ q[i].val = d[q[i].key]
  <2> TAKE i \in 1..n
  <2>1. q[i] \in sets
    BY <1>6, Zenon
  <2>2. PICK k \in K : q[i] = c(k)
    BY <2>1, Zenon DEF sets
  <2> QED BY <1>1, <2>2, Zenon
<1>11. \A k \in SnapKeys : d[k] # NoValue => \E i \in 1..n : q[i].key = k
  <2> TAKE k \in SnapKeys
  <2> HAVE d[k] # NoValue
  <2>1. c(k) \in sets
    BY Zenon DEF sets
  <2>2. PICK i \in 1..n : q[i] = c(k)
    BY <1>6, <2>1, Zenon
  <2> QED BY <1>1, <2>2, Zenon
<1>12. Empty \in Stores /\ \A k \in SnapKeys : Empty[k] = NoValue
  BY DEF Empty, Stores, NoValue
<1>13. PICK f : Replays(f, Empty, q) /\ ReplayAll(Empty, q) = f[n]
  BY <1>9, <1>12, ReplayFunction, Zenon
<1> DEFINE Right(i) == \A k \in SnapKeys :
                          f[i][k] = d[k] \/ (f[i][k] = NoValue /\ \A x \in 1..i : q[x].key # k)
           T == {i \in 0..n : Right(i)}
<1>14. 0 \in T
  <2>1. 0 \in 0..n /\ 1..0 = {}
    BY <1>4
  <2>2. Right(0)
    BY <1>12, <1>13, <2>1, Zenon DEF Replays
  <2> QED BY <2>1, <2>2, Zenon
<1>15. ASSUME NEW i \in 1..n, i - 1 \in T PROVE i \in T
  <2>1. Right(i - 1) /\ i - 1 \in 0..n /\ i \in 0..n
    BY <1>4, <1>15
  <2>2. f[i - 1] \in Stores /\ f[i] = Execute(f[i - 1], q[i]) /\ q[i] \in Commands
    BY <1>9, <1>10, <1>13, <2>1, Zenon DEF Replays
  <2>3. /\ f[i][q[i].key] = q[i].val
        /\ \A k \in SnapKeys : k # q[i].key => f[i][k] = f[i - 1][k]
    <3>1. Executed(f[i - 1], q[i], f[i])
      BY <2>2, ExecuteStores, Zenon
    <3> QED BY <3>1, Zenon DEF Executed
  <2>4. \A x \in 1..i : x \in 1..(i - 1) \/ x = i
    BY <1>4
  <2>5. ASSUME NEW k \in SnapKeys
        PROVE  f[i][k] = d[k] \/ (f[i][k] = NoValue /\ \A x \in 1..i : q[x].key # k)
    <3>1. CASE k = q[i].key
      BY <1>10, <2>3, <3>1, Zenon
    <3>2. CASE k # q[i].key
      BY <2>1, <2>3, <2>4, <3>2, Zenon
    <3> QED BY <3>1, <3>2
  <2>6. Right(i)
    BY <2>5, Zenon
  <2> QED BY <2>1, <2>6, Zenon
<1> HIDE DEF T
<1>16. \A i \in 0..n : i \in T
  BY <1>4, <1>14, <1>15, UpTo, Zenon
<1>17. Right(n) /\ n \in 0..n
  <2>1. n \in 0..n
    BY <1>4
  <2> QED BY <1>16, <2>1, Zenon DEF T
<1>18. \A k \in SnapKeys : f[n][k] = d[k]
  BY <1>11, <1>17, Zenon
<1>19. f[n] \in Stores
  BY <1>9, <1>13, <1>17, Zenon DEF Replays
<1>20. f[n] = d
  <2>1. f[n] = [k \in SnapKeys |-> f[n][k]] /\ d = [k \in SnapKeys |-> d[k]]
    BY <1>19, Zenon DEF Stores
  <2> QED BY <1>18, <2>1, Zenon
<1> QED BY <1>7, <1>9, <1>13, <1>20, Zenon

-----------------------------------------------------------------------------
(* The store after a number of commands                                    *)

\* s holds the numbers from the one after lo on.
Following(s, lo) == \A i \in 1..Len(s) : s[i] = lo + i

\* The beginning of a history.
LEMMA Beginning ==
    ASSUME NEW h \in Seq(Commands), NEW n \in 0..Len(h)
    PROVE  /\ SubSeq(h, 1, n) \in Seq(Commands) /\ Len(SubSeq(h, 1, n)) = n
           /\ \A i \in 1..n : SubSeq(h, 1, n)[i] = h[i]
<1>1. Len(h) \in Nat /\ n \in Nat /\ \A i \in 1..n : h[i] \in Commands
  BY LenProperties, ElementOfSeq
<1> QED BY <1>1

\* The store after n commands is the one before the n-th, and that one executed.
LEMMA StateSteps ==
    ASSUME history \in Seq(Commands)
    PROVE  /\ StateAfter(0) = Empty
           /\ \A n \in 0..Len(history) : StateAfter(n) \in Stores
           /\ \A n \in 1..Len(history) : StateAfter(n) = Execute(StateAfter(n - 1), history[n])
<1> DEFINE h == history
           B(n) == SubSeq(h, 1, n)
<1>1. Empty \in Stores
  BY DEF Empty, Stores, NoValue
<1>2. Len(h) \in Nat /\ \A i \in 1..Len(h) : h[i] \in Commands
  BY LenProperties, ElementOfSeq
<1>3. \A n \in 0..Len(h) : /\ B(n) \in Seq(Commands) /\ Len(B(n)) = n
                           /\ \A i \in 1..n : B(n)[i] = h[i]
  BY Beginning, Zenon
<1>4. StateAfter(0) = Empty
  <2>1. 0 \in 0..Len(h)
    BY <1>2
  <2>2. B(0) = << >>
    BY <1>3, <2>1, EmptySeq, Zenon
  <2> QED BY <1>1, <2>2, ReplayNothing, Zenon DEF StateAfter
<1>5. \A n \in 0..Len(h) : StateAfter(n) \in Stores
  BY <1>1, <1>3, ReplayParts, Zenon DEF StateAfter
<1>6. ASSUME NEW n \in 1..Len(h) PROVE StateAfter(n) = Execute(StateAfter(n - 1), h[n])
  <2>1. n - 1 \in 0..Len(h) /\ n \in 0..Len(h) /\ n \in Nat /\ h[n] \in Commands
    BY <1>2
  <2> DEFINE b == B(n - 1)
             x == h[n]
  <2>2. b \in Seq(Commands) /\ Len(b) = n - 1 /\ \A i \in 1..(n - 1) : b[i] = h[i]
    BY <1>3, <2>1, Zenon
  <2> HIDE DEF b
  <2>3. /\ Append(b, x) \in Seq(Commands) /\ Len(Append(b, x)) = n
        /\ \A i \in 1..n : Append(b, x)[i] = h[i]
    <3>1. /\ Append(b, x) \in Seq(Commands) /\ Len(Append(b, x)) = Len(b) + 1
          /\ \A i \in 1..Len(b) : Append(b, x)[i] = b[i]
          /\ Append(b, x)[Len(b) + 1] = x
      <4> HIDE DEF x
      <4> QED BY <2>1, <2>2, AppendProperties DEF x
    <3>2. Len(b) + 1 = n /\ \A i \in 1..n : i \in 1..(n - 1) \/ i = n
      BY <2>1, <2>2
    <3> QED BY <2>2, <3>1, <3>2, Zenon
  <2>4. B(n) = Append(b, h[n])
    BY <1>3, <2>1, <2>3, SeqEqual, Zenon
  <2>5. ReplayAll(Empty, Append(b, h[n])) = Execute(ReplayAll(Empty, b), h[n])
    BY <1>1, <2>1, <2>2, ReplayOne, Zenon
  <2> QED BY <2>4, <2>5, Zenon DEF StateAfter, b
<1> QED BY <1>4, <1>5, <1>6, Zenon

\* A key that no command after the d-th names keeps its value.
LEMMA Untouched ==
    ASSUME history \in Seq(Commands), NEW d \in Nat, NEW m \in Nat, d <= m, m <= Len(history),
           NEW k \in SnapKeys, \A n \in (d + 1)..m : history[n].key # k
    PROVE  StateAfter(m)[k] = StateAfter(d)[k]
<1> DEFINE N == m - d
           T == {i \in 0..N : StateAfter(d + i)[k] = StateAfter(d)[k]}
<1>0. N \in Nat /\ d + N = m /\ Len(history) \in Nat
  BY LenProperties
<1> HIDE DEF N
<1>1. 0 \in T
  <2>1. d + 0 = d /\ 0 \in 0..N
    BY <1>0
  <2> QED BY <2>1, Zenon
<1>2. ASSUME NEW i \in 1..N, i - 1 \in T PROVE i \in T
  <2> DEFINE n == d + i
  <2>1. /\ n \in 1..Len(history) /\ n \in (d + 1)..m /\ n - 1 = d + (i - 1) /\ i \in 0..N
        /\ n - 1 \in 0..Len(history)
    BY <1>0
  <2>2. StateAfter(n - 1)[k] = StateAfter(d)[k]
    <3>1. StateAfter(d + (i - 1))[k] = StateAfter(d)[k]
      BY <1>2, Zenon
    <3> QED BY <2>1, <3>1, Zenon
  <2> HIDE DEF n
  <2>3. StateAfter(n) = Execute(StateAfter(n - 1), history[n]) /\ StateAfter(n - 1) \in Stores
    BY <2>1, StateSteps, Zenon
  <2>4. history[n] \in Commands
    BY <2>1, ElementOfSeq
  <2>5. Executed(StateAfter(n - 1), history[n], StateAfter(n))
    BY <2>3, <2>4, ExecuteStores, Zenon
  <2>6. StateAfter(n)[k] = StateAfter(d)[k]
    BY <2>1, <2>2, <2>5, Zenon DEF Executed
  <2> QED BY <2>1, <2>6, Zenon DEF n
<1> HIDE DEF T
<1>3. \A i \in 0..N : i \in T
  BY <1>0, <1>1, <1>2, UpTo, Zenon
<1>4. N \in 0..N
  BY <1>0
<1> QED BY <1>0, <1>3, <1>4, Zenon DEF T

\* Commands are absolute: replayed once more, from any one that the store
\* already contains on, they lead to the same store.
Again(d, m, ns) ==
    /\ Cmds(ns) \in Seq(Commands) /\ Len(Cmds(ns)) = Len(ns)
    /\ ReplayAll(StateAfter(d), Cmds(ns)) = StateAfter(m)
LEMMA ReplayAgain ==
    ASSUME history \in Seq(Commands), NEW j \in Nat, NEW d \in Nat, NEW m \in Nat,
           j <= d, d <= m, m <= Len(history),
           NEW ns \in Seq(Nat), Len(ns) = m - j, Following(ns, j)
    PROVE  Again(d, m, ns)
<1> DEFINE N == m - j
           q == Cmds(ns)
<1>0. N \in Nat /\ j + N = m /\ Len(history) \in Nat /\ d \in 0..Len(history) /\ m \in 0..Len(history)
  BY LenProperties
<1>1. DOMAIN ns = 1..N /\ \A i \in 1..N : ns[i] = j + i
  BY LenProperties DEF Following
<1> HIDE DEF N
<1>2. \A i \in 1..N : j + i \in 1..Len(history) /\ history[j + i] \in Commands
  <2>1. \A i \in 1..N : j + i \in 1..Len(history)
    BY <1>0
  <2> QED BY <2>1, ElementOfSeq
<1>3. q = [i \in 1..N |-> history[j + i]]
  BY <1>1, Zenon DEF Cmds
<1>4. q \in [1..N -> Commands] /\ \A i \in 1..N : q[i] = history[j + i]
  BY <1>2, <1>3, Zenon
<1> HIDE DEF q
<1>5. q \in Seq(Commands) /\ Len(q) = N
  BY <1>0, <1>4
<1>6. \A n \in 0..Len(history) : StateAfter(n) \in Stores
  BY StateSteps, Zenon
<1>7. PICK f : Replays(f, StateAfter(d), q) /\ ReplayAll(StateAfter(d), q) = f[N]
  BY <1>0, <1>5, <1>6, ReplayFunction, Zenon
<1> DEFINE Right(i) == \A k \in SnapKeys :
                          \/ f[i][k] = StateAfter(j + i)[k]
                          \/ (f[i][k] = StateAfter(d)[k] /\ \A x \in 1..i : history[j + x].key # k)
           T == {i \in 0..N : Right(i)}
<1>8. 0 \in T
  <2>1. 0 \in 0..N /\ 1..0 = {}
    BY <1>0
  <2>2. Right(0)
    BY <1>7, <2>1, Zenon DEF Replays
  <2> QED BY <2>1, <2>2, Zenon
<1>9. ASSUME NEW i \in 1..N, i - 1 \in T PROVE i \in T
  <2> DEFINE c == history[j + i]
  <2>1. /\ i - 1 \in 0..N /\ i \in 0..N /\ j + i \in 1..Len(history) /\ (j + i) - 1 = j + (i - 1)
        /\ j + (i - 1) \in 0..Len(history)
    BY <1>0
  <2>2. Right(i - 1)
    BY <1>9, Zenon
  <2>3. f[i - 1] \in Stores /\ f[i] = Execute(f[i - 1], c) /\ c \in Commands
    BY <1>2, <1>4, <1>5, <1>7, <2>1, Zenon DEF Replays
  <2>4. Executed(f[i - 1], c, f[i])
    BY <2>3, ExecuteStores, Zenon
  <2>5. StateAfter(j + i) = Execute(StateAfter(j + (i - 1)), c) /\ StateAfter(j + (i - 1)) \in Stores
    <3>1. StateAfter(j + i) = Execute(StateAfter((j + i) - 1), history[j + i])
      BY <2>1, StateSteps, Zenon
    <3> QED BY <1>6, <2>1, <3>1, Zenon
  <2>6. Executed(StateAfter(j + (i - 1)), c, StateAfter(j + i))
    BY <2>3, <2>5, ExecuteStores, Zenon
  <2>7. \A x \in 1..i : x \in 1..(i - 1) \/ x = i
    BY <1>0
  <2> HIDE DEF c
  <2>8. ASSUME NEW k \in SnapKeys
        PROVE  \/ f[i][k] = StateAfter(j + i)[k]
               \/ (f[i][k] = StateAfter(d)[k] /\ \A x \in 1..i : history[j + x].key # k)
    <3>1. CASE k = c.key
      BY <2>4, <2>6, <3>1, Zenon DEF Executed
    <3>2. CASE k # c.key
      <4>1. f[i][k] = f[i - 1][k] /\ StateAfter(j + i)[k] = StateAfter(j + (i - 1))[k]
        BY <2>4, <2>6, <3>2, Zenon DEF Executed
      <4> QED BY <2>2, <2>7, <3>2, <4>1, Zenon DEF c
    <3> QED BY <3>1, <3>2
  <2>9. Right(i)
    BY <2>8, Zenon
  <2> QED BY <2>1, <2>9, Zenon
<1> HIDE DEF T
<1>10. \A i \in 0..N : i \in T
  BY <1>0, <1>8, <1>9, UpTo, Zenon
<1>11. Right(N) /\ N \in 0..N
  <2>1. N \in 0..N
    BY <1>0
  <2> QED BY <1>10, <2>1, Zenon DEF T
<1>12. ASSUME NEW k \in SnapKeys PROVE f[N][k] = StateAfter(m)[k]
  <2>1. CASE f[N][k] = StateAfter(j + N)[k]
    BY <1>0, <2>1, Zenon
  <2>2. CASE f[N][k] = StateAfter(d)[k] /\ \A x \in 1..N : history[j + x].key # k
    <3>1. ASSUME NEW n \in (d + 1)..m PROVE history[n].key # k
      <4>1. n - j \in 1..N /\ j + (n - j) = n
        BY <1>0
      <4> QED BY <2>2, <4>1, Zenon
    <3>2. StateAfter(m)[k] = StateAfter(d)[k]
      BY <3>1, Untouched, Zenon
    <3> QED BY <2>2, <3>2, Zenon
  <2> QED BY <1>11, <2>1, <2>2, Zenon
<1>13. f[N] \in Stores /\ StateAfter(m) \in Stores
  BY <1>0, <1>5, <1>6, <1>7, <1>11, Zenon DEF Replays
<1>14. f[N] = StateAfter(m)
  <2>1. f[N] = [k \in SnapKeys |-> f[N][k]] /\ StateAfter(m) = [k \in SnapKeys |-> StateAfter(m)[k]]
    BY <1>13, Zenon DEF Stores
  <2> QED BY <1>12, <2>1, Zenon
<1> QED BY <1>5, <1>7, <1>14, Zenon DEF Again, q, N

-----------------------------------------------------------------------------
(* The slots handed off                                                    *)

\* f joins the slots one by one.
Joins(f, slots) ==
    /\ f \in [0..Len(slots) -> Seq(Nat)]
    /\ f[0] = << >> /\ \A i \in 1..Len(slots) : f[i] = f[i - 1] \o slots[i]

\* Joined is the last of them.
LEMMA JoinedFunction ==
    ASSUME NEW slots \in Seq(Seq(Nat))
    PROVE  \E f : Joins(f, slots) /\ Joined(slots) = f[Len(slots)]
<1> DEFINE N == Len(slots)
           g == [i \in 1..N |-> [x \in Seq(Nat) |-> x \o slots[i]]]
           F(f) == [i \in 0..N |-> IF i = 0 THEN << >> ELSE f[i - 1] \o slots[i]]
           c == CHOOSE f : f = F(f)
<1>1. N \in Nat /\ (\A i \in 1..N : slots[i] \in Seq(Nat)) /\ << >> \in Seq(Nat)
  BY LenProperties, ElementOfSeq, EmptySeq
<1>2. Joined(slots) = c[N]
  BY Zenon DEF Joined
<1>3. \A i \in 1..N : \A x \in Seq(Nat) : x \o slots[i] \in Seq(Nat)
  BY <1>1, ConcatProperties, Zenon
<1>4. g \in [1..N -> [Seq(Nat) -> Seq(Nat)]]
  BY <1>3, Zenon
<1>5. \A i \in 1..N : \A x \in Seq(Nat) : g[i][x] = x \o slots[i]
  BY Zenon
<1> HIDE DEF g
<1>6. PICK f \in [0..N -> Seq(Nat)] : f[0] = << >> /\ \A i \in 1..N : f[i] = g[i][f[i - 1]]
  <2>1. \E f : Steps(f, N, Seq(Nat), << >>, g)
    BY <1>1, <1>4, StepFunction, Zenon
  <2> QED BY <2>1, Zenon DEF Steps
<1>7. \A i \in 1..N : i - 1 \in 0..N /\ i # 0 /\ i \in 0..N
  BY <1>1
<1>8. \A i \in 1..N : f[i] = f[i - 1] \o slots[i]
  BY <1>5, <1>6, <1>7, Zenon
<1>9. f = F(f)
  <2>1. \A i \in 0..N : i = 0 \/ i \in 1..N
    BY <1>1
  <2>2. \A i \in 0..N : f[i] = F(f)[i]
    BY <1>6, <1>8, <2>1, Zenon
  <2>3. DOMAIN f = 0..N /\ f = [i \in 0..N |-> f[i]]
    BY Zenon
  <2>4. F(f) = [i \in 0..N |-> F(f)[i]]
    BY Zenon
  <2> QED BY <2>2, <2>3, <2>4, Zenon
<1>10. c = F(c)
  BY <1>9, Zenon
<1> HIDE DEF c
<1>11. c[0] = << >>
  <2>1. 0 \in 0..N
    BY <1>1
  <2>2. c[0] = F(c)[0]
    BY <1>10, Zenon
  <2> QED BY <2>1, <2>2, Zenon
<1>12. \A i \in 1..N : c[i] = c[i - 1] \o slots[i]
  <2> SUFFICES ASSUME NEW i \in 1..N
               PROVE  c[i] = c[i - 1] \o slots[i]
    BY Zenon
  <2>1. c[i] = F(c)[i]
    BY <1>10, Zenon
  <2> QED BY <1>7, <2>1, Zenon
<1>13. \A i \in 0..N : c[i] \in Seq(Nat)
  <2> DEFINE T == {i \in 0..N : c[i] \in Seq(Nat)}
  <2>1. 0 \in T
    <3>1. 0 \in 0..N
      BY <1>1
    <3> QED BY <1>1, <1>11, <3>1, Zenon
  <2>2. ASSUME NEW i \in 1..N, i - 1 \in T PROVE i \in T
    BY <1>3, <1>7, <1>12, <2>2, Zenon
  <2> HIDE DEF T
  <2>3. \A i \in 0..N : i \in T
    BY <1>1, <2>1, <2>2, UpTo, Zenon
  <2> QED BY <2>3 DEF T
<1>14. c \in [0..N -> Seq(Nat)]
  <2>1. \A i \in 0..N : F(c)[i] = c[i]
    BY <1>10, Zenon
  <2>2. F(c) = [i \in 0..N |-> F(c)[i]]
    BY Zenon
  <2>3. c = [i \in 0..N |-> c[i]]
    BY <1>10, <2>1, <2>2, Zenon
  <2> QED BY <1>13, <2>3, Zenon
<1>15. Joins(c, slots)
  BY <1>11, <1>12, <1>14, Zenon DEF Joins
<1> QED BY <1>2, <1>15, Zenon

\* What is joined is a list of numbers; without slots it is empty.
LEMMA JoinedSeq ==
    /\ \A slots \in Seq(Seq(Nat)) : Joined(slots) \in Seq(Nat)
    /\ Joined(<< >>) = << >>
<1>1. ASSUME NEW slots \in Seq(Seq(Nat)) PROVE Joined(slots) \in Seq(Nat)
  <2>1. PICK f : Joins(f, slots) /\ Joined(slots) = f[Len(slots)]
    BY JoinedFunction, Zenon
  <2>2. Len(slots) \in 0..Len(slots)
    BY LenProperties
  <2> QED BY <2>1, <2>2, Zenon DEF Joins
<1>2. << >> \in Seq(Seq(Nat)) /\ Len(<< >>) = 0
  BY EmptySeq
<1>3. PICK f : Joins(f, << >>) /\ Joined(<< >>) = f[Len(<< >>)]
  BY <1>2, JoinedFunction, Zenon
<1>4. Joined(<< >>) = << >>
  BY <1>2, <1>3, Zenon DEF Joins
<1> QED BY <1>1, <1>4, Zenon

\* A slot handed off comes last.
LEMMA JoinedAppend ==
    ASSUME NEW slots \in Seq(Seq(Nat)), NEW t \in Seq(Nat)
    PROVE  Joined(Append(slots, t)) = Joined(slots) \o t
<1> DEFINE N == Len(slots)
           r == Append(slots, t)
<1>1. /\ N \in Nat /\ r \in Seq(Seq(Nat)) /\ Len(r) = N + 1
      /\ (\A i \in 1..N : r[i] = slots[i]) /\ r[N + 1] = t
  BY AppendProperties, LenProperties
<1> HIDE DEF r
<1>2. PICK f : Joins(f, r) /\ Joined(r) = f[Len(r)]
  BY <1>1, JoinedFunction, Zenon
<1>3. PICK h : Joins(h, slots) /\ Joined(slots) = h[N]
  BY JoinedFunction, Zenon
<1>4. Same(f, h, 0, 0, 0)
  <2>1. 0 + 0 = 0
    OBVIOUS
  <2> QED BY <1>2, <1>3, <2>1, Zenon DEF Same, Joins
<1>5. ASSUME NEW i \in 1..N, Same(f, h, 0, 0, i - 1) PROVE Same(f, h, 0, 0, i)
  <2>1. i \in 1..(N + 1) /\ 0 + i = i /\ 0 + (i - 1) = i - 1
    BY <1>1
  <2>2. f[i] = f[i - 1] \o slots[i] /\ h[i] = h[i - 1] \o slots[i]
    BY <1>1, <1>2, <1>3, <2>1, Zenon DEF Joins
  <2> QED BY <1>5, <2>1, <2>2, Zenon DEF Same
<1>6. Same(f, h, 0, 0, N)
  BY <1>1, <1>4, <1>5, StaySame, Zenon
<1>7. N + 1 \in 1..(N + 1) /\ (N + 1) - 1 = N /\ 0 + N = N
  BY <1>1
<1>8. f[N + 1] = f[N] \o t
  BY <1>1, <1>2, <1>7, Zenon DEF Joins
<1> QED BY <1>1, <1>2, <1>3, <1>6, <1>7, <1>8, Zenon DEF Same, r

\* The oldest slot comes first.
LEMMA JoinedHead ==
    ASSUME NEW slots \in Seq(Seq(Nat)), slots # << >>
    PROVE  /\ Joined(slots) = slots[1] \o Joined(Tail(slots))
           /\ slots[1] \in Seq(Nat) /\ Tail(slots) \in Seq(Seq(Nat))
           /\ Len(Tail(slots)) = Len(slots) - 1
           /\ \A i \in 1..Len(Tail(slots)) : Tail(slots)[i] = slots[i + 1]
<1> DEFINE N == Len(slots)
           M == N - 1
           t == Tail(slots)
           s == slots[1]
<1>1. N \in Nat /\ N # 0 /\ M \in Nat /\ s \in Seq(Nat) /\ M + 1 = N
  BY LenProperties, ElementOfSeq, EmptySeq
<1>2. t \in Seq(Seq(Nat)) /\ Len(t) = M /\ \A i \in 1..M : t[i] = slots[i + 1]
  BY HeadTailProperties
<1> HIDE DEF t, s
<1>3. PICK f : Joins(f, slots) /\ Joined(slots) = f[N]
  BY JoinedFunction, Zenon
<1>4. PICK h : Joins(h, t) /\ Joined(t) = h[M]
  BY <1>2, JoinedFunction, Zenon
<1> HIDE DEF N, M
<1> DEFINE T == {i \in 0..M : f[i + 1] = s \o h[i]}
<1>5. 0 \in T
  <2>1. 0 \in 0..M /\ 0 + 1 = 1 /\ 1 \in 1..N /\ 1 - 1 = 0
    BY <1>1
  <2>2. f[1] = f[0] \o s /\ f[0] = << >> /\ h[0] = << >>
    BY <1>3, <1>4, <2>1, Zenon DEF Joins, s, N
  <2>3. << >> \o s = s /\ s \o << >> = s
    BY <1>1, ConcatEmptySeq, Zenon
  <2>4. f[0 + 1] = s \o h[0]
    BY <2>1, <2>2, <2>3, Zenon
  <2> QED BY <2>1, <2>4, Zenon
<1>6. ASSUME NEW i \in 1..M, i - 1 \in T PROVE i \in T
  <2>1. i + 1 \in 1..N /\ (i + 1) - 1 = i /\ (i - 1) + 1 = i /\ i \in 0..M /\ i - 1 \in 0..M
    BY <1>1
  <2>2. f[i] = s \o h[i - 1]
    BY <1>6, <2>1, Zenon
  <2>3. f[i + 1] = f[i] \o slots[i + 1]
    BY <1>3, <2>1, Zenon DEF Joins, N
  <2>4. h[i] = h[i - 1] \o slots[i + 1] /\ h[i - 1] \in Seq(Nat)
    BY <1>2, <1>4, <2>1, Zenon DEF Joins
  <2>5. slots[i + 1] \in Seq(Nat)
    BY <2>1, ElementOfSeq DEF N
  <2>6. (s \o h[i - 1]) \o slots[i + 1] = s \o (h[i - 1] \o slots[i + 1])
    <3>1. \A x, y, z \in Seq(Nat) : (x \o y) \o z = x \o (y \o z)
      BY ConcatAssociative, SMTT(120)
    <3> QED BY <1>1, <2>4, <2>5, <3>1, Zenon
  <2>7. f[i + 1] = s \o h[i]
    BY <2>2, <2>3, <2>4, <2>6, Zenon
  <2> QED BY <2>1, <2>7, Zenon
<1> HIDE DEF T
<1>7. \A i \in 0..M : i \in T
  BY <1>1, <1>5, <1>6, UpTo, Zenon
<1>8. M \in T
  <2>1. M \in 0..M
    BY <1>1
  <2> QED BY <1>7, <2>1, Zenon
<1>9. f[M + 1] = s \o h[M]
  BY <1>8, Zenon DEF T
<1>10. Joined(slots) = s \o Joined(t)
  BY <1>1, <1>3, <1>4, <1>9, Zenon
<1> QED BY <1>1, <1>2, <1>10, Zenon DEF t, s, N, M

-----------------------------------------------------------------------------
(* The invariant                                                           *)

Dumps == [off : Nat, data : Stores, gen : Nat, drift : Nat, whole : BOOLEAN]

SnapTypes ==
    /\ alive \in BOOLEAN /\ saving \in BOOLEAN /\ lossyDump \in BOOLEAN /\ mem \in Stores
    /\ history \in Seq(Commands) /\ durable \in 0..Len(history)
    /\ cur \in Seq(Nat) /\ handed \in Seq(Seq(Nat)) /\ rbuf \in Seq(Nat)
    /\ file \in Seq(Commands) /\ aofOff \in Nat /\ gen \in Nat /\ drift \in Nat
    /\ dumpFile \in Dumps /\ (bg # None => bg \in Dumps) /\ (orphan # None => orphan \in Dumps)
    /\ rw # None => rw.cmds \in Seq(Commands)

\* The commands that have not reached the AOF.
Pending == Joined(handed) \o cur

\* How many commands are not pending.
Written == Len(history) - Len(Pending)

\* The pending commands are the last ones.  A rewrite may have brought some of
\* them to the new AOF before, but not more than the next slot to land holds.
Numbered ==
    /\ Len(Pending) <= Len(history) /\ Following(Pending, Written)
    /\ alive => Written <= durable /\ aofOff = Len(file) + drift
    /\ handed # << >> => durable <= Written + Len(handed[1])
    /\ \A i \in 1..Len(handed) : handed[i] # << >>
    /\ saving => alive /\ Pending = << >>
    /\ ~alive => Pending = << >> /\ rw = None
    /\ rw # None => Len(rbuf) <= Len(history) /\ Following(rbuf, Len(history) - Len(rbuf))

\* Dump d, if it matches the AOF f of inode g, leads to the store st.
Leads(d, g, f, st) ==
    /\ d.gen <= g
    /\ d.gen = g /\ d.drift = 0 /\ d.whole =>
           /\ d.off <= Len(f)
           /\ ReplayAll(d.data, SubSeq(f, d.off + 1, Len(f))) = st

\* A dump that matches the AOF leads to the durable commands.
Fits(d) == d.gen <= gen /\ (~lossyDump => Leads(d, gen, file, StateAfter(durable)))

\* What the files and the memory hold.
Contents ==
    /\ ~lossyDump => ReplayAll(Empty, file) = StateAfter(durable)
    /\ ~lossyDump /\ alive => mem = StateAfter(Len(history))
    /\ ~lossyDump /\ rw # None => ReplayAll(Empty, rw.cmds) = StateAfter(Len(history) - Len(rbuf))
    /\ Fits(dumpFile) /\ (bg # None => Fits(bg)) /\ (orphan # None => Fits(orphan))

SnapInv == SnapTypes /\ Numbered /\ Contents

\* The empty store and the missing dump.
LEMMA NoDumpFacts ==
    /\ Empty \in Stores /\ NoDump \in Dumps
    /\ NoDump.off = 0 /\ NoDump.data = Empty /\ NoDump.gen = 0 /\ NoDump.drift = 0
BY DEF Empty, NoDump, NoValue, Stores, Dumps

\* The fields of a dump.
LEMMA DumpFields ==
    ASSUME NEW d \in Dumps
    PROVE  d.off \in Nat /\ d.data \in Stores /\ d.gen \in Nat /\ d.drift \in Nat /\ d.whole \in BOOLEAN
BY DEF Dumps

\* A whole dump of what the AOF leads to leads there; the missing dump leads
\* where the AOF does.
LEMMA NewDump ==
    ASSUME NEW f \in Seq(Commands), NEW st \in Stores
    PROVE  /\ \A d \in Dumps : (d.drift = 0 => d.off = Len(f)) /\ d.data = st => Leads(d, d.gen, f, st)
           /\ ReplayAll(Empty, f) = st => \A g \in Nat : Leads(NoDump, g, f, st)
<1>0. Len(f) \in Nat
  BY LenProperties
<1>1. ASSUME NEW d \in Dumps, d.drift = 0 => d.off = Len(f), d.data = st PROVE Leads(d, d.gen, f, st)
  <2>1. SubSeq(f, Len(f) + 1, Len(f)) = << >>
    BY <1>0
  <2>2. ReplayAll(st, << >>) = st
    BY ReplayNothing, Zenon
  <2>3. d.gen <= d.gen /\ Len(f) <= Len(f)
    BY <1>0, DumpFields
  <2> QED BY <1>1, <2>1, <2>2, <2>3, Zenon DEF Leads
<1>2. ASSUME ReplayAll(Empty, f) = st, NEW g \in Nat PROVE Leads(NoDump, g, f, st)
  <2>1. SubSeq(f, 0 + 1, Len(f)) = f
    <3>1. 0 + 1 = 1
      OBVIOUS
    <3> QED BY <3>1, SubSeqFull, Zenon
  <2>2. 0 <= g /\ 0 <= Len(f)
    BY <1>0
  <2> QED BY <1>2, <2>1, <2>2, NoDumpFacts, Zenon DEF Leads
<1> QED BY <1>1, <1>2, Zenon

\* A dump keeps leading to what the AOF leads to when the AOF grows.
LEMMA LeadsOn ==
    ASSUME NEW f \in Seq(Commands), NEW e \in Seq(Commands), NEW d \in Dumps, NEW g, NEW st,
           Leads(d, g, f, st)
    PROVE  Leads(d, g, f \o e, ReplayAll(st, e))
<1>1. Len(f) \in Nat /\ Len(e) \in Nat
  BY LenProperties
<1>2. f \o e \in Seq(Commands) /\ Len(f \o e) = Len(f) + Len(e)
  BY ConcatProperties
<1>3. d.gen <= g
  BY Zenon DEF Leads
<1>4. ASSUME d.gen = g, d.drift = 0, d.whole
      PROVE  /\ d.off <= Len(f \o e)
             /\ ReplayAll(d.data, SubSeq(f \o e, d.off + 1, Len(f \o e))) = ReplayAll(st, e)
  <2> DEFINE o == d.off
             a == SubSeq(f, o + 1, Len(f))
  <2>1. o <= Len(f) /\ ReplayAll(d.data, a) = st
    BY <1>4, Zenon DEF Leads
  <2>2. o \in Nat /\ d.data \in Stores
    BY DumpFields, Zenon
  <2> HIDE DEF o
  <2>3. \A i \in (o + 1)..Len(f) : f[i] \in Commands
    <3>1. \A i \in (o + 1)..Len(f) : i \in 1..Len(f)
      BY <1>1, <2>2
    <3> QED BY <3>1, ElementOfSeq, Zenon
  <2>4. /\ a \in Seq(Commands) /\ Len(a) = Len(f) - o
        /\ \A i \in 1..(Len(f) - o) : a[i] = f[o + i]
    BY <1>1, <2>1, <2>2, <2>3
  <2> HIDE DEF a
  <2>5. SubSeq(f \o e, o + 1, Len(f \o e)) = a \o e
    <3> DEFINE x == f \o e
               y == a \o e
    <3>1. y \in Seq(Commands) /\ Len(y) = Len(a) + Len(e)
          /\ \A i \in 1..(Len(a) + Len(e)) : y[i] = IF i <= Len(a) THEN a[i] ELSE e[i - Len(a)]
      BY <2>4, ConcatProperties, Zenon
    <3>2. \A i \in 1..(Len(f) + Len(e)) : x[i] = IF i <= Len(f) THEN f[i] ELSE e[i - Len(f)]
      BY ConcatProperties, Zenon
    <3>3. \A i \in (o + 1)..(Len(f) + Len(e)) : x[i] \in Commands
      <4>1. \A i \in (o + 1)..(Len(f) + Len(e)) : i \in 1..Len(x)
        BY <1>1, <1>2, <2>2
      <4> QED BY <1>2, <4>1, ElementOfSeq, Zenon
    <3> HIDE DEF x, y
    <3> DEFINE z == SubSeq(x, o + 1, Len(f) + Len(e))
    <3>4. /\ z \in Seq(Commands) /\ Len(z) = Len(f) + Len(e) - o
          /\ \A i \in 1..(Len(f) + Len(e) - o) : z[i] = x[o + i]
      BY <1>1, <2>1, <2>2, <3>3
    <3> HIDE DEF z
    <3>5. Len(y) = Len(f) + Len(e) - o
      BY <1>1, <2>1, <2>2, <2>4, <3>1
    <3>6. ASSUME NEW i \in 1..(Len(f) + Len(e) - o) PROVE z[i] = y[i]
      <4>1. z[i] = x[o + i] /\ o + i \in 1..(Len(f) + Len(e)) /\ i \in 1..(Len(a) + Len(e))
        BY <1>1, <2>1, <2>2, <2>4, <3>4
      <4>2. CASE o + i <= Len(f)
        <5>1. i \in 1..(Len(f) - o) /\ i <= Len(a)
          BY <1>1, <2>1, <2>2, <2>4, <4>2
        <5> QED BY <2>4, <3>1, <3>2, <4>1, <4>2, <5>1, Zenon
      <4>3. CASE ~(o + i <= Len(f))
        <5>1. ~(i <= Len(a)) /\ (o + i) - Len(f) = i - Len(a)
          BY <1>1, <2>1, <2>2, <2>4, <4>3
        <5> QED BY <3>1, <3>2, <4>1, <4>3, <5>1, Zenon
      <4> QED BY <4>2, <4>3
    <3>7. z = y
      BY <3>1, <3>4, <3>5, <3>6, SeqEqual, Zenon
    <3> QED BY <1>2, <3>7, Zenon DEF x, y, z
  <2>6. ReplayAll(d.data, a \o e) = ReplayAll(st, e)
    BY <2>1, <2>2, <2>4, ReplayParts, Zenon
  <2>7. o <= Len(f \o e)
    BY <1>1, <1>2, <2>1, <2>2
  <2> QED BY <2>5, <2>6, <2>7, Zenon DEF o
<1> QED BY <1>3, <1>4, Zenon DEF Leads

\* The AOF f, the dumps that fit and the commands known to be on disk go
\* together: what Contents says of the files, for the store st.
FilesLead(g, f, st) ==
    /\ ReplayAll(Empty, f) = st
    /\ Leads(dumpFile, g, f, st)
    /\ bg # None => Leads(bg, g, f, st)
    /\ orphan # None => Leads(orphan, g, f, st)

\* Pending commands appended to the AOF bring the durable commands forward,
\* those included that a rewrite wrote before.
LEMMA FileGrows ==
    ASSUME SnapInv, NEW ns \in Seq(Nat), NEW j \in Nat, NEW m \in Nat,
           Following(ns, j), Len(ns) = m - j, j <= durable, durable <= m, m <= Len(history)
    PROVE  /\ file \o Cmds(ns) \in Seq(Commands) /\ Len(file \o Cmds(ns)) = Len(file) + Len(ns)
           /\ ~lossyDump => FilesLead(gen, file \o Cmds(ns), StateAfter(m))
<1>1. /\ history \in Seq(Commands) /\ durable \in 0..Len(history) /\ file \in Seq(Commands)
      /\ dumpFile \in Dumps /\ (bg # None => bg \in Dumps) /\ (orphan # None => orphan \in Dumps)
  BY Zenon DEF SnapInv, SnapTypes
<1>2. durable \in Nat
  BY <1>1, LenProperties
<1>3. /\ Cmds(ns) \in Seq(Commands) /\ Len(Cmds(ns)) = Len(ns)
      /\ ReplayAll(StateAfter(durable), Cmds(ns)) = StateAfter(m)
  <2>1. Again(durable, m, ns)
    BY <1>1, <1>2, ReplayAgain, Zenon
  <2> QED BY <2>1, Zenon DEF Again
<1> DEFINE e == Cmds(ns)
<1>6. e \in Seq(Commands) /\ Len(e) = Len(ns) /\ ReplayAll(StateAfter(durable), e) = StateAfter(m)
  BY <1>3, Zenon
<1> HIDE DEF e
<1>4. file \o e \in Seq(Commands) /\ Len(file \o e) = Len(file) + Len(e)
  <2>1. \A x, y \in Seq(Commands) : x \o y \in Seq(Commands) /\ Len(x \o y) = Len(x) + Len(y)
    BY ConcatProperties, Zenon
  <2> QED BY <1>1, <1>6, <2>1, Zenon
<1>5. ASSUME ~lossyDump PROVE FilesLead(gen, file \o e, StateAfter(m))
  <2>1. /\ ReplayAll(Empty, file) = StateAfter(durable)
        /\ Leads(dumpFile, gen, file, StateAfter(durable))
        /\ bg # None => Leads(bg, gen, file, StateAfter(durable))
        /\ orphan # None => Leads(orphan, gen, file, StateAfter(durable))
    BY <1>5, Zenon DEF SnapInv, Contents, Fits
  <2>2. ReplayAll(Empty, file \o e) = StateAfter(m)
    <3>1. \A d \in Stores : \A x, y \in Seq(Commands) :
              ReplayAll(d, x \o y) = ReplayAll(ReplayAll(d, x), y)
      BY ReplayParts, Zenon
    <3>2. ReplayAll(Empty, file \o e) = ReplayAll(ReplayAll(Empty, file), e)
      BY <1>1, <1>6, <3>1, NoDumpFacts, Zenon
    <3> QED BY <1>6, <2>1, <3>2, Zenon
  <2>3. \A d \in Dumps : Leads(d, gen, file, StateAfter(durable)) =>
                         Leads(d, gen, file \o e, StateAfter(m))
    <3> TAKE d \in Dumps
    <3> HAVE Leads(d, gen, file, StateAfter(durable))
    <3>1. Leads(d, gen, file \o e, ReplayAll(StateAfter(durable), e))
      BY <1>1, <1>6, LeadsOn, Zenon
    <3> QED BY <1>6, <3>1, Zenon
  <2> QED BY <1>1, <2>1, <2>2, <2>3, Zenon DEF FilesLead
<1> QED BY <1>4, <1>5, <1>6, Zenon DEF e

\* Parts of a list of consecutive numbers.
LEMMA FollowingParts ==
    ASSUME NEW a \in Seq(Nat), NEW b \in Seq(Nat), NEW lo \in Nat, Following(a \o b, lo)
    PROVE  Following(a, lo) /\ Following(b, lo + Len(a))
<1>1. /\ Len(a) \in Nat /\ Len(b) \in Nat /\ Len(a \o b) = Len(a) + Len(b)
      /\ \A i \in 1..(Len(a) + Len(b)) : (a \o b)[i] = IF i <= Len(a) THEN a[i] ELSE b[i - Len(a)]
  BY ConcatProperties, LenProperties
<1> DEFINE c == a \o b
<1>2. \A i \in 1..(Len(a) + Len(b)) : c[i] = lo + i
  BY <1>1, Zenon DEF Following
<1> HIDE DEF c
<1>3. ASSUME NEW i \in 1..Len(a) PROVE a[i] = lo + i
  <2>1. i \in 1..(Len(a) + Len(b)) /\ i <= Len(a)
    BY <1>1
  <2> QED BY <1>1, <1>2, <2>1, Zenon DEF c
<1>4. ASSUME NEW i \in 1..Len(b) PROVE b[i] = (lo + Len(a)) + i
  <2>1. /\ Len(a) + i \in 1..(Len(a) + Len(b)) /\ ~(Len(a) + i <= Len(a))
        /\ (Len(a) + i) - Len(a) = i /\ lo + (Len(a) + i) = (lo + Len(a)) + i
    BY <1>1
  <2> QED BY <1>1, <1>2, <2>1, Zenon DEF c
<1> QED BY <1>3, <1>4, Zenon DEF Following

\* Types of the derived quantities.
LEMMA PendingTypes ==
    ASSUME SnapInv
    PROVE  /\ Joined(handed) \in Seq(Nat) /\ Pending \in Seq(Nat)
           /\ Len(Pending) = Len(Joined(handed)) + Len(cur)
           /\ {Len(Joined(handed)), Len(cur), Len(Pending), Len(history), Written, durable} \subseteq Nat
           /\ Written + Len(Pending) = Len(history)
           /\ durable <= Len(history)
<1>1. /\ history \in Seq(Commands) /\ durable \in 0..Len(history)
      /\ cur \in Seq(Nat) /\ handed \in Seq(Seq(Nat)) /\ Len(Pending) <= Len(history)
  BY Zenon DEF SnapInv, SnapTypes, Numbered
<1>2. Joined(handed) \in Seq(Nat)
  BY <1>1, JoinedSeq, Zenon
<1>3. Pending \in Seq(Nat) /\ Len(Pending) = Len(Joined(handed)) + Len(cur)
  BY <1>1, <1>2, ConcatProperties, Zenon DEF Pending
<1>4. Len(Joined(handed)) \in Nat /\ Len(cur) \in Nat /\ Len(Pending) \in Nat /\ Len(history) \in Nat
  BY <1>1, <1>2, <1>3, LenProperties, Zenon
<1> QED BY <1>1, <1>2, <1>3, <1>4 DEF Written

\* The last number of a slot.
LEMMA LatestIs ==
    ASSUME NEW ns \in Seq(Nat), NEW j \in Nat, NEW n \in Nat, Following(ns, j), j <= n, n <= j + Len(ns)
    PROVE  Latest(n, ns) = j + Len(ns)
<1>1. Len(ns) \in Nat
  BY LenProperties
<1>2. CASE ns = << >>
  BY <1>2, EmptySeq DEF Latest
<1>3. CASE ns # << >>
  <2>1. Len(ns) # 0
    BY <1>3, EmptySeq
  <2>2. ns[Len(ns)] = j + Len(ns)
    BY <1>1, <2>1 DEF Following
  <2> QED BY <1>1, <1>3, <2>2 DEF Latest
<1> QED BY <1>2, <1>3

\* The histories that agree on the first n commands lead to the same store.
LEMMA SameBeginning ==
    ASSUME NEW h \in Seq(Commands), NEW k \in Seq(Commands), NEW n \in Nat, n <= Len(h), n <= Len(k),
           \A i \in 1..n : h[i] = k[i]
    PROVE  SubSeq(h, 1, n) = SubSeq(k, 1, n)
<1>1. n \in 0..Len(h) /\ n \in 0..Len(k)
  BY LenProperties
<1> DEFINE a == SubSeq(h, 1, n)
           b == SubSeq(k, 1, n)
<1>2. a \in Seq(Commands) /\ Len(a) = n /\ \A i \in 1..n : a[i] = h[i]
  BY <1>1, Beginning, Zenon
<1>3. b \in Seq(Commands) /\ Len(b) = n /\ \A i \in 1..n : b[i] = k[i]
  BY <1>1, Beginning, Zenon
<1> HIDE DEF a, b
<1>4. a = b
  BY <1>2, <1>3, SeqEqual, Zenon
<1> QED BY <1>4 DEF a, b

-----------------------------------------------------------------------------
(* Common parts of the steps                                               *)

\* The store after n commands of history h.
After(h, n) == ReplayAll(Empty, SubSeq(h, 1, n))

\* What persist_drain_pending establishes.
Drained ==
    /\ file' \in Seq(Commands) /\ aofOff' = Len(file') + drift /\ aofOff' \in Nat
    /\ durable' = Len(history) /\ cur' = << >> /\ handed' = << >>
    /\ ~lossyDump => FilesLead(gen, file', After(history, Len(history)))

\* Draining brings every command to the AOF.
LEMMA DrainPendingDrains ==
    ASSUME SnapInv, alive, DrainPending
    PROVE  Drained
<1>1. /\ file' = file \o Cmds(Pending) /\ aofOff' = aofOff + Len(Pending)
      /\ durable' = Latest(durable, Pending) /\ handed' = << >> /\ cur' = << >>
  BY Zenon DEF DrainPending, Pending
<1>2. /\ Pending \in Seq(Nat) /\ Written \in Nat /\ Len(Pending) \in Nat /\ durable \in Nat
      /\ Len(history) \in Nat /\ Written + Len(Pending) = Len(history) /\ durable <= Len(history)
  <2>1. {Len(Pending), Len(history), Written, durable} \subseteq Nat
    BY PendingTypes
  <2> QED BY <2>1, PendingTypes
<1>3. Following(Pending, Written) /\ Written <= durable /\ aofOff = Len(file) + drift
  BY Zenon DEF SnapInv, Numbered
<1>4. Len(Pending) = Len(history) - Written /\ Len(history) <= Len(history)
  BY <1>2
<1>5. /\ file' \in Seq(Commands) /\ Len(file') = Len(file) + Len(Pending)
      /\ ~lossyDump => FilesLead(gen, file', StateAfter(Len(history)))
  BY <1>1, <1>2, <1>3, <1>4, FileGrows, Zenon
<1>6. durable' = Len(history)
  <2>1. durable <= Written + Len(Pending)
    BY <1>2
  <2> QED BY <1>1, <1>2, <1>3, <2>1, LatestIs, Zenon
<1>7. aofOff' = Len(file') + drift /\ aofOff' \in Nat
  <2>1. file \in Seq(Commands) /\ drift \in Nat
    BY Zenon DEF SnapInv, SnapTypes
  <2>2. Len(file) \in Nat
    BY <2>1, LenProperties, Zenon
  <2> QED BY <1>1, <1>2, <1>3, <1>5, <2>1, <2>2, SMTT(30)
<1> QED BY <1>1, <1>5, <1>6, <1>7, Zenon DEF Drained, After, StateAfter

\* With no slot left nothing is pending.
LEMMA EmptyNumbered ==
    ASSUME handed' = << >>, cur' = << >>, Len(history') \in Nat,
           alive' => durable' = Len(history') /\ aofOff' = Len(file') + drift',
           saving' => alive', ~alive' => rw' = None,
           rw' # None => Len(rbuf') <= Len(history') /\ Following(rbuf', Len(history') - Len(rbuf'))
    PROVE  Numbered'
<1>1. << >> \in Seq(Nat) /\ Len(<< >>) = 0
  BY EmptySeq
<1>2. Pending' = << >>
  <2>1. << >> \o << >> = << >>
    BY <1>1, ConcatEmptySeq, Zenon
  <2> QED BY <2>1, JoinedSeq, Zenon DEF Pending
<1>3. Written' = Len(history')
  <2>1. Written' = Len(history') - Len(Pending')
    BY DEF Written
  <2> QED BY <1>1, <1>2, <2>1
<1>4. Len(Pending') <= Len(history') /\ Following(Pending', Written')
  <2>1. Len(Pending') = 0
    BY <1>1, <1>2, Zenon
  <2>2. 1..0 = {} /\ 0 <= Len(history')
    OBVIOUS
  <2> QED BY <2>1, <2>2, Zenon DEF Following
<1>5. alive' => Written' <= durable' /\ aofOff' = Len(file') + drift'
  BY <1>3
<1>6. \A i \in 1..Len(handed') : handed'[i] # << >>
  <2>1. 1..0 = {}
    OBVIOUS
  <2> QED BY <1>1, <2>1, Zenon
<1> QED BY <1>2, <1>4, <1>5, <1>6, Zenon DEF Numbered

\* Contents in the next state, from what the files lead to.
LEMMA NextContents ==
    ASSUME \A d \in {dumpFile', bg', orphan'} : d # None => d.gen <= gen',
           dumpFile' \in Dumps, 
           ASSUME ~lossyDump'
           PROVE  /\ ReplayAll(Empty, file') = After(history', durable')
                  /\ alive' => mem' = After(history', Len(history'))
                  /\ rw' # None => ReplayAll(Empty, rw'.cmds) = After(history', Len(history') - Len(rbuf'))
                  /\ Leads(dumpFile', gen', file', After(history', durable'))
                  /\ bg' # None => Leads(bg', gen', file', After(history', durable'))
                  /\ orphan' # None => Leads(orphan', gen', file', After(history', durable'))
    PROVE  Contents'
<1>1. dumpFile' # None
  BY DEF Dumps, None
<1> QED BY <1>1, Zenon DEF Contents, Fits, StateAfter, After

\* The dumps about are of no later inode than the AOF.
LEMMA Gens ==
    ASSUME SnapInv
    PROVE  \A d \in {dumpFile, bg, orphan} : d # None => d \in Dumps /\ d.gen <= gen
<1>1. /\ dumpFile \in Dumps /\ dumpFile.gen <= gen
      /\ bg # None => bg \in Dumps /\ bg.gen <= gen
      /\ orphan # None => orphan \in Dumps /\ orphan.gen <= gen
  BY Zenon DEF SnapInv, SnapTypes, Contents, Fits
<1>2. \A d \in {dumpFile, bg, orphan} : d = dumpFile \/ d = bg \/ d = orphan
  OBVIOUS
<1>3. ASSUME NEW d \in {dumpFile, bg, orphan}, d # None PROVE d \in Dumps /\ d.gen <= gen
  <2>1. CASE d = dumpFile
    BY <1>1, <2>1, Zenon
  <2>2. CASE d = bg
    BY <1>1, <1>3, <2>2, Zenon
  <2>3. CASE d = orphan
    BY <1>1, <1>3, <2>3, Zenon
  <2> QED BY <1>2, <2>1, <2>2, <2>3, Zenon
<1> QED BY <1>3, Zenon

\* Before the step, the files lead to the durable commands.
LEMMA FilesNow ==
    ASSUME SnapInv, ~lossyDump
    PROVE  FilesLead(gen, file, After(history, durable)) /\ (alive => mem = After(history, Len(history)))
BY Zenon DEF SnapInv, Contents, Fits, FilesLead, After, StateAfter

\* The next number appended to consecutive numbers.
LEMMA FollowingAppend ==
    ASSUME NEW ns \in Seq(Nat), NEW lo \in Nat, NEW n \in Nat, Following(ns, lo), n = lo + Len(ns) + 1
    PROVE  Append(ns, n) \in Seq(Nat) /\ Len(Append(ns, n)) = Len(ns) + 1 /\ Following(Append(ns, n), lo)
<1> DEFINE a == Append(ns, n)
<1>1. /\ Len(ns) \in Nat /\ a \in Seq(Nat) /\ Len(a) = Len(ns) + 1
      /\ (\A i \in 1..Len(ns) : a[i] = ns[i]) /\ a[Len(ns) + 1] = n
  BY AppendProperties, LenProperties
<1> HIDE DEF a
<1>2. ASSUME NEW i \in 1..Len(a) PROVE a[i] = lo + i
  <2>1. i \in 1..Len(ns) \/ i = Len(ns) + 1
    BY <1>1
  <2>2. n = lo + (Len(ns) + 1)
    BY <1>1
  <2> QED BY <1>1, <2>1, <2>2, Zenon DEF Following
<1> QED BY <1>1, <1>2, Zenon DEF Following, a

\* A write is pending, and in the rewrite buffer while a child runs.
LEMMA SnapWriteKeeps ==
    ASSUME SnapInv, NEW k \in SnapKeys, NEW v \in Nat, SnapWrite(k, v)
    PROVE  SnapInv'
<1> DEFINE c == [key |-> k, val |-> v]
           L == Len(history)
           n == L + 1
<1>1. /\ mem' = Execute(mem, c) /\ history' = Append(history, c) /\ cur' = Append(cur, n)
      /\ rbuf' = IF rw # None THEN Append(rbuf, n) ELSE rbuf
      /\ alive /\ ~saving /\ alive' = alive /\ saving' = saving
      /\ durable' = durable /\ lossyDump' = lossyDump /\ handed' = handed /\ file' = file
      /\ aofOff' = aofOff /\ gen' = gen /\ drift' = drift /\ dumpFile' = dumpFile
      /\ bg' = bg /\ orphan' = orphan /\ rw' = rw
  BY Zenon DEF SnapWrite, Running, bgVars
<1>2. c \in Commands /\ c.key = k
  BY DEF Commands
<1> HIDE DEF c
<1>3. SnapTypes
  BY Zenon DEF SnapInv
<1>4. /\ history \in Seq(Commands) /\ durable \in 0..L /\ L \in Nat /\ n \in Nat /\ n = L + 1
      /\ mem \in Stores /\ cur \in Seq(Nat) /\ rbuf \in Seq(Nat) /\ handed \in Seq(Seq(Nat))
  BY <1>3, LenProperties DEF SnapTypes
<1>5. /\ history' \in Seq(Commands) /\ Len(history') = n
      /\ (\A i \in 1..L : history'[i] = history[i]) /\ history'[n] = c
  <2>1. \A h \in Seq(Commands) : \A x \in Commands :
            /\ Append(h, x) \in Seq(Commands) /\ Len(Append(h, x)) = Len(h) + 1
            /\ (\A i \in 1..Len(h) : Append(h, x)[i] = h[i]) /\ Append(h, x)[Len(h) + 1] = x
    BY AppendProperties, SMTT(30)
  <2> QED BY <1>1, <1>2, <1>4, <2>1, Zenon
<1> HIDE DEF L, n
<1>6. ASSUME NEW j \in 0..L PROVE After(history', j) = After(history, j)
  <2>1. j \in Nat /\ j <= L /\ j <= n /\ \A i \in 1..j : i \in 1..L
    BY <1>4
  <2>2. SubSeq(history', 1, j) = SubSeq(history, 1, j)
    <3>1. \A i \in 1..j : history'[i] = history[i]
      BY <1>5, <2>1, Zenon
    <3> QED BY <1>4, <1>5, <2>1, <3>1, SameBeginning, Zenon DEF L
  <2> QED BY <2>2, Zenon DEF After
<1>7. After(history', n) = Execute(After(history, L), c)
  <2>1. SubSeq(history', 1, n) = history' /\ SubSeq(history, 1, L) = history
    BY <1>4, <1>5, SubSeqFull, Zenon DEF L
  <2>2. ReplayAll(Empty, Append(history, c)) = Execute(ReplayAll(Empty, history), c)
    BY <1>2, <1>4, NoDumpFacts, ReplayOne, Zenon
  <2> QED BY <1>1, <2>1, <2>2, Zenon DEF After
<1>8. /\ Pending \in Seq(Nat) /\ Joined(handed) \in Seq(Nat) /\ Len(Pending) \in Nat /\ Written \in Nat
      /\ Written + Len(Pending) = L /\ durable \in Nat
  <2>1. {Len(Pending), Written, durable} \subseteq Nat
    BY PendingTypes
  <2> QED BY <2>1, PendingTypes, Zenon DEF L
<1>9. Pending' = Append(Pending, n)
  <2>1. Pending' = Joined(handed) \o Append(cur, n)
    BY <1>1, Zenon DEF Pending
  <2> DEFINE J == Joined(handed)
  <2>2. J \in Seq(Nat)
    BY <1>8, Zenon
  <2> HIDE DEF J
  <2>3. J \o Append(cur, n) = Append(J \o cur, n)
    BY <1>4, <2>2, SMTT(30)
  <2> QED BY <2>1, <2>3, Zenon DEF Pending, J
<1>10. Following(Pending, Written) /\ (rw # None => Len(rbuf) <= L /\ Following(rbuf, L - Len(rbuf)))
       /\ Numbered
  BY Zenon DEF SnapInv, Numbered, L
<1>11. Pending' \in Seq(Nat) /\ Len(Pending') = Len(Pending) + 1 /\ Following(Pending', Written)
  <2>1. n = Written + Len(Pending) + 1
    BY <1>4, <1>8, SMTT(30)
  <2> QED BY <1>4, <1>8, <1>9, <1>10, <2>1, FollowingAppend, Zenon
<1>12. Written' = Written
  <2>1. Written' = Len(history') - Len(Pending')
    BY DEF Written
  <2>2. Written' = n - (Len(Pending) + 1)
    BY <1>5, <1>11, <2>1, Zenon
  <2>3. n - (Len(Pending) + 1) = Written
    BY <1>4, <1>8, SMTT(30)
  <2> QED BY <2>2, <2>3, Zenon
<1>13. ASSUME rw # None
       PROVE  /\ rbuf' \in Seq(Nat) /\ Len(rbuf') <= n /\ n - Len(rbuf') = L - Len(rbuf)
              /\ Following(rbuf', n - Len(rbuf')) /\ L - Len(rbuf) \in 0..L
  <2>1. Len(rbuf) \in Nat /\ Len(rbuf) <= L /\ rbuf' = Append(rbuf, n)
    BY <1>1, <1>4, <1>10, <1>13, LenProperties
  <2> DEFINE lo == L - Len(rbuf)
  <2>2. lo \in Nat /\ n = lo + Len(rbuf) + 1
    BY <1>4, <2>1
  <2>3. Following(rbuf, lo)
    BY <1>10, <1>13, Zenon
  <2> HIDE DEF lo
  <2>4. rbuf' \in Seq(Nat) /\ Len(rbuf') = Len(rbuf) + 1 /\ Following(rbuf', lo)
    BY <1>4, <2>1, <2>2, <2>3, FollowingAppend, Zenon
  <2>5. n - Len(rbuf') = lo /\ Len(rbuf') <= n
    BY <1>4, <2>1, <2>2, <2>4
  <2>6. lo = L - Len(rbuf) /\ lo \in 0..L
    BY <1>4, <2>1 DEF lo
  <2> QED BY <2>4, <2>5, <2>6, Zenon
<1>14. SnapTypes'
  <2>1. durable' \in 0..Len(history')
    BY <1>1, <1>4, <1>5
  <2>2. mem' \in Stores
    BY <1>1, <1>2, <1>4, ExecuteStores, Zenon DEF Executed
  <2>3. cur' \in Seq(Nat)
    BY <1>1, <1>4, AppendProperties, Zenon
  <2>4. rbuf' \in Seq(Nat)
    BY <1>1, <1>4, <1>13, Zenon
  <2> QED BY <1>1, <1>3, <1>5, <2>1, <2>2, <2>3, <2>4, Zenon DEF SnapTypes
<1>15. Numbered'
  <2>1. Len(Pending') <= Len(history')
    BY <1>4, <1>5, <1>8, <1>11
  <2> QED BY <1>1, <1>5, <1>10, <1>11, <1>12, <1>13, <2>1, Zenon DEF Numbered
<1>16. Contents'
  <2>1. ASSUME ~lossyDump'
        PROVE  /\ ReplayAll(Empty, file') = After(history', durable')
               /\ alive' => mem' = After(history', Len(history'))
               /\ rw' # None => ReplayAll(Empty, rw'.cmds) = After(history', Len(history') - Len(rbuf'))
               /\ Leads(dumpFile', gen', file', After(history', durable'))
               /\ bg' # None => Leads(bg', gen', file', After(history', durable'))
               /\ orphan' # None => Leads(orphan', gen', file', After(history', durable'))
    <3>1. FilesLead(gen, file, After(history, durable)) /\ mem = After(history, L)
      BY <1>1, <2>1, FilesNow, Zenon DEF L
    <3>2. After(history', durable') = After(history, durable)
      BY <1>1, <1>4, <1>6, Zenon
    <3>3. mem' = After(history', Len(history'))
      BY <1>1, <1>5, <1>7, <3>1, Zenon
    <3>4. ASSUME rw # None PROVE ReplayAll(Empty, rw'.cmds) = After(history', Len(history') - Len(rbuf'))
      <4>1. ReplayAll(Empty, rw.cmds) = After(history, L - Len(rbuf))
        BY <1>1, <2>1, <3>4, Zenon DEF SnapInv, Contents, After, StateAfter, L
      <4>2. Len(history') - Len(rbuf') = L - Len(rbuf)
        BY <1>5, <1>13, <3>4, Zenon
      <4>3. After(history', L - Len(rbuf)) = After(history, L - Len(rbuf))
        BY <1>6, <1>13, <3>4, Zenon
      <4> QED BY <1>1, <4>1, <4>2, <4>3, Zenon
    <3> QED BY <1>1, <3>1, <3>2, <3>3, <3>4, Zenon DEF FilesLead
  <2>2. dumpFile' \in Dumps
    BY <1>14, Zenon DEF SnapTypes
  <2>3. \A d \in {dumpFile', bg', orphan'} : d # None => d.gen <= gen'
    BY <1>1, Gens, Zenon
  <2> QED BY <2>1, <2>2, <2>3, NextContents, Zenon
<1> QED BY <1>14, <1>15, <1>16, Zenon DEF SnapInv

\* A slot handed off is still pending.
LEMMA HandoffKeeps ==
    ASSUME SnapInv, Handoff
    PROVE  SnapInv'
<1>1. /\ cur # << >> /\ handed' = Append(handed, cur) /\ cur' = << >>
      /\ alive' = alive /\ mem' = mem /\ saving' = saving /\ ~saving /\ alive
      /\ history' = history /\ durable' = durable /\ lossyDump' = lossyDump /\ file' = file
      /\ aofOff' = aofOff /\ gen' = gen /\ drift' = drift /\ dumpFile' = dumpFile
      /\ bg' = bg /\ orphan' = orphan /\ rw' = rw /\ rbuf' = rbuf
  BY Zenon DEF Handoff, Running, memVars, histVars, bgVars, rwVars
<1>2. SnapTypes /\ Numbered /\ Contents
  BY Zenon DEF SnapInv
<1>3. cur \in Seq(Nat) /\ handed \in Seq(Seq(Nat)) /\ Joined(handed) \in Seq(Nat)
  BY <1>2, PendingTypes, Zenon DEF SnapTypes
<1>4. /\ handed' \in Seq(Seq(Nat)) /\ Len(handed') = Len(handed) + 1 /\ Len(handed) \in Nat
      /\ (\A i \in 1..Len(handed) : handed'[i] = handed[i]) /\ handed'[Len(handed) + 1] = cur
  BY <1>1, <1>3, AppendProperties, LenProperties
<1>5. Pending' = Pending
  <2>1. Joined(handed') = Joined(handed) \o cur
    BY <1>1, <1>3, JoinedAppend, Zenon
  <2>2. Pending \in Seq(Nat)
    BY PendingTypes, Zenon
  <2>3. Pending \o << >> = Pending
    BY <2>2, ConcatEmptySeq, Zenon
  <2> QED BY <1>1, <2>1, <2>3, Zenon DEF Pending
<1>6. Written' = Written
  BY <1>1, <1>5, Zenon DEF Written
<1>7. << >> \in Seq(Nat)
  BY EmptySeq
<1>8. SnapTypes'
  BY <1>1, <1>2, <1>4, <1>7, Zenon DEF SnapTypes
<1>9. durable' <= Written' + Len(handed'[1])
  <2>1. CASE handed = << >>
    <3>1. handed'[1] = cur
      <4>1. Len(handed) + 1 = 1
        BY <2>1, EmptySeq
      <4> QED BY <1>4, <4>1, Zenon
    <3>2. Len(Joined(handed)) = 0
      BY <2>1, JoinedSeq, EmptySeq
    <3>3. {Len(cur), Len(Pending), Written, durable} \subseteq Nat
      BY PendingTypes
    <3>4. /\ Len(Pending) = Len(Joined(handed)) + Len(cur) /\ Written + Len(Pending) = Len(history)
          /\ durable <= Len(history)
      BY PendingTypes, Zenon
    <3>5. durable <= Written + Len(cur)
      BY <3>2, <3>3, <3>4
    <3> QED BY <1>1, <1>6, <3>1, <3>5, Zenon
  <2>2. CASE handed # << >>
    <3>1. 1 \in 1..Len(handed)
      BY <1>3, <1>4, <2>2, EmptySeq
    <3>2. handed'[1] = handed[1]
      BY <1>4, <3>1, Zenon
    <3> QED BY <1>1, <1>2, <1>6, <2>2, <3>2, Zenon DEF Numbered
  <2> QED BY <2>1, <2>2
<1>10. \A i \in 1..Len(handed') : handed'[i] # << >>
  <2>1. \A i \in 1..Len(handed') : i \in 1..Len(handed) \/ i = Len(handed) + 1
    BY <1>4
  <2> QED BY <1>1, <1>2, <1>4, <2>1, Zenon DEF Numbered
<1>11. Numbered'
  BY <1>1, <1>2, <1>5, <1>6, <1>9, <1>10, Zenon DEF Numbered
<1>12. Contents'
  BY <1>1, <1>2, Zenon DEF Contents, Fits, StateAfter
<1> QED BY <1>8, <1>11, <1>12, Zenon DEF SnapInv

\* The oldest slot lands in the AOF.
LEMMA LandKeeps ==
    ASSUME SnapInv, Land
    PROVE  SnapInv'
<1> DEFINE ns == handed[1]
           m == Written + Len(ns)
<1>1. /\ handed # << >> /\ file' = file \o Cmds(Head(handed)) /\ aofOff' = aofOff + Len(Head(handed))
      /\ durable' = Latest(durable, Head(handed)) /\ handed' = Tail(handed)
      /\ alive /\ alive' = alive /\ mem' = mem /\ saving' = saving
      /\ history' = history /\ lossyDump' = lossyDump /\ cur' = cur
      /\ gen' = gen /\ drift' = drift /\ dumpFile' = dumpFile
      /\ bg' = bg /\ orphan' = orphan /\ rw' = rw /\ rbuf' = rbuf
  BY Zenon DEF Land, memVars, bgVars, rwVars
<1>2. SnapTypes /\ Numbered /\ Contents
  BY Zenon DEF SnapInv
<1>3. /\ cur \in Seq(Nat) /\ handed \in Seq(Seq(Nat)) /\ file \in Seq(Commands) /\ aofOff \in Nat
      /\ history \in Seq(Commands) /\ drift \in Nat
  BY <1>2, Zenon DEF SnapTypes
<1>4. Head(handed) = ns
  OBVIOUS
<1>5. /\ Joined(handed) = ns \o Joined(handed') /\ ns \in Seq(Nat) /\ handed' \in Seq(Seq(Nat))
      /\ Len(handed') = Len(handed) - 1 /\ \A i \in 1..Len(handed') : handed'[i] = handed[i + 1]
  BY <1>1, <1>3, JoinedHead, Zenon
<1> HIDE DEF ns
<1>6. Joined(handed') \in Seq(Nat) /\ Pending' = Joined(handed') \o cur /\ Pending' \in Seq(Nat)
  <2>1. Joined(handed') \in Seq(Nat)
    BY <1>5, JoinedSeq, Zenon
  <2>2. Pending' = Joined(handed') \o cur
    BY <1>1, Zenon DEF Pending
  <2> QED BY <1>3, <2>1, <2>2, ConcatProperties, Zenon
<1>7. Pending = ns \o Pending'
  <2>1. \A x, y, z \in Seq(Nat) : (x \o y) \o z = x \o (y \o z)
    BY ConcatAssociative, SMTT(120)
  <2>2. Pending = (ns \o Joined(handed')) \o cur
    BY <1>5, Zenon DEF Pending
  <2>3. (ns \o Joined(handed')) \o cur = ns \o (Joined(handed') \o cur)
    BY <1>3, <1>5, <1>6, <2>1, ZenonT(40)
  <2> QED BY <1>6, <2>2, <2>3, Zenon
<1>8. /\ Len(Pending) = Len(ns) + Len(Pending') /\ Len(ns) \in Nat /\ Len(Pending') \in Nat
      /\ Len(handed) \in Nat
  <2>1. \A x, y \in Seq(Nat) : Len(x \o y) = Len(x) + Len(y)
    BY ConcatProperties, Zenon
  <2>2. Len(Pending) = Len(ns) + Len(Pending')
    BY <1>5, <1>6, <1>7, <2>1, Zenon
  <2> QED BY <1>3, <1>5, <1>6, <2>2, LenProperties, Zenon
<1>9. /\ Written \in Nat /\ durable \in Nat /\ Len(history) \in Nat
      /\ Written + Len(Pending) = Len(history) /\ durable <= Len(history)
  <2>1. {Written, durable, Len(history)} \subseteq Nat
    BY PendingTypes
  <2> QED BY <2>1, PendingTypes, Zenon
<1>10. /\ Following(Pending, Written) /\ Written <= durable /\ aofOff = Len(file) + drift
       /\ durable <= m
  BY <1>1, <1>2, Zenon DEF Numbered, ns
<1>11. /\ m \in Nat /\ m <= Len(history) /\ Len(ns) = m - Written
       /\ Len(history) - Len(Pending') = m /\ m <= m
  BY <1>8, <1>9
<1>12. Following(ns, Written) /\ Following(Pending', m)
  BY <1>5, <1>6, <1>7, <1>9, <1>10, FollowingParts, Zenon
<1>13. durable' = m
  BY <1>1, <1>4, <1>5, <1>9, <1>10, <1>12, LatestIs, Zenon
<1> HIDE DEF m
<1>14. Written' = m
  BY <1>1, <1>11, Zenon DEF Written
<1>15. /\ file' \in Seq(Commands) /\ Len(file') = Len(file) + Len(ns)
       /\ ~lossyDump => FilesLead(gen, file', StateAfter(m))
  BY <1>1, <1>4, <1>5, <1>9, <1>10, <1>11, <1>12, FileGrows, Zenon DEF m
<1>16. Len(file) \in Nat
  BY <1>3, LenProperties, Zenon
<1>17. aofOff' = Len(file') + drift' /\ aofOff' \in Nat
  <2>1. aofOff' = (Len(file) + drift) + Len(ns) /\ Len(file') + drift' = (Len(file) + Len(ns)) + drift
    BY <1>1, <1>4, <1>10, <1>15, Zenon
  <2>2. (Len(file) + drift) + Len(ns) = (Len(file) + Len(ns)) + drift
        /\ (Len(file) + drift) + Len(ns) \in Nat
    BY <1>3, <1>8, <1>16
  <2> QED BY <2>1, <2>2, Zenon
<1>18. SnapTypes'
  <2>1. durable' \in 0..Len(history')
    BY <1>1, <1>9, <1>11, <1>13
  <2> QED BY <1>1, <1>2, <1>5, <1>15, <1>17, <2>1, Zenon DEF SnapTypes
<1>19. Numbered'
  <2>1. Len(Pending') <= Len(history')
    BY <1>1, <1>8, <1>9
  <2>2. Written' <= durable'
    BY <1>11, <1>13, <1>14
  <2>3. handed' # << >> => durable' <= Written' + Len(handed'[1])
    <3> HAVE handed' # << >>
    <3>1. 1 \in 1..Len(handed')
      BY <1>5, EmptySeq
    <3>2. handed'[1] \in Seq(Nat)
      BY <1>5, <3>1, ElementOfSeq, Zenon
    <3>3. Len(handed'[1]) \in Nat
      BY <3>2, LenProperties, Zenon
    <3> QED BY <1>11, <1>13, <1>14, <3>3
  <2>4. \A i \in 1..Len(handed') : handed'[i] # << >>
    <3>1. \A i \in 1..Len(handed') : i + 1 \in 1..Len(handed)
      BY <1>5, <1>8
    <3> QED BY <1>2, <1>5, <3>1, Zenon DEF Numbered
  <2>5. ~saving
    <3>1. Pending = << >> => Len(ns) = 0
      BY <1>8, EmptySeq
    <3>2. ns # << >>
      <4>1. 1 \in 1..Len(handed)
        BY <1>1, <1>3, EmptySeq
      <4> QED BY <1>2, <4>1, Zenon DEF Numbered, ns
    <3>3. Len(ns) # 0
      BY <1>5, <3>2, EmptySeq
    <3> QED BY <1>2, <3>1, <3>3, Zenon DEF Numbered
  <2> QED BY <1>1, <1>2, <1>12, <1>14, <1>17, <2>1, <2>2, <2>3, <2>4, <2>5, Zenon DEF Numbered
<1>20. Contents'
  <2>1. ASSUME ~lossyDump'
        PROVE  /\ ReplayAll(Empty, file') = After(history', durable')
               /\ alive' => mem' = After(history', Len(history'))
               /\ rw' # None => ReplayAll(Empty, rw'.cmds) = After(history', Len(history') - Len(rbuf'))
               /\ Leads(dumpFile', gen', file', After(history', durable'))
               /\ bg' # None => Leads(bg', gen', file', After(history', durable'))
               /\ orphan' # None => Leads(orphan', gen', file', After(history', durable'))
    <3>1. FilesLead(gen, file', After(history, m)) /\ mem = After(history, Len(history))
      BY <1>1, <1>15, <2>1, FilesNow, Zenon DEF StateAfter, After
    <3>2. rw # None => ReplayAll(Empty, rw.cmds) = After(history, Len(history) - Len(rbuf))
      BY <1>1, <1>2, <2>1, Zenon DEF Contents, StateAfter, After
    <3> QED BY <1>1, <1>13, <3>1, <3>2, Zenon DEF FilesLead
  <2>2. dumpFile' \in Dumps
    BY <1>18, Zenon DEF SnapTypes
  <2>3. \A d \in {dumpFile', bg', orphan'} : d # None => d.gen <= gen'
    BY <1>1, Gens, Zenon
  <2> QED BY <2>1, <2>2, <2>3, NextContents, Zenon
<1> QED BY <1>18, <1>19, <1>20, Zenon DEF SnapInv

-----------------------------------------------------------------------------
(* Snapshots                                                               *)

\* The store after the whole history is a store.
LEMMA WholeStore ==
    ASSUME SnapInv
    PROVE  After(history, Len(history)) \in Stores /\ Len(history) \in Nat
<1>1. history \in Seq(Commands)
  BY Zenon DEF SnapInv, SnapTypes
<1>2. Len(history) \in Nat /\ Len(history) \in 0..Len(history)
  BY <1>1, LenProperties
<1> QED BY <1>1, <1>2, StateSteps, Zenon DEF After, StateAfter

\* The fields of the dump of the store as it is.
LEMMA DumpOfFields ==
    ASSUME SnapInv, NEW o \in Nat
    PROVE  /\ DumpOf(o) \in Dumps /\ DumpOf(o).off = o /\ DumpOf(o).data = mem
           /\ DumpOf(o).gen = gen /\ DumpOf(o).drift = drift
<1>1. mem \in Stores /\ gen \in Nat /\ drift \in Nat
  BY Zenon DEF SnapInv, SnapTypes
<1> QED BY <1>1 DEF DumpOf, Dumps

\* SAVE drains, then empties the dump in place.
LEMMA SaveBeginKeeps ==
    ASSUME SnapInv, SaveBegin
    PROVE  SnapInv'
<1>1. /\ alive /\ DrainPending /\ saving' = TRUE /\ dumpFile' = NoDump
      /\ alive' = alive /\ mem' = mem /\ history' = history /\ lossyDump' = lossyDump
      /\ gen' = gen /\ drift' = drift /\ bg' = bg /\ orphan' = orphan /\ rw' = rw /\ rbuf' = rbuf
  BY Zenon DEF SaveBegin, Running, bgVars, rwVars
<1>2. SnapTypes /\ Numbered /\ Contents
  BY Zenon DEF SnapInv
<1>3. Drained
  BY <1>1, DrainPendingDrains, Zenon
<1>4. After(history, Len(history)) \in Stores /\ Len(history) \in Nat
  BY WholeStore, Zenon
<1>5. << >> \in Seq(Nat) /\ << >> \in Seq(Seq(Nat)) /\ Len(history) \in 0..Len(history)
  BY <1>4, EmptySeq
<1>6. SnapTypes'
  BY <1>1, <1>2, <1>3, <1>5, NoDumpFacts, Zenon DEF SnapTypes, Drained
<1>7. Numbered'
  <2>1. rw' # None => Len(rbuf') <= Len(history') /\ Following(rbuf', Len(history') - Len(rbuf'))
    BY <1>1, <1>2, Zenon DEF Numbered
  <2> QED BY <1>1, <1>3, <1>4, <2>1, EmptyNumbered, Zenon DEF Drained
<1>8. Contents'
  <2>1. ASSUME ~lossyDump'
        PROVE  /\ ReplayAll(Empty, file') = After(history', durable')
               /\ alive' => mem' = After(history', Len(history'))
               /\ rw' # None => ReplayAll(Empty, rw'.cmds) = After(history', Len(history') - Len(rbuf'))
               /\ Leads(dumpFile', gen', file', After(history', durable'))
               /\ bg' # None => Leads(bg', gen', file', After(history', durable'))
               /\ orphan' # None => Leads(orphan', gen', file', After(history', durable'))
    <3>1. FilesLead(gen, file', After(history, Len(history))) /\ mem = After(history, Len(history))
      BY <1>1, <1>3, <2>1, FilesNow, Zenon DEF Drained
    <3>2. rw # None => ReplayAll(Empty, rw.cmds) = After(history, Len(history) - Len(rbuf))
      BY <1>1, <1>2, <2>1, Zenon DEF Contents, StateAfter, After
    <3>3. Leads(NoDump, gen, file', After(history, Len(history)))
      <4>1. ReplayAll(Empty, file') = After(history, Len(history))
        BY <3>1, Zenon DEF FilesLead
      <4>2. gen \in Nat /\ file' \in Seq(Commands)
        BY <1>2, <1>3, Zenon DEF SnapTypes, Drained
      <4> QED BY <1>4, <4>1, <4>2, NewDump, Zenon
    <3>4. durable' = Len(history)
      BY <1>3, Zenon DEF Drained
    <3> QED BY <1>1, <3>1, <3>2, <3>3, <3>4, Zenon DEF FilesLead
  <2>2. dumpFile' \in Dumps
    BY <1>6, Zenon DEF SnapTypes
  <2>3. \A d \in {dumpFile', bg', orphan'} : d # None => d.gen <= gen'
    <3>1. \A d \in {dumpFile, bg, orphan} : d # None => d.gen <= gen
      BY Gens, Zenon
    <3>2. NoDump.gen <= gen
      <4>1. gen \in Nat /\ NoDump.gen = 0
        BY <1>2, NoDumpFacts, Zenon DEF SnapTypes
      <4> QED BY <4>1
    <3> QED BY <1>1, <3>1, <3>2
  <2> QED BY <2>1, <2>2, <2>3, NextContents, Zenon
<1> QED BY <1>6, <1>7, <1>8, Zenon DEF SnapInv

\* While SAVE writes, every command is on disk and none is pending.
LEMMA WhileSaving ==
    ASSUME SnapInv, saving
    PROVE  /\ alive /\ durable = Len(history) /\ aofOff = Len(file) + drift /\ Pending = << >>
           /\ aofOff \in Nat /\ Len(file) \in Nat /\ drift \in Nat
<1>1. /\ alive /\ Pending = << >> /\ Written <= durable /\ aofOff = Len(file) + drift
      /\ aofOff \in Nat /\ file \in Seq(Commands) /\ drift \in Nat
  BY Zenon DEF SnapInv, Numbered, SnapTypes
<1>2. Len(Pending) = 0
  BY <1>1, EmptySeq
<1>3. {Written, durable, Len(history)} \subseteq Nat
  BY PendingTypes
<1>4. Written + Len(Pending) = Len(history) /\ durable <= Len(history)
  BY PendingTypes, Zenon
<1>5. durable = Len(history)
  BY <1>1, <1>2, <1>3, <1>4
<1> QED BY <1>1, <1>5, LenProperties, Zenon

\* A step that only changes the dump file and leaves it fit.
LEMMA NewDumpFile ==
    ASSUME SnapInv, alive' = alive, mem' = mem, histVars' = histVars, aofVars' = aofVars,
           bgVars' = bgVars, rwVars' = rwVars, saving' => saving, saving' \in BOOLEAN,
           dumpFile' \in Dumps, Fits(dumpFile)'
    PROVE  SnapInv'
<1>1. /\ history' = history /\ durable' = durable /\ lossyDump' = lossyDump /\ cur' = cur
      /\ handed' = handed /\ file' = file /\ aofOff' = aofOff /\ gen' = gen /\ drift' = drift
      /\ bg' = bg /\ orphan' = orphan /\ rw' = rw /\ rbuf' = rbuf
  BY DEF histVars, aofVars, bgVars, rwVars
<1>2. SnapTypes /\ Numbered /\ Contents
  BY Zenon DEF SnapInv
<1>3. SnapTypes'
  BY <1>1, <1>2, Zenon DEF SnapTypes
<1>4. Pending' = Pending /\ Written' = Written
  BY <1>1, Zenon DEF Pending, Written
<1>5. Numbered'
  BY <1>1, <1>2, <1>4, Zenon DEF Numbered
<1>6. Contents'
  BY <1>1, <1>2, Zenon DEF Contents, Fits, StateAfter
<1> QED BY <1>3, <1>5, <1>6, Zenon DEF SnapInv

\* A dump half written matches no AOF.
LEMMA SaveChunkKeeps ==
    ASSUME SnapInv, NEW ks \in SUBSET SnapKeys, SaveChunk(ks)
    PROVE  SnapInv'
<1> DEFINE x == [k \in SnapKeys |-> IF k \in ks THEN mem[k] ELSE NoValue]
           e == [DumpOf(aofOff) EXCEPT !.data = x, !.whole = FALSE]
<1>1. /\ dumpFile' = e /\ alive' = alive /\ mem' = mem /\ saving' = saving
      /\ histVars' = histVars /\ aofVars' = aofVars /\ bgVars' = bgVars /\ rwVars' = rwVars
  BY DEF SaveChunk, memVars
<1>2. mem \in Stores /\ gen \in Nat /\ drift \in Nat /\ aofOff \in Nat /\ saving \in BOOLEAN
  BY Zenon DEF SnapInv, SnapTypes
<1>3. x \in Stores
  BY <1>2 DEF Stores, NoValue
<1> HIDE DEF x
<1>4. e \in Dumps /\ e.gen = gen /\ e.whole = FALSE
  BY <1>2, <1>3, Zenon DEF Dumps, DumpOf
<1> HIDE DEF e
<1>5. gen' = gen /\ gen <= gen
  BY <1>1, <1>2 DEF aofVars
<1>6. Fits(dumpFile)'
  BY <1>1, <1>4, <1>5, Zenon DEF Fits, Leads
<1> QED BY <1>1, <1>2, <1>4, <1>6, NewDumpFile, Zenon

\* The finished dump leads to the durable commands.
LEMMA SaveEndKeeps ==
    ASSUME SnapInv, SaveEnd
    PROVE  SnapInv'
<1>1. /\ saving /\ dumpFile' = DumpOf(aofOff) /\ saving' = FALSE /\ alive' = alive /\ mem' = mem
      /\ histVars' = histVars /\ aofVars' = aofVars /\ bgVars' = bgVars /\ rwVars' = rwVars
  BY DEF SaveEnd
<1>2. /\ alive /\ durable = Len(history) /\ aofOff = Len(file) + drift
      /\ aofOff \in Nat /\ Len(file) \in Nat /\ drift \in Nat
  BY <1>1, WhileSaving, Zenon
<1> DEFINE e == DumpOf(aofOff)
<1>3. /\ e \in Dumps /\ e.off = aofOff /\ e.data = mem /\ e.gen = gen /\ e.drift = drift
  BY <1>2, DumpOfFields, Zenon
<1> HIDE DEF e
<1>4. /\ gen' = gen /\ history' = history /\ durable' = durable /\ file' = file /\ lossyDump' = lossyDump
      /\ file \in Seq(Commands) /\ gen \in Nat /\ gen <= gen
  <2>1. gen \in Nat /\ file \in Seq(Commands)
    BY Zenon DEF SnapInv, SnapTypes
  <2> QED BY <1>1, <2>1 DEF aofVars, histVars
<1>5. ASSUME ~lossyDump PROVE Leads(e, gen, file, After(history, durable))
  <2>1. mem = After(history, Len(history))
    BY <1>2, <1>5, FilesNow, Zenon
  <2>2. e.drift = 0 => e.off = Len(file)
    BY <1>2, <1>3
  <2>3. After(history, Len(history)) \in Stores
    BY WholeStore, Zenon
  <2>4. Leads(e, e.gen, file, After(history, Len(history)))
    BY <1>3, <1>4, <2>1, <2>2, <2>3, NewDump, Zenon
  <2> QED BY <1>2, <1>3, <2>4, Zenon
<1>6. Fits(dumpFile)'
  BY <1>1, <1>3, <1>4, <1>5, Zenon DEF Fits, StateAfter, After, e
<1>7. FALSE \in BOOLEAN
  OBVIOUS
<1> QED BY <1>1, <1>3, <1>6, <1>7, NewDumpFile, Zenon DEF e

\* The BGSAVE child takes the memory and the offset of the same moment.
LEMMA BgsaveStartKeeps ==
    ASSUME SnapInv, BgsaveStart
    PROVE  SnapInv'
<1>1. /\ alive /\ ~saving /\ DrainPending /\ bg' = DumpOf(aofOff')
      /\ alive' = alive /\ mem' = mem /\ saving' = saving /\ history' = history /\ lossyDump' = lossyDump
      /\ gen' = gen /\ drift' = drift /\ dumpFile' = dumpFile /\ orphan' = orphan
      /\ rw' = rw /\ rbuf' = rbuf
  BY Zenon DEF BgsaveStart, Running, memVars, rwVars
<1>2. SnapTypes /\ Numbered /\ Contents
  BY Zenon DEF SnapInv
<1>3. Drained
  BY <1>1, DrainPendingDrains, Zenon
<1>4. After(history, Len(history)) \in Stores /\ Len(history) \in Nat
  BY WholeStore, Zenon
<1>5. << >> \in Seq(Nat) /\ << >> \in Seq(Seq(Nat)) /\ Len(history) \in 0..Len(history)
  BY <1>4, EmptySeq
<1>6. /\ bg' \in Dumps /\ bg'.off = aofOff' /\ bg'.data = mem /\ bg'.gen = gen /\ bg'.drift = drift
  <2>1. aofOff' \in Nat
    BY <1>3, Zenon DEF Drained
  <2> QED BY <1>1, <2>1, DumpOfFields, Zenon
<1>7. SnapTypes'
  BY <1>1, <1>2, <1>3, <1>5, <1>6, Zenon DEF SnapTypes, Drained
<1>8. Numbered'
  <2>1. rw' # None => Len(rbuf') <= Len(history') /\ Following(rbuf', Len(history') - Len(rbuf'))
    BY <1>1, <1>2, Zenon DEF Numbered
  <2> QED BY <1>1, <1>3, <1>4, <2>1, EmptyNumbered, Zenon DEF Drained
<1>9. Contents'
  <2>1. ASSUME ~lossyDump'
        PROVE  /\ ReplayAll(Empty, file') = After(history', durable')
               /\ alive' => mem' = After(history', Len(history'))
               /\ rw' # None => ReplayAll(Empty, rw'.cmds) = After(history', Len(history') - Len(rbuf'))
               /\ Leads(dumpFile', gen', file', After(history', durable'))
               /\ bg' # None => Leads(bg', gen', file', After(history', durable'))
               /\ orphan' # None => Leads(orphan', gen', file', After(history', durable'))
    <3>1. FilesLead(gen, file', After(history, Len(history))) /\ mem = After(history, Len(history))
      BY <1>1, <1>3, <2>1, FilesNow, Zenon DEF Drained
    <3>2. rw # None => ReplayAll(Empty, rw.cmds) = After(history, Len(history) - Len(rbuf))
      BY <1>1, <1>2, <2>1, Zenon DEF Contents, StateAfter, After
    <3>3. Leads(bg', gen, file', After(history, Len(history)))
      <4>1. file' \in Seq(Commands) /\ aofOff' = Len(file') + drift
        BY <1>3, Zenon DEF Drained
      <4>2. Len(file') \in Nat
        BY <4>1, LenProperties, Zenon
      <4>3. bg'.drift = 0 => bg'.off = Len(file')
        <5>1. Len(file') + 0 = Len(file')
          BY <4>2
        <5> QED BY <1>6, <4>1, <5>1, Zenon
      <4>4. Leads(bg', bg'.gen, file', After(history, Len(history)))
        BY <1>4, <1>6, <3>1, <4>1, <4>3, NewDump, Zenon
      <4> QED BY <1>6, <4>4, Zenon
    <3>4. durable' = Len(history)
      BY <1>3, Zenon DEF Drained
    <3> QED BY <1>1, <3>1, <3>2, <3>3, <3>4, Zenon DEF FilesLead
  <2>2. dumpFile' \in Dumps
    BY <1>7, Zenon DEF SnapTypes
  <2>3. \A d \in {dumpFile', bg', orphan'} : d # None => d.gen <= gen'
    <3>1. \A d \in {dumpFile, bg, orphan} : d # None => d.gen <= gen
      BY Gens, Zenon
    <3>2. bg'.gen <= gen
      <4>1. gen \in Nat
        BY <1>2, Zenon DEF SnapTypes
      <4> QED BY <1>6, <4>1
    <3> QED BY <1>1, <3>1, <3>2
  <2> QED BY <2>1, <2>2, <2>3, NextContents, Zenon
<1> QED BY <1>7, <1>8, <1>9, Zenon DEF SnapInv

\* A BGSAVE child that finishes renames a dump that fits.
LEMMA BgsaveChildKeeps ==
    ASSUME SnapInv, BgsaveChild
    PROVE  SnapInv'
<1>1. /\ alive' = alive /\ mem' = mem /\ saving' = saving
      /\ history' = history /\ durable' = durable /\ lossyDump' = lossyDump /\ cur' = cur
      /\ handed' = handed /\ file' = file /\ aofOff' = aofOff /\ gen' = gen /\ drift' = drift
      /\ rw' = rw /\ rbuf' = rbuf
  BY DEF BgsaveChild, memVars, histVars, aofVars, rwVars
<1>2. SnapTypes /\ Numbered /\ Contents
  BY Zenon DEF SnapInv
<1>3. \/ bg # None /\ dumpFile' \in {bg, dumpFile} /\ bg' = None /\ orphan' = orphan
      \/ orphan # None /\ dumpFile' \in {orphan, dumpFile} /\ orphan' = None /\ bg' = bg
  BY Zenon DEF BgsaveChild
<1>4. /\ dumpFile \in Dumps /\ (bg # None => bg \in Dumps) /\ (orphan # None => orphan \in Dumps)
      /\ Fits(dumpFile) /\ (bg # None => Fits(bg)) /\ (orphan # None => Fits(orphan))
  BY <1>2, Zenon DEF SnapTypes, Contents
<1>5. \/ dumpFile' = dumpFile
      \/ (bg # None /\ dumpFile' = bg)
      \/ (orphan # None /\ dumpFile' = orphan)
  BY <1>3
<1>6. (bg' = None \/ bg' = bg) /\ (orphan' = None \/ orphan' = orphan)
  BY <1>3, Zenon
<1>7. dumpFile' \in Dumps /\ (bg' # None => bg' \in Dumps) /\ (orphan' # None => orphan' \in Dumps)
  BY <1>4, <1>5, <1>6, Zenon
<1> DEFINE F(d) == d.gen <= gen /\ (~lossyDump => Leads(d, gen, file, After(history, durable)))
<1>8. F(dumpFile) /\ (bg # None => F(bg)) /\ (orphan # None => F(orphan))
  BY <1>4, Zenon DEF Fits, StateAfter, After
<1> HIDE DEF F
<1>9. F(dumpFile') /\ (bg' # None => F(bg')) /\ (orphan' # None => F(orphan'))
  BY <1>5, <1>6, <1>8, Zenon
<1>10. Fits(dumpFile)' /\ (bg' # None => Fits(bg)') /\ (orphan' # None => Fits(orphan)')
  BY <1>1, <1>9, Zenon DEF F, Fits, StateAfter, After
<1>11. SnapTypes'
  BY <1>1, <1>2, <1>7, Zenon DEF SnapTypes
<1>12. Pending' = Pending /\ Written' = Written
  BY <1>1, Zenon DEF Pending, Written
<1>13. Numbered'
  BY <1>1, <1>2, <1>12, Zenon DEF Numbered
<1>14. Contents'
  BY <1>1, <1>2, <1>10, Zenon DEF Contents, StateAfter
<1> QED BY <1>11, <1>13, <1>14, Zenon DEF SnapInv

-----------------------------------------------------------------------------
(* AOF rewrite                                                             *)

\* The rewrite child takes a snapshot that rebuilds the memory.
LEMMA RewriteStartKeeps ==
    ASSUME SnapInv, RewriteStart
    PROVE  SnapInv'
<1>1. /\ alive /\ ~saving /\ DrainPending /\ rw' = [none |-> FALSE, cmds |-> SnapshotOf(mem)]
      /\ rbuf' = << >> /\ alive' = alive /\ mem' = mem /\ saving' = saving /\ history' = history
      /\ lossyDump' = lossyDump /\ gen' = gen /\ drift' = drift /\ dumpFile' = dumpFile
      /\ bg' = bg /\ orphan' = orphan
  BY Zenon DEF RewriteStart, Running, memVars, bgVars
<1>2. SnapTypes /\ Numbered /\ Contents
  BY Zenon DEF SnapInv
<1>3. Drained
  BY <1>1, DrainPendingDrains, Zenon
<1>4. After(history, Len(history)) \in Stores /\ Len(history) \in Nat
  BY WholeStore, Zenon
<1>5. /\ << >> \in Seq(Nat) /\ << >> \in Seq(Seq(Nat)) /\ Len(history) \in 0..Len(history)
      /\ Len(<< >>) = 0 /\ Len(history) - 0 = Len(history) /\ 0 <= Len(history) /\ 1..0 = {}
  BY <1>4, EmptySeq
<1>6. rw'.cmds \in Seq(Commands) /\ ReplayAll(Empty, rw'.cmds) = mem
  <2>1. mem \in Stores
    BY <1>2, Zenon DEF SnapTypes
  <2>2. rw'.cmds = SnapshotOf(mem)
    BY <1>1, Zenon
  <2> QED BY <2>1, <2>2, SnapshotRebuilds, Zenon
<1>7. SnapTypes'
  BY <1>1, <1>2, <1>3, <1>5, <1>6, Zenon DEF SnapTypes, Drained
<1>8. Numbered'
  <2>1. Len(rbuf') <= Len(history') /\ Following(rbuf', Len(history') - Len(rbuf'))
    BY <1>1, <1>5, Zenon DEF Following
  <2> QED BY <1>1, <1>3, <1>4, <2>1, EmptyNumbered, Zenon DEF Drained
<1>9. Contents'
  <2>1. ASSUME ~lossyDump'
        PROVE  /\ ReplayAll(Empty, file') = After(history', durable')
               /\ alive' => mem' = After(history', Len(history'))
               /\ rw' # None => ReplayAll(Empty, rw'.cmds) = After(history', Len(history') - Len(rbuf'))
               /\ Leads(dumpFile', gen', file', After(history', durable'))
               /\ bg' # None => Leads(bg', gen', file', After(history', durable'))
               /\ orphan' # None => Leads(orphan', gen', file', After(history', durable'))
    <3>1. FilesLead(gen, file', After(history, Len(history))) /\ mem = After(history, Len(history))
      BY <1>1, <1>3, <2>1, FilesNow, Zenon DEF Drained
    <3>2. ReplayAll(Empty, rw'.cmds) = After(history', Len(history') - Len(rbuf'))
      BY <1>1, <1>5, <1>6, <3>1, Zenon
    <3>3. durable' = Len(history)
      BY <1>3, Zenon DEF Drained
    <3> QED BY <1>1, <3>1, <3>2, <3>3, Zenon DEF FilesLead
  <2>2. dumpFile' \in Dumps
    BY <1>7, Zenon DEF SnapTypes
  <2>3. \A d \in {dumpFile', bg', orphan'} : d # None => d.gen <= gen'
    BY <1>1, Gens, Zenon
  <2> QED BY <2>1, <2>2, <2>3, NextContents, Zenon
<1> QED BY <1>7, <1>8, <1>9, Zenon DEF SnapInv

\* The new AOF holds the snapshot and the rewrite buffer: every command.  Those
\* of the current slot will land in it once more.
LEMMA FinalizeRewriteKeeps ==
    ASSUME SnapInv, FinalizeRewrite
    PROVE  SnapInv'
<1> DEFINE L == Len(history)
           new == rw.cmds \o Cmds(rbuf)
           late == Len(Joined(handed))
           lo == L - Len(rbuf)
<1>1. /\ alive /\ ~saving /\ rw # None /\ file' = new /\ aofOff' = Len(new) + late /\ drift' = late
      /\ handed' = << >> /\ gen' = gen + 1 /\ durable' = L /\ rw' = None /\ rbuf' = << >>
      /\ alive' = alive /\ mem' = mem /\ saving' = saving /\ history' = history
      /\ lossyDump' = lossyDump /\ cur' = cur /\ dumpFile' = dumpFile /\ bg' = bg /\ orphan' = orphan
  BY Zenon DEF FinalizeRewrite, Running, memVars, bgVars
<1>2. SnapTypes /\ Numbered /\ Contents
  BY Zenon DEF SnapInv
<1>3. /\ history \in Seq(Commands) /\ rbuf \in Seq(Nat) /\ rw.cmds \in Seq(Commands) /\ cur \in Seq(Nat)
      /\ gen \in Nat
  BY <1>1, <1>2, Zenon DEF SnapTypes
<1>4. L \in Nat /\ Len(rbuf) \in Nat /\ Len(cur) \in Nat
  BY <1>3, LenProperties, Zenon
<1>5. Len(rbuf) <= L /\ Following(rbuf, lo)
  BY <1>1, <1>2, Zenon DEF Numbered
<1>6. lo \in Nat /\ lo <= lo /\ lo <= L /\ L <= L /\ Len(rbuf) = L - lo /\ lo \in 0..L
  BY <1>4, <1>5
<1> HIDE DEF lo
<1>7. Again(lo, L, rbuf)
  BY <1>3, <1>4, <1>5, <1>6, ReplayAgain, Zenon
<1> DEFINE e == Cmds(rbuf)
<1>8. e \in Seq(Commands) /\ ReplayAll(StateAfter(lo), e) = StateAfter(L)
  BY <1>7, Zenon DEF Again
<1> HIDE DEF e
<1>9. new \in Seq(Commands)
  <2>1. \A x, y \in Seq(Commands) : x \o y \in Seq(Commands)
    BY ConcatProperties, Zenon
  <2> QED BY <1>3, <1>8, <2>1, Zenon DEF e
<1>10. ASSUME ~lossyDump PROVE ReplayAll(Empty, new) = After(history, L)
  <2>1. ReplayAll(Empty, rw.cmds) = StateAfter(lo)
    BY <1>1, <1>2, <1>10, Zenon DEF Contents, lo
  <2>2. \A d \in Stores : \A x, y \in Seq(Commands) :
            ReplayAll(d, x \o y) = ReplayAll(ReplayAll(d, x), y)
    BY ReplayParts, Zenon
  <2>3. ReplayAll(Empty, rw.cmds \o e) = ReplayAll(ReplayAll(Empty, rw.cmds), e)
    BY <1>3, <1>8, <2>2, NoDumpFacts, Zenon
  <2> QED BY <1>8, <2>1, <2>3, Zenon DEF e, StateAfter, After
<1> HIDE DEF new
<1>11. Len(new) \in Nat /\ late \in Nat
  <2>1. {Len(Joined(handed))} \subseteq Nat
    BY PendingTypes
  <2>2. late \in Nat
    BY <2>1
  <2> QED BY <1>9, <2>2, LenProperties, Zenon
<1>12. /\ Joined(handed) \in Seq(Nat) /\ Len(Pending) = late + Len(cur) /\ Written \in Nat
       /\ Written + Len(Pending) = L
  <2>1. {Written} \subseteq Nat
    BY PendingTypes
  <2>2. Written \in Nat
    BY <2>1
  <2> QED BY <2>2, PendingTypes, Zenon
<1>13. Following(cur, Written + late)
  <2>1. Following(Joined(handed) \o cur, Written)
    BY <1>2, Zenon DEF Numbered, Pending
  <2> QED BY <1>3, <1>12, <2>1, FollowingParts, Zenon
<1> HIDE DEF late
<1>14. << >> \in Seq(Nat) /\ << >> \in Seq(Seq(Nat)) /\ Len(<< >>) = 0 /\ 1..0 = {}
  BY EmptySeq
<1>15. Pending' = cur
  <2>1. Pending' = << >> \o cur
    BY <1>1, JoinedSeq, Zenon DEF Pending
  <2> QED BY <1>3, <2>1, ConcatEmptySeq, Zenon
<1>16. Written' = Written + late /\ Written' <= L /\ Len(cur) <= L
  <2>1. Written' = L - Len(cur)
    BY <1>1, <1>15, Zenon DEF Written
  <2>2. L - Len(cur) = Written + late /\ L - Len(cur) <= L /\ Len(cur) <= L
    BY <1>4, <1>11, <1>12
  <2> QED BY <2>1, <2>2, Zenon
<1>17. SnapTypes'
  <2>1. durable' \in 0..Len(history') /\ aofOff' \in Nat /\ gen' \in Nat
    <3>1. Len(new) + late \in Nat /\ gen + 1 \in Nat /\ L \in 0..L
      BY <1>3, <1>4, <1>11
    <3> QED BY <1>1, <3>1, Zenon
  <2> QED BY <1>1, <1>2, <1>9, <1>11, <1>14, <2>1, Zenon DEF SnapTypes
<1>18. Numbered'
  <2>1. Len(Pending') <= Len(history') /\ Following(Pending', Written')
    BY <1>1, <1>13, <1>15, <1>16, Zenon
  <2>2. Written' <= durable' /\ aofOff' = Len(file') + drift'
    BY <1>1, <1>16, Zenon
  <2>3. \A i \in 1..Len(handed') : handed'[i] # << >>
    BY <1>1, <1>14, Zenon
  <2> QED BY <1>1, <2>1, <2>2, <2>3, Zenon DEF Numbered
<1>19. \A d \in {dumpFile', bg', orphan'} : d # None => d.gen <= gen' /\ d.gen # gen'
  <2>1. \A d \in {dumpFile, bg, orphan} : d # None => d \in Dumps /\ d.gen <= gen
    BY Gens, Zenon
  <2>2. \A d \in Dumps : d.gen <= gen => d.gen <= gen + 1 /\ d.gen # gen + 1
    <3> TAKE d \in Dumps
    <3>1. d.gen \in Nat
      BY DumpFields, Zenon
    <3> QED BY <1>3, <3>1
  <2> QED BY <1>1, <2>1, <2>2, Zenon
<1>20. dumpFile' \in Dumps
  BY <1>17, Zenon DEF SnapTypes
<1>21. Contents'
  <2>1. ASSUME ~lossyDump'
        PROVE  /\ ReplayAll(Empty, file') = After(history', durable')
               /\ alive' => mem' = After(history', Len(history'))
               /\ rw' # None => ReplayAll(Empty, rw'.cmds) = After(history', Len(history') - Len(rbuf'))
               /\ Leads(dumpFile', gen', file', After(history', durable'))
               /\ bg' # None => Leads(bg', gen', file', After(history', durable'))
               /\ orphan' # None => Leads(orphan', gen', file', After(history', durable'))
    <3>1. mem = After(history, L)
      BY <1>1, <2>1, FilesNow, Zenon
    <3>2. dumpFile' # None
      BY <1>20 DEF Dumps, None
    <3>3. \A d \in {dumpFile', bg', orphan'} : d # None => Leads(d, gen', file', After(history', durable'))
      BY <1>19, Zenon DEF Leads
    <3>4. dumpFile' \in {dumpFile', bg', orphan'} /\ bg' \in {dumpFile', bg', orphan'}
          /\ orphan' \in {dumpFile', bg', orphan'}
      OBVIOUS
    <3>5. /\ Leads(dumpFile', gen', file', After(history', durable'))
          /\ bg' # None => Leads(bg', gen', file', After(history', durable'))
          /\ orphan' # None => Leads(orphan', gen', file', After(history', durable'))
      BY <3>2, <3>3, <3>4, Zenon
    <3>6. ReplayAll(Empty, file') = After(history', durable')
      BY <1>1, <1>10, <2>1, Zenon
    <3> QED BY <1>1, <3>1, <3>5, <3>6, Zenon
  <2>2. \A d \in {dumpFile', bg', orphan'} : d # None => d.gen <= gen'
    BY <1>19, Zenon
  <2> QED BY <1>20, <2>1, <2>2, NextContents, Zenon
<1> QED BY <1>17, <1>18, <1>21, Zenon DEF SnapInv

\* A rewrite that fails leaves the files.
LEMMA RewriteFailsKeeps ==
    ASSUME SnapInv, RewriteFails
    PROVE  SnapInv'
<1>1. /\ alive /\ rw' = None /\ alive' = alive /\ mem' = mem /\ saving' = saving
      /\ history' = history /\ durable' = durable /\ lossyDump' = lossyDump /\ cur' = cur
      /\ handed' = handed /\ file' = file /\ aofOff' = aofOff /\ gen' = gen /\ drift' = drift
      /\ dumpFile' = dumpFile /\ bg' = bg /\ orphan' = orphan /\ rbuf' = rbuf
  BY DEF RewriteFails, Running, memVars, histVars, aofVars, bgVars
<1>2. SnapTypes /\ Numbered /\ Contents
  BY Zenon DEF SnapInv
<1>3. SnapTypes'
  BY <1>1, <1>2, Zenon DEF SnapTypes
<1>4. Pending' = Pending /\ Written' = Written
  BY <1>1, Zenon DEF Pending, Written
<1>5. Numbered'
  BY <1>1, <1>2, <1>4, Zenon DEF Numbered
<1>6. Contents'
  BY <1>1, <1>2, Zenon DEF Contents, Fits, StateAfter
<1> QED BY <1>3, <1>5, <1>6, Zenon DEF SnapInv

-----------------------------------------------------------------------------
(* Crash and recovery                                                      *)

\* A crash leaves the files and, perhaps, a BGSAVE child.
LEMMA CrashKeeps ==
    ASSUME SnapInv, Crash
    PROVE  SnapInv'
<1>1. /\ alive' = FALSE /\ saving' = FALSE /\ mem' = Empty /\ cur' = << >> /\ handed' = << >>
      /\ bg' = None /\ orphan' \in {None, IF bg # None THEN bg ELSE orphan}
      /\ rw' = None /\ rbuf' = << >> /\ history' = history /\ durable' = durable
      /\ lossyDump' = lossyDump /\ file' = file /\ aofOff' = aofOff /\ gen' = gen /\ drift' = drift
      /\ dumpFile' = dumpFile
  BY Zenon DEF Crash, histVars
<1>2. SnapTypes /\ Numbered /\ Contents
  BY Zenon DEF SnapInv
<1>3. orphan' = None \/ (orphan' = bg /\ bg # None) \/ orphan' = orphan
  BY <1>1
<1>4. << >> \in Seq(Nat) /\ << >> \in Seq(Seq(Nat)) /\ FALSE \in BOOLEAN
  BY EmptySeq
<1>5. orphan' # None => orphan' \in Dumps
  BY <1>2, <1>3, Zenon DEF SnapTypes
<1>6. SnapTypes'
  BY <1>1, <1>2, <1>4, <1>5, NoDumpFacts, Zenon DEF SnapTypes
<1>7. Numbered'
  <2>1. Len(history') \in Nat
    BY <1>6, LenProperties, Zenon DEF SnapTypes
  <2> QED BY <1>1, <2>1, EmptyNumbered, Zenon
<1> DEFINE F(d) == d.gen <= gen /\ (~lossyDump => Leads(d, gen, file, After(history, durable)))
<1>8. F(dumpFile) /\ (bg # None => F(bg)) /\ (orphan # None => F(orphan))
  BY <1>2, Zenon DEF Contents, Fits, StateAfter, After
<1> HIDE DEF F
<1>9. F(dumpFile') /\ (orphan' # None => F(orphan'))
  BY <1>1, <1>3, <1>8, Zenon
<1>10. Fits(dumpFile)' /\ (orphan' # None => Fits(orphan)')
  BY <1>1, <1>9, Zenon DEF F, Fits, StateAfter, After
<1>11. Contents'
  BY <1>1, <1>2, <1>10, Zenon DEF Contents, StateAfter
<1> QED BY <1>6, <1>7, <1>11, Zenon DEF SnapInv

\* What recovery rebuilds is a store and, from a dump that matches, the one
\* after the durable commands.
LEMMA RecoveredIs ==
    ASSUME SnapInv
    PROVE  Recovered \in Stores /\ CrashSafe
<1> DEFINE o == dumpFile.off
           a == SubSeq(file, o + 1, Len(file))
<1>1. file \in Seq(Commands) /\ dumpFile \in Dumps
  BY Zenon DEF SnapInv, SnapTypes
<1>2. o \in Nat /\ dumpFile.data \in Stores /\ Len(file) \in Nat
  BY <1>1, DumpFields, LenProperties, Zenon
<1> HIDE DEF o
<1>3. \A i \in (o + 1)..Len(file) : file[i] \in Commands
  <2>1. \A i \in (o + 1)..Len(file) : i \in 1..Len(file)
    BY <1>2
  <2> QED BY <1>1, <2>1, ElementOfSeq, Zenon
<1>4. a \in Seq(Commands)
  BY <1>2, <1>3
<1>5. Tail1(o) = a
  <2>1. CASE Len(file) <= o
    <3>1. a = << >>
      BY <1>2, <2>1
    <3> QED BY <2>1, <3>1, Zenon DEF Tail1
  <2>2. CASE ~(Len(file) <= o)
    BY <2>2, Zenon DEF Tail1
  <2> QED BY <2>1, <2>2
<1>6. Recovered = ReplayAll(dumpFile.data, a)
  BY <1>5, Zenon DEF Recovered, o
<1> HIDE DEF a
<1>7. Recovered \in Stores
  BY <1>2, <1>4, <1>6, ReplayParts, Zenon
<1>8. ASSUME ~lossyDump, HeaderMatches PROVE Recovered = StateAfter(durable)
  <2>1. CASE dumpFile = NoDump
    <3>1. ReplayAll(Empty, file) = StateAfter(durable)
      BY <1>8, Zenon DEF SnapInv, Contents
    <3>2. dumpFile.data = Empty /\ o = 0
      BY <2>1, NoDumpFacts, Zenon DEF o
    <3>3. a = file
      <4>1. 0 + 1 = 1
        OBVIOUS
      <4> QED BY <1>1, <3>2, <4>1, SubSeqFull, Zenon DEF a
    <3> QED BY <1>6, <3>1, <3>2, <3>3, Zenon
  <2>2. CASE dumpFile.gen = gen /\ dumpFile.drift = 0 /\ dumpFile.whole
    <3>1. ReplayAll(dumpFile.data, a) = StateAfter(durable)
      BY <1>8, <2>2, Zenon DEF SnapInv, Contents, Fits, Leads, a, o
    <3> QED BY <1>6, <3>1, Zenon
  <2> QED BY <1>8, <2>1, <2>2, Zenon DEF HeaderMatches
<1> QED BY <1>7, <1>8, Zenon DEF CrashSafe

\* Recovery from a dump that matches the AOF brings back the durable commands.
LEMMA RecoverKeeps ==
    ASSUME SnapInv, Recover
    PROVE  SnapInv'
<1>1. /\ ~alive /\ alive' = TRUE /\ mem' = Recovered /\ history' = SubSeq(history, 1, durable)
      /\ lossyDump' = (lossyDump \/ ~HeaderMatches) /\ aofOff' = Len(file) /\ drift' = 0
      /\ saving' = saving /\ durable' = durable /\ cur' = cur /\ handed' = handed /\ file' = file
      /\ gen' = gen /\ dumpFile' = dumpFile /\ bg' = bg /\ orphan' = orphan /\ rw' = rw /\ rbuf' = rbuf
  BY Zenon DEF Recover, bgVars, rwVars
<1>2. SnapTypes /\ Numbered /\ Contents
  BY Zenon DEF SnapInv
<1>3. history \in Seq(Commands) /\ durable \in 0..Len(history) /\ file \in Seq(Commands)
  BY <1>2, Zenon DEF SnapTypes
<1>4. /\ history' \in Seq(Commands) /\ Len(history') = durable
      /\ \A i \in 1..durable : history'[i] = history[i]
  BY <1>1, <1>3, Beginning, Zenon
<1>5. /\ durable \in Nat /\ durable <= Len(history) /\ durable <= durable /\ Len(file) \in Nat
      /\ Len(file) + 0 = Len(file) /\ durable \in 0..durable
  BY <1>3, LenProperties
<1>6. After(history', durable) = After(history, durable)
  <2>1. SubSeq(history', 1, durable) = SubSeq(history, 1, durable)
    BY <1>3, <1>4, <1>5, SameBeginning, Zenon
  <2> QED BY <2>1, Zenon DEF After
<1>7. Recovered \in Stores /\ (~lossyDump /\ HeaderMatches => Recovered = After(history, durable))
  BY RecoveredIs, Zenon DEF CrashSafe, StateAfter, After
<1>8. lossyDump' \in BOOLEAN /\ (~lossyDump' => ~lossyDump /\ HeaderMatches)
  BY <1>1, Zenon
<1>9. SnapTypes'
  <2>1. 0 \in Nat /\ TRUE \in BOOLEAN
    OBVIOUS
  <2> QED BY <1>1, <1>2, <1>4, <1>5, <1>7, <1>8, <2>1, Zenon DEF SnapTypes
<1>10. Pending' = << >> /\ ~saving /\ rw = None /\ handed = handed'
  BY <1>1, <1>2, Zenon DEF Numbered, Pending
<1>11. Pending = << >> /\ Len(Pending) = 0 /\ Len(Pending') = 0
  BY <1>1, <1>2, <1>10, EmptySeq DEF Numbered
<1>12. Written' = durable
  <2>1. Written' = durable - 0
    BY <1>4, <1>11, Zenon DEF Written
  <2> QED BY <1>5, <2>1
<1>13. handed = << >>
  <2>1. CASE handed # << >>
    <3>1. handed \in Seq(Seq(Nat)) /\ 1 \in 1..Len(handed) /\ handed[1] # << >>
      <4>1. handed \in Seq(Seq(Nat))
        BY <1>2, Zenon DEF SnapTypes
      <4>2. 1 \in 1..Len(handed)
        BY <2>1, <4>1, EmptySeq
      <4> QED BY <1>2, <4>1, <4>2, Zenon DEF Numbered
    <3>2. Joined(handed) = handed[1] \o Joined(Tail(handed)) /\ handed[1] \in Seq(Nat)
          /\ Joined(Tail(handed)) \in Seq(Nat)
      BY <2>1, <3>1, JoinedHead, JoinedSeq, Zenon
    <3>3. Len(handed[1]) \in Nat /\ Len(handed[1]) # 0 /\ Len(Joined(Tail(handed))) \in Nat
      BY <3>1, <3>2, EmptySeq, LenProperties
    <3>4. Len(Joined(handed)) = Len(handed[1]) + Len(Joined(Tail(handed)))
      <4>1. \A x, y \in Seq(Nat) : Len(x \o y) = Len(x) + Len(y)
        BY ConcatProperties, Zenon
      <4> QED BY <3>2, <4>1, Zenon
    <3>5. Len(Pending) = Len(Joined(handed)) + Len(cur)
      BY PendingTypes, Zenon
    <3>6. {Len(cur)} \subseteq Nat
      BY PendingTypes
    <3> QED BY <1>11, <3>3, <3>4, <3>5, <3>6
  <2> QED BY <2>1
<1>14. Numbered'
  <2>1. Len(Pending') <= Len(history') /\ Following(Pending', Written')
    <3>1. 0 <= durable /\ 1..0 = {}
      BY <1>5
    <3> QED BY <1>4, <1>11, <3>1, Zenon DEF Following
  <2>2. Written' <= durable' /\ aofOff' = Len(file') + drift'
    BY <1>1, <1>5, <1>12, Zenon
  <2>3. \A i \in 1..Len(handed') : handed'[i] # << >>
    BY <1>1, <1>2, Zenon DEF Numbered
  <2> QED BY <1>1, <1>10, <1>13, <2>1, <2>2, <2>3, Zenon DEF Numbered
<1>15. Contents'
  <2>1. ASSUME ~lossyDump'
        PROVE  /\ ReplayAll(Empty, file') = After(history', durable')
               /\ alive' => mem' = After(history', Len(history'))
               /\ rw' # None => ReplayAll(Empty, rw'.cmds) = After(history', Len(history') - Len(rbuf'))
               /\ Leads(dumpFile', gen', file', After(history', durable'))
               /\ bg' # None => Leads(bg', gen', file', After(history', durable'))
               /\ orphan' # None => Leads(orphan', gen', file', After(history', durable'))
    <3>1. FilesLead(gen, file, After(history, durable)) /\ Recovered = After(history, durable)
      BY <1>7, <1>8, <2>1, FilesNow, Zenon
    <3> QED BY <1>1, <1>4, <1>6, <1>10, <3>1, Zenon DEF FilesLead
  <2>2. dumpFile' \in Dumps
    BY <1>9, Zenon DEF SnapTypes
  <2>3. \A d \in {dumpFile', bg', orphan'} : d # None => d.gen <= gen'
    BY <1>1, Gens, Zenon
  <2> QED BY <2>1, <2>2, <2>3, NextContents, Zenon
<1> QED BY <1>9, <1>14, <1>15, Zenon DEF SnapInv

-----------------------------------------------------------------------------
(* The theorems                                                            *)

\* A server that starts on empty files.
LEMMA SnapInvInit == SnapInit => SnapInv
<1> SUFFICES ASSUME SnapInit PROVE SnapInv
  OBVIOUS
<1>1. /\ alive = TRUE /\ mem = Empty /\ saving = FALSE /\ history = << >> /\ durable = 0
      /\ lossyDump = FALSE /\ cur = << >> /\ handed = << >> /\ file = << >> /\ aofOff = 0 /\ gen = 0
      /\ drift = 0 /\ dumpFile = NoDump /\ bg = None /\ orphan = None /\ rw = None /\ rbuf = << >>
  BY Zenon DEF SnapInit
<1>2. /\ << >> \in Seq(Nat) /\ << >> \in Seq(Seq(Nat)) /\ << >> \in Seq(Commands) /\ Len(<< >>) = 0
      /\ 1..0 = {} /\ 0 \in 0..0 /\ 0 \in Nat /\ TRUE \in BOOLEAN /\ FALSE \in BOOLEAN /\ 0 <= 0
      /\ 0 + 0 = 0 /\ 0 - 0 = 0
  BY EmptySeq
<1>3. SnapTypes
  BY <1>1, <1>2, NoDumpFacts, Zenon DEF SnapTypes
<1>4. Pending = << >>
  <2>1. << >> \o << >> = << >>
    BY <1>2, ConcatEmptySeq, Zenon
  <2> QED BY <1>1, <2>1, JoinedSeq, Zenon DEF Pending
<1>5. Numbered
  <2>1. Written = 0
    BY <1>1, <1>2, <1>4, Zenon DEF Written
  <2> QED BY <1>1, <1>2, <1>4, <2>1, Zenon DEF Numbered, Following
<1>6. StateAfter(0) = Empty /\ ReplayAll(Empty, file) = Empty
  BY <1>1, <1>2, StateSteps, NoDumpFacts, ReplayNothing, Zenon
<1>7. Leads(NoDump, 0, file, Empty)
  BY <1>1, <1>2, <1>6, NoDumpFacts, NewDump, Zenon
<1>8. Contents
  BY <1>1, <1>2, <1>6, <1>7, NoDumpFacts, Zenon DEF Contents, Fits
<1> QED BY <1>3, <1>5, <1>8, Zenon DEF SnapInv

\* Every step keeps the invariant.
LEMMA SnapInvNext == SnapInv /\ [SnapNext]_snapVars => SnapInv'
<1> SUFFICES ASSUME SnapInv, [SnapNext]_snapVars PROVE SnapInv'
  OBVIOUS
<1>0. Len(history) + 1 \in Nat /\ NoValue \in Nat /\ SnapDeleted \subseteq SnapKeys
  <2>1. Len(history) \in Nat
    BY WholeStore, Zenon
  <2> QED BY <2>1, SnapAssumption DEF NoValue
<1>1. ASSUME NEW k \in SnapKeys, SnapWrite(k, Len(history) + 1) PROVE SnapInv'
  BY <1>0, <1>1, SnapWriteKeeps, Zenon
<1>2. ASSUME NEW k \in SnapDeleted, SnapWrite(k, NoValue) PROVE SnapInv'
  <2>1. k \in SnapKeys
    BY <1>0
  <2> QED BY <1>0, <1>2, <2>1, SnapWriteKeeps, Zenon
<1>3. CASE Handoff
  BY <1>3, HandoffKeeps, Zenon
<1>4. CASE Land
  BY <1>4, LandKeeps, Zenon
<1>5. CASE SaveBegin
  BY <1>5, SaveBeginKeeps, Zenon
<1>6. ASSUME NEW ks \in SUBSET SnapKeys, SaveChunk(ks) PROVE SnapInv'
  BY <1>6, SaveChunkKeeps, Zenon
<1>7. CASE SaveEnd
  BY <1>7, SaveEndKeeps, Zenon
<1>8. CASE BgsaveStart
  BY <1>8, BgsaveStartKeeps, Zenon
<1>9. CASE BgsaveChild
  BY <1>9, BgsaveChildKeeps, Zenon
<1>10. CASE RewriteStart
  BY <1>10, RewriteStartKeeps, Zenon
<1>11. CASE FinalizeRewrite
  BY <1>11, FinalizeRewriteKeeps, Zenon
<1>12. CASE RewriteFails
  BY <1>12, RewriteFailsKeeps, Zenon
<1>13. CASE Crash
  BY <1>13, CrashKeeps, Zenon
<1>14. CASE Recover
  BY <1>14, RecoverKeeps, Zenon
<1>15. CASE UNCHANGED snapVars
  <2>1. /\ alive' = alive /\ mem' = mem /\ saving' = saving /\ dumpFile' = dumpFile
        /\ histVars' = histVars /\ aofVars' = aofVars /\ bgVars' = bgVars /\ rwVars' = rwVars
    BY <1>15 DEF snapVars, memVars
  <2>2. gen' = gen /\ history' = history /\ durable' = durable /\ file' = file /\ lossyDump' = lossyDump
    BY <2>1 DEF aofVars, histVars
  <2>3. dumpFile \in Dumps /\ Fits(dumpFile) /\ saving \in BOOLEAN
    BY Zenon DEF SnapInv, SnapTypes, Contents
  <2>4. Fits(dumpFile)'
    BY <2>1, <2>2, <2>3, Zenon DEF Fits, StateAfter
  <2> QED BY <2>1, <2>3, <2>4, NewDumpFile, Zenon
<1> QED
  BY <1>1, <1>2, <1>3, <1>4, <1>5, <1>6, <1>7, <1>8, <1>9, <1>10, <1>11, <1>12, <1>13, <1>14, <1>15,
     Zenon DEF SnapNext

\* The invariant holds throughout.
LEMMA SnapInvHolds == SnapSpec => []SnapInv
BY SnapInvInit, SnapInvNext, PTL DEF SnapSpec

\* A crash at any moment of any sequence of writes, SAVE, BGSAVE, BGREWRITEAOF,
\* crashes and recoveries loses no durable command, as long as the dump that
\* persist_recover finds matches the AOF.
THEOREM CrashSafeHolds == SnapSpec => []CrashSafe
<1>1. SnapInv => CrashSafe
  BY RecoveredIs, Zenon
<1> QED BY <1>1, SnapInvHolds, PTL

\* SAVE leaves a dump whose header is the length of the AOF, unless a rewrite
\* was finalised over slots in flight.
THEOREM SaveZeroReplayHolds == SnapSpec => SaveZeroReplay
<1> DEFINE A == SaveEnd /\ drift = 0 => dumpFile'.off = Len(file)
<1>1. SnapInv /\ [SnapNext]_snapVars => [A]_snapVars
  <2> SUFFICES ASSUME SnapInv, SaveEnd, drift = 0 PROVE dumpFile'.off = Len(file)
    BY Zenon
  <2>1. saving /\ dumpFile' = DumpOf(aofOff)
    BY Zenon DEF SaveEnd
  <2>2. aofOff = Len(file) + drift /\ aofOff \in Nat /\ Len(file) \in Nat
    BY <2>1, WhileSaving, Zenon
  <2>3. dumpFile'.off = aofOff
    BY <2>1, <2>2, DumpOfFields, Zenon
  <2> QED BY <2>2, <2>3
<1> HIDE DEF A
<1>2. SnapSpec => [][A]_snapVars
  BY <1>1, SnapInvHolds, PTL DEF SnapSpec
<1> QED BY <1>2, Zenon DEF SaveZeroReplay, A
=============================================================================
