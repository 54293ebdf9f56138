------------------------- MODULE MCDecisions_proofs --------------------------
(***************************************************************************)
(* Proofs about the program's decisions, each with the inductive invariant *)
(* of its module.                                                          *)
(*                                                                         *)
(* Retention, for any archive, sizes and rules: what a cleanup keeps fits, *)
(* and where everything fits everything is kept.  The rules look at sums,  *)
(* so the facts about sums come first.                                     *)
(*                                                                         *)
(* Recognition, for any number of threads, faces, rules, calls and edits   *)
(* and any cooldowns: last_fired_at is the time of the last claim, which   *)
(* makes the conditional UPDATE a test of the cooldown of the thread's     *)
(* copy; the copy has the rule's cooldown until the rule is saved again    *)
(* (CopiesAgeByEdits); and a call that tells has its event in the table.   *)
(*                                                                         *)
(* Zones, for any grid: the test of segments tells whether they meet       *)
(* (CrossingIsExact), the parity of the crossed edges the inside of a      *)
(* triangle (PolygonIsExact), and zones have the effect of their mode.     *)
(* For any line, polygon, frame rate and grace period, the trackers forget *)
(* an object exactly when it is out of sight, so that the counts add up to *)
(* where the object is.                                                    *)
(*                                                                         *)
(* Objects, for any number of them and any limits: each turn of the loop   *)
(* takes the best pair that is left, and a track has been seen as often as *)
(* it has hits.                                                            *)
(***************************************************************************)
EXTENDS MCDecisions, Sequences, TLAPS, FiniteSetTheorems, WellFoundedInduction

-----------------------------------------------------------------------------
(* Numbers and loops.                                                      *)

\* A set of numbers that is not empty has a least one.
LEMMA LeastExists ==
    ASSUME NEW S, S \subseteq Nat, S # {}
    PROVE  \E x \in S : \A y \in S : x <= y
<1>1. \E x \in S : \A y \in S : ~(<<y, x>> \in OpToRel(<, Nat))
  BY NatLessThanWellFounded, WFMin
<1>2. PICK x \in S : \A y \in S : ~(<<y, x>> \in OpToRel(<, Nat))
  BY <1>1
<1>3. ASSUME NEW y \in S PROVE x <= y
  <2>1. x \in Nat /\ y \in Nat
    OBVIOUS
  <2>2. ~(y < x)
    BY <1>2, <2>1 DEF OpToRel
  <2> QED BY <2>1, <2>2
<1> QED BY <1>3

\* What holds at nought and is handed on holds up to the end.
LEMMA Upwards ==
    ASSUME NEW N \in Nat, NEW P, 0 \in P, \A n \in 1..N : n - 1 \in P => n \in P
    PROVE  \A n \in 0..N : n \in P
<1> DEFINE Bad == (0..N) \ P
<1> SUFFICES ASSUME Bad # {} PROVE FALSE
  OBVIOUS
<1>1. PICK m \in Bad : \A k \in Bad : m <= k
  <2>1. Bad \subseteq Nat
    OBVIOUS
  <2> HIDE DEF Bad
  <2> QED BY <2>1, LeastExists
<1>2. m \in 1..N /\ m - 1 \in 0..N /\ ~(m <= m - 1)
  OBVIOUS
<1>3. m - 1 \notin Bad
  <2> HIDE DEF Bad
  <2> QED BY <1>1, <1>2
<1> QED BY <1>2, <1>3

\* A loop of N turns; turn n makes the next state of the last one.
Loops(S, x, f, N) == {a \in [0..N -> S] : a[0] = x /\ \A n \in 1..N : a[n] = f[<<n, a[n - 1]>>]}
LEMMA LoopRuns ==
    ASSUME NEW S, NEW x \in S, NEW f \in [Nat \X S -> S], NEW N \in Nat
    PROVE  Loops(S, x, f, N) # {}
<1> DEFINE P == {n \in Nat : Loops(S, x, f, n) # {}}
<1>1. 0 \in P
  <2> DEFINE a == [n \in 0..0 |-> x]
  <2>1. a \in Loops(S, x, f, 0)
    BY DEF Loops
  <2> QED BY <2>1
<1>2. ASSUME NEW n \in 1..N, n - 1 \in P PROVE n \in P
  <2>1. n \in Nat /\ n - 1 \in Nat
    OBVIOUS
  <2>2. PICK a \in [0..(n - 1) -> S] : a[0] = x /\ \A k \in 1..(n - 1) : a[k] = f[<<k, a[k - 1]>>]
    BY <1>2 DEF Loops
  <2> DEFINE b == [k \in 0..n |-> IF k = n THEN f[<<n, a[n - 1]>>] ELSE a[k]]
  <2>3. a[n - 1] \in S /\ f[<<n, a[n - 1]>>] \in S
    BY <2>1
  <2>4. b \in [0..n -> S]
    BY <2>1, <2>3
  <2>5. b[0] = x
    BY <2>1, <2>2
  <2>6. ASSUME NEW k \in 1..n PROVE b[k] = f[<<k, b[k - 1]>>]
    <3>1. k - 1 \in 0..(n - 1) /\ k - 1 # n /\ k - 1 \in 0..n
      BY <2>1
    <3>2. b[k - 1] = a[k - 1]
      BY <3>1
    <3>3. CASE k = n
      <4>1. b[n] = f[<<n, a[n - 1]>>] /\ b[n - 1] = a[n - 1]
        BY <2>1, <3>2, <3>3
      <4> HIDE DEF b
      <4> QED BY <3>3, <4>1
    <3>4. CASE k # n
      <4>1. k \in 1..(n - 1)
        BY <2>1, <3>4
      <4> QED BY <2>2, <3>2, <3>4, <4>1
    <3> QED BY <3>3, <3>4
  <2>7. b \in Loops(S, x, f, n)
    BY <2>4, <2>5, <2>6 DEF Loops
  <2> QED BY <2>1, <2>7
<1> HIDE DEF P
<1>3. N \in P
  BY <1>1, <1>2, Upwards
<1> QED BY <1>3 DEF P

-----------------------------------------------------------------------------
(* The rules of retention.                                                 *)

SizeFacts == ParamsAssumption /\ size \in [Recordings -> Sizes]

\* The sum over a set, one recording after the other
Sums(S) == {s \in [0..MaxRecording -> Nat] :
               /\ s[0] = 0
               /\ \A n \in 1..MaxRecording :
                      s[n] = s[n - 1] + (IF n \in S THEN size[n] ELSE 0)
               /\ Total(S) = s[MaxRecording]}

LEMMA SumExists ==
    ASSUME size \in [Recordings -> Sizes], NEW S
    PROVE  Sums(S) # {}
<1> DEFINE M == MaxRecording
           part(n) == IF n \in S THEN size[n] ELSE 0
           f == [k \in Nat \X Nat |-> k[2] + (IF k[1] \in 1..M THEN part(k[1]) ELSE 0)]
           g(s) == [n \in 0..M |-> IF n = 0 THEN 0 ELSE s[n - 1] + part(n)]
<1>1. M \in Nat /\ \A n \in 1..M : part(n) \in Nat
  BY ParamsAssumption DEF Recordings
<1> HIDE DEF part
<1>2. f \in [Nat \X Nat -> Nat]
  BY <1>1
<1>3. PICK s \in [0..M -> Nat] : s[0] = 0 /\ \A n \in 1..M : s[n] = f[<<n, s[n - 1]>>]
  <2>1. PICK F : F = f
    OBVIOUS
  <2> HIDE DEF f, M
  <2>2. Loops(Nat, 0, F, M) # {}
    BY <1>1, <1>2, <2>1, LoopRuns
  <2> QED BY <2>1, <2>2 DEF Loops
<1>4. ASSUME NEW n \in 1..M PROVE s[n] = s[n - 1] + part(n)
  <2>1. n - 1 \in 0..M /\ n \in Nat
    BY <1>1
  <2>2. s[n - 1] \in Nat
    BY <2>1
  <2>3. s[n] = f[<<n, s[n - 1]>>]
    <3> HIDE DEF f
    <3> QED BY <1>3
  <2> QED BY <2>1, <2>2, <2>3
<1>5. s = g(s)
  <2>1. \A n \in 0..M : n = 0 \/ n \in 1..M
    BY <1>1
  <2> HIDE DEF M
  <2> QED BY <1>3, <1>4, <2>1
<1> DEFINE t == CHOOSE u : u = g(u)
<1>6. t = g(t)
  <2> HIDE DEF g
  <2> QED BY <1>5
<1>7. Total(S) = t[M]
  BY DEF Total, part
<1>8. \A n \in 0..M : t[n] = IF n = 0 THEN 0 ELSE t[n - 1] + part(n)
  <2> HIDE DEF t
  <2> QED BY <1>6
<1>9. t[M] = s[M]
  <2> HIDE DEF t, f
  <2> DEFINE P == {n \in 0..M : t[n] = s[n]}
  <2>1. 0 \in P
    <3>1. 0 \in 0..M
      BY <1>1
    <3>2. s[0] = 0
      BY <1>3
    <3> HIDE DEF M
    <3> QED BY <1>8, <3>1, <3>2
  <2>2. ASSUME NEW n \in 1..M, n - 1 \in P PROVE n \in P
    <3>1. n # 0 /\ n \in 0..M
      BY <1>1
    <3> HIDE DEF M
    <3> QED BY <1>4, <1>8, <2>2, <3>1
  <2> HIDE DEF P
  <2>3. \A n \in 0..M : n \in P
    BY <1>1, <2>1, <2>2, Upwards
  <2> QED BY <1>1, <2>3 DEF P
<1>10. s \in Sums(S)
  BY <1>3, <1>4, <1>7, <1>9 DEF Sums, part
<1> QED BY <1>10

\* What sums are: nought of nothing, more for more, and each recording adds
\* its size.
LEMMA SumsAre ==
    ASSUME size \in [Recordings -> Sizes]
    PROVE  /\ \A S : Total(S) \in Nat
           /\ Total({}) = 0
           /\ \A S, U : S \subseteq U => Total(S) <= Total(U)
           /\ \A S : \A r \in Recordings \ S : Total(S \cup {r}) = Total(S) + size[r]
<1> DEFINE M == MaxRecording
<1>1. M \in Nat /\ M \in 0..M /\ \A n \in 1..M : size[n] \in Nat
  <2>1. \A n \in 1..M : size[n] \in Sizes
    BY DEF Recordings
  <2>2. M \in Nat /\ Sizes \subseteq Nat
    BY ParamsAssumption
  <2>3. \A n \in 1..M : size[n] \in Nat
    BY <2>1, <2>2
  <2>4. M \in 0..M
    BY <2>2
  <2> QED BY <2>2, <2>3, <2>4
<1> DEFINE Sum(S, s) ==
           /\ s \in [0..M -> Nat] /\ s[0] = 0 /\ Total(S) = s[M]
           /\ \A n \in 1..M : s[n] = s[n - 1] + (IF n \in S THEN size[n] ELSE 0)
<1>2. \A S : \E s : Sum(S, s)
  BY SumExists DEF Sums
<1> HIDE DEF M
<1>3. ASSUME NEW S PROVE Total(S) \in Nat
  BY <1>1, <1>2
<1>4. Total({}) = 0
  <2>1. PICK s : Sum({}, s)
    <3> HIDE DEF Sum
    <3> QED BY <1>2
  <2> DEFINE P == {n \in 0..M : s[n] = 0}
  <2>2. 0 \in P
    BY <1>1, <2>1
  <2>3. ASSUME NEW n \in 1..M, n - 1 \in P PROVE n \in P
    <3>1. n \in 0..M /\ s[n] = s[n - 1] + 0
      BY <1>1, <2>1
    <3> QED BY <2>3, <3>1
  <2> HIDE DEF P
  <2>4. \A n \in 0..M : n \in P
    BY <1>1, <2>2, <2>3, Upwards
  <2> QED BY <1>1, <2>1, <2>4 DEF P
<1>5. ASSUME NEW S, NEW U, S \subseteq U PROVE Total(S) <= Total(U)
  <2>1. PICK s : Sum(S, s)
    <3> HIDE DEF Sum
    <3> QED BY <1>2
  <2>2. PICK t : Sum(U, t)
    <3> HIDE DEF Sum
    <3> QED BY <1>2
  <2> DEFINE P == {n \in 0..M : s[n] <= t[n]}
  <2>3. 0 \in P
    BY <1>1, <2>1, <2>2
  <2>4. ASSUME NEW n \in 1..M, n - 1 \in P PROVE n \in P
    <3>1. n \in 0..M /\ n - 1 \in 0..M
      BY <1>1
    <3>2. s[n - 1] \in Nat /\ t[n - 1] \in Nat /\ s[n - 1] <= t[n - 1] /\ size[n] \in Nat
      BY <1>1, <2>1, <2>2, <2>4, <3>1
    <3>3. s[n] = s[n - 1] + (IF n \in S THEN size[n] ELSE 0)
          /\ t[n] = t[n - 1] + (IF n \in U THEN size[n] ELSE 0)
      BY <2>1, <2>2
    <3>4. s[n] <= t[n]
      BY <1>5, <3>2, <3>3
    <3> QED BY <3>1, <3>4
  <2> HIDE DEF P
  <2>5. \A n \in 0..M : n \in P
    BY <1>1, <2>3, <2>4, Upwards
  <2> QED BY <1>1, <2>1, <2>2, <2>5 DEF P
<1>6. ASSUME NEW S, NEW r \in Recordings \ S PROVE Total(S \cup {r}) = Total(S) + size[r]
  <2>1. PICK s : Sum(S, s)
    <3> HIDE DEF Sum
    <3> QED BY <1>2
  <2>2. PICK t : Sum(S \cup {r}, t)
    <3> HIDE DEF Sum
    <3> QED BY <1>2
  <2>3. r \in 1..M /\ r \notin S /\ size[r] \in Nat
    BY <1>1 DEF Recordings, M
  <2> DEFINE P == {n \in 0..M : t[n] = s[n] + (IF r <= n THEN size[r] ELSE 0)}
  <2>4. 0 \in P
    <3>1. ~(r <= 0) /\ 0 \in 0..M
      BY <1>1, <2>3
    <3> QED BY <2>1, <2>2, <3>1
  <2>5. ASSUME NEW n \in 1..M, n - 1 \in P PROVE n \in P
    <3>1. n \in 0..M /\ n - 1 \in 0..M
      BY <1>1
    <3>2. s[n - 1] \in Nat /\ t[n - 1] \in Nat /\ size[n] \in Nat
          /\ t[n - 1] = s[n - 1] + (IF r <= n - 1 THEN size[r] ELSE 0)
      BY <1>1, <2>1, <2>2, <2>5, <3>1
    <3>3. s[n] = s[n - 1] + (IF n \in S THEN size[n] ELSE 0)
          /\ t[n] = t[n - 1] + (IF n \in S \cup {r} THEN size[n] ELSE 0)
      BY <2>1, <2>2
    <3>4. CASE n = r
      <4>1. ~(r <= n - 1) /\ r <= n
        BY <2>3, <3>4
      <4>2. s[n] = s[n - 1] + 0 /\ t[n] = t[n - 1] + size[r]
        BY <2>3, <3>3, <3>4
      <4>3. t[n] = s[n] + size[r]
        BY <2>3, <3>2, <4>1, <4>2
      <4> QED BY <3>1, <4>1, <4>3
    <3>5. CASE n # r
      <4>1. (r <= n - 1) <=> (r <= n)
        BY <2>3, <3>5
      <4>2. n \in S \cup {r} <=> n \in S
        BY <3>5
      <4>3. t[n] = s[n] + (IF r <= n THEN size[r] ELSE 0)
        BY <2>3, <3>2, <3>3, <4>1, <4>2
      <4> QED BY <3>1, <4>3
    <3> QED BY <3>4, <3>5
  <2> HIDE DEF P
  <2>6. \A n \in 0..M : n \in P
    BY <1>1, <2>4, <2>5, Upwards
  <2>7. r <= M
    BY <1>1, <2>3
  <2> QED BY <1>1, <2>1, <2>2, <2>6, <2>7 DEF P
<1> QED BY <1>3, <1>4, <1>5, <1>6

\* What Kept goes through, from the newest recording to the oldest.
Ways(rule) == {from \in [1..(MaxRecording + 1) -> SUBSET Recordings] :
    /\ from[MaxRecording + 1] = {}
    /\ \A n \in Recordings :
           from[n] = IF n \in Matching(rule) /\ Fits(from[n + 1], n, rule.limit)
                     THEN from[n + 1] \cup {n} ELSE from[n + 1]
    /\ Kept(rule) = from[1]}

LEMMA WayExists == ASSUME NEW rule PROVE Ways(rule) # {}
<1> DEFINE M == MaxRecording
           D == SUBSET Recordings
           turn(n, A) == IF n \in Matching(rule) /\ Fits(A, n, rule.limit) THEN A \cup {n} ELSE A
           f == [k \in Nat \X D |-> turn((M + 1) - k[1], k[2] ) \cap Recordings]
           g(h) == [n \in 1..(M + 1) |-> IF n > M THEN {} ELSE turn(n, h[n + 1])]
<1>1. M \in Nat /\ Recordings = 1..M
  BY ParamsAssumption DEF Recordings
<1> HIDE DEF turn
<1>2. f \in [Nat \X D -> D] /\ {} \in D
  OBVIOUS
<1>3. PICK a \in [0..M -> D] : a[0] = {} /\ \A n \in 1..M : a[n] = f[<<n, a[n - 1]>>]
  <2>1. PICK F, E : F = f /\ E = D
    OBVIOUS
  <2> HIDE DEF f, M, D
  <2>2. Loops(E, {}, F, M) # {}
    BY <1>1, <1>2, <2>1, LoopRuns
  <2> QED BY <2>1, <2>2 DEF Loops
<1>4. ASSUME NEW n \in 1..M, NEW A \in D PROVE turn(n, A) \in D
  BY <1>1 DEF turn
<1>5. ASSUME NEW n \in 1..M PROVE a[n] = turn((M + 1) - n, a[n - 1]) /\ (M + 1) - n \in 1..M
  <2>1. n - 1 \in 0..M /\ n \in Nat /\ (M + 1) - n \in 1..M
    BY <1>1
  <2>2. a[n - 1] \in D
    BY <2>1
  <2>3. a[n] = f[<<n, a[n - 1]>>]
    <3> HIDE DEF f
    <3> QED BY <1>3
  <2>4. turn((M + 1) - n, a[n - 1]) \in D
    BY <1>4, <2>1, <2>2
  <2> QED BY <2>1, <2>2, <2>3, <2>4
<1> DEFINE w == [n \in 1..(M + 1) |-> a[(M + 1) - n]]
<1>6. \A n \in 1..(M + 1) : (M + 1) - n \in 0..M
  BY <1>1
<1>7. w \in [1..(M + 1) -> D] /\ w[M + 1] = {}
  <2>1. w \in [1..(M + 1) -> D]
    <3> HIDE DEF D
    <3> QED BY <1>3, <1>6
  <2>2. M + 1 \in 1..(M + 1) /\ (M + 1) - (M + 1) = 0
    BY <1>1
  <2>3. w[M + 1] = a[(M + 1) - (M + 1)]
    BY <2>2
  <2> QED BY <1>3, <2>1, <2>2, <2>3
<1>8. ASSUME NEW n \in 1..M PROVE w[n] = turn(n, w[n + 1])
  <2> DEFINE k == (M + 1) - n
  <2>1. /\ k \in 1..M /\ (M + 1) - k = n /\ k - 1 = (M + 1) - (n + 1)
        /\ n \in 1..(M + 1) /\ n + 1 \in 1..(M + 1)
    BY <1>1
  <2>2. w[n] = a[k] /\ w[n + 1] = a[(M + 1) - (n + 1)]
    BY <2>1
  <2> HIDE DEF k, w
  <2>3. a[k] = turn((M + 1) - k, a[k - 1])
    BY <1>5, <2>1
  <2> QED BY <2>1, <2>2, <2>3
<1>9. w = g(w)
  <2>1. \A n \in 1..(M + 1) : w[n] = IF n > M THEN {} ELSE turn(n, w[n + 1])
    <3> SUFFICES ASSUME NEW n \in 1..(M + 1)
                 PROVE  w[n] = IF n > M THEN {} ELSE turn(n, w[n + 1])
      OBVIOUS
    <3> HIDE DEF w
    <3>1. n = M + 1 \/ (n \in 1..M /\ ~(n > M))
      BY <1>1
    <3>2. M + 1 > M
      BY <1>1
    <3> QED BY <1>7, <1>8, <3>1, <3>2
  <2>2. w = [n \in 1..(M + 1) |-> w[n]]
    OBVIOUS
  <2> HIDE DEF w
  <2> QED BY <2>1, <2>2
<1> HIDE DEF w
<1> DEFINE t == CHOOSE h : h = g(h)
<1>10. t = g(t)
  <2> HIDE DEF g
  <2> QED BY <1>9
<1>11. Kept(rule) = t[1]
  BY DEF Kept, turn
<1>12. \A n \in 1..(M + 1) : t[n] = IF n > M THEN {} ELSE turn(n, t[n + 1])
  <2> HIDE DEF t
  <2> QED BY <1>10
<1> HIDE DEF t
<1>13. t[1] = w[1]
  <2> DEFINE P == {k \in 0..M : t[(M + 1) - k] = w[(M + 1) - k]}
  <2>1. 0 \in P
    <3>1. M + 1 \in 1..(M + 1) /\ M + 1 > M /\ (M + 1) - 0 = M + 1 /\ 0 \in 0..M
      BY <1>1
    <3>2. t[M + 1] = {}
      BY <1>12, <3>1
    <3> QED BY <1>7, <3>1, <3>2
  <2>2. ASSUME NEW k \in 1..M, k - 1 \in P PROVE k \in P
    <3> DEFINE n == (M + 1) - k
    <3>1. n \in 1..M /\ n \in 1..(M + 1) /\ ~(n > M) /\ k \in 0..M /\ n + 1 = (M + 1) - (k - 1)
      BY <1>1
    <3> HIDE DEF n
    <3>2. t[n + 1] = w[n + 1]
      BY <2>2, <3>1
    <3>3. t[n] = turn(n, t[n + 1]) /\ w[n] = turn(n, w[n + 1])
      BY <1>8, <1>12, <3>1
    <3>4. t[n] = w[n]
      BY <3>2, <3>3
    <3> QED BY <3>1, <3>4 DEF n
  <2> HIDE DEF P
  <2>3. \A k \in 0..M : k \in P
    BY <1>1, <2>1, <2>2, Upwards
  <2>4. M \in 0..M /\ (M + 1) - M = 1
    BY <1>1
  <2>5. M \in P
    BY <2>3, <2>4
  <2> QED BY <2>4, <2>5 DEF P
<1>14. w \in Ways(rule)
  BY <1>1, <1>7, <1>8, <1>11, <1>13 DEF Ways, turn
<1> QED BY <1>14

\* What is kept fits; and if everything fits, everything is kept.
LEMMA KeptFits ==
    ASSUME TypeOK, NEW rule, rule.limit \in Nat
    PROVE  /\ Kept(rule) \subseteq Matching(rule)
           /\ Total(Kept(rule)) <= rule.limit
           /\ Total(Matching(rule)) <= rule.limit => Kept(rule) = Matching(rule)
<1> DEFINE M == MaxRecording
           F == Matching(rule)
           L == rule.limit
           Since(n) == {r \in F : r >= n}
<1>1. M \in Nat /\ Recordings = 1..M /\ F \subseteq 1..M
  BY ParamsAssumption DEF Recordings, Matching, Candidates, TypeOK
<1>2. PICK h \in Ways(rule) : TRUE
  BY WayExists
<1>3. /\ h[M + 1] = {} /\ Kept(rule) = h[1]
      /\ \A n \in 1..M : h[n] = IF n \in F /\ Fits(h[n + 1], n, L)
                                THEN h[n + 1] \cup {n} ELSE h[n + 1]
  BY <1>1, <1>2 DEF Ways
<1>4. /\ \A S : Total(S) \in Nat
      /\ Total({}) = 0
      /\ \A S, U : S \subseteq U => Total(S) <= Total(U)
      /\ \A S : \A r \in Recordings \ S : Total(S \cup {r}) = Total(S) + size[r]
  BY SumsAre DEF TypeOK
<1> HIDE DEF M, F, L
<1>9. M \in Nat /\ \A r \in F : r \in Nat /\ 1 <= r /\ r <= M
  BY <1>1
<1> DEFINE Good(n) ==
           /\ h[n] \subseteq Since(n) /\ Total(h[n]) <= L
           /\ Total(F) <= L => h[n] = Since(n)
           P == {k \in 0..M : Good((M + 1) - k)}
<1>5. 0 \in P
  <2>1. (M + 1) - 0 = M + 1 /\ 0 \in 0..M /\ Since(M + 1) = {}
    <3>1. \A r \in F : ~(r >= M + 1)
      BY <1>9
    <3> QED BY <1>9, <3>1
  <2>2. L \in Nat
    BY DEF L
  <2> QED BY <1>3, <1>4, <2>1, <2>2
<1>6. ASSUME NEW k \in 1..M, k - 1 \in P PROVE k \in P
  <2> DEFINE n == (M + 1) - k
  <2>1. n \in 1..M /\ k \in 0..M /\ n + 1 = (M + 1) - (k - 1)
    BY <1>1
  <2>2. Good(n + 1)
    BY <1>6, <2>1
  <2> HIDE DEF n
  <2>3. /\ n \notin Since(n + 1) /\ Since(n + 1) \subseteq Since(n)
        /\ n \in F => Since(n) = Since(n + 1) \cup {n}
        /\ n \notin F => Since(n) = Since(n + 1)
    <3>1. \A r \in F : (r >= n <=> r >= n + 1 \/ r = n) /\ ~(n >= n + 1)
      BY <1>9, <2>1
    <3>2. n >= n /\ ~(n >= n + 1)
      BY <1>9, <2>1
    <3> QED BY <3>1, <3>2
  <2>4. n \notin h[n + 1] /\ n \in Recordings
    BY <1>1, <2>1, <2>2, <2>3
  <2>5. Total(h[n + 1] \cup {n}) = Total(h[n + 1]) + size[n]
    BY <1>4, <2>4
  <2>6. CASE n \in F /\ Fits(h[n + 1], n, L)
    <3>1. h[n] = h[n + 1] \cup {n}
      BY <1>3, <2>1, <2>6
    <3>2. Total(h[n]) <= L
      BY <2>5, <2>6, <3>1 DEF Fits
    <3>3. Good(n)
      BY <2>2, <2>3, <2>6, <3>1, <3>2
    <3> QED BY <2>1, <3>3 DEF n
  <2>7. CASE n \notin F
    <3>1. h[n] = h[n + 1]
      BY <1>3, <2>1, <2>7
    <3>2. Good(n)
      BY <2>2, <2>3, <2>7, <3>1
    <3> QED BY <2>1, <3>2 DEF n
  <2>8. CASE n \in F /\ ~Fits(h[n + 1], n, L)
    <3>1. h[n] = h[n + 1]
      BY <1>3, <2>1, <2>8
    <3>2. ASSUME Total(F) <= L PROVE FALSE
      <4>1. h[n + 1] \cup {n} \subseteq F
        BY <2>2, <2>8
      <4>2. Total(h[n + 1] \cup {n}) <= Total(F)
        BY <1>4, <4>1
      <4>3. /\ Total(h[n + 1] \cup {n}) \in Nat /\ Total(F) \in Nat /\ L \in Nat
            /\ ~(Total(h[n + 1]) + size[n] <= L)
        BY <1>4, <2>8 DEF Fits, L
      <4> QED BY <2>5, <3>2, <4>2, <4>3
    <3>3. Good(n)
      BY <2>2, <2>3, <3>1, <3>2
    <3> QED BY <2>1, <3>3 DEF n
  <2> QED BY <2>6, <2>7, <2>8
<1>7. Good(1)
  <2> HIDE DEF Good
  <2>1. \A k \in 0..M : k \in P
    <3> HIDE DEF P
    <3> QED BY <1>1, <1>5, <1>6, Upwards
  <2>2. M \in 0..M /\ (M + 1) - M = 1
    BY <1>1
  <2> QED BY <2>1, <2>2
<1>8. Since(1) = F
  <2>1. \A r \in F : r >= 1
    BY <1>9
  <2> QED BY <2>1
<1> QED BY <1>3, <1>7, <1>8 DEF F, L

\* Where the rules hold, nothing is over a limit; where something is, they do not.
LEMMA OverLimitIs ==
    ASSUME TypeOK, NEW rule \in rules
    PROVE  /\ rule.cutoff \in Nat /\ Matching(rule) \subseteq Nat
           /\ rule.limit # NoLimit => rule.limit \in Nat
           /\ rule.limit # NoLimit => Total(Matching(rule) \ OverLimit(rule)) <= rule.limit
           /\ OverLimit(rule) # {} => rule.limit # NoLimit /\ Total(Matching(rule)) > rule.limit
<1>1. rule.limit # NoLimit => rule.limit \in Nat
  BY ParamsAssumption DEF TypeOK, Rules, NoLimit
<1>2. rule.cutoff \in Nat
  <2>1. rule.cutoff \in Cutoffs
    BY DEF TypeOK, Rules
  <2>2. Cutoffs \subseteq Nat
    BY ParamsAssumption
  <2> QED BY <2>1, <2>2
<1>3. Matching(rule) \subseteq Nat
  <2>1. \A r \in Matching(rule) : r \in 1..MaxRecording
    BY DEF TypeOK, Matching, Candidates, Recordings
  <2> QED BY <2>1
<1>4. CASE rule.limit = NoLimit
  BY <1>2, <1>3, <1>4 DEF OverLimit
<1>5. CASE rule.limit # NoLimit
  <2>1. /\ Kept(rule) \subseteq Matching(rule) /\ Total(Kept(rule)) <= rule.limit
        /\ Total(Matching(rule)) <= rule.limit => Kept(rule) = Matching(rule)
    BY <1>1, <1>5, KeptFits
  <2>2. OverLimit(rule) = Matching(rule) \ Kept(rule)
    BY <1>5 DEF OverLimit
  <2>3. Matching(rule) \ OverLimit(rule) = Kept(rule)
    BY <2>1, <2>2
  <2>4. Total(Matching(rule)) \in Nat
    BY SumsAre DEF TypeOK
  <2>5. OverLimit(rule) # {} => ~(Total(Matching(rule)) <= rule.limit)
    BY <2>1, <2>2
  <2>6. Total(Matching(rule)) > rule.limit <=> ~(Total(Matching(rule)) <= rule.limit)
    BY <1>1, <1>5, <2>4
  <2> QED BY <1>1, <1>2, <1>3, <1>5, <2>1, <2>3, <2>5, <2>6
<1> QED BY <1>4, <1>5

LEMMA RulesInit == Init => IInv
BY DEF Init, IInv, TypeOK, RulesHoldAfterwards

LEMMA RulesStep == IInv /\ (Next \/ UNCHANGED vars) => IInv'
<1> SUFFICES ASSUME IInv, Next \/ UNCHANGED vars PROVE IInv'
  OBVIOUS
<1>1. CASE Next
  <2>1. /\ present' = present \ Preview /\ passes' = passes + 1 /\ passes < 2
        /\ UNCHANGED <<size, cameraOf, locked, rules>>
    BY <1>1 DEF Next, ApplyCleanup, archive
  <2>2. TypeOK'
    BY <2>1 DEF IInv, TypeOK
  <2>3. ASSUME NEW rule \in rules
        PROVE  /\ \A r \in Matching(rule)' : r >= rule.cutoff
               /\ rule.limit # NoLimit => Total(Matching(rule))' <= rule.limit
    <3>1. Matching(rule)' = Matching(rule) \ Preview
      BY <2>1 DEF Matching, Candidates, Matches
    <3>2. TooOld(rule) \cup OverLimit(rule) \subseteq Preview
      BY DEF Preview
    <3>3. ASSUME NEW r \in Matching(rule)' PROVE r >= rule.cutoff
      <4>1. r \in Matching(rule) /\ r \notin TooOld(rule)
        BY <3>1, <3>2
      <4>2. ~(r < rule.cutoff)
        BY <4>1 DEF TooOld
      <4>3. r \in Int /\ rule.cutoff \in Int
        <5>1. TypeOK
          BY DEF IInv
        <5>2. rule.cutoff \in Nat /\ Matching(rule) \subseteq Nat
          BY <5>1, OverLimitIs
        <5> QED BY <4>1, <5>2
      <4> QED BY <4>2, <4>3
    <3>4. ASSUME rule.limit # NoLimit PROVE Total(Matching(rule))' <= rule.limit
      <4> DEFINE left == Matching(rule) \ Preview
                 kept == Matching(rule) \ OverLimit(rule)
      <4>1. left \subseteq kept
        BY <3>2
      <4> HIDE DEF left, kept
      <4>2. Total(left) <= Total(kept) /\ Total(left) \in Nat /\ Total(kept) \in Nat
        BY <4>1, SumsAre DEF IInv, TypeOK
      <4>3. Total(kept) <= rule.limit /\ rule.limit \in Nat
        BY <3>4, OverLimitIs DEF IInv, kept
      <4>4. Total(left) <= rule.limit
        BY <4>2, <4>3
      <4>5. Total(Matching(rule))' = Total(left)
        BY <2>1, <3>1 DEF Total, left
      <4> QED BY <4>4, <4>5
    <3> QED BY <3>3, <3>4
  <2>4. RulesHoldAfterwards'
    BY <2>1, <2>3 DEF RulesHoldAfterwards
  <2> QED BY <2>2, <2>4 DEF IInv
<1>2. CASE UNCHANGED vars
  BY <1>2 DEF vars, IInv, TypeOK, RulesHoldAfterwards, Matching, Candidates, Matches, Total
<1> QED BY <1>1, <1>2

LEMMA RulesSuffice ==
    ASSUME IInv
    PROVE  RulesHoldAfterwards /\ SecondPassFindsNothing /\ DeletedForAReason
<1>1. ASSUME NEW r \in Preview
      PROVE  \E rule \in rules :
                 /\ Matches(r, rule) /\ r \notin locked
                 /\ \/ r < rule.cutoff
                    \/ rule.limit # NoLimit /\ Total(Matching(rule)) > rule.limit
  <2>1. PICK rule \in rules : r \in TooOld(rule) \cup OverLimit(rule)
    BY DEF Preview
  <2>2. r \in Matching(rule)
    BY <2>1 DEF TooOld, OverLimit
  <2>3. Matches(r, rule) /\ r \notin locked
    BY <2>2 DEF Matching, Candidates
  <2>4. CASE r \in TooOld(rule)
    BY <2>3, <2>4 DEF TooOld
  <2>5. CASE r \in OverLimit(rule)
    BY <2>3, <2>5, OverLimitIs DEF IInv
  <2> QED BY <2>1, <2>4, <2>5
<1>2. ASSUME passes = 1, Preview # {} PROVE FALSE
  <2>1. PICK rule \in rules : TooOld(rule) # {} \/ OverLimit(rule) # {}
    BY <1>2 DEF Preview
  <2>2. /\ \A r \in Matching(rule) : r >= rule.cutoff
        /\ rule.limit # NoLimit => Total(Matching(rule)) <= rule.limit
    BY <1>2 DEF IInv, RulesHoldAfterwards
  <2>3. TooOld(rule) = {}
    <3>1. rule.cutoff \in Int /\ Matching(rule) \subseteq Int
      <4>1. TypeOK
        BY DEF IInv
      <4>2. rule.cutoff \in Nat /\ Matching(rule) \subseteq Nat
        BY <4>1, OverLimitIs
      <4> QED BY <4>2
    <3> QED BY <2>2, <3>1 DEF TooOld
  <2>4. OverLimit(rule) = {}
    <3>1. rule.limit # NoLimit => rule.limit \in Nat
      BY OverLimitIs DEF IInv
    <3>2. Total(Matching(rule)) \in Nat
      BY SumsAre DEF IInv, TypeOK
    <3>3. OverLimit(rule) # {} => rule.limit # NoLimit /\ Total(Matching(rule)) > rule.limit
      BY OverLimitIs DEF IInv
    <3> QED BY <2>2, <3>1, <3>2, <3>3
  <2> QED BY <2>1, <2>3, <2>4
<1> QED BY <1>1, <1>2 DEF IInv, SecondPassFindsNothing, DeletedForAReason

-----------------------------------------------------------------------------
(* Recognition and its rules.                                              *)

LEMMA RecognitionInit == R!Init => R!IInv
<1> SUFFICES ASSUME R!Init PROVE R!IInv
  OBVIOUS
<1> USE RecognitionAssumption DEF R!Init
<1>1. R!Never \in R!Times /\ 0 \in 0..MaxClock /\ 0 \in 0..MaxEvents /\ 0 \in 0..MaxEdits
  BY DEF R!Times
<1>2. R!NoRule \in R!RuleRows /\ \A c \in Cooldowns : R!AnyRule(c) \in R!RuleRows
  BY <1>1 DEF R!NoRule, R!AnyRule, R!RuleRows
<1>3. v4 \in [Automations -> R!RuleRows]
  BY <1>2
<1>4. v3 \in [Ids -> Looks \cup {R!Unused, R!Removed}]
  OBVIOUS
<1>5. v6 \in [1..MaxEvents -> R!EventRows]
  BY DEF R!NoEvent, R!EventRows
<1>6. R!Idle \in R!Threads
  BY <1>1 DEF R!Idle, R!Threads, R!Places
<1>7. v7 \in [Workers -> R!Threads]
  BY <1>6
<1>8. v11 \in [Automations -> Seq(R!Claims)]
  OBVIOUS
<1>9. R!TypeOK
  BY <1>1, <1>3, <1>4, <1>5, <1>7, <1>8 DEF R!TypeOK, R!Modes
<1>10. R!LastIsTheLastClaim
  BY DEF R!LastIsTheLastClaim, R!AnyRule, R!NoRule
<1>11. R!CallsAreRecorded
  BY DEF R!CallsAreRecorded, R!Idle, R!Telling
<1>12. R!CooldownKept /\ R!ToldIsRecorded
  BY DEF R!CooldownKept, R!ToldIsRecorded
<1>13. R!CopiesAgeByEdits
  BY DEF R!CopiesAgeByEdits, R!Idle, R!AnyRule, R!NoRule
<1> QED BY <1>9, <1>10, <1>11, <1>12, <1>13 DEF R!IInv

\* The steps of a call.
LEMMA StartKeeps ==
    ASSUME R!IInv, NEW w \in Workers, NEW look \in Looks, NEW mode \in R!Modes,
           R!Start(w, look, mode)
    PROVE  R!IInv'
<1> USE RecognitionAssumption DEF R!IInv, R!Start
<1> DEFINE row == [R!Idle EXCEPT !.pc = "match", !.call = v9 + 1, !.look = look]
<1>1. v9 + 1 \in 1..MaxEvents /\ v9 + 1 \in 0..MaxEvents
  BY DEF R!TypeOK
<1>2. row \in R!Threads /\ row.pc = "match" /\ row.call = v9 + 1 /\ row.todo = {}
  <2>1. R!Idle \in R!Threads
    BY DEF R!Idle, R!Threads, R!Places
  <2>2. R!Idle.todo = {}
    BY DEF R!Idle
  <2> QED BY <1>1, <2>1, <2>2 DEF R!Threads, R!Places
<1>3. v7' = [v7 EXCEPT ![w] = row]
  OBVIOUS
<1> HIDE DEF row
<1>4. R!TypeOK'
  BY <1>1, <1>2, <1>3 DEF R!TypeOK
<1>5. R!CallsAreRecorded'
  BY <1>1, <1>2, <1>3 DEF R!TypeOK, R!CallsAreRecorded, R!Telling
<1>6. R!LastIsTheLastClaim' /\ R!CooldownKept' /\ R!ToldIsRecorded'
  BY DEF R!LastIsTheLastClaim, R!CooldownKept, R!ToldIsRecorded
<1>7. R!CopiesAgeByEdits'
  BY <1>2, <1>3 DEF R!TypeOK, R!CopiesAgeByEdits, R!Aged
<1> QED BY <1>4, <1>5, <1>6, <1>7

\* A step that moves one thread and no row of the tables.
LEMMA MovesKeep ==
    ASSUME R!IInv, NEW w \in Workers, NEW row \in R!Threads,
           v7' = [v7 EXCEPT ![w] = row],
           row.pc # "idle" => row.call \in 1..MaxEvents,
           row.pc \in R!Telling => v6[row.call].is,
           row.pc = "send" => row.rule \in Automations,
           \A copy \in row.todo : R!Aged(copy),
           UNCHANGED <<v1, v2, v3, v4, v5, v6, v8, v9, v10, v11>>,
           v12' \subseteq v12 \cup ({row.call} \X (Automations \cup {R!Built})),
           v12' # v12 => row.pc \in R!Telling
    PROVE  R!IInv'
<1> USE RecognitionAssumption DEF R!IInv
<1>1. row.pc \in R!Telling => row.call \in 1..MaxEvents
  BY DEF R!Telling
<1>2. v12' \subseteq (1..MaxEvents) \X (Automations \cup {R!Built})
  BY <1>1 DEF R!TypeOK
<1>3. R!TypeOK'
  BY <1>2 DEF R!TypeOK
<1>4. R!CallsAreRecorded'
  BY DEF R!TypeOK, R!CallsAreRecorded
<1>5. R!ToldIsRecorded'
  <2> SUFFICES ASSUME NEW m \in v12' PROVE v6[m[1]].is
    BY DEF R!ToldIsRecorded
  <2>1. CASE m \in v12
    BY <2>1 DEF R!ToldIsRecorded
  <2>2. CASE m \notin v12
    <3>1. m[1] = row.call
      BY <2>2
    <3> QED BY <2>2, <3>1
  <2> QED BY <2>1, <2>2
<1>6. R!LastIsTheLastClaim' /\ R!CooldownKept'
  BY DEF R!LastIsTheLastClaim, R!CooldownKept
<1>7. R!CopiesAgeByEdits'
  <2> SUFFICES ASSUME NEW t \in Workers, NEW copy \in v7'[t].todo
               PROVE  R!Aged(copy)
    BY DEF R!CopiesAgeByEdits, R!Aged
  <2> QED BY DEF R!TypeOK, R!CopiesAgeByEdits
<1> QED BY <1>3, <1>4, <1>5, <1>6, <1>7

LEMMA CallKeeps ==
    ASSUME R!IInv, NEW w \in Workers,
           \/ R!NothingSeen(w) \/ R!Match(w) \/ R!Announce(w)
           \/ R!Select(w) \/ R!Send(w) \/ R!Done(w)
    PROVE  R!IInv'
<1> USE RecognitionAssumption
<1>1. v7[w] \in R!Threads
  BY DEF R!IInv, R!TypeOK
<1>2. R!Idle \in R!Threads /\ R!Idle.pc = "idle" /\ R!Idle.todo = {}
  BY DEF R!Idle, R!Threads, R!Places
<1>3. /\ v7[w].pc # "idle" => v7[w].call \in 1..MaxEvents
      /\ v7[w].pc \in R!Telling => v6[v7[w].call].is
      /\ v7[w].pc = "send" => v7[w].rule \in Automations
      /\ \A copy \in v7[w].todo : R!Aged(copy)
  BY DEF R!IInv, R!CallsAreRecorded, R!CopiesAgeByEdits
<1>4. v7 \in [Workers -> R!Threads]
  BY DEF R!IInv, R!TypeOK
<1>5. CASE R!NothingSeen(w) \/ R!Done(w)
  <2>1. /\ v7' = [v7 EXCEPT ![w] = R!Idle]
        /\ UNCHANGED <<v1, v2, v3, v4, v5, v6, v8, v9, v10, v11, v12>>
    BY <1>5 DEF R!NothingSeen, R!Done, R!Finish
  <2> QED BY <1>2, <2>1, MovesKeep DEF R!Telling
<1>6. CASE R!Match(w)
  <2>1. PICK id \in Ids \cup {R!Unset} :
            /\ v7' = [v7 EXCEPT ![w].pc = "record", ![w].match = id]
            /\ UNCHANGED <<v1, v2, v3, v4, v5, v6, v8, v9, v10, v11, v12>>
    BY <1>6 DEF R!Match, R!Matches, R!FaceMatches, R!PlateMatches
  <2> DEFINE row == [v7[w] EXCEPT !.pc = "record", !.match = id]
  <2>2. /\ row \in R!Threads /\ row.pc = "record" /\ row.call = v7[w].call
        /\ row.todo = v7[w].todo
    BY <1>1 DEF R!Threads, R!Places
  <2>3. v7' = [v7 EXCEPT ![w] = row]
    BY <1>1, <1>4, <2>1 DEF R!Threads
  <2>4. row.call \in 1..MaxEvents
    BY <1>3, <1>6, <2>2 DEF R!Match, R!At
  <2> HIDE DEF row
  <2> QED BY <1>3, <2>1, <2>2, <2>3, <2>4, MovesKeep DEF R!Telling
<1>7. CASE R!Announce(w)
  <2> DEFINE row == [v7[w] EXCEPT !.pc = "select"]
  <2>1. /\ row \in R!Threads /\ row.pc = "select" /\ row.call = v7[w].call
        /\ row.todo = v7[w].todo
    BY <1>1 DEF R!Threads, R!Places
  <2>2. v7' = [v7 EXCEPT ![w] = row]
    BY <1>4, <1>7 DEF R!Announce, R!Goto
  <2>3. row.call \in 1..MaxEvents /\ v6[row.call].is
    BY <1>3, <1>7, <2>1 DEF R!Announce, R!At, R!Telling
  <2>4. /\ UNCHANGED <<v1, v2, v3, v4, v5, v6, v8, v9, v10, v11>>
        /\ v12' \subseteq v12 \cup {<<v7[w].call, R!Built>>}
    BY <1>7 DEF R!Announce
  <2> HIDE DEF row
  <2>5. v12' \subseteq v12 \cup ({row.call} \X (Automations \cup {R!Built}))
    BY <2>1, <2>4
  <2> QED BY <1>3, <2>1, <2>2, <2>3, <2>4, <2>5, MovesKeep DEF R!Telling
<1>8. CASE R!Select(w)
  <2> DEFINE todo == {R!CopyOf(r) : r \in {s \in Automations : R!Applies(s, v7[w].match)}}
             row == [v7[w] EXCEPT !.pc = "fire", !.todo = todo]
  <2>1. \A r \in Automations : R!CopyOf(r) \in R!Copies /\ R!Aged(R!CopyOf(r))
    BY DEF R!IInv, R!TypeOK, R!RuleRows, R!CopyOf, R!Copies, R!Aged
  <2>2. todo \in SUBSET R!Copies /\ \A copy \in todo : R!Aged(copy)
    BY <2>1
  <2>3. v7' = [v7 EXCEPT ![w].pc = "fire", ![w].todo = todo]
    BY <1>8 DEF R!Select
  <2>4. UNCHANGED <<v1, v2, v3, v4, v5, v6, v8, v9, v10, v11, v12>>
    BY <1>8 DEF R!Select
  <2> HIDE DEF todo
  <2>5. /\ row \in R!Threads /\ row.pc = "fire" /\ row.call = v7[w].call /\ row.todo = todo
    BY <1>1, <2>2 DEF R!Threads, R!Places
  <2>6. v7' = [v7 EXCEPT ![w] = row]
    BY <1>1, <1>4, <2>3 DEF R!Threads
  <2>7. row.call \in 1..MaxEvents /\ v6[row.call].is
    BY <1>3, <1>8, <2>5 DEF R!Select, R!At, R!Telling
  <2> HIDE DEF row
  <2> QED BY <2>2, <2>4, <2>5, <2>6, <2>7, MovesKeep DEF R!Telling
<1>9. CASE R!Send(w)
  <2> DEFINE row == [v7[w] EXCEPT !.pc = "fire", !.rule = R!Unset]
  <2>1. /\ row \in R!Threads /\ row.pc = "fire" /\ row.call = v7[w].call
        /\ row.todo = v7[w].todo
    BY <1>1 DEF R!Threads, R!Places
  <2>2. v7' = [v7 EXCEPT ![w] = row]
    BY <1>1, <1>4, <1>9 DEF R!Send, R!Threads
  <2>3. /\ row.call \in 1..MaxEvents /\ v6[row.call].is
        /\ v7[w].rule \in Automations
    BY <1>3, <1>9, <2>1 DEF R!Send, R!At, R!Telling
  <2>4. /\ UNCHANGED <<v1, v2, v3, v4, v5, v6, v8, v9, v10, v11>>
        /\ v12' \subseteq v12 \cup {<<v7[w].call, v7[w].rule>>}
    BY <1>9 DEF R!Send
  <2> HIDE DEF row
  <2>5. v12' \subseteq v12 \cup ({row.call} \X (Automations \cup {R!Built}))
    BY <2>1, <2>3, <2>4
  <2> QED BY <1>3, <2>1, <2>2, <2>3, <2>4, <2>5, MovesKeep DEF R!Telling
<1> QED BY <1>5, <1>6, <1>7, <1>8, <1>9

\* The event is written, or refused by the foreign key.
LEMMA RecordKeeps ==
    ASSUME R!IInv, NEW w \in Workers, R!Record(w)
    PROVE  R!IInv'
<1> USE RecognitionAssumption
<1>1. /\ v7[w] \in R!Threads /\ v7 \in [Workers -> R!Threads]
      /\ v7[w].call \in 1..MaxEvents
  BY DEF R!IInv, R!TypeOK, R!CallsAreRecorded, R!Record, R!At
<1>2. CASE v7' = [v7 EXCEPT ![w] = R!Idle] /\ UNCHANGED v6
  <2>1. R!Idle \in R!Threads /\ R!Idle.pc = "idle" /\ R!Idle.todo = {}
    BY DEF R!Idle, R!Threads, R!Places
  <2>2. UNCHANGED <<v1, v2, v3, v4, v5, v6, v8, v9, v10, v11, v12>>
    BY <1>2 DEF R!Record
  <2> QED BY <1>2, <2>1, <2>2, MovesKeep DEF R!Telling
<1>3. CASE ~(v7' = [v7 EXCEPT ![w] = R!Idle] /\ UNCHANGED v6)
  <2> DEFINE id == v7[w].match
             written == [is |-> TRUE, id |-> id, named |-> id # R!Unset]
             row == [v7[w] EXCEPT !.pc = "announce"]
  <2>1. /\ v6' = [v6 EXCEPT ![v7[w].call] = written]
        /\ v7' = [v7 EXCEPT ![w].pc = "announce"]
        /\ UNCHANGED <<v1, v2, v3, v4, v5, v8, v9, v10, v11, v12>>
    BY <1>3 DEF R!Record, R!Finish, R!Goto
  <2>2. written \in R!EventRows /\ written.is
    BY <1>1 DEF R!EventRows, R!Threads
  <2>3. /\ row \in R!Threads /\ row.pc = "announce" /\ row.call = v7[w].call
        /\ row.todo = v7[w].todo
    BY <1>1 DEF R!Threads, R!Places
  <2>4. v7' = [v7 EXCEPT ![w] = row]
    BY <1>1, <2>1
  <2> HIDE DEF written, row
  <2>5. v6 \in [1..MaxEvents -> R!EventRows]
    BY DEF R!IInv, R!TypeOK
  <2>6. \A n \in 1..MaxEvents : v6[n].is => v6'[n].is
    BY <2>1, <2>2, <2>5
  <2>7. v6'[v7[w].call].is
    BY <1>1, <2>1, <2>2, <2>5
  <2>8. R!TypeOK'
    BY <1>1, <2>1, <2>2, <2>3, <2>4, <2>5 DEF R!IInv, R!TypeOK
  <2>9. R!CallsAreRecorded'
    BY <1>1, <2>3, <2>4, <2>6, <2>7 DEF R!IInv, R!CallsAreRecorded, R!Telling
  <2>10. R!ToldIsRecorded'
    BY <2>1, <2>6 DEF R!IInv, R!TypeOK, R!ToldIsRecorded
  <2>11. R!LastIsTheLastClaim' /\ R!CooldownKept'
    BY <2>1 DEF R!IInv, R!LastIsTheLastClaim, R!CooldownKept
  <2>12. R!CopiesAgeByEdits'
    BY <1>1, <2>1, <2>3, <2>4 DEF R!IInv, R!CopiesAgeByEdits, R!Aged
  <2> QED BY <2>8, <2>9, <2>10, <2>11, <2>12 DEF R!IInv
<1> QED BY <1>2, <1>3

\* The conditional UPDATE: the last claim of a rested rule is a cooldown ago.
LEMMA ClaimKeeps ==
    ASSUME R!IInv, NEW w \in Workers, R!Claim(w)
    PROVE  R!IInv'
<1> USE RecognitionAssumption
<1>1. PICK copy \in v7[w].todo :
        /\ v7[w].pc = "fire"
        /\ \/ /\ R!Claimable(copy)
              /\ v4' = [v4 EXCEPT ![copy.id].last = v8]
              /\ v11' = [v11 EXCEPT ![copy.id] = Append(@, R!ClaimBy(copy))]
              /\ v7' = [v7 EXCEPT ![w].todo = @ \ {copy}, ![w].pc = "send", ![w].rule = copy.id]
           \/ /\ v7' = [v7 EXCEPT ![w].todo = @ \ {copy}]
              /\ UNCHANGED <<v4, v11>>
        /\ UNCHANGED <<v1, v2, v3, v5, v6, v8, v9, v10, v12>>
  BY DEF R!Claim, R!At
<1>2. /\ v7[w] \in R!Threads /\ v7 \in [Workers -> R!Threads]
      /\ v7[w].call \in 1..MaxEvents /\ v6[v7[w].call].is
      /\ \A other \in v7[w].todo : R!Aged(other)
  BY <1>1 DEF R!IInv, R!TypeOK, R!CallsAreRecorded, R!CopiesAgeByEdits, R!Telling
<1>3. copy \in R!Copies /\ R!Aged(copy)
  BY <1>1, <1>2 DEF R!Threads
<1> DEFINE r == copy.id
           left == [v7[w] EXCEPT !.todo = @ \ {copy}]
           row == [v7[w] EXCEPT !.todo = @ \ {copy}, !.pc = "send", !.rule = r]
<1>4. r \in Automations
  BY <1>3 DEF R!Copies
<1>5. CASE v7' = [v7 EXCEPT ![w].todo = @ \ {copy}] /\ UNCHANGED <<v4, v11>>
  <2>1. /\ left \in R!Threads /\ left.pc = "fire" /\ left.call = v7[w].call
        /\ left.todo \subseteq v7[w].todo
    BY <1>1, <1>2 DEF R!Threads
  <2>2. v7' = [v7 EXCEPT ![w] = left]
    BY <1>2, <1>5
  <2>3. UNCHANGED <<v1, v2, v3, v4, v5, v6, v8, v9, v10, v11, v12>>
    BY <1>1, <1>5
  <2>4. left.call \in 1..MaxEvents /\ v6[left.call].is
    BY <1>2, <2>1
  <2> HIDE DEF left
  <2> QED BY <1>2, <2>1, <2>2, <2>3, <2>4, MovesKeep DEF R!Telling
<1>6. CASE /\ R!Claimable(copy)
           /\ v4' = [v4 EXCEPT ![r].last = v8]
           /\ v11' = [v11 EXCEPT ![r] = Append(@, R!ClaimBy(copy))]
           /\ v7' = [v7 EXCEPT ![w].todo = @ \ {copy}, ![w].pc = "send", ![w].rule = r]
  <2>1. /\ row \in R!Threads /\ row.pc = "send" /\ row.call = v7[w].call /\ row.rule = r
        /\ row.todo \subseteq v7[w].todo
    BY <1>2, <1>4 DEF R!Threads, R!Places
  <2>2. v7' = [v7 EXCEPT ![w] = row]
    BY <1>2, <1>6 DEF R!Threads
  <2> HIDE DEF row
  <2>3. /\ v8 \in 0..MaxClock /\ v8 \in R!Times
        /\ v4 \in [Automations -> R!RuleRows]
        /\ v11 \in [Automations -> Seq(R!Claims)]
    BY DEF R!IInv, R!TypeOK, R!Times
  <2> DEFINE claimed == [v4[r] EXCEPT !.last = v8]
             old == v11[r]
             claim == R!ClaimBy(copy)
             new == Append(old, claim)
  <2>4. /\ claimed \in R!RuleRows /\ claimed.last = v8 /\ claimed.is = v4[r].is
        /\ claimed.saved = v4[r].saved /\ claimed.cooldown = v4[r].cooldown
    BY <1>4, <2>3 DEF R!RuleRows
  <2>17. /\ claim \in R!Claims /\ claim.at = v8 /\ claim.by = copy.cooldown
         /\ claim.own = v4[r].cooldown /\ (claim.edited <=> v4[r].saved # copy.saved)
    BY <1>3, <1>4, <2>3 DEF R!ClaimBy, R!Claims, R!Copies, R!RuleRows
  <2> HIDE DEF claim
  <2>5. v4' = [v4 EXCEPT ![r] = claimed] /\ v11' = [v11 EXCEPT ![r] = new]
    BY <1>6, <2>3 DEF claim
  <2>6. /\ old \in Seq(R!Claims) /\ new \in Seq(R!Claims)
        /\ Len(old) \in Nat /\ Len(new) = Len(old) + 1 /\ new[Len(new)] = claim
        /\ \A n \in 1..Len(old) : new[n] = old[n]
        /\ new # <<>>
    <3>1. old \in Seq(R!Claims)
      BY <1>4, <2>3
    <3> HIDE DEF old
    <3>2. /\ new \in Seq(R!Claims) /\ Len(new) = Len(old) + 1 /\ new[Len(new)] = claim
          /\ \A n \in 1..Len(old) : new[n] = old[n]
      BY <2>17, <3>1
    <3>3. Len(old) \in Nat
      BY <3>1
    <3>4. new # <<>>
      BY <3>2, <3>3
    <3> QED BY <3>1, <3>2, <3>3, <3>4
  <2>7. v4[r].is = "there" /\ R!Rested(v4[r].last, copy.cooldown)
    BY <1>6 DEF R!Claimable, R!There
  <2>8. old # <<>> => v4[r].last = old[Len(old)].at
    BY <1>4 DEF R!IInv, R!LastIsTheLastClaim
  <2>9. \A n \in 1..(Len(old) - 1) : R!Spaced(old[n], old[n + 1])
    BY <1>4 DEF R!IInv, R!CooldownKept
  <2>18. \A q \in Automations : v4'[q].saved = v4[q].saved /\ v4'[q].cooldown = v4[q].cooldown
    BY <1>4, <2>3, <2>4, <2>5
  <2>10. Len(old) > 0 => R!Spaced(old[Len(old)], claim)
    <3> SUFFICES ASSUME Len(old) > 0 PROVE R!Spaced(old[Len(old)], claim)
      OBVIOUS
    <3> DEFINE before == old[Len(old)]
    <3>1. old # <<>> /\ before \in R!Claims /\ before.at \in 0..MaxClock
      <4>1. before \in R!Claims
        BY <2>6
      <4> QED BY <2>6, <4>1 DEF R!Claims
    <3>2. v4[r].last = before.at
      BY <2>8, <3>1
    <3> HIDE DEF before, old
    <3>3. v4[r].last # R!Never
      BY <3>1, <3>2 DEF R!Never
    <3>4. before.at + copy.cooldown <= v8
      BY <2>7, <3>2, <3>3 DEF R!Rested
    <3>5. ~claim.edited => claim.own = copy.cooldown
      BY <1>3, <2>17 DEF R!Aged
    <3>6. R!Spaced(before, claim)
      BY <2>17, <3>4, <3>5 DEF R!Spaced
    <3> QED BY <3>6 DEF before
  <2> HIDE DEF claimed, old, new
  <2>11. \A n \in 1..(Len(new) - 1) : R!Spaced(new[n], new[n + 1])
    <3> SUFFICES ASSUME NEW n \in 1..Len(old) PROVE R!Spaced(new[n], new[n + 1])
      BY <2>6
    <3>1. CASE n = Len(old)
      BY <2>6, <2>10, <3>1
    <3>2. CASE n < Len(old)
      <4>1. n \in 1..(Len(old) - 1) /\ n + 1 \in 1..Len(old)
        BY <2>6, <3>2
      <4> QED BY <2>6, <2>9, <4>1
    <3> QED BY <2>6, <3>1, <3>2
  <2>12. R!TypeOK'
    BY <1>1, <2>1, <2>2, <2>3, <2>4, <2>5, <2>6 DEF R!IInv, R!TypeOK
  <2>13. R!LastIsTheLastClaim'
    <3> SUFFICES ASSUME NEW q \in Automations
                 PROVE  /\ v11'[q] = <<>> => v4'[q].last = R!Never
                        /\ v11'[q] # <<>> => v4'[q].last = v11'[q][Len(v11'[q])].at
                        /\ v4'[q].is = "unused" => v11'[q] = <<>>
      BY DEF R!LastIsTheLastClaim
    <3>1. CASE q = r
      BY <1>4, <2>3, <2>4, <2>5, <2>6, <2>7, <2>17, <3>1
    <3>2. CASE q # r
      BY <2>3, <2>5, <3>2 DEF R!IInv, R!LastIsTheLastClaim
    <3> QED BY <3>1, <3>2
  <2>14. R!CooldownKept'
    <3> SUFFICES ASSUME NEW q \in Automations
                 PROVE  \A n \in 1..(Len(v11'[q]) - 1) : R!Spaced(v11'[q][n], v11'[q][n + 1])
      BY DEF R!CooldownKept, R!Spaced
    <3>1. CASE q = r
      BY <1>4, <2>3, <2>5, <2>11, <3>1
    <3>2. CASE q # r
      BY <2>3, <2>5, <3>2 DEF R!IInv, R!CooldownKept
    <3> QED BY <3>1, <3>2
  <2>15. R!CallsAreRecorded'
    BY <1>1, <1>2, <1>4, <2>1, <2>2 DEF R!IInv, R!CallsAreRecorded
  <2>16. R!ToldIsRecorded'
    BY <1>1 DEF R!IInv, R!ToldIsRecorded
  <2>19. R!CopiesAgeByEdits'
    <3>1. \A t \in Workers : v7'[t].todo \subseteq v7[t].todo
      BY <1>2, <2>1, <2>2
    <3>2. \A t \in Workers : \A other \in v7[t].todo : other.id \in Automations
      BY <1>2 DEF R!Threads, R!Copies
    <3>3. /\ \A q \in Automations : v4[q].saved <= v10
          /\ \A t \in Workers : \A other \in v7[t].todo : R!Aged(other)
      BY DEF R!IInv, R!CopiesAgeByEdits
    <3> QED BY <1>1, <2>18, <3>1, <3>2, <3>3 DEF R!CopiesAgeByEdits, R!Aged
  <2> QED BY <2>12, <2>13, <2>14, <2>15, <2>16, <2>19 DEF R!IInv
<1> QED BY <1>1, <1>5, <1>6

\* A page writes no claim, takes no event out of the table, and gives no time
\* to a rule but NULL to one that is new.
LEMMA PagesKeep ==
    ASSUME R!IInv, R!Edit, UNCHANGED v11,
           v2' \in [enabled : BOOLEAN, mode : R!Modes],
           v3' \in [Ids -> Looks \cup {R!Unused, R!Removed}],
           v4' \in [Automations -> R!RuleRows],
           v5' \in {"on", "quiet", "off", "gone"},
           v6' \in [1..MaxEvents -> R!EventRows],
           \A n \in 1..MaxEvents : v6'[n].is = v6[n].is,
           \A r \in Automations :
               /\ \/ v4'[r].last = v4[r].last
                  \/ v4[r].is = "unused" /\ v4'[r].last = R!Never
               /\ v4'[r].is = "unused" => v4[r].is = "unused"
               /\ \/ v4'[r].saved = v4[r].saved /\ v4'[r].cooldown = v4[r].cooldown
                  \/ v4'[r].saved = v10 + 1
    PROVE  R!IInv'
<1> USE RecognitionAssumption DEF R!IInv, R!Edit
<1>1. v10' \in 0..MaxEdits
  BY DEF R!TypeOK
<1>2. R!TypeOK'
  BY <1>1 DEF R!TypeOK
<1>3. R!LastIsTheLastClaim'
  BY DEF R!LastIsTheLastClaim
<1>4. R!CallsAreRecorded'
  BY DEF R!CallsAreRecorded, R!Telling
<1>5. R!ToldIsRecorded'
  BY DEF R!TypeOK, R!ToldIsRecorded
<1>6. R!CooldownKept'
  BY DEF R!CooldownKept
<1>7. R!CopiesAgeByEdits'
  <2>1. ASSUME NEW r \in Automations
        PROVE  /\ v4[r].saved \in Nat /\ v4[r].saved <= v10 /\ v10 \in Nat
               /\ v4'[r].saved <= v10 + 1 /\ v4[r].saved <= v4'[r].saved
               /\ v4'[r].saved = v4[r].saved => v4'[r].cooldown = v4[r].cooldown
    <3>1. v4[r].saved \in Nat /\ v4[r].saved <= v10 /\ v10 \in Nat
      BY DEF R!TypeOK, R!RuleRows, R!CopiesAgeByEdits
    <3> QED BY <3>1
  <2>2. ASSUME NEW t \in Workers, NEW copy \in v7[t].todo
        PROVE  copy.id \in Automations /\ copy.saved \in Nat /\ R!Aged(copy)
    <3>1. v7[t] \in R!Threads
      BY DEF R!TypeOK
    <3>2. copy \in R!Copies
      BY <3>1 DEF R!Threads
    <3> QED BY <3>2 DEF R!Copies, R!CopiesAgeByEdits
  <2>3. ASSUME NEW t \in Workers, NEW copy \in v7[t].todo
        PROVE  R!Aged(copy)'
    BY <2>1, <2>2 DEF R!Aged
  <2> QED BY <2>1, <2>3 DEF R!CopiesAgeByEdits
<1> QED BY <1>2, <1>3, <1>4, <1>5, <1>6, <1>7

LEMMA PageKeeps ==
    ASSUME R!IInv,
           \/ \E enabled \in BOOLEAN, mode \in R!Modes : R!SaveSettings(enabled, mode)
           \/ \E i \in Ids :
                 \/ \E look \in Looks :
                       R!EnrolFace(i, look) \/ R!EnrolPlate(i, look) \/ R!Retype(i, look)
                 \/ R!ForgetFace(i) \/ R!ForgetPlate(i)
           \/ \E r \in Automations, scope \in R!Identities, cooldown \in Cooldowns :
                 \/ R!CreateRule(r, scope, cooldown)
                 \/ \E enabled \in BOOLEAN : R!UpdateRule(r, enabled, scope, cooldown)
           \/ \E r \in Automations : R!DeleteRule(r)
           \/ \E state \in {"on", "quiet", "off"} : R!UpdateChannel(state)
           \/ R!DeleteChannel
    PROVE  R!IInv'
<1> USE RecognitionAssumption
<1>1. /\ v2 \in [enabled : BOOLEAN, mode : R!Modes]
      /\ v3 \in [Ids -> Looks \cup {R!Unused, R!Removed}]
      /\ v4 \in [Automations -> R!RuleRows]
      /\ v5 \in {"on", "quiet", "off", "gone"}
      /\ v6 \in [1..MaxEvents -> R!EventRows]
  BY DEF R!IInv, R!TypeOK
<1>2. CASE \E enabled \in BOOLEAN, mode \in R!Modes : R!SaveSettings(enabled, mode)
  BY <1>1, <1>2, PagesKeep DEF R!SaveSettings
<1>3. ASSUME NEW i \in Ids, NEW look \in Looks, R!Enrol("face", i, look) \/ R!Enrol("plate", i, look) \/ R!Retype(i, look)
      PROVE  R!IInv'
  <2>1. /\ R!Edit /\ UNCHANGED <<v2, v4, v5, v6, v11>>
        /\ v3' = [v3 EXCEPT ![i] = look]
    BY <1>3 DEF R!Enrol, R!Retype
  <2>2. v3' \in [Ids -> Looks \cup {R!Unused, R!Removed}]
    BY <1>1, <2>1
  <2> QED BY <1>1, <2>1, <2>2, PagesKeep
<1>4. ASSUME NEW i \in Ids, R!Forget("face", i) \/ R!Forget("plate", i)
      PROVE  R!IInv'
  <2>1. /\ R!Edit /\ UNCHANGED <<v2, v5, v11>>
        /\ v3' = [v3 EXCEPT ![i] = R!Removed]
        /\ v6' = [n \in DOMAIN v6 |->
                     IF v6[n].id = i THEN [v6[n] EXCEPT !.id = R!Unset] ELSE v6[n]]
        /\ v4' = [r \in Automations |->
                     IF v4[r].scope = i THEN [v4[r] EXCEPT !.scope = R!Unset] ELSE v4[r]]
    BY <1>4 DEF R!Forget
  <2>2. v3' \in [Ids -> Looks \cup {R!Unused, R!Removed}]
    BY <1>1, <2>1
  <2>3. DOMAIN v6 = 1..MaxEvents
    BY <1>1
  <2>4. ASSUME NEW n \in 1..MaxEvents
        PROVE  v6'[n] \in R!EventRows /\ v6'[n].is = v6[n].is
    BY <1>1, <2>1, <2>3 DEF R!EventRows
  <2>5. ASSUME NEW r \in Automations
        PROVE  /\ v4'[r] \in R!RuleRows /\ v4'[r].last = v4[r].last /\ v4'[r].is = v4[r].is
               /\ v4'[r].saved = v4[r].saved /\ v4'[r].cooldown = v4[r].cooldown
    BY <1>1, <2>1 DEF R!RuleRows
  <2>6. v6' \in [1..MaxEvents -> R!EventRows]
    BY <2>1, <2>3, <2>4
  <2>7. v4' \in [Automations -> R!RuleRows]
    BY <2>1, <2>5
  <2> QED BY <1>1, <2>1, <2>2, <2>4, <2>5, <2>6, <2>7, PagesKeep
<1>5. ASSUME NEW r \in Automations, NEW row \in R!RuleRows,
             R!Edit, UNCHANGED <<v2, v3, v5, v6, v11>>, v4' = [v4 EXCEPT ![r] = row],
             row.last = v4[r].last \/ (v4[r].is = "unused" /\ row.last = R!Never),
             row.is # "unused",
             \/ row.saved = v4[r].saved /\ row.cooldown = v4[r].cooldown
             \/ row.saved = v10 + 1
      PROVE  R!IInv'
  <2>1. v4' \in [Automations -> R!RuleRows]
    BY <1>1, <1>5
  <2>2. \A q \in Automations :
           /\ \/ v4'[q].last = v4[q].last
              \/ v4[q].is = "unused" /\ v4'[q].last = R!Never
           /\ v4'[q].is = "unused" => v4[q].is = "unused"
           /\ \/ v4'[q].saved = v4[q].saved /\ v4'[q].cooldown = v4[q].cooldown
              \/ v4'[q].saved = v10 + 1
    BY <1>1, <1>5
  <2> QED BY <1>1, <1>5, <2>1, <2>2, PagesKeep
<1>6. ASSUME NEW r \in Automations, NEW scope \in R!Identities, NEW cooldown \in Cooldowns,
             \/ R!CreateRule(r, scope, cooldown)
             \/ \E enabled \in BOOLEAN : R!UpdateRule(r, enabled, scope, cooldown)
      PROVE  R!IInv'
  <2>1. scope \in Ids \cup {R!Unset, R!Nobody}
    BY DEF R!Identities
  <2>4. R!Edit /\ v10 + 1 \in 0..MaxEdits
    <3>1. v10 \in 0..MaxEdits
      BY DEF R!IInv, R!TypeOK
    <3>2. R!Edit
      BY <1>6 DEF R!CreateRule, R!UpdateRule
    <3> QED BY <3>1, <3>2 DEF R!Edit
  <2>2. CASE R!CreateRule(r, scope, cooldown)
    <3> DEFINE row == [is |-> "there", enabled |-> TRUE, scope |-> scope, last |-> R!Never,
                       cooldown |-> cooldown, saved |-> v10 + 1]
    <3>1. row \in R!RuleRows /\ row.is # "unused" /\ row.last = R!Never /\ row.saved = v10 + 1
      BY <2>1, <2>4 DEF R!RuleRows, R!Times
    <3>2. /\ R!Edit /\ UNCHANGED <<v2, v3, v5, v6, v11>> /\ v4' = [v4 EXCEPT ![r] = row]
          /\ v4[r].is = "unused"
      BY <2>2 DEF R!CreateRule
    <3> HIDE DEF row
    <3> QED BY <1>5, <3>1, <3>2
  <2>3. ASSUME NEW enabled \in BOOLEAN, R!UpdateRule(r, enabled, scope, cooldown)
        PROVE  R!IInv'
    <3> DEFINE row == [v4[r] EXCEPT !.enabled = enabled, !.scope = scope,
                                    !.cooldown = cooldown, !.saved = v10 + 1]
    <3>1. /\ R!Edit /\ UNCHANGED <<v2, v3, v5, v6, v11>>
          /\ v4' = [v4 EXCEPT ![r] = row]
          /\ v4[r].is = "there"
      BY <2>3 DEF R!UpdateRule, R!There
    <3>2. v4[r] \in R!RuleRows
      BY <1>1
    <3>3. /\ row \in R!RuleRows /\ row.is = "there" /\ row.last = v4[r].last
          /\ row.saved = v10 + 1
      BY <2>1, <2>4, <3>1, <3>2 DEF R!RuleRows
    <3> HIDE DEF row
    <3> QED BY <1>5, <3>1, <3>3
  <2> QED BY <1>6, <2>2, <2>3
<1>7. ASSUME NEW r \in Automations, R!DeleteRule(r)
      PROVE  R!IInv'
  <2> DEFINE row == [v4[r] EXCEPT !.is = "gone"]
  <2>1. /\ row \in R!RuleRows /\ row.is # "unused" /\ row.last = v4[r].last
        /\ row.saved = v4[r].saved /\ row.cooldown = v4[r].cooldown
    BY <1>1 DEF R!RuleRows
  <2>2. R!Edit /\ UNCHANGED <<v2, v3, v5, v6, v11>> /\ v4' = [v4 EXCEPT ![r] = row]
    BY <1>1, <1>7 DEF R!DeleteRule
  <2> HIDE DEF row
  <2> QED BY <1>5, <2>1, <2>2
<1>8. CASE \E state \in {"on", "quiet", "off"} : R!UpdateChannel(state)
  BY <1>1, <1>8, PagesKeep DEF R!UpdateChannel
<1>9. CASE R!DeleteChannel
  <2>1. /\ R!Edit /\ UNCHANGED <<v2, v3, v6, v11>> /\ v5' = "gone"
        /\ v4' = [r \in Automations |->
                     IF R!There(r) THEN [v4[r] EXCEPT !.is = "gone"] ELSE v4[r]]
    BY <1>9 DEF R!DeleteChannel
  <2>2. ASSUME NEW r \in Automations
        PROVE  /\ v4'[r] \in R!RuleRows /\ v4'[r].last = v4[r].last
               /\ v4'[r].is = "unused" => v4[r].is = "unused"
               /\ v4'[r].saved = v4[r].saved /\ v4'[r].cooldown = v4[r].cooldown
    BY <1>1, <2>1 DEF R!RuleRows
  <2>3. v4' \in [Automations -> R!RuleRows]
    BY <2>1, <2>2
  <2> QED BY <1>1, <2>1, <2>2, <2>3, PagesKeep
<1> QED BY <1>2, <1>3, <1>4, <1>6, <1>7, <1>8, <1>9
    DEF R!EnrolFace, R!EnrolPlate, R!ForgetFace, R!ForgetPlate

LEMMA TickKeeps ==
    ASSUME R!IInv, R!Tick \/ UNCHANGED R!recognitionVars
    PROVE  R!IInv'
<1> USE RecognitionAssumption DEF R!IInv, R!Tick, R!recognitionVars
<1>1. v8' \in 0..MaxClock
  BY DEF R!TypeOK
<1>2. UNCHANGED <<v1, v2, v3, v4, v5, v6, v7, v9, v10, v11, v12>>
  OBVIOUS
<1>3. R!TypeOK'
  BY <1>1, <1>2 DEF R!TypeOK
<1>4. R!LastIsTheLastClaim' /\ R!CallsAreRecorded' /\ R!CooldownKept' /\ R!ToldIsRecorded'
  BY <1>2 DEF R!LastIsTheLastClaim, R!CallsAreRecorded, R!CooldownKept, R!ToldIsRecorded
<1>5. R!CopiesAgeByEdits'
  BY <1>2 DEF R!CopiesAgeByEdits, R!Aged
<1> QED BY <1>3, <1>4, <1>5

LEMMA RecognitionStep == R!IInv /\ (R!Next \/ UNCHANGED R!recognitionVars) => R!IInv'
<1> SUFFICES ASSUME R!IInv, R!Next \/ UNCHANGED R!recognitionVars PROVE R!IInv'
  OBVIOUS
<1> QED BY StartKeeps, CallKeeps, RecordKeeps, ClaimKeeps, PageKeeps, TickKeeps DEF R!Next

-----------------------------------------------------------------------------
(* The geometry of a line.                                                 *)

LEMMA Opposite ==
    ASSUME NEW a \in Int, NEW b \in Int, NEW m \in Int, NEW n \in Int,
           m > 0, n > 0, a * m = b * n, a * b <= 0
    PROVE  a = 0 /\ b = 0
<1>1. CASE a > 0
  <2>1. a * m > 0
    BY <1>1
  <2>2. b > 0
    BY <2>1
  <2>3. a * b > 0
    BY <1>1, <2>2
  <2> QED BY <2>3
<1>2. CASE a < 0
  <2>1. a * m < 0
    BY <1>2
  <2>2. b < 0
    BY <2>1
  <2>3. a * b > 0
    BY <1>2, <2>2
  <2> QED BY <2>3
<1>3. CASE a = 0
  <2>1. b * n = 0
    BY <1>3
  <2> QED BY <1>3, <2>1
<1> QED BY <1>1, <1>2, <1>3

LEMMA SameSide ==
    ASSUME NEW mx \in Int, NEW my \in Int, NEW ux \in Int, NEW uy \in Int,
           NEW vx \in Int, NEW vy \in Int,
           ux * vy = uy * vx, ux * vx <= 0, uy * vy <= 0,
           mx * uy - my * ux > 0, mx * vy - my * vx > 0
    PROVE  FALSE
<1> DEFINE m == mx * uy - my * ux
           n == mx * vy - my * vx
<1>1. ux * n = vx * m
  <2>1. ux * n = mx * (ux * vy) - my * ux * vx
    OBVIOUS
  <2>2. vx * m = mx * (uy * vx) - my * ux * vx
    OBVIOUS
  <2> QED BY <2>1, <2>2
<1>2. uy * n = vy * m
  <2>1. uy * n = mx * uy * vy - my * (uy * vx)
    OBVIOUS
  <2>2. vy * m = mx * uy * vy - my * (ux * vy)
    OBVIOUS
  <2> QED BY <2>1, <2>2
<1>3. m \in Int /\ n \in Int /\ m > 0 /\ n > 0
  OBVIOUS
<1>4. m = mx * uy - my * ux
  OBVIOUS
<1> HIDE DEF m, n
<1>5. ux = 0
  BY <1>1, <1>3, Opposite
<1>6. uy = 0
  BY <1>2, <1>3, Opposite
<1>7. m = 0
  BY <1>4, <1>5, <1>6
<1> QED BY <1>3, <1>7

LEMMA Corners ==
    ASSUME NEW p \in T!Points
    PROVE  /\ T!X(p) \in Int /\ T!Y(p) \in Int
           /\ 0 <= T!X(p) /\ T!X(p) <= Side - 1 /\ 0 <= T!Y(p) /\ T!Y(p) <= Side - 1
BY TrackingAssumption DEF T!Points, T!X, T!Y

LEMMA PairBounds ==
    ASSUME NEW a \in Int, NEW b \in Int
    PROVE  /\ T!Min({a, b}) \in {a, b} /\ T!Min({a, b}) <= a /\ T!Min({a, b}) <= b
           /\ T!Max({a, b}) \in {a, b} /\ T!Max({a, b}) >= a /\ T!Max({a, b}) >= b
<1>1. \E x \in {a, b} : \A y \in {a, b} : x <= y
  OBVIOUS
<1>2. \E x \in {a, b} : \A y \in {a, b} : x >= y
  OBVIOUS
<1>3. T!Min({a, b}) \in {a, b} /\ \A y \in {a, b} : T!Min({a, b}) <= y
  BY <1>1 DEF T!Min
<1>4. T!Max({a, b}) \in {a, b} /\ \A y \in {a, b} : T!Max({a, b}) >= y
  BY <1>2 DEF T!Max
<1> QED BY <1>3, <1>4

\* A coordinate in the box of two others lies between them.
LEMMA Between ==
    ASSUME NEW a \in Int, NEW b \in Int, NEW c \in Int,
           T!Min({a, b}) <= c, c <= T!Max({a, b})
    PROVE  (a - c) * (b - c) <= 0
<1>1. (a <= c /\ c <= b) \/ (b <= c /\ c <= a)
  BY PairBounds
<1>2. CASE a <= c /\ c <= b
  <2>1. a - c <= 0 /\ b - c >= 0
    BY <1>2
  <2> QED BY <2>1
<1>3. CASE b <= c /\ c <= a
  <2>1. a - c >= 0 /\ b - c <= 0
    BY <1>3
  <2> QED BY <2>1
<1> QED BY <1>1, <1>2, <1>3

\* A point on the segment p-q is not on the far side of a line that has p and
\* q strictly on one side.  d is the direction of the line, c the point.
LEMMA NotReached ==
    ASSUME NEW p \in T!Points, NEW q \in T!Points, NEW c \in T!Points,
           NEW dx \in Int, NEW dy \in Int,
           T!Turn(p, q, c) = 0, T!OnSegment(p, c, q),
           \/ /\ dx * (T!Y(p) - T!Y(c)) - dy * (T!X(p) - T!X(c)) > 0
              /\ dx * (T!Y(q) - T!Y(c)) - dy * (T!X(q) - T!X(c)) > 0
           \/ /\ dx * (T!Y(p) - T!Y(c)) - dy * (T!X(p) - T!X(c)) < 0
              /\ dx * (T!Y(q) - T!Y(c)) - dy * (T!X(q) - T!X(c)) < 0
    PROVE  FALSE
<1> DEFINE px == T!X(p)  py == T!Y(p)  qx == T!X(q)  qy == T!Y(q)  cx == T!X(c)  cy == T!Y(c)
           ux == px - cx  uy == py - cy  vx == qx - cx  vy == qy - cy
<1>1. px \in Int /\ py \in Int /\ qx \in Int /\ qy \in Int /\ cx \in Int /\ cy \in Int
  BY Corners
<1>2. (qx - px) * (cy - py) - (qy - py) * (cx - px) = 0
  BY DEF T!Turn
<1>3. /\ T!Min({px, qx}) <= cx /\ cx <= T!Max({px, qx})
      /\ T!Min({py, qy}) <= cy /\ cy <= T!Max({py, qy})
  BY DEF T!OnSegment
<1>4. ux * vx <= 0 /\ uy * vy <= 0
  BY <1>1, <1>3, Between
<1> HIDE DEF px, py, qx, qy, cx, cy
<1>5. (qx - px) * (cy - py) - (qy - py) * (cx - px) = ux * vy - uy * vx
  BY <1>1
<1>6. /\ ux \in Int /\ uy \in Int /\ vx \in Int /\ vy \in Int
      /\ ux * vy = uy * vx
  BY <1>1, <1>2, <1>5
<1>7. \/ dx * uy - dy * ux > 0 /\ dx * vy - dy * vx > 0
      \/ dx * uy - dy * ux < 0 /\ dx * vy - dy * vx < 0
  BY DEF px, py, qx, qy, cx, cy
<1> HIDE DEF ux, uy, vx, vy
<1>8. CASE dx * uy - dy * ux > 0 /\ dx * vy - dy * vx > 0
  BY <1>4, <1>6, <1>8, SameSide
<1>9. CASE dx * uy - dy * ux < 0 /\ dx * vy - dy * vx < 0
  <2>1. -dx \in Int /\ -dy \in Int
    OBVIOUS
  <2>2. (-dx) * uy - (-dy) * ux > 0 /\ (-dx) * vy - (-dy) * vx > 0
    BY <1>6, <1>9
  <2> QED BY <1>4, <1>6, <2>1, <2>2, SameSide
<1> QED BY <1>7, <1>8, <1>9

\* What lies strictly on one side does not meet what lies on the other,
\* whatever the weights.
LEMMA Weights ==
    ASSUME NEW a \in Nat, NEW b \in Nat, NEW c \in Nat, NEW d \in Nat,
           a + b = c + d, a + b > 0,
           NEW f1 \in Int, NEW f2 \in Int, NEW f3 \in Int, NEW f4 \in Int,
           f1 < f3, f1 < f4, f2 < f3, f2 < f4,
           a * f4 + b * f3 = c * f1 + d * f2
    PROVE  FALSE
<1>1. PICK m \in Int : f1 <= m /\ f2 <= m /\ m + 1 <= f3 /\ m + 1 <= f4
  <2>1. CASE f1 <= f2
    BY <2>1
  <2>2. CASE f2 <= f1
    BY <2>2
  <2> QED BY <2>1, <2>2
<1>2. \A k \in Nat, x, y \in Int : x <= y => k * x <= k * y
  OBVIOUS
<1>3. c * f1 <= c * m /\ d * f2 <= d * m /\ a * (m + 1) <= a * f4 /\ b * (m + 1) <= b * f3
  BY <1>1, <1>2
<1>4. /\ a * (m + 1) + b * (m + 1) = (a + b) * m + (a + b)
      /\ c * m + d * m = (a + b) * m
  <2>1. c * m + d * m = (c + d) * m
    OBVIOUS
  <2>2. a * (m + 1) + b * (m + 1) = (a + b) * m + (a + b)
    OBVIOUS
  <2> QED BY <2>1, <2>2
<1>5. /\ a * f4 \in Int /\ b * f3 \in Int /\ c * f1 \in Int /\ d * f2 \in Int
      /\ a * (m + 1) \in Int /\ b * (m + 1) \in Int /\ c * m \in Int /\ d * m \in Int
      /\ (a + b) * m \in Int
  OBVIOUS
<1> QED BY <1>3, <1>4, <1>5

\* How far a point is along a direction, in coordinates.
LEMMA AlongIs ==
    ASSUME NEW n \in T!Normals, NEW p \in T!Points
    PROVE  /\ n[1] \in Int /\ n[2] \in Int /\ T!Along(n, p) \in Int
           /\ T!Along(n, p) = n[1] * T!X(p) + n[2] * T!Y(p)
BY Corners, TrackingAssumption DEF T!Normals, T!Along, T!X, T!Y

LEMMA TurnIs ==
    ASSUME NEW p \in T!Points, NEW q \in T!Points, NEW r \in T!Points
    PROVE  /\ T!Turn(p, q, r) \in Int
           /\ T!Turn(p, q, r) = (T!X(q) - T!X(p)) * (T!Y(r) - T!Y(p))
                                - (T!Y(q) - T!Y(p)) * (T!X(r) - T!X(p))
BY Corners DEF T!Turn

\* The four turns are the weights of the point in which the lines meet.
LEMMA MeetingPoint ==
    ASSUME NEW p1 \in T!Points, NEW p2 \in T!Points, NEW p3 \in T!Points, NEW p4 \in T!Points,
           NEW n \in T!Normals
    PROVE  LET o1 == T!Turn(p1, p2, p3)  o2 == T!Turn(p1, p2, p4)
               o3 == T!Turn(p3, p4, p1)  o4 == T!Turn(p3, p4, p2)
           IN  /\ o1 - o2 = o4 - o3
               /\ o1 * T!Along(n, p4) - o2 * T!Along(n, p3) = o4 * T!Along(n, p1) - o3 * T!Along(n, p2)
<1> DEFINE x1 == T!X(p1)  y1 == T!Y(p1)  x2 == T!X(p2)  y2 == T!Y(p2)
           x3 == T!X(p3)  y3 == T!Y(p3)  x4 == T!X(p4)  y4 == T!Y(p4)
           u == n[1]  v == n[2]
           o1 == T!Turn(p1, p2, p3)  o2 == T!Turn(p1, p2, p4)
           o3 == T!Turn(p3, p4, p1)  o4 == T!Turn(p3, p4, p2)
<1>1. /\ x1 \in Int /\ y1 \in Int /\ x2 \in Int /\ y2 \in Int
      /\ x3 \in Int /\ y3 \in Int /\ x4 \in Int /\ y4 \in Int /\ u \in Int /\ v \in Int
  BY Corners, AlongIs
<1>2. /\ o1 = (x2 - x1) * (y3 - y1) - (y2 - y1) * (x3 - x1)
      /\ o2 = (x2 - x1) * (y4 - y1) - (y2 - y1) * (x4 - x1)
      /\ o3 = (x4 - x3) * (y1 - y3) - (y4 - y3) * (x1 - x3)
      /\ o4 = (x4 - x3) * (y2 - y3) - (y4 - y3) * (x2 - x3)
  BY TurnIs
<1>3. /\ T!Along(n, p1) = u * x1 + v * y1 /\ T!Along(n, p2) = u * x2 + v * y2
      /\ T!Along(n, p3) = u * x3 + v * y3 /\ T!Along(n, p4) = u * x4 + v * y4
  BY AlongIs
<1> HIDE DEF x1, y1, x2, y2, x3, y3, x4, y4, u, v, o1, o2, o3, o4
<1>4. o1 - o2 = o4 - o3
  BY <1>1, <1>2
<1>5. o1 * x4 - o2 * x3 = o4 * x1 - o3 * x2
  BY <1>1, <1>2
<1>6. o1 * y4 - o2 * y3 = o4 * y1 - o3 * y2
  BY <1>1, <1>2
<1>7. o1 \in Int /\ o2 \in Int /\ o3 \in Int /\ o4 \in Int
  BY <1>1, <1>2
<1>8. /\ o1 * (u * x4 + v * y4) - o2 * (u * x3 + v * y3) = u * (o1 * x4 - o2 * x3) + v * (o1 * y4 - o2 * y3)
      /\ o4 * (u * x1 + v * y1) - o3 * (u * x2 + v * y2) = u * (o4 * x1 - o3 * x2) + v * (o4 * y1 - o3 * y2)
  BY <1>1, <1>7
<1>9. o1 * T!Along(n, p4) - o2 * T!Along(n, p3) = o4 * T!Along(n, p1) - o3 * T!Along(n, p2)
  BY <1>3, <1>5, <1>6, <1>8
<1> QED BY <1>4, <1>9 DEF o1, o2, o3, o4

LEMMA SignIs ==
    ASSUME NEW n \in Int
    PROVE  /\ T!Sign(n) = 1 <=> n > 0
           /\ T!Sign(n) = -1 <=> n < 0
           /\ T!Sign(n) = 0 <=> n = 0
           /\ T!Sign(n) \in {-1, 0, 1}
BY DEF T!Sign

\* Segments that meet are not apart.
LEMMA MeetingIsNotApart ==
    ASSUME NEW p1 \in T!Points, NEW p2 \in T!Points, NEW p3 \in T!Points, NEW p4 \in T!Points,
           T!SegmentsIntersect(p1, p2, p3, p4)
    PROVE  ~T!Apart(p1, p2, p3, p4)
<1> DEFINE o1 == T!Turn(p1, p2, p3)  o2 == T!Turn(p1, p2, p4)
           o3 == T!Turn(p3, p4, p1)  o4 == T!Turn(p3, p4, p2)
<1> SUFFICES ASSUME NEW n \in T!Normals,
                    \A p \in {p1, p2}, q \in {p3, p4} : T!Along(n, p) < T!Along(n, q)
             PROVE  FALSE
  BY DEF T!Apart
<1> DEFINE f1 == T!Along(n, p1)  f2 == T!Along(n, p2)  f3 == T!Along(n, p3)  f4 == T!Along(n, p4)
<1>1. /\ f1 \in Int /\ f2 \in Int /\ f3 \in Int /\ f4 \in Int
      /\ f1 < f3 /\ f1 < f4 /\ f2 < f3 /\ f2 < f4
  BY AlongIs
<1>2. o1 \in Int /\ o2 \in Int /\ o3 \in Int /\ o4 \in Int
  BY TurnIs
<1>3. o1 - o2 = o4 - o3 /\ o1 * f4 - o2 * f3 = o4 * f1 - o3 * f2
  BY MeetingPoint
<1>4. \/ T!Sign(o1) # T!Sign(o2) /\ T!Sign(o3) # T!Sign(o4)
      \/ o1 = 0 /\ T!OnSegment(p1, p3, p2)
      \/ o2 = 0 /\ T!OnSegment(p1, p4, p2)
      \/ o3 = 0 /\ T!OnSegment(p3, p1, p4)
      \/ o4 = 0 /\ T!OnSegment(p3, p2, p4)
  BY <1>2, SignIs DEF T!SegmentsIntersect
<1>5. ASSUME NEW p \in T!Points, NEW q \in T!Points, NEW c \in T!Points,
             T!Turn(p, q, c) = 0, T!OnSegment(p, c, q),
             \/ T!Along(n, p) < T!Along(n, c) /\ T!Along(n, q) < T!Along(n, c)
             \/ T!Along(n, p) > T!Along(n, c) /\ T!Along(n, q) > T!Along(n, c)
      PROVE  FALSE
  <2> DEFINE dx == n[2]  dy == -n[1]
             px == T!X(p)  py == T!Y(p)  qx == T!X(q)  qy == T!Y(q)  cx == T!X(c)  cy == T!Y(c)
  <2>1. /\ px \in Int /\ py \in Int /\ qx \in Int /\ qy \in Int /\ cx \in Int /\ cy \in Int
        /\ n[1] \in Int /\ n[2] \in Int /\ dx \in Int /\ dy \in Int
        /\ T!Along(n, p) = n[1] * px + n[2] * py
        /\ T!Along(n, q) = n[1] * qx + n[2] * qy
        /\ T!Along(n, c) = n[1] * cx + n[2] * cy
    BY Corners, AlongIs
  <2>2. \/ /\ dx * (py - cy) - dy * (px - cx) > 0
           /\ dx * (qy - cy) - dy * (qx - cx) > 0
        \/ /\ dx * (py - cy) - dy * (px - cx) < 0
           /\ dx * (qy - cy) - dy * (qx - cx) < 0
    <3> HIDE DEF px, py, qx, qy, cx, cy
    <3>1. /\ dx * (py - cy) - dy * (px - cx) = T!Along(n, p) - T!Along(n, c)
          /\ dx * (qy - cy) - dy * (qx - cx) = T!Along(n, q) - T!Along(n, c)
      BY <2>1
    <3>2. T!Along(n, p) \in Int /\ T!Along(n, q) \in Int /\ T!Along(n, c) \in Int
      BY AlongIs
    <3> QED BY <1>5, <3>1, <3>2
  <2> HIDE DEF dx, dy
  <2> QED BY <1>5, <2>1, <2>2, NotReached
<1>6. CASE T!Sign(o1) # T!Sign(o2) /\ T!Sign(o3) # T!Sign(o4)
  <2> HIDE DEF o1, o2, o3, o4, f1, f2, f3, f4
  <2>1. \/ o1 >= 0 /\ 0 >= o2 /\ o1 > o2
        \/ o2 >= 0 /\ 0 >= o1 /\ o2 > o1
    BY <1>2, <1>6 DEF T!Sign
  <2>2. \/ o4 >= 0 /\ 0 >= o3 /\ o4 > o3
        \/ o3 >= 0 /\ 0 >= o4 /\ o3 > o4
    BY <1>2, <1>6 DEF T!Sign
  <2>3. CASE o1 >= 0 /\ 0 >= o2 /\ o1 > o2
    <3> DEFINE a == o1  b == -o2  c == o4  d == -o3
    <3>1. /\ a \in Nat /\ b \in Nat /\ c \in Nat /\ d \in Nat
          /\ a + b = c + d /\ a + b > 0
      BY <1>2, <1>3, <2>2, <2>3
    <3>2. a * f4 + b * f3 = c * f1 + d * f2
      BY <1>1, <1>2, <1>3
    <3> HIDE DEF a, b, c, d
    <3> QED BY <1>1, <3>1, <3>2, Weights
  <2>4. CASE o2 >= 0 /\ 0 >= o1 /\ o2 > o1
    <3> DEFINE a == -o1  b == o2  c == -o4  d == o3
    <3>1. /\ a \in Nat /\ b \in Nat /\ c \in Nat /\ d \in Nat
          /\ a + b = c + d /\ a + b > 0
      BY <1>2, <1>3, <2>2, <2>4
    <3>2. a * f4 + b * f3 = c * f1 + d * f2
      BY <1>1, <1>2, <1>3
    <3> HIDE DEF a, b, c, d
    <3> QED BY <1>1, <3>1, <3>2, Weights
  <2> QED BY <2>1, <2>3, <2>4
<1> QED BY <1>1, <1>4, <1>5, <1>6

\* Two segments are apart whichever is named first.
LEMMA ApartEither ==
    ASSUME NEW p1 \in T!Points, NEW p2 \in T!Points, NEW p3 \in T!Points, NEW p4 \in T!Points,
           T!Apart(p3, p4, p1, p2)
    PROVE  T!Apart(p1, p2, p3, p4)
<1>1. PICK n \in T!Normals : \A p \in {p3, p4}, q \in {p1, p2} : T!Along(n, p) < T!Along(n, q)
  BY DEF T!Apart
<1> DEFINE m == <<-n[1], -n[2]>>
<1>2. m \in T!Normals /\ m[1] = -n[1] /\ m[2] = -n[2]
  BY TrackingAssumption DEF T!Normals
<1> HIDE DEF m
<1>3. ASSUME NEW p \in T!Points PROVE T!Along(m, p) = -T!Along(n, p) /\ T!Along(n, p) \in Int
  <2> DEFINE x == T!X(p)  y == T!Y(p)  u == n[1]  v == n[2]
  <2>1. x \in Int /\ y \in Int /\ u \in Int /\ v \in Int
    BY Corners, AlongIs
  <2>2. T!Along(m, p) = (-u) * x + (-v) * y /\ T!Along(n, p) = u * x + v * y
    BY <1>2, AlongIs
  <2> HIDE DEF x, y, u, v
  <2>3. (-u) * x + (-v) * y = -(u * x + v * y) /\ u * x + v * y \in Int
    BY <2>1
  <2> QED BY <2>2, <2>3
<1>4. \A p \in {p1, p2}, q \in {p3, p4} : T!Along(m, p) < T!Along(m, q)
  <2> SUFFICES ASSUME NEW p \in {p1, p2}, NEW q \in {p3, p4} PROVE T!Along(m, p) < T!Along(m, q)
    OBVIOUS
  <2>1. T!Along(n, q) < T!Along(n, p)
    BY <1>1
  <2>2. /\ T!Along(m, p) = -T!Along(n, p) /\ T!Along(n, p) \in Int
        /\ T!Along(m, q) = -T!Along(n, q) /\ T!Along(n, q) \in Int
    BY <1>3
  <2> QED BY <2>1, <2>2
<1> QED BY <1>2, <1>4 DEF T!Apart

\* A segment whose line has both ends of the other on one side is apart.
LEMMA BesideIsApart ==
    ASSUME NEW p1 \in T!Points, NEW p2 \in T!Points, NEW p3 \in T!Points, NEW p4 \in T!Points,
           T!Sign(T!Turn(p1, p2, p3)) = T!Sign(T!Turn(p1, p2, p4)), T!Turn(p1, p2, p3) # 0
    PROVE  T!Apart(p1, p2, p3, p4)
<1> DEFINE x1 == T!X(p1)  y1 == T!Y(p1)  x2 == T!X(p2)  y2 == T!Y(p2)
           o3 == T!Turn(p1, p2, p3)  o4 == T!Turn(p1, p2, p4)
<1>1. /\ x1 \in Int /\ y1 \in Int /\ x2 \in Int /\ y2 \in Int
      /\ x2 - x1 \in (1 - Side)..(Side - 1) /\ y2 - y1 \in (1 - Side)..(Side - 1)
  BY Corners, TrackingAssumption
<1>2. (o3 > 0 /\ o4 > 0) \/ (o3 < 0 /\ o4 < 0)
  BY TurnIs, SignIs
<1>3. PICK s \in {1, -1} : s * o3 > 0 /\ s * o4 > 0
  <2>1. o3 \in Int /\ o4 \in Int
    BY TurnIs
  <2> HIDE DEF o3, o4
  <2>2. 1 * o3 = o3 /\ 1 * o4 = o4 /\ (-1) * o3 = -o3 /\ (-1) * o4 = -o4
    BY <2>1
  <2> QED BY <1>2, <2>1, <2>2
<1> DEFINE u == -s * (y2 - y1)  v == s * (x2 - x1)  n == <<u, v>>
<1>4. u \in (1 - Side)..(Side - 1) /\ v \in (1 - Side)..(Side - 1)
  <2> HIDE DEF x1, y1, x2, y2
  <2>1. CASE s = 1
    BY <1>1, <2>1, TrackingAssumption
  <2>2. CASE s = -1
    BY <1>1, <2>2, TrackingAssumption
  <2> QED BY <2>1, <2>2
<1>5. n \in T!Normals /\ n[1] = u /\ n[2] = v
  BY <1>4 DEF T!Normals
<1>6. ASSUME NEW p \in T!Points
      PROVE  T!Along(n, p) = T!Along(n, p1) + s * T!Turn(p1, p2, p)
  <2> DEFINE x == T!X(p)  y == T!Y(p)
  <2>1. x \in Int /\ y \in Int
    BY Corners
  <2>2. /\ T!Along(n, p) = u * x + v * y /\ T!Along(n, p1) = u * x1 + v * y1
        /\ T!Turn(p1, p2, p) = (x2 - x1) * (y - y1) - (y2 - y1) * (x - x1)
    <3> HIDE DEF n
    <3> QED BY <1>5, AlongIs, TurnIs
  <2> HIDE DEF x, y, x1, x2, y1, y2, n
  <2>3. u * x + v * y = (u * x1 + v * y1) + s * ((x2 - x1) * (y - y1) - (y2 - y1) * (x - x1))
    BY <1>1, <1>3, <2>1
  <2> QED BY <2>2, <2>3
<1> HIDE DEF n
<1>7. T!Turn(p1, p2, p1) = 0 /\ T!Turn(p1, p2, p2) = 0
  <2>1. /\ T!Turn(p1, p2, p1) = (x2 - x1) * (y1 - y1) - (y2 - y1) * (x1 - x1)
        /\ T!Turn(p1, p2, p2) = (x2 - x1) * (y2 - y1) - (y2 - y1) * (x2 - x1)
    BY TurnIs
  <2> HIDE DEF x1, x2, y1, y2
  <2> QED BY <1>1, <2>1
<1>8. /\ T!Along(n, p2) = T!Along(n, p1) /\ T!Along(n, p1) \in Int
      /\ T!Along(n, p3) > T!Along(n, p1) /\ T!Along(n, p4) > T!Along(n, p1)
  <2>1. T!Along(n, p1) \in Int
    BY <1>5, AlongIs
  <2>2. s * 0 = 0 /\ s * o3 \in Int /\ s * o4 \in Int
    <3>1. o3 \in Int /\ o4 \in Int
      BY TurnIs
    <3> HIDE DEF o3, o4
    <3> QED BY <3>1
  <2>3. /\ T!Along(n, p2) = T!Along(n, p1) + 0
        /\ T!Along(n, p3) = T!Along(n, p1) + s * o3 /\ T!Along(n, p4) = T!Along(n, p1) + s * o4
    BY <1>6, <1>7, <2>2
  <2> HIDE DEF o3, o4
  <2> QED BY <1>3, <2>1, <2>2, <2>3
<1>9. \A p \in {p1, p2}, q \in {p3, p4} : T!Along(n, p) < T!Along(n, q)
  BY <1>8
<1> QED BY <1>5, <1>9 DEF T!Apart

\* If both ends of the one segment are on the line of the other, which is not
\* a point, so are the ends of the other on the line of the one.
LEMMA OneLine ==
    ASSUME NEW p1 \in T!Points, NEW p2 \in T!Points, NEW p3 \in T!Points, NEW p4 \in T!Points,
           T!X(p1) # T!X(p2) \/ T!Y(p1) # T!Y(p2),
           T!Turn(p1, p2, p3) = 0, T!Turn(p1, p2, p4) = 0
    PROVE  T!Turn(p3, p4, p1) = 0 /\ T!Turn(p3, p4, p2) = 0
<1> DEFINE x1 == T!X(p1)  y1 == T!Y(p1)  x2 == T!X(p2)  y2 == T!Y(p2)
           x3 == T!X(p3)  y3 == T!Y(p3)  x4 == T!X(p4)  y4 == T!Y(p4)
<1>0. /\ x1 \in Int /\ y1 \in Int /\ x2 \in Int /\ y2 \in Int
      /\ x3 \in Int /\ y3 \in Int /\ x4 \in Int /\ y4 \in Int
      /\ x1 # x2 \/ y1 # y2
      /\ (x2 - x1) * (y3 - y1) - (y2 - y1) * (x3 - x1) = 0
      /\ (x2 - x1) * (y4 - y1) - (y2 - y1) * (x4 - x1) = 0
      /\ T!Turn(p3, p4, p1) = (x4 - x3) * (y1 - y3) - (y4 - y3) * (x1 - x3)
      /\ T!Turn(p3, p4, p2) = (x4 - x3) * (y2 - y3) - (y4 - y3) * (x2 - x3)
  BY Corners, TurnIs
<1> HIDE DEF x1, y1, x2, y2, x3, y3, x4, y4
<1> DEFINE a == x2 - x1  b == y2 - y1
           c == x3 - x1  e == y3 - y1  f == x4 - x1  g == y4 - y1
           z == c * g - e * f
<1>1. /\ a \in Int /\ b \in Int /\ c \in Int /\ e \in Int /\ f \in Int /\ g \in Int
      /\ a # 0 \/ b # 0
  BY <1>0
<1>2. a * e = b * c /\ a * g = b * f
  <2>1. a * e - b * c = 0 /\ a * g - b * f = 0
    BY <1>0
  <2>2. a * e \in Int /\ b * c \in Int /\ a * g \in Int /\ b * f \in Int
    BY <1>1
  <2> QED BY <2>1, <2>2
<1>3. /\ (x4 - x3) * (y1 - y3) - (y4 - y3) * (x1 - x3) = z
      /\ (x4 - x3) * (y2 - y3) - (y4 - y3) * (x2 - x3)
             = z + (a * e - b * c) * 0 + (f * b - c * b) - (g * a - e * a)
  BY <1>0
<1> HIDE DEF a, b, c, e, f, g
<1>4. a * z = c * (a * g) - f * (a * e) /\ b * z = g * (b * c) - e * (b * f)
  BY <1>1
<1>5. c * (b * f) - f * (b * c) = 0 /\ g * (a * e) - e * (a * g) = 0
  BY <1>1
<1>6. z \in Int /\ a * z = 0 /\ b * z = 0
  BY <1>1, <1>2, <1>4, <1>5
<1> HIDE DEF z
<1>7. z = 0
  BY <1>1, <1>6
<1>8. (f * b - c * b) - (g * a - e * a) = 0
  <2>1. (f * b - c * b) - (g * a - e * a) = (b * f - a * g) - (b * c - a * e)
    BY <1>1
  <2>2. a * e \in Int /\ b * c \in Int /\ a * g \in Int /\ b * f \in Int
    BY <1>1
  <2> QED BY <1>2, <2>1, <2>2
<1> QED BY <1>0, <1>1, <1>2, <1>3, <1>7, <1>8

\* Vectors along one direction whose lengths do not have the same sign do not
\* have coordinates of the same sign either.
LEMMA OppositeWays ==
    ASSUME NEW dx \in Int, NEW dy \in Int, NEW ux \in Int, NEW uy \in Int,
           NEW vx \in Int, NEW vy \in Int,
           dx # 0 \/ dy # 0, dx * uy = dy * ux, dx * vy = dy * vx,
           \/ dx * ux + dy * uy <= 0 /\ 0 <= dx * vx + dy * vy
           \/ dx * vx + dy * vy <= 0 /\ 0 <= dx * ux + dy * uy
    PROVE  ux * vx <= 0 /\ uy * vy <= 0
<1> DEFINE s == dx * dx + dy * dy
           a == dx * ux + dy * uy  b == dx * vx + dy * vy
<1>1. s \in Int /\ s > 0 /\ a \in Int /\ b \in Int
  <2>1. \A k \in Int : k * k \in Int /\ k * k >= 0 /\ (k # 0 => k * k > 0)
    OBVIOUS
  <2> QED BY <2>1
<1>2. s * ux = dx * a /\ s * uy = dy * a /\ s * vx = dx * b /\ s * vy = dy * b
  <2>1. /\ dy * (dx * uy) = dy * (dy * ux) /\ dx * (dx * uy) = dx * (dy * ux)
        /\ dy * (dx * vy) = dy * (dy * vx) /\ dx * (dx * vy) = dx * (dy * vx)
    OBVIOUS
  <2>2. s * ux = dx * (dx * ux) + dy * (dy * ux) /\ dx * a = dx * (dx * ux) + dy * (dx * uy)
    OBVIOUS
  <2>3. s * uy = dx * (dx * uy) + dy * (dy * uy) /\ dy * a = dx * (dy * ux) + dy * (dy * uy)
    OBVIOUS
  <2>4. s * vx = dx * (dx * vx) + dy * (dy * vx) /\ dx * b = dx * (dx * vx) + dy * (dx * vy)
    OBVIOUS
  <2>5. s * vy = dx * (dx * vy) + dy * (dy * vy) /\ dy * b = dx * (dy * vx) + dy * (dy * vy)
    OBVIOUS
  <2> QED BY <2>1, <2>2, <2>3, <2>4, <2>5
<1>3. (a <= 0 /\ 0 <= b) \/ (b <= 0 /\ 0 <= a)
  OBVIOUS
<1> HIDE DEF s, a, b
\* One coordinate at a time.
<1>4. ASSUME NEW d \in Int, NEW u \in Int, NEW v \in Int, s * u = d * a, s * v = d * b
      PROVE  u * v <= 0
  <2>1. a * b <= 0
    BY <1>1, <1>3
  <2>2. (s * u) * (s * v) = (d * d) * (a * b)
    <3>1. (d * a) * (d * b) = (d * d) * (a * b)
      BY <1>1
    <3> QED BY <1>4, <3>1
  <2>3. d * d >= 0
    OBVIOUS
  <2>4. (d * d) * (a * b) <= 0
    <3>1. d * d \in Int /\ a * b \in Int
      BY <1>1
    <3>2. \A x, y \in Int : x >= 0 /\ y <= 0 => x * y <= 0
      OBVIOUS
    <3> QED BY <2>1, <2>3, <3>1, <3>2
  <2> SUFFICES ASSUME u * v > 0 PROVE FALSE
    OBVIOUS
  <2>5. (s * u) * (s * v) = (s * s) * (u * v)
    BY <1>1
  <2>6. \A x, y \in Int : x > 0 /\ y > 0 => x * y > 0
    OBVIOUS
  <2>7. s * s \in Int /\ s * s > 0 /\ u * v \in Int /\ (s * s) * (u * v) > 0
    BY <1>1, <2>6
  <2> QED BY <2>2, <2>4, <2>5, <2>7
<1> QED BY <1>2, <1>4

\* A point of the line of p and q that is between them is in their box.
LEMMA BetweenIsOn ==
    ASSUME NEW p \in T!Points, NEW q \in T!Points, NEW c \in T!Points,
           NEW n \in T!Normals, n[1] # 0 \/ n[2] # 0,
           n[1] * (T!Y(p) - T!Y(c)) = n[2] * (T!X(p) - T!X(c)),
           n[1] * (T!Y(q) - T!Y(c)) = n[2] * (T!X(q) - T!X(c)),
           \/ T!Along(n, p) <= T!Along(n, c) /\ T!Along(n, c) <= T!Along(n, q)
           \/ T!Along(n, q) <= T!Along(n, c) /\ T!Along(n, c) <= T!Along(n, p)
    PROVE  T!OnSegment(p, c, q)
<1> DEFINE dx == n[1]  dy == n[2]
           px == T!X(p)  py == T!Y(p)  qx == T!X(q)  qy == T!Y(q)  cx == T!X(c)  cy == T!Y(c)
<1>1. /\ px \in Int /\ py \in Int /\ qx \in Int /\ qy \in Int /\ cx \in Int /\ cy \in Int
      /\ dx \in Int /\ dy \in Int
      /\ T!Along(n, p) = dx * px + dy * py /\ T!Along(n, q) = dx * qx + dy * qy
      /\ T!Along(n, c) = dx * cx + dy * cy
      /\ T!Along(n, p) \in Int /\ T!Along(n, q) \in Int /\ T!Along(n, c) \in Int
  BY Corners, AlongIs
<1>2. /\ dx # 0 \/ dy # 0
      /\ dx * (py - cy) = dy * (px - cx) /\ dx * (qy - cy) = dy * (qx - cx)
  OBVIOUS
<1> HIDE DEF dx, dy, px, py, qx, qy, cx, cy
<1> DEFINE ux == px - cx  uy == py - cy  vx == qx - cx  vy == qy - cy
<1>3. \/ dx * ux + dy * uy <= 0 /\ 0 <= dx * vx + dy * vy
      \/ dx * vx + dy * vy <= 0 /\ 0 <= dx * ux + dy * uy
  <2>1. /\ dx * ux + dy * uy = T!Along(n, p) - T!Along(n, c)
        /\ dx * vx + dy * vy = T!Along(n, q) - T!Along(n, c)
    BY <1>1
  <2> QED BY <1>1, <2>1
<1>4. ux \in Int /\ uy \in Int /\ vx \in Int /\ vy \in Int
  BY <1>1
<1>5. dx * uy = dy * ux /\ dx * vy = dy * vx
  BY <1>2
<1>6. ux * vx <= 0 /\ uy * vy <= 0
  <2>1. dx \in Int /\ dy \in Int /\ (dx # 0 \/ dy # 0)
    BY <1>1, <1>2
  <2> HIDE DEF ux, uy, vx, vy
  <2> QED BY <2>1, <1>3, <1>4, <1>5, OppositeWays
<1>7. ASSUME NEW a \in Int, NEW b \in Int, NEW x \in Int, (a - x) * (b - x) <= 0
      PROVE  T!Min({a, b}) <= x /\ x <= T!Max({a, b})
  <2>1. ~(a - x > 0 /\ b - x > 0) /\ ~(a - x < 0 /\ b - x < 0)
    <3>1. \A k, l \in Int : (k > 0 /\ l > 0) \/ (k < 0 /\ l < 0) => k * l > 0
      OBVIOUS
    <3>2. a - x \in Int /\ b - x \in Int /\ ~((a - x) * (b - x) > 0)
      BY <1>7
    <3> QED BY <3>1, <3>2
  <2>2. (a <= x /\ x <= b) \/ (b <= x /\ x <= a)
    BY <2>1
  <2>3. /\ T!Min({a, b}) \in Int /\ T!Min({a, b}) <= a /\ T!Min({a, b}) <= b
        /\ T!Max({a, b}) \in Int /\ T!Max({a, b}) >= a /\ T!Max({a, b}) >= b
    BY PairBounds
  <2> QED BY <2>2, <2>3
<1>8. /\ T!Min({px, qx}) <= cx /\ cx <= T!Max({px, qx})
      /\ T!Min({py, qy}) <= cy /\ cy <= T!Max({py, qy})
  BY <1>1, <1>6, <1>7 DEF ux, uy, vx, vy
<1> QED BY <1>8 DEF T!OnSegment, px, py, qx, qy, cx, cy

\* Two segments of one line, no end of either on the other, are apart.
LEMMA OnOneLine ==
    ASSUME NEW p1 \in T!Points, NEW p2 \in T!Points, NEW p3 \in T!Points, NEW p4 \in T!Points,
           NEW n \in T!Normals, n[1] # 0 \/ n[2] # 0,
           \A p, q \in {p1, p2, p3, p4} :
               n[1] * (T!Y(p) - T!Y(q)) = n[2] * (T!X(p) - T!X(q)),
           ~T!OnSegment(p1, p3, p2), ~T!OnSegment(p1, p4, p2),
           ~T!OnSegment(p3, p1, p4), ~T!OnSegment(p3, p2, p4)
    PROVE  T!Apart(p1, p2, p3, p4)
<1> DEFINE f(p) == T!Along(n, p)
           Betw(p, q, c) == (f(p) <= f(c) /\ f(c) <= f(q)) \/ (f(q) <= f(c) /\ f(c) <= f(p))
<1>1. \A p, q, c \in {p1, p2, p3, p4} : Betw(p, q, c) => T!OnSegment(p, c, q)
  BY BetweenIsOn
<1>2. f(p1) \in Int /\ f(p2) \in Int /\ f(p3) \in Int /\ f(p4) \in Int
  BY AlongIs
<1>3. ~Betw(p1, p2, p3) /\ ~Betw(p1, p2, p4) /\ ~Betw(p3, p4, p1) /\ ~Betw(p3, p4, p2)
  BY <1>1
<1> HIDE DEF f
<1>4. \/ f(p1) < f(p3) /\ f(p1) < f(p4) /\ f(p2) < f(p3) /\ f(p2) < f(p4)
      \/ f(p3) < f(p1) /\ f(p3) < f(p2) /\ f(p4) < f(p1) /\ f(p4) < f(p2)
  BY <1>2, <1>3
<1>5. CASE f(p1) < f(p3) /\ f(p1) < f(p4) /\ f(p2) < f(p3) /\ f(p2) < f(p4)
  BY <1>5 DEF T!Apart, f
<1>6. CASE f(p3) < f(p1) /\ f(p3) < f(p2) /\ f(p4) < f(p1) /\ f(p4) < f(p2)
  <2>1. T!Apart(p3, p4, p1, p2)
    BY <1>6 DEF T!Apart, f
  <2> QED BY <2>1, ApartEither
<1> QED BY <1>4, <1>5, <1>6

\* Segments that do not meet are apart.
LEMMA NotMeetingIsApart ==
    ASSUME NEW p1 \in T!Points, NEW p2 \in T!Points, NEW p3 \in T!Points, NEW p4 \in T!Points,
           ~T!SegmentsIntersect(p1, p2, p3, p4)
    PROVE  T!Apart(p1, p2, p3, p4)
<1> DEFINE o1 == T!Turn(p1, p2, p3)  o2 == T!Turn(p1, p2, p4)
           o3 == T!Turn(p3, p4, p1)  o4 == T!Turn(p3, p4, p2)
           x1 == T!X(p1)  y1 == T!Y(p1)  x2 == T!X(p2)  y2 == T!Y(p2)
           x3 == T!X(p3)  y3 == T!Y(p3)  x4 == T!X(p4)  y4 == T!Y(p4)
<1>1. o1 \in Int /\ o2 \in Int /\ o3 \in Int /\ o4 \in Int
  BY TurnIs
<1>2. /\ T!Sign(o1) = T!Sign(o2) \/ T!Sign(o3) = T!Sign(o4)
      /\ ~(o1 = 0 /\ T!OnSegment(p1, p3, p2)) /\ ~(o2 = 0 /\ T!OnSegment(p1, p4, p2))
      /\ ~(o3 = 0 /\ T!OnSegment(p3, p1, p4)) /\ ~(o4 = 0 /\ T!OnSegment(p3, p2, p4))
  BY <1>1, SignIs DEF T!SegmentsIntersect
<1>3. CASE T!Sign(o1) = T!Sign(o2) /\ o1 # 0
  BY <1>3, BesideIsApart
<1>4. CASE T!Sign(o3) = T!Sign(o4) /\ o3 # 0
  BY <1>4, BesideIsApart, ApartEither
<1>5. /\ x1 \in Int /\ y1 \in Int /\ x2 \in Int /\ y2 \in Int
      /\ x3 \in Int /\ y3 \in Int /\ x4 \in Int /\ y4 \in Int
      /\ o1 = (x2 - x1) * (y3 - y1) - (y2 - y1) * (x3 - x1)
      /\ o2 = (x2 - x1) * (y4 - y1) - (y2 - y1) * (x4 - x1)
      /\ o3 = (x4 - x3) * (y1 - y3) - (y4 - y3) * (x1 - x3)
      /\ o4 = (x4 - x3) * (y2 - y3) - (y4 - y3) * (x2 - x3)
  BY Corners, TurnIs
<1>6. \A p, q \in T!Points : <<T!X(q) - T!X(p), T!Y(q) - T!Y(p)>> \in T!Normals
  BY Corners, TrackingAssumption DEF T!Normals
\* All on the line through two of them that differ
<1>7. ASSUME NEW p \in T!Points, NEW q \in T!Points,
             T!X(p) # T!X(q) \/ T!Y(p) # T!Y(q),
             \A r \in {p1, p2, p3, p4} : T!Turn(p, q, r) = 0,
             o1 = 0, o2 = 0, o3 = 0, o4 = 0
      PROVE  T!Apart(p1, p2, p3, p4)
  <2> DEFINE dx == T!X(q) - T!X(p)  dy == T!Y(q) - T!Y(p)  n == <<dx, dy>>
  <2>1. n \in T!Normals /\ n[1] = dx /\ n[2] = dy
    BY <1>6
  <2>2. dx \in Int /\ dy \in Int /\ (dx # 0 \/ dy # 0)
    BY <1>7, Corners
  <2>3. ASSUME NEW r \in {p1, p2, p3, p4}, NEW s \in {p1, p2, p3, p4}
        PROVE  dx * (T!Y(r) - T!Y(s)) = dy * (T!X(r) - T!X(s))
    <3> DEFINE px == T!X(p)  py == T!Y(p)  rx == T!X(r)  ry == T!Y(r)  sx == T!X(s)  sy == T!Y(s)
    <3>1. /\ px \in Int /\ py \in Int /\ rx \in Int /\ ry \in Int /\ sx \in Int /\ sy \in Int
          /\ dx * (ry - py) - dy * (rx - px) = 0 /\ dx * (sy - py) - dy * (sx - px) = 0
      <4>1. T!Turn(p, q, r) = 0 /\ T!Turn(p, q, s) = 0
        BY <1>7
      <4>2. /\ T!Turn(p, q, r) = dx * (ry - py) - dy * (rx - px)
            /\ T!Turn(p, q, s) = dx * (sy - py) - dy * (sx - px)
        BY TurnIs
      <4> HIDE DEF dx, dy
      <4> QED BY <4>1, <4>2, Corners
    <3> HIDE DEF dx, dy, px, py, rx, ry, sx, sy
    <3>2. dx * (ry - sy) - dy * (rx - sx)
              = (dx * (ry - py) - dy * (rx - px)) - (dx * (sy - py) - dy * (sx - px))
      BY <2>2, <3>1
    <3>3. dx * (ry - sy) \in Int /\ dy * (rx - sx) \in Int
      BY <2>2, <3>1
    <3>4. dx * (ry - sy) = dy * (rx - sx)
      BY <3>1, <3>2, <3>3
    <3> QED BY <3>4 DEF rx, ry, sx, sy
  <2> HIDE DEF n, dx, dy
  <2> QED BY <1>2, <1>7, <2>1, <2>2, <2>3, OnOneLine
<1>8. CASE o1 = 0 /\ o2 = 0 /\ o3 = 0 /\ o4 = 0
  <2>1. ASSUME NEW p \in T!Points, NEW q \in T!Points
        PROVE  T!Turn(p, q, p) = 0 /\ T!Turn(p, q, q) = 0
    <3> DEFINE a == T!X(p)  b == T!Y(p)  c == T!X(q)  d == T!Y(q)
    <3>1. /\ a \in Int /\ b \in Int /\ c \in Int /\ d \in Int
          /\ T!Turn(p, q, p) = (c - a) * (b - b) - (d - b) * (a - a)
          /\ T!Turn(p, q, q) = (c - a) * (d - b) - (d - b) * (c - a)
      BY Corners, TurnIs
    <3> HIDE DEF a, b, c, d
    <3> QED BY <3>1
  <2>2. CASE x1 # x2 \/ y1 # y2
    BY <1>7, <1>8, <2>1, <2>2
  <2>3. CASE x3 # x4 \/ y3 # y4
    BY <1>7, <1>8, <2>1, <2>3
  <2>4. CASE x1 = x2 /\ y1 = y2 /\ x3 = x4 /\ y3 = y4
    <3>1. p1 = p2 /\ p3 = p4
      BY <2>4 DEF T!Points, T!X, T!Y
    <3>2. CASE x1 = x3 /\ y1 = y3
      <4>1. p1 = p3
        BY <3>2 DEF T!Points, T!X, T!Y
      <4>2. T!OnSegment(p1, p1, p1)
        BY <1>5, PairBounds DEF T!OnSegment
      <4> QED BY <1>2, <1>8, <3>1, <4>1, <4>2
    <3>3. CASE x1 # x3 \/ y1 # y3
      BY <1>7, <1>8, <2>1, <3>1, <3>3
    <3> QED BY <3>2, <3>3
  <2> QED BY <2>2, <2>3, <2>4
\* The line of the one segment has all four points on it, or it is a point.
<1>9. CASE o1 = 0 /\ o2 = 0
  <2>1. CASE x1 = x2 /\ y1 = y2
    <3>1. p1 = p2
      BY <2>1 DEF T!Points, T!X, T!Y
    <3> QED BY <1>4, <1>8, <1>9, <3>1
  <2>2. CASE x1 # x2 \/ y1 # y2
    <3>1. o3 = 0 /\ o4 = 0
      BY <1>9, <2>2, OneLine
    <3> QED BY <1>8, <1>9, <3>1
  <2> QED BY <2>1, <2>2
<1>10. CASE o3 = 0 /\ o4 = 0
  <2>1. CASE x3 = x4 /\ y3 = y4
    <3>1. p3 = p4
      BY <2>1 DEF T!Points, T!X, T!Y
    <3> QED BY <1>3, <1>8, <1>10, <3>1
  <2>2. CASE x3 # x4 \/ y3 # y4
    <3>1. o1 = 0 /\ o2 = 0
      BY <1>10, <2>2, OneLine
    <3> QED BY <1>8, <1>10, <3>1
  <2> QED BY <2>1, <2>2
<1>11. \/ T!Sign(o1) = T!Sign(o2) /\ (o1 # 0 \/ (o1 = 0 /\ o2 = 0))
       \/ T!Sign(o3) = T!Sign(o4) /\ (o3 # 0 \/ (o3 = 0 /\ o4 = 0))
  <2> HIDE DEF o1, o2, o3, o4
  <2> QED BY <1>1, <1>2, SignIs
<1> QED BY <1>3, <1>4, <1>9, <1>10, <1>11

\* The test of segments is exact, for any two of any grid.
LEMMA CrossingIsExact ==
    ASSUME NEW p1 \in T!Points, NEW p2 \in T!Points, NEW p3 \in T!Points, NEW p4 \in T!Points
    PROVE  T!CrossesExactly(p1, p2, p3, p4)
BY MeetingIsNotApart, NotMeetingIsApart DEF T!CrossesExactly

LEMMA LineEnds == Line[1] \in T!Points /\ Line[2] \in T!Points
BY TrackingAssumption DEF T!Points, Z!Points

LEMMA SideIsInt ==
    ASSUME NEW p \in T!Points
    PROVE  T!Beside(p) \in Int
BY Corners, LineEnds DEF T!Beside, T!CrossingSide, T!Turn

\* The line is not crossed from one side to the same.
LEMMA SameSideNoCrossing ==
    ASSUME NEW p \in T!Points, NEW q \in T!Points,
           T!Sign(T!Beside(p)) = T!Sign(T!Beside(q)), T!Beside(p) # 0
    PROVE  ~T!SegmentsIntersect(p, q, Line[1], Line[2])
<1>1. T!Apart(Line[1], Line[2], p, q)
  BY BesideIsApart, LineEnds DEF T!Beside, T!CrossingSide
<1> QED BY <1>1, ApartEither, MeetingIsNotApart, LineEnds

\* Where it is not apart from the line, the move crosses it.
LEMMA NotRoundIsCrossing ==
    ASSUME NEW p \in T!Points, NEW q \in T!Points, ~T!Apart(p, q, Line[1], Line[2])
    PROVE  T!SegmentsIntersect(p, q, Line[1], Line[2])
BY NotMeetingIsApart, LineEnds

-----------------------------------------------------------------------------
(* The geometry of a polygon.                                              *)

\* An edge from height h to height k, measured from the point, which is turn
\* beside it, is counted.
Counted(h, k, turn) ==
    \/ h <= 0 /\ k > 0 /\ turn > 0
    \/ k <= 0 /\ h > 0 /\ turn < 0

\* The test without a division asks for the direction of the edge and the side
\* of the point.
LEMMA CrossedIs ==
    ASSUME NEW a \in T!Points, NEW b \in T!Points, NEW p \in T!Points
    PROVE  T!CrossedRightOf(<<a, b>>, p) <=>
               Counted(T!Y(a) - T!Y(p), T!Y(b) - T!Y(p), T!Turn(a, b, p))
<1> DEFINE xa == T!X(a)  ya == T!Y(a)  xb == T!X(b)  yb == T!Y(b)  xp == T!X(p)  yp == T!Y(p)
           up == yb - ya  turn == (xb - xa) * (yp - ya) - up * (xp - xa)
<1>1. /\ xa \in Int /\ ya \in Int /\ xb \in Int /\ yb \in Int /\ xp \in Int /\ yp \in Int
      /\ T!Turn(a, b, p) = turn
  BY Corners, TurnIs
<1>2. T!CrossedRightOf(<<a, b>>, p) <=>
          /\ (ya > yp) # (yb > yp)
          /\ (xp - xa) * up * up < (xb - xa) * (yp - ya) * up
  BY DEF T!CrossedRightOf
<1> HIDE DEF xa, ya, xb, yb, xp, yp
<1>3. up \in Int /\ turn \in Int
  BY <1>1
<1>4. (xb - xa) * (yp - ya) * up - (xp - xa) * up * up = up * turn
  BY <1>1
<1>5. (xp - xa) * up * up \in Int /\ (xb - xa) * (yp - ya) * up \in Int
  BY <1>1
<1>6. (xp - xa) * up * up < (xb - xa) * (yp - ya) * up <=> up * turn > 0
  BY <1>3, <1>4, <1>5
<1>7. \A k, l \in Int : /\ k > 0 => (k * l > 0 <=> l > 0)
                        /\ k < 0 => (k * l > 0 <=> l < 0)
  OBVIOUS
<1>8. /\ up > 0 => (up * turn > 0 <=> turn > 0)
      /\ up < 0 => (up * turn > 0 <=> turn < 0)
  <2> HIDE DEF up, turn
  <2> QED BY <1>3, <1>7
<1>9. (ya > yp) # (yb > yp) <=>
          \/ ya - yp <= 0 /\ yb - yp > 0 /\ up > 0
          \/ yb - yp <= 0 /\ ya - yp > 0 /\ up < 0
  BY <1>1
<1> HIDE DEF turn
<1>10. T!CrossedRightOf(<<a, b>>, p) <=>
           /\ \/ ya - yp <= 0 /\ yb - yp > 0 /\ up > 0
              \/ yb - yp <= 0 /\ ya - yp > 0 /\ up < 0
           /\ up * turn > 0
  BY <1>2, <1>6, <1>9
<1>11. T!CrossedRightOf(<<a, b>>, p) <=> Counted(ya - yp, yb - yp, turn)
  <2>1. up > 0 => ~(up < 0)
    BY <1>3
  <2>2. ya - yp <= 0 /\ yb - yp > 0 => up > 0
    BY <1>1
  <2>3. yb - yp <= 0 /\ ya - yp > 0 => up < 0
    BY <1>1
  <2> HIDE DEF up
  <2> QED BY <1>8, <1>10, <2>1, <2>2, <2>3 DEF Counted
<1> QED BY <1>1, <1>11 DEF ya, yb, yp

\* The turns round a point weigh the corners of a triangle so that the point
\* is their centre.
LEMMA Centre ==
    ASSUME NEW a \in T!Points, NEW b \in T!Points, NEW c \in T!Points, NEW p \in T!Points
    PROVE  T!Turn(b, c, p) * (T!Y(a) - T!Y(p)) + T!Turn(c, a, p) * (T!Y(b) - T!Y(p))
               + T!Turn(a, b, p) * (T!Y(c) - T!Y(p)) = 0
<1> DEFINE xa == T!X(a)  ya == T!Y(a)  xb == T!X(b)  yb == T!Y(b)
           xc == T!X(c)  yc == T!Y(c)  xp == T!X(p)  yp == T!Y(p)
<1>1. /\ xa \in Int /\ ya \in Int /\ xb \in Int /\ yb \in Int
      /\ xc \in Int /\ yc \in Int /\ xp \in Int /\ yp \in Int
      /\ T!Turn(a, b, p) = (xb - xa) * (yp - ya) - (yb - ya) * (xp - xa)
      /\ T!Turn(b, c, p) = (xc - xb) * (yp - yb) - (yc - yb) * (xp - xb)
      /\ T!Turn(c, a, p) = (xa - xc) * (yp - yc) - (ya - yc) * (xp - xc)
  BY Corners, TurnIs
<1> HIDE DEF xa, ya, xb, yb, xc, yc, xp, yp
<1>2. /\ T!Turn(a, b, p) = (xa - xp) * (yb - yp) - (xb - xp) * (ya - yp)
      /\ T!Turn(b, c, p) = (xb - xp) * (yc - yp) - (xc - xp) * (yb - yp)
      /\ T!Turn(c, a, p) = (xc - xp) * (ya - yp) - (xa - xp) * (yc - yp)
  BY <1>1
<1> DEFINE ua == xa - xp  va == ya - yp  ub == xb - xp  vb == yb - yp  uc == xc - xp  vc == yc - yp
<1>3. ua \in Int /\ va \in Int /\ ub \in Int /\ vb \in Int /\ uc \in Int /\ vc \in Int
  BY <1>1
<1>4. /\ T!Turn(a, b, p) = ua * vb - ub * va
      /\ T!Turn(b, c, p) = ub * vc - uc * vb
      /\ T!Turn(c, a, p) = uc * va - ua * vc
  BY <1>2
<1> HIDE DEF ua, va, ub, vb, uc, vc
<1>5. (ub * vc - uc * vb) * va + (uc * va - ua * vc) * vb + (ua * vb - ub * va) * vc = 0
  BY <1>3
<1> QED BY <1>4, <1>5 DEF va, vb, vc, ya, yb, yc, yp

\* If one corner is above the point and two are not, or the other way round,
\* one edge goes up and one comes down.  t1 is the turn of the edge from the
\* first to the second corner, t2 of the next, t3 of the last.
AllLeft(t1, t2, t3) == t1 > 0 /\ t2 > 0 /\ t3 > 0
AllRight(t1, t2, t3) == t1 < 0 /\ t2 < 0 /\ t3 < 0
Mixed(t1, t2, t3) == (t1 > 0 \/ t2 > 0 \/ t3 > 0) /\ (t1 < 0 \/ t2 < 0 \/ t3 < 0)
Odd(x, y, z) == (x /\ y /\ z) \/ (x /\ ~y /\ ~z) \/ (~x /\ y /\ ~z) \/ (~x /\ ~y /\ z)
Tells(h1, h2, h3, t1, t2, t3) ==
    LET odd == Odd(Counted(h1, h2, t1), Counted(h2, h3, t2), Counted(h3, h1, t3))
    IN  /\ AllLeft(t1, t2, t3) \/ AllRight(t1, t2, t3) => odd
        /\ Mixed(t1, t2, t3) => ~odd

LEMMA OneAbove ==
    ASSUME NEW h1 \in Int, NEW h2 \in Int, NEW h3 \in Int,
           NEW t1 \in Int, NEW t2 \in Int, NEW t3 \in Int,
           t2 * h1 + t3 * h2 + t1 * h3 = 0,
           h1 > 0, h2 <= 0, h3 <= 0
    PROVE  Tells(h1, h2, h3, t1, t2, t3)
<1> DEFINE k2 == -h2  k3 == -h3
<1>1. k2 \in Int /\ k3 \in Int /\ k2 >= 0 /\ k3 >= 0 /\ t2 * h1 = t3 * k2 + t1 * k3
  OBVIOUS
<1> HIDE DEF k2, k3
<1>2. \A k \in Int, t \in Int : k >= 0 => (t >= 0 => t * k >= 0) /\ (t <= 0 => t * k <= 0)
  OBVIOUS
<1>3. t3 * k2 \in Int /\ t1 * k3 \in Int /\ t2 * h1 \in Int
  BY <1>1
<1>4. /\ t3 >= 0 /\ t1 >= 0 => t2 * h1 >= 0
      /\ t3 <= 0 /\ t1 <= 0 => t2 * h1 <= 0
  BY <1>1, <1>2, <1>3
<1>5. /\ t2 > 0 => t2 * h1 > 0
      /\ t2 < 0 => t2 * h1 < 0
  <2>1. \A k, t \in Int : k > 0 => (t > 0 => t * k > 0) /\ (t < 0 => t * k < 0)
    OBVIOUS
  <2> QED BY <2>1
<1>6. /\ t3 >= 0 /\ t1 >= 0 => t2 >= 0
      /\ t3 <= 0 /\ t1 <= 0 => t2 <= 0
  BY <1>3, <1>4, <1>5
<1>7. /\ Counted(h1, h2, t1) <=> t1 < 0
      /\ ~Counted(h2, h3, t2)
      /\ Counted(h3, h1, t3) <=> t3 > 0
  BY DEF Counted
<1> QED BY <1>6, <1>7 DEF Tells, Odd, AllLeft, AllRight, Mixed

LEMMA TwoAbove ==
    ASSUME NEW h1 \in Int, NEW h2 \in Int, NEW h3 \in Int,
           NEW t1 \in Int, NEW t2 \in Int, NEW t3 \in Int,
           t2 * h1 + t3 * h2 + t1 * h3 = 0,
           h1 <= 0, h2 > 0, h3 > 0
    PROVE  Tells(h1, h2, h3, t1, t2, t3)
<1> DEFINE k1 == -h1
<1>1. k1 \in Int /\ k1 >= 0 /\ t2 * k1 = t3 * h2 + t1 * h3
  OBVIOUS
<1> HIDE DEF k1
<1>2. \A k, t \in Int : k > 0 => /\ t > 0 => t * k > 0
                                 /\ t >= 0 => t * k >= 0
                                 /\ t < 0 => t * k < 0
                                 /\ t <= 0 => t * k <= 0
  OBVIOUS
<1>3. t3 * h2 \in Int /\ t1 * h3 \in Int /\ t2 * k1 \in Int
  BY <1>1
<1>4. /\ t3 >= 0 /\ t1 > 0 => t2 * k1 > 0
      /\ t3 < 0 /\ t1 <= 0 => t2 * k1 < 0
  BY <1>1, <1>2, <1>3
<1>5. /\ t2 * k1 > 0 => t2 > 0
      /\ t2 * k1 < 0 => t2 < 0
  <2>1. \A k, t \in Int : k >= 0 => (t <= 0 => t * k <= 0) /\ (t >= 0 => t * k >= 0)
    OBVIOUS
  <2> QED BY <1>1, <1>3, <2>1
<1>6. /\ t3 >= 0 /\ t1 > 0 => t2 > 0
      /\ t3 < 0 /\ t1 <= 0 => t2 < 0
  BY <1>4, <1>5
<1>7. /\ Counted(h1, h2, t1) <=> t1 > 0
      /\ ~Counted(h2, h3, t2)
      /\ Counted(h3, h1, t3) <=> t3 < 0
  BY DEF Counted
<1> QED BY <1>6, <1>7 DEF Tells, Odd, AllLeft, AllRight, Mixed

LEMMA Rotated ==
    ASSUME NEW h1 \in Int, NEW h2 \in Int, NEW h3 \in Int,
           NEW t1 \in Int, NEW t2 \in Int, NEW t3 \in Int,
           Tells(h2, h3, h1, t2, t3, t1)
    PROVE  Tells(h1, h2, h3, t1, t2, t3)
<1>1. Odd(Counted(h2, h3, t2), Counted(h3, h1, t3), Counted(h1, h2, t1))
        <=> Odd(Counted(h1, h2, t1), Counted(h2, h3, t2), Counted(h3, h1, t3))
  BY DEF Odd
<1> QED BY <1>1 DEF Tells, AllLeft, AllRight, Mixed

\* Whether the number of edges crossed is odd tells the inside of a triangle
\* that is not level with the point.
LEMMA CountTells ==
    ASSUME NEW h1 \in Int, NEW h2 \in Int, NEW h3 \in Int,
           NEW t1 \in Int, NEW t2 \in Int, NEW t3 \in Int,
           t2 * h1 + t3 * h2 + t1 * h3 = 0,
           h1 = 0 /\ h2 = 0 /\ h3 = 0 => t1 = 0
    PROVE  Tells(h1, h2, h3, t1, t2, t3)
<1>1. /\ t3 * h2 + t1 * h3 + t2 * h1 = 0
      /\ t1 * h3 + t2 * h1 + t3 * h2 = 0
  <2>1. t2 * h1 \in Int /\ t3 * h2 \in Int /\ t1 * h3 \in Int
    OBVIOUS
  <2> QED BY <2>1
<1>2. CASE h1 > 0 /\ h2 <= 0 /\ h3 <= 0
  BY <1>2, OneAbove
<1>3. CASE h2 > 0 /\ h3 <= 0 /\ h1 <= 0
  <2>1. Tells(h2, h3, h1, t2, t3, t1)
    BY <1>1, <1>3, OneAbove
  <2> QED BY <2>1, Rotated
<1>4. CASE h3 > 0 /\ h1 <= 0 /\ h2 <= 0
  <2>1. Tells(h3, h1, h2, t3, t1, t2)
    BY <1>1, <1>4, OneAbove
  <2>2. Tells(h2, h3, h1, t2, t3, t1)
    BY <2>1, Rotated
  <2> QED BY <2>2, Rotated
<1>5. CASE h1 <= 0 /\ h2 > 0 /\ h3 > 0
  BY <1>5, TwoAbove
<1>6. CASE h2 <= 0 /\ h3 > 0 /\ h1 > 0
  <2>1. Tells(h2, h3, h1, t2, t3, t1)
    BY <1>1, <1>6, TwoAbove
  <2> QED BY <2>1, Rotated
<1>7. CASE h3 <= 0 /\ h1 > 0 /\ h2 > 0
  <2>1. Tells(h3, h1, h2, t3, t1, t2)
    BY <1>1, <1>7, TwoAbove
  <2>2. Tells(h2, h3, h1, t2, t3, t1)
    BY <2>1, Rotated
  <2> QED BY <2>2, Rotated
\* All above, or none: no edge is crossed, and the point is not inside.
<1>8. CASE \/ h1 > 0 /\ h2 > 0 /\ h3 > 0
           \/ h1 <= 0 /\ h2 <= 0 /\ h3 <= 0
  <2>1. ~Counted(h1, h2, t1) /\ ~Counted(h2, h3, t2) /\ ~Counted(h3, h1, t3)
    BY <1>8 DEF Counted
  <2>2. ~AllLeft(t1, t2, t3) /\ ~AllRight(t1, t2, t3)
    <3> SUFFICES ASSUME AllLeft(t1, t2, t3) \/ AllRight(t1, t2, t3) PROVE FALSE
      OBVIOUS
    <3>1. PICK s \in {1, -1} : s * t1 > 0 /\ s * t2 > 0 /\ s * t3 > 0
      <4>1. 1 * t1 = t1 /\ 1 * t2 = t2 /\ 1 * t3 = t3
            /\ (-1) * t1 = -t1 /\ (-1) * t2 = -t2 /\ (-1) * t3 = -t3
        OBVIOUS
      <4> QED BY <4>1 DEF AllLeft, AllRight
    <3> DEFINE w1 == s * t1  w2 == s * t2  w3 == s * t3
    <3>2. w1 \in Int /\ w2 \in Int /\ w3 \in Int /\ w1 > 0 /\ w2 > 0 /\ w3 > 0
      BY <3>1
    <3>3. w2 * h1 + w3 * h2 + w1 * h3 = s * (t2 * h1 + t3 * h2 + t1 * h3)
      OBVIOUS
    <3>4. w2 * h1 + w3 * h2 + w1 * h3 = 0
      BY <3>3
    <3> HIDE DEF w1, w2, w3
    <3>5. \A w, h \in Int : w > 0 => /\ h > 0 => w * h > 0
                                     /\ h < 0 => w * h < 0
                                     /\ h = 0 => w * h = 0
      OBVIOUS
    <3>6. w2 * h1 \in Int /\ w3 * h2 \in Int /\ w1 * h3 \in Int
      BY <3>2
    <3>7. h1 = 0 /\ h2 = 0 /\ h3 = 0
      BY <1>8, <3>2, <3>4, <3>5, <3>6
    <3> QED BY <3>7 DEF AllLeft, AllRight
  <2> QED BY <2>1, <2>2 DEF Tells, Odd
<1> QED BY <1>2, <1>3, <1>4, <1>5, <1>6, <1>7, <1>8

LEMMA OddOfThree ==
    ASSUME NEW C \in SUBSET (1..3)
    PROVE  T!Cardinality(C) % 2 = 1 <=> Odd(1 \in C, 2 \in C, 3 \in C)
<1>1. T!Cardinality(C) = Cardinality(C)
  BY DEF T!Cardinality, Cardinality
<1>2. \A x, y, z \in 1..3 : /\ Cardinality({}) = 0 /\ Cardinality({x}) = 1
                            /\ x # y => Cardinality({x, y}) = 2
                            /\ x # y /\ x # z /\ y # z => Cardinality({x, y, z}) = 3
  <2> SUFFICES ASSUME NEW x \in 1..3, NEW y \in 1..3, NEW z \in 1..3
               PROVE  /\ Cardinality({}) = 0 /\ Cardinality({x}) = 1
                      /\ x # y => Cardinality({x, y}) = 2
                      /\ x # y /\ x # z /\ y # z => Cardinality({x, y, z}) = 3
    OBVIOUS
  <2>1. IsFiniteSet({x}) /\ Cardinality({x}) = 1 /\ Cardinality({}) = 0
    BY FS_EmptySet, FS_Singleton
  <2>2. IsFiniteSet({x, y}) /\ (x # y => Cardinality({x, y}) = 2)
    <3>1. {x, y} = {x} \cup {y}
      OBVIOUS
    <3> QED BY <2>1, <3>1, FS_AddElement
  <2>3. x # y /\ x # z /\ y # z => Cardinality({x, y, z}) = 3
    <3>1. {x, y, z} = {x, y} \cup {z}
      OBVIOUS
    <3> QED BY <2>2, <3>1, FS_AddElement
  <2> QED BY <2>1, <2>2, <2>3
<1>0. /\ Cardinality({1, 2, 3}) = 3 /\ Cardinality({1, 2}) = 2
      /\ Cardinality({1, 3}) = 2 /\ Cardinality({2, 3}) = 2
  <2>1. 1 \in 1..3 /\ 2 \in 1..3 /\ 3 \in 1..3 /\ 1 # 2 /\ 1 # 3 /\ 2 # 3
    OBVIOUS
  <2> QED BY <1>2, <2>1
<1>3. 0 % 2 = 0 /\ 1 % 2 = 1 /\ 2 % 2 = 0 /\ 3 % 2 = 1
  OBVIOUS
<1>4. \A n \in C : n = 1 \/ n = 2 \/ n = 3
  OBVIOUS
<1>5. CASE 1 \in C /\ 2 \in C /\ 3 \in C
  <2>1. C = {1, 2, 3}
    BY <1>4, <1>5
  <2>2. Cardinality(C) = 3
    BY <1>0, <2>1
  <2> QED BY <1>1, <1>3, <1>5, <2>2 DEF Odd
<1>6. CASE 1 \in C /\ 2 \in C /\ 3 \notin C
  <2>1. C = {1, 2}
    BY <1>4, <1>6
  <2>2. Cardinality(C) = 2
    BY <1>0, <2>1
  <2> QED BY <1>1, <1>3, <1>6, <2>2 DEF Odd
<1>7. CASE 1 \in C /\ 2 \notin C /\ 3 \in C
  <2>1. C = {1, 3}
    BY <1>4, <1>7
  <2>2. Cardinality(C) = 2
    BY <1>0, <2>1
  <2> QED BY <1>1, <1>3, <1>7, <2>2 DEF Odd
<1>8. CASE 1 \notin C /\ 2 \in C /\ 3 \in C
  <2>1. C = {2, 3}
    BY <1>4, <1>8
  <2>2. Cardinality(C) = 2
    BY <1>0, <2>1
  <2> QED BY <1>1, <1>3, <1>8, <2>2 DEF Odd
<1>9. ASSUME NEW n \in 1..3, C = {n} PROVE T!Cardinality(C) % 2 = 1
  BY <1>1, <1>2, <1>3, <1>9
<1>10. C = {} => T!Cardinality(C) % 2 = 0
  BY <1>1, <1>2, <1>3
<1>11. CASE ~(\/ 1 \in C /\ 2 \in C
              \/ 1 \in C /\ 3 \in C
              \/ 2 \in C /\ 3 \in C)
  <2>1. C = {} \/ C = {1} \/ C = {2} \/ C = {3}
    BY <1>4, <1>11
  <2> QED BY <1>9, <1>10, <2>1 DEF Odd
<1> QED BY <1>5, <1>6, <1>7, <1>8, <1>11

\* A triangle's inside and outside are told apart, from whichever corner and
\* whichever way round it was drawn.
LEMMA PolygonIsExact ==
    ASSUME NEW a \in T!Points, NEW b \in T!Points, NEW c \in T!Points, NEW p \in T!Points
    PROVE  T!InsideExactly(a, b, c, p)
<1> DEFINE t1 == T!Turn(a, b, p)  t2 == T!Turn(b, c, p)  t3 == T!Turn(c, a, p)
           h1 == T!Y(a) - T!Y(p)  h2 == T!Y(b) - T!Y(p)  h3 == T!Y(c) - T!Y(p)
           s == <<a, b, c>>
           C == {n \in DOMAIN s : T!CrossedRightOf(<<s[IF n = 1 THEN Len(s) ELSE n - 1], s[n]>>, p)}
<1>1. /\ t1 \in Int /\ t2 \in Int /\ t3 \in Int /\ h1 \in Int /\ h2 \in Int /\ h3 \in Int
      /\ t2 * h1 + t3 * h2 + t1 * h3 = 0
  <2>1. t2 * h1 + t3 * h2 + t1 * h3 = 0
    BY Centre
  <2>2. t1 \in Int /\ t2 \in Int /\ t3 \in Int
    BY TurnIs
  <2>3. h1 \in Int /\ h2 \in Int /\ h3 \in Int
    BY Corners
  <2> QED BY <2>1, <2>2, <2>3
<1>2. h1 = 0 /\ h2 = 0 /\ h3 = 0 => t1 = 0
  <2> DEFINE xa == T!X(a)  ya == T!Y(a)  xb == T!X(b)  yb == T!Y(b)  xp == T!X(p)  yp == T!Y(p)
  <2>1. /\ xa \in Int /\ ya \in Int /\ xb \in Int /\ yb \in Int /\ xp \in Int /\ yp \in Int
        /\ t1 = (xb - xa) * (yp - ya) - (yb - ya) * (xp - xa)
        /\ h1 = ya - yp /\ h2 = yb - yp
    BY Corners, TurnIs
  <2> HIDE DEF xa, ya, xb, yb, xp, yp, t1, h1, h2
  <2> SUFFICES ASSUME h1 = 0, h2 = 0 PROVE t1 = 0
    OBVIOUS
  <2>2. yp - ya = 0 /\ yb - ya = 0
    BY <2>1
  <2>3. \A k \in Int : k * 0 = 0 /\ 0 * k = 0
    OBVIOUS
  <2> QED BY <2>1, <2>2, <2>3
<1>3. Tells(h1, h2, h3, t1, t2, t3)
  <2> HIDE DEF t1, t2, t3, h1, h2, h3
  <2> QED BY <1>1, <1>2, CountTells
<1>4. /\ T!CrossedRightOf(<<c, a>>, p) <=> Counted(h3, h1, t3)
      /\ T!CrossedRightOf(<<a, b>>, p) <=> Counted(h1, h2, t1)
      /\ T!CrossedRightOf(<<b, c>>, p) <=> Counted(h2, h3, t2)
  BY CrossedIs
<1>5. DOMAIN s = 1..3 /\ Len(s) = 3 /\ s[1] = a /\ s[2] = b /\ s[3] = c
  OBVIOUS
<1>6. /\ 1 \in C <=> T!CrossedRightOf(<<c, a>>, p)
      /\ 2 \in C <=> T!CrossedRightOf(<<a, b>>, p)
      /\ 3 \in C <=> T!CrossedRightOf(<<b, c>>, p)
      /\ C \in SUBSET (1..3)
  <2> HIDE DEF s
  <2>1. 1 # 2 /\ 1 # 3 /\ 2 - 1 = 1 /\ 3 - 1 = 2 /\ 1 \in 1..3 /\ 2 \in 1..3 /\ 3 \in 1..3
    OBVIOUS
  <2> QED BY <1>5, <2>1
<1>7. T!PointInPolygon(p, s) <=> T!Cardinality(C) % 2 = 1
  <2>1. T!PointInPolygon(p, s) <=> Len(s) >= 3 /\ T!Cardinality(C) % 2 = 1
    BY DEF T!PointInPolygon
  <2> HIDE DEF s, C
  <2> QED BY <1>5, <2>1
<1> HIDE DEF C
<1>8. T!PointInPolygon(p, s) <=> Odd(Counted(h1, h2, t1), Counted(h2, h3, t2), Counted(h3, h1, t3))
  <2>1. T!PointInPolygon(p, s) <=> Odd(1 \in C, 2 \in C, 3 \in C)
    BY <1>6, <1>7, OddOfThree
  <2>2. /\ 1 \in C <=> Counted(h3, h1, t3)
        /\ 2 \in C <=> Counted(h1, h2, t1)
        /\ 3 \in C <=> Counted(h2, h3, t2)
    BY <1>4, <1>6
  <2> HIDE DEF h1, h2, h3, t1, t2, t3, s
  <2> QED BY <2>1, <2>2 DEF Odd
<1>9. T!Inside(p, s) => AllLeft(t1, t2, t3) \/ AllRight(t1, t2, t3)
  <2>1. T!Inside(p, s) => \/ T!Sign(t1) = 1 /\ T!Sign(t2) = 1 /\ T!Sign(t3) = 1
                          \/ T!Sign(t1) = -1 /\ T!Sign(t2) = -1 /\ T!Sign(t3) = -1
    BY <1>5 DEF T!Inside, T!Sides
  <2> HIDE DEF t1, t2, t3, s
  <2> QED BY <1>1, <2>1, SignIs DEF AllLeft, AllRight
<1>10. T!Outside(p, s) => Mixed(t1, t2, t3)
  <2>1. T!Outside(p, s) => /\ T!Sign(t1) = 1 \/ T!Sign(t2) = 1 \/ T!Sign(t3) = 1
                           /\ T!Sign(t1) = -1 \/ T!Sign(t2) = -1 \/ T!Sign(t3) = -1
    BY <1>5 DEF T!Outside, T!Sides
  <2> HIDE DEF t1, t2, t3, s
  <2> QED BY <1>1, <2>1, SignIs DEF Mixed
<1>11. T!Inside(p, s) => T!PointInPolygon(p, s)
  BY <1>3, <1>8, <1>9 DEF Tells
<1>12. T!Outside(p, s) => ~T!PointInPolygon(p, s)
  BY <1>3, <1>8, <1>10 DEF Tells
<1> QED BY <1>11, <1>12 DEF T!InsideExactly

\* One more zone has the effect that its mode says.
LEMMA ZonesAreMonotone ==
    ASSUME NEW a, NEW b, NEW c, NEW p
    PROVE  T!FilterMonotone(a, b, c, p)
<1> DEFINE zone(mode, classes, points) == [mode |-> mode, classes |-> classes, points |-> points]
           corner == <<<<0, 0>>, <<Side - 1, 0>>, <<0, Side - 1>>>>
           covers(z) == T!MatchesClass(z, "person") /\ T!PointInPolygon(p, z.points)
           concerned(zones) == {z \in zones : z.mode = "include" /\ T!MatchesClass(z, "person")}
<1>1. \A zones : T!Passes("person", p, zones) <=>
          /\ ~\E z \in zones : z.mode = "exclude" /\ covers(z)
          /\ concerned(zones) # {} => \E z \in concerned(zones) : covers(z)
  BY DEF T!Passes
<1> HIDE DEF corner
<1>2. ASSUME NEW one \in {{}, {"person"}, {"car"}}, NEW two \in {{}, {"person"}, {"car"}}
      PROVE  LET drawn == {zone("include", one, <<a, b, c>>)}
             IN  /\ T!Passes("person", p, drawn \cup {zone("exclude", two, corner)})
                        => T!Passes("person", p, drawn)
                 /\ one # {"car"} /\ T!Passes("person", p, drawn) =>
                        T!Passes("person", p, drawn \cup {zone("include", two, corner)})
  <2> DEFINE mine == zone("include", one, <<a, b, c>>)
             less == zone("exclude", two, corner)
             more == zone("include", two, corner)
  <2>1. mine.mode = "include" /\ less.mode = "exclude" /\ more.mode = "include" /\ mine.classes = one
    OBVIOUS
  <2>2. one # {"car"} => T!MatchesClass(mine, "person")
    BY DEF T!MatchesClass
  <2> HIDE DEF zone, mine, less, more, covers
  <2>3. "include" # "exclude"
    OBVIOUS
  <2>4. concerned({mine} \cup {less}) = concerned({mine})
    BY <2>1, <2>3
  <2>5. T!Passes("person", p, {mine} \cup {less}) => T!Passes("person", p, {mine})
    BY <1>1, <2>4
  <2>6. ASSUME one # {"car"}, T!Passes("person", p, {mine})
        PROVE  T!Passes("person", p, {mine} \cup {more})
    <3>1. mine \in concerned({mine}) /\ mine \in concerned({mine} \cup {more})
      BY <2>1, <2>2, <2>6
    <3>2. concerned({mine}) \subseteq {mine}
      OBVIOUS
    <3>3. covers(mine)
      BY <1>1, <2>6, <3>1, <3>2
    <3>4. ~\E z \in {mine} \cup {more} : z.mode = "exclude" /\ covers(z)
      BY <2>1, <2>3
    <3> QED BY <1>1, <3>1, <3>3, <3>4
  <2> QED BY <2>5, <2>6 DEF mine, less, more
<1> QED BY <1>2 DEF T!FilterMonotone, corner

\* The zones of this run and those of the trackers are the same module.
LEMMA ZonesAlike ==
    /\ Z!Points = T!Points
    /\ \A a, b, c, d : /\ Z!CrossesExactly(a, b, c, d) <=> T!CrossesExactly(a, b, c, d)
                       /\ Z!InsideExactly(a, b, c, d) <=> T!InsideExactly(a, b, c, d)
                       /\ Z!FilterMonotone(a, b, c, d) <=> T!FilterMonotone(a, b, c, d)
<1>1. Z!Points = T!Points
  BY DEF Z!Points, T!Points
<1>2. \A p, q, r : /\ Z!X(p) = T!X(p) /\ Z!Y(p) = T!Y(p) /\ Z!Turn(p, q, r) = T!Turn(p, q, r)
                   /\ Z!OnSegment(p, q, r) <=> T!OnSegment(p, q, r)
                   /\ Z!Sign(p) = T!Sign(p) /\ Z!Along(p, q) = T!Along(p, q)
                   /\ Z!CrossedRightOf(p, q) <=> T!CrossedRightOf(p, q)
                   /\ Z!Cardinality(p) = T!Cardinality(p)
                   /\ Z!MatchesClass(p, q) <=> T!MatchesClass(p, q)
  BY DEF Z!X, T!X, Z!Y, T!Y, Z!Turn, T!Turn, Z!OnSegment, T!OnSegment, Z!Min, T!Min, Z!Max, T!Max,
         Z!Sign, T!Sign, Z!Along, T!Along, Z!CrossedRightOf, T!CrossedRightOf,
         Z!Cardinality, T!Cardinality, Z!MatchesClass, T!MatchesClass
<1>3. \A p, s : Z!PointInPolygon(p, s) <=> T!PointInPolygon(p, s)
  BY <1>2 DEF Z!PointInPolygon, T!PointInPolygon
<1>4. \A a, b, c, d : Z!CrossesExactly(a, b, c, d) <=> T!CrossesExactly(a, b, c, d)
  BY <1>2 DEF Z!CrossesExactly, T!CrossesExactly, Z!SegmentsIntersect, T!SegmentsIntersect,
              Z!Apart, T!Apart, Z!Normals, T!Normals
<1>5. \A a, b, c, d : Z!InsideExactly(a, b, c, d) <=> T!InsideExactly(a, b, c, d)
  BY <1>2, <1>3 DEF Z!InsideExactly, T!InsideExactly, Z!Inside, T!Inside, Z!Outside, T!Outside,
                    Z!Sides, T!Sides
<1>6. \A a, b, c, d : Z!FilterMonotone(a, b, c, d) <=> T!FilterMonotone(a, b, c, d)
  <2>1. \A class, p, zones : Z!Passes(class, p, zones) <=> T!Passes(class, p, zones)
    BY <1>2, <1>3 DEF Z!Passes, T!Passes
  <2> QED BY <2>1 DEF Z!FilterMonotone, T!FilterMonotone
<1> QED BY <1>1, <1>4, <1>5, <1>6

-----------------------------------------------------------------------------
(* The trackers of a line and an area.                                     *)

LEMMA MaxIs ==
    ASSUME NEW S \in SUBSET Int, NEW m \in S, \A x \in S : x <= m
    PROVE  T!Max(S) = m
<1>1. \A y \in S : m >= y
  OBVIOUS
<1>2. T!Max(S) \in S /\ \A y \in S : T!Max(S) >= y
  BY <1>1 DEF T!Max
<1>3. T!Max(S) \in Int /\ m \in Int /\ T!Max(S) >= m /\ T!Max(S) <= m
  BY <1>2
<1> HIDE DEF T!Max
<1> QED BY <1>3

LEMMA SomewhereIsPlace ==
    /\ T!Nowhere \notin T!Points
    /\ T!TypeOK => /\ v3.p = T!Nowhere <=> v3 = T!Unknown
                   /\ v3 # T!Unknown => v3 \in [p : T!Points, t : Nat]
<1>1. T!Nowhere \notin T!Points
  BY TrackingAssumption DEF T!Nowhere, T!Points
<1> QED BY <1>1 DEF T!TypeOK, T!Unknown

\* While the last centroid is kept, its time is that of the last sighting.
LEMMA LastIsTheLatest ==
    ASSUME T!TypeOK, T!LastIsSeen, v3 # T!Unknown
    PROVE  T!LastSeen = v3.t
<1> DEFINE times == {s.t : s \in v7}
<1>1. v3 \in v7 /\ \A s \in v7 : s.t <= v3.t
  BY DEF T!LastIsSeen
<1>2. times \in SUBSET Int /\ v3.t \in times /\ \A x \in times : x <= v3.t
  BY <1>1 DEF T!TypeOK
<1>3. v7 # {}
  BY <1>1
<1>4. T!LastSeen = T!Max(times)
  BY <1>3 DEF T!LastSeen
<1> HIDE DEF times
<1>5. T!Max(times) = v3.t
  BY <1>2, MaxIs
<1> QED BY <1>4, <1>5

LEMMA TrackingInit == T!Init => T!IInv
<1> SUFFICES ASSUME T!Init PROVE T!IInv
  OBVIOUS
<1> USE TrackingAssumption DEF T!Init
<1>1. T!TypeOK
  <2>1. v4 \in [in : Nat, out : Nat] /\ v10 \in 0..MaxLost
    OBVIOUS
  <2>3. v9 \in BOOLEAN
    OBVIOUS
  <2>2. v3 \in {T!Unknown} /\ v5 \in {T!NotIn} /\ v8 \in {T!NoBase}
    OBVIOUS
  <2> QED BY <2>1, <2>2, <2>3 DEF T!TypeOK
<1>2. T!TimePasses
  BY DEF T!TimePasses
<1>3. T!LastIsSeen
  BY DEF T!LastIsSeen, T!OutOfSight
<1>4. T!SideKnown
  BY DEF T!SideKnown
<1>5. T!DwellsSince
  BY DEF T!DwellsSince, T!Visits
<1>6. T!NetCount
  BY DEF T!NetCount
<1> QED BY <1>1, <1>2, <1>3, <1>4, <1>5, <1>6 DEF T!IInv

LEMMA CycleTypes ==
    ASSUME T!IInv, NEW visible \in BOOLEAN, NEW p \in T!Points, T!Cycle(visible, p)
    PROVE  T!TypeOK' /\ T!TimePasses'
<1> USE TrackingAssumption DEF T!IInv, T!Cycle
<1>1. v2 \in Nat /\ v2' \in Nat /\ v2 < v2' /\ v6' = v6 \cup {v2} /\ v1' = p /\ v10' = v10
  BY DEF T!TypeOK, T!Remember
<1>2. v3' \in {T!Unknown} \cup [p : T!Points, t : Nat]
  BY <1>1 DEF T!TypeOK, T!Count
<1>3. v4' \in [in : Nat, out : Nat]
  <2>1. v4.in \in Nat /\ v4.out \in Nat /\ v4 \in [in : Nat, out : Nat]
    BY DEF T!TypeOK
  <2>2. CASE visible
    <3> DEFINE i == v4.in + (IF T!CrossesIn(v3, p) THEN 1 ELSE 0)
               o == v4.out + (IF T!CrossesOut(v3, p) THEN 1 ELSE 0)
    <3>1. i \in Nat /\ o \in Nat
      BY <2>1
    <3>2. v4' = [in |-> i, out |-> o]
      BY <2>2 DEF T!Count
    <3> QED BY <3>1, <3>2
  <2>3. CASE ~visible
    BY <2>1, <2>3 DEF T!Count
  <2> QED BY <2>2, <2>3
<1>4. v5' \in {T!NotIn} \cup [start : Nat, t : Nat]
  BY <1>1 DEF T!TypeOK, T!Dwell, T!NotIn
<1>5. /\ v7' \subseteq [t : Nat, p : T!Points]
      /\ v7' \subseteq v7 \cup {[t |-> v2, p |-> p]}
  BY <1>1 DEF T!TypeOK, T!Remember
<1>6. v8' \in {T!NoBase} \cup [p : T!Points, net : Int]
  BY <1>3 DEF T!TypeOK, T!Remember
<1>7. v9' \in BOOLEAN
  BY DEF T!TypeOK, T!Remember
<1>8. T!TypeOK'
  BY <1>1, <1>2, <1>3, <1>4, <1>5, <1>6, <1>7 DEF T!TypeOK
<1>9. T!TimePasses'
  <2>1. \A u \in v6 : u \in Nat /\ u < v2
    BY DEF T!TypeOK, T!TimePasses
  <2>2. \A u \in v6' : u < v2' /\ u <= v2
    BY <1>1, <2>1
  <2>3. \A s \in v7' : s.t \in v6'
    BY <1>1, <1>5 DEF T!TimePasses
  <2> QED BY <1>1, <2>2, <2>3 DEF T!TimePasses
<1> QED BY <1>8, <1>9

LEMMA CycleSight ==
    ASSUME T!IInv, NEW visible \in BOOLEAN, NEW p \in T!Points, T!Cycle(visible, p)
    PROVE  T!LastIsSeen'
<1> USE TrackingAssumption DEF T!IInv, T!Cycle
<1>1. v2 \in Nat /\ v6' = v6 \cup {v2} /\ v6 \subseteq Nat /\ \A u \in v6 : u < v2
  BY DEF T!TypeOK, T!TimePasses, T!Remember
<1>2. \A s \in v7 : s \in [t : Nat, p : T!Points] /\ s.t < v2
  BY DEF T!TypeOK, T!TimePasses
<1>3. CASE visible
  <2> DEFINE here == [t |-> v2, p |-> p]
             times == {s.t : s \in v7'}
  <2>1. v3' = here /\ v7' = v7 \cup {here}
    BY <1>3 DEF T!Count, T!Remember
  <2>2. here # T!Unknown /\ here.t = v2
    BY <1>1 DEF T!Unknown, T!NoTime
  <2>3. /\ \A s \in v7' : s.t \in Nat /\ s.t <= v2
        /\ v2 \in times
    BY <1>1, <1>2, <2>1, <2>2
  <2>4. times \in SUBSET Int /\ \A x \in times : x <= v2
    BY <2>3
  <2>5. T!LastSeen' = T!Max(times) /\ v7' # {}
    BY <2>1 DEF T!LastSeen
  <2> HIDE DEF times
  <2>6. T!LastSeen' = v2
    BY <2>3, <2>4, <2>5, MaxIs
  <2>7. ~T!OutOfSight'
    <3>1. \A u \in v6' : u \in Nat /\ u <= v2
      BY <1>1
    <3> QED BY <1>1, <2>5, <2>6, <3>1 DEF T!OutOfSight
  <2>8. (v8' = T!NoBase) <=> FALSE
    <3>1. v8 = T!NoBase <=> v7 = {}
      BY DEF T!LastIsSeen
    <3>2. v7 = {} => T!OutOfSight
      BY DEF T!OutOfSight
    <3>3. T!OutOfSight => v8'.p = p
      BY <1>3 DEF T!Remember
    <3>4. ~T!OutOfSight => v8' = v8
      BY <1>3 DEF T!Remember
    <3> QED BY <3>1, <3>2, <3>3, <3>4, SomewhereIsPlace DEF T!NoBase
  <2> QED BY <2>1, <2>2, <2>3, <2>5, <2>7, <2>8 DEF T!LastIsSeen
<1>4. CASE ~visible
  <2>1. /\ UNCHANGED <<v7, v8>>
        /\ v3' = IF T!Expired(v3.t) THEN T!Unknown ELSE v3
    BY <1>4 DEF T!Count, T!Remember
  <2>2. T!LastSeen' = T!LastSeen
    BY <2>1 DEF T!LastSeen
  <2>3. T!OutOfSight' <=> T!OutOfSight \/ (v2 > T!LastSeen /\ v2 - T!LastSeen > Grace)
    BY <1>1, <2>1, <2>2 DEF T!OutOfSight
  <2>4. CASE v3 = T!Unknown
    <3>1. v3' = T!Unknown
      BY <2>1, <2>4
    <3>2. T!OutOfSight'
      BY <2>3, <2>4 DEF T!LastIsSeen
    <3> QED BY <2>1, <3>1, <3>2 DEF T!LastIsSeen
  <2>5. CASE v3 # T!Unknown
    <3>1. T!LastSeen = v3.t /\ v3.t \in Nat /\ v3.t < v2 /\ ~T!OutOfSight
      BY <1>2, <2>5, LastIsTheLatest, SomewhereIsPlace DEF T!LastIsSeen
    <3>2. T!Expired(v3.t) <=> v2 - v3.t > Grace
      BY <1>1, <3>1 DEF T!Expired, T!NoTime
    <3>3. T!OutOfSight' <=> T!Expired(v3.t)
      BY <1>1, <2>3, <3>1, <3>2
    <3>4. v3' = T!Unknown <=> T!Expired(v3.t)
      BY <2>1, <2>5
    <3>5. v3' # T!Unknown => v3' = v3
      BY <2>1
    <3> QED BY <2>1, <2>5, <3>3, <3>4, <3>5 DEF T!LastIsSeen
  <2> QED BY <2>4, <2>5
<1> QED BY <1>3, <1>4

\* What a sighting adds to "in" less "out": the change of side, if the object
\* did not go round the end of the line.
LEMMA CountsTheChange ==
    ASSUME NEW l, NEW p \in T!Points, l.p \in T!Points,
           T!Beside(l.p) # 0, T!Beside(p) # 0, ~T!GoesRound(l.p, p)
    PROVE  (IF T!CrossesIn(l, p) THEN 1 ELSE 0) - (IF T!CrossesOut(l, p) THEN 1 ELSE 0)
               = T!SideOf(p) - T!SideOf(l.p)
<1>1. T!Beside(l.p) \in Int /\ T!Beside(p) \in Int
  BY SideIsInt
<1>2. /\ T!CrossesIn(l, p) <=> T!Crosses(l, p) /\ T!Beside(p) > 0
      /\ T!CrossesOut(l, p) <=> T!Crosses(l, p) /\ T!Beside(p) <= 0
  BY DEF T!CrossesIn, T!CrossesOut, T!Beside
<1>3. T!Crosses(l, p) <=> T!SegmentsIntersect(l.p, p, Line[1], Line[2])
  BY SomewhereIsPlace DEF T!Crosses
<1>4. CASE T!Sign(T!Beside(l.p)) = T!Sign(T!Beside(p))
  <2>1. ~T!Crosses(l, p)
    BY <1>3, <1>4, SameSideNoCrossing
  <2>2. T!SideOf(p) = T!SideOf(l.p)
    BY <1>1, <1>4 DEF T!Sign, T!SideOf
  <2>3. T!SideOf(p) \in Int
    BY DEF T!SideOf
  <2> QED BY <1>2, <2>1, <2>2, <2>3
<1>5. CASE T!Sign(T!Beside(l.p)) # T!Sign(T!Beside(p))
  <2>1. ~T!Apart(l.p, p, Line[1], Line[2])
    BY <1>5 DEF T!GoesRound
  <2>2. T!Crosses(l, p)
    BY <1>3, <2>1, NotRoundIsCrossing
  <2>3. \/ T!Beside(p) > 0 /\ T!Beside(l.p) < 0
        \/ T!Beside(p) < 0 /\ T!Beside(l.p) > 0
    BY <1>1, <1>5 DEF T!Sign
  <2>4. \/ T!CrossesIn(l, p) /\ ~T!CrossesOut(l, p) /\ T!SideOf(p) = 1 /\ T!SideOf(l.p) = 0
        \/ ~T!CrossesIn(l, p) /\ T!CrossesOut(l, p) /\ T!SideOf(p) = 0 /\ T!SideOf(l.p) = 1
    BY <1>1, <1>2, <2>2, <2>3 DEF T!SideOf
  <2> QED BY <2>4
<1> QED BY <1>4, <1>5

LEMMA CycleCounts ==
    ASSUME T!IInv, NEW visible \in BOOLEAN, NEW p \in T!Points, T!Cycle(visible, p)
    PROVE  T!SideKnown' /\ T!NetCount'
<1>1. /\ v4.in \in Nat /\ v4.out \in Nat
      /\ v8 # T!NoBase => v8.net \in Int
      /\ T!TypeOK /\ T!LastIsSeen /\ T!SideKnown /\ T!NetCount
  BY DEF T!IInv, T!TypeOK
<1>2. CASE ~visible
  <2>1. UNCHANGED <<v4, v8, v9>> /\ (v3' = v3 \/ v3' = T!Unknown)
    BY <1>2 DEF T!Cycle, T!Count, T!Remember
  <2>2. T!Unknown.p = T!Nowhere
    BY DEF T!Unknown
  <2>3. T!SideKnown'
    BY <1>1, <2>1 DEF T!SideKnown
  <2>4. T!NetCount'
    BY <1>1, <2>1, <2>2 DEF T!NetCount
  <2> QED BY <2>3, <2>4
<1>3. CASE visible
  <2> DEFINE i == IF T!CrossesIn(v3, p) THEN 1 ELSE 0
             o == IF T!CrossesOut(v3, p) THEN 1 ELSE 0
  <2>1. /\ v3' = [p |-> p, t |-> v2]
        /\ v4' = [in |-> v4.in + i, out |-> v4.out + o]
        /\ v8' = IF T!OutOfSight THEN [p |-> p, net |-> v4'.in - v4'.out] ELSE v8
        /\ v9' = (T!Beside(p) = 0 \/ (~T!OutOfSight /\ (v9 \/ T!GoesRound(v3.p, p))))
    BY <1>3 DEF T!Cycle, T!Count, T!Remember
  <2>2. i \in Nat /\ o \in Nat
    OBVIOUS
  <2>3. v3'.p = p /\ v4'.in = v4.in + i /\ v4'.out = v4.out + o
    BY <2>1
  <2>4. T!SideKnown'
    BY <2>1, <2>3 DEF T!SideKnown
  <2>5. SUFFICES ASSUME ~v9'
                 PROVE  v4'.in - v4'.out - v8'.net = T!SideOf(p) - T!SideOf(v8'.p)
    <3> HIDE DEF i, o
    <3>1. T!NetCount' <=>
            (v8' # T!NoBase /\ ~v9' /\ v3'.p # T!Nowhere =>
                v4'.in - v4'.out - v8'.net = T!SideOf(v3'.p) - T!SideOf(v8'.p))
      BY DEF T!NetCount, T!SideOf, T!Beside
    <3> QED BY <2>3, <2>4, <3>1
  <2>6. T!Beside(p) # 0
    BY <2>1, <2>5
  <2>7. CASE T!OutOfSight
    <3>1. v8'.p = p /\ v8'.net = v4'.in - v4'.out
      BY <2>1, <2>7
    <3>2. v4'.in \in Int /\ v4'.out \in Int /\ T!SideOf(p) \in Int
      BY <1>1, <2>3, <2>2 DEF T!SideOf
    <3> HIDE DEF i, o
    <3> QED BY <3>1, <3>2
  <2>8. CASE ~T!OutOfSight
    <3>1. ~v9 /\ ~T!GoesRound(v3.p, p) /\ v8' = v8
      BY <2>1, <2>5, <2>8
    <3>2. v3 # T!Unknown /\ v3.p \in T!Points /\ v3.p # T!Nowhere
      BY <1>1, <2>8, SomewhereIsPlace DEF T!LastIsSeen
    <3>3. T!Beside(v3.p) # 0
      BY <1>1, <3>1, <3>2 DEF T!SideKnown
    <3>4. v8 # T!NoBase
      BY <1>1, <3>2 DEF T!LastIsSeen
    <3>5. v4.in - v4.out - v8.net = T!SideOf(v3.p) - T!SideOf(v8.p)
      BY <1>1, <3>1, <3>2, <3>4 DEF T!NetCount
    <3>6. i - o = T!SideOf(p) - T!SideOf(v3.p)
      BY <2>6, <3>1, <3>2, <3>3, CountsTheChange
    <3>7. /\ v8.net \in Int /\ T!SideOf(p) \in Int /\ T!SideOf(v3.p) \in Int
          /\ T!SideOf(v8.p) \in Int
      BY <1>1, <3>4 DEF T!SideOf
    <3> HIDE DEF i, o
    <3> QED BY <1>1, <2>2, <2>3, <3>1, <3>5, <3>6, <3>7
  <2> QED BY <2>7, <2>8
<1> QED BY <1>2, <1>3

-----------------------------------------------------------------------------
(* The time spent in the area.                                             *)

\* The visits in the form the proofs use.
LEMMA VisitsAre ==
    /\ T!TypeOK => \A s : s \in T!Visits <=>
           \E v \in v7 : v.t = s /\ T!PointInPolygon(v.p, Area)
    /\ T!TypeOK /\ T!TimePasses => T!Visits \subseteq v6 /\ T!Visits \subseteq Nat
<1>1. T!TypeOK => \A s : s \in T!Visits <=>
          \E v \in v7 : v.t = s /\ T!PointInPolygon(v.p, Area)
  BY DEF T!Visits
<1> QED BY <1>1 DEF T!TypeOK, T!TimePasses

\* Up to an earlier cycle the visits are what they were: a visit is unbroken if
\* it was, and this cycle is no longer than the grace period after the last.
LEMMA UnbrokenStep ==
    ASSUME T!TypeOK, T!TimePasses, NEW s \in T!Visits,
           v6' = v6 \cup {v2}, v2' = v2 + Period,
           T!Visits' = T!Visits \/ T!Visits' = T!Visits \cup {v2}
    PROVE  T!Unbroken(s, v2)' <=>
               T!Unbroken(s, v2) /\ v2 - T!Max({v \in T!Visits' : v <= v2}) <= Grace
<1>1. /\ v2 \in Nat /\ Period \in Nat \ {0} /\ v2 < v2' /\ s < v2 /\ s \in Nat
      /\ \A u \in v6 : u \in Nat /\ u < v2
  BY TrackingAssumption, VisitsAre DEF T!TypeOK, T!TimePasses
<1> DEFINE upto(u) == {v \in T!Visits : v <= u}
           then(u) == {v \in T!Visits' : v <= u}
<1>2. \A u \in v6 : then(u) = upto(u)
  BY <1>1
<1>3. T!Unbroken(s, v2) <=> \A u \in v6 : s < u => u - T!Max(upto(u)) <= Grace
  BY <1>1 DEF T!Unbroken
<1>4. T!Unbroken(s, v2)' <=> \A u \in v6' : s < u => u - T!Max(then(u)) <= Grace
  BY <1>1 DEF T!Unbroken
<1>5. then(v2) = {v \in T!Visits' : v <= v2}
  OBVIOUS
<1> HIDE DEF upto, then
<1>6. T!Unbroken(s, v2)' <=>
          /\ \A u \in v6 : s < u => u - T!Max(upto(u)) <= Grace
          /\ v2 - T!Max(then(v2)) <= Grace
  BY <1>1, <1>2, <1>4
<1> QED BY <1>3, <1>5, <1>6

LEMMA CycleDwells ==
    ASSUME T!IInv, NEW visible \in BOOLEAN, NEW p \in T!Points, T!Cycle(visible, p)
    PROVE  T!DwellsSince'
<1> DEFINE inside == visible /\ T!PointInPolygon(p, Area)
<1>1. /\ v2 \in Nat /\ v6' = v6 \cup {v2} /\ v2' = v2 + Period
      /\ v6 \subseteq Nat /\ \A u \in v6 : u < v2
      /\ T!Visits \subseteq v6 /\ \A s \in T!Visits : s \in Nat /\ s < v2
      /\ T!TypeOK /\ T!TimePasses /\ T!DwellsSince
      /\ Period \in Nat \ {0} /\ Grace \in Nat /\ v2' \in Nat /\ v2 < v2'
  BY TrackingAssumption, VisitsAre DEF T!IInv, T!TypeOK, T!TimePasses, T!Cycle, T!Remember
<1>2. /\ T!Count(visible, p) /\ T!Dwell(visible, p) /\ T!Remember(visible, p)
      /\ T!TypeOK'
  BY CycleTypes DEF T!Cycle
<1>3. T!Visits' = IF inside THEN T!Visits \cup {v2} ELSE T!Visits
  <2>1. v7' = IF visible THEN v7 \cup {[t |-> v2, p |-> p]} ELSE v7
    BY <1>2 DEF T!Remember
  <2> DEFINE in(S) == {v \in S : T!PointInPolygon(v.p, Area)}
             here == [t |-> v2, p |-> p]
  <2>2. T!Visits = {s.t : s \in in(v7)} /\ T!Visits' = {s.t : s \in in(v7')}
    BY DEF T!Visits
  <2>3. here.t = v2 /\ here.p = p
    OBVIOUS
  <2>4. CASE inside
    <3> HIDE DEF here
    <3>1. in(v7') = in(v7) \cup {here}
      BY <2>1, <2>3, <2>4 DEF here
    <3> HIDE DEF in
    <3>2. {s.t : s \in in(v7')} = {s.t : s \in in(v7)} \cup {v2}
      BY <2>3, <3>1
    <3> QED BY <2>2, <2>4, <3>2
  <2>5. CASE ~inside
    <3>1. in(v7') = in(v7)
      BY <2>1, <2>3, <2>5
    <3> HIDE DEF in
    <3> QED BY <2>2, <2>5, <3>1
  <2> QED BY <2>4, <2>5
<1>4. \A s \in T!Visits :
          T!Unbroken(s, v2)' <=>
              T!Unbroken(s, v2) /\ v2 - T!Max({v \in T!Visits' : v <= v2}) <= Grace
  BY <1>1, <1>3, UnbrokenStep
<1>5. v5 # T!NotIn => /\ v5 \in [start : Nat, t : Nat] /\ v5.start # T!NoTime
                      /\ {v5.start, v5.t} \subseteq T!Visits
  BY <1>1 DEF T!TypeOK, T!NoTime, T!DwellsSince
<1>6. T!NotIn.start = T!NoTime /\ T!NotIn.t = T!NoTime
  BY DEF T!NotIn
<1>7. CASE inside
  <2>1. v5' = [start |-> IF v5.start = T!NoTime THEN v2 ELSE v5.start, t |-> v2]
    BY <1>2, <1>7 DEF T!Dwell
  <2>2. T!Visits' = T!Visits \cup {v2}
    BY <1>3, <1>7
  <2>3. T!Max({v \in T!Visits' : v <= v2}) = v2
    <3> DEFINE S == {v \in T!Visits' : v <= v2}
    <3>1. \A x \in T!Visits' : x \in Int
      BY <1>1, <2>2
    <3>2. S \in SUBSET Int /\ \A x \in S : x <= v2
      BY <3>1
    <3>4. v2 \in T!Visits' /\ v2 <= v2
      BY <1>1, <2>2
    <3>5. v2 \in S
      BY <3>4
    <3> HIDE DEF S
    <3>3. T!Max(S) = v2
      BY <3>2, <3>5, MaxIs
    <3> QED BY <3>3 DEF S
  <2>4. \A s \in T!Visits : T!Unbroken(s, v2)' <=> T!Unbroken(s, v2)
    BY <1>1, <1>4, <2>3
  <2>5. \A u \in v6' : ~(v2 < u)
    BY <1>1
  <2>6. v5' # T!NotIn
    BY <1>1, <1>6, <2>1 DEF T!NoTime
  <2>7. v5'.t = v2 /\ v5'.start = IF v5 = T!NotIn THEN v2 ELSE v5.start
    BY <1>5, <1>6, <2>1
  <2>8. \A v \in T!Visits' : v <= v5'.t
    BY <1>1, <2>2, <2>7
  <2>9. CASE v5 = T!NotIn
    <3>1. v5'.start = v2
      BY <2>7, <2>9
    <3>2. \A s \in T!Visits : ~T!Unbroken(s, v2)'
      BY <1>1, <2>4, <2>9 DEF T!DwellsSince
    <3>3. T!Unbroken(v5.start, v2)'
      BY <2>5, <3>1 DEF T!Unbroken
    <3>4. \A s \in T!Visits' : s < v5'.start => ~T!Unbroken(s, v2)'
      BY <1>1, <2>2, <3>1, <3>2
    <3> QED BY <2>2, <2>6, <2>7, <2>8, <3>1, <3>3, <3>4 DEF T!DwellsSince
  <2>10. CASE v5 # T!NotIn
    <3>1. v5'.start = v5.start /\ v5.start \in T!Visits
      BY <1>5, <2>7, <2>10
    <3>2. T!Unbroken(v5.start, v2)'
      <4>1. T!Unbroken(v5.start, v2)
        BY <1>1, <2>10 DEF T!DwellsSince
      <4>2. \A s : s = v5'.start => (T!Unbroken(v5.start, v2)' <=> T!Unbroken(s, v2)')
        BY DEF T!Unbroken
      <4> QED BY <2>4, <3>1, <4>1, <4>2
    <3>3. ASSUME NEW s \in T!Visits', s < v5.start
          PROVE  s \in T!Visits
      <4>1. v5.start \in Nat /\ v5.start < v2
        BY <1>1, <3>1
      <4>2. s # v2
        BY <1>1, <3>3, <4>1
      <4> QED BY <2>2, <3>3, <4>2
    <3>4. \A s \in T!Visits' : s < v5.start => ~T!Unbroken(s, v2)'
      BY <1>1, <2>4, <2>10, <3>3 DEF T!DwellsSince
    <3> QED BY <2>2, <2>6, <2>7, <2>8, <3>1, <3>2, <3>4 DEF T!DwellsSince
  <2> QED BY <2>9, <2>10
<1>8. CASE ~inside
  <2>1. v5' = IF T!Expired(v5.t) THEN T!NotIn ELSE v5
    BY <1>2, <1>8 DEF T!Dwell
  <2>2. T!Visits' = T!Visits
    BY <1>3, <1>8
  <2>3. CASE v5 = T!NotIn
    <3>1. v5' = T!NotIn
      BY <2>1, <2>3
    <3>2. \A s \in T!Visits : ~T!Unbroken(s, v2)'
      BY <1>1, <1>4, <2>3 DEF T!DwellsSince
    <3> QED BY <2>2, <3>1, <3>2 DEF T!DwellsSince
  <2>4. CASE v5 # T!NotIn
    <3>1. v5.t \in Nat /\ v5.t \in T!Visits /\ \A v \in T!Visits : v <= v5.t
      BY <1>1, <1>5, <2>4 DEF T!DwellsSince
    <3>2. T!Max({v \in T!Visits' : v <= v2}) = v5.t
      <4> DEFINE S == {v \in T!Visits' : v <= v2}
      <4>1. \A x \in T!Visits' : x \in Int
        BY <1>1, <2>2
      <4>2. S \in SUBSET Int /\ \A x \in S : x <= v5.t
        BY <2>2, <3>1, <4>1
      <4>4. v5.t \in T!Visits' /\ v5.t <= v2
        BY <1>1, <2>2, <3>1
      <4>5. v5.t \in S
        BY <4>4
      <4> HIDE DEF S
      <4>3. T!Max(S) = v5.t
        BY <4>2, <4>5, MaxIs
      <4> QED BY <4>3 DEF S
    <3>3. T!Expired(v5.t) <=> ~(v2 - v5.t <= Grace)
      BY <1>1, <3>1 DEF T!Expired, T!NoTime
    <3>4. \A s \in T!Visits : T!Unbroken(s, v2)' <=> T!Unbroken(s, v2) /\ ~T!Expired(v5.t)
      BY <1>4, <3>2, <3>3
    <3>5. CASE T!Expired(v5.t)
      BY <2>1, <2>2, <3>4, <3>5 DEF T!DwellsSince
    <3>6. CASE ~T!Expired(v5.t)
      <4>1. v5' = v5
        BY <2>1, <3>6
      <4>2. T!Unbroken(v5.start, v2)'
        <5>1. T!Unbroken(v5.start, v2)
          BY <1>1, <2>4 DEF T!DwellsSince
        <5>2. \A s : s = v5'.start => (T!Unbroken(v5.start, v2)' <=> T!Unbroken(s, v2)')
          BY DEF T!Unbroken
        <5> QED BY <1>5, <2>4, <3>4, <3>6, <4>1, <5>1, <5>2
      <4> QED BY <1>1, <1>5, <2>2, <2>4, <3>1, <3>4, <3>6, <4>1, <4>2 DEF T!DwellsSince
    <3> QED BY <3>5, <3>6
  <2> QED BY <2>3, <2>4
<1> QED BY <1>7, <1>8

LEMMA TrackingPauses ==
    ASSUME T!IInv, T!NoFrame \/ T!ResetCounts \/ UNCHANGED T!trackingVars
    PROVE  T!IInv'
<1>1. /\ UNCHANGED <<v1, v3, v5, v6, v7, v9>>
      /\ v2' = v2 \/ v2' = v2 + Period
      /\ v10' = v10 \/ (v10 < MaxLost /\ v10' = v10 + 1)
  BY DEF T!NoFrame, T!ResetCounts, T!trackingVars
<1>2. /\ T!TypeOK /\ T!TimePasses /\ T!LastIsSeen /\ T!SideKnown /\ T!DwellsSince /\ T!NetCount
  BY DEF T!IInv
<1>3. \/ UNCHANGED <<v4, v8>>
      \/ /\ v4' = [in |-> 0, out |-> 0]
         /\ v8' = IF v8 = T!NoBase THEN v8 ELSE [v8 EXCEPT !.net = @ - (v4.in - v4.out)]
  BY DEF T!NoFrame, T!ResetCounts, T!trackingVars
<1>4. v8 # T!NoBase => v8 \in [p : T!Points, net : Int]
  BY <1>2 DEF T!TypeOK
<1>5. v4.in \in Nat /\ v4.out \in Nat /\ v2 \in Nat /\ v10 \in 0..MaxLost
  BY <1>2 DEF T!TypeOK
<1>6. v8 # T!NoBase /\ ~UNCHANGED <<v4, v8>> =>
          /\ v8' \in [p : T!Points, net : Int] /\ v8'.p = v8.p
          /\ v8'.net = v8.net - (v4.in - v4.out)
  BY <1>3, <1>4, <1>5
<1>7. v8' = T!NoBase <=> v8 = T!NoBase
  <2>1. v8' \in [p : T!Points, net : Int] => v8' # T!NoBase
    BY SomewhereIsPlace DEF T!NoBase
  <2> QED BY <1>3, <1>6, <2>1
<1>8. v2' \in Nat /\ v2 <= v2' /\ v10' \in 0..MaxLost
  BY <1>1, <1>5, TrackingAssumption
<1>9. T!TypeOK'
  <2>1. v4' \in [in : Nat, out : Nat]
    BY <1>2, <1>3 DEF T!TypeOK
  <2>2. v8' \in {T!NoBase} \cup [p : T!Points, net : Int]
    BY <1>2, <1>3, <1>6, <1>7 DEF T!TypeOK
  <2> QED BY <1>1, <1>2, <1>8, <2>1, <2>2 DEF T!TypeOK
<1>10. T!TimePasses'
  <2>1. \A u \in v6 : u \in Nat /\ u < v2
    BY <1>2 DEF T!TypeOK, T!TimePasses
  <2>2. \A u \in v6 : u < v2'
    BY <1>5, <1>8, <2>1
  <2> QED BY <1>1, <1>2, <2>2 DEF T!TimePasses
<1>11. T!LastIsSeen'
  BY <1>1, <1>2, <1>7 DEF T!LastIsSeen, T!OutOfSight, T!LastSeen
<1>12. T!SideKnown'
  BY <1>1, <1>2 DEF T!SideKnown
<1>13. T!DwellsSince'
  <2>1. T!Visits' = T!Visits
    BY <1>1 DEF T!Visits
  <2>2. \A u \in v6 : u <= v2 /\ u <= v2'
    BY <1>2, <1>5, <1>8 DEF T!TypeOK, T!TimePasses
  <2>3. \A s : T!Unbroken(s, v2)' <=> T!Unbroken(s, v2)
    BY <1>1, <2>1, <2>2 DEF T!Unbroken
  <2> QED BY <1>1, <1>2, <2>1, <2>3 DEF T!DwellsSince
<1>14. T!NetCount'
  <2>1. CASE UNCHANGED <<v4, v8>>
    BY <1>1, <1>2, <2>1 DEF T!NetCount
  <2>2. CASE v8 = T!NoBase
    BY <1>7, <2>2 DEF T!NetCount
  <2>3. CASE v8 # T!NoBase /\ ~UNCHANGED <<v4, v8>>
    <3>1. v8'.p = v8.p /\ v8'.net = v8.net - (v4.in - v4.out) /\ v8.net \in Int
      BY <1>4, <1>6, <2>3
    <3>2. v4'.in = 0 /\ v4'.out = 0
      BY <1>3, <2>3
    <3>3. v4'.in - v4'.out - v8'.net = v4.in - v4.out - v8.net
      BY <1>5, <3>1, <3>2
    <3> QED BY <1>1, <1>2, <2>3, <3>1, <3>3 DEF T!NetCount
  <2> QED BY <2>1, <2>2, <2>3
<1> QED BY <1>9, <1>10, <1>11, <1>12, <1>13, <1>14 DEF T!IInv

LEMMA TrackingStep == T!IInv /\ (T!Next \/ UNCHANGED T!trackingVars) => T!IInv'
<1> SUFFICES ASSUME T!IInv, T!Next \/ UNCHANGED T!trackingVars PROVE T!IInv'
  OBVIOUS
<1>1. ASSUME NEW visible \in BOOLEAN, NEW p \in T!Points, T!Cycle(visible, p)
      PROVE  T!IInv'
  BY <1>1, CycleTypes, CycleSight, CycleCounts, CycleDwells DEF T!IInv
<1> QED BY <1>1, TrackingPauses DEF T!Next

\* Loitering as the cycles tell it: the dwell time began with the first visit
\* that is unbroken up to the last cycle.
LEMMA LoiteringTold == T!IInv => T!LoiterExact
<1> SUFFICES ASSUME T!IInv, v6 # {} PROVE T!LoiterExact
  BY DEF T!LoiterExact
<1>1. /\ T!TypeOK /\ T!TimePasses /\ T!DwellsSince
      /\ v6 \subseteq Nat /\ \A u \in v6 : u < v2
      /\ v5 # T!NotIn => v5 \in [start : Nat, t : Nat]
      /\ MinDwell \in Nat /\ v2 \in Nat
  BY TrackingAssumption DEF T!IInv, T!TypeOK, T!TimePasses
<1> DEFINE t == T!Max(v6)
<1>2. t \in v6 /\ \A u \in v6 : u <= t
  <2>1. PICK m \in v6 : \A u \in v6 : u <= m
    BY <1>1 DEF T!TimePasses
  <2>2. v6 \in SUBSET Int
    BY <1>1
  <2>3. T!Max(v6) = m
    BY <2>1, <2>2, MaxIs
  <2> QED BY <2>1, <2>3
<1> HIDE DEF t
<1>3. \A s : T!Unbroken(s, t) <=> T!Unbroken(s, v2)
  <2>1. \A u \in v6 : u <= t /\ u <= v2
    BY <1>1, <1>2
  <2> QED BY <2>1 DEF T!Unbroken
<1>4. \A s \in T!Visits : s \in Nat
  BY <1>1, VisitsAre
<1>5. T!Loiters(t) <=> \E s \in T!Visits : t - s >= MinDwell /\ T!Unbroken(s, t)
  <2>1. CASE v5 = T!NotIn
    <3>1. ~T!Loiters(t)
      BY <2>1 DEF T!Loiters, T!NotIn
    <3>2. \A s \in T!Visits : ~T!Unbroken(s, t)
      BY <1>1, <1>3, <2>1 DEF T!DwellsSince
    <3> QED BY <3>1, <3>2
  <2>2. CASE v5 # T!NotIn
    <3>1. /\ v5.start \in T!Visits /\ v5.start \in Nat /\ T!Unbroken(v5.start, t)
          /\ \A s \in T!Visits : T!Unbroken(s, t) => ~(s < v5.start)
      BY <1>1, <1>3, <2>2 DEF T!DwellsSince
    <3>2. T!Loiters(t) <=> t - v5.start >= MinDwell
      BY <3>1 DEF T!Loiters, T!NoTime
    <3>3. ASSUME NEW s \in T!Visits, t - s >= MinDwell, T!Unbroken(s, t)
          PROVE  t - v5.start >= MinDwell
      <4>1. s \in Nat /\ v5.start <= s /\ t \in Nat
        BY <1>1, <1>2, <1>4, <3>1, <3>3
      <4> QED BY <1>1, <3>1, <3>3, <4>1
    <3> QED BY <3>1, <3>2, <3>3
  <2> QED BY <2>1, <2>2
<1> QED BY <1>5 DEF T!LoiterExact, t

-----------------------------------------------------------------------------
(* Objects and their tracks.                                               *)

Scored == [score : 0..Width, id : Nat, index : Nat]

\* First is the best pair of those it chooses from.
LEMMA FirstIsBest ==
    ASSUME NEW pairs, pairs \subseteq Scored, pairs # {}
    PROVE  /\ O!First(pairs) \in pairs
           /\ \A q \in pairs : O!First(pairs).score >= q.score
<1> USE ObjectsAssumption
<1>1. \A p \in pairs : p.score \in 0..Width /\ p.id \in Nat /\ p.index \in Nat
                       /\ p = [score |-> p.score, id |-> p.id, index |-> p.index]
  BY DEF Scored
<1>2. PICK s \in {Width - p.score : p \in pairs} :
          \A k \in {Width - p.score : p \in pairs} : s <= k
  <2>1. {Width - p.score : p \in pairs} \subseteq Nat /\ {Width - p.score : p \in pairs} # {}
    BY <1>1
  <2> QED BY <2>1, LeastExists
<1> DEFINE best == {p \in pairs : Width - p.score = s}
<1>3. best # {} /\ best \subseteq pairs
  OBVIOUS
<1>4. PICK i \in {p.id : p \in best} : \A k \in {p.id : p \in best} : i <= k
  <2>1. {p.id : p \in best} \subseteq Nat /\ {p.id : p \in best} # {}
    BY <1>1, <1>3
  <2> HIDE DEF best
  <2> QED BY <2>1, LeastExists
<1> DEFINE his == {p \in best : p.id = i}
<1>5. his # {} /\ his \subseteq best
  BY <1>4
<1>6. PICK n \in {p.index : p \in his} : \A k \in {p.index : p \in his} : n <= k
  <2>1. {p.index : p \in his} \subseteq Nat /\ {p.index : p \in his} # {}
    BY <1>1, <1>3, <1>5
  <2> HIDE DEF his
  <2> QED BY <2>1, LeastExists
<1>7. PICK f \in his : f.index = n
  BY <1>6
<1>8. f \in pairs /\ f.id = i /\ Width - f.score = s /\ f.index = n
  BY <1>7
<1>9. ASSUME NEW q \in pairs \ {f} PROVE O!Before(f, q)
  <2>1. s <= Width - q.score
    BY <1>2
  <2>2. f.score >= q.score
    BY <1>1, <1>8, <2>1
  <2>3. CASE f.score # q.score
    BY <1>1, <1>8, <2>2, <2>3 DEF O!Before
  <2>4. CASE f.score = q.score
    <3>1. q \in best
      BY <1>8, <2>4
    <3>2. i <= q.id
      BY <1>4, <3>1
    <3>3. CASE q.id # i
      BY <1>1, <1>8, <2>4, <3>2, <3>3 DEF O!Before
    <3>4. CASE q.id = i
      <4>1. n <= q.index
        BY <1>6, <3>1, <3>4
      <4>2. q.index # n
        <5>1. q # f
          OBVIOUS
        <5> QED BY <1>1, <1>8, <2>4, <3>4, <5>1
      <4> QED BY <1>1, <1>8, <2>4, <3>4, <4>1, <4>2 DEF O!Before
    <3> QED BY <3>3, <3>4
  <2> QED BY <2>3, <2>4
<1> HIDE DEF best, his
<1> DEFINE g == O!First(pairs)
<1>10. g \in pairs /\ \A q \in pairs \ {g} : O!Before(g, q)
  BY <1>8, <1>9 DEF O!First
<1> HIDE DEF g
<1>11. ASSUME NEW q \in pairs PROVE g.score >= q.score
  <2>1. CASE q = g
    BY <1>1, <1>10, <2>1
  <2>2. CASE q # g
    BY <1>1, <1>10, <2>2 DEF O!Before
  <2> QED BY <2>1, <2>2
<1> QED BY <1>10, <1>11 DEF g

\* ObjectTracking counts with its own instance of FiniteSets.
LEMMA CountsAlike == \A S : O!Cardinality(S) = Cardinality(S)
BY DEF O!Cardinality, Cardinality

\* What is seen is a sequence of different objects.
LEMMA SeenIsSeq ==
    ASSUME NEW S, S \subseteq Objects, NEW seq \in O!Orders(S)
    PROVE  /\ seq \in Seq(Objects) /\ Len(seq) \in Nat /\ DOMAIN seq = 1..Len(seq)
           /\ Len(seq) <= Cardinality(Objects)
<1>1. Cardinality(S) \in Nat /\ Cardinality(S) <= Cardinality(Objects)
      /\ Cardinality(Objects) \in Nat
  BY ObjectsAssumption, FS_Subset, FS_CardinalityType
<1>2. seq \in [1..Cardinality(S) -> Objects]
  <2> DEFINE K == Cardinality(S)
  <2>1. seq \in [1..K -> S]
    BY CountsAlike DEF O!Orders
  <2> HIDE DEF K
  <2>2. seq \in [1..K -> Objects]
    BY <2>1
  <2> QED BY <2>2 DEF K
<1>3. seq \in Seq(Objects) /\ Len(seq) = Cardinality(S)
  BY <1>1, <1>2
<1> QED BY <1>1, <1>2, <1>3

LEMMA OverlapIs ==
    ASSUME NEW p \in 0..MaxX, NEW q \in 0..MaxX
    PROVE  O!Overlap(p, q) \in 0..Width
BY ObjectsAssumption DEF O!Overlap

LEMMA CandidatesAre ==
    ASSUME O!TypeOK, NEW seq \in Seq(Objects)
    PROVE  /\ O!Candidates(seq) \subseteq Scored
           /\ \A p \in O!Candidates(seq) : p.id \in O!Tracks /\ p.index \in 1..Len(seq)
<1> SUFFICES ASSUME NEW p \in O!Candidates(seq)
             PROVE  p \in Scored /\ p.id \in O!Tracks /\ p.index \in 1..Len(seq)
  OBVIOUS
<1>1. Len(seq) \in Nat /\ DOMAIN seq = 1..Len(seq) /\ \A n \in 1..Len(seq) : seq[n] \in Objects
  OBVIOUS
<1>2. PICK t \in O!Tracks, n \in 1..Len(seq) :
          p = [score |-> O!Overlap(v2[t].box, v1[seq[n]]), id |-> t, index |-> n]
  BY <1>1 DEF O!Candidates
<1>3. t \in Nat /\ t \in 1..O!MaxId
  BY DEF O!Tracks
<1>4. v2[t].box \in 0..MaxX /\ v1[seq[n]] \in 0..MaxX
  BY <1>1, <1>3 DEF O!TypeOK
<1>5. O!Overlap(v2[t].box, v1[seq[n]]) \in 0..Width
  BY <1>4, OverlapIs
<1> QED BY <1>2, <1>3, <1>5 DEF Scored

\* A turn of the loop takes the best pair that is left, if any is.
LEMMA TurnTakesTheBest ==
    ASSUME O!TypeOK, NEW seq \in Seq(Objects), NEW A, A \subseteq O!Candidates(seq)
    PROVE  /\ O!Take(seq, A) \subseteq O!Candidates(seq)
           /\ O!Free(seq, A) = {} => O!Take(seq, A) = A
           /\ O!Free(seq, A) # {} =>
                  \E f \in O!Free(seq, A) :
                      /\ O!Take(seq, A) = A \cup {f}
                      /\ \A q \in O!Free(seq, A) : f.score >= q.score
<1> DEFINE free == O!Free(seq, A)
<1>1. free \subseteq O!Candidates(seq) /\ free \subseteq Scored
  BY CandidatesAre DEF O!Free
<1>2. O!Take(seq, A) = IF free = {} THEN A ELSE A \cup {O!First(free)}
  BY DEF O!Take
<1>3. free # {} => O!First(free) \in free /\ \A q \in free : O!First(free).score >= q.score
  BY <1>1, FirstIsBest
<1> HIDE DEF free
<1>4. CASE free = {}
  BY <1>2, <1>4 DEF free
<1>5. CASE free # {}
  BY <1>1, <1>2, <1>3, <1>5 DEF free
<1> QED BY <1>4, <1>5

\* The matching is what the last turn leaves.
LEMMA MatchingIsTheLast ==
    ASSUME O!TypeOK, NEW seq \in Seq(Objects)
    PROVE  \E a \in [0..Len(seq) -> SUBSET O!Candidates(seq)] :
               /\ a[0] = {} /\ \A n \in 1..Len(seq) : a[n] = O!Take(seq, a[n - 1])
               /\ O!Matching(seq) = a[Len(seq)]
<1> DEFINE N == Len(seq)
           C == O!Candidates(seq)
           f == [k \in Nat \X SUBSET C |-> O!Take(seq, k[2])]
           g(a) == [n \in 0..N |-> IF n = 0 THEN {} ELSE O!Take(seq, a[n - 1])]
<1>1. N \in Nat /\ {} \in SUBSET C
  OBVIOUS
<1>2. f \in [Nat \X SUBSET C -> SUBSET C]
  BY TurnTakesTheBest
<1>3. PICK a \in [0..N -> SUBSET C] : a[0] = {} /\ \A n \in 1..N : a[n] = f[<<n, a[n - 1]>>]
  <2>1. PICK D, F : D = SUBSET C /\ F = f
    OBVIOUS
  <2>2. Loops(D, {}, F, N) # {}
    <3> HIDE DEF f, N
    <3> QED BY <1>1, <1>2, <2>1, LoopRuns
  <2> HIDE DEF f, N
  <2> QED BY <2>1, <2>2 DEF Loops
<1>4. \A n \in 1..N : a[n] = O!Take(seq, a[n - 1])
  <2> SUFFICES ASSUME NEW n \in 1..N PROVE a[n] = O!Take(seq, a[n - 1])
    OBVIOUS
  <2>1. n - 1 \in 0..N
    BY <1>1
  <2>2. a[n - 1] \in SUBSET C /\ n \in Nat
    BY <1>1, <2>1
  <2>3. a[n] = f[<<n, a[n - 1]>>]
    <3> HIDE DEF f
    <3> QED BY <1>3
  <2> HIDE DEF C, N
  <2> QED BY <2>2, <2>3
<1>5. a = g(a)
  <2> HIDE DEF C, N
  <2>1. \A n \in 0..N : n = 0 \/ n \in 1..N
    BY <1>1
  <2> QED BY <1>3, <1>4, <2>1
<1> DEFINE after == CHOOSE b : b = g(b)
<1>6. after = g(after)
  <2> HIDE DEF g
  <2> QED BY <1>5
<1>7. O!Matching(seq) = after[N]
  BY DEF O!Matching
<1>8. DOMAIN after = 0..N /\ \A n \in 0..N : after[n] = IF n = 0 THEN {} ELSE O!Take(seq, after[n - 1])
  <2> HIDE DEF after
  <2> QED BY <1>6
<1>9. after[N] = a[N]
  <2> HIDE DEF after, C, f
  <2> DEFINE P == {n \in 0..N : after[n] = a[n]}
  <2>1. 0 \in P
    <3>1. 0 \in 0..N /\ a[0] = {}
      BY <1>1, <1>3
    <3> HIDE DEF N
    <3> QED BY <1>8, <3>1
  <2>2. ASSUME NEW n \in 1..N, n - 1 \in P PROVE n \in P
    <3>1. n # 0 /\ n \in 0..N
      BY <1>1
    <3> HIDE DEF N
    <3> QED BY <1>4, <1>8, <2>2, <3>1
  <2> HIDE DEF P
  <2>3. \A n \in 0..N : n \in P
    BY <1>1, <2>1, <2>2, Upwards
  <2> QED BY <1>1, <2>3 DEF P
<1> QED BY <1>3, <1>4, <1>7, <1>9

\* What the loop keeps: nothing has two partners; whoever is above the
\* threshold is still free or passed over for a pair at least as good; and
\* each turn takes one more detection while any pair is free.
Indexes(A) == {p.index : p \in A}
Greedy(seq, A, n) ==
    /\ A \subseteq O!Candidates(seq)
    /\ \A p, q \in A : p # q => p.id # q.id /\ p.index # q.index
    /\ \A p \in O!Candidates(seq) \ A : O!AboveThreshold(p.score) =>
           \/ p \in O!Free(seq, A)
           \/ \E q \in A : (q.id = p.id \/ q.index = p.index) /\ q.score >= p.score
    /\ O!Free(seq, A) = {} \/ Cardinality(Indexes(A)) = n

LEMMA GreedyTurn ==
    ASSUME O!TypeOK, NEW seq \in Seq(Objects), NEW n \in Nat, NEW A, Greedy(seq, A, n)
    PROVE  Greedy(seq, O!Take(seq, A), n + 1)
<1> DEFINE C == O!Candidates(seq)
           free == O!Free(seq, A)
           B == O!Take(seq, A)
<1>1. A \subseteq C /\ B \subseteq C
  BY TurnTakesTheBest DEF Greedy
<1>2. CASE free = {}
  <2>1. B = A
    BY <1>1, <1>2, TurnTakesTheBest
  <2> QED BY <1>2, <2>1 DEF Greedy
<1>3. CASE free # {}
  <2>1. PICK f \in free : B = A \cup {f} /\ \A q \in free : f.score >= q.score
    BY <1>1, <1>3, TurnTakesTheBest
  <2>2. f \in C /\ \A q \in A : q.id # f.id /\ q.index # f.index
    BY <2>1 DEF O!Free
  <2>3. \A p \in C : p.score \in Int
    BY CandidatesAre, ObjectsAssumption DEF Scored
  <2>4. \A p, q \in B : p # q => p.id # q.id /\ p.index # q.index
    BY <2>1, <2>2 DEF Greedy
  <2>5. ASSUME NEW p \in C \ B, O!AboveThreshold(p.score), p \notin O!Free(seq, B)
        PROVE  \E q \in B : (q.id = p.id \/ q.index = p.index) /\ q.score >= p.score
    <3>1. CASE p \in free
      <4>1. p.id = f.id \/ p.index = f.index
        BY <2>1, <2>5, <3>1 DEF O!Free
      <4> QED BY <2>1, <3>1, <4>1
    <3>2. CASE p \notin free
      <4>1. p \in C \ A
        BY <2>1
      <4> QED BY <2>1, <2>5, <3>2, <4>1 DEF Greedy
    <3> QED BY <3>1, <3>2
  <2>6. Cardinality(Indexes(B)) = n + 1
    <3>1. Cardinality(Indexes(A)) = n
      BY <1>3 DEF Greedy
    <3>2. Indexes(B) = Indexes(A) \cup {f.index} /\ f.index \notin Indexes(A)
      BY <2>1, <2>2 DEF Indexes
    <3>3. IsFiniteSet(Indexes(A))
      <4>1. Indexes(A) \subseteq 1..Len(seq)
        BY <1>1, CandidatesAre DEF Indexes
      <4>2. Len(seq) \in Int /\ 1 \in Int
        OBVIOUS
      <4>3. IsFiniteSet(1..Len(seq))
        BY <4>2, FS_Interval
      <4> QED BY <4>1, <4>3, FS_Subset
    <3> QED BY <3>1, <3>2, <3>3, FS_AddElement
  <2> QED BY <1>1, <2>4, <2>5, <2>6 DEF Greedy
<1> QED BY <1>2, <1>3

LEMMA MatchingIsGreedy ==
    ASSUME O!TypeOK, NEW seq \in Seq(Objects)
    PROVE  Greedy(seq, O!Matching(seq), Len(seq)) /\ O!Free(seq, O!Matching(seq)) = {}
<1> DEFINE N == Len(seq)
           C == O!Candidates(seq)
<1>1. N \in Nat
  OBVIOUS
<1>2. PICK a \in [0..N -> SUBSET C] :
          /\ a[0] = {} /\ \A n \in 1..N : a[n] = O!Take(seq, a[n - 1])
          /\ O!Matching(seq) = a[N]
  BY MatchingIsTheLast
<1> HIDE DEF N
<1> DEFINE P == {n \in 0..N : Greedy(seq, a[n], n)}
<1>3. Greedy(seq, a[0], 0)
  <2>1. Indexes({}) = {} /\ Cardinality({}) = 0
    BY FS_EmptySet DEF Indexes
  <2> QED BY <1>2, <2>1 DEF Greedy, O!Free
<1>4. ASSUME NEW n \in 1..N, n - 1 \in P PROVE n \in P
  <2>1. n \in 0..N /\ n - 1 \in 0..N /\ n - 1 \in Nat /\ (n - 1) + 1 = n
    BY <1>1
  <2>2. Greedy(seq, O!Take(seq, a[n - 1]), (n - 1) + 1)
    BY <1>4, <2>1, GreedyTurn
  <2> QED BY <1>2, <2>1, <2>2
<1>5. Greedy(seq, a[N], N)
  <2>1. 0 \in P
    BY <1>1, <1>3
  <2> HIDE DEF P
  <2>2. \A n \in 0..N : n \in P
    BY <1>1, <1>4, <2>1, Upwards
  <2> QED BY <1>1, <2>2 DEF P
<1>6. ASSUME O!Free(seq, a[N]) # {} PROVE FALSE
  <2>1. Cardinality(Indexes(a[N])) = N
    BY <1>5, <1>6 DEF Greedy
  <2>2. Indexes(a[N]) \subseteq 1..N
    BY <1>5, CandidatesAre DEF Indexes, Greedy, N
  <2>3. IsFiniteSet(1..N) /\ Cardinality(1..N) = N
    <3>1. N \in Int /\ 1 \in Int
      BY <1>1
    <3>2. IsFiniteSet(1..N) /\ Cardinality(1..N) = IF 1 > N THEN 0 ELSE N - 1 + 1
      BY <3>1, FS_Interval
    <3> QED BY <1>1, <3>2
  <2>4. Indexes(a[N]) = 1..N
    <3> DEFINE I == Indexes(a[N])
    <3>1. I \in SUBSET (1..N) /\ Cardinality(I) = N
      BY <2>1, <2>2
    <3> HIDE DEF I
    <3>2. I = 1..N
      BY <2>3, <3>1, FS_Subset
    <3> QED BY <3>2 DEF I
  <2>5. PICK f \in O!Free(seq, a[N]) : TRUE
    BY <1>6
  <2>6. f \in C /\ \A q \in a[N] : q.index # f.index
    BY <2>5 DEF O!Free
  <2>7. f.index \in 1..N
    BY <2>6, CandidatesAre DEF N
  <2> QED BY <2>4, <2>6, <2>7 DEF Indexes
<1> QED BY <1>2, <1>5, <1>6 DEF N

TrackRows == [is : BOOLEAN, box : 0..MaxX, hits : 0..MaxCycles, misses : 0..MaxMissed]

LEMMA IdBound == /\ Cardinality(Objects) \in Nat /\ O!Cardinality(Objects) = Cardinality(Objects)
                 /\ O!MaxId \in Nat /\ O!MaxId = MaxCycles * Cardinality(Objects)
<1>1. Cardinality(Objects) \in Nat /\ O!Cardinality(Objects) = Cardinality(Objects)
  BY ObjectsAssumption, FS_CardinalityType, CountsAlike
<1>2. \A c \in Nat : MaxCycles * c \in Nat
  BY ObjectsAssumption
<1> QED BY <1>1, <1>2 DEF O!MaxId

LEMMA ObjectsInit == O!Init => O!IInv
<1> SUFFICES ASSUME O!Init PROVE O!IInv
  OBVIOUS
<1> USE ObjectsAssumption
<1>1. /\ v1 \in [Objects -> 0..MaxX] /\ v2 = [t \in 1..O!MaxId |-> O!NoTrack] /\ v3 = 1
      /\ v4 = {} /\ v5 = {} /\ v6 = {} /\ v7 = [t \in 1..O!MaxId |-> {}] /\ v8 = 0
  BY DEF O!Init
<1>2. O!NoTrack \in TrackRows /\ O!NoTrack.is = FALSE
  BY DEF O!NoTrack, TrackRows
<1>3. O!TypeOK
  BY <1>1, <1>2, IdBound DEF O!TypeOK, TrackRows
<1>4. O!SeenAsCounted
  BY <1>1, <1>2 DEF O!SeenAsCounted, O!Tracks
<1>5. O!IdsAreNew
  <2>1. \A c \in Nat : 1 <= 0 * c + 1
    OBVIOUS
  <2> QED BY <1>1, <2>1, IdBound DEF O!IdsAreNew
<1>6. O!Stable /\ O!SurfacedPersists
  BY <1>1 DEF O!Stable, O!SurfacedPersists
<1> QED BY <1>1, <1>3, <1>4, <1>5, <1>6 DEF O!IInv

\* The detections without a track get the ids from nextId on.
LEMMA NewIdsFollow ==
    ASSUME O!TypeOK, NEW seq \in Seq(Objects), NEW pairs
    PROVE  LET new == O!Unmatched(seq, pairs) IN
           /\ new \subseteq 1..Len(seq) /\ Cardinality(new) \in 0..Len(seq)
           /\ O!Cardinality(new) = Cardinality(new)
           /\ \A n \in new : O!NewId(new, n) \in v3..(v3 + Cardinality(new) - 1)
<1> DEFINE new == O!Unmatched(seq, pairs)
<1>1. new \subseteq 1..Len(seq) /\ Len(seq) \in Nat
  BY DEF O!Unmatched
<1>2. IsFiniteSet(1..Len(seq)) /\ Cardinality(1..Len(seq)) = Len(seq)
  <2>1. Len(seq) \in Int /\ 1 \in Int
    BY <1>1
  <2>2. IsFiniteSet(1..Len(seq))
        /\ Cardinality(1..Len(seq)) = IF 1 > Len(seq) THEN 0 ELSE Len(seq) - 1 + 1
    BY <2>1, FS_Interval
  <2> QED BY <1>1, <2>2
<1> HIDE DEF new
<1>3. IsFiniteSet(new) /\ Cardinality(new) \in Nat /\ Cardinality(new) <= Len(seq)
  BY <1>1, <1>2, FS_Subset, FS_CardinalityType
<1>4. ASSUME NEW n \in new PROVE O!NewId(new, n) \in v3..(v3 + Cardinality(new) - 1)
  <2> DEFINE less == {m \in new : m < n}
  <2>1. less \subseteq new /\ less # new
    BY <1>1
  <2> HIDE DEF less
  <2>2. Cardinality(less) \in Nat /\ Cardinality(less) <= Cardinality(new)
        /\ Cardinality(less) # Cardinality(new)
    BY <1>3, <2>1, FS_Subset, FS_CardinalityType
  <2>3. O!NewId(new, n) = v3 + Cardinality(less)
    BY CountsAlike DEF O!NewId, less
  <2>4. v3 \in Nat
    BY IdBound DEF O!TypeOK
  <2> QED BY <1>3, <2>2, <2>3, <2>4
<1> QED BY <1>1, <1>3, <1>4, CountsAlike DEF new

\* What update makes of each id: seen again, missed, new, or unused.
SeenAgain(t) ==
    /\ v2[t].is /\ t < v3
    /\ \E b \in 0..MaxX : v2'[t] = [is |-> TRUE, box |-> b, hits |-> v2[t].hits + 1, misses |-> 0]
    /\ v7'[t] = v7[t] \cup {v8 + 1}
NotSeen(t) ==
    /\ v2[t].is /\ t < v3
    /\ v2'[t] = O!Missed(t)
    /\ v7'[t] = v7[t]
SeenFirst(t) ==
    /\ t \in v3..(v3' - 1)
    /\ \E b \in 0..MaxX : v2'[t] = [is |-> TRUE, box |-> b, hits |-> 1, misses |-> 0]
    /\ v7[t] = {} /\ v7'[t] = {v8 + 1}
Unused(t) ==
    /\ v2'[t] = O!NoTrack
    /\ v7'[t] = v7[t]

LEMMA EachIdIs ==
    ASSUME O!IInv, NEW seq \in Seq(Objects), O!Update(seq)
    PROVE  /\ v3' - v3 \in 0..Len(seq)
           /\ \A t \in 1..O!MaxId : SeenAgain(t) \/ NotSeen(t) \/ SeenFirst(t) \/ Unused(t)
           /\ \A p \in O!Matching(seq) : p.id \in 1..O!MaxId /\ SeenAgain(p.id)
           /\ \A t \in 1..O!MaxId :
                  (\E n \in O!Unmatched(seq, O!Matching(seq)) :
                      O!NewId(O!Unmatched(seq, O!Matching(seq)), n) = t) => SeenFirst(t)
<1> DEFINE pairs == O!Matching(seq)
           new == O!Unmatched(seq, pairs)
           Seen(t) == (\E p \in pairs : p.id = t) \/ (\E n \in new : O!NewId(new, n) = t)
<1>1. /\ v2' = [t \in 1..O!MaxId |->
                   IF \E p \in pairs : p.id = t
                   THEN O!Renewed(t, v1[seq[(CHOOSE p \in pairs : p.id = t).index]])
                   ELSE IF v2[t].is THEN O!Missed(t)
                   ELSE IF \E n \in new : O!NewId(new, n) = t
                   THEN O!Fresh(v1[seq[CHOOSE n \in new : O!NewId(new, n) = t]])
                   ELSE O!NoTrack]
      /\ v3' = v3 + O!Cardinality(new)
      /\ v7' = [t \in 1..O!MaxId |-> IF Seen(t) THEN v7[t] \cup {v8 + 1} ELSE v7[t]]
  BY DEF O!Update
<1>2. \A p \in pairs : p.id \in O!Tracks /\ p.index \in 1..Len(seq)
  BY MatchingIsGreedy, CandidatesAre DEF Greedy, O!IInv
<1>3. /\ new \subseteq 1..Len(seq) /\ v3' - v3 \in 0..Len(seq) /\ v3 \in Nat /\ v3' \in Nat
      /\ \A n \in new : O!NewId(new, n) \in v3..(v3' - 1)
  <2>1. v3 \in Nat /\ Len(seq) \in Nat
    BY IdBound DEF O!IInv, O!TypeOK
  <2> HIDE DEF pairs
  <2>2. /\ new \subseteq 1..Len(seq) /\ Cardinality(new) \in 0..Len(seq)
        /\ v3' = v3 + Cardinality(new)
        /\ \A n \in new : O!NewId(new, n) \in v3..(v3 + Cardinality(new) - 1)
    BY <1>1, NewIdsFollow DEF O!IInv
  <2> QED BY <2>1, <2>2
<1>4. \A n \in 1..Len(seq) : v1[seq[n]] \in 0..MaxX
  BY DEF O!IInv, O!TypeOK
<1>5. \A t \in O!Tracks : t < v3 /\ v2[t].is /\ t \in 1..O!MaxId
  BY DEF O!IInv, O!SeenAsCounted, O!Tracks
<1> HIDE DEF pairs, new
<1>6. ASSUME NEW t \in 1..O!MaxId, \E p \in pairs : p.id = t PROVE SeenAgain(t)
  <2> DEFINE p == CHOOSE p \in pairs : p.id = t
  <2>1. p \in pairs /\ p.id = t
    BY <1>6
  <2>2. v2'[t] = O!Renewed(t, v1[seq[p.index]]) /\ v7'[t] = v7[t] \cup {v8 + 1}
    BY <1>1, <1>6
  <2> HIDE DEF p
  <2>3. t < v3 /\ v2[t].is /\ v1[seq[p.index]] \in 0..MaxX
    BY <1>2, <1>4, <1>5, <2>1
  <2> QED BY <2>2, <2>3 DEF SeenAgain, O!Renewed, O!Hits
<1>7. ASSUME NEW t \in 1..O!MaxId, \E n \in new : O!NewId(new, n) = t PROVE SeenFirst(t)
  <2> DEFINE n == CHOOSE n \in new : O!NewId(new, n) = t
  <2>1. n \in new /\ O!NewId(new, n) = t
    BY <1>7
  <2>2. t \in v3..(v3' - 1) /\ v1[seq[n]] \in 0..MaxX
    <3> HIDE DEF n
    <3> QED BY <1>3, <1>4, <2>1
  <2>3. t \notin O!Tracks /\ ~v2[t].is /\ ~ \E p \in pairs : p.id = t
    <3>1. ~(t < v3)
      BY <1>3, <2>2
    <3> QED BY <1>2, <1>5, <3>1 DEF O!Tracks
  <2>4. v2'[t] = O!Fresh(v1[seq[n]]) /\ v7'[t] = v7[t] \cup {v8 + 1}
    BY <1>1, <1>7, <2>3
  <2> HIDE DEF n
  <2>5. v7[t] = {}
    BY <1>3, <2>2 DEF O!IInv, O!IdsAreNew
  <2> QED BY <2>2, <2>4, <2>5 DEF SeenFirst, O!Fresh
<1>8. ASSUME NEW t \in 1..O!MaxId, ~ \E p \in pairs : p.id = t
      PROVE  NotSeen(t) \/ SeenFirst(t) \/ Unused(t)
  <2>1. CASE v2[t].is
    <3>1. t < v3
      BY <1>5, <2>1 DEF O!Tracks
    <3>2. ~Seen(t)
      BY <1>3, <1>8, <3>1
    <3> QED BY <1>1, <1>8, <2>1, <3>1, <3>2 DEF NotSeen
  <2>2. CASE ~v2[t].is /\ \E n \in new : O!NewId(new, n) = t
    BY <1>7, <2>2
  <2>3. CASE ~v2[t].is /\ ~ \E n \in new : O!NewId(new, n) = t
    BY <1>1, <1>8, <2>3 DEF Unused
  <2> QED BY <2>1, <2>2, <2>3
<1>9. \A p \in pairs : p.id \in 1..O!MaxId /\ SeenAgain(p.id)
  BY <1>2, <1>5, <1>6
<1> QED BY <1>3, <1>6, <1>8, <1>7, <1>9 DEF pairs, new

\* What a track has been seen at, and how long ago the last time was.
Seen(at, row, now) ==
    /\ at \subseteq 1..now
    /\ Cardinality(at) = row.hits
    /\ now - row.misses \in at
    /\ \A m \in at : m = now - row.misses \/ \E n \in at : m < n /\ n - m <= MaxMissed + 1

LEMMA SeenNow ==
    ASSUME NEW now \in Nat, NEW at, NEW row \in TrackRows, Seen(at, row, now),
           NEW b \in 0..MaxX
    PROVE  Seen(at \cup {now + 1},
                [is |-> TRUE, box |-> b, hits |-> row.hits + 1, misses |-> 0], now + 1)
<1> USE ObjectsAssumption
<1>1. row.misses \in 0..MaxMissed /\ row.hits \in Nat
  BY DEF TrackRows
<1>2. IsFiniteSet(at) /\ now + 1 \notin at /\ at \subseteq 1..now
  <2>1. at \subseteq 1..now
    BY DEF Seen
  <2>2. now \in Int /\ 1 \in Int
    OBVIOUS
  <2>3. IsFiniteSet(1..now)
    BY <2>2, FS_Interval
  <2>4. IsFiniteSet(at)
    BY <2>1, <2>3, FS_Subset
  <2>5. now + 1 \notin 1..now
    OBVIOUS
  <2> QED BY <2>1, <2>4, <2>5
<1>3. Cardinality(at \cup {now + 1}) = row.hits + 1
  <2>1. Cardinality(at) = row.hits
    BY DEF Seen
  <2> QED BY <1>2, <2>1, FS_AddElement
<1>4. at \cup {now + 1} \subseteq 1..(now + 1)
  BY <1>2
<1>5. ASSUME NEW m \in at
      PROVE  \E n \in at \cup {now + 1} : m < n /\ n - m <= MaxMissed + 1
  <2>1. CASE m = now - row.misses
    <3>1. m < now + 1 /\ (now + 1) - m <= MaxMissed + 1
      BY <1>1, <2>1
    <3> QED BY <3>1
  <2>2. CASE m # now - row.misses
    BY <2>2 DEF Seen
  <2> QED BY <2>1, <2>2
<1> QED BY <1>3, <1>4, <1>5 DEF Seen

\* A cycle with what is seen in this order
Cycle(seq) ==
    /\ Len(seq) <= Cardinality(Objects)
    /\ v8 < MaxCycles /\ v8' = v8 + 1 /\ v1' \in [Objects -> 0..MaxX]

LEMMA UpdateKeeps ==
    ASSUME O!IInv, NEW seq \in Seq(Objects), O!Update(seq), Cycle(seq)
    PROVE  O!IInv'
<1>0. v8 \in Nat /\ v8' = v8 + 1 /\ v8' \in 0..MaxCycles /\ v8 < MaxCycles /\ MaxCycles \in Nat
  BY ObjectsAssumption DEF O!IInv, Cycle
<1>1. /\ v2 \in [1..O!MaxId -> TrackRows]
      /\ v3 \in 1..(O!MaxId + 1) /\ O!MaxId \in Nat /\ v3 \in Nat
  BY IdBound DEF O!IInv, O!TypeOK, TrackRows
<1>2. /\ v3' - v3 \in 0..Cardinality(Objects) /\ Len(seq) \in Nat
      /\ \A t \in 1..O!MaxId : SeenAgain(t) \/ NotSeen(t) \/ SeenFirst(t) \/ Unused(t)
  <2>1. v3' - v3 \in 0..Len(seq) /\ Len(seq) \in Nat
        /\ \A t \in 1..O!MaxId : SeenAgain(t) \/ NotSeen(t) \/ SeenFirst(t) \/ Unused(t)
    BY EachIdIs
  <2>2. Len(seq) <= Cardinality(Objects)
    BY DEF Cycle
  <2> QED BY <2>1, <2>2, IdBound
<1>3. /\ DOMAIN v2' = 1..O!MaxId /\ v2' = [t \in 1..O!MaxId |-> v2'[t]]
      /\ v3' = v3 + O!Cardinality(O!Unmatched(seq, O!Matching(seq)))
  BY DEF O!Update
<1>4. v3' \in Nat /\ v3' >= v3 /\ v3' <= v3 + Cardinality(Objects)
  <2>1. v3' \in Int
    BY <1>1, <1>3, NewIdsFollow DEF O!IInv
  <2>2. v3' - v3 \in 0..Cardinality(Objects) /\ v3 \in Nat /\ Cardinality(Objects) \in Nat
    BY <1>1, <1>2, IdBound
  <2>3. PICK a \in Int, b, c \in Nat : a = v3' /\ b = v3 /\ c = Cardinality(Objects)
    BY <2>1, <2>2
  <2>4. a - b \in 0..c
    BY <2>2, <2>3
  <2>5. a \in Nat /\ a >= b /\ a <= b + c
    BY <2>4
  <2> QED BY <2>3, <2>5
<1>5. v3' <= v8' * Cardinality(Objects) + 1 /\ v3' <= O!MaxId + 1
  <2>1. v3 <= v8 * Cardinality(Objects) + 1
    BY IdBound DEF O!IInv, O!IdsAreNew
  <2>2. \A c, x, y \in Nat :
            /\ (x + 1) * c = x * c + c /\ x * c \in Nat
            /\ x < y => (x + 1) * c <= y * c
    <3> SUFFICES ASSUME NEW c \in Nat, NEW x \in Nat, NEW y \in Nat
                 PROVE  /\ (x + 1) * c = x * c + c /\ x * c \in Nat
                        /\ x < y => (x + 1) * c <= y * c
      OBVIOUS
    <3>1. (x + 1) * c = x * c + c /\ x * c \in Nat
      OBVIOUS
    <3>2. x < y => (x + 1) * c <= y * c
      <4> SUFFICES ASSUME x < y PROVE (x + 1) * c <= y * c
        OBVIOUS
      <4>1. PICK d \in Nat : y = (x + 1) + d
        <5>1. y - (x + 1) \in Nat /\ y = (x + 1) + (y - (x + 1))
          OBVIOUS
        <5> QED BY <5>1
      <4>2. y * c = (x + 1) * c + d * c /\ d * c \in Nat /\ (x + 1) * c \in Nat
        BY <4>1
      <4> QED BY <4>2
    <3> QED BY <3>1, <3>2
  <2>3. (v8 + 1) * Cardinality(Objects) = v8 * Cardinality(Objects) + Cardinality(Objects)
        /\ v8 * Cardinality(Objects) \in Nat
        /\ (v8 + 1) * Cardinality(Objects) <= MaxCycles * Cardinality(Objects)
    BY <1>0, <2>2, IdBound
  <2>4. v8' * Cardinality(Objects) = (v8 + 1) * Cardinality(Objects)
        /\ O!MaxId = MaxCycles * Cardinality(Objects)
    BY <1>0, IdBound
  <2>5. PICK c, x, y, z \in Nat :
            c = Cardinality(Objects) /\ x = v8 * c /\ y = (v8 + 1) * c /\ z = MaxCycles * c
    <3>1. \A c, k \in Nat : k * c \in Nat
      OBVIOUS
    <3>2. Cardinality(Objects) \in Nat /\ v8 + 1 \in Nat /\ MaxCycles \in Nat
      BY <1>0, IdBound
    <3> QED BY <1>0, <3>1, <3>2
  <2>6. v3 <= x + 1 /\ y = x + c /\ y <= z /\ v3' <= v3 + c /\ v3 \in Nat /\ v3' \in Nat
    BY <1>1, <1>4, <2>1, <2>3, <2>5
  <2>7. v3' <= y + 1 /\ v3' <= z + 1
    BY <2>6
  <2> QED BY <2>4, <2>5, <2>7
<1>6. ASSUME NEW t \in 1..O!MaxId, v2[t].is
      PROVE  Seen(v7[t], v2[t], v8) /\ t < v3
  BY <1>6, CountsAlike DEF O!IInv, O!SeenAsCounted, O!IdsAreNew, O!Tracks, Seen
<1>7. \A t \in 1..O!MaxId : v7[t] \subseteq 1..v8 /\ (t >= v3 => v7[t] = {})
  BY DEF O!IInv, O!IdsAreNew
<1>8. O!NoTrack \in TrackRows /\ ~O!NoTrack.is
  BY ObjectsAssumption DEF O!NoTrack, TrackRows
<1>9. \A at, row : Seen(at, row, v8 + 1) => at \subseteq 1..(v8 + 1)
  BY DEF Seen
\* A row that is a track has been seen as it says, and its hits fit.
<1>10. ASSUME NEW t \in 1..O!MaxId
       PROVE  /\ v2'[t] \in TrackRows
              /\ v2'[t].is => Seen(v7'[t], v2'[t], v8 + 1) /\ t < v3'
              /\ v7'[t] \subseteq 1..(v8 + 1)
              /\ t >= v3' => v7'[t] = {}
  <2>1. v2[t] \in TrackRows
    BY <1>0, <1>1
  <2>2. ASSUME NEW at, NEW row, Seen(at, row, v8 + 1), row.hits \in Int PROVE row.hits \in 0..MaxCycles
    <3>1. at \subseteq 1..(v8 + 1) /\ Cardinality(at) = row.hits
      BY <2>2 DEF Seen
    <3>2. v8 + 1 \in Int /\ 1 \in Int /\ 1 <= v8 + 1
      BY <1>0, <1>1
    <3>3. IsFiniteSet(1..(v8 + 1)) /\ Cardinality(1..(v8 + 1)) = v8 + 1
      <4>1. IsFiniteSet(1..(v8 + 1))
            /\ Cardinality(1..(v8 + 1)) = IF 1 > v8 + 1 THEN 0 ELSE (v8 + 1) - 1 + 1
        BY <3>2, FS_Interval
      <4> QED BY <1>0, <1>1, <4>1
    <3>4. Cardinality(at) \in Nat /\ Cardinality(at) <= v8 + 1
      BY <3>1, <3>3, FS_Subset, FS_CardinalityType
    <3> QED BY <1>0, <1>1, <3>1, <3>4
  <2>3. CASE SeenAgain(t)
    <3>1. PICK b \in 0..MaxX : v2'[t] = [is |-> TRUE, box |-> b, hits |-> v2[t].hits + 1, misses |-> 0]
      BY <2>3 DEF SeenAgain
    <3>2. Seen(v7[t], v2[t], v8) /\ v7'[t] = v7[t] \cup {v8 + 1} /\ t < v3
      BY <1>6, <2>3 DEF SeenAgain
    <3>3. Seen(v7'[t], v2'[t], v8 + 1)
      BY <1>0, <1>1, <2>1, <3>1, <3>2, SeenNow
    <3>4. v2'[t].hits \in 0..MaxCycles
      BY <2>1, <2>2, <3>1, <3>3 DEF TrackRows
    <3>5. v2'[t] \in TrackRows
      BY ObjectsAssumption, <3>1, <3>4 DEF TrackRows
    <3> QED BY <1>0, <1>1, <1>4, <1>9, <3>2, <3>3, <3>5
  <2>4. CASE NotSeen(t)
    <3>1. v2[t].is /\ t < v3 /\ v2'[t] = O!Missed(t) /\ v7'[t] = v7[t] /\ Seen(v7[t], v2[t], v8)
      BY <1>6, <2>4 DEF NotSeen
    <3>2. v7'[t] \subseteq 1..(v8 + 1)
      BY <1>0, <1>1, <1>7, <3>1
    <3>3. CASE v2[t].misses + 1 > MaxMissed
      <4>1. v2'[t] = O!NoTrack
        BY <3>1, <3>3 DEF O!Missed
      <4> QED BY <1>0, <1>1, <1>4, <1>8, <3>1, <3>2, <4>1
    <3>4. CASE ~(v2[t].misses + 1 > MaxMissed)
      <4> DEFINE more == v2[t].misses + 1
                 row == [v2[t] EXCEPT !.misses = more]
      <4>1. v2'[t] = row
        BY <3>1, <3>4 DEF O!Missed
      <4>2. more \in 0..MaxMissed /\ v2[t].misses \in Nat /\ (v8 + 1) - more = v8 - v2[t].misses
        <5>1. v2[t].misses \in 0..MaxMissed
          BY <2>1 DEF TrackRows
        <5> QED BY <1>0, ObjectsAssumption, <3>4, <5>1
      <4> HIDE DEF more
      <4>3. /\ row \in TrackRows /\ row.is /\ row.hits = v2[t].hits /\ row.misses = more
        BY <2>1, <3>1, <4>2 DEF TrackRows
      <4> HIDE DEF row
      <4>4. Seen(v7'[t], row, v8 + 1)
        <5>1. (v8 + 1) - row.misses = v8 - v2[t].misses
          BY <4>2, <4>3
        <5> QED BY <3>1, <3>2, <4>3, <5>1 DEF Seen
      <4> QED BY <1>0, <1>1, <1>4, <3>1, <3>2, <4>1, <4>3, <4>4
    <3> QED BY <3>3, <3>4
  <2>5. CASE SeenFirst(t)
    <3>1. PICK b \in 0..MaxX : v2'[t] = [is |-> TRUE, box |-> b, hits |-> 1, misses |-> 0]
      BY <2>5 DEF SeenFirst
    <3>2. t < v3' /\ v7'[t] = {v8 + 1}
      <4>1. t \in v3..(v3' - 1) /\ v7'[t] = {v8 + 1}
        BY <2>5 DEF SeenFirst
      <4> QED BY <1>0, <1>1, <1>4, <4>1
    <3>3. v2'[t] \in TrackRows
      BY ObjectsAssumption, <1>0, <3>1 DEF TrackRows
    <3>4. Cardinality({v8 + 1}) = 1
      BY FS_Singleton
    <3>5. Seen(v7'[t], v2'[t], v8 + 1)
      BY <1>0, <1>1, <3>1, <3>2, <3>4 DEF Seen
    <3> QED BY <1>0, <1>1, <1>4, <1>9, <3>2, <3>3, <3>5
  <2>6. CASE Unused(t)
    BY <1>0, <1>1, <1>4, <1>7, <1>8, <2>6 DEF Unused
  <2> QED BY <1>2, <2>3, <2>4, <2>5, <2>6
<1>11. O!TypeOK'
  <2>1. v2' \in [1..O!MaxId -> TrackRows]
    <3>1. \A t \in 1..O!MaxId : v2'[t] \in TrackRows
      BY <1>10
    <3> QED BY <1>3, <3>1
  <2>2. v3' \in 1..(O!MaxId + 1)
    BY <1>0, <1>1, <1>4, <1>5
  <2> QED BY <2>1, <2>2 DEF O!TypeOK, TrackRows, Cycle
<1>12. O!SeenAsCounted'
  <2> SUFFICES ASSUME NEW t \in 1..O!MaxId, v2'[t].is
               PROVE  /\ t < v3' /\ O!Cardinality(v7'[t]) = v2'[t].hits
                      /\ v8' - v2'[t].misses \in v7'[t]
                      /\ \A m \in v7'[t] : m = v8' - v2'[t].misses
                             \/ \E n \in v7'[t] : m < n /\ n - m <= MaxMissed + 1
    BY DEF O!SeenAsCounted, O!Tracks
  <2> QED BY <1>0, <1>10, CountsAlike DEF Seen
<1>13. O!IdsAreNew'
  BY <1>0, <1>5, <1>10, CountsAlike DEF O!IdsAreNew
<1>14. O!Stable'
  <2>1. v6' = O!Matching(seq) /\ v5' = O!Candidates(seq)
    BY DEF O!Update
  <2>2. Greedy(seq, O!Matching(seq), Len(seq)) /\ O!Free(seq, O!Matching(seq)) = {}
    BY MatchingIsGreedy DEF O!IInv
  <2> QED BY <2>1, <2>2 DEF O!Stable, Greedy
<1>15. O!SurfacedPersists'
  <2> SUFFICES ASSUME NEW s \in v4'
               PROVE  /\ O!Cardinality(v7'[s.id]) >= MinHits
                      /\ \A m \in v7'[s.id] : m = v8'
                             \/ \E n \in v7'[s.id] : m < n /\ n - m <= MaxMissed + 1
    BY DEF O!SurfacedPersists
  <2>1. \/ \E p \in O!Matching(seq) : s.id = p.id /\ O!Hits(p.id) >= MinHits
        \/ /\ MinHits <= 1
           /\ \E n \in O!Unmatched(seq, O!Matching(seq)) :
                  s.id = O!NewId(O!Unmatched(seq, O!Matching(seq)), n)
    BY DEF O!Update
  <2> DEFINE SeenEnough ==
          /\ s.id \in 1..O!MaxId /\ v2'[s.id].is
          /\ v2'[s.id].misses = 0 /\ v2'[s.id].hits >= MinHits
  <2>2. SeenEnough
    <3>1. ASSUME NEW p \in O!Matching(seq), s.id = p.id, O!Hits(p.id) >= MinHits PROVE SeenEnough
      <4>1. p.id \in 1..O!MaxId /\ SeenAgain(p.id)
        BY EachIdIs
      <4>2. v2'[p.id].is /\ v2'[p.id].misses = 0 /\ v2'[p.id].hits = O!Hits(p.id)
        BY <4>1 DEF SeenAgain, O!Hits
      <4> QED BY <3>1, <4>1, <4>2
    <3>2. ASSUME MinHits <= 1, NEW n \in O!Unmatched(seq, O!Matching(seq)),
                 s.id = O!NewId(O!Unmatched(seq, O!Matching(seq)), n)
          PROVE  SeenEnough
      <4>1. s.id \in 1..O!MaxId
        <5>1. PICK c \in Int : s.id \in v3..(v3 + c - 1) /\ v3' = v3 + c
          BY <1>3, <3>2, NewIdsFollow, CountsAlike DEF O!IInv
        <5>2. s.id \in Int /\ s.id >= v3 /\ s.id <= v3' - 1
          BY <1>1, <1>4, <5>1
        <5> QED BY <1>1, <1>4, <1>5, <5>2
      <4>2. SeenFirst(s.id)
        BY <3>2, <4>1, EachIdIs
      <4>3. v2'[s.id].is /\ v2'[s.id].misses = 0 /\ v2'[s.id].hits = 1
        BY <4>2 DEF SeenFirst
      <4> QED BY <3>2, <4>1, <4>3, ObjectsAssumption
    <3> QED BY <2>1, <3>1, <3>2
  <2>3. Seen(v7'[s.id], v2'[s.id], v8 + 1)
    BY <1>10, <2>2
  <2>4. v8 + 1 - 0 = v8'
    BY <1>0, <1>1
  <2> QED BY <1>0, <2>2, <2>3, <2>4, CountsAlike DEF Seen
<1> QED BY <1>0, <1>11, <1>12, <1>13, <1>14, <1>15 DEF O!IInv

LEMMA ObjectsStep == O!IInv /\ (O!Next \/ UNCHANGED O!trackerVars) => O!IInv'
<1> SUFFICES ASSUME O!IInv, O!Next \/ UNCHANGED O!trackerVars PROVE O!IInv'
  OBVIOUS
<1>1. CASE O!Next
  <2>1. PICK visible \in SUBSET Objects : \E seq \in O!Orders(visible) : O!Update(seq)
    BY <1>1 DEF O!Next
  <2>2. PICK seq \in O!Orders(visible) : O!Update(seq)
    BY <2>1
  <2>3. v8 < MaxCycles /\ v8' = v8 + 1 /\ v1' \in [Objects -> 0..MaxX]
    BY <1>1 DEF O!Next
  <2>4. seq \in Seq(Objects) /\ Len(seq) <= Cardinality(Objects)
    BY SeenIsSeq
  <2> QED BY <2>2, <2>3, <2>4, UpdateKeeps DEF Cycle
<1>2. CASE UNCHANGED O!trackerVars
  BY <1>2 DEF O!trackerVars, O!IInv, O!TypeOK, O!SeenAsCounted, O!Tracks, O!IdsAreNew,
              O!Stable, O!SurfacedPersists
<1> QED BY <1>1, <1>2

-----------------------------------------------------------------------------
(* The decisions together.                                                 *)

DecisionInv ==
    /\ which = "rules" => IInv
    /\ which = "zones" => {v1, v2, v3, v4} \subseteq Z!Points
    /\ which = "tracking" => T!IInv
    /\ which = "objects" => O!IInv
    /\ which = "recognition" => R!IInv

LEMMA InvInit == DecisionInit => DecisionInv
BY RulesInit, TrackingInit, ObjectsInit, RecognitionInit DEF DecisionInit, DecisionInv

LEMMA InvStep == DecisionInv /\ [DecisionNext]_decisionVars => DecisionInv'
<1> SUFFICES ASSUME DecisionInv, [DecisionNext]_decisionVars PROVE DecisionInv'
  OBVIOUS
<1>1. CASE CleanUp
  <2>1. IInv'
    BY <1>1, RulesStep DEF CleanUp, DecisionInv
  <2> QED BY <1>1, <2>1 DEF CleanUp, DecisionInv
<1>2. CASE TrackZones
  <2>1. T!IInv'
    BY <1>2, TrackingStep DEF TrackZones, DecisionInv
  <2> QED BY <1>2, <2>1 DEF TrackZones, DecisionInv
<1>3. CASE TrackObjects
  <2>1. O!IInv'
    BY <1>3, ObjectsStep DEF TrackObjects, DecisionInv
  <2> QED BY <1>3, <2>1 DEF TrackObjects, DecisionInv
<1>4. CASE Recognise
  <2>1. R!IInv'
    BY <1>4, RecognitionStep DEF Recognise, DecisionInv
  <2> QED BY <1>4, <2>1 DEF Recognise, DecisionInv
<1>5. CASE UNCHANGED decisionVars
  <2>1. /\ which' = which /\ UNCHANGED vars /\ UNCHANGED T!trackingVars
        /\ UNCHANGED O!trackerVars /\ UNCHANGED R!recognitionVars
    BY <1>5 DEF decisionVars, shared, T!trackingVars, O!trackerVars, R!recognitionVars
  <2>2. which = "rules" => IInv'
    BY <2>1, RulesStep DEF DecisionInv
  <2>3. which = "tracking" => T!IInv'
    BY <2>1, TrackingStep DEF DecisionInv
  <2>4. which = "objects" => O!IInv'
    BY <2>1, ObjectsStep DEF DecisionInv
  <2>5. which = "recognition" => R!IInv'
    BY <2>1, RecognitionStep DEF DecisionInv
  <2>6. which = "zones" => {v1, v2, v3, v4}' \subseteq Z!Points
    BY <1>5 DEF decisionVars, shared, DecisionInv
  <2> QED BY <2>1, <2>2, <2>3, <2>4, <2>5, <2>6 DEF DecisionInv
<1> QED BY <1>1, <1>2, <1>3, <1>4, <1>5 DEF DecisionNext

\* The type invariant of the run decisions, for whatever its machines are set
\* to: the ids of the object tracker among them, and hits that never exceed the
\* cycles there were.
THEOREM DecisionsAreTyped == DecisionSpec => []DecisionTypeOK
<1>1. DecisionInv => DecisionTypeOK
  BY DEF DecisionInv, DecisionTypeOK, IInv, T!IInv, O!IInv, R!IInv
<1> QED BY <1>1, InvInit, InvStep, PTL DEF DecisionSpec

\* One cleanup is enough for any archive and any rules, which may overlap: the
\* rules hold afterwards, the next cleanup finds nothing, and nothing goes
\* without need (maintenance.py, cleanup_preview).
THEOREM OneCleanupIsEnough == DecisionSpec => []CleanupSuffices
<1>1. DecisionInv => CleanupSuffices
  BY RulesSuffice DEF DecisionInv, CleanupSuffices
<1> QED BY <1>1, InvInit, InvStep, PTL DEF DecisionSpec

\* The matching of tracks to detections is stable, and what is surfaced was
\* seen in min_hits cycles without a gap longer than max_missed, for any
\* number of objects, any overlap and any limits (tracking.py, update).
THEOREM TracksAreRight == DecisionSpec => []TracksHold
<1>1. DecisionInv => TracksHold
  BY DEF DecisionInv, TracksHold, O!IInv
<1> QED BY <1>1, InvInit, InvStep, PTL DEF DecisionSpec

\* The test of segments is exact, a triangle's inside and outside are told
\* apart, and zones have the effect of their mode, for any points of a grid of
\* any size (line_crossing.py, zones.py).
THEOREM GeometryIsExact == DecisionSpec => []GeometryExact
<1>1. DecisionInv => GeometryExact
  BY CrossingIsExact, PolygonIsExact, ZonesAreMonotone, ZonesAlike DEF DecisionInv, GeometryExact
<1> QED BY <1>1, InvInit, InvStep, PTL DEF DecisionSpec

\* A claim comes the rule's cooldown after the one before it, or, where the rule
\* was saved since the claiming thread listed it, the cooldown that thread had
\* listed; and what is told is in the history: for any number of threads, rules
\* and edits, and any cooldowns (database.py, try_fire_automation_rule;
\* automation.py; detection/recognition.py).
THEOREM RulesAreRight == DecisionSpec => []RulesFireRightly
<1>1. DecisionInv => RulesFireRightly
  BY DEF DecisionInv, RulesFireRightly, R!IInv
<1> QED BY <1>1, InvInit, InvStep, PTL DEF DecisionSpec

\* Frames that are lost and gaps within the grace period cost neither a
\* crossing nor the time in the area, for any line, polygon, grid, frame rate
\* and grace period (line_crossing.py, loitering.py).
THEOREM GapsAreBridged == DecisionSpec => []GraceBridges
<1>1. DecisionInv => GraceBridges
  BY LoiteringTold DEF DecisionInv, GraceBridges, T!IInv
<1> QED BY <1>1, InvInit, InvStep, PTL DEF DecisionSpec
=============================================================================
