--------------------------- MODULE TaskSearchProofs ---------------------------
(***************************************************************************)
(* What the scan of task_search_in_table computes, for every number of     *)
(* tasks.  The scan is a recursive function; that it satisfies its own     *)
(* equation, and what it returns, is proved by induction over Nat, in the  *)
(* form that takes a set instead of a predicate (NatInduct).               *)
(***************************************************************************)
EXTENDS TaskSearch, WellFoundedInduction, FiniteSetTheorems, TLAPS

(* A set of numbers that holds 0 and each successor holds every number.    *)
LEMMA NatInduct ==
  ASSUME NEW S, 0 \in S, \A n \in Nat : n \in S => n + 1 \in S
  PROVE  Nat \subseteq S
<1>. DEFINE R == {ss \in Nat \X Nat : ss[1] < ss[2]}
            T == Nat \ S
<1>1. IsWellFoundedOn(R, Nat)
  BY NatLessThanWellFounded DEF OpToRel
<1>2. SUFFICES ASSUME T # {} PROVE FALSE
  OBVIOUS
<1>3. PICK x \in T : \A y \in T : ~ (<<y, x>> \in R)
  <2>1. T \subseteq Nat
    OBVIOUS
  <2>. HIDE DEF R, T
  <2>. QED  BY <1>1, <1>2, <2>1, WFMin
<1>4. x \in Nat /\ x # 0
  OBVIOUS
<1>5. x - 1 \in Nat /\ x - 1 < x /\ (x - 1) + 1 = x
  BY <1>4
<1>6. x - 1 \in T
  BY <1>4, <1>5
<1>. QED  BY <1>3, <1>5, <1>6

-----------------------------------------------------------------------------
(* The best of the first n tasks.                                          *)
Scan(c, tk, jf) ==
  CHOOSE best : best = [n \in 0 .. NumTasks |->
    IF n = 0 THEN NULL
    ELSE LET b == best[n - 1]
         IN  IF n # c /\ (b = NULL \/ tk[b] < tk[n] \/ jf[n] < jf[b])
             THEN n ELSE b]

Wins(n, b, c, tk, jf) == n # c /\ (b = NULL \/ tk[b] < tk[n] \/ jf[n] < jf[b])

IsScan(f, m, c, tk, jf) ==
  /\ f \in [0 .. m -> Tasks \cup {NULL}]
  /\ f[0] = NULL
  /\ \A n \in 1 .. m : f[n] = IF Wins(n, f[n - 1], c, tk, jf) THEN n ELSE f[n - 1]

(* Each prefix of the table has a scan: the one before, and one turn more. *)
LEMMA ScanExists ==
  ASSUME NEW c, NEW tk, NEW jf, NEW m \in 0 .. NumTasks
  PROVE  \E f : IsScan(f, m, c, tk, jf)
<1>. USE NumTasksAssumption DEF Tasks, NULL
<1>. DEFINE S == {n \in Nat : n <= NumTasks => \E f : IsScan(f, n, c, tk, jf)}
<1>1. 0 \in S
  <2>1. IsScan([n \in 0 .. 0 |-> NULL], 0, c, tk, jf)
    BY DEF IsScan
  <2>. QED  BY <2>1
<1>2. ASSUME NEW n \in Nat, n \in S PROVE n + 1 \in S
  <2>1. SUFFICES ASSUME n + 1 <= NumTasks PROVE \E f : IsScan(f, n + 1, c, tk, jf)
    OBVIOUS
  <2>2. PICK f : IsScan(f, n, c, tk, jf)
    BY <1>2, <2>1
  <2>. DEFINE w == IF Wins(n + 1, f[n], c, tk, jf) THEN n + 1 ELSE f[n]
              g == [k \in 0 .. n + 1 |-> IF k = n + 1 THEN w ELSE f[k]]
  <2>3. w \in Tasks \cup {NULL}
    BY <2>1, <2>2 DEF IsScan
  <2>4. g \in [0 .. n + 1 -> Tasks \cup {NULL}] /\ g[0] = NULL
    <3>. HIDE DEF w
    <3>. QED  BY <2>2, <2>3 DEF IsScan
  <2>5. ASSUME NEW k \in 1 .. n + 1
        PROVE  g[k] = IF Wins(k, g[k - 1], c, tk, jf) THEN k ELSE g[k - 1]
    <3>1. CASE k = n + 1
      <4>1. g[k] = w /\ g[k - 1] = f[n]
        BY <3>1
      <4>. QED  BY <3>1, <4>1
    <3>2. CASE k # n + 1
      <4>1. k \in 1 .. n /\ g[k] = f[k] /\ g[k - 1] = f[k - 1]
        BY <3>2
      <4>. QED  BY <4>1, <2>2 DEF IsScan
    <3>. QED  BY <3>1, <3>2
  <2>. HIDE DEF g
  <2>6. IsScan(g, n + 1, c, tk, jf)
    BY <2>4, <2>5 DEF IsScan
  <2>. QED  BY <2>6
<1>. HIDE DEF S
<1>3. Nat \subseteq S
  BY <1>1, <1>2, NatInduct
<1>. QED  BY <1>3 DEF S

LEMMA ScanDef ==
  ASSUME NEW c, NEW tk, NEW jf
  PROVE  IsScan(Scan(c, tk, jf), NumTasks, c, tk, jf)
<1>. USE NumTasksAssumption DEF Tasks, NULL
<1>. DEFINE body(best) == [n \in 0 .. NumTasks |->
    IF n = 0 THEN NULL
    ELSE LET b == best[n - 1]
         IN  IF n # c /\ (b = NULL \/ tk[b] < tk[n] \/ jf[n] < jf[b])
             THEN n ELSE b]
<1>1. PICK f : IsScan(f, NumTasks, c, tk, jf)
  BY ScanExists
<1>2. f = body(f)
  <2>1. \A n \in 0 .. NumTasks : f[n] = body(f)[n]
    BY <1>1 DEF IsScan, Wins
  <2>. QED  BY <1>1, <2>1 DEF IsScan
<1>. DEFINE s == Scan(c, tk, jf)
<1>3. s = body(s)
  BY <1>2 DEF Scan
<1>4. s[0] = NULL
  BY <1>3
<1>5. ASSUME NEW n \in 1 .. NumTasks
      PROVE  s[n] = IF Wins(n, s[n - 1], c, tk, jf) THEN n ELSE s[n - 1]
  <2>1. n \in 0 .. NumTasks /\ n # 0
    OBVIOUS
  <2>. HIDE DEF s
  <2>. QED  BY <1>3, <2>1 DEF Wins
<1>. DEFINE S == {n \in Nat : n <= NumTasks => s[n] \in Tasks \cup {NULL}}
<1>6. 0 \in S
  BY <1>4
<1>7. ASSUME NEW n \in Nat, n \in S PROVE n + 1 \in S
  <2>1. SUFFICES ASSUME n + 1 <= NumTasks PROVE s[n + 1] \in Tasks \cup {NULL}
    OBVIOUS
  <2>2. s[n + 1] = IF Wins(n + 1, s[n], c, tk, jf) THEN n + 1 ELSE s[n]
    BY <2>1, <1>5
  <2>. HIDE DEF s
  <2>. QED  BY <1>7, <2>1, <2>2
<1>8. Nat \subseteq S
  <2>. HIDE DEF S
  <2>. QED  BY <1>6, <1>7, NatInduct
<1>9. s \in [0 .. NumTasks -> Tasks \cup {NULL}]
  <2>1. \A n \in 0 .. NumTasks : s[n] \in Tasks \cup {NULL}
    BY <1>8
  <2>. HIDE DEF s
  <2>. QED  BY <1>3, <2>1
<1>. QED  BY <1>4, <1>5, <1>9 DEF IsScan

LEMMA SearchDef ==
  ASSUME NEW c, NEW tk, NEW jf
  PROVE  Search(c, tk, jf) = Scan(c, tk, jf)[NumTasks]
BY DEF Search, Scan
(* The scan asks of the times of the last ticks only which is earlier.     *)
LEMMA SearchByOrder ==
  ASSUME NEW c, NEW tk, NEW f, NEW g,
         \A t, u \in Tasks : f[t] < f[u] <=> g[t] < g[u]
  PROVE  Search(c, tk, f) = Search(c, tk, g)
<1>. USE NumTasksAssumption DEF Tasks, NULL
<1>. DEFINE p == Scan(c, tk, f)
            q == Scan(c, tk, g)
            S == {n \in Nat : n <= NumTasks => p[n] = q[n]}
<1>1. IsScan(p, NumTasks, c, tk, f) /\ IsScan(q, NumTasks, c, tk, g)
  BY ScanDef
<1>. HIDE DEF p, q
<1>2. 0 \in S
  BY <1>1 DEF IsScan
<1>3. ASSUME NEW n \in Nat, n \in S PROVE n + 1 \in S
  <2>1. SUFFICES ASSUME n + 1 <= NumTasks PROVE p[n + 1] = q[n + 1]
    OBVIOUS
  <2>2. n + 1 \in Tasks /\ n \in 0 .. NumTasks /\ n + 1 - 1 = n /\ p[n] = q[n]
    BY <1>3, <2>1
  <2>3. p[n] \in Tasks \cup {NULL}
    BY <1>1, <2>2 DEF IsScan
  <2>4. Wins(n + 1, p[n], c, tk, f) <=> Wins(n + 1, q[n], c, tk, g)
    BY <2>2, <2>3 DEF Wins
  <2>. QED  BY <1>1, <2>2, <2>4 DEF IsScan
<1>4. Nat \subseteq S
  <2>. HIDE DEF S
  <2>. QED  BY <1>2, <1>3, NatInduct
<1>5. p[NumTasks] = q[NumTasks]
  BY <1>4
<1>. QED  BY <1>5, SearchDef DEF p, q

(* Of tasks with equal ticks the scan chooses the first of those whose last *)
(* tick is the longest ago.                                                *)
LEMMA SearchOldest ==
  ASSUME NEW c, NEW tk, NEW jf, NEW q \in Int,
         \A t \in Tasks : jf[t] \in Int,
         \A t \in Tasks \ {c} : tk[t] = q,
         NEW other \in Tasks \ {c}
  PROVE  /\ Search(c, tk, jf) \in Tasks \ {c}
         /\ \A t \in Tasks \ {c} :
              LET s == Search(c, tk, jf)
              IN  t # s => jf[s] < jf[t] \/ (jf[s] = jf[t] /\ s < t)
<1>. USE NumTasksAssumption DEF Tasks, NULL
<1>. DEFINE s == Scan(c, tk, jf)
            Oldest(b, n) ==
              IF b = NULL THEN \A t \in 1 .. n : t = c
              ELSE /\ b \in 1 .. n /\ b # c
                   /\ \A t \in 1 .. n : t # c /\ t # b =>
                        jf[b] < jf[t] \/ (jf[b] = jf[t] /\ b < t)
            S == {n \in Nat : n <= NumTasks => Oldest(s[n], n)}
<1>1. IsScan(s, NumTasks, c, tk, jf)
  BY ScanDef
<1>. HIDE DEF s
<1>2. 0 \in S
  BY <1>1 DEF IsScan
<1>3. ASSUME NEW n \in Nat, n \in S PROVE n + 1 \in S
  <2>1. SUFFICES ASSUME n + 1 <= NumTasks PROVE Oldest(s[n + 1], n + 1)
    OBVIOUS
  <2>2. n + 1 \in Tasks /\ n \in 0 .. NumTasks /\ n + 1 - 1 = n
    BY <2>1
  <2>3. s[n + 1] = IF Wins(n + 1, s[n], c, tk, jf) THEN n + 1 ELSE s[n]
    BY <1>1, <2>2 DEF IsScan
  <2>4. s[n] \in Tasks \cup {NULL} /\ Oldest(s[n], n)
    BY <1>1, <1>3, <2>1, <2>2 DEF IsScan
  <2>5. CASE s[n] = NULL
    BY <2>3, <2>4, <2>5 DEF Wins
  <2>6. CASE s[n] # NULL
    <3>1. s[n] \in 1 .. n /\ s[n] # c /\ tk[s[n]] = q
      BY <2>4, <2>6
    <3>2. Wins(n + 1, s[n], c, tk, jf) <=> n + 1 # c /\ jf[n + 1] < jf[s[n]]
      BY <2>2, <2>6, <3>1 DEF Wins
    <3>3. CASE n + 1 # c /\ jf[n + 1] < jf[s[n]]
      <4>1. s[n + 1] = n + 1
        BY <2>3, <3>2, <3>3
      <4>2. ASSUME NEW t \in 1 .. n + 1, t # c, t # n + 1
            PROVE  jf[n + 1] < jf[t]
        BY <2>2, <2>4, <2>6, <3>1, <3>3, <4>2
      <4>. QED  BY <3>3, <4>1, <4>2
    <3>4. CASE ~ (n + 1 # c /\ jf[n + 1] < jf[s[n]])
      <4>1. s[n + 1] = s[n]
        BY <2>3, <3>2, <3>4
      <4>2. ASSUME NEW t \in 1 .. n + 1, t # c, t # s[n]
            PROVE  jf[s[n]] < jf[t] \/ (jf[s[n]] = jf[t] /\ s[n] < t)
        BY <2>2, <2>4, <2>6, <3>1, <3>4, <4>2
      <4>. QED  BY <2>6, <3>1, <4>1, <4>2
    <3>. QED  BY <3>3, <3>4
  <2>. QED  BY <2>5, <2>6
<1>4. Nat \subseteq S
  <2>. HIDE DEF S
  <2>. QED  BY <1>2, <1>3, NatInduct
<1>5. Oldest(s[NumTasks], NumTasks)
  BY <1>4
<1>6. Search(c, tk, jf) = s[NumTasks]
  BY SearchDef DEF s
<1>. QED  BY <1>5, <1>6

-----------------------------------------------------------------------------
(* The times before that of task t: its rank is their number.              *)
Below(jf, t) == {jf[u] : u \in {v \in Tasks : jf[v] < jf[t]}}

LEMMA TasksFinite == IsFiniteSet(Tasks) /\ Cardinality(Tasks) = NumTasks
BY NumTasksAssumption, FS_Interval DEF Tasks

LEMMA BelowFinite ==
  ASSUME NEW jf, NEW t \in Tasks, \A u \in Tasks : jf[u] \in Int
  PROVE  /\ IsFiniteSet(Below(jf, t))
         /\ Cardinality(Below(jf, t)) \in 0 .. NumTasks - 1
<1>. DEFINE S == {v \in Tasks : jf[v] < jf[t]}
            h == [v \in S |-> jf[v]]
<1>1. S \in SUBSET (Tasks \ {t})
  OBVIOUS
<1>2. IsFiniteSet(Tasks \ {t}) /\ Cardinality(Tasks \ {t}) = NumTasks - 1
  BY TasksFinite, FS_RemoveElement
<1>3. IsFiniteSet(S) /\ Cardinality(S) <= NumTasks - 1
  <2>. HIDE DEF S
  <2>. QED  BY <1>1, <1>2, FS_Subset
<1>4. h \in Surjection(S, Below(jf, t))
  BY DEF Surjection, Below
<1>5. IsFiniteSet(Below(jf, t)) /\ Cardinality(Below(jf, t)) <= Cardinality(S)
  <2>. HIDE DEF S, h
  <2>. QED  BY <1>3, <1>4, FS_Surjection
<1>6. Cardinality(S) \in Nat /\ Cardinality(Below(jf, t)) \in Nat
  BY <1>3, <1>5, FS_CardinalityType
<1>. QED  BY <1>3, <1>5, <1>6, NumTasksAssumption

LEMMA RankIsBelow ==
  ASSUME NEW jf, NEW t \in Tasks
  PROVE  RankOf(jf)[t] = Cardinality(Below(jf, t))
BY DEF RankOf, Below

(* Ranks are ordered as the times are.                                     *)
LEMMA RankOrder ==
  ASSUME NEW jf, \A v \in Tasks : jf[v] \in Int, NEW t \in Tasks, NEW u \in Tasks
  PROVE  RankOf(jf)[t] < RankOf(jf)[u] <=> jf[t] < jf[u]
<1>1. /\ IsFiniteSet(Below(jf, t)) /\ IsFiniteSet(Below(jf, u))
      /\ Cardinality(Below(jf, t)) \in Nat /\ Cardinality(Below(jf, u)) \in Nat
  BY BelowFinite, NumTasksAssumption
<1>2. CASE jf[t] < jf[u]
  <2>1. Below(jf, t) \in SUBSET Below(jf, u)
    BY <1>2 DEF Below
  <2>2. jf[t] \in Below(jf, u) /\ jf[t] \notin Below(jf, t)
    BY <1>2 DEF Below
  <2>3. Below(jf, u) # Below(jf, t)
    BY <2>2
  <2>4. Cardinality(Below(jf, t)) < Cardinality(Below(jf, u))
    BY <1>1, <2>1, <2>3, FS_Subset
  <2>. QED  BY <1>2, <2>4, RankIsBelow
<1>3. CASE ~ (jf[t] < jf[u])
  <2>1. Below(jf, u) \in SUBSET Below(jf, t)
    BY <1>3 DEF Below
  <2>2. Cardinality(Below(jf, u)) <= Cardinality(Below(jf, t))
    BY <1>1, <2>1, FS_Subset
  <2>. QED  BY <1>1, <1>3, <2>2, RankIsBelow
<1>. QED  BY <1>2, <1>3

(* Times in the same order have the same ranks.                            *)
LEMMA RankByOrder ==
  ASSUME NEW f, NEW g,
         \A t \in Tasks : f[t] \in Int /\ g[t] \in Int,
         \A t, u \in Tasks : f[t] < f[u] <=> g[t] < g[u]
  PROVE  RankOf(f) = RankOf(g)
<1>1. ASSUME NEW t \in Tasks
      PROVE  Cardinality(Below(f, t)) = Cardinality(Below(g, t))
  <2>. DEFINE who(x) == CHOOSE v \in Tasks : f[v] = x
              h == [x \in Below(f, t) |-> g[who(x)]]
  <2>1. ASSUME NEW x \in Below(f, t)
        PROVE  who(x) \in Tasks /\ f[who(x)] = x /\ f[who(x)] < f[t]
    BY DEF Below
  <2>2. \A u, v \in Tasks : f[u] = f[v] <=> g[u] = g[v]
    <3>1. TAKE u, v \in Tasks
    <3>2. (f[u] = f[v] <=> ~ (f[u] < f[v]) /\ ~ (f[v] < f[u]))
          /\ (g[u] = g[v] <=> ~ (g[u] < g[v]) /\ ~ (g[v] < g[u]))
      OBVIOUS
    <3>. QED  BY <3>2
  <2>3. ASSUME NEW x \in Below(f, t)
        PROVE  h[x] \in Below(g, t)
    <3>1. g[who(x)] < g[t]
      BY <2>1
    <3>2. h[x] = g[who(x)]
      OBVIOUS
    <3>. HIDE DEF who, h
    <3>. QED  BY <2>1, <3>1, <3>2 DEF Below
  <2>4. ASSUME NEW x \in Below(f, t), NEW y \in Below(f, t), h[x] = h[y]
        PROVE  x = y
    BY <2>1, <2>2, <2>4
  <2>5. ASSUME NEW y \in Below(g, t)
        PROVE  \E x \in Below(f, t) : h[x] = y
    <3>1. PICK u \in Tasks : g[u] = y /\ g[u] < g[t]
      BY DEF Below
    <3>2. f[u] \in Below(f, t)
      BY <3>1 DEF Below
    <3>3. g[who(f[u])] = g[u]
      BY <2>1, <2>2, <3>2
    <3>. QED  BY <3>1, <3>2, <3>3
  <2>6. h \in Bijection(Below(f, t), Below(g, t))
    <3>1. h \in [Below(f, t) -> Below(g, t)]
      BY <2>3
    <3>. HIDE DEF h
    <3>. QED  BY <3>1, <2>4, <2>5 DEF Bijection, Injection, Surjection, IsInjective
  <2>7. ExistsBijection(Below(f, t), Below(g, t))
    BY <2>6 DEF ExistsBijection
  <2>8. IsFiniteSet(Below(f, t))
    BY BelowFinite
  <2>. QED  BY <2>7, <2>8, FS_Bijection
<1>. QED  BY <1>1 DEF RankOf, Below

(* Before the first tick nobody is before anybody.                         *)
LEMMA RankOfEqual ==
  ASSUME NEW x \in Int
  PROVE  RankOf([t \in Tasks |-> x]) = [t \in Tasks |-> 0]
<1>1. \A t \in Tasks : Below([u \in Tasks |-> x], t) = {}
  BY DEF Below
<1>. QED  BY <1>1, FS_EmptySet DEF RankOf, Below

(* A tick later than all the others puts its task behind all the others.   *)
LEMMA RankOfLatest ==
  ASSUME NEW jf \in [Tasks -> Int], NEW c \in Tasks, NEW now \in Int,
         \A t \in Tasks : jf[t] < now
  PROVE  RankOf([jf EXCEPT ![c] = now]) = RankOf([RankOf(jf) EXCEPT ![c] = NumTasks])
<1>. DEFINE r == RankOf(jf)
            f == [jf EXCEPT ![c] = now]
            g == [r EXCEPT ![c] = NumTasks]
<1>1. r = [t \in Tasks |-> r[t]] /\ \A t \in Tasks : r[t] \in 0 .. NumTasks - 1
  <2>1. \A t \in Tasks : r[t] \in 0 .. NumTasks - 1
    BY BelowFinite, RankIsBelow
  <2>. QED  BY <2>1 DEF RankOf
<1>2. \A t, u \in Tasks : r[t] < r[u] <=> jf[t] < jf[u]
  BY RankOrder
<1>. HIDE DEF r
<1>3. \A t \in Tasks : f[t] = (IF t = c THEN now ELSE jf[t]) /\ f[t] \in Int
  OBVIOUS
<1>4. \A t \in Tasks : g[t] = (IF t = c THEN NumTasks ELSE r[t]) /\ g[t] \in Int
  BY <1>1, NumTasksAssumption
<1>. HIDE DEF f, g
<1>5. ASSUME NEW t \in Tasks, NEW u \in Tasks
      PROVE  f[t] < f[u] <=> g[t] < g[u]
  <2>1. r[t] < NumTasks /\ r[u] < NumTasks /\ jf[t] < now /\ jf[u] < now
        /\ jf[t] \in Int /\ jf[u] \in Int /\ r[t] \in Int /\ r[u] \in Int
    BY <1>1, NumTasksAssumption
  <2>2. (r[t] < r[u] <=> jf[t] < jf[u]) /\ NumTasks \in Int
    BY <1>2, NumTasksAssumption
  <2>3. /\ f[t] = IF t = c THEN now ELSE jf[t]
        /\ f[u] = IF u = c THEN now ELSE jf[u]
        /\ g[t] = IF t = c THEN NumTasks ELSE r[t]
        /\ g[u] = IF u = c THEN NumTasks ELSE r[u]
    BY <1>3, <1>4
  <2>. QED  BY <2>1, <2>2, <2>3
<1>6. RankOf(f) = RankOf(g)
  BY <1>3, <1>4, <1>5, RankByOrder
<1>. QED  BY <1>6 DEF f, g, r
=============================================================================
