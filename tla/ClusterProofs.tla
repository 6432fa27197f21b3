----------------------------- MODULE ClusterProofs ----------------------------
(***************************************************************************)
(* What union-find makes of every run of the pipeline, whatever its        *)
(* records and what of them is alike: the artifacts of the topics, the     *)
(* clusters of dedup, and the weights that mentions get from these.  A     *)
(* loop of unions is told by what each union preserves; its trees then are *)
(* the connected components of the pairs, in whatever order these came.    *)
(***************************************************************************)
EXTENDS PipelineProofs

(* Union-find: of a forest with its tops and depths a union makes another, *)
(* and the trees that unions of pairs leave are the components of the      *)
(* graph of these pairs.                                                   *)

(* Following parents is a loop.  [annotate_dedup.py:_UnionFind.find]       *)
LEMMA FindFollows ==
    ASSUME NEW D, IsFiniteSet(D), NEW p \in [D -> D], NEW x \in D
    PROVE  \E u \in [0 .. Cardinality(D) -> D] :
               /\ u[0] = x
               /\ \A n \in 1 .. Cardinality(D) : u[n] = p[u[n - 1]]
               /\ Find(p, x) = u[Cardinality(D)]
  <1> DEFINE N == Cardinality(D)
             Next0(u, n) == IF n = 0 THEN x ELSE p[u[n - 1]]
             Is(u) == u = [n \in 0 .. N |-> Next0(u, n)]
             up == CHOOSE u : Is(u)
             step == [n \in 1 .. N |-> p]
  <1>1. N \in Nat /\ DOMAIN p = D
    BY FS_CardinalityType
  <1>2. Find(p, x) = up[N]
    BY <1>1 DEF Find
  <1> HIDE DEF N
  <1>3. PICK g : Loop(g, D, N, x, step)
    <2>1. step \in [1 .. N -> [D -> D]]
      OBVIOUS
    <2> HIDE DEF step
    <2>2. QED BY <1>1, <2>1, LoopRuns
  <1>4. Is(g)
    <2>1. ASSUME NEW n \in 0 .. N PROVE g[n] = Next0(g, n)
      <3>1. CASE n = 0
        BY <1>3, <3>1 DEF Loop
      <3>2. CASE n # 0
        <4>1. n \in 1 .. N
          BY <1>1, <3>2
        <4>2. step[n] = p
          BY <4>1
        <4>3. g[n] = step[n][g[n - 1]]
          BY <1>3, <4>1 DEF Loop
        <4>4. QED BY <3>2, <4>2, <4>3
      <3>3. QED BY <3>1, <3>2
    <2> HIDE DEF Next0
    <2>2. g = [n \in 0 .. N |-> g[n]]
      BY <1>3 DEF Loop
    <2>3. QED BY <2>1, <2>2
  <1>5. Is(up)
    <2> HIDE DEF Is
    <2>1. QED BY <1>4
  <1> HIDE DEF up, step
  <1>6. \A n \in 0 .. N : up[n] = Next0(up, n)
    <2> HIDE DEF Next0
    <2>1. QED BY <1>5
  <1>7. DOMAIN up = 0 .. N
    <2> HIDE DEF Next0
    <2>1. QED BY <1>5
  <1>8. up[0] = x
    BY <1>1, <1>6
  <1>9. \A n \in 1 .. N : up[n] = p[up[n - 1]]
    <2> SUFFICES ASSUME NEW n \in 1 .. N PROVE up[n] = p[up[n - 1]]
      OBVIOUS
    <2>1. n \in 0 .. N /\ n # 0
      BY <1>1
    <2>2. up[n] = Next0(up, n)
      <3> HIDE DEF Next0
      <3>1. QED BY <1>6, <2>1
    <2>3. QED BY <2>1, <2>2
  <1> DEFINE S == {n \in 0 .. N : up[n] \in D}
  <1>10. \A n \in 0 .. N : n \in S
    <2>1. 0 \in S
      BY <1>1, <1>8
    <2>2. ASSUME NEW n \in 1 .. N, n - 1 \in S PROVE n \in S
      <3>1. n \in 0 .. N
        BY <1>1
      <3>2. up[n] = p[up[n - 1]] /\ up[n - 1] \in D
        BY <1>9, <2>2
      <3>3. QED BY <3>1, <3>2
    <2> HIDE DEF S
    <2>3. QED BY <1>1, <2>1, <2>2, StepByStep
  <1>11. up \in [0 .. N -> D]
    <2>1. \A n \in 0 .. N : up[n] \in D
      BY <1>10
    <2>2. QED BY <1>5, <1>7, <2>1
  <1>12. QED BY <1>2, <1>8, <1>9, <1>11 DEF N

\* In a forest t[x] is the top of the tree of x, and d[x] at least the number
\* of steps there; every union that takes a top away adds one step at most.
Tops(p, D, t, d) ==
    /\ p \in [D -> D] /\ t \in [D -> D] /\ d \in [D -> Nat]
    /\ \A x \in D : t[p[x]] = t[x] /\ p[t[x]] = t[x]
    /\ \A x \in D : d[x] = 0 => t[x] = x
    /\ \A x \in D : d[x] # 0 => d[p[x]] < d[x]
    /\ \A x \in D : d[x] <= Cardinality(D) - Cardinality({y \in D : p[y] = y})

(* As many steps as there are items lead to the top of a tree.             *)
(* [annotate_dedup.py:_UnionFind.find, topic_enricher.py:find]             *)
LEMMA FindsTop ==
    ASSUME NEW D, IsFiniteSet(D), NEW p, NEW t, NEW d, Tops(p, D, t, d), NEW x \in D
    PROVE  Find(p, x) = t[x]
  <1> DEFINE N == Cardinality(D)
             roots == {y \in D : p[y] = y}
  <1>1. N \in Nat /\ Cardinality(roots) \in Nat
    <2>1. roots \in SUBSET D
      OBVIOUS
    <2> HIDE DEF roots
    <2>2. QED BY <2>1, FS_Subset, FS_CardinalityType
  <1>2. d[x] \in Nat /\ d[x] <= N
    <2>1. d[x] \in Nat /\ d[x] <= N - Cardinality(roots)
      BY DEF Tops
    <2> HIDE DEF N, roots
    <2>2. QED BY <1>1, <2>1
  <1>3. PICK u \in [0 .. N -> D] : /\ u[0] = x
                                   /\ \A n \in 1 .. N : u[n] = p[u[n - 1]]
                                   /\ Find(p, x) = u[N]
    <2>1. p \in [D -> D]
      BY DEF Tops
    <2>2. QED BY <2>1, FindFollows
  <1> HIDE DEF N
  <1> DEFINE S == {n \in 0 .. N : /\ t[u[n]] = t[x]
                                  /\ d[u[n]] = 0 \/ d[u[n]] + n <= d[x]}
  <1>4. 0 \in S
    BY <1>1, <1>2, <1>3
  <1>5. ASSUME NEW n \in 1 .. N, n - 1 \in S PROVE n \in S
    <2>1. n \in 0 .. N /\ n - 1 \in 0 .. N
      BY <1>1
    <2> DEFINE y == u[n - 1]
    <2>2. y \in D /\ u[n] = p[y] /\ p[y] \in D
      BY <1>3, <2>1 DEF Tops
    <2>3. t[y] = t[x] /\ (d[y] = 0 \/ d[y] + (n - 1) <= d[x])
      BY <1>5
    <2> HIDE DEF y
    <2>4. t[p[y]] = t[x]
      BY <2>2, <2>3 DEF Tops
    <2>5. CASE d[y] = 0
      <3>1. p[y] = y
        BY <2>2, <2>5 DEF Tops
      <3>2. QED BY <2>1, <2>2, <2>3, <2>5, <3>1
    <2>6. CASE d[y] # 0
      <3>1. d[p[y]] < d[y] /\ d[p[y]] \in Nat /\ d[y] \in Nat
        BY <2>2, <2>6 DEF Tops
      <3>2. d[p[y]] + n <= d[x]
        BY <1>2, <2>3, <2>6, <3>1
      <3>3. QED BY <2>1, <2>2, <2>4, <3>2
    <2>7. QED BY <2>5, <2>6
  <1>6. N \in S
    <2>1. \A n \in 0 .. N : n \in S
      <3> HIDE DEF S
      <3>1. QED BY <1>1, <1>4, <1>5, StepByStep
    <2> HIDE DEF S
    <2>2. QED BY <1>1, <2>1
  <1>7. u[N] \in D /\ t[u[N]] = t[x] /\ (d[u[N]] = 0 \/ d[u[N]] + N <= d[x])
    BY <1>1, <1>3, <1>6
  <1>8. d[u[N]] \in Nat
    BY <1>7 DEF Tops
  <1>9. d[u[N]] = 0
    BY <1>1, <1>2, <1>7, <1>8
  <1>10. t[u[N]] = u[N]
    BY <1>7, <1>9 DEF Tops
  <1>11. QED BY <1>3, <1>7, <1>10

(* Of two trees the one is put below the top of the other.                 *)
(* [annotate_dedup.py:_UnionFind.union, topic_enricher.py:union]           *)
LEMMA UnionTops ==
    ASSUME NEW D, IsFiniteSet(D), NEW p, NEW t, NEW d, Tops(p, D, t, d),
           NEW x \in D, NEW y \in D
    PROVE  \E t2, d2 : /\ Tops(Union(p, <<x, y>>), D, t2, d2)
                       /\ \A z \in D : t2[z] = IF t[z] = t[y] THEN t[x] ELSE t[z]
  <1> DEFINE a == t[y]
             b == t[x]
             q == [p EXCEPT ![a] = b]
             t2 == [z \in D |-> IF t[z] = a THEN b ELSE t[z]]
             d2 == [z \in D |-> IF t[z] = a THEN d[z] + 1 ELSE d[z]]
             roots(f) == {z \in D : f[z] = z}
  <1>1. Union(p, <<x, y>>) = q
    <2>1. Find(p, x) = b /\ Find(p, y) = a
      BY FindsTop
    <2>2. <<x, y>>[1] = x /\ <<x, y>>[2] = y
      OBVIOUS
    <2> HIDE DEF a, b
    <2>3. QED BY <2>1, <2>2 DEF Union
  <1>2. /\ p \in [D -> D] /\ t \in [D -> D] /\ d \in [D -> Nat]
        /\ a \in D /\ b \in D /\ p[a] = a /\ p[b] = b
    BY DEF Tops
  <1>3. \A z \in D : p[z] = z => t[z] = z
    <2> SUFFICES ASSUME NEW z \in D, p[z] = z PROVE t[z] = z
      OBVIOUS
    <2>1. d[z] \in Nat /\ ~(d[z] < d[z])
      BY <1>2
    <2>2. QED BY <2>1 DEF Tops
  <1>4. t[a] = a /\ t[b] = b
    BY <1>2, <1>3
  <1> HIDE DEF a, b
  <1>5. CASE a = b
    <2>1. q = p
      BY <1>2, <1>5
    <2>2. \A z \in D : t[z] = IF t[z] = a THEN b ELSE t[z]
      BY <1>5
    <2> HIDE DEF q
    <2>3. QED BY <1>1, <2>1, <2>2 DEF a, b
  <1>6. CASE a # b
    <2>1. q \in [D -> D] /\ t2 \in [D -> D] /\ d2 \in [D -> Nat]
      BY <1>2
    <2>2. /\ \A z \in D : z # a => q[z] = p[z]
          /\ q[a] = b
      BY <1>2
    <2>3. \A z \in D : /\ t[z] = a => t2[z] = b /\ d2[z] = d[z] + 1
                       /\ t[z] # a => t2[z] = t[z] /\ d2[z] = d[z]
      OBVIOUS
    <2> HIDE DEF q, t2, d2
    <2>4. ASSUME NEW z \in D PROVE t2[q[z]] = t2[z] /\ q[t2[z]] = t2[z]
      <3>1. t[p[z]] = t[z] /\ p[t[z]] = t[z] /\ p[z] \in D /\ t[z] \in D
        BY <1>2 DEF Tops
      <3>2. t2[q[z]] = t2[z]
        <4>1. CASE z = a
          BY <1>2, <1>4, <1>6, <2>2, <2>3, <4>1
        <4>2. CASE z # a
          BY <2>2, <2>3, <3>1, <4>2
        <4>3. QED BY <4>1, <4>2
      <3>3. q[t2[z]] = t2[z]
        <4>1. CASE t[z] = a
          BY <1>2, <1>6, <2>2, <2>3, <4>1
        <4>2. CASE t[z] # a
          BY <2>2, <2>3, <3>1, <4>2
        <4>3. QED BY <4>1, <4>2
      <3>4. QED BY <3>2, <3>3
    <2>5. ASSUME NEW z \in D, d2[z] = 0 PROVE t2[z] = z
      <3>1. d[z] \in Nat
        BY <1>2
      <3>2. t[z] # a /\ d[z] = 0
        BY <2>3, <2>5, <3>1
      <3>3. t[z] = z
        BY <3>2 DEF Tops
      <3>4. QED BY <2>3, <3>2, <3>3
    <2>6. ASSUME NEW z \in D, d2[z] # 0 PROVE d2[q[z]] < d2[z]
      <3>1. CASE z = a
        <4>1. d[b] = 0
          <5>1. d[b] \in Nat /\ ~(d[b] < d[b])
            BY <1>2
          <5>2. QED BY <1>2, <5>1 DEF Tops
        <4>2. d2[b] = 0 /\ d2[a] = d[a] + 1 /\ d[a] \in Nat /\ q[a] = b
          BY <1>2, <1>4, <1>6, <2>2, <2>3, <4>1
        <4>3. QED BY <3>1, <4>2
      <3>2. CASE z # a
        <4>1. q[z] = p[z] /\ p[z] \in D /\ d[z] \in Nat /\ d[p[z]] \in Nat /\ t[p[z]] = t[z]
          BY <1>2, <2>2, <3>2 DEF Tops
        <4>2. d[z] # 0
          <5>1. CASE t[z] = a
            BY <3>2, <5>1 DEF Tops
          <5>2. CASE t[z] # a
            BY <2>3, <2>6, <5>2
          <5>3. QED BY <5>1, <5>2
        <4>3. d[p[z]] < d[z]
          BY <4>2 DEF Tops
        <4>4. CASE t[z] = a
          <5>1. d2[z] = d[z] + 1 /\ d2[p[z]] = d[p[z]] + 1
            BY <2>3, <4>1, <4>4
          <5>2. QED BY <4>1, <4>3, <5>1
        <4>5. CASE t[z] # a
          BY <2>3, <4>1, <4>3, <4>5
        <4>6. QED BY <4>4, <4>5
      <3>3. QED BY <3>1, <3>2
    <2>7. ASSUME NEW z \in D PROVE d2[z] <= Cardinality(D) - Cardinality(roots(q))
      <3>1. roots(q) = roots(p) \ {a} /\ a \in roots(p)
        BY <1>2, <1>6, <2>2
      <3>2. IsFiniteSet(roots(p)) /\ roots(p) \in SUBSET D
        <4>1. roots(p) \in SUBSET D
          OBVIOUS
        <4> HIDE DEF roots
        <4>2. QED BY <4>1, FS_Subset
      <3>3. d[z] \in Nat /\ d[z] <= Cardinality(D) - Cardinality(roots(p))
        BY <1>2 DEF Tops
      <3> HIDE DEF roots
      <3>4. Cardinality(D) \in Nat /\ Cardinality(roots(p)) \in Nat
        BY <3>2, FS_CardinalityType
      <3>5. Cardinality(roots(p) \ {a}) = Cardinality(roots(p)) - 1
        BY <3>1, <3>2, FS_RemoveElement
      <3>6. Cardinality(roots(q)) = Cardinality(roots(p)) - 1
        BY <3>1, <3>5
      <3>7. d2[z] = d[z] + 1 \/ d2[z] = d[z]
        BY <2>3
      <3>8. QED BY <3>3, <3>4, <3>6, <3>7
    <2>8. Tops(q, D, t2, d2)
      BY <2>1, <2>4, <2>5, <2>6, <2>7 DEF Tops
    <2>9. \A z \in D : t2[z] = IF t[z] = a THEN b ELSE t[z]
      BY <2>3
    <2>10. QED BY <1>1, <2>8, <2>9 DEF a, b
  <1>7. QED BY <1>5, <1>6

\* What keeps the two ends of every edge together.
Keeps(U, F) == \A e \in F : e[1] \in U <=> e[2] \in U

\* In the forest p the edges E are linked; and nothing but edges of F links.
Joins(p, D, E, F) ==
    \E t, d : /\ Tops(p, D, t, d)
              /\ \A e \in E : t[e[1]] = t[e[2]]
              /\ \A U \in SUBSET D : Keeps(U, F) =>
                     \A x, y \in D : t[x] = t[y] /\ x \in U => y \in U

(* At the start every item is a tree of its own.                           *)
LEMMA StartJoins ==
    ASSUME NEW D, IsFiniteSet(D), NEW F
    PROVE  Joins([x \in D |-> x], D, {}, F)
  <1> DEFINE p == [x \in D |-> x]
             d == [x \in D |-> 0]
             roots == {y \in D : p[y] = y}
  <1>1. roots = D
    OBVIOUS
  <1>2. Cardinality(D) - Cardinality(roots) = 0
    <2> HIDE DEF roots
    <2>1. Cardinality(D) \in Nat
      BY FS_CardinalityType
    <2>2. QED BY <1>1, <2>1
  <1>3. Tops(p, D, p, d)
    <2>1. /\ p \in [D -> D] /\ d \in [D -> Nat]
          /\ \A x \in D : p[x] = x /\ d[x] = 0
      OBVIOUS
    <2> HIDE DEF p, d
    <2>2. QED BY <1>2, <2>1 DEF Tops
  <1>4. \A x \in D : p[x] = x
    OBVIOUS
  <1> HIDE DEF p, d
  <1>5. \A U \in SUBSET D : \A x, y \in D : p[x] = p[y] /\ x \in U => y \in U
    BY <1>4
  <1>6. Joins(p, D, {}, F)
    BY <1>3, <1>5 DEF Joins
  <1>7. QED BY <1>6 DEF p

(* A union links its pair, and nothing that was linked comes apart.        *)
LEMMA UnionJoins ==
    ASSUME NEW D, IsFiniteSet(D), NEW F \in SUBSET (D \X D), NEW E \in SUBSET F, NEW p,
           Joins(p, D, E, F), NEW e \in F
    PROVE  Union(p, e) \in [D -> D] /\ Joins(Union(p, e), D, E \cup {e}, F)
  <1> DEFINE x == e[1]
             y == e[2]
  <1>1. x \in D /\ y \in D /\ e = <<x, y>>
    OBVIOUS
  <1> HIDE DEF x, y
  <1>2. PICK t, d : /\ Tops(p, D, t, d)
                    /\ \A f \in E : t[f[1]] = t[f[2]]
                    /\ \A U \in SUBSET D : Keeps(U, F) =>
                           \A v, w \in D : t[v] = t[w] /\ v \in U => w \in U
    BY DEF Joins
  <1> DEFINE q == Union(p, <<x, y>>)
  <1>3. PICK t2, d2 : /\ Tops(q, D, t2, d2)
                      /\ \A z \in D : t2[z] = IF t[z] = t[y] THEN t[x] ELSE t[z]
    <2> HIDE DEF q
    <2>1. \E t2, d2 : /\ Tops(Union(p, <<x, y>>), D, t2, d2)
                      /\ \A z \in D : t2[z] = IF t[z] = t[y] THEN t[x] ELSE t[z]
      BY <1>1, <1>2, UnionTops
    <2>2. QED BY <2>1 DEF q
  <1> HIDE DEF q
  <1>4. \A f \in F : f[1] \in D /\ f[2] \in D
    OBVIOUS
  <1>5. ASSUME NEW f \in E \cup {e} PROVE t2[f[1]] = t2[f[2]]
    <2>1. CASE f \in E
      <3>1. t[f[1]] = t[f[2]] /\ f[1] \in D /\ f[2] \in D
        BY <1>2, <1>4, <2>1
      <3>2. QED BY <1>3, <3>1
    <2>2. CASE f = e
      <3>1. f[1] = x /\ f[2] = y
        BY <2>2 DEF x, y
      <3>2. QED BY <1>1, <1>3, <3>1
    <2>3. QED BY <2>1, <2>2
  <1>6. ASSUME NEW U \in SUBSET D, Keeps(U, F), NEW v \in D, NEW w \in D, t2[v] = t2[w], v \in U
        PROVE  w \in U
    <2>1. \A v2, w2 \in D : t[v2] = t[w2] /\ v2 \in U => w2 \in U
      BY <1>2, <1>6
    <2>2. x \in U <=> y \in U
      BY <1>6 DEF Keeps, x, y
    <2>3. CASE t[v] = t[w]
      BY <1>6, <2>1, <2>3
    <2>4. CASE t[v] # t[w]
      <3>1. \/ t[v] = t[y] /\ t[w] = t[x]
            \/ t[w] = t[y] /\ t[v] = t[x]
        BY <1>1, <1>3, <1>6, <2>4
      <3>2. QED BY <1>1, <1>6, <2>1, <2>2, <3>1
    <2>5. QED BY <2>3, <2>4
  <1>7. q \in [D -> D]
    BY <1>3 DEF Tops
  <1>8. Joins(q, D, E \cup {e}, F)
    BY <1>3, <1>5, <1>6 DEF Joins
  <1>9. QED BY <1>1, <1>7, <1>8 DEF q

(* After all unions every pair is linked.  [annotate_dedup.py:             *)
(* _near_clusters, topic_enricher.py:discover]                             *)
LEMMA UnionsJoin ==
    ASSUME NEW D, IsFiniteSet(D), NEW F \in SUBSET (D \X D), NEW p \in [D -> D],
           Joins(p, D, {}, F), NEW s \in Seq(F)
    PROVE  Joins(Unions(p, s), D, Range(s), F)
  <1> DEFINE N == Len(s)
             V == [D -> D]
             Next0(f, n) == IF n = 0 THEN p ELSE Union(f[n - 1], s[n])
             Is(f) == f = [n \in 0 .. N |-> Next0(f, n)]
             after == CHOOSE f : Is(f)
             Good == {q \in V : \E E \in SUBSET F : Joins(q, D, E, F)}
             step == [n \in 1 .. N |-> [q \in Good |-> Union(q, s[n])]]
  <1>1. N \in Nat /\ DOMAIN s = 1 .. N /\ \A n \in 1 .. N : s[n] \in F
    OBVIOUS
  <1>2. Unions(p, s) = after[N]
    BY DEF Unions
  <1> HIDE DEF N
  <1>3. ASSUME NEW q \in V, NEW E \in SUBSET F, Joins(q, D, E, F), NEW n \in 1 .. N
        PROVE  Union(q, s[n]) \in V /\ Joins(Union(q, s[n]), D, E \cup {s[n]}, F)
    <2>1. s[n] \in F
      BY <1>1
    <2>2. QED BY <1>3, <2>1, UnionJoins
  <1>4. p \in Good
    OBVIOUS
  <1>5. step \in [1 .. N -> [Good -> Good]]
    <2>1. ASSUME NEW n \in 1 .. N, NEW q \in Good PROVE Union(q, s[n]) \in Good
      <3>1. PICK E \in SUBSET F : Joins(q, D, E, F)
        OBVIOUS
      <3>2. E \cup {s[n]} \in SUBSET F
        BY <1>1
      <3>3. Union(q, s[n]) \in V /\ Joins(Union(q, s[n]), D, E \cup {s[n]}, F)
        BY <1>3, <3>1
      <3>4. QED BY <3>2, <3>3
    <2> HIDE DEF Good
    <2>2. QED BY <2>1
  <1> HIDE DEF Good
  <1>6. PICK g : Loop(g, Good, N, p, step)
    <2> HIDE DEF step
    <2>1. QED BY <1>1, <1>4, <1>5, LoopRuns
  <1>7. Is(g)
    <2>1. ASSUME NEW n \in 0 .. N PROVE g[n] = Next0(g, n)
      <3>1. CASE n = 0
        BY <1>6, <3>1 DEF Loop
      <3>2. CASE n # 0
        <4>1. n \in 1 .. N /\ n - 1 \in 0 .. N
          BY <1>1, <3>2
        <4>2. g[n - 1] \in Good
          BY <1>6, <4>1 DEF Loop
        <4>3. step[n][g[n - 1]] = Union(g[n - 1], s[n])
          BY <4>1, <4>2
        <4>4. g[n] = step[n][g[n - 1]]
          BY <1>6, <4>1 DEF Loop
        <4>5. QED BY <3>2, <4>3, <4>4
      <3>3. QED BY <3>1, <3>2
    <2> HIDE DEF Next0
    <2>2. g = [n \in 0 .. N |-> g[n]]
      BY <1>6 DEF Loop
    <2>3. QED BY <2>1, <2>2
  <1>8. Is(after)
    <2> HIDE DEF Is
    <2>1. QED BY <1>7
  <1> HIDE DEF after, step
  <1>9. \A n \in 0 .. N : after[n] = Next0(after, n)
    <2> HIDE DEF Next0
    <2>1. QED BY <1>8
  <1> DEFINE Sofar(n) == {s[k] : k \in 1 .. n}
             S == {n \in 0 .. N : after[n] \in V /\ Joins(after[n], D, Sofar(n), F)}
  <1>10. 0 \in S
    <2>1. after[0] = p
      BY <1>1, <1>9
    <2>2. Sofar(0) = {}
      OBVIOUS
    <2> HIDE DEF Sofar
    <2>3. 0 \in 0 .. N
      BY <1>1
    <2>4. after[0] \in V /\ Joins(after[0], D, Sofar(0), F)
      BY <2>1, <2>2
    <2> HIDE DEF V
    <2>5. QED BY <2>3, <2>4
  <1>11. ASSUME NEW n \in 1 .. N, n - 1 \in S PROVE n \in S
    <2>1. n \in 0 .. N /\ n # 0
      BY <1>1
    <2>2. after[n] = Next0(after, n)
      <3> HIDE DEF Next0
      <3>1. QED BY <1>9, <2>1
    <2>3. after[n] = Union(after[n - 1], s[n])
      BY <2>1, <2>2
    <2>4. Sofar(n) = Sofar(n - 1) \cup {s[n]}
      <3>1. 1 .. n = (1 .. n - 1) \cup {n}
        BY <1>1
      <3>2. QED BY <3>1
    <2>5. Sofar(n - 1) \in SUBSET F
      <3>1. \A k \in 1 .. n - 1 : k \in 1 .. N
        BY <1>1
      <3>2. QED BY <1>1, <3>1
    <2> HIDE DEF Sofar
    <2>6. after[n - 1] \in V /\ Joins(after[n - 1], D, Sofar(n - 1), F)
      BY <1>11
    <2>7. /\ Union(after[n - 1], s[n]) \in V
          /\ Joins(Union(after[n - 1], s[n]), D, Sofar(n - 1) \cup {s[n]}, F)
      BY <1>3, <2>5, <2>6
    <2>8. QED BY <2>1, <2>3, <2>4, <2>7
  <1>12. N \in S
    <2> HIDE DEF S
    <2>1. \A n \in 0 .. N : n \in S
      BY <1>1, <1>10, <1>11, StepByStep
    <2>2. QED BY <1>1, <2>1
  <1>13. Sofar(N) = Range(s)
    BY <1>1 DEF Range
  <1> HIDE DEF Sofar
  <1>14. QED BY <1>2, <1>12, <1>13

(* The trees of a forest in which just the edges are linked are the        *)
(* connected components.                                                   *)
LEMMA TreesAreComponents ==
    ASSUME NEW D, IsFiniteSet(D), NEW F \in SUBSET (D \X D), NEW p, Joins(p, D, F, F)
    PROVE  Trees(p) = ComponentsOf(D, {{e[1], e[2]} : e \in F})
  <1> DEFINE edges == {{e[1], e[2]} : e \in F}
             closed(S) == \A i \in S, j \in D : {i, j} \in edges => j \in S
  <1>1. PICK t, d : /\ Tops(p, D, t, d)
                    /\ \A e \in F : t[e[1]] = t[e[2]]
                    /\ \A U \in SUBSET D : Keeps(U, F) =>
                           \A x, y \in D : t[x] = t[y] /\ x \in U => y \in U
    BY DEF Joins
  <1> DEFINE tree(i) == {j \in D : t[j] = t[i]}
  <1>2. Trees(p) = {tree(i) : i \in D}
    <2>1. DOMAIN p = D
      BY <1>1 DEF Tops
    <2>2. \A i \in D : Find(p, i) = t[i]
      BY <1>1, FindsTop
    <2> DEFINE below(i) == {j \in D : Find(p, j) = Find(p, i)}
    <2>3. Trees(p) = {below(i) : i \in D}
      BY <2>1 DEF Trees
    <2>4. \A i \in D : below(i) = tree(i)
      BY <2>2
    <2> HIDE DEF tree, below
    <2>5. QED BY <2>3, <2>4
  <1>3. \A U \in SUBSET D : closed(U) <=> Keeps(U, F)
    <2> SUFFICES ASSUME NEW U \in SUBSET D PROVE closed(U) <=> Keeps(U, F)
      OBVIOUS
    <2>1. ASSUME closed(U) PROVE Keeps(U, F)
      <3> SUFFICES ASSUME NEW e \in F PROVE e[1] \in U <=> e[2] \in U
        BY DEF Keeps
      <3>1. e[1] \in D /\ e[2] \in D /\ {e[1], e[2]} \in edges /\ {e[2], e[1]} = {e[1], e[2]}
        OBVIOUS
      <3> HIDE DEF edges
      <3>2. QED BY <2>1, <3>1
    <2>2. ASSUME Keeps(U, F) PROVE closed(U)
      <3> SUFFICES ASSUME NEW i \in U, NEW j \in D, {i, j} \in edges PROVE j \in U
        OBVIOUS
      <3>1. PICK e \in F : {i, j} = {e[1], e[2]}
        OBVIOUS
      <3>2. (i = e[1] /\ j = e[2]) \/ (i = e[2] /\ j = e[1]) \/ (i = j)
        BY <3>1
      <3>3. QED BY <2>2, <3>2 DEF Keeps
    <2>3. QED BY <2>1, <2>2
  <1>4. ASSUME NEW i \in D
        PROVE  /\ tree(i) \in SUBSET D /\ i \in tree(i) /\ closed(tree(i))
               /\ \A U \in SUBSET D : closed(U) /\ i \in U => tree(i) \subseteq U
    <2>1. Keeps(tree(i), F)
      <3> SUFFICES ASSUME NEW e \in F PROVE e[1] \in tree(i) <=> e[2] \in tree(i)
        BY DEF Keeps
      <3>1. e[1] \in D /\ e[2] \in D /\ t[e[1]] = t[e[2]]
        BY <1>1
      <3>2. QED BY <3>1
    <2>2. tree(i) \in SUBSET D /\ i \in tree(i)
      OBVIOUS
    <2>3. \A U \in SUBSET D : closed(U) /\ i \in U => tree(i) \subseteq U
      <3> HIDE DEF closed
      <3>1. QED BY <1>1, <1>3
    <2> HIDE DEF closed, tree
    <2>4. QED BY <1>3, <2>1, <2>2, <2>3
  <1>5. ComponentsOf(D, edges)
            = {S \in SUBSET D : /\ S # {} /\ closed(S)
                                /\ \A T \in SUBSET S : closed(T) => T \in {{}, S}}
    BY DEF ComponentsOf
  <1> HIDE DEF closed, tree, edges
  <1>6. ASSUME NEW i \in D PROVE tree(i) \in ComponentsOf(D, edges)
    <2>1. ASSUME NEW T \in SUBSET tree(i), closed(T) PROVE T \in {{}, tree(i)}
      <3> SUFFICES ASSUME T # {} PROVE T = tree(i)
        OBVIOUS
      <3>1. PICK k \in T : TRUE
        OBVIOUS
      <3>2. k \in D /\ T \in SUBSET D /\ k \in tree(i)
        BY <1>4
      <3>3. tree(k) \subseteq T
        BY <1>4, <2>1, <3>2
      <3>4. tree(k) = tree(i)
        BY <3>2 DEF tree
      <3>5. QED BY <3>3, <3>4
    <2>2. QED BY <1>4, <1>5, <2>1
  <1>7. ASSUME NEW C \in ComponentsOf(D, edges) PROVE C \in {tree(i) : i \in D}
    <2>1. /\ C \in SUBSET D /\ C # {} /\ closed(C)
          /\ \A T \in SUBSET C : closed(T) => T \in {{}, C}
      BY <1>5
    <2>2. PICK i \in C : TRUE
      BY <2>1
    <2>3. i \in D /\ tree(i) \subseteq C /\ closed(tree(i)) /\ i \in tree(i)
      BY <1>4, <2>1
    <2>4. tree(i) = C
      BY <2>1, <2>3
    <2>5. QED BY <2>3, <2>4
  <1>8. QED BY <1>2, <1>6, <1>7 DEF edges

-----------------------------------------------------------------------------
(* The pairs of two nested loops are those of two places.                  *)

(* A list put behind another.                                              *)
LEMMA RangeOfTwo ==
    ASSUME NEW R, NEW s \in Seq(R), NEW u \in Seq(R)
    PROVE  s \o u \in Seq(R) /\ Range(s \o u) = Range(s) \cup Range(u)
  <1>1. /\ Len(s) \in Nat /\ Len(u) \in Nat
        /\ DOMAIN s = 1 .. Len(s) /\ DOMAIN u = 1 .. Len(u)
        /\ s \o u \in Seq(R) /\ DOMAIN (s \o u) = 1 .. Len(s) + Len(u)
    OBVIOUS
  <1>2. /\ \A i \in 1 .. Len(s) : (s \o u)[i] = s[i]
        /\ \A i \in 1 .. Len(u) : (s \o u)[Len(s) + i] = u[i]
    OBVIOUS
  <1>3. \A i \in 1 .. Len(s) + Len(u) :
            i \in 1 .. Len(s) \/ (i - Len(s) \in 1 .. Len(u) /\ i = Len(s) + (i - Len(s)))
    BY <1>1
  <1>4. \A i \in 1 .. Len(s) : i \in 1 .. Len(s) + Len(u)
    BY <1>1
  <1>5. \A i \in 1 .. Len(u) : Len(s) + i \in 1 .. Len(s) + Len(u)
    BY <1>1
  <1>6. \A x \in Range(s \o u) : x \in Range(s) \cup Range(u)
    <2> SUFFICES ASSUME NEW i \in 1 .. Len(s) + Len(u)
                 PROVE  (s \o u)[i] \in Range(s) \cup Range(u)
      BY <1>1 DEF Range
    <2>1. CASE i \in 1 .. Len(s)
      BY <1>1, <1>2, <2>1 DEF Range
    <2>2. CASE i \notin 1 .. Len(s)
      <3>1. i - Len(s) \in 1 .. Len(u) /\ i = Len(s) + (i - Len(s))
        BY <1>3, <2>2
      <3>2. (s \o u)[i] = u[i - Len(s)]
        BY <1>2, <3>1
      <3>3. QED BY <1>1, <3>1, <3>2 DEF Range
    <2>3. QED BY <2>1, <2>2
  <1>7. \A x \in Range(s) \cup Range(u) : x \in Range(s \o u)
    BY <1>1, <1>2, <1>4, <1>5 DEF Range
  <1>8. QED BY <1>1, <1>6, <1>7

(* Lists put one behind the other hold what each of them holds.            *)
LEMMA FlatRange ==
    ASSUME NEW R, NEW ss \in Seq(Seq(R))
    PROVE  /\ FlattenSeq(ss) \in Seq(R)
           /\ Range(FlattenSeq(ss)) = UNION {Range(ss[i]) : i \in DOMAIN ss}
  <1> DEFINE N == Len(ss)
             V == Seq(R)
             All(n) == UNION {Range(ss[i]) : i \in 1 .. n}
             Next0(f, n) == IF n = 1 THEN ss[n] ELSE f[n - 1] \o ss[n]
             Is(f) == f = [n \in 1 .. N |-> Next0(f, n)]
             flat == CHOOSE f : Is(f)
             step == [n \in 1 .. N |-> [q \in V |-> q \o ss[n]]]
  <1>1. N \in Nat /\ DOMAIN ss = 1 .. N /\ \A n \in 1 .. N : ss[n] \in V
    OBVIOUS
  <1>2. CASE N = 0
    <2>1. ss = <<>>
      BY <1>2
    <2>2. FlattenSeq(ss) = <<>>
      BY <1>2, <2>1 DEF FlattenSeq
    <2>3. Range(<<>>) = {} /\ <<>> \in Seq(R) /\ DOMAIN ss = {}
      BY <2>1 DEF Range
    <2>4. UNION {Range(ss[i]) : i \in DOMAIN ss} = {}
      BY <2>3
    <2>5. QED BY <2>2, <2>3, <2>4
  <1>3. CASE N # 0
    <2>1. FlattenSeq(ss) = flat[N]
      BY <1>3 DEF FlattenSeq
    <2> HIDE DEF N
    <2>2. step \in [1 .. N -> [V -> V]] /\ <<>> \in V
      BY <1>1
    <2>3. PICK g : Loop(g, V, N, <<>>, step)
      <3> HIDE DEF step, V
      <3>1. QED BY <1>1, <2>2, LoopRuns
    <2> DEFINE f == [n \in 1 .. N |-> g[n]]
    <2>4. \A n \in 0 .. N : g[n] \in V
      BY <2>3 DEF Loop
    <2>5. \A n \in 1 .. N : g[n] = g[n - 1] \o ss[n]
      <3> SUFFICES ASSUME NEW n \in 1 .. N PROVE g[n] = g[n - 1] \o ss[n]
        OBVIOUS
      <3>1. n - 1 \in 0 .. N
        BY <1>1
      <3>2. g[n - 1] \in V
        BY <2>4, <3>1
      <3>3. step[n][g[n - 1]] = g[n - 1] \o ss[n]
        BY <3>2
      <3>4. QED BY <2>3, <3>3 DEF Loop
    <2>6. g[0] = <<>>
      BY <2>3 DEF Loop
    <2>7. Is(f)
      <3>1. ASSUME NEW n \in 1 .. N PROVE f[n] = Next0(f, n)
        <4>1. CASE n = 1
          <5>1. 1 \in 1 .. N /\ 1 - 1 = 0
            BY <1>1, <4>1
          <5>2. g[1] = g[0] \o ss[1]
            <6>1. g[1] = g[1 - 1] \o ss[1]
              BY ONLY <2>5, <5>1
            <6>2. QED BY ONLY <5>1, <6>1
          <5>3. g[1] = <<>> \o ss[1] /\ ss[1] \in Seq(R)
            BY <1>1, <2>6, <5>1, <5>2
          <5>4. <<>> \o ss[1] = ss[1]
            BY <5>3
          <5>5. QED BY <4>1, <5>3, <5>4
        <4>2. CASE n # 1
          <5>1. n - 1 \in 1 .. N
            BY <1>1, <4>2
          <5>2. QED BY <2>5, <4>2, <5>1
        <4>3. QED BY <4>1, <4>2
      <3>2. f = [n \in 1 .. N |-> f[n]]
        OBVIOUS
      <3> HIDE DEF Next0, f
      <3>3. QED BY <3>1, <3>2
    <2>8. Is(flat)
      <3> HIDE DEF Is
      <3>1. QED BY <2>7
    <2> HIDE DEF flat, step, f
    <2>9. \A n \in 1 .. N : flat[n] = Next0(flat, n)
      <3> HIDE DEF Next0
      <3>1. QED BY <2>8
    <2> DEFINE S == {0} \cup {n \in 1 .. N : flat[n] \in V /\ Range(flat[n]) = All(n)}
    <2>10. ASSUME NEW n \in 1 .. N, n - 1 \in S PROVE n \in S
      <3>1. CASE n = 1
        <4>1. flat[1] = ss[1]
          BY <2>9, <3>1
        <4>2. All(1) = Range(ss[1])
          OBVIOUS
        <4> HIDE DEF All, V
        <4>3. QED BY <1>1, <3>1, <4>1, <4>2
      <3>2. CASE n # 1
        <4>1. n - 1 \in 1 .. N
          BY <1>1, <3>2
        <4>2. flat[n] = flat[n - 1] \o ss[n]
          BY <2>9, <3>2
        <4>3. flat[n - 1] \in Seq(R) /\ Range(flat[n - 1]) = All(n - 1) /\ ss[n] \in Seq(R)
          BY <1>1, <2>10, <4>1
        <4>4. Range(flat[n]) = Range(flat[n - 1]) \cup Range(ss[n])
          BY <4>2, <4>3, RangeOfTwo
        <4>5. All(n) = All(n - 1) \cup Range(ss[n])
          <5>1. 1 .. n = (1 .. n - 1) \cup {n}
            BY <1>1
          <5>2. QED BY <5>1
        <4> HIDE DEF All
        <4>6. flat[n] \in V
          BY <4>2, <4>3
        <4>7. QED BY <4>3, <4>4, <4>5, <4>6
      <3>3. QED BY <3>1, <3>2
    <2>11. N \in S
      <3> HIDE DEF S
      <3>1. 0 \in S
        BY DEF S
      <3>2. \A n \in 0 .. N : n \in S
        BY <1>1, <2>10, <3>1, StepByStep
      <3>3. QED BY <1>1, <3>2
    <2>12. QED BY <1>1, <1>3, <2>1, <2>11
  <1>4. QED BY <1>2, <1>3

(* The pairs of a list are those of an earlier and a later place.          *)
LEMMA PairsInOrder ==
    ASSUME NEW R, NEW s \in Seq(R)
    PROVE  /\ PairsOf(s) \in Seq(R \X R)
           /\ \A e : e \in Range(PairsOf(s)) <=>
                  \E i, j \in DOMAIN s : i < j /\ e = <<s[i], s[j]>>
  <1> DEFINE N == Len(s)
             from(i) == [j \in 1 .. N - i |-> <<s[i], s[i + j]>>]
             ss == [i \in DOMAIN s |-> from(i)]
  <1>1. N \in Nat /\ DOMAIN s = 1 .. N /\ \A i \in 1 .. N : s[i] \in R
    OBVIOUS
  <1>2. PairsOf(s) = FlattenSeq(ss)
    BY DEF PairsOf
  <1> HIDE DEF N
  <1>3. ASSUME NEW i \in 1 .. N
        PROVE  /\ from(i) \in Seq(R \X R)
               /\ DOMAIN from(i) = 1 .. N - i
               /\ \A j \in 1 .. N - i : from(i)[j] = <<s[i], s[i + j]>>
    <2>1. \A j \in 1 .. N - i : i + j \in 1 .. N
      BY <1>1
    <2>2. N - i \in Nat
      BY <1>1
    <2>3. QED BY <1>1, <2>1, <2>2
  <1>4. ss \in Seq(Seq(R \X R)) /\ DOMAIN ss = 1 .. N /\ \A i \in 1 .. N : ss[i] = from(i)
    <2> HIDE DEF from
    <2>1. QED BY <1>1, <1>3
  <1> HIDE DEF ss
  <1>5. /\ PairsOf(s) \in Seq(R \X R)
        /\ Range(PairsOf(s)) = UNION {Range(ss[i]) : i \in DOMAIN ss}
    BY <1>2, <1>4, FlatRange
  <1>6. \A i \in 1 .. N : Range(ss[i]) = {<<s[i], s[i + j]>> : j \in 1 .. N - i}
    <2> SUFFICES ASSUME NEW i \in 1 .. N
                 PROVE  Range(ss[i]) = {<<s[i], s[i + j]>> : j \in 1 .. N - i}
      OBVIOUS
    <2>1. ss[i] = from(i)
      BY <1>4
    <2> HIDE DEF from
    <2>2. QED BY <1>3, <2>1 DEF Range
  <1>7. ASSUME NEW e, e \in Range(PairsOf(s))
        PROVE  \E i, j \in DOMAIN s : i < j /\ e = <<s[i], s[j]>>
    <2>1. PICK i \in 1 .. N : e \in Range(ss[i])
      BY <1>4, <1>5, <1>7
    <2>2. PICK k \in 1 .. N - i : e = <<s[i], s[i + k]>>
      BY <1>6, <2>1
    <2>3. i + k \in 1 .. N /\ i < i + k
      BY <1>1
    <2>4. QED BY <1>1, <2>2, <2>3
  <1>8. ASSUME NEW i \in DOMAIN s, NEW j \in DOMAIN s, i < j
        PROVE  <<s[i], s[j]>> \in Range(PairsOf(s))
    <2>1. i \in 1 .. N /\ j - i \in 1 .. N - i /\ i + (j - i) = j
      BY <1>1, <1>8
    <2>2. <<s[i], s[j]>> \in Range(ss[i])
      BY <1>6, <2>1
    <2>3. QED BY <1>4, <1>5, <2>1, <2>2
  <1>9. QED BY <1>5, <1>7, <1>8

-----------------------------------------------------------------------------
(* Topics: the mentions without one are split into artifacts, which are    *)
(* the components of what is alike.                                        *)

(* Which edges an item has to itself does not matter to the components.    *)
LEMMA SameComponents ==
    ASSUME NEW D, NEW E, NEW G,
           \A i, j \in D : i # j => ({i, j} \in E <=> {i, j} \in G)
    PROVE  ComponentsOf(D, E) = ComponentsOf(D, G)
  <1> DEFINE closedE(S) == \A i \in S, j \in D : {i, j} \in E => j \in S
             closedG(S) == \A i \in S, j \in D : {i, j} \in G => j \in S
  <1>1. \A S \in SUBSET D : closedE(S) <=> closedG(S)
    OBVIOUS
  <1>2. /\ ComponentsOf(D, E) = {S \in SUBSET D :
               /\ S # {} /\ closedE(S)
               /\ \A T \in SUBSET S : closedE(T) => T \in {{}, S}}
        /\ ComponentsOf(D, G) = {S \in SUBSET D :
               /\ S # {} /\ closedG(S)
               /\ \A T \in SUBSET S : closedG(T) => T \in {{}, S}}
    BY DEF ComponentsOf
  <1> HIDE DEF closedE, closedG
  <1>3. \A S \in SUBSET D : \A T \in SUBSET S : closedE(T) <=> closedG(T)
    BY <1>1
  <1>4. QED BY <1>1, <1>2, <1>3

(* Trees are disjoint, none is empty, and every item is in one.            *)
LEMMA TreesSplit ==
    ASSUME NEW p
    PROVE  /\ UNION Trees(p) = DOMAIN p
           /\ {} \notin Trees(p)
           /\ \A S, T \in Trees(p) : S # T => S \cap T = {}
  <1> DEFINE tree(i) == {j \in DOMAIN p : Find(p, j) = Find(p, i)}
  <1>1. Trees(p) = {tree(i) : i \in DOMAIN p}
    BY DEF Trees
  <1>2. \A i \in DOMAIN p : i \in tree(i) /\ tree(i) \subseteq DOMAIN p
    OBVIOUS
  <1>3. \A i, j \in DOMAIN p : tree(i) # tree(j) => tree(i) \cap tree(j) = {}
    OBVIOUS
  <1> HIDE DEF tree
  <1>4. QED BY <1>1, <1>2, <1>3

(* The sum of the sizes of finitely many disjoint parts is the size of     *)
(* what they make up.                                                      *)
LEMMA SizesAddUp ==
    ASSUME NEW A, IsFiniteSet(A), NEW part, DOMAIN part = A,
           \A a \in A : IsFiniteSet(part[a]) /\ a.size = Cardinality(part[a]),
           \A a, b \in A : a # b => part[a] \cap part[b] = {}
    PROVE  MapThenSumSet(LAMBDA a : a.size, A) = Cardinality(UNION {part[a] : a \in A})
  <1> DEFINE one(s) == CHOOSE x \in s : TRUE
             Next0(f, s) == IF s = {} THEN 0 ELSE one(s).size + f[s \ {one(s)}]
             Is(f) == f = [s \in SUBSET A |-> Next0(f, s)]
             sum == CHOOSE f : Is(f)
             all(s) == UNION {part[a] : a \in s}
             g == [s \in SUBSET A |-> Cardinality(all(s))]
  <1>1. MapThenSumSet(LAMBDA a : a.size, A) = sum[A]
    BY DEF MapThenSumSet, MapThenFoldSet
  <1>2. ASSUME NEW s \in SUBSET A PROVE IsFiniteSet(s) /\ IsFiniteSet(all(s))
    <2>1. IsFiniteSet(s)
      BY FS_Subset
    <2> DEFINE h == [a \in s |-> part[a]]
    <2>2. DOMAIN h = s /\ \A a \in s : IsFiniteSet(h[a])
      OBVIOUS
    <2>3. all(s) = UNION {h[a] : a \in s}
      OBVIOUS
    <2> HIDE DEF all, h
    <2>4. QED BY <2>1, <2>2, <2>3, FiniteUnionOf
  <1>3. ASSUME NEW s \in SUBSET A, s # {}
        PROVE  /\ one(s) \in s /\ one(s) \in A /\ s \ {one(s)} \in SUBSET A
               /\ g[s] = one(s).size + g[s \ {one(s)}]
    <2> DEFINE x == one(s)
               r == s \ {x}
    <2>1. x \in s
      BY <1>3
    <2> HIDE DEF one
    <2>2. x \in A /\ r \in SUBSET A
      BY <2>1
    <2>3. all(s) = part[x] \cup all(r) /\ part[x] \cap all(r) = {}
      BY <2>1, <2>2
    <2>4. /\ IsFiniteSet(part[x]) /\ IsFiniteSet(all(r))
          /\ x.size = Cardinality(part[x])
      BY <1>2, <2>2
    <2>5. g[s] = Cardinality(all(s)) /\ g[r] = Cardinality(all(r))
      BY <2>2
    <2> HIDE DEF all, g, r
    <2>6. Cardinality(all(s)) = Cardinality(part[x]) + Cardinality(all(r))
                                  - Cardinality(part[x] \cap all(r))
      BY <2>3, <2>4, FS_Union
    <2>7. Cardinality(part[x] \cap all(r)) = 0
      BY <2>3, FS_EmptySet
    <2>8. Cardinality(part[x]) \in Nat /\ Cardinality(all(r)) \in Nat
      BY <2>4, FS_CardinalityType
    <2>9. g[s] = x.size + g[r]
      BY <2>4, <2>5, <2>6, <2>7, <2>8
    <2>10. QED BY <2>1, <2>2, <2>9 DEF r
  <1>4. g[{}] = 0 /\ {} \in SUBSET A
    <2>1. all({}) = {}
      OBVIOUS
    <2>2. QED BY <2>1, FS_EmptySet
  <1> HIDE DEF one
  <1>5. Is(g)
    <2>1. ASSUME NEW s \in SUBSET A PROVE g[s] = Next0(g, s)
      <3>1. CASE s = {}
        BY <1>4, <3>1
      <3>2. CASE s # {}
        BY <1>3, <3>2
      <3>3. QED BY <3>1, <3>2
    <2>2. g = [s \in SUBSET A |-> g[s]]
      OBVIOUS
    <2> HIDE DEF g, Next0
    <2>3. QED BY <2>1, <2>2
  <1>6. Is(sum)
    <2> HIDE DEF Is
    <2>1. QED BY <1>5
  <1> HIDE DEF sum, g
  <1>7. \A s \in SUBSET A : sum[s] = Next0(sum, s)
    <2> HIDE DEF Next0
    <2>1. QED BY <1>6
  <1> DEFINE Bad == {s \in SUBSET A : sum[s] # g[s]}
             R == StrictSubsetOrdering(A)
  <1>8. ASSUME Bad # {} PROVE FALSE
    <2>1. Bad \subseteq FiniteSubsetsOf(A)
      BY <1>2 DEF FiniteSubsetsOf
    <2>2. IsWellFoundedOn(R, FiniteSubsetsOf(A))
      BY FS_StrictSubsetOrderingWellFounded
    <2>3. PICK s \in Bad : \A r \in Bad : <<r, s>> \notin R
      <3> HIDE DEF Bad, R
      <3>1. QED BY <1>8, <2>1, <2>2, WFMin
    <2>4. s \in SUBSET A /\ sum[s] # g[s]
      OBVIOUS
    <2>5. s # {}
      BY <1>4, <1>7, <2>4
    <2> DEFINE r == s \ {one(s)}
    <2>6. one(s) \in s /\ r \in SUBSET A /\ g[s] = one(s).size + g[r]
      BY <1>3, <2>4, <2>5
    <2>7. sum[s] = one(s).size + sum[r]
      BY <1>7, <2>4, <2>5
    <2>8. r \in Bad
      BY <2>4, <2>6, <2>7
    <2>9. <<r, s>> \in R
      <3>1. r \subseteq s /\ r # s
        BY <2>6
      <3>2. QED BY <2>4, <2>6, <3>1 DEF StrictSubsetOrdering
    <2>10. QED BY <2>3, <2>8, <2>9
  <1>9. sum[A] = g[A] /\ A \in SUBSET A
    BY <1>8
  <1>10. QED BY <1>1, <1>9 DEF g

(* Documents are clustered as the components of sharing two top words.     *)
(* [topic_enricher.py:discover]                                            *)
LEMMA DiscoverComponents ==
    ASSUME NEW docs, IsSequence(docs)
    PROVE  /\ Discover(docs) = ComponentsOf(DOMAIN docs,
                  {{x[1], x[2]} : x \in {y \in (DOMAIN docs) \X (DOMAIN docs) :
                                             Alike(docs, y[1], y[2])}})
           /\ DOMAIN Grown(docs) = DOMAIN docs
  <1> DEFINE D == DOMAIN docs
             places == [i \in D |-> i]
             pairs == PairsOf(places)
             K == {k \in DOMAIN pairs : Alike(docs, pairs[k][1], pairs[k][2])}
             joined == At(pairs, K)
             links == [k \in DOMAIN joined |-> <<joined[k][2], joined[k][1]>>]
             F == {e \in D \X D : e[2] < e[1] /\ Alike(docs, e[2], e[1])}
             edges == {{x[1], x[2]} : x \in {y \in D \X D : Alike(docs, y[1], y[2])}}
  <1>1. D = 1 .. Len(docs) /\ Len(docs) \in Nat /\ IsFiniteSet(D)
    BY FiniteRange DEF IsSequence
  <1>2. Grown(docs) = Unions(places, links)
    BY DEF Grown
  <1> HIDE DEF D
  <1>3. places \in Seq(D) /\ places \in [D -> D] /\ \A i \in D : places[i] = i
    BY <1>1
  <1>4. DOMAIN places = D
    OBVIOUS
  <1>5. /\ pairs \in Seq(D \X D)
        /\ \A e : e \in Range(pairs) <=>
              \E i, j \in DOMAIN places : i < j /\ e = <<places[i], places[j]>>
    <2> HIDE DEF places
    <2>1. QED BY <1>3, PairsInOrder
  <1>6. \A e : e \in Range(pairs) <=> \E i, j \in D : i < j /\ e = <<i, j>>
    <2> HIDE DEF pairs
    <2>1. QED BY <1>3, <1>4, <1>5
  <1> HIDE DEF pairs
  <1>7. K \in SUBSET (DOMAIN pairs)
    OBVIOUS
  <1>8. /\ joined \in Seq(D \X D)
        /\ \A n \in DOMAIN joined : Nth(K, n) \in K /\ joined[n] = pairs[Nth(K, n)]
        /\ \A k \in K : \E n \in DOMAIN joined : Nth(K, n) = k
    <2> HIDE DEF K
    <2>1. QED BY <1>5, <1>7, AtPlaces
  <1> HIDE DEF joined
  <1>9. ASSUME NEW n \in DOMAIN joined PROVE links[n] \in F
    <2>1. /\ joined[n] \in Range(pairs) /\ joined[n] \in D \X D
          /\ Alike(docs, joined[n][1], joined[n][2])
      <3>1. PICK k \in K : joined[n] = pairs[k]
        <4> HIDE DEF K
        <4>1. QED BY <1>8
      <3>2. k \in DOMAIN pairs /\ Alike(docs, pairs[k][1], pairs[k][2])
        OBVIOUS
      <3>3. joined[n] \in D \X D
        BY <1>8
      <3>4. QED BY <3>1, <3>2, <3>3 DEF Range
    <2>2. PICK i \in D, j \in D : i < j /\ joined[n] = <<i, j>>
      BY <1>6, <2>1
    <2>3. links[n] = <<j, i>>
      BY <2>2
    <2>4. QED BY <2>1, <2>2, <2>3
  <1>10. ASSUME NEW e \in F PROVE \E n \in DOMAIN joined : links[n] = e
    <2>1. PICK i \in D, j \in D : e = <<j, i>> /\ i < j /\ Alike(docs, i, j)
      OBVIOUS
    <2>2. <<i, j>> \in Range(pairs)
      BY <1>6, <2>1
    <2>3. PICK k \in DOMAIN pairs : pairs[k] = <<i, j>>
      BY <2>2 DEF Range
    <2>4. k \in K
      BY <2>1, <2>3
    <2>5. PICK n \in DOMAIN joined : Nth(K, n) = k
      BY <1>8, <2>4
    <2>6. joined[n] = <<i, j>>
      BY <1>8, <2>3, <2>5
    <2>7. QED BY <2>1, <2>6
  <1>11. DOMAIN joined = 1 .. Len(joined) /\ Len(joined) \in Nat
    BY <1>8
  <1>12. DOMAIN links = DOMAIN joined
    OBVIOUS
  <1>13. links \in Seq(F)
    <2>1. links = [n \in 1 .. Len(joined) |-> links[n]]
      BY <1>11
    <2> HIDE DEF links, F
    <2>2. QED BY <1>9, <1>11, <2>1
  <1>14. Range(links) = F
    <2> HIDE DEF links, F
    <2>1. QED BY <1>9, <1>10, <1>12 DEF Range
  <1>15. F \in SUBSET (D \X D)
    OBVIOUS
  <1> HIDE DEF links, K
  <1>16. Joins(places, D, {}, F)
    <2> HIDE DEF F
    <2>1. QED BY <1>1, StartJoins
  <1>17. Joins(Grown(docs), D, F, F)
    <2> HIDE DEF F, places
    <2>1. Joins(Unions(places, links), D, Range(links), F)
      BY <1>1, <1>3, <1>13, <1>15, <1>16, UnionsJoin
    <2>2. QED BY <1>2, <1>14, <2>1
  <1>18. Discover(docs) = ComponentsOf(D, {{e[1], e[2]} : e \in F})
    <2> HIDE DEF F
    <2>1. QED BY <1>1, <1>15, <1>17, TreesAreComponents DEF Discover
  <1>19. ASSUME NEW i \in D, NEW j \in D, i # j
         PROVE  {i, j} \in {{e[1], e[2]} : e \in F} <=> {i, j} \in edges
    <2>1. Alike(docs, i, j) <=> Alike(docs, j, i)
      <3>1. Range(docs[i]) \cap Range(docs[j]) = Range(docs[j]) \cap Range(docs[i])
        OBVIOUS
      <3>2. QED BY <3>1 DEF Alike
    <2>2. i < j \/ j < i
      BY <1>1, <1>19
    <2>3. {i, j} \in edges <=> Alike(docs, i, j)
      <3>1. ASSUME {i, j} \in edges PROVE Alike(docs, i, j)
        <4>1. PICK y \in D \X D : Alike(docs, y[1], y[2]) /\ {i, j} = {y[1], y[2]}
          BY <3>1
        <4>2. (y[1] = i /\ y[2] = j) \/ (y[1] = j /\ y[2] = i)
          BY <1>19, <4>1
        <4>3. QED BY <2>1, <4>1, <4>2
      <3>2. ASSUME Alike(docs, i, j) PROVE {i, j} \in edges
        <4>1. <<i, j>> \in {y \in D \X D : Alike(docs, y[1], y[2])}
          BY <3>2
        <4>2. <<i, j>>[1] = i /\ <<i, j>>[2] = j
          OBVIOUS
        <4>3. QED BY <4>1, <4>2
      <3>3. QED BY <3>1, <3>2
    <2>4. {i, j} \in {{e[1], e[2]} : e \in F} <=> Alike(docs, i, j)
      <3>1. ASSUME {i, j} \in {{e[1], e[2]} : e \in F} PROVE Alike(docs, i, j)
        <4>1. PICK y \in D \X D : Alike(docs, y[2], y[1]) /\ {i, j} = {y[1], y[2]}
          BY <3>1
        <4>2. (y[1] = i /\ y[2] = j) \/ (y[1] = j /\ y[2] = i)
          BY <1>19, <4>1
        <4>3. QED BY <2>1, <4>1, <4>2
      <3>2. ASSUME Alike(docs, i, j) PROVE {i, j} \in {{e[1], e[2]} : e \in F}
        <4>1. <<i, j>> \in F \/ <<j, i>> \in F
          BY <2>1, <2>2, <3>2
        <4>2. <<i, j>>[1] = i /\ <<i, j>>[2] = j /\ <<j, i>>[1] = j /\ <<j, i>>[2] = i
          OBVIOUS
        <4>3. {i, j} = {j, i}
          OBVIOUS
        <4> HIDE DEF F
        <4>4. QED BY <4>1, <4>2, <4>3
      <3>3. QED BY <3>1, <3>2
    <2>5. QED BY <2>3, <2>4
  <1>20. ComponentsOf(D, {{e[1], e[2]} : e \in F}) = ComponentsOf(D, edges)
    <2> DEFINE G == {{e[1], e[2]} : e \in F}
    <2>1. \A i, j \in D : i # j => ({i, j} \in G <=> {i, j} \in edges)
      BY <1>19
    <2> HIDE DEF G, edges
    <2>2. ComponentsOf(D, G) = ComponentsOf(D, edges)
      BY <2>1, SameComponents
    <2>3. QED BY <2>2 DEF G
  <1>21. DOMAIN Grown(docs) = D
    BY <1>17 DEF Joins, Tops
  <1>22. QED BY <1>18, <1>20, <1>21 DEF D

(* The mentions of which no topic is known, each in one place.             *)
LEMMA UnmatchedPlaces ==
    ASSUME NEW N \in Nat, NEW known, DOMAIN known = 1 .. N
    PROVE  /\ Unmatched(known) \in Seq(1 .. N)
           /\ \A k, l \in DOMAIN Unmatched(known) :
                 Unmatched(known)[k] = Unmatched(known)[l] => k = l
  <1> DEFINE s == [i \in DOMAIN known |-> i]
             S == {i \in DOMAIN known : known[i] = <<>>}
             places == At(s, S)
  <1>1. Unmatched(known) = places
    BY DEF Unmatched
  <1>2. s \in Seq(1 .. N) /\ DOMAIN s = 1 .. N /\ S \in SUBSET (1 .. N)
    OBVIOUS
  <1>3. \A i \in S : s[i] = i
    OBVIOUS
  <1> HIDE DEF s, S
  <1>4. S \in SUBSET Nat /\ IsFiniteSet(S)
    BY <1>2, PlacesFinite
  <1>5. /\ places \in Seq(1 .. N) /\ DOMAIN places = 1 .. Cardinality(S)
        /\ \A n \in DOMAIN places : Nth(S, n) \in S /\ places[n] = s[Nth(S, n)]
    <2>1. S \in SUBSET (DOMAIN s)
      BY ONLY <1>2
    <2>2. QED BY ONLY <1>2, <2>1, AtPlaces
  <1>6. /\ Cardinality(S) \in Nat
        /\ \A m, n \in 1 .. Cardinality(S) : m < n => Nth(S, m) < Nth(S, n)
    BY <1>4, PlacesInOrder
  <1> HIDE DEF places
  <1>7. \A n \in DOMAIN places : places[n] = Nth(S, n) /\ Nth(S, n) \in Nat
    BY <1>3, <1>4, <1>5
  <1>8. ASSUME NEW k \in DOMAIN places, NEW l \in DOMAIN places, places[k] = places[l]
        PROVE  k = l
    <2>1. Nth(S, k) = Nth(S, l) /\ Nth(S, k) \in Nat
      BY <1>7, <1>8
    <2>2. ~(k < l) /\ ~(l < k)
      BY <1>5, <1>6, <2>1
    <2>3. k \in Nat /\ l \in Nat
      BY <1>5
    <2>4. QED BY <2>2, <2>3
  <1>9. QED BY <1>1, <1>5, <1>8

(* Artifacts count each mention once: one of a known topic for the topic,  *)
(* any other for the cluster it is in.  [topic_enricher.py:prepare]        *)
LEMMA ArtifactsSplit ==
    ASSUME NEW prepared, NEW topics, NEW N \in Nat, DOMAIN topics = 1 .. N,
           prepared.places \in Seq(1 .. N),
           \A k, l \in DOMAIN prepared.places : prepared.places[k] = prepared.places[l] => k = l,
           UNION prepared.clusters = DOMAIN prepared.places, {} \notin prepared.clusters,
           \A S, T \in prepared.clusters : S # T => S \cap T = {}
    PROVE  /\ {a.cluster : a \in TopicArtifacts(prepared, topics)} \ {{}} = prepared.clusters
           /\ MapThenSumSet(LAMBDA a : a.size, TopicArtifacts(prepared, topics)) = N
  <1> DEFINE places == prepared.places
             clusters == prepared.clusters
             matched == DOMAIN topics \ Range(places)
             keys == {topics[i].key : i \in matched}
             of(k) == {i \in matched : topics[i].key = k}
             at(c) == {places[n] : n \in c}
             known(k) == [key |-> k, cluster |-> {}, size |-> Cardinality(of(k))]
             found(c) == [key |-> Discovered(TermsOf(prepared.docs, c)).key, cluster |-> c,
                          size |-> Cardinality(c)]
             A == {known(k) : k \in keys} \cup {found(c) : c \in clusters}
             part == [a \in A |-> IF a.cluster = {} THEN of(a.key) ELSE at(a.cluster)]
  <1>1. TopicArtifacts(prepared, topics) = A
    BY DEF TopicArtifacts
  <1> HIDE DEF matched
  <1>2. /\ matched \in SUBSET (1 .. N) /\ Range(places) \in SUBSET (1 .. N)
        /\ matched \cup Range(places) = 1 .. N /\ matched \cap Range(places) = {}
    BY DEF matched, Range
  <1>3. IsFiniteSet(1 .. N) /\ Cardinality(1 .. N) = N
    BY FS_Interval
  <1>4. IsFiniteSet(matched) /\ IsFiniteSet(DOMAIN places)
    <2>1. IsFiniteSet(matched)
      BY <1>2, <1>3, FS_Subset
    <2>2. DOMAIN places = 1 .. Len(places) /\ Len(places) \in Nat
      OBVIOUS
    <2>3. QED BY <2>1, <2>2, FS_Interval
  <1> HIDE DEF places, clusters
  <1>5. /\ \A k, l \in DOMAIN places : places[k] = places[l] => k = l
        /\ UNION clusters = DOMAIN places /\ {} \notin clusters
        /\ \A S, T \in clusters : S # T => S \cap T = {}
    BY DEF places, clusters
  <1>6. \A c \in clusters : c # {} /\ c \in SUBSET (DOMAIN places)
    BY <1>5
  <1>7. ASSUME NEW k PROVE IsFiniteSet(of(k)) /\ of(k) \in SUBSET matched
    <2>1. of(k) \in SUBSET matched
      OBVIOUS
    <2> HIDE DEF of
    <2>2. QED BY <1>4, <2>1, FS_Subset
  <1>8. ASSUME NEW c \in clusters
        PROVE  /\ IsFiniteSet(at(c)) /\ Cardinality(at(c)) = Cardinality(c)
               /\ at(c) \in SUBSET Range(places)
    <2>1. IsFiniteSet(c)
      BY <1>4, <1>6, FS_Subset
    <2> DEFINE g == [n \in c |-> places[n]]
    <2>2. DOMAIN g = c /\ at(c) = {g[n] : n \in c}
      OBVIOUS
    <2>3. \A x, y \in c : g[x] = g[y] => x = y
      BY <1>5, <1>6
    <2>4. at(c) \in SUBSET Range(places)
      BY <1>6 DEF Range
    <2> HIDE DEF g, at
    <2>5. QED BY <2>1, <2>2, <2>3, <2>4, FiniteImage
  <1>9. /\ \A k \in keys : /\ known(k).cluster = {} /\ known(k).key = k
                           /\ known(k).size = Cardinality(of(k)) /\ known(k) \in A
        /\ \A c \in clusters : /\ found(c).cluster = c /\ found(c).size = Cardinality(c)
                              /\ found(c) \in A
    <2>1. \A k : known(k).cluster = {} /\ known(k).key = k /\ known(k).size = Cardinality(of(k))
      <3> HIDE DEF of
      <3>1. QED OBVIOUS
    <2>2. \A c : found(c).cluster = c /\ found(c).size = Cardinality(c)
      OBVIOUS
    <2> HIDE DEF known, found, keys
    <2>3. \A k \in keys : known(k) \in A
      OBVIOUS
    <2>4. \A c \in clusters : found(c) \in A
      OBVIOUS
    <2>5. QED BY ONLY <2>1, <2>2, <2>3, <2>4
  <1> HIDE DEF of, at
  <1>10. /\ \A k \in keys : part[known(k)] = of(k)
         /\ \A c \in clusters : part[found(c)] = at(c)
    BY <1>6
  <1>11. \A a \in A : (\E k \in keys : a = known(k)) \/ (\E c \in clusters : a = found(c))
    OBVIOUS
  <1>12. IsFiniteSet(A)
    <2>1. IsFiniteSet(keys)
      <3> DEFINE g == [i \in matched |-> topics[i].key]
      <3>1. DOMAIN g = matched /\ keys = {g[i] : i \in matched}
        OBVIOUS
      <3> HIDE DEF g, keys
      <3>2. QED BY <1>4, <3>1, FiniteImage
    <2>2. IsFiniteSet(clusters)
      <3>1. clusters \in SUBSET SUBSET (DOMAIN places)
        BY <1>6
      <3>2. IsFiniteSet(SUBSET (DOMAIN places))
        BY <1>4, FS_SUBSET
      <3>3. QED BY <3>1, <3>2, FS_Subset
    <2> DEFINE g == [k \in keys |-> known(k)]
               h == [c \in clusters |-> found(c)]
               G == {known(k) : k \in keys}
               H == {found(c) : c \in clusters}
    <2> HIDE DEF known, found, keys
    <2>3. DOMAIN g = keys /\ G = {g[k] : k \in keys}
      OBVIOUS
    <2>4. DOMAIN h = clusters /\ H = {h[c] : c \in clusters}
      OBVIOUS
    <2>5. A = G \cup H
      OBVIOUS
    <2> HIDE DEF g, h, G, H, A
    <2>6. IsFiniteSet(G) /\ IsFiniteSet(H)
      BY <2>1, <2>2, <2>3, <2>4, FiniteImage
    <2>7. QED BY <2>5, <2>6, FS_Union
  <1>13. DOMAIN part = A
    OBVIOUS
  <1> HIDE DEF part, known, found, A
  <1>14. \A a \in A : IsFiniteSet(part[a]) /\ a.size = Cardinality(part[a])
    BY <1>7, <1>8, <1>9, <1>10, <1>11
  <1>15. ASSUME NEW a \in A, NEW b \in A, a # b PROVE part[a] \cap part[b] = {}
    <2>1. ASSUME NEW k \in keys, NEW l \in keys, a = known(k), b = known(l)
          PROVE  part[a] \cap part[b] = {}
      <3>1. k # l
        BY <1>15, <2>1
      <3>2. of(k) \cap of(l) = {}
        BY <3>1 DEF of
      <3>3. QED BY <1>10, <2>1, <3>2
    <2>2. ASSUME NEW k \in keys, NEW c \in clusters PROVE of(k) \cap at(c) = {}
      BY <1>2, <1>7, <1>8
    <2>3. ASSUME NEW c \in clusters, NEW e \in clusters, a = found(c), b = found(e)
          PROVE  part[a] \cap part[b] = {}
      <3>1. c # e
        BY <1>15, <2>3
      <3>2. c \cap e = {}
        BY <1>5, <3>1
      <3>3. at(c) \cap at(e) = {}
        BY <1>5, <1>6, <3>2 DEF at
      <3>4. QED BY <1>10, <2>3, <3>3
    <2>4. QED BY <1>10, <1>11, <2>1, <2>2, <2>3
  <1>16. UNION {part[a] : a \in A} = 1 .. N
    <2>1. ASSUME NEW a \in A PROVE part[a] \in SUBSET (1 .. N)
      BY <1>2, <1>7, <1>8, <1>10, <1>11
    <2>2. ASSUME NEW i \in 1 .. N PROVE \E a \in A : i \in part[a]
      <3>1. CASE i \in matched
        <4>1. topics[i].key \in keys
          BY <3>1
        <4>2. i \in of(topics[i].key)
          BY <3>1 DEF of
        <4> HIDE DEF keys
        <4>3. QED BY <1>9, <1>10, <4>1, <4>2
      <3>2. CASE i \notin matched
        <4>1. PICK n \in DOMAIN places : places[n] = i
          BY <1>2, <3>2 DEF Range
        <4>2. PICK c \in clusters : n \in c
          BY <1>5
        <4>3. i \in at(c)
          BY <4>1, <4>2 DEF at
        <4>4. QED BY <1>9, <1>10, <4>3
      <3>3. QED BY <3>1, <3>2
    <2> HIDE DEF keys
    <2>3. QED BY <2>1, <2>2
  <1>17. MapThenSumSet(LAMBDA a : a.size, A) = Cardinality(UNION {part[a] : a \in A})
    BY <1>12, <1>13, <1>14, <1>15, SizesAddUp
  <1>18. {a.cluster : a \in A} \ {{}} = clusters
    BY <1>6, <1>9, <1>11
  <1>19. MapThenSumSet(LAMBDA a : a.size, A) = N
    <2>1. Cardinality(UNION {part[a] : a \in A}) = N
      BY <1>3, <1>16
    <2>2. QED BY ONLY <1>17, <2>1
  <1>20. QED BY <1>1, <1>18, <1>19 DEF clusters

(***************************************************************************)
(* In every run the mentions no topic is known of fall into the connected  *)
(* components of sharing two top words, in whatever order they were        *)
(* linked, and the sizes of the artifacts add up to the mentions.          *)
(***************************************************************************)
THEOREM TopicsSplitTheBatch == Spec => []TopicsAreComponents
  <1>1. MentionsOfRecords /\ ReportOfFacts => TopicsAreComponents
    <2> DEFINE ms == facts.mentions
               o == run.ontology
               known == KnownTopics(ms, o)
               places == Unmatched(known)
               docs == Documents(ms, places)
               prepared == Prepare(ms, o)
               topics == TopicAssignments(prepared)
               artifacts == TopicArtifacts(prepared, topics)
               edges == {{x[1], x[2]} : x \in {y \in (DOMAIN docs) \X (DOMAIN docs) :
                                                  Alike(docs, y[1], y[2])}}
    <2> SUFFICES ASSUME MentionsOfRecords, ReportOfFacts, facts.enrichment # <<>>
                 PROVE  TopicsAreComponents
      BY DEF TopicsAreComponents
    <2>1. IsSequence(ms) /\ DOMAIN ms = 1 .. Len(ms) /\ Len(ms) \in Nat
      BY DEF MentionsOfRecords, IsSequence
    <2>2. facts.enrichment[1].artifacts = artifacts
      <3>1. facts.enrichment[1] = EnrichMentions(ms, o)
        BY DEF ReportOfFacts
      <3>2. EnrichMentions(ms, o).artifacts = artifacts
        BY DEF EnrichMentions, Bundle
      <3>3. QED BY <3>1, <3>2
    <2>3. /\ prepared.known = known /\ prepared.places = places
          /\ prepared.docs = docs /\ prepared.clusters = Discover(docs)
      BY DEF Prepare, Prepared
    <2>4. DOMAIN known = 1 .. Len(ms)
      BY <2>1 DEF KnownTopics
    <2>5. DOMAIN topics = 1 .. Len(ms)
      BY <2>3, <2>4 DEF TopicAssignments
    <2>6. DOMAIN docs = DOMAIN places
      BY DEF Documents
    <2> HIDE DEF ms, o, known, prepared, topics
    <2>7. /\ places \in Seq(1 .. Len(ms))
          /\ \A k, l \in DOMAIN places : places[k] = places[l] => k = l
      BY <2>1, <2>4, UnmatchedPlaces
    <2> HIDE DEF places
    <2>8. IsSequence(docs)
      <3>1. DOMAIN places = 1 .. Len(places) /\ Len(places) \in Nat
        BY <2>7
      <3>2. docs = [k \in 1 .. Len(places) |-> TokensOf(Words[ms[places[k]].text])]
        BY <3>1 DEF Documents
      <3>3. QED BY <3>1, <3>2 DEF IsSequence, Range
    <2> HIDE DEF docs
    <2>9. Discover(docs) = ComponentsOf(DOMAIN docs, edges) /\ DOMAIN Grown(docs) = DOMAIN docs
      BY <2>8, DiscoverComponents
    <2>10. /\ UNION Discover(docs) = DOMAIN docs /\ {} \notin Discover(docs)
           /\ \A S, T \in Discover(docs) : S # T => S \cap T = {}
      BY <2>9, TreesSplit DEF Discover
    <2>11. /\ {a.cluster : a \in artifacts} \ {{}} = Discover(docs)
           /\ MapThenSumSet(LAMBDA a : a.size, artifacts) = Len(ms)
      <3> DEFINE N == Len(ms)
      <3>1. /\ N \in Nat /\ DOMAIN topics = 1 .. N /\ prepared.places \in Seq(1 .. N)
            /\ \A k, l \in DOMAIN prepared.places :
                   prepared.places[k] = prepared.places[l] => k = l
            /\ UNION prepared.clusters = DOMAIN prepared.places /\ {} \notin prepared.clusters
            /\ \A S, T \in prepared.clusters : S # T => S \cap T = {}
        BY <2>1, <2>3, <2>5, <2>6, <2>7, <2>10
      <3> HIDE DEF N
      <3>2. /\ {a.cluster : a \in artifacts} \ {{}} = prepared.clusters
            /\ MapThenSumSet(LAMBDA a : a.size, artifacts) = N
        BY <3>1, ArtifactsSplit
      <3>3. QED BY <2>3, <3>2 DEF N
    <2> HIDE DEF artifacts
    <2>12. QED BY <2>2, <2>3, <2>9, <2>11 DEF TopicsAreComponents, ms, o, prepared
  <1>2. QED BY <1>1, MentionsStay, ReportStays, PTL

-----------------------------------------------------------------------------
(* Sets listed in some order, and components under other names.            *)

(* A set listed in some order: every member has a place.                   *)
LEMMA ListedSet ==
    ASSUME NEW S, IsFiniteSet(S)
    PROVE  SetToSeq(S) \in Seq(S) /\ Range(SetToSeq(S)) = S
  <1> DEFINE N == Cardinality(S)
             Is(f) == f \in [1 .. N -> S] /\ IsInjective(f)
             s == CHOOSE f : Is(f)
  <1>1. N \in Nat /\ ExistsBijection(1 .. N, S)
    BY FS_CardinalityType
  <1>2. PICK f : f \in Bijection(1 .. N, S)
    BY <1>1 DEF ExistsBijection
  <1>3. Is(f)
    <2> HIDE DEF N
    <2>1. QED BY <1>2 DEF Bijection, Injection
  <1>4. SetToSeq(S) = s
    BY DEF SetToSeq
  <1>5. Is(s)
    <2> HIDE DEF Is
    <2>1. QED BY <1>3
  <1> HIDE DEF s
  <1>6. s \in Injection(1 .. N, S)
    BY <1>5 DEF Injection
  <1>7. Cardinality(1 .. N) = Cardinality(S)
    <2>1. Cardinality(1 .. N) = N
      <3> HIDE DEF N
      <3>1. QED BY <1>1, FS_Interval
    <2>2. QED BY <2>1
  <1>8. s \in Surjection(1 .. N, S)
    <2> HIDE DEF N
    <2>1. QED BY <1>6, <1>7, FS_Injection
  <1>9. s \in Seq(S) /\ Range(s) = S
    <2> HIDE DEF N
    <2>1. QED BY <1>1, <1>5, <1>8 DEF Surjection, Range
  <1>10. QED BY <1>4, <1>9

(* A list comprehension keeps what is at its places.                       *)
LEMMA RangeAt ==
    ASSUME NEW R, NEW s \in Seq(R), NEW S \in SUBSET (DOMAIN s)
    PROVE  Range(At(s, S)) = {s[i] : i \in S}
  <1>1. /\ \A n \in DOMAIN At(s, S) : Nth(S, n) \in S /\ At(s, S)[n] = s[Nth(S, n)]
        /\ \A i \in S : \E n \in DOMAIN At(s, S) : Nth(S, n) = i
    BY AtPlaces
  <1> DEFINE u == At(s, S)
  <1> HIDE DEF u
  <1>2. \A x \in Range(u) : x \in {s[i] : i \in S}
    BY <1>1 DEF Range, u
  <1>3. \A i \in S : s[i] \in Range(u)
    BY <1>1 DEF Range, u
  <1>4. QED BY <1>2, <1>3 DEF u

(* The pairs of a list comprehension are those of its places.              *)
LEMMA PairsAt ==
    ASSUME NEW R, NEW s \in Seq(R), NEW S \in SUBSET (DOMAIN s)
    PROVE  /\ PairsOf(At(s, S)) \in Seq(R \X R)
           /\ \A e : e \in Range(PairsOf(At(s, S))) <=>
                  \E i, j \in S : i < j /\ e = <<s[i], s[j]>>
  <1> DEFINE u == At(s, S)
             N == Cardinality(S)
  <1>1. /\ u \in Seq(R) /\ DOMAIN u = 1 .. N
        /\ \A n \in 1 .. N : Nth(S, n) \in S /\ u[n] = s[Nth(S, n)]
        /\ \A i \in S : \E n \in 1 .. N : Nth(S, n) = i
    BY AtPlaces
  <1>2. S \in SUBSET Nat /\ IsFiniteSet(S)
    BY PlacesFinite
  <1>3. N \in Nat /\ \A m, n \in 1 .. N : m < n => Nth(S, m) < Nth(S, n)
    BY <1>2, PlacesInOrder
  <1> HIDE DEF u, N
  <1>4. /\ PairsOf(u) \in Seq(R \X R)
        /\ \A e : e \in Range(PairsOf(u)) <=>
               \E m, n \in DOMAIN u : m < n /\ e = <<u[m], u[n]>>
    BY <1>1, PairsInOrder
  <1>5. ASSUME NEW e, e \in Range(PairsOf(u))
        PROVE  \E i, j \in S : i < j /\ e = <<s[i], s[j]>>
    <2>1. PICK m \in 1 .. N, n \in 1 .. N : m < n /\ e = <<u[m], u[n]>>
      BY <1>1, <1>4, <1>5
    <2>2. Nth(S, m) < Nth(S, n)
      BY <1>3, <2>1
    <2>3. /\ Nth(S, m) \in S /\ Nth(S, n) \in S
          /\ e = <<s[Nth(S, m)], s[Nth(S, n)]>>
      BY <1>1, <2>1
    <2>4. QED BY <2>2, <2>3
  <1>6. ASSUME NEW i \in S, NEW j \in S, i < j PROVE <<s[i], s[j]>> \in Range(PairsOf(u))
    <2>1. PICK m \in 1 .. N : Nth(S, m) = i
      BY <1>1
    <2>2. PICK n \in 1 .. N : Nth(S, n) = j
      BY <1>1
    <2>3. i \in Nat /\ j \in Nat
      BY <1>2
    <2>4. m < n
      <3>1. ~(n < m) /\ m # n
        BY <1>3, <1>6, <2>1, <2>2, <2>3
      <3>2. m \in Nat /\ n \in Nat
        BY <1>3
      <3>3. QED BY <3>1, <3>2
    <2>5. u[m] = s[i] /\ u[n] = s[j]
      BY <1>1, <2>1, <2>2
    <2>6. QED BY <1>1, <1>4, <2>4, <2>5
  <1>7. QED BY <1>4, <1>5, <1>6 DEF u

\* The items of S under their other names.
Renamed(f, S) == {f[i] : i \in S}

\* The items D and edges E are those of T and G under other names.
Renames(f, D, T, E, G) ==
    /\ DOMAIN f = D /\ T = Renamed(f, D)
    /\ \A i, j \in D : f[i] = f[j] => i = j
    /\ \A i, j \in D : i # j => ({f[i], f[j]} \in G <=> {i, j} \in E)

(* Components stay what they are when the items are renamed.               *)
LEMMA MovedComponents ==
    ASSUME NEW f, NEW D, NEW T, NEW E, NEW G, Renames(f, D, T, E, G)
    PROVE  ComponentsOf(T, G) = {Renamed(f, S) : S \in ComponentsOf(D, E)}
  <1> DEFINE closedE(S) == \A i \in S, j \in D : {i, j} \in E => j \in S
             closedG(S) == \A i \in S, j \in T : {i, j} \in G => j \in S
             image(S) == {f[i] : i \in S}
             back(S) == {i \in D : f[i] \in S}
  <1>0. /\ DOMAIN f = D /\ T = image(D)
        /\ \A i, j \in D : f[i] = f[j] => i = j
        /\ \A i, j \in D : i # j => ({f[i], f[j]} \in G <=> {i, j} \in E)
    BY DEF Renamed, Renames
  <1>1. \A S \in SUBSET D : image(S) \in SUBSET T /\ back(image(S)) = S
    BY <1>0
  <1>2. \A S \in SUBSET T : back(S) \in SUBSET D /\ image(back(S)) = S
    BY <1>0
  <1>3. ASSUME NEW S \in SUBSET D PROVE closedE(S) <=> closedG(image(S))
    <2>1. ASSUME closedE(S), NEW x \in image(S), NEW y \in T, {x, y} \in G PROVE y \in image(S)
      <3>1. PICK i \in S : x = f[i]
        OBVIOUS
      <3>2. PICK j \in D : y = f[j]
        BY <1>0
      <3>3. CASE i = j
        BY <3>1, <3>2, <3>3
      <3>4. CASE i # j
        BY <1>0, <2>1, <3>1, <3>2, <3>4
      <3>5. QED BY <3>3, <3>4
    <2>2. ASSUME closedG(image(S)), NEW i \in S, NEW j \in D, {i, j} \in E PROVE j \in S
      <3>1. CASE i = j
        BY <3>1
      <3>2. CASE i # j
        <4>1. {f[i], f[j]} \in G /\ f[i] \in image(S) /\ f[j] \in T
          BY <1>0, <2>2, <3>2
        <4>2. f[j] \in image(S)
          <5> HIDE DEF image
          <5>1. QED BY <2>2, <4>1
        <4>3. QED BY <1>0, <4>2
      <3>3. QED BY <3>1, <3>2
    <2> HIDE DEF image
    <2>3. QED BY <2>1, <2>2
  <1>4. /\ \A S, U \in SUBSET D : S \subseteq U <=> image(S) \subseteq image(U)
        /\ image({}) = {}
        /\ \A S \in SUBSET D : S = {} <=> image(S) = {}
    BY <1>0
  <1>5. /\ ComponentsOf(D, E) = {S \in SUBSET D :
               /\ S # {} /\ closedE(S)
               /\ \A U \in SUBSET S : closedE(U) => U \in {{}, S}}
        /\ ComponentsOf(T, G) = {S \in SUBSET T :
               /\ S # {} /\ closedG(S)
               /\ \A U \in SUBSET S : closedG(U) => U \in {{}, S}}
    BY DEF ComponentsOf
  <1> HIDE DEF closedE, closedG, image, back
  <1>6. ASSUME NEW S \in ComponentsOf(D, E) PROVE image(S) \in ComponentsOf(T, G)
    <2>1. /\ S \in SUBSET D /\ S # {} /\ closedE(S)
          /\ \A U \in SUBSET S : closedE(U) => U \in {{}, S}
      BY <1>5
    <2>2. ASSUME NEW U \in SUBSET image(S), closedG(U) PROVE U \in {{}, image(S)}
      <3>1. U \in SUBSET T
        BY <1>1, <2>1
      <3>2. back(U) \in SUBSET D /\ image(back(U)) = U
        BY <1>2, <3>1
      <3>3. back(U) \subseteq S
        BY <1>4, <2>1, <3>2
      <3>4. closedE(back(U))
        BY <1>3, <2>2, <3>2
      <3>5. back(U) = {} \/ back(U) = S
        BY <2>1, <3>3, <3>4
      <3>6. QED BY <1>4, <3>2, <3>5
    <2>3. QED BY <1>1, <1>3, <1>4, <1>5, <2>1, <2>2
  <1>7. ASSUME NEW C \in ComponentsOf(T, G)
        PROVE  \E S \in ComponentsOf(D, E) : C = image(S)
    <2>1. /\ C \in SUBSET T /\ C # {} /\ closedG(C)
          /\ \A U \in SUBSET C : closedG(U) => U \in {{}, C}
      BY <1>5
    <2>2. back(C) \in SUBSET D /\ image(back(C)) = C
      BY <1>2, <2>1
    <2>3. back(C) # {} /\ closedE(back(C))
      BY <1>3, <1>4, <2>1, <2>2
    <2>4. ASSUME NEW U \in SUBSET back(C), closedE(U) PROVE U \in {{}, back(C)}
      <3>1. U \in SUBSET D /\ image(U) \subseteq C
        BY <1>4, <2>2
      <3>2. closedG(image(U))
        BY <1>3, <2>4, <3>1
      <3>3. image(U) = {} \/ image(U) = C
        BY <2>1, <3>1, <3>2
      <3>4. CASE image(U) = {}
        BY <1>4, <3>1, <3>4
      <3>5. CASE image(U) = C
        BY <1>1, <2>2, <3>1, <3>5
      <3>6. QED BY <3>3, <3>4, <3>5
    <2>5. back(C) \in ComponentsOf(D, E)
      BY <1>5, <2>2, <2>3, <2>4
    <2>6. QED BY <2>2, <2>5
  <1>8. ComponentsOf(T, G) = {image(S) : S \in ComponentsOf(D, E)}
    BY <1>6, <1>7
  <1>9. \A S : image(S) = Renamed(f, S)
    BY DEF image, Renamed
  <1>10. QED BY <1>8, <1>9

(* Two components that share an item are one.                              *)
LEMMA ComponentsApart ==
    ASSUME NEW D, NEW E, NEW S \in ComponentsOf(D, E), NEW T \in ComponentsOf(D, E),
           S \cap T # {}
    PROVE  S = T /\ S \in SUBSET D
  <1> DEFINE closed(U) == \A i \in U, j \in D : {i, j} \in E => j \in U
  <1>1. /\ S \in SUBSET D /\ closed(S) /\ \A U \in SUBSET S : closed(U) => U \in {{}, S}
        /\ T \in SUBSET D /\ closed(T) /\ \A U \in SUBSET T : closed(U) => U \in {{}, T}
    BY DEF ComponentsOf
  <1>2. closed(S \cap T)
    BY <1>1
  <1> HIDE DEF closed
  <1>3. S \cap T = S /\ S \cap T = T
    BY <1>1, <1>2
  <1>4. QED BY <1>1, <1>3

-----------------------------------------------------------------------------
(* Clusters.  What is copied or compared, of a batch of mentions.          *)

\* The classes of a batch of mentions, as of Pipeline for those of the run.
Copied(ms, i) == /\ ms[i].text \in LongTexts
                 /\ \E j \in (DOMAIN ms) \ {i} : ms[j].text = ms[i].text
NodesOf(ms) == {i \in DOMAIN ms : ms[i].text \in LongTexts /\ ~Copied(ms, i)}
Sharing(ms, bucket, i) == {j \in NodesOf(ms) : bucket[ms[j].text] = bucket[ms[i].text]}
Linked(ms, alike, bucket, i, j) ==
    /\ {ms[i].text, ms[j].text} \in alike
    /\ \/ Cardinality(NodesOf(ms)) <= BruteForceThreshold
       \/ /\ j \in Sharing(ms, bucket, i)
          /\ Cardinality(Sharing(ms, bucket, i)) <= MaxBucketSize
ClassesOf(ms) ==
    {{j \in DOMAIN ms : ms[j].text = ms[i].text} : i \in {k \in DOMAIN ms : Copied(ms, k)}}
LinksOf(ms, alike, bucket) ==
    {{x[1], x[2]} : x \in {y \in NodesOf(ms) \X NodesOf(ms) :
                              Linked(ms, alike, bucket, y[1], y[2])}}
GroupsOf(ms, alike, bucket) == ComponentsOf(NodesOf(ms), LinksOf(ms, alike, bucket))

\* Mentions of one id have one text.
OneText(ms) == \A i, j \in DOMAIN ms : ms[i].id = ms[j].id => ms[i].text = ms[j].text

\* The mentions with no long text, each by itself.
AloneOf(ms) == {{i} : i \in {j \in DOMAIN ms : ms[j].text \notin LongTexts}}

\* The cluster of the mentions at the places S.
ClusterAt(ms, S) == [ids |-> {ms[i].id : i \in S}, size |-> Cardinality(S)]

(* Of a content that is copied there are two places.                       *)
LEMMA TwoPlaces ==
    ASSUME NEW S, IsFiniteSet(S)
    PROVE  Cardinality(S) >= 2 <=> \E i, j \in S : i # j
  <1>1. Cardinality(S) \in Nat
    BY FS_CardinalityType
  <1>2. ASSUME NEW i \in S, NEW j \in S, i # j PROVE Cardinality(S) >= 2
    <2>1. Cardinality(S) # 0
      BY FS_EmptySet
    <2>2. Cardinality(S) # 1
      <3>1. SUFFICES ASSUME Cardinality(S) = 1 PROVE FALSE
        OBVIOUS
      <3>2. PICK x : S = {x}
        BY <3>1, FS_Singleton
      <3>3. QED BY <1>2, <3>2
    <2>3. QED BY <1>1, <2>1, <2>2
  <1>3. ASSUME \A i, j \in S : i = j PROVE Cardinality(S) < 2
    <2>1. CASE S = {}
      BY <2>1, FS_EmptySet
    <2>2. CASE S # {}
      <3>1. PICK i \in S : TRUE
        BY <2>2
      <3>2. S = {i}
        BY <1>3, <3>1
      <3>3. QED BY <3>2, FS_Singleton
    <2>3. QED BY <2>1, <2>2
  <1>4. QED BY <1>1, <1>2, <1>3

(* The exact clusters are the copies of each text.  [_exact_clusters]      *)
LEMMA ExactAreCopies ==
    ASSUME NEW ms, IsSequence(ms)
    PROVE  /\ IsSequence(ExactClusters(ms))
           /\ Range(ExactClusters(ms)) = {ClusterAt(ms, S) : S \in ClassesOf(ms)}
  <1> DEFINE D == DOMAIN ms
             at(t) == {i \in D : ms[i].text = t}
             texts == {t \in LongTexts : Len(Holding(t, ms)) >= 2}
             cluster(t) == [ids |-> Ids(Holding(t, ms)), size |-> Len(Holding(t, ms))]
             byText == SetToSeq(texts)
             exact == [i \in DOMAIN byText |-> cluster(byText[i])]
             copied == {k \in D : Copied(ms, k)}
  <1>1. ms \in Seq(Range(ms)) /\ IsFiniteSet(D)
    BY FiniteRange DEF IsSequence
  <1>2. ASSUME NEW t
        PROVE  /\ IsFiniteSet(at(t))
               /\ cluster(t) = ClusterAt(ms, at(t)) /\ Len(Holding(t, ms)) = Cardinality(at(t))
    <2>1. at(t) \in SUBSET D
      OBVIOUS
    <2>2. Holding(t, ms) = At(ms, at(t))
      BY DEF Holding
    <2> HIDE DEF at
    <2>3. IsFiniteSet(at(t))
      BY <1>1, <2>1, FS_Subset
    <2>4. Len(Holding(t, ms)) = Cardinality(at(t))
      BY <1>1, <2>1, <2>2, AtPlaces
    <2>5. Range(Holding(t, ms)) = {ms[i] : i \in at(t)}
      BY <1>1, <2>1, <2>2, RangeAt
    <2>6. Ids(Holding(t, ms)) = {ms[i].id : i \in at(t)}
      BY <2>5 DEF Ids
    <2>7. QED BY <2>3, <2>4, <2>6 DEF ClusterAt
  <1>3. ExactClusters(ms) = exact
    BY DEF ExactClusters
  <1>4. \A t : t \in texts <=> t \in LongTexts /\ Cardinality(at(t)) >= 2
    BY <1>2
  <1> HIDE DEF cluster, texts, D
  <1>5. \A i \in D : Copied(ms, i) <=> ms[i].text \in texts
    <2> SUFFICES ASSUME NEW i \in D PROVE Copied(ms, i) <=> ms[i].text \in texts
      OBVIOUS
    <2> DEFINE S == at(ms[i].text)
    <2>1. Copied(ms, i) <=> ms[i].text \in LongTexts /\ \E j \in S : j # i
      BY DEF Copied, D
    <2>2. i \in S /\ IsFiniteSet(S)
      BY <1>2
    <2> HIDE DEF S
    <2>3. (\E j \in S : j # i) <=> Cardinality(S) >= 2
      BY <2>2, TwoPlaces
    <2>4. QED BY <1>4, <2>1, <2>3 DEF S
  <1>6. \A t \in texts : \E i \in D : ms[i].text = t
    <2> SUFFICES ASSUME NEW t \in texts PROVE \E i \in D : ms[i].text = t
      OBVIOUS
    <2>1. Cardinality(at(t)) >= 2 /\ IsFiniteSet(at(t))
      BY <1>2, <1>4
    <2>2. \E i, j \in at(t) : i # j
      <3> HIDE DEF at
      <3>1. QED BY <2>1, TwoPlaces
    <2>3. QED BY <2>2
  <1>7. IsFiniteSet(texts)
    <2> DEFINE g == [i \in D |-> ms[i].text]
               T == {g[i] : i \in D}
    <2>1. texts \in SUBSET T
      BY <1>6
    <2>2. DOMAIN g = D
      OBVIOUS
    <2>3. T = {g[i] : i \in D}
      OBVIOUS
    <2> HIDE DEF g, T
    <2>4. IsFiniteSet(T)
      BY <1>1, <2>2, <2>3, FiniteImage
    <2>5. QED BY <2>1, <2>4, FS_Subset
  <1>8. byText \in Seq(texts) /\ Range(byText) = texts
    BY <1>7, ListedSet
  <1> HIDE DEF byText
  <1>9. DOMAIN byText = 1 .. Len(byText) /\ Len(byText) \in Nat
    BY <1>8
  <1>10. exact \in Seq(Range(exact)) /\ Range(exact) = {cluster(t) : t \in texts}
    <2>1. DOMAIN exact = 1 .. Len(byText)
      BY <1>9
    <2>2. exact = [i \in 1 .. Len(byText) |-> exact[i]]
      BY <1>9
    <2>3. Range(exact) = {cluster(t) : t \in texts}
      BY <1>8 DEF Range
    <2>4. \A i \in 1 .. Len(byText) : exact[i] \in Range(exact)
      <3> HIDE DEF exact
      <3>1. QED BY <2>1 DEF Range
    <2> HIDE DEF exact
    <2>5. QED BY <1>9, <2>2, <2>3, <2>4
  <1>11. {cluster(t) : t \in texts} = {ClusterAt(ms, S) : S \in ClassesOf(ms)}
    <2>1. ClassesOf(ms) = {at(ms[i].text) : i \in copied}
      BY DEF ClassesOf, D
    <2>2. \A t \in texts : \E i \in copied : ms[i].text = t
      BY <1>5, <1>6
    <2>3. \A i \in copied : ms[i].text \in texts
      BY <1>5
    <2> HIDE DEF copied, at
    <2>4. \A t : cluster(t) = ClusterAt(ms, at(t))
      BY <1>2
    <2>5. QED BY <2>1, <2>2, <2>3, <2>4
  <1>12. QED BY <1>3, <1>10, <1>11 DEF IsSequence

(* Different mentions with a long text without a copy differ in their      *)
(* texts and ids; and these are what is looked at for near copies.         *)
(* [annotate_dedup.py:_near_clusters]                                      *)
LEMMA NodesDiffer ==
    ASSUME NEW ms, IsSequence(ms), OneText(ms)
    PROVE  /\ NearCandidates(ms, Members(ExactClusters(ms))) = At(ms, NodesOf(ms))
           /\ \A i, j \in NodesOf(ms) : i # j => ms[i].text # ms[j].text /\ ms[i].id # ms[j].id
           /\ \A i, j \in DOMAIN ms : ms[i].id = ms[j].id /\ i \in NodesOf(ms) => i = j
  <1> DEFINE D == DOMAIN ms
             exact == ExactClusters(ms)
             S == {i \in D : ms[i].id \notin Members(exact) /\ ms[i].text \in LongTexts}
  <1>1. ASSUME NEW i \in D, NEW j \in D, ms[i].id = ms[j].id
        PROVE  ms[i].text = ms[j].text /\ (Copied(ms, i) => Copied(ms, j))
    <2>1. ms[i].text = ms[j].text
      BY <1>1 DEF OneText
    <2>2. QED BY <2>1 DEF Copied
  <1>2. \A i, j \in D : ms[i].text = ms[j].text /\ Copied(ms, i) => Copied(ms, j)
    BY DEF Copied
  <1>3. Range(exact) = {ClusterAt(ms, T) : T \in ClassesOf(ms)}
    BY ExactAreCopies
  <1> HIDE DEF exact
  <1>4. ASSUME NEW i \in D PROVE ms[i].id \in Members(exact) <=> Copied(ms, i)
    <2>1. ASSUME ms[i].id \in Members(exact) PROVE Copied(ms, i)
      <3>1. PICK c \in Range(exact) : ms[i].id \in c.ids
        BY <2>1 DEF Members
      <3>2. PICK T \in ClassesOf(ms) : c = ClusterAt(ms, T)
        BY <1>3
      <3>3. PICK k \in D : Copied(ms, k) /\ T = {j \in D : ms[j].text = ms[k].text}
        BY DEF ClassesOf
      <3>4. PICK j \in T : ms[i].id = ms[j].id
        BY <3>1, <3>2 DEF ClusterAt
      <3>5. j \in D /\ ms[k].text = ms[j].text
        BY <3>3
      <3> HIDE DEF D
      <3>6. QED BY <1>1, <1>2, <3>3, <3>4, <3>5
    <2>2. ASSUME Copied(ms, i) PROVE ms[i].id \in Members(exact)
      <3> DEFINE T == {j \in D : ms[j].text = ms[i].text}
      <3>1. T \in ClassesOf(ms) /\ i \in T
        BY <2>2 DEF ClassesOf
      <3> HIDE DEF T
      <3>2. ClusterAt(ms, T) \in Range(exact) /\ ms[i].id \in ClusterAt(ms, T).ids
        BY <1>3, <3>1 DEF ClusterAt
      <3>3. QED BY <3>2 DEF Members
    <2>3. QED BY <2>1, <2>2
  <1>5. S = NodesOf(ms)
    BY <1>4 DEF NodesOf
  <1>6. NearCandidates(ms, Members(exact)) = At(ms, S)
    BY DEF NearCandidates
  <1>7. ASSUME NEW i \in NodesOf(ms), NEW j \in D, i # j
        PROVE  ms[i].text # ms[j].text /\ ms[i].id # ms[j].id
    <2>1. i \in D /\ ms[i].text \in LongTexts /\ ~Copied(ms, i)
      BY DEF NodesOf
    <2>2. ms[i].text # ms[j].text
      BY <1>7, <2>1 DEF Copied
    <2>3. QED BY <1>1, <2>1, <2>2
  <1>8. \A i \in NodesOf(ms) : i \in D
    BY DEF NodesOf
  <1>9. QED BY <1>5, <1>6, <1>7, <1>8 DEF exact

(* All of a list, in order, is the list.                                   *)
LEMMA AllPlaces ==
    ASSUME NEW N \in Nat, NEW n \in 1 .. N
    PROVE  Nth(1 .. N, n) = n
  <1>1. ASSUME NEW i \in 1 .. N PROVE Cardinality({j \in 1 .. N : j <= i}) = i
    <2>1. {j \in 1 .. N : j <= i} = 1 .. i
      OBVIOUS
    <2>2. Cardinality(1 .. i) = i
      BY FS_Interval
    <2>3. QED BY <2>1, <2>2
  <1> DEFINE upto(i) == Cardinality({j \in 1 .. N : j <= i})
  <1>2. Nth(1 .. N, n) = CHOOSE i \in 1 .. N : upto(i) = n
    BY DEF Nth
  <1>3. \A i \in 1 .. N : upto(i) = i
    BY <1>1
  <1> HIDE DEF upto
  <1>4. QED BY <1>2, <1>3

(* Ids that differ are all kept, in order.  [_near_clusters]               *)
LEMMA SignaturesInOrder ==
    ASSUME NEW c, IsSequence(c), \A i, j \in DOMAIN c : c[i].id = c[j].id => i = j
    PROVE  /\ Signatures(c) = [k \in DOMAIN c |-> c[k].id]
           /\ \A k \in DOMAIN c : ById(c)[c[k].id] = c[k]
  <1> DEFINE N == Len(c)
             new == {i \in DOMAIN c : \A j \in 1 .. i - 1 : c[j].id # c[i].id}
             first == At(c, new)
  <1>1. c \in Seq(Range(c)) /\ DOMAIN c = 1 .. N /\ N \in Nat
    BY DEF IsSequence
  <1> HIDE DEF N
  <1>2. new = 1 .. N
    <2>1. ASSUME NEW i \in 1 .. N, NEW j \in 1 .. i - 1 PROVE c[j].id # c[i].id
      <3>1. j \in 1 .. N /\ j # i
        BY <1>1
      <3>2. QED BY <1>1, <3>1
    <2>2. QED BY <1>1, <2>1
  <1> HIDE DEF new
  <1>3. /\ DOMAIN first = 1 .. Cardinality(new)
        /\ \A n \in DOMAIN first : first[n] = c[Nth(new, n)]
    <2>1. new \in SUBSET (DOMAIN c)
      BY <1>1, <1>2
    <2>2. QED BY <1>1, <2>1, AtPlaces
  <1>4. Cardinality(new) = N
    BY <1>1, <1>2, FS_Interval
  <1>5. Signatures(c) = [k \in DOMAIN first |-> first[k].id]
    BY DEF Signatures, new
  <1> HIDE DEF first
  <1>6. \A n \in 1 .. N : first[n] = c[n]
    BY <1>1, <1>2, <1>3, <1>4, AllPlaces
  <1>7. DOMAIN first = DOMAIN c
    BY <1>1, <1>3, <1>4
  <1>8. Signatures(c) = [k \in DOMAIN c |-> c[k].id]
    BY <1>1, <1>5, <1>6, <1>7
  <1>9. ASSUME NEW k \in DOMAIN c PROVE ById(c)[c[k].id] = c[k]
    <2> DEFINE I == {i \in 1 .. Len(c) : c[i].id = c[k].id}
    <2>1. I = {k}
      BY <1>1, <1>9 DEF N
    <2>2. SelectLastInSeq(c, LAMBDA m : m.id = c[k].id) = Max(I)
      <3>1. I # {}
        BY <2>1
      <3>2. QED BY <3>1 DEF SelectLastInSeq
    <2>3. Max(I) = k
      <3>1. k >= k
        BY <1>1, <1>9
      <3>2. QED BY <2>1, <3>1 DEF Max
    <2>4. c[k].id \in Ids(c)
      BY DEF Ids, Range
    <2> HIDE DEF I
    <2>5. ById(c)[c[k].id] = c[SelectLastInSeq(c, LAMBDA m : m.id = c[k].id)]
      BY <2>4 DEF ById
    <2>6. QED BY <2>2, <2>3, <2>5
  <1>10. QED BY <1>8, <1>9

\* The places of ids whose texts share a bucket with that at i.
Near(ids, text, bucket, i) == {j \in DOMAIN ids : bucket[text[ids[j]]] = bucket[text[ids[i]]]}

(* Ids are compared if their bucket is not too large, or the batch small.  *)
(* [minhash.py:candidate_pairs, annotate_dedup.py:_near_clusters]          *)
LEMMA ComparedInBuckets ==
    ASSUME NEW R, NEW ids \in Seq(R), NEW text, NEW bucket
    PROVE  /\ ComparedPairs(ids, text, bucket) \in Seq(R \X R)
           /\ \A e : e \in Range(ComparedPairs(ids, text, bucket)) <=>
                  \E i, j \in DOMAIN ids :
                      /\ i < j /\ e = <<ids[i], ids[j]>>
                      /\ \/ Len(ids) <= BruteForceThreshold
                         \/ /\ j \in Near(ids, text, bucket, i)
                            /\ Cardinality(Near(ids, text, bucket, i)) <= MaxBucketSize
  <1> DEFINE D == DOMAIN ids
             with(i) == {j \in D : bucket[text[ids[j]]] = bucket[text[ids[i]]]}
             first == {i \in D : \A j \in with(i) : i <= j}
             N == Cardinality(first)
             pairs(i) == IF Cardinality(with(i)) > MaxBucketSize THEN <<>>
                         ELSE PairsOf(At(ids, with(i)))
             ss == [k \in 1 .. N |-> pairs(Nth(first, k))]
             all == IF Len(ids) <= BruteForceThreshold THEN PairsOf(ids) ELSE <<>>
             Small(i) == Cardinality(with(i)) <= MaxBucketSize
  <1>1. ComparedPairs(ids, text, bucket) = FlattenSeq(ss) \o all
    BY DEF ComparedPairs
  <1>2. D = 1 .. Len(ids) /\ Len(ids) \in Nat
    OBVIOUS
  <1>3. \A i \in D : i \in with(i) /\ with(i) \in SUBSET D
    OBVIOUS
  <1>4. \A i, j \in D : j \in with(i) => with(j) = with(i)
    OBVIOUS
  <1> HIDE DEF with
  <1>5. first \in SUBSET D
    OBVIOUS
  <1>6. /\ N \in Nat
        /\ \A n \in 1 .. N : Nth(first, n) \in first
        /\ \A i \in first : \E n \in 1 .. N : Nth(first, n) = i
    <2> HIDE DEF first
    <2>1. first \in SUBSET Nat /\ IsFiniteSet(first)
      BY <1>5, PlacesFinite
    <2>2. QED BY <2>1, PlacesInOrder
  <1>7. ASSUME NEW i \in D
        PROVE  /\ Cardinality(with(i)) \in Nat
               /\ \E k \in first : with(k) = with(i)
    <2>1. with(i) \in SUBSET Nat /\ IsFiniteSet(with(i)) /\ with(i) # {}
      BY <1>3, PlacesFinite
    <2>2. PICK k \in with(i) : \A j \in with(i) : k <= j
      BY <2>1, LeastNat
    <2>3. k \in D /\ with(k) = with(i)
      BY <1>3, <1>4
    <2>4. k \in first
      BY <2>2, <2>3
    <2>5. QED BY <2>1, <2>3, <2>4, FS_CardinalityType
  <1>8. ASSUME NEW i \in D
        PROVE  /\ pairs(i) \in Seq(R \X R)
               /\ \A e : e \in Range(pairs(i)) <=>
                     /\ Small(i)
                     /\ \E k, l \in with(i) : k < l /\ e = <<ids[k], ids[l]>>
    <2>1. MaxBucketSize \in Nat /\ Cardinality(with(i)) \in Nat
      BY <1>7, DedupAssumption
    <2>2. CASE Cardinality(with(i)) > MaxBucketSize
      <3>1. pairs(i) = <<>> /\ ~Small(i)
        BY <2>1, <2>2
      <3>2. Range(<<>>) = {} /\ <<>> \in Seq(R \X R)
        BY DEF Range
      <3> HIDE DEF pairs, Small
      <3>3. QED BY ONLY <3>1, <3>2
    <2>3. CASE ~(Cardinality(with(i)) > MaxBucketSize)
      <3>1. pairs(i) = PairsOf(At(ids, with(i))) /\ Small(i)
        BY <2>1, <2>3
      <3>2. with(i) \in SUBSET (DOMAIN ids)
        BY <1>3
      <3> HIDE DEF pairs, Small
      <3>3. QED BY <3>1, <3>2, PairsAt
    <2>4. QED BY <2>2, <2>3
  <1> HIDE DEF pairs, Small, first
  <1>9. /\ ss \in Seq(Seq(R \X R)) /\ DOMAIN ss = 1 .. N
        /\ \A n \in 1 .. N : ss[n] = pairs(Nth(first, n)) /\ Nth(first, n) \in D
    <2>1. \A n \in 1 .. N : Nth(first, n) \in D /\ pairs(Nth(first, n)) \in Seq(R \X R)
      BY <1>5, <1>6, <1>8
    <2> HIDE DEF N
    <2>2. QED BY <1>6, <2>1
  <1>10. /\ FlattenSeq(ss) \in Seq(R \X R)
         /\ Range(FlattenSeq(ss)) = UNION {Range(ss[n]) : n \in DOMAIN ss}
    <2> HIDE DEF ss
    <2>1. QED BY <1>9, FlatRange
  <1> HIDE DEF ss, N
  <1>11. ASSUME NEW e
         PROVE  e \in Range(FlattenSeq(ss)) <=>
                    \E i \in D, j \in D : /\ i < j /\ e = <<ids[i], ids[j]>>
                                          /\ j \in with(i) /\ Small(i)
    <2>1. ASSUME e \in Range(FlattenSeq(ss))
          PROVE  \E i \in D, j \in D : /\ i < j /\ e = <<ids[i], ids[j]>>
                                       /\ j \in with(i) /\ Small(i)
      <3>1. PICK n \in 1 .. N : e \in Range(ss[n])
        BY <1>9, <1>10, <2>1
      <3> DEFINE f == Nth(first, n)
      <3>2. f \in D /\ e \in Range(pairs(f))
        BY <1>9, <3>1
      <3> HIDE DEF f
      <3>3. PICK k \in with(f), l \in with(f) : k < l /\ e = <<ids[k], ids[l]>>
        BY <1>8, <3>2
      <3>4. Small(f)
        BY <1>8, <3>2
      <3>5. k \in D /\ l \in D /\ with(k) = with(f)
        BY <1>3, <1>4, <3>2
      <3>6. Small(k)
        BY <3>4, <3>5 DEF Small
      <3>7. QED BY <3>3, <3>5, <3>6
    <2>2. ASSUME NEW i \in D, NEW j \in D, i < j, e = <<ids[i], ids[j]>>, j \in with(i), Small(i)
          PROVE  e \in Range(FlattenSeq(ss))
      <3>1. PICK k \in first : with(k) = with(i)
        BY <1>7
      <3>2. PICK n \in 1 .. N : Nth(first, n) = k
        BY <1>6
      <3>3. k \in D /\ Small(k) /\ i \in with(k) /\ j \in with(k)
        BY <1>3, <1>5, <2>2, <3>1 DEF Small
      <3>4. e \in Range(pairs(k))
        BY <1>8, <2>2, <3>3
      <3>5. QED BY <1>9, <1>10, <3>2, <3>4
    <2>3. QED BY <2>1, <2>2
  <1>12. /\ all \in Seq(R \X R)
         /\ \A e : e \in Range(all) <=>
                /\ Len(ids) <= BruteForceThreshold
                /\ \E i, j \in D : i < j /\ e = <<ids[i], ids[j]>>
    <2>1. CASE Len(ids) <= BruteForceThreshold
      <3>1. all = PairsOf(ids)
        BY <2>1
      <3> HIDE DEF all
      <3>2. QED BY <2>1, <3>1, PairsInOrder
    <2>2. CASE ~(Len(ids) <= BruteForceThreshold)
      <3>1. all = <<>> /\ Range(<<>>) = {}
        BY <2>2 DEF Range
      <3>2. QED BY <2>2, <3>1
    <2>3. QED BY <2>1, <2>2
  <1> HIDE DEF all
  <1>13. /\ FlattenSeq(ss) \o all \in Seq(R \X R)
         /\ Range(FlattenSeq(ss) \o all) = Range(FlattenSeq(ss)) \cup Range(all)
    BY <1>10, <1>12, RangeOfTwo
  <1>14. \A i \in D : with(i) = Near(ids, text, bucket, i)
    BY DEF with, Near
  <1>15. \A e : e \in Range(FlattenSeq(ss) \o all) <=>
                  \E i, j \in D :
                      /\ i < j /\ e = <<ids[i], ids[j]>>
                      /\ \/ Len(ids) <= BruteForceThreshold
                         \/ j \in with(i) /\ Small(i)
    <2>1. ASSUME NEW e
          PROVE  e \in Range(FlattenSeq(ss) \o all) <=>
                     e \in Range(FlattenSeq(ss)) \/ e \in Range(all)
      BY <1>13
    <2> HIDE DEF D
    <2>2. QED BY <1>11, <1>12, <2>1
  <1>16. QED BY <1>1, <1>13, <1>14, <1>15 DEF Small

(* Who shares a bucket is the same at the ids of a batch and at its places. *)
LEMMA SharedAlike ==
    ASSUME NEW ms, IsSequence(ms), OneText(ms), NEW bucket, NEW c, c = At(ms, NodesOf(ms)),
           NEW ids, ids = [k \in DOMAIN c |-> c[k].id],
           NEW text, \A k \in DOMAIN c : text[ids[k]] = c[k].text,
           NEW a \in DOMAIN c, NEW b \in DOMAIN c
    PROVE  /\ Nth(NodesOf(ms), a) \in NodesOf(ms)
           /\ b \in Near(ids, text, bucket, a)
                 <=> Nth(NodesOf(ms), b) \in Sharing(ms, bucket, Nth(NodesOf(ms), a))
           /\ Cardinality(Near(ids, text, bucket, a))
                 = Cardinality(Sharing(ms, bucket, Nth(NodesOf(ms), a)))
  <1> DEFINE S == NodesOf(ms)
             N == Cardinality(S)
             i == Nth(S, a)
             near == Near(ids, text, bucket, a)
             shared == Sharing(ms, bucket, i)
             g == [k \in near |-> Nth(S, k)]
  <1>1. ms \in Seq(Range(ms)) /\ S \in SUBSET (DOMAIN ms)
    BY DEF NodesOf, IsSequence
  <1> HIDE DEF S
  <1>2. /\ DOMAIN c = 1 .. N
        /\ \A n \in 1 .. N : Nth(S, n) \in S /\ c[n] = ms[Nth(S, n)]
        /\ \A k \in S : \E n \in 1 .. N : Nth(S, n) = k
    <2>1. /\ DOMAIN At(ms, S) = 1 .. Cardinality(S)
          /\ \A n \in DOMAIN At(ms, S) : Nth(S, n) \in S /\ At(ms, S)[n] = ms[Nth(S, n)]
          /\ \A k \in S : \E n \in DOMAIN At(ms, S) : Nth(S, n) = k
      BY ONLY <1>1, AtPlaces
    <2>2. c = At(ms, S)
      BY DEF S
    <2> HIDE DEF near, shared, g
    <2>3. QED BY <2>1, <2>2
  <1>3. S \in SUBSET Nat /\ IsFiniteSet(S)
    BY <1>1, PlacesFinite
  <1>4. N \in Nat /\ \A m, n \in 1 .. N : m < n => Nth(S, m) < Nth(S, n)
    BY <1>3, PlacesInOrder
  <1> HIDE DEF N, i
  <1>5. near = {n \in 1 .. N : bucket[c[n].text] = bucket[c[a].text]}
    BY <1>2 DEF Near
  <1>6. shared = {k \in S : bucket[ms[k].text] = bucket[ms[i].text]}
    BY DEF Sharing, S
  <1>7. i \in S /\ c[a] = ms[i]
    BY <1>2 DEF i
  <1>8. \A n \in 1 .. N : n \in near <=> Nth(S, n) \in shared
    BY <1>2, <1>5, <1>6, <1>7
  <1>9. IsFiniteSet(near)
    <2>1. IsFiniteSet(1 .. N)
      BY <1>4, FS_Interval
    <2>2. near \in SUBSET (1 .. N)
      BY <1>5
    <2> HIDE DEF near
    <2>3. QED BY <2>1, <2>2, FS_Subset
  <1>10. near \in SUBSET (1 .. N)
    BY <1>5
  <1>11. shared = {g[n] : n \in near}
    <2>1. \A k \in shared : \E n \in near : g[n] = k
      <3> SUFFICES ASSUME NEW k \in shared PROVE \E n \in near : g[n] = k
        OBVIOUS
      <3>1. k \in S
        BY <1>6
      <3>2. PICK n \in 1 .. N : Nth(S, n) = k
        BY <1>2, <3>1
      <3>3. n \in near
        BY <1>8, <3>2
      <3> HIDE DEF near
      <3>4. QED BY <3>2, <3>3
    <2>2. \A n \in near : g[n] \in shared
      <3> HIDE DEF near, shared
      <3>1. QED BY <1>8, <1>10
    <2> HIDE DEF g, near, shared
    <2>3. QED BY <2>1, <2>2
  <1>12. \A x, y \in near : g[x] = g[y] => x = y
    <2> HIDE DEF near
    <2> SUFFICES ASSUME NEW x \in near, NEW y \in near, g[x] = g[y] PROVE x = y
      OBVIOUS
    <2>1. x \in 1 .. N /\ y \in 1 .. N /\ Nth(S, x) = Nth(S, y)
      BY <1>10
    <2>2. Nth(S, x) \in Nat /\ Nth(S, y) \in Nat
      BY <1>2, <1>3, <2>1
    <2>3. ~(x < y) /\ ~(y < x)
      BY <1>4, <2>1, <2>2
    <2>4. QED BY <1>4, <2>1, <2>3
  <1>13. DOMAIN g = near
    OBVIOUS
  <1> HIDE DEF near, shared, g
  <1>14. Cardinality(shared) = Cardinality(near)
    BY <1>9, <1>11, <1>12, <1>13, FiniteImage
  <1>15. b \in near <=> Nth(S, b) \in shared
    BY <1>2, <1>8
  <1>16. QED BY <1>7, <1>14, <1>15 DEF S, near, shared, i

(* The near clusters are the components of the nodes that are linked, but  *)
(* for those of one node.  [annotate_dedup.py:_near_clusters]              *)
LEMMA NearAreGroups ==
    ASSUME NEW ms, IsSequence(ms), OneText(ms), NEW alike, NEW bucket
    PROVE  LET near == NearClusters(ms, Members(ExactClusters(ms)), alike, bucket)
           IN  /\ IsSequence(near)
               /\ Range(near) = {ClusterAt(ms, S) :
                                    S \in {C \in GroupsOf(ms, alike, bucket) : Cardinality(C) > 1}}
  <1> DEFINE S == NodesOf(ms)
             N == Cardinality(S)
             exact == Members(ExactClusters(ms))
             c == NearCandidates(ms, exact)
             ids == Signatures(c)
             text == [id \in Range(ids) |-> ById(c)[id].text]
             compared == ComparedPairs(ids, text, bucket)
             similar(x, y) == text[x] = text[y] \/ {text[x], text[y]} \in alike
             J == {k \in DOMAIN compared : similar(compared[k][1], compared[k][2])}
             joined == At(compared, J)
             T == Range(ids)
             start == [id \in T |-> id]
             groups == Trees(Unions(start, joined))
             big == {[ids |-> g, size |-> Cardinality(g)] :
                        g \in {h \in groups : Cardinality(h) >= 2}}
             near == NearClusters(ms, exact, alike, bucket)
             F == {e \in T \X T : e \in Range(compared) /\ similar(e[1], e[2])}
             G == {{e[1], e[2]} : e \in F}
             links == LinksOf(ms, alike, bucket)
             f == [i \in S |-> ms[i].id]
             linked(i, j) == Linked(ms, alike, bucket, i, j)
             nth(n) == Nth(S, n)
  <1>1. near = SetToSeq(big)
    BY DEF NearClusters
  <1>2. ms \in Seq(Range(ms)) /\ S \in SUBSET (DOMAIN ms)
    BY DEF NodesOf, IsSequence
  <1>3. /\ c = At(ms, S)
        /\ \A i, j \in S : i # j => ms[i].text # ms[j].text /\ ms[i].id # ms[j].id
    BY NodesDiffer
  <1> HIDE DEF S, near, big
  <1>4. /\ DOMAIN c = 1 .. N /\ c \in Seq(Range(ms))
        /\ \A n \in 1 .. N : nth(n) \in S /\ c[n] = ms[nth(n)]
        /\ \A k \in S : \E n \in 1 .. N : nth(n) = k
    BY <1>2, <1>3, AtPlaces
  <1> HIDE DEF c
  <1>5. S \in SUBSET Nat /\ IsFiniteSet(S)
    BY <1>2, PlacesFinite
  <1>6. N \in Nat /\ \A m, n \in 1 .. N : m < n => nth(m) < nth(n)
    BY <1>5, PlacesInOrder
  <1> HIDE DEF N, nth
  <1>7. \A m, n \in 1 .. N : m # n => nth(m) # nth(n)
    <2> SUFFICES ASSUME NEW m \in 1 .. N, NEW n \in 1 .. N, m # n PROVE nth(m) # nth(n)
      OBVIOUS
    <2>1. m < n \/ n < m
      BY <1>6
    <2>2. nth(m) \in Nat /\ nth(n) \in Nat
      BY <1>4, <1>5
    <2>3. QED BY <1>6, <2>1, <2>2
  <1>8. IsSequence(c) /\ \A i, j \in DOMAIN c : c[i].id = c[j].id => i = j
    <2>1. c = [n \in 1 .. N |-> c[n]]
      BY <1>4
    <2>2. \A n \in 1 .. N : c[n] \in Range(c)
      BY <1>4 DEF Range
    <2>3. c \in Seq(Range(c))
      BY <1>6, <2>1, <2>2
    <2>4. \A i, j \in DOMAIN c : c[i].id = c[j].id => i = j
      BY <1>3, <1>4, <1>7
    <2>5. QED BY <2>3, <2>4 DEF IsSequence
  <1>9. ids = [k \in DOMAIN c |-> c[k].id] /\ \A k \in DOMAIN c : ById(c)[c[k].id] = c[k]
    BY <1>8, SignaturesInOrder
  <1> HIDE DEF ids
  <1>10. /\ DOMAIN ids = 1 .. N /\ ids \in Seq(T) /\ Len(ids) = N
         /\ \A n \in 1 .. N : ids[n] = ms[nth(n)].id /\ ids[n] = c[n].id /\ ids[n] \in T
    <2>1. \A n \in 1 .. N : ids[n] = ms[nth(n)].id /\ ids[n] = c[n].id
      BY <1>4, <1>9
    <2>2. DOMAIN ids = 1 .. N
      BY <1>4, <1>9
    <2>3. \A n \in 1 .. N : ids[n] \in T
      BY <2>2 DEF Range
    <2>4. ids = [n \in 1 .. N |-> ids[n]]
      BY <1>4, <1>9
    <2> HIDE DEF T
    <2>5. QED BY <1>6, <2>1, <2>2, <2>3, <2>4
  <1>11. \A n \in 1 .. N : text[ids[n]] = c[n].text
    BY <1>4, <1>9, <1>10
  <1> HIDE DEF text, T
  <1>12. \A m, n \in 1 .. N : m # n => ids[m] # ids[n] /\ text[ids[m]] # text[ids[n]]
    <2> SUFFICES ASSUME NEW m \in 1 .. N, NEW n \in 1 .. N, m # n
                 PROVE  ids[m] # ids[n] /\ text[ids[m]] # text[ids[n]]
      OBVIOUS
    <2>1. nth(m) \in S /\ nth(n) \in S /\ nth(m) # nth(n)
      BY <1>4, <1>7
    <2>2. ids[m] = ms[nth(m)].id /\ ids[n] = ms[nth(n)].id
      BY <1>10
    <2>3. text[ids[m]] = ms[nth(m)].text /\ text[ids[n]] = ms[nth(n)].text
      BY <1>4, <1>11
    <2>4. QED BY <1>3, <2>1, <2>2, <2>3
  <1>13. T = {f[i] : i \in S}
    <2>1. \A x \in T : \E i \in S : f[i] = x
      <3> SUFFICES ASSUME NEW x \in T PROVE \E i \in S : f[i] = x
        OBVIOUS
      <3>1. PICK n \in 1 .. N : ids[n] = x
        BY <1>10 DEF T, Range
      <3>2. nth(n) \in S /\ f[nth(n)] = x
        BY <1>4, <1>10, <3>1
      <3>3. QED BY <3>2
    <2>2. \A i \in S : f[i] \in T
      <3> SUFFICES ASSUME NEW i \in S PROVE f[i] \in T
        OBVIOUS
      <3>1. PICK n \in 1 .. N : nth(n) = i
        BY <1>4
      <3>2. QED BY <1>10, <3>1
    <2> HIDE DEF f, T
    <2>3. QED BY <2>1, <2>2
  <1>14. DOMAIN f = S /\ \A i, j \in S : f[i] = f[j] => i = j
    BY <1>3
  <1>15. IsFiniteSet(T)
    <2> HIDE DEF f
    <2>1. IsFiniteSet(S) /\ DOMAIN f = S /\ T = {f[i] : i \in S}
      BY <1>5, <1>13, <1>14
    <2>2. QED BY ONLY <2>1, FiniteImage
  <1>16. /\ compared \in Seq(T \X T)
         /\ \A e : e \in Range(compared) <=>
               \E i, j \in DOMAIN ids :
                   /\ i < j /\ e = <<ids[i], ids[j]>>
                   /\ \/ Len(ids) <= BruteForceThreshold
                      \/ /\ j \in Near(ids, text, bucket, i)
                         /\ Cardinality(Near(ids, text, bucket, i)) <= MaxBucketSize
    BY <1>10, ComparedInBuckets
  <1> HIDE DEF compared, f
  <1>17. Range(joined) = F /\ joined \in Seq(F)
    <2>1. J \in SUBSET (DOMAIN compared)
      OBVIOUS
    <2>2. \A k \in DOMAIN compared :
             /\ k \in J <=> similar(compared[k][1], compared[k][2])
             /\ compared[k] \in T \X T
      BY <1>16
    <2> HIDE DEF J, similar
    <2>3. Range(joined) = {compared[k] : k \in J} /\ joined \in Seq(T \X T)
      BY <1>16, <2>1, RangeAt, AtPlaces
    <2>4. {compared[k] : k \in J} = F
      BY <2>1, <2>2 DEF Range
    <2>5. Range(joined) = F
      BY <2>3, <2>4
    <2>6. joined \in Seq(F)
      <3>1. DOMAIN joined = 1 .. Len(joined) /\ Len(joined) \in Nat
        BY <2>3
      <3>2. joined = [n \in 1 .. Len(joined) |-> joined[n]]
        BY <2>3, <3>1
      <3>3. \A n \in 1 .. Len(joined) : joined[n] \in F
        BY <2>5, <3>1 DEF Range
      <3> HIDE DEF joined, F
      <3>4. QED BY <3>1, <3>2, <3>3
    <2>7. QED BY <2>5, <2>6
  <1> HIDE DEF joined
  <1>18. F \in SUBSET (T \X T)
    OBVIOUS
  <1>19. groups = ComponentsOf(T, G)
    <2>1. start \in [T -> T] /\ Joins(start, T, {}, F)
      <3> HIDE DEF F
      <3>1. QED BY <1>15, StartJoins
    <2> HIDE DEF start, F
    <2>2. Joins(Unions(start, joined), T, Range(joined), F)
      BY <1>15, <1>17, <1>18, <2>1, UnionsJoin
    <2>3. Joins(Unions(start, joined), T, F, F)
      BY <1>17, <2>2
    <2>4. QED BY <1>15, <1>18, <2>3, TreesAreComponents
  <1>20. ASSUME NEW a \in 1 .. N, NEW b \in 1 .. N, a < b
         PROVE  /\ <<ids[a], ids[b]>> \in F <=> linked(nth(a), nth(b))
                /\ <<ids[b], ids[a]>> \notin F
                /\ linked(nth(a), nth(b)) <=> linked(nth(b), nth(a))
    <2> DEFINE small(n) == Cardinality(Near(ids, text, bucket, n)) <= MaxBucketSize
               few == N <= BruteForceThreshold
    <2>1. <<ids[a], ids[b]>> \in Range(compared)
             <=> few \/ (b \in Near(ids, text, bucket, a) /\ small(a))
      <3>1. ASSUME <<ids[a], ids[b]>> \in Range(compared)
            PROVE  few \/ (b \in Near(ids, text, bucket, a) /\ small(a))
        <4>1. PICK i \in 1 .. N, j \in 1 .. N :
                 /\ i < j /\ <<ids[a], ids[b]>> = <<ids[i], ids[j]>>
                 /\ few \/ (j \in Near(ids, text, bucket, i) /\ small(i))
          BY <1>10, <1>16, <3>1
        <4>2. i = a /\ j = b
          BY <1>12, <4>1
        <4>3. QED BY <4>1, <4>2
      <3>2. ASSUME few \/ (b \in Near(ids, text, bucket, a) /\ small(a))
            PROVE  <<ids[a], ids[b]>> \in Range(compared)
        BY <1>10, <1>16, <1>20, <3>2
      <3>3. QED BY <3>1, <3>2
    <2>2. <<ids[b], ids[a]>> \notin Range(compared)
      <3>1. SUFFICES ASSUME <<ids[b], ids[a]>> \in Range(compared) PROVE FALSE
        OBVIOUS
      <3>2. PICK i \in 1 .. N, j \in 1 .. N : i < j /\ <<ids[b], ids[a]>> = <<ids[i], ids[j]>>
        BY <1>10, <1>16, <3>1
      <3>3. i = b /\ j = a
        BY <1>12, <3>2
      <3>4. QED BY <1>6, <1>20, <3>2, <3>3
    <2>3. ids[a] \in T /\ ids[b] \in T /\ a # b
      BY <1>6, <1>10, <1>20
    <2>4. text[ids[a]] = ms[nth(a)].text /\ text[ids[b]] = ms[nth(b)].text
      BY <1>4, <1>11
    <2>5. similar(ids[a], ids[b]) <=> {ms[nth(a)].text, ms[nth(b)].text} \in alike
      BY <1>12, <2>3, <2>4
    <2> HIDE DEF similar
    <2>6. <<ids[a], ids[b]>> \in F
             <=> <<ids[a], ids[b]>> \in Range(compared) /\ similar(ids[a], ids[b])
      BY <2>3
    <2>7. /\ b \in Near(ids, text, bucket, a) <=> nth(b) \in Sharing(ms, bucket, nth(a))
          /\ Cardinality(Near(ids, text, bucket, a)) = Cardinality(Sharing(ms, bucket, nth(a)))
      <3>1. /\ c = At(ms, NodesOf(ms)) /\ ids = [k \in DOMAIN c |-> c[k].id]
            /\ \A k \in DOMAIN c : text[ids[k]] = c[k].text
            /\ a \in DOMAIN c /\ b \in DOMAIN c
        BY <1>3, <1>4, <1>9, <1>11 DEF S
      <3>2. /\ b \in Near(ids, text, bucket, a)
                  <=> Nth(NodesOf(ms), b) \in Sharing(ms, bucket, Nth(NodesOf(ms), a))
            /\ Cardinality(Near(ids, text, bucket, a))
                  = Cardinality(Sharing(ms, bucket, Nth(NodesOf(ms), a)))
        BY ONLY IsSequence(ms), OneText(ms), <3>1, SharedAlike
      <3>3. QED BY ONLY <3>2 DEF S, nth
    <2>8. linked(nth(a), nth(b))
             <=> /\ {ms[nth(a)].text, ms[nth(b)].text} \in alike
                 /\ few \/ (nth(b) \in Sharing(ms, bucket, nth(a))
                            /\ Cardinality(Sharing(ms, bucket, nth(a))) <= MaxBucketSize)
      BY DEF Linked, S, N
    <2>9. linked(nth(b), nth(a))
             <=> /\ {ms[nth(b)].text, ms[nth(a)].text} \in alike
                 /\ few \/ (nth(a) \in Sharing(ms, bucket, nth(b))
                            /\ Cardinality(Sharing(ms, bucket, nth(b))) <= MaxBucketSize)
      BY DEF Linked, S, N
    <2>10. /\ nth(b) \in Sharing(ms, bucket, nth(a)) <=> nth(a) \in Sharing(ms, bucket, nth(b))
           /\ nth(b) \in Sharing(ms, bucket, nth(a)) =>
                 Sharing(ms, bucket, nth(a)) = Sharing(ms, bucket, nth(b))
      <3>1. nth(a) \in S /\ nth(b) \in S
        BY <1>4
      <3>2. QED BY <3>1 DEF Sharing, S
    <2>11. {ms[nth(b)].text, ms[nth(a)].text} = {ms[nth(a)].text, ms[nth(b)].text}
      OBVIOUS
    <2>12. <<ids[a], ids[b]>> \in F <=> linked(nth(a), nth(b))
      <3> HIDE DEF F, linked
      <3>1. QED BY <2>1, <2>5, <2>6, <2>7, <2>8
    <2>13. linked(nth(a), nth(b)) <=> linked(nth(b), nth(a))
      <3> HIDE DEF linked
      <3>1. QED BY <2>8, <2>9, <2>10, <2>11
    <2>14. <<ids[b], ids[a]>> \notin F
      BY <2>2
    <2> HIDE DEF F, linked
    <2>15. QED BY <2>12, <2>13, <2>14
  <1> HIDE DEF similar, linked
  <1>21. ASSUME NEW i \in S, NEW j \in S, i # j
         PROVE  {f[i], f[j]} \in G <=> {i, j} \in links
    <2>1. PICK a \in 1 .. N : nth(a) = i
      BY <1>4
    <2>2. PICK b \in 1 .. N : nth(b) = j
      BY <1>4
    <2>3. a < b \/ b < a
      BY <1>6, <1>21, <2>1, <2>2
    <2>4. f[i] = ids[a] /\ f[j] = ids[b]
      BY <1>10, <2>1, <2>2 DEF f
    <2>5. {f[i], f[j]} \in G <=> <<ids[a], ids[b]>> \in F \/ <<ids[b], ids[a]>> \in F
      <3>1. ASSUME {f[i], f[j]} \in G PROVE <<ids[a], ids[b]>> \in F \/ <<ids[b], ids[a]>> \in F
        <4>1. PICK e \in F : {ids[a], ids[b]} = {e[1], e[2]}
          BY <2>4, <3>1
        <4>2. e \in T \X T
          BY <1>18
        <4>3. e = <<e[1], e[2]>>
          BY <4>2
        <4>4. (e[1] = ids[a] /\ e[2] = ids[b]) \/ (e[1] = ids[b] /\ e[2] = ids[a])
          BY <1>12, <2>3, <4>1
        <4> HIDE DEF F
        <4>5. QED BY <4>3, <4>4
      <3>2. ASSUME <<ids[a], ids[b]>> \in F PROVE {f[i], f[j]} \in G
        <4> HIDE DEF F
        <4>1. QED BY <2>4, <3>2
      <3>3. ASSUME <<ids[b], ids[a]>> \in F PROVE {f[i], f[j]} \in G
        <4>1. {ids[b], ids[a]} = {f[i], f[j]}
          BY <2>4
        <4> HIDE DEF F
        <4>2. {<<ids[b], ids[a]>>[1], <<ids[b], ids[a]>>[2]} \in G
          BY <3>3
        <4>3. QED BY <4>1, <4>2
      <3>4. QED BY <3>1, <3>2, <3>3
    <2>6. {i, j} \in links <=> linked(i, j) \/ linked(j, i)
      <3>1. ASSUME {i, j} \in links PROVE linked(i, j) \/ linked(j, i)
        <4>1. PICK y \in S \X S : linked(y[1], y[2]) /\ {i, j} = {y[1], y[2]}
          BY <3>1 DEF LinksOf, S, linked
        <4>2. (y[1] = i /\ y[2] = j) \/ (y[1] = j /\ y[2] = i)
          BY <1>21, <4>1
        <4>3. QED BY <4>1, <4>2
      <3>2. ASSUME NEW x \in S, NEW y \in S, linked(x, y) PROVE {x, y} \in links
        <4>1. <<x, y>> \in {z \in S \X S : linked(z[1], z[2])}
          BY <3>2
        <4>2. {<<x, y>>[1], <<x, y>>[2]} \in links
          BY <4>1 DEF LinksOf, S, linked
        <4>3. QED BY <4>2
      <3>3. {i, j} = {j, i}
        OBVIOUS
      <3> HIDE DEF links
      <3>4. QED BY <3>1, <3>2, <3>3
    <2> HIDE DEF F, G, links
    <2>7. QED BY <1>20, <2>1, <2>2, <2>3, <2>5, <2>6
  <1>22. ComponentsOf(T, G) = {Renamed(f, C) : C \in ComponentsOf(S, links)}
    <2> HIDE DEF F, G, links
    <2>1. Renames(f, S, T, links, G)
      BY <1>13, <1>14, <1>21 DEF Renames, Renamed
    <2>2. QED BY ONLY <2>1, MovedComponents
  <1>23. GroupsOf(ms, alike, bucket) = ComponentsOf(S, links)
    BY DEF GroupsOf, S
  <1> DEFINE comps == GroupsOf(ms, alike, bucket)
             image(C) == Renamed(f, C)
  <1>24. groups = {image(C) : C \in comps}
    BY <1>19, <1>22, <1>23
  <1>25. \A C \in comps : C \in SUBSET S
    BY <1>23 DEF ComponentsOf
  <1> HIDE DEF groups, comps, G, F, links
  <1>26. ASSUME NEW C \in comps
         PROVE  /\ Cardinality(image(C)) = Cardinality(C) /\ Cardinality(C) \in Nat
                /\ image(C) = {ms[i].id : i \in C}
    <2>1. C \in SUBSET S /\ IsFiniteSet(C)
      BY <1>5, <1>25, FS_Subset
    <2> DEFINE h == [i \in C |-> f[i]]
    <2>2. DOMAIN h = C /\ image(C) = {h[i] : i \in C}
      BY DEF Renamed
    <2>3. \A i, j \in C : h[i] = h[j] => i = j
      BY <1>14, <2>1
    <2>4. image(C) = {ms[i].id : i \in C}
      BY <2>1 DEF f, Renamed
    <2> HIDE DEF h, image
    <2>5. Cardinality(image(C)) = Cardinality(C) /\ Cardinality(C) \in Nat
      BY ONLY <2>1, <2>2, <2>3, FiniteImage
    <2>6. QED BY <2>4, <2>5
  <1> HIDE DEF image
  <1> DEFINE large == {C \in comps : Cardinality(C) > 1}
             pair(g) == [ids |-> g, size |-> Cardinality(g)]
  <1>27. big = {ClusterAt(ms, C) : C \in large}
    <2>1. big = {pair(g) : g \in {h \in groups : Cardinality(h) >= 2}}
      BY DEF big, groups
    <2>2. \A C \in comps : /\ pair(image(C)) = ClusterAt(ms, C)
                           /\ Cardinality(image(C)) >= 2 <=> Cardinality(C) > 1
      <3> SUFFICES ASSUME NEW C \in comps
                   PROVE  /\ pair(image(C)) = ClusterAt(ms, C)
                          /\ Cardinality(image(C)) >= 2 <=> Cardinality(C) > 1
        OBVIOUS
      <3>1. /\ Cardinality(image(C)) = Cardinality(C) /\ Cardinality(C) \in Nat
            /\ image(C) = {ms[i].id : i \in C}
        BY <1>26
      <3>2. pair(image(C)) = ClusterAt(ms, C)
        BY <3>1 DEF ClusterAt
      <3>3. Cardinality(image(C)) >= 2 <=> Cardinality(C) > 1
        BY <3>1
      <3>4. QED BY ONLY <3>2, <3>3
    <2> HIDE DEF pair
    <2>3. QED BY <1>24, <2>1, <2>2
  <1>28. IsFiniteSet(big)
    <2>1. IsFiniteSet(large)
      <3>1. large \in SUBSET SUBSET S
        BY <1>25
      <3>2. IsFiniteSet(SUBSET S)
        BY <1>5, FS_SUBSET
      <3> HIDE DEF large
      <3>3. QED BY <3>1, <3>2, FS_Subset
    <2> DEFINE h == [C \in large |-> ClusterAt(ms, C)]
    <2> HIDE DEF large
    <2>2. DOMAIN h = large /\ big = {h[C] : C \in large}
      BY <1>27
    <2> HIDE DEF h
    <2>3. QED BY <2>1, <2>2, FiniteImage
  <1>29. near \in Seq(big) /\ Range(near) = big
    BY <1>1, <1>28, ListedSet
  <1>30. QED BY <1>27, <1>29 DEF IsSequence, near, exact, large, comps

-----------------------------------------------------------------------------
(* What dedup leaves of a run.                                             *)

\* Where dedup is enabled, mentions are those normalization made until it has
\* run, and then these, annotated with the clusters they fall into.
Split(ms) == /\ facts.clusters = Clusters(ms, run.alike, run.bucket)
             /\ facts.mentions = Annotate(ms, facts.clusters)
ClustersOfRecords ==
    "dedup" \in run.enabled =>
        \/ stage <= 2 /\ facts.mentions \in {<<>>, Normalize(run.records)}
        \/ stage > 2 /\ (facts.mentions = <<>> \/ Split(Normalize(run.records)))

(* An enabled dedup is not passed over.  [run_pipeline.py]                 *)
LEMMA DedupIsNext ==
    ASSUME NEW enabled, "dedup" \in enabled, NEW n \in 1 .. 2
    PROVE  NextStage(enabled, n) <= 2
  <1> DEFINE S == {k \in n .. Len(Order) : Order[k] \in enabled} \cup {Len(Order) + 1}
  <1>1. Len(Order) = 9 /\ Order[2] = "dedup"
    BY DEF Order
  <1>2. S \subseteq Nat /\ S # {} /\ 2 \in S
    BY <1>1
  <1>3. NextStage(enabled, n) = Min(S)
    BY DEF NextStage
  <1> HIDE DEF S
  <1>4. \E m \in S : \A k \in S : m <= k
    BY <1>2, LeastNat
  <1>5. Min(S) \in S /\ \A k \in S : Min(S) <= k
    BY <1>4 DEF Min
  <1>6. QED BY <1>2, <1>3, <1>5

(* In every run the clusters are those of the mentions normalization made,  *)
(* and nothing touches mentions or clusters after dedup.  [run_pipeline.py] *)
LEMMA ClustersStay == Spec => []ClustersOfRecords
  <1>1. Init => ClustersOfRecords
    <2> SUFFICES ASSUME Init, "dedup" \in run.enabled
                 PROVE  stage <= 2 /\ facts.mentions = <<>>
      BY DEF ClustersOfRecords
    <2>1. stage = NextStage(run.enabled, 1) /\ facts = NoFacts
      BY DEF Init
    <2>2. stage <= 2
      BY <2>1, DedupIsNext
    <2>3. QED BY <2>1, <2>2 DEF NoFacts
  <1>2. MentionsOfRecords /\ ClustersOfRecords /\ [Next]_vars => ClustersOfRecords'
    <2> SUFFICES ASSUME MentionsOfRecords, ClustersOfRecords, [Next]_vars
                 PROVE  ClustersOfRecords'
      OBVIOUS
    <2>1. ASSUME NEW name, Runs(name)
          PROVE  /\ stage \in 1 .. 9 /\ stage + 1 \in 1 .. 10
                 /\ Order[stage] = name
                 /\ NextStage(run.enabled, stage + 1) \in stage + 1 .. 10
      <3>1. Len(Order) = 9
        BY DEF Order
      <3>2. stage \in 1 .. 9 /\ stage + 1 \in 1 .. 10 /\ Order[stage] = name
        BY <2>1, <3>1 DEF Runs, Running, MentionsOfRecords
      <3>3. QED BY <3>2, StagesAdvance
    <2>2. /\ \A n \in 1 .. 9 : Order[n] = "normalization" => n = 1
          /\ \A n \in 1 .. 9 : Order[n] = "dedup" => n = 2
          /\ Order[1] = "normalization" /\ Order[2] = "dedup"
      BY DEF Order
    <2>3. DOMAIN facts = FactsKinds /\ stage \in 1 .. 10
      BY DEF MentionsOfRecords
    <2>4. ASSUME NEW name, Runs(name), name # "normalization", name # "dedup",
                 NEW new, Finish(new),
                 new.mentions = facts.mentions, new.clusters = facts.clusters
          PROVE  ClustersOfRecords'
      <3>1. stage > 2
        BY <2>1, <2>2, <2>4
      <3>2. stage' > 2 /\ run' = run /\ facts' = new
        BY <2>1, <2>4, <3>1 DEF Finish
      <3>3. facts'.mentions = facts.mentions /\ facts'.clusters = facts.clusters
        BY <2>4, <3>2
      <3>4. Split(Normalize(run.records)) => Split(Normalize(run.records))'
        BY <3>2, <3>3 DEF Split
      <3>5. "dedup" \in run.enabled => facts.mentions = <<>> \/ Split(Normalize(run.records))
        BY <2>3, <3>1 DEF ClustersOfRecords
      <3> HIDE DEF Split
      <3>6. QED BY <3>2, <3>3, <3>4, <3>5 DEF ClustersOfRecords
    <2>5. CASE NormalizationStage
      <3>1. stage = 1
        BY <2>1, <2>2, <2>5 DEF NormalizationStage
      <3>2. /\ facts' = [facts EXCEPT !.mentions = Normalize(run.records)]
            /\ run' = run /\ stage' = NextStage(run.enabled, 2)
        BY <2>5, <3>1 DEF NormalizationStage, Finish
      <3>3. "dedup" \in run.enabled => stage' <= 2
        BY <3>2, DedupIsNext
      <3>4. facts'.mentions = Normalize(run.records)
        BY <2>3, <3>2 DEF FactsKinds
      <3>5. QED BY <3>2, <3>3, <3>4 DEF ClustersOfRecords
    <2>6. CASE DedupStage
      <3> DEFINE ms == Normalize(run.records)
                 clusters == Clusters(facts.mentions, run.alike, run.bucket)
      <3>1. stage = 2 /\ stage' > 2
        BY <2>1, <2>2, <2>6 DEF DedupStage, Finish
      <3>2. /\ facts' = [facts EXCEPT !.clusters = clusters,
                                      !.mentions = Annotate(facts.mentions, clusters)]
            /\ run' = run /\ facts.mentions # <<>>
        BY <2>6 DEF DedupStage, Finish, HasMentions
      <3> HIDE DEF clusters
      <3>3. facts'.clusters = clusters /\ facts'.mentions = Annotate(facts.mentions, clusters)
        BY <2>3, <3>2 DEF FactsKinds
      <3>4. "dedup" \in run.enabled => facts.mentions = ms
        BY <3>1, <3>2 DEF ClustersOfRecords
      <3> HIDE DEF ms
      <3>5. "dedup" \in run.enabled =>
               /\ facts'.clusters = Clusters(ms, run'.alike, run'.bucket)
               /\ facts'.mentions = Annotate(ms, facts'.clusters)
        BY <3>2, <3>3, <3>4 DEF clusters
      <3>6. QED BY <3>1, <3>2, <3>5 DEF ClustersOfRecords, Split, ms
    <2>7. CASE WithoutMentions
      <3>1. PICK name : Runs(name)
        BY <2>7 DEF WithoutMentions
      <3>2. facts' = facts /\ run' = run /\ facts.mentions = <<>> /\ stage' \in 1 .. 10
        BY <2>1, <2>7, <3>1 DEF WithoutMentions, Finish, HasMentions
      <3>3. stage' <= 2 \/ stage' > 2
        BY <3>2
      <3>4. QED BY <3>2, <3>3 DEF ClustersOfRecords
    <2>8. CASE SpamStage
      <3>1. CASE Raises(facts.mentions)
        <4>1. facts' = facts /\ run' = run /\ stage' = stage
          BY <2>8, <3>1 DEF SpamStage, Raise
        <4>2. QED BY <4>1 DEF ClustersOfRecords, Split
      <3>2. CASE ~Raises(facts.mentions)
        <4> DEFINE new == [facts EXCEPT !.profiles = Profiles(facts.mentions)]
        <4>1. Finish(new) /\ Runs("spam")
          BY <2>8, <3>2 DEF SpamStage
        <4>2. new.mentions = facts.mentions /\ new.clusters = facts.clusters
          BY <2>3 DEF FactsKinds
        <4> HIDE DEF new
        <4>3. QED BY <2>4, <4>1, <4>2
      <3>3. QED BY <3>1, <3>2
    <2>9. CASE ThreadsStage
      <3> DEFINE new == [facts EXCEPT !.threads = Threads(facts.mentions)]
      <3>1. Finish(new) /\ Runs("threads")
        BY <2>9 DEF ThreadsStage
      <3>2. new.mentions = facts.mentions /\ new.clusters = facts.clusters
        BY <2>3 DEF FactsKinds
      <3> HIDE DEF new
      <3>3. QED BY <2>4, <3>1, <3>2
    <2>10. CASE NlpStage
      <3> DEFINE new == [facts EXCEPT !.analysed = NlpInput,
                                      !.nlp = EnrichBatch(NlpInput, run.failing)]
      <3>1. Finish(new) /\ Runs("nlp")
        BY <2>10 DEF NlpStage
      <3>2. new.mentions = facts.mentions /\ new.clusters = facts.clusters
        BY <2>3 DEF FactsKinds
      <3> HIDE DEF new
      <3>3. QED BY <2>4, <3>1, <3>2
    <2>11. CASE EnrichmentStage
      <3> DEFINE new == [facts EXCEPT !.enrichment =
                                          <<EnrichMentions(facts.mentions, run.ontology)>>]
      <3>1. Finish(new) /\ Runs("enrichment")
        BY <2>11 DEF EnrichmentStage
      <3>2. new.mentions = facts.mentions /\ new.clusters = facts.clusters
        BY <2>3 DEF FactsKinds
      <3> HIDE DEF new
      <3>3. QED BY <2>4, <3>1, <3>2
    <2>12. CASE ReviewStage
      BY <2>4, <2>12 DEF ReviewStage
    <2>13. CASE ReportingStage
      <3>1. PICK new : /\ Finish(new) /\ Runs("reporting")
                       /\ new.mentions = facts.mentions /\ new.clusters = facts.clusters
        BY <2>3, <2>13 DEF ReportingStage, FactsKinds
      <3>2. QED BY <2>4, <3>1
    <2>14. CASE CrisisStage
      <3>1. PICK new : /\ Finish(new) /\ Runs("crisis")
                       /\ new.mentions = facts.mentions /\ new.clusters = facts.clusters
        BY <2>3, <2>14 DEF CrisisStage, FactsKinds
      <3>2. QED BY <2>4, <3>1
    <2>15. CASE UNCHANGED vars
      BY <2>15 DEF vars, ClustersOfRecords, Split
    <2>16. QED BY <2>5, <2>6, <2>7, <2>8, <2>9, <2>10, <2>11, <2>12, <2>13, <2>14, <2>15
               DEF Next
  <1>3. QED BY <1>1, <1>2, MentionsStay, PTL DEF Spec

(* The clusters of a batch: one of each text that is copied, and one of    *)
(* each component of more than one node.                                   *)
LEMMA ClustersOfBatch ==
    ASSUME NEW ms, IsSequence(ms), OneText(ms), NEW alike, NEW bucket
    PROVE  LET clusters == Clusters(ms, alike, bucket)
           IN  /\ IsSequence(clusters)
               /\ Range(clusters) =
                     {ClusterAt(ms, S) :
                        S \in ClassesOf(ms)
                                \cup {C \in GroupsOf(ms, alike, bucket) : Cardinality(C) > 1}}
  <1> DEFINE exact == ExactClusters(ms)
             near == NearClusters(ms, Members(exact), alike, bucket)
             large == {C \in GroupsOf(ms, alike, bucket) : Cardinality(C) > 1}
             R == Range(exact) \cup Range(near)
  <1>1. Clusters(ms, alike, bucket) = exact \o near
    BY DEF Clusters
  <1>2. IsSequence(exact) /\ Range(exact) = {ClusterAt(ms, S) : S \in ClassesOf(ms)}
    BY ExactAreCopies
  <1>3. IsSequence(near) /\ Range(near) = {ClusterAt(ms, S) : S \in large}
    BY NearAreGroups
  <1> HIDE DEF exact, near, large
  <1>4. exact \in Seq(R) /\ near \in Seq(R)
    <2>1. exact \in Seq(Range(exact)) /\ near \in Seq(Range(near))
      BY <1>2, <1>3 DEF IsSequence
    <2>2. Range(exact) \subseteq R /\ Range(near) \subseteq R
      OBVIOUS
    <2> HIDE DEF R
    <2>3. QED BY <2>1, <2>2
  <1>5. exact \o near \in Seq(R) /\ Range(exact \o near) = R
    <2> HIDE DEF R
    <2>1. exact \o near \in Seq(R) /\ Range(exact \o near) = Range(exact) \cup Range(near)
      BY <1>4, RangeOfTwo
    <2>2. QED BY <2>1 DEF R
  <1>6. R = {ClusterAt(ms, S) : S \in ClassesOf(ms) \cup large}
    BY <1>2, <1>3
  <1>7. QED BY <1>1, <1>5, <1>6 DEF IsSequence, large

(* What cluster counts for a mention does not matter if all it is in are   *)
(* of one size.  [_annotation_map]                                         *)
LEMMA SizeOfCluster ==
    ASSUME NEW clusters, IsSequence(clusters), NEW id, NEW size,
           \A c \in Range(clusters) : id \in c.ids => c.size = size,
           (\E c \in Range(clusters) : id \in c.ids) \/ size = 1
    PROVE  ClusterSize(clusters, id) = size
  <1> DEFINE N == Len(clusters)
             I == {k \in 1 .. N : id \in clusters[k].ids}
             at == SelectLastInSeq(clusters, LAMBDA c : id \in c.ids)
  <1>1. DOMAIN clusters = 1 .. N /\ N \in Nat
    BY DEF IsSequence
  <1>2. at = IF I # {} THEN Max(I) ELSE 0
    BY DEF SelectLastInSeq
  <1>3. ClusterSize(clusters, id) = IF at = 0 THEN 1 ELSE clusters[at].size
    BY DEF ClusterSize
  <1> HIDE DEF at, N
  <1>4. CASE I = {}
    <2>1. ~ \E c \in Range(clusters) : id \in c.ids
      BY <1>1, <1>4 DEF Range
    <2>2. QED BY <1>2, <1>3, <1>4, <2>1
  <1>5. CASE I # {}
    <2>1. I \in SUBSET (0 .. N)
      BY <1>1
    <2> HIDE DEF I
    <2>2. PICK m \in I : \A x \in I : x <= m
      BY <1>1, <1>5, <2>1, Extremes
    <2>3. \A x \in I : m >= x
      <3>1. \A x \in I : x \in Int
        BY <2>1
      <3>2. QED BY <2>2, <3>1
    <2>4. Max(I) \in I
      BY <2>3 DEF Max
    <2>5. Max(I) \in 1 .. N /\ id \in clusters[Max(I)].ids
      BY <2>4 DEF I
    <2>6. clusters[Max(I)].size = size
      BY <1>1, <2>5 DEF Range
    <2>7. Max(I) # 0
      BY <1>1, <2>5
    <2>8. QED BY <1>2, <1>3, <1>5, <2>6, <2>7
  <1>6. QED BY <1>4, <1>5

(* A mention weighs one over the number of those that share its content.   *)
(* [_annotation_map]                                                       *)
LEMMA WeightOfContent ==
    ASSUME NEW ms, IsSequence(ms), OneText(ms), NEW alike, NEW bucket,
           NEW C \in ClassesOf(ms) \cup GroupsOf(ms, alike, bucket) \cup AloneOf(ms),
           NEW i \in C
    PROVE  ClusterSize(Clusters(ms, alike, bucket), ms[i].id) = Cardinality(C)
  <1> DEFINE D == DOMAIN ms
             clusters == Clusters(ms, alike, bucket)
             id == ms[i].id
             comps == GroupsOf(ms, alike, bucket)
             large == {T \in comps : Cardinality(T) > 1}
             class(j) == {k \in D : ms[k].text = ms[j].text}
  <1>1. IsSequence(clusters)
        /\ Range(clusters) = {ClusterAt(ms, S) : S \in ClassesOf(ms) \cup large}
    BY ClustersOfBatch
  <1>2. /\ \A j, k \in D : ms[j].id = ms[k].id => ms[j].text = ms[k].text
        /\ \A j, k \in D : ms[j].id = ms[k].id /\ j \in NodesOf(ms) => j = k
    BY NodesDiffer DEF OneText
  <1>3. \A S \in ClassesOf(ms) : \E j \in D : Copied(ms, j) /\ S = class(j)
    BY DEF ClassesOf
  <1>4. /\ \A S \in comps : S \in SUBSET NodesOf(ms)
        /\ \A S, T \in comps : S \cap T # {} => S = T
    <2>1. \A S \in comps : S \in SUBSET NodesOf(ms)
      BY DEF GroupsOf, ComponentsOf
    <2>2. \A S, T \in comps : S \cap T # {} => S = T
      BY ComponentsApart DEF GroupsOf
    <2>3. QED BY <2>1, <2>2
  <1>5. \A j \in NodesOf(ms) : j \in D /\ ~Copied(ms, j) /\ ms[j].text \in LongTexts
    BY DEF NodesOf
  <1>6. \A j, k \in D : ms[j].text = ms[k].text /\ Copied(ms, j) => Copied(ms, k)
    BY DEF Copied
  <1>7. \A j \in D : Copied(ms, j) => ms[j].text \in LongTexts
    BY DEF Copied
  <1> HIDE DEF clusters, comps
  <1>8. ASSUME NEW S \in ClassesOf(ms) \cup large, NEW k \in S, ms[k].id = id, i \in D
        PROVE  S = C
    <2>1. CASE S \in ClassesOf(ms)
      <3>1. PICK j \in D : Copied(ms, j) /\ S = class(j)
        BY <1>3, <2>1
      <3>2. k \in D /\ ms[k].text = ms[j].text /\ ms[i].text = ms[k].text
        BY <1>2, <1>8, <3>1
      <3>3. Copied(ms, i) /\ ms[i].text \in LongTexts
        BY <1>6, <1>7, <1>8, <3>1, <3>2
      <3>4. C \notin comps
        BY <1>4, <1>5, <3>3
      <3>5. C \notin AloneOf(ms)
        BY <3>3 DEF AloneOf
      <3>6. C \in ClassesOf(ms)
        BY <3>4, <3>5 DEF comps
      <3>7. PICK n \in D : C = class(n)
        BY <1>3, <3>6
      <3>8. ms[i].text = ms[n].text
        BY <3>7
      <3>9. QED BY <3>1, <3>2, <3>7, <3>8
    <2>2. CASE S \in large
      <3>1. S \in comps /\ k \in NodesOf(ms) /\ k \in D
        BY <1>4, <1>5, <1>8, <2>2
      <3>2. i = k
        BY <1>2, <1>8, <3>1
      <3>3. i \in NodesOf(ms) /\ ~Copied(ms, i) /\ ms[i].text \in LongTexts
        BY <1>5, <3>1, <3>2
      <3>4. C \notin ClassesOf(ms)
        <4>1. SUFFICES ASSUME C \in ClassesOf(ms) PROVE FALSE
          OBVIOUS
        <4>2. PICK n \in D : Copied(ms, n) /\ C = class(n)
          BY <1>3, <4>1
        <4>3. ms[n].text = ms[i].text
          BY <4>2
        <4>4. QED BY <1>6, <1>8, <3>3, <4>2, <4>3
      <3>5. C \notin AloneOf(ms)
        BY <3>3 DEF AloneOf
      <3>6. C \in comps
        BY <3>4, <3>5 DEF comps
      <3>7. QED BY <1>4, <1>8, <3>1, <3>2, <3>6
    <2>3. QED BY <1>8, <2>1, <2>2
  <1>9. i \in D
    <2>1. CASE C \in ClassesOf(ms)
      BY <1>3, <2>1
    <2>2. CASE C \in comps
      BY <1>4, <1>5, <2>2
    <2>3. QED BY <2>1, <2>2 DEF comps, AloneOf
  <1>10. \A c \in Range(clusters) : id \in c.ids => c.size = Cardinality(C)
    <2> SUFFICES ASSUME NEW c \in Range(clusters), id \in c.ids
                 PROVE  c.size = Cardinality(C)
      OBVIOUS
    <2>1. PICK S \in ClassesOf(ms) \cup large : c = ClusterAt(ms, S)
      BY <1>1
    <2>2. c.size = Cardinality(S) /\ c.ids = {ms[k].id : k \in S}
      BY <2>1 DEF ClusterAt
    <2>3. PICK k \in S : ms[k].id = id
      BY <2>2
    <2> HIDE DEF large, id
    <2>4. S = C
      BY <1>8, <1>9, <2>3
    <2>5. QED BY <2>2, <2>4
  <1>11. C \in ClassesOf(ms) \cup large => \E c \in Range(clusters) : id \in c.ids
    <2> SUFFICES ASSUME C \in ClassesOf(ms) \cup large
                 PROVE  \E c \in Range(clusters) : id \in c.ids
      OBVIOUS
    <2>1. ClusterAt(ms, C) \in Range(clusters)
      <3> HIDE DEF large
      <3>1. QED BY <1>1
    <2>2. id \in ClusterAt(ms, C).ids
      BY DEF ClusterAt
    <2>3. QED BY <2>1, <2>2
  <1>12. C \notin ClassesOf(ms) \cup large => Cardinality(C) = 1
    <2> SUFFICES ASSUME C \notin ClassesOf(ms) \cup large PROVE Cardinality(C) = 1
      OBVIOUS
    <2>1. CASE C \in comps
      <3>1. ~(Cardinality(C) > 1)
        BY <2>1
      <3>2. IsFiniteSet(C)
        <4>1. ms \in Seq(Range(ms)) /\ C \in SUBSET (DOMAIN ms)
          BY <1>4, <1>5, <2>1 DEF IsSequence
        <4>2. QED BY ONLY <4>1, PlacesFinite
      <3>3. Cardinality(C) \in Nat /\ Cardinality(C) # 0
        BY <3>2, FS_CardinalityType, FS_EmptySet
      <3>4. QED BY <3>1, <3>3
    <2>2. CASE C \notin comps
      <3>1. PICK n \in D : C = {n}
        BY <2>2 DEF comps, AloneOf
      <3>2. QED BY <3>1, FS_Singleton
    <2>3. QED BY <2>1, <2>2
  <1> HIDE DEF id, large
  <1>13. ClusterSize(clusters, id) = Cardinality(C)
    <2>1. (\E c \in Range(clusters) : id \in c.ids) \/ Cardinality(C) = 1
      BY <1>11, <1>12
    <2>2. QED BY <1>1, <1>10, <2>1, SizeOfCluster
  <1>14. QED BY <1>13 DEF clusters, id

-----------------------------------------------------------------------------
(* The clusters and the weights of a run.                                  *)

(* After dedup the mentions of a run are those normalization made, with    *)
(* the sizes of their clusters; and what the classes of the run are is     *)
(* told by them.  [run_pipeline.py]                                        *)
LEMMA DedupedBatch ==
    ASSUME MentionsOfRecords, ClustersOfRecords, Deduped, OneVersion,
           NEW ms, ms = Normalize(run.records)
    PROVE  /\ IsSequence(ms) /\ OneText(ms) /\ DOMAIN facts.mentions = DOMAIN ms
           /\ facts.clusters = Clusters(ms, run.alike, run.bucket)
           /\ \A i \in DOMAIN ms :
                 /\ facts.mentions[i].id = ms[i].id /\ facts.mentions[i].text = ms[i].text
                 /\ facts.mentions[i].copies = ClusterSize(facts.clusters, ms[i].id)
           /\ CopyClasses = ClassesOf(ms)
           /\ Components = GroupsOf(ms, run.alike, run.bucket)
           /\ Loners = AloneOf(ms)
  <1> DEFINE fs == facts.mentions
             D == DOMAIN ms
  <1>1. IsSequence(ms) /\ \A i \in D : \E r : Stems(ms[i], r)
    <2>1. run.records \in Seq(Records)
      BY DEF MentionsOfRecords, ScenarioType
    <2>2. QED BY <2>1, NormalizedIsSequence, MentionsStem DEF IsSequence
  <1>2. /\ facts.clusters = Clusters(ms, run.alike, run.bucket)
        /\ fs = Annotate(ms, facts.clusters)
    <2>1. "dedup" \in run.enabled /\ stage > 2 /\ fs # <<>> /\ stage \in 1 .. 10
      BY DEF Deduped, HasMentions, MentionsOfRecords
    <2>2. Split(ms)
      BY <2>1 DEF ClustersOfRecords
    <2>3. QED BY <2>2 DEF Split
  <1> DEFINE size(i) == ClusterSize(facts.clusters, ms[i].id)
  <1>3. fs = [i \in D |-> [ms[i] EXCEPT !.copies = size(i)]]
    BY <1>2 DEF Annotate
  <1> HIDE DEF size
  <1>4. /\ DOMAIN fs = D
        /\ \A i \in D : fs[i].id = ms[i].id /\ fs[i].text = ms[i].text /\ fs[i].copies = size(i)
    <2>1. \A i \in D : "copies" \in DOMAIN ms[i] /\ "id" \in DOMAIN ms[i] /\ "text" \in DOMAIN ms[i]
      BY <1>1 DEF Stems, MentionFields
    <2>2. QED BY <1>3, <2>1
  <1>5. OneText(ms)
    <2>1. \A m, x \in Range(fs) : x.id = m.id => x.text = m.text
      BY OneVersionBatch DEF Batch
    <2>2. \A i \in D : fs[i] \in Range(fs)
      BY <1>4 DEF Range
    <2>3. QED BY <1>4, <2>1, <2>2 DEF OneText
  <1> HIDE DEF fs
  <1>6. Places = D /\ \A i \in D : TextAt(i) = ms[i].text
    BY <1>4 DEF Places, TextAt, fs
  <1>7. \A i \in D : IsCopy(i) <=> Copied(ms, i)
    BY <1>6 DEF IsCopy, Copied
  <1>8. Nodes = NodesOf(ms) /\ NodesOf(ms) \in SUBSET D
    BY <1>6, <1>7 DEF Nodes, NodesOf
  <1>9. ASSUME NEW i \in Nodes PROVE InBucket(i) = Sharing(ms, run.bucket, i)
    <2>1. \A j \in Nodes : TextAt(j) = ms[j].text
      BY <1>6, <1>8
    <2>2. QED BY <1>8, <2>1 DEF InBucket, Sharing
  <1>10. ASSUME NEW i \in Nodes, NEW j \in Nodes
         PROVE  Joined(i, j) <=> Linked(ms, run.alike, run.bucket, i, j)
    <2>1. TextAt(i) = ms[i].text /\ TextAt(j) = ms[j].text
      BY <1>6, <1>8
    <2>2. QED BY <1>8, <1>9, <2>1 DEF Joined, Linked
  <1>11. Components = GroupsOf(ms, run.alike, run.bucket)
    <2> DEFINE E == {y \in Nodes \X Nodes : Joined(y[1], y[2])}
               G == {y \in Nodes \X Nodes : Linked(ms, run.alike, run.bucket, y[1], y[2])}
    <2>1. E = G
      BY <1>10
    <2>2. /\ Components = ComponentsOf(Nodes, {{x[1], x[2]} : x \in E})
          /\ GroupsOf(ms, run.alike, run.bucket)
                = ComponentsOf(NodesOf(ms), LinksOf(ms, run.alike, run.bucket))
      BY DEF Components, GroupsOf
    <2>3. LinksOf(ms, run.alike, run.bucket) = {{x[1], x[2]} : x \in G}
      BY <1>8 DEF LinksOf
    <2> HIDE DEF E, G
    <2>4. QED BY <1>8, <2>1, <2>2, <2>3
  <1>12. CopyClasses = ClassesOf(ms)
    <2> DEFINE class(i) == {j \in D : ms[j].text = ms[i].text}
               other(i) == {j \in Places : TextAt(j) = TextAt(i)}
               copied == {k \in D : Copied(ms, k)}
    <2>1. \A i \in D : class(i) = other(i)
      BY <1>6
    <2>2. {k \in Places : IsCopy(k)} = copied /\ copied \in SUBSET D
      BY <1>6, <1>7
    <2>3. CopyClasses = {other(i) : i \in {k \in Places : IsCopy(k)}}
      BY DEF CopyClasses
    <2>4. ClassesOf(ms) = {class(i) : i \in copied}
      BY DEF ClassesOf
    <2> HIDE DEF class, other, copied
    <2>5. QED BY <2>1, <2>2, <2>3, <2>4
  <1>13. Loners = AloneOf(ms)
    <2>1. {j \in Places : TextAt(j) \notin LongTexts} = {j \in D : ms[j].text \notin LongTexts}
      BY <1>6
    <2>2. QED BY <2>1 DEF Loners, AloneOf
  <1>14. QED BY <1>1, <1>2, <1>4, <1>5, <1>11, <1>12, <1>13 DEF fs, size

(***************************************************************************)
(* In every run the clusters are the copies of each long text and the      *)
(* connected components of the pairs that were compared and are alike:     *)
(* whatever the order of mentions, buckets and pairs, and whatever pairs   *)
(* are compared twice, no link is lost and none is made up.                *)
(***************************************************************************)
THEOREM ClustersAreComponents == Spec => []NearAreComponents
  <1>1. MentionsOfRecords /\ ClustersOfRecords => NearAreComponents
    <2> DEFINE ms == Normalize(run.records)
               all == ClassesOf(ms) \cup
                         {C \in GroupsOf(ms, run.alike, run.bucket) : Cardinality(C) > 1}
               here == CopyClasses \cup {C \in Components : Cardinality(C) > 1}
    <2> SUFFICES ASSUME MentionsOfRecords, ClustersOfRecords, Deduped, OneVersion
                 PROVE  {c.ids : c \in Range(facts.clusters)} = {IdsAt(S) : S \in here}
      BY DEF NearAreComponents
    <2>1. /\ IsSequence(ms) /\ OneText(ms)
          /\ facts.clusters = Clusters(ms, run.alike, run.bucket)
          /\ \A i \in DOMAIN ms : facts.mentions[i].id = ms[i].id
          /\ CopyClasses = ClassesOf(ms)
          /\ Components = GroupsOf(ms, run.alike, run.bucket)
      BY DedupedBatch
    <2> HIDE DEF ms
    <2>2. Range(facts.clusters) = {ClusterAt(ms, S) : S \in all}
      BY <2>1, ClustersOfBatch
    <2>3. all = here
      BY <2>1
    <2>4. \A S \in all : S \in SUBSET (DOMAIN ms)
      BY DEF ClassesOf, GroupsOf, ComponentsOf, NodesOf
    <2>5. \A S \in all : ClusterAt(ms, S).ids = IdsAt(S)
      <3> SUFFICES ASSUME NEW S \in all PROVE ClusterAt(ms, S).ids = IdsAt(S)
        OBVIOUS
      <3>1. S \in SUBSET (DOMAIN ms)
        BY <2>4
      <3>2. QED BY <2>1, <3>1 DEF ClusterAt, IdsAt
    <2> HIDE DEF all, here
    <2>6. QED BY <2>2, <2>3, <2>5
  <1>2. QED BY <1>1, MentionsStay, ClustersStay, PTL

(***************************************************************************)
(* In every run a mention weighs one over the number of mentions of its    *)
(* content: copies of a long text, the component of a node, or itself.     *)
(***************************************************************************)
THEOREM WeightsAddUp == Spec => []WeightsCountContents
  <1>1. MentionsOfRecords /\ ClustersOfRecords => WeightsCountContents
    <2> DEFINE ms == Normalize(run.records)
    <2> SUFFICES ASSUME MentionsOfRecords, ClustersOfRecords, Deduped, OneVersion,
                        NEW C \in CopyClasses \cup Components \cup Loners, NEW i \in C
                 PROVE  facts.mentions[i].copies = Cardinality(C)
      BY DEF WeightsCountContents
    <2>1. /\ IsSequence(ms) /\ OneText(ms)
          /\ facts.clusters = Clusters(ms, run.alike, run.bucket)
          /\ \A k \in DOMAIN ms : facts.mentions[k].copies = ClusterSize(facts.clusters, ms[k].id)
          /\ CopyClasses = ClassesOf(ms)
          /\ Components = GroupsOf(ms, run.alike, run.bucket)
          /\ Loners = AloneOf(ms)
      BY DedupedBatch
    <2> HIDE DEF ms
    <2>2. C \in ClassesOf(ms) \cup GroupsOf(ms, run.alike, run.bucket) \cup AloneOf(ms)
      BY <2>1
    <2>3. i \in DOMAIN ms
      BY <2>2 DEF ClassesOf, GroupsOf, ComponentsOf, NodesOf, AloneOf
    <2>4. ClusterSize(Clusters(ms, run.alike, run.bucket), ms[i].id) = Cardinality(C)
      <3> DEFINE alike == run.alike
                 bucket == run.bucket
                 all == ClassesOf(ms) \cup GroupsOf(ms, alike, bucket) \cup AloneOf(ms)
      <3> HIDE DEF alike, bucket
      <3>1. \A S \in all : \A k \in S :
               ClusterSize(Clusters(ms, alike, bucket), ms[k].id) = Cardinality(S)
        BY <2>1, WeightOfContent
      <3>2. C \in all
        BY <2>2 DEF alike, bucket
      <3> HIDE DEF all
      <3>3. QED BY <3>1, <3>2 DEF alike, bucket
    <2>5. QED BY <2>1, <2>3, <2>4
  <1>2. QED BY <1>1, MentionsStay, ClustersStay, PTL
=============================================================================
