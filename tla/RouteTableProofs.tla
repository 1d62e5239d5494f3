-------------------------- MODULE RouteTableProofs --------------------------
(***************************************************************************)
(* Proofs about RouteTable, for any files, routes, hosts and paths.        *)
(***************************************************************************)
EXTENDS RouteTable, OrderFacts, SequenceTheorems

(***************************************************************************)
(* The order of routes                                                     *)
(***************************************************************************)

Routes == [source : Sources, id : Ids, body : Bodies]

LEMMA KeyTypes ==
    ASSUME NEW r \in Routes
    PROVE  /\ Rank(r.body.path) \in 1 .. 4 /\ Depth(r.body.path) \in Nat
           /\ GlobalRouteID[<<r.source, r.id>>] \in Nat
<1>1. r.body \in Bodies /\ ValidPathMatch(r.body.path)
  BY BodiesAssumption DEF Routes
<1>2. Rank(r.body.path) \in 1 .. 4
  BY <1>1 DEF ValidPathMatch, Kinds, Rank
<1>3. Depth(r.body.path) \in Nat
  BY <1>1 DEF ValidPathMatch, Kinds, Depth, PrefixDepth, Path
<1> QED BY <1>2, <1>3, RouteIDsAssumption DEF Routes

\* Less is a strict order, and total on routes with different global ids.
LEMMA LessIsStrict == ASSUME NEW a \in Routes, NEW b \in Routes PROVE Less(a, b) => ~Less(b, a)
  BY KeyTypes DEF Less

LEMMA LessIsTransitive ==
    ASSUME NEW a \in Routes, NEW b \in Routes, NEW c \in Routes
    PROVE  Less(a, b) /\ Less(b, c) => Less(a, c)
  BY KeyTypes DEF Less

LEMMA LessIsTotal ==
    ASSUME NEW a \in Routes, NEW b \in Routes, a.source # b.source \/ a.id # b.id
    PROVE  Less(a, b) \/ Less(b, a)
<1>1. GlobalRouteID[<<a.source, a.id>>] # GlobalRouteID[<<b.source, b.id>>]
  BY RouteIDsAssumption DEF Routes
<1> QED BY <1>1, KeyTypes DEF Less

(***************************************************************************)
(* The table of valid files                                                *)
(***************************************************************************)

ValidFile(cfg) ==
    /\ cfg \in Seq([id : Ids, body : Bodies])
    /\ \A i, j \in DOMAIN cfg : cfg[i].id = cfg[j].id => i = j

ValidFiles(cfgs) == \A s \in Sources : ValidFile(cfgs[s])

LEMMA PositionFacts ==
    ASSUME NEW cfgs, ValidFiles(cfgs), NEW p \in Positions(cfgs)
    PROVE  /\ p = <<p[1], p[2]>> /\ p[1] \in Sources /\ p[2] \in DOMAIN cfgs[p[1]]
           /\ RouteAt(cfgs, p) \in Routes
           /\ RouteAt(cfgs, p).source = p[1] /\ RouteAt(cfgs, p).id = cfgs[p[1]][p[2]].id
<1>1. p = <<p[1], p[2]>> /\ p[1] \in Sources /\ p[2] \in DOMAIN cfgs[p[1]]
  BY DEF Positions
<1>2. cfgs[p[1]][p[2]] \in [id : Ids, body : Bodies]
  <2>1. cfgs[p[1]] \in Seq([id : Ids, body : Bodies])
    BY <1>1 DEF ValidFiles, ValidFile
  <2> QED BY <1>1, <2>1, ElementOfSeq, LenProperties
<1> QED BY <1>1, <1>2 DEF RouteAt, CompileRoute, Routes

LEMMA PositionsDiffer ==
    ASSUME NEW cfgs, ValidFiles(cfgs), NEW p \in Positions(cfgs), NEW q \in Positions(cfgs), p # q
    PROVE  RouteAt(cfgs, p).source # RouteAt(cfgs, q).source
           \/ RouteAt(cfgs, p).id # RouteAt(cfgs, q).id
<1> SUFFICES ASSUME p[1] = q[1], cfgs[p[1]][p[2]].id = cfgs[p[1]][q[2]].id PROVE p = q
  BY PositionFacts
<1>1. ValidFile(cfgs[p[1]]) /\ p[2] \in DOMAIN cfgs[p[1]] /\ q[2] \in DOMAIN cfgs[p[1]]
  BY PositionFacts DEF ValidFiles
<1>2. p[2] = q[2]
  BY <1>1 DEF ValidFile
<1> QED BY <1>2, PositionFacts

LEMMA PositionsFinite ==
    ASSUME NEW cfgs, ValidFiles(cfgs)
    PROVE  IsFiniteSet(Positions(cfgs))
<1> DEFINE f == [p \in Positions(cfgs) |-> <<RouteAt(cfgs, p).source, RouteAt(cfgs, p).id>>]
<1>1. IsFiniteSet(Sources \X Ids)
  BY RouteIDsAssumption, FS_Product
<1>2. f \in [Positions(cfgs) -> Sources \X Ids]
  BY PositionFacts DEF Routes
<1>3. \A p, q \in Positions(cfgs) : f[p] = f[q] => p = q
  BY PositionsDiffer
<1>4. f \in Injection(Positions(cfgs), Sources \X Ids)
  BY <1>2, <1>3 DEF Injection, IsInjective
<1> QED BY <1>1, <1>4, FS_Injection

\* With distinct ids stability does not matter: the order is Less.
LEMMA PrecedesIsLess ==
    ASSUME NEW cfgs, ValidFiles(cfgs), NEW p \in Positions(cfgs), NEW q \in Positions(cfgs)
    PROVE  Precedes(cfgs, p, q) <=> Less(RouteAt(cfgs, p), RouteAt(cfgs, q))
<1>1. CASE p = q
  <2>1. ~LoadedBefore(p, q)
    <3>1. cfgs[p[1]] \in Seq([id : Ids, body : Bodies]) /\ p[2] \in DOMAIN cfgs[p[1]]
      BY PositionFacts DEF ValidFiles, ValidFile
    <3>2. p[2] \in Int
      BY <3>1, LenProperties
    <3>3. FileOrder[p[1]] \in Nat
      BY PositionFacts, RouteIDsAssumption
    <3> QED BY <1>1, <3>2, <3>3 DEF LoadedBefore
  <2> QED BY <2>1 DEF Precedes
<1>2. CASE p # q
  <2>1. Less(RouteAt(cfgs, p), RouteAt(cfgs, q)) \/ Less(RouteAt(cfgs, q), RouteAt(cfgs, p))
    BY <1>2, PositionFacts, PositionsDiffer, LessIsTotal
  <2> QED BY <2>1 DEF Precedes
<1> QED BY <1>1, <1>2

Order(cfgs) == {pq \in Positions(cfgs) \X Positions(cfgs) : Precedes(cfgs, pq[1], pq[2])}

LEMMA OrderIsTotal ==
    ASSUME NEW cfgs, ValidFiles(cfgs), NEW S \in SUBSET Positions(cfgs)
    PROVE  StrictTotalOrder(Order(cfgs), S)
<1>1. \A p, q \in S : <<p, q>> \in Order(cfgs) <=> Less(RouteAt(cfgs, p), RouteAt(cfgs, q))
  BY PrecedesIsLess DEF Order
<1>2. \A p \in S : RouteAt(cfgs, p) \in Routes
  BY PositionFacts
<1>3. \A p, q \in S : <<p, q>> \in Order(cfgs) => <<q, p>> \notin Order(cfgs)
  BY <1>1, <1>2, LessIsStrict
<1>4. \A p, q, r \in S :
        <<p, q>> \in Order(cfgs) /\ <<q, r>> \in Order(cfgs) => <<p, r>> \in Order(cfgs)
  BY <1>1, <1>2, LessIsTransitive
<1>5. \A p, q \in S : p # q => <<p, q>> \in Order(cfgs) \/ <<q, p>> \in Order(cfgs)
  BY <1>1, <1>2, LessIsTotal, PositionsDiffer
<1> QED BY <1>3, <1>4, <1>5 DEF StrictTotalOrder

\* BuildTable puts every route of every file at a place of its own, in order.
LEMMA TableIsSorted ==
    ASSUME NEW cfgs, ValidFiles(cfgs)
    PROVE  /\ Cardinality(Positions(cfgs)) \in Nat
           /\ \A p \in Positions(cfgs) :
                /\ Place(cfgs, p) \in 1 .. Cardinality(Positions(cfgs))
                /\ BuildTable(cfgs)[Place(cfgs, p)] = RouteAt(cfgs, p)
           /\ \A p, q \in Positions(cfgs) :
                Precedes(cfgs, p, q) => Place(cfgs, p) < Place(cfgs, q)
           /\ \A k \in 1 .. Cardinality(Positions(cfgs)) :
                \E p \in Positions(cfgs) : Place(cfgs, p) = k
<1> DEFINE S == Positions(cfgs)
           R == Order(cfgs)
<1>1. IsFiniteSet(S) /\ Cardinality(S) \in Nat /\ StrictTotalOrder(R, S)
  BY PositionsFinite, OrderIsTotal, FS_CardinalityType
<1>2. ASSUME NEW p \in S
      PROVE  Place(cfgs, p) = 1 + Cardinality(Before(R, S, p)) /\ Cardinality(Before(R, S, p)) \in Nat
  <2>1. {q \in S : Precedes(cfgs, q, p)} = Before(R, S, p)
    BY DEF Order, Before
  <2>2. Before(R, S, p) \in SUBSET S
    BY DEF Before
  <2>3. Cardinality(Before(R, S, p)) \in Nat
    BY <1>1, <2>2, FS_Subset, FS_CardinalityType
  <2> QED BY <2>1, <2>3 DEF Place
<1>3. \A p \in S : Place(cfgs, p) \in 1 .. Cardinality(S)
  BY <1>1, <1>2, Ranking
<1>4. \A p, q \in S : <<p, q>> \in R => Place(cfgs, p) < Place(cfgs, q)
  BY <1>1, <1>2, Ranking
<1>5. \A k \in 1 .. Cardinality(S) : \E p \in S : Place(cfgs, p) = k
  <2> SUFFICES ASSUME NEW k \in 1 .. Cardinality(S) PROVE \E p \in S : Place(cfgs, p) = k
    OBVIOUS
  <2>1. PICK p \in S : 1 + Cardinality(Before(R, S, p)) = k
    BY <1>1, Ranking
  <2> QED BY <1>2, <2>1
<1>6. ASSUME NEW p \in S PROVE BuildTable(cfgs)[Place(cfgs, p)] = RouteAt(cfgs, p)
  <2>1. \A q \in S : Place(cfgs, q) = Place(cfgs, p) => q = p
    <3> SUFFICES ASSUME NEW q \in S, q # p PROVE Place(cfgs, q) # Place(cfgs, p)
      OBVIOUS
    <3>1. <<p, q>> \in R \/ <<q, p>> \in R
      BY <1>1 DEF StrictTotalOrder
    <3>2. Place(cfgs, p) \in Int /\ Place(cfgs, q) \in Int
      BY <1>2
    <3> QED BY <1>4, <3>1, <3>2
  <2>2. (CHOOSE q \in S : Place(cfgs, q) = Place(cfgs, p)) = p
    BY <2>1
  <2> QED BY <1>3, <2>2 DEF BuildTable
<1>7. \A p, q \in S : Precedes(cfgs, p, q) => <<p, q>> \in R
  BY DEF Order
<1> QED BY <1>1, <1>3, <1>4, <1>5, <1>6, <1>7

(***************************************************************************)
(* Which route answers                                                     *)
(***************************************************************************)

Hits(cfgs, host, path) == {r \in CompiledRoutes(cfgs) : MatchRoute(r, host, path)}

\* The table answers with the first, by Less, of the routes that match, in whatever
\* order the files list them, and answers nothing only if none matches (Resolve).
THEOREM AnswerIsFirst ==
    ASSUME NEW cfgs, ValidFiles(cfgs), NEW host, NEW path
    PROVE  LET answer == Resolve(BuildTable(cfgs), host, path)
               hits == Hits(cfgs, host, path)
           IN  /\ hits = {} => answer = NoRoute
               /\ hits # {} => answer \in hits /\ \A r \in hits : ~Less(r, answer)
<1> DEFINE S == Positions(cfgs)
           t == BuildTable(cfgs)
           M == {p \in S : MatchRoute(RouteAt(cfgs, p), host, path)}
           places == {k \in DOMAIN t : MatchRoute(t[k], host, path)}
<1>1. DOMAIN t = 1 .. Cardinality(S) /\ Cardinality(S) \in Nat
  BY TableIsSorted DEF BuildTable
<1>2. \A k \in DOMAIN t : \E p \in S : Place(cfgs, p) = k /\ t[k] = RouteAt(cfgs, p)
  BY <1>1, TableIsSorted
<1>3. CASE M = {}
  <2>1. places = {}
    BY <1>2, <1>3
  <2>2. Hits(cfgs, host, path) = {}
    BY <1>3 DEF Hits, CompiledRoutes
  <2> QED BY <2>1, <2>2 DEF Resolve
<1>4. CASE M # {}
  <2>1. PICK m \in M : \A q \in M : <<q, m>> \notin Order(cfgs)
    <3>1. M \in SUBSET S /\ IsFiniteSet(M)
      BY PositionsFinite, FS_Subset
    <3> QED BY <1>4, <3>1, OrderIsTotal, First
  <2>2. \A q \in M : ~Precedes(cfgs, q, m)
    BY <2>1 DEF Order
  <2>3. Place(cfgs, m) \in places /\ t[Place(cfgs, m)] = RouteAt(cfgs, m)
    BY <1>1, TableIsSorted
  <2>4. ASSUME NEW k \in places PROVE Place(cfgs, m) <= k
    <3>1. PICK p \in M : Place(cfgs, p) = k
      BY <1>2
    <3>2. p = m \/ Precedes(cfgs, m, p)
      BY <2>2, PrecedesIsLess, PositionsDiffer, LessIsTotal, PositionFacts
    <3>3. Place(cfgs, m) = k \/ Place(cfgs, m) < k
      BY <3>1, <3>2, TableIsSorted
    <3> QED BY <1>1, <2>3, <3>3
  <2>5. (CHOOSE k \in places : \A j \in places : k <= j) = Place(cfgs, m)
    <3>1. \A k \in places : (\A j \in places : k <= j) => k = Place(cfgs, m)
      BY <1>1, <2>3, <2>4
    <3> QED BY <2>3, <2>4, <3>1
  <2>6. Resolve(t, host, path) = RouteAt(cfgs, m)
    BY <2>3, <2>5 DEF Resolve
  <2>7. RouteAt(cfgs, m) \in Hits(cfgs, host, path)
    BY DEF Hits, CompiledRoutes
  <2>8. \A r \in Hits(cfgs, host, path) : ~Less(r, RouteAt(cfgs, m))
    BY <2>2, PrecedesIsLess DEF Hits, CompiledRoutes
  <2> QED BY <2>6, <2>7, <2>8
<1> QED BY <1>3, <1>4

LEMMA CompiledTyped == ASSUME NEW cfgs, ValidFiles(cfgs) PROVE CompiledRoutes(cfgs) \subseteq Routes
  BY PositionFacts DEF CompiledRoutes

\* Two routes of the same files that Less does not tell apart are the same.
LEMMA CompiledDiffer ==
    ASSUME NEW cfgs, ValidFiles(cfgs), NEW a \in CompiledRoutes(cfgs), NEW b \in CompiledRoutes(cfgs),
           ~Less(a, b), ~Less(b, a)
    PROVE  a = b
  BY CompiledTyped, LessIsTotal, PositionsDiffer DEF CompiledRoutes

\* Of two prefixes that match the same path, the one with more segments matches
\* a part of what the other does.
LEMMA LongerPrefixIsNarrower ==
    ASSUME NEW a \in Path, NEW b \in Path, NEW n \in Path, NEW path \in Path,
           Len(b.segs) <= Len(a.segs), MatchSegmentPrefix(a, n), MatchSegmentPrefix(b, n),
           MatchSegmentPrefix(a, path)
    PROVE  MatchSegmentPrefix(b, path)
<1>1. path # Asterisk
  BY TokensAssumption
<1>2. /\ a.segs \in Seq(Segments) /\ b.segs \in Seq(Segments)
      /\ n.segs \in Seq(Segments) /\ path.segs \in Seq(Segments)
  BY DEF Path
<1>3. CASE b.segs = <<>>
  BY <1>1, <1>3 DEF MatchSegmentPrefix
<1>4. CASE b.segs # <<>>
  <2>1. Len(b.segs) # 0 /\ Len(b.segs) \in Nat /\ Len(a.segs) \in Nat
    BY <1>2, <1>4, EmptySeq, LenProperties
  <2>2. a.segs # <<>>
    BY <2>1
  <2>3. /\ b.lead = n.lead /\ IsPrefixOf(b.segs, n.segs)
        /\ a.lead = n.lead /\ IsPrefixOf(a.segs, n.segs)
        /\ a.lead = path.lead /\ IsPrefixOf(a.segs, path.segs)
    BY <1>4, <2>2 DEF MatchSegmentPrefix
  <2>4. \A i \in 1 .. Len(b.segs) : i \in 1 .. Len(a.segs)
    BY <2>1
  <2>5. IsPrefixOf(b.segs, path.segs)
    <3>1. \A i \in 1 .. Len(b.segs) : b.segs[i] = path.segs[i]
      BY <2>3, <2>4 DEF IsPrefixOf
    <3>2. Len(b.segs) <= Len(path.segs)
      BY <1>2, <2>1, <2>3, LenProperties DEF IsPrefixOf
    <3> QED BY <3>1, <3>2 DEF IsPrefixOf
  <2> QED BY <1>1, <2>3, <2>5 DEF MatchSegmentPrefix
<1> QED BY <1>3, <1>4

\* A matcher that sorts first and matches the same path is not the wider one.
LEMMA FirstIsNarrower ==
    ASSUME NEW a \in Routes, NEW b \in Routes, ~Less(b, a), NEW path \in RequestPaths,
           MatchPath(a.body.path, path), MatchPath(b.body.path, path),
           b.body.path.kind # "regex"
    PROVE  ~Narrower(b.body.path, a.body.path)
<1> DEFINE p == a.body.path
           q == b.body.path
<1>1. ValidPathMatch(p) /\ ValidPathMatch(q)
  BY BodiesAssumption DEF Routes
<1>2. \/ Rank(p) > Rank(q)
      \/ Rank(p) = Rank(q) /\ Depth(p) >= Depth(q)
  BY KeyTypes DEF Less
<1>3. ASSUME NEW other \in RequestPaths, MatchPath(p, other) PROVE MatchPath(q, other)
  <2>1. \A x \in RequestPaths : NormalizePath(x) \in Path \union {Asterisk}
    BY PathsAssumption DEF NormalizePath, Root, Path
  <2>2. CASE q.kind = "any"
    BY <2>2 DEF MatchPath
  <2>3. CASE p.kind = "exact"
    <3>1. NormalizePath(path) = p.value /\ NormalizePath(other) = p.value
      BY <1>3, <2>3 DEF MatchPath
    <3> QED BY <3>1 DEF MatchPath
  <2>4. CASE p.kind = "prefix" /\ q.kind = "prefix"
    <3>1. Len(q.value.segs) <= Len(p.value.segs)
      <4>1. Depth(q) <= Depth(p) /\ Depth(q) = Len(q.value.segs) /\ Depth(p) = Len(p.value.segs)
        BY <1>2, <2>4, KeyTypes DEF Rank, Depth, PrefixDepth
      <4> QED BY <4>1
    <3>2. p.value \in Path /\ q.value \in Path
      BY <1>1, <2>4 DEF ValidPathMatch
    <3>3. /\ MatchSegmentPrefix(p.value, NormalizePath(path))
          /\ MatchSegmentPrefix(q.value, NormalizePath(path))
          /\ MatchSegmentPrefix(p.value, NormalizePath(other))
      BY <1>3, <2>4 DEF MatchPath
    <3>4. NormalizePath(path) \in Path /\ NormalizePath(other) \in Path
      BY <2>1, <3>3 DEF MatchSegmentPrefix
    <3>5. MatchSegmentPrefix(q.value, NormalizePath(other))
      BY <3>1, <3>2, <3>3, <3>4, LongerPrefixIsNarrower
    <3> QED BY <2>4, <3>5 DEF MatchPath
  <2>5. p.kind = "exact" \/ q.kind = "any" \/ (p.kind = "prefix" /\ q.kind = "prefix")
    BY <1>1, <1>2 DEF ValidPathMatch, Kinds, Rank
  <2> QED BY <2>2, <2>3, <2>4, <2>5
<1> QED BY <1>3 DEF Narrower

(***************************************************************************)
(* The invariant: valid files, and a table that was built from them        *)
(***************************************************************************)

FilesOK ==
    /\ DOMAIN configs = Sources
    /\ \A s \in Sources : ValidFile(configs[s]) /\ Len(configs[s]) <= MaxRoutes[s]

IInv == FilesOK /\ table = BuildTable(configs)

LEMMA TableTyped ==
    ASSUME NEW cfgs, ValidFiles(cfgs)
    PROVE  BuildTable(cfgs) \in Seq(Routes) /\ Len(BuildTable(cfgs)) = Cardinality(Positions(cfgs))
<1> DEFINE n == Cardinality(Positions(cfgs))
<1>1. n \in Nat
  BY TableIsSorted
<1>2. \A k \in 1 .. n : BuildTable(cfgs)[k] \in Routes
  <2> SUFFICES ASSUME NEW k \in 1 .. n PROVE BuildTable(cfgs)[k] \in Routes
    OBVIOUS
  <2>1. PICK p \in Positions(cfgs) : Place(cfgs, p) = k
    BY TableIsSorted
  <2> QED BY <2>1, TableIsSorted, PositionFacts
<1>3. BuildTable(cfgs) \in [1 .. n -> Routes]
  BY <1>2 DEF BuildTable
<1> QED BY <1>1, <1>3, IsASeq, LenProperties

LEMMA InvIsType == IInv => TypeOK
<1> SUFFICES ASSUME IInv PROVE TypeOK
  OBVIOUS
<1>1. ValidFiles(configs)
  BY DEF IInv, FilesOK, ValidFiles
<1> QED BY <1>1, TableTyped DEF IInv, FilesOK, ValidFile, TypeOK, Routes

\* Each edit of a valid file gives a valid file.
LEMMA AppendValid ==
    ASSUME NEW cfg, ValidFile(cfg), NEW r \in [id : Ids, body : Bodies],
           \A i \in DOMAIN cfg : cfg[i].id # r.id
    PROVE  ValidFile(Append(cfg, r)) /\ Len(Append(cfg, r)) = Len(cfg) + 1
  BY AppendProperties, LenProperties DEF ValidFile

LEMMA UpdateValid ==
    ASSUME NEW cfg, ValidFile(cfg), NEW i \in DOMAIN cfg, NEW body \in Bodies
    PROVE  /\ ValidFile([cfg EXCEPT ![i].body = body])
           /\ Len([cfg EXCEPT ![i].body = body]) = Len(cfg)
<1> DEFINE new == [cfg EXCEPT ![i].body = body]
<1>1. cfg \in Seq([id : Ids, body : Bodies]) /\ Len(cfg) \in Nat /\ DOMAIN cfg = 1 .. Len(cfg)
  BY LenProperties DEF ValidFile
<1>2. \A k \in 1 .. Len(cfg) : cfg[k] \in [id : Ids, body : Bodies]
  BY <1>1, ElementOfSeq
<1>3. DOMAIN new = 1 .. Len(cfg)
  BY <1>1
<1>4. \A k \in 1 .. Len(cfg) : new[k] \in [id : Ids, body : Bodies] /\ new[k].id = cfg[k].id
  BY <1>1, <1>2
<1>5. new \in Seq([id : Ids, body : Bodies]) /\ Len(new) = Len(cfg)
  BY <1>1, <1>3, <1>4, IsASeq, LenProperties
<1> QED BY <1>1, <1>3, <1>4, <1>5 DEF ValidFile

LEMMA DeleteValid ==
    ASSUME NEW cfg, ValidFile(cfg), NEW i \in DOMAIN cfg
    PROVE  LET new == SubSeq(cfg, 1, i - 1) \o SubSeq(cfg, i + 1, Len(cfg))
           IN  ValidFile(new) /\ Len(new) = Len(cfg) - 1
<1> DEFINE E == [id : Ids, body : Bodies]
           n == Len(cfg)
           left == SubSeq(cfg, 1, i - 1)
           right == SubSeq(cfg, i + 1, n)
           new == left \o right
<1>1. cfg \in Seq(E) /\ n \in Nat /\ DOMAIN cfg = 1 .. n /\ i \in 1 .. n
  BY LenProperties DEF ValidFile
<1>2. \A k \in 1 .. n : cfg[k] \in E
  BY <1>1, ElementOfSeq
<1> HIDE DEF E
<1>3. left \in Seq(E) /\ Len(left) = i - 1 /\ \A k \in 1 .. i - 1 : left[k] = cfg[k]
  <2>1. 1 \in Int /\ i - 1 \in Int /\ \A k \in 1 .. i - 1 : cfg[k] \in E
    BY <1>1, <1>2
  <2>2. /\ left \in Seq(E) /\ Len(left) = IF 1 <= i - 1 THEN i - 1 - 1 + 1 ELSE 0
        /\ \A k \in 1 .. i - 1 - 1 + 1 : left[k] = cfg[1 + k - 1]
    BY <2>1, SubSeqProperties
  <2> QED BY <1>1, <2>2
<1>4. right \in Seq(E) /\ Len(right) = n - i /\ \A k \in 1 .. n - i : right[k] = cfg[i + k]
  <2>1. i + 1 \in Int /\ n \in Int /\ \A k \in i + 1 .. n : cfg[k] \in E
    BY <1>1, <1>2
  <2>2. /\ right \in Seq(E) /\ Len(right) = IF i + 1 <= n THEN n - (i + 1) + 1 ELSE 0
        /\ \A k \in 1 .. n - (i + 1) + 1 : right[k] = cfg[(i + 1) + k - 1]
    BY <2>1, SubSeqProperties
  <2> QED BY <1>1, <2>2
<1> HIDE DEF left, right
<1>5. /\ new \in Seq(E) /\ Len(new) = n - 1
      /\ \A k \in 1 .. n - 1 : new[k] = IF k <= i - 1 THEN left[k] ELSE right[k - (i - 1)]
  <2>1. /\ new \in Seq(E) /\ Len(new) = Len(left) + Len(right)
        /\ \A k \in 1 .. Len(left) + Len(right) :
             new[k] = IF k <= Len(left) THEN left[k] ELSE right[k - Len(left)]
    BY <1>3, <1>4, ConcatProperties
  <2> QED BY <1>1, <1>3, <1>4, <2>1
<1> HIDE DEF new
<1>6. DOMAIN new = 1 .. n - 1
  BY <1>5, LenProperties
<1>7. ASSUME NEW k \in 1 .. n - 1
      PROVE  /\ k < i => new[k] = cfg[k] /\ k \in 1 .. n
             /\ k >= i => new[k] = cfg[k + 1] /\ k + 1 \in 1 .. n
  <2>1. CASE k < i
    <3>1. k \in 1 .. i - 1 /\ k <= i - 1 /\ k \in 1 .. n
      BY <1>1, <2>1
    <3>2. new[k] = left[k] /\ left[k] = cfg[k]
      BY <1>3, <1>5, <3>1
    <3> QED BY <1>1, <2>1, <3>1, <3>2
  <2>2. CASE k >= i
    <3>1. k - (i - 1) \in 1 .. n - i /\ i + (k - (i - 1)) = k + 1
      BY <1>1, <2>2
    <3>2. right[k - (i - 1)] = cfg[i + (k - (i - 1))]
      BY <1>4, <3>1
    <3> QED BY <1>1, <1>5, <2>2, <3>1, <3>2
  <2> QED BY <1>1, <2>1, <2>2
<1>8. ASSUME NEW j \in DOMAIN new, NEW k \in DOMAIN new, new[j].id = new[k].id PROVE j = k
  <2>1. \A a, b \in 1 .. n : cfg[a].id = cfg[b].id => a = b
    BY <1>1 DEF ValidFile
  <2> QED BY <1>1, <1>6, <1>7, <1>8, <2>1
<1>9. ValidFile(new)
  BY <1>5, <1>8 DEF ValidFile, E
<1> QED BY <1>5, <1>9 DEF new, left, right

LEMMA ReorderValid ==
    ASSUME NEW cfg, ValidFile(cfg), NEW i \in DOMAIN cfg, NEW j \in DOMAIN cfg, i # j
    PROVE  /\ ValidFile([cfg EXCEPT ![i] = cfg[j], ![j] = cfg[i]])
           /\ Len([cfg EXCEPT ![i] = cfg[j], ![j] = cfg[i]]) = Len(cfg)
<1> DEFINE new == [cfg EXCEPT ![i] = cfg[j], ![j] = cfg[i]]
           to(k) == IF k = i THEN j ELSE IF k = j THEN i ELSE k
<1>1. cfg \in Seq([id : Ids, body : Bodies]) /\ Len(cfg) \in Nat /\ DOMAIN cfg = 1 .. Len(cfg)
  BY LenProperties DEF ValidFile
<1>2. \A k \in 1 .. Len(cfg) : cfg[k] \in [id : Ids, body : Bodies]
  BY <1>1, ElementOfSeq
<1>3. DOMAIN new = 1 .. Len(cfg) /\ \A k \in 1 .. Len(cfg) : to(k) \in 1 .. Len(cfg) /\ new[k] = cfg[to(k)]
  BY <1>1
<1>4. new \in Seq([id : Ids, body : Bodies]) /\ Len(new) = Len(cfg)
  BY <1>1, <1>2, <1>3, IsASeq, LenProperties
<1>5. \A k, m \in 1 .. Len(cfg) : to(k) = to(m) => k = m
  OBVIOUS
<1> QED BY <1>1, <1>3, <1>4, <1>5 DEF ValidFile

\* A step that puts a valid file in the place of another keeps the invariant.
LEMMA EditKeepsInv ==
    ASSUME IInv, NEW s \in Sources, NEW cfg, ValidFile(cfg), Len(cfg) <= MaxRoutes[s],
           Reload([configs EXCEPT ![s] = cfg])
    PROVE  IInv'
  BY DEF IInv, FilesOK, Reload

LEMMA NextIInv == IInv /\ [Next]_vars => IInv'
<1> SUFFICES ASSUME IInv, [Next]_vars PROVE IInv'
  OBVIOUS
<1>1. ASSUME NEW s \in Sources
      PROVE  ValidFile(configs[s]) /\ Len(configs[s]) \in Nat /\ MaxRoutes[s] \in Nat
             /\ Len(configs[s]) <= MaxRoutes[s] /\ DOMAIN configs = Sources
  BY RouteIDsAssumption, LenProperties DEF IInv, FilesOK, ValidFile
<1>2. ASSUME NEW s \in Sources, AddRoute(s) PROVE IInv'
  <2>1. PICK r \in [id : Ids, body : Bodies] :
          /\ \A i \in DOMAIN configs[s] : configs[s][i].id # r.id
          /\ Reload([configs EXCEPT ![s] = Append(configs[s], r)])
    BY <1>1, <1>2 DEF AddRoute
  <2>2. ValidFile(Append(configs[s], r)) /\ Len(Append(configs[s], r)) <= MaxRoutes[s]
    BY <1>1, <1>2, <2>1, AppendValid DEF AddRoute
  <2> QED BY <2>1, <2>2, EditKeepsInv
<1>3. ASSUME NEW s \in Sources, UpdateRoute(s) PROVE IInv'
  <2>1. PICK i \in DOMAIN configs[s], body \in Bodies :
          Reload([configs EXCEPT ![s] = [configs[s] EXCEPT ![i].body = body]])
    BY <1>1, <1>3 DEF UpdateRoute
  <2> QED BY <1>1, <2>1, UpdateValid, EditKeepsInv
<1>4. ASSUME NEW s \in Sources, DeleteRoute(s) PROVE IInv'
  <2>1. PICK i \in DOMAIN configs[s] :
          Reload([configs EXCEPT ![s] =
                     SubSeq(configs[s], 1, i - 1) \o SubSeq(configs[s], i + 1, Len(configs[s]))])
    BY <1>1, <1>4 DEF DeleteRoute
  <2> DEFINE new == SubSeq(configs[s], 1, i - 1) \o SubSeq(configs[s], i + 1, Len(configs[s]))
  <2>2. ValidFile(new) /\ Len(new) = Len(configs[s]) - 1
    BY <1>1, DeleteValid
  <2>3. Len(new) <= MaxRoutes[s]
    BY <1>1, <2>2
  <2> QED BY <2>1, <2>2, <2>3, EditKeepsInv
<1>5. ASSUME NEW s \in Sources, ReorderFile(s) PROVE IInv'
  <2>1. PICK i, j \in DOMAIN configs[s] :
          i < j /\ Reload([configs EXCEPT ![s] = [configs[s] EXCEPT ![i] = configs[s][j],
                                                                   ![j] = configs[s][i]]])
    BY <1>1, <1>5 DEF ReorderFile
  <2>2. i # j
    BY <1>1, <2>1, LenProperties DEF ValidFile
  <2> QED BY <1>1, <2>1, <2>2, ReorderValid, EditKeepsInv
<1>6. CASE UNCHANGED vars
  BY <1>6 DEF vars, IInv, FilesOK
<1> QED BY <1>2, <1>3, <1>4, <1>5, <1>6 DEF Next

LEMMA IInvAlways == Spec => []IInv
<1>1. ASSUME Init PROVE IInv
  <2>1. ValidFile(<<>>)
    BY DEF ValidFile
  <2>2. \A s \in Sources : MaxRoutes[s] \in Nat
    BY RouteIDsAssumption
  <2> QED BY <1>1, <2>1, <2>2 DEF Init, IInv, FilesOK
<1> QED BY <1>1, NextIInv, PTL DEF Spec

\* Every edit of valid files leaves valid files and a table of all their routes.
THEOREM TypeCorrect == Spec => []TypeOK
  BY IInvAlways, InvIsType, PTL

\* For any routes and paths: who matches is answered, and never by a route wider
\* than another one that matches.
THEOREM NarrowestRouteAnswers == Spec => []MostSpecificWins
<1>1. IInv => MostSpecificWins
  <2> SUFFICES ASSUME IInv, NEW host \in RequestHosts, NEW path \in RequestPaths,
                      NEW p \in Positions(configs),
                      MatchRoute(RouteAt(configs, p), host, path)
               PROVE  LET route == RouteAt(configs, p)
                          answer == Resolve(table, host, path)
                      IN  /\ answer \in CompiledRoutes(configs)
                          /\ MatchRoute(answer, host, path)
                          /\ route.body.path.kind # "regex" =>
                               ~Narrower(route.body.path, answer.body.path)
    BY DEF MostSpecificWins
  <2> DEFINE route == RouteAt(configs, p)
             answer == Resolve(table, host, path)
  <2>1. ValidFiles(configs)
    BY DEF IInv, FilesOK, ValidFiles
  <2>2. route \in Hits(configs, host, path)
    BY DEF Hits, CompiledRoutes
  <2>3. answer \in Hits(configs, host, path) /\ ~Less(route, answer)
    BY <2>1, <2>2, AnswerIsFirst DEF IInv
  <2>4. answer \in Routes /\ route \in Routes
    BY <2>1, <2>2, <2>3, CompiledTyped DEF Hits
  <2>5. answer \in CompiledRoutes(configs) /\ MatchRoute(answer, host, path)
    BY <2>3 DEF Hits
  <2>6. route.body.path.kind # "regex" => ~Narrower(route.body.path, answer.body.path)
    BY <2>3, <2>4, <2>5, FirstIsNarrower DEF MatchRoute
  <2> QED BY <2>5, <2>6
<1> QED BY <1>1, IInvAlways, PTL

\* For any edit: only requests that an edited route matches may change their answer.
THEOREM EditsMoveNothingElse == Spec => EditsAreLocal
<1>1. ASSUME IInv, IInv', NEW host \in RequestHosts, NEW path \in RequestPaths,
             \A route \in Edited : ~MatchRoute(route, host, path)
      PROVE  Resolve(table', host, path) = Resolve(table, host, path)
  <2> DEFINE old == Resolve(table, host, path)
             new == Resolve(table', host, path)
  <2>1. ValidFiles(configs) /\ ValidFiles(configs')
    BY <1>1 DEF IInv, FilesOK, ValidFiles
  <2>2. Hits(configs', host, path) = Hits(configs, host, path)
    BY <1>1 DEF Hits, Edited
  <2>3. CASE Hits(configs, host, path) = {}
    BY <1>1, <2>1, <2>2, <2>3, AnswerIsFirst DEF IInv
  <2>4. CASE Hits(configs, host, path) # {}
    <3>1. old \in Hits(configs, host, path) /\ \A r \in Hits(configs, host, path) : ~Less(r, old)
      BY <1>1, <2>1, <2>4, AnswerIsFirst DEF IInv
    <3>2. new \in Hits(configs, host, path) /\ \A r \in Hits(configs, host, path) : ~Less(r, new)
      BY <1>1, <2>1, <2>2, <2>4, AnswerIsFirst DEF IInv
    <3> QED BY <2>1, <3>1, <3>2, CompiledDiffer DEF Hits
  <2> QED BY <2>3, <2>4
<1>2. IInv /\ IInv' => [\A host \in RequestHosts, path \in RequestPaths :
           Resolve(table', host, path) # Resolve(table, host, path) =>
               \E route \in Edited : MatchRoute(route, host, path)]_vars
  BY <1>1
<1> QED BY <1>2, IInvAlways, PTL DEF EditsAreLocal
=============================================================================
