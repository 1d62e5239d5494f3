----------------------------- MODULE RouteTable -----------------------------
(***************************************************************************)
(* internal/route: the routes of all namespace files compiled into one     *)
(* table, its order, and which route answers a request.                    *)
(*                                                                         *)
(* A path is what is left of it after a "/": the number of further slashes *)
(* in front (lead), the segments between single slashes, of which only the *)
(* inner ones may be empty, and the slashes at the end (trail).  "//a/b/"  *)
(* is [lead |-> 1, segs |-> <<"a", "b">>, trail |-> 1], "/" has neither    *)
(* segments nor further slashes.  The target "*" has no slash in front.  A *)
(* regular expression is the set of paths it matches.  A host is a name,   *)
(* perhaps in brackets, with a port, with a colon and an empty port, or    *)
(* with neither; ":80" has no name.                                        *)
(***************************************************************************)
EXTENDS Integers, Sequences, FiniteSets

CONSTANTS
    Sources, Ids,  \* the namespace files, and the local ids of routes
    Bodies,        \* the rest of a route: enabled, hosts, path
    MaxRoutes,     \* bound: routes of each file
    FileOrder,     \* place of each file in the directory listing
    GlobalRouteID, \* place of each global id "source:id" in the order of strings
    RequestHosts, RequestPaths,
    Segments, Asterisk, NoPath,
    NoPort, EmptyPort, NoName,
    NoRoute

Path == [lead : Nat, segs : Seq(Segments), trail : Nat]
Root == [lead |-> 0, segs |-> <<>>, trail |-> 0]

Kinds == {"exact", "prefix", "regex", "any"}

\* validatePathMatch: exact paths and prefixes start with "/", prefixes end with it.
ValidPathMatch(path) ==
    /\ path.kind \in Kinds
    /\ path.kind \in {"exact", "prefix"} => path.value \in Path
    /\ path.kind = "prefix" => path.value.segs = <<>> \/ path.value.trail > 0

\* That global ids differ over files is so for all names the admin API accepts, which
\* have no colon; LoadDir does not look at a file that was put there by hand.
ASSUME RouteIDsAssumption ==
    /\ IsFiniteSet(Sources) /\ IsFiniteSet(Ids)
    /\ MaxRoutes \in [Sources -> Nat] /\ FileOrder \in [Sources -> Nat]
    /\ GlobalRouteID \in [Sources \X Ids -> Nat]
    /\ \A a, b \in Sources \X Ids : GlobalRouteID[a] = GlobalRouteID[b] => a = b
ASSUME BodiesAssumption ==
    \A body \in Bodies : ValidPathMatch(body.path) /\ body.hosts # {}
ASSUME PathsAssumption == RequestPaths \subseteq Path \union {Asterisk, NoPath}
ASSUME TokensAssumption ==
    /\ Asterisk \notin Path /\ NoPath \notin Path /\ Asterisk # NoPath
    /\ NoRoute \notin [source : Sources, id : Ids, body : Bodies]

VARIABLES
    configs, \* the routes of each file, in the order of its JSON array
    table    \* the table of the snapshot made of them

vars == <<configs, table>>

(***************************************************************************)
(* Matching                                                                *)
(***************************************************************************)

\* net.SplitHostPort takes port and brackets off; a host that it refuses, or that
\* has an empty name or port, stays as it is.
NormalizeHost(host) ==
    IF host.port \in {NoPort, EmptyPort} \/ host.name = NoName THEN host
    ELSE [name |-> host.name, brackets |-> FALSE, port |-> NoPort]

NormalizePath(path) == IF path = NoPath THEN Root ELSE path

IsPrefixOf(s, t) == Len(s) <= Len(t) /\ \A i \in 1 .. Len(s) : s[i] = t[i]

\* Only the slashes at the end of a prefix are trimmed: a slash too many in front
\* is part of it, and a prefix of nothing but slashes matches every path.
MatchSegmentPrefix(prefix, path) ==
    /\ path # Asterisk
    /\ \/ prefix.segs = <<>>
       \/ prefix.lead = path.lead /\ IsPrefixOf(prefix.segs, path.segs)

MatchPath(matcher, rawPath) ==
    LET path == NormalizePath(rawPath)
    IN  \/ matcher.kind = "any"
        \/ matcher.kind = "exact" /\ path = matcher.value
        \/ matcher.kind = "prefix" /\ MatchSegmentPrefix(matcher.value, path)
        \/ matcher.kind = "regex" /\ path \in matcher.matches

MatchRoute(route, host, path) ==
    /\ route.body.enabled
    /\ NormalizeHost(host) \in route.body.hosts
    /\ MatchPath(route.body.path, path)

(***************************************************************************)
(* The order of the table                                                  *)
(***************************************************************************)

Rank(matcher) ==
    CASE matcher.kind = "exact" -> 4
      [] matcher.kind = "prefix" -> 3
      [] matcher.kind = "regex" -> 2
      [] matcher.kind = "any" -> 1

\* Mutant of PrefixDepth: the slashes at the end are not trimmed.
PrefixDepthUntrimmed(value) == Len(value.segs) + value.trail

\* The slashes at both ends are trimmed; an empty segment in between counts.
PrefixDepth(value) == Len(value.segs)

Depth(matcher) == IF matcher.kind = "prefix" THEN PrefixDepth(matcher.value) ELSE 0

\* Mutant of Less: routes that are equal otherwise keep the order of the files.
LessWithoutID(a, b) ==
    \/ Rank(a.body.path) > Rank(b.body.path)
    \/ Rank(a.body.path) = Rank(b.body.path) /\ Depth(a.body.path) > Depth(b.body.path)

Less(a, b) ==
    \/ Rank(a.body.path) > Rank(b.body.path)
    \/ /\ Rank(a.body.path) = Rank(b.body.path)
       /\ \/ Depth(a.body.path) > Depth(b.body.path)
          \/ /\ Depth(a.body.path) = Depth(b.body.path)
             /\ GlobalRouteID[<<a.source, a.id>>] < GlobalRouteID[<<b.source, b.id>>]

(***************************************************************************)
(* Compiling the files into the table                                      *)
(***************************************************************************)

CompileRoute(source, cfg) == [source |-> source, id |-> cfg.id, body |-> cfg.body]

\* The routes of the loaded files, by file and place in the file.
Positions(cfgs) == UNION {{s} \X DOMAIN cfgs[s] : s \in Sources}
RouteAt(cfgs, p) == CompileRoute(p[1], cfgs[p[1]][p[2]])
CompiledRoutes(cfgs) == {RouteAt(cfgs, p) : p \in Positions(cfgs)}

\* LoadDir and BuildTable append file after file, route after route.
LoadedBefore(p, q) ==
    \/ FileOrder[p[1]] < FileOrder[q[1]]
    \/ p[1] = q[1] /\ p[2] < q[2]

\* sort.SliceStable: what Less does not tell apart stays as it was loaded.
Precedes(cfgs, p, q) ==
    LET a == RouteAt(cfgs, p)
        b == RouteAt(cfgs, q)
    IN  Less(a, b) \/ (~Less(b, a) /\ LoadedBefore(p, q))

Place(cfgs, p) == 1 + Cardinality({q \in Positions(cfgs) : Precedes(cfgs, q, p)})

BuildTable(cfgs) ==
    [k \in 1 .. Cardinality(Positions(cfgs)) |->
        RouteAt(cfgs, CHOOSE p \in Positions(cfgs) : Place(cfgs, p) = k)]

\* The first route of the table that matches.
Resolve(routes, host, path) ==
    LET hits == {k \in DOMAIN routes : MatchRoute(routes[k], host, path)}
    IN  IF hits = {} THEN NoRoute
        ELSE routes[CHOOSE k \in hits : \A j \in hits : k <= j]

(***************************************************************************)
(* What is done to the files; each change is followed by a reload          *)
(***************************************************************************)

Init ==
    /\ configs = [s \in Sources |-> <<>>]
    /\ table = BuildTable(configs)

Reload(cfgs) == configs' = cfgs /\ table' = BuildTable(cfgs)

\* Mutant of AddRoute: the id is not looked up.
AddRouteUnchecked(s) ==
    /\ Len(configs[s]) < MaxRoutes[s]
    /\ \E r \in [id : Ids, body : Bodies] :
         Reload([configs EXCEPT ![s] = Append(@, r)])

\* CreateRoute appends a route whose id the file does not have.
AddRoute(s) ==
    /\ Len(configs[s]) < MaxRoutes[s]
    /\ \E r \in [id : Ids, body : Bodies] :
         /\ \A i \in DOMAIN configs[s] : configs[s][i].id # r.id
         /\ Reload([configs EXCEPT ![s] = Append(@, r)])

\* UpdateRoute replaces a route where it stands ...
UpdateRoute(s) ==
    \E i \in DOMAIN configs[s], body \in Bodies :
        Reload([configs EXCEPT ![s][i].body = body])

\* ... and DeleteRoute takes it out.
DeleteRoute(s) ==
    \E i \in DOMAIN configs[s] :
        Reload([configs EXCEPT ![s] = SubSeq(@, 1, i - 1) \o SubSeq(@, i + 1, Len(@))])

\* A file that is edited by hand may come back in another order.
ReorderFile(s) ==
    \E i, j \in DOMAIN configs[s] :
        i < j /\ Reload([configs EXCEPT ![s] = [@ EXCEPT ![i] = configs[s][j], ![j] = configs[s][i]]])

Next == \E s \in Sources : AddRoute(s) \/ UpdateRoute(s) \/ DeleteRoute(s) \/ ReorderFile(s)

Spec == Init /\ [][Next]_vars

(***************************************************************************)
(* Properties                                                              *)
(***************************************************************************)

\* The files hold valid routes with distinct ids, and the table is a sequence of
\* as many routes as the files have together.
TypeOK ==
    /\ DOMAIN configs = Sources
    /\ \A s \in Sources :
         /\ configs[s] \in Seq([id : Ids, body : Bodies])
         /\ Len(configs[s]) <= MaxRoutes[s]
         /\ \A i, j \in DOMAIN configs[s] : configs[s][i].id = configs[s][j].id => i = j
    /\ table \in Seq([source : Sources, id : Ids, body : Bodies])
    /\ Len(table) = Cardinality(Positions(configs))

\* matcher p lets through strictly fewer of the paths than q.
Narrower(p, q) ==
    LET Matched(m) == {path \in RequestPaths : MatchPath(m, path)}
    IN  Matched(p) \subseteq Matched(q) /\ Matched(p) # Matched(q)

\* Whenever an enabled route of some file matches a request, the request is
\* answered, by a route that matches it, and no matching route that is not a
\* regular expression is narrower than the answer: a catch-all never hides a
\* longer prefix, nor a prefix an exact path, with whatever slashes they are
\* written (Less, prefixDepth against MatchSegmentPrefix).
MostSpecificWins ==
    \A host \in RequestHosts, path \in RequestPaths, p \in Positions(configs) :
        LET route == RouteAt(configs, p)
            answer == Resolve(table, host, path)
        IN  MatchRoute(route, host, path) =>
                /\ answer \in CompiledRoutes(configs)
                /\ MatchRoute(answer, host, path)
                /\ route.body.path.kind # "regex" =>
                     ~Narrower(route.body.path, answer.body.path)

\* The routes that differ between the files before a step and after it.
Edited ==
    (CompiledRoutes(configs) \ CompiledRoutes(configs'))
        \union (CompiledRoutes(configs') \ CompiledRoutes(configs))

\* An edit moves only requests that an edited route matches, and the order of the
\* JSON array moves none: the sort makes the order of the other routes
\* independent of everything else (the tie-break on GlobalID in Less).
EditsAreLocal ==
    [][\A host \in RequestHosts, path \in RequestPaths :
           Resolve(table', host, path) # Resolve(table, host, path) =>
               \E route \in Edited : MatchRoute(route, host, path)]_vars
=============================================================================
