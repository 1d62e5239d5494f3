----------------------------- MODULE ConfigData -----------------------------
(***************************************************************************)
(* Namespace configs (internal/proxyconfig) and what the admin operations  *)
(* make of them (internal/admin/service.go), without files or processes.   *)
(*                                                                         *)
(* A config is abstracted to which route names which pool and which kind of*)
(* settings each pool has.  The kinds are those the code tells apart:      *)
(*   "good"          settings that work                                    *)
(*   "unparsable"    host:port entries that Validate accepts and url.Parse *)
(*                   refuses when the registry is built                    *)
(*   "zeroInterval"  a health check with an interval of "0s", which loads, *)
(*                   and panics in time.NewTicker                          *)
(***************************************************************************)
EXTENDS Integers

CONSTANTS
    Namespaces, RouteIds, PoolIds,
    PoolKinds,   \* the kinds of pool settings clients send
    Absent,      \* a namespace without a file
    Torn,        \* a file caught between truncation and its new content
    NoPool       \* a route id or pool id that the config does not have

Config == [routes : [RouteIds -> PoolIds \union {NoPool}],
           pools  : [PoolIds -> PoolKinds \union {NoPool}]]

\* The default namespace can always be written to.
ASSUME NamespacesAssumption == Namespaces # {}

ASSUME KindsAssumption == PoolKinds \subseteq {"good", "unparsable", "zeroInterval"}
ASSUME NoPoolAssumption == NoPool \notin PoolIds \union PoolKinds \union {"unparsable"}
ASSUME ContentAssumption == Absent # Torn /\ Absent \notin Config /\ Torn \notin Config

\* normalizeConfig(proxyconfig.Config{})
EmptyConfig == [routes |-> [r \in RouteIds |-> NoPool], pools |-> [p \in PoolIds |-> NoPool]]

\* Config.Validate: every route names a pool of its own namespace.
Validate(cfg) ==
    \A r \in RouteIds : cfg.routes[r] # NoPool => cfg.pools[cfg.routes[r]] # NoPool

\* A namespace file can be read: it is not there, or Decode accepts it.
Decodes(content) == content = Absent \/ (content \in Config /\ Validate(content))

\* NewRegistry can parse the upstreams of every pool.
Builds(cfg) == \A p \in PoolIds : cfg.pools[p] # "unparsable"

\* The file does not stand in the way of a snapshot (LoadDir, BuildRegistry).
Loads(content) == Decodes(content) /\ (content # Absent => Builds(content))

\* The requests of the config API, by kind.
RouteOps == [kind : {"createRoute", "updateRoute"}, ns : Namespaces, id : RouteIds, pool : PoolIds]
            \union [kind : {"deleteRoute"}, ns : Namespaces, id : RouteIds]
PoolOps == [kind : {"createPool", "updatePool"}, ns : Namespaces, id : PoolIds, value : PoolKinds]
           \union [kind : {"deletePool"}, ns : Namespaces, id : PoolIds]
NamespaceOps == [kind : {"createNamespace", "deleteNamespace"}, ns : Namespaces]
Ops == RouteOps \union PoolOps \union NamespaceOps

\* The config an operation starts from: loadNamespaceFile of a missing file.
ConfigOf(content) == IF content = Absent THEN EmptyConfig ELSE content

\* The precondition each operation checks: what it creates must not be there,
\* what it changes must, and a pool that is deleted must not be referenced.
Accepts(op, content) ==
    LET cfg == ConfigOf(content)
    IN  CASE op.kind = "createRoute" -> cfg.routes[op.id] = NoPool
          [] op.kind \in {"updateRoute", "deleteRoute"} -> cfg.routes[op.id] # NoPool
          [] op.kind = "createPool" -> cfg.pools[op.id] = NoPool
          [] op.kind = "updatePool" -> cfg.pools[op.id] # NoPool
          [] op.kind = "deletePool" -> /\ cfg.pools[op.id] # NoPool
                                       /\ \A r \in RouteIds : cfg.routes[r] # op.id
          [] op.kind = "createNamespace" -> content = Absent
          [] op.kind = "deleteNamespace" -> content # Absent

\* What the operation makes of the file.
Result(op, content) ==
    LET cfg == ConfigOf(content)
    IN  CASE op.kind \in {"createRoute", "updateRoute"} -> [cfg EXCEPT !.routes[op.id] = op.pool]
          [] op.kind = "deleteRoute" -> [cfg EXCEPT !.routes[op.id] = NoPool]
          [] op.kind \in {"createPool", "updatePool"} -> [cfg EXCEPT !.pools[op.id] = op.value]
          [] op.kind = "deletePool" -> [cfg EXCEPT !.pools[op.id] = NoPool]
          [] op.kind = "createNamespace" -> EmptyConfig
          [] op.kind = "deleteNamespace" -> Absent

\* The operation gets past its precondition and the validation before the save.
Permitted(op, content) ==
    /\ Accepts(op, content)
    /\ op \notin NamespaceOps => Validate(Result(op, content))
=============================================================================
