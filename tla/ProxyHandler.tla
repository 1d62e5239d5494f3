---------------------------- MODULE ProxyHandler ----------------------------
(***************************************************************************)
(* internal/proxy/reverse_proxy.go: the life of a proxied request between  *)
(* the snapshot it reads, the registry of pools of that snapshot, the      *)
(* cookie of a sticky route and the cache of ReverseProxy values, while    *)
(* reloads replace the snapshot and checkers change the health of targets. *)
(*                                                                         *)
(* A configuration says which pool each route names, which routes are      *)
(* sticky and which addresses each pool has.  Which route a request        *)
(* matches is the request's choice here (RouteTable says how it is found), *)
(* and which healthy target an algorithm picks is open (Pool says how).    *)
(* A client sends one request after the other; browsers keep cookies.      *)
(***************************************************************************)
EXTENDS Integers, Sequences, FiniteSets

CONSTANTS
    Clients, Browsers, \* Browsers: the clients that keep cookies
    Routes, Pools, \* global ids
    Addresses,     \* host:port of targets
    Layouts,       \* configurations that pass the validation
    CookieName,    \* stickyCookieName of each route, or NoName
    Names, NoName, \* NoName: http.SetCookie drops a cookie whose name is no token
    NoPool, None,
    MaxGen,        \* bound: snapshots built after the first one
    MaxSick        \* bound: targets that are unhealthy at a time, over all pools

Gens == 0 .. MaxGen

\* routes: the pool a route names, or NoPool if there is no such route;
\* targets: the upstreams of a pool, none if there is no such pool.
Layout == [routes : [Routes -> Pools \union {NoPool}], sticky : SUBSET Routes,
           targets : [Pools -> Seq(Addresses)]]

ASSUME BoundsAssumption == MaxGen \in Nat /\ MaxSick \in Nat
ASSUME BrowsersAssumption == Browsers \subseteq Clients
ASSUME TokensAssumption == NoPool \notin Pools /\ None \notin Addresses /\ None \notin Clients \union Routes
ASSUME NamesAssumption == NoName \notin Names /\ CookieName \in [Routes -> Names \union {NoName}]
\* validateRouteUpstreamPool, validateUpstreamEntries
ASSUME LayoutsAssumption ==
    /\ Layouts \subseteq Layout
    /\ \A l \in Layouts, r \in Routes : l.routes[r] # NoPool => l.targets[l.routes[r]] # <<>>

VARIABLES
    snapshot, \* generation held by runtime.State
    layout,   \* configuration each generation was built from
    sick,     \* unhealthy targets of each pool of each generation
    proxies,  \* ReverseProxy cached for an address (named by the client it was made for)
    pc, route, gen, target, proxy, \* the request of client c
    setCookie,\* its answer carries a new cookie
    jar,      \* cookies of client c
    home      \* history: target of c's last answer on a sticky route

requestVars == <<pc, route, gen, target, proxy, setCookie>>
clientVars == <<jar, home>>
configVars == <<snapshot, layout>>
vars == <<configVars, sick, proxies, requestVars, clientVars>>

\* The pool that the request of c has resolved.
PoolOf(c) == layout[gen[c]].routes[route[c]]
Targets(c) == layout[gen[c]].targets[PoolOf(c)]
Healthy(c) == DOMAIN Targets(c) \ sick[gen[c]][PoolOf(c)]
IsSticky(c) == route[c] \in layout[gen[c]].sticky

\* Browsers may hold any cookies left over from an earlier life of the proxy.
Init ==
    /\ snapshot = 0
    /\ \E l \in Layouts : layout = [g \in Gens |-> l]
    /\ sick = [g \in Gens |-> [p \in Pools |-> {}]]
    /\ proxies = [a \in Addresses |-> None]
    /\ pc = [c \in Clients |-> "idle"]
    /\ route = [c \in Clients |-> None] /\ gen = [c \in Clients |-> 0]
    /\ target = [c \in Clients |-> None] /\ proxy = [c \in Clients |-> None]
    /\ setCookie = [c \in Clients |-> FALSE]
    /\ jar \in [Clients -> [Names -> Addresses \union {None}]]
    /\ \A c \in Clients \ Browsers : jar[c] = [n \in Names |-> None]
    /\ home = [c \in Clients |-> [r \in Routes |-> None]]

(***************************************************************************)
(* A request                                                               *)
(***************************************************************************)

Send(c, r) ==
    /\ pc[c] = "idle"
    /\ route' = [route EXCEPT ![c] = r]
    /\ pc' = [pc EXCEPT ![c] = "arrived"]
    /\ UNCHANGED <<configVars, sick, proxies, gen, target, proxy, setCookie, clientVars>>

\* resolveRequest reads the snapshot once; its table may not have the route.
ResolveRoute(c) ==
    /\ pc[c] = "arrived"
    /\ gen' = [gen EXCEPT ![c] = snapshot]
    /\ pc' = [pc EXCEPT ![c] = IF layout[snapshot].routes[route[c]] = NoPool
                               THEN "notFound" ELSE "matched"]
    /\ UNCHANGED <<configVars, sick, proxies, route, target, proxy, setCookie, clientVars>>

\* Registry.Get of a generation.
Get(g, pool) == pool \in Pools /\ layout[g].targets[pool] # <<>>

\* Mutant of ResolvePool: the snapshot is read again for the registry.
ResolvePoolAgain(c) ==
    /\ pc[c] = "matched"
    /\ pc' = [pc EXCEPT ![c] = IF Get(snapshot, PoolOf(c)) THEN "resolved" ELSE "noPool"]
    /\ UNCHANGED <<configVars, sick, proxies, route, gen, target, proxy, setCookie, clientVars>>

\* resolvePool: the pool that the route names, from the registry of the same snapshot.
ResolvePool(c) ==
    /\ pc[c] = "matched"
    /\ pc' = [pc EXCEPT ![c] = IF Get(gen[c], PoolOf(c)) THEN "resolved" ELSE "noPool"]
    /\ UNCHANGED <<configVars, sick, proxies, route, gen, target, proxy, setCookie, clientVars>>

Cookie(c) == IF CookieName[route[c]] = NoName THEN None ELSE jar[c][CookieName[route[c]]]

\* findTargetIndex: the first target with the address of the cookie.
CookieIndex(c) ==
    {i \in DOMAIN Targets(c) : Targets(c)[i] = Cookie(c)
                                /\ \A j \in 1 .. i - 1 : Targets(c)[j] # Cookie(c)}

\* Mutant of StickyCookieTarget: the address of the cookie is taken as it is.
StickyCookieTrusted(c) ==
    /\ pc[c] = "resolved" /\ IsSticky(c)
    /\ IF Cookie(c) # None
       THEN /\ target' = [target EXCEPT ![c] = Cookie(c)]
            /\ pc' = [pc EXCEPT ![c] = "selected"]
       ELSE /\ pc' = [pc EXCEPT ![c] = "next"]
            /\ UNCHANGED target
    /\ UNCHANGED <<configVars, sick, proxies, route, gen, proxy, setCookie, clientVars>>

\* stickyCookieTarget: the cookie counts if its target is in the pool and healthy.
StickyCookieTarget(c) ==
    /\ pc[c] = "resolved" /\ IsSticky(c)
    /\ IF CookieIndex(c) \intersect Healthy(c) # {}
       THEN /\ target' = [target EXCEPT ![c] = Cookie(c)]
            /\ pc' = [pc EXCEPT ![c] = "selected"]
       ELSE /\ pc' = [pc EXCEPT ![c] = "next"]
            /\ UNCHANGED target
    /\ UNCHANGED <<configVars, sick, proxies, route, gen, proxy, setCookie, clientVars>>

\* Mutant of NextTarget: that there may be none is not looked at.
NextTargetUnchecked(c) ==
    /\ pc[c] = "next" \/ (pc[c] = "resolved" /\ ~IsSticky(c))
    /\ target' = [target EXCEPT ![c] = IF Healthy(c) = {} THEN None
                                       ELSE Targets(c)[CHOOSE i \in Healthy(c) : TRUE]]
    /\ setCookie' = [setCookie EXCEPT ![c] = IsSticky(c)]
    /\ pc' = [pc EXCEPT ![c] = "selected"]
    /\ UNCHANGED <<configVars, sick, proxies, route, gen, proxy, clientVars>>

\* The algorithm picks a healthy target; a sticky route names it in a new cookie.
NextTarget(c) ==
    /\ pc[c] = "next" \/ (pc[c] = "resolved" /\ ~IsSticky(c))
    /\ \E i \in Healthy(c) : target' = [target EXCEPT ![c] = Targets(c)[i]]
    /\ setCookie' = [setCookie EXCEPT ![c] = IsSticky(c)]
    /\ pc' = [pc EXCEPT ![c] = "selected"]
    /\ UNCHANGED <<configVars, sick, proxies, route, gen, proxy, clientVars>>

NoHealthyTarget(c) ==
    /\ pc[c] = "next" \/ (pc[c] = "resolved" /\ ~IsSticky(c))
    /\ Healthy(c) = {}
    /\ pc' = [pc EXCEPT ![c] = "noTarget"]
    /\ UNCHANGED <<configVars, sick, proxies, route, gen, target, proxy, setCookie, clientVars>>

\* proxyForTarget finds the address in the cache ...
CachedProxy(c) ==
    /\ pc[c] = "selected"
    /\ proxy' = [proxy EXCEPT ![c] = proxies[target[c]]]
    /\ pc' = [pc EXCEPT ![c] = IF proxies[target[c]] = None THEN "uncached" ELSE "proxying"]
    /\ UNCHANGED <<configVars, sick, proxies, route, gen, target, setCookie, clientVars>>

\* Mutant of StoreProxy: Store in the place of LoadOrStore.
StoreProxyOverwrites(c) ==
    /\ pc[c] = "uncached"
    /\ proxies' = [proxies EXCEPT ![target[c]] = c]
    /\ proxy' = [proxy EXCEPT ![c] = c]
    /\ pc' = [pc EXCEPT ![c] = "proxying"]
    /\ UNCHANGED <<configVars, sick, route, gen, target, setCookie, clientVars>>

\* ... or makes a new value, which LoadOrStore drops if another came first.
StoreProxy(c) ==
    /\ pc[c] = "uncached"
    /\ proxies' = [proxies EXCEPT ![target[c]] = IF @ = None THEN c ELSE @]
    /\ proxy' = [proxy EXCEPT ![c] = proxies'[target[c]]]
    /\ pc' = [pc EXCEPT ![c] = "proxying"]
    /\ UNCHANGED <<configVars, sick, route, gen, target, setCookie, clientVars>>

\* The request is over; what it selected is forgotten.
Forget(c) ==
    /\ pc' = [pc EXCEPT ![c] = "idle"]
    /\ target' = [target EXCEPT ![c] = None]
    /\ proxy' = [proxy EXCEPT ![c] = None]
    /\ setCookie' = [setCookie EXCEPT ![c] = FALSE]
    /\ route' = [route EXCEPT ![c] = None]
    /\ gen' = [gen EXCEPT ![c] = 0]
    /\ UNCHANGED <<configVars, sick, proxies>>

\* Mutant of Respond: only a client without a cookie is given one.
RespondKeepsCookie(c) ==
    /\ pc[c] = "proxying"
    /\ jar' = IF c \in Browsers /\ setCookie[c] /\ Cookie(c) = None /\ CookieName[route[c]] # NoName
              THEN [jar EXCEPT ![c][CookieName[route[c]]] = target[c]] ELSE jar
    /\ home' = IF c \in Browsers /\ IsSticky(c) THEN [home EXCEPT ![c][route[c]] = target[c]] ELSE home
    /\ Forget(c)

\* The answer reaches the client, with the cookie set before it was proxied (the
\* 502 of the ErrorHandler carries it too) ...
Respond(c) ==
    /\ pc[c] = "proxying"
    /\ jar' = IF c \in Browsers /\ setCookie[c] /\ CookieName[route[c]] # NoName
              THEN [jar EXCEPT ![c][CookieName[route[c]]] = target[c]] ELSE jar
    /\ home' = IF c \in Browsers /\ IsSticky(c) THEN [home EXCEPT ![c][route[c]] = target[c]] ELSE home
    /\ Forget(c)

\* ... or it is an error that sets none, or is lost on the way.
Fail(c) ==
    /\ pc[c] \in {"notFound", "noPool", "noTarget", "proxying"}
    /\ Forget(c) /\ UNCHANGED clientVars

(***************************************************************************)
(* What happens around it                                                  *)
(***************************************************************************)

\* Reload builds a registry whose targets are all healthy and swaps the snapshot.
Reload(l) ==
    /\ snapshot < MaxGen
    /\ snapshot' = snapshot + 1
    /\ layout' = [layout EXCEPT ![snapshot + 1] = l]
    /\ UNCHANGED <<sick, proxies, requestVars, clientVars>>

SickTargets == UNION {{<<g, p>>} \X sick[g][p] : g \in Gens, p \in Pools}

\* A checker of any generation gets a result.
HealthChanges(g, p, i) ==
    /\ g <= snapshot /\ i \in DOMAIN layout[g].targets[p]
    /\ i \in sick[g][p] \/ Cardinality(SickTargets) < MaxSick
    /\ sick' = [sick EXCEPT ![g][p] = IF i \in @ THEN @ \ {i} ELSE @ \union {i}]
    /\ UNCHANGED <<configVars, proxies, requestVars, clientVars>>

\* A client throws its cookies away.
ClearCookies(c) ==
    /\ pc[c] = "idle" /\ c \in Browsers
    /\ jar' = [jar EXCEPT ![c] = [n \in Names |-> None]]
    /\ home' = [home EXCEPT ![c] = [r \in Routes |-> None]]
    /\ UNCHANGED <<configVars, sick, proxies, requestVars>>

Request(c) ==
    \/ \E r \in Routes : Send(c, r)
    \/ ResolveRoute(c) \/ ResolvePool(c)
    \/ StickyCookieTarget(c) \/ NextTarget(c) \/ NoHealthyTarget(c)
    \/ CachedProxy(c) \/ StoreProxy(c) \/ Respond(c) \/ Fail(c)

Next ==
    \/ \E c \in Clients : Request(c) \/ ClearCookies(c)
    \/ \E l \in Layouts : Reload(l)
    \/ \E g \in Gens, p \in Pools : \E i \in DOMAIN layout[g].targets[p] : HealthChanges(g, p, i)

Spec == Init /\ [][Next]_vars

(***************************************************************************)
(* Properties                                                              *)
(***************************************************************************)

\* Every variable holds a value the program can give it, and a request that has
\* selected a target has one.
TypeOK ==
    /\ snapshot \in Gens /\ layout \in [Gens -> Layouts]
    /\ sick \in [Gens -> [Pools -> SUBSET Nat]]
    /\ proxies \in [Addresses -> Clients \union {None}]
    /\ pc \in [Clients -> {"idle", "arrived", "notFound", "matched", "noPool", "resolved", "next",
                           "noTarget", "selected", "uncached", "proxying"}]
    /\ route \in [Clients -> Routes \union {None}] /\ gen \in [Clients -> Gens]
    /\ target \in [Clients -> Addresses \union {None}]
    /\ proxy \in [Clients -> Clients \union {None}]
    /\ setCookie \in [Clients -> BOOLEAN]
    /\ jar \in [Clients -> [Names -> Addresses \union {None}]]
    /\ home \in [Clients -> [Routes -> Addresses \union {None}]]
    /\ \A c \in Clients : pc[c] \in {"selected", "uncached", "proxying"} => target[c] # None

\* The pool that a matched route names exists when it is looked up: "matched upstream
\* pool does not exist" is never answered (Validate closes the references).
NoDanglingPool == \A c \in Clients : pc[c] # "noPool"

\* A request is proxied only to an address that this pool has: a cookie from an
\* earlier configuration sends nothing to a target that was taken out
\* (findTargetIndex).
TargetOfPool ==
    \A c \in Clients : pc[c] \in {"selected", "uncached", "proxying"} =>
        \E i \in DOMAIN Targets(c) : target[c] = Targets(c)[i]

\* However reloads come between its steps, a request matches its route, finds its
\* pool and gets its target in one and the same snapshot (resolveRequest).
ServedFromOneSnapshot == NoDanglingPool /\ TargetOfPool

\* Requests that meet an empty cache at the same time end up sharing one
\* ReverseProxy per address, which is never replaced (storeProxy).
SharedProxy ==
    \A c \in Clients : pc[c] = "proxying" => proxy[c] # None /\ proxy[c] = proxies[target[c]]

\* The cache grows with the addresses that were configured, never with what
\* clients send: it holds no address that no snapshot so far had (proxyForTarget).
CacheBoundedByConfigs ==
    \A a \in Addresses : proxies[a] # None =>
        \E g \in 0 .. snapshot, p \in Pools :
            \E i \in DOMAIN layout[g].targets[p] : layout[g].targets[p][i] = a

\* "A request with the same cookie is sent to the same upstream target"
\* (docs/api/dashboard-api.ko.md): when the handler looks at the cookie of a client
\* whose last answer on this sticky route came from a target that its pool still
\* has and lists as healthy, it selects that target, whatever the client asked of
\* other routes, and however often the configuration was reloaded in between.
StickyWhileHealthy ==
    [][\A c \in Clients :
           LET last == home[c][route[c]]
               places == {i \in DOMAIN Targets(c) : Targets(c)[i] = last}
           IN  (pc[c] = "resolved" /\ pc'[c] \in {"selected", "next"} /\ IsSticky(c)
                  /\ places # {} /\ places \subseteq Healthy(c))
                 => target'[c] = last]_vars
=============================================================================
