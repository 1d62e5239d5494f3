------------------------- MODULE ProxyHandlerProofs -------------------------
(***************************************************************************)
(* Proofs about ProxyHandler, for any number of clients, routes, pools,    *)
(* addresses, configurations and generations.                              *)
(***************************************************************************)
EXTENDS ProxyHandler, OrderFacts

Choosing == {"resolved", "next"}
Chosen == {"selected", "uncached", "proxying"}

\* A request keeps the route it matched and the generation it resolved it in,
\* which a reload does not touch.
Bound(c) ==
    /\ gen[c] <= snapshot
    /\ pc[c] # "idle" => route[c] \in Routes
    /\ pc[c] \in {"matched"} \union Choosing \union Chosen =>
          layout[gen[c]].routes[route[c]] # NoPool

BoundInv == \A c \in Clients : Bound(c)

\* The cookie of a sticky route names the target of the last answer; only a request
\* on a sticky route sets a cookie, and one that does not was sent to the target of
\* the cookie it has.
HomeInv ==
    \A c \in Clients, r \in Routes :
        home[c][r] # None => jar[c][CookieName[r]] = home[c][r]

UsedCookie(c) ==
    /\ setCookie[c] => pc[c] \in Chosen /\ IsSticky(c)
    /\ pc[c] \in Chosen /\ IsSticky(c) /\ ~setCookie[c] => jar[c][CookieName[route[c]]] = target[c]

CookieInv == HomeInv /\ \A c \in Clients : UsedCookie(c)

IInv ==
    /\ TypeOK /\ BoundInv
    /\ NoDanglingPool /\ TargetOfPool /\ SharedProxy /\ CacheBoundedByConfigs

\* Every sticky route has a cookie of its own.
CookiesDiffer ==
    \A r, q \in Routes : CookieName[r] # NoName /\ (CookieName[r] = CookieName[q] => r = q)

(***************************************************************************)
(* Facts about the data                                                    *)
(***************************************************************************)

\* What the validation guarantees of the pool of a route.
LEMMA PoolOfRoute ==
    ASSUME TypeOK, NEW c \in Clients, NEW g \in Gens, NEW r \in Routes,
           layout[g].routes[r] # NoPool
    PROVE  /\ layout[g].routes[r] \in Pools
           /\ layout[g].targets[layout[g].routes[r]] \in Seq(Addresses)
           /\ layout[g].targets[layout[g].routes[r]] # <<>>
<1> layout[g] \in Layouts /\ layout[g] \in Layout
  BY LayoutsAssumption DEF TypeOK
<1> layout[g].routes \in [Routes -> Pools \union {NoPool}] /\ layout[g].targets \in [Pools -> Seq(Addresses)]
  BY DEF Layout
<1> QED BY LayoutsAssumption

LEMMA TargetsType ==
    ASSUME TypeOK, BoundInv, NEW c \in Clients,
           pc[c] \in {"matched"} \union Choosing \union Chosen
    PROVE  /\ PoolOf(c) \in Pools /\ gen[c] \in Gens /\ route[c] \in Routes
           /\ Targets(c) \in Seq(Addresses) /\ Targets(c) # <<>>
           /\ \A i \in DOMAIN Targets(c) : Targets(c)[i] \in Addresses /\ i \in Nat
<1>1. gen[c] \in Gens
  BY DEF TypeOK
<1>2. route[c] \in Routes /\ layout[gen[c]].routes[route[c]] # NoPool
  BY DEF BoundInv, Bound, Choosing, Chosen
<1>3. PoolOf(c) \in Pools /\ Targets(c) \in Seq(Addresses) /\ Targets(c) # <<>>
  BY <1>1, <1>2, PoolOfRoute DEF PoolOf, Targets
<1> QED BY <1>1, <1>2, <1>3

(***************************************************************************)
(* The invariant                                                           *)
(***************************************************************************)

LEMMA InitIInv == Init => IInv
<1> SUFFICES ASSUME Init PROVE IInv
  OBVIOUS
<1>1. 0 \in Gens
  BY BoundsAssumption DEF Gens
<1>2. TypeOK
  <2>1. snapshot \in Gens /\ layout \in [Gens -> Layouts] /\ sick \in [Gens -> [Pools -> SUBSET Nat]]
    BY <1>1 DEF Init
  <2>2. /\ proxies \in [Addresses -> Clients \union {None}]
        /\ route \in [Clients -> Routes \union {None}] /\ gen \in [Clients -> Gens]
        /\ target \in [Clients -> Addresses \union {None}] /\ proxy \in [Clients -> Clients \union {None}]
        /\ setCookie \in [Clients -> BOOLEAN]
        /\ home \in [Clients -> [Routes -> Addresses \union {None}]]
    BY <1>1 DEF Init
  <2>3. jar \in [Clients -> [Names -> Addresses \union {None}]]
    BY DEF Init
  <2>4. pc = [c \in Clients |-> "idle"]
    BY DEF Init
  <2> QED BY <2>1, <2>2, <2>3, <2>4 DEF TypeOK
<1>3. BoundInv
  BY DEF Init, BoundInv, Bound, Choosing, Chosen
<1>4. NoDanglingPool /\ TargetOfPool /\ SharedProxy
  BY DEF Init, NoDanglingPool, TargetOfPool, SharedProxy
<1>5. CacheBoundedByConfigs
  BY DEF Init, CacheBoundedByConfigs
<1> QED BY <1>2, <1>3, <1>4, <1>5 DEF IInv

\* What a step of one request leaves as it was.
OthersKeep(c) ==
    /\ UNCHANGED <<configVars, sick>>
    /\ \A d \in Clients \ {c} :
          /\ pc'[d] = pc[d] /\ route'[d] = route[d] /\ gen'[d] = gen[d]
          /\ target'[d] = target[d] /\ proxy'[d] = proxy[d]

\* For the steps of a request that do not touch the cache, it is enough to look at
\* the request itself.
LEMMA LocalStep ==
    ASSUME IInv, TypeOK', NEW c \in Clients, OthersKeep(c), UNCHANGED proxies,
           Bound(c)', pc'[c] # "noPool",
           pc'[c] \in Chosen =>
               \E i \in DOMAIN Targets(c)' : target'[c] = Targets(c)'[i],
           pc'[c] = "proxying" => proxy'[c] # None /\ proxy'[c] = proxies[target'[c]]
    PROVE  IInv'
<1>1. BoundInv'
  BY DEF IInv, BoundInv, Bound, OthersKeep, configVars
<1>2. NoDanglingPool'
  BY DEF IInv, NoDanglingPool, OthersKeep
<1>3. TargetOfPool'
  <2> SUFFICES ASSUME NEW d \in Clients, d # c, pc'[d] \in Chosen
               PROVE  \E i \in DOMAIN Targets(d)' : target'[d] = Targets(d)'[i]
    BY DEF TargetOfPool, Chosen
  <2>1. Targets(d)' = Targets(d) /\ target'[d] = target[d] /\ pc'[d] = pc[d]
    BY DEF OthersKeep, configVars, Targets, PoolOf
  <2> QED BY <2>1 DEF IInv, TargetOfPool, Chosen
<1>4. SharedProxy'
  BY DEF IInv, SharedProxy, OthersKeep
<1>5. CacheBoundedByConfigs'
  BY DEF IInv, CacheBoundedByConfigs, OthersKeep, configVars
<1> QED BY <1>1, <1>2, <1>3, <1>4, <1>5 DEF IInv

LEMMA RequestIInv ==
    ASSUME IInv, NEW c \in Clients, Request(c)
    PROVE  IInv'
<1> USE DEF IInv
<1> DEFINE Local == /\ OthersKeep(c) /\ UNCHANGED proxies
                    /\ Bound(c)' /\ pc'[c] # "noPool"
<1>1. CASE \E r \in Routes : Send(c, r)
  <2> PICK r \in Routes : Send(c, r)
    BY <1>1
  <2>1. TypeOK'
    BY DEF Send, TypeOK, configVars, clientVars
  <2>2. Local
    BY DEF Send, OthersKeep, configVars, TypeOK, BoundInv, Bound, Choosing, Chosen
  <2>3. pc'[c] = "arrived"
    BY DEF Send, TypeOK
  <2> QED BY <2>1, <2>2, <2>3, LocalStep DEF Chosen
<1>2. CASE ResolveRoute(c)
  <2>1. TypeOK'
    BY <1>2 DEF ResolveRoute, TypeOK, configVars, clientVars
  <2>2. pc'[c] \in {"notFound", "matched"} /\ gen'[c] = snapshot /\ route' = route /\ layout' = layout
        /\ snapshot' = snapshot /\ (pc'[c] = "matched" => layout[snapshot].routes[route[c]] # NoPool)
    BY <1>2 DEF ResolveRoute, TypeOK, configVars
  <2>3. OthersKeep(c) /\ UNCHANGED proxies
    BY <1>2 DEF ResolveRoute, OthersKeep, TypeOK
  <2>4. route[c] \in Routes /\ snapshot \in Int
    BY <1>2 DEF ResolveRoute, BoundInv, Bound, TypeOK, Gens
  <2>5. Bound(c)'
    BY <2>2, <2>4 DEF Bound, Choosing, Chosen
  <2> QED BY <2>1, <2>2, <2>3, <2>5, LocalStep DEF Chosen
<1>3. CASE ResolvePool(c)
  <2>1. pc[c] = "matched"
    BY <1>3 DEF ResolvePool
  <2>2. Get(gen[c], PoolOf(c))
    BY <2>1, TargetsType DEF Get, Targets
  <2>3. pc' = [pc EXCEPT ![c] = "resolved"]
    BY <1>3, <2>2 DEF ResolvePool
  <2>4. TypeOK'
    BY <1>3, <2>3 DEF ResolvePool, TypeOK, configVars, clientVars
  <2>5. Local
    BY <1>3, <2>1, <2>3 DEF ResolvePool, OthersKeep, configVars, TypeOK, BoundInv, Bound, Choosing, Chosen
  <2>6. pc'[c] = "resolved"
    BY <2>3 DEF TypeOK
  <2> QED BY <2>4, <2>5, <2>6, LocalStep DEF Chosen
<1>4. CASE StickyCookieTarget(c)
  <2>1. pc[c] = "resolved"
    BY <1>4 DEF StickyCookieTarget
  <2>2. PICK next \in {"selected", "next"}, a \in Addresses \union {None} :
          /\ pc' = [pc EXCEPT ![c] = next] /\ target' = [target EXCEPT ![c] = a]
          /\ next = "selected" => a # None /\ \E i \in DOMAIN Targets(c) : a = Targets(c)[i]
    <3>1. CASE CookieIndex(c) \intersect Healthy(c) # {}
      <4>1. PICK i \in DOMAIN Targets(c) : Targets(c)[i] = Cookie(c)
        BY <3>1 DEF CookieIndex
      <4>2. Cookie(c) \in Addresses /\ Cookie(c) # None
        BY <2>1, <4>1, TargetsType, TokensAssumption DEF Choosing
      <4> QED BY <1>4, <3>1, <4>1, <4>2 DEF StickyCookieTarget
    <3>2. CASE ~(CookieIndex(c) \intersect Healthy(c) # {})
      <4>1. target[c] \in Addresses \union {None} /\ target = [target EXCEPT ![c] = target[c]]
        BY DEF TypeOK
      <4>2. pc' = [pc EXCEPT ![c] = "next"] /\ target' = target
        BY <1>4, <3>2 DEF StickyCookieTarget
      <4>3. target' = [target EXCEPT ![c] = target[c]]
        BY <4>1, <4>2
      <4> QED BY <4>1, <4>2, <4>3
    <3> QED BY <3>1, <3>2
  <2>3. /\ UNCHANGED <<configVars, sick, proxies, route, gen, proxy, setCookie, clientVars>>
        /\ pc'[c] = next /\ target'[c] = a
    BY <1>4, <2>2 DEF StickyCookieTarget, TypeOK
  <2>4. TypeOK'
    BY <2>2, <2>3 DEF TypeOK, configVars, clientVars
  <2>5. Local
    BY <2>1, <2>2, <2>3 DEF OthersKeep, configVars, TypeOK, BoundInv, Bound, Choosing, Chosen
  <2>6. Targets(c)' = Targets(c)
    BY <2>3 DEF Targets, PoolOf, configVars
  <2> QED BY <2>2, <2>3, <2>4, <2>5, <2>6, LocalStep DEF Chosen
<1>5. CASE NextTarget(c)
  <2>1. pc[c] \in Choosing
    BY <1>5 DEF NextTarget, Choosing
  <2>2. PICK i \in Healthy(c) : target' = [target EXCEPT ![c] = Targets(c)[i]]
    BY <1>5 DEF NextTarget
  <2>3. i \in DOMAIN Targets(c) /\ Targets(c)[i] \in Addresses /\ Targets(c)[i] # None
    BY <2>1, TargetsType, TokensAssumption DEF Healthy
  <2>4. /\ UNCHANGED <<configVars, sick, proxies, route, gen, proxy, clientVars>>
        /\ pc' = [pc EXCEPT ![c] = "selected"] /\ setCookie' = [setCookie EXCEPT ![c] = IsSticky(c)]
        /\ pc'[c] = "selected" /\ target'[c] = Targets(c)[i]
    BY <1>5, <2>2 DEF NextTarget, TypeOK
  <2>5. IsSticky(c) \in BOOLEAN
    BY DEF IsSticky
  <2>6. TypeOK'
    BY <2>2, <2>3, <2>4, <2>5 DEF TypeOK, configVars, clientVars
  <2>7. Local
    BY <2>1, <2>2, <2>4 DEF OthersKeep, configVars, TypeOK, BoundInv, Bound, Choosing, Chosen
  <2>8. Targets(c)' = Targets(c)
    BY <2>4 DEF Targets, PoolOf, configVars
  <2> QED BY <2>3, <2>4, <2>6, <2>7, <2>8, LocalStep
<1>6. CASE NoHealthyTarget(c)
  <2>1. TypeOK'
    BY <1>6 DEF NoHealthyTarget, TypeOK, configVars, clientVars
  <2>2. Local
    BY <1>6 DEF NoHealthyTarget, OthersKeep, configVars, TypeOK, BoundInv, Bound, Choosing, Chosen
  <2>3. pc'[c] = "noTarget"
    BY <1>6 DEF NoHealthyTarget, TypeOK
  <2> QED BY <2>1, <2>2, <2>3, LocalStep DEF Chosen
<1>7. CASE CachedProxy(c)
  <2>1. pc[c] = "selected" /\ target[c] \in Addresses
    BY <1>7 DEF CachedProxy, TypeOK
  <2>2. PICK next \in {"uncached", "proxying"} :
          /\ pc' = [pc EXCEPT ![c] = next] /\ (next = "proxying" => proxies[target[c]] # None)
    BY <1>7 DEF CachedProxy
  <2>3. /\ UNCHANGED <<configVars, sick, proxies, route, gen, target, setCookie, clientVars>>
        /\ proxy' = [proxy EXCEPT ![c] = proxies[target[c]]]
        /\ pc'[c] = next /\ proxy'[c] = proxies[target[c]]
    BY <1>7, <2>2 DEF CachedProxy, TypeOK
  <2>4. TypeOK'
    BY <2>1, <2>2, <2>3 DEF TypeOK, configVars, clientVars
  <2>5. Local
    BY <2>1, <2>2, <2>3 DEF OthersKeep, configVars, TypeOK, BoundInv, Bound, Choosing, Chosen
  <2>6. Targets(c)' = Targets(c)
    BY <2>3 DEF Targets, PoolOf, configVars
  <2>7. \E i \in DOMAIN Targets(c) : target[c] = Targets(c)[i]
    BY <2>1 DEF TargetOfPool
  <2> QED BY <2>2, <2>3, <2>4, <2>5, <2>6, <2>7, LocalStep
<1>8. CASE StoreProxy(c)
  <2>1. pc[c] = "uncached" /\ target[c] \in Addresses
    BY <1>8 DEF StoreProxy, TypeOK
  <2>2. /\ UNCHANGED <<configVars, sick, route, gen, target, setCookie, clientVars>>
        /\ pc' = [pc EXCEPT ![c] = "proxying"] /\ pc'[c] = "proxying"
        /\ proxy' = [proxy EXCEPT ![c] = proxies'[target[c]]] /\ proxy'[c] = proxies'[target[c]]
    BY <1>8 DEF StoreProxy, TypeOK
  <2>3. /\ proxies' \in [Addresses -> Clients \union {None}] /\ proxies'[target[c]] # None
        /\ \A a \in Addresses : /\ proxies[a] # None => proxies'[a] = proxies[a]
                                /\ a # target[c] => proxies'[a] = proxies[a]
    BY <1>8, <2>1, TokensAssumption DEF StoreProxy, TypeOK
  <2>4. TypeOK'
    BY <2>1, <2>2, <2>3 DEF TypeOK, configVars, clientVars
  <2>5. BoundInv'
    BY <2>1, <2>2 DEF TypeOK, BoundInv, Bound, Choosing, Chosen, configVars
  <2>6. NoDanglingPool'
    BY <2>2 DEF NoDanglingPool, TypeOK
  <2>7. \A d \in Clients : Targets(d)' = Targets(d)
    BY <2>2 DEF Targets, PoolOf, configVars
  <2>8. TargetOfPool'
    BY <2>1, <2>2, <2>7 DEF TargetOfPool, TypeOK
  <2>9. SharedProxy'
    <3> SUFFICES ASSUME NEW d \in Clients, pc'[d] = "proxying"
                 PROVE  proxy'[d] # None /\ proxy'[d] = proxies'[target'[d]]
      BY DEF SharedProxy
    <3>1. CASE d = c
      BY <3>1, <2>1, <2>2, <2>3
    <3>2. CASE d # c
      <4>1. pc[d] = "proxying" /\ proxy'[d] = proxy[d] /\ target'[d] = target[d] /\ target[d] \in Addresses
        BY <3>2, <2>2 DEF TypeOK
      <4>2. proxy[d] # None /\ proxy[d] = proxies[target[d]]
        BY <4>1 DEF SharedProxy
      <4> QED BY <4>1, <4>2, <2>3
    <3> QED BY <3>1, <3>2
  <2>10. CacheBoundedByConfigs'
    <3> SUFFICES ASSUME NEW a \in Addresses, proxies'[a] # None
                 PROVE  \E g \in 0 .. snapshot, p \in Pools :
                            \E i \in DOMAIN layout[g].targets[p] : layout[g].targets[p][i] = a
      BY <2>2 DEF CacheBoundedByConfigs, configVars
    <3>1. CASE a # target[c]
      BY <3>1, <2>3 DEF CacheBoundedByConfigs
    <3>2. CASE a = target[c]
      <4>1. gen[c] \in 0 .. snapshot /\ PoolOf(c) \in Pools
        BY <2>1, TargetsType DEF Chosen, BoundInv, Bound, TypeOK, Gens
      <4>2. \E i \in DOMAIN Targets(c) : target[c] = Targets(c)[i]
        BY <2>1 DEF TargetOfPool
      <4> QED BY <3>2, <4>1, <4>2 DEF Targets
    <3> QED BY <3>1, <3>2
  <2> QED BY <2>4, <2>5, <2>6, <2>8, <2>9, <2>10
<1>9. CASE Respond(c) \/ Fail(c)
  <2>1. Forget(c)
    BY <1>9 DEF Respond, Fail
  <2>2. jar' \in [Clients -> [Names -> Addresses \union {None}]]
    <3>1. CASE jar' = jar
      BY <3>1 DEF TypeOK
    <3>2. CASE CookieName[route[c]] # NoName /\ pc[c] = "proxying"
               /\ jar' = [jar EXCEPT ![c][CookieName[route[c]]] = target[c]]
      <4>1. route[c] \in Routes
        BY <3>2 DEF BoundInv, Bound
      <4>2. CookieName[route[c]] \in Names
        BY <3>2, <4>1, NamesAssumption
      <4> QED BY <3>2, <4>2 DEF TypeOK
    <3> QED BY <1>9, <3>1, <3>2 DEF Respond, Fail, clientVars
  <2>3. home' \in [Clients -> [Routes -> Addresses \union {None}]]
    <3>1. CASE home' = home
      BY <3>1 DEF TypeOK
    <3>2. CASE home' = [home EXCEPT ![c][route[c]] = target[c]] /\ pc[c] = "proxying"
      <4>1. route[c] \in Routes
        BY <3>2 DEF BoundInv, Bound
      <4> QED BY <3>2, <4>1 DEF TypeOK
    <3> QED BY <1>9, <3>1, <3>2 DEF Respond, Fail, clientVars
  <2>4. 0 \in Gens
    BY BoundsAssumption DEF Gens
  <2>5. TypeOK'
    BY <2>1, <2>2, <2>3, <2>4 DEF Forget, TypeOK, configVars
  <2>6. Local
    BY <2>1 DEF Forget, OthersKeep, configVars, TypeOK, BoundInv, Bound, Choosing, Chosen, Gens
  <2>7. pc'[c] = "idle"
    BY <2>1 DEF Forget, TypeOK
  <2> QED BY <2>5, <2>6, <2>7, LocalStep DEF Chosen
<1> QED BY <1>1, <1>2, <1>3, <1>4, <1>5, <1>6, <1>7, <1>8, <1>9 DEF Request

\* The network and the checkers.
LEMMA AroundIInv ==
    ASSUME IInv,
           \/ \E c \in Clients : ClearCookies(c)
           \/ \E l \in Layouts : Reload(l)
           \/ \E g \in Gens, p \in Pools :
                \E i \in DOMAIN layout[g].targets[p] : HealthChanges(g, p, i)
    PROVE  IInv'
<1> USE DEF IInv
<1>1. CASE \E c \in Clients : ClearCookies(c)
  <2> PICK c \in Clients : ClearCookies(c)
    BY <1>1
  <2>1. UNCHANGED <<snapshot, layout, sick, proxies, pc, route, gen, target, proxy, setCookie>>
    BY DEF ClearCookies, configVars, requestVars
  <2>2. jar' \in [Clients -> [Names -> Addresses \union {None}]]
    BY DEF ClearCookies, TypeOK
  <2>3. home' \in [Clients -> [Routes -> Addresses \union {None}]]
    BY DEF ClearCookies, TypeOK
  <2>4. TypeOK'
    BY <2>1, <2>2, <2>3 DEF TypeOK
  <2>5. BoundInv' /\ NoDanglingPool' /\ SharedProxy' /\ CacheBoundedByConfigs'
    BY <2>1 DEF BoundInv, Bound, NoDanglingPool, SharedProxy, CacheBoundedByConfigs
  <2>6. TargetOfPool'
    BY <2>1 DEF TargetOfPool, Targets, PoolOf
  <2> QED BY <2>4, <2>5, <2>6
<1>2. CASE \E l \in Layouts : Reload(l)
  <2> PICK l \in Layouts : Reload(l)
    BY <1>2
  <2>1. /\ UNCHANGED <<sick, proxies, pc, route, gen, target, proxy, setCookie, jar, home>>
        /\ snapshot' = snapshot + 1 /\ snapshot < MaxGen
        /\ layout' = [layout EXCEPT ![snapshot + 1] = l]
    BY DEF Reload, requestVars, clientVars
  <2>2. snapshot' \in Gens /\ snapshot \in Int /\ MaxGen \in Int
    BY <2>1, BoundsAssumption DEF Gens, TypeOK
  <2>3. layout' \in [Gens -> Layouts]
    BY <2>1 DEF TypeOK
  <2>4. TypeOK'
    BY <2>1, <2>2, <2>3 DEF TypeOK
  <2>5. \A g \in Gens : g <= snapshot => layout'[g] = layout[g]
    BY <2>1, <2>2 DEF TypeOK, Gens
  <2>6. \A c \in Clients : gen[c] \in Gens /\ gen[c] <= snapshot /\ layout'[gen[c]] = layout[gen[c]]
    BY <2>5 DEF BoundInv, Bound, TypeOK
  <2>7. BoundInv'
    BY <2>1, <2>2, <2>6 DEF BoundInv, Bound, TypeOK, Gens
  <2>8. \A c \in Clients : Targets(c)' = Targets(c)
    BY <2>1, <2>6 DEF Targets, PoolOf
  <2>9. TargetOfPool'
    BY <2>1, <2>8 DEF TargetOfPool
  <2>10. NoDanglingPool' /\ SharedProxy'
    BY <2>1 DEF NoDanglingPool, SharedProxy
  <2>11. CacheBoundedByConfigs'
    <3> SUFFICES ASSUME NEW a \in Addresses, proxies[a] # None
                 PROVE  \E g \in 0 .. snapshot', p \in Pools :
                            \E i \in DOMAIN layout'[g].targets[p] : layout'[g].targets[p][i] = a
      BY <2>1 DEF CacheBoundedByConfigs
    <3>1. PICK g \in 0 .. snapshot, p \in Pools :
               \E i \in DOMAIN layout[g].targets[p] : layout[g].targets[p][i] = a
      BY DEF CacheBoundedByConfigs
    <3>2. g \in Gens /\ g \in 0 .. snapshot' /\ layout'[g] = layout[g]
      BY <2>1, <2>2, <2>5 DEF Gens
    <3> QED BY <3>1, <3>2
  <2> QED BY <2>4, <2>7, <2>9, <2>10, <2>11
<1>3. ASSUME NEW g \in Gens, NEW p \in Pools, NEW i \in DOMAIN layout[g].targets[p],
             HealthChanges(g, p, i)
      PROVE  IInv'
  <2>1. UNCHANGED <<snapshot, layout, proxies, pc, route, gen, target, proxy, setCookie, jar, home>>
    BY <1>3 DEF HealthChanges, configVars, requestVars, clientVars
  <2>2. i \in Nat
    <3>1. layout[g].targets[p] \in Seq(Addresses)
      BY LayoutsAssumption DEF TypeOK, Layout
    <3> QED BY <3>1
  <2>3. sick' \in [Gens -> [Pools -> SUBSET Nat]]
    <3> DEFINE s == IF i \in sick[g][p] THEN sick[g][p] \ {i} ELSE sick[g][p] \union {i}
    <3>1. sick' = [sick EXCEPT ![g] = [sick[g] EXCEPT ![p] = s]]
      BY <1>3 DEF HealthChanges
    <3>2. sick[g] \in [Pools -> SUBSET Nat] /\ s \in SUBSET Nat
      BY <2>2 DEF TypeOK
    <3>3. [sick[g] EXCEPT ![p] = s] \in [Pools -> SUBSET Nat]
      BY <3>2
    <3> QED BY <3>1, <3>3 DEF TypeOK
  <2>4. TypeOK'
    BY <2>1, <2>3 DEF TypeOK
  <2>5. BoundInv' /\ NoDanglingPool' /\ SharedProxy' /\ CacheBoundedByConfigs'
    BY <2>1 DEF BoundInv, Bound, NoDanglingPool, SharedProxy, CacheBoundedByConfigs
  <2>6. TargetOfPool'
    BY <2>1 DEF TargetOfPool, Targets, PoolOf
  <2> QED BY <2>4, <2>5, <2>6
<1> QED BY <1>1, <1>2, <1>3

LEMMA NextIInv == IInv /\ [Next]_vars => IInv'
<1> SUFFICES ASSUME IInv, [Next]_vars PROVE IInv'
  OBVIOUS
<1>1. CASE \E c \in Clients : Request(c)
  BY <1>1, RequestIInv
<1>2. CASE \/ \E c \in Clients : ClearCookies(c)
           \/ \E l \in Layouts : Reload(l)
           \/ \E g \in Gens, p \in Pools :
                \E i \in DOMAIN layout[g].targets[p] : HealthChanges(g, p, i)
  BY <1>2, AroundIInv
<1>3. CASE UNCHANGED vars
  <2>1. UNCHANGED <<snapshot, layout, sick, proxies, pc, route, gen, target, proxy, setCookie, jar, home>>
    BY <1>3 DEF vars, configVars, requestVars, clientVars
  <2>2. TypeOK' /\ BoundInv' /\ NoDanglingPool' /\ SharedProxy' /\ CacheBoundedByConfigs'
    BY <2>1 DEF IInv, TypeOK, BoundInv, Bound, NoDanglingPool, SharedProxy, CacheBoundedByConfigs
  <2>3. TargetOfPool'
    BY <2>1 DEF IInv, TargetOfPool, Targets, PoolOf
  <2> QED BY <2>2, <2>3 DEF IInv
<1> QED BY <1>1, <1>2, <1>3 DEF Next

LEMMA Invariance == Spec => []IInv
BY InitIInv, NextIInv, PTL DEF Spec

\* Every variable keeps its type, and a request that has selected a target has one.
THEOREM TypeCorrect == Spec => []TypeOK
BY Invariance, PTL DEF IInv

\* A reload between matching and looking up the pool leaves no reference open.
THEOREM PoolIsThere == Spec => []NoDanglingPool
BY Invariance, PTL DEF IInv

\* The address a request goes to is one of the pool it resolved.
THEOREM TargetIsConfigured == Spec => []TargetOfPool
BY Invariance, PTL DEF IInv

\* Route, pool and target of a request are those of one snapshot.
THEOREM OneSnapshotPerRequest == Spec => []ServedFromOneSnapshot
<1>1. NoDanglingPool /\ TargetOfPool => ServedFromOneSnapshot
  BY DEF ServedFromOneSnapshot
<1> QED BY <1>1, PoolIsThere, TargetIsConfigured, PTL

\* All requests that proxy to an address use the one cached value.
THEOREM OneProxyPerAddress == Spec => []SharedProxy
BY Invariance, PTL DEF IInv

\* Clients cannot make the cache grow.
THEOREM CacheIsBounded == Spec => []CacheBoundedByConfigs
BY Invariance, PTL DEF IInv

(***************************************************************************)
(* Sticky routes                                                           *)
(***************************************************************************)

LEMMA InitCookie == Init => CookieInv
BY DEF Init, CookieInv, HomeInv, UsedCookie, Chosen

\* The answer, with or without a new cookie, leaves the cookie of its route at the
\* target it came from, and the cookies of other routes alone.
LEMMA RespondCookie ==
    ASSUME IInv, CookiesDiffer, CookieInv, NEW c \in Clients, Respond(c)
    PROVE  HomeInv'
<1> DEFINE n == CookieName[route[c]]
<1>1. TypeOK
  BY DEF IInv
<1>2. pc[c] = "proxying" /\ route[c] \in Routes
  BY DEF Respond, IInv, BoundInv, Bound
<1>3. n # NoName /\ n \in Names
  BY <1>2, NamesAssumption DEF CookiesDiffer
<1>4. \A d \in Clients \ {c} : jar'[d] = jar[d] /\ home'[d] = home[d]
  BY <1>1, <1>2, <1>3 DEF Respond, TypeOK
<1>5. ASSUME NEW r \in Routes, r # route[c]
      PROVE  home'[c][r] = home[c][r] /\ jar'[c][CookieName[r]] = jar[c][CookieName[r]]
  <2>1. CookieName[r] # n
    BY <1>2, <1>5 DEF CookiesDiffer
  <2>2. home'[c][r] = home[c][r]
    BY <1>1, <1>2, <1>5 DEF Respond, TypeOK
  <2>3. jar'[c][CookieName[r]] = jar[c][CookieName[r]]
    BY <1>1, <1>3, <2>1 DEF Respond, TypeOK
  <2> QED BY <2>2, <2>3
<1>6. home'[c][route[c]] # None => jar'[c][n] = home'[c][route[c]]
  <2>1. CASE c \notin Browsers
    <3>1. jar' = jar /\ home' = home
      BY <2>1 DEF Respond
    <3> QED BY <1>2, <3>1 DEF CookieInv, HomeInv
  <2>2. CASE c \in Browsers /\ IsSticky(c)
    <3>1. home'[c][route[c]] = target[c]
      BY <1>1, <1>2, <2>2 DEF Respond, TypeOK
    <3>2. CASE setCookie[c]
      BY <1>1, <1>3, <2>2, <3>1, <3>2 DEF Respond, TypeOK
    <3>3. CASE ~setCookie[c]
      <4>1. jar' = jar
        BY <3>3 DEF Respond
      <4> QED BY <1>2, <2>2, <3>1, <3>3, <4>1 DEF CookieInv, UsedCookie, Chosen
    <3> QED BY <3>2, <3>3
  <2>3. CASE ~IsSticky(c)
    <3>1. home' = home
      BY <2>3 DEF Respond
    <3>2. jar' = jar
      BY <2>3 DEF Respond, CookieInv, UsedCookie
    <3> QED BY <1>2, <3>1, <3>2 DEF CookieInv, HomeInv
  <2> QED BY <2>1, <2>2, <2>3
<1> QED BY <1>4, <1>5, <1>6 DEF CookieInv, HomeInv

LEMMA UsedCookieStep ==
    ASSUME IInv, CookiesDiffer, CookieInv, NEW c \in Clients, Request(c)
    PROVE  UsedCookie(c)'
<1>1. TypeOK /\ BoundInv /\ UsedCookie(c)
  BY DEF IInv, CookieInv
<1>2. CASE \/ \E r \in Routes : Send(c, r)
           \/ ResolveRoute(c) \/ ResolvePool(c) \/ NoHealthyTarget(c)
  <2>1. pc'[c] \notin Chosen /\ setCookie' = setCookie
    BY <1>1, <1>2 DEF Send, ResolveRoute, ResolvePool, NoHealthyTarget, TypeOK, Chosen
  <2>2. pc[c] \notin Chosen
    BY <1>2 DEF Send, ResolveRoute, ResolvePool, NoHealthyTarget, Chosen
  <2> QED BY <1>1, <2>1, <2>2 DEF UsedCookie
<1>3. CASE StickyCookieTarget(c)
  <2>1. pc[c] = "resolved" /\ ~setCookie[c] /\ route[c] \in Routes
    BY <1>1, <1>3 DEF StickyCookieTarget, UsedCookie, Chosen, BoundInv, Bound
  <2>2. setCookie' = setCookie /\ jar' = jar /\ route' = route
    BY <1>3 DEF StickyCookieTarget, clientVars
  <2>3. CASE pc'[c] \notin Chosen
    BY <2>1, <2>2, <2>3 DEF UsedCookie
  <2>4. CASE pc'[c] \in Chosen
    <3>1. target' = [target EXCEPT ![c] = Cookie(c)]
      BY <1>1, <1>3, <2>4 DEF StickyCookieTarget, TypeOK, Chosen
    <3>2. target'[c] = jar[c][CookieName[route[c]]]
      BY <1>1, <2>1, <3>1 DEF Cookie, CookiesDiffer, TypeOK
    <3> QED BY <2>1, <2>2, <3>2 DEF UsedCookie
  <2> QED BY <2>3, <2>4
<1>4. CASE NextTarget(c)
  <2>1. pc'[c] = "selected" /\ setCookie'[c] = IsSticky(c) /\ IsSticky(c)' = IsSticky(c)
    BY <1>1, <1>4 DEF NextTarget, TypeOK, IsSticky, configVars
  <2> QED BY <2>1 DEF UsedCookie, Chosen
<1>5. CASE CachedProxy(c) \/ StoreProxy(c)
  <2>1. /\ pc[c] \in Chosen /\ pc'[c] \in Chosen
        /\ UNCHANGED <<layout, route, gen, target, setCookie, jar>>
    BY <1>1, <1>5 DEF CachedProxy, StoreProxy, TypeOK, Chosen, configVars, clientVars
  <2> QED BY <1>1, <2>1 DEF UsedCookie, IsSticky
<1>6. CASE Respond(c) \/ Fail(c)
  <2>1. pc'[c] = "idle" /\ ~setCookie'[c]
    BY <1>1, <1>6 DEF Respond, Fail, Forget, TypeOK
  <2> QED BY <2>1 DEF UsedCookie, Chosen
<1> QED BY <1>2, <1>3, <1>4, <1>5, <1>6 DEF Request

\* A step of one client changes nothing that UsedCookie says of another.
LEMMA UsedCookieOfOthers ==
    ASSUME IInv, CookieInv, NEW c \in Clients, Request(c) \/ ClearCookies(c),
           NEW d \in Clients, d # c
    PROVE  UsedCookie(d)'
<1>1. TypeOK /\ UsedCookie(d)
  BY DEF IInv, CookieInv
<1>2. layout' = layout /\ route'[d] = route[d] /\ gen'[d] = gen[d]
  BY <1>1 DEF TypeOK, Request, Send, ResolveRoute, ResolvePool, StickyCookieTarget, NextTarget,
     NoHealthyTarget, CachedProxy, StoreProxy, Respond, Fail, Forget, ClearCookies, configVars, requestVars
<1>3. pc'[d] = pc[d] /\ setCookie'[d] = setCookie[d]
  BY <1>1 DEF TypeOK, Request, Send, ResolveRoute, ResolvePool, StickyCookieTarget, NextTarget,
     NoHealthyTarget, CachedProxy, StoreProxy, Respond, Fail, Forget, ClearCookies, configVars, requestVars
<1>4. target'[d] = target[d]
  BY <1>1 DEF TypeOK, Request, Send, ResolveRoute, ResolvePool, StickyCookieTarget, NextTarget,
     NoHealthyTarget, CachedProxy, StoreProxy, Respond, Fail, Forget, ClearCookies, configVars, requestVars
<1>5. jar'[d] = jar[d]
  BY <1>1 DEF TypeOK, Request, Send, ResolveRoute, ResolvePool, StickyCookieTarget, NextTarget,
     NoHealthyTarget, CachedProxy, StoreProxy, Respond, Fail, ClearCookies, clientVars
<1> QED BY <1>1, <1>2, <1>3, <1>4, <1>5 DEF UsedCookie, IsSticky

LEMMA NextCookie ==
    ASSUME IInv, CookiesDiffer, CookieInv, [Next]_vars
    PROVE  CookieInv'
<1>1. TypeOK /\ BoundInv /\ HomeInv /\ \A c \in Clients : UsedCookie(c)
  BY DEF IInv, CookieInv
<1>2. ASSUME NEW c \in Clients, Request(c) PROVE CookieInv'
  <2>1. HomeInv'
    <3>1. CASE Respond(c)
      BY <3>1, RespondCookie
    <3>2. CASE ~Respond(c)
      <4>1. UNCHANGED clientVars
        BY <1>2, <3>2 DEF Request, Send, ResolveRoute, ResolvePool, StickyCookieTarget, NextTarget,
           NoHealthyTarget, CachedProxy, StoreProxy, Fail
      <4> QED BY <1>1, <4>1 DEF HomeInv, clientVars
    <3> QED BY <3>1, <3>2
  <2> QED BY <1>2, <2>1, UsedCookieStep, UsedCookieOfOthers DEF CookieInv
<1>3. ASSUME NEW c \in Clients, ClearCookies(c) PROVE CookieInv'
  <2>1. HomeInv'
    BY <1>1, <1>3 DEF ClearCookies, HomeInv, TypeOK
  <2>2. pc[c] \notin Chosen /\ UNCHANGED <<pc, setCookie>>
    BY <1>3 DEF ClearCookies, requestVars, Chosen
  <2>3. UsedCookie(c)'
    BY <1>1, <2>2 DEF UsedCookie
  <2> QED BY <1>3, <2>1, <2>3, UsedCookieOfOthers DEF CookieInv
<1>4. ASSUME NEW l \in Layouts, Reload(l) PROVE CookieInv'
  <2>1. /\ UNCHANGED <<pc, route, gen, target, setCookie, jar, home>>
        /\ layout' = [layout EXCEPT ![snapshot + 1] = l]
    BY <1>4 DEF Reload, requestVars, clientVars
  <2>2. \A c \in Clients : layout'[gen[c]] = layout[gen[c]]
    BY <1>1, <2>1 DEF TypeOK, BoundInv, Bound, Gens
  <2> QED BY <1>1, <2>1, <2>2 DEF CookieInv, HomeInv, UsedCookie, IsSticky
<1>5. CASE UNCHANGED <<configVars, requestVars, clientVars>>
  BY <1>1, <1>5 DEF CookieInv, HomeInv, UsedCookie, IsSticky, configVars, requestVars, clientVars
<1>6. ASSUME NEW g \in Gens, NEW p \in Pools, NEW i \in DOMAIN layout[g].targets[p],
             HealthChanges(g, p, i)
      PROVE  CookieInv'
  BY <1>5, <1>6 DEF HealthChanges
<1> QED BY <1>2, <1>3, <1>4, <1>5, <1>6 DEF Next, vars

\* A cookie that names a target all of whose places in the pool are healthy is used.
LEMMA CookieIsUsed ==
    ASSUME IInv, NEW c \in Clients, StickyCookieTarget(c),
           NEW i \in DOMAIN Targets(c), Targets(c)[i] = Cookie(c),
           {j \in DOMAIN Targets(c) : Targets(c)[j] = Cookie(c)} \subseteq Healthy(c)
    PROVE  target'[c] = Cookie(c)
<1> DEFINE places == {j \in DOMAIN Targets(c) : Targets(c)[j] = Cookie(c)}
<1>1. pc[c] = "resolved" /\ TypeOK /\ BoundInv
  BY DEF StickyCookieTarget, IInv
<1>2. Targets(c) \in Seq(Addresses)
  BY <1>1, TargetsType DEF Choosing
<1>3. places \subseteq Nat /\ places # {}
  BY <1>2
<1>4. PICK m \in places : \A k \in places : m <= k
  BY <1>3, LeastNumber
<1>5. \A j \in 1 .. m - 1 : Targets(c)[j] # Cookie(c)
  BY <1>2, <1>4
<1>6. m \in CookieIndex(c) \intersect Healthy(c)
  BY <1>4, <1>5 DEF CookieIndex
<1>7. target' = [target EXCEPT ![c] = Cookie(c)]
  BY <1>6 DEF StickyCookieTarget
<1> QED BY <1>1, <1>7 DEF TypeOK

LEMMA StickyStep ==
    ASSUME IInv, CookiesDiffer, CookieInv, [Next]_vars, NEW c \in Clients,
           pc[c] = "resolved", pc'[c] \in Choosing \union Chosen, pc'[c] # pc[c], IsSticky(c)
    PROVE  StickyCookieTarget(c)
<1>1. TypeOK
  BY DEF IInv
<1>2. PICK d \in Clients : Request(d)
  BY DEF Next, vars, ClearCookies, Reload, HealthChanges, requestVars
<1>3. d = c
  BY <1>1, <1>2 DEF TypeOK, Request, Send, ResolveRoute, ResolvePool, StickyCookieTarget, NextTarget,
     NoHealthyTarget, CachedProxy, StoreProxy, Respond, Fail, Forget
<1> QED BY <1>1, <1>2, <1>3 DEF TypeOK, Request, Send, ResolveRoute, ResolvePool, NextTarget,
     NoHealthyTarget, CachedProxy, StoreProxy, Respond, Fail

\* Where every sticky route has a cookie of its own, a client stays with its target
\* as long as that is in the pool and healthy.
THEOREM StickySessions ==
    ASSUME CookiesDiffer
    PROVE  Spec => StickyWhileHealthy
<1> DEFINE Step(c) ==
      LET last == home[c][route[c]]
          places == {i \in DOMAIN Targets(c) : Targets(c)[i] = last}
      IN  (pc[c] = "resolved" /\ pc'[c] \in {"selected", "next"} /\ IsSticky(c)
             /\ places # {} /\ places \subseteq Healthy(c))
            => target'[c] = last
<1>1. ASSUME IInv, CookieInv, [Next]_vars, NEW c \in Clients
      PROVE  Step(c)
  <2> DEFINE last == home[c][route[c]]
             places == {i \in DOMAIN Targets(c) : Targets(c)[i] = last}
  <2> SUFFICES ASSUME pc[c] = "resolved", pc'[c] \in {"selected", "next"}, IsSticky(c),
                      places # {}, places \subseteq Healthy(c)
               PROVE  target'[c] = last
    OBVIOUS
  <2>1. StickyCookieTarget(c)
    BY <1>1, StickyStep DEF Choosing, Chosen
  <2>2. PICK i \in DOMAIN Targets(c) : Targets(c)[i] = last
    OBVIOUS
  <2>3. route[c] \in Routes /\ last \in Addresses
    BY <1>1, <2>2, TargetsType DEF IInv, Choosing
  <2>4. Cookie(c) = last
    BY <1>1, <2>3, TokensAssumption DEF CookieInv, HomeInv, CookiesDiffer, Cookie
  <2> QED BY <1>1, <2>1, <2>2, <2>4, CookieIsUsed
<1>2. IInv /\ CookieInv /\ [Next]_vars => [\A c \in Clients : Step(c)]_vars
  BY <1>1
<1>3. IInv /\ CookieInv /\ [Next]_vars => CookieInv'
  BY NextCookie
<1>4. Spec => []CookieInv
  BY <1>3, InitCookie, Invariance, PTL DEF Spec
<1> QED BY <1>2, <1>4, Invariance, PTL DEF Spec, StickyWhileHealthy
=============================================================================
