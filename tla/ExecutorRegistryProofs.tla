----------------------- MODULE ExecutorRegistryProofs -----------------------
(***************************************************************************)
(* Routing is well defined for every set of providers, accounts and        *)
(* Actions: proofs about ExecutorRegistry.                                 *)
(***************************************************************************)
EXTENDS ExecutorRegistry, FiniteSetTheorems, SequenceTheorems, TLAPS

(* A capability as it is after construction.                               *)
Capability ==
  {c \in RawCapability : /\ c.provider = Plain(c.provider.word)
                         /\ c.provider.word \in Words}

(* A registration carries the route it is stored under.                    *)
OwnRoute(key, reg) ==
  /\ reg.capability \in Capability
  /\ reg.executor \in Executors
  /\ reg.account_context \in RawAccount \cup {Absent}
  /\ route_key(reg.capability, reg.account_context) = key

RoutesFit ==
  /\ IsFiniteSet(DOMAIN registrations)
  /\ \A key \in DOMAIN registrations : OwnRoute(key, registrations[key])

-----------------------------------------------------------------------------
(* Construction and normalisation.                                         *)
LEMMA ConstructTypes ==
  ASSUME NEW o \in Offers, CanOffer(o)
  PROVE  /\ Len(o.capabilities) \in Nat
         /\ DOMAIN Construct(o) = 1..Len(o.capabilities)
         /\ Len(Construct(o)) = Len(o.capabilities)
         /\ \A i \in 1..Len(o.capabilities) : Construct(o)[i] \in Capability
         /\ o.executor \in Executors
         /\ _normalize_account_context(o.account_context) \in RawAccount \cup {Absent}
<1>1. /\ o.capabilities \in Seq(RawCapability) /\ o.executor \in Executors
      /\ o.account_context \in RawAccount \cup {Absent}
  BY RegistryConstants
<1>2. /\ Len(o.capabilities) \in Nat
      /\ \A i \in 1..Len(o.capabilities) : o.capabilities[i] \in RawCapability
  BY <1>1
<1>3. ASSUME NEW raw \in RawCapability, CanConstruct(raw)
      PROVE  WorkerCapability(raw) \in Capability
  <2>1. /\ raw.identifier \in Text /\ raw.role \in Text /\ raw.provider \in Text
        /\ raw.provider.word \in Words
    BY <1>3 DEF RawCapability, CanConstruct, empty, Text
  <2>2. fold(raw.identifier) \in Text /\ strip(raw.role) \in Text /\ fold(raw.provider) \in Text
    BY <2>1 DEF fold, strip, Plain, Text
  <2>3. fold(raw.provider) = Plain(raw.provider.word) /\ fold(raw.provider).word = raw.provider.word
    BY DEF fold, Plain
  <2> QED BY <2>1, <2>2, <2>3 DEF WorkerCapability, Capability, RawCapability
<1>4. \A i \in 1..Len(o.capabilities) : Construct(o)[i] \in Capability
  BY <1>2, <1>3 DEF CanOffer, Construct
<1>5. Len(Construct(o)) = Len(o.capabilities)
  <2>1. Construct(o) \in [1..Len(o.capabilities) -> Capability]
    BY <1>4 DEF Construct
  <2>2. Construct(o) \in Seq(Capability)
    BY <1>2, <2>1, SeqDef
  <2>3. /\ DOMAIN Construct(o) = 1..Len(Construct(o)) /\ Len(Construct(o)) \in Nat
        /\ DOMAIN Construct(o) = 1..Len(o.capabilities)
    BY <2>1, <2>2, LenProperties
  <2> QED BY <1>2, <2>3
<1>6. _normalize_account_context(o.account_context) \in RawAccount \cup {Absent}
  <2>1. ASSUME NEW account \in RawAccount
        PROVE  _normalize_account_context(account) \in RawAccount \cup {Absent}
    <3>1. /\ account.account_identifier \in Text /\ account.principal \in Text \cup {Absent}
          /\ \A x \in Text : strip(x) \in Text
      BY DEF RawAccount, strip, Plain, Text
    <3> QED BY <3>1 DEF _normalize_account_context, RawAccount
  <2> QED BY <1>1, <2>1 DEF _normalize_account_context
<1> QED BY <1>1, <1>2, <1>4, <1>5, <1>6 DEF Construct

(* An offer adds its own routes and leaves every other one alone.          *)
LEMMA OfferRegisters ==
  ASSUME RoutesFit, NEW o \in Offers, CanOffer(o), Perform(o)
  PROVE  /\ RoutesFit'
         /\ \A key \in DOMAIN registrations :
              key \in DOMAIN registrations' /\ registrations'[key] = registrations[key]
         /\ \A key \in DOMAIN registrations' \ DOMAIN registrations :
              registrations'[key].executor = o.executor
<1>1. PICK caps : caps = Construct(o)
  OBVIOUS
<1>2. PICK account : account = _normalize_account_context(o.account_context)
  OBVIOUS
<1>3. PICK taken : taken = Accepted(registrations, caps, account)
  OBVIOUS
<1>4. /\ DOMAIN registrations' = DOMAIN registrations \cup {route_key(caps[i], account) : i \in taken}
      /\ \A key \in DOMAIN registrations : registrations'[key] = registrations[key]
      /\ \A key \in DOMAIN registrations' \ DOMAIN registrations : \E i \in taken :
           /\ key = route_key(caps[i], account)
           /\ registrations'[key] = Registration(caps[i], o.executor, account)
  <2>1. PICK new : new = registrations'
    OBVIOUS
  <2>2. new = register_capabilities(registrations, caps, o.executor, account)
    BY <1>1, <1>2, <2>1 DEF Perform
  <2>3. /\ DOMAIN new = DOMAIN registrations \cup {route_key(caps[i], account) : i \in taken}
        /\ \A key \in DOMAIN registrations : new[key] = registrations[key]
        /\ \A key \in DOMAIN new \ DOMAIN registrations : \E i \in taken :
             /\ key = route_key(caps[i], account)
             /\ new[key] = Registration(caps[i], o.executor, account)
    BY ONLY <1>3, <2>2 DEF register_capabilities
  <2> QED BY <2>1, <2>3
<1>5. /\ Len(caps) \in Nat /\ \A i \in 1..Len(caps) : caps[i] \in Capability
      /\ o.executor \in Executors /\ account \in RawAccount \cup {Absent}
  BY <1>1, <1>2, ConstructTypes
<1>6. taken \subseteq 1..Len(caps)
  BY <1>3 DEF Accepted
<1>7. IsFiniteSet(DOMAIN registrations')
  <2>1. IsFiniteSet(taken)
    <3>1. IsFiniteSet(1..Len(caps))
      BY <1>5, FS_Interval
    <3> QED BY ONLY <1>6, <3>1, FS_Subset
  <2>2. PICK T : T = {route_key(caps[i], account) : i \in taken}
    OBVIOUS
  <2>3. PICK f : f = [i \in taken |-> route_key(caps[i], account)]
    OBVIOUS
  <2>4. f \in [taken -> T] /\ \A x \in T : \E i \in taken : f[i] = x
    BY <2>2, <2>3
  <2>5. f \in Surjection(taken, T)
    BY <2>4 DEF Surjection
  <2>6. IsFiniteSet(T)
    BY ONLY <2>1, <2>5, FS_Surjection
  <2>7. IsFiniteSet(DOMAIN registrations)
    BY DEF RoutesFit
  <2>8. IsFiniteSet((DOMAIN registrations) \cup T)
    BY ONLY <2>6, <2>7, FS_Union
  <2> QED BY <1>4, <2>2, <2>8
<1>8. ASSUME NEW key \in DOMAIN registrations' PROVE OwnRoute(key, registrations'[key])
  <2>1. CASE key \in DOMAIN registrations
    BY <1>4, <2>1 DEF RoutesFit
  <2>2. CASE key \notin DOMAIN registrations
    <3>1. PICK i \in taken : /\ key = route_key(caps[i], account)
                             /\ registrations'[key] = Registration(caps[i], o.executor, account)
      BY <1>4, <1>8, <2>2
    <3> QED BY <1>5, <1>6, <3>1 DEF OwnRoute, Registration
  <2> QED BY <2>1, <2>2
<1>9. ASSUME NEW key \in DOMAIN registrations' \ DOMAIN registrations
      PROVE  registrations'[key].executor = o.executor
  <2>1. PICK i \in taken : registrations'[key] = Registration(caps[i], o.executor, account)
    BY <1>4, <1>9
  <2> QED BY <2>1 DEF Registration
<1> QED BY <1>4, <1>7, <1>8, <1>9 DEF RoutesFit

(* Every registration fits its route, and no step replaces one.            *)
LEMMA StepRegisters ==
  ASSUME RoutesFit, [Next]_vars
  PROVE  /\ RoutesFit'
         /\ \A key \in DOMAIN registrations :
              key \in DOMAIN registrations' /\ registrations'[key] = registrations[key]
<1>1. ASSUME NEW o \in Offers, RegisterCapabilities(o) \/ register_manifest(o)
      PROVE  CanOffer(o) /\ Perform(o)
  BY <1>1 DEF RegisterCapabilities, register_manifest
<1>2. CASE Next
  BY <1>1, <1>2, OfferRegisters DEF Next
<1>3. CASE UNCHANGED vars
  BY <1>3 DEF vars, RoutesFit
<1> QED BY <1>2, <1>3

(* The empty registry.                                                     *)
LEMMA InitFits == Init => RoutesFit
<1> SUFFICES ASSUME Init PROVE RoutesFit
  OBVIOUS
<1>1. DOMAIN registrations = {}
  BY DEF Init
<1> QED BY <1>1, FS_EmptySet DEF RoutesFit

(* Registrations are typed and stored under their own routes.              *)
THEOREM RoutesAreOwn == Spec => []RoutesFit
<1>1. Init => RoutesFit
  BY InitFits
<1>2. RoutesFit /\ [Next]_vars => RoutesFit'
  BY StepRegisters
<1> QED BY <1>1, <1>2, PTL DEF Spec

-----------------------------------------------------------------------------
(* A named provider leaves at most one route: role, capability, provider   *)
(* and account are the whole key.                                          *)
LEMMA NamedRouteUnique ==
  ASSUME NEW regs, \A key \in DOMAIN regs : OwnRoute(key, regs[key]),
         NEW r, _provider_for_action(r) # Absent,
         NEW k \in _matching_capability_routes(regs, r)
  PROVE  _matching_capability_routes(regs, r) = {k}
<1>1. ASSUME NEW l \in _matching_capability_routes(regs, r) PROVE l = k
  <2>1. /\ route_key(regs[k].capability, regs[k].account_context) = k
        /\ route_key(regs[l].capability, regs[l].account_context) = l
    BY DEF _matching_capability_routes, OwnRoute
  <2>2. /\ regs[k].capability.role = regs[l].capability.role
        /\ regs[k].capability.identifier = regs[l].capability.identifier
        /\ regs[k].capability.provider = regs[l].capability.provider
        /\ regs[k].account_context = regs[l].account_context
    BY DEF _matching_capability_routes, Serves
  <2> QED BY <2>1, <2>2 DEF route_key
<1> QED BY <1>1

(* The answer for an Action with one matching route.                       *)
LEMMA OneRoute ==
  ASSUME NEW regs, NEW r, NEW k, _matching_capability_routes(regs, r) = {k}
  PROVE  _resolve_capability_route(regs, r) =
           [executor |-> regs[k].executor, reason |-> "capability_route",
            account_context |-> regs[k].account_context]
<1>1. Cardinality({k}) = 1
  BY FS_Singleton
<1>2. (CHOOSE key \in {k} : TRUE) = k
  OBVIOUS
<1> QED BY <1>1, <1>2 DEF _resolve_capability_route

(* The refusals that precede the lookup of a route.                        *)
Refused(r) ==
  \/ empty(r.role) \/ blank(r, "capability") \/ blank(r, "capability_provider")
  \/ present(r, "account_context") /\ _account_context_for_action(r) = Absent

(* An Action is routed when it is not refused and has one route, and is    *)
(* ambiguous when it has several.                                          *)
LEMMA RouteOrRefusal ==
  ASSUME NEW regs, NEW r
  PROVE  /\ Refused(r) => resolve_with_registration(regs, r).reason
                            \notin {"capability_route", "ambiguous_capability_route"}
         /\ ~Refused(r) => resolve_with_registration(regs, r) =
                            _resolve_capability_route(regs, r)
         /\ _matching_capability_routes(regs, r) = {} =>
              resolve_with_registration(regs, r).reason
                \notin {"capability_route", "ambiguous_capability_route"}
<1>1. /\ Refused(r) => resolve_with_registration(regs, r).reason
                        \notin {"capability_route", "ambiguous_capability_route"}
      /\ ~Refused(r) => resolve_with_registration(regs, r) =
                         _resolve_capability_route(regs, r)
  BY DEF Refused, resolve_with_registration, Fallback
<1>2. Cardinality({}) # 1
  BY FS_EmptySet
<1>3. _matching_capability_routes(regs, r) = {} =>
        _resolve_capability_route(regs, r).reason
          \notin {"capability_route", "ambiguous_capability_route"}
  BY <1>2 DEF _resolve_capability_route, Fallback
<1> QED BY <1>1, <1>3

(* An Action that names its provider is never ambiguous.                   *)
THEOREM NamedIsUnambiguous == Spec => []ExplicitRouteUnique
<1>1. ASSUME RoutesFit, NEW r \in Requests, _provider_for_action(r) # Absent
      PROVE  resolve_with_registration(registrations, r).reason # "ambiguous_capability_route"
  <2>1. CASE Refused(r) \/ _matching_capability_routes(registrations, r) = {}
    BY <2>1, RouteOrRefusal
  <2>2. CASE ~Refused(r) /\ _matching_capability_routes(registrations, r) # {}
    <3>1. PICK k : _matching_capability_routes(registrations, r) = {k}
      BY <1>1, <2>2, NamedRouteUnique DEF RoutesFit
    <3>2. resolve_with_registration(registrations, r) =
            [executor |-> registrations[k].executor, reason |-> "capability_route",
             account_context |-> registrations[k].account_context]
      BY <2>2, <3>1, OneRoute, RouteOrRefusal
    <3> QED BY <3>2
  <2> QED BY <2>1, <2>2
<1>2. RoutesFit => ExplicitRouteUnique
  BY <1>1 DEF ExplicitRouteUnique
<1> QED BY <1>2, RoutesAreOwn, PTL

(* Registering more providers never moves the route of an Action that      *)
(* names its provider.                                                     *)
THEOREM NamedIsStable == Spec => NamedRouteIsStable
<1>1. ASSUME RoutesFit, [Next]_vars, NEW r \in Requests,
             _provider_for_action(r) # Absent, Resolved(registrations, r)
      PROVE  resolve_with_registration(registrations', r) =
             resolve_with_registration(registrations, r)
  <2>1. ~Refused(r) /\ _matching_capability_routes(registrations, r) # {}
    BY <1>1, RouteOrRefusal DEF Resolved
  <2>2. PICK new : new = registrations'
    OBVIOUS
  <2>3. /\ \A key \in DOMAIN new : OwnRoute(key, new[key])
        /\ \A key \in DOMAIN registrations :
             key \in DOMAIN new /\ new[key] = registrations[key]
    BY <1>1, <2>2, StepRegisters DEF RoutesFit
  <2>4. PICK k \in DOMAIN registrations : _matching_capability_routes(registrations, r) = {k}
    <3>1. PICK k \in _matching_capability_routes(registrations, r) : TRUE
      BY <2>1
    <3> QED BY <1>1, <3>1, NamedRouteUnique DEF RoutesFit, _matching_capability_routes
  <2>5. k \in _matching_capability_routes(new, r)
    BY <2>3, <2>4 DEF _matching_capability_routes
  <2>6. _matching_capability_routes(new, r) = {k}
    BY <1>1, <2>3, <2>5, NamedRouteUnique
  <2>7. _resolve_capability_route(new, r) = _resolve_capability_route(registrations, r)
    BY <2>3, <2>4, <2>6, OneRoute
  <2> QED BY <2>1, <2>2, <2>7, RouteOrRefusal
<1>2. RoutesFit /\ [Next]_vars =>
        [\A r \in Requests :
           _provider_for_action(r) # Absent /\ Resolved(registrations, r) =>
             resolve_with_registration(registrations', r) =
             resolve_with_registration(registrations, r)]_vars
  BY <1>1
<1> QED BY <1>2, RoutesAreOwn, PTL DEF Spec, NamedRouteIsStable

-----------------------------------------------------------------------------
(* Every provider object is offered once.                                  *)
OwnExecutors == \A o, p \in Offers : o.executor = p.executor => o = p

(* A manifest that is accepted is registered to its last capability.       *)
LEMMA ManifestRegisters ==
  ASSUME RoutesFit, NEW o \in Offers, register_manifest(o)
  PROVE  \A key \in RoutesOf(o) : key \in DOMAIN registrations' \ DOMAIN registrations
<1>1. PICK caps : caps = Construct(o)
  OBVIOUS
<1>2. PICK account : account = _normalize_account_context(o.account_context)
  OBVIOUS
<1>3. /\ Len(caps) \in Nat /\ Len(caps) = Len(o.capabilities)
      /\ \A i \in 1..Len(caps) : caps[i] \in Capability
  BY <1>1, ConstructTypes DEF register_manifest
<1>4. \A i, j \in 1..Len(caps) : caps[i] = caps[j] => i = j
  BY <1>1 DEF register_manifest, validate
<1>5. \A i \in 1..Len(caps) : route_key(caps[i], account) \notin DOMAIN registrations
  BY <1>1, <1>2 DEF register_manifest, Conflicts
<1>6. ASSUME NEW i \in 1..Len(caps), NEW j \in 1..Len(caps),
             route_key(caps[i], account) = route_key(caps[j], account)
      PROVE  i = j
  <2>1. /\ caps[i].role = caps[j].role /\ caps[i].identifier = caps[j].identifier
        /\ caps[i].provider = caps[j].provider
    BY <1>6 DEF route_key
  <2>2. caps[i] \in RawCapability /\ caps[j] \in RawCapability
    BY <1>3 DEF Capability
  <2>3. caps[i] = caps[j]
    BY <2>1, <2>2 DEF RawCapability
  <2> QED BY <1>4, <2>3
<1>7. ASSUME NEW i \in 1..Len(caps) PROVE i \in Accepted(registrations, caps, account)
  <2>1. ASSUME NEW j \in 1..i
        PROVE  /\ route_key(caps[j], account) \notin DOMAIN registrations
               /\ \A k \in 1..(j - 1) : route_key(caps[k], account) # route_key(caps[j], account)
    <3>1. j \in 1..Len(caps) /\ \A k \in 1..(j - 1) : k \in 1..Len(caps) /\ k # j
      BY <1>3
    <3> QED BY <1>5, <1>6, <3>1
  <2> QED BY <2>1 DEF Accepted
<1>8. \A i \in 1..Len(caps) : route_key(caps[i], account) \in DOMAIN registrations'
  BY <1>1, <1>2, <1>7 DEF register_manifest, Perform, register_capabilities
<1> QED BY <1>1, <1>2, <1>3, <1>5, <1>8 DEF RoutesOf

(* An executor never serves half of its manifest.                          *)
THEOREM ManifestsAreWhole == OwnExecutors => (Spec => []ManifestIsWhole)
<1> SUFFICES ASSUME OwnExecutors PROVE Spec => []ManifestIsWhole
  OBVIOUS
<1>1. Init => RoutesFit /\ ManifestIsWhole
  BY InitFits DEF Init, ManifestIsWhole
<1>2. ASSUME RoutesFit, ManifestIsWhole, Next PROVE ManifestIsWhole'
  <2>1. PICK p \in Offers : RegisterCapabilities(p) \/ register_manifest(p)
    BY <1>2 DEF Next
  <2>2. /\ \A key \in DOMAIN registrations :
             key \in DOMAIN registrations' /\ registrations'[key] = registrations[key]
        /\ \A key \in DOMAIN registrations' \ DOMAIN registrations :
             registrations'[key].executor = p.executor
    BY <1>2, <2>1, OfferRegisters DEF RegisterCapabilities, register_manifest
  <2>3. ASSUME NEW o \in Offers, o.kind = "manifest"
        PROVE  \/ \A key \in RoutesOf(o) : key \in DOMAIN registrations'
                                           /\ registrations'[key].executor = o.executor
               \/ \A key \in DOMAIN registrations' : registrations'[key].executor # o.executor
    <3>1. \/ \A key \in RoutesOf(o) : key \in DOMAIN registrations
                                      /\ registrations[key].executor = o.executor
          \/ \A key \in DOMAIN registrations : registrations[key].executor # o.executor
      BY <1>2, <2>3 DEF ManifestIsWhole
    <3>2. CASE o = p
      <4>1. register_manifest(o)
        BY <2>1, <2>3, <3>2 DEF RegisterCapabilities
      <4> QED BY <1>2, <2>2, <3>2, <4>1, ManifestRegisters
    <3>3. CASE o # p
      <4>1. o.executor # p.executor
        BY <3>3 DEF OwnExecutors
      <4> QED BY <2>2, <3>1, <4>1
    <3> QED BY <3>2, <3>3
  <2>4. \A o \in Offers : RoutesOf(o)' = RoutesOf(o)
    BY DEF RoutesOf
  <2> QED BY <2>3, <2>4 DEF ManifestIsWhole
<1>3. RoutesFit /\ ManifestIsWhole /\ [Next]_vars => RoutesFit' /\ ManifestIsWhole'
  <2>1. UNCHANGED vars => (ManifestIsWhole => ManifestIsWhole')
    BY DEF vars, ManifestIsWhole, RoutesOf
  <2> QED BY <1>2, <2>1, StepRegisters
<1> QED BY <1>1, <1>3, PTL DEF Spec

-----------------------------------------------------------------------------
(* Naming a registered provider changes nothing else about an Action.      *)
LEMMA NamingAProvider ==
  ASSUME RoutesFit, NEW r \in Requests, _provider_for_action(r) = Absent,
         NEW p \in Offering(registrations), NEW q, q = WithProvider(r, p)
  PROVE  /\ _provider_for_action(q) = p /\ p # Absent
         /\ Refused(q) <=> Refused(r)
         /\ _matching_capability_routes(registrations, q) =
              {k \in _matching_capability_routes(registrations, r) :
                 registrations[k].capability.provider = p}
<1>1. /\ p \in Text /\ p = Plain(p.word) /\ p.word # Blank
  BY RegistryConstants DEF RoutesFit, OwnRoute, Offering, Capability, RawCapability
<1>2. p # Absent /\ fold(p) = p /\ ~empty(p)
  BY <1>1, RegistryConstants DEF fold, empty
<1>3. r \in [role : Text, type : Text, payload : Named, metadata : Named]
  BY RegistryConstants
<1>4. /\ q.role = r.role /\ q.type = r.type /\ q.metadata = r.metadata
      /\ q.payload = [r.payload EXCEPT !.capability_provider = p]
  BY <1>3 DEF WithProvider
<1>5. /\ q.payload.capability = r.payload.capability
      /\ q.payload.account_context = r.payload.account_context
      /\ q.payload.capability_provider = p
  BY <1>3, <1>4 DEF Named
<1>6. /\ lookup(q, "capability") = lookup(r, "capability")
      /\ lookup(q, "account_context") = lookup(r, "account_context")
      /\ lookup(q, "capability_provider") = p
  BY <1>2, <1>4, <1>5 DEF lookup
<1>7. ~present(r, "capability_provider")
  <2>1. lookup(r, "capability_provider") \in Text \cup {Absent}
    BY <1>3 DEF lookup, Named
  <2>2. \A x \in Text : fold(x) \in Text
    BY DEF fold, Plain, Text
  <2> QED BY <2>1, <2>2, RegistryConstants DEF present, _provider_for_action
<1>8. _provider_for_action(q) = p
  BY <1>2, <1>6 DEF _provider_for_action, present
<1>9. Refused(q) <=> Refused(r)
  BY <1>2, <1>4, <1>6, <1>7 DEF Refused, blank, present, _account_context_for_action
<1>10. \A reg : Serves(reg, q) <=> Serves(reg, r) /\ reg.capability.provider = p
  BY <1>2, <1>4, <1>6, <1>8 DEF Serves, _capability_for_action, present
<1>11. _account_context_for_action(q) = _account_context_for_action(r)
  BY <1>6 DEF _account_context_for_action
<1> QED BY <1>2, <1>8, <1>9, <1>10, <1>11 DEF _matching_capability_routes

(* The providers that would serve the Action by name are those of its      *)
(* routes, one each.                                                       *)
LEMMA ServingProviders ==
  ASSUME RoutesFit, NEW r \in Requests, _provider_for_action(r) = Absent, ~Refused(r),
         NEW matching, matching = _matching_capability_routes(registrations, r),
         NEW serving,
         serving = {p \in Offering(registrations) : Resolved(registrations, WithProvider(r, p))}
  PROVE  /\ serving = {registrations[k].capability.provider : k \in matching}
         /\ \A k \in matching : \A q :
              q = WithProvider(r, registrations[k].capability.provider) =>
                /\ _matching_capability_routes(registrations, q) = {k}
                /\ ~Refused(q)
<1>1. ASSUME NEW k \in matching, NEW q,
             q = WithProvider(r, registrations[k].capability.provider)
      PROVE  /\ _matching_capability_routes(registrations, q) = {k} /\ ~Refused(q)
             /\ Resolved(registrations, q)
             /\ registrations[k].capability.provider \in Offering(registrations)
  <2>1. PICK p \in Offering(registrations) : p = registrations[k].capability.provider
    BY <1>1 DEF _matching_capability_routes, Offering
  <2>2. /\ _provider_for_action(q) # Absent /\ ~Refused(q)
        /\ k \in _matching_capability_routes(registrations, q)
    BY <1>1, <2>1, NamingAProvider
  <2>3. _matching_capability_routes(registrations, q) = {k}
    BY <2>2, NamedRouteUnique DEF RoutesFit
  <2>4. _resolve_capability_route(registrations, q).reason = "capability_route"
    <3>1. _resolve_capability_route(registrations, q) =
            [executor |-> registrations[k].executor, reason |-> "capability_route",
             account_context |-> registrations[k].account_context]
      BY ONLY <2>3, OneRoute
    <3> QED BY <3>1
  <2>5. Resolved(registrations, q)
    BY <2>2, <2>4, RouteOrRefusal DEF Resolved
  <2> QED BY <2>1, <2>2, <2>3, <2>5
<1>2. ASSUME NEW p \in serving PROVE \E k \in matching : registrations[k].capability.provider = p
  <2>1. PICK q : q = WithProvider(r, p)
    OBVIOUS
  <2>2. p \in Offering(registrations) /\ Resolved(registrations, q)
    BY <1>2, <2>1
  <2>3. _matching_capability_routes(registrations, q) # {}
    BY <2>2, RouteOrRefusal DEF Resolved
  <2> QED BY <2>1, <2>2, <2>3, NamingAProvider
<1>3. serving = {registrations[k].capability.provider : k \in matching}
  BY <1>1, <1>2
<1> QED BY <1>1, <1>3

(* Without a provider an Action is routed exactly when one provider would  *)
(* serve it by name, to that provider's executor, and is ambiguous exactly *)
(* when several would.                                                     *)
THEOREM ImplicitIsExplicit == Spec => []ImplicitAgreesWithExplicit
<1>1. ASSUME RoutesFit, NEW r \in Requests, _provider_for_action(r) = Absent,
             NEW serving,
             serving = {p \in Offering(registrations) : Resolved(registrations, WithProvider(r, p))},
             NEW answer, answer = resolve_with_registration(registrations, r)
      PROVE  /\ answer.reason = "capability_route" <=> Cardinality(serving) = 1
             /\ answer.reason = "ambiguous_capability_route" <=> Cardinality(serving) > 1
             /\ answer.reason = "capability_route" =>
                  \A p \in serving :
                    answer = resolve_with_registration(registrations, WithProvider(r, p))
  <2>1. PICK matching : matching = _matching_capability_routes(registrations, r)
    OBVIOUS
  <2>2. CASE Refused(r)
    <3>1. ASSUME NEW p \in Offering(registrations)
          PROVE  ~Resolved(registrations, WithProvider(r, p))
      <4>1. PICK q : q = WithProvider(r, p)
        OBVIOUS
      <4>2. Refused(q)
        BY <1>1, <2>2, <4>1, NamingAProvider
      <4> QED BY <4>1, <4>2, RouteOrRefusal DEF Resolved
    <3>2. serving = {}
      BY <1>1, <3>1
    <3>3. answer.reason \notin {"capability_route", "ambiguous_capability_route"}
      BY <1>1, <2>2, RouteOrRefusal
    <3>4. Cardinality({}) = 0
      BY FS_EmptySet
    <3> QED BY <3>2, <3>3, <3>4
  <2>3. CASE ~Refused(r)
    <3>1. /\ serving = {registrations[k].capability.provider : k \in matching}
          /\ \A k \in matching : \A q :
               q = WithProvider(r, registrations[k].capability.provider) =>
                 /\ _matching_capability_routes(registrations, q) = {k}
                 /\ ~Refused(q)
      BY <1>1, <2>1, <2>3, ServingProviders
    <3>2. IsFiniteSet(matching)
      <4>1. matching \subseteq DOMAIN registrations /\ IsFiniteSet(DOMAIN registrations)
        BY <1>1, <2>1 DEF RoutesFit, _matching_capability_routes
      <4> QED BY ONLY <4>1, FS_Subset
    <3>3. Cardinality(serving) = Cardinality(matching)
      <4>1. PICK f : f = [k \in matching |-> registrations[k].capability.provider]
        OBVIOUS
      <4>2. f \in [matching -> serving] /\ \A p \in serving : \E k \in matching : f[k] = p
        BY <3>1, <4>1
      <4>3. \A k, l \in matching : f[k] = f[l] => k = l
        <5>1. ASSUME NEW k \in matching, NEW l \in matching, f[k] = f[l] PROVE k = l
          <6>1. registrations[k].capability.provider = registrations[l].capability.provider
            BY <4>1, <5>1
          <6>2. PICK q : q = WithProvider(r, registrations[k].capability.provider)
            OBVIOUS
          <6>3. /\ _matching_capability_routes(registrations, q) = {k}
                /\ _matching_capability_routes(registrations, q) = {l}
            BY <3>1, <6>1, <6>2
          <6> QED BY <6>3
        <5> QED BY <5>1
      <4>4. f \in Bijection(matching, serving)
        BY <4>2, <4>3 DEF Bijection, Injection, Surjection, IsInjective
      <4>5. ExistsBijection(matching, serving)
        BY <4>4 DEF ExistsBijection
      <4> QED BY ONLY <3>2, <4>5, FS_Bijection
    <3>4. Cardinality(matching) \in Nat /\ (Cardinality(matching) = 0 <=> matching = {})
      BY <3>2, FS_CardinalityType, FS_EmptySet
    <3>5. answer = _resolve_capability_route(registrations, r)
      BY <1>1, <2>3, RouteOrRefusal
    <3>6. /\ answer.reason = "capability_route" <=> Cardinality(matching) = 1
          /\ answer.reason = "ambiguous_capability_route" <=>
               matching # {} /\ Cardinality(matching) # 1
      BY <2>1, <3>5 DEF _resolve_capability_route, Fallback
    <3>7. ASSUME answer.reason = "capability_route", NEW p \in serving
          PROVE  answer = resolve_with_registration(registrations, WithProvider(r, p))
      <4>1. PICK k \in matching : registrations[k].capability.provider = p
        BY <3>1, <3>7
      <4>2. PICK q : q = WithProvider(r, p)
        OBVIOUS
      <4>3. _matching_capability_routes(registrations, q) = {k} /\ ~Refused(q)
        BY <3>1, <4>1, <4>2
      <4>4. \E x : matching = {x}
        BY <3>2, <3>6, <3>7, FS_Singleton
      <4>5. matching = {k}
        BY <4>1, <4>4
      <4>6. answer = _resolve_capability_route(registrations, q)
        <5>1. _matching_capability_routes(registrations, r) = {k}
          BY <2>1, <4>5
        <5>2. _resolve_capability_route(registrations, r) =
                [executor |-> registrations[k].executor, reason |-> "capability_route",
                 account_context |-> registrations[k].account_context]
          BY ONLY <5>1, OneRoute
        <5>3. _resolve_capability_route(registrations, q) =
                [executor |-> registrations[k].executor, reason |-> "capability_route",
                 account_context |-> registrations[k].account_context]
          BY ONLY <4>3, OneRoute
        <5> QED BY <3>5, <5>2, <5>3
      <4> QED BY <4>2, <4>3, <4>6, RouteOrRefusal
    <3> QED BY <3>3, <3>4, <3>6, <3>7
  <2> QED BY <2>2, <2>3
<1>2. ASSUME RoutesFit PROVE ImplicitAgreesWithExplicit
  BY <1>1, <1>2 DEF ImplicitAgreesWithExplicit, Resolved
<1> QED BY <1>2, RoutesAreOwn, PTL
=============================================================================
