------------------------- MODULE ExecutorRegistry -------------------------
(***************************************************************************)
(* WorkerExecutorRegistry: which executor runs an Action.  Providers       *)
(* register capabilities for a role, one by one or as a manifest, for      *)
(* everybody or for one account; an Action is routed by its role, its      *)
(* capability, an optional provider and an optional account context.       *)
(*                                                                         *)
(* A text is a word and a style: strip() makes a padded text plain,        *)
(* casefold() a cased one.  Capabilities and providers are stripped and    *)
(* folded, roles and account contexts are only stripped.  The blank word   *)
(* stands for an empty text and for a value that is not a string.          *)
(***************************************************************************)
EXTENDS Naturals, Sequences, FiniteSets

CONSTANTS
  Words,          \* words of texts
  ExecutorRoles,  \* the roles the ExecutorRole enumeration knows
  Executors,      \* provider executors
  Offers,         \* the registration calls that may be made
  Requests,       \* the Actions that may be routed, as far as routing reads them
  Absent          \* a key or value that is not there

Blank == "blank"
NoOpExecutor == "noop"
Text == [word : Words \cup {Blank}, style : {"plain", "padded", "cased"}]
Plain(word) == [word |-> word, style |-> "plain"]

strip(text) == IF text.style = "padded" THEN Plain(text.word) ELSE text
fold(text) == Plain(text.word)
empty(text) == text.word = Blank

(* A capability as a provider writes it, and an account context, whose     *)
(* principal may be absent.                                                *)
RawCapability == [identifier : Text, role : Text, provider : Text]
RawAccount == [principal : Text \cup {Absent}, account_identifier : Text]

(* The routing keys an Action's payload or its metadata may hold.          *)
Named == [capability : Text \cup {Absent}, capability_provider : Text \cup {Absent},
          account_context : RawAccount \cup {Absent}]

ASSUME RegistryConstants ==
  /\ Blank \notin Words
  /\ Absent \notin Text
  /\ NoOpExecutor \notin Executors
  /\ ExecutorRoles \subseteq Text
  /\ \A o \in Offers :
       /\ o.kind \in {"manifest", "capabilities"}
       /\ o.capabilities \in Seq(RawCapability)
       /\ o.executor \in Executors
       /\ o.account_context \in RawAccount \cup {Absent}
  /\ Requests \subseteq [role : Text, type : Text, payload : Named, metadata : Named]

VARIABLE registrations   \* _provider_registrations: a function from route keys

vars == <<registrations>>

-----------------------------------------------------------------------------
(* WorkerCapability: normalised on construction, refused when empty.       *)
WorkerCapability(raw) ==
  [identifier |-> fold(raw.identifier), role |-> strip(raw.role),
   provider |-> fold(raw.provider)]

CanConstruct(raw) == ~empty(raw.identifier) /\ ~empty(raw.role) /\ ~empty(raw.provider)

(* _normalize_account_context; Absent when the context is not usable.      *)
_normalize_account_context(account) ==
  IF account = Absent \/ empty(account.account_identifier)
     \/ (account.principal # Absent /\ empty(account.principal))
  THEN Absent
  ELSE [principal |-> IF account.principal = Absent THEN Absent ELSE strip(account.principal),
        account_identifier |-> strip(account.account_identifier)]

account_key(account) ==
  IF account = Absent THEN Absent ELSE account.account_identifier

route_key(capability, account) ==
  [role |-> capability.role, identifier |-> capability.identifier,
   provider |-> capability.provider, account |-> account_key(account)]

Registration(capability, executor, account) ==
  [capability |-> capability, executor |-> executor, account_context |-> account]

(* register_capabilities: one register_capability after the other, until   *)
(* the first that finds its route taken raises.  Those before it stay.     *)
Accepted(regs, caps, account) ==
  {i \in 1..Len(caps) : \A j \in 1..i :
     /\ route_key(caps[j], account) \notin DOMAIN regs
     /\ \A k \in 1..(j - 1) : route_key(caps[k], account) # route_key(caps[j], account)}

register_capabilities_Overwrites(regs, caps, executor, account) ==
  LET new == {route_key(caps[i], account) : i \in 1..Len(caps)}
  IN [key \in DOMAIN regs \cup new |->
        IF key \notin new THEN regs[key]
        ELSE Registration(caps[CHOOSE i \in 1..Len(caps) : route_key(caps[i], account) = key],
                          executor, account)]

register_capabilities(regs, caps, executor, account) ==
  LET new == Accepted(regs, caps, account)
      keyed(key) == CHOOSE i \in new : route_key(caps[i], account) = key
  IN [key \in DOMAIN regs \cup {route_key(caps[i], account) : i \in new} |->
        IF key \in DOMAIN regs THEN regs[key]
        ELSE Registration(caps[keyed(key)], executor, account)]

(* ProviderManifest.validate.                                              *)
validate(caps) ==
  /\ caps # <<>>
  /\ \A i \in 1..Len(caps) : caps[i].role \in ExecutorRoles
  /\ \A i, j \in 1..Len(caps) : caps[i].provider = caps[j].provider
  /\ \A i, j \in 1..Len(caps) : caps[i] = caps[j] => i = j

Conflicts_First(regs, caps, account) == route_key(caps[1], account) \in DOMAIN regs

Conflicts(regs, caps, account) ==
  \E i \in 1..Len(caps) : route_key(caps[i], account) \in DOMAIN regs

Construct(o) == [i \in 1..Len(o.capabilities) |-> WorkerCapability(o.capabilities[i])]
CanOffer(o) ==
  /\ \A i \in 1..Len(o.capabilities) : CanConstruct(o.capabilities[i])
  /\ o.account_context # Absent => _normalize_account_context(o.account_context) # Absent

Perform(o) ==
  registrations' = register_capabilities(registrations, Construct(o), o.executor,
                                         _normalize_account_context(o.account_context))

(* register_capability and register_capabilities.                          *)
RegisterCapabilities(o) ==
  /\ o.kind = "capabilities" /\ CanOffer(o)
  /\ Perform(o)

(* register_manifest checks everything before it changes anything.         *)
register_manifest(o) ==
  /\ o.kind = "manifest" /\ CanOffer(o)
  /\ validate(Construct(o))
  /\ ~Conflicts(registrations, Construct(o), _normalize_account_context(o.account_context))
  /\ Perform(o)

Init == registrations = [key \in {} |-> Absent]
Next == \E o \in Offers : RegisterCapabilities(o) \/ register_manifest(o)
Spec == Init /\ [][Next]_vars

-----------------------------------------------------------------------------
(* Routing keys are looked up in the payload, then in the metadata; a      *)
(* capability nobody names is the Action's type.                           *)
lookup(r, field) == IF r.payload[field] # Absent THEN r.payload[field] ELSE r.metadata[field]
present(r, field) == lookup(r, field) # Absent
blank(r, field) == present(r, field) /\ empty(lookup(r, field))

_capability_for_action(r) ==
  fold(IF present(r, "capability") THEN lookup(r, "capability") ELSE r.type)

_provider_for_action(r) ==
  IF present(r, "capability_provider") THEN fold(lookup(r, "capability_provider")) ELSE Absent

_account_context_for_action(r) == _normalize_account_context(lookup(r, "account_context"))

Serves_AnyProvider(reg, r) ==
  /\ reg.capability.role = strip(r.role)
  /\ reg.capability.identifier = _capability_for_action(r)

Serves(reg, r) ==
  /\ reg.capability.role = strip(r.role)
  /\ reg.capability.identifier = _capability_for_action(r)
  /\ _provider_for_action(r) # Absent => reg.capability.provider = _provider_for_action(r)

_matching_capability_routes_AnyAccount(regs, r) ==
  {key \in DOMAIN regs : Serves(regs[key], r)}

_matching_capability_routes(regs, r) ==
  {key \in DOMAIN regs :
     Serves(regs[key], r) /\ regs[key].account_context = _account_context_for_action(r)}

_has_account_specific_routes(regs, r) ==
  \E key \in DOMAIN regs : Serves(regs[key], r) /\ regs[key].account_context # Absent

Fallback(reason) ==
  [executor |-> NoOpExecutor, reason |-> reason, account_context |-> Absent]

_resolve_capability_route(regs, r) ==
  LET matching == _matching_capability_routes(regs, r)
      only == CHOOSE key \in matching : TRUE
  IN IF Cardinality(matching) = 1
     THEN [executor |-> regs[only].executor, reason |-> "capability_route",
           account_context |-> regs[only].account_context]
     ELSE IF matching # {} THEN Fallback("ambiguous_capability_route")
     ELSE IF _account_context_for_action(r) = Absent /\ _has_account_specific_routes(regs, r)
     THEN Fallback("missing_account_context")
     ELSE Fallback("no_handler")

resolve_with_registration(regs, r) ==
  IF empty(r.role) THEN Fallback("missing_executor_role")
  ELSE IF blank(r, "capability") THEN Fallback("invalid_capability")
  ELSE IF blank(r, "capability_provider") THEN Fallback("invalid_capability_provider")
  ELSE IF present(r, "account_context") /\ _account_context_for_action(r) = Absent
  THEN Fallback("invalid_account_context")
  ELSE _resolve_capability_route(regs, r)

-----------------------------------------------------------------------------
Keys == [role : Text, identifier : Text, provider : Text, account : Text \cup {Absent}]

(* Every registration is stored under its own, normalised route.           *)
TypeOK ==
  /\ DOMAIN registrations \subseteq Keys
  /\ \A key \in DOMAIN registrations :
       LET reg == registrations[key]
       IN /\ reg.executor \in Executors
          /\ reg.account_context \in RawAccount \cup {Absent}
          /\ route_key(reg.capability, reg.account_context) = key

Resolved(regs, r) == resolve_with_registration(regs, r).reason = "capability_route"

(* An Action that names its provider is never ambiguous: the route key     *)
(* leaves out the principal, so one account identifier cannot be served    *)
(* for two principals of one provider.                                     *)
ExplicitRouteUnique ==
  \A r \in Requests :
    _provider_for_action(r) # Absent =>
      resolve_with_registration(registrations, r).reason # "ambiguous_capability_route"

RoutesOf(o) ==
  {route_key(Construct(o)[i], _normalize_account_context(o.account_context)) :
     i \in 1..Len(o.capabilities)}

(* A manifest is registered as a whole or not at all, whatever was         *)
(* registered before it: an executor never serves half of its manifest.    *)
ManifestIsWhole ==
  \A o \in Offers : o.kind = "manifest" =>
    \/ RoutesOf(o) \subseteq {key \in DOMAIN registrations :
                               registrations[key].executor = o.executor}
    \/ \A key \in DOMAIN registrations : registrations[key].executor # o.executor

WithProvider(r, provider) == [r EXCEPT !.payload.capability_provider = provider]
Offering(regs) == {regs[key].capability.provider : key \in DOMAIN regs}

(* The two lookups of _resolve_capability_route agree: without a provider  *)
(* an Action is routed exactly when one provider would serve it by name,   *)
(* to the same executor, and is ambiguous exactly when several would.      *)
ImplicitAgreesWithExplicit ==
  \A r \in Requests :
    _provider_for_action(r) = Absent =>
      LET serving == {p \in Offering(registrations) :
                        Resolved(registrations, WithProvider(r, p))}
          answer == resolve_with_registration(registrations, r)
      IN /\ Resolved(registrations, r) <=> Cardinality(serving) = 1
         /\ answer.reason = "ambiguous_capability_route" <=> Cardinality(serving) > 1
         /\ Resolved(registrations, r) =>
              \A p \in serving :
                answer = resolve_with_registration(registrations, WithProvider(r, p))

(* A later registration never takes over or disturbs the route of an       *)
(* Action that names its provider.                                         *)
NamedRouteIsStable ==
  [][\A r \in Requests :
       _provider_for_action(r) # Absent /\ Resolved(registrations, r) =>
         resolve_with_registration(registrations', r) =
         resolve_with_registration(registrations, r)]_vars
===========================================================================
