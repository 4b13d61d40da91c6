---------------------------- MODULE GatewayProofs ----------------------------
(***************************************************************************)
(* Proofs about the daemon's routing and credentials, for any models,      *)
(* providers, headers and secrets, and for every configuration, however    *)
(* many routes it has.                                                     *)
(***************************************************************************)
EXTENDS Gateway, TLAPS

USE RouteAssumption

-----------------------------------------------------------------------------
(* Routing, whatever the daemon's state. *)

\* A plan with a route is that of the first route that matches.
LEMMA PlanOfAMatch ==
  ASSUME NEW c, NEW m, c.routes \in Seq(Route), PlanFor(c, m).route # 0
  PROVE  LET q     == PlanFor(c, m)
             route == c.routes[q.route]
             p     == c.providers[route.provider]
             early == EarlyTarget(route, p, m)
         IN  /\ q.route \in Chosen(c, m) /\ q.route \in 1 .. Len(c.routes)
             /\ m \in Matches[route.pattern]
             /\ q.requested = m
             /\ q.dialect = DialectOf(route, p, early)
             /\ q.target = Target(p, early, q.dialect, m)
<1> DEFINE i == CHOOSE i \in Chosen(c, m) : TRUE
           route == c.routes[i]
           p == c.providers[route.provider]
           early == EarlyTarget(route, p, m)
           dialect == DialectOf(route, p, early)
<1>1. Chosen(c, m) # {}
  BY DEF PlanFor, NoPlan
<1>2. PlanFor(c, m) = [route |-> i, requested |-> m, target |-> Target(p, early, dialect, m),
                       dialect |-> dialect]
  BY <1>1 DEF PlanFor
<1>3. i \in Chosen(c, m)
  BY <1>1
<1>4. i \in 1 .. Len(c.routes) /\ m \in Matches[route.pattern]
  BY <1>3 DEF Chosen, Matching
<1> HIDE DEF i
<1> QED BY <1>2, <1>3, <1>4

\* What is known of a configuration, and of a route of one that is valid.
LEMMA ConfigurationTypes ==
  ASSUME NEW c \in Configurations
  PROVE  /\ c.providers \in [Providers -> Provider]
         /\ c.routes \in Seq(Route) /\ Len(c.routes) \in Nat
         /\ \A i \in 1 .. Len(c.routes) : c.routes[i] \in Route
  OBVIOUS

LEMMA ConfigurationsHaveParts ==
  ASSUME NEW c \in Configurations, NEW routes
  PROVE  LET d == [c EXCEPT !.routes = routes]
         IN  d.routes = routes /\ d.providers = c.providers
  OBVIOUS

LEMMA RouteOfAValidConfiguration ==
  ASSUME NEW c \in Configurations, Valid(c), NEW i \in 1 .. Len(c.routes)
  PROVE  /\ c.routes[i] \in Route
         /\ c.routes[i].provider \in Providers
         /\ c.providers[c.routes[i].provider] \in Provider
         /\ StatedDialect(c, c.routes[i]) = "systemone" => SystemOneChecked(c.routes[i])
         /\ StatedDialect(c, c.routes[i]) = "openai-chat" => OpenAIChatChecked(c, c.routes[i])
  BY ConfigurationTypes DEF Valid, KnowsProviders

-----------------------------------------------------------------------------
(* The inductive invariant. *)

DeploymentTyped ==
  /\ config \in Configurations
  /\ gate \in Variables \cup {Unset}
  /\ auth \in [Providers -> Auth]
  /\ env \in [Variables -> Secrets \cup {Unset}]
  /\ caller \in Headers

\* The daemon serves a configuration it found valid; the latest plan is the one of this
\* configuration; only who is let in is answered more than its liveness, and what went
\* upstream went by the plan.
GatewayInv ==
  /\ DeploymentTyped
  /\ daemon \in {"unloaded", "refused", "serving"}
  /\ daemon = "serving" => Valid(config) /\ \A p \in Providers : ValidAuth(auth[p], gate)
  /\ reply \notin {"none", "unauthorized", "ok"} => Authorized(gate, env, caller)
  /\ Routed => /\ daemon = "serving"
               /\ plan.requested \in Models
               /\ plan = PlanFor(config, plan.requested)
               /\ sent = Sent(config, plan)
  /\ Forwarded => /\ Routed
                  /\ upstream = UpstreamHeaders(plan.dialect, TheAuth, env, Admitted(gate, caller))

LEMMA GatewayInitIsInv ==
  ASSUME GatewayInit
  PROVE  GatewayInv
<1>1. DeploymentTyped
  BY DeploymentAssumption DEF GatewayInit, DeploymentTyped
<1>2. plan.route = 0 /\ daemon = "unloaded" /\ reply = "none"
  BY DEF GatewayInit, Unloaded, NoPlan
<1> QED BY <1>1, <1>2 DEF GatewayInv, Routed, Forwarded

LEMMA GatewayNextKeepsInv ==
  ASSUME GatewayInv, [GatewayNext]_gatewayVars
  PROVE  GatewayInv'
<1>1. CASE UNCHANGED gatewayVars
  BY <1>1 DEF GatewayInv, DeploymentTyped, gatewayVars, vars, Routed, Forwarded, TheAuth, TheRoute
<1>2. CASE GatewayLoad
  <2>1. UNCHANGED <<config, gate, auth, env, caller, plan, sent, reply, upstream>>
    BY <1>2 DEF GatewayLoad, Load, deployment
  <2>2. ~Routed
    BY <1>2 DEF GatewayInv, GatewayLoad, Load
  <2>3. /\ daemon' \in {"refused", "serving"}
        /\ daemon' = "serving" =>
             Valid(config) /\ \A p \in Providers : ValidAuth(auth[p], gate)
    BY <1>2 DEF GatewayLoad, Load
  <2> QED BY <2>1, <2>2, <2>3 DEF GatewayInv, DeploymentTyped, Routed, Forwarded
<1>3. CASE Reject \/ Healthz \/ Resolve
  <2>1. UNCHANGED <<config, gate, auth, env, caller, daemon>>
    BY <1>3 DEF Reject, Healthz, Resolve, deployment
  <2>2. plan'.route = 0 /\ reply' \in {"unauthorized", "ok", "routes"}
    BY <1>3 DEF Reject, Healthz, Resolve, NoPlan
  <2>3. reply' = "routes" => Authorized(gate, env, caller)
    BY <1>3 DEF Reject, Healthz, Resolve, LetIn
  <2> QED BY <2>1, <2>2, <2>3 DEF GatewayInv, DeploymentTyped, Routed, Forwarded
<1>4. CASE \E m \in Models : Forward(m)
  <2>1. PICK m \in Models : Forward(m)
    BY <1>4
  <2>2. UNCHANGED <<config, gate, auth, env, caller, daemon>> /\ daemon = "serving"
    BY <2>1 DEF Forward, Serve, deployment
  <2>3. Authorized(gate, env, caller)
    BY <2>1 DEF Forward, LetIn
  <2>4. plan' = PlanFor(config, m)
    BY <2>1 DEF Forward, Serve
  <2>5. config.routes \in Seq(Route)
    BY DEF GatewayInv, DeploymentTyped
  <2>6. plan'.route # 0 => /\ plan'.requested = m
                           /\ sent' = Sent(config, plan')
    BY <2>1, <2>4, <2>5, PlanOfAMatch DEF Forward, Serve
  <2>7. reply' = "forwarded" =>
          /\ plan'.route # 0
          /\ upstream' = UpstreamHeaders(plan'.dialect, auth[config.routes[plan'.route].provider],
                                         env, Admitted(gate, caller))
    BY <2>1 DEF Forward
  <2> QED BY <2>2, <2>3, <2>4, <2>6, <2>7
          DEF GatewayInv, DeploymentTyped, Routed, Forwarded, TheAuth, TheRoute
<1> QED BY <1>1, <1>2, <1>3, <1>4 DEF GatewayNext

LEMMA GatewayInvHolds == GatewaySpec => []GatewayInv
  BY GatewayInitIsInv, GatewayNextKeepsInv, PTL DEF GatewaySpec

LEMMA PlanIsARecord ==
  ASSUME GatewayInv, Routed
  PROVE  plan = [route |-> plan.route, requested |-> plan.requested, target |-> plan.target,
                 dialect |-> plan.dialect]
  BY DEF GatewayInv, PlanFor, NoPlan

\* What the invariant says of a request that has a route.
LEMMA ThePlan ==
  ASSUME GatewayInv, Routed
  PROVE  LET early == EarlyTarget(TheRoute, TheProvider, plan.requested)
         IN  /\ Valid(config) /\ config \in Configurations
             /\ plan.route \in Chosen(config, plan.requested)
             /\ plan.route \in 1 .. Len(config.routes)
             /\ plan.requested \in Matches[TheRoute.pattern]
             /\ plan.requested \in Models
             /\ plan.dialect = DialectOf(TheRoute, TheProvider, early)
             /\ plan.target = Target(TheProvider, early, plan.dialect, plan.requested)
             /\ sent = Sent(config, plan)
             /\ TheRoute \in Route /\ TheRoute.provider \in Providers /\ TheProvider \in Provider
<1>1. /\ config \in Configurations /\ config.routes \in Seq(Route)
      /\ Valid(config) /\ plan.requested \in Models
      /\ plan = PlanFor(config, plan.requested) /\ sent = Sent(config, plan)
  BY DEF GatewayInv, DeploymentTyped
<1>2. PlanFor(config, plan.requested).route # 0
  BY <1>1 DEF Routed
<1> DEFINE q == PlanFor(config, plan.requested)
<1>3. q = plan
  BY <1>1
<1>4. /\ plan.route \in 1 .. Len(config.routes)
      /\ plan.route \in Chosen(config, plan.requested)
      /\ plan.requested \in Matches[TheRoute.pattern]
      /\ plan.dialect = DialectOf(TheRoute, TheProvider,
                                  EarlyTarget(TheRoute, TheProvider, plan.requested))
      /\ plan.target = Target(TheProvider, EarlyTarget(TheRoute, TheProvider, plan.requested),
                              plan.dialect, plan.requested)
  <2> HIDE DEF q
  <2> QED BY <1>1, <1>2, <1>3, PlanOfAMatch DEF TheRoute, TheProvider, q
<1>5. TheRoute \in Route /\ TheRoute.provider \in Providers /\ TheProvider \in Provider
  BY <1>1, <1>4, RouteOfAValidConfiguration DEF TheRoute, TheProvider
<1> QED BY <1>1, <1>4, <1>5

-----------------------------------------------------------------------------
(* The theorems about routes. *)

\* Whatever the routes, a request goes by the first that matches it and as if no other
\* existed (planFor).
THEOREM RoutesByFirstMatch == GatewaySpec => []FirstMatchWins
<1>1. GatewayInv => FirstMatchWins
  <2> SUFFICES ASSUME GatewayInv, Routed
               PROVE  LET before == SubSeq(config.routes, 1, plan.route - 1)
                          alone == [config EXCEPT !.routes = <<TheRoute>>]
                      IN  /\ Matching([config EXCEPT !.routes = before], plan.requested) = {}
                          /\ [PlanFor(alone, plan.requested) EXCEPT !.route = plan.route] = plan
    BY DEF FirstMatchWins
  <2> DEFINE n == plan.route
             m == plan.requested
             before == SubSeq(config.routes, 1, n - 1)
             shorter == [config EXCEPT !.routes = before]
             alone == [config EXCEPT !.routes = <<TheRoute>>]
             early == EarlyTarget(TheRoute, TheProvider, m)
  <2>1. /\ n \in Chosen(config, m) /\ n \in 1 .. Len(config.routes)
        /\ m \in Matches[TheRoute.pattern]
        /\ config \in Configurations /\ config.routes \in Seq(Route)
    BY ThePlan, ConfigurationTypes
  <2>2. shorter.routes = before /\ alone.routes = <<TheRoute>> /\ alone.providers = config.providers
    BY ConfigurationsHaveParts, <2>1
  <2>3. Matching(shorter, m) = {}
    <3> SUFFICES ASSUME NEW i \in 1 .. Len(before), m \in Matches[before[i].pattern]
                 PROVE  FALSE
      BY <2>2 DEF Matching
    <3>1. Len(before) = n - 1 /\ i \in 1 .. Len(config.routes) /\ i < n
      BY <2>1
    <3>2. before[i] = config.routes[i]
      BY <2>1, <3>1
    <3>3. i \in Matching(config, m)
      BY <3>1, <3>2 DEF Matching
    <3> QED BY <2>1, <3>1, <3>3 DEF Chosen
  <2>4. Matching(alone, m) = {1}
    BY <2>1, <2>2 DEF Matching
  <2>5. Chosen(alone, m) = {1}
    BY <2>4 DEF Chosen
  <2>6. (CHOOSE i \in {1} : TRUE) = 1
    OBVIOUS
  <2>7. PlanFor(alone, m) = [route |-> 1, requested |-> m,
                             target |-> Target(TheProvider, early,
                                               DialectOf(TheRoute, TheProvider, early), m),
                             dialect |-> DialectOf(TheRoute, TheProvider, early)]
    <3>1. alone.routes[1] = TheRoute /\ alone.providers[TheRoute.provider] = TheProvider
      BY <2>2 DEF TheProvider
    <3> HIDE DEF alone
    <3> QED BY <2>5, <2>6, <3>1 DEF PlanFor
  <2>8. plan = [route |-> n, requested |-> m, target |-> plan.target, dialect |-> plan.dialect]
    BY PlanIsARecord
  <2> HIDE DEF alone, shorter, before
  <2>9. [PlanFor(alone, m) EXCEPT !.route = n] = plan
    BY <2>7, <2>8, ThePlan
  <2> QED BY <2>3, <2>9 DEF alone, shorter, before
<1> QED BY <1>1, GatewayInvHolds, PTL

\* A chat upstream never gets a caller's own id in place of its provider's default
\* (planFor's two looks at default_model).
THEOREM DefaultsReplace == GatewaySpec => []DefaultReplacesCallersId
<1>1. GatewayInv => DefaultReplacesCallersId
  <2> SUFFICES ASSUME GatewayInv, Routed, plan.dialect = "openai-chat", TheProvider.default # None,
                      sent = plan.requested
               PROVE  TheProvider.default = plan.requested
    BY DEF DefaultReplacesCallersId
  <2>1. sent = plan.target
    BY ThePlan DEF Sent
  <2> QED BY <2>1, ThePlan DEF Target, OrElse
<1> QED BY <1>1, GatewayInvHolds, PTL

\* loadConfig's check leaves a route two ways to send an id the System One endpoint
\* refuses: the provider's models and default, and a pattern that matches more than itself
\* (validateSystemOneModels).
THEOREM RoutesSendNoRefusedId == GatewaySpec => []RefusedIdsComeFromTheProvider
<1>1. GatewayInv => RefusedIdsComeFromTheProvider
  <2> SUFFICES ASSUME GatewayInv, Routed, StatedDialect(config, TheRoute) = "systemone",
                      plan.dialect = "systemone", sent \notin SystemOneIds
               PROVE  /\ TheRoute.models[plan.requested] = None
                      /\ Exact(TheRoute) /\ plan.requested = TheRoute.pattern =>
                           sent \in {TheProvider.models[plan.requested], TheProvider.default}
    BY DEF RefusedIdsComeFromTheProvider
  <2> DEFINE m == plan.requested
  <2>1. m \in Models
    BY ThePlan
  <2>2. SystemOneChecked(TheRoute)
    <3>1. config \in Configurations /\ Valid(config) /\ plan.route \in 1 .. Len(config.routes)
      BY ThePlan
    <3> QED BY <3>1, RouteOfAValidConfiguration DEF TheRoute
  <2>3. sent = EarlyTarget(TheRoute, TheProvider, m)
    BY ThePlan DEF Sent, Target
  <2>4. TheRoute.models[m] = None
    <3>1. TheRoute.models[m] # None => sent = TheRoute.models[m]
      BY <2>3 DEF EarlyTarget, OrElse
    <3> QED BY <2>1, <2>2, <3>1 DEF SystemOneChecked
  <2>5. sent \in {TheProvider.models[m], TheProvider.default, m}
    BY <2>3, <2>4 DEF EarlyTarget, OrElse
  <2>6. Exact(TheRoute) /\ m = TheRoute.pattern => m \in SystemOneIds
    BY <2>2, <2>4 DEF SystemOneChecked
  <2> QED BY <2>4, <2>5, <2>6
<1> QED BY <1>1, GatewayInvHolds, PTL

\* On a route configured to translate an id that no models entry names is replaced by the
\* default, or goes as it is past maps that name other ids (validateDialectTargets).
THEOREM UnnamedIdsAreReplaced == GatewaySpec => []UnnamedIdsGoToDefault
<1>1. GatewayInv => UnnamedIdsGoToDefault
  <2> SUFFICES ASSUME GatewayInv, Routed, StatedDialect(config, TheRoute) = "openai-chat",
                      plan.dialect = "openai-chat", TheRoute.models[plan.requested] = None,
                      TheProvider.models[plan.requested] = None
               PROVE  IF TheProvider.default # None THEN sent = TheProvider.default
                      ELSE /\ sent = plan.requested
                           /\ IsMapped(TheRoute.models) \/ IsMapped(TheProvider.models)
    BY DEF UnnamedIdsGoToDefault
  <2> DEFINE m == plan.requested
             early == EarlyTarget(TheRoute, TheProvider, m)
  <2>1. sent = Target(TheProvider, early, "openai-chat", m)
    BY ThePlan DEF Sent
  <2>2. early = OrElse(IF TheProvider.dialect = "openai-chat" THEN TheProvider.default ELSE None, m)
    BY DEF EarlyTarget, OrElse
  <2>3. OpenAIChatChecked(config, TheRoute)
    <3>1. config \in Configurations /\ Valid(config) /\ plan.route \in 1 .. Len(config.routes)
      BY ThePlan
    <3> QED BY <3>1, RouteOfAValidConfiguration DEF TheRoute
  <2>4. CASE TheProvider.default # None
    BY <2>1, <2>2, <2>4 DEF Target, OrElse
  <2>5. CASE TheProvider.default = None
    <3>1. sent = m
      BY <2>1, <2>2, <2>5 DEF Target, OrElse
    <3> QED BY <2>3, <2>5, <3>1 DEF OpenAIChatChecked, TheProvider
  <2> QED BY <2>4, <2>5
<1> QED BY <1>1, GatewayInvHolds, PTL

-----------------------------------------------------------------------------
(* The theorems about credentials. *)

\* A gate opens to the token of its variable only, however the token is presented.
LEMMA TheTokenIsPresented ==
  ASSUME NEW g \in Variables, NEW e \in [Variables -> Secrets \cup {Unset}],
         NEW h \in Headers, Authorized(g, e, h)
  PROVE  /\ e[g] # Unset
         /\ \E n \in CredentialNames : h[n] # Unset /\ h[n].secret = e[g]
<1>1. g # Unset /\ Unset \notin Value
  BY CredentialAssumption
<1>2. e[g] # Unset /\ e[g] \in Secrets /\ Presented(h) = Raw(e[g])
  BY <1>1 DEF Authorized
<1>3. /\ h["Authorization"] \in Value \cup {Unset} /\ h["X-Api-Key"] \in Value \cup {Unset}
  BY CredentialAssumption DEF Headers
<1>4. Raw(e[g]) \in Value
  BY <1>2 DEF Raw, Value
<1>5. CASE h["Authorization"] # Unset
  <2>1. h["Authorization"].scheme # "bearer bearer"
    BY <1>2, <1>5 DEF Presented, Bearer, Raw
  <2>2. Raw(h["Authorization"].secret) = Raw(e[g])
    BY <1>2, <1>5, <2>1 DEF Presented
  <2> QED BY <1>2, <1>5, <2>2 DEF Raw, CredentialNames
<1>6. CASE h["Authorization"] = Unset
  <2>1. h["X-Api-Key"] = Raw(e[g])
    BY <1>2, <1>6 DEF Presented
  <2> QED BY <1>1, <1>2, <1>4, <2>1 DEF Raw, CredentialNames
<1> QED BY <1>5, <1>6

\* Behind a gate nothing but the liveness check is answered without the token, and a
\* variable that is empty is no token (authorized).
THEOREM GateHolds == GatewaySpec => []NothingWithoutToken
<1>1. GatewayInv => NothingWithoutToken
  BY TheTokenIsPresented DEF GatewayInv, DeploymentTyped, NothingWithoutToken
<1> QED BY <1>1, GatewayInvHolds, PTL

\* What a provider's entry makes of any headers: a credential is one that it names.
LEMMA ProvidersCredentials ==
  ASSUME NEW a \in Auth, NEW g, ValidAuth(a, g), HasAuth(a),
         NEW e \in [Variables -> Secrets \cup {Unset}], NEW h,
         NEW n \in HeaderNames, ProviderHeaders(a, e, h)[n] # Unset,
         n \in CredentialNames \/ (a.headers[n] # Unset /\ e[a.headers[n]] # Unset)
  PROVE  \E v \in Variables : /\ v = a.tokenEnv \/ \E k \in HeaderNames : v = a.headers[k]
                              /\ ProviderHeaders(a, e, h)[n].secret = e[v]
<1> DEFINE bare == Without(h, CredentialNames)
<1>1. /\ a.tokenEnv \in Variables \cup {Unset} /\ a.noAuth \in BOOLEAN
      /\ a.headers \in [HeaderNames -> Variables \cup {Unset}]
  BY DEF Auth
<1>2. n \in CredentialNames => bare[n] = Unset
  BY DEF Without
<1>3. CASE a.noAuth
  BY <1>2, <1>3 DEF ProviderHeaders, ValidAuth, NamesHeaders
<1>4. CASE ~a.noAuth /\ NamesHeaders(a)
  <2>1. ProviderHeaders(a, e, h) = ConfiguredHeaders(a.headers, e, bare)
    BY <1>4 DEF ProviderHeaders
  <2>2. a.headers[n] # Unset /\ e[a.headers[n]] # Unset
    BY <1>2, <2>1 DEF ConfiguredHeaders
  <2>3. ProviderHeaders(a, e, h)[n].secret = e[a.headers[n]]
    BY <2>1, <2>2 DEF ConfiguredHeaders, Bearer, Raw
  <2> QED BY <1>1, <2>2, <2>3
<1>5. CASE ~a.noAuth /\ ~NamesHeaders(a)
  <2>1. a.tokenEnv # Unset /\ n \in CredentialNames
    BY <1>5 DEF HasAuth, NamesHeaders
  <2>2. ProviderHeaders(a, e, h) =
          IF e[a.tokenEnv] = Unset THEN bare
          ELSE [bare EXCEPT !["Authorization"] = Bearer(e[a.tokenEnv]),
                            !["X-Api-Key"] = Raw(e[a.tokenEnv])]
    BY <1>5 DEF ProviderHeaders
  <2>3. e[a.tokenEnv] # Unset
    BY <1>2, <2>1, <2>2
  <2>4. ProviderHeaders(a, e, h)[n].secret = e[a.tokenEnv]
    BY <2>1, <2>2, <2>3 DEF Bearer, Raw, CredentialNames, Without
  <2> QED BY <1>1, <2>1, <2>4
<1> QED BY <1>1, <1>3, <1>4, <1>5

\* A provider with credentials of its own gets those, and in their place nothing that came
\* with the request, in whichever dialect (applyProviderAuth).
THEOREM ProvidersGetTheirOwn == GatewaySpec => []ProviderGetsItsOwn
<1>1. GatewayInv => ProviderGetsItsOwn
  <2> SUFFICES ASSUME GatewayInv, Forwarded, HasAuth(TheAuth), NEW n \in HeaderNames,
                      upstream[n] # Unset,
                      \/ n \in CredentialNames
                      \/ TheAuth.headers[n] # Unset /\ env[TheAuth.headers[n]] # Unset
               PROVE  upstream[n].secret \in OwnSecrets
    BY DEF ProviderGetsItsOwn
  <2>1. /\ Routed
        /\ upstream = UpstreamHeaders(plan.dialect, TheAuth, env, Admitted(gate, caller))
        /\ env \in [Variables -> Secrets \cup {Unset}]
    BY DEF GatewayInv, DeploymentTyped
  <2>2. TheAuth \in Auth /\ ValidAuth(TheAuth, gate)
    BY <2>1, ThePlan DEF GatewayInv, DeploymentTyped, TheAuth
  <2>3. \E h : upstream = ProviderHeaders(TheAuth, env, h)
    BY <2>1 DEF UpstreamHeaders
  <2>4. PICK v \in Variables :
          /\ v = TheAuth.tokenEnv \/ \E k \in HeaderNames : v = TheAuth.headers[k]
          /\ upstream[n].secret = env[v]
    BY <2>1, <2>2, <2>3, ProvidersCredentials
  <2> QED BY <2>4 DEF OwnSecrets
<1> QED BY <1>1, GatewayInvHolds, PTL

\* An ungated daemon passes a caller's credential on to a provider that names none
\* (applyPassThroughHeaders).
THEOREM CallersKeepTheirs == GatewaySpec => []CallerKeepsItsCredential
<1>1. GatewayInv => CallerKeepsItsCredential
  <2> SUFFICES ASSUME GatewayInv, Forwarded, gate = Unset, ~HasAuth(TheAuth)
               PROVE  IF plan.dialect = "anthropic" THEN upstream = caller
                      ELSE LET own == IF caller["Authorization"] # Unset
                                      THEN caller["Authorization"] ELSE caller["X-Api-Key"]
                           IN  /\ upstream["X-Api-Key"] = Unset
                               /\ (upstream["Authorization"] = Unset) = (own = Unset)
                               /\ own # Unset => upstream["Authorization"].secret = own.secret
    BY DEF CallerKeepsItsCredential
  <2>1. upstream = IF plan.dialect = "anthropic" THEN caller ELSE PassThroughHeaders(caller)
    <3>1. upstream = UpstreamHeaders(plan.dialect, TheAuth, env, Admitted(gate, caller))
      BY DEF GatewayInv
    <3>2. Admitted(gate, caller) = caller
      BY DEF Admitted
    <3>3. \A h : ProviderHeaders(TheAuth, env, h) = h
      BY DEF ProviderHeaders, HasAuth
    <3> QED BY <3>1, <3>2, <3>3 DEF UpstreamHeaders
  <2>2. caller \in Headers
    BY DEF GatewayInv, DeploymentTyped
  <2> DEFINE a == caller["Authorization"]
             k == caller["X-Api-Key"]
             u == PassThroughHeaders(caller)
  <2>3. a \in Value \cup {Unset} /\ k \in Value \cup {Unset} /\ Unset \notin Value
    BY <2>2, CredentialAssumption DEF Headers
  <2>4. /\ u["X-Api-Key"] = Unset
        /\ u["Authorization"] = IF a = Unset /\ k # Unset THEN Promoted(k) ELSE a
    BY CredentialAssumption DEF PassThroughHeaders, Without
  <2>5. k # Unset => Promoted(k) \in Value /\ Promoted(k).secret = k.secret
    <3>1. ASSUME NEW w \in Value
          PROVE  Promoted(w) \in Value /\ Promoted(w).secret = w.secret
      BY DEF Promoted, Value
    <3> QED BY <2>3, <3>1
  <2> QED BY <2>1, <2>3, <2>4, <2>5
<1> QED BY <1>1, GatewayInvHolds, PTL
=============================================================================
