------------------------------ MODULE RoutePlan ------------------------------
(***************************************************************************)
(* dialect.go and main.go: which model, in which dialect, through which    *)
(* provider a request goes upstream, as the loaded configuration decides   *)
(* it; and which configurations loadConfig lets the daemon start with.     *)
(*                                                                         *)
(* Model ids and route patterns are strings alike, and a pattern is looked *)
(* up and compared as one; what a pattern matches is path.Match's.         *)
(***************************************************************************)
EXTENDS Naturals, Sequences

CONSTANTS
  Models,         \* model ids, the caller's and the upstream's alike, and patterns
  Matches,        \* the ids a pattern matches; "?" and "[..]" match several as "*" does
  Starred,        \* the patterns with a "*" in them
  SystemOneIds,   \* the ids the System One endpoint answers for
  Providers,      \* the provider names of the configuration
  None,           \* a key the configuration does not have
  Configurations  \* the configurations a file may hold

Dialects == {"anthropic", "openai-chat", "systemone"}

Mapping == [Models -> Models \cup {None}]

Provider == [models : Mapping, default : Models \cup {None}, dialect : Dialects \cup {None}]

\* overrides: model_dialects.
Route == [pattern : Models, provider : Providers \cup {None}, models : Mapping,
          dialect : Dialects \cup {None}, overrides : [Models -> Dialects \cup {None}]]

ASSUME RouteAssumption ==
  /\ None \notin Models \cup Providers \cup Dialects
  /\ SystemOneIds \subseteq Models
  /\ Matches \in [Models -> SUBSET Models]
  /\ Starred \subseteq Models
  /\ \A c \in Configurations :
       c \in [providers : [Providers -> Provider], routes : Seq(Route)]

VARIABLES
  config,         \* the configuration
  daemon,         \* "unloaded", "refused" or "serving"
  plan,           \* how the latest request was routed
  sent            \* the model id in the body that went upstream for it

vars == <<config, daemon, plan, sent>>

OrElse(value, fallback) == IF value = None THEN fallback ELSE value

IsMapped(models) == \E m \in Models : models[m] # None

-----------------------------------------------------------------------------
(* loadConfig, validateDialectTargets and validateSystemOneModels. *)

\* The dialect the configuration states for a route, None when it states none.
StatedDialect(c, route) == OrElse(route.dialect, c.providers[route.provider].dialect)

KnowsProviders(c) == \A i \in 1 .. Len(c.routes) : c.routes[i].provider \in Providers

\* What the code takes for an exact route.
Exact(route) == route.pattern \notin Starred

NoDuplicates(c) ==
  \A i, j \in 1 .. Len(c.routes) :
    Exact(c.routes[i]) /\ c.routes[i].pattern = c.routes[j].pattern => i = j

\* Mutant: the pattern of an exact route is not checked.
SystemOneCheckedMapsOnly(route) ==
  \A m \in Models : route.models[m] \in SystemOneIds \cup {None}

SystemOneChecked(route) ==
  /\ \A m \in Models : route.models[m] \in SystemOneIds \cup {None}
  /\ Exact(route) => route.models[route.pattern] # None \/ route.pattern \in SystemOneIds

\* Mutant: a translating route needs no model of its own.
OpenAIChatUnchecked(c, route) == TRUE

OpenAIChatChecked(c, route) ==
  LET p == c.providers[route.provider]
  IN  IsMapped(route.models) \/ IsMapped(p.models) \/ p.default # None

Valid(c) ==
  /\ KnowsProviders(c)
  /\ NoDuplicates(c)
  /\ \A i \in 1 .. Len(c.routes) :
       LET route == c.routes[i]
       IN  CASE StatedDialect(c, route) = "systemone"   -> SystemOneChecked(route)
             [] StatedDialect(c, route) = "openai-chat" -> OpenAIChatChecked(c, route)
             [] OTHER                                   -> TRUE

-----------------------------------------------------------------------------
(* planFor. *)

Matching(c, m) == {i \in 1 .. Len(c.routes) : m \in Matches[c.routes[i].pattern]}

\* Mutant: an exact route wins over an earlier one with a wildcard.
ChosenExact(c, m) ==
  {i \in Matching(c, m) :
     \A j \in Matching(c, m) : Exact(c.routes[i]) \/ (~Exact(c.routes[j]) /\ i <= j)}

\* The first route that matches, if one does.
Chosen(c, m) == {i \in Matching(c, m) : \A j \in Matching(c, m) : i <= j}

\* The target as far as it is known before the dialect is.
EarlyTarget(route, p, m) ==
  OrElse(route.models[m],
    OrElse(p.models[m],
      OrElse(IF p.dialect = "openai-chat" THEN p.default ELSE None, m)))

DialectOf(route, p, target) ==
  OrElse(route.overrides[target], OrElse(route.dialect, OrElse(p.dialect, "anthropic")))

\* Mutant: the default is only looked at before the dialect is known.
TargetEarly(p, early, dialect, m) == early

\* The provider's default once the dialect is known.
Target(p, early, dialect, m) ==
  IF early = m /\ dialect = "openai-chat" THEN OrElse(p.default, early) ELSE early

NoPlan == [route |-> 0, requested |-> None, target |-> None, dialect |-> None]

PlanFor(c, m) ==
  IF Chosen(c, m) = {} THEN [NoPlan EXCEPT !.requested = m]
  ELSE LET i == CHOOSE i \in Chosen(c, m) : TRUE
           route == c.routes[i]
           p == c.providers[route.provider]
           early == EarlyTarget(route, p, m)
           dialect == DialectOf(route, p, early)
       IN  [route |-> i, requested |-> m, target |-> Target(p, early, dialect, m),
            dialect |-> dialect]

\* What ServeHTTP leaves in the body: the target for openai-chat (rewriteModelTo)
\* and systemone (serveSystemOne), the provider's own mapping for anthropic
\* (rewriteModel).
Sent(c, q) ==
  IF q.dialect = "anthropic"
  THEN OrElse(c.providers[c.routes[q.route].provider].models[q.requested], q.requested)
  ELSE q.target

-----------------------------------------------------------------------------

\* The daemon before it has read its configuration.
Unloaded ==
  /\ daemon = "unloaded"
  /\ plan = NoPlan
  /\ sent = None

Load ==
  /\ daemon = "unloaded"
  /\ daemon' = IF Valid(config) THEN "serving" ELSE "refused"
  /\ UNCHANGED <<config, plan, sent>>

\* A request for m; without a route nothing goes upstream.
Serve(m) ==
  /\ daemon = "serving"
  /\ plan' = PlanFor(config, m)
  /\ sent' = IF plan'.route = 0 THEN None ELSE Sent(config, plan')
  /\ UNCHANGED <<config, daemon>>

-----------------------------------------------------------------------------
(* Properties. *)

Routed == plan.route # 0

TheRoute == config.routes[plan.route]
TheProvider == config.providers[TheRoute.provider]

\* A request is routed as if the route that answers it were the only one, and by no
\* route before which another matches: "first match wins" (docs/PROXY.md:30).
FirstMatchWins ==
  Routed =>
    LET before == SubSeq(config.routes, 1, plan.route - 1)
        alone == [config EXCEPT !.routes = <<TheRoute>>]
    IN  /\ Matching([config EXCEPT !.routes = before], plan.requested) = {}
        /\ [PlanFor(alone, plan.requested) EXCEPT !.route = plan.route] = plan

\* A caller's own id never reaches a chat upstream whose provider has a default for
\* it, whichever of route, provider and override made the dialect openai-chat
\* (planFor's two looks at default_model).
DefaultReplacesCallersId ==
  Routed /\ plan.dialect = "openai-chat" /\ TheProvider.default # None =>
    \/ sent # plan.requested
    \/ TheProvider.default = plan.requested
    \/ \E models \in {TheRoute.models, TheProvider.models} : models[plan.requested] # None

\* An id the System One endpoint refuses is never one the route maps to, nor the caller's
\* own where the caller asked for the very id the route's pattern spells: it comes from
\* the provider's models or its default, which the check does not look at, or from a
\* pattern that matches more than itself (validateSystemOneModels, planFor).
RefusedIdsComeFromTheProvider ==
  /\ Routed
  /\ StatedDialect(config, TheRoute) = "systemone" /\ plan.dialect = "systemone"
  /\ sent \notin SystemOneIds
  => /\ TheRoute.models[plan.requested] = None
     /\ Exact(TheRoute) /\ plan.requested = TheRoute.pattern =>
          sent \in {TheProvider.models[plan.requested], TheProvider.default}

\* On a route that is configured to translate an id that no models entry names goes
\* upstream as the provider's default.  It goes as it is only where there is no default,
\* and then the maps name other ids: loadConfig refuses a route with neither
\* (validateDialectTargets).  That the upstream accepts an id that goes as it is nothing
\* in the code sees to ("then the requested ID unchanged", docs/PROXY.md:32).
UnnamedIdsGoToDefault ==
  /\ Routed
  /\ StatedDialect(config, TheRoute) = "openai-chat" /\ plan.dialect = "openai-chat"
  /\ TheRoute.models[plan.requested] = None /\ TheProvider.models[plan.requested] = None
  => IF TheProvider.default # None THEN sent = TheProvider.default
     ELSE sent = plan.requested /\ (IsMapped(TheRoute.models) \/ IsMapped(TheProvider.models))
=============================================================================
