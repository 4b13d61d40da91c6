------------------------------- MODULE Gateway -------------------------------
(***************************************************************************)
(* main.go: what the daemon does with a request before it is sent, the     *)
(* routing and the credentials together.                                   *)
(***************************************************************************)
EXTENDS RoutePlan, Credentials

CONSTANT Deployments     \* families of configurations, environments and callers that go
                         \* together

ASSUME DeploymentAssumption ==
  \A family \in Deployments : \A d \in family :
    /\ d.config \in Configurations
    /\ d.gate \in Variables \cup {Unset}
    /\ d.auth \in [Providers -> Auth]
    /\ d.env \in [Variables -> Secrets \cup {Unset}]
    /\ d.caller \in Headers

VARIABLES
  gate,           \* client_token_env
  auth,           \* the authentication of each provider
  env,            \* the daemon's environment, which does not change while it runs
  caller,         \* the headers the caller sends
  reply,          \* the answer to the latest request
  upstream        \* the headers it went upstream with, Unset when it did not

gatewayVars == <<vars, gate, auth, env, caller, reply, upstream>>

deployment == <<gate, auth, env, caller>>

GatewayInit ==
  /\ \E family \in Deployments : \E d \in family :
       /\ config = d.config /\ gate = d.gate /\ auth = d.auth /\ env = d.env /\ caller = d.caller
  /\ Unloaded
  /\ reply = "none"
  /\ upstream = Unset

\* loadConfig: the credentials are checked along with the routes.
GatewayLoad ==
  /\ IF \A p \in Providers : ValidAuth(auth[p], gate)
     THEN Load
     ELSE daemon = "unloaded" /\ daemon' = "refused" /\ UNCHANGED <<config, plan, sent>>
  /\ UNCHANGED <<deployment, reply, upstream>>

LetIn == daemon = "serving" /\ Authorized(gate, env, caller)

\* Nothing of the request is read, not even its model.
Reject ==
  /\ daemon = "serving"
  /\ ~Authorized(gate, env, caller)
  /\ plan' = NoPlan
  /\ sent' = None
  /\ reply' = "unauthorized"
  /\ upstream' = Unset
  /\ UNCHANGED <<config, daemon, deployment>>

\* /healthz has no gate.
Healthz ==
  /\ daemon = "serving"
  /\ reply' = "ok"
  /\ upstream' = Unset
  /\ plan' = NoPlan
  /\ sent' = None
  /\ UNCHANGED <<config, daemon, deployment>>

\* /ccbunshin/resolve has, for it tells what the configuration is.
Resolve ==
  /\ LetIn
  /\ reply' = "routes"
  /\ upstream' = Unset
  /\ plan' = NoPlan
  /\ sent' = None
  /\ UNCHANGED <<config, daemon, deployment>>

\* count_tokens of a chat upstream is answered here; everything else goes on.
Forward(m) ==
  /\ LetIn
  /\ Serve(m)
  /\ IF plan'.route = 0
     THEN reply' = "no route" /\ upstream' = Unset
     ELSE \/ /\ plan'.dialect = "openai-chat"
             /\ reply' = "counted" /\ upstream' = Unset
          \/ /\ reply' = "forwarded"
             /\ upstream' = UpstreamHeaders(plan'.dialect,
                              auth[config.routes[plan'.route].provider], env,
                              Admitted(gate, caller))
  /\ UNCHANGED deployment

GatewayNext ==
  \/ GatewayLoad \/ Reject \/ Healthz \/ Resolve
  \/ \E m \in Models : Forward(m)

GatewaySpec == GatewayInit /\ [][GatewayNext]_gatewayVars

-----------------------------------------------------------------------------
(* Properties. *)

Forwarded == reply = "forwarded"

TheAuth == auth[TheRoute.provider]

\* The secrets a provider's entry stands for.
OwnSecrets ==
  {env[v] : v \in Variables \cap ({TheAuth.tokenEnv} \cup {TheAuth.headers[n] : n \in HeaderNames})}

\* Without the token only the liveness check is answered, and with a variable that is
\* empty there is no token: "An empty or unexported variable rejects every request rather
\* than opening the gate" (docs/PROXY.md:237, authorized).
NothingWithoutToken ==
  gate # Unset /\ reply \notin {"none", "unauthorized", "ok"} =>
    /\ env[gate] # Unset
    /\ \E n \in CredentialNames : caller[n] # Unset /\ caller[n].secret = env[gate]

\* A provider that names a credential, or none, gets that one, in whichever dialect and
\* whether or not its variable is set, and never the caller's in its place: not in the
\* two headers of every credential nor in one it names with a variable that is set
\* (applyProviderAuth).
ProviderGetsItsOwn ==
  Forwarded /\ HasAuth(TheAuth) =>
    \A n \in HeaderNames :
      /\ upstream[n] # Unset
      /\ \/ n \in CredentialNames
         \/ TheAuth.headers[n] # Unset /\ env[TheAuth.headers[n]] # Unset
      => upstream[n].secret \in OwnSecrets

\* A caller with a credential of its own keeps it through an ungated daemon and a provider
\* that names none: as it is for the anthropic dialect, for any other in the one header
\* a chat upstream reads (applyPassThroughHeaders).
CallerKeepsItsCredential ==
  Forwarded /\ gate = Unset /\ ~HasAuth(TheAuth) =>
    IF plan.dialect = "anthropic" THEN upstream = caller
    ELSE LET own == IF caller["Authorization"] # Unset THEN caller["Authorization"]
                    ELSE caller["X-Api-Key"]
         IN  /\ upstream["X-Api-Key"] = Unset
             /\ (upstream["Authorization"] = Unset) = (own = Unset)
             /\ own # Unset => upstream["Authorization"].secret = own.secret
=============================================================================
