------------------------------ MODULE MCGateway ------------------------------
(***************************************************************************)
(* The routings of MCRoutePlan with a caller without credentials, and one  *)
(* routing to each dialect with every way to authenticate, a gate that is  *)
(* open, shut or has lost its token, and callers of many kinds.            *)
(***************************************************************************)
EXTENDS Gateway, MCRoutePlan

MCHeaderNames == {"Authorization", "X-Api-Key", "Anthropic-Beta", "Tenant"}
MCAnthropicNames == {"X-Api-Key", "Anthropic-Beta"}
MCVariables == {"GATE", "TOKEN", "TENANT"}
MCSecrets == {"gate", "token", "tenant", "mine", "beta"}

NoHeaders == [n \in MCHeaderNames |-> Unset]

NoAuth == [tokenEnv |-> Unset, noAuth |-> FALSE, headers |-> NoHeaders]

\* Every way a provider may authenticate, and two that loadConfig refuses.
SomeAuths ==
  {NoAuth, [NoAuth EXCEPT !.noAuth = TRUE], [NoAuth EXCEPT !.tokenEnv = "TOKEN"],
   [NoAuth EXCEPT !.noAuth = TRUE, !.tokenEnv = "TOKEN"],
   [NoAuth EXCEPT !.tokenEnv = "TOKEN", !.headers["Tenant"] = "TENANT"]}
  \cup {[NoAuth EXCEPT !.headers = [n \in MCHeaderNames |->
           IF n \notin names THEN Unset ELSE IF n \in CredentialNames THEN "TOKEN" ELSE "TENANT"]] :
          names \in {{"Authorization"}, {"X-Api-Key"}, {"Tenant"}, {"Anthropic-Beta"},
                     {"X-Api-Key", "Tenant"}}}

SomeEnvs ==
  {[v \in MCVariables |-> CASE v = "GATE"  -> IF g THEN "gate" ELSE Unset
                            [] v = "TOKEN" -> IF t THEN "token" ELSE Unset
                            [] OTHER       -> IF u THEN "tenant" ELSE Unset] :
     g \in BOOLEAN, t \in BOOLEAN, u \in BOOLEAN}

SomeCallers ==
  {[n \in MCHeaderNames |-> CASE n = "Authorization"  -> a
                              [] n = "X-Api-Key"      -> k
                              [] n = "Anthropic-Beta" -> IF more THEN Raw("beta") ELSE Unset
                              [] OTHER                -> IF more THEN Raw("mine") ELSE Unset] :
     a \in {Unset, Raw("mine"), Bearer("mine"), Bearer("gate")},
     k \in {Unset, Raw("mine"), Raw("gate"), Bearer("gate")},
     more \in BOOLEAN}

AnyProvider == [p \in MCProviders |-> [models |-> Nothing, default |-> mine, dialect |-> None]]

\* The dialect is the provider's, an override's or the route's.
SomeConfigurations ==
  {[providers |-> [AnyProvider EXCEPT ![p1].dialect = "anthropic"],
    routes |-> <<RouteTo(p1, star, Nothing, None, Nothing)>>],
   [providers |-> AnyProvider,
    routes |-> <<RouteTo(p1, star, Nothing, None,
                         [Nothing EXCEPT ![mine] = "openai-chat"])>>],
   [providers |-> AnyProvider,
    routes |-> <<RouteTo(p1, star, Nothing, "systemone", Nothing)>>]}

AllConfigurations == MCConfigurations \cup SomeConfigurations

RoutingOnly ==
  {[config |-> c, gate |-> Unset, auth |-> [p \in MCProviders |-> NoAuth],
    env |-> [v \in MCVariables |-> Unset], caller |-> NoHeaders] : c \in MCConfigurations}

WithCredentials ==
  {[config |-> c, gate |-> g, auth |-> [p \in MCProviders |-> a], env |-> e, caller |-> h] :
     c \in SomeConfigurations, g \in {Unset, "GATE"}, a \in SomeAuths, e \in SomeEnvs,
     h \in SomeCallers}

MCDeployments == {RoutingOnly, WithCredentials}
=============================================================================
