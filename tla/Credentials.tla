----------------------------- MODULE Credentials -----------------------------
(***************************************************************************)
(* main.go and dialect.go: who is let in, and with which headers a request *)
(* goes on to a provider.  Headers are a function from the names that      *)
(* matter to a value or Unset; a value is a secret and how it is written.  *)
(***************************************************************************)

CONSTANTS
  HeaderNames,    \* "Authorization", "X-Api-Key" and the others a caller may send
  AnthropicNames, \* those that describe the Anthropic protocol
  Variables,      \* environment variables
  Secrets,        \* what a variable or a header may hold
  Unset           \* a header that is not there, an empty variable, a key not given

Value == [scheme : {"raw", "bearer", "bearer bearer"}, secret : Secrets]

ASSUME CredentialAssumption ==
  /\ {"Authorization", "X-Api-Key"} \subseteq HeaderNames
  /\ AnthropicNames \subseteq HeaderNames \ {"Authorization"}
  /\ "X-Api-Key" \in AnthropicNames
  /\ Unset \notin Variables \cup Secrets \cup Value

CredentialNames == {"Authorization", "X-Api-Key"}

Headers == [HeaderNames -> Value \cup {Unset}]

Raw(secret) == [scheme |-> "raw", secret |-> secret]
Bearer(secret) == [scheme |-> "bearer", secret |-> secret]

\* "Bearer " put before a header's value, whatever it is.
Promoted(value) ==
  [value EXCEPT !.scheme = IF @ = "raw" THEN "bearer" ELSE "bearer bearer"]

Without(headers, names) == [n \in HeaderNames |-> IF n \in names THEN Unset ELSE headers[n]]

\* What a provider's entry says of authentication.
Auth == [tokenEnv : Variables \cup {Unset}, noAuth : BOOLEAN,
         headers : [HeaderNames -> Variables \cup {Unset}]]

NamesHeaders(a) == \E n \in HeaderNames : a.headers[n] # Unset

HasAuth(a) == a.tokenEnv # Unset \/ a.noAuth \/ NamesHeaders(a)

\* loadConfig: one way to authenticate at most, and one at least behind a gate.
ValidAuth(a, gate) ==
  /\ ~(a.noAuth /\ (a.tokenEnv # Unset \/ NamesHeaders(a)))
  /\ ~(a.tokenEnv # Unset /\ NamesHeaders(a))
  /\ gate # Unset => HasAuth(a)

-----------------------------------------------------------------------------
(* authorized and bearerToken. *)

\* X-Api-Key is looked at only when there is nothing in Authorization, and is compared
\* as it is; one scheme is taken off Authorization.
Presented(headers) ==
  LET a == headers["Authorization"]
      k == headers["X-Api-Key"]
  IN  IF a # Unset
      THEN IF a.scheme = "bearer bearer" THEN Bearer(a.secret) ELSE Raw(a.secret)
      ELSE k

\* Mutant: a variable that is empty is compared like any other.
AuthorizedEmpty(gate, env, headers) ==
  gate # Unset =>
    IF env[gate] = Unset THEN Presented(headers) = Unset ELSE Presented(headers) = Raw(env[gate])

Authorized(gate, env, headers) ==
  gate # Unset => env[gate] # Unset /\ Presented(headers) = Raw(env[gate])

\* ServeHTTP: the credential a gate was passed with stays here.
Admitted(gate, headers) ==
  IF gate # Unset THEN Without(headers, CredentialNames) ELSE headers

-----------------------------------------------------------------------------
(* applyPassThroughHeaders and applyProviderAuth. *)

\* Mutant: x-api-key is dropped with the protocol headers.
PassThroughHeadersNoKey(headers) == Without(headers, AnthropicNames)

\* For an upstream that does not speak the Anthropic protocol.
PassThroughHeaders(headers) ==
  [Without(headers, AnthropicNames) EXCEPT
     !["Authorization"] = IF headers["Authorization"] = Unset /\ headers["X-Api-Key"] # Unset
                          THEN Promoted(headers["X-Api-Key"]) ELSE @]

\* applyConfiguredAuthHeaders: an entry whose variable is empty is passed over.
ConfiguredHeaders(names, env, headers) ==
  [n \in HeaderNames |->
     IF names[n] = Unset \/ (names[n] # Unset /\ env[names[n]] = Unset) THEN headers[n]
     ELSE IF n = "Authorization" THEN Bearer(env[names[n]]) ELSE Raw(env[names[n]])]

\* Mutant: an empty variable leaves the headers as they were.
ProviderHeadersIfSet(a, env, headers) ==
  LET bare == Without(headers, CredentialNames)
  IN  CASE ~HasAuth(a)      -> headers
        [] a.noAuth         -> bare
        [] NamesHeaders(a)  -> ConfiguredHeaders(a.headers, env, bare)
        [] OTHER            ->
             IF env[a.tokenEnv] = Unset THEN headers
             ELSE [bare EXCEPT !["Authorization"] = Bearer(env[a.tokenEnv]),
                               !["X-Api-Key"] = Raw(env[a.tokenEnv])]

ProviderHeaders(a, env, headers) ==
  LET bare == Without(headers, CredentialNames)
  IN  CASE ~HasAuth(a)      -> headers
        [] a.noAuth         -> bare
        [] NamesHeaders(a)  -> ConfiguredHeaders(a.headers, env, bare)
        [] OTHER            ->
             IF env[a.tokenEnv] = Unset THEN bare
             ELSE [bare EXCEPT !["Authorization"] = Bearer(env[a.tokenEnv]),
                               !["X-Api-Key"] = Raw(env[a.tokenEnv])]

\* passThrough and serveOpenAIChat: the caller's headers, then the provider's own.
UpstreamHeaders(dialect, a, env, headers) ==
  ProviderHeaders(a, env, IF dialect = "anthropic" THEN headers ELSE PassThroughHeaders(headers))
=============================================================================
