----------------------------- MODULE MCRoutePlan -----------------------------
(***************************************************************************)
(* Two model ids, one of which the System One endpoint knows, and two      *)
(* patterns, as in other/x, typesafe/x, ?ther/x and */*; one provider with *)
(* every setting it can have, and up to two routes to it: the first with   *)
(* every setting, the second a plain one after or before it.  Maps have an *)
(* entry for the caller's id or the pattern without a star, overrides one  *)
(* for either id.                                                          *)
(***************************************************************************)
EXTENDS RoutePlan

CONSTANTS mine, theirs, question, star, p1

Ids == {mine, theirs}
MCModels == Ids \cup {question, star}
MCStarred == {star}

MCMatches ==
  [m \in MCModels |-> CASE m = question -> {mine, question}
                        [] m = star     -> MCModels
                        [] OTHER        -> {m}]

MCSystemOneIds == {theirs}
MCProviders == {p1}

Nothing == [m \in MCModels |-> None]

Maps == {[Nothing EXCEPT ![mine] = t] : t \in Ids \cup {None}}

MCProvider ==
  [models : Maps, default : Ids \cup {None}, dialect : Dialects \cup {None}]

Overrides ==
  {[Nothing EXCEPT ![at] = d] : at \in Ids, d \in Dialects \cup {None}}

RouteTo(provider, pattern, models, dialect, overrides) ==
  [pattern |-> pattern, provider |-> provider, models |-> models, dialect |-> dialect,
   overrides |-> overrides]

FullRoutes ==
  {RouteTo(p1, pattern, models, dialect, overrides) :
     pattern \in MCModels, models \in Maps \cup {[Nothing EXCEPT ![question] = theirs]},
     dialect \in Dialects \cup {None}, overrides \in Overrides}

PlainRoutes ==
  {RouteTo(provider, pattern, Nothing, None, Nothing) :
     provider \in MCProviders \cup {None}, pattern \in MCModels}

SomeRoutes ==
  {RouteTo(p1, pattern, models, dialect, Nothing) :
     pattern \in MCModels, models \in Maps, dialect \in {"openai-chat", None}}

Tables ==
  {<<r>> : r \in FullRoutes}
    \cup {<<r, s>> : r \in SomeRoutes, s \in PlainRoutes}
    \cup {<<s, r>> : r \in SomeRoutes, s \in PlainRoutes}

MCConfigurations ==
  {[providers |-> [p \in MCProviders |-> provider], routes |-> table] :
     provider \in MCProvider, table \in Tables}
=============================================================================
