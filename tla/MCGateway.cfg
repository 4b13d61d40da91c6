CONSTANTS
  mine = mine
  theirs = theirs
  question = question
  star = star
  p1 = p1
  None = None
  Unset = Unset
  Models <- MCModels
  Matches <- MCMatches
  Starred <- MCStarred
  SystemOneIds <- MCSystemOneIds
  Providers <- MCProviders
  Configurations <- AllConfigurations
  HeaderNames <- MCHeaderNames
  AnthropicNames <- MCAnthropicNames
  Variables <- MCVariables
  Secrets <- MCSecrets
  Deployments <- MCDeployments
SPECIFICATION GatewaySpec
INVARIANTS
  FirstMatchWins
  DefaultReplacesCallersId
  
  UnnamedIdsGoToDefault
  NothingWithoutToken
  ProviderGetsItsOwn
  CallerKeepsItsCredential
CHECK_DEADLOCK FALSE
