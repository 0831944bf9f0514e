\* A request of any kind for two apps, with one change meanwhile.
SPECIFICATION RelevantSpec
CONSTANTS
  org = org
  repo = repo
  gate = gate
  branch = branch
  production = production
  None = None
  Apps = {org, repo, gate}
  Envs = {branch, production}
  Builds <- SomeBuilds
  Requests = {r}
  Asks <- SomeAsks
  Registries <- SomeRegistries
  RouteLists <- SomeRoutes
  Gateway <- MailGateway
  MaxChanges = 1
CHECK_DEADLOCK FALSE
INVARIANTS
  EffectsAreAnswered
  MailIsTakenOrRejected
  DomainBelongsToItsApps
  AnswersWereCurrent
  FollowsThePriority
