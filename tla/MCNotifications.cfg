\* Three notices of a repository that two chats are told of.
SPECIFICATION RelevantSpec
CONSTANTS
  live = live
  test = test
  repo = repo
  admin = admin
  dev = dev
  one = one
  other = other
  n1 = n1
  n2 = n2
  n3 = n3
  None = None
  Apps = {live, test}
  Repository <- Repositories
  Chats = {admin, dev}
  Admins = {admin}
  Manager = dev
  Allowed = {"usage_collection_error"}
  Events = {"deploy_success", "deploy_error", "app_suspended",
            "usage_collection_error"}
  Texts = {one, other}
  Kept <- Keeps
  Notices = {n1, n2, n3}
  Scenarios <- SomeScenarios
CHECK_DEADLOCK FALSE
INVARIANTS
  EveryoneIsTold
  ToldAgainOnlyWhenUnmarked
