\* Two requests of one app, each with any plan.
SPECIFICATION Spec
CONSTANTS
  Deploys = {d1, d2}
  sha1 = sha1
  sha2 = sha2
  asset = asset
  host = host
  branchHost = branchHost
  queue = queue
  cron = cron
  Plans <- AllPlans
  Shas = {sha1, sha2}
  Files = {asset}
  Routes = {host, branchHost}
  Queues = {queue}
  Schedules = {cron}
  StableName = StableName
  NoDeploy = NoDeploy
  NoName = NoName
CHECK_DEADLOCK FALSE
INVARIANTS
  LiveTargetsPublished
  RunningScriptIsRecorded
  SettledDeployIsExact
  ChargedIffDeployed
