SPECIFICATION Spec
CONSTANTS
  Parts = {"sim", "ports", "redactor", "secrets", "search", "keys", "modules", "service", "http", "ssh", "rehearsal", "reports", "releases", "proxy", "gates", "apps"}
  None = None
  Procs = {"p", "q"}

  Wordings = {"other"}
  Containers = {"a", "b", "c"}
  Tags = {"t"}
  Worlds <- SimWorlds
  MaxSteps = 4
  Bases <- PortBases
  Offset = 3
  Span = 3
  MaxPort = 8
  Busy <- PortsBusy
  MaxPicks = 3
  Bytes = {"a", "b"}
  Secrets <- RedactSecrets
  Mask = "*"
  MaxText = 6
  MaxChunk = 2
  Keys = {"pw"}
  Sources <- SecretSources
  Depth = 3
  MaxEdits = 3
  Armors <- SealArmors
  Embedded <- LibNames
  StdText <- Library
  OwnModule = "own"
  Mains <- Scripts
  Customs <- LibFiles
  NoFile = NoFile

  Hosts = {"h1", "h2"}
  Services = {"app", "api"}
  Statuses = {200, 302, 503}
  MaxOps = 3
  Images = {"i1", "i2", "latest"}
  Configs = {"c1", "c2"}
  Mutable = {"latest"}
  Requests <- HttpRequests
  Chunk = 2
  Aliases <- SshAliases
  Option = "-oProxy"
  Overrides = {"unset", "%C", "%h", "no token"}
  MaxCommands = 3
  Contracts <- Rehearsals
  MaxScenarios = 2
  MaxTotal = 8
  Codes = {0, 42, 127}
  Fleets <- HostFleets
  Records <- HostRecords
  Versions = {"v1", "v2", "v3"}
  Keeps = {0, 2}
  Deactivate = TRUE
  MaxFaults = 2
  Upstreams = {"t1", "t2"}
  Domains = {"d"}
  Limits <- GateLimits
  Apps <- BunnyApps
  Builds = {"v1", "v2"}
  Canaries = {0, 1, 2}
  Batches = {0, 2}
  Tolerated = {0, 1}
  MaxCalls = 2
INVARIANTS
  DryRunAgrees SecretsStayInside SealedOpens RollbackTargets NoneForgotten
  RunsAtMostOnce AnswersAreReal RightMachine ReportsHonest TrafficAsReported ReleaseKept
PROPERTY EditsSurvive
CHECK_DEADLOCK FALSE
