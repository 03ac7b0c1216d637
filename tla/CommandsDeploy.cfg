SPECIFICATION MCSpec
CONSTANTS
  KvClient = {"c1", "c2"}
  Duty <- Duties
  Namespace = {"n1", "n2"}
  NsName = {"a", "b"}
  NKeys = 3
  KvValue = {"v", "w"}
  PageLimit = 2
  BatchLimit = 1
  Inputs <- BulkInputs
  NoValue = NoValue
  Package = {"p", "q"}
  PackageOrder <- Packages
  Run = {"r1", "r2"}
  Requests <- Wanted
  Mirror = {"m1", "m2"}
  Official = "official"
  Attempts = 3
  HealthLimit = 90
  HealthWait = 5
  PollTime = {0, 1, 30}
  MaxTxid = 255
  Texts <- Digits
  Lines <- RestoreLines
  PathChars = {"/", ".", "a", "b"}
  PathLength = 5
  PairLength = 3
  QueryKeys <- Keyed
  QueryValues <- Valued
  MaxArguments = 5
  Handler = {"h", "s"}
  Subtle = {"s"}
  OwnName = {"other"}
  OddName = {"other.1"}
  Body <- Bodies
  BindingName = {"A", "B"}
  BuildDir = {"x", "y"}
  Pruner = {"p1", "p2"}
  Keep = 1
  Week = 1
  LastDay = 3
  Client = {"k1", "k2"}
  Needs = {8, 20, 24}
  MaxVersion = 2
INVARIANT DeployArgumentsAgree
CHECK_DEADLOCK FALSE
