SPECIFICATION Spec
CONSTANTS
  File = {"none", "void", "broken", "plain", "wide", "patch", "spelled", "cut"}
  Merge <- MergeMapping
  Content <- MCContent
  Host = {"a.ts", "b.ts"}
  HostOf <- MCHostOf
  NoHost = NoHost
  Split <- MCSplit
  Covers <- MCCovers
  Matchers = {"geosite:ts"}
  Number <- MCNumber
  YamlNumber <- MCYamlNumber
  YamlBool = {"true", "True", "false"}
  YamlTrue = {"true", "True"}
  YamlNull = {"", "~"}
  Decimal <- MCDecimal
  Credential = {"u:p"}
  Servers = {"s1", "s2"}
  NoServers = "s0"
  Path <- MCPath
CHECK_DEADLOCK FALSE
INVARIANTS UsersSettingsSurvive UsersPoliciesKept PhysicalPolicies
PROPERTY HookKeepsProxy
