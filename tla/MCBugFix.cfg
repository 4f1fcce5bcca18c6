SPECIFICATION FairSpec
CONSTANTS
  Path <- Files
  Target = {"target", "other"}
  Passing <- PassingTrees
  Source = {"target"}
  Optional <- EveryTool
  Configs <- Deployments
  Calls <- ModelCalls
  Suites <- SuiteRuns
  MaxCalls = 1
  MaxLate = 1
  MaxDeliveries = 1
  MaxMessages = 2
  MaxWorkspaces = 2
  MaxPublish = 2
INVARIANTS ReportedPushIsReal AgentRunsBounded WorkspacesAreReleased
PROPERTIES PushedIsVerified FixSettles
