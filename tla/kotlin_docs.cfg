SPECIFICATION Spec
CONSTANTS
  Files <- MCFiles
  Languages = {"kotlin"}
  MaxNodes = 2
  MinGroupRun = 2
  MaxGroup = 2
INVARIANT DocsStayWithMembers
CHECK_DEADLOCK FALSE
