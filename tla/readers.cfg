SPECIFICATION Spec
CONSTANTS
  Files <- MCFiles
  Languages = {"python", "csharp", "php", "go", "rust", "java", "groovy", "kotlin", "kts", "js", "cpp"}
  MaxNodes = 2
  MinGroupRun = 2
  MaxGroup = 2
INVARIANTS NothingLost OwnPrefix NothingTwice
CHECK_DEADLOCK FALSE
