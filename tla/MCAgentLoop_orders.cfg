SPECIFICATION FairSpec
CONSTANTS
  Tasks = {"redact", "summarize", "find", "bugfix", "config", "normalizer", "quick", "browser", "cross", "halluc", "feature", "web", "sql", "inbox", "pipeline", "delegation", "life", "memory", "research"}
  Modes = {"forced", "short", "off"}
  Strays = 0
  Faults = 0
  MaxTurns = 7
  LongThread = TRUE
CHECK_DEADLOCK FALSE
INVARIANT RepliesAgree
