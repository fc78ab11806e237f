SPECIFICATION Spec
CONSTANTS
  QueryTexts <- MCQueryTexts
  PathTexts <- MCPathTexts
  Queries <- MCQueries
  Paths <- MCPaths
CHECK_DEADLOCK FALSE
INVARIANT EveryQueryParses
