SPECIFICATION Spec
CONSTANTS
  c1 = c1
  c2 = c2
  c3 = c3
  none = none
  Commit = {c1, c2, c3}
  Committer <- MCCommitter
  Nameless = none
  Joe = joe
  joe = joe
  ann = ann
  Fixes <- MCFixes
  Pulls <- MCPulls
  MaxLaunch = 3
INVARIANTS ListFitsFilter OncePerCommit AuthorIsCommitter
PROPERTIES FirstFetchStays
