CONSTANTS
  d1 = d1
  d2 = d2
  Deployers <- MCDeployers
  Paths <- MCPaths
  SqlPaths <- MCSqlPaths
  Drafts <- MCDrafts
  Projects <- MCProjects
  GeneratedKey <- MCGeneratedKey
  MaxRuns = 2
  MaxEdits = 2
SPECIFICATION Spec
SYMMETRY Symmetry
INVARIANTS
  RunsOnce
  RunsAsPlanned
  PreviewIsAccurate
  TrackingAgrees
