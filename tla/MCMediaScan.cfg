SPECIFICATION Spec
CONSTANTS
  Growth = 2
  Names = {"d", "f", "x", "y"}
  DirPaths <- JustD
  FilePaths <- TopAndX
  Mdbrefs = {1}
  Targets <- Everything
  Known = FALSE
  Restarts = FALSE
  WriteErrors = {}
  Escapes = TRUE
  MaxPlaylist = 1
INVARIANTS TypeOK RefCounts Tree
PROPERTY ScanExact
