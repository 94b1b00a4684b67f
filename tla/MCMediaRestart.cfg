SPECIFICATION Spec
CONSTANTS
  Growth = 2
  Names = {"d", "f", "x", "y"}
  DirPaths <- JustD
  FilePaths <- InD
  Mdbrefs = {1}
  Targets <- JustD
  Known = FALSE
  Restarts = TRUE
  WriteErrors = {"open", "header", "fields"}
  Escapes = TRUE
  MaxPlaylist = 2
INVARIANTS RefCounts
PROPERTY Durable
