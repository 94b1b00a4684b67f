SPECIFICATION Spec
CONSTANTS
  Names = {"a", "b"}
  Sizes = {1, 2}
  Modules = {"x", "y", "z"}
  Content <- MCContent
  Growth = 3
  Scans = 4
INVARIANTS TypeOK Catalogue RefsRight
