SPECIFICATION Spec
CONSTANTS
  Keys = {1, 2, 3}
  Texts = {"a"}
  Growth = 2
  Width = 4
  Changes = 5
INVARIANTS TypeOK BlocksOwned
PROPERTIES KeepsPromise
