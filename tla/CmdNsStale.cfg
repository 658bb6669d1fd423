SPECIFICATION TableSpec
CONSTANTS
  h1 = h1
  h2 = h2
  Ids = {1, 2, 3, 4}
  Handlers = {h1, h2}
  MaxSize = 6
INVARIANT OnlyRegisteredIsCalled
