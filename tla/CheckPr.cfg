SPECIFICATION FairSpec
CONSTANTS
  Numbers = {1, 2, 3}
  GITHUB_PR_NUMBER = 1
  Bodies <- SomeBodies
  NoBody = NoBody
  Authors = {"ann", "bob", "bot"}
  Bots = {"bot"}
  Listed = {"ann"}
  NotFound = NotFound
  Repositories <- SomeRepositories
  MaxEdits = 1
  MaxFaults = 1
INVARIANTS TypeOK VerdictIsRight GreenWasFine
PROPERTY Ends
CHECK_DEADLOCK FALSE
