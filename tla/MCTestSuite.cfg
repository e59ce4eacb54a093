SPECIFICATION Spec
CONSTANTS
  Dirs <- Tree
  TestFiles <- Tests
  Contents <- Shapes
  Patterns <- Named
INVARIANTS TestSeesItsFixtures PassMeansAllRan SavepointsResolve
