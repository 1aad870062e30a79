SPECIFICATION FairSpec
CONSTANTS
  Texts <- MCTexts
  Docs <- MCDocs
  Seeds <- MCSeeds
  Queries <- MCQueries
  Sizes = {0, 2}
  DefaultSize = 1
  MaxSize = 2
INVARIANTS
  TypeOK
  ImportedSoFar
  WalkSeesEveryRow
PROPERTY
  ImportEnds
