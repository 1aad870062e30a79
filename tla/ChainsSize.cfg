SPECIFICATION Spec
CONSTANTS
  Texts <- MCTexts
  Docs <- MCDocs
  Seeds <- MCSeeds
  Queries <- MCQueries
  Sizes = {0, 2, 3}
  DefaultSize = 1
  MaxSize = 2
INVARIANTS
  ReportedSizePages
