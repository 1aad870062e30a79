SPECIFICATION FairSpec
CHECK_DEADLOCK FALSE
CONSTANTS
  Texts <- MCTexts
  Calls = {c1, c2}
  Spellings <- FewSpellings
  Txs = {t1, t2}
  NoTx = NoTx
INVARIANTS
  TypeOK
  SuccessIsTrue
  RefusedIsNowhere
  NamesAgree
PROPERTY
  EveryCallAnswered
