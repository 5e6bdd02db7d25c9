SPECIFICATION FairSyncSpec
CONSTANTS
  NoText = NoText
  NoDigest = NoDigest
  Foo = Foo
  Bar = Bar
  Novel = Novel
  Contents = {Foo, Bar, Novel}
  Size <- MCSize
  MaxKb = 1
  ClipEnabled = TRUE
  CopyMax = 3
  FailMax = 1
INVARIANTS TypeOK NoEcho OnlyUnderCap InStep
PROPERTIES Delivers
CHECK_DEADLOCK FALSE
