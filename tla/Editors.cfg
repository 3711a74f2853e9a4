SPECIFICATION EditorsSpec
CONSTANTS
  Parts = {"tabs", "shared", "alone", "load", "coh", "toc", "module", "names", "editor"}
  Docs = {d1, d2}
  Props = Props
  Silent = {}
  Changes = {c1, c2}
  MayVeto = {TRUE}
  Ids = {1, 2, 3}
  AloneIds = {1, 3}
  AloneTexts = {t1}
  Half = 4
  Texts = {t1, t2}
  Old = Old
  Blank = Blank
  None = None
  Untouched = Untouched
  Stock = {3}
  Editors = {e1, e2}
  Single = e1
  Kinds = {"DoW", "Early", "CoH", "sga2", "sga4"}
  TabsMayStay = FALSE
  Versions = {v1}
  NoSource = NoSource
  Missing = Missing
  Empty = Empty
  UIName = UIName
  ModVersion = ModVersion
  plain = plain
  noted = noted
  zero = zero
  Global = Global
  Loose = Loose
  Section = Section
  Text = Text
  NoFile = NoFile
  key1 = key1
  key2 = key2
  key3 = key3
  key4 = key4
  Absent = Absent
  Attributes = {n1, n2, n3}
  ManagedKeys <- McManagedKeys
  ManagedValues <- McManagedValues
  Settable <- McSettable
  AsRead <- McAsRead
  Initially <- McInitially
  ModuleFiles <- McModuleFiles
  Tocs <- McTocs
  TocFiles <- McTocFiles
  Attrib <- McAttrib
  Generic <- McGeneric
  Slash = 0
SYMMETRY Symmetry
INVARIANTS
  TypeOK
  NothingIsLost
  CleanHasNothing
  SavedIsReadBack
  RowsAreFoundAlone
  EditsAreKeptAlone
  RefusedStaysOutShared
  NothingDangles
  FreedOnce
  InFront
  SoundWithTies
  WrittenIsReadBack
  OldOrNew
  ModuleIsLoaded
  KnownForGood
PROPERTIES
  OthersKept
  NamesStay
  NotTwice
  MeantIsChanged
CHECK_DEADLOCK FALSE
