SPECIFICATION EditorsSpec
CONSTANTS
  Parts = {"tabs"}
  Docs = {d1}
  Props = Props
  Silent = {}
  Changes = {c1, c2}
  MayVeto = {TRUE, FALSE}
  Ids = {1, 2, 3}
  AloneIds = {1, 3}
  AloneTexts = {t1}
  Half = 4
  Texts = {t1}
  Old = Old
  Blank = Blank
  None = None
  Untouched = Untouched
  Stock = {3}
  Editors = {e1, e2}
  Single = e1
  Kinds = {"DoW"}
  TabsMayStay = FALSE
  Versions = {v1}
  NoSource = NoSource
  Missing = Missing
  Empty = Empty
  UIName = UIName
  ModVersion = ModVersion
  plain = plain
  noted = noted
  zero = zero
  Global = Global
  Loose = Loose
  Section = Section
  Text = Text
  NoFile = NoFile
  key1 = key1
  key2 = key2
  key3 = key3
  key4 = key4
  Absent = Absent
  Attributes = {n1, n2, n3}
  ManagedKeys <- McManagedKeys
  ManagedValues <- McManagedValues
  Settable <- McSettable
  AsRead <- McAsRead
  Initially <- McInitially
  ModuleFiles <- McModuleFiles
  Tocs <- McTocs
  TocFiles <- McTocFiles
  Attrib <- McAttrib
  Generic <- McGeneric
  Slash = 0
SYMMETRY Symmetry
INVARIANT NothingIsLost
CHECK_DEADLOCK FALSE
