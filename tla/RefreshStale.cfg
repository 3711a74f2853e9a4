SPECIFICATION EditorsSpec
CONSTANTS
  Parts = {"load"}
  Docs = {d1}
  Props = Props
  Silent = {}
  Changes = {c1, c2}
  MayVeto = {TRUE}
  Ids = {1, 3, 5}
  AloneIds = {5}
  AloneTexts = {t1}
  Half = 8
  Texts = {t1}
  Old = Old
  Blank = Blank
  None = None
  Untouched = Untouched
  Stock = {5}
  Editors = {e1, e2}
  Single = e1
  Kinds = {"DoW"}
  TabsMayStay = TRUE
  Versions = {v1}
  NoSource = NoSource
  Missing = Missing
  Empty = Empty
  UIName = UIName
  ModVersion = ModVersion
  plain = plain
  noted = noted
  zero = zero
  Global = Global
  Loose = Loose
  Section = Section
  Text = Text
  NoFile = NoFile
  key1 = key1
  key2 = key2
  key3 = key3
  key4 = key4
  Absent = Absent
  Attributes = {n1, n2, n3}
  ManagedKeys <- McManagedKeys
  ManagedValues <- McManagedValues
  Settable <- McSettable
  AsRead <- McAsRead
  Initially <- McInitially
  ModuleFiles <- McModuleFiles
  Tocs <- McTocs
  TocFiles <- McTocFiles
  Attrib <- McAttrib
  Generic <- McGeneric
  Slash = 0
SYMMETRY Symmetry
INVARIANT NothingDangles
CHECK_DEADLOCK FALSE
