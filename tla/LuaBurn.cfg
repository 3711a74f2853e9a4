SPECIFICATION Spec
CONSTANTS
  Files = {base, mid, other, leaf, loop, pool, orphan, askew, gone, hollow, one, two}
  Folder = {mid, other, leaf, loop, orphan, askew, gone}
  ClearEvery = 4
  a = a
  b = b
  v = v
  w = w
  base = base
  mid = mid
  other = other
  leaf = leaf
  loop = loop
  pool = pool
  orphan = orphan
  gone = gone
  askew = askew
  hollow = hollow
  one = one
  two = two
  Keys = {a, b}
  Values = {v, w}
  Script <- MCScript
  Unreadable = {gone}
  Blank = Blank
  Nil = Nil
  Error = Error
  MaxDepth = 6
INVARIANTS BurntAsAlone NeverCrashes
PROPERTY BatchEnds
CHECK_DEADLOCK FALSE
