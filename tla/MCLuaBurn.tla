------------------------------ MODULE MCLuaBurn ------------------------------
(***************************************************************************)
(* base, in a required mod, is inherited by mid and by other, which both   *)
(* change what is two tables below; leaf inherits mid and goes one table   *)
(* deeper; loop and pool inherit each other; orphan inherits a file that   *)
(* is not there; askew indexes a nil.  gone, in the folder, is a file that *)
(* cannot be opened.  hollow has no GameData, and one and two inherit it.  *)
(***************************************************************************)
EXTENDS LuaMeaning

CONSTANTS base, mid, other, leaf, loop, pool, orphan, askew, gone, hollow, one, two,
          a, b, v, w

Set(path, what) == [at |-> path, is |-> what]

MCScript ==
  (base :> <<Set(<<>>, Blank), Set(<<a>>, Blank), Set(<<a, b>>, Blank), Set(<<a, b, a>>, v)>>) @@
  (mid :> <<Set(<<>>, base), Set(<<a, b, b>>, w), Set(<<b>>, base)>>) @@
  (other :> <<Set(<<>>, base), Set(<<a, b, a>>, w)>>) @@
  (leaf :> <<Set(<<>>, mid), Set(<<a, b, a>>, w), Set(<<b, a, b>>, v)>>) @@
  (loop :> <<Set(<<>>, Blank), Set(<<b>>, pool), Set(<<a>>, v)>>) @@
  (pool :> <<Set(<<>>, base), Set(<<b>>, loop)>>) @@
  (orphan :> <<Set(<<>>, base), Set(<<a, b, b>>, v), Set(<<b>>, gone)>>) @@
  (askew :> <<Set(<<>>, base), Set(<<a, a, a>>, v)>>) @@
  (gone :> <<>>) @@
  (hollow :> <<>>) @@
  (one :> <<Set(<<>>, hollow)>>) @@
  (two :> <<Set(<<>>, hollow)>>)
==============================================================================
