------------------------------ MODULE LuaMeaning ------------------------------
(***************************************************************************)
(* What a Lua file means by itself: its statements one after the other,    *)
(* with whole copies of what it inherits; and that a burn comes to it,     *)
(* with the cache and the tables it shares.                                *)
(***************************************************************************)
EXTENDS LuaBurn

RECURSIVE Put(_, _, _)
Put(g, path, v) ==
  IF g = Error \/ v = Error THEN Error
  ELSE IF path = <<>> THEN v
  ELSE IF g \in Values \union {Nil} THEN Error
  ELSE LET inner == Put(g[path[1]], Tail(path), v)
       IN IF inner = Error THEN Error ELSE [g EXCEPT ![path[1]] = inner]

RECURSIVE Meaning(_, _)
Meaning(f, above) ==
  LET what(s) == CASE s.is \in Files -> Meaning(s.is, above \union {f})
                   [] s.is = Blank -> [k \in Keys |-> Nil]
                   [] OTHER -> s.is
      g == FoldLeft(LAMBDA x, s : Put(x, s.at, what(s)), Nil, Script[f])
  IN IF f \in Unreadable \union above \/ g = Nil THEN Error ELSE g

Alone == [f \in Files |-> Meaning(f, {})]

-----------------------------------------------------------------------------
\* What is written for a file is what the file means by itself, whichever files
\* were burnt before it, whatever is in the cache and whatever those files
\* changed in what they inherited (SimpleTableDuplicate, OnIndex, OnNewIndex).
BurntAsAlone == \A f \in Folder : burnt[f] # Blank => burnt[f] = Alone[f]
==============================================================================
