-------------------------- MODULE ModuleLoadProofs --------------------------
(***************************************************************************)
(* What is proved of ModuleLoad, for any number of required mods and data  *)
(* sources and any bounds.                                                 *)
(*                                                                         *)
(* Everything hangs on who owns what: every object is one module's, or the *)
(* map and what is lent, which are the mod's own, or was lost when a       *)
(* required mod could not be read.                                         *)
(***************************************************************************)
EXTENDS ModuleLoad, SequenceTheorems, TLAPS

\* The numbers that modules have.
RequiredNumbers == {15000 + l : l \in LineNumbers}
Numbers == {Own, Engine, RelicOnline} \cup RequiredNumbers

Whats == {"CModuleFile", "map", "text", "archive", "unread", "path", "locale", "store"}
Objects == [what : Whats, of : Int, num : Int, load : Nat]

ModuleType ==
    [self : Objects, number : Int, parent : BOOLEAN, map : Objects,
     archives : SUBSET Objects, texts : SUBSET Objects, children : SUBSET Numbers]

Ops == {"texts", "folder", "output", "archive", "directory", "packs", "pack",
        "required", "engine", "generic"}
MakesChild(i) == i.op \in {"required", "engine"}
Items == [op : Ops, of : Int, num : Int]

\* An item is for a module that is there, or makes one that is not.
ItemFits(i, there) ==
    /\ i.op = "texts" => i.of \in there
    /\ MakesChild(i) => i.of \in Numbers \ ({Own} \cup there)
    /\ ~MakesChild(i) => i.of \in there \cup {Other}

Listed(s, there) ==
    /\ s \in Seq(Items)
    /\ \A i \in 1..Len(s) : ItemFits(s[i], there)
    /\ \A i, j \in 1..Len(s) :
          i # j /\ MakesChild(s[i]) /\ MakesChild(s[j]) => s[i].of # s[j].of

-----------------------------------------------------------------------------
TypeInv ==
    /\ stage \in {"closed", "loading", "open", "ended"}
    /\ kind \in AllKinds
    /\ mods \in [DOMAIN mods -> ModuleType]
    /\ loads \in Nat
    /\ heap \subseteq Objects

\* The mod and its children, each with its number, and one map for all.
Family ==
    /\ Own \in DOMAIN mods /\ DOMAIN mods = {Own} \cup mods[Own].children
    /\ Own \notin mods[Own].children
    /\ ~mods[Own].parent /\ mods[Own].map.what = "map" /\ mods[Own].map.load < loads
    /\ \A m \in DOMAIN mods :
          /\ m \in Numbers /\ mods[m].number = m /\ mods[m].map = mods[Own].map
          /\ m # Own => mods[m].parent /\ mods[m].children = {}

\* What is a module's own can be told from what is another's.
Marked ==
    \A m \in DOMAIN mods :
        /\ mods[m].self.what = "CModuleFile" /\ mods[m].self.of = m
        /\ \A a \in mods[m].archives : a.what = "archive" /\ (a.of = m \/ (m = Own /\ a.of = Other))
        /\ \A t \in mods[m].texts : t.what = "text" /\ t.of = m

Belongings(m) == {mods[m].self} \cup mods[m].archives \cup mods[m].texts

\* What modules own is there, and nothing else but what is lost.
Owned ==
    /\ \A m \in DOMAIN mods : Belongings(m) \subseteq heap
    /\ mods[Own].map \in heap /\ \E o \in heap : o.what = "store"
    /\ \A o \in heap : \/ o.what \in Lent \cup {"unread"} \/ o = mods[Own].map
                       \/ \E m \in DOMAIN mods : o \in Belongings(m)

SourcesFit ==
    \A s \in sources :
        /\ s.map = mods[Own].map /\ s.store \in heap
        /\ s.of \in Numbers \cup {Other} /\ s.mod = s.of /\ s.sga \in {0, 1}
        /\ s.output /\ s.mod = 0 => s.of = Own /\ s.writable

\* Nothing is left of a mod that is closed.
Gone == mods = <<>> /\ sources = {} /\ \A o \in heap : o.what = "unread"

InUse == Family /\ Marked /\ Owned /\ SourcesFit /\ Listed(todo, DOMAIN mods)

IInv == TypeInv /\ twice = {} /\ IF stage = "closed" THEN Gone ELSE InUse

\* What the window shows is there, as long as it can be used.
Shown ==
    /\ stage = "open" => tree = mods[Own].map /\ \A t \in tabs : \E m \in DOMAIN mods : t \in mods[m].texts
    /\ stage \in {"closed", "loading"} => tabs = {}

-----------------------------------------------------------------------------
(* What a load is to go through *)

LEMMA ItemTyped ==
    ASSUME NEW op \in Ops, NEW of \in Int, NEW num \in Int
    PROVE  /\ Item(op, of, num) \in Items
           /\ Item(op, of, num).op = op /\ Item(op, of, num).of = of
  BY DEF Item, Items

LEMMA ListedConcat ==
    ASSUME NEW there, NEW s, NEW t, Listed(s, there), Listed(t, there),
           \A i \in 1..Len(s), j \in 1..Len(t) :
              MakesChild(s[i]) /\ MakesChild(t[j]) => s[i].of # t[j].of
    PROVE  Listed(s \o t, there)
<1>1. /\ s \in Seq(Items) /\ t \in Seq(Items) /\ Len(s) \in Nat /\ Len(t) \in Nat
  BY LenProperties DEF Listed
<1>2. /\ s \o t \in Seq(Items) /\ Len(s \o t) = Len(s) + Len(t)
      /\ \A i \in 1..Len(s) + Len(t) : (s \o t)[i] = IF i <= Len(s) THEN s[i] ELSE t[i - Len(s)]
  BY <1>1, ConcatProperties
<1> DEFINE u == s \o t
<1>3. ASSUME NEW i \in 1..Len(u)
      PROVE  \/ i \in 1..Len(s) /\ u[i] = s[i]
             \/ i - Len(s) \in 1..Len(t) /\ u[i] = t[i - Len(s)]
  <2> HIDE DEF u
  <2>1. /\ u[i] = IF i <= Len(s) THEN s[i] ELSE t[i - Len(s)]
        /\ i \in 1..Len(s) + Len(t)
    BY <1>2 DEF u
  <2> QED BY <1>1, <2>1
<1> HIDE DEF u
<1>4. \A i \in 1..Len(u) : ItemFits(u[i], there)
  BY <1>3 DEF Listed
<1>5. ASSUME NEW i \in 1..Len(u), NEW j \in 1..Len(u), i # j, MakesChild(u[i]), MakesChild(u[j])
      PROVE  u[i].of # u[j].of
  <2>1. CASE i \in 1..Len(s) /\ u[i] = s[i] /\ j \in 1..Len(s) /\ u[j] = s[j]
    BY <1>5, <2>1 DEF Listed
  <2>2. CASE /\ i - Len(s) \in 1..Len(t) /\ u[i] = t[i - Len(s)]
             /\ j - Len(s) \in 1..Len(t) /\ u[j] = t[j - Len(s)]
    <3>1. i - Len(s) # j - Len(s)
      BY <1>1, <1>5
    <3> QED BY <1>5, <2>2, <3>1 DEF Listed
  <2>3. CASE i \in 1..Len(s) /\ u[i] = s[i] /\ j - Len(s) \in 1..Len(t) /\ u[j] = t[j - Len(s)]
    BY <1>5, <2>3
  <2>4. CASE i - Len(s) \in 1..Len(t) /\ u[i] = t[i - Len(s)] /\ j \in 1..Len(s) /\ u[j] = s[j]
    BY <1>5, <2>4
  <2> QED BY <1>3, <2>1, <2>2, <2>3, <2>4
<1> QED BY <1>2, <1>4, <1>5 DEF Listed, u

\* Items that make no module can stand anywhere.
Plain(s, there) == Listed(s, there) /\ \A i \in 1..Len(s) : ~MakesChild(s[i])

LEMMA PlainConcat ==
    ASSUME NEW there, NEW s, NEW t, Plain(s, there), Plain(t, there)
    PROVE  Plain(s \o t, there)
<1>1. Listed(s \o t, there)
  BY ListedConcat DEF Plain
<1>2. /\ s \in Seq(Items) /\ t \in Seq(Items) /\ Len(s) \in Nat /\ Len(t) \in Nat
  BY LenProperties DEF Listed, Plain
<1>3. /\ Len(s \o t) = Len(s) + Len(t)
      /\ \A i \in 1..Len(s) + Len(t) : (s \o t)[i] = IF i <= Len(s) THEN s[i] ELSE t[i - Len(s)]
  BY <1>2, ConcatProperties
<1> QED BY <1>1, <1>2, <1>3 DEF Plain

LEMMA PlainListed ==
    ASSUME NEW there, NEW s, NEW t, Listed(t, there), Plain(s, there)
    PROVE  Listed(s \o t, there) /\ Listed(t \o s, there)
  BY ListedConcat DEF Plain

LEMMA ListedTail ==
    ASSUME NEW there, NEW s, Listed(s, there), s # <<>>
    PROVE  /\ Head(s) \in Items /\ ItemFits(Head(s), there)
           /\ Listed(Tail(s), there)
           /\ MakesChild(Head(s)) => Listed(Tail(s), there \cup {Head(s).of})
<1>1. s \in Seq(Items) /\ Len(s) \in Nat
  BY LenProperties DEF Listed
<1>2. /\ Head(s) \in Items /\ Tail(s) \in Seq(Items) /\ Len(Tail(s)) = Len(s) - 1
      /\ \A i \in 1..Len(Tail(s)) : Tail(s)[i] = s[i + 1]
  BY <1>1, HeadTailProperties
<1>3. Head(s) = s[1] /\ 1 \in 1..Len(s)
  BY <1>1, EmptySeq DEF Listed
<1>4. \A i \in 1..Len(Tail(s)) : i + 1 \in 1..Len(s) /\ i + 1 # 1 /\ Tail(s)[i] = s[i + 1]
  BY <1>1, <1>2
<1>5. \A i, j \in 1..Len(Tail(s)) : i # j => i + 1 # j + 1
  BY <1>1, <1>2
<1>6. Listed(Tail(s), there)
  BY <1>2, <1>4, <1>5 DEF Listed
<1>7. ASSUME MakesChild(Head(s)), NEW i \in 1..Len(Tail(s))
      PROVE  ItemFits(Tail(s)[i], there \cup {Head(s).of})
  <2>1. ItemFits(Tail(s)[i], there)
    BY <1>6 DEF Listed
  <2>2. MakesChild(Tail(s)[i]) => Tail(s)[i].of # Head(s).of
    BY <1>3, <1>4, <1>7 DEF Listed
  <2> QED BY <2>1, <2>2 DEF ItemFits
<1> QED BY <1>2, <1>3, <1>6, <1>7 DEF Listed

Fitting(i, there) == i \in Items /\ ~MakesChild(i) /\ i.of \in there

LEMMA FourPlain ==
    ASSUME NEW there, NEW a, NEW b, NEW c, NEW d,
           Fitting(a, there), Fitting(b, there), Fitting(c, there), Fitting(d, there)
    PROVE  Plain(<<a, b, c, d>>, there)
<1>1. \A i \in {a, b, c, d} : i \in Items /\ ItemFits(i, there) /\ ~MakesChild(i)
  BY DEF Fitting, ItemFits
<1> QED BY <1>1 DEF Plain, Listed

LEMMA ThreePlain ==
    ASSUME NEW there, NEW a, NEW b, NEW c,
           Fitting(a, there), Fitting(b, there), Fitting(c, there)
    PROVE  Plain(<<a, b, c>>, there)
<1>1. \A i \in {a, b, c} : i \in Items /\ ItemFits(i, there) /\ ~MakesChild(i)
  BY DEF Fitting, ItemFits
<1> QED BY <1>1 DEF Plain, Listed

LEMMA OnePlain == ASSUME NEW there, NEW a, Fitting(a, there) PROVE Plain(<<a>>, there)
  BY DEF Plain, Listed, Fitting, ItemFits

LEMMA DowPlain ==
    ASSUME NEW there, there \subseteq Int, NEW of \in there
    PROVE  Plain(DowItems(of), there) /\ Plain(EngineItems(of), there) /\ Plain(EarlyItems(of), there)
<1>1. /\ Fitting(Item("texts", of, 0), there) /\ Fitting(Item("folder", of, 15000), there)
      /\ Fitting(Item("output", of, 15001), there) /\ Fitting(Item("archive", of, 15001), there)
      /\ Fitting(Item("output", of, 15000), there) /\ Fitting(Item("directory", of, 15000), there)
  BY ItemTyped DEF Fitting, MakesChild, Ops
<1>2. Plain(DowItems(of), there)
  BY <1>1, FourPlain DEF DowItems
<1>3. Plain(EngineItems(of), there)
  BY <1>1, ThreePlain DEF EngineItems
<1>4. Plain(EarlyItems(of), there)
  BY <1>1, FourPlain DEF EarlyItems
<1> QED BY <1>2, <1>3, <1>4

LEMMA GenericPlain ==
    ASSUME NEW there, there \subseteq Int, NEW of \in there
    PROVE  Plain(<<Item("generic", of, 99)>>, there)
<1>1. Fitting(Item("generic", of, 99), there)
  BY ItemTyped DEF Fitting, MakesChild, Ops
<1> QED BY <1>1, OnePlain

\* A child's load has no children in it.
LEMMA ChildPlain ==
    ASSUME NEW there, there \subseteq Int, NEW i, i.of \in there
    PROVE  Plain(ChildItems(i), there)
<1>1. Plain(<<Item("generic", i.of, 99)>>, there)
  BY GenericPlain
<1>2. /\ Plain(DowItems(i.of), there) /\ Plain(EngineItems(i.of), there)
      /\ Plain(EarlyItems(i.of), there)
  BY DowPlain
<1> QED BY <1>1, <1>2, PlainConcat DEF ChildItems

\* The items for a Company of Heroes mod's own files.
LEMMA CohPlain == ASSUME LoadAssumption PROVE Plain(CohItems, {Own})
<1> DEFINE of(d) == IF d.own THEN Own ELSE Other
           folder(d) == Item(IF d.num < 2 THEN "output" ELSE "folder", of(d), 15000 + d.num)
           archive(d) == Item("archive", of(d), 15000 + 500 * d.num + 1)
           folders == [i \in DOMAIN DataSources |-> folder(DataSources[i])]
           archives == [i \in DOMAIN DataSources |-> archive(DataSources[i])]
<1>1. /\ DOMAIN DataSources = 1..Len(DataSources) /\ Len(DataSources) \in Nat
      /\ \A i \in DOMAIN DataSources : DataSources[i] \in [num : Nat, own : BOOLEAN]
  <2> DEFINE D == [num : Nat, own : BOOLEAN]
  <2>1. DataSources \in Seq(D)
    BY DEF LoadAssumption
  <2> HIDE DEF D
  <2>2. /\ DOMAIN DataSources = 1..Len(DataSources) /\ Len(DataSources) \in Nat
        /\ \A i \in DOMAIN DataSources : DataSources[i] \in D
    BY <2>1, LenProperties, ElementOfSeq
  <2> QED BY <2>2 DEF D
<1>2. ASSUME NEW d \in [num : Nat, own : BOOLEAN]
      PROVE  /\ folder(d) \in Items /\ ItemFits(folder(d), {Own}) /\ ~MakesChild(folder(d))
             /\ archive(d) \in Items /\ ItemFits(archive(d), {Own}) /\ ~MakesChild(archive(d))
  BY DEF Item, Items, Ops, ItemFits, MakesChild, Own, Other
<1> HIDE DEF folder, archive
<1>3. Plain(folders, {Own})
  <2>1. folders \in Seq(Items) /\ Len(folders) = Len(DataSources)
    BY <1>1, <1>2
  <2> QED BY <1>1, <1>2, <2>1 DEF Plain, Listed
<1>4. Plain(archives, {Own})
  <2>1. archives \in Seq(Items) /\ Len(archives) = Len(DataSources)
    BY <1>1, <1>2
  <2> QED BY <1>1, <1>2, <2>1 DEF Plain, Listed
<1>5. Plain(<<Item("texts", Own, 0)>>, {Own}) /\ Plain(<<Item("packs", Other, 15000)>>, {Own})
  <2>1. \A i \in {Item("texts", Own, 0), Item("packs", Other, 15000)} :
           i \in Items /\ ItemFits(i, {Own}) /\ ~MakesChild(i)
    BY ItemTyped DEF ItemFits, MakesChild, Own, Other, Ops
  <2> QED BY <2>1 DEF Plain, Listed
<1>6. Plain(<<Item("texts", Own, 0)>> \o folders \o archives \o <<Item("packs", Other, 15000)>>, {Own})
  <2> HIDE DEF folders, archives
  <2> QED BY <1>3, <1>4, <1>5, PlainConcat
<1> QED BY <1>6 DEF CohItems, folder, archive

\* The required mods, each with its number.
RequiredItems == [i \in DOMAIN Requireds |-> Item("required", 15000 + Requireds[i], 0)]

LEMMA NumbersDiffer ==
    /\ Numbers \subseteq Int /\ Own \in Int /\ Engine \in Int /\ RelicOnline \in Int /\ Other \in Int
    /\ Own # Engine /\ Own # RelicOnline /\ Engine # RelicOnline
    /\ Own \notin RequiredNumbers /\ Engine \notin RequiredNumbers /\ RelicOnline \notin RequiredNumbers
    /\ Other \notin Numbers
<1>1. /\ Own \in Int /\ Engine \in Int /\ RelicOnline \in Int /\ Other \in Int
      /\ Own # Engine /\ Own # RelicOnline /\ Engine # RelicOnline
      /\ Other # Own /\ Other # Engine /\ Other # RelicOnline
  BY DEF Own, Engine, RelicOnline, Other
<1>2. ASSUME NEW l \in LineNumbers
      PROVE  /\ 15000 + l \in Int
             /\ 15000 + l # Own /\ 15000 + l # Other /\ 15000 + l # RelicOnline /\ 15000 + l # Engine
  <2>1. l \in Int /\ 1 <= l /\ l <= 14999
    BY DEF LineNumbers
  <2>2. 15000 + l \in Int
    BY <2>1
  <2>3. 15000 + l # Own /\ 15000 + l # Other
    BY <2>1 DEF Own, Other
  <2>4. 15000 + l # RelicOnline /\ 15000 + l # Engine
    BY <2>1 DEF RelicOnline, Engine
  <2> QED BY <2>2, <2>3, <2>4
<1> QED BY <1>1, <1>2 DEF Numbers, RequiredNumbers

LEMMA RequiredFits ==
    ASSUME NEW n \in RequiredNumbers
    PROVE  /\ Item("required", n, 0) \in Items /\ Item("required", n, 0).of = n
           /\ ItemFits(Item("required", n, 0), {Own})
<1>1. n \in Int /\ n \in Numbers /\ n # Own
  BY NumbersDiffer DEF Numbers
<1>2. Item("required", n, 0) \in Items /\ Item("required", n, 0).op = "required"
      /\ Item("required", n, 0).of = n
  BY <1>1, ItemTyped DEF Ops
<1> DEFINE r == Item("required", n, 0)
<1> HIDE DEF r
<1>3. r.op = "required" /\ r.of = n
  BY <1>2 DEF r
<1>4. ItemFits(r, {Own})
  BY <1>1, <1>3 DEF ItemFits, MakesChild
<1> QED BY <1>2, <1>4 DEF r

LEMMA RequiredListed ==
    ASSUME LoadAssumption
    PROVE  /\ Listed(RequiredItems, {Own})
           /\ \A i \in 1..Len(RequiredItems) : RequiredItems[i].of \in RequiredNumbers
<1> DEFINE D == LineNumbers
           n(i) == 15000 + Requireds[i]
           item(i) == Item("required", n(i), 0)
           N == DOMAIN Requireds
<1>1. Requireds \in Seq(D) /\ \A i, j \in N : Requireds[i] = Requireds[j] => i = j
  BY DEF LoadAssumption
<1>2. N = 1..Len(Requireds) /\ Len(Requireds) \in Nat /\ \A i \in N : Requireds[i] \in D
  <2> HIDE DEF D
  <2> QED BY <1>1, LenProperties, ElementOfSeq
<1>3. \A p, q \in D : 15000 + p \in RequiredNumbers /\ (p # q => 15000 + p # 15000 + q)
  <2> HIDE DEF n, item, N
  <2>1. ASSUME NEW p \in D PROVE p \in Int /\ 1 <= p /\ p <= 14999
    BY DEF LineNumbers
  <2>2. ASSUME NEW p \in D PROVE 15000 + p \in RequiredNumbers
    BY DEF RequiredNumbers
  <2>3. ASSUME NEW p \in D, NEW q \in D, p # q PROVE 15000 + p # 15000 + q
    BY <2>1, <2>3
  <2> QED BY <2>2, <2>3
<1> HIDE DEF D, N
<1>4. \A i \in N : n(i) \in RequiredNumbers
  BY <1>2, <1>3
<1>5. \A i, j \in N : i # j => n(i) # n(j)
  BY <1>1, <1>2, <1>3
<1> HIDE DEF n
<1>6. ASSUME NEW i \in N
      PROVE  item(i) \in Items /\ item(i).of = n(i) /\ ItemFits(item(i), {Own})
  <2> DEFINE k == n(i)
  <2>1. k \in RequiredNumbers
    BY <1>4
  <2> HIDE DEF k
  <2>2. /\ Item("required", k, 0) \in Items /\ Item("required", k, 0).of = k
        /\ ItemFits(Item("required", k, 0), {Own})
    BY <2>1, RequiredFits
  <2> QED BY <2>2 DEF k
<1> HIDE DEF item
<1>7. RequiredItems = [i \in N |-> item(i)]
  BY DEF RequiredItems, n, item, N
<1>8. /\ RequiredItems \in Seq(Items) /\ Len(RequiredItems) = Len(Requireds)
      /\ \A i \in N : RequiredItems[i] = item(i)
  BY <1>2, <1>6, <1>7
<1>9. N = 1..Len(RequiredItems)
  BY <1>2, <1>8
<1>10. \A i \in N : ItemFits(RequiredItems[i], {Own}) /\ RequiredItems[i].of = n(i)
  BY <1>6, <1>8
<1>11. \A i, j \in N : i # j => RequiredItems[i].of # RequiredItems[j].of
  BY <1>5, <1>10
<1> QED BY <1>4, <1>8, <1>9, <1>10, <1>11 DEF Listed

\* Lists that end in engines.
LEMMA EnginesListed ==
    ASSUME NEW a, NEW b, Fitting(a, {Own}), Fitting(b, {Own}), NEW e, NEW r,
           e \in Items, r \in Items, ItemFits(e, {Own}), ItemFits(r, {Own}), e.of # r.of
    PROVE  /\ Listed(<<e>>, {Own}) /\ Listed(<<e, r>>, {Own})
           /\ Listed(<<a, b, e>>, {Own}) /\ Listed(<<a, e, r>>, {Own})
<1>1. /\ a \in Items /\ ItemFits(a, {Own}) /\ ~MakesChild(a)
      /\ b \in Items /\ ItemFits(b, {Own}) /\ ~MakesChild(b)
  BY DEF Fitting, ItemFits
<1> QED BY <1>1 DEF Listed

LEMMA EnginesFit ==
    LET e == Item("engine", Engine, 0)
        r == Item("engine", RelicOnline, 0)
    IN  /\ e \in Items /\ r \in Items /\ e.of # r.of /\ e.of = Engine
        /\ ItemFits(e, {Own}) /\ ItemFits(r, {Own})
<1> DEFINE e == Item("engine", Engine, 0)
           r == Item("engine", RelicOnline, 0)
<1>1. /\ e \in Items /\ r \in Items /\ e.of = Engine /\ r.of = RelicOnline
      /\ e.op = "engine" /\ r.op = "engine"
  BY NumbersDiffer, ItemTyped DEF Ops
<1> HIDE DEF e, r
<1>2. ItemFits(e, {Own}) /\ ItemFits(r, {Own}) /\ e.of # r.of
  BY <1>1, NumbersDiffer DEF ItemFits, MakesChild, Numbers
<1> QED BY <1>1, <1>2 DEF e, r

LEMMA ModListed ==
    ASSUME LoadAssumption, NEW k \in AllKinds
    PROVE  Listed(ModItems(k), {Own})
<1> DEFINE e == Item("engine", Engine, 0)
           r == Item("engine", RelicOnline, 0)
           t == Item("texts", Own, 0)
           a == Item("archive", Own, 15000)
           g == <<Item("generic", Own, 99)>>
           R == RequiredItems
           D == DowItems(Own)
<1>1. Plain(g, {Own}) /\ Plain(D, {Own}) /\ Plain(EarlyItems(Own), {Own})
  BY GenericPlain, DowPlain DEF Own
<1>2. Fitting(t, {Own}) /\ Fitting(a, {Own})
  BY ItemTyped DEF Fitting, MakesChild, Ops, Own
<1>3. /\ e \in Items /\ r \in Items /\ e.of # r.of /\ e.of = Engine
      /\ ItemFits(e, {Own}) /\ ItemFits(r, {Own})
  BY EnginesFit
<1>4. /\ Listed(R, {Own}) /\ \A i \in 1..Len(R) : R[i].of \in RequiredNumbers
  BY RequiredListed
<1> HIDE DEF e, r, t, a, g, R, D
<1>5. /\ Listed(<<e>>, {Own}) /\ Listed(<<e, r>>, {Own})
      /\ Listed(<<t, a, e>>, {Own}) /\ Listed(<<t, e, r>>, {Own})
  BY <1>2, <1>3, EnginesListed
<1>6. CASE k = "DoW"
  <2>1. Listed(R \o <<e>>, {Own})
    <3> DEFINE E == <<e>>
    <3>1. Len(E) = 1 /\ E[1].of = Engine
      BY <1>3
    <3> HIDE DEF E
    <3>2. \A i \in 1..Len(R), j \in 1..Len(E) : R[i].of # E[j].of
      BY <1>4, <3>1, NumbersDiffer
    <3>3. Listed(E, {Own})
      BY <1>5 DEF E
    <3>4. Listed(R \o E, {Own})
      BY <1>4, <3>2, <3>3, ListedConcat
    <3> QED BY <3>4 DEF E
  <2>2. D \o (R \o <<e>>) = D \o R \o <<e>>
    <3>1. D \in Seq(Items) /\ R \in Seq(Items) /\ <<e>> \in Seq(Items)
      BY <1>1, <1>4, <1>5 DEF Listed, Plain
    <3> QED BY <3>1, ConcatAssociative
  <2>3. Listed(D \o (R \o <<e>>), {Own})
    BY <1>1, <2>1, PlainListed
  <2>4. Listed(D \o R \o <<e>> \o g, {Own})
    BY <1>1, <2>2, <2>3, PlainListed
  <2> QED BY <1>6, <2>4 DEF ModItems, RequiredItems, e, g, D, R
<1>7. CASE k = "Early"
  <2>1. Listed(EarlyItems(Own) \o <<e, r>> \o g, {Own})
    BY <1>1, <1>5, PlainListed
  <2> QED BY <1>7, <2>1 DEF ModItems, e, r, g
<1>8. CASE k = "CoH"
  <2>1. Listed(CohItems \o <<e, r>> \o g, {Own})
    BY <1>1, <1>5, CohPlain, PlainListed
  <2> QED BY <1>8, <2>1 DEF ModItems, e, r, g
<1>9. CASE k = "sga2"
  <2>1. Listed(<<t, a, e>> \o g, {Own})
    BY <1>1, <1>5, PlainListed
  <2> QED BY <1>9, <2>1 DEF ModItems, t, a, e, g
<1>10. CASE k = "sga4"
  <2>1. Listed(<<t, e, r>> \o g, {Own})
    BY <1>1, <1>5, PlainListed
  <2> QED BY <1>10, <2>1 DEF ModItems, t, e, r, g
<1> QED BY <1>6, <1>7, <1>8, <1>9, <1>10 DEF AllKinds

-----------------------------------------------------------------------------
(* Who owns what *)

\* The module that an object says it is of.
OwnerOf(o) == IF o.of = Other THEN Own ELSE o.of
Kept == {"CModuleFile", "archive", "text"}

LEMMA BelongingsMarked ==
    ASSUME Family, Marked, NEW m \in DOMAIN mods, NEW o \in Belongings(m)
    PROVE  OwnerOf(o) = m /\ o.what \in Kept
<1>1. m \in Numbers
  BY DEF Family
<1> QED BY <1>1, NumbersDiffer DEF Marked, Belongings, OwnerOf, Kept

LEMMA KeptIsNotLent == Kept \cap (Lent \cup {"map", "unread"}) = {} /\ "map" \notin Lent /\ "unread" \notin Lent
  BY DEF Kept, Lent

LEMMA ObjTyped ==
    ASSUME TypeInv, NEW what \in Whats, NEW of \in Int, NEW num \in Int
    PROVE  /\ Obj(what, of, num) \in Objects
           /\ Obj(what, of, num).what = what /\ Obj(what, of, num).of = of
           /\ Obj(what, of, num).load = loads
<1>1. loads \in Nat
  BY DEF TypeInv
<1> QED BY <1>1 DEF Obj, Objects

\* What is deleted with the mod: the mod's own share and its children's.
LEMMA ChildRemains ==
    ASSUME Family, NEW m \in DOMAIN mods, m # Own
    PROVE  Remains(mods[m]) = Belongings(m)
<1>1. mods[m].parent
  BY DEF Family
<1> QED BY <1>1 DEF Remains, Resources, Belongings

LEMMA OwnShare ==
    ASSUME InUse
    PROVE  /\ Clean = {mods[Own].map} \cup mods[Own].archives \cup mods[Own].texts
           /\ Remains(mods[Own]) = {mods[Own].map} \cup Belongings(Own) \cup {o \in heap : o.what \in Lent}
<1>1. ~mods[Own].parent
  BY DEF InUse, Family
<1> QED BY <1>1 DEF Clean, Remains, Resources, Belongings

LEMMA Deleted ==
    ASSUME InUse, NEW own, own \subseteq {mods[Own].map} \cup Belongings(Own) \cup {o \in heap : o.what \in Lent},
           NEW new, Replace(WithChildren(own), new), twice = {}
    PROVE  /\ heap' = (heap \ (own \cup UNION {Belongings(m) : m \in DOMAIN mods \ {Own}})) \cup new
           /\ twice' = {}
<1> DEFINE f == WithChildren(own)
           all == UNION {f[m] : m \in DOMAIN f}
<1>1. /\ DOMAIN f = DOMAIN mods /\ f[Own] = own /\ Own \in DOMAIN mods
      /\ \A m \in DOMAIN mods : m # Own => f[m] = Belongings(m)
  <2>1. DOMAIN mods = {Own} \cup mods[Own].children /\ Own \in DOMAIN mods
    BY DEF InUse, Family
  <2>2. \A m \in DOMAIN mods : m # Own => Remains(mods[m]) = Belongings(m)
    BY ChildRemains DEF InUse
  <2> QED BY <2>1, <2>2 DEF WithChildren
<1>2. heap' = (heap \ all) \cup new
      /\ twice' = twice \cup (all \ heap)
                   \cup {o \in all : \E m, n \in DOMAIN f : m # n /\ o \in f[m] /\ o \in f[n]}
  BY DEF Replace
<1> HIDE DEF f
<1>3. all = own \cup UNION {Belongings(m) : m \in DOMAIN mods \ {Own}}
  BY <1>1
<1>4. all \subseteq heap
  <2>1. \A m \in DOMAIN mods : Belongings(m) \subseteq heap
    BY DEF InUse, Owned
  <2>2. own \subseteq heap
    BY <1>1, <2>1 DEF InUse, Owned
  <2> QED BY <1>3, <2>1, <2>2
<1>5. ASSUME NEW m \in DOMAIN f, NEW n \in DOMAIN f, m # n, NEW o \in f[m] PROVE o \notin f[n]
  <2>1. ASSUME NEW k \in DOMAIN mods, k # Own, o \in own PROVE o \notin Belongings(k)
    <3>1. CASE o \in Belongings(Own)
      BY <1>1, <2>1, <3>1, BelongingsMarked DEF InUse
    <3>2. CASE o = mods[Own].map \/ o.what \in Lent
      <4>1. o.what \notin Kept
        BY <3>2, KeptIsNotLent DEF InUse, Family
      <4> QED BY <2>1, <4>1, BelongingsMarked DEF InUse
    <3> QED BY <2>1, <3>1, <3>2
  <2>2. CASE m = Own
    BY <1>1, <1>5, <2>1, <2>2
  <2>3. CASE n = Own
    BY <1>1, <1>5, <2>1, <2>3
  <2>4. CASE m # Own /\ n # Own
    BY <1>1, <1>5, <2>4, BelongingsMarked DEF InUse
  <2> QED BY <2>2, <2>3, <2>4
<1>6. twice' = {}
  BY <1>2, <1>4, <1>5
<1> QED BY <1>2, <1>3, <1>6

-----------------------------------------------------------------------------
(* The steps of a load *)

\* What the item at hand is for, and that the rest still fits.
LEMMA Advance ==
    ASSUME IInv, NEW op, Loading(op)
    PROVE  /\ stage = "loading" /\ TypeInv /\ twice = {} /\ InUse
           /\ Now \in Items /\ ItemFits(Now, DOMAIN mods) /\ Now.op = op
           /\ Listed(Tail(todo), DOMAIN mods)
           /\ MakesChild(Now) => Listed(Tail(todo), DOMAIN mods \cup {Now.of})
<1>1. stage = "loading" /\ todo # <<>> /\ Now.op = op
  BY DEF Loading
<1>2. TypeInv /\ twice = {} /\ InUse
  BY <1>1 DEF IInv
<1> QED BY <1>1, <1>2, ListedTail DEF InUse, Now

\* A step that leaves the modules and what is there as they are.
LEMMA Unmoved ==
    ASSUME TypeInv, InUse, twice = {}, UNCHANGED <<kind, loads, mods, heap, twice>>,
           stage' \in {"loading", "open", "ended"}, SourcesFit', Listed(todo', DOMAIN mods)
    PROVE  IInv'
<1>1. TypeInv'
  BY DEF TypeInv
<1>2. Family'
  BY DEF InUse, Family
<1>3. Marked'
  BY DEF InUse, Marked
<1>4. Owned'
  BY DEF InUse, Owned, Belongings
<1>5. Listed(todo, DOMAIN mods)'
  BY DEF Listed, ItemFits
<1> QED BY <1>1, <1>2, <1>3, <1>4, <1>5 DEF IInv, InUse

LEMMA SourcesStay == ASSUME SourcesFit, UNCHANGED <<mods, sources, heap>> PROVE SourcesFit'
  BY DEF SourcesFit

LEMMA PassKeeps == ASSUME IInv, Pass PROVE IInv'
<1>1. PICK op : Loading(op)
  BY DEF Pass
<1>2. /\ todo' = Tail(todo) /\ UNCHANGED <<stage, kind, loads, mods, sources, heap, twice>>
  BY DEF Pass, Go
<1>3. /\ stage = "loading" /\ TypeInv /\ twice = {} /\ InUse /\ Listed(Tail(todo), DOMAIN mods)
  BY <1>1, Advance
<1> QED BY <1>2, <1>3, Unmoved, SourcesStay DEF InUse

LEMMA ListArchivesKeeps == ASSUME IInv, ListArchives PROVE IInv'
<1>1. PICK op \in {"directory", "packs"} : Loading(op)
  BY DEF ListArchives
<1> DEFINE each == Item(IF Now.op = "packs" THEN "pack" ELSE "archive", Now.of, Now.num)
<1>2. /\ stage = "loading" /\ TypeInv /\ twice = {} /\ InUse /\ Listed(Tail(todo), DOMAIN mods)
      /\ Now \in Items /\ ItemFits(Now, DOMAIN mods) /\ Now.op = op
  BY <1>1, Advance
<1>3. /\ todo' \in {<<each>> \o Tail(todo), Tail(todo)}
      /\ UNCHANGED <<stage, kind, loads, mods, sources, heap, twice>>
  BY DEF ListArchives, Go
<1>4. Plain(<<each>>, DOMAIN mods)
  <2>1. Now.of \in DOMAIN mods \cup {Other} /\ Now.of \in Int /\ Now.num \in Int
    BY <1>2 DEF ItemFits, MakesChild, Items
  <2>2. /\ each \in Items /\ each.op \in {"pack", "archive"} /\ each.of = Now.of
    BY <2>1, ItemTyped DEF Ops
  <2> HIDE DEF each
  <2>3. ItemFits(each, DOMAIN mods) /\ ~MakesChild(each)
    BY <2>1, <2>2 DEF ItemFits, MakesChild
  <2> QED BY <2>2, <2>3 DEF Plain, Listed
<1> HIDE DEF each
<1>5. Listed(todo', DOMAIN mods)
  BY <1>2, <1>3, <1>4, PlainListed
<1> QED BY <1>2, <1>3, <1>5, Unmoved, SourcesStay DEF InUse

LEMMA LoadFolderKeeps == ASSUME IInv, LoadFolder PROVE IInv'
<1>1. PICK op \in {"folder", "output", "generic"} : Loading(op)
  BY DEF LoadFolder
<1>2. /\ stage = "loading" /\ TypeInv /\ twice = {} /\ InUse /\ Listed(Tail(todo), DOMAIN mods)
      /\ Now \in Items /\ ItemFits(Now, DOMAIN mods) /\ Now.op = op
  BY <1>1, Advance
<1>3. Now.of \in DOMAIN mods \cup {Other}
  BY <1>2 DEF ItemFits, MakesChild
<1>4. PICK of \in {Now.of, Other} : \E output \in BOOLEAN :
         /\ output => of # Other
         /\ sources' = sources \cup {Source(of, 0, Now.num, Store, output)}
  BY DEF LoadFolder
<1>5. PICK output \in BOOLEAN : /\ output => of # Other
                               /\ sources' = sources \cup {Source(of, 0, Now.num, Store, output)}
  BY <1>4
<1>6. todo' = Tail(todo) /\ UNCHANGED <<stage, kind, loads, mods, heap, twice>>
  BY DEF LoadFolder, Go
<1> DEFINE new == Source(of, 0, Now.num, Store, output)
<1>7. Store \in heap
  BY <1>2 DEF InUse, Owned, Store
<1>8. mods[Loader].map = mods[Own].map
  BY <1>2, <1>3 DEF Loader, InUse, Family
<1>9. /\ new.map = mods[Own].map /\ new.store = Store /\ new.of = of /\ new.sga = 0
      /\ new.mod = RegisteredAs(of) /\ new.output = output
      /\ new.writable <=> of # Other /\ ~mods[of].parent
  BY <1>8 DEF Source
<1>10. of \in DOMAIN mods \cup {Other} /\ RegisteredAs(of) = of /\ of \in Numbers \cup {Other}
  BY <1>2, <1>3 DEF RegisteredAs, InUse, Family
<1> HIDE DEF new
<1>11. SourcesFit'
  <2>1. ASSUME NEW s \in sources'
        PROVE  /\ s.map = mods[Own].map /\ s.store \in heap
               /\ s.of \in Numbers \cup {Other} /\ s.mod = s.of /\ s.sga \in {0, 1}
               /\ s.output /\ s.mod = 0 => s.of = Own /\ s.writable
    <3>1. CASE s \in sources
      BY <1>2, <3>1 DEF InUse, SourcesFit
    <3>2. CASE s = new
      <4>1. of = 0 => of = Own /\ ~mods[of].parent
        BY <1>2, NumbersDiffer DEF InUse, Family, Own
      <4> QED BY <1>5, <1>7, <1>9, <1>10, <3>2, <4>1
    <3> QED BY <1>5, <3>1, <3>2 DEF new
  <2> QED BY <1>6, <2>1 DEF SourcesFit
<1> QED BY <1>2, <1>6, <1>11, Unmoved

\* A module gains archives or texts, which are then there.
LEMMA Gains ==
    ASSUME TypeInv, InUse, twice = {}, stage = "loading", UNCHANGED <<stage, kind, loads, twice>>,
           NEW m \in DOMAIN mods, NEW A, NEW T, A \cup T \subseteq Objects,
           \A a \in A : a.what = "archive" /\ (a.of = m \/ (m = Own /\ a.of = Other)),
           \A t \in T : t.what = "text" /\ t.of = m,
           mods' = [mods EXCEPT ![m] = [mods[m] EXCEPT !.archives = @ \cup A, !.texts = @ \cup T]],
           heap' = heap \cup A \cup T,
           SourcesFit', Listed(todo', DOMAIN mods)
    PROVE  IInv'
<1>1. /\ DOMAIN mods' = DOMAIN mods
      /\ mods'[m] = [mods[m] EXCEPT !.archives = @ \cup A, !.texts = @ \cup T]
      /\ \A n \in DOMAIN mods : n # m => mods'[n] = mods[n]
      /\ mods' = [n \in DOMAIN mods |-> mods'[n]]
  OBVIOUS
<1>2. \A n \in DOMAIN mods : mods[n] \in ModuleType
  BY DEF TypeInv
<1>3. /\ mods'[m] \in ModuleType
      /\ mods'[m].self = mods[m].self /\ mods'[m].number = mods[m].number
      /\ mods'[m].parent = mods[m].parent /\ mods'[m].map = mods[m].map
      /\ mods'[m].children = mods[m].children
      /\ mods'[m].archives = mods[m].archives \cup A /\ mods'[m].texts = mods[m].texts \cup T
  <2> DEFINE f == mods[m]
  <2>1. f \in ModuleType
    BY <1>2
  <2>2. mods'[m] = [f EXCEPT !.archives = @ \cup A, !.texts = @ \cup T]
    BY <1>1
  <2> HIDE DEF f
  <2> QED BY <2>1, <2>2 DEF ModuleType, f
<1>4. \A n \in DOMAIN mods :
         /\ mods'[n] \in ModuleType
         /\ mods'[n].self = mods[n].self /\ mods'[n].number = mods[n].number
         /\ mods'[n].parent = mods[n].parent /\ mods'[n].map = mods[n].map
         /\ mods'[n].children = mods[n].children
         /\ mods'[n].archives = mods[n].archives \cup (IF n = m THEN A ELSE {})
         /\ mods'[n].texts = mods[n].texts \cup (IF n = m THEN T ELSE {})
  <2> SUFFICES ASSUME NEW n \in DOMAIN mods
               PROVE  /\ mods'[n] \in ModuleType
                      /\ mods'[n].self = mods[n].self /\ mods'[n].number = mods[n].number
                      /\ mods'[n].parent = mods[n].parent /\ mods'[n].map = mods[n].map
                      /\ mods'[n].children = mods[n].children
                      /\ mods'[n].archives = mods[n].archives \cup (IF n = m THEN A ELSE {})
                      /\ mods'[n].texts = mods[n].texts \cup (IF n = m THEN T ELSE {})
    OBVIOUS
  <2>1. CASE n = m
    BY <1>3, <2>1
  <2>2. CASE n # m
    <3>1. mods'[n] = mods[n] /\ mods[n] \in ModuleType
      BY <1>1, <1>2, <2>2
    <3> QED BY <2>2, <3>1
  <2> QED BY <2>1, <2>2
<1>5. TypeInv'
  <2>1. mods' \in [DOMAIN mods' -> ModuleType]
    BY <1>1, <1>4
  <2> QED BY <2>1 DEF TypeInv
<1>6. Family'
  <2>1. Own \in DOMAIN mods
    BY DEF InUse, Family
  <2>2. /\ mods'[Own].children = mods[Own].children /\ mods'[Own].parent = mods[Own].parent
        /\ mods'[Own].map = mods[Own].map
    BY <1>4, <2>1
  <2>3. \A n \in DOMAIN mods' :
           /\ n \in Numbers /\ mods'[n].number = n /\ mods'[n].map = mods'[Own].map
           /\ n # Own => mods'[n].parent /\ mods'[n].children = {}
    BY <1>1, <1>4, <2>2 DEF InUse, Family
  <2>4. /\ DOMAIN mods = {Own} \cup mods[Own].children /\ Own \notin mods[Own].children
        /\ ~mods[Own].parent /\ mods[Own].map.what = "map" /\ mods[Own].map.load < loads
    BY DEF InUse, Family
  <2>5. /\ DOMAIN mods' = {Own} \cup mods'[Own].children /\ Own \notin mods'[Own].children
        /\ ~mods'[Own].parent /\ mods'[Own].map.what = "map" /\ mods'[Own].map.load < loads'
    BY <1>1, <2>2, <2>4
  <2> QED BY <1>1, <2>1, <2>3, <2>5 DEF Family
<1>7. Marked'
  BY <1>1, <1>4 DEF InUse, Marked
<1>8. Owned'
  <2>1. Own \in DOMAIN mods /\ mods'[Own].map = mods[Own].map
    BY <1>4 DEF InUse, Family
  <2>2. \A n \in DOMAIN mods : Belongings(n)' = Belongings(n) \cup (IF n = m THEN A \cup T ELSE {})
    BY <1>4 DEF Belongings
  <2>3. \A n \in DOMAIN mods' : Belongings(n)' \subseteq heap'
    BY <1>1, <2>2 DEF InUse, Owned
  <2>4. mods'[Own].map \in heap' /\ \E o \in heap' : o.what = "store"
    BY <2>1 DEF InUse, Owned
  <2>5. \A o \in heap' : \/ o.what \in Lent \cup {"unread"} \/ o = mods'[Own].map
                         \/ \E n \in DOMAIN mods' : o \in Belongings(n)'
    BY <1>1, <2>1, <2>2 DEF InUse, Owned
  <2> QED BY <2>3, <2>4, <2>5 DEF Owned, Belongings
<1>9. Listed(todo, DOMAIN mods)'
  BY <1>1 DEF Listed, ItemFits
<1> QED BY <1>5, <1>6, <1>7, <1>8, <1>9 DEF IInv, InUse

LEMMA LoadTextsKeeps == ASSUME IInv, LoadTexts PROVE IInv'
<1>1. /\ stage = "loading" /\ TypeInv /\ twice = {} /\ InUse /\ Listed(Tail(todo), DOMAIN mods)
      /\ Now \in Items /\ ItemFits(Now, DOMAIN mods) /\ Now.op = "texts"
  BY Advance DEF LoadTexts
<1> DEFINE text == Obj("text", Now.of, 0)
<1>2. Now.of \in DOMAIN mods /\ Now.of \in Int
  BY <1>1 DEF ItemFits, Items
<1>3. text \in Objects /\ text.what = "text" /\ text.of = Now.of
  <2> DEFINE of == Now.of
  <2> HIDE DEF of
  <2>1. Obj("text", of, 0) \in Objects /\ Obj("text", of, 0).what = "text" /\ Obj("text", of, 0).of = of
    BY <1>1, <1>2, ObjTyped DEF Whats, of
  <2> QED BY <2>1 DEF of
<1>4. /\ mods' = [mods EXCEPT ![Now.of].texts = @ \cup {text}] /\ heap' = heap \cup {text}
      /\ todo' = Tail(todo) /\ UNCHANGED <<stage, kind, loads, twice, sources>>
  BY DEF LoadTexts, Make, Go
<1> HIDE DEF text
<1>5. mods' = [mods EXCEPT ![Now.of] = [mods[Now.of] EXCEPT !.archives = @ \cup {}, !.texts = @ \cup {text}]]
  <2> DEFINE f == mods[Now.of]
  <2>1. f \in ModuleType
    BY <1>1, <1>2 DEF TypeInv
  <2>2. [f EXCEPT !.texts = @ \cup {text}] = [f EXCEPT !.archives = @ \cup {}, !.texts = @ \cup {text}]
    <3> HIDE DEF f
    <3> QED BY <2>1 DEF ModuleType
  <2>3. mods' = [mods EXCEPT ![Now.of] = [f EXCEPT !.texts = @ \cup {text}]]
    BY <1>4
  <2> QED BY <2>2, <2>3
<1>6. SourcesFit'
  <2>1. /\ DOMAIN mods' = DOMAIN mods /\ mods'[Own].map = mods[Own].map
    BY <1>1, <1>4 DEF InUse, Family
  <2> QED BY <1>1, <1>4, <2>1 DEF SourcesFit, InUse
<1> DEFINE A == {}
           T == {text}
<1>7. /\ heap' = heap \cup A \cup T /\ A \cup T \subseteq Objects
      /\ \A t \in T : t.what = "text" /\ t.of = Now.of
      /\ \A a \in A : a.what = "archive" /\ (a.of = Now.of \/ (Now.of = Own /\ a.of = Other))
  BY <1>3, <1>4
<1>8. mods' = [mods EXCEPT ![Now.of] = [mods[Now.of] EXCEPT !.archives = @ \cup A, !.texts = @ \cup T]]
  BY <1>5
<1> HIDE DEF A, T
<1>9. /\ UNCHANGED <<stage, kind, loads, twice>> /\ Listed(todo', DOMAIN mods)
  BY <1>1, <1>4
<1> QED BY <1>1, <1>2, <1>6, <1>7, <1>8, <1>9, Gains

LEMMA LoadArchiveKeeps == ASSUME IInv, LoadArchive PROVE IInv'
<1>1. PICK op \in {"archive", "pack"} : Loading(op)
  BY DEF LoadArchive
<1>2. /\ stage = "loading" /\ TypeInv /\ twice = {} /\ InUse /\ Listed(Tail(todo), DOMAIN mods)
      /\ Now \in Items /\ ItemFits(Now, DOMAIN mods) /\ Now.op = op
  BY <1>1, Advance
<1> DEFINE archive == Obj("archive", Now.of, Now.num)
           new == Source(Now.of, 1, Now.num, archive, FALSE)
<1>3. /\ Now.of \in DOMAIN mods \cup {Other} /\ Now.of \in Int /\ Now.num \in Int
      /\ Own \in DOMAIN mods /\ DOMAIN mods \subseteq Numbers
  BY <1>2 DEF ItemFits, Items, MakesChild, InUse, Family
<1>4. archive \in Objects /\ archive.what = "archive" /\ archive.of = Now.of
  BY <1>2, <1>3, ObjTyped DEF Whats
<1>5. /\ Loader \in DOMAIN mods /\ (Now.of = Loader \/ (Loader = Own /\ Now.of = Other))
      /\ mods[Loader].map = mods[Own].map
  BY <1>2, <1>3 DEF Loader, InUse, Family
<1>6. new.map = mods[Own].map /\ new.store = archive /\ new.of = Now.of /\ new.sga = 1
      /\ new.mod = Now.of /\ new.output = FALSE
  BY <1>2, <1>3, <1>5 DEF Source, RegisteredAs, InUse, Family
<1>7. /\ mods' = [mods EXCEPT ![Loader].archives = @ \cup {archive}] /\ heap' = heap \cup {archive}
      /\ todo' = Tail(todo) /\ UNCHANGED <<stage, kind, loads, twice>>
      /\ sources' = sources \cup {new}
  BY DEF LoadArchive, Make, Go
<1> HIDE DEF archive, new
<1> DEFINE A == {archive}
           T == {}
<1>8. mods' = [mods EXCEPT ![Loader] = [mods[Loader] EXCEPT !.archives = @ \cup A, !.texts = @ \cup T]]
  <2> DEFINE f == mods[Loader]
  <2>1. f \in ModuleType
    BY <1>2, <1>5 DEF TypeInv
  <2>2. [f EXCEPT !.archives = @ \cup A] = [f EXCEPT !.archives = @ \cup A, !.texts = @ \cup T]
    <3> HIDE DEF f
    <3> QED BY <2>1 DEF ModuleType
  <2>3. mods' = [mods EXCEPT ![Loader] = [f EXCEPT !.archives = @ \cup A]]
    BY <1>7
  <2> QED BY <2>2, <2>3
<1>9. SourcesFit'
  <2>1. /\ DOMAIN mods' = DOMAIN mods /\ mods'[Own].map = mods[Own].map
    BY <1>2, <1>7 DEF InUse, Family
  <2>2. \A s \in sources : s \in sources' => s.map = mods[Own].map /\ s.store \in heap'
    BY <1>2, <1>7 DEF InUse, SourcesFit
  <2>3. new.store \in heap' /\ new.of \in Numbers \cup {Other}
    BY <1>3, <1>6, <1>7
  <2> QED BY <1>2, <1>6, <1>7, <2>1, <2>2, <2>3 DEF SourcesFit, InUse
<1>10. /\ heap' = heap \cup A \cup T /\ A \cup T \subseteq Objects
       /\ \A t \in T : t.what = "text" /\ t.of = Loader
       /\ \A a \in A : a.what = "archive" /\ (a.of = Loader \/ (Loader = Own /\ a.of = Other))
  BY <1>4, <1>5, <1>7
<1>11. Listed(todo', DOMAIN mods)
  BY <1>2, <1>7
<1> HIDE DEF A, T
<1> QED BY <1>2, <1>5, <1>7, <1>8, <1>9, <1>10, <1>11, Gains

LEMMA ModuleTyped ==
    ASSUME TypeInv, NEW number \in Numbers, NEW parent \in BOOLEAN, NEW map \in Objects,
           NEW f, f = Module(number, parent, map)
    PROVE  /\ f \in ModuleType /\ f.self \in Objects
           /\ f.self.what = "CModuleFile" /\ f.self.of = number
           /\ f.number = number /\ f.parent = parent /\ f.map = map
           /\ f.archives = {} /\ f.texts = {} /\ f.children = {}
<1>1. number \in Int
  BY NumbersDiffer
<1> DEFINE self == Obj("CModuleFile", number, 0)
<1>2. self \in Objects /\ self.what = "CModuleFile" /\ self.of = number
  BY <1>1, ObjTyped DEF Whats
<1> HIDE DEF self
<1>3. f = [self |-> self, number |-> number, parent |-> parent, map |-> map,
           archives |-> {}, texts |-> {}, children |-> {}]
  BY DEF Module, self
<1> QED BY <1>1, <1>2, <1>3 DEF ModuleType

LEMMA LoadChildKeeps == ASSUME IInv, LoadChild PROVE IInv'
<1>1. PICK op \in {"required", "engine"} : Loading(op)
  BY DEF LoadChild
<1>2. /\ stage = "loading" /\ TypeInv /\ twice = {} /\ InUse
      /\ Now \in Items /\ ItemFits(Now, DOMAIN mods) /\ MakesChild(Now)
      /\ Listed(Tail(todo), DOMAIN mods \cup {Now.of})
  BY <1>1, Advance DEF MakesChild
<1>0. PICK number : number = Now.of
  OBVIOUS
<1> DEFINE child == Child(number)
           own == [mods[Own] EXCEPT !.children = @ \cup {number}]
<1>3. number \in Numbers /\ number # Own /\ number \notin DOMAIN mods /\ Own \in DOMAIN mods
  BY <1>0, <1>2 DEF ItemFits, InUse, Family
<1>4. /\ child \in ModuleType /\ child.self \in Objects
      /\ child.self.what = "CModuleFile" /\ child.self.of = number
      /\ child.number = number /\ child.parent = TRUE /\ child.map = mods[Own].map
      /\ child.archives = {} /\ child.texts = {} /\ child.children = {}
  <2> DEFINE map == mods[Own].map
  <2>1. map \in Objects
    BY <1>2, <1>3 DEF TypeInv, ModuleType
  <2>2. child = Module(number, TRUE, map)
    BY DEF Child
  <2> HIDE DEF map, child
  <2>3. PICK parent \in BOOLEAN : parent = TRUE
    OBVIOUS
  <2>4. /\ child \in ModuleType /\ child.self \in Objects
        /\ child.self.what = "CModuleFile" /\ child.self.of = number
        /\ child.number = number /\ child.parent = parent /\ child.map = map
        /\ child.archives = {} /\ child.texts = {} /\ child.children = {}
    <3>1. child = Module(number, parent, map)
      BY <2>2, <2>3
    <3> QED BY <1>2, <1>3, <2>1, <3>1, ModuleTyped
  <2> QED BY <2>3, <2>4 DEF map
<1>5. /\ own \in ModuleType /\ own.self = mods[Own].self /\ own.number = mods[Own].number
      /\ own.parent = mods[Own].parent /\ own.map = mods[Own].map
      /\ own.archives = mods[Own].archives /\ own.texts = mods[Own].texts
      /\ own.children = mods[Own].children \cup {number}
  <2> DEFINE f == mods[Own]
  <2>1. f \in ModuleType
    BY <1>2, <1>3 DEF TypeInv
  <2> HIDE DEF f
  <2>2. [f EXCEPT !.children = @ \cup {number}] \in ModuleType
    BY <1>3, <2>1 DEF ModuleType
  <2> QED BY <2>1, <2>2 DEF ModuleType, f
<1>6. /\ mods' = [m \in DOMAIN mods \cup {number} |->
                     IF m = number THEN child ELSE IF m = Own THEN own ELSE mods[m]]
      /\ heap' = heap \cup {child.self} /\ todo' = ChildItems(Now) \o Tail(todo)
      /\ UNCHANGED <<stage, kind, loads, sources, twice>>
  BY <1>0 DEF LoadChild, Make, Go
<1> HIDE DEF child, own
<1>7. /\ DOMAIN mods' = DOMAIN mods \cup {number}
      /\ mods'[number] = child /\ mods'[Own] = own
      /\ \A m \in DOMAIN mods : m # Own => mods'[m] = mods[m]
  BY <1>3, <1>6
<1>8. TypeInv'
  <2>1. \A m \in DOMAIN mods' : mods'[m] \in ModuleType
    BY <1>2, <1>4, <1>5, <1>7 DEF TypeInv
  <2>2. mods' \in [DOMAIN mods' -> ModuleType]
    BY <1>6, <2>1
  <2> QED BY <1>2, <1>4, <1>6, <2>2 DEF TypeInv
<1>9. Family'
  <2>1. /\ DOMAIN mods' = {Own} \cup mods'[Own].children /\ Own \notin mods'[Own].children
        /\ ~mods'[Own].parent /\ mods'[Own].map = mods[Own].map
    BY <1>2, <1>3, <1>5, <1>7 DEF InUse, Family
  <2>2. \A m \in DOMAIN mods' :
           /\ m \in Numbers /\ mods'[m].number = m /\ mods'[m].map = mods'[Own].map
           /\ m # Own => mods'[m].parent /\ mods'[m].children = {}
    BY <1>2, <1>3, <1>4, <1>5, <1>7 DEF InUse, Family
  <2> QED BY <1>2, <1>3, <1>6, <1>7, <2>1, <2>2 DEF InUse, Family
<1>10. Marked'
  BY <1>2, <1>4, <1>5, <1>7 DEF InUse, Marked
<1>11. Owned'
  <2>1. /\ Belongings(number)' = {child.self}
        /\ \A m \in DOMAIN mods : Belongings(m)' = Belongings(m)
    BY <1>3, <1>4, <1>5, <1>7 DEF Belongings
  <2>2. mods'[Own].map = mods[Own].map
    BY <1>5, <1>7
  <2>3. \A m \in DOMAIN mods' : Belongings(m)' \subseteq heap'
    BY <1>2, <1>6, <1>7, <2>1 DEF InUse, Owned
  <2>4. \A o \in heap' : \/ o.what \in Lent \cup {"unread"} \/ o = mods'[Own].map
                         \/ \E m \in DOMAIN mods' : o \in Belongings(m)'
    BY <1>2, <1>6, <1>7, <2>1, <2>2 DEF InUse, Owned
  <2>5. mods'[Own].map \in heap' /\ \E o \in heap' : o.what = "store"
    BY <1>2, <1>6, <2>2 DEF InUse, Owned
  <2> QED BY <2>3, <2>4, <2>5 DEF Owned, Belongings
<1>12. SourcesFit'
  <2>1. mods'[Own].map = mods[Own].map
    BY <1>5, <1>7
  <2> QED BY <1>2, <1>6, <2>1 DEF InUse, SourcesFit
<1>13. Listed(todo, DOMAIN mods)'
  <2>1. DOMAIN mods' \subseteq Int /\ Now.of \in DOMAIN mods'
    BY <1>0, <1>2, <1>3, <1>7, NumbersDiffer DEF InUse, Family
  <2>2. Plain(ChildItems(Now), DOMAIN mods')
    BY <2>1, ChildPlain
  <2>3. Listed(Tail(todo), DOMAIN mods')
    BY <1>0, <1>2, <1>7
  <2>4. Listed(todo', DOMAIN mods')
    BY <1>6, <2>2, <2>3, PlainListed
  <2> QED BY <2>4 DEF Listed, ItemFits
<1> QED BY <1>2, <1>6, <1>8, <1>9, <1>10, <1>11, <1>12, <1>13 DEF IInv, InUse

\* The mod and all its children go: only what was lost stays.
LEMMA Closes ==
    ASSUME IInv, stage # "closed", NEW lost, lost \subseteq Objects, \A o \in lost : o.what = "unread",
           Replace(WithChildren(Remains(mods[Own])), lost),
           mods' = <<>>, sources' = {}, stage' = "closed", UNCHANGED <<kind, loads>>
    PROVE  IInv'
<1>1. TypeInv /\ twice = {} /\ InUse
  BY DEF IInv
<1> DEFINE own == Remains(mods[Own])
           gone == own \cup UNION {Belongings(m) : m \in DOMAIN mods \ {Own}}
<1>2. own = {mods[Own].map} \cup Belongings(Own) \cup {o \in heap : o.what \in Lent}
  BY <1>1, OwnShare
<1>3. heap' = (heap \ gone) \cup lost /\ twice' = {}
  <2> HIDE DEF own
  <2>1. Replace(WithChildren(own), lost)
    BY DEF own
  <2> QED BY <1>1, <1>2, <2>1, Deleted
<1>4. \A o \in heap \ gone : o.what = "unread"
  <2> HIDE DEF own
  <2>1. ASSUME NEW o \in heap, NEW m \in DOMAIN mods, o \in Belongings(m) PROVE o \in gone
    BY <1>2, <2>1
  <2>2. \A o \in heap : o.what \in Lent \/ o = mods[Own].map => o \in gone
    BY <1>2
  <2> QED BY <1>1, <2>1, <2>2 DEF InUse, Owned
<1> HIDE DEF own
<1>5. \A o \in heap' : o.what = "unread"
  BY <1>3, <1>4
<1>6. TypeInv'
  <2>1. mods' \in [DOMAIN mods' -> ModuleType]
    <3>1. DOMAIN <<>> = {}
      OBVIOUS
    <3>2. <<>> \in [{} -> ModuleType]
      OBVIOUS
    <3> QED BY <3>1, <3>2
  <2> HIDE DEF gone
  <2> QED BY <1>1, <1>3, <2>1 DEF TypeInv
<1> QED BY <1>3, <1>5, <1>6 DEF IInv, Gone

LEMMA ThrowKeeps == ASSUME IInv, Throw PROVE IInv'
<1>1. PICK op : Loading(op)
  BY DEF Throw
<1>2. /\ stage = "loading" /\ TypeInv /\ twice = {} /\ InUse /\ Now \in Items
  BY <1>1, Advance
<1> DEFINE lost == IF Now.op = "required" THEN {Obj("unread", Now.of, 0)} ELSE {}
<1>3. lost \subseteq Objects /\ \A o \in lost : o.what = "unread"
  <2> DEFINE of == Now.of
             o == Obj("unread", of, 0)
  <2>1. of \in Int
    BY <1>2 DEF Items
  <2> HIDE DEF of
  <2>2. o \in Objects /\ o.what = "unread"
    BY <1>2, <2>1, ObjTyped DEF Whats
  <2>3. lost \subseteq {o}
    BY DEF of
  <2> HIDE DEF o, lost
  <2> QED BY <2>2, <2>3
<1>4. CASE tree = Null
  <2>1. /\ stage' = "closed" /\ Replace(WithChildren(Remains(mods[Own])), lost)
        /\ mods' = <<>> /\ sources' = {} /\ UNCHANGED <<kind, loads>>
    BY <1>4 DEF Throw
  <2> HIDE DEF lost
  <2> QED BY <1>2, <1>3, <2>1, Closes
<1>5. CASE tree # Null
  <2>1. /\ stage' = "ended" /\ heap' = heap \cup lost /\ todo' = <<>>
        /\ UNCHANGED <<kind, loads, mods, sources, twice>>
    BY <1>5 DEF Throw, Make
  <2> HIDE DEF lost
  <2>2. TypeInv'
    BY <1>2, <1>3, <2>1 DEF TypeInv
  <2>3. Family' /\ Marked'
    BY <1>2, <2>1 DEF InUse, Family, Marked
  <2>4. Owned'
    BY <1>2, <1>3, <2>1 DEF InUse, Owned, Belongings
  <2>5. SourcesFit'
    BY <1>2, <2>1 DEF InUse, SourcesFit
  <2>6. Listed(todo, DOMAIN mods)'
    BY <2>1 DEF Listed
  <2> QED BY <1>2, <2>1, <2>2, <2>3, <2>4, <2>5, <2>6 DEF IInv, InUse
<1> QED BY <1>4, <1>5

\* Show, OpenText, CloseText and what changes nothing.
LEMMA WindowKeeps ==
    ASSUME IInv, UNCHANGED <<kind, mods, sources, todo, loads, heap, twice>>,
           \/ stage # "closed" /\ stage' \in {"loading", "open", "ended"}
           \/ stage' = stage
    PROVE  IInv'
<1>1. CASE stage = "closed"
  BY <1>1 DEF IInv, TypeInv, Gone
<1>2. CASE stage # "closed"
  <2>1. TypeInv /\ twice = {} /\ InUse /\ stage' \in {"loading", "open", "ended"}
    BY <1>2 DEF IInv, TypeInv
  <2> QED BY <2>1, SourcesStay, Unmoved DEF InUse
<1> QED BY <1>1, <1>2

LEMMA CloseModKeeps == ASSUME IInv, CloseMod PROVE IInv'
<1> DEFINE lost == {}
<1>1. /\ stage = "open" /\ stage' = "closed" /\ Replace(WithChildren(Remains(mods[Own])), lost)
      /\ mods' = <<>> /\ sources' = {} /\ UNCHANGED <<kind, loads>>
  BY DEF CloseMod
<1>2. lost \subseteq Objects /\ \A o \in lost : o.what = "unread"
  OBVIOUS
<1> HIDE DEF lost
<1> QED BY <1>1, <1>2, Closes

LEMMA OpenKeeps == ASSUME LoadAssumption, IInv, NEW k \in Kinds, Open(k) PROVE IInv'
<1> DEFINE map == Obj("map", Own, 0)
           own == Module(Own, FALSE, map)
           lent == {Obj(what, Own, 0) : what \in Lent}
<1>1. TypeInv /\ twice = {} /\ Gone
  BY DEF IInv, Open
<1>2. /\ mods' = [m \in {Own} |-> own] /\ heap' = heap \cup {own.self, own.map} \cup lent
      /\ kind' = k /\ stage' = "loading" /\ loads' = loads + 1 /\ UNCHANGED <<sources, twice>>
      /\ todo' = IF k \in {"sga2", "sga4"} THEN <<Item("archive", Own, 0)>> ELSE ModItems(k)
  BY DEF Open
<1>3. map \in Objects /\ map.what = "map" /\ map.load = loads
  BY <1>1, NumbersDiffer, ObjTyped DEF Whats
<1>4. /\ lent \subseteq Objects /\ \A o \in lent : o.what \in Lent
      /\ \E o \in lent : o.what = "store"
  <2>1. \A what \in Lent : Obj(what, Own, 0) \in Objects /\ Obj(what, Own, 0).what = what
    BY <1>1, NumbersDiffer, ObjTyped DEF Lent, Whats
  <2>2. "store" \in Lent
    BY DEF Lent
  <2> QED BY <2>1, <2>2
<1> HIDE DEF map, lent
<1>5. /\ own \in ModuleType /\ own.self \in Objects
      /\ own.self.what = "CModuleFile" /\ own.self.of = Own
      /\ own.number = Own /\ own.parent = FALSE /\ own.map = map
      /\ own.archives = {} /\ own.texts = {} /\ own.children = {}
  <2>1. PICK parent \in BOOLEAN : parent = FALSE
    OBVIOUS
  <2>2. own = Module(Own, parent, map)
    BY <2>1
  <2> HIDE DEF own
  <2>3. Own \in Numbers
    BY DEF Numbers
  <2>4. /\ own \in ModuleType /\ own.self \in Objects
        /\ own.self.what = "CModuleFile" /\ own.self.of = Own
        /\ own.number = Own /\ own.parent = parent /\ own.map = map
        /\ own.archives = {} /\ own.texts = {} /\ own.children = {}
    BY <1>1, <1>3, <2>2, <2>3, ModuleTyped
  <2> QED BY <2>1, <2>4
<1> HIDE DEF own
<1>6. DOMAIN mods' = {Own} /\ mods'[Own] = own
  BY <1>2
<1>7. k \in AllKinds
  BY DEF LoadAssumption
<1>8. loads \in Nat /\ loads + 1 \in Nat /\ loads < loads + 1
  BY <1>1 DEF TypeInv
<1>9. TypeInv'
  <2>1. mods' \in [DOMAIN mods' -> ModuleType]
    BY <1>2, <1>5
  <2> QED BY <1>1, <1>2, <1>3, <1>4, <1>5, <1>7, <1>8, <2>1 DEF TypeInv
<1>10. Family'
  <2>1. mods'[Own].map.load < loads'
    BY <1>2, <1>3, <1>5, <1>6, <1>8
  <2> QED BY <1>3, <1>5, <1>6, <2>1 DEF Family, Numbers
<1>11. Marked'
  BY <1>5, <1>6 DEF Marked
<1>12. Owned'
  <2>1. Belongings(Own)' = {own.self}
    BY <1>5, <1>6 DEF Belongings
  <2>2. \A m \in DOMAIN mods' : Belongings(m)' \subseteq heap'
    BY <1>2, <1>6, <2>1
  <2>3. mods'[Own].map \in heap' /\ \E o \in heap' : o.what = "store"
    BY <1>2, <1>4, <1>6
  <2>4. \A o \in heap' : \/ o.what \in Lent \cup {"unread"} \/ o = mods'[Own].map
                         \/ \E m \in DOMAIN mods' : o \in Belongings(m)'
    BY <1>1, <1>2, <1>4, <1>6, <2>1 DEF Gone
  <2> QED BY <2>2, <2>3, <2>4 DEF Owned, Belongings
<1>13. SourcesFit'
  BY <1>1, <1>2 DEF Gone, SourcesFit
<1>14. Listed(todo, DOMAIN mods)'
  <2>1. Listed(ModItems(k), {Own})
    BY <1>7, ModListed
  <2>2. Listed(<<Item("archive", Own, 0)>>, {Own})
    <3>1. Fitting(Item("archive", Own, 0), {Own})
      BY ItemTyped DEF Fitting, MakesChild, Ops, Own
    <3> QED BY <3>1, OnePlain DEF Plain
  <2>3. Listed(todo', DOMAIN mods')
    BY <1>2, <1>6, <2>1, <2>2
  <2> QED BY <2>3 DEF Listed, ItemFits
<1> QED BY <1>1, <1>2, <1>9, <1>10, <1>11, <1>12, <1>13, <1>14 DEF IInv, InUse

\* The map, the archives, the texts and the children go; a new map is made.
LEMMA RefreshKeeps == ASSUME LoadAssumption, IInv, Refresh PROVE IInv'
<1>1. TypeInv /\ twice = {} /\ InUse /\ stage = "open" /\ Own \in DOMAIN mods
  BY DEF IInv, Refresh, InUse, Family
<1> DEFINE map == Obj("map", Own, 0)
           own == [mods[Own] EXCEPT !.map = map, !.archives = {}, !.texts = {}, !.children = {}]
           gone == Clean \cup UNION {Belongings(m) : m \in DOMAIN mods \ {Own}}
<1>2. Clean = {mods[Own].map} \cup mods[Own].archives \cup mods[Own].texts
  BY <1>1, OwnShare
<1>3. /\ Replace(WithChildren(Clean), {map}) /\ mods' = [m \in {Own} |-> own]
      /\ sources' = {s \in sources : s.map = map}
      /\ stage' = "loading" /\ todo' = ModItems(kind) /\ loads' = loads + 1 /\ UNCHANGED kind
  BY <1>2 DEF Refresh
<1>4. map \in Objects /\ map.what = "map" /\ map.load = loads
  BY <1>1, NumbersDiffer, ObjTyped DEF Whats
<1> HIDE DEF map
<1>5. heap' = (heap \ gone) \cup {map} /\ twice' = {}
  <2>1. Clean \subseteq {mods[Own].map} \cup Belongings(Own) \cup {o \in heap : o.what \in Lent}
    BY <1>2 DEF Belongings
  <2> QED BY <1>1, <1>3, <2>1, Deleted
<1>6. /\ own \in ModuleType /\ own.self = mods[Own].self /\ own.number = mods[Own].number
      /\ own.parent = mods[Own].parent /\ own.map = map
      /\ own.archives = {} /\ own.texts = {} /\ own.children = {}
  <2> DEFINE f == mods[Own]
  <2>1. f \in ModuleType
    BY <1>1 DEF TypeInv
  <2> HIDE DEF f
  <2> QED BY <1>4, <2>1 DEF ModuleType, f
<1> HIDE DEF own
<1>7. DOMAIN mods' = {Own} /\ mods'[Own] = own
  BY <1>3
<1>8. loads \in Nat /\ loads + 1 \in Nat /\ loads < loads + 1
  BY <1>1 DEF TypeInv
<1>9. TypeInv'
  <2>1. mods' \in [DOMAIN mods' -> ModuleType]
    BY <1>3, <1>6
  <2> HIDE DEF gone
  <2> QED BY <1>1, <1>3, <1>4, <1>5, <1>8, <2>1 DEF TypeInv
<1>10. Family'
  <2>1. mods'[Own].map.load < loads'
    BY <1>3, <1>4, <1>6, <1>7, <1>8
  <2> QED BY <1>1, <1>4, <1>6, <1>7, <2>1 DEF InUse, Family, Numbers
<1>11. Marked'
  BY <1>1, <1>6, <1>7 DEF InUse, Marked
<1>12. Owned'
  <2>1. Belongings(Own)' = {own.self}
    BY <1>6, <1>7 DEF Belongings
  <2>2. own.self \in heap /\ own.self \notin gone
    <3>1. own.self \in Belongings(Own) /\ own.self \in heap
      BY <1>1, <1>6 DEF Belongings, InUse, Owned
    <3>2. \A m \in DOMAIN mods : m # Own => own.self \notin Belongings(m)
      BY <1>1, <3>1, BelongingsMarked DEF InUse
    <3>3. own.self \notin Clean
      BY <1>1, <1>2, <1>6 DEF InUse, Marked, Family
    <3> QED BY <3>1, <3>2, <3>3
  <2>3. \A m \in DOMAIN mods' : Belongings(m)' \subseteq heap'
    BY <1>5, <1>7, <2>1, <2>2
  <2>4. \E o \in heap' : o.what = "store"
    <3>1. PICK o \in heap : o.what = "store"
      BY <1>1 DEF InUse, Owned
    <3>2. o.what \notin Kept /\ o.what # "map"
      BY <3>1 DEF Kept
    <3>3. \A m \in DOMAIN mods : o \notin Belongings(m)
      BY <1>1, <3>2, BelongingsMarked DEF InUse
    <3>4. o # mods[Own].map /\ o \notin Belongings(Own)
      BY <1>1, <3>2, <3>3 DEF InUse, Family
    <3>5. o \notin gone
      BY <1>2, <3>3, <3>4 DEF Belongings
    <3> QED BY <1>5, <3>1, <3>5
  <2>5. mods'[Own].map \in heap'
    BY <1>5, <1>6, <1>7
  <2>6. \A o \in heap' : \/ o.what \in Lent \cup {"unread"} \/ o = mods'[Own].map
                         \/ \E m \in DOMAIN mods' : o \in Belongings(m)'
    <3> SUFFICES ASSUME NEW o \in heap', o # map, o.what \notin Lent \cup {"unread"}
                 PROVE  o = own.self
      BY <1>6, <1>7, <2>1
    <3>1. o \in heap /\ o \notin gone
      BY <1>5
    <3>2. PICK m \in DOMAIN mods : o \in Belongings(m)
      BY <1>1, <1>2, <3>1 DEF InUse, Owned
    <3>3. m = Own
      BY <3>1, <3>2
    <3> QED BY <1>2, <1>6, <3>1, <3>2, <3>3 DEF Belongings
  <2> QED BY <2>3, <2>4, <2>5, <2>6 DEF Owned, Belongings
<1>13. SourcesFit'
  <2>1. map # mods[Own].map
    BY <1>1, <1>4, <1>8 DEF InUse, Family
  <2>2. sources' = {}
    BY <1>1, <1>3, <2>1 DEF InUse, SourcesFit
  <2> QED BY <2>2 DEF SourcesFit
<1>14. Listed(todo, DOMAIN mods)'
  <2>1. Listed(ModItems(kind), {Own})
    BY <1>1, ModListed DEF TypeInv
  <2>2. Listed(todo', DOMAIN mods')
    BY <1>3, <1>7, <2>1
  <2> QED BY <2>2 DEF Listed, ItemFits
<1> QED BY <1>3, <1>5, <1>9, <1>10, <1>11, <1>12, <1>13, <1>14 DEF IInv, InUse

-----------------------------------------------------------------------------
(* The invariant, and what it says *)

LEMMA InitKeeps == ASSUME Init PROVE IInv
<1>1. mods \in [DOMAIN mods -> ModuleType]
  <2>1. mods = <<>> /\ DOMAIN <<>> = {}
    BY DEF Init
  <2> QED BY <2>1
<1>2. stage = "closed" /\ kind = "DoW" /\ loads = 0 /\ heap = {} /\ twice = {} /\ mods = <<>> /\ sources = {}
  BY DEF Init
<1> QED BY <1>1, <1>2 DEF IInv, TypeInv, Gone, AllKinds

LEMMA StepKeeps == ASSUME LoadAssumption, IInv, [Next]_vars PROVE IInv'
<1>1. ASSUME Show \/ OpenText \/ CloseText \/ UNCHANGED vars PROVE IInv'
  BY <1>1, WindowKeeps DEF Show, OpenText, CloseText, vars
<1>2. ASSUME NEW k \in Kinds, Open(k) PROVE IInv'
  BY <1>2, OpenKeeps
<1> QED BY <1>1, <1>2, PassKeeps, LoadTextsKeeps, LoadFolderKeeps, LoadArchiveKeeps, ListArchivesKeeps,
           LoadChildKeeps, ThrowKeeps, RefreshKeeps, CloseModKeeps DEF Next

\* The tree and the tabs, when none is left open at a refresh.
LEMMA ShownKept == ASSUME IInv, Shown, ~TabsMayStay, [Next]_vars PROVE Shown'
<1>1. ASSUME \/ Pass \/ LoadTexts \/ LoadFolder \/ LoadArchive \/ ListArchives \/ LoadChild
      PROVE  Shown'
  <2>1. stage = "loading" /\ UNCHANGED <<stage, tabs>>
    BY <1>1 DEF Pass, LoadTexts, LoadFolder, LoadArchive, ListArchives, LoadChild, Loading, Go
  <2> QED BY <2>1 DEF Shown
<1>2. ASSUME Throw PROVE Shown'
  <2>1. stage = "loading" /\ stage' \in {"closed", "ended"} /\ UNCHANGED tabs
    BY <1>2 DEF Throw, Loading
  <2> QED BY <2>1 DEF Shown
<1>3. ASSUME Show PROVE Shown'
  BY <1>3 DEF Show, Shown
<1>4. ASSUME NEW k \in Kinds, Open(k) PROVE Shown'
  BY <1>4 DEF Open, Shown
<1>5. ASSUME Refresh PROVE Shown'
  BY <1>5 DEF Refresh, Shown
<1>6. ASSUME OpenText PROVE Shown'
  BY <1>6 DEF OpenText, Shown
<1>7. ASSUME CloseText PROVE Shown'
  BY <1>7 DEF CloseText, Shown
<1>8. ASSUME CloseMod PROVE Shown'
  BY <1>8 DEF CloseMod, Shown
<1>9. ASSUME UNCHANGED vars PROVE Shown'
  BY <1>9 DEF vars, Shown
<1> QED BY <1>1, <1>2, <1>3, <1>4, <1>5, <1>6, <1>7, <1>8, <1>9 DEF Next

LEMMA NothingIsFreedTwice == ASSUME IInv PROVE FreedOnce
  BY DEF IInv, Gone, FreedOnce

LEMMA NoneDangles == ASSUME IInv, Shown PROVE NothingDangles
<1>1. CASE stage = "closed"
  BY <1>1 DEF IInv, Gone, NothingDangles
<1>2. CASE stage # "closed"
  <2>1. InUse
    BY <1>2 DEF IInv
  <2>2. \A m \in DOMAIN mods : {mods[m].self, mods[m].map} \cup mods[m].archives \cup mods[m].texts \subseteq heap
    BY <2>1 DEF InUse, Family, Owned, Belongings
  <2>3. \A s \in sources : {s.map, s.store} \subseteq heap
    BY <2>1 DEF InUse, SourcesFit, Owned
  <2>4. stage = "open" => {tree} \cup tabs \subseteq heap
    BY <2>1, <2>2 DEF Shown, InUse, Family
  <2> QED BY <2>2, <2>3, <2>4 DEF NothingDangles
<1> QED BY <1>1, <1>2

LEMMA OneInFront == ASSUME IInv PROVE InFront
<1>1. CASE stage = "closed"
  BY <1>1 DEF IInv, Gone, InFront
<1>2. CASE stage # "closed"
  <2>1. SourcesFit
    BY <1>2 DEF IInv, InUse
  <2>2. \A n \in Numbers \cup {Other} : n \in Nat /\ n % 32768 = n
    BY DEF Numbers, RequiredNumbers, LineNumbers, Own, Engine, RelicOnline, Other
  <2>3. ASSUME NEW s \in sources, NEW t \in sources, s.of < t.of \/ (s.of = t.of /\ s.sga < t.sga)
        PROVE  Before(s, t)
    <3>1. s.mod % 32768 = s.of /\ t.mod % 32768 = t.of
      BY <2>1, <2>2 DEF SourcesFit
    <3>2. Sort(s)[1] = s.of /\ Sort(t)[1] = t.of /\ Sort(s)[2] = s.sga /\ Sort(t)[2] = t.sga
      BY <3>1 DEF Sort
    <3> DEFINE a == Sort(s)
               b == Sort(t)
    <3>3. a[1] < b[1] \/ (a[1] = b[1] /\ a[2] < b[2])
      BY <2>3, <3>2
    <3> HIDE DEF a, b
    <3>4. \E i \in 1..3 : a[i] < b[i] /\ \A j \in 1..(i - 1) : a[j] = b[j]
      BY <3>3
    <3> QED BY <3>4 DEF Before, a, b
  <2> QED BY <2>1, <2>3 DEF InFront, SourcesFit
<1> QED BY <1>1, <1>2

LEMMA InvariantHolds == ASSUME LoadAssumption PROVE Spec => []IInv
<1>1. Init => IInv BY InitKeeps
<1>2. IInv /\ [Next]_vars => IInv' BY StepKeeps
<1> QED BY <1>1, <1>2, PTL DEF Spec

\* However a load ends, and however often the mod is refreshed, nothing is
\* deleted twice and nothing outlives the mod but the required mod that could
\* not be read (~CModuleFile, _CleanResources, ReloadResources).
THEOREM EachFreedOnce == ASSUME LoadAssumption PROVE Spec => []FreedOnce
<1>1. IInv => FreedOnce BY NothingIsFreedTwice
<1> QED BY <1>1, InvariantHolds, PTL

\* The numbers that ReloadResources gives its sources put the mod before its
\* required mods, these before the engines, and folders before archives, with
\* any number of required mods (SetMod, SetSourceType, SetSourceNumber).
THEOREM OwnFirst == ASSUME LoadAssumption PROVE Spec => []InFront
<1>1. IInv => InFront BY OneInFront
<1> QED BY <1>1, InvariantHolds, PTL

\* Nobody is left with a pointer to something freed, as long as no UCS editor
\* is open when the mod is refreshed (_CleanResources, SetModule).
THEOREM NoneLeftDangling == ASSUME LoadAssumption, ~TabsMayStay PROVE Spec => []NothingDangles
<1>1. Init => IInv /\ Shown
  BY InitKeeps DEF Init, Shown
<1>2. IInv /\ Shown /\ [Next]_vars => IInv' /\ Shown'
  BY StepKeeps, ShownKept
<1>3. IInv /\ Shown => NothingDangles
  BY NoneDangles
<1> QED BY <1>1, <1>2, <1>3, PTL DEF Spec

=============================================================================
