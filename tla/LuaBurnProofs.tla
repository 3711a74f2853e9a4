---------------------------- MODULE LuaBurnProofs ----------------------------
(***************************************************************************)
(* Proofs about LuaBurn, for any files, whatever they inherit and assign.  *)
(*                                                                         *)
(* Every table belongs to the load that made it.  A load writes to its own *)
(* tables only, and a table that a wrap shares belongs to none that runs:  *)
(* so what is in the cache is never written to.  A chain of files ends     *)
(* where a file comes up again, and a file in the cache has GameData if    *)
(* every file that is inherited has.                                       *)
(***************************************************************************)
EXTENDS LuaBurn, SequenceTheorems, WellFoundedInduction, TLAPS

-----------------------------------------------------------------------------
(* Counting up *)

LEMMA Smallest ==
  ASSUME NEW S \in SUBSET Nat, S # {}
  PROVE  \E m \in S : \A n \in S : m <= n
<1>1. \E m \in S : \A n \in S : <<n, m>> \notin OpToRel(<, Nat)
  BY NatLessThanWellFounded, WFMin
<1>2. \A m, n \in Nat : n < m => <<n, m>> \in OpToRel(<, Nat)
  BY DEF OpToRel
<1>3. \A m, n \in S : ~(n < m) => m <= n
  OBVIOUS
<1> QED BY <1>1, <1>2, <1>3

\* What holds of 0 and is passed on holds up to n.
LEMMA Along ==
  ASSUME NEW n \in Nat, NEW P, 0 \in P, \A i \in 1..n : i - 1 \in P => i \in P
  PROVE  \A i \in 0..n : i \in P
<1> DEFINE Bad == {i \in 0..n : i \notin P}
<1>1. SUFFICES ASSUME Bad # {} PROVE FALSE
  OBVIOUS
<1>2. Bad \in SUBSET Nat
  OBVIOUS
<1>3. PICK m \in Bad : \A i \in Bad : m <= i
  BY <1>1, <1>2, Smallest
<1>4. m \in 1..n /\ m - 1 \in 0..n /\ m - 1 \notin Bad
  BY <1>3
<1> QED BY <1>3, <1>4

\* A function can be built value by value.
Built(f, s0, n, g) == f = [i \in 0..n |-> IF i = 0 THEN s0 ELSE g[i][f[i - 1]]]

LEMMA Iterates ==
  ASSUME NEW S, NEW s0 \in S, NEW n \in Nat, NEW g \in [1..n -> [S -> S]]
  PROVE  \E f \in [0..n -> S] : Built(f, s0, n, g)
<1> DEFINE Has(m) == \E f \in [0..m -> S] :
             \A i \in 0..m : f[i] = IF i = 0 THEN s0 ELSE g[i][f[i - 1]]
           P == {m \in 0..n : Has(m)}
<1>1. Has(0)
  <2> WITNESS [i \in 0..0 |-> s0] \in [0..0 -> S]
  <2> QED OBVIOUS
<1>2. ASSUME NEW m \in 1..n, Has(m - 1) PROVE Has(m)
  <2>1. PICK f \in [0..(m - 1) -> S] :
          \A i \in 0..(m - 1) : f[i] = IF i = 0 THEN s0 ELSE g[i][f[i - 1]]
    BY <1>2
  <2> DEFINE h == [i \in 0..m |-> IF i = m THEN g[m][f[m - 1]] ELSE f[i]]
  <2>2. m - 1 \in 0..(m - 1) /\ g[m] \in [S -> S]
    OBVIOUS
  <2>3. h \in [0..m -> S]
    BY <2>2
  <2>4. \A i \in 0..m : h[i] = IF i = 0 THEN s0 ELSE g[i][h[i - 1]]
    <3> TAKE i \in 0..m
    <3>1. CASE i = m
      BY <3>1
    <3>2. CASE i # m
      <4>1. i \in 0..(m - 1) /\ (i # 0 => i - 1 \in 0..m /\ i - 1 # m)
        BY <3>2
      <4> QED BY <2>1, <3>2, <4>1
    <3> QED BY <3>1, <3>2
  <2> QED BY <2>3, <2>4
<1> HIDE DEF Has
<1>3. \A i \in 0..n : i \in P
  <2>1. 0 \in P /\ \A i \in 1..n : i - 1 \in P => i \in P
    BY <1>1, <1>2
  <2> HIDE DEF P
  <2> QED BY <2>1, Along
<1>4. PICK f \in [0..n -> S] : \A i \in 0..n : f[i] = IF i = 0 THEN s0 ELSE g[i][f[i - 1]]
  BY <1>3 DEF Has
<1>5. Built(f, s0, n, g)
  BY <1>4 DEF Built
<1> QED BY <1>5

-----------------------------------------------------------------------------
(* Tables and whose they are *)

Cells == [is : {"atom", "own", "shared"}, of : Values \union {Nil} \union Nat]
Tables == [Keys -> Cells]

\* What a file may have as its GameData: nothing, or a table.
Games(h) == {Atom(Nil)} \union {Own(t) : t \in DOMAIN h}

\* The tables of the loads in `busy' are theirs alone: a table that is owned has
\* the owner of the table it is in, one that is shared is nobody's who runs.
Sound(h, own, busy, m) ==
  /\ h \in Seq(Tables) /\ own \in [DOMAIN h -> 1..m]
  /\ \A t \in DOMAIN h, k \in Keys :
       /\ h[t][k].is # "atom" => h[t][k].of \in DOMAIN h
       /\ h[t][k].is = "own" => own[h[t][k].of] = own[t]
       /\ h[t][k].is = "shared" => own[h[t][k].of] \notin busy

\* From one heap to the next: what is new is L's, what changes was.
Grown(h, own, h2, own2, L) ==
  /\ DOMAIN h \subseteq DOMAIN h2
  /\ \A t \in DOMAIN h : own2[t] = own[t] /\ (own[t] # L => h2[t] = h[t])

\* A cell that may be written to a table of L.
MayHold(h, own, L, c) ==
  c \in Cells /\ (c.is # "atom" => c.is = "own" /\ c.of \in DOMAIN h /\ own[c.of] = L)

\* One more table, which is L's.
OneMore(h, own, busy, m, L, h2) ==
  \E own2 : /\ Sound(h2, own2, busy, m) /\ Grown(h, own, h2, own2, L)
            /\ Len(h2) = Len(h) + 1 /\ Len(h2) \in DOMAIN h2 /\ own2[Len(h2)] = L
            /\ \A t \in DOMAIN h : h2[t] = h[t]

LEMMA GrownAgain ==
  ASSUME NEW h, NEW own, NEW h1, NEW own1, NEW h2, NEW own2, NEW L,
         Grown(h, own, h1, own1, L), Grown(h1, own1, h2, own2, L)
  PROVE  Grown(h, own, h2, own2, L)
BY DEF Grown

LEMMA HoldsOn ==
  ASSUME NEW h, NEW own, NEW h2, NEW own2, NEW L, NEW c,
         Grown(h, own, h2, own2, L), MayHold(h, own, L, c)
  PROVE  MayHold(h2, own2, L, c)
BY DEF Grown, MayHold

\* A new table whose cells are atoms or shared with loads that are over.
LEMMA TableAdded ==
  ASSUME NEW m \in Nat, NEW L \in 1..m, NEW busy, NEW h, NEW own, Sound(h, own, busy, m),
         NEW new \in Tables,
         \A k \in Keys : new[k].is # "atom" =>
           new[k].is = "shared" /\ new[k].of \in DOMAIN h /\ own[new[k].of] \notin busy,
         NEW h2, h2 = Append(h, new)
  PROVE  OneMore(h, own, busy, m, L, h2)
<1>1. h \in Seq(Tables) /\ DOMAIN h = 1..Len(h) /\ Len(h) \in Nat
  BY DEF Sound
<1>2. /\ h2 \in Seq(Tables) /\ Len(h2) = Len(h) + 1 /\ h2[Len(h) + 1] = new
      /\ \A t \in 1..Len(h) : h2[t] = h[t]
  BY <1>1, AppendProperties
<1>3. DOMAIN h2 = 1..(Len(h) + 1)
  BY <1>2
<1> DEFINE own2 == [t \in DOMAIN h2 |-> IF t \in DOMAIN h THEN own[t] ELSE L]
<1>4. own2 \in [DOMAIN h2 -> 1..m]
  BY DEF Sound
<1>5. \A t \in DOMAIN h2 : t \in DOMAIN h \/ (t = Len(h) + 1 /\ t \notin DOMAIN h)
  BY <1>1, <1>3
<1>6. \A t \in DOMAIN h, k \in Keys : h2[t][k] = h[t][k] /\ t \in DOMAIN h2
  BY <1>1, <1>2, <1>3
<1>7. Sound(h2, own2, busy, m)
  <2> SUFFICES ASSUME NEW t \in DOMAIN h2, NEW k \in Keys
               PROVE  /\ h2[t][k].is # "atom" => h2[t][k].of \in DOMAIN h2
                      /\ h2[t][k].is = "own" => own2[h2[t][k].of] = own2[t]
                      /\ h2[t][k].is = "shared" => own2[h2[t][k].of] \notin busy
    BY <1>2, <1>4 DEF Sound
  <2>1. CASE t \in DOMAIN h
    BY <2>1, <1>6 DEF Sound
  <2>2. CASE t = Len(h) + 1
    BY <2>2, <1>2, <1>6
  <2> QED BY <2>1, <2>2, <1>5
<1>8. Grown(h, own, h2, own2, L)
  BY <1>1, <1>2, <1>3 DEF Grown
<1>9. Len(h2) \in DOMAIN h2 /\ own2[Len(h2)] = L
  BY <1>1, <1>2, <1>3
<1> QED BY <1>1, <1>2, <1>7, <1>8, <1>9 DEF OneMore

LEMMA NewTableKeeps ==
  ASSUME NEW m \in Nat, NEW L \in 1..m, NEW busy, NEW h, NEW own, Sound(h, own, busy, m),
         NEW h2, h2 = NewTable(h)
  PROVE  OneMore(h, own, busy, m, L, h2)
<1> DEFINE new == [k \in Keys |-> Atom(Nil)]
<1>1. new \in Tables /\ \A k \in Keys : new[k].is = "atom"
  BY DEF Tables, Cells, Atom
<1>2. h2 = Append(h, new)
  BY DEF NewTable
<1>3. \A k \in Keys : new[k].is # "atom" =>
        new[k].is = "shared" /\ new[k].of \in DOMAIN h /\ own[new[k].of] \notin busy
  BY <1>1
<1> HIDE DEF new
<1> QED BY <1>1, <1>2, <1>3, TableAdded

\* What is copied belongs to no load that runs, or is what a wrap shares.
LEMMA CopyKeeps ==
  ASSUME NEW m \in Nat, NEW L \in 1..m, NEW busy, NEW h, NEW own, Sound(h, own, busy, m),
         NEW u \in DOMAIN h, own[u] \notin busy, NEW h2, h2 = SimpleTableDuplicate(h, u)
  PROVE  OneMore(h, own, busy, m, L, h2)
<1> DEFINE new == [k \in Keys |-> Wrapped(h[u][k])]
<1>1. h[u] \in Tables
  BY DEF Sound
<1>2. new \in Tables
  BY <1>1 DEF Tables, Cells, Wrapped, Shared
<1>3. ASSUME NEW k \in Keys, new[k].is # "atom"
      PROVE  new[k].is = "shared" /\ new[k].of \in DOMAIN h /\ own[new[k].of] \notin busy
  <2>1. h[u][k] \in Cells
    BY <1>1 DEF Tables
  <2>2. h[u][k].is # "atom" /\ new[k] = Shared(h[u][k].of)
    BY <1>3 DEF Wrapped
  <2>3. h[u][k].of \in DOMAIN h /\ own[h[u][k].of] \notin busy
    BY <2>1, <2>2 DEF Sound, Cells
  <2> QED BY <2>2, <2>3 DEF Shared
<1>4. h2 = Append(h, new)
  BY DEF SimpleTableDuplicate
<1>5. \A k \in Keys : new[k].is # "atom" =>
        new[k].is = "shared" /\ new[k].of \in DOMAIN h /\ own[new[k].of] \notin busy
  BY <1>3
<1> HIDE DEF new
<1> QED BY <1>2, <1>4, <1>5, TableAdded

\* A cell of one's own table is written to.
Written(h, t, k, c) == [h EXCEPT ![t][k] = c]

LEMMA WriteKeeps ==
  ASSUME NEW m \in Nat, NEW L \in 1..m, NEW busy, NEW h, NEW own, Sound(h, own, busy, m),
         NEW t \in DOMAIN h, own[t] = L, NEW k, NEW c, MayHold(h, own, L, c),
         NEW h2, h2 = Written(h, t, k, c)
  PROVE  Sound(h2, own, busy, m) /\ Grown(h, own, h2, own, L)
<1>1. h \in Seq(Tables) /\ h[t] \in Tables /\ c \in Cells
  BY DEF Sound, MayHold
<1>2. [h[t] EXCEPT ![k] = c] \in Tables
  BY <1>1 DEF Tables
<1>3. h2 = [h EXCEPT ![t] = [h[t] EXCEPT ![k] = c]]
  BY DEF Written
<1>4. h2 \in Seq(Tables) /\ DOMAIN h2 = DOMAIN h
  BY <1>1, <1>2, <1>3
<1>5. \A u \in DOMAIN h, j \in Keys : h2[u][j] = h[u][j] \/ (u = t /\ h2[u][j] = c)
  BY <1>1, <1>3 DEF Tables
<1>6. ASSUME NEW u \in DOMAIN h, NEW j \in Keys
      PROVE  /\ h2[u][j].is # "atom" => h2[u][j].of \in DOMAIN h
             /\ h2[u][j].is = "own" => own[h2[u][j].of] = own[u]
             /\ h2[u][j].is = "shared" => own[h2[u][j].of] \notin busy
  <2>1. CASE h2[u][j] = h[u][j]
    BY <2>1 DEF Sound
  <2>2. CASE u = t /\ h2[u][j] = c
    BY <2>2 DEF MayHold
  <2> QED BY <1>5, <2>1, <2>2
<1>7. Sound(h2, own, busy, m)
  BY <1>4, <1>6 DEF Sound
<1>8. Grown(h, own, h2, own, L)
  BY <1>4, <1>3 DEF Grown
<1> QED BY <1>7, <1>8

\* A wrap that is used owns its table from then on.
LEMMA OwnedKeeps ==
  ASSUME NEW m \in Nat, NEW L \in 1..m, NEW busy, NEW h, NEW own, Sound(h, own, busy, m),
         NEW t \in DOMAIN h, own[t] = L, NEW k \in Keys, h[t][k].is # "atom",
         NEW h2, h2 = Owned(h, t, k)
  PROVE  \E own2 : /\ Sound(h2, own2, busy, m) /\ Grown(h, own, h2, own2, L)
                   /\ h2[t][k].of \in DOMAIN h2 /\ own2[h2[t][k].of] = L
<1>1. h \in Seq(Tables) /\ h[t] \in Tables /\ h[t][k] \in Cells
  BY DEF Sound, Tables
<1>2. CASE h[t][k].is = "own"
  <2>1. h2 = h
    BY <1>2 DEF Owned
  <2> QED BY <1>2, <2>1 DEF Sound, Grown
<1>3. CASE h[t][k].is # "own"
  <2> DEFINE u == h[t][k].of
             h1 == SimpleTableDuplicate(h, u)
             c == Own(Len(h) + 1)
  <2>1. u \in DOMAIN h /\ own[u] \notin busy
    BY <1>1, <1>3 DEF Sound, Cells
  <2>2. h2 = Written(h1, t, k, c)
    BY <1>3 DEF Owned, Written
  <2> HIDE DEF u, h1
  <2>3. OneMore(h, own, busy, m, L, h1)
    BY <2>1, CopyKeeps DEF h1
  <2>4. PICK own1 : /\ Sound(h1, own1, busy, m) /\ Grown(h, own, h1, own1, L)
                    /\ Len(h1) = Len(h) + 1 /\ Len(h1) \in DOMAIN h1 /\ own1[Len(h1)] = L
                    /\ \A x \in DOMAIN h : h1[x] = h[x]
    BY <2>3 DEF OneMore
  <2>5. t \in DOMAIN h1 /\ own1[t] = L
    BY <2>4 DEF Grown
  <2>6. MayHold(h1, own1, L, c)
    BY <2>4 DEF MayHold, Own, Cells, Sound
  <2>7. Sound(h2, own1, busy, m) /\ Grown(h1, own1, h2, own1, L)
    <3> HIDE DEF c
    <3> QED BY <2>2, <2>4, <2>5, <2>6, WriteKeeps
  <2>8. Grown(h, own, h2, own1, L)
    BY <2>4, <2>7, GrownAgain
  <2>9. h2[t][k] = c /\ DOMAIN h2 = DOMAIN h1
    BY <2>2, <2>4, <2>5 DEF Sound, Tables, Written
  <2>10. h2[t][k].of \in DOMAIN h2 /\ own1[h2[t][k].of] = L
    BY <2>4, <2>9 DEF Own
  <2> QED BY <2>7, <2>8, <2>10
<1> QED BY <1>2, <1>3

\* Where a load may be on its way down a path: in a table of its own.
Places(h, own, busy, m, L) ==
  {at \in [heap : Seq(Tables), table : Nat] :
     \E own2 : /\ Sound(at.heap, own2, busy, m) /\ Grown(h, own, at.heap, own2, L)
              /\ at.table \in DOMAIN at.heap /\ own2[at.table] = L}

LEMMA UsedKeeps ==
  ASSUME NEW m \in Nat, NEW L \in 1..m, NEW busy, NEW h, NEW own,
         NEW at \in Places(h, own, busy, m, L), NEW k \in Keys
  PROVE  Used(at, k) \subseteq Places(h, own, busy, m, L)
<1> SUFFICES ASSUME at.heap[at.table][k].is # "atom",
                    NEW h2, h2 = Owned(at.heap, at.table, k)
             PROVE  [heap |-> h2, table |-> h2[at.table][k].of] \in Places(h, own, busy, m, L)
  BY DEF Used
<1>1. PICK own1 : /\ Sound(at.heap, own1, busy, m) /\ Grown(h, own, at.heap, own1, L)
                  /\ at.table \in DOMAIN at.heap /\ own1[at.table] = L
  BY DEF Places
<1>2. PICK own2 : /\ Sound(h2, own2, busy, m) /\ Grown(at.heap, own1, h2, own2, L)
                  /\ h2[at.table][k].of \in DOMAIN h2 /\ own2[h2[at.table][k].of] = L
  BY <1>1, OwnedKeeps
<1>3. Grown(h, own, h2, own2, L)
  BY <1>1, <1>2, GrownAgain
<1>4. h2 \in Seq(Tables) /\ h2[at.table][k].of \in Nat
  BY <1>2 DEF Sound
<1> QED BY <1>2, <1>3, <1>4 DEF Places

\* An assignment changes tables of its load and no others.
LEMMA AssignedKeeps ==
  ASSUME NEW m \in Nat, NEW L \in 1..m, NEW busy, NEW h, NEW own, Sound(h, own, busy, m),
         NEW t \in DOMAIN h, own[t] = L, NEW path \in Seq(Keys), path # <<>>,
         NEW c, MayHold(h, own, L, c), NEW h2 \in Assigned(h, t, path, c)
  PROVE  \E own2 : Sound(h2, own2, busy, m) /\ Grown(h, own, h2, own2, L)
<1> DEFINE n == Len(path) - 1
           S == SUBSET Places(h, own, busy, m, L)
           s0 == {[heap |-> h, table |-> t]}
           down(s, i) == UNION {Used(at, path[i]) : at \in s}
           g == [i \in 1..n |-> [s \in S |-> down(s, i)]]
           Is(f) == f = [i \in 0..n |-> IF i = 0 THEN s0 ELSE down(f[i - 1], i)]
           from == CHOOSE f : Is(f)
<1>1. n \in Nat /\ Len(path) \in 1..Len(path) /\ \A i \in 1..Len(path) : path[i] \in Keys
  BY ElementOfSeq, EmptySeq
<1>2. s0 \in S
  <2>1. h \in Seq(Tables) /\ t \in Nat /\ Grown(h, own, h, own, L)
    BY DEF Sound, Grown
  <2> QED BY <2>1 DEF Places
<1>3. ASSUME NEW i \in 1..n, NEW s \in S PROVE down(s, i) \in S
  BY <1>1, UsedKeeps
<1> HIDE DEF S, s0, down
<1>4. g \in [1..n -> [S -> S]]
  BY <1>3
<1>5. \E f : Is(f)
  <2> HIDE DEF n, g
  <2>1. PICK f \in [0..n -> S] : Built(f, s0, n, g)
    BY <1>1, <1>2, <1>4, Iterates
  <2>2. \A i \in 0..n : i # 0 => i \in 1..n /\ f[i - 1] \in S
    BY <1>1
  <2>3. \A i \in 0..n : i # 0 => g[i][f[i - 1]] = down(f[i - 1], i)
    BY <2>2 DEF g
  <2>4. Is(f)
    BY <2>1, <2>3 DEF Built
  <2> QED BY <2>4
<1>6. Is(from)
  <2> HIDE DEF Is
  <2> QED BY <1>5
<1> HIDE DEF from
<1>7. from[n] \in S
  <2> DEFINE P == {i \in 0..n : from[i] \in S}
  <2>1. 0 \in P
    BY <1>1, <1>2, <1>6
  <2>2. ASSUME NEW i \in 1..n, i - 1 \in P PROVE i \in P
    <3>1. from[i] = down(from[i - 1], i)
      BY <1>1, <1>6
    <3> QED BY <3>1, <2>2, <1>3
  <2>3. n \in Nat /\ 0 \in P /\ \A i \in 1..n : i - 1 \in P => i \in P
    BY <1>1, <2>1, <2>2
  <2>4. \A i \in 0..n : i \in P
    <3> HIDE DEF P, n
    <3> QED BY <2>3, Along
  <2> QED BY <1>1, <2>4
<1>8. Assigned(h, t, path, c) = {[at.heap EXCEPT ![at.table][Last(path)] = c] : at \in from[n]}
  BY DEF Assigned, from, Is, s0, down
<1>9. PICK at \in Places(h, own, busy, m, L) : h2 = Written(at.heap, at.table, Last(path), c)
  BY <1>7, <1>8 DEF S, Written
<1>10. PICK own2 : /\ Sound(at.heap, own2, busy, m) /\ Grown(h, own, at.heap, own2, L)
                   /\ at.table \in DOMAIN at.heap /\ own2[at.table] = L
  BY <1>9 DEF Places
<1>11. MayHold(at.heap, own2, L, c)
  BY <1>10, HoldsOn
<1>12. Sound(h2, own2, busy, m) /\ Grown(at.heap, own2, h2, own2, L)
  BY <1>9, <1>10, <1>11, WriteKeeps
<1> QED BY <1>10, <1>12, GrownAgain

-----------------------------------------------------------------------------
(* Sequences *)

LEMMA SeqIn ==
  ASSUME NEW S, NEW T, NEW s \in Seq(S), \A i \in DOMAIN s : s[i] \in T
  PROVE  s \in Seq(T)
OBVIOUS

LEMMA FrontIs ==
  ASSUME NEW S, NEW s \in Seq(S), s # <<>>
  PROVE  /\ Front(s) \in Seq(S) /\ Len(Front(s)) = Len(s) - 1
         /\ \A i \in 1..(Len(s) - 1) : Front(s)[i] = s[i]
         /\ Len(s) \in Nat \ {0} /\ Len(s) \in DOMAIN s /\ Last(s) \in S
<1>1. Len(s) \in Nat \ {0} /\ Len(s) \in 1..Len(s) /\ DOMAIN s = 1..Len(s)
  BY EmptySeq, LenProperties
<1>2. \A i \in 1..(Len(s) - 1) : s[i] \in S
  BY <1>1, ElementOfSeq
<1>3. /\ SubSeq(s, 1, Len(s) - 1) \in Seq(S) /\ Len(SubSeq(s, 1, Len(s) - 1)) = Len(s) - 1
      /\ \A i \in 1..(Len(s) - 1) : SubSeq(s, 1, Len(s) - 1)[i] = s[i]
  BY <1>1, <1>2, SubSeqProperties
<1> QED BY <1>1, <1>3, ElementOfSeq DEF Front, Last

\* The last element is another one.
Topped(r, s, x, T) ==
  /\ r \in Seq(T) /\ Len(r) = Len(s) /\ r[Len(s)] = x
  /\ \A i \in 1..(Len(s) - 1) : r[i] = s[i]

LEMMA LastReplaced ==
  ASSUME NEW S, NEW s \in Seq(S), s # <<>>, NEW T, \A i \in 1..(Len(s) - 1) : s[i] \in T,
         NEW x \in T, NEW r, r = Append(Front(s), x)
  PROVE  Topped(r, s, x, T)
<1>1. /\ Len(Front(s)) = Len(s) - 1 /\ Front(s) \in Seq(S)
      /\ \A i \in 1..(Len(s) - 1) : Front(s)[i] = s[i]
      /\ Len(s) \in Nat \ {0}
  BY FrontIs
<1>2. Front(s) \in Seq(T)
  BY <1>1
<1>3. /\ r \in Seq(T) /\ Len(r) = Len(s) - 1 + 1 /\ r[Len(s) - 1 + 1] = x
      /\ \A i \in 1..(Len(s) - 1) : r[i] = Front(s)[i]
  BY <1>1, <1>2, AppendProperties
<1> QED BY <1>1, <1>3 DEF Topped

LEMMA RemoveAtIs ==
  ASSUME NEW S, NEW s \in Seq(S), NEW i \in 1..Len(s)
  PROVE  /\ RemoveAt(s, i) \in Seq(S) /\ Len(RemoveAt(s, i)) = Len(s) - 1
         /\ \A j \in 1..(Len(s) - 1) : RemoveAt(s, i)[j] = s[IF j < i THEN j ELSE j + 1]
<1> DEFINE a == SubSeq(s, 1, i - 1)
           b == SubSeq(s, i + 1, Len(s))
<1>1. a \in Seq(S) /\ Len(a) = i - 1 /\ \A j \in 1..(i - 1) : a[j] = s[j]
  BY SubSeqProperties
<1>2. b \in Seq(S) /\ Len(b) = Len(s) - i /\ \A j \in 1..(Len(s) - i) : b[j] = s[i + j]
  BY SubSeqProperties
<1> HIDE DEF a, b
<1>3. /\ a \o b \in Seq(S) /\ Len(a \o b) = Len(a) + Len(b)
      /\ \A j \in 1..(Len(a) + Len(b)) : (a \o b)[j] = IF j <= Len(a) THEN a[j] ELSE b[j - Len(a)]
  BY <1>1, <1>2, ConcatProperties
<1>4. Len(s) \in Nat /\ Len(a) + Len(b) = Len(s) - 1
  BY <1>1, <1>2
<1>5. ASSUME NEW j \in 1..(Len(s) - 1)
      PROVE  (a \o b)[j] = s[IF j < i THEN j ELSE j + 1]
  <2>1. CASE j < i
    BY <2>1, <1>1, <1>3, <1>4
  <2>2. CASE ~(j < i)
    <3>1. (a \o b)[j] = b[j - (i - 1)] /\ j - (i - 1) \in 1..(Len(s) - i)
      BY <2>2, <1>1, <1>3, <1>4
    <3>2. b[j - (i - 1)] = s[i + (j - (i - 1))] /\ i + (j - (i - 1)) = j + 1
      BY <3>1, <1>2
    <3> QED BY <3>1, <3>2, <2>2
  <2> QED BY <2>1, <2>2
<1> QED BY <1>3, <1>4, <1>5 DEF RemoveAt, a, b

-----------------------------------------------------------------------------
(* The loads and the cache *)

Busy(st) == {st[i].L : i \in DOMAIN st}

Loads(h, m) == [file : Files, L : 1..m, pc : Nat, game : Games(h)]
Entries(h, m) == [L : 1..m, name : Files \union {Blank}, game : Games(h)]

\* GameData c is in a table of L.
Has(own, L, c) == c # Atom(Nil) => own[c.of] = L

\* Every load is of a state of its own, in which its GameData is; all but the
\* last one wait at a statement.
LoadsFit(h, own, st, m) ==
  /\ st \in Seq(Loads(h, m))
  /\ \A i \in DOMAIN st :
       /\ Has(own, st[i].L, st[i].game)
       /\ st[i].pc \in 1..Len(Script[st[i].file]) + 1
       /\ i # Len(st) => ~AtEnd(st[i])
       /\ \A j \in DOMAIN st : st[i].L = st[j].L => i = j

\* The states are told apart by L.  Each load has one, and one with a name is of
\* none, and keeps the GameData it was named with.
EntriesFit(h, own, ss, st, m) ==
  /\ ss \in Seq(Entries(h, m))
  /\ \A i \in DOMAIN ss :
       /\ ss[i].name # Blank => ss[i].L \notin Busy(st) /\ Has(own, ss[i].L, ss[i].game)
       /\ \A j \in DOMAIN ss : ss[i].L = ss[j].L => i = j
  /\ \A i \in DOMAIN st : \E j \in DOMAIN ss : ss[j].L = st[i].L

AllFit(h, own, ss, st, m) ==
  Sound(h, own, Busy(st), m) /\ LoadsFit(h, own, st, m) /\ EntriesFit(h, own, ss, st, m)

LEMMA SoundForFewer ==
  ASSUME NEW h, NEW own, NEW busy, NEW m, NEW fewer, fewer \subseteq busy, Sound(h, own, busy, m)
  PROVE  Sound(h, own, fewer, m)
BY DEF Sound

\* GameData stays where it is when the heap grows.
LEMMA GameStays ==
  ASSUME NEW h, NEW own, NEW h2, NEW own2, NEW L, Grown(h, own, h2, own2, L),
         NEW c \in Games(h)
  PROVE  c \in Games(h2) /\ \A M : Has(own, M, c) => Has(own2, M, c)
BY DEF Grown, Games, Has, Own, Atom

LEMMA AllStays ==
  ASSUME NEW h, NEW own, NEW h2, NEW own2, NEW L, Grown(h, own, h2, own2, L),
         NEW ss, NEW st, NEW m, AllFit(h, own, ss, st, m), Sound(h2, own2, Busy(st), m)
  PROVE  AllFit(h2, own2, ss, st, m)
<1>1. LoadsFit(h2, own2, st, m)
  <2>1. \A i \in DOMAIN st : st[i] \in Loads(h, m)
    BY ElementOfSeq DEF AllFit, LoadsFit
  <2>2. \A i \in DOMAIN st : st[i] \in Loads(h2, m) /\ Has(own2, st[i].L, st[i].game)
    BY <2>1, GameStays DEF AllFit, LoadsFit, Loads
  <2>3. st \in Seq(Loads(h2, m))
    BY <2>2, SeqIn DEF AllFit, LoadsFit
  <2> QED BY <2>2, <2>3 DEF AllFit, LoadsFit
<1>2. EntriesFit(h2, own2, ss, st, m)
  <2>1. \A i \in DOMAIN ss : ss[i] \in Entries(h, m)
    BY ElementOfSeq DEF AllFit, EntriesFit
  <2>2. \A i \in DOMAIN ss :
          /\ ss[i] \in Entries(h2, m)
          /\ ss[i].name # Blank => Has(own2, ss[i].L, ss[i].game)
    BY <2>1, GameStays DEF AllFit, EntriesFit, Entries
  <2>3. ss \in Seq(Entries(h2, m))
    BY <2>2, SeqIn DEF AllFit, EntriesFit
  <2> QED BY <2>2, <2>3 DEF AllFit, EntriesFit
<1> QED BY <1>1, <1>2 DEF AllFit

\* When no load is left, the states remain.
LEMMA NoLoadsFit ==
  ASSUME NEW h, NEW own, NEW ss, NEW st, NEW m, AllFit(h, own, ss, st, m)
  PROVE  AllFit(h, own, ss, <<>>, m)
<1>1. Busy(<<>>) = {} /\ DOMAIN <<>> = {} /\ <<>> \in Seq(Loads(h, m))
  BY DEF Busy
<1> QED BY <1>1, SoundForFewer DEF AllFit, LoadsFit, EntriesFit

\* The load on top of the others goes on.
LEMMA GoesOn ==
  ASSUME NEW h, NEW own, NEW ss, NEW st, NEW m, AllFit(h, own, ss, st, m), st # <<>>,
         NEW x \in Loads(h, m), x.L = Last(st).L, x.pc \in 1..Len(Script[x.file]) + 1,
         Has(own, x.L, x.game), NEW st2, st2 = Append(Front(st), x)
  PROVE  AllFit(h, own, ss, st2, m)
<1>1. st \in Seq(Loads(h, m))
  BY DEF AllFit, LoadsFit
<1>2. \A i \in 1..(Len(st) - 1) : st[i] \in Loads(h, m)
  BY <1>1, ElementOfSeq
<1>3. /\ st2 \in Seq(Loads(h, m)) /\ Len(st2) = Len(st) /\ st2[Len(st)] = x
      /\ \A i \in 1..(Len(st) - 1) : st2[i] = st[i]
  <2>1. Topped(st2, st, x, Loads(h, m))
    BY <1>1, <1>2, LastReplaced
  <2> QED BY <2>1 DEF Topped
<1>4. DOMAIN st2 = DOMAIN st /\ \A i \in DOMAIN st : i = Len(st) \/ i \in 1..(Len(st) - 1)
  BY <1>1, <1>3
<1>5. \A i \in DOMAIN st : st2[i].L = st[i].L
  BY <1>3, <1>4 DEF Last
<1>6. Busy(st2) = Busy(st)
  BY <1>4, <1>5 DEF Busy
<1>7. LoadsFit(h, own, st2, m)
  <2> SUFFICES ASSUME NEW i \in DOMAIN st
               PROVE  /\ Has(own, st2[i].L, st2[i].game)
                      /\ st2[i].pc \in 1..Len(Script[st2[i].file]) + 1
                      /\ i # Len(st) => ~AtEnd(st2[i])
                      /\ \A j \in DOMAIN st : st2[i].L = st2[j].L => i = j
    BY <1>3, <1>4 DEF LoadsFit
  <2>1. \A j \in DOMAIN st : st2[i].L = st2[j].L => i = j
    BY <1>5 DEF AllFit, LoadsFit
  <2>2. CASE i = Len(st)
    BY <2>1, <2>2, <1>3
  <2>3. CASE i # Len(st)
    <3>1. st2[i] = st[i]
      BY <2>3, <1>3, <1>4
    <3> QED BY <2>1, <2>3, <3>1 DEF AllFit, LoadsFit
  <2> QED BY <2>2, <2>3
<1>8. EntriesFit(h, own, ss, st2, m)
  BY <1>4, <1>5, <1>6 DEF AllFit, EntriesFit
<1> QED BY <1>6, <1>7, <1>8 DEF AllFit

LEMMA OneOn ==
  ASSUME NEW f, NEW L, NEW pc, NEW g, NEW game, NEW load,
         load = [file |-> f, L |-> L, pc |-> pc, game |-> g]
  PROVE  [Advanced(load) EXCEPT !.game = game] = [file |-> f, L |-> L, pc |-> pc + 1, game |-> game]
<1>1. Advanced(load) = [file |-> f, L |-> L, pc |-> pc + 1, game |-> g]
  BY DEF Advanced
<1> QED BY <1>1

\* What is assigned goes to a table of the load, or is its GameData; an error
\* leaves the states.
LEMMA ReceiveKeeps ==
  ASSUME NEW m \in Nat, NEW h, NEW own, NEW ss, NEW st, AllFit(h, own, ss, st, m), st # <<>>,
         ~AtEnd(Last(st)), NEW c, MayHold(h, own, Last(st).L, c),
         c.is = "atom" => At(Last(st)).at # <<>>,
         Receive(Front(st), Last(st), h, c)
  PROVE  \E own2 : AllFit(heap', own2, ss, stack', m) /\ Grown(h, own, heap', own2, Last(st).L)
<1> DEFINE load == Last(st)
           at == At(load).at
<1>0. Grown(h, own, h, own, load.L)
  BY DEF Grown
<1>1. st \in Seq(Loads(h, m)) /\ Len(st) \in DOMAIN st /\ load \in Loads(h, m)
  BY FrontIs DEF AllFit, LoadsFit
<1>2. /\ load.file \in Files /\ load.L \in 1..m /\ load.pc \in Nat /\ load.game \in Games(h)
      /\ load.pc \in 1..Len(Script[load.file]) + 1 /\ Has(own, load.L, load.game)
  BY <1>1 DEF AllFit, LoadsFit, Loads, Last
<1>3. /\ Script[load.file] \in Seq(Statement) /\ load.pc \in 1..Len(Script[load.file])
  BY <1>2, BurnAssumption DEF AtEnd
<1>4. at \in Seq(Keys)
  <2>1. Script[load.file][load.pc] \in Statement
    BY <1>3, ElementOfSeq
  <2> QED BY <2>1 DEF At, Statement
<1>5. load.pc + 1 \in 1..Len(Script[load.file]) + 1
  BY <1>3
<1> DEFINE next(game) == [Advanced(load) EXCEPT !.game = game]
<1> HIDE DEF load
<1>6. ASSUME NEW h2, NEW game \in Games(h2), Has(own, load.L, game)
      PROVE  /\ next(game) \in Loads(h2, m) /\ next(game).L = load.L /\ next(game).game = game
             /\ next(game).pc \in 1..Len(Script[next(game).file]) + 1
  <2>1. load = [file |-> load.file, L |-> load.L, pc |-> load.pc, game |-> load.game]
    BY <1>1 DEF Loads
  <2>2. next(game) = [file |-> load.file, L |-> load.L, pc |-> load.pc + 1, game |-> game]
    BY <2>1, OneOn
  <2>3. load.pc + 1 \in Nat
    BY <1>2
  <2> HIDE DEF next
  <2> QED BY <1>2, <1>5, <2>2, <2>3 DEF Loads
<1> HIDE DEF next
<1>7. CASE stack' = <<>> /\ heap' = h
  <2>1. AllFit(h, own, ss, <<>>, m)
    BY NoLoadsFit
  <2> QED BY <1>0, <1>7, <2>1 DEF load
<1>8. CASE at = <<>> /\ heap' = h /\ stack' = Append(Front(st), next(c))
  <2>1. c \in Games(h) /\ Has(own, load.L, c)
    <3>1. c \in Cells /\ c.is = "own" /\ c.of \in DOMAIN h /\ own[c.of] = load.L
      BY <1>8 DEF MayHold, load
    <3>2. c = Own(c.of)
      BY <3>1 DEF Cells, Own
    <3> QED BY <3>1, <3>2 DEF Games, Has
  <2>2. /\ next(c) \in Loads(h, m) /\ next(c).L = load.L /\ next(c).game = c
        /\ next(c).pc \in 1..Len(Script[next(c).file]) + 1
    BY <2>1, <1>6
  <2>3. AllFit(h, own, ss, stack', m)
    BY <2>1, <2>2, <1>8, GoesOn DEF load
  <2> QED BY <1>0, <1>8, <2>3 DEF load
<1>9. CASE /\ at # <<>> /\ load.game.is # "atom" /\ heap' \in Assigned(h, load.game.of, at, c)
           /\ stack' = Append(Front(st), next(load.game))
  <2>1. load.game.of \in DOMAIN h /\ own[load.game.of] = load.L
    BY <1>2, <1>9 DEF Games, Has, Own, Atom
  <2>2. PICK own2 : Sound(heap', own2, Busy(st), m) /\ Grown(h, own, heap', own2, load.L)
    BY <2>1, <1>2, <1>4, <1>9, AssignedKeeps DEF AllFit, load
  <2>3. AllFit(heap', own2, ss, st, m)
    BY <2>2, AllStays
  <2>4. load.game \in Games(heap') /\ Has(own2, load.L, load.game)
    BY <2>2, <1>2, GameStays
  <2>5. /\ next(load.game) \in Loads(heap', m) /\ next(load.game).L = load.L
        /\ next(load.game).game = load.game
        /\ next(load.game).pc \in 1..Len(Script[next(load.game).file]) + 1
    BY <1>2, <2>4, <1>6
  <2>6. AllFit(heap', own2, ss, stack', m)
    BY <2>3, <2>4, <2>5, <1>9, GoesOn DEF load
  <2> QED BY <2>2, <2>6 DEF load
<1> QED BY <1>7, <1>8, <1>9 DEF Receive, Fail, load, next

-----------------------------------------------------------------------------
(* The inductive invariant *)

Counts ==
  /\ made \in Nat /\ left \subseteq Folder /\ newer \in Folder \union {Blank}
  /\ thrown \in BOOLEAN /\ crashed \in BOOLEAN

IInv == Counts /\ \E own : AllFit(heap, own, states, stack, made)

\* The states in the cache stay as they are, as long as they are there.
Stay(ss, ss2) ==
  \A i \in DOMAIN ss, j \in DOMAIN ss2 : ss[i].name # Blank /\ ss2[j].L = ss[i].L => ss2[j] = ss[i]

\* So do the tables that belong to no load that runs, unless the cache is
\* cleared, when no state stays.
TablesStay(own) ==
  \A t \in DOMAIN heap : own[t] \notin Busy(stack) => t \in DOMAIN heap' /\ heap'[t] = heap[t]
Cleared == \A i \in DOMAIN states, j \in DOMAIN states' : states'[j].L # states[i].L

StepIsFine(own) == IInv' /\ Stay(states, states') /\ (Cleared \/ TablesStay(own))

LEMMA EmptyFits == ASSUME NEW m \in Nat PROVE AllFit(<<>>, <<>>, <<>>, <<>>, m)
<1>1. DOMAIN <<>> = {} /\ Busy(<<>>) = {}
  BY DEF Busy
<1>2. <<>> \in Seq(Tables) /\ <<>> \in [{} -> 1..m]
  BY <1>1
<1>3. <<>> \in Seq(Loads(<<>>, m)) /\ <<>> \in Seq(Entries(<<>>, m))
  OBVIOUS
<1> QED BY <1>1, <1>2, <1>3 DEF AllFit, Sound, LoadsFit, EntriesFit

LEMMA InitFits == Init => IInv
<1> SUFFICES ASSUME Init PROVE IInv
  OBVIOUS
<1>1. AllFit(heap, <<>>, states, stack, made)
  BY EmptyFits DEF Init
<1> QED BY <1>1 DEF Init, IInv, Counts

\* A load begins, with a state of its own.
LEMMA BeginsFit ==
  ASSUME NEW h, NEW own, NEW ss, NEW st, AllFit(h, own, ss, st, made), made \in Nat,
         st # <<>> => ~AtEnd(Last(st)), NEW f \in Files
  PROVE  AllFit(h, own, MakeState(ss), Append(st, Load(f)), made + 1) /\ Stay(ss, MakeState(ss))
<1> DEFINE m == made
           x == Load(f)
           e == [L |-> m + 1, name |-> Blank, game |-> Atom(Nil)]
           st2 == Append(st, x)
           ss2 == MakeState(ss)
<1>0. m + 1 \in 1..(m + 1) /\ m + 1 \notin 1..m /\ \A i \in 1..m : i \in 1..(m + 1)
  OBVIOUS
<1>1. st \in Seq(Loads(h, m)) /\ ss \in Seq(Entries(h, m))
  BY DEF AllFit, LoadsFit, EntriesFit
<1>2. st \in Seq(Loads(h, m + 1)) /\ ss \in Seq(Entries(h, m + 1))
  <2>1. \A i \in DOMAIN st : st[i] \in Loads(h, m)
    BY <1>1, ElementOfSeq
  <2>2. \A i \in DOMAIN ss : ss[i] \in Entries(h, m)
    BY <1>1, ElementOfSeq
  <2>3. Loads(h, m) \subseteq Loads(h, m + 1) /\ Entries(h, m) \subseteq Entries(h, m + 1)
    BY <1>0 DEF Loads, Entries
  <2>4. \A i \in DOMAIN st : st[i] \in Loads(h, m + 1)
    BY <2>1, <2>3
  <2>5. \A i \in DOMAIN ss : ss[i] \in Entries(h, m + 1)
    BY <2>2, <2>3
  <2> QED BY <1>1, <2>4, <2>5, SeqIn
<1>3. /\ x \in Loads(h, m + 1) /\ e \in Entries(h, m + 1)
      /\ x.L = m + 1 /\ x.pc = 1 /\ x.game = Atom(Nil) /\ x.file = f
  BY <1>0 DEF Loads, Entries, Load, Games
<1>4. 1 \in 1..Len(Script[f]) + 1
  BY BurnAssumption
<1>5. ss2 = Append(ss, e)
  BY DEF MakeState
<1> HIDE DEF x, m, ss2, e
<1>6. /\ st2 \in Seq(Loads(h, m + 1)) /\ Len(st2) = Len(st) + 1 /\ st2[Len(st) + 1] = x
      /\ \A i \in 1..Len(st) : st2[i] = st[i]
  BY <1>2, <1>3, AppendProperties
<1>7. /\ ss2 \in Seq(Entries(h, m + 1)) /\ Len(ss2) = Len(ss) + 1 /\ ss2[Len(ss) + 1] = e
      /\ \A i \in 1..Len(ss) : ss2[i] = ss[i]
  BY <1>2, <1>3, <1>5, AppendProperties
<1> HIDE DEF st2
<1>8. /\ Len(st) \in Nat /\ DOMAIN st = 1..Len(st) /\ DOMAIN st2 = 1..(Len(st) + 1)
      /\ Len(ss) \in Nat /\ DOMAIN ss = 1..Len(ss) /\ DOMAIN ss2 = 1..(Len(ss) + 1)
  BY <1>1, <1>6, <1>7
<1>9. /\ \A i \in DOMAIN st2 : (i \in DOMAIN st /\ st2[i] = st[i]) \/ (i = Len(st) + 1 /\ st2[i] = x)
      /\ \A i \in DOMAIN ss2 : (i \in DOMAIN ss /\ ss2[i] = ss[i]) \/ (i = Len(ss) + 1 /\ ss2[i] = e)
  BY <1>6, <1>7, <1>8
<1>10. /\ \A i \in DOMAIN st : st[i].L \in 1..m /\ st[i].L # m + 1
       /\ \A i \in DOMAIN ss : ss[i].L \in 1..m /\ ss[i].L # m + 1
  <2>1. \A i \in DOMAIN st : st[i] \in Loads(h, m)
    BY <1>1, ElementOfSeq
  <2>2. \A i \in DOMAIN ss : ss[i] \in Entries(h, m)
    BY <1>1, ElementOfSeq
  <2> QED BY <2>1, <2>2, <1>0 DEF Loads, Entries
<1>11. Busy(st2) \subseteq Busy(st) \union {m + 1}
  BY <1>3, <1>9 DEF Busy
<1>12. Sound(h, own, Busy(st2), m + 1)
  <2>1. own \in [DOMAIN h -> 1..m]
    BY DEF AllFit, Sound, m
  <2>2. own \in [DOMAIN h -> 1..(m + 1)] /\ \A t \in DOMAIN h : own[t] # m + 1
    BY <2>1, <1>0
  <2>3. \A t \in DOMAIN h : own[t] \notin Busy(st) => own[t] \notin Busy(st2)
    BY <2>2, <1>11
  <2> QED BY <2>2, <2>3 DEF AllFit, Sound
<1>13. LoadsFit(h, own, st2, m + 1)
  <2>0. Len(st2) = Len(st) + 1
    BY <1>6
  <2> SUFFICES ASSUME NEW i \in DOMAIN st2
               PROVE  /\ Has(own, st2[i].L, st2[i].game)
                      /\ st2[i].pc \in 1..Len(Script[st2[i].file]) + 1
                      /\ i # Len(st2) => ~AtEnd(st2[i])
                      /\ \A j \in DOMAIN st2 : st2[i].L = st2[j].L => i = j
    BY <1>6 DEF LoadsFit
  <2>1. \A j \in DOMAIN st2 : st2[i].L = st2[j].L => i = j
    BY <1>3, <1>9, <1>10 DEF AllFit, LoadsFit
  <2>2. CASE i \in DOMAIN st /\ st2[i] = st[i]
    <3>1. i # Len(st2) => ~AtEnd(st2[i])
      BY <2>2, <1>8, EmptySeq DEF AllFit, LoadsFit, Last
    <3> QED BY <2>1, <2>2, <3>1 DEF AllFit, LoadsFit
  <2>3. CASE i = Len(st) + 1 /\ st2[i] = x
    BY <2>0, <2>1, <2>3, <1>3, <1>4 DEF Has
  <2> QED BY <1>9, <2>2, <2>3
<1>14. EntriesFit(h, own, ss2, st2, m + 1)
  <2>1. ASSUME NEW i \in DOMAIN ss2, ss2[i].name # Blank
        PROVE  ss2[i].L \notin Busy(st2) /\ Has(own, ss2[i].L, ss2[i].game)
    <3>1. i \in DOMAIN ss /\ ss2[i] = ss[i]
      BY <1>9, <2>1 DEF e
    <3> QED BY <3>1, <2>1, <1>10, <1>11 DEF AllFit, EntriesFit
  <2>2. ASSUME NEW i \in DOMAIN ss2, NEW j \in DOMAIN ss2, ss2[i].L = ss2[j].L PROVE i = j
    <3>1. e.L = m + 1
      BY DEF e
    <3> QED BY <2>2, <3>1, <1>9, <1>10 DEF AllFit, EntriesFit
  <2>3. ASSUME NEW i \in DOMAIN st2 PROVE \E j \in DOMAIN ss2 : ss2[j].L = st2[i].L
    <3>1. e.L = m + 1
      BY DEF e
    <3>2. CASE i \in DOMAIN st /\ st2[i] = st[i]
      <4>1. PICK j \in DOMAIN ss : ss[j].L = st[i].L
        BY <3>2 DEF AllFit, EntriesFit
      <4> QED BY <3>2, <4>1, <1>7, <1>8
    <3>3. CASE i = Len(st) + 1 /\ st2[i] = x
      BY <3>1, <3>3, <1>3, <1>7, <1>8
    <3> QED BY <1>9, <3>2, <3>3
  <2> QED BY <1>7, <2>1, <2>2, <2>3 DEF EntriesFit
<1>15. Stay(ss, ss2)
  <2>1. e.L = m + 1
    BY DEF e
  <2>2. ASSUME NEW i \in DOMAIN ss, NEW j \in DOMAIN ss2, ss2[j].L = ss[i].L PROVE ss2[j] = ss[i]
    BY <2>1, <2>2, <1>9, <1>10 DEF AllFit, EntriesFit
  <2> QED BY <2>2 DEF Stay
<1> QED BY <1>12, <1>13, <1>14, <1>15 DEF AllFit, m, x, st2, ss2

\* What a step that changes the tables of the load that runs leaves.
LEMMA OthersStay ==
  ASSUME NEW own, NEW own2, NEW L \in Busy(stack), Grown(heap, own, heap', own2, L)
  PROVE  TablesStay(own)
BY DEF Grown, TablesStay

LEMMA StayAll ==
  ASSUME NEW own, AllFit(heap, own, states, stack, made), UNCHANGED states
  PROVE  Stay(states, states')
BY DEF AllFit, EntriesFit, Stay

LEMMA RunningIs ==
  ASSUME NEW h, NEW own, NEW ss, NEW st, NEW m, AllFit(h, own, ss, st, m), st # <<>>
  PROVE  /\ Last(st) \in Loads(h, m) /\ Last(st).L \in Busy(st)
         /\ Has(own, Last(st).L, Last(st).game)
         /\ Last(st).pc \in 1..Len(Script[Last(st).file]) + 1
         /\ \E j \in DOMAIN ss : ss[j].L = Last(st).L
<1>1. st \in Seq(Loads(h, m))
  BY DEF AllFit, LoadsFit
<1>2. Len(st) \in DOMAIN st /\ Last(st) \in Loads(h, m)
  BY <1>1, FrontIs
<1> QED BY <1>1, <1>2 DEF AllFit, LoadsFit, EntriesFit, Busy, Last

\* The walk reaches a file: CLuaBurnFolderAction::Recurse.
LEMMA ReachFits ==
  ASSUME Counts, NEW own, AllFit(heap, own, states, stack, made), NEW f \in Folder, Reach(f)
  PROVE  \E own2 : AllFit(heap', own2, Kept, <<>>, made)
<1>1. CASE ClearDue
  BY <1>1, EmptyFits DEF Kept, Counts, Reach
<1>2. CASE ~ClearDue
  BY <1>2 DEF Kept, Reach
<1> QED BY <1>1, <1>2

LEMMA BurnFits ==
  ASSUME Counts, NEW own, AllFit(heap, own, states, stack, made), NEW f \in Folder, Burn(f)
  PROVE  StepIsFine(own)
<1>1. PICK own2 : AllFit(heap', own2, Kept, <<>>, made)
  BY ReachFits DEF Burn
<1>2. f \in Files /\ Append(<<>>, Load(f)) = <<Load(f)>>
  BY BurnAssumption
<1>3. /\ AllFit(heap', own2, MakeState(Kept), <<Load(f)>>, made + 1)
      /\ Stay(Kept, MakeState(Kept))
  BY <1>1, <1>2, BeginsFit DEF Counts
<1>4. Counts' /\ IInv'
  BY <1>3 DEF Burn, Reach, Counts, IInv
<1>5. CASE ClearDue
  <2>1. Kept = <<>>
    BY <1>5 DEF Kept
  <2>2. states' = <<[L |-> made + 1, name |-> Blank, game |-> Atom(Nil)]>>
    BY <2>1 DEF Burn, MakeState
  <2>3. \A i \in DOMAIN states : states[i] \in Entries(heap, made)
    BY ElementOfSeq DEF AllFit, EntriesFit
  <2>4. Cleared
    BY <2>2, <2>3 DEF Cleared, Counts, Entries
  <2> QED BY <1>4, <2>4 DEF StepIsFine, Cleared, Stay
<1>6. CASE ~ClearDue
  BY <1>3, <1>4, <1>6 DEF Burn, Reach, Kept, StepIsFine, TablesStay
<1> QED BY <1>5, <1>6

\* It is left there, or finds an RGD that is newer.
PassedOver(f) ==
  /\ Reach(f) /\ states' = Kept
  /\ newer' \in Folder \union {Blank} /\ thrown' \in BOOLEAN
  /\ UNCHANGED <<made, stack, left, crashed>>

LEMMA PassedOverFits ==
  ASSUME Counts, NEW own, AllFit(heap, own, states, stack, made), NEW f \in Folder, PassedOver(f)
  PROVE  StepIsFine(own)
<1>1. PICK own2 : AllFit(heap', own2, Kept, <<>>, made)
  BY ReachFits DEF PassedOver
<1>2. Counts' /\ IInv'
  BY <1>1 DEF PassedOver, Reach, Counts, IInv
<1>3. CASE ClearDue
  BY <1>2, <1>3 DEF PassedOver, Kept, StepIsFine, Stay, Cleared
<1>4. CASE ~ClearDue
  BY <1>2, <1>4, StayAll DEF PassedOver, Reach, Kept, StepIsFine, TablesStay
<1> QED BY <1>3, <1>4

LEMMA SkipFits ==
  ASSUME Counts, NEW own, AllFit(heap, own, states, stack, made), Skip
  PROVE  StepIsFine(own)
<1>1. Counts' /\ IInv'
  BY DEF Skip, Counts, IInv
<1>2. Stay(states, states')
  BY StayAll DEF Skip
<1> QED BY <1>1, <1>2 DEF Skip, StepIsFine, TablesStay

\* CLuaFile::_meta_index: what is assigned is a value or a new table.
LEMMA LiteralFits ==
  ASSUME Counts, NEW own, AllFit(heap, own, states, stack, made), Literal
  PROVE  StepIsFine(own)
<1> DEFINE new == At(Running).is = Blank
           h == IF new THEN NewTable(heap) ELSE heap
           c == IF new THEN Own(Len(h)) ELSE Atom(At(Running).is)
           L == Running.L
<1>1. /\ stack # <<>> /\ ~AtEnd(Running) /\ At(Running).is \notin Files
      /\ UNCHANGED <<states, made, crashed, left, newer, thrown>> /\ Receive(Front(stack), Last(stack), h, c)
  BY DEF Literal, Step, Running
<1>2. Running \in Loads(heap, made) /\ L \in Busy(stack) /\ L \in 1..made /\ Running.file \in Files
      /\ Running.pc \in 1..Len(Script[Running.file]) + 1 /\ made \in Nat
  BY <1>1, RunningIs DEF Running, Loads, Counts
<1>3. Running.pc \in DOMAIN Script[Running.file] /\ Script[Running.file] \in Seq(Statement)
  BY <1>1, <1>2, BurnAssumption DEF AtEnd
<1>4. At(Running) \in Statement /\ (At(Running).at = <<>> => At(Running).is \notin Values)
  BY <1>2, <1>3, BurnAssumption, ElementOfSeq DEF At
<1>5. PICK own1 : /\ AllFit(h, own1, states, stack, made) /\ Grown(heap, own, h, own1, L)
                  /\ MayHold(h, own1, L, c) /\ (c.is = "atom" => At(Running).at # <<>>)
  <2>1. CASE new
    <3>1. h = NewTable(heap) /\ c = Own(Len(h))
      BY <2>1
    <3>2. OneMore(heap, own, Busy(stack), made, L, h)
      <4> HIDE DEF h, L
      <4> QED BY <3>1, <1>2, NewTableKeeps DEF AllFit
    <3>3. PICK own1 : /\ Sound(h, own1, Busy(stack), made) /\ Grown(heap, own, h, own1, L)
                      /\ Len(h) \in DOMAIN h /\ own1[Len(h)] = L
      BY <3>2 DEF OneMore
    <3> HIDE DEF h, L
    <3>4. AllFit(h, own1, states, stack, made)
      BY <3>3, AllStays
    <3>5. MayHold(h, own1, L, c) /\ c.is # "atom"
      BY <3>1, <3>3 DEF MayHold, Cells, Own, Sound
    <3> QED BY <3>3, <3>4, <3>5
  <2>2. CASE ~new
    <3>1. At(Running).is \in Values
      BY <1>1, <1>4, <2>2 DEF Statement
    <3>2. h = heap /\ c = Atom(At(Running).is)
      BY <2>2
    <3>3. MayHold(h, own, L, c)
      BY <3>1, <3>2 DEF MayHold, Cells, Atom
    <3> QED BY <3>1, <3>2, <3>3, <1>4 DEF Grown
  <2> QED BY <2>1, <2>2
<1> HIDE DEF h, c, L
<1>6. PICK own2 : AllFit(heap', own2, states, stack', made) /\ Grown(h, own1, heap', own2, L)
  BY <1>1, <1>2, <1>5, ReceiveKeeps DEF Running, L
<1>7. IInv'
  BY <1>1, <1>6 DEF IInv, Counts
<1>8. TablesStay(own)
  BY <1>2, <1>5, <1>6, GrownAgain, OthersStay
<1> QED BY <1>1, <1>7, <1>8, StayAll DEF StepIsFine

\* The first entry of a name is there.
LEMMA FetchIs ==
  ASSUME NEW f, Named(f) # {}, states \in Seq(Entries(heap, made))
  PROVE  Fetch(f) \in DOMAIN states /\ states[Fetch(f)].name = f
<1>1. Named(f) \in SUBSET Nat
  BY DEF Named
<1>2. \E i \in Named(f) : \A j \in Named(f) : i <= j
  BY <1>1, Smallest
<1>3. Fetch(f) \in Named(f)
  BY <1>2 DEF Fetch
<1> QED BY <1>3 DEF Named

\* A copy of a table of a load that is over is given to load `Last(st)'.
LEMMA CopyReceived ==
  ASSUME made \in Nat, NEW own, NEW ss, NEW st, AllFit(heap, own, ss, st, made), st # <<>>,
         ~AtEnd(Last(st)), NEW u \in DOMAIN heap, own[u] \notin Busy(st),
         NEW h, h = SimpleTableDuplicate(heap, u), Receive(Front(st), Last(st), h, Own(Len(h)))
  PROVE  \E own2 : AllFit(heap', own2, ss, stack', made) /\ Grown(heap, own, heap', own2, Last(st).L)
<1> DEFINE L == Last(st).L
           c == Own(Len(h))
<1>1. L \in 1..made
  BY RunningIs DEF Loads
<1>2. OneMore(heap, own, Busy(st), made, L, h)
  <2> HIDE DEF L
  <2> QED BY <1>1, CopyKeeps DEF AllFit
<1>3. PICK own1 : /\ Sound(h, own1, Busy(st), made) /\ Grown(heap, own, h, own1, L)
                  /\ Len(h) \in DOMAIN h /\ own1[Len(h)] = L
  BY <1>2 DEF OneMore
<1>4. AllFit(h, own1, ss, st, made)
  BY <1>3, AllStays
<1>5. MayHold(h, own1, L, c) /\ c.is # "atom"
  BY <1>3 DEF MayHold, Cells, Own, Sound
<1> HIDE DEF c
<1>6. PICK own2 : AllFit(heap', own2, ss, stack', made) /\ Grown(h, own1, heap', own2, L)
  BY <1>4, <1>5, ReceiveKeeps DEF c
<1> QED BY <1>3, <1>6, GrownAgain

\* CLuaFileCache::GameDataToStack: a copy of what is in the cache.
LEMMA InheritCachedFits ==
  ASSUME Counts, NEW own, AllFit(heap, own, states, stack, made), NEW f \in Files, InheritCached(f)
  PROVE  StepIsFine(own)
<1> DEFINE s == states[Fetch(f)]
<1>1. states \in Seq(Entries(heap, made)) /\ stack # <<>> /\ ~AtEnd(Last(stack))
  BY DEF AllFit, EntriesFit, InheritCached, Step, Running
<1>2. Fetch(f) \in DOMAIN states /\ s.name = f
  BY <1>1, FetchIs DEF InheritCached
<1>3. s \in Entries(heap, made)
  BY <1>1, <1>2, ElementOfSeq
<1>4. /\ UNCHANGED <<states, made, left, newer, thrown>> /\ crashed' \in BOOLEAN
      /\ Stay(states, states')
  BY StayAll DEF InheritCached, Step
<1>5. CASE crashed'
  BY <1>4, <1>5 DEF InheritCached, StepIsFine, IInv, Counts, TablesStay
<1>6. CASE ~crashed'
  <2>1. s.game # Atom(Nil) /\ s.game \in Games(heap)
    BY <1>3, <1>6 DEF InheritCached, Entries
  <2>2. PICK u \in DOMAIN heap : s.game = Own(u)
    BY <2>1 DEF Games
  <2>3. own[u] \notin Busy(stack)
    BY <1>2, <2>1, <2>2, BurnAssumption DEF AllFit, EntriesFit, Has, Own
  <2>4. PICK h : /\ h = SimpleTableDuplicate(heap, u)
                 /\ Receive(Front(stack), Last(stack), h, Own(Len(h)))
    <3>1. PICK h \in {SimpleTableDuplicate(heap, s.game.of)} : Receive(Front(stack), Last(stack), h, Own(Len(h)))
      BY <1>6 DEF InheritCached, Running
    <3>2. s.game.of = u
      BY <2>2 DEF Own
    <3> HIDE DEF s
    <3> QED BY <3>1, <3>2
  <2>5. PICK own2 : AllFit(heap', own2, states, stack', made) /\ Grown(heap, own, heap', own2, Last(stack).L)
    BY <1>1, <2>3, <2>4, CopyReceived DEF Counts
  <2>6. TablesStay(own)
    BY <1>1, <2>5, RunningIs, OthersStay
  <2> QED BY <1>4, <2>5, <2>6 DEF StepIsFine, IInv, Counts
<1> QED BY <1>5, <1>6

\* The file cannot be opened: CLuaFile::_Inherit.
LEMMA InheritUnreadableFits ==
  ASSUME Counts, NEW own, AllFit(heap, own, states, stack, made), NEW f, InheritUnreadable(f)
  PROVE  StepIsFine(own)
<1>1. UNCHANGED <<heap, states, made, left, newer, thrown, crashed>> /\ stack' = <<>>
  BY DEF InheritUnreadable, Uncached, Step, Fail
<1>2. AllFit(heap, own, states, <<>>, made)
  BY NoLoadsFit
<1> QED BY <1>1, <1>2, StayAll DEF StepIsFine, IInv, Counts, TablesStay

\* The file is loaded, or is loaded already: CLuaFile::_Inherit, CLuaFile::Load.
LEMMA InheritLoadFits ==
  ASSUME Counts, NEW own, AllFit(heap, own, states, stack, made), NEW f \in Files, InheritLoad(f)
  PROVE  StepIsFine(own)
<1>1. /\ UNCHANGED <<heap, left, newer, thrown>> /\ states' = MakeState(states) /\ made' = made + 1
      /\ crashed' \in BOOLEAN /\ ~AtEnd(Last(stack))
  BY DEF InheritLoad, Uncached, Step, Running, Counts
<1>2. /\ AllFit(heap, own, states', Append(stack, Load(f)), made') /\ Stay(states, states')
  BY <1>1, BeginsFit DEF Counts
<1>3. AllFit(heap, own, states', <<>>, made')
  BY <1>2, NoLoadsFit
<1>4. stack' = <<>> \/ stack' = Append(stack, Load(f))
  BY DEF InheritLoad, Fail
<1>5. AllFit(heap, own, states', stack', made')
  BY <1>2, <1>3, <1>4
<1>6. IInv'
  BY <1>1, <1>5 DEF IInv, Counts
<1>7. TablesStay(own)
  BY <1>1 DEF TablesStay
<1> QED BY <1>2, <1>6, <1>7 DEF StepIsFine

\* The state of the load that runs is named, and no longer a load's.
LEMMA NamedFit ==
  ASSUME Counts, NEW own, AllFit(heap, own, states, stack, made), stack # <<>>
  PROVE  /\ AllFit(heap, own, AddToCache(Running), Front(stack), made)
         /\ Stay(states, AddToCache(Running))
         /\ Running.L \notin Busy(Front(stack)) /\ Busy(Front(stack)) \subseteq Busy(stack)
         /\ Len(stack) > 1 => Front(stack) # <<>> /\ ~AtEnd(Last(Front(stack)))
<1> DEFINE st == Front(stack)
           ss == AddToCache(Running)
           load == Running
<1>1. /\ stack \in Seq(Loads(heap, made)) /\ states \in Seq(Entries(heap, made))
      /\ \A i \in DOMAIN states : states[i] \in Entries(heap, made)
  <2>1. states \in Seq(Entries(heap, made))
    BY DEF AllFit, EntriesFit
  <2> QED BY <2>1, ElementOfSeq DEF AllFit, LoadsFit
<1>2. /\ st \in Seq(Loads(heap, made)) /\ Len(st) = Len(stack) - 1
      /\ \A i \in 1..(Len(stack) - 1) : st[i] = stack[i]
      /\ Len(stack) \in Nat \ {0} /\ DOMAIN stack = 1..Len(stack)
  BY <1>1, FrontIs
<1>3. /\ load \in Loads(heap, made) /\ load = stack[Len(stack)] /\ Has(own, load.L, load.game)
  BY RunningIs DEF Running, Last
<1>4. /\ DOMAIN ss = DOMAIN states
      /\ \A i \in DOMAIN states :
           ss[i] = IF states[i].L = load.L
                   THEN [states[i] EXCEPT !.name = load.file, !.game = load.game] ELSE states[i]
  BY DEF AddToCache
<1> HIDE DEF st, ss, load
<1>5. /\ DOMAIN st = 1..(Len(stack) - 1) /\ DOMAIN st \subseteq DOMAIN stack
      /\ \A i \in DOMAIN st : st[i] = stack[i] /\ st[i].L # load.L /\ ~AtEnd(st[i])
  <2>1. DOMAIN st = 1..(Len(stack) - 1)
    BY <1>2
  <2>2. \A i \in DOMAIN st : i \in DOMAIN stack /\ st[i] = stack[i] /\ i # Len(stack) /\ Len(stack) \in DOMAIN stack
    BY <1>2, <2>1
  <2> QED BY <1>3, <2>1, <2>2 DEF AllFit, LoadsFit
<1>6. Busy(st) \subseteq Busy(stack) /\ load.L \notin Busy(st)
  BY <1>5 DEF Busy
<1>7. ASSUME NEW i \in DOMAIN states
      PROVE  /\ ss[i] \in Entries(heap, made) /\ ss[i].L = states[i].L
             /\ states[i].L = load.L => ss[i].game = load.game
             /\ states[i].L # load.L => ss[i] = states[i]
  <2>1. CASE states[i].L = load.L
    <3>1. states[i] = [L |-> states[i].L, name |-> states[i].name, game |-> states[i].game]
      BY <1>1 DEF Entries
    <3>2. ss[i] = [L |-> states[i].L, name |-> load.file, game |-> load.game]
      BY <1>4, <2>1, <3>1
    <3>3. load.file \in Files /\ load.game \in Games(heap) /\ states[i].L \in 1..made
      BY <1>1, <1>3 DEF Loads, Entries
    <3> QED BY <2>1, <3>2, <3>3 DEF Entries
  <2>2. CASE states[i].L # load.L
    BY <1>1, <1>4, <2>2
  <2> QED BY <2>1, <2>2
<1>8. ss \in Seq(Entries(heap, made))
  <2>1. DOMAIN states = 1..Len(states) /\ Len(states) \in Nat
    BY <1>1
  <2>2. ss = [i \in 1..Len(states) |-> ss[i]]
    BY <2>1 DEF ss, AddToCache
  <2> QED BY <1>7, <2>1, <2>2
<1>9. Sound(heap, own, Busy(st), made)
  BY <1>6, SoundForFewer DEF AllFit
<1>10. LoadsFit(heap, own, st, made)
  BY <1>2, <1>5 DEF AllFit, LoadsFit
<1>11. EntriesFit(heap, own, ss, st, made)
  <2>1. ASSUME NEW i \in DOMAIN states, ss[i].name # Blank
        PROVE  ss[i].L \notin Busy(st) /\ Has(own, ss[i].L, ss[i].game)
    <3>1. CASE states[i].L = load.L
      BY <3>1, <1>3, <1>6, <1>7
    <3>2. CASE states[i].L # load.L
      BY <2>1, <3>2, <1>6, <1>7 DEF AllFit, EntriesFit
    <3> QED BY <3>1, <3>2
  <2>2. \A i, j \in DOMAIN states : ss[i].L = ss[j].L => i = j
    BY <1>7 DEF AllFit, EntriesFit
  <2>3. ASSUME NEW i \in DOMAIN st PROVE \E j \in DOMAIN states : ss[j].L = st[i].L
    <3>1. PICK j \in DOMAIN states : states[j].L = stack[i].L
      BY <1>5 DEF AllFit, EntriesFit
    <3> QED BY <3>1, <1>5, <1>7
  <2> QED BY <1>4, <1>8, <2>1, <2>2, <2>3 DEF EntriesFit
<1>12. Stay(states, ss)
  <2> SUFFICES ASSUME NEW i \in DOMAIN states, NEW j \in DOMAIN states,
                      states[i].name # Blank, ss[j].L = states[i].L
               PROVE  ss[j] = states[i]
    BY <1>4 DEF Stay
  <2>1. i = j
    BY <1>7 DEF AllFit, EntriesFit
  <2>2. load.L \in Busy(stack)
    BY RunningIs DEF Running, load
  <2>3. states[i].L # load.L
    BY <2>2 DEF AllFit, EntriesFit
  <2> QED BY <2>1, <2>3, <1>7
<1>13. ASSUME Len(stack) > 1 PROVE st # <<>> /\ ~AtEnd(Last(st))
  <2>1. Len(st) \in DOMAIN st /\ Len(st) # 0
    BY <1>2, <1>5, <1>13
  <2> QED BY <2>1, <1>5, EmptySeq DEF Last
<1> QED BY <1>6, <1>9, <1>10, <1>11, <1>12, <1>13 DEF AllFit, st, ss, load

\* A file that was inherited is loaded.
LEMMA InheritedFits ==
  ASSUME Counts, NEW own, AllFit(heap, own, states, stack, made), Inherited
  PROVE  StepIsFine(own)
<1> DEFINE st == Front(stack)
<1>1. /\ stack # <<>> /\ Len(stack) > 1 /\ UNCHANGED <<made, crashed, left, newer, thrown>>
      /\ states' = AddToCache(Running)
  BY DEF Inherited, Step
<1>2. /\ AllFit(heap, own, states', st, made) /\ Stay(states, states')
      /\ Running.L \notin Busy(st) /\ Busy(st) \subseteq Busy(stack)
      /\ st # <<>> /\ ~AtEnd(Last(st))
  BY <1>1, NamedFit
<1>3. Counts'
  BY <1>1 DEF Counts
<1>4. CASE Running.game = Atom(Nil)
  <2>1. stack' = <<>> /\ UNCHANGED heap
    BY <1>4 DEF Inherited, Fail
  <2>2. AllFit(heap, own, states', <<>>, made)
    BY <1>2, NoLoadsFit
  <2>3. IInv'
    BY <1>1, <1>3, <2>1, <2>2 DEF IInv
  <2>4. TablesStay(own)
    BY <2>1 DEF TablesStay
  <2> QED BY <1>2, <2>3, <2>4 DEF StepIsFine
<1>5. CASE Running.game # Atom(Nil)
  <2>1. Running.game \in Games(heap) /\ Has(own, Running.L, Running.game)
    BY <1>1, RunningIs DEF Running, Loads
  <2>2. PICK u \in DOMAIN heap : Running.game = Own(u)
    BY <1>5, <2>1 DEF Games
  <2>3. own[u] \notin Busy(st)
    BY <1>2, <1>5, <2>1, <2>2 DEF Has, Own
  <2>4. PICK h : h = SimpleTableDuplicate(heap, u) /\ Receive(Front(st), Last(st), h, Own(Len(h)))
    <3>1. PICK h \in {SimpleTableDuplicate(heap, Running.game.of)} :
            Receive(Front(st), Last(st), h, Own(Len(h)))
      BY <1>5 DEF Inherited
    <3>2. Running.game.of = u
      BY <2>2 DEF Own
    <3> QED BY <3>1, <3>2
  <2> HIDE DEF st
  <2>5. PICK own2 : AllFit(heap', own2, states', stack', made) /\ Grown(heap, own, heap', own2, Last(st).L)
    BY <1>2, <2>3, <2>4, CopyReceived DEF Counts
  <2>6. Last(st).L \in Busy(stack)
    BY <1>2, RunningIs
  <2>7. TablesStay(own)
    BY <2>5, <2>6, OthersStay
  <2>8. IInv'
    BY <1>1, <1>3, <2>5 DEF IInv
  <2> QED BY <1>2, <2>7, <2>8 DEF StepIsFine
<1> QED BY <1>4, <1>5

\* CLuaFileCache::FreeState: the state of the file that was burnt is unlinked.
LEMMA BurntFits ==
  ASSUME Counts, NEW own, AllFit(heap, own, states, stack, made), Burnt
  PROVE  StepIsFine(own)
<1> DEFINE at == CHOOSE i \in DOMAIN states : states[i].L = Running.L
<1>1. /\ stack # <<>> /\ UNCHANGED <<heap, made, crashed, left, newer, thrown>> /\ stack' = <<>>
      /\ states' = RemoveAt(states, at)
  BY DEF Burnt, Step, FreeState
<1>2. at \in DOMAIN states
  BY <1>1, RunningIs DEF Running
<1>3. AllFit(heap, own, states, <<>>, made) /\ states \in Seq(Entries(heap, made))
  BY NoLoadsFit DEF AllFit, EntriesFit
<1> DEFINE was(j) == IF j < at THEN j ELSE j + 1
<1> HIDE DEF at
<1>4. /\ states' \in Seq(Entries(heap, made)) /\ Len(states') = Len(states) - 1
      /\ \A j \in 1..(Len(states) - 1) : states'[j] = states[was(j)]
  BY <1>1, <1>2, <1>3, RemoveAtIs
<1>5. /\ \A j \in DOMAIN states' : states'[j] = states[was(j)] /\ was(j) \in DOMAIN states
      /\ \A i, j \in DOMAIN states' : was(i) = was(j) => i = j
  BY <1>2, <1>3, <1>4
<1> HIDE DEF was
<1>6. EntriesFit(heap, own, states', <<>>, made)
  BY <1>3, <1>4, <1>5 DEF AllFit, EntriesFit
<1>7. Stay(states, states')
  BY <1>5 DEF AllFit, EntriesFit, Stay
<1>8. IInv'
  <2>1. AllFit(heap, own, states', <<>>, made)
    BY <1>3, <1>6 DEF AllFit
  <2> QED BY <1>1, <2>1 DEF IInv, Counts
<1>9. TablesStay(own)
  BY <1>1 DEF TablesStay
<1> QED BY <1>7, <1>8, <1>9 DEF StepIsFine

LEMMA StepFits ==
  ASSUME Counts, NEW own, AllFit(heap, own, states, stack, made), [Next]_vars
  PROVE  StepIsFine(own)
<1>1. ASSUME NEW f \in Folder, Burn(f) \/ Throw(f) \/ FoundNewer(f) PROVE StepIsFine(own)
  <2>1. CASE Burn(f)
    BY <2>1, BurnFits
  <2>2. CASE Throw(f) \/ FoundNewer(f)
    <3>1. PassedOver(f)
      BY <2>2 DEF Throw, FoundNewer, PassedOver, Counts
    <3> QED BY <3>1, PassedOverFits
  <2> QED BY <1>1, <2>1, <2>2
<1>7. CASE Skip
  BY <1>7, SkipFits
<1>2. CASE Literal
  BY <1>2, LiteralFits
<1>3. CASE Inherited
  BY <1>3, InheritedFits
<1>4. CASE Burnt
  BY <1>4, BurntFits
<1>5. ASSUME NEW f \in Files, InheritCached(f) \/ InheritUnreadable(f) \/ InheritLoad(f)
      PROVE  StepIsFine(own)
  BY <1>5, InheritCachedFits, InheritUnreadableFits, InheritLoadFits
<1>6. CASE UNCHANGED vars
  <2>1. IInv'
    BY <1>6 DEF vars, IInv, Counts
  <2>2. Stay(states, states')
    BY <1>6, StayAll DEF vars
  <2> QED BY <1>6, <2>1, <2>2 DEF vars, StepIsFine, TablesStay
<1> QED BY <1>1, <1>2, <1>3, <1>4, <1>5, <1>6, <1>7 DEF Next

LEMMA StepKeeps == IInv /\ [Next]_vars => IInv'
BY StepFits DEF IInv, StepIsFine

LEMMA InvariantHolds == Spec => []IInv
<1> QED BY InitFits, StepKeeps, PTL DEF Spec

-----------------------------------------------------------------------------
(* The types *)

\* Cells lead to tables, loads are at a statement or at the end, states are told
\* apart by what has been made: for any files.
THEOREM TypeCorrect == Spec => []TypeOK
<1>1. ASSUME IInv PROVE TypeOK
  <2>1. PICK own : AllFit(heap, own, states, stack, made)
    BY <1>1 DEF IInv
  <2>2. \A i \in DOMAIN stack : stack[i] \in Loads(heap, made)
    BY <2>1, ElementOfSeq DEF AllFit, LoadsFit
  <2>3. \A i \in DOMAIN states : states[i] \in Entries(heap, made)
    BY <2>1, ElementOfSeq DEF AllFit, EntriesFit
  <2>4. \A i \in DOMAIN stack : stack[i].pc \in 1..Len(Script[stack[i].file]) + 1
    BY <2>1 DEF AllFit, LoadsFit
  <2>5. \A t \in DOMAIN heap, k \in Keys : heap[t][k].is # "atom" => heap[t][k].of \in DOMAIN heap
    BY <2>1 DEF AllFit, Sound
  <2> QED BY <1>1, <2>2, <2>3, <2>4, <2>5 DEF IInv, Counts, TypeOK, Loads, Entries
<1> QED BY <1>1, InvariantHolds, PTL

-----------------------------------------------------------------------------
(* What is in the cache *)

\* What is below a table stays in any set that nothing leads out of.
LEMMA BelowIsIn ==
  ASSUME NEW h, Len(h) \in Nat, NEW c, NEW T, c.is # "atom" => c.of \in T,
         \A t \in T, k \in Keys : h[t][k].is # "atom" => h[t][k].of \in T
  PROVE  Below(h, c) \subseteq T
<1> DEFINE n == Len(h)
           S == SUBSET T
           s0 == {t \in DOMAIN h : c.is # "atom" /\ t = c.of}
           g == [i \in 1..n |-> [ts \in S |-> OneDown(h, ts)]]
           Is(f) == f = [i \in 0..n |-> IF i = 0 THEN s0 ELSE OneDown(h, f[i - 1])]
           down == CHOOSE f : Is(f)
<1>1. s0 \in S
  OBVIOUS
<1>2. ASSUME NEW ts \in S PROVE OneDown(h, ts) \in S
  BY DEF OneDown
<1>3. g \in [1..n -> [S -> S]]
  BY <1>2
<1> HIDE DEF S, s0
<1>4. \E f : Is(f)
  <2> HIDE DEF n, g
  <2>0. n \in Nat
    BY DEF n
  <2>1. PICK f \in [0..n -> S] : Built(f, s0, n, g)
    BY <2>0, <1>1, <1>3, Iterates
  <2>2. \A i \in 0..n : i # 0 => i \in 1..n /\ i - 1 \in 0..n /\ f[i - 1] \in S
    BY <2>0
  <2>3. \A i \in 0..n : i # 0 => g[i][f[i - 1]] = OneDown(h, f[i - 1])
    BY <2>2 DEF g
  <2>4. Is(f)
    BY <2>1, <2>3 DEF Built
  <2> QED BY <2>4
<1>5. Is(down)
  <2> HIDE DEF Is
  <2> QED BY <1>4
<1> HIDE DEF down
<1>6. down[n] \in S
  <2> DEFINE P == {i \in 0..n : down[i] \in S}
  <2>1. 0 \in P
    BY <1>1, <1>5
  <2>2. ASSUME NEW i \in 1..n, i - 1 \in P PROVE i \in P
    <3>1. down[i] = OneDown(h, down[i - 1])
      BY <1>5
    <3> QED BY <3>1, <2>2, <1>2
  <2>3. n \in Nat /\ \A i \in 1..n : i - 1 \in P => i \in P
    BY <2>2
  <2>4. \A i \in 0..n : i \in P
    <3> HIDE DEF P, n
    <3> QED BY <2>1, <2>3, Along
  <2> QED BY <2>4
<1>7. Below(h, c) = down[n]
  BY DEF Below, down, Is, s0
<1> QED BY <1>6, <1>7 DEF S

\* No step changes a table that a state in the cache leads to, at any depth and
\* through any chain of wraps, nor the state: tLuaTableProtector's copies keep
\* those that inherit apart, for any files.
THEOREM CacheIsUntouched == Spec => CacheUntouched
<1>1. ASSUME IInv, [Next]_vars PROVE StatesStay
  <2>1. PICK own : AllFit(heap, own, states, stack, made)
    BY <1>1 DEF IInv
  <2>2. Stay(states, states') /\ (Cleared \/ TablesStay(own))
    BY <1>1, <2>1, StepFits DEF IInv, StepIsFine
  <2> SUFFICES ASSUME NEW i \in DOMAIN states, NEW j \in DOMAIN states',
                      states[i].name # Blank, states'[j].L = states[i].L,
                      NEW t \in Below(heap, states[i].game)
               PROVE  t \in DOMAIN heap' /\ heap'[t] = heap[t]
    BY <2>2 DEF Stay, StatesStay
  <2>3. TablesStay(own)
    BY <2>2 DEF Cleared
  <2> DEFINE T == {u \in DOMAIN heap : own[u] \notin Busy(stack)}
             c == states[i].game
  <2>4. states[i] \in Entries(heap, made)
    BY <2>1, ElementOfSeq DEF AllFit, EntriesFit
  <2>5. states[i].L \notin Busy(stack) /\ Has(own, states[i].L, c)
    BY <2>1 DEF AllFit, EntriesFit
  <2>6. c.is # "atom" => c.of \in T
    BY <2>4, <2>5 DEF Entries, Games, Has, Own, Atom
  <2>7. \A u \in T, k \in Keys : heap[u][k].is # "atom" => heap[u][k].of \in T
    <3> SUFFICES ASSUME NEW u \in T, NEW k \in Keys, heap[u][k].is # "atom"
                 PROVE  heap[u][k].of \in T
      OBVIOUS
    <3>1. heap[u][k] \in Cells
      BY <2>1 DEF AllFit, Sound, Tables
    <3> QED BY <2>1, <3>1 DEF AllFit, Sound, Cells
  <2>8. Len(heap) \in Nat
    BY <2>1 DEF AllFit, Sound
  <2> HIDE DEF T, c
  <2>9. t \in T
    BY <2>6, <2>7, <2>8, BelowIsIn DEF c
  <2> QED BY <2>3, <2>9 DEF T, TablesStay
<1> QED BY <1>1, InvariantHolds, PTL DEF Spec, CacheUntouched

-----------------------------------------------------------------------------
(* Neither a nil is duplicated nor does the C stack overflow, as long as     *)
(* files that are inherited have GameData and do not inherit one another too *)
(* deep: lua_hollow shows that the first is needed                           *)

Inherits(f, g) == g \in Files \ Unreadable /\ \E i \in DOMAIN Script[f] : Script[f][i].is = g

\* What the files of the folder inherit, and what those inherit, has GameData.
WithGameData(reached) ==
  /\ Folder \subseteq reached /\ reached \subseteq Files
  /\ \A f \in reached : \A g \in Files : Inherits(f, g) =>
       g \in reached /\ \E i \in DOMAIN Script[g] : Script[g][i].at = <<>>

\* A file of the folder, a file it inherits, another that this one inherits...
Chain(c, n) ==
  /\ c \in [1..n -> Files] /\ c[1] \in Folder
  /\ \A i \in 2..n : Inherits(c[i - 1], c[i]) /\ \A j \in 2..n : c[i] = c[j] => i = j

Shallow == \A c \in [1..MaxDepth + 1 -> Files] : ~Chain(c, MaxDepth + 1)

\* The loads in progress are such a chain.
Chained(st) ==
  \A i \in DOMAIN st :
    /\ i = 1 => st[i].file \in Folder
    /\ i # 1 => Inherits(st[i - 1].file, st[i].file)
    /\ \A j \in DOMAIN st : i # 1 /\ j # 1 /\ st[i].file = st[j].file => i = j

\* A load that is past the statement that assigns GameData has it.
PastHas(load) ==
  (\E i \in 1..(load.pc - 1) : Script[load.file][i].at = <<>>) => load.game # Atom(Nil)

\* A state that is named has a GameData to duplicate.
NamedHave(ss) == \A i \in DOMAIN ss : ss[i].name # Blank => ss[i].game # Atom(Nil)

Alive(st, ss) == Chained(st) /\ (\A i \in DOMAIN st : PastHas(st[i])) /\ NamedHave(ss)

SafeInv == IInv /\ Alive(stack, states) /\ ~crashed

LEMMA ShapeOfState ==
  ASSUME IInv
  PROVE  /\ made \in Nat /\ stack \in Seq(Loads(heap, made)) /\ states \in Seq(Entries(heap, made))
         /\ \A i \in DOMAIN stack :
              /\ stack[i].file \in Files /\ stack[i].pc \in 1..Len(Script[stack[i].file]) + 1
              /\ Script[stack[i].file] \in Seq(Statement)
<1>1. PICK own : AllFit(heap, own, states, stack, made)
  BY DEF IInv
<1>2. \A i \in DOMAIN stack : stack[i] \in Loads(heap, made)
  BY <1>1, ElementOfSeq DEF AllFit, LoadsFit
<1>3. \A i \in DOMAIN stack :
        stack[i].file \in Files /\ stack[i].pc \in 1..Len(Script[stack[i].file]) + 1
  BY <1>1, <1>2 DEF AllFit, LoadsFit, Loads
<1>4. \A i \in DOMAIN stack : Script[stack[i].file] \in Seq(Statement)
  BY <1>3, BurnAssumption
<1> QED BY <1>1, <1>3, <1>4 DEF IInv, Counts, AllFit, LoadsFit, EntriesFit

\* The loads of a folder's files are all of files that are reached.
LEMMA ReachedByAll ==
  ASSUME IInv, Chained(stack), NEW reached, WithGameData(reached)
  PROVE  \A i \in DOMAIN stack : stack[i].file \in reached
<1> DEFINE n == Len(stack)
           P == {i \in 0..n : i # 0 => stack[i].file \in reached}
<1>1. n \in Nat /\ DOMAIN stack = 1..n
  BY ShapeOfState
<1>2. 0 \in P
  BY <1>1
<1>3. ASSUME NEW i \in 1..n, i - 1 \in P PROVE i \in P
  <2>1. stack[i].file \in Files
    BY <1>1, ShapeOfState
  <2>2. CASE i = 1
    BY <2>2, <1>1 DEF Chained, WithGameData
  <2>3. CASE i # 1
    <3>1. i - 1 \in DOMAIN stack /\ stack[i - 1].file \in reached
      BY <2>3, <1>1, <1>3
    <3> QED BY <2>1, <2>3, <3>1, <1>1 DEF Chained, WithGameData
  <2> QED BY <2>2, <2>3
<1>4. \A i \in 1..n : i - 1 \in P => i \in P
  BY <1>3
<1>5. \A i \in 0..n : i \in P
  <2> HIDE DEF P, n
  <2> QED BY <1>1, <1>2, <1>4, Along
<1> QED BY <1>1, <1>5

\* A statement is carried out by the load on top.
LEMMA ReceiveAlive ==
  ASSUME NEW h, NEW m, NEW st, st \in Seq(Loads(h, m)), st # <<>>, NEW ss, Alive(st, ss),
         NEW h2, NEW c, At(Last(st)).at = <<>> => c # Atom(Nil), Receive(Front(st), Last(st), h2, c)
  PROVE  Alive(stack', ss)
<1>1. CASE stack' = <<>>
  BY <1>1 DEF Alive, Chained
<1> DEFINE load == Last(st)
           game == IF At(load).at = <<>> THEN c ELSE load.game
           x == [Advanced(load) EXCEPT !.game = game]
<1>2. CASE stack' = Append(Front(st), x)
  <2>1. load \in Loads(h, m) /\ load = st[Len(st)] /\ Len(st) \in DOMAIN st
    BY FrontIs DEF Last
  <2> HIDE DEF load
  <2>2. load = [file |-> load.file, L |-> load.L, pc |-> load.pc, game |-> load.game] /\ load.pc \in Nat
    BY <2>1 DEF Loads
  <2>3. x = [file |-> load.file, L |-> load.L, pc |-> load.pc + 1, game |-> game]
    BY <2>2, OneOn
  <2> HIDE DEF x, game
  <2> DEFINE T == {x} \union {st[i] : i \in 1..(Len(st) - 1)}
  <2>4. Topped(stack', st, x, T)
    BY <1>2, LastReplaced
  <2>5. /\ DOMAIN stack' = DOMAIN st /\ DOMAIN st = 1..Len(st) /\ Len(st) \in Nat
        /\ \A i \in DOMAIN st : i # Len(st) => stack'[i] = st[i]
        /\ stack'[Len(st)] = x
    <3>1. stack' \in Seq(T) /\ Len(stack') = Len(st)
      BY <2>4 DEF Topped
    <3>2. DOMAIN st = 1..Len(st) /\ Len(st) \in Nat
      OBVIOUS
    <3> HIDE DEF T
    <3>3. DOMAIN stack' = 1..Len(stack')
      BY <3>1
    <3> QED BY <2>4, <3>1, <3>2, <3>3 DEF Topped
  <2>6. \A i \in DOMAIN st : stack'[i].file = st[i].file
    BY <2>1, <2>3, <2>5
  <2>7. Chained(stack')
    <3>1. \A i \in DOMAIN st : i # 1 => i - 1 \in DOMAIN st
      BY <2>5
    <3> QED BY <2>5, <2>6, <3>1 DEF Alive, Chained
  <2>8. PastHas(x)
    <3>1. PastHas(load)
      BY <2>1 DEF Alive
    <3>2. x.file = load.file /\ x.pc = load.pc + 1 /\ x.game = game
      BY <2>3
    <3>3. CASE At(load).at = <<>>
      BY <3>2, <3>3 DEF PastHas, game, load
    <3>4. CASE At(load).at # <<>>
      <4>1. \A i \in 1..(x.pc - 1) : Script[load.file][i].at = <<>> => i \in 1..(load.pc - 1)
        BY <2>2, <3>2, <3>4 DEF At
      <4> QED BY <3>1, <3>2, <3>4, <4>1 DEF PastHas, game
    <3> QED BY <3>3, <3>4
  <2>9. \A i \in DOMAIN st : PastHas(stack'[i])
    BY <2>5, <2>8 DEF Alive
  <2> QED BY <2>5, <2>7, <2>9 DEF Alive
<1> QED BY <1>1, <1>2 DEF Receive, Fail

LEMMA FewerAlive ==
  ASSUME NEW h, NEW m, NEW st, st \in Seq(Loads(h, m)), st # <<>>, NEW ss, Alive(st, ss)
  PROVE  Alive(Front(st), ss)
<1>1. /\ Front(st) \in Seq(Loads(h, m)) /\ Len(Front(st)) = Len(st) - 1
      /\ \A i \in 1..(Len(st) - 1) : Front(st)[i] = st[i]
  BY FrontIs
<1>2. /\ DOMAIN Front(st) = 1..(Len(st) - 1)
      /\ \A i \in DOMAIN Front(st) : i \in DOMAIN st /\ Front(st)[i] = st[i]
      /\ \A i \in DOMAIN Front(st) : i # 1 => i - 1 \in DOMAIN Front(st)
  BY <1>1
<1> QED BY <1>2 DEF Alive, Chained

\* The load that runs is at a statement of its file, or at the end.
LEMMA RunningShape ==
  ASSUME IInv, stack # <<>>
  PROVE  /\ Len(stack) \in DOMAIN stack /\ DOMAIN stack = 1..Len(stack) /\ Len(stack) \in Nat
         /\ Running = stack[Len(stack)]
         /\ Running.file \in Files /\ Running.pc \in 1..Len(Script[Running.file]) + 1
         /\ ~AtEnd(Running) => /\ Running.pc \in DOMAIN Script[Running.file]
                               /\ At(Running) \in Statement
                               /\ At(Running).at = <<>> => At(Running).is \notin Values
<1>1. /\ Len(stack) \in DOMAIN stack /\ DOMAIN stack = 1..Len(stack) /\ Len(stack) \in Nat
      /\ Running = stack[Len(stack)]
  BY ShapeOfState, FrontIs DEF Running, Last
<1>2. /\ Running.file \in Files /\ Running.pc \in 1..Len(Script[Running.file]) + 1
      /\ Script[Running.file] \in Seq(Statement)
  BY <1>1, ShapeOfState
<1>3. ASSUME ~AtEnd(Running)
      PROVE  Running.pc \in DOMAIN Script[Running.file] /\ At(Running) \in Statement
  <2>1. Running.pc \in 1..Len(Script[Running.file])
    BY <1>2, <1>3 DEF AtEnd
  <2> QED BY <1>2, <2>1, ElementOfSeq DEF At
<1>4. ASSUME ~AtEnd(Running), At(Running).at = <<>> PROVE At(Running).is \notin Values
  BY <1>2, <1>3, <1>4, BurnAssumption DEF At
<1> QED BY <1>1, <1>2, <1>3, <1>4

\* The state that is made for a load has no name yet.
LEMMA MadeHave ==
  ASSUME NEW S, NEW ss \in Seq(S), NamedHave(ss)
  PROVE  NamedHave(MakeState(ss))
<1> DEFINE e == [L |-> made + 1, name |-> Blank, game |-> Atom(Nil)]
           T == S \union {e}
<1>1. ss \in Seq(T) /\ e \in T /\ MakeState(ss) = Append(ss, e)
  BY SeqIn DEF MakeState
<1>2. e.name = Blank
  OBVIOUS
<1> HIDE DEF e, T
<1>3. /\ Len(MakeState(ss)) = Len(ss) + 1 /\ MakeState(ss) \in Seq(T)
      /\ \A i \in 1..Len(ss) : MakeState(ss)[i] = ss[i]
      /\ MakeState(ss)[Len(ss) + 1] = e
  BY <1>1, AppendProperties
<1>4. \A i \in DOMAIN MakeState(ss) :
        (i \in DOMAIN ss /\ MakeState(ss)[i] = ss[i]) \/ MakeState(ss)[i] = e
  BY <1>1, <1>3
<1> QED BY <1>2, <1>4 DEF NamedHave

\* The file that is loaded next makes the chain longer.
LEMMA LoadAlive ==
  ASSUME SafeInv, NEW reached, WithGameData(reached), Shallow, NEW f \in Files, InheritLoad(f)
  PROVE  Alive(stack', states') /\ ~crashed'
<1>1. /\ stack # <<>> /\ ~AtEnd(Running) /\ At(Running).is = f /\ f \notin Unreadable /\ ~crashed
      /\ states' = MakeState(states)
  BY DEF InheritLoad, Uncached, Step
<1>2. /\ Len(stack) \in DOMAIN stack /\ DOMAIN stack = 1..Len(stack) /\ Len(stack) \in Nat
      /\ Running = stack[Len(stack)] /\ Running.pc \in DOMAIN Script[Running.file]
  BY <1>1, RunningShape DEF SafeInv
<1>3. Inherits(Running.file, f)
  BY <1>1, <1>2 DEF Inherits, At
<1>4. NamedHave(states')
  BY <1>1, ShapeOfState, MadeHave DEF SafeInv, Alive
<1>5. CASE Circular(f)
  <2>1. stack' = <<>> /\ crashed' = crashed
    BY <1>5 DEF InheritLoad, Fail
  <2> QED BY <1>1, <1>4, <2>1 DEF Alive, Chained
<1>6. CASE ~Circular(f)
  <2> DEFINE n == Len(stack)
             x == Load(f)
  <2>1. stack' = Append(stack, x) /\ crashed' = (n = MaxDepth)
    BY <1>6 DEF InheritLoad
  <2>2. x.file = f /\ x.pc = 1
    BY DEF Load
  <2>3. \A i \in 2..n : stack[i].file # f
    BY <1>6 DEF Circular
  <2> DEFINE T == {stack[i] : i \in 1..n} \union {x}
  <2>4. stack \in Seq(T) /\ x \in T
    <3>1. stack \in Seq(Loads(heap, made))
      BY ShapeOfState DEF SafeInv
    <3> QED BY <1>2, <3>1, SeqIn
  <2> HIDE DEF x, T
  <2>5. /\ Len(stack') = n + 1 /\ stack'[n + 1] = x /\ stack' \in Seq(T)
        /\ \A i \in 1..n : stack'[i] = stack[i]
    BY <2>1, <2>4, AppendProperties
  <2>6. n \in Nat /\ n \in 1..n /\ DOMAIN stack = 1..n /\ DOMAIN stack' = 1..(n + 1) /\ Running = stack[n]
    BY <1>2, <2>5
  <2> HIDE DEF n
  <2>7. \A i \in 1..(n + 1) : i \in 1..n \/ i = n + 1
    BY <2>6
  <2>8. Chained(stack')
    <3> SUFFICES ASSUME NEW i \in 1..(n + 1)
                 PROVE  /\ i = 1 => stack'[i].file \in Folder
                        /\ i # 1 => Inherits(stack'[i - 1].file, stack'[i].file)
                        /\ \A j \in 1..(n + 1) :
                             i # 1 /\ j # 1 /\ stack'[i].file = stack'[j].file => i = j
      BY <2>6 DEF Chained
    <3>1. Chained(stack)
      BY DEF SafeInv, Alive
    <3>2. i = 1 => stack'[i].file \in Folder
      BY <2>5, <2>6, <3>1 DEF Chained
    <3>3. i # 1 => Inherits(stack'[i - 1].file, stack'[i].file)
      <4>1. CASE i \in 1..n /\ i # 1
        <5>1. i - 1 \in 1..n
          BY <4>1, <2>6
        <5> QED BY <4>1, <5>1, <2>5, <2>6, <3>1 DEF Chained
      <4>2. CASE i = n + 1
        <5>1. i - 1 = n /\ stack'[n] = Running /\ stack'[i].file = f
          BY <4>2, <2>2, <2>5, <2>6
        <5> QED BY <5>1, <1>3
      <4> QED BY <4>1, <4>2, <2>7
    <3>4. ASSUME NEW j \in 1..(n + 1), i # 1, j # 1, stack'[i].file = stack'[j].file PROVE i = j
      <4>1. CASE i \in 1..n /\ j \in 1..n
        BY <3>1, <3>4, <4>1, <2>5, <2>6 DEF Chained
      <4>2. CASE i = n + 1 /\ j \in 1..n
        BY <3>4, <4>2, <2>2, <2>3, <2>5, <2>6
      <4>3. CASE i \in 1..n /\ j = n + 1
        BY <3>4, <4>3, <2>2, <2>3, <2>5, <2>6
      <4> QED BY <4>1, <4>2, <4>3, <2>7
    <3> QED BY <3>2, <3>3, <3>4
  <2>9. \A i \in DOMAIN stack' : PastHas(stack'[i])
    <3>1. PastHas(x)
      BY <2>2 DEF PastHas
    <3> QED BY <2>5, <2>6, <2>7, <3>1 DEF SafeInv, Alive
  <2>10. n # MaxDepth
    <3> SUFFICES ASSUME n = MaxDepth PROVE FALSE
      OBVIOUS
    <3> DEFINE c == [i \in 1..MaxDepth + 1 |-> stack'[i].file]
    <3>1. c \in [1..MaxDepth + 1 -> Files]
      <4>1. \A i \in 1..n : stack[i].file \in Files
        BY <2>6, ShapeOfState DEF SafeInv
      <4> QED BY <2>2, <2>5, <2>7, <4>1
    <3>2. Chain(c, MaxDepth + 1)
      <4>1. 1 \in 1..(n + 1) /\ c[1] = stack'[1].file
        BY <2>6
      <4>2. \A i \in 2..(n + 1) : i # 1 /\ i \in 1..(n + 1) /\ i - 1 \in 1..(n + 1)
        BY <2>6
      <4>3. \A i \in 1..(n + 1) : c[i] = stack'[i].file
        OBVIOUS
      <4> HIDE DEF c
      <4>4. \A i \in 2..(n + 1) : Inherits(c[i - 1], c[i])
        BY <2>6, <2>8, <4>2, <4>3 DEF Chained
      <4>5. \A i, j \in 2..(n + 1) : c[i] = c[j] => i = j
        BY <2>6, <2>8, <4>2, <4>3 DEF Chained
      <4>6. c[1] \in Folder
        BY <2>6, <2>8, <4>1 DEF Chained
      <4> QED BY <3>1, <4>4, <4>5, <4>6 DEF Chain
    <3> QED BY <3>1, <3>2 DEF Shallow
  <2> QED BY <1>4, <2>1, <2>8, <2>9, <2>10 DEF Alive
<1> QED BY <1>5, <1>6

\* The walk goes on: there is one load, of a file of the folder.
LEMMA BurnAlive ==
  ASSUME SafeInv, NEW f \in Folder, Burn(f)
  PROVE  Alive(stack', states')
<1>1. stack' = <<Load(f)>> /\ states' = MakeState(Kept)
  BY DEF Burn
<1>2. Kept \in Seq(Entries(heap, made)) /\ NamedHave(Kept)
  BY ShapeOfState DEF SafeInv, Alive, Kept, NamedHave
<1>3. NamedHave(states')
  BY <1>1, <1>2, MadeHave
<1>4. DOMAIN stack' = {1} /\ stack'[1].file = f /\ stack'[1].pc = 1
  BY <1>1 DEF Load
<1> QED BY <1>3, <1>4 DEF Alive, Chained, PastHas

LEMMA LiteralAlive ==
  ASSUME SafeInv, Literal
  PROVE  Alive(stack', states')
<1>1. /\ stack # <<>> /\ ~AtEnd(Running) /\ At(Running).is \notin Files /\ states' = states
  BY DEF Literal, Step
<1>2. At(Running) \in Statement /\ (At(Running).at = <<>> => At(Running).is \notin Values)
  BY <1>1, RunningShape DEF SafeInv
<1>3. At(Running).at = <<>> => At(Running).is = Blank
  BY <1>1, <1>2 DEF Statement
<1> DEFINE new == At(Running).is = Blank
           h == IF new THEN NewTable(heap) ELSE heap
           c == IF new THEN Own(Len(h)) ELSE Atom(At(Running).is)
<1>4. Receive(Front(stack), Running, h, c)
  BY DEF Literal
<1>5. At(Running).at = <<>> => c # Atom(Nil)
  BY <1>3 DEF Own, Atom
<1> HIDE DEF c, h
<1>6. stack \in Seq(Loads(heap, made)) /\ Alive(stack, states)
  BY ShapeOfState DEF SafeInv
<1> QED BY <1>1, <1>4, <1>5, <1>6, ReceiveAlive DEF Running

\* What Fetch finds has a GameData.
LEMMA InheritCachedAlive ==
  ASSUME SafeInv, NEW f \in Files, InheritCached(f)
  PROVE  Alive(stack', states') /\ ~crashed'
<1> DEFINE game == states[Fetch(f)].game
<1>1. stack # <<>> /\ states' = states /\ Named(f) # {}
  BY DEF InheritCached, Step
<1>2. stack \in Seq(Loads(heap, made)) /\ states \in Seq(Entries(heap, made)) /\ Alive(stack, states)
  BY ShapeOfState DEF SafeInv
<1>3. Fetch(f) \in DOMAIN states /\ states[Fetch(f)].name = f /\ f # Blank
  BY <1>1, <1>2, FetchIs, BurnAssumption
<1>4. game # Atom(Nil)
  BY <1>2, <1>3 DEF Alive, NamedHave
<1>5. ~crashed'
  BY <1>4 DEF InheritCached
<1>6. PICK h : Receive(Front(stack), Running, h, Own(Len(h)))
  BY <1>5 DEF InheritCached
<1>7. Own(Len(h)) # Atom(Nil)
  BY DEF Own, Atom
<1> QED BY <1>1, <1>2, <1>5, <1>6, <1>7, ReceiveAlive DEF Running

\* A file that was inherited has its GameData when it has run to its end.
LEMMA EndHasGameData ==
  ASSUME SafeInv, NEW reached, WithGameData(reached), Len(stack) > 1, AtEnd(Running)
  PROVE  Running.game # Atom(Nil)
<1> DEFINE n == Len(stack)
           f == Running.file
<1>1. /\ n \in DOMAIN stack /\ n - 1 \in DOMAIN stack /\ n # 1
      /\ Running = stack[n] /\ f \in Files /\ Running.pc \in 1..Len(Script[f]) + 1
  <2>1. stack # <<>>
    BY EmptySeq, ShapeOfState DEF SafeInv
  <2> QED BY <2>1, RunningShape DEF SafeInv
<1>2. Inherits(stack[n - 1].file, f) /\ PastHas(Running)
  BY <1>1 DEF SafeInv, Alive, Chained
<1>3. stack[n - 1].file \in reached
  BY <1>1, ReachedByAll DEF SafeInv, Alive
<1>4. PICK i \in DOMAIN Script[f] : Script[f][i].at = <<>>
  BY <1>1, <1>2, <1>3 DEF WithGameData
<1>5. Script[f] \in Seq(Statement)
  BY <1>1, BurnAssumption
<1>6. i \in 1..(Running.pc - 1)
  BY <1>1, <1>4, <1>5 DEF AtEnd
<1> QED BY <1>2, <1>4, <1>6 DEF PastHas

LEMMA InheritedAlive ==
  ASSUME SafeInv, NEW reached, WithGameData(reached), Inherited
  PROVE  Alive(stack', states')
<1> DEFINE st == Front(stack)
<1>1. stack # <<>> /\ Len(stack) > 1 /\ AtEnd(Running) /\ states' = AddToCache(Running)
  BY DEF Inherited, Step
<1>2. /\ stack \in Seq(Loads(heap, made)) /\ states \in Seq(Entries(heap, made))
      /\ Alive(stack, states)
  BY ShapeOfState DEF SafeInv
<1>3. Running.game # Atom(Nil)
  BY <1>1, EndHasGameData
<1>4. NamedHave(states')
  <2> SUFFICES ASSUME NEW i \in DOMAIN states, states'[i].name # Blank
               PROVE  states'[i].game # Atom(Nil)
    BY <1>1 DEF AddToCache, NamedHave
  <2>1. states[i] \in Entries(heap, made)
    BY <1>2, ElementOfSeq
  <2>2. CASE states[i].L = Running.L
    <3>1. states'[i] = [states[i] EXCEPT !.name = Running.file, !.game = Running.game]
      BY <1>1, <2>2 DEF AddToCache
    <3> QED BY <1>3, <2>1, <3>1 DEF Entries
  <2>3. CASE states[i].L # Running.L
    BY <1>1, <1>2, <2>3 DEF AddToCache, Alive, NamedHave
  <2> QED BY <2>2, <2>3
<1>5. Alive(stack, states')
  BY <1>2, <1>4 DEF Alive
<1>6. st \in Seq(Loads(heap, made)) /\ st # <<>> /\ Alive(st, states')
  <2>1. st \in Seq(Loads(heap, made)) /\ Len(st) = Len(stack) - 1 /\ Len(stack) \in Nat
    BY <1>1, <1>2, FrontIs
  <2>2. Len(st) # 0
    BY <1>1, <2>1
  <2> QED BY <1>1, <1>2, <1>5, <2>1, <2>2, EmptySeq, FewerAlive
<1>7. PICK h : Receive(Front(st), Last(st), h, Own(Len(h)))
  BY <1>3 DEF Inherited
<1>8. Own(Len(h)) # Atom(Nil)
  BY DEF Own, Atom
<1> HIDE DEF st
<1> QED BY <1>6, <1>7, <1>8, ReceiveAlive

LEMMA BurntAlive ==
  ASSUME SafeInv, Burnt
  PROVE  Alive(stack', states')
<1> DEFINE at == CHOOSE i \in DOMAIN states : states[i].L = Running.L
<1>1. stack # <<>> /\ stack' = <<>> /\ states' = RemoveAt(states, at)
  BY DEF Burnt, Step, FreeState
<1>2. PICK own : AllFit(heap, own, states, stack, made)
  BY DEF SafeInv, IInv
<1>3. states \in Seq(Entries(heap, made)) /\ at \in 1..Len(states)
  <2>1. states \in Seq(Entries(heap, made))
    BY <1>2 DEF AllFit, EntriesFit
  <2>2. at \in DOMAIN states
    BY <1>1, <1>2, RunningIs DEF Running
  <2> HIDE DEF at
  <2> QED BY <2>1, <2>2
<1> DEFINE was(j) == IF j < at THEN j ELSE j + 1
<1> HIDE DEF at
<1>4. /\ states' \in Seq(Entries(heap, made)) /\ Len(states') = Len(states) - 1
      /\ \A j \in 1..(Len(states) - 1) : states'[j] = states[was(j)]
  BY <1>1, <1>3, RemoveAtIs
<1>5. \A j \in DOMAIN states' : states'[j] = states[was(j)] /\ was(j) \in DOMAIN states
  <2>1. DOMAIN states = 1..Len(states) /\ DOMAIN states' = 1..(Len(states) - 1) /\ Len(states) \in Nat
    BY <1>3, <1>4
  <2>2. \A j \in 1..(Len(states) - 1) : was(j) \in 1..Len(states)
    BY <1>3, <2>1
  <2> QED BY <1>4, <2>1, <2>2
<1> HIDE DEF was
<1>6. NamedHave(states')
  BY <1>5 DEF SafeInv, Alive, NamedHave
<1> QED BY <1>1, <1>6 DEF Alive, Chained

StillAlive == Alive(stack', states') /\ ~crashed'

LEMMA SafeStep ==
  ASSUME NEW reached, WithGameData(reached), Shallow, SafeInv, [Next]_vars
  PROVE  SafeInv'
<1>1. IInv'
  BY StepKeeps DEF SafeInv
<1>2. Alive(stack, states) /\ ~crashed
  BY DEF SafeInv
<1>3. crashed' = crashed /\ Alive(stack', states') => StillAlive
  BY <1>2 DEF StillAlive
<1>4. ASSUME NEW f \in Folder, Burn(f) PROVE StillAlive
  BY <1>3, <1>4, BurnAlive DEF Burn
<1>5. ASSUME NEW f \in Folder, Throw(f) \/ FoundNewer(f) PROVE StillAlive
  <2>1. NamedHave(states')
    BY <1>2, <1>5 DEF Throw, FoundNewer, Kept, Alive, NamedHave
  <2>2. stack' = stack /\ crashed' = crashed
    BY <1>5 DEF Throw, FoundNewer
  <2> QED BY <1>2, <1>3, <2>1, <2>2 DEF Alive
<1>14. ASSUME Skip PROVE StillAlive
  <2>1. stack' = stack /\ states' = states /\ crashed' = crashed
    BY <1>14 DEF Skip
  <2> QED BY <1>2, <1>3, <2>1
<1>6. ASSUME Literal PROVE StillAlive
  <2>1. crashed' = crashed
    BY <1>6 DEF Literal
  <2> QED BY <1>3, <1>6, <2>1, LiteralAlive
<1>7. ASSUME Inherited PROVE StillAlive
  <2>1. crashed' = crashed
    BY <1>7 DEF Inherited
  <2> QED BY <1>3, <1>7, <2>1, InheritedAlive
<1>8. ASSUME Burnt PROVE StillAlive
  <2>1. crashed' = crashed
    BY <1>8 DEF Burnt
  <2> QED BY <1>3, <1>8, <2>1, BurntAlive
<1>9. ASSUME NEW f \in Files, InheritUnreadable(f) PROVE StillAlive
  <2>1. stack' = <<>> /\ states' = states /\ crashed' = crashed
    BY <1>9 DEF InheritUnreadable, Fail
  <2> QED BY <1>2, <1>3, <2>1 DEF Alive, Chained
<1>10. ASSUME NEW f \in Files, InheritCached(f) PROVE StillAlive
  BY <1>10, InheritCachedAlive DEF StillAlive
<1>11. ASSUME NEW f \in Files, InheritLoad(f) PROVE StillAlive
  BY <1>11, LoadAlive DEF StillAlive
<1>12. ASSUME UNCHANGED vars PROVE StillAlive
  <2>1. stack' = stack /\ states' = states /\ crashed' = crashed
    BY <1>12 DEF vars
  <2> QED BY <1>2, <1>3, <2>1
<1>13. StillAlive
  BY <1>4, <1>5, <1>6, <1>7, <1>8, <1>9, <1>10, <1>11, <1>12, <1>14 DEF Next
<1> QED BY <1>1, <1>13 DEF SafeInv, StillAlive

\* No nil is duplicated and no chain of loads runs out of stack, for any files of
\* which those that are inherited have a GameData and no chain is too long.
THEOREM NeverCrashing ==
  ASSUME NEW CONSTANT reached, WithGameData(reached), Shallow
  PROVE  Spec => []NeverCrashes
<1>1. Init => SafeInv
  <2> SUFFICES ASSUME Init PROVE SafeInv
    OBVIOUS
  <2>1. IInv
    BY InitFits
  <2>2. stack = <<>> /\ states = <<>> /\ crashed = FALSE
    BY DEF Init
  <2> QED BY <2>1, <2>2 DEF SafeInv, Alive, Chained, NamedHave
<1>2. SafeInv /\ [Next]_vars => SafeInv'
  BY SafeStep
<1>3. SafeInv => NeverCrashes
  BY DEF SafeInv, NeverCrashes
<1> QED BY <1>1, <1>2, <1>3, PTL DEF Spec

==============================================================================
