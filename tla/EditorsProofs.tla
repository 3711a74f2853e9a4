--------------------------- MODULE EditorsProofs ---------------------------
(***************************************************************************)
(* What the parts of MCEditors satisfy, MCEditors satisfies: the program   *)
(* is each of its parts by itself, and what is proved of a part for any    *)
(* constants holds of it for the constants it has here.  A part's          *)
(* inductive invariant is kept by its own steps, and a step of another     *)
(* part leaves its variables alone.                                        *)
(***************************************************************************)
EXTENDS MCEditors, SequenceTheorems, WellFoundedInduction, TLAPS

-----------------------------------------------------------------------------
(* Counting up *)

LEMMA Smallest ==
  ASSUME NEW S \in SUBSET Nat, S # {}
  PROVE  \E m \in S : \A n \in S : m <= n
<1>1. \E m \in S : \A n \in S : <<n, m>> \notin OpToRel(<, Nat)
  BY NatLessThanWellFounded, WFMin
<1>2. \A m, n \in Nat : n < m => <<n, m>> \in OpToRel(<, Nat)
  BY DEF OpToRel
<1>3. \A m, n \in S : ~(n < m) => m <= n
  OBVIOUS
<1> QED BY <1>1, <1>2, <1>3

\* What holds of 0 and is passed on holds up to n.
LEMMA Along ==
  ASSUME NEW n \in Nat, NEW P, 0 \in P, \A i \in 1..n : i - 1 \in P => i \in P
  PROVE  \A i \in 0..n : i \in P
<1> DEFINE Bad == {i \in 0..n : i \notin P}
<1>1. SUFFICES ASSUME Bad # {} PROVE FALSE
  OBVIOUS
<1>2. Bad \in SUBSET Nat
  OBVIOUS
<1>3. PICK m \in Bad : \A i \in Bad : m <= i
  BY <1>1, <1>2, Smallest
<1>4. m \in 1..n /\ m - 1 \in 0..n /\ m - 1 \notin Bad
  BY <1>3
<1> QED BY <1>3, <1>4

\* A function can be built value by value.
Built(f, s0, n, g) == f = [i \in 0..n |-> IF i = 0 THEN s0 ELSE g[i][f[i - 1]]]

LEMMA Iterates ==
  ASSUME NEW S, NEW s0 \in S, NEW n \in Nat, NEW g \in [1..n -> [S -> S]]
  PROVE  \E f \in [0..n -> S] : Built(f, s0, n, g)
<1> DEFINE Has(m) == \E f \in [0..m -> S] :
             \A i \in 0..m : f[i] = IF i = 0 THEN s0 ELSE g[i][f[i - 1]]
           P == {m \in 0..n : Has(m)}
<1>1. Has(0)
  <2> WITNESS [i \in 0..0 |-> s0] \in [0..0 -> S]
  <2> QED OBVIOUS
<1>2. ASSUME NEW m \in 1..n, Has(m - 1) PROVE Has(m)
  <2>1. PICK f \in [0..(m - 1) -> S] :
          \A i \in 0..(m - 1) : f[i] = IF i = 0 THEN s0 ELSE g[i][f[i - 1]]
    BY <1>2
  <2> DEFINE h == [i \in 0..m |-> IF i = m THEN g[m][f[m - 1]] ELSE f[i]]
  <2>2. m - 1 \in 0..(m - 1) /\ g[m] \in [S -> S]
    OBVIOUS
  <2>3. h \in [0..m -> S]
    BY <2>2
  <2>4. \A i \in 0..m : h[i] = IF i = 0 THEN s0 ELSE g[i][h[i - 1]]
    <3> TAKE i \in 0..m
    <3>1. CASE i = m
      BY <3>1
    <3>2. CASE i # m
      <4>1. i \in 0..(m - 1) /\ (i # 0 => i - 1 \in 0..m /\ i - 1 # m)
        BY <3>2
      <4> QED BY <2>1, <3>2, <4>1
    <3> QED BY <3>1, <3>2
  <2> QED BY <2>3, <2>4
<1> HIDE DEF Has
<1>3. \A i \in 0..n : i \in P
  <2>1. 0 \in P /\ \A i \in 1..n : i - 1 \in P => i \in P
    BY <1>1, <1>2
  <2> HIDE DEF P
  <2> QED BY <2>1, Along
<1>4. PICK f \in [0..n -> S] : \A i \in 0..n : f[i] = IF i = 0 THEN s0 ELSE g[i][f[i - 1]]
  BY <1>3 DEF Has
<1>5. Built(f, s0, n, g)
  BY <1>4 DEF Built
<1> QED BY <1>5

-----------------------------------------------------------------------------
(* The tabs of the main window: EditorTabs, for every set of documents and   *)
(* changes                                                                   *)

\* If vetoes count, a page the question has passed is clean, or its user answered "No"; nothing
\* is left to ask when nothing is closing; without a mod there are no tabs.
Asked ==
  /\ closing = "nothing" => toAsk = {}
  /\ ~loaded => tabs = {}
  /\ closing # "nothing" /\ canVeto => dirty \subseteq toAsk \union answered

\* A copy holds what its file holds; what the properties' copy holds beyond its
\* file, and no tab would ask about, was given up or cut.
InStep ==
  /\ \A p \in tabs \union {Props} : file[p] \subseteq copy[p]
  /\ \A p \in Pages : copy[p] \union file[p] \subseteq made
  /\ Props \notin dirty => copy[Props] \subseteq file[Props] \union refused \union cut

\* TypeOK and the rest are not inductive without it.
TabsInv == TypeOK /\ Asked /\ InStep

\* TabsInv holds where the program starts, with no mod and no tabs.
LEMMA TabsBegin == Init => TabsInv
BY TabsAssumption DEF Init, TabsInv, TypeOK, Asked, InStep, Pages

\* Every step keeps TabsInv: each handler, with each outcome of a save, on its own.
LEMMA TabsGoOn == ASSUME TabsInv, [Next]_vars PROVE TabsInv'
<1> USE TabsAssumption DEF TabsInv, TypeOK, Asked, InStep, Pages
<1>1. CASE LoadMod
  BY <1>1 DEF LoadMod, Idle
<1>2. ASSUME NEW p \in Pages, OpenPage(p) PROVE TabsInv'
  BY <1>2 DEF OpenPage, Idle
<1>3. ASSUME NEW p \in Pages, NEW c \in Changes, Edit(p, c) PROVE TabsInv'
  BY <1>3 DEF Edit, Idle, MarkModified
<1>4. ASSUME NEW p \in Pages, OnSaveActive(p) PROVE TabsInv'
  BY <1>4 DEF OnSaveActive, Idle, Save, Saved, FailsUnseen, FailsLate
<1>5. ASSUME NEW p \in Pages, CloseClean(p) PROVE TabsInv'
  BY <1>5 DEF CloseClean, Idle, DeletePage
<1>6. ASSUME NEW p \in Pages, CloseYes(p) PROVE TabsInv'
  BY <1>6 DEF CloseYes, Idle, Save, Saved, FailsUnseen, FailsLate
<1>7. ASSUME NEW p \in Pages, CloseNo(p) PROVE TabsInv'
  BY <1>7 DEF CloseNo, Idle, DeletePage
<1>8. ASSUME NEW p \in Pages, AskPage(p) PROVE TabsInv'
  BY <1>8 DEF AskPage, Save, Saved, FailsUnseen, FailsLate, Passed, Vetoed
<1>9. CASE OnCloseMod
  BY <1>9 DEF OnCloseMod, StartClosing, Idle
<1>10. CASE OnCloseWindow
  BY <1>10 DEF OnCloseWindow, StartClosing, Idle
<1>11. CASE Close
  <2>1. refused \subseteq refused' /\ refused' \subseteq made
    BY <1>11 DEF Close
  <2>2. copy'[Props] = file[Props] /\ \A p \in Docs : copy'[p] = copy[p]
    BY <1>11 DEF Close
  <2>3. TypeOK'
    BY <1>11, <2>1 DEF Close
  <2>4. Asked' /\ InStep'
    BY <1>11, <2>2 DEF Close
  <2> QED BY <2>3, <2>4
<1>12. CASE UNCHANGED vars
  BY <1>12 DEF vars
<1> QED BY <1>1, <1>2, <1>3, <1>4, <1>5, <1>6, <1>7, <1>8, <1>9, <1>10, <1>11, <1>12 DEF Next

\* TabsInv holds in every state the tabs and the close protocol reach.
THEOREM TabsHold == Spec => []TabsInv
<1>1. Init => TabsInv
  BY TabsBegin
<1>2. TabsInv /\ [Next]_vars => TabsInv'
  BY TabsGoOn
<1> QED BY <1>1, <1>2, PTL DEF Spec

\* Types: no page is dirty, or asked, that is not a tab, whatever handlers
\* forget to mark their page and however the window is closed.
THEOREM TypeCorrect == Spec => []TypeOK
BY TabsHold, PTL DEF TabsInv

-----------------------------------------------------------------------------
\* Where every page marks itself, a page that will not ask has nothing that its
\* file has not, but for what was given up or cut.
LEMMA StepClean == ASSUME Silent = {}, TabsInv, CleanHasNothing, [Next]_vars
                   PROVE  CleanHasNothing'
<1> USE TabsAssumption DEF TabsInv, TypeOK, Asked, InStep, Pages, CleanHasNothing
<1>1. CASE LoadMod
  BY <1>1 DEF LoadMod, Idle
<1>2. ASSUME NEW p \in Pages, OpenPage(p) PROVE CleanHasNothing'
  BY <1>2 DEF OpenPage, Idle
<1>3. ASSUME NEW p \in Pages, NEW c \in Changes, Edit(p, c) PROVE CleanHasNothing'
  BY <1>3 DEF Edit, Idle, MarkModified
<1>4. ASSUME NEW p \in Pages, OnSaveActive(p) PROVE CleanHasNothing'
  BY <1>4 DEF OnSaveActive, Idle, Save, Saved, FailsUnseen, FailsLate
<1>5. ASSUME NEW p \in Pages, CloseClean(p) PROVE CleanHasNothing'
  BY <1>5 DEF CloseClean, Idle, DeletePage
<1>6. ASSUME NEW p \in Pages, CloseYes(p) PROVE CleanHasNothing'
  BY <1>6 DEF CloseYes, Idle, Save, Saved, FailsUnseen, FailsLate
<1>7. ASSUME NEW p \in Pages, CloseNo(p) PROVE CleanHasNothing'
  BY <1>7 DEF CloseNo, Idle, DeletePage
<1>8. ASSUME NEW p \in Pages, AskPage(p) PROVE CleanHasNothing'
  BY <1>8 DEF AskPage, Save, Saved, FailsUnseen, FailsLate, Passed, Vetoed
<1>9. CASE OnCloseMod
  BY <1>9 DEF OnCloseMod, StartClosing, Idle
<1>10. CASE OnCloseWindow
  BY <1>10 DEF OnCloseWindow, StartClosing, Idle
<1>11. CASE Close
  BY <1>11 DEF Close
<1>12. CASE UNCHANGED vars
  BY <1>12 DEF vars
<1> QED BY <1>1, <1>2, <1>3, <1>4, <1>5, <1>6, <1>7, <1>8, <1>9, <1>10, <1>11, <1>12 DEF Next

\* A step moves a kept change to another place that keeps it, or its user gives
\* it up, or a save cuts it.
LEMMA StepKept == ASSUME Silent = {}, TabsInv, canVeto, NothingIsLost, [Next]_vars
                  PROVE  NothingIsLost'
<1> DEFINE Safe(c) == Kept(c) \/ c \in refused \union cut
<1> SUFFICES ASSUME NEW c \in made' PROVE Safe(c)'
  BY DEF NothingIsLost
<1>1. c \in made => Safe(c)
  BY DEF NothingIsLost
<1> USE <1>1, TabsAssumption DEF TabsInv, TypeOK, Asked, InStep, Pages, Kept
<1>2. CASE LoadMod
  BY <1>2 DEF LoadMod, Idle
<1>3. ASSUME NEW p \in Pages, OpenPage(p) PROVE Safe(c)'
  BY <1>3 DEF OpenPage, Idle
<1>4. ASSUME NEW p \in Pages, NEW d \in Changes, Edit(p, d) PROVE Safe(c)'
  BY <1>4 DEF Edit, Idle, MarkModified
<1>5. ASSUME NEW p \in Pages, OnSaveActive(p) PROVE Safe(c)'
  BY <1>5 DEF OnSaveActive, Idle, Save, Saved, FailsUnseen, FailsLate
<1>6. ASSUME NEW p \in Pages, CloseClean(p) PROVE Safe(c)'
  BY <1>6 DEF CloseClean, Idle, DeletePage
<1>7. ASSUME NEW p \in Pages, CloseYes(p) PROVE Safe(c)'
  BY <1>7 DEF CloseYes, Idle, Save, Saved, FailsUnseen, FailsLate
<1>8. ASSUME NEW p \in Pages, CloseNo(p) PROVE Safe(c)'
  BY <1>8 DEF CloseNo, Idle, DeletePage
<1>9. ASSUME NEW p \in Pages, AskPage(p) PROVE Safe(c)'
  BY <1>9 DEF AskPage, Save, Saved, FailsUnseen, FailsLate, Passed, Vetoed
<1>10. CASE OnCloseMod
  BY <1>10 DEF OnCloseMod, StartClosing, Idle
<1>11. CASE OnCloseWindow
  BY <1>11 DEF OnCloseWindow, StartClosing, Idle
<1>12. CASE Close
  BY <1>12 DEF Close
<1>13. CASE UNCHANGED vars
  BY <1>13 DEF vars
<1> QED BY <1>2, <1>3, <1>4, <1>5, <1>6, <1>7, <1>8, <1>9, <1>10, <1>11, <1>12, <1>13 DEF Next

\* The main window can be closed with its X only: every close may be vetoed.
LEMMA StepVeto == ASSUME FALSE \notin MayVeto, TypeOK, canVeto, [Next]_vars
                  PROVE  canVeto'
BY TabsAssumption DEF Next, vars, LoadMod, OpenPage, Edit, OnSaveActive, CloseClean, CloseYes, CloseNo,
   AskPage, OnCloseMod, OnCloseWindow, StartClosing, Close

\* Where every handler marks its page, a page that closes without a question has
\* nothing to lose that a save has not cut, however the window is closed.
THEOREM CleanIsSafe == ASSUME Silent = {} PROVE Spec => []CleanHasNothing
<1>1. Init => CleanHasNothing
  BY DEF Init, CleanHasNothing
<1>2. TabsInv /\ CleanHasNothing /\ [Next]_vars => CleanHasNothing'
  BY StepClean
<1> QED BY <1>1, <1>2, TabsHold, PTL DEF Spec

\* Where every handler marks its page and no close is forced, no change is lost
\* but by its user's "No" or by the save that cuts it from its file, for any number
\* of tabs, changes, failures, seen or unseen, and vetoes.
THEOREM NothingLost == ASSUME Silent = {}, FALSE \notin MayVeto PROVE Spec => []NothingIsLost
<1> DEFINE JInv == canVeto /\ NothingIsLost
<1>1. Init => JInv
  BY DEF Init, NothingIsLost
<1>2. TabsInv /\ JInv /\ [Next]_vars => JInv'
  BY StepKept, StepVeto DEF TabsInv
<1> QED BY <1>1, <1>2, TabsHold, PTL DEF Spec

\* What EditorTabs does by itself is what it does as a part.
LEMMA TabsAsAPart == EditorsSpec => Spec
<1>1. EditorsInit => Init BY DEF EditorsInit
<1>2. [EditorsNext]_allVars => [Next]_vars BY DEF EditorsNext, allVars, vars
<1> QED BY <1>1, <1>2, PTL DEF EditorsSpec, Spec

-----------------------------------------------------------------------------
(* The mod in memory: ModuleLoad *)

LEMMA LoadBegins == EditorsInit => Load!IInv
<1>1. EditorsInit => Load!Init BY DEF EditorsInit
<1> QED BY <1>1, Load!InitKeeps

LEMMA LoadMoves == [EditorsNext]_allVars => [Load!Next]_Load!vars
  BY DEF EditorsNext, allVars, loadVars, Load!vars

LEMMA LoadGoesOn == Load!IInv /\ [EditorsNext]_allVars => Load!IInv'
  BY LoadMoves, Load!StepKeeps, LoadIsSound

LEMMA LoadHolds == EditorsSpec => []Load!IInv
  BY LoadBegins, LoadGoesOn, PTL DEF EditorsSpec

\* ~CModuleFile and _CleanResources: nothing is deleted twice, and nothing is
\* left of a mod that is closed but what a failed load leaks.
THEOREM ModsFreeOnce == EditorsSpec => []FreedOnce
<1>1. Load!IInv => FreedOnce BY Load!NothingIsFreedTwice DEF FreedOnce
<1> QED BY <1>1, LoadHolds, PTL

\* ReloadResources: the sort numbers put the mod before its required mods and
\* these before the engines.
THEOREM ModsInFront == EditorsSpec => []InFront
<1>1. Load!IInv => InFront BY Load!OneInFront DEF InFront
<1> QED BY <1>1, LoadHolds, PTL

\* ReloadResources and SetModule: nobody keeps a pointer to what was freed, when
\* no UCS editor stays open at a refresh.
THEOREM ModsDoNotDangle == ASSUME ~TabsMayStay PROVE EditorsSpec => []NothingDangles
<1>1. EditorsInit => Load!Shown
  BY DEF EditorsInit, Load!Init, Load!Shown
<1>2. Load!IInv /\ Load!Shown /\ [EditorsNext]_allVars => Load!Shown'
  BY LoadMoves, Load!ShownKept
<1>3. Load!IInv /\ Load!Shown => NothingDangles
  BY Load!NoneDangles DEF NothingDangles
<1> QED BY <1>1, <1>2, <1>3, LoadHolds, PTL DEF EditorsSpec

-----------------------------------------------------------------------------
(* A Company of Heroes mod and an extraction from it: FileMap *)

LEMMA CohBegins == EditorsInit => Coh!IInv /\ Coh!PureOutputHidden
<1>1. EditorsInit => Coh!Init BY DEF EditorsInit
<1>2. Coh!Init => Coh!PureOutputHidden
  BY DEF Coh!Init, Coh!PureOutputHidden, Coh!KeysOf, Coh!Keys
<1> QED BY <1>1, <1>2, Coh!InitIInv, CohIsATree, CohHasSources, CohHasContents

LEMMA CohGoesOn ==
    Coh!IInv /\ Coh!PureOutputHidden /\ [EditorsNext]_allVars
        => Coh!IInv' /\ Coh!PureOutputHidden'
<1>1. [EditorsNext]_allVars => [Coh!Next]_Coh!vars
  BY DEF EditorsNext, allVars, cohVars, Coh!vars
<1> QED BY <1>1, Coh!NextIInv, Coh!StepHidden, CohIsATree, CohHasSources, CohHasContents

\* CFileMap::_RawMap, _MakeFolderWritable and EraseSource, over sources that
\* share their numbers: one key a number, every key leads to a source that has
\* the file, and the target of an extraction serves no read.
THEOREM TiesAreSound == EditorsSpec => []SoundWithTies
<1>1. Coh!IInv /\ Coh!PureOutputHidden => SoundWithTies
  BY DEF Coh!IInv, SoundWithTies
<1> QED BY <1>1, CohBegins, CohGoesOn, PTL DEF EditorsSpec

-----------------------------------------------------------------------------
(* Tables of contents: TocRewrite, for any names of tables and files.  A     *)
(* table is rewritten only while a file is loaded, and no path is written to *)
(* meanwhile: so VOpenOutputStream is led to the table the path names, and   *)
(* the length it cuts off is the right one                                   *)

TocTypes ==
    /\ tocs \subseteq Tocs
    /\ rewrites \in [Tocs -> Tocs \cup {None}]
    /\ held \in [Tocs -> SUBSET TocFiles]
    /\ loading \in BOOLEAN

\* A table of contents is another one only during a load, and only Attrib is.
TocStraight == \A t \in Tocs : rewrites[t] # None => loading /\ t = Attrib

\* What was opened is in the table and under the name that the path gave.
TocKept ==
    \A w \in opened :
        /\ w[1] \in tocs /\ w[3] = w[1] /\ w[4] = w[2]
        /\ w[2] \in held[w[1]]

TocInv == TocTypes /\ TocStraight /\ TocKept

\* The name that is cut off the end of a path is the name it was made with,
\* when the table searched is the one the path begins with (VOpenOutputStream).
LEMMA NewNameIsName ==
    ASSUME NEW t \in Tocs, NEW n \in TocFiles, Toc!Resolve(t) = t
    PROVE  Toc!NewName(t, n) = n
<1> DEFINE m == t \o <<Slash>>
           p == m \o n
<1>1. t \in Seq(Nat) /\ n \in Seq(Nat) /\ <<Slash>> \in Seq(Nat) /\ Len(<<Slash>>) = 1
  BY TocIsSound DEF Toc!NamesAssumption
<1>2. m \in Seq(Nat) /\ Len(m) = Len(t) + 1
  BY <1>1, ConcatProperties
<1>3. /\ p \in Seq(Nat) /\ Len(p) = Len(m) + Len(n)
      /\ \A i \in 1..Len(m) + Len(n) : p[i] = IF i <= Len(m) THEN m[i] ELSE n[i - Len(m)]
  <2> HIDE DEF m
  <2> QED BY <1>1, <1>2, ConcatProperties
<1>4. Len(t) \in Nat /\ Len(n) \in Nat
  BY <1>1, LenProperties
<1> DEFINE c == SubSeq(p, Len(t) + 2, Len(p))
<1> HIDE DEF m, p
<1>5. \A i \in Len(t) + 2..Len(p) : p[i] \in Nat
  BY SMTT(30), <1>2, <1>3, <1>4, ElementOfSeq
<1>6. /\ c \in Seq(Nat)
      /\ Len(c) = IF Len(t) + 2 <= Len(p) THEN Len(p) - (Len(t) + 2) + 1 ELSE 0
      /\ \A i \in 1..Len(p) - (Len(t) + 2) + 1 : c[i] = p[Len(t) + 2 + i - 1]
  BY <1>2, <1>3, <1>4, <1>5, SubSeqProperties
<1> HIDE DEF c
<1>7. Len(p) = Len(t) + 1 + Len(n)
  BY <1>2, <1>3, <1>4
<1>8. Len(c) = Len(n)
  BY <1>4, <1>6, <1>7
<1>9. ASSUME NEW i \in 1..Len(c) PROVE c[i] = n[i]
  <2> DEFINE j == Len(m) + i
  <2>1. /\ i \in 1..Len(p) - (Len(t) + 2) + 1
        /\ Len(t) + 2 + i - 1 = j
        /\ j \in 1..Len(m) + Len(n) /\ ~(j <= Len(m)) /\ j - Len(m) = i
    BY <1>2, <1>4, <1>7, <1>8
  <2>2. c[i] = p[Len(t) + 2 + i - 1]
    BY <1>6, <2>1
  <2> HIDE DEF j
  <2>3. p[j] = n[j - Len(m)]
    BY <1>3, <2>1
  <2> QED BY <2>1, <2>2, <2>3
<1>10. c = n
  BY <1>1, <1>6, <1>8, <1>9, SeqEqual
<1> QED BY <1>10 DEF Toc!NewName, Toc!Path, c, p, m

LEMMA TocBegins == Toc!Init => TocInv
  BY TocIsSound DEF Toc!NamesAssumption, Toc!Init, TocInv, TocTypes, TocStraight, TocKept

\* Every step keeps TocInv: no path is written to while a table stands for another.
LEMMA TocGoesOn == TocInv /\ [Toc!Next]_Toc!vars => TocInv'
<1> SUFFICES ASSUME TocInv, [Toc!Next]_Toc!vars PROVE TocInv'
  OBVIOUS
<1> USE DEF TocInv, TocTypes, TocStraight, TocKept
<1>1. ASSUME NEW t \in Tocs, NEW listing \in SUBSET TocFiles, Toc!Map(t, listing) PROVE TocInv'
  <2>1. \A u \in Tocs : held[u] \subseteq held'[u]
    BY <1>1 DEF Toc!Map
  <2>2. TocTypes' /\ TocStraight'
    BY <1>1 DEF Toc!Map
  <2> QED BY <1>1, <2>1, <2>2 DEF Toc!Map
<1>2. CASE Toc!RewriteToC
  BY <1>2, TocIsSound DEF Toc!RewriteToC, Toc!NamesAssumption
<1>3. CASE Toc!UnrewriteToC
  <2>1. TocTypes' /\ TocKept'
    BY <1>3 DEF Toc!UnrewriteToC
  <2> QED BY <1>3, <2>1 DEF Toc!UnrewriteToC
<1>4. ASSUME NEW t \in Tocs, NEW n \in TocFiles, Toc!VOpenOutputStream(t, n) PROVE TocInv'
  <2>1. /\ ~loading /\ t \in tocs
        /\ UNCHANGED <<tocs, rewrites, loading>>
    BY <1>4 DEF Toc!VOpenOutputStream
  <2>2. Toc!Resolve(t) = t
    BY <2>1 DEF Toc!Resolve
  <2>3. /\ held' = [held EXCEPT ![t] = @ \cup {n}]
        /\ opened' = opened \cup {<<t, n, t, n>>}
    BY <1>4, <2>2, NewNameIsName DEF Toc!VOpenOutputStream
  <2>4. TocTypes' /\ TocStraight'
    BY <2>1, <2>3
  <2>5. /\ n \in held'[t]
        /\ \A u \in Tocs : held[u] \subseteq held'[u]
    BY <2>3
  <2>6. TocKept'
    BY <2>1, <2>3, <2>5
  <2> QED BY <2>4, <2>6
<1>5. CASE UNCHANGED Toc!vars
  BY <1>5 DEF Toc!vars
<1> QED BY <1>1, <1>2, <1>3, <1>4, <1>5 DEF Toc!Next

\* VOpenOutputStream and RewriteToC: what was written under a path is read back
\* under it, whatever the names of the tables of contents and their lengths.
THEOREM TocsAreReadBack == EditorsSpec => []WrittenIsReadBack
<1>1. EditorsInit => TocInv
  BY TocBegins DEF EditorsInit
<1>2. [EditorsNext]_allVars => [Toc!Next]_Toc!vars
  BY DEF EditorsNext, allVars, tocVars, Toc!vars
<1>3. TocInv /\ [EditorsNext]_allVars => TocInv'
  BY <1>2, TocGoesOn
<1>4. TocInv => WrittenIsReadBack
  BY TocIsSound DEF Toc!NamesAssumption, TocInv, TocTypes, TocStraight, TocKept,
     WrittenIsReadBack, Toc!WrittenIsReadBack, Toc!Resolve, Toc!Holds
<1> QED BY <1>1, <1>3, <1>4, PTL DEF EditorsSpec

-----------------------------------------------------------------------------
(* Names of keys: RgdNames *)

LEMMA KeysBegin == EditorsInit => KeyNames!IInv
<1>1. EditorsInit => KeyNames!Init BY DEF EditorsInit, KeysWait
<1> QED BY <1>1, KeyNames!InitHolds, NamesAreSound

LEMMA KeysMove == [EditorsNext]_allVars => [KeyNames!Next]_KeyNames!vars
  BY DEF EditorsNext, allVars, keyVars, KeyNames!vars

LEMMA KeysHold == EditorsSpec => []KeyNames!IInv
<1>1. KeyNames!IInv /\ [EditorsNext]_allVars => KeyNames!IInv'
  BY KeysMove, KeyNames!NextKeeps, NamesAreSound
<1> QED BY <1>1, KeysBegin, PTL DEF EditorsSpec

\* CRgdHashTable::ValueToHash: no name that RGD files may point to is changed
\* while the program runs.
THEOREM KeysKeepNames == EditorsSpec => NamesStay
<1>1. KeyNames!IInv /\ [EditorsNext]_allVars =>
        [naming /\ naming' =>
            \A k \in {key1, key2, key3, key4} :
                table[k].name # None => table'[k].name = table[k].name]_KeyNames!vars
  BY KeysMove, KeyNames!NameStays, NamesAreSound
<1> QED BY <1>1, KeysHold, PTL DEF EditorsSpec, NamesStay, KeyNames!NamesStay

\* CRgdHashTable::SaveCustomKeys: what was learnt is named in every later run.
THEOREM KeysAreKnown == EditorsSpec => []KnownForGood
<1>1. KeyNames!IInv => KnownForGood
  BY KeyNames!LearntSaid, NamesAreSound DEF KnownForGood
<1> QED BY <1>1, KeysHold, PTL

\* CRgdHashTable::ExtendWithDictionary: custom.txt does not list what a
\* dictionary names.
THEOREM KeysNotTwice == EditorsSpec => NotTwice
<1>1. KeyNames!IInv /\ [EditorsNext]_allVars =>
        [KeyNames!SaveCustomKeys =>
            \A k \in saving' : before[k] = Absent /\ after[k] = Absent]_KeyNames!vars
  BY KeyNames!NoneWrittenTwice
<1> QED BY <1>1, KeysHold, PTL DEF EditorsSpec, NotTwice, KeyNames!NotTwice

-----------------------------------------------------------------------------
(* One UCS file: UcsEditing.  Its variables are those of one editor whose    *)
(* writes may fail, or of several whose writes succeed, by the part.         *)

UcsInv == IF part = "alone" THEN Alone!InvA ELSE Shared!InvS

LEMMA UcsBegins ==
    ASSUME Ids \union AloneIds \subseteq 0..(Half - 1) PROVE EditorsInit => UcsInv
<1>1. CASE part = "alone"
  <2>1. Alone!SmallIds BY DEF Alone!SmallIds
  <2> QED BY <1>1, <2>1, Alone!AccountedInit, AloneIsSound DEF EditorsInit, UcsInv
<1>2. CASE part # "alone"
  <2>1. Shared!SmallIds BY DEF Shared!SmallIds
  <2> QED BY <1>2, <2>1, Shared!SettledInit, SharedIsSound DEF EditorsInit, UcsInv
<1> QED BY <1>1, <1>2

LEMMA UcsGoesOn ==
    ASSUME Ids \union AloneIds \subseteq 0..(Half - 1), UcsInv, [EditorsNext]_allVars PROVE UcsInv'
<1>1. part' = part
  BY DEF EditorsNext, allVars
<1>2. CASE part = "alone"
  <2>1. Alone!SmallIds BY DEF Alone!SmallIds
  <2>2. Alone!OneTab BY DEF Alone!OneTab
  <2>3. [Alone!Next]_Alone!vars
    BY <1>2 DEF EditorsNext, allVars, ucsVars, Alone!vars
  <2>4. Alone!InvA'
    BY <1>2, <2>1, <2>2, <2>3, Alone!AccountedStep, AloneIsSound DEF UcsInv
  <2> QED BY <1>1, <1>2, <2>4 DEF UcsInv
<1>3. CASE part # "alone"
  <2>1. Shared!SmallIds BY DEF Shared!SmallIds
  <2>2. Shared!NoFailure BY DEF Shared!NoFailure
  <2>3. [Shared!Next]_Shared!vars
    BY <1>3 DEF EditorsNext, allVars, ucsVars, Shared!vars
  <2>4. Shared!InvS'
    BY <1>3, <2>1, <2>2, <2>3, Shared!SettledStep, SharedIsSound DEF UcsInv
  <2> QED BY <1>1, <1>3, <2>4 DEF UcsInv
<1> QED BY <1>2, <1>3

LEMMA UcsHolds == ASSUME Ids \union AloneIds \subseteq 0..(Half - 1) PROVE EditorsSpec => []UcsInv
<1>1. EditorsInit => UcsInv BY UcsBegins
<1>2. UcsInv /\ [EditorsNext]_allVars => UcsInv' BY UcsGoesOn
<1> QED BY <1>1, <1>2, PTL DEF EditorsSpec

\* frmUCSEditor::DoSave and CUcsTransaction::Save: what was reported saved, and
\* no write lost unseen, is what the file holds, as long as no id is written as a
\* negative number.
THEOREM UcsIsReadBack ==
    ASSUME Ids \union AloneIds \subseteq 0..(Half - 1) PROVE EditorsSpec => []SavedIsReadBack
<1>1. UcsInv => SavedIsReadBack
  BY Alone!AccountedSays, Shared!SettledSays DEF UcsInv, SavedIsReadBack
<1> QED BY <1>1, UcsHolds, PTL

\* frmUCSEditor::OnNewEntry finds the row it has just added, with one editor.
THEOREM UcsRowsAreFound ==
    ASSUME Ids \union AloneIds \subseteq 0..(Half - 1) PROVE EditorsSpec => []RowsAreFoundAlone
<1>1. UcsInv => RowsAreFoundAlone
  BY Alone!AccountedSays DEF UcsInv, RowsAreFoundAlone
<1> QED BY <1>1, UcsHolds, PTL

\* frmUCSEditor::DoSave: with one editor, a save that fails leaves every edit
\* that was not reported saved an entry of it.
THEOREM UcsEditsAreKept ==
    ASSUME Ids \union AloneIds \subseteq 0..(Half - 1) PROVE EditorsSpec => []EditsAreKeptAlone
<1>1. UcsInv => EditsAreKeptAlone
  BY Alone!AccountedSays DEF UcsInv, EditsAreKeptAlone
<1> QED BY <1>1, UcsHolds, PTL

\* frmUCSEditor::OnCloseWindow: with several editors and no write that fails,
\* nothing that was answered "No" is written.
THEOREM UcsRefusedStaysOut ==
    ASSUME Ids \union AloneIds \subseteq 0..(Half - 1) PROVE EditorsSpec => []RefusedStaysOutShared
<1>1. UcsInv => RefusedStaysOutShared
  BY Shared!SettledSays DEF UcsInv, RefusedStaysOutShared
<1> QED BY <1>1, UcsHolds, PTL

-----------------------------------------------------------------------------
(* The .module file: ModuleFile *)

\* Unless a failure was not seen, the file is whole, and so is what a save in
\* progress makes of it and the temporary file that is to take its place.
FileWhole ==
  ~unseen => /\ Module!NotTruncated
             /\ phase # "idle" => output = Module!Updated(moduleFile, values)
             /\ phase = "closed" => temp = output

\* Rainman_UpdateModuleFile: the file is the one that was there or one with all
\* the lines of a save, at whichever call the save failed or the program ended,
\* unless the failure was of an fread or an fclose, which are not looked at.
THEOREM ModulesAreWhole == EditorsSpec => []OldOrNew
<1> USE DEF Module!NotTruncated
<1>1. EditorsInit => FileWhole
  BY DEF EditorsInit, ModuleWaits, Module!Init, FileWhole
<1>2. ASSUME FileWhole, [EditorsNext]_allVars PROVE FileWhole'
  <2>1. [Module!Next]_Module!vars
    BY <1>2 DEF EditorsNext, allVars, moduleVars, Module!vars
  <2>2. CASE Module!Replace
    BY <1>2, <2>2 DEF FileWhole, Module!Replace
  <2>3. CASE Module!Close
    BY <1>2, <2>3 DEF FileWhole, Module!Close
  <2>4. CASE Module!OpenFails \/ Module!Write \/ Module!WriteFails \/ Module!ReplaceFails
    BY <1>2, <2>4 DEF FileWhole, Module!OpenFails, Module!Write, Module!WriteFails,
         Module!ReplaceFails, Module!GiveUp
  <2>7. CASE Module!Reopen
    BY <1>2, <2>7 DEF FileWhole, Module!Reopen
  <2>8. CASE Module!OpenTemp
    <3>1. PICK read \in Module!Passed(moduleFile) :
            output' = Module!Updated(read, values) /\ unseen' = (unseen \/ read # moduleFile)
      BY <2>8 DEF Module!OpenTemp
    <3>2. /\ phase' = "opened" /\ moduleFile' = moduleFile /\ values' = values /\ whole' = whole
      BY <2>8 DEF Module!OpenTemp
    <3>3. ~unseen' => ~unseen /\ output' = Module!Updated(moduleFile, values)
      BY <3>1
    <3> QED BY <1>2, <3>2, <3>3 DEF FileWhole
  <2>5. ASSUME NEW k, NEW v, Module!Set(k, v) PROVE FileWhole'
    BY <1>2, <2>5 DEF FileWhole, Module!Set
  <2>6. CASE UNCHANGED Module!vars
    BY <1>2, <2>6 DEF FileWhole, Module!vars
  <2> QED BY <2>1, <2>2, <2>3, <2>4, <2>5, <2>6, <2>7, <2>8 DEF Module!Next
<1>3. FileWhole => OldOrNew
  BY DEF FileWhole, OldOrNew, Module!OldOrNew
<1> QED BY <1>1, <1>2, <1>3, PTL DEF EditorsSpec

-----------------------------------------------------------------------------
(* The lines of a .module file: ModuleFile *)

LEMMA ModuleTypes ==
  /\ ManagedKeys \in Seq(Module!Managed) /\ Len(ManagedKeys) \in Nat
  /\ Module!Managed = {ManagedKeys[i] : i \in 1..Len(ManagedKeys)}
  /\ \A k \in Module!Managed, v \in ManagedValues : Module!IsKey(Module!KeyLine(k, v))
  /\ Empty \in ManagedValues /\ AsRead \in [ManagedValues -> ManagedValues]
  /\ Initially \in [Module!Managed -> ManagedValues]
  /\ Settable \in [Module!Managed -> SUBSET ManagedValues]
  /\ ModuleFiles \subseteq Module!Files
  /\ \A k \in Module!Managed :
       Empty \in Settable[k] \cup {Initially[k]} => Initially[k] = AsRead[Empty]
BY ModuleIsSound DEF Module!ModuleAssumption, Module!Managed, Module!ToSet

LEMMA LinesAre ==
  ASSUME NEW lines \in Module!Files
  PROVE  /\ lines \in Seq(Module!Lines) /\ Len(lines) \in Nat /\ DOMAIN lines = 1..Len(lines)
         /\ \A i \in DOMAIN lines : lines[i] \in Module!Lines
BY ElementOfSeq DEF Module!Files

\* A line with a key is that key's line.
LEMMA KeyLineIs ==
  ASSUME NEW line \in Module!Lines, Module!IsKey(line)
  PROVE  /\ line.key \in Module!Managed /\ line.value \in ManagedValues
         /\ line = Module!KeyLine(line.key, line.value)
BY DEF Module!Lines, Module!IsKey, Module!KeyLine

LEMMA KeyLineHas ==
  ASSUME NEW k \in Module!Managed, NEW v \in ManagedValues
  PROVE  /\ Module!KeyLine(k, v) \in Module!Lines /\ Module!IsKey(Module!KeyLine(k, v))
         /\ Module!KeyLine(k, v).key = k /\ Module!KeyLine(k, v).value = v
BY ModuleTypes DEF Module!Lines, Module!KeyLine

\* Every line of a key has what m has for it.
Says(lines, m) ==
  \A i \in DOMAIN lines : Module!IsKey(lines[i]) =>
    lines[i].key \in Module!Managed /\ lines[i] = Module!KeyLine(lines[i].key, m[lines[i].key])

RewrittenOf(lines, m, g) ==
  /\ g \in Module!Files /\ Len(g) = Len(lines) /\ Says(g, m)
  /\ \A i \in 1..Len(lines) :
       /\ Module!IsKey(g[i]) <=> Module!IsKey(lines[i])
       /\ Module!IsKey(g[i]) => g[i].key = lines[i].key
       /\ ~Module!IsKey(g[i]) => g[i] = lines[i]

LEMMA RewrittenIs ==
  ASSUME NEW lines \in Module!Files, NEW m \in [Module!Managed -> ManagedValues]
  PROVE  RewrittenOf(lines, m, Module!Rewritten(lines, m))
<1> DEFINE g == Module!Rewritten(lines, m)
           new(i) == IF Module!IsKey(lines[i])
                     THEN Module!KeyLine(lines[i].key, m[lines[i].key]) ELSE lines[i]
<1>1. Len(lines) \in Nat /\ DOMAIN lines = 1..Len(lines) /\ \A i \in 1..Len(lines) : lines[i] \in Module!Lines
  BY LinesAre
<1>2. g = [i \in 1..Len(lines) |-> new(i)]
  BY <1>1 DEF Module!Rewritten
<1>3. ASSUME NEW i \in 1..Len(lines)
      PROVE  /\ g[i] \in Module!Lines /\ (Module!IsKey(g[i]) <=> Module!IsKey(lines[i]))
             /\ Module!IsKey(g[i]) => /\ g[i].key \in Module!Managed /\ g[i].key = lines[i].key
                                      /\ g[i] = Module!KeyLine(g[i].key, m[g[i].key])
             /\ ~Module!IsKey(g[i]) => g[i] = lines[i]
  <2>1. CASE Module!IsKey(lines[i])
    <3>1. lines[i].key \in Module!Managed /\ m[lines[i].key] \in ManagedValues
      BY <1>1, <2>1, KeyLineIs
    <3>2. g[i] = Module!KeyLine(lines[i].key, m[lines[i].key])
      BY <1>2, <2>1
    <3> HIDE DEF g
    <3> QED BY <2>1, <3>1, <3>2, KeyLineHas
  <2>2. CASE ~Module!IsKey(lines[i])
    <3>1. g[i] = lines[i]
      BY <1>2, <2>2
    <3> HIDE DEF g
    <3> QED BY <1>1, <2>2, <3>1
  <2> QED BY <2>1, <2>2
<1>4. g \in [1..Len(lines) -> Module!Lines]
  BY <1>2, <1>3
<1> HIDE DEF g
<1>5. g \in Seq(Module!Lines) /\ Len(g) = Len(lines) /\ DOMAIN g = 1..Len(lines)
  BY <1>1, <1>4
<1>6. RewrittenOf(lines, m, g)
  BY <1>3, <1>5 DEF RewrittenOf, Says, Module!Files
<1> QED BY <1>6 DEF g

\* The lines of the keys that are wanted and not there.
Wanted(lines, m, k) == Module!Having(lines, k) = {} /\ m[k] # Empty

NewOf(lines, m, new) ==
  /\ new \in Seq(Module!Lines) /\ Says(new, m) /\ \A i \in DOMAIN new : Module!IsKey(new[i])
  /\ \A k \in Module!Managed : Wanted(lines, m, k) => \E i \in DOMAIN new : new[i].key = k
  /\ (\A k \in Module!Managed : ~Wanted(lines, m, k)) => new = <<>>

LEMMA NewLinesAre ==
  ASSUME NEW lines \in Module!Files, NEW m \in [Module!Managed -> ManagedValues]
  PROVE  NewOf(lines, m, Module!NewLines(lines, m))
<1> DEFINE n == Len(ManagedKeys)
           S == {new \in Seq(Module!Lines) : Says(new, m) /\ \A i \in DOMAIN new : Module!IsKey(new[i])}
           line(k) == Module!KeyLine(k, m[k])
           next(new, i) == IF Wanted(lines, m, ManagedKeys[i]) THEN Append(new, line(ManagedKeys[i])) ELSE new
           g == [i \in 1..n |-> [new \in S |-> next(new, i)]]
           Is(f) == f = [i \in 0..n |->
                      IF i = 0 THEN <<>>
                      ELSE IF Module!Having(lines, ManagedKeys[i]) = {} /\ m[ManagedKeys[i]] # Empty
                           THEN Append(f[i - 1], Module!KeyLine(ManagedKeys[i], m[ManagedKeys[i]]))
                           ELSE f[i - 1]]
           new == CHOOSE f : Is(f)
<1>1. n \in Nat /\ <<>> \in S /\ \A i \in 1..n : ManagedKeys[i] \in Module!Managed
  BY ModuleTypes DEF Says
<1>2. ASSUME NEW u \in S, NEW k \in Module!Managed
      PROVE  /\ Append(u, line(k)) \in S
             /\ Len(u) + 1 \in DOMAIN Append(u, line(k)) /\ Append(u, line(k))[Len(u) + 1].key = k
             /\ \A i \in DOMAIN u : i \in DOMAIN Append(u, line(k)) /\ Append(u, line(k))[i] = u[i]
  <2>1. /\ line(k) \in Module!Lines /\ Module!IsKey(line(k)) /\ line(k).key = k
        /\ line(k) = Module!KeyLine(line(k).key, m[line(k).key])
    BY KeyLineHas
  <2> HIDE DEF line
  <2>2. /\ Append(u, line(k)) \in Seq(Module!Lines) /\ DOMAIN Append(u, line(k)) = 1..(Len(u) + 1)
        /\ \A i \in 1..Len(u) : Append(u, line(k))[i] = u[i]
        /\ Append(u, line(k))[Len(u) + 1] = line(k)
    BY <2>1, AppendProperties
  <2>3. Len(u) \in Nat /\ DOMAIN u = 1..Len(u) /\ \A i \in 1..(Len(u) + 1) : i \in 1..Len(u) \/ i = Len(u) + 1
    BY ElementOfSeq
  <2>4. Says(Append(u, line(k)), m) /\ \A i \in DOMAIN Append(u, line(k)) : Module!IsKey(Append(u, line(k))[i])
    BY <2>1, <2>2, <2>3 DEF Says
  <2>5. Append(u, line(k)) \in S
    BY <2>2, <2>4
  <2>6. Len(u) + 1 \in DOMAIN Append(u, line(k)) /\ Append(u, line(k))[Len(u) + 1].key = k
    BY <2>1, <2>2, <2>3
  <2>7. \A i \in DOMAIN u : i \in DOMAIN Append(u, line(k)) /\ Append(u, line(k))[i] = u[i]
    BY <2>2, <2>3
  <2> QED BY <2>5, <2>6, <2>7
<1>3. \A f : Is(f) <=> f = [i \in 0..n |-> IF i = 0 THEN <<>> ELSE next(f[i - 1], i)]
  BY DEF Wanted
<1>4. Module!NewLines(lines, m) = new[n]
  BY DEF Module!NewLines
<1>5. ASSUME NEW i \in 1..n, NEW u \in S PROVE next(u, i) \in S
  BY <1>1, <1>2
<1> DEFINE Has(u, k) == \E j \in DOMAIN u : u[j].key = k
<1>6. ASSUME NEW u \in S, NEW i \in 1..n
      PROVE  /\ \A k : Has(u, k) => Has(next(u, i), k)
             /\ Wanted(lines, m, ManagedKeys[i]) => Has(next(u, i), ManagedKeys[i])
             /\ ~Wanted(lines, m, ManagedKeys[i]) => next(u, i) = u
  BY <1>1, <1>2
<1> HIDE DEF S, n, Is, next, Has
<1>7. g \in [1..n -> [S -> S]]
  BY <1>5
<1>8. \E f : Is(f)
  <2> HIDE DEF g
  <2>1. PICK f \in [0..n -> S] : Built(f, <<>>, n, g)
    BY <1>1, <1>7, Iterates
  <2>2. \A i \in 0..n : i # 0 => i \in 1..n /\ i - 1 \in 0..n /\ f[i - 1] \in S
    BY <1>1, <2>1
  <2>3. \A i \in 0..n : i # 0 => g[i][f[i - 1]] = next(f[i - 1], i)
    BY <2>2 DEF g
  <2>4. f = [i \in 0..n |-> IF i = 0 THEN <<>> ELSE next(f[i - 1], i)]
    BY <2>1, <2>3 DEF Built
  <2> QED BY <1>3, <2>4
<1>9. Is(new)
  BY <1>8
<1> HIDE DEF new
<1>10. new[0] = <<>> /\ \A i \in 1..n : new[i] = next(new[i - 1], i)
  BY <1>1, <1>3, <1>9
<1> DEFINE P == {i \in 0..n : /\ new[i] \in S
                              /\ \A j \in 1..i : Wanted(lines, m, ManagedKeys[j]) => Has(new[i], ManagedKeys[j])
                              /\ (\A j \in 1..i : ~Wanted(lines, m, ManagedKeys[j])) => new[i] = <<>>}
<1>11. 0 \in P
  BY <1>1, <1>10
<1>12. ASSUME NEW i \in 1..n, i - 1 \in P PROVE i \in P
  <2>1. new[i] \in S /\ new[i - 1] \in S /\ new[i] = next(new[i - 1], i)
    BY <1>5, <1>10, <1>12
  <2>2. \A j \in 1..i : j \in 1..(i - 1) \/ j = i
    BY <1>1
  <2>a. \A j \in 1..(i - 1) : j \in 1..i
    BY <1>1
  <2>b. i \in 0..n /\ i \in 1..i
    BY <1>1
  <2>3. \A j \in 1..i : Wanted(lines, m, ManagedKeys[j]) => Has(new[i], ManagedKeys[j])
    <3> TAKE j \in 1..i
    <3> HAVE Wanted(lines, m, ManagedKeys[j])
    <3>1. CASE j = i
      BY <1>6, <2>1, <3>1
    <3>2. CASE j \in 1..(i - 1)
      <4>1. Has(new[i - 1], ManagedKeys[j])
        BY <1>12, <3>2
      <4> QED BY <1>6, <2>1, <4>1
    <3> QED BY <2>2, <3>1, <3>2
  <2>4. (\A j \in 1..i : ~Wanted(lines, m, ManagedKeys[j])) => new[i] = <<>>
    <3> SUFFICES ASSUME \A j \in 1..i : ~Wanted(lines, m, ManagedKeys[j]) PROVE new[i] = <<>>
      OBVIOUS
    <3>1. new[i - 1] = <<>>
      BY <1>12, <2>a
    <3>2. new[i] = new[i - 1]
      BY <1>6, <2>1, <2>b
    <3> QED BY <3>1, <3>2
  <2> QED BY <2>1, <2>3, <2>4, <2>b
<1>13. n \in P
  <2>1. \A i \in 0..n : i \in P
    <3> HIDE DEF P
    <3> QED BY <1>1, <1>11, <1>12, Along
  <2> QED BY <1>1, <2>1
<1>14. \A k \in Module!Managed : \E j \in 1..n : k = ManagedKeys[j]
  BY ModuleTypes DEF n
<1>15. NewOf(lines, m, new[n])
  BY <1>1, <1>13, <1>14 DEF NewOf, S, Has
<1> QED BY <1>4, <1>15

\* New lines are put after line `at'.
Spliced(lines, new, at) == SubSeq(lines, 1, at) \o new \o SubSeq(lines, at + 1, Len(lines))

SplicedOf(lines, new, at, g) ==
  /\ g \in Module!Files /\ Len(g) = Len(lines) + Len(new)
  /\ \A i \in 1..at : g[i] = lines[i]
  /\ \A i \in 1..Len(new) : g[at + i] = new[i]
  /\ \A i \in (at + 1)..Len(lines) : g[i + Len(new)] = lines[i]

LEMMA SplicedIs ==
  ASSUME NEW lines \in Module!Files, NEW new \in Module!Files, NEW at \in 1..Len(lines)
  PROVE  SplicedOf(lines, new, at, Spliced(lines, new, at))
<1> DEFINE L == Module!Lines
           head == SubSeq(lines, 1, at)
           tail == SubSeq(lines, at + 1, Len(lines))
<1>1. /\ lines \in Seq(L) /\ new \in Seq(L) /\ Len(lines) \in Nat /\ Len(new) \in Nat
      /\ \A i \in 1..Len(lines) : lines[i] \in L
  BY LinesAre
<1>2. /\ head \in Seq(L) /\ Len(head) = at /\ \A i \in 1..at : head[i] = lines[i]
  BY <1>1, SubSeqProperties
<1>3. /\ tail \in Seq(L) /\ Len(tail) = Len(lines) - at
      /\ \A i \in 1..(Len(lines) - at) : tail[i] = lines[at + i]
  <2>1. CASE at = Len(lines)
    <3>1. tail = <<>>
      BY <1>1, <2>1, SubSeqEmpty
    <3> QED BY <1>1, <2>1, <3>1
  <2>2. CASE at < Len(lines)
    <3>1. at + 1 \in 1..Len(lines) /\ \A i \in (at + 1)..Len(lines) : lines[i] \in L
      BY <1>1, <2>2
    <3>2. /\ tail \in Seq(L) /\ Len(tail) = Len(lines) - (at + 1) + 1
          /\ \A i \in 1..(Len(lines) - (at + 1) + 1) : tail[i] = lines[at + 1 + i - 1]
      BY <1>1, <2>2, <3>1, SubSeqProperties
    <3> HIDE DEF tail
    <3> QED BY <1>1, <2>2, <3>2
  <2> QED BY <1>1, <2>1, <2>2
<1> HIDE DEF head, tail, L
<1>4. /\ head \o new \in Seq(L) /\ Len(head \o new) = at + Len(new)
      /\ \A i \in 1..at : (head \o new)[i] = lines[i]
      /\ \A i \in 1..Len(new) : (head \o new)[at + i] = new[i]
  <2>1. /\ head \o new \in Seq(L) /\ Len(head \o new) = at + Len(new)
        /\ \A i \in 1..(at + Len(new)) : (head \o new)[i] = IF i <= at THEN head[i] ELSE new[i - at]
    BY <1>1, <1>2, ConcatProperties
  <2>2. \A i \in 1..at : i \in 1..(at + Len(new)) /\ i <= at
    BY <1>1
  <2>3. \A i \in 1..Len(new) : at + i \in 1..(at + Len(new)) /\ ~(at + i <= at) /\ at + i - at = i
    BY <1>1
  <2>4. \A i \in 1..at : (head \o new)[i] = lines[i]
    BY <1>2, <2>1, <2>2
  <2>5. \A i \in 1..Len(new) : (head \o new)[at + i] = new[i]
    BY <2>1, <2>3
  <2> QED BY <2>1, <2>4, <2>5
<1> DEFINE front == head \o new
           g == front \o tail
<1>a. front \in Seq(L) /\ tail \in Seq(L)
  BY <1>3, <1>4
<1> HIDE DEF front
<1>5. /\ g \in Seq(L) /\ Len(g) = Len(front) + Len(tail)
      /\ \A i \in 1..(Len(front) + Len(tail)) : g[i] = IF i <= Len(front) THEN front[i] ELSE tail[i - Len(front)]
  BY <1>a, ConcatProperties
<1> HIDE DEF g
<1>6. Len(front) = at + Len(new) /\ Len(g) = Len(lines) + Len(new)
  BY <1>1, <1>3, <1>4, <1>5 DEF front
<1>7. \A i \in 1..at : g[i] = lines[i]
  <2>1. \A i \in 1..at : i \in 1..(Len(front) + Len(tail)) /\ i <= Len(front)
    BY <1>1, <1>3, <1>6
  <2> QED BY <1>4, <1>5, <2>1 DEF front
<1>8. \A i \in 1..Len(new) : g[at + i] = new[i]
  <2>1. \A i \in 1..Len(new) : at + i \in 1..(Len(front) + Len(tail)) /\ at + i <= Len(front)
    BY <1>1, <1>3, <1>6
  <2> QED BY <1>4, <1>5, <2>1 DEF front
<1>9. \A i \in (at + 1)..Len(lines) : g[i + Len(new)] = lines[i]
  <2> TAKE i \in (at + 1)..Len(lines)
  <2>1. Len(front) = at + Len(new) /\ Len(tail) = Len(lines) - at /\ i \in Nat /\ at \in Nat
    BY <1>1, <1>3, <1>6
  <2>2. i + Len(new) \in 1..(Len(front) + Len(tail)) /\ ~(i + Len(new) <= Len(front))
    BY <1>1, <2>1
  <2>3. i + Len(new) - Len(front) = i - at /\ i - at \in 1..(Len(lines) - at) /\ at + (i - at) = i
    BY <1>1, <2>1
  <2>4. g[i + Len(new)] = tail[i - at]
    BY <1>5, <2>2, <2>3
  <2>5. tail[i - at] = lines[i]
    BY <1>3, <2>3
  <2> QED BY <2>4, <2>5
<1>10. g = Spliced(lines, new, at)
  BY DEF g, front, head, tail, Spliced
<1>11. SplicedOf(lines, new, at, g)
  BY <1>5, <1>6, <1>7, <1>8, <1>9 DEF SplicedOf, Module!Files, L
<1> QED BY <1>10, <1>11

\* Where a spliced line comes from.
LEMMA SplicedFrom ==
  ASSUME NEW lines \in Module!Files, NEW new \in Module!Files, NEW at \in 1..Len(lines),
         NEW g, SplicedOf(lines, new, at, g), NEW i \in DOMAIN g
  PROVE  (\E j \in DOMAIN lines : g[i] = lines[j]) \/ (\E j \in DOMAIN new : g[i] = new[j])
<1>1. /\ Len(lines) \in Nat /\ Len(new) \in Nat /\ DOMAIN lines = 1..Len(lines) /\ DOMAIN new = 1..Len(new)
      /\ DOMAIN g = 1..(Len(lines) + Len(new))
  BY LinesAre DEF SplicedOf
<1>2. \/ i \in 1..at
      \/ i - at \in 1..Len(new) /\ at + (i - at) = i
      \/ i - Len(new) \in (at + 1)..Len(lines) /\ (i - Len(new)) + Len(new) = i
  BY <1>1
<1>3. \A j \in 1..at : j \in DOMAIN lines
  BY <1>1
<1>4. \A j \in (at + 1)..Len(lines) : j \in DOMAIN lines
  BY <1>1
<1> QED BY <1>1, <1>2, <1>3, <1>4 DEF SplicedOf

\* No line is lost.
LEMMA SplicedTo ==
  ASSUME NEW lines \in Module!Files, NEW new \in Module!Files, NEW at \in 1..Len(lines),
         NEW g, SplicedOf(lines, new, at, g)
  PROVE  /\ \A j \in DOMAIN lines : \E i \in DOMAIN g : g[i] = lines[j]
         /\ \A j \in DOMAIN new : \E i \in DOMAIN g : g[i] = new[j]
<1>1. /\ Len(lines) \in Nat /\ Len(new) \in Nat /\ DOMAIN lines = 1..Len(lines) /\ DOMAIN new = 1..Len(new)
      /\ DOMAIN g = 1..(Len(lines) + Len(new))
  BY LinesAre DEF SplicedOf
<1>2. \A j \in 1..Len(lines) : (j \in 1..at /\ j \in DOMAIN g)
                               \/ (j \in (at + 1)..Len(lines) /\ j + Len(new) \in DOMAIN g)
  BY <1>1
<1>3. \A j \in 1..Len(new) : at + j \in DOMAIN g
  BY <1>1
<1> QED BY <1>1, <1>2, <1>3 DEF SplicedOf

\* The first [global] line.
LEMMA FirstGlobal ==
  ASSUME NEW lines \in Module!Files, Module!Contains(lines, Global)
  PROVE  \E at \in 1..Len(lines) :
           /\ lines[at] = Global
           /\ \A new : Module!Inserted(lines, new) = Spliced(lines, new, at)
<1> DEFINE First(i) == lines[i] = Global /\ \A j \in 1..(i - 1) : lines[j] # Global
           at == CHOOSE i \in DOMAIN lines : First(i)
           S == {i \in 1..Len(lines) : lines[i] = Global}
<1>1. Len(lines) \in Nat /\ DOMAIN lines = 1..Len(lines)
  BY LinesAre
<1>2. S # {} /\ S \in SUBSET Nat
  BY <1>1 DEF Module!Contains
<1>3. PICK i \in S : \A j \in S : i <= j
  <2> HIDE DEF S
  <2> QED BY <1>2, Smallest
<1>4. \A j \in 1..(i - 1) : j \in 1..Len(lines) /\ ~(i <= j)
  BY <1>1, <1>3
<1>5. i \in DOMAIN lines /\ First(i)
  BY <1>1, <1>3, <1>4
<1>6. at \in DOMAIN lines /\ First(at)
  <2> HIDE DEF First
  <2> QED BY <1>5
<1>7. \A new : Module!Inserted(lines, new) = Spliced(lines, new, at)
  BY DEF Module!Inserted, Spliced
<1> HIDE DEF at
<1> QED BY <1>1, <1>6, <1>7

\* The lines without a key, one by one.
OthersBy(f, lines) ==
  /\ f[0] = <<>> /\ Module!OthersOf(lines) = f[Len(lines)]
  /\ \A i \in 1..Len(lines) :
       f[i] = IF Module!IsKey(lines[i]) THEN f[i - 1] ELSE Append(f[i - 1], lines[i])

LEMMA OthersGoOn ==
  ASSUME NEW lines \in Module!Files
  PROVE  \E f : OthersBy(f, lines)
<1> DEFINE n == Len(lines)
           S == Seq(Module!Lines)
           next(u, i) == IF Module!IsKey(lines[i]) THEN u ELSE Append(u, lines[i])
           g == [i \in 1..n |-> [u \in S |-> next(u, i)]]
           Is(f) == f = [i \in 0..n |->
                      IF i = 0 THEN <<>>
                      ELSE IF Module!IsKey(lines[i]) THEN f[i - 1] ELSE Append(f[i - 1], lines[i])]
           others == CHOOSE f : Is(f)
<1>1. n \in Nat /\ <<>> \in S /\ \A i \in 1..n : lines[i] \in Module!Lines
  BY LinesAre
<1>2. ASSUME NEW i \in 1..n, NEW u \in S PROVE next(u, i) \in S
  BY <1>1
<1>3. \A f : Is(f) <=> f = [i \in 0..n |-> IF i = 0 THEN <<>> ELSE next(f[i - 1], i)]
  OBVIOUS
<1>4. Module!OthersOf(lines) = others[n]
  BY DEF Module!OthersOf
<1>5. \A u, i : next(u, i) = IF Module!IsKey(lines[i]) THEN u ELSE Append(u, lines[i])
  OBVIOUS
<1> HIDE DEF S, n, Is, next
<1>6. g \in [1..n -> [S -> S]]
  BY <1>2
<1>7. \E f : Is(f)
  <2> HIDE DEF g
  <2>1. PICK f \in [0..n -> S] : Built(f, <<>>, n, g)
    BY <1>1, <1>6, Iterates
  <2>2. \A i \in 0..n : i # 0 => i \in 1..n /\ i - 1 \in 0..n /\ f[i - 1] \in S
    BY <1>1, <2>1
  <2>3. \A i \in 0..n : i # 0 => g[i][f[i - 1]] = next(f[i - 1], i)
    BY <2>2 DEF g
  <2>4. f = [i \in 0..n |-> IF i = 0 THEN <<>> ELSE next(f[i - 1], i)]
    BY <2>1, <2>3 DEF Built
  <2> QED BY <1>3, <2>4
<1>8. Is(others)
  BY <1>7
<1> HIDE DEF others
<1>9. others[0] = <<>> /\ \A i \in 1..n : others[i] = next(others[i - 1], i)
  BY <1>1, <1>3, <1>8
<1>10. OthersBy(others, lines)
  BY <1>4, <1>5, <1>9 DEF OthersBy, n
<1> QED BY <1>10

LEMMA OneMore ==
  ASSUME NEW f, NEW lines, OthersBy(f, lines), NEW i \in 1..Len(lines)
  PROVE  f[i] = IF Module!IsKey(lines[i]) THEN f[i - 1] ELSE Append(f[i - 1], lines[i])
BY DEF OthersBy

LEMMA OthersRewritten ==
  ASSUME NEW lines \in Module!Files, NEW m, NEW g, RewrittenOf(lines, m, g)
  PROVE  Module!OthersOf(g) = Module!OthersOf(lines)
<1>1. /\ g \in Module!Files /\ Len(g) = Len(lines) /\ Len(lines) \in Nat
      /\ \A i \in 1..Len(lines) : /\ Module!IsKey(g[i]) <=> Module!IsKey(lines[i])
                                  /\ ~Module!IsKey(g[i]) => g[i] = lines[i]
  BY LinesAre DEF RewrittenOf
<1>2. PICK f : OthersBy(f, lines)
  BY OthersGoOn
<1>3. PICK h : OthersBy(h, g)
  BY <1>1, OthersGoOn
<1> DEFINE P == {i \in 0..Len(lines) : h[i] = f[i]}
<1>4. 0 \in P
  BY <1>1, <1>2, <1>3 DEF OthersBy
<1>5. ASSUME NEW i \in 1..Len(lines), i - 1 \in P PROVE i \in P
  <2>1. h[i] = IF Module!IsKey(g[i]) THEN h[i - 1] ELSE Append(h[i - 1], g[i])
    BY <1>1, <1>3 DEF OthersBy
  <2>2. f[i] = IF Module!IsKey(lines[i]) THEN f[i - 1] ELSE Append(f[i - 1], lines[i])
    BY <1>2 DEF OthersBy
  <2>3. h[i] = f[i]
    BY <1>1, <1>5, <2>1, <2>2
  <2> QED BY <1>1, <2>3
<1>6. Len(lines) \in P
  <2>1. \A i \in 0..Len(lines) : i \in P
    <3> HIDE DEF P
    <3> QED BY <1>1, <1>4, <1>5, Along
  <2> QED BY <1>1, <2>1
<1> QED BY <1>1, <1>2, <1>3, <1>6 DEF OthersBy

LEMMA OthersSpliced ==
  ASSUME NEW lines \in Module!Files, NEW new \in Module!Files, NEW at \in 1..Len(lines),
         \A i \in DOMAIN new : Module!IsKey(new[i]), NEW g, SplicedOf(lines, new, at, g)
  PROVE  Module!OthersOf(g) = Module!OthersOf(lines)
<1> DEFINE k == Len(new)
<1>1. /\ g \in Module!Files /\ Len(g) = Len(lines) + k /\ Len(lines) \in Nat /\ k \in Nat
      /\ at \in Nat /\ Len(lines) - at \in Nat /\ DOMAIN new = 1..k
  BY LinesAre DEF SplicedOf
<1>2. PICK f : OthersBy(f, lines)
  BY OthersGoOn
<1>3. PICK h : OthersBy(h, g)
  BY <1>1, OthersGoOn
<1> HIDE DEF k
<1>4. \A i \in 0..at : h[i] = f[i]
  <2> DEFINE P == {i \in 0..at : h[i] = f[i]}
  <2>1. 0 \in P
    BY <1>1, <1>2, <1>3 DEF OthersBy
  <2>2. ASSUME NEW i \in 1..at, i - 1 \in P PROVE i \in P
    <3>1. i \in 1..Len(lines) /\ i \in 1..Len(g) /\ i \in 0..at
      BY <1>1
    <3>2. g[i] = lines[i] /\ h[i - 1] = f[i - 1]
      BY <2>2 DEF SplicedOf
    <3> QED BY <1>2, <1>3, <3>1, <3>2 DEF OthersBy
  <2>3. \A i \in 0..at : i \in P
    <3> HIDE DEF P
    <3> QED BY <1>1, <2>1, <2>2, Along
  <2> QED BY <2>3
<1>5. \A i \in 0..k : h[at + i] = f[at]
  <2> DEFINE P == {i \in 0..k : h[at + i] = f[at]}
  <2>1. 0 \in P
    BY <1>1, <1>4
  <2>2. ASSUME NEW i \in 1..k, i - 1 \in P PROVE i \in P
    <3>1. at + i \in 1..Len(g) /\ at + i - 1 = at + (i - 1) /\ i \in 0..k
      BY <1>1
    <3>2. g[at + i] = new[i] /\ Module!IsKey(new[i]) /\ h[at + (i - 1)] = f[at]
      BY <1>1, <2>2 DEF SplicedOf, k
    <3> QED BY <1>3, <3>1, <3>2 DEF OthersBy
  <2>3. \A i \in 0..k : i \in P
    <3> HIDE DEF P
    <3> QED BY <1>1, <2>1, <2>2, Along
  <2> QED BY <2>3
<1>6. \A i \in 0..(Len(lines) - at) : h[at + k + i] = f[at + i]
  <2> DEFINE P == {i \in 0..(Len(lines) - at) : h[at + k + i] = f[at + i]}
  <2>1. 0 \in P
    <3>1. k \in 0..k /\ at + k + 0 = at + k /\ at + 0 = at /\ 0 \in 0..(Len(lines) - at)
      BY <1>1
    <3> QED BY <1>5, <3>1
  <2>2. ASSUME NEW i \in 1..(Len(lines) - at), i - 1 \in P PROVE i \in P
    <3>1. /\ at + k + i \in 1..Len(g) /\ at + i \in 1..Len(lines) /\ i \in 0..(Len(lines) - at)
          /\ at + k + i - 1 = at + k + (i - 1) /\ at + i - 1 = at + (i - 1)
          /\ at + i \in (at + 1)..Len(lines) /\ at + i + k = at + k + i
      BY <1>1
    <3>2. g[at + k + i] = lines[at + i]
      <4>1. g[at + i + k] = lines[at + i]
        BY <3>1 DEF SplicedOf, k
      <4> QED BY <3>1, <4>1
    <3>3. h[at + k + (i - 1)] = f[at + (i - 1)]
      BY <2>2
    <3> DEFINE x == at + k + i
               y == at + i
    <3>4. /\ h[x] = IF Module!IsKey(g[x]) THEN h[x - 1] ELSE Append(h[x - 1], g[x])
          /\ f[y] = IF Module!IsKey(lines[y]) THEN f[y - 1] ELSE Append(f[y - 1], lines[y])
      <4>1. x \in 1..Len(g) /\ y \in 1..Len(lines)
        BY <3>1
      <4> HIDE DEF x, y
      <4> QED BY <1>2, <1>3, <4>1, OneMore
    <3>5. g[x] = lines[y] /\ h[x - 1] = f[y - 1]
      <4>1. x - 1 = at + k + (i - 1) /\ y - 1 = at + (i - 1)
        BY <1>1
      <4>2. h[x - 1] = h[at + k + (i - 1)] /\ f[y - 1] = f[at + (i - 1)]
        BY <4>1
      <4>3. g[x] = lines[y]
        BY <3>2
      <4> QED BY <3>3, <4>2, <4>3
    <3>6. h[x] = f[y]
      <4> HIDE DEF x, y
      <4> QED BY <3>4, <3>5
    <3> QED BY <3>1, <3>6
  <2>3. \A i \in 0..(Len(lines) - at) : i \in P
    <3> HIDE DEF P
    <3> QED BY <1>1, <2>1, <2>2, Along
  <2> QED BY <2>3
<1>7. /\ Len(lines) - at \in 0..(Len(lines) - at)
      /\ at + k + (Len(lines) - at) = Len(g) /\ at + (Len(lines) - at) = Len(lines)
  BY <1>1
<1> QED BY <1>2, <1>3, <1>6, <1>7 DEF OthersBy

-----------------------------------------------------------------------------
(* What a save makes of a file *)

UpdatedOf(lines, m, g) ==
  /\ g \in Module!Files /\ Says(g, m)
  /\ \A k \in Module!Managed : Module!Having(g, k) = {} =>
       Module!Having(lines, k) = {} /\ (Module!Contains(g, Global) => m[k] = Empty)
  /\ Module!OthersOf(g) = Module!OthersOf(lines)

LEMMA UpdatedIs ==
  ASSUME NEW lines \in Module!Files, NEW m \in [Module!Managed -> ManagedValues]
  PROVE  UpdatedOf(lines, m, Module!Updated(lines, m))
<1> DEFINE mid == Module!Rewritten(lines, m)
           new == Module!NewLines(lines, m)
           g == Module!Updated(lines, m)
<1>1. RewrittenOf(lines, m, mid) /\ NewOf(lines, m, new) /\ g = Module!Inserted(mid, new)
  BY RewrittenIs, NewLinesAre DEF Module!Updated
<1> HIDE DEF mid, new, g
<1>2. mid \in Module!Files /\ new \in Module!Files
  BY <1>1 DEF RewrittenOf, NewOf, Module!Files
<1>3. Module!OthersOf(mid) = Module!OthersOf(lines)
  BY <1>1, OthersRewritten
<1>4. DOMAIN lines = 1..Len(lines) /\ DOMAIN mid = 1..Len(lines)
  BY <1>1, <1>2, LinesAre DEF RewrittenOf
<1>5. \A k : Module!Having(mid, k) = Module!Having(lines, k)
  BY <1>1, <1>4 DEF RewrittenOf, Module!Having
<1>6. CASE ~Module!Contains(mid, Global)
  <2>1. g = mid
    BY <1>1, <1>6 DEF Module!Inserted
  <2>2. UpdatedOf(lines, m, g)
    BY <1>1, <1>2, <1>3, <1>5, <1>6, <2>1 DEF UpdatedOf, RewrittenOf
  <2> QED BY <2>2 DEF g
<1>7. CASE Module!Contains(mid, Global)
  <2>1. PICK at \in 1..Len(mid) : g = Spliced(mid, new, at)
    BY <1>1, <1>2, <1>7, FirstGlobal
  <2>2. SplicedOf(mid, new, at, g)
    BY <1>2, <2>1, SplicedIs
  <2>3. g \in Module!Files
    BY <2>2 DEF SplicedOf
  <2>4. Says(g, m)
    <3> SUFFICES ASSUME NEW i \in DOMAIN g, Module!IsKey(g[i])
                 PROVE  g[i].key \in Module!Managed /\ g[i] = Module!KeyLine(g[i].key, m[g[i].key])
      BY DEF Says
    <3>1. (\E j \in DOMAIN mid : g[i] = mid[j]) \/ (\E j \in DOMAIN new : g[i] = new[j])
      BY <1>2, <2>2, SplicedFrom
    <3>2. Says(mid, m) /\ Says(new, m)
      BY <1>1 DEF RewrittenOf, NewOf
    <3> QED BY <3>1, <3>2 DEF Says
  <2>5. Module!OthersOf(g) = Module!OthersOf(lines)
    BY <1>1, <1>2, <1>3, <2>2, OthersSpliced DEF NewOf
  <2>6. ASSUME NEW k \in Module!Managed, Module!Having(g, k) = {}
        PROVE  Module!Having(lines, k) = {} /\ m[k] = Empty
    <3>1. /\ \A j \in DOMAIN mid : \E i \in DOMAIN g : g[i] = mid[j]
          /\ \A j \in DOMAIN new : \E i \in DOMAIN g : g[i] = new[j]
      BY <1>2, <2>2, SplicedTo
    <3>2. Module!Having(mid, k) = {}
      BY <2>6, <3>1 DEF Module!Having
    <3>3. \A j \in DOMAIN new : new[j].key # k
      BY <1>1, <2>6, <3>1 DEF NewOf, Module!Having
    <3>4. ~Wanted(lines, m, k)
      BY <1>1, <3>3 DEF NewOf
    <3> QED BY <1>5, <3>2, <3>4 DEF Wanted
  <2>7. UpdatedOf(lines, m, g)
    BY <2>3, <2>4, <2>5, <2>6 DEF UpdatedOf
  <2> QED BY <2>7 DEF g
<1> QED BY <1>6, <1>7

\* Once every line says what m has and nothing is missing, there is nothing to do.
LEMMA UpdatedAgain ==
  ASSUME NEW f, NEW m \in [Module!Managed -> ManagedValues], NEW g, UpdatedOf(f, m, g)
  PROVE  Module!Updated(g, m) = g
<1> DEFINE mid == Module!Rewritten(g, m)
           new == Module!NewLines(g, m)
<1>1. g \in Module!Files
  BY DEF UpdatedOf
<1>2. RewrittenOf(g, m, mid) /\ NewOf(g, m, new) /\ Module!Updated(g, m) = Module!Inserted(mid, new)
  BY <1>1, RewrittenIs, NewLinesAre DEF Module!Updated
<1> HIDE DEF mid, new
<1>3. mid \in Module!Files /\ new \in Module!Files
  BY <1>2 DEF RewrittenOf, NewOf, Module!Files
<1>4. /\ Len(g) \in Nat /\ DOMAIN g = 1..Len(g) /\ DOMAIN mid = 1..Len(g) /\ Len(mid) = Len(g)
      /\ g \in Seq(Module!Lines) /\ mid \in Seq(Module!Lines)
  BY <1>1, <1>2, <1>3, LinesAre DEF RewrittenOf
<1>5. mid = g
  <2>1. \A i \in 1..Len(g) : mid[i] = g[i]
    BY <1>2, <1>4 DEF RewrittenOf, UpdatedOf, Says
  <2> QED BY <1>4, <2>1, SeqEqual
<1>6. CASE ~Module!Contains(g, Global)
  BY <1>2, <1>5, <1>6 DEF Module!Inserted
<1>7. CASE Module!Contains(g, Global)
  <2>1. new = <<>>
    BY <1>2, <1>7 DEF NewOf, Wanted, UpdatedOf
  <2>2. PICK at \in 1..Len(g) : Module!Inserted(g, new) = Spliced(g, new, at)
    BY <1>1, <1>7, FirstGlobal
  <2> DEFINE h == Spliced(g, new, at)
  <2>3. SplicedOf(g, new, at, h)
    BY <1>1, <1>3, SplicedIs
  <2> HIDE DEF h
  <2>4. h \in Seq(Module!Lines) /\ Len(h) = Len(g)
    BY <1>4, <2>1, <2>3 DEF SplicedOf, Module!Files
  <2>5. \A i \in 1..Len(g) : h[i] = g[i]
    <3> TAKE i \in 1..Len(g)
    <3>1. i \in 1..at \/ (i \in (at + 1)..Len(g) /\ i + 0 = i)
      BY <1>4
    <3>2. Len(new) = 0
      BY <2>1
    <3> QED BY <2>3, <3>1, <3>2 DEF SplicedOf
  <2>6. h = g
    BY <1>4, <2>4, <2>5, SeqEqual
  <2> QED BY <1>2, <1>5, <2>2, <2>6 DEF h
<1> QED BY <1>6, <1>7

-----------------------------------------------------------------------------
(* The .module file from step to step *)

\* The values of keys the file has not are what the reader has for them if there
\* is nothing to say of them; a save in progress has the file's lines and the
\* program's values; a save that is over is read back.  All this unless a failure
\* was not seen, after which the texts are still made of lines.
Settled ==
  /\ \A k \in Module!Managed :
       Module!Having(moduleFile, k) = {} /\ values[k] = Empty => Initially[k] = AsRead[Empty]
  /\ phase # "idle" => output = Module!Updated(moduleFile, values)
  /\ phase = "closed" => temp = output

ModuleInv ==
  /\ moduleFile \in Module!Files /\ values \in [Module!Managed -> ManagedValues]
  /\ output \in Module!Files /\ (phase = "closed" => temp \in Module!Files)
  /\ ~unseen => Settled
  /\ Module!SavedIsLoaded /\ Module!SavedOnceForAll

\* What is read of a file.
LoadedOf(lines, m) ==
  /\ m \in [Module!Managed -> ManagedValues]
  /\ \A k \in Module!Managed : Module!Having(lines, k) = {} => m[k] = Initially[k]

\* Of some of the lines one is the last.
LEMMA LastIsThere ==
  ASSUME NEW lines \in Module!Files, NEW S \in SUBSET (DOMAIN lines), S # {}
  PROVE  (CHOOSE i \in S : \A j \in S : j <= i) \in S
<1> DEFINE flipped == {Len(lines) - i : i \in S}
<1>1. S \in SUBSET (1..Len(lines)) /\ Len(lines) \in Nat
  BY LinesAre
<1>2. flipped \in SUBSET Nat /\ flipped # {}
  BY <1>1
<1>3. PICK m \in flipped : \A n \in flipped : m <= n
  <2> HIDE DEF flipped
  <2> QED BY <1>2, Smallest
<1>4. PICK i \in S : m = Len(lines) - i
  BY <1>3
<1>5. \A j \in S : j <= i
  <2> TAKE j \in S
  <2>1. Len(lines) - i <= Len(lines) - j
    BY <1>3, <1>4
  <2> QED BY <1>1, <2>1
<1> QED BY <1>5

LEMMA LoadedIs ==
  ASSUME NEW lines \in Module!Files
  PROVE  LoadedOf(lines, Module!LoadModuleFile(lines))
<1>1. DOMAIN lines \in SUBSET Nat /\ \A i \in DOMAIN lines : lines[i] \in Module!Lines
  BY LinesAre
<1>2. ASSUME NEW k \in Module!Managed
      PROVE  /\ Module!LoadModuleFile(lines)[k] \in ManagedValues
             /\ Module!Having(lines, k) = {} => Module!LoadModuleFile(lines)[k] = Initially[k]
  <2> DEFINE read == {i \in Module!Having(lines, k) : Module!InGlobal(lines, i)}
             last1 == CHOOSE i \in read : \A j \in read : j <= i
  <2>1. Module!LoadModuleFile(lines)[k] = IF read = {} THEN Initially[k] ELSE AsRead[lines[last1].value]
    BY DEF Module!LoadModuleFile
  <2>2. CASE read = {}
    BY <2>1, <2>2, ModuleTypes
  <2>3. CASE read # {}
    <3>1. read \in SUBSET (DOMAIN lines)
      BY DEF Module!Having
    <3>2. last1 \in read
      <4> HIDE DEF read
      <4> QED BY <2>3, <3>1, LastIsThere
    <3> HIDE DEF last1
    <3>3. lines[last1].value \in ManagedValues
      BY <1>1, <3>2, KeyLineIs DEF Module!Having
    <3>4. AsRead[lines[last1].value] \in ManagedValues
      BY <3>3, ModuleTypes
    <3> QED BY <2>1, <2>3, <3>4
  <2> QED BY <2>2, <2>3
<1>3. Module!LoadModuleFile(lines) = [k \in Module!Managed |-> Module!LoadModuleFile(lines)[k]]
  BY DEF Module!LoadModuleFile
<1>4. Module!LoadModuleFile(lines) \in [Module!Managed -> ManagedValues]
  BY <1>2, <1>3
<1> QED BY <1>2, <1>4 DEF LoadedOf

\* What was written to a tidy file is read back.
LEMMA WrittenIsLoaded ==
  ASSUME NEW f \in Module!Files, NEW m \in [Module!Managed -> ManagedValues], NEW g,
         UpdatedOf(f, m, g), Module!Tidy(g),
         \A k \in Module!Managed : Module!Having(f, k) = {} /\ m[k] = Empty => Initially[k] = AsRead[Empty]
  PROVE  Module!LoadModuleFile(g) = [k \in Module!Managed |-> AsRead[m[k]]]
<1>1. g \in Module!Files /\ Says(g, m) /\ Module!Contains(g, Global)
  BY DEF UpdatedOf, Module!Tidy
<1>2. ASSUME NEW k \in Module!Managed PROVE Module!LoadModuleFile(g)[k] = AsRead[m[k]]
  <2> DEFINE read == {i \in Module!Having(g, k) : Module!InGlobal(g, i)}
             last1 == CHOOSE i \in read : \A j \in read : j <= i
  <2>1. Module!LoadModuleFile(g)[k] = IF read = {} THEN Initially[k] ELSE AsRead[g[last1].value]
    BY DEF Module!LoadModuleFile
  <2>2. read = Module!Having(g, k)
    BY DEF Module!Tidy, Module!Having
  <2>3. CASE read = {}
    <3>1. Module!Having(f, k) = {} /\ m[k] = Empty
      BY <1>1, <2>2, <2>3 DEF UpdatedOf
    <3> QED BY <2>1, <2>3, <3>1
  <2>4. CASE read # {}
    <3>1. \A i \in read : g[i].value = m[k]
      <4> TAKE i \in read
      <4>1. i \in DOMAIN g /\ Module!IsKey(g[i]) /\ g[i].key = k
        BY <2>2 DEF Module!Having
      <4>2. g[i] = Module!KeyLine(k, m[k]) /\ m[k] \in ManagedValues
        BY <1>1, <4>1 DEF Says
      <4> QED BY <4>2, KeyLineHas
    <3>2. last1 \in read
      <4>1. read \in SUBSET (DOMAIN g)
        BY DEF Module!Having
      <4> HIDE DEF read
      <4> QED BY <1>1, <2>4, <4>1, LastIsThere
    <3> HIDE DEF read, last1
    <3> QED BY <2>1, <2>4, <3>1, <3>2
  <2> QED BY <2>3, <2>4
<1>3. Module!LoadModuleFile(g) = [k \in Module!Managed |-> Module!LoadModuleFile(g)[k]]
  BY DEF Module!LoadModuleFile
<1> QED BY <1>2, <1>3

LEMMA CutIs ==
  ASSUME NEW lines \in Module!Files, NEW g \in Module!Cut(lines)
  PROVE  g \in Module!Files
<1>1. lines \in Seq(Module!Lines) /\ Len(lines) \in Nat /\ DOMAIN lines = 1..Len(lines)
  BY LinesAre
<1>2. ASSUME NEW n \in 0..Len(lines) PROVE SubSeq(lines, 1, n) \in Seq(Module!Lines)
  BY <1>1
<1>3. CASE \E n \in 0..Len(lines) : g = SubSeq(lines, 1, n)
  BY <1>2, <1>3 DEF Module!Files
<1>4. CASE \E n \in DOMAIN lines : g = Append(SubSeq(lines, 1, n - 1), Text)
  <2>1. PICK n \in 1..Len(lines) : g = Append(SubSeq(lines, 1, n - 1), Text)
    BY <1>1, <1>4
  <2>2. SubSeq(lines, 1, n - 1) \in Seq(Module!Lines) /\ Text \in Module!Lines
    BY <1>1, <1>2 DEF Module!Lines
  <2>3. Append(SubSeq(lines, 1, n - 1), Text) \in Seq(Module!Lines)
    BY <2>2, AppendProperties
  <2> QED BY <2>1, <2>3 DEF Module!Files
<1> QED BY <1>3, <1>4 DEF Module!Cut

LEMMA PassedIs ==
  ASSUME NEW lines \in Module!Files, NEW g \in Module!Passed(lines)
  PROVE  g \in Module!Files
BY CutIs DEF Module!Passed

LEMMA ModuleBegins == EditorsInit => ModuleInv
<1> SUFFICES ASSUME EditorsInit PROVE ModuleInv
  OBVIOUS
<1>1. /\ moduleFile \in ModuleFiles /\ values = Module!LoadModuleFile(moduleFile)
      /\ phase = "idle" /\ reported = <<>> /\ output = <<>>
  BY DEF EditorsInit, ModuleWaits, Module!Init
<1>2. moduleFile \in Module!Files /\ output \in Module!Files
  BY <1>1, ModuleTypes DEF Module!Files
<1>3. LoadedOf(moduleFile, values)
  BY <1>1, <1>2, LoadedIs
<1>4. Settled
  BY <1>1, <1>3, ModuleTypes DEF LoadedOf, Settled
<1> QED BY <1>1, <1>2, <1>3, <1>4 DEF ModuleInv, LoadedOf, Module!SavedIsLoaded, Module!SavedOnceForAll

\* The steps of a save until the file is replaced, and what does nothing.
LEMMA SavingKeeps ==
  ASSUME ModuleInv, UNCHANGED <<moduleFile, values, reported>>, unseen => unseen',
         output' \in Module!Files, phase' = "closed" => temp' \in Module!Files,
         ~unseen' => /\ phase' # "idle" => output' = Module!Updated(moduleFile, values)
                     /\ phase' = "closed" => temp' = output'
  PROVE  ModuleInv'
<1>1. ~unseen' => Settled'
  BY DEF ModuleInv, Settled
<1>2. Module!SavedIsLoaded' /\ Module!SavedOnceForAll'
  BY DEF ModuleInv, Module!SavedIsLoaded, Module!SavedOnceForAll
<1> QED BY <1>1, <1>2 DEF ModuleInv

LEMMA ReplaceKeeps ==
  ASSUME ModuleInv, Module!Replace
  PROVE  ModuleInv' /\ (unseen' \/ Module!OthersOf(moduleFile') = Module!OthersOf(moduleFile))
<1>1. /\ moduleFile' = temp /\ reported' = values /\ values' = values /\ unseen' = unseen
      /\ phase = "closed" /\ phase' = "idle" /\ output' = <<>>
  BY DEF Module!Replace
<1>2. /\ moduleFile \in Module!Files /\ values \in [Module!Managed -> ManagedValues]
      /\ moduleFile' \in Module!Files /\ output' \in Module!Files
  BY <1>1 DEF ModuleInv, Module!Files
<1>3. CASE unseen
  BY <1>1, <1>2, <1>3 DEF ModuleInv, Module!SavedIsLoaded, Module!SavedOnceForAll
<1>4. CASE ~unseen
  <2>1. moduleFile' = Module!Updated(moduleFile, values)
    BY <1>1, <1>4 DEF ModuleInv, Settled
  <2>2. \A k \in Module!Managed :
          Module!Having(moduleFile, k) = {} /\ values[k] = Empty => Initially[k] = AsRead[Empty]
    BY <1>4 DEF ModuleInv, Settled
  <2>3. UpdatedOf(moduleFile, values, moduleFile')
    BY <2>1, <1>2, UpdatedIs
  <2>4. Module!OthersOf(moduleFile') = Module!OthersOf(moduleFile)
    BY <2>3 DEF UpdatedOf
  <2>5. \A k \in Module!Managed : Module!Having(moduleFile', k) = {} => Module!Having(moduleFile, k) = {}
    BY <2>3 DEF UpdatedOf
  <2>6. Module!Updated(moduleFile', values) = moduleFile'
    BY <1>2, <2>3, UpdatedAgain
  <2>7. Module!Tidy(moduleFile') =>
          Module!LoadModuleFile(moduleFile') = [k \in Module!Managed |-> AsRead[values[k]]]
    BY <1>2, <2>2, <2>3, WrittenIsLoaded
  <2>8. Module!SavedIsLoaded' /\ Module!SavedOnceForAll'
    BY <1>1, <2>6, <2>7 DEF Module!SavedIsLoaded, Module!SavedOnceForAll
  <2>9. Settled'
    BY <1>1, <1>2, <2>2, <2>5 DEF Settled
  <2> QED BY <1>1, <1>2, <2>4, <2>8, <2>9 DEF ModuleInv
<1> QED BY <1>3, <1>4

LEMMA ModuleGoesOn ==
  ASSUME ModuleInv, [EditorsNext]_allVars
  PROVE  ModuleInv' /\ (unseen' \/ Module!OthersOf(moduleFile') = Module!OthersOf(moduleFile))
<1>0. [Module!Next]_Module!vars
  BY DEF EditorsNext, allVars, moduleVars, Module!vars
<1>a. moduleFile \in Module!Files /\ output \in Module!Files /\ <<>> \in Module!Files
  BY DEF ModuleInv, Module!Files
<1>1. CASE Module!Replace
  BY <1>1, ReplaceKeeps
<1>2. CASE Module!Reopen
  <2>1. /\ moduleFile' = moduleFile /\ values' = Module!LoadModuleFile(moduleFile) /\ phase' = "idle"
        /\ reported' = <<>> /\ output' = <<>>
    BY <1>2 DEF Module!Reopen
  <2>2. LoadedOf(moduleFile, values')
    BY <2>1, <1>a, LoadedIs
  <2>3. Settled'
    BY <2>1, <2>2, ModuleTypes DEF LoadedOf, Settled
  <2> QED BY <2>1, <2>2, <2>3, <1>a DEF ModuleInv, LoadedOf, Module!SavedIsLoaded, Module!SavedOnceForAll
<1>3. ASSUME NEW k \in Module!Managed, NEW v \in Settable[k], Module!Set(k, v)
      PROVE  ModuleInv' /\ (unseen' \/ Module!OthersOf(moduleFile') = Module!OthersOf(moduleFile))
  <2>1. /\ moduleFile' = moduleFile /\ values' = [values EXCEPT ![k] = v] /\ phase' = "idle"
        /\ reported' = <<>> /\ output' = output /\ unseen' = unseen
    BY <1>3 DEF Module!Set
  <2>2. values' \in [Module!Managed -> ManagedValues]
    BY <2>1, ModuleTypes DEF ModuleInv
  <2>3. ~unseen' => Settled'
    BY <2>1, ModuleTypes DEF ModuleInv, Settled
  <2> QED BY <2>1, <2>2, <2>3 DEF ModuleInv, Module!SavedIsLoaded, Module!SavedOnceForAll
<1>4. CASE Module!OpenTemp
  <2>1. PICK read \in Module!Passed(moduleFile) :
          output' = Module!Updated(read, values) /\ unseen' = (unseen \/ read # moduleFile)
    BY <1>4 DEF Module!OpenTemp
  <2>2. values \in [Module!Managed -> ManagedValues] /\ read \in Module!Files
    BY <1>a, PassedIs DEF ModuleInv
  <2>3. output' \in Module!Files
    BY <2>1, <2>2, UpdatedIs DEF UpdatedOf
  <2>4. moduleFile' = moduleFile /\ values' = values /\ reported' = reported /\ phase' = "opened"
    BY <1>4 DEF Module!OpenTemp
  <2>5. ModuleInv'
    BY <2>1, <2>3, <2>4, SavingKeeps
  <2> QED BY <2>4, <2>5
<1>5. CASE Module!Close
  <2>1. /\ moduleFile' = moduleFile /\ values' = values /\ reported' = reported /\ phase' = "closed"
        /\ phase = "written" /\ output' = output /\ unseen' = (unseen \/ temp' # output)
        /\ temp' \in Module!Passed(output)
    BY <1>5 DEF Module!Close
  <2>2. temp' \in Module!Files
    BY <2>1, <1>a, PassedIs
  <2>3. ~unseen' => output = Module!Updated(moduleFile, values) /\ temp' = output'
    BY <2>1 DEF ModuleInv, Settled
  <2>4. ModuleInv'
    BY <2>1, <2>2, <2>3, <1>a, SavingKeeps
  <2> QED BY <2>1, <2>4
<1>6. CASE Module!OpenFails \/ Module!Write \/ Module!WriteFails \/ Module!ReplaceFails \/ UNCHANGED Module!vars
  <2>1. moduleFile' = moduleFile /\ values' = values /\ reported' = reported /\ unseen' = unseen
    BY <1>6 DEF Module!OpenFails, Module!Write, Module!WriteFails, Module!ReplaceFails, Module!GiveUp, Module!vars
  <2>2. \/ phase' = "idle" /\ output' = <<>>
        \/ phase = "opened" /\ phase' = "written" /\ output' = output
        \/ phase' = phase /\ output' = output /\ temp' = temp
    BY <1>6 DEF Module!OpenFails, Module!Write, Module!WriteFails, Module!ReplaceFails, Module!GiveUp, Module!vars
  <2>3. ModuleInv'
    BY <2>1, <2>2, <1>a, SavingKeeps DEF ModuleInv, Settled
  <2> QED BY <2>1, <2>3
<1> QED BY <1>0, <1>1, <1>2, <1>3, <1>4, <1>5, <1>6 DEF Module!Next

\* CModuleFile::SaveModuleFile: a save that returned true is read back from a file
\* that reader and writer see alike, and saving the same again changes nothing,
\* unless an fread or an fclose failed, which are not looked at.
THEOREM ModuleIsReadBack == EditorsSpec => []ModuleIsLoaded
<1>1. ModuleInv => ModuleIsLoaded
  BY DEF ModuleInv, ModuleIsLoaded
<1>2. ModuleInv /\ [EditorsNext]_allVars => ModuleInv'
  BY ModuleGoesOn
<1> QED BY <1>1, <1>2, ModuleBegins, PTL DEF EditorsSpec

\* Rainman_UpdateModuleFile: no save changes, drops or moves a line that has no
\* managed key, unless an fread or an fclose failed, which are not looked at.
THEOREM OthersStay == EditorsSpec => OthersKept
<1>1. ModuleInv /\ [EditorsNext]_allVars =>
        ModuleInv' /\ [unseen' \/ Module!OthersOf(moduleFile') = Module!OthersOf(moduleFile)]_Module!vars
  BY ModuleGoesOn
<1> QED BY <1>1, ModuleBegins, PTL DEF EditorsSpec, OthersKept, Module!OthersKept

-----------------------------------------------------------------------------
(* The children of a table in the RGD editor: RgdEditor *)

\* frmRGDEditor: a value that is entered in a row and a deletion hit the entry
\* that was picked, as long as `stale' does not say otherwise.
THEOREM EntriesAreMeant == EditorsSpec => MeantIsChanged
<1>1. EditorsInit => Editor!IInv
  <2>1. EditorsInit => Editor!Init BY DEF EditorsInit, EditorWaits
  <2> QED BY <2>1, Editor!InitIInv, EntriesAreSound
<1>2. [EditorsNext]_allVars => [Editor!Next]_Editor!vars
  BY DEF EditorsNext, allVars, editorVars, Editor!vars
<1>3. Editor!IInv /\ [EditorsNext]_allVars =>
        Editor!IInv' /\ [~stale => (last.meant = last.hit)']_Editor!vars
  BY <1>2, Editor!StepKeeps, EntriesAreSound
<1> QED BY <1>1, <1>3, PTL DEF EditorsSpec, MeantIsChanged, Editor!MeantIsChanged
=============================================================================
