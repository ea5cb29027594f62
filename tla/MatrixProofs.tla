---------------------------- MODULE MatrixProofs ----------------------------
(* What the coordinate reference, voting discovery and the foretelling of an  *)
(* application keep, for every set of coordinates, suggestions, transactions  *)
(* of a block, reorganisations, windows and reads that fail. Inv says that    *)
(* every block Follows the logs up to it, and that the index of a report      *)
(* Declares the same logs up to its cursor; what is stored and what is        *)
(* printed are then two readings of one set of logs.                          *)
EXTENDS MatrixReport, FiniteSetTheorems, SequenceTheorems, WellFoundedInduction, TLAPS

-----------------------------------------------------------------------------
(* Induction over the natural numbers and over the subsets of a finite set,   *)
(* for sets rather than for predicates.                                       *)
LEMMA MinimumBy ==
  ASSUME NEW T, T \subseteq Nat, T # {}, NEW R, IsWellFoundedOn(R, Nat)
  PROVE  \E m \in T : \A n \in T : ~(<<n, m>> \in R)
BY WFMin, Zenon

LEMMA Least ==
  ASSUME NEW T, T \subseteq Nat, T # {}
  PROVE  \E m \in T : \A n \in T : m <= n
<1>. DEFINE R == OpToRel(<, Nat)
<1>1. \A a, b \in Nat : a < b => <<a, b>> \in R
  BY DEF OpToRel
<1>2. IsWellFoundedOn(R, Nat)
  BY NatLessThanWellFounded
<1>. HIDE DEF R
<1>3. PICK m \in T : \A n \in T : ~(<<n, m>> \in R)
  BY <1>2, MinimumBy
<1>4. \A n \in T : ~(n < m)
  BY <1>1, <1>3
<1>. QED
  BY <1>4

LEMMA SetInduction ==
  ASSUME NEW T, 0 \in T, \A n \in Nat : n \in T => n + 1 \in T
  PROVE  Nat \subseteq T
<1>. DEFINE U == Nat \ T
<1>. SUFFICES ASSUME U # {} PROVE FALSE
  OBVIOUS
<1>1. PICK m \in U : \A n \in U : m <= n
  BY Least
<1>2. m # 0 /\ m - 1 \in Nat /\ m - 1 \notin U
  BY <1>1
<1>. QED
  BY <1>2

(* A set that holds a subset of E whenever it holds those of one element less *)
(* holds E.                                                                   *)
LEMMA FiniteInduction ==
  ASSUME NEW E, IsFiniteSet(E), NEW T,
         \A S \in SUBSET E : (\A e \in S : S \ {e} \in T) => S \in T
  PROVE  \A S \in SUBSET E : S \in T
<1>. DEFINE N == {n \in Nat : \A S \in SUBSET E : Cardinality(S) = n => S \in T}
<1>1. \A S \in SUBSET E : IsFiniteSet(S) /\ Cardinality(S) \in Nat
  BY FS_Subset, FS_CardinalityType
<1>2. 0 \in N
  BY <1>1, FS_EmptySet
<1>3. ASSUME NEW n \in Nat, n \in N PROVE n + 1 \in N
  <2>1. ASSUME NEW S \in SUBSET E, Cardinality(S) = n + 1 PROVE S \in T
    <3>1. ASSUME NEW e \in S PROVE S \ {e} \in T
      BY <1>1, <1>3, <2>1, FS_RemoveElement
    <3>. QED
      BY <3>1
  <2>. QED
    BY <2>1
<1>4. Nat \subseteq N
  <2>. HIDE DEF N
  <2>. QED
    BY <1>2, <1>3, SetInduction
<1>. QED
  BY <1>1, <1>4

-----------------------------------------------------------------------------
(* The fold of a window.                                                      *)
Positioned(E) ==
  /\ \A e \in E : e.position \in Nat \X Nat
  /\ \A e, f \in E : e.position = f.position => e = f

LEMMA LastExists ==
  ASSUME NEW E, IsFiniteSet(E), Positioned(E)
  PROVE  \A S \in SUBSET E :
           S # {} => LastOf(S) \in S /\ \A f \in S \ {LastOf(S)} : BeforePosition(f.position, LastOf(S).position)
<1>. DEFINE Latest(S, e) == \A f \in S : ~BeforePosition(e.position, f.position)
            T == {S \in SUBSET E : S # {} => \E e \in S : Latest(S, e)}
<1>1. ASSUME NEW S \in SUBSET E, \A e \in S : S \ {e} \in T PROVE S \in T
  <2>. SUFFICES ASSUME S # {} PROVE \E e \in S : Latest(S, e)
    OBVIOUS
  <2>1. PICK e \in S : TRUE
    OBVIOUS
  <2>2. CASE S \ {e} = {}
    <3>1. S = {e}
      BY <2>2
    <3>. QED
      BY <3>1 DEF Positioned, BeforePosition
  <2>3. CASE S \ {e} # {}
    <3>1. PICK f \in S \ {e} : Latest(S \ {e}, f)
      BY <1>1, <2>3
    <3>2. CASE BeforePosition(f.position, e.position)
      <4>1. \A g \in S \ {e} : ~BeforePosition(e.position, g.position)
        BY <3>1, <3>2 DEF Positioned, BeforePosition
      <4>2. ~BeforePosition(e.position, e.position)
        BY DEF Positioned, BeforePosition
      <4>. QED
        BY <4>1, <4>2
    <3>3. CASE ~BeforePosition(f.position, e.position)
      BY <3>1, <3>3
    <3>. QED
      BY <3>2, <3>3
  <2>. QED
    BY <2>2, <2>3
<1>2. \A S \in SUBSET E : S \in T
  <2>. HIDE DEF T
  <2>. QED
    BY <1>1, FiniteInduction
<1>3. ASSUME NEW S \in SUBSET E, S # {} PROVE LastOf(S) \in S /\ Latest(S, LastOf(S))
  BY <1>2, <1>3 DEF LastOf
<1>. QED
  BY <1>3 DEF Positioned, BeforePosition

(* One step of the fold, and that a function following it exists.             *)
Folded(g, ix, S) ==
  IF S = {} THEN ix ELSE FoldEvent(g[S \ {LastOf(S)}], LastOf(S))

IsFold(g, ix, E) ==
  /\ FoldWindow(ix, E) = g[E]
  /\ g[{}] = ix
  /\ \A S \in SUBSET E : S # {} => g[S] = FoldEvent(g[S \ {LastOf(S)}], LastOf(S))

LEMMA FoldWindowIs ==
  ASSUME NEW E, IsFiniteSet(E), Positioned(E), NEW ix
  PROVE  \E g : IsFold(g, ix, E)
<1>. DEFINE N == {n \in Nat : \E g : \A S \in SUBSET E : Cardinality(S) <= n => g[S] = Folded(g, ix, S)}
<1>1. \A S \in SUBSET E : IsFiniteSet(S) /\ Cardinality(S) \in Nat
  BY FS_Subset, FS_CardinalityType
<1>2. 0 \in N
  <2>. DEFINE g == [S \in SUBSET E |-> ix]
  <2>1. \A S \in SUBSET E : Cardinality(S) <= 0 => g[S] = Folded(g, ix, S)
    BY <1>1, FS_EmptySet DEF Folded
  <2>. QED
    BY <2>1
<1>3. ASSUME NEW n \in Nat, n \in N PROVE n + 1 \in N
  <2>1. PICK g : \A S \in SUBSET E : Cardinality(S) <= n => g[S] = Folded(g, ix, S)
    BY <1>3
  <2>. DEFINE h == [S \in SUBSET E |-> IF Cardinality(S) <= n THEN g[S] ELSE Folded(g, ix, S)]
  <2>2. ASSUME NEW S \in SUBSET E, Cardinality(S) <= n + 1 PROVE h[S] = Folded(h, ix, S)
    <3>1. h[S] = Folded(g, ix, S)
      BY <2>1
    <3>2. CASE S = {}
      BY <3>1, <3>2 DEF Folded
    <3>3. CASE S # {}
      <4>. DEFINE R == S \ {LastOf(S)}
      <4>1. R \in SUBSET E /\ Cardinality(R) <= n
        BY <1>1, <2>2, <3>3, LastExists, FS_RemoveElement
      <4>2. h[R] = g[R]
        BY <4>1
      <4>. QED
        BY <3>1, <3>3, <4>2 DEF Folded
    <3>. QED
      BY <3>2, <3>3
  <2>. HIDE DEF h
  <2>. QED
    BY <2>2
<1>4. Nat \subseteq N
  <2>. HIDE DEF N
  <2>. QED
    BY <1>2, <1>3, SetInduction
<1>5. PICK g : \A S \in SUBSET E : Cardinality(S) <= Cardinality(E) => g[S] = Folded(g, ix, S)
  <2>1. Cardinality(E) \in N
    BY <1>1, <1>4
  <2>. QED
    BY <2>1
<1>6. \A S \in SUBSET E : Cardinality(S) <= Cardinality(E)
  BY FS_Subset
<1>. DEFINE h == [S \in SUBSET E |-> g[S]]
<1>7. ASSUME NEW S \in SUBSET E PROVE h[S] = Folded(h, ix, S)
  <2>1. h[S] = Folded(g, ix, S) /\ S \ {LastOf(S)} \in SUBSET E
    BY <1>5, <1>6
  <2>. QED
    BY <2>1 DEF Folded
<1>. DEFINE body(f) ==
              [S \in SUBSET E |-> IF S = {} THEN ix ELSE FoldEvent(f[S \ {LastOf(S)}], LastOf(S))]
<1>8. h = body(h)
  <2>1. \A S \in SUBSET E : h[S] = body(h)[S]
    <3>. HIDE DEF h
    <3>. QED
      BY <1>7 DEF Folded
  <2>2. DOMAIN h = SUBSET E /\ h = [S \in SUBSET E |-> h[S]]
    OBVIOUS
  <2>. HIDE DEF h
  <2>. QED
    BY <2>1, <2>2
<1>9. \E f : f = body(f)
  <2>. HIDE DEF h, body
  <2>. QED
    BY <1>8
<1>. DEFINE k == CHOOSE f : f = body(f)
<1>10. k = body(k)
  <2>. HIDE DEF body
  <2>. QED
    BY <1>9
<1>11. FoldWindow(ix, E) = k[E]
  BY DEF FoldWindow
<1>12. k[{}] = ix /\ \A S \in SUBSET E : S # {} => k[S] = FoldEvent(k[S \ {LastOf(S)}], LastOf(S))
  <2>. HIDE DEF k
  <2>. QED
    BY <1>10
<1>. HIDE DEF k
<1>. QED
  BY <1>11, <1>12 DEF IsFold

-----------------------------------------------------------------------------
(* What a set of log records says.                                            *)
Places == Xs \X Ys

IsLog(log) ==
  \/ log.name \in {"VotingCreated", "Detail"} /\ log.voting \in Suggestions
  \/ log.name \in {"CategoryAdded", "ValueAdded"} /\ log.at \in Places
  \/ log.name = "VotingFinalized" /\ log.voting \in Suggestions /\ log.success \in BOOLEAN

Creates(e, s) == e.log.name = "VotingCreated" /\ e.log.voting = s
Details(e, s) == e.log.name = "Detail" /\ e.log.voting = s
Finalizes(e, s) == e.log.name = "VotingFinalized" /\ e.log.voting = s
Adds(e, name, at) == e.log.name = name /\ e.log.at = at
Applies(e, type) == e.log.name = "VotingFinalized" /\ e.log.success /\ e.log.voting.type = type

CategoriesIn(E, at) == {e \in E : Adds(e, "CategoryAdded", at)}
ValuesIn(E, at) == {e \in E : Adds(e, "ValueAdded", at)}
DecimalsIn(E, at) == {e \in E : Applies(e, "Decimals") /\ PlaceOf(e.log.voting) = at}
ThemesIn(E, header) == {e \in E : Applies(e, "Theme") /\ <<e.log.voting.kind, e.log.voting.x>> = header}
StatementsIn(E, header) ==
  {e \in E : Applies(e, "Statement") /\ <<e.log.voting.kind, e.log.voting.y>> = header}

(* e is after all others of T.                                                *)
IsLast(e, T) == e \in T /\ \A f \in T \ {e} : BeforePosition(f.position, e.position)

EntryOf(T, entry) ==
  \/ T = {} /\ entry = NoEntry
  \/ \E e \in T : IsLast(e, T) /\ entry = [text |-> e.log.voting.text, appliedAt |-> e.position]

TextOf(T, label) ==
  \/ T = {} /\ label = NoText
  \/ \E e \in T : IsLast(e, T) /\ label = e.log.voting.text

(* The records are in an order a chain may have: a voting is detailed once,   *)
(* finalized once, and detailed before it is finalized.                       *)
Ordered(E) ==
  /\ Positioned(E)
  /\ \A e \in E : IsLog(e.log)
  /\ \A e, f \in E, s \in Suggestions :
       \/ Creates(e, s) /\ Creates(f, s)
       \/ Details(e, s) /\ Details(f, s)
       \/ Finalizes(e, s) /\ Finalizes(f, s)
       => e = f
  /\ \A e \in E, s \in Suggestions :
       Finalizes(e, s) /\ IsGated(s) => \E d \in E : Details(d, s) /\ BeforePosition(d.position, e.position)

(* The index says what the events E say.                                      *)
IndexType(ix) ==
  /\ ix = [categorical |-> ix.categorical, numerical |-> ix.numerical, unattributed |-> ix.unattributed,
           themes |-> ix.themes, statements |-> ix.statements, awaiting |-> ix.awaiting]
  /\ ix.themes = [h \in Kinds \X Xs |-> ix.themes[h]] /\ ix.statements = [h \in Kinds \X Ys |-> ix.statements[h]]
  /\ ix.categorical \subseteq Places /\ ix.numerical \subseteq Places /\ ix.unattributed \subseteq Places
  /\ ix.awaiting \subseteq Suggestions

PlacesDeclared(ix, E) ==
  \A at \in Places :
    /\ at \in ix.categorical <=> CategoriesIn(E, at) # {}
    /\ at \in ix.numerical <=> DecimalsIn(E, at) # {}
    /\ at \in ix.unattributed <=> ValuesIn(E, at) # {} /\ CategoriesIn(E, at) = {} /\ DecimalsIn(E, at) = {}

LabelsDeclared(ix, E) ==
  /\ \A h \in Kinds \X Xs : EntryOf(ThemesIn(E, h), ix.themes[h])
  /\ \A h \in Kinds \X Ys : EntryOf(StatementsIn(E, h), ix.statements[h])

AwaitingDeclared(ix, E) ==
  \A s \in Suggestions :
    s \in ix.awaiting <=> IsGated(s) /\ (\E e \in E : Details(e, s)) /\ ~\E e \in E : Finalizes(e, s)

Declares(ix, E) ==
  IndexType(ix) /\ PlacesDeclared(ix, E) /\ LabelsDeclared(ix, E) /\ AwaitingDeclared(ix, E)

(* The matrices are what the log records E left of them.                      *)
MatriciesType(m) ==
  /\ m = [themes |-> m.themes, statements |-> m.statements, organs |-> m.organs,
          categories |-> m.categories, decimals |-> m.decimals, samples |-> m.samples]
  /\ m.themes = [h \in Kinds \X Xs |-> m.themes[h]] /\ m.statements = [h \in Kinds \X Ys |-> m.statements[h]]
  /\ m.organs = [c \in Cells |-> m.organs[c]] /\ m.samples = [c \in Cells |-> m.samples[c]]
  /\ m.categories = [at \in Places |-> m.categories[at]] /\ m.decimals = [at \in Places |-> m.decimals[at]]

BoundIn(m, k, at) == m.organs[<<k, at[1], at[2]>>] # NoOrgan

CellsBound(m) ==
  /\ \A at \in Places : m.categories[at] # {} => BoundIn(m, "CATEGORICAL", at)
  /\ \A at \in Places : m.decimals[at] # 0 => BoundIn(m, "NUMERICAL", at)
  /\ \A k \in Kinds, at \in Places : m.samples[<<k, at[1], at[2]>>] # << >> => BoundIn(m, k, at)

MatriciesFollow(m, E) ==
  /\ \A at \in Places :
       /\ m.categories[at] # {} <=> CategoriesIn(E, at) # {}
       /\ DecimalsIn(E, at) # {} => BoundIn(m, "NUMERICAL", at)
       /\ (\E k \in Kinds : BoundIn(m, k, at)) <=>
            CategoriesIn(E, at) # {} \/ DecimalsIn(E, at) # {} \/ ValuesIn(E, at) # {}
  /\ \A h \in Kinds \X Xs : TextOf(ThemesIn(E, h), m.themes[h])
  /\ \A h \in Kinds \X Ys : TextOf(StatementsIn(E, h), m.statements[h])

VotingsFollow(block, E) ==
  /\ block.open \subseteq Suggestions /\ block.ended \subseteq Suggestions /\ block.open \cap block.ended = {}
  /\ \A s \in Suggestions :
       /\ s \in block.open \cup block.ended <=> \E e \in E : Creates(e, s)
       /\ s \in block.open \cup block.ended <=> \E e \in E : Details(e, s)
       /\ s \in block.ended <=> \E e \in E : Finalizes(e, s)
  /\ \A e, f \in E, s \in Suggestions :
       Creates(e, s) /\ Details(f, s) => e.position[1] = f.position[1]

Follows(block, E) ==
  /\ Ordered(E)
  /\ MatriciesType(block.matricies) /\ CellsBound(block.matricies)
  /\ MatriciesFollow(block.matricies, E)
  /\ VotingsFollow(block, E)

-----------------------------------------------------------------------------
(* One more record.                                                           *)
LEMMA OneMore ==
  ASSUME NEW I, NEW e
  PROVE  /\ e.log.name # "CategoryAdded" => \A at : CategoriesIn(I \cup {e}, at) = CategoriesIn(I, at)
         /\ e.log.name # "ValueAdded" => \A at : ValuesIn(I \cup {e}, at) = ValuesIn(I, at)
         /\ ~Applies(e, "Decimals") => \A at : DecimalsIn(I \cup {e}, at) = DecimalsIn(I, at)
         /\ ~Applies(e, "Theme") => \A h : ThemesIn(I \cup {e}, h) = ThemesIn(I, h)
         /\ ~Applies(e, "Statement") => \A h : StatementsIn(I \cup {e}, h) = StatementsIn(I, h)
         /\ e.log.name # "Detail" =>
              \A s : (\E f \in I \cup {e} : Details(f, s)) <=> (\E f \in I : Details(f, s))
         /\ e.log.name # "VotingFinalized" =>
              \A s : (\E f \in I \cup {e} : Finalizes(f, s)) <=> (\E f \in I : Finalizes(f, s))
<1>1. e.log.name # "CategoryAdded" => \A at : CategoriesIn(I \cup {e}, at) = CategoriesIn(I, at)
  BY DEF CategoriesIn, Adds
<1>2. e.log.name # "ValueAdded" => \A at : ValuesIn(I \cup {e}, at) = ValuesIn(I, at)
  BY DEF ValuesIn, Adds
<1>3. ~Applies(e, "Decimals") => \A at : DecimalsIn(I \cup {e}, at) = DecimalsIn(I, at)
  BY DEF DecimalsIn
<1>4. ~Applies(e, "Theme") => \A h : ThemesIn(I \cup {e}, h) = ThemesIn(I, h)
  BY DEF ThemesIn
<1>5. ~Applies(e, "Statement") => \A h : StatementsIn(I \cup {e}, h) = StatementsIn(I, h)
  BY DEF StatementsIn
<1>6. e.log.name # "Detail" => \A s : (\E f \in I \cup {e} : Details(f, s)) <=> (\E f \in I : Details(f, s))
  BY DEF Details
<1>7. e.log.name # "VotingFinalized" =>
        \A s : (\E f \in I \cup {e} : Finalizes(f, s)) <=> (\E f \in I : Finalizes(f, s))
  BY DEF Finalizes
<1>. QED
  BY <1>1, <1>2, <1>3, <1>4, <1>5, <1>6, <1>7

(* A label applied after all others replaces the entry.                       *)
LEMMA EntryReplaced ==
  ASSUME NEW T, NEW e, e.position \in Nat \X Nat, \A f \in T : f.position \in Nat \X Nat,
         \A f \in T : BeforePosition(f.position, e.position),
         NEW old, EntryOf(T, old)
  PROVE  EntryOf(T \cup {e}, ReplaceIfLater(old, e.log.voting.text, e.position))
<1>1. ~BeforePosition(e.position, old.appliedAt)
  <2>1. CASE T = {} /\ old = NoEntry
    BY <2>1 DEF NoEntry, BeforePosition
  <2>2. ASSUME NEW f \in T, old = [text |-> f.log.voting.text, appliedAt |-> f.position]
        PROVE  ~BeforePosition(e.position, old.appliedAt)
    BY <2>2 DEF BeforePosition
  <2>. QED
    BY <2>1, <2>2 DEF EntryOf
<1>2. IsLast(e, T \cup {e})
  BY DEF IsLast
<1>. QED
  BY <1>1, <1>2 DEF ReplaceIfLater, EntryOf

LEMMA FoldStep ==
  ASSUME NEW E, Ordered(E), NEW I \in SUBSET E, NEW e \in E \ I,
         \A f \in I : BeforePosition(f.position, e.position),
         \A f \in E : BeforePosition(f.position, e.position) => f \in I,
         IsIndexEvent(e.log), NEW ix, Declares(ix, I)
  PROVE  Declares(FoldEvent(ix, e), I \cup {e})
<1>. DEFINE J == I \cup {e}
            next == FoldEvent(ix, e)
            s == e.log.voting
            at == e.log.at
<1>1. IsLog(e.log) /\ e.position \in Nat \X Nat /\ \A f \in I : f.position \in Nat \X Nat
  BY DEF Ordered, Positioned
<1>2. IndexType(ix) /\ PlacesDeclared(ix, I) /\ LabelsDeclared(ix, I) /\ AwaitingDeclared(ix, I)
  BY DEF Declares
<1>3. CASE e.log.name = "CategoryAdded"
  <2>1. at \in Places
    BY <1>1, <1>3 DEF IsLog
  <2>2. next = [[ix EXCEPT !.categorical = @ \cup {at}] EXCEPT !.unattributed = @ \ {at}]
    BY <1>3 DEF FoldEvent
  <2>. HIDE DEF next
  <2>3. /\ IndexType(next) /\ next.awaiting = ix.awaiting /\ next.numerical = ix.numerical
        /\ next.themes = ix.themes /\ next.statements = ix.statements
        /\ next.categorical = ix.categorical \cup {at} /\ next.unattributed = ix.unattributed \ {at}
    BY <1>2, <2>1, <2>2 DEF IndexType
  <2>4. /\ \A a : ValuesIn(J, a) = ValuesIn(I, a) /\ DecimalsIn(J, a) = DecimalsIn(I, a)
        /\ \A h : ThemesIn(J, h) = ThemesIn(I, h) /\ StatementsIn(J, h) = StatementsIn(I, h)
        /\ \A t : (\E f \in J : Details(f, t)) <=> (\E f \in I : Details(f, t))
        /\ \A t : (\E f \in J : Finalizes(f, t)) <=> (\E f \in I : Finalizes(f, t))
    BY <1>3, OneMore DEF Applies
  <2>5. \A a : CategoriesIn(J, a) # {} <=> CategoriesIn(I, a) # {} \/ a = at
    BY <1>3 DEF CategoriesIn, Adds
  <2>. HIDE DEF J, at
  <2>6. PlacesDeclared(next, J)
    BY <1>2, <2>3, <2>4, <2>5 DEF PlacesDeclared
  <2>7. LabelsDeclared(next, J)
    BY <1>2, <2>3, <2>4 DEF LabelsDeclared
  <2>8. AwaitingDeclared(next, J)
    BY <1>2, <2>3, <2>4 DEF AwaitingDeclared
  <2>. QED
    BY <2>3, <2>6, <2>7, <2>8 DEF Declares, J, next
<1>4. CASE e.log.name = "ValueAdded"
  <2>1. at \in Places
    BY <1>1, <1>4 DEF IsLog
  <2>2. next = IF IsAttributed(ix, at) THEN ix ELSE [ix EXCEPT !.unattributed = @ \cup {at}]
    BY <1>4 DEF FoldEvent
  <2>. HIDE DEF next
  <2>3. /\ IndexType(next) /\ next.awaiting = ix.awaiting /\ next.numerical = ix.numerical
        /\ next.themes = ix.themes /\ next.statements = ix.statements
        /\ next.categorical = ix.categorical
        /\ next.unattributed = IF IsAttributed(ix, at) THEN ix.unattributed ELSE ix.unattributed \cup {at}
    BY <1>2, <2>1, <2>2 DEF IndexType
  <2>4. /\ \A a : CategoriesIn(J, a) = CategoriesIn(I, a) /\ DecimalsIn(J, a) = DecimalsIn(I, a)
        /\ \A h : ThemesIn(J, h) = ThemesIn(I, h) /\ StatementsIn(J, h) = StatementsIn(I, h)
        /\ \A t : (\E f \in J : Details(f, t)) <=> (\E f \in I : Details(f, t))
        /\ \A t : (\E f \in J : Finalizes(f, t)) <=> (\E f \in I : Finalizes(f, t))
    BY <1>4, OneMore DEF Applies
  <2>5. \A a : ValuesIn(J, a) # {} <=> ValuesIn(I, a) # {} \/ a = at
    BY <1>4 DEF ValuesIn, Adds
  <2>. HIDE DEF J, at
  <2>6. PlacesDeclared(next, J)
    BY <1>2, <2>1, <2>3, <2>4, <2>5 DEF PlacesDeclared, IsAttributed
  <2>7. LabelsDeclared(next, J)
    BY <1>2, <2>3, <2>4 DEF LabelsDeclared
  <2>8. AwaitingDeclared(next, J)
    BY <1>2, <2>3, <2>4 DEF AwaitingDeclared
  <2>. QED
    BY <2>3, <2>6, <2>7, <2>8 DEF Declares, J, next
<1>5. CASE e.log.name = "Detail"
  <2>1. s \in Suggestions /\ IsGated(s)
    BY <1>1, <1>5 DEF IsLog, IsIndexEvent
  <2>2. next = [ix EXCEPT !.awaiting = @ \cup {s}]
    BY <1>5 DEF FoldEvent
  <2>. HIDE DEF next
  <2>3. /\ IndexType(next) /\ next.awaiting = ix.awaiting \cup {s} /\ next.numerical = ix.numerical
        /\ next.themes = ix.themes /\ next.statements = ix.statements
        /\ next.categorical = ix.categorical /\ next.unattributed = ix.unattributed
    BY <1>2, <2>1, <2>2 DEF IndexType
  <2>4. /\ \A a : CategoriesIn(J, a) = CategoriesIn(I, a) /\ DecimalsIn(J, a) = DecimalsIn(I, a)
                  /\ ValuesIn(J, a) = ValuesIn(I, a)
        /\ \A h : ThemesIn(J, h) = ThemesIn(I, h) /\ StatementsIn(J, h) = StatementsIn(I, h)
        /\ \A t : (\E f \in J : Finalizes(f, t)) <=> (\E f \in I : Finalizes(f, t))
    BY <1>5, OneMore DEF Applies
  <2>5. \A t : (\E f \in J : Details(f, t)) <=> (\E f \in I : Details(f, t)) \/ t = s
    BY <1>5 DEF Details
  <2>6. ~\E f \in I : Finalizes(f, s)
    <3>. SUFFICES ASSUME NEW f \in I, Finalizes(f, s) PROVE FALSE
      OBVIOUS
    <3>1. PICK d \in E : Details(d, s) /\ BeforePosition(d.position, f.position)
      BY <2>1 DEF Ordered
    <3>2. d = e
      BY <1>5, <2>1, <3>1 DEF Ordered, Details
    <3>. QED
      BY <1>1, <3>1, <3>2 DEF BeforePosition
  <2>. HIDE DEF J, s
  <2>7. PlacesDeclared(next, J)
    BY <1>2, <2>3, <2>4 DEF PlacesDeclared
  <2>8. LabelsDeclared(next, J)
    BY <1>2, <2>3, <2>4 DEF LabelsDeclared
  <2>9. AwaitingDeclared(next, J)
    BY <1>2, <2>1, <2>3, <2>4, <2>5, <2>6 DEF AwaitingDeclared
  <2>. QED
    BY <2>3, <2>7, <2>8, <2>9 DEF Declares, J, next
<1>6. CASE e.log.name = "VotingFinalized"
  <2>1. s \in Suggestions /\ e.log.success \in BOOLEAN /\ IsSuggestion(s)
    BY <1>1, <1>6, ReportAssumption DEF IsLog
  <2>2. Finalizes(e, s) /\ ~\E f \in I : Finalizes(f, s)
    BY <1>6, <2>1 DEF Finalizes, Ordered
  <2>3. /\ \A a : CategoriesIn(J, a) = CategoriesIn(I, a) /\ ValuesIn(J, a) = ValuesIn(I, a)
        /\ \A t : (\E f \in J : Details(f, t)) <=> (\E f \in I : Details(f, t))
    BY <1>6, OneMore
  <2>4. \A t : (\E f \in J : Finalizes(f, t)) <=> (\E f \in I : Finalizes(f, t)) \/ t = s
    BY <1>6 DEF Finalizes
  <2>5. s \in ix.awaiting <=> IsGated(s)
    <3>1. ASSUME IsGated(s) PROVE \E d \in I : Details(d, s)
      BY <2>1, <2>2, <3>1 DEF Ordered
    <3>. QED
      BY <1>2, <2>1, <2>2, <3>1 DEF AwaitingDeclared
  <2>. DEFINE settled == [ix EXCEPT !.awaiting = @ \ {s}]
  <2>6. settled = [ix EXCEPT !.awaiting = @ \ {s}]
    OBVIOUS
  <2>7. next = IF s \in ix.awaiting
               THEN IF e.log.success THEN ApplyProposal(settled, s, e.position) ELSE settled
               ELSE ix
    BY <1>6 DEF FoldEvent
  <2>. HIDE DEF next, settled
  <2>8. /\ IndexType(settled) /\ settled.awaiting = ix.awaiting \ {s} /\ settled.numerical = ix.numerical
       /\ settled.themes = ix.themes /\ settled.statements = ix.statements
       /\ settled.categorical = ix.categorical /\ settled.unattributed = ix.unattributed
    BY <1>2, <2>6 DEF IndexType
  <2>9. ASSUME next.awaiting = ix.awaiting \ {s} PROVE AwaitingDeclared(next, J)
    <3>. HIDE DEF J, s
    <3>. QED
      BY <1>2, <2>1, <2>3, <2>4, <2>5, <2>9 DEF AwaitingDeclared
  <2>10. CASE ~e.log.success \/ ~IsGated(s)
    <3>1. IndexType(next) /\ next.awaiting = ix.awaiting \ {s} /\ next.numerical = ix.numerical
          /\ next.themes = ix.themes /\ next.statements = ix.statements
          /\ next.categorical = ix.categorical /\ next.unattributed = ix.unattributed
      BY <1>2, <2>5, <2>7, <2>8, <2>10
    <3>2. /\ \A a : DecimalsIn(J, a) = DecimalsIn(I, a)
          /\ \A h : ThemesIn(J, h) = ThemesIn(I, h) /\ StatementsIn(J, h) = StatementsIn(I, h)
      BY <2>10, OneMore DEF Applies, IsGated
    <3>. HIDE DEF J, s
    <3>3. PlacesDeclared(next, J)
      BY <1>2, <2>3, <3>1, <3>2 DEF PlacesDeclared
    <3>4. LabelsDeclared(next, J)
      BY <1>2, <3>1, <3>2 DEF LabelsDeclared
    <3>. QED
      BY <2>9, <3>1, <3>3, <3>4 DEF Declares, J, next
  <2>11. CASE e.log.success /\ s.type = "Decimals"
    <3>. DEFINE p == PlaceOf(s)
    <3>1. next = [[settled EXCEPT !.numerical = @ \cup {p}] EXCEPT !.unattributed = @ \ {p}]
      BY <2>5, <2>7, <2>11 DEF IsGated, ApplyProposal, PlaceOf
    <3>2. p \in Places
      BY <2>1, <2>11 DEF IsSuggestion, WritesCell, PlaceOf, Places
    <3>3. \A a : DecimalsIn(J, a) # {} <=> DecimalsIn(I, a) # {} \/ a = p
      BY <1>6, <2>11 DEF DecimalsIn, Applies
    <3>. HIDE DEF p
    <3>4. IndexType(next) /\ next.awaiting = ix.awaiting \ {s} /\ next.numerical = ix.numerical \cup {p}
          /\ next.themes = ix.themes /\ next.statements = ix.statements
          /\ next.categorical = ix.categorical /\ next.unattributed = ix.unattributed \ {p}
      BY <2>8, <3>1, <3>2 DEF IndexType
    <3>5. \A h : ThemesIn(J, h) = ThemesIn(I, h) /\ StatementsIn(J, h) = StatementsIn(I, h)
      BY <2>11, OneMore DEF Applies
    <3>. HIDE DEF J, s
    <3>6. PlacesDeclared(next, J)
      BY <1>2, <2>3, <3>2, <3>3, <3>4 DEF PlacesDeclared
    <3>7. LabelsDeclared(next, J)
      BY <1>2, <3>4, <3>5 DEF LabelsDeclared
    <3>. QED
      BY <2>9, <3>4, <3>6, <3>7 DEF Declares, J, next
  <2>12. CASE e.log.success /\ s.type = "Theme"
    <3>. DEFINE g == <<s.kind, s.x>>
                entry == ReplaceIfLater(ix.themes[g], s.text, e.position)
    <3>1. next = [settled EXCEPT !.themes = [settled.themes EXCEPT ![g] = ReplaceIfLater(@, s.text, e.position)]]
      BY <2>5, <2>7, <2>12 DEF IsGated, ApplyProposal
    <3>2. g \in Kinds \X Xs
      BY <2>1, <2>12 DEF IsSuggestion, WritesCell
    <3>3. \A h : ThemesIn(J, h) = IF h = g THEN ThemesIn(I, h) \cup {e} ELSE ThemesIn(I, h)
      BY <1>6, <2>12 DEF ThemesIn, Applies
    <3>4. EntryOf(ThemesIn(I, g) \cup {e}, entry)
      <4>1. EntryOf(ThemesIn(I, g), ix.themes[g]) /\ ThemesIn(I, g) \subseteq I
        BY <1>2, <3>2 DEF LabelsDeclared, ThemesIn
      <4>. QED
        BY <1>1, <4>1, EntryReplaced
    <3>. HIDE DEF g
    <3>5. /\ IndexType(next) /\ next.awaiting = ix.awaiting \ {s} /\ next.numerical = ix.numerical
          /\ next.statements = ix.statements
          /\ next.themes = [ix.themes EXCEPT ![g] = entry]
          /\ next.categorical = ix.categorical /\ next.unattributed = ix.unattributed
      BY <2>8, <3>1, <3>2 DEF IndexType
    <3>6. \A h \in Kinds \X Xs : next.themes[h] = IF h = g THEN entry ELSE ix.themes[h]
      <4>. HIDE DEF entry
      <4>. QED
        BY <1>2, <3>2, <3>5 DEF IndexType
    <3>7. /\ \A h : StatementsIn(J, h) = StatementsIn(I, h)
          /\ \A a : DecimalsIn(J, a) = DecimalsIn(I, a)
      BY <2>12, OneMore DEF Applies
    <3>. HIDE DEF J, s, entry
    <3>8. PlacesDeclared(next, J)
      BY <1>2, <2>3, <3>5, <3>7 DEF PlacesDeclared
    <3>9. LabelsDeclared(next, J)
      BY <1>2, <3>3, <3>4, <3>5, <3>6, <3>7 DEF LabelsDeclared
    <3>. QED
      BY <2>9, <3>5, <3>8, <3>9 DEF Declares, J, next
  <2>13. CASE e.log.success /\ s.type = "Statement"
    <3>. DEFINE g == <<s.kind, s.y>>
                entry == ReplaceIfLater(ix.statements[g], s.text, e.position)
    <3>1. next = [settled EXCEPT !.statements = [settled.statements EXCEPT ![g] = ReplaceIfLater(@, s.text, e.position)]]
      BY <2>5, <2>7, <2>13 DEF IsGated, ApplyProposal
    <3>2. g \in Kinds \X Ys
      BY <2>1, <2>13 DEF IsSuggestion, WritesCell
    <3>3. \A h : StatementsIn(J, h) = IF h = g THEN StatementsIn(I, h) \cup {e} ELSE StatementsIn(I, h)
      BY <1>6, <2>13 DEF StatementsIn, Applies
    <3>4. EntryOf(StatementsIn(I, g) \cup {e}, entry)
      <4>1. EntryOf(StatementsIn(I, g), ix.statements[g]) /\ StatementsIn(I, g) \subseteq I
        BY <1>2, <3>2 DEF LabelsDeclared, StatementsIn
      <4>. QED
        BY <1>1, <4>1, EntryReplaced
    <3>. HIDE DEF g
    <3>5. /\ IndexType(next) /\ next.awaiting = ix.awaiting \ {s} /\ next.numerical = ix.numerical
          /\ next.themes = ix.themes
          /\ next.statements = [ix.statements EXCEPT ![g] = entry]
          /\ next.categorical = ix.categorical /\ next.unattributed = ix.unattributed
      BY <2>8, <3>1, <3>2 DEF IndexType
    <3>6. \A h \in Kinds \X Ys : next.statements[h] = IF h = g THEN entry ELSE ix.statements[h]
      <4>. HIDE DEF entry
      <4>. QED
        BY <1>2, <3>2, <3>5 DEF IndexType
    <3>7. /\ \A h : ThemesIn(J, h) = ThemesIn(I, h)
          /\ \A a : DecimalsIn(J, a) = DecimalsIn(I, a)
      BY <2>13, OneMore DEF Applies
    <3>. HIDE DEF J, s, entry
    <3>8. PlacesDeclared(next, J)
      BY <1>2, <2>3, <3>5, <3>7 DEF PlacesDeclared
    <3>9. LabelsDeclared(next, J)
      BY <1>2, <3>3, <3>4, <3>5, <3>6, <3>7 DEF LabelsDeclared
    <3>. QED
      BY <2>9, <3>5, <3>8, <3>9 DEF Declares, J, next
  <2>. QED
    BY <2>1, <2>10, <2>11, <2>12, <2>13 DEF IsGated
<1>. QED
  BY <1>3, <1>4, <1>5, <1>6 DEF IsIndexEvent

(* The fold of later events, after it an index of all of them.                *)
LEMMA WindowFolded ==
  ASSUME NEW E, Ordered(E), \A e \in E : IsIndexEvent(e.log),
         NEW W \in SUBSET E, IsFiniteSet(W),
         \A e \in E \ W, f \in W : BeforePosition(e.position, f.position),
         NEW ix, Declares(ix, E \ W)
  PROVE  Declares(FoldWindow(ix, W), E)
<1>1. Positioned(E) /\ Positioned(W)
  BY DEF Ordered, Positioned
<1>2. PICK g : IsFold(g, ix, W)
  BY <1>1, FoldWindowIs
<1>. DEFINE Initial(S) == \A e \in S, f \in W : BeforePosition(f.position, e.position) => f \in S
            T == {S \in SUBSET W : Initial(S) => Declares(g[S], (E \ W) \cup S)}
<1>3. ASSUME NEW S \in SUBSET W, \A e \in S : S \ {e} \in T PROVE S \in T
  <2>. SUFFICES ASSUME Initial(S) PROVE Declares(g[S], (E \ W) \cup S)
    OBVIOUS
  <2>1. CASE S = {}
    BY <1>2, <2>1 DEF IsFold
  <2>2. CASE S # {}
    <3>. DEFINE e == LastOf(S)
                R == S \ {e}
                I == (E \ W) \cup R
    <3>1. e \in S /\ \A f \in R : BeforePosition(f.position, e.position)
      BY <1>1, <2>2, LastExists
    <3>2. g[S] = FoldEvent(g[R], e)
      BY <1>2, <2>2 DEF IsFold
    <3>. HIDE DEF e
    <3>3. Initial(R)
      <4>. SUFFICES ASSUME NEW d \in R, NEW f \in W, BeforePosition(f.position, d.position) PROVE f \in R
        OBVIOUS
      <4>1. f \in S /\ BeforePosition(d.position, e.position)
        BY <3>1
      <4>2. f # e
        BY <1>1, <3>1, <4>1 DEF Positioned, BeforePosition
      <4>. QED
        BY <4>1, <4>2
    <3>4. Declares(g[R], I)
      BY <1>3, <3>1, <3>3
    <3>5. /\ I \in SUBSET E /\ e \in E \ I
          /\ \A f \in I : BeforePosition(f.position, e.position)
      BY <3>1
    <3>6. \A f \in E : BeforePosition(f.position, e.position) => f \in I
      <4>. SUFFICES ASSUME NEW f \in E, BeforePosition(f.position, e.position), f \in W PROVE f \in R
        OBVIOUS
      <4>1. f \in S
        BY <3>1
      <4>2. f # e
        BY <1>1 DEF Positioned, BeforePosition
      <4>. QED
        BY <4>1, <4>2
    <3>7. Declares(FoldEvent(g[R], e), I \cup {e})
      <4>. HIDE DEF R, I
      <4>. QED
        BY <3>4, <3>5, <3>6, FoldStep
    <3>8. I \cup {e} = (E \ W) \cup S
      BY <3>1
    <3>. QED
      BY <3>2, <3>7, <3>8
  <2>. QED
    BY <2>1, <2>2
<1>4. \A S \in SUBSET W : S \in T
  <2>. HIDE DEF T
  <2>. QED
    BY <1>3, FiniteInduction
<1>5. Declares(g[W], (E \ W) \cup W)
  BY <1>4
<1>6. (E \ W) \cup W = E
  OBVIOUS
<1>. QED
  BY <1>2, <1>5, <1>6 DEF IsFold

-----------------------------------------------------------------------------
(* What a transaction does to the block.                                      *)
Logs ==
  [name : {"VotingCreated", "Detail"}, voting : Suggestions]
  \cup [name : {"CategoryAdded", "ValueAdded"}, at : Places]
  \cup [name : {"VotingFinalized"}, voting : Suggestions, success : BOOLEAN]

BlockType(b) ==
  /\ b = [transactions |-> b.transactions, logs |-> b.logs, matricies |-> b.matricies,
          open |-> b.open, ended |-> b.ended]
  /\ b.transactions \in Seq(Transactions) /\ b.logs \in Seq(Logs)

RecordsOf(b, n) == {[position |-> <<n, i>>, log |-> b.logs[i]] : i \in DOMAIN b.logs}

(* Records of blocks before n.                                                *)
Earlier(E, n) == \A e \in E : e.position \in (Nat \X Nat) /\ e.position[1] < n

LEMMA LogsAreLogs ==
  ASSUME NEW log \in Logs
  PROVE  IsLog(log)
BY DEF Logs, IsLog

LEMMA SuggestionsAre ==
  ASSUME NEW s \in Suggestions
  PROVE  IsSuggestion(s)
BY ReportAssumption

(* Records added to a block are after all others.                             *)
Grown(E, b, c, n, more) ==
  /\ E \cup RecordsOf(c, n) =
       E \cup RecordsOf(b, n) \cup {[position |-> <<n, Len(b.logs) + i>>, log |-> more[i]] : i \in 1..Len(more)}
  /\ \A e \in E \cup RecordsOf(b, n), i \in 1..Len(more) :
       /\ <<n, Len(b.logs) + i>> \in Nat \X Nat
       /\ BeforePosition(e.position, <<n, Len(b.logs) + i>>)

LEMMA RecordsGrow ==
  ASSUME NEW E, NEW n \in Nat, Earlier(E, n), NEW b, b.logs \in Seq(Logs),
         NEW c, NEW more \in Seq(Logs), c.logs = b.logs \o more
  PROVE  Grown(E, b, c, n, more)
<1>1. /\ DOMAIN c.logs = 1..(Len(b.logs) + Len(more)) /\ DOMAIN b.logs = 1..Len(b.logs)
      /\ \A i \in 1..Len(b.logs) : c.logs[i] = b.logs[i]
      /\ \A i \in 1..Len(more) : c.logs[Len(b.logs) + i] = more[i]
      /\ Len(b.logs) \in Nat /\ Len(more) \in Nat
  BY ConcatProperties, LenProperties
<1>2. RecordsOf(c, n) = RecordsOf(b, n) \cup {[position |-> <<n, Len(b.logs) + i>>, log |-> more[i]] : i \in 1..Len(more)}
  <2>1. ASSUME NEW i \in DOMAIN c.logs, i \notin DOMAIN b.logs
        PROVE  \E j \in 1..Len(more) : i = Len(b.logs) + j
    <3>1. i - Len(b.logs) \in 1..Len(more) /\ i = Len(b.logs) + (i - Len(b.logs))
      BY <1>1, <2>1, SMTT(20)
    <3>. QED
      BY <3>1
  <2>2. \A i \in DOMAIN c.logs :
          \/ i \in DOMAIN b.logs /\ c.logs[i] = b.logs[i]
          \/ \E j \in 1..Len(more) : i = Len(b.logs) + j /\ c.logs[i] = more[j]
    BY <1>1, <2>1
  <2>3. \A i \in DOMAIN b.logs : i \in DOMAIN c.logs /\ c.logs[i] = b.logs[i]
    BY <1>1
  <2>4. \A j \in 1..Len(more) : Len(b.logs) + j \in DOMAIN c.logs /\ c.logs[Len(b.logs) + j] = more[j]
    BY <1>1
  <2>. DEFINE M == {[position |-> <<n, Len(b.logs) + i>>, log |-> more[i]] : i \in 1..Len(more)}
  <2>5. ASSUME NEW r \in RecordsOf(c, n) PROVE r \in RecordsOf(b, n) \cup M
    <3>1. PICK i \in DOMAIN c.logs : r = [position |-> <<n, i>>, log |-> c.logs[i]]
      BY <2>5 DEF RecordsOf
    <3>2. CASE i \in DOMAIN b.logs /\ c.logs[i] = b.logs[i]
      BY <3>1, <3>2 DEF RecordsOf
    <3>3. CASE \E j \in 1..Len(more) : i = Len(b.logs) + j /\ c.logs[i] = more[j]
      BY <3>1, <3>3
    <3>. QED
      BY <2>2, <3>2, <3>3
  <2>6. ASSUME NEW r \in RecordsOf(b, n) PROVE r \in RecordsOf(c, n)
    BY <2>3, <2>6 DEF RecordsOf
  <2>7. ASSUME NEW r \in M PROVE r \in RecordsOf(c, n)
    BY <2>4, <2>7 DEF RecordsOf
  <2>. HIDE DEF M
  <2>. QED
    BY <2>5, <2>6, <2>7 DEF M
<1>3. ASSUME NEW e \in E \cup RecordsOf(b, n), NEW i \in 1..Len(more)
      PROVE  <<n, Len(b.logs) + i>> \in Nat \X Nat /\ BeforePosition(e.position, <<n, Len(b.logs) + i>>)
  <2>1. CASE e \in E
    BY <1>1, <2>1 DEF Earlier, BeforePosition
  <2>2. CASE e \in RecordsOf(b, n)
    <3>1. PICK j \in DOMAIN b.logs : e.position = <<n, j>>
      BY <2>2 DEF RecordsOf
    <3>. QED
      BY <1>1, <3>1 DEF BeforePosition
  <2>. QED
    BY <2>1, <2>2
<1>. QED
  BY <1>2, <1>3 DEF Grown

(* A record after all others keeps an order.                                  *)
LEMMA OrderedMore ==
  ASSUME NEW E, Ordered(E), NEW e, IsLog(e.log), e.position \in Nat \X Nat,
         \A f \in E : BeforePosition(f.position, e.position),
         \A f \in E, s \in Suggestions :
           ~(Creates(f, s) /\ Creates(e, s)) /\ ~(Details(f, s) /\ Details(e, s)) /\ ~(Finalizes(f, s) /\ Finalizes(e, s)),
         \A s \in Suggestions : Finalizes(e, s) => \E d \in E : Details(d, s)
  PROVE  Ordered(E \cup {e})
<1>1. \A f \in E : f.position # e.position
  BY DEF Ordered, Positioned, BeforePosition
<1>2. Positioned(E \cup {e})
  BY <1>1 DEF Ordered, Positioned
<1>3. \A f \in E \cup {e} : IsLog(f.log)
  BY DEF Ordered
<1>4. \A f, g \in E \cup {e}, s \in Suggestions :
        \/ Creates(f, s) /\ Creates(g, s)
        \/ Details(f, s) /\ Details(g, s)
        \/ Finalizes(f, s) /\ Finalizes(g, s)
        => f = g
  BY DEF Ordered
<1>5. \A f \in E \cup {e}, s \in Suggestions :
        Finalizes(f, s) /\ IsGated(s) => \E d \in E \cup {e} : Details(d, s) /\ BeforePosition(d.position, f.position)
  BY DEF Ordered
<1>. QED
  BY <1>2, <1>3, <1>4, <1>5 DEF Ordered

(* A record that says nothing of the matrices.                                *)
LEMMA MatriciesUntold ==
  ASSUME NEW m, NEW E, MatriciesFollow(m, E), NEW e,
         e.log.name \notin {"CategoryAdded", "ValueAdded"},
         ~Applies(e, "Decimals"), ~Applies(e, "Theme"), ~Applies(e, "Statement")
  PROVE  MatriciesFollow(m, E \cup {e})
<1>1. /\ \A at : /\ CategoriesIn(E \cup {e}, at) = CategoriesIn(E, at)
                 /\ DecimalsIn(E \cup {e}, at) = DecimalsIn(E, at)
                 /\ ValuesIn(E \cup {e}, at) = ValuesIn(E, at)
      /\ \A h : ThemesIn(E \cup {e}, h) = ThemesIn(E, h) /\ StatementsIn(E \cup {e}, h) = StatementsIn(E, h)
  BY OneMore
<1>. QED
  BY <1>1 DEF MatriciesFollow

(* A voting is created.                                                       *)
LEMMA CreatedFollows ==
  ASSUME NEW E, NEW n \in Nat, Earlier(E, n), NEW b, BlockType(b),
         NEW s \in Suggestions, s \notin b.open \cup b.ended,
         Follows(b, E \cup RecordsOf(b, n))
  PROVE  /\ BlockType(Created(b, s)) /\ Created(b, s).transactions = b.transactions
         /\ Follows(Created(b, s), E \cup RecordsOf(Created(b, s), n))
<1>. DEFINE c == Created(b, s)
            A == E \cup RecordsOf(b, n)
            more == CreationLogs(s)
            p(i) == <<n, Len(b.logs) + i>>
            d == [position |-> p(1), log |-> more[1]]
            f == [position |-> p(2), log |-> more[2]]
<1>1. /\ more \in Seq(Logs) /\ Len(more) = 2
      /\ more[1] = [name |-> "VotingCreated", voting |-> s] /\ more[2] = [name |-> "Detail", voting |-> s]
  BY DEF CreationLogs, Logs
<1>. HIDE DEF more
<1>2. /\ c.logs = b.logs \o more /\ c.open = b.open \cup {s} /\ c.ended = b.ended
      /\ c.matricies = b.matricies /\ c.transactions = b.transactions /\ BlockType(c)
  <2>1. c = [[b EXCEPT !.logs = @ \o more] EXCEPT !.open = @ \cup {s}]
    BY DEF Created, more
  <2>2. b.logs \o more \in Seq(Logs)
    BY <1>1, ConcatProperties DEF BlockType
  <2>. HIDE DEF c
  <2>. QED
    BY <2>1, <2>2 DEF BlockType
<1>. HIDE DEF c
<1>3. /\ E \cup RecordsOf(c, n) = (A \cup {d}) \cup {f}
      /\ p(1) \in Nat \X Nat /\ p(2) \in Nat \X Nat
      /\ \A e \in A : BeforePosition(e.position, p(1)) /\ BeforePosition(e.position, p(2))
  <2>1. /\ E \cup RecordsOf(c, n) = A \cup {[position |-> p(i), log |-> more[i]] : i \in 1..Len(more)}
        /\ \A e \in A, i \in 1..Len(more) : p(i) \in Nat \X Nat /\ BeforePosition(e.position, p(i))
    <3>1. Grown(E, b, c, n, more)
      BY <1>1, <1>2, RecordsGrow DEF BlockType
    <3>. QED
      BY <3>1 DEF Grown
  <2>2. 1..Len(more) = {1, 2}
    BY <1>1
  <2>3. {[position |-> p(i), log |-> more[i]] : i \in {1, 2}} = {d, f}
    OBVIOUS
  <2>4. \A i \in {1, 2} : p(i) \in Nat \X Nat
    BY LenProperties DEF BlockType
  <2>. HIDE DEF A, d, f, p
  <2>. QED
    BY <2>1, <2>2, <2>3, <2>4
<1>4. /\ d.log.name = "VotingCreated" /\ d.log.voting = s /\ d.position = p(1)
      /\ f.log.name = "Detail" /\ f.log.voting = s /\ f.position = p(2)
      /\ d.log \in Logs /\ f.log \in Logs
      /\ d.position[1] = f.position[1]
  <2>1. more[1] \in Logs /\ more[2] \in Logs
    BY <1>1 DEF Logs
  <2>. QED
    BY <1>1, <2>1
<1>5. BeforePosition(p(1), p(2))
  BY LenProperties DEF BeforePosition, BlockType
<1>. HIDE DEF A, d, f, p
<1>6. Ordered(A) /\ VotingsFollow(b, A) /\ MatriciesFollow(b.matricies, A)
  BY DEF Follows, A
<1>7. Ordered(A \cup {d})
  <2>1. \A e \in A, t \in Suggestions : ~(Creates(e, t) /\ Creates(d, t))
    BY <1>4, <1>6 DEF VotingsFollow, Creates
  <2>2. \A e \in A, t \in Suggestions : ~(Details(e, t) /\ Details(d, t)) /\ ~(Finalizes(e, t) /\ Finalizes(d, t))
    BY <1>4 DEF Details, Finalizes
  <2>3. \A t \in Suggestions : ~Finalizes(d, t)
    BY <1>4 DEF Finalizes
  <2>4. IsLog(d.log)
    BY <1>4, LogsAreLogs
  <2>. QED
    BY <1>3, <1>4, <1>6, <2>1, <2>2, <2>3, <2>4, OrderedMore
<1>8. Ordered((A \cup {d}) \cup {f})
  <2>1. \A e \in A \cup {d}, t \in Suggestions : ~(Details(e, t) /\ Details(f, t))
    BY <1>4, <1>6 DEF VotingsFollow, Details
  <2>2. \A e \in A \cup {d}, t \in Suggestions : ~(Creates(e, t) /\ Creates(f, t)) /\ ~(Finalizes(e, t) /\ Finalizes(f, t))
    BY <1>4 DEF Creates, Finalizes
  <2>3. \A t \in Suggestions : ~Finalizes(f, t)
    BY <1>4 DEF Finalizes
  <2>4. IsLog(f.log)
    BY <1>4, LogsAreLogs
  <2>5. \A e \in A \cup {d} : BeforePosition(e.position, f.position)
    BY <1>3, <1>4, <1>5
  <2>. QED
    BY <1>3, <1>4, <1>7, <2>1, <2>2, <2>3, <2>4, <2>5, OrderedMore
<1>9. MatriciesFollow(b.matricies, (A \cup {d}) \cup {f})
  <2>1. MatriciesFollow(b.matricies, A \cup {d})
    BY <1>4, <1>6, MatriciesUntold DEF Applies
  <2>. QED
    BY <1>4, <2>1, MatriciesUntold DEF Applies
<1>10. VotingsFollow(c, (A \cup {d}) \cup {f})
  <2>. DEFINE B == (A \cup {d}) \cup {f}
  <2>1. c.open \subseteq Suggestions /\ c.ended \subseteq Suggestions /\ c.open \cap c.ended = {}
    BY <1>2, <1>6 DEF VotingsFollow
  <2>2. \A t \in Suggestions : (\E e \in B : Creates(e, t)) <=> (\E e \in A : Creates(e, t)) \/ t = s
    BY <1>4 DEF Creates
  <2>3. \A t \in Suggestions : (\E e \in B : Details(e, t)) <=> (\E e \in A : Details(e, t)) \/ t = s
    BY <1>4 DEF Details
  <2>4. \A t \in Suggestions : (\E e \in B : Finalizes(e, t)) <=> (\E e \in A : Finalizes(e, t))
    BY <1>4 DEF Finalizes
  <2>5. ASSUME NEW e \in B, NEW g \in B, NEW t \in Suggestions, Creates(e, t), Details(g, t)
        PROVE  e.position[1] = g.position[1]
    <3>1. CASE t = s
      <4>1. e = d
        BY <1>4, <1>6, <2>5, <3>1 DEF VotingsFollow, Creates
      <4>2. g = f
        BY <1>4, <1>6, <2>5, <3>1 DEF VotingsFollow, Details
      <4>. QED
        BY <1>4, <4>1, <4>2
    <3>2. CASE t # s
      <4>1. e \in A /\ g \in A
        BY <1>4, <2>5, <3>2 DEF Creates, Details
      <4>. QED
        BY <1>6, <2>5, <4>1 DEF VotingsFollow
    <3>. QED
      BY <3>1, <3>2
  <2>. HIDE DEF B
  <2>. QED
    BY <1>2, <1>6, <2>1, <2>2, <2>3, <2>4, <2>5 DEF VotingsFollow, B
<1>. QED
  BY <1>2, <1>3, <1>8, <1>9, <1>10 DEF Follows, c

-----------------------------------------------------------------------------
(* A suggestion is applied, and e is the record that tells of it.             *)
Tells(e, s) ==
  CASE s.type = "Category" -> Adds(e, "CategoryAdded", PlaceOf(s))
    [] s.type \in {"CategoricalValue", "NumericalValue"} -> Adds(e, "ValueAdded", PlaceOf(s))
    [] OTHER -> Finalizes(e, s) /\ e.log.success

(* A label applied after all others is the label.                             *)
LEMMA TextReplaced ==
  ASSUME NEW T, NEW e, \A f \in T : BeforePosition(f.position, e.position)
  PROVE  TextOf(T \cup {e}, e.log.voting.text)
BY DEF TextOf, IsLast

LEMMA ThemeApplied ==
  ASSUME NEW m, MatriciesType(m), CellsBound(m), NEW E, MatriciesFollow(m, E), NEW s \in Suggestions, NEW now,
         NEW e, \A f \in E : BeforePosition(f.position, e.position), Tells(e, s), s.type = "Theme"
  PROVE  MatriciesType(Applied(m, s, now)) /\ CellsBound(Applied(m, s, now))
         /\ MatriciesFollow(Applied(m, s, now), E \cup {e})
<1>. DEFINE q == Applied(m, s, now)
            g == <<s.kind, s.x>>
            J == E \cup {e}
<1>1. g \in Kinds \X Xs
  BY SuggestionsAre DEF IsSuggestion, WritesCell
<1>2. q = [m EXCEPT !.themes = [m.themes EXCEPT ![g] = s.text]]
  BY DEF Applied
<1>3. e.log.name = "VotingFinalized" /\ e.log.voting = s /\ e.log.success
  BY DEF Tells, Finalizes
<1>4. \A h : ThemesIn(J, h) = IF h = g THEN ThemesIn(E, h) \cup {e} ELSE ThemesIn(E, h)
  BY <1>3 DEF ThemesIn, Applies
<1>. HIDE DEF q, g
<1>5. /\ MatriciesType(q) /\ q.statements = m.statements /\ q.organs = m.organs
      /\ q.categories = m.categories /\ q.decimals = m.decimals /\ q.samples = m.samples
      /\ q.themes = [m.themes EXCEPT ![g] = s.text]
  BY <1>1, <1>2 DEF MatriciesType
<1>6. \A h \in Kinds \X Xs : q.themes[h] = IF h = g THEN s.text ELSE m.themes[h]
  BY <1>1, <1>5 DEF MatriciesType
<1>7. CellsBound(q)
  BY <1>5 DEF CellsBound, BoundIn
<1>8. /\ \A at : /\ CategoriesIn(J, at) = CategoriesIn(E, at)
                 /\ DecimalsIn(J, at) = DecimalsIn(E, at)
                 /\ ValuesIn(J, at) = ValuesIn(E, at)
      /\ \A h : StatementsIn(J, h) = StatementsIn(E, h)
  BY <1>3, OneMore DEF Applies
<1>9. TextOf(ThemesIn(E, g) \cup {e}, s.text)
  BY <1>3, TextReplaced DEF ThemesIn
<1>. HIDE DEF J
<1>10. \A h \in Kinds \X Xs : TextOf(ThemesIn(J, h), q.themes[h])
  BY <1>4, <1>6, <1>9 DEF MatriciesFollow
<1>11. MatriciesFollow(q, J)
  BY <1>5, <1>8, <1>10 DEF MatriciesFollow, BoundIn
<1>. QED
  BY <1>5, <1>7, <1>11 DEF q, J

LEMMA StatementApplied ==
  ASSUME NEW m, MatriciesType(m), CellsBound(m), NEW E, MatriciesFollow(m, E), NEW s \in Suggestions, NEW now,
         NEW e, \A f \in E : BeforePosition(f.position, e.position), Tells(e, s), s.type = "Statement"
  PROVE  MatriciesType(Applied(m, s, now)) /\ CellsBound(Applied(m, s, now))
         /\ MatriciesFollow(Applied(m, s, now), E \cup {e})
<1>. DEFINE q == Applied(m, s, now)
            g == <<s.kind, s.y>>
            J == E \cup {e}
<1>1. g \in Kinds \X Ys
  BY SuggestionsAre DEF IsSuggestion, WritesCell
<1>2. q = [m EXCEPT !.statements = [m.statements EXCEPT ![g] = s.text]]
  BY DEF Applied
<1>3. e.log.name = "VotingFinalized" /\ e.log.voting = s /\ e.log.success
  BY DEF Tells, Finalizes
<1>4. \A h : StatementsIn(J, h) = IF h = g THEN StatementsIn(E, h) \cup {e} ELSE StatementsIn(E, h)
  BY <1>3 DEF StatementsIn, Applies
<1>. HIDE DEF q, g
<1>5. /\ MatriciesType(q) /\ q.themes = m.themes /\ q.organs = m.organs
      /\ q.categories = m.categories /\ q.decimals = m.decimals /\ q.samples = m.samples
      /\ q.statements = [m.statements EXCEPT ![g] = s.text]
  BY <1>1, <1>2 DEF MatriciesType
<1>6. \A h \in Kinds \X Ys : q.statements[h] = IF h = g THEN s.text ELSE m.statements[h]
  BY <1>1, <1>5 DEF MatriciesType
<1>7. CellsBound(q)
  BY <1>5 DEF CellsBound, BoundIn
<1>8. /\ \A at : /\ CategoriesIn(J, at) = CategoriesIn(E, at)
                 /\ DecimalsIn(J, at) = DecimalsIn(E, at)
                 /\ ValuesIn(J, at) = ValuesIn(E, at)
      /\ \A h : ThemesIn(J, h) = ThemesIn(E, h)
  BY <1>3, OneMore DEF Applies
<1>9. TextOf(StatementsIn(E, g) \cup {e}, s.text)
  BY <1>3, TextReplaced DEF StatementsIn
<1>. HIDE DEF J
<1>10. \A h \in Kinds \X Ys : TextOf(StatementsIn(J, h), q.statements[h])
  BY <1>4, <1>6, <1>9 DEF MatriciesFollow
<1>11. MatriciesFollow(q, J)
  BY <1>5, <1>8, <1>10 DEF MatriciesFollow, BoundIn
<1>. QED
  BY <1>5, <1>7, <1>11 DEF q, J

(* A write binds its cell and leaves what else is in it to the type.          *)
LEMMA CellWritten ==
  ASSUME NEW m, MatriciesType(m), NEW s \in Suggestions, WritesCell(s), NEW now, NEW q, q = Applied(m, s, now)
  PROVE  /\ MatriciesType(q) /\ q.themes = m.themes /\ q.statements = m.statements
         /\ PlaceOf(s) \in Places /\ KindOf(s) \in Kinds
         /\ \A k \in Kinds, at \in Places :
              BoundIn(q, k, at) <=> BoundIn(m, k, at) \/ (k = KindOf(s) /\ at = PlaceOf(s))
         /\ s.type = "Category" => q.categories[PlaceOf(s)] # {}
         /\ \A at \in Places : q.categories[at] # m.categories[at] => s.type = "Category" /\ at = PlaceOf(s)
         /\ \A at \in Places : q.decimals[at] # m.decimals[at] => s.type = "Decimals" /\ at = PlaceOf(s)
         /\ \A k \in Kinds, at \in Places :
              q.samples[<<k, at[1], at[2]>>] # m.samples[<<k, at[1], at[2]>>] => k = KindOf(s) /\ at = PlaceOf(s)
<1>. DEFINE r == Bound(m, s)
            c == CellOf(s)
            p == PlaceOf(s)
<1>1. s.x \in Xs /\ s.y \in Ys /\ s.organ # NoOrgan /\ KindOf(s) \in Kinds
  BY SuggestionsAre DEF IsSuggestion, WritesCell, KindOf, Kinds
<1>2. p \in Places /\ c \in Cells /\ c = <<KindOf(s), p[1], p[2]>>
  BY <1>1 DEF PlaceOf, CellOf, Places, Cells
<1>3. r = [m EXCEPT !.organs = [m.organs EXCEPT ![c] = s.organ]]
  BY DEF Bound
<1>4. q = CASE s.type = "Category" -> [r EXCEPT !.categories = [r.categories EXCEPT ![p] = @ \cup {s.value}]]
            [] s.type = "Decimals" -> [r EXCEPT !.decimals = [r.decimals EXCEPT ![p] = s.value]]
            [] s.type \in {"CategoricalValue", "NumericalValue"} ->
                 [r EXCEPT !.samples = [r.samples EXCEPT ![c] = Push(@, now, s.value)]]
  BY DEF Applied, WritesCell
<1>. HIDE DEF r, c, p
<1>5. /\ MatriciesType(r) /\ r.themes = m.themes /\ r.statements = m.statements
      /\ r.organs = [m.organs EXCEPT ![c] = s.organ]
      /\ r.categories = m.categories /\ r.decimals = m.decimals /\ r.samples = m.samples
  BY <1>2, <1>3 DEF MatriciesType
<1>6. /\ MatriciesType(q) /\ q.themes = r.themes /\ q.statements = r.statements /\ q.organs = r.organs
      /\ s.type # "Category" => q.categories = r.categories
      /\ s.type = "Category" => q.categories = [r.categories EXCEPT ![p] = @ \cup {s.value}]
      /\ s.type # "Decimals" => q.decimals = r.decimals
      /\ s.type = "Decimals" => q.decimals = [r.decimals EXCEPT ![p] = s.value]
      /\ q.samples = r.samples \/ \E v : q.samples = [r.samples EXCEPT ![c] = v]
  <2>1. CASE s.type = "Category"
    <3>1. q = [r EXCEPT !.categories = [r.categories EXCEPT ![p] = @ \cup {s.value}]]
      BY <1>4, <2>1
    <3>2. /\ MatriciesType(q) /\ q.themes = r.themes /\ q.statements = r.statements /\ q.organs = r.organs
          /\ q.samples = r.samples /\ q.decimals = r.decimals
          /\ q.categories = [r.categories EXCEPT ![p] = @ \cup {s.value}]
      BY <1>2, <1>5, <3>1 DEF MatriciesType
    <3>. QED
      BY <2>1, <3>2
  <2>2. CASE s.type = "Decimals"
    <3>1. q = [r EXCEPT !.decimals = [r.decimals EXCEPT ![p] = s.value]]
      BY <1>4, <2>2
    <3>2. /\ MatriciesType(q) /\ q.themes = r.themes /\ q.statements = r.statements /\ q.organs = r.organs
          /\ q.samples = r.samples /\ q.categories = r.categories
          /\ q.decimals = [r.decimals EXCEPT ![p] = s.value]
      BY <1>2, <1>5, <3>1 DEF MatriciesType
    <3>. QED
      BY <2>2, <3>2
  <2>3. CASE s.type \in {"CategoricalValue", "NumericalValue"}
    <3>1. q = [r EXCEPT !.samples = [r.samples EXCEPT ![c] = Push(@, now, s.value)]]
      BY <1>4, <2>3
    <3>2. /\ MatriciesType(q) /\ q.themes = r.themes /\ q.statements = r.statements /\ q.organs = r.organs
          /\ q.categories = r.categories /\ q.decimals = r.decimals
          /\ \E v : q.samples = [r.samples EXCEPT ![c] = v]
      <4>1. PICK v : q = [r EXCEPT !.samples = [r.samples EXCEPT ![c] = v]]
        BY <3>1
      <4>2. /\ MatriciesType(q) /\ q.themes = r.themes /\ q.statements = r.statements /\ q.organs = r.organs
            /\ q.categories = r.categories /\ q.decimals = r.decimals
            /\ q.samples = [r.samples EXCEPT ![c] = v]
        BY <1>2, <1>5, <4>1 DEF MatriciesType
      <4>. QED
        BY <4>2
    <3>. QED
      BY <2>3, <3>2
  <2>. QED
    BY <2>1, <2>2, <2>3 DEF WritesCell
<1>7. /\ m.organs = [d \in Cells |-> m.organs[d]] /\ m.samples = [d \in Cells |-> m.samples[d]]
      /\ m.categories = [at \in Places |-> m.categories[at]] /\ m.decimals = [at \in Places |-> m.decimals[at]]
  BY DEF MatriciesType
<1>8. \A k \in Kinds, at \in Places :
        BoundIn(q, k, at) <=> BoundIn(m, k, at) \/ (k = KindOf(s) /\ at = p)
  <2>. SUFFICES ASSUME NEW k \in Kinds, NEW at \in Places
                PROVE  BoundIn(q, k, at) <=> BoundIn(m, k, at) \/ (k = KindOf(s) /\ at = p)
    OBVIOUS
  <2>1. <<k, at[1], at[2]>> \in Cells /\ (<<k, at[1], at[2]>> = c <=> k = KindOf(s) /\ at = p)
    BY <1>2 DEF Cells, Places
  <2>. QED
    BY <1>1, <1>5, <1>6, <1>7, <2>1 DEF BoundIn
<1>9. \A at \in Places : q.categories[at] = IF s.type = "Category" /\ at = p
                                            THEN m.categories[at] \cup {s.value} ELSE m.categories[at]
  <2>1. CASE s.type # "Category"
    BY <1>5, <1>6, <2>1
  <2>2. CASE s.type = "Category"
    <3>1. q.categories = [m.categories EXCEPT ![p] = m.categories[p] \cup {s.value}]
      BY <1>5, <1>6, <2>2
    <3>. QED
      BY <1>2, <1>7, <2>2, <3>1
  <2>. QED
    BY <2>1, <2>2
<1>10. \A at \in Places : q.decimals[at] # m.decimals[at] => s.type = "Decimals" /\ at = p
  BY <1>2, <1>5, <1>6, <1>7
<1>11. \A k \in Kinds, at \in Places :
         q.samples[<<k, at[1], at[2]>>] # m.samples[<<k, at[1], at[2]>>] => k = KindOf(s) /\ at = p
  <2>. SUFFICES ASSUME NEW k \in Kinds, NEW at \in Places, ~(k = KindOf(s) /\ at = p)
                PROVE  q.samples[<<k, at[1], at[2]>>] = m.samples[<<k, at[1], at[2]>>]
    OBVIOUS
  <2>1. <<k, at[1], at[2]>> \in Cells /\ <<k, at[1], at[2]>> # c
    BY <1>2 DEF Cells, Places
  <2>2. CASE q.samples = m.samples
    BY <2>2
  <2>3. ASSUME NEW v, q.samples = [m.samples EXCEPT ![c] = v]
        PROVE  q.samples[<<k, at[1], at[2]>>] = m.samples[<<k, at[1], at[2]>>]
    BY <1>7, <2>1, <2>3
  <2>4. q.samples = m.samples \/ \E v : q.samples = [m.samples EXCEPT ![c] = v]
    <3>1. q.samples = r.samples \/ \E v : q.samples = [r.samples EXCEPT ![c] = v]
      BY <1>6
    <3>2. r.samples = m.samples
      BY <1>5
    <3>. QED
      BY <3>1, <3>2
  <2>. QED
    BY <2>2, <2>3, <2>4
<1>. QED
  BY <1>1, <1>2, <1>5, <1>6, <1>8, <1>9, <1>10, <1>11 DEF p

LEMMA WriteApplied ==
  ASSUME NEW m, MatriciesType(m), CellsBound(m), NEW E, MatriciesFollow(m, E), NEW s \in Suggestions, NEW now,
         NEW e, Tells(e, s), WritesCell(s), NEW q, q = Applied(m, s, now)
  PROVE  MatriciesType(q) /\ CellsBound(q) /\ MatriciesFollow(q, E \cup {e})
<1>. DEFINE p == PlaceOf(s)
            J == E \cup {e}
<1>1. /\ MatriciesType(q) /\ q.themes = m.themes /\ q.statements = m.statements
      /\ p \in Places /\ KindOf(s) \in Kinds
  BY CellWritten
<1>2. \A k \in Kinds, at \in Places : BoundIn(q, k, at) <=> BoundIn(m, k, at) \/ (k = KindOf(s) /\ at = p)
  BY CellWritten
<1>3. /\ s.type = "Category" => q.categories[p] # {}
      /\ \A at \in Places : q.categories[at] # m.categories[at] => s.type = "Category" /\ at = p
  BY CellWritten
<1>4. \A at \in Places : q.decimals[at] # m.decimals[at] => s.type = "Decimals" /\ at = p
  BY CellWritten
<1>5. \A k \in Kinds, at \in Places :
        q.samples[<<k, at[1], at[2]>>] # m.samples[<<k, at[1], at[2]>>] => k = KindOf(s) /\ at = p
  BY CellWritten
<1>6. /\ s.type = "Category" => KindOf(s) = "CATEGORICAL"
      /\ s.type = "Decimals" => KindOf(s) = "NUMERICAL"
      /\ "CATEGORICAL" \in Kinds /\ "NUMERICAL" \in Kinds
  BY DEF KindOf, Kinds
<1>7. CellsBound(q)
  <2>1. \A at \in Places : q.categories[at] # {} => BoundIn(q, "CATEGORICAL", at)
    BY <1>2, <1>3, <1>6 DEF CellsBound
  <2>2. \A at \in Places : q.decimals[at] # 0 => BoundIn(q, "NUMERICAL", at)
    BY <1>2, <1>4, <1>6 DEF CellsBound
  <2>3. \A k \in Kinds, at \in Places : q.samples[<<k, at[1], at[2]>>] # << >> => BoundIn(q, k, at)
    BY <1>2, <1>5 DEF CellsBound
  <2>. QED
    BY <2>1, <2>2, <2>3 DEF CellsBound
<1>8. \A h : ThemesIn(J, h) = ThemesIn(E, h) /\ StatementsIn(J, h) = StatementsIn(E, h)
  <2>1. ~Applies(e, "Theme") /\ ~Applies(e, "Statement")
    BY DEF Tells, WritesCell, Applies, Finalizes, Adds
  <2>. QED
    BY <2>1, OneMore
<1>9. \A at \in Places : CategoriesIn(J, at) # {} <=> CategoriesIn(E, at) # {} \/ (s.type = "Category" /\ at = p)
  BY DEF Tells, WritesCell, CategoriesIn, Adds, Finalizes
<1>10. \A at \in Places : DecimalsIn(J, at) # {} <=> DecimalsIn(E, at) # {} \/ (s.type = "Decimals" /\ at = p)
  BY DEF Tells, WritesCell, DecimalsIn, Adds, Finalizes, Applies
<1>11. \A at \in Places :
         ValuesIn(J, at) # {} <=>
           ValuesIn(E, at) # {} \/ (s.type \in {"CategoricalValue", "NumericalValue"} /\ at = p)
  BY DEF Tells, WritesCell, ValuesIn, Adds, Finalizes
<1>. HIDE DEF J, p
<1>12. ASSUME NEW at \in Places
       PROVE  /\ q.categories[at] # {} <=> CategoriesIn(J, at) # {}
              /\ DecimalsIn(J, at) # {} => BoundIn(q, "NUMERICAL", at)
              /\ (\E k \in Kinds : BoundIn(q, k, at)) <=>
                   CategoriesIn(J, at) # {} \/ DecimalsIn(J, at) # {} \/ ValuesIn(J, at) # {}
  <2>1. q.categories[at] # {} <=> CategoriesIn(J, at) # {}
    BY <1>3, <1>9 DEF MatriciesFollow
  <2>2. DecimalsIn(J, at) # {} => BoundIn(q, "NUMERICAL", at)
    BY <1>2, <1>6, <1>10 DEF MatriciesFollow
  <2>3. (\E k \in Kinds : BoundIn(q, k, at)) <=> (\E k \in Kinds : BoundIn(m, k, at)) \/ at = p
    BY <1>1, <1>2
  <2>4. (\E k \in Kinds : BoundIn(q, k, at)) <=>
          CategoriesIn(J, at) # {} \/ DecimalsIn(J, at) # {} \/ ValuesIn(J, at) # {}
    BY <1>9, <1>10, <1>11, <2>3 DEF MatriciesFollow, WritesCell
  <2>. QED
    BY <2>1, <2>2, <2>4
<1>13. MatriciesFollow(q, J)
  BY <1>1, <1>8, <1>12 DEF MatriciesFollow
<1>. QED
  BY <1>1, <1>7, <1>13 DEF J

LEMMA AppliedFollows ==
  ASSUME NEW m, MatriciesType(m), CellsBound(m), NEW E, MatriciesFollow(m, E), NEW s \in Suggestions, NEW now,
         NEW e, \A f \in E : BeforePosition(f.position, e.position), Tells(e, s)
  PROVE  MatriciesType(Applied(m, s, now)) /\ CellsBound(Applied(m, s, now))
         /\ MatriciesFollow(Applied(m, s, now), E \cup {e})
<1>1. s.type = "Theme" \/ s.type = "Statement" \/ WritesCell(s)
  BY SuggestionsAre DEF IsSuggestion
<1>. QED
  BY <1>1, ThemeApplied, StatementApplied, WriteApplied

LEMMA VotingsUntold ==
  ASSUME NEW b, NEW E, VotingsFollow(b, E), NEW e, e.log.name \in {"CategoryAdded", "ValueAdded"}
  PROVE  VotingsFollow(b, E \cup {e})
<1>1. \A s : ~Creates(e, s) /\ ~Details(e, s) /\ ~Finalizes(e, s)
  BY DEF Creates, Details, Finalizes
<1>. QED
  BY <1>1 DEF VotingsFollow

LEMMA VotingsEnded ==
  ASSUME NEW b, NEW E, VotingsFollow(b, E), NEW s \in b.open, NEW e, Finalizes(e, s),
         NEW c, c.open = b.open \ {s}, c.ended = b.ended \cup {s}
  PROVE  VotingsFollow(c, E \cup {e})
<1>1. \A t : ~Creates(e, t) /\ ~Details(e, t) /\ (Finalizes(e, t) <=> t = s)
  BY DEF Creates, Details, Finalizes
<1>2. c.open \cup c.ended = b.open \cup b.ended /\ c.open \subseteq Suggestions /\ c.ended \subseteq Suggestions
      /\ c.open \cap c.ended = {}
  BY DEF VotingsFollow
<1>. QED
  BY <1>1, <1>2 DEF VotingsFollow

(* A voting ends.                                                             *)
LEMMA EndedFollows ==
  ASSUME NEW E, NEW n \in Nat, Earlier(E, n), NEW b, BlockType(b),
         NEW s \in Suggestions, s \in b.open, NEW success \in BOOLEAN, NEW now,
         Follows(b, E \cup RecordsOf(b, n)),
         NEW c, c = Ended(b, s, success, now)
  PROVE  /\ BlockType(c) /\ c.transactions = b.transactions
         /\ Follows(c, E \cup RecordsOf(c, n))
<1>. DEFINE A == E \cup RecordsOf(b, n)
            more == FinalizationLogs(s, success)
            final == [name |-> "VotingFinalized", voting |-> s, success |-> success]
            q == IF success THEN Applied(b.matricies, s, now) ELSE b.matricies
            p(i) == <<n, Len(b.logs) + i>>
            isCell == s.type \in {"Category", "CategoricalValue", "NumericalValue"}
            applied == [name |-> IF s.type = "Category" THEN "CategoryAdded" ELSE "ValueAdded", at |-> PlaceOf(s)]
<1>1. IsSuggestion(s) /\ final \in Logs /\ IsLog(final)
  BY SuggestionsAre, LogsAreLogs DEF Logs
<1>2. isCell => applied \in Logs
  <2>1. isCell => PlaceOf(s) \in Places
    BY <1>1 DEF IsSuggestion, WritesCell, PlaceOf, Places
  <2>. QED
    BY <2>1 DEF Logs
<1>3. CASE success /\ isCell
  <2>1. /\ more \in Seq(Logs) /\ Len(more) = 2 /\ more[1] = applied /\ more[2] = final
    <3>1. AppliedLogs(s) = << applied >>
      BY <1>3 DEF AppliedLogs, PlaceOf
    <3>2. more = << applied >> \o << final >>
      BY <1>3, <3>1, Zenon DEF FinalizationLogs
    <3>. HIDE DEF more, applied, final
    <3>. DEFINE u == << applied >>
                v == << final >>
    <3>3. /\ u \in Seq(Logs) /\ Len(u) = 1 /\ u[1] = applied
          /\ v \in Seq(Logs) /\ Len(v) = 1 /\ v[1] = final
      BY <1>1, <1>2, <1>3
    <3>4. more = u \o v
      BY <3>2
    <3>. HIDE DEF u, v
    <3>. QED
      BY <3>3, <3>4, ConcatProperties
  <2>. DEFINE a == [position |-> p(1), log |-> more[1]]
              f == [position |-> p(2), log |-> more[2]]
  <2>. HIDE DEF more
  <2>2. /\ c.logs = b.logs \o more /\ c.open = b.open \ {s} /\ c.ended = b.ended \cup {s}
        /\ c.matricies = Applied(b.matricies, s, now) /\ c.transactions = b.transactions /\ BlockType(c)
    <3>1. c = [[[[b EXCEPT !.logs = @ \o more] EXCEPT !.matricies = Applied(b.matricies, s, now)]
                  EXCEPT !.open = @ \ {s}] EXCEPT !.ended = @ \cup {s}]
      BY <1>3 DEF Ended, more, BlockType
    <3>2. b.logs \o more \in Seq(Logs)
      BY <2>1, ConcatProperties DEF BlockType
    <3>. QED
      BY <3>1, <3>2 DEF BlockType
  <2>3. /\ E \cup RecordsOf(c, n) = (A \cup {a}) \cup {f}
        /\ p(1) \in Nat \X Nat /\ p(2) \in Nat \X Nat
        /\ \A e \in A : BeforePosition(e.position, p(1)) /\ BeforePosition(e.position, p(2))
    <3>1. /\ E \cup RecordsOf(c, n) = A \cup {[position |-> p(i), log |-> more[i]] : i \in 1..Len(more)}
          /\ \A e \in A, i \in 1..Len(more) : p(i) \in Nat \X Nat /\ BeforePosition(e.position, p(i))
      <4>1. b.logs \in Seq(Logs) /\ c.logs = b.logs \o more /\ more \in Seq(Logs)
        BY <2>1, <2>2 DEF BlockType
      <4>2. Grown(E, b, c, n, more)
        BY <4>1, RecordsGrow
      <4>. QED
        BY <4>2 DEF Grown
    <3>2. 1..Len(more) = {1, 2}
      BY <2>1
    <3>3. {[position |-> p(i), log |-> more[i]] : i \in {1, 2}} = {a, f}
      OBVIOUS
    <3>4. \A i \in {1, 2} : p(i) \in Nat \X Nat
      BY LenProperties DEF BlockType
    <3>. HIDE DEF A, a, f, p
    <3>. QED
      BY <3>1, <3>2, <3>3, <3>4
  <2>4. BeforePosition(p(1), p(2))
    BY LenProperties DEF BeforePosition, BlockType
  <2>5. a.position = p(1) /\ a.log = applied /\ f.position = p(2) /\ f.log = final
    BY <2>1
  <2>. HIDE DEF A, a, f, p
  <2>6. Ordered(A) /\ VotingsFollow(b, A) /\ MatriciesFollow(b.matricies, A)
        /\ MatriciesType(b.matricies) /\ CellsBound(b.matricies)
    BY DEF Follows, A
  <2>7. a.log.name \in {"CategoryAdded", "ValueAdded"} /\ Tells(a, s) /\ WritesCell(s)
    BY <1>3, <2>5 DEF Tells, Adds, WritesCell
  <2>8. Finalizes(f, s) /\ \A t : Finalizes(f, t) => t = s
    BY <2>5 DEF Finalizes
  <2>9. Ordered(A \cup {a})
    <3>1. IsLog(a.log)
      BY <1>2, <1>3, <2>5, LogsAreLogs
    <3>2. \A t : ~Creates(a, t) /\ ~Details(a, t) /\ ~Finalizes(a, t)
      BY <2>7 DEF Creates, Details, Finalizes
    <3>. QED
      BY <2>3, <2>5, <2>6, <3>1, <3>2, OrderedMore
  <2>10. VotingsFollow(b, A \cup {a})
    BY <2>6, <2>7, VotingsUntold
  <2>11. Ordered((A \cup {a}) \cup {f})
    <3>1. \A e \in A \cup {a} : ~Finalizes(e, s)
      BY <2>10 DEF VotingsFollow
    <3>2. \A t : ~Creates(f, t) /\ ~Details(f, t)
      BY <2>5 DEF Creates, Details
    <3>3. \E d \in A \cup {a} : Details(d, s)
      BY <2>10 DEF VotingsFollow
    <3>4. \A e \in A \cup {a} : BeforePosition(e.position, f.position)
      BY <2>3, <2>4, <2>5
    <3>. QED
      BY <1>1, <2>3, <2>5, <2>8, <2>9, <3>1, <3>2, <3>3, <3>4, OrderedMore, SMTT(20)
  <2>12. VotingsFollow(c, (A \cup {a}) \cup {f})
    BY <2>2, <2>8, <2>10, VotingsEnded
  <2>13. MatriciesType(c.matricies) /\ CellsBound(c.matricies) /\ MatriciesFollow(c.matricies, A \cup {a})
    BY <2>2, <2>6, <2>7, WriteApplied
  <2>14. MatriciesFollow(c.matricies, (A \cup {a}) \cup {f})
    <3>1. f.log.name = "VotingFinalized" /\ f.log.voting = s
      BY <2>5
    <3>2. ~Applies(f, "Decimals") /\ ~Applies(f, "Theme") /\ ~Applies(f, "Statement")
      BY <1>3, <3>1 DEF Applies
    <3>. QED
      BY <2>13, <3>1, <3>2, MatriciesUntold
  <2>. QED
    BY <2>2, <2>3, <2>11, <2>12, <2>13, <2>14 DEF Follows
<1>4. CASE ~success \/ ~isCell
  <2>1. /\ more \in Seq(Logs) /\ Len(more) = 1 /\ more[1] = final
    <3>1. (IF success THEN AppliedLogs(s) ELSE << >>) = << >>
      BY <1>4 DEF AppliedLogs
    <3>2. more = << >> \o << final >>
      BY <3>1, Zenon DEF FinalizationLogs
    <3>. HIDE DEF more, final
    <3>3. << final >> \in Seq(Logs) /\ << >> \in Seq(Logs)
      BY <1>1
    <3>. QED
      BY <3>2, <3>3, ConcatProperties
  <2>. DEFINE f == [position |-> p(1), log |-> more[1]]
  <2>. HIDE DEF more, q
  <2>2. /\ c.logs = b.logs \o more /\ c.open = b.open \ {s} /\ c.ended = b.ended \cup {s}
        /\ c.matricies = q /\ c.transactions = b.transactions /\ BlockType(c)
    <3>1. c = [[[[b EXCEPT !.logs = @ \o more] EXCEPT !.matricies = q]
                  EXCEPT !.open = @ \ {s}] EXCEPT !.ended = @ \cup {s}]
      BY DEF Ended, more, q, BlockType
    <3>2. b.logs \o more \in Seq(Logs)
      BY <2>1, ConcatProperties DEF BlockType
    <3>. QED
      BY <3>1, <3>2 DEF BlockType
  <2>3. /\ E \cup RecordsOf(c, n) = A \cup {f}
        /\ p(1) \in Nat \X Nat
        /\ \A e \in A : BeforePosition(e.position, p(1))
    <3>1. /\ E \cup RecordsOf(c, n) = A \cup {[position |-> p(i), log |-> more[i]] : i \in 1..Len(more)}
          /\ \A e \in A, i \in 1..Len(more) : p(i) \in Nat \X Nat /\ BeforePosition(e.position, p(i))
      <4>1. b.logs \in Seq(Logs) /\ c.logs = b.logs \o more /\ more \in Seq(Logs)
        BY <2>1, <2>2 DEF BlockType
      <4>2. Grown(E, b, c, n, more)
        BY <4>1, RecordsGrow
      <4>. QED
        BY <4>2 DEF Grown
    <3>2. 1..Len(more) = {1}
      BY <2>1
    <3>3. {[position |-> p(i), log |-> more[i]] : i \in {1}} = {f}
      OBVIOUS
    <3>4. p(1) \in Nat \X Nat
      BY LenProperties DEF BlockType
    <3>. HIDE DEF A, f, p
    <3>. QED
      BY <3>1, <3>2, <3>3, <3>4
  <2>4. f.position = p(1) /\ f.log = final
    BY <2>1
  <2>. HIDE DEF A, f, p
  <2>5. Ordered(A) /\ VotingsFollow(b, A) /\ MatriciesFollow(b.matricies, A)
        /\ MatriciesType(b.matricies) /\ CellsBound(b.matricies)
    BY DEF Follows, A
  <2>6. Finalizes(f, s) /\ \A t : Finalizes(f, t) => t = s
    BY <2>4 DEF Finalizes
  <2>7. Ordered(A \cup {f})
    <3>1. \A e \in A : ~Finalizes(e, s)
      BY <2>5 DEF VotingsFollow
    <3>2. \A t : ~Creates(f, t) /\ ~Details(f, t)
      BY <2>4 DEF Creates, Details
    <3>3. \E d \in A : Details(d, s)
      BY <2>5 DEF VotingsFollow
    <3>. QED
      BY <1>1, <2>3, <2>4, <2>5, <2>6, <3>1, <3>2, <3>3, OrderedMore
  <2>8. VotingsFollow(c, A \cup {f})
    BY <2>2, <2>5, <2>6, VotingsEnded
  <2>9. MatriciesType(q) /\ CellsBound(q) /\ MatriciesFollow(q, A \cup {f})
    <3>1. CASE success
      <4>1. Tells(f, s)
        BY <1>4, <2>4, <2>6, <3>1 DEF Tells
      <4>. QED
        BY <2>3, <2>4, <2>5, <3>1, <4>1, AppliedFollows DEF q
    <3>2. CASE ~success
      <4>1. f.log.name = "VotingFinalized" /\ ~f.log.success
        BY <2>4, <3>2
      <4>. QED
        BY <2>5, <3>2, <4>1, MatriciesUntold DEF q, Applies
    <3>. QED
      BY <3>1, <3>2
  <2>. QED
    BY <2>2, <2>3, <2>7, <2>8, <2>9 DEF Follows
<1>. QED
  BY <1>3, <1>4

-----------------------------------------------------------------------------
(* The chain.                                                                 *)
IsSequence(q) == Len(q) \in Nat /\ q = [i \in 1..Len(q) |-> q[i]]

LEMMA SequenceAppended ==
  ASSUME NEW q, IsSequence(q), NEW e
  PROVE  /\ IsSequence(Append(q, e)) /\ Len(Append(q, e)) = Len(q) + 1
         /\ \A i \in 1..Len(q) : Append(q, e)[i] = q[i]
         /\ Append(q, e)[Len(q) + 1] = e
<1>. DEFINE S == {q[i] : i \in 1..Len(q)} \cup {e}
<1>1. q \in Seq(S)
  BY DEF IsSequence
<1>2. e \in S
  OBVIOUS
<1>. HIDE DEF S
<1>3. /\ Append(q, e) \in Seq(S) /\ Len(Append(q, e)) = Len(q) + 1
      /\ \A i \in 1..Len(q) : Append(q, e)[i] = q[i]
      /\ Append(q, e)[Len(q) + 1] = e
  BY <1>1, <1>2, AppendProperties
<1>4. IsSequence(Append(q, e))
  <2>. DEFINE r == Append(q, e)
  <2>1. r \in Seq(S)
    BY <1>3
  <2>. HIDE DEF r
  <2>2. IsSequence(r)
    BY <2>1 DEF IsSequence
  <2>. QED
    BY <2>2 DEF r
<1>. QED
  BY <1>3, <1>4

LEMMA SequenceShortened ==
  ASSUME NEW q, IsSequence(q), Len(q) > 0
  PROVE  /\ IsSequence(SubSeq(q, 1, Len(q) - 1)) /\ Len(SubSeq(q, 1, Len(q) - 1)) = Len(q) - 1
         /\ \A i \in 1..(Len(q) - 1) : SubSeq(q, 1, Len(q) - 1)[i] = q[i]
<1>. DEFINE S == {q[i] : i \in 1..Len(q)}
            r == SubSeq(q, 1, Len(q) - 1)
<1>1. q \in Seq(S) /\ Len(q) \in Nat
  BY DEF IsSequence
<1>. HIDE DEF S
<1>2. r \in Seq(S) /\ Len(r) = Len(q) - 1 /\ \A i \in 1..(Len(q) - 1) : r[i] = q[i]
  <2>. DEFINE k == Len(q) - 1
  <2>1. k \in Nat /\ k = Len(q) - 1
    BY <1>1
  <2>2. DOMAIN q = 1..Len(q) /\ \A i \in 1..Len(q) : q[i] \in S
    BY <1>1
  <2>. HIDE DEF k
  <2>3. \A i \in 1..k : q[i] \in S
    BY <1>1, <2>1, <2>2
  <2>4. /\ r \in Seq(S)
        /\ Len(r) = IF 1 <= k THEN k - 1 + 1 ELSE 0
        /\ \A i \in 1..(k - 1 + 1) : r[i] = q[1 + i - 1]
    BY <2>1, <2>3, SubSeqProperties
  <2>. HIDE DEF r
  <2>5. Len(r) = k
    <3>1. Len(r) = IF 1 <= k THEN k - 1 + 1 ELSE 0
      BY <2>4
    <3>. QED
      BY <2>1, <3>1
  <2>6. ASSUME NEW i \in 1..k PROVE r[i] = q[i]
    <3>1. 1 + i - 1 = i /\ i \in 1..(k - 1 + 1)
      BY <2>1
    <3>. QED
      BY <2>4, <3>1
  <2>. QED
    BY <2>1, <2>4, <2>5, <2>6
<1>. HIDE DEF r
<1>3. IsSequence(r)
  BY <1>2 DEF IsSequence
<1>. QED
  BY <1>2, <1>3 DEF r

(* The records of blocks a to b of a chain.                                   *)
LogsOf(q, a, b) == UNION {RecordsOf(q[n + 1], n) : n \in a..b}

LEMMA LogsInAre ==
  ASSUME NEW a, NEW b
  PROVE  LogsIn(a, b) = LogsOf(blocks, a, b)
BY DEF LogsIn, LogsOf, RecordsOf, Block

LEMMA LogsAgree ==
  ASSUME NEW q, NEW r, NEW a \in Int, NEW b \in Int, \A n \in a..b : q[n + 1] = r[n + 1]
  PROVE  LogsOf(q, a, b) = LogsOf(r, a, b)
BY DEF LogsOf

LEMMA LogsSplit ==
  ASSUME NEW q, NEW b \in Int, NEW a \in 1..b
  PROVE  LogsOf(q, 1, b) = LogsOf(q, 1, a - 1) \cup LogsOf(q, a, b)
<1>1. 1..b = 1..(a - 1) \cup a..b
  OBVIOUS
<1>. QED
  BY <1>1 DEF LogsOf

LEMMA LogsGrow ==
  ASSUME NEW q, NEW n \in Nat
  PROVE  LogsOf(q, 1, n + 1) = LogsOf(q, 1, n) \cup RecordsOf(q[n + 2], n + 1)
<1>1. (n + 1)..(n + 1) = {n + 1} /\ n + 1 - 1 = n /\ n + 1 \in 1..(n + 1)
  OBVIOUS
<1>2. LogsOf(q, n + 1, n + 1) = RecordsOf(q[n + 2], n + 1)
  BY <1>1 DEF LogsOf
<1>. QED
  BY <1>1, <1>2, LogsSplit

LEMMA LogsPlaced ==
  ASSUME NEW q, NEW a \in Nat, NEW b \in Int, \A n \in a..b : q[n + 1].logs \in Seq(Logs)
  PROVE  \A e \in LogsOf(q, a, b) : e.position \in Nat \X Nat /\ e.position[1] \in a..b
<1>. SUFFICES ASSUME NEW n \in a..b, NEW e \in RecordsOf(q[n + 1], n)
              PROVE  e.position \in Nat \X Nat /\ e.position[1] \in a..b
  BY DEF LogsOf
<1>1. PICK i \in DOMAIN q[n + 1].logs : e.position = <<n, i>>
  BY DEF RecordsOf
<1>2. i \in Nat
  BY <1>1
<1>. QED
  BY <1>1, <1>2

LEMMA LogsFinite ==
  ASSUME NEW q, NEW a \in Nat, NEW b \in Int, \A n \in a..b : q[n + 1].logs \in Seq(Logs)
  PROVE  IsFiniteSet(LogsOf(q, a, b))
<1>. DEFINE T == {RecordsOf(q[n + 1], n) : n \in a..b}
            f == [n \in a..b |-> RecordsOf(q[n + 1], n)]
<1>1. IsFiniteSet(T)
  <2>1. f \in Surjection(a..b, T)
    BY DEF Surjection
  <2>2. IsFiniteSet(a..b)
    BY FS_Interval
  <2>. HIDE DEF f, T
  <2>. QED
    BY <2>1, <2>2, FS_Surjection
<1>2. ASSUME NEW n \in a..b PROVE IsFiniteSet(RecordsOf(q[n + 1], n))
  <2>. DEFINE logs == q[n + 1].logs
              g == [i \in 1..Len(logs) |-> [position |-> <<n, i>>, log |-> logs[i]]]
  <2>1. DOMAIN logs = 1..Len(logs) /\ Len(logs) \in Nat
    OBVIOUS
  <2>2. g \in Surjection(1..Len(logs), RecordsOf(q[n + 1], n))
    BY <2>1 DEF Surjection, RecordsOf
  <2>3. IsFiniteSet(1..Len(logs))
    BY <2>1, FS_Interval
  <2>. HIDE DEF g, logs
  <2>. QED
    BY <2>2, <2>3, FS_Surjection
<1>3. \A R \in T : IsFiniteSet(R)
  BY <1>2
<1>4. LogsOf(q, a, b) = UNION T
  BY DEF LogsOf
<1>. HIDE DEF T
<1>. QED
  BY <1>1, <1>3, <1>4, FS_UNION

(* Every block follows the logs up to it, and so does the one being built.    *)
ChainType ==
  /\ IsSequence(blocks) /\ Len(blocks) > 0
  /\ highest \in Nat /\ HeadBlock <= highest /\ Final <= HeadBlock
  /\ \A n \in 0..HeadBlock : BlockType(Block(n))
  /\ BlockType(building)

ChainFollows ==
  /\ \A n \in 0..HeadBlock : Follows(Block(n), LogsOf(blocks, 1, n))
  /\ Follows(building, LogsOf(blocks, 1, HeadBlock) \cup RecordsOf(building, HeadBlock + 1))
  /\ building.transactions = << >> => building = Following(Block(HeadBlock))

ChainInv == ChainType /\ ChainFollows

LEMMA GenesisFollows ==
  BlockType(Genesis) /\ Follows(Genesis, {})
<1>1. BlockType(Genesis)
  BY DEF BlockType, Genesis
<1>2. Ordered({})
  BY DEF Ordered, Positioned
<1>3. MatriciesType(EmptyMatricies)
  BY DEF MatriciesType, EmptyMatricies, Places
<1>4. CellsBound(EmptyMatricies)
  <2>1. \A k \in Kinds, at \in Places : <<k, at[1], at[2]>> \in Cells
    BY DEF Cells, Places
  <2>. QED
    BY <2>1 DEF CellsBound, EmptyMatricies, Places
<1>5. MatriciesFollow(EmptyMatricies, {})
  <2>1. \A k \in Kinds, at \in Places : ~BoundIn(EmptyMatricies, k, at)
    BY DEF BoundIn, EmptyMatricies, Cells, Places
  <2>2. \A at : CategoriesIn({}, at) = {} /\ DecimalsIn({}, at) = {} /\ ValuesIn({}, at) = {}
    BY DEF CategoriesIn, DecimalsIn, ValuesIn
  <2>3. \A h : ThemesIn({}, h) = {} /\ StatementsIn({}, h) = {}
    BY DEF ThemesIn, StatementsIn
  <2>4. \A at \in Places : EmptyMatricies.categories[at] = {}
    BY DEF EmptyMatricies, Places
  <2>5. /\ \A h \in Kinds \X Xs : EmptyMatricies.themes[h] = NoText
        /\ \A h \in Kinds \X Ys : EmptyMatricies.statements[h] = NoText
    BY DEF EmptyMatricies
  <2>6. "NUMERICAL" \in Kinds
    BY DEF Kinds
  <2>. QED
    BY <2>1, <2>2, <2>3, <2>4, <2>5, <2>6 DEF MatriciesFollow, TextOf
<1>6. VotingsFollow(Genesis, {})
  BY DEF VotingsFollow, Genesis
<1>. QED
  BY <1>1, <1>2, <1>3, <1>4, <1>5, <1>6 DEF Follows, Genesis

LEMMA FollowingFollows ==
  ASSUME NEW b, BlockType(b), NEW E, Follows(b, E), NEW n
  PROVE  /\ BlockType(Following(b)) /\ Following(b).transactions = << >>
         /\ RecordsOf(Following(b), n) = {} /\ Follows(Following(b), E)
<1>. DEFINE c == Following(b)
<1>1. c = [[b EXCEPT !.transactions = << >>] EXCEPT !.logs = << >>]
  BY DEF Following
<1>. HIDE DEF c
<1>2. /\ BlockType(c) /\ c.transactions = << >> /\ c.logs = << >>
      /\ c.matricies = b.matricies /\ c.open = b.open /\ c.ended = b.ended
  <2>. DEFINE d == [b EXCEPT !.transactions = << >>]
  <2>1. /\ BlockType(d) /\ d.transactions = << >>
        /\ d.matricies = b.matricies /\ d.open = b.open /\ d.ended = b.ended
    BY SMTT(20) DEF BlockType
  <2>2. c = [d EXCEPT !.logs = << >>]
    BY <1>1
  <2>. HIDE DEF d
  <2>3. /\ c.transactions = << >> /\ c.logs = << >>
        /\ c.matricies = d.matricies /\ c.open = d.open /\ c.ended = d.ended
        /\ c = [transactions |-> c.transactions, logs |-> c.logs, matricies |-> c.matricies,
                open |-> c.open, ended |-> c.ended]
    BY <2>1, <2>2 DEF BlockType
  <2>4. << >> \in Seq(Logs) /\ << >> \in Seq(Transactions)
    OBVIOUS
  <2>. QED
    BY <2>1, <2>3, <2>4 DEF BlockType
<1>3. RecordsOf(c, n) = {}
  BY <1>2 DEF RecordsOf
<1>4. Follows(c, E)
  BY <1>2 DEF Follows, VotingsFollow
<1>. QED
  BY <1>2, <1>3, <1>4 DEF c

LEMMA ChainInit == Init => ChainInv
<1>. SUFFICES ASSUME Init PROVE ChainInv
  OBVIOUS
<1>1. blocks = << Genesis >> /\ building = Following(Genesis) /\ highest = 0
  BY DEF Init
<1>2. Len(blocks) = 1 /\ blocks[1] = Genesis /\ HeadBlock = 0 /\ Block(0) = Genesis /\ IsSequence(blocks)
  BY <1>1 DEF HeadBlock, Block, IsSequence
<1>3. LogsOf(blocks, 1, 0) = {}
  BY DEF LogsOf
<1>4. BlockType(building) /\ RecordsOf(building, 1) = {} /\ Follows(building, {})
  BY <1>1, GenesisFollows, FollowingFollows
<1>5. 0..0 = {0} /\ Final <= 0
  BY <1>1, ReportAssumption DEF Final
<1>. HIDE DEF Init
<1>6. ChainType
  BY <1>1, <1>2, <1>4, <1>5, GenesisFollows DEF ChainType
<1>7. ChainFollows
  <2>1. \A n \in 0..HeadBlock : Follows(Block(n), LogsOf(blocks, 1, n))
    BY <1>2, <1>3, <1>5, GenesisFollows
  <2>2. Follows(building, LogsOf(blocks, 1, HeadBlock) \cup RecordsOf(building, HeadBlock + 1))
    BY <1>2, <1>3, <1>4
  <2>3. building = Following(Block(HeadBlock))
    BY <1>1, <1>2
  <2>. QED
    BY <2>1, <2>2, <2>3 DEF ChainFollows
<1>. QED
  BY <1>6, <1>7 DEF ChainInv

LEMMA LogsBefore ==
  ASSUME ChainType
  PROVE  /\ HeadBlock \in Nat /\ HeadBlock = Len(blocks) - 1
         /\ \A n \in 0..HeadBlock : blocks[n + 1].logs \in Seq(Logs)
         /\ Earlier(LogsOf(blocks, 1, HeadBlock), HeadBlock + 1)
<1>1. HeadBlock \in Nat /\ HeadBlock = Len(blocks) - 1
  BY DEF ChainType, HeadBlock, IsSequence
<1>2. \A n \in 0..HeadBlock : blocks[n + 1].logs \in Seq(Logs)
  <2>1. \A n \in 0..HeadBlock : BlockType(Block(n)) /\ Block(n) = blocks[n + 1]
    BY DEF ChainType, Block
  <2>. QED
    BY <2>1 DEF BlockType
<1>3. \A e \in LogsOf(blocks, 1, HeadBlock) : e.position \in Nat \X Nat /\ e.position[1] \in 1..HeadBlock
  BY <1>1, <1>2, LogsPlaced
<1>4. Earlier(LogsOf(blocks, 1, HeadBlock), HeadBlock + 1)
  <2>. DEFINE L == LogsOf(blocks, 1, HeadBlock)
  <2>. HIDE DEF L
  <2>. QED
    BY <1>1, <1>3 DEF Earlier, L
<1>. QED
  BY <1>1, <1>2, <1>4

LEMMA WithTransaction ==
  ASSUME NEW b, BlockType(b), NEW tx \in Transactions, NEW E, NEW n, Follows(b, E \cup RecordsOf(b, n)),
         NEW c, c = [b EXCEPT !.transactions = Append(@, tx)]
  PROVE  /\ BlockType(c) /\ c.transactions # << >> /\ c.open = b.open /\ c.ended = b.ended
         /\ Follows(c, E \cup RecordsOf(c, n))
<1>1. Append(b.transactions, tx) \in Seq(Transactions) /\ Append(b.transactions, tx) # << >>
  <2>. DEFINE t == b.transactions
  <2>1. t \in Seq(Transactions)
    BY DEF BlockType
  <2>. HIDE DEF t
  <2>2. Append(t, tx) \in Seq(Transactions) /\ Len(Append(t, tx)) = Len(t) + 1 /\ Len(t) \in Nat
    BY <2>1, AppendProperties, LenProperties
  <2>3. Append(t, tx) # << >>
    BY <2>2
  <2>. QED
    BY <2>2, <2>3 DEF t
<1>2. /\ BlockType(c) /\ c.transactions = Append(b.transactions, tx) /\ c.logs = b.logs
      /\ c.matricies = b.matricies /\ c.open = b.open /\ c.ended = b.ended
  BY <1>1 DEF BlockType
<1>3. RecordsOf(c, n) = RecordsOf(b, n)
  BY <1>2 DEF RecordsOf
<1>4. Follows(c, E \cup RecordsOf(c, n))
  <2>. DEFINE F == E \cup RecordsOf(b, n)
  <2>1. F = E \cup RecordsOf(c, n) /\ Follows(b, F)
    BY <1>3
  <2>. HIDE DEF F
  <2>2. VotingsFollow(c, F)
    BY <1>2, <2>1 DEF Follows, VotingsFollow
  <2>3. Follows(c, F)
    BY <1>2, <2>1, <2>2 DEF Follows
  <2>. QED
    BY <2>1, <2>3
<1>. QED
  BY <1>1, <1>2, <1>4

(* Nothing of the chain changes but the block being built.                    *)
LEMMA ChainBuilt ==
  ASSUME ChainInv, blocks' = blocks, highest' = highest, BlockType(building'), building'.transactions # << >>,
         Follows(building', LogsOf(blocks, 1, HeadBlock) \cup RecordsOf(building', HeadBlock + 1))
  PROVE  ChainInv'
<1>1. HeadBlock' = HeadBlock /\ Final' = Final /\ \A n : Block(n)' = Block(n)
  BY DEF HeadBlock, Final, Block
<1>2. ChainType'
  BY <1>1 DEF ChainInv, ChainType
<1>3. ChainFollows'
  BY <1>1 DEF ChainInv, ChainFollows
<1>. QED
  BY <1>2, <1>3 DEF ChainInv

LEMMA ChainExecute ==
  ASSUME ChainInv, NEW tx \in Transactions, Execute(tx)
  PROVE  ChainInv'
<1>. DEFINE E == LogsOf(blocks, 1, HeadBlock)
            n == HeadBlock + 1
            with == [building EXCEPT !.transactions = Append(@, tx)]
            s == tx.voting
<1>1. ChainType /\ ChainFollows
  BY DEF ChainInv
<1>2. Earlier(E, n) /\ n \in Nat
  BY <1>1, LogsBefore
<1>3. BlockType(building) /\ Follows(building, E \cup RecordsOf(building, n))
  BY <1>1 DEF ChainType, ChainFollows
<1>4. /\ BlockType(with) /\ with.transactions # << >> /\ with.open = building.open /\ with.ended = building.ended
      /\ Follows(with, E \cup RecordsOf(with, n))
  BY <1>3, WithTransaction
<1>5. s \in Suggestions
  BY DEF Transactions
<1>6. blocks' = blocks /\ highest' = highest
  BY DEF Execute
<1>7. BlockType(building') /\ building'.transactions # << >> /\ Follows(building', E \cup RecordsOf(building', n))
  <2>1. CASE tx.does = "create"
    <3>1. s \notin building.open \cup building.ended /\ building' = Created(with, s)
      BY <2>1 DEF Execute
    <3>. HIDE DEF E, n, with, s
    <3>. QED
      BY <1>2, <1>4, <1>5, <3>1, CreatedFollows
  <2>2. CASE tx.does # "create"
    <3>. DEFINE success == tx.does = "approve"
    <3>1. CanEnd(building, s, success) /\ building' = Ended(with, s, success, n)
      BY <2>2 DEF Execute
    <3>2. s \in with.open /\ success \in BOOLEAN
      BY <1>4, <3>1 DEF CanEnd
    <3>3. building' = Ended(with, s, success, n)
      BY <3>1
    <3>. HIDE DEF E, n, with, s, success
    <3>. QED
      BY <1>2, <1>4, <1>5, <3>2, <3>3, EndedFollows
  <2>. QED
    BY <2>1, <2>2
<1>. QED
  BY <1>6, <1>7, ChainBuilt

LEMMA ChainMine ==
  ASSUME ChainInv, Mine
  PROVE  ChainInv'
<1>1. PICK h : h = HeadBlock
  OBVIOUS
<1>2. /\ ChainType /\ ChainFollows /\ h \in Nat /\ h = Len(blocks) - 1 /\ IsSequence(blocks)
  BY <1>1, LogsBefore DEF ChainInv, ChainType
<1>3. /\ blocks' = Append(blocks, building) /\ building' = Following(building)
      /\ highest' = IF h + 1 > highest THEN h + 1 ELSE highest
  BY <1>1 DEF Mine
<1>4. /\ IsSequence(blocks') /\ Len(blocks') = h + 2 /\ blocks'[h + 2] = building
      /\ \A i \in 1..(h + 1) : blocks'[i] = blocks[i]
  <2>1. Len(blocks) = h + 1 /\ Len(blocks) + 1 = h + 2
    BY <1>2
  <2>. QED
    BY <1>2, <1>3, <2>1, SequenceAppended
<1>5. HeadBlock' = h + 1
  BY <1>2, <1>4 DEF HeadBlock
<1>6. /\ \A n \in 0..h : n + 1 \in 1..(h + 1) /\ blocks'[n + 1] = blocks[n + 1]
      /\ blocks'[h + 2] = building /\ h + 1 + 1 = h + 2
  BY <1>2, <1>4
<1>7. (\A n : Block(n) = blocks[n + 1]) /\ \A n : Block(n)' = blocks'[n + 1]
  BY DEF Block
<1>8. 0..(h + 1) = 0..h \cup {h + 1}
  BY <1>2
<1>9. highest \in Nat /\ h <= highest /\ Final <= h /\ \A n \in 0..h : BlockType(Block(n))
  BY <1>1, <1>2 DEF ChainType
<1>10. BlockType(building) /\ Follows(building, LogsOf(blocks, 1, h) \cup RecordsOf(building, h + 1))
  BY <1>1, <1>2 DEF ChainType, ChainFollows
<1>11. BlockType(building') /\ building'.transactions = << >>
       /\ \A n : RecordsOf(building', n) = {}
       /\ \A E : Follows(building, E) => Follows(building', E)
  <2>1. BlockType(building') /\ building'.transactions = << >> /\ \A n : RecordsOf(building', n) = {}
    BY <1>3, <1>10, FollowingFollows
  <2>2. \A E : Follows(building, E) => Follows(building', E)
    BY <1>3, <1>10, FollowingFollows
  <2>. QED
    BY <2>1, <2>2
<1>12. ChainType'
  <2>1. highest' \in Nat /\ h + 1 <= highest'
    BY <1>2, <1>3, <1>9
  <2>2. Final' <= h + 1
    <3>1. Final' = IF highest' >= Confirmations THEN highest' - Confirmations ELSE 0
      BY DEF Final
    <3>2. highest' = h + 1 \/ (highest' = highest /\ Final' = Final)
      BY <1>3, <3>1 DEF Final
    <3>3. Confirmations \in Nat
      BY ReportAssumption
    <3>4. CASE highest' = h + 1
      BY <1>2, <3>1, <3>3, <3>4
    <3>5. CASE Final' = Final
      BY <1>2, <1>9, <3>3, <3>5 DEF Final
    <3>. QED
      BY <3>2, <3>4, <3>5
  <2>3. ASSUME NEW n \in 0..(h + 1) PROVE BlockType(Block(n)')
    <3>1. BlockType(blocks'[n + 1])
      <4>1. CASE n \in 0..h
        BY <1>6, <1>7, <1>9, <4>1
      <4>2. CASE n = h + 1
        BY <1>6, <1>10, <4>2
      <4>. QED
        BY <1>8, <4>1, <4>2
    <3>. QED
      BY <1>7, <3>1
  <2>4. Len(blocks') > 0
    BY <1>2, <1>4
  <2>. QED
    BY <1>4, <1>5, <1>11, <2>1, <2>2, <2>3, <2>4 DEF ChainType
<1>13. ASSUME NEW n \in 0..h PROVE LogsOf(blocks', 1, n) = LogsOf(blocks, 1, n)
  <2>1. \A i \in 1..n : i \in 0..h
    BY <1>2
  <2>2. \A i \in 1..n : blocks'[i + 1] = blocks[i + 1]
    BY <1>6, <2>1
  <2>. QED
    BY <1>2, <2>2, LogsAgree
<1>14. LogsOf(blocks', 1, h + 1) = LogsOf(blocks, 1, h) \cup RecordsOf(building, h + 1)
  <2>1. h \in 0..h
    BY <1>2
  <2>. QED
    BY <1>2, <1>6, <1>13, <2>1, LogsGrow
<1>15. ChainFollows'
  <2>1. ASSUME NEW n \in 0..(h + 1) PROVE Follows(Block(n)', LogsOf(blocks', 1, n))
    <3>1. CASE n \in 0..h
      <4>1. Follows(Block(n), LogsOf(blocks, 1, n))
        BY <1>1, <1>2, <3>1 DEF ChainFollows
      <4>2. Block(n)' = Block(n)
        BY <1>6, <1>7, <3>1
      <4>. QED
        BY <1>13, <3>1, <4>1, <4>2
    <3>2. CASE n = h + 1
      <4>1. Block(n)' = building
        BY <1>6, <1>7, <3>2
      <4>2. LogsOf(blocks', 1, n) = LogsOf(blocks, 1, h) \cup RecordsOf(building, h + 1)
        BY <1>14, <3>2
      <4>. QED
        BY <1>10, <4>1, <4>2
    <3>. QED
      BY <1>8, <3>1, <3>2
  <2>2. Follows(building', LogsOf(blocks', 1, h + 1) \cup RecordsOf(building', h + 2))
    <3>1. LogsOf(blocks', 1, h + 1) \cup RecordsOf(building', h + 2) = LogsOf(blocks, 1, h) \cup RecordsOf(building, h + 1)
      BY <1>11, <1>14
    <3>. QED
      BY <1>10, <1>11, <3>1
  <2>3. building' = Following(blocks'[h + 2])
    BY <1>3, <1>6
  <2>4. HeadBlock' + 1 = h + 2
    BY <1>2, <1>5
  <2>5. \A n \in 0..HeadBlock' : Follows(Block(n)', LogsOf(blocks', 1, n))
    BY <1>5, <2>1
  <2>6. Follows(building', LogsOf(blocks', 1, HeadBlock') \cup RecordsOf(building', HeadBlock' + 1))
    BY <1>5, <2>2, <2>4
  <2>7. blocks'[h + 2] = blocks'[HeadBlock' + 1]
    BY <2>4
  <2>8. Block(HeadBlock)' = blocks'[HeadBlock' + 1]
    BY DEF Block
  <2>9. building' = Following(Block(HeadBlock)')
    BY <2>3, <2>7, <2>8
  <2>. QED
    BY <2>5, <2>6, <2>9 DEF ChainFollows
<1>. QED
  BY <1>12, <1>15 DEF ChainInv

LEMMA ChainReorganise ==
  ASSUME ChainInv, Reorganise
  PROVE  ChainInv'
<1>1. PICK h : h = HeadBlock
  OBVIOUS
<1>2. /\ ChainType /\ ChainFollows /\ h \in Nat /\ h = Len(blocks) - 1 /\ IsSequence(blocks)
  BY <1>1, LogsBefore DEF ChainInv, ChainType
<1>3. /\ h > Final /\ blocks' = SubSeq(blocks, 1, h) /\ building' = Following(Block(h - 1)) /\ highest' = highest
  BY <1>1 DEF Reorganise
<1>4. Final \in Nat /\ Final' = Final
  BY <1>2, <1>3, ReportAssumption DEF Final, ChainType
<1>5. /\ IsSequence(blocks') /\ Len(blocks') = h
      /\ \A i \in 1..h : blocks'[i] = blocks[i]
  <2>1. Len(blocks) - 1 = h /\ Len(blocks) > 0
    BY <1>2
  <2>. QED
    BY <1>2, <1>3, <2>1, SequenceShortened
<1>6. HeadBlock' = h - 1
  BY <1>2, <1>5 DEF HeadBlock
<1>7. \A n \in 0..(h - 1) : n + 1 \in 1..h /\ blocks'[n + 1] = blocks[n + 1]
  BY <1>2, <1>5
<1>8. (\A n : Block(n) = blocks[n + 1]) /\ \A n : Block(n)' = blocks'[n + 1]
  BY DEF Block
<1>9. highest \in Nat /\ h <= highest /\ \A n \in 0..h : BlockType(Block(n)) /\ Follows(Block(n), LogsOf(blocks, 1, n))
  BY <1>1, <1>2 DEF ChainType, ChainFollows
<1>10. h - 1 \in 0..h /\ h - 1 \in 0..(h - 1) /\ 0..(h - 1) \subseteq 0..h
  BY <1>2, <1>3, <1>4
<1>11. ASSUME NEW n \in 0..(h - 1) PROVE LogsOf(blocks', 1, n) = LogsOf(blocks, 1, n)
  <2>1. \A i \in 1..n : i \in 0..(h - 1)
    BY <1>2
  <2>2. \A i \in 1..n : blocks'[i + 1] = blocks[i + 1]
    BY <1>7, <2>1
  <2>. QED
    BY <1>2, <2>2, LogsAgree
<1>12. /\ BlockType(building') /\ building'.transactions = << >> /\ RecordsOf(building', h) = {}
       /\ Follows(building', LogsOf(blocks, 1, h - 1))
  BY <1>3, <1>9, <1>10, FollowingFollows
<1>13. ChainType'
  <2>1. Len(blocks') > 0 /\ h - 1 <= highest /\ Final <= h - 1
    BY <1>2, <1>3, <1>4, <1>5, <1>9
  <2>2. \A n \in 0..(h - 1) : BlockType(Block(n)')
    BY <1>7, <1>8, <1>9, <1>10
  <2>. QED
    BY <1>3, <1>4, <1>5, <1>6, <1>9, <1>12, <2>1, <2>2 DEF ChainType
<1>14. ChainFollows'
  <2>1. \A n \in 0..(h - 1) : Follows(Block(n)', LogsOf(blocks', 1, n))
    BY <1>7, <1>8, <1>9, <1>10, <1>11
  <2>2. Follows(building', LogsOf(blocks', 1, h - 1) \cup RecordsOf(building', h))
    <3>1. LogsOf(blocks', 1, h - 1) \cup RecordsOf(building', h) = LogsOf(blocks, 1, h - 1)
      BY <1>10, <1>11, <1>12
    <3>. QED
      BY <1>12, <3>1
  <2>3. building' = Following(blocks'[h])
    <3>1. h - 1 + 1 = h
      BY <1>2
    <3>2. Block(h - 1) = blocks[h - 1 + 1]
      BY <1>8
    <3>3. blocks'[h - 1 + 1] = blocks[h - 1 + 1]
      BY <1>7, <1>10
    <3>. QED
      BY <1>3, <3>1, <3>2, <3>3
  <2>4. HeadBlock' + 1 = h
    BY <1>2, <1>6
  <2>5. \A n \in 0..HeadBlock' : Follows(Block(n)', LogsOf(blocks', 1, n))
    BY <1>6, <2>1
  <2>6. Follows(building', LogsOf(blocks', 1, HeadBlock') \cup RecordsOf(building', HeadBlock' + 1))
    BY <1>6, <2>2, <2>4
  <2>7. Block(HeadBlock)' = blocks'[HeadBlock' + 1]
    BY DEF Block
  <2>8. building' = Following(Block(HeadBlock)')
    BY <2>3, <2>4, <2>7
  <2>. QED
    BY <2>5, <2>6, <2>8 DEF ChainFollows
<1>. QED
  BY <1>13, <1>14 DEF ChainInv

LEMMA ChainStands ==
  ASSUME ChainInv, UNCHANGED chain
  PROVE  ChainInv'
<1>1. blocks' = blocks /\ building' = building /\ highest' = highest
  BY DEF chain
<1>2. HeadBlock' = HeadBlock /\ Final' = Final /\ \A n : Block(n)' = Block(n)
  BY <1>1 DEF HeadBlock, Final, Block
<1>3. ChainType'
  BY <1>1, <1>2 DEF ChainInv, ChainType
<1>4. ChainFollows'
  BY <1>1, <1>2 DEF ChainInv, ChainFollows
<1>. QED
  BY <1>3, <1>4 DEF ChainInv

LEMMA ReportLeavesChain ==
  ASSUME Report
  PROVE  UNCHANGED chain
BY DEF Report, Pin, PinFails, Scan, ScanFails, Projected, Again

LEMMA ChainNext ==
  ASSUME ChainInv, [Next]_vars
  PROVE  ChainInv'
<1>1. CASE \E tx \in Transactions : Execute(tx)
  BY <1>1, ChainExecute
<1>2. CASE Mine
  BY <1>2, ChainMine
<1>3. CASE Reorganise
  BY <1>3, ChainReorganise
<1>4. CASE Report
  BY <1>4, ReportLeavesChain, ChainStands
<1>5. CASE UNCHANGED vars
  <2>1. UNCHANGED chain
    BY <1>5 DEF vars, chain
  <2>. QED
    BY <2>1, ChainStands
<1>. QED
  BY <1>1, <1>2, <1>3, <1>4, <1>5 DEF Next

-----------------------------------------------------------------------------
(* The projection.                                                            *)
EventsOf(q, a, b) == {e \in LogsOf(q, a, b) : IsIndexEvent(e.log)}

LEMMA EventsInAre ==
  ASSUME NEW a, NEW b
  PROVE  EventsIn(a, b) = EventsOf(blocks, a, b)
BY LogsInAre DEF EventsIn, EventsOf

LEMMA OrderedEvents ==
  ASSUME NEW A, Ordered(A)
  PROVE  Ordered({e \in A : IsIndexEvent(e.log)})
<1>. DEFINE E == {e \in A : IsIndexEvent(e.log)}
<1>1. Positioned(E)
  BY DEF Ordered, Positioned
<1>2. /\ \A e \in E : IsLog(e.log)
      /\ \A e, f \in E, s \in Suggestions :
           \/ Creates(e, s) /\ Creates(f, s)
           \/ Details(e, s) /\ Details(f, s)
           \/ Finalizes(e, s) /\ Finalizes(f, s)
           => e = f
  BY DEF Ordered
<1>3. ASSUME NEW e \in E, NEW s \in Suggestions, Finalizes(e, s), IsGated(s)
      PROVE  \E d \in E : Details(d, s) /\ BeforePosition(d.position, e.position)
  <2>1. PICK d \in A : Details(d, s) /\ BeforePosition(d.position, e.position)
    BY <1>3 DEF Ordered
  <2>2. IsIndexEvent(d.log)
    BY <1>3, <2>1 DEF Details, IsIndexEvent
  <2>. QED
    BY <2>1, <2>2
<1>. HIDE DEF E
<1>4. Ordered(E)
  BY <1>1, <1>2, <1>3 DEF Ordered
<1>. QED
  BY <1>4 DEF E

(* A scan goes on where the last one ended, and no further than the pin.      *)
From == IF cursor = NoCursor THEN 1 ELSE cursor + 1

LEMMA Planned ==
  ASSUME pin \in Nat, cursor = NoCursor \/ cursor \in 1..pin
  PROVE  /\ Plan.kind \in {"SCAN", "UP_TO_DATE"}
         /\ From \in Nat \ {0} /\ 1..(From - 1) = 1..cursor
         /\ Plan.kind = "SCAN" => Plan.from = From /\ Plan.to \in From..pin
         /\ Plan.kind = "UP_TO_DATE" => 1..cursor = 1..pin
<1>1. MaxBlocksPerScan \in Nat \ {0}
  BY ReportAssumption
<1>. DEFINE to == IF pin - From + 1 > MaxBlocksPerScan THEN From + MaxBlocksPerScan - 1 ELSE pin
<1>2. Plan = IF pin < 1 THEN [kind |-> "UP_TO_DATE"]
             ELSE IF From > pin THEN [kind |-> "UP_TO_DATE"]
             ELSE [kind |-> "SCAN", from |-> From, to |-> to]
  BY DEF Plan, PlanDiscovery, From, DeploymentBlock, NoCursor
<1>3. From \in Nat \ {0} /\ 1..(From - 1) = 1..cursor
  BY DEF From, NoCursor
<1>4. From <= pin => to \in From..pin
  BY <1>1, <1>3
<1>5. pin < 1 \/ From > pin => 1..cursor = 1..pin
  BY DEF From, NoCursor
<1>. HIDE DEF to
<1>6. CASE pin < 1
  BY <1>2, <1>3, <1>5, <1>6
<1>7. CASE ~(pin < 1) /\ From > pin
  BY <1>2, <1>3, <1>5, <1>7
<1>8. CASE ~(pin < 1) /\ ~(From > pin)
  <2>1. Plan = [kind |-> "SCAN", from |-> From, to |-> to] /\ From <= pin
    BY <1>2, <1>3, <1>8
  <2>. QED
    BY <1>3, <1>4, <2>1
<1>. QED
  BY <1>6, <1>7, <1>8

(* What a report knows while it projects.                                     *)
Projecting ==
  /\ pin \in 0..Final
  /\ cursor = NoCursor \/ cursor \in 1..pin
  /\ Declares(index, EventsOf(blocks, 1, cursor))

LEMMA ScanDeclares ==
  ASSUME ChainInv, Projecting, Scan
  PROVE  Projecting'
<1>. DEFINE to == Plan.to
            E == EventsOf(blocks, 1, to)
            W == EventsOf(blocks, From, to)
<1>1. ChainType /\ ChainFollows /\ HeadBlock \in Nat /\ Final <= HeadBlock
  BY LogsBefore DEF ChainInv, ChainType
<1>2. pin \in 0..Final /\ pin \in Nat /\ (cursor = NoCursor \/ cursor \in 1..pin) /\ Final \in Nat
  BY <1>1, ReportAssumption DEF Projecting, Final, ChainType
<1>3. /\ Plan.kind = "SCAN" /\ index' = FoldWindow(index, EventsIn(Plan.from, to)) /\ cursor' = to
      /\ pin' = pin /\ blocks' = blocks /\ highest' = highest
  BY DEF Scan, chain
<1>4. From \in Nat \ {0} /\ 1..(From - 1) = 1..cursor /\ Plan.from = From /\ to \in From..pin
  BY <1>2, <1>3, Planned
<1>. HIDE DEF to
<1>5. to \in Nat /\ to \in 1..pin /\ to \in 0..HeadBlock /\ From \in 1..to
  BY <1>1, <1>2, <1>4
<1>6. Ordered(E)
  <2>1. Follows(Block(to), LogsOf(blocks, 1, to))
    BY <1>1, <1>5 DEF ChainFollows
  <2>2. Ordered(LogsOf(blocks, 1, to))
    BY <2>1 DEF Follows
  <2>. QED
    BY <2>2, OrderedEvents DEF EventsOf
<1>7. \A n \in 0..to : blocks[n + 1].logs \in Seq(Logs)
  BY <1>1, <1>5, LogsBefore
<1>8. \A e \in LogsOf(blocks, 1, From - 1) : e.position \in Nat \X Nat /\ e.position[1] \in 1..(From - 1)
  <2>1. From - 1 \in Int /\ \A n \in 1..(From - 1) : n \in 0..to
    BY <1>4, <1>5
  <2>2. \A n \in 1..(From - 1) : blocks[n + 1].logs \in Seq(Logs)
    BY <1>7, <2>1
  <2>. QED
    BY <2>1, <2>2, LogsPlaced
<1>9. \A e \in LogsOf(blocks, From, to) : e.position \in Nat \X Nat /\ e.position[1] \in From..to
  <2>1. From \in Nat /\ to \in Int /\ \A n \in From..to : n \in 0..to
    BY <1>4, <1>5
  <2>2. \A n \in From..to : blocks[n + 1].logs \in Seq(Logs)
    BY <1>7, <2>1
  <2>. QED
    BY <2>1, <2>2, LogsPlaced
<1>10. IsFiniteSet(W)
  <2>1. From \in Nat /\ to \in Int /\ \A n \in From..to : n \in 0..to
    BY <1>4, <1>5
  <2>2. \A n \in From..to : blocks[n + 1].logs \in Seq(Logs)
    BY <1>7, <2>1
  <2>3. IsFiniteSet(LogsOf(blocks, From, to))
    BY <2>1, <2>2, LogsFinite
  <2>. QED
    BY <2>3, FS_Subset DEF EventsOf
<1>11. LogsOf(blocks, 1, to) = LogsOf(blocks, 1, From - 1) \cup LogsOf(blocks, From, to)
  BY <1>5, LogsSplit
<1>12. \A e \in LogsOf(blocks, 1, From - 1), f \in LogsOf(blocks, From, to) :
         BeforePosition(e.position, f.position) /\ e # f
  BY <1>4, <1>5, <1>8, <1>9 DEF BeforePosition
<1>13. LogsOf(blocks, 1, From - 1) = LogsOf(blocks, 1, cursor)
  BY <1>4 DEF LogsOf
<1>14. /\ W \subseteq E /\ E \ W = EventsOf(blocks, 1, cursor)
       /\ \A e \in E \ W, f \in W : BeforePosition(e.position, f.position)
       /\ \A e \in E : IsIndexEvent(e.log)
  BY <1>11, <1>12, <1>13 DEF EventsOf
<1>15. Declares(index, E \ W)
  BY <1>14 DEF Projecting
<1>16. Declares(FoldWindow(index, W), E)
  <2>. HIDE DEF E, W
  <2>. QED
    BY <1>6, <1>10, <1>14, <1>15, WindowFolded
<1>17. index' = FoldWindow(index, W)
  BY <1>3, <1>4, EventsInAre
<1>18. EventsOf(blocks', 1, cursor') = E /\ Final' = Final
  BY <1>3 DEF EventsOf, Final
<1>19. Declares(index', EventsOf(blocks', 1, cursor'))
  BY <1>16, <1>17, <1>18
<1>20. pin' \in 0..Final' /\ cursor' \in 1..pin'
  BY <1>2, <1>3, <1>5, <1>18
<1>. QED
  BY <1>19, <1>20 DEF Projecting

LEMMA FinalGrows ==
  ASSUME NEW a \in Nat, NEW b \in Nat, a <= b
  PROVE  /\ (IF b >= Confirmations THEN b - Confirmations ELSE 0) \in Nat
         /\ (IF a >= Confirmations THEN a - Confirmations ELSE 0)
              <= (IF b >= Confirmations THEN b - Confirmations ELSE 0)
BY ReportAssumption

(* No step of the chain changes a final block.                                *)
LEMMA FinalBlocksStand ==
  ASSUME ChainInv, (\E tx \in Transactions : Execute(tx)) \/ Mine \/ Reorganise
  PROVE  Final \in Nat /\ Final' \in Nat /\ Final <= Final' /\ \A n \in 0..Final : blocks'[n + 1] = blocks[n + 1]
<1>1. /\ ChainType /\ HeadBlock \in Nat /\ HeadBlock = Len(blocks) - 1 /\ IsSequence(blocks)
      /\ Final <= HeadBlock /\ highest \in Nat /\ HeadBlock <= highest
  BY LogsBefore DEF ChainInv, ChainType
<1>2. Confirmations \in Nat /\ Final \in Nat
  BY <1>1, ReportAssumption DEF Final
<1>3. CASE \E tx \in Transactions : Execute(tx)
  <2>1. blocks' = blocks /\ highest' = highest
    BY <1>3 DEF Execute
  <2>. QED
    BY <1>2, <2>1 DEF Final
<1>4. CASE Mine
  <2>1. blocks' = Append(blocks, building) /\ highest' \in Nat /\ highest <= highest'
    BY <1>1, <1>4 DEF Mine
  <2>2. \A i \in 1..Len(blocks) : blocks'[i] = blocks[i]
    BY <1>1, <2>1, SequenceAppended
  <2>3. Final' \in Nat /\ Final <= Final'
    <3>1. Final' = IF highest' >= Confirmations THEN highest' - Confirmations ELSE 0
      BY DEF Final
    <3>2. Final = IF highest >= Confirmations THEN highest - Confirmations ELSE 0
      BY DEF Final
    <3>3. highest \in Nat /\ highest' \in Nat /\ highest <= highest'
      BY <1>1, <2>1
    <3>. QED
      BY <3>1, <3>2, <3>3, FinalGrows
  <2>4. \A n \in 0..Final : n + 1 \in 1..Len(blocks)
    BY <1>1, <1>2
  <2>. QED
    BY <1>2, <2>2, <2>3, <2>4
<1>5. CASE Reorganise
  <2>1. HeadBlock > Final /\ blocks' = SubSeq(blocks, 1, Len(blocks) - 1) /\ highest' = highest
    BY <1>1, <1>5 DEF Reorganise
  <2>2. \A i \in 1..(Len(blocks) - 1) : blocks'[i] = blocks[i]
    BY <1>1, <2>1, SequenceShortened
  <2>3. Final' = Final
    BY <2>1 DEF Final
  <2>4. \A n \in 0..Final : n + 1 \in 1..(Len(blocks) - 1)
    BY <1>1, <1>2, <2>1
  <2>. QED
    BY <1>2, <2>2, <2>3, <2>4
<1>. QED
  BY <1>3, <1>4, <1>5

LEMMA ChainLeavesProjection ==
  ASSUME ChainInv, Projecting, (\E tx \in Transactions : Execute(tx)) \/ Mine \/ Reorganise
  PROVE  Projecting'
<1>1. pin' = pin /\ cursor' = cursor /\ index' = index
  BY DEF Execute, Mine, Reorganise
<1>2. Final \in Nat /\ Final' \in Nat /\ Final <= Final' /\ \A n \in 0..Final : blocks'[n + 1] = blocks[n + 1]
  BY FinalBlocksStand
<1>3. pin \in 0..Final /\ (cursor = NoCursor \/ cursor \in 1..pin) /\ Declares(index, EventsOf(blocks, 1, cursor))
  BY DEF Projecting
<1>4. cursor \in Int /\ \A n \in 1..cursor : n \in 0..Final
  BY <1>2, <1>3 DEF NoCursor
<1>5. \A n \in 1..cursor : blocks'[n + 1] = blocks[n + 1]
  BY <1>2, <1>4
<1>6. LogsOf(blocks', 1, cursor) = LogsOf(blocks, 1, cursor)
  BY <1>4, <1>5, LogsAgree
<1>7. EventsOf(blocks', 1, cursor') = EventsOf(blocks, 1, cursor)
  BY <1>1, <1>6 DEF EventsOf
<1>8. Declares(index', EventsOf(blocks', 1, cursor'))
  BY <1>1, <1>3, <1>7
<1>9. pin' \in 0..Final' /\ (cursor' = NoCursor \/ cursor' \in 1..pin')
  BY <1>1, <1>2, <1>3
<1>. QED
  BY <1>8, <1>9 DEF Projecting

LEMMA EmptyDeclares ==
  Declares(EmptyIndex, {})
<1>1. IndexType(EmptyIndex)
  BY DEF IndexType, EmptyIndex, NoEntry, Places
<1>2. \A at : CategoriesIn({}, at) = {} /\ DecimalsIn({}, at) = {} /\ ValuesIn({}, at) = {}
  BY DEF CategoriesIn, DecimalsIn, ValuesIn
<1>3. \A h : ThemesIn({}, h) = {} /\ StatementsIn({}, h) = {}
  BY DEF ThemesIn, StatementsIn
<1>4. /\ EmptyIndex.awaiting = {} /\ EmptyIndex.categorical = {} /\ EmptyIndex.numerical = {}
      /\ EmptyIndex.unattributed = {}
      /\ \A h \in Kinds \X Xs : EmptyIndex.themes[h] = NoEntry
      /\ \A h \in Kinds \X Ys : EmptyIndex.statements[h] = NoEntry
  BY DEF EmptyIndex
<1>. QED
  BY <1>1, <1>2, <1>3, <1>4 DEF Declares, PlacesDeclared, LabelsDeclared, AwaitingDeclared, EntryOf

-----------------------------------------------------------------------------
(* The index of all logs up to a block is the storage at that block.          *)
LEMMA SameText ==
  ASSUME NEW T, \A e \in T : e.position \in Nat \X Nat, NEW entry, EntryOf(T, entry), NEW label, TextOf(T, label)
  PROVE  entry.text = label
<1>1. CASE T = {}
  BY <1>1 DEF EntryOf, TextOf, IsLast, NoEntry
<1>2. CASE T # {}
  <2>1. PICK e \in T : IsLast(e, T) /\ entry = [text |-> e.log.voting.text, appliedAt |-> e.position]
    BY <1>2 DEF EntryOf
  <2>2. PICK f \in T : IsLast(f, T) /\ label = f.log.voting.text
    BY <1>2 DEF TextOf
  <2>3. e = f
    <3>. SUFFICES ASSUME e # f PROVE FALSE
      OBVIOUS
    <3>1. BeforePosition(f.position, e.position) /\ BeforePosition(e.position, f.position)
      BY <2>1, <2>2 DEF IsLast
    <3>2. e.position[1] \in Nat /\ e.position[2] \in Nat /\ f.position[1] \in Nat /\ f.position[2] \in Nat
      OBVIOUS
    <3>. QED
      BY <3>1, <3>2 DEF BeforePosition
  <2>. QED
    BY <2>1, <2>2, <2>3
<1>. QED
  BY <1>1, <1>2

(* Only events say where there is something.                                  *)
LEMMA EventsTellAll ==
  ASSUME NEW A, NEW E, E = {e \in A : IsIndexEvent(e.log)}
  PROVE  /\ \A at : CategoriesIn(E, at) = CategoriesIn(A, at) /\ DecimalsIn(E, at) = DecimalsIn(A, at)
                    /\ ValuesIn(E, at) = ValuesIn(A, at)
         /\ \A h : ThemesIn(E, h) = ThemesIn(A, h) /\ StatementsIn(E, h) = StatementsIn(A, h)
<1>1. \A at : CategoriesIn(E, at) = CategoriesIn(A, at)
  BY DEF CategoriesIn, Adds, IsIndexEvent
<1>2. \A at : ValuesIn(E, at) = ValuesIn(A, at)
  BY DEF ValuesIn, Adds, IsIndexEvent
<1>3. \A at : DecimalsIn(E, at) = DecimalsIn(A, at)
  BY DEF DecimalsIn, Applies, IsIndexEvent
<1>4. \A h : ThemesIn(E, h) = ThemesIn(A, h)
  BY DEF ThemesIn, Applies, IsIndexEvent
<1>5. \A h : StatementsIn(E, h) = StatementsIn(A, h)
  BY DEF StatementsIn, Applies, IsIndexEvent
<1>. QED
  BY <1>1, <1>2, <1>3, <1>4, <1>5

(* No label that was applied is blank.                                        *)
LEMMA EntryWorded ==
  ASSUME NEW T, NEW entry, EntryOf(T, entry), \A e \in T : e.log.voting.text # NoText
  PROVE  entry = NoEntry \/ entry.text # NoText
BY DEF EntryOf, IsLast

LEMMA LabelsWorded ==
  ASSUME NEW A, \A e \in A : IsLog(e.log)
  PROVE  /\ \A h : \A e \in ThemesIn(A, h) : e.log.voting.text # NoText
         /\ \A h : \A e \in StatementsIn(A, h) : e.log.voting.text # NoText
<1>1. ASSUME NEW e \in A, Applies(e, "Theme") \/ Applies(e, "Statement") PROVE e.log.voting.text # NoText
  <2>1. e.log.voting \in Suggestions /\ e.log.voting.type \in {"Theme", "Statement"}
    BY <1>1 DEF Applies, IsLog
  <2>2. IsSuggestion(e.log.voting) /\ ~WritesCell(e.log.voting)
    BY <2>1, SuggestionsAre DEF WritesCell
  <2>. QED
    BY <2>2 DEF IsSuggestion
<1>. QED
  BY <1>1 DEF ThemesIn, StatementsIn

Stored(ix, m) ==
  /\ ix.categorical \subseteq Places /\ ix.numerical \subseteq Places /\ ix.unattributed \subseteq Places
  /\ \A h \in Kinds \X Xs : ix.themes[h].text = m.themes[h]
  /\ \A h \in Kinds \X Ys : ix.statements[h].text = m.statements[h]
  /\ \A h \in Kinds \X Xs : ix.themes[h] = NoEntry \/ ix.themes[h].text # NoText
  /\ \A h \in Kinds \X Ys : ix.statements[h] = NoEntry \/ ix.statements[h].text # NoText
  /\ \A at \in Places : at \in ix.categorical <=> m.categories[at] # {}
  /\ \A at \in ix.numerical : BoundIn(m, "NUMERICAL", at)
  /\ \A at \in Places : at \in ix.categorical \cup ix.numerical \cup ix.unattributed <=> \E k \in Kinds : BoundIn(m, k, at)

LEMMA AllIsStored ==
  ASSUME NEW A, NEW m, Ordered(A), MatriciesFollow(m, A), NEW ix, Declares(ix, {e \in A : IsIndexEvent(e.log)})
  PROVE  Stored(ix, m)
<1>. DEFINE E == {e \in A : IsIndexEvent(e.log)}
<1>1. /\ \A at : CategoriesIn(E, at) = CategoriesIn(A, at) /\ DecimalsIn(E, at) = DecimalsIn(A, at)
                    /\ ValuesIn(E, at) = ValuesIn(A, at)
      /\ \A h : ThemesIn(E, h) = ThemesIn(A, h) /\ StatementsIn(E, h) = StatementsIn(A, h)
  BY EventsTellAll
<1>2. Declares(ix, E)
  OBVIOUS
<1>. HIDE DEF E
<1>3. \A e \in A : e.position \in Nat \X Nat
  BY DEF Ordered, Positioned
<1>4. \A h : \A e \in ThemesIn(A, h) : e.position \in Nat \X Nat
  BY <1>3 DEF ThemesIn
<1>5. \A h : \A e \in StatementsIn(A, h) : e.position \in Nat \X Nat
  BY <1>3 DEF StatementsIn
<1>6. /\ \A h : \A e \in ThemesIn(A, h) : e.log.voting.text # NoText
      /\ \A h : \A e \in StatementsIn(A, h) : e.log.voting.text # NoText
  BY LabelsWorded DEF Ordered
<1>7. ASSUME NEW h \in Kinds \X Xs
      PROVE  ix.themes[h].text = m.themes[h] /\ (ix.themes[h] = NoEntry \/ ix.themes[h].text # NoText)
  <2>1. EntryOf(ThemesIn(A, h), ix.themes[h]) /\ TextOf(ThemesIn(A, h), m.themes[h])
    BY <1>1, <1>2 DEF Declares, LabelsDeclared, MatriciesFollow
  <2>. QED
    BY <1>4, <1>6, <2>1, SameText, EntryWorded
<1>8. ASSUME NEW h \in Kinds \X Ys
      PROVE  ix.statements[h].text = m.statements[h] /\ (ix.statements[h] = NoEntry \/ ix.statements[h].text # NoText)
  <2>1. EntryOf(StatementsIn(A, h), ix.statements[h]) /\ TextOf(StatementsIn(A, h), m.statements[h])
    BY <1>1, <1>2 DEF Declares, LabelsDeclared, MatriciesFollow
  <2>. QED
    BY <1>5, <1>6, <2>1, SameText, EntryWorded
<1>9. ix.categorical \subseteq Places /\ ix.numerical \subseteq Places /\ ix.unattributed \subseteq Places
  BY <1>2 DEF Declares, IndexType
<1>10. \A at \in Places :
         /\ at \in ix.categorical <=> CategoriesIn(A, at) # {}
         /\ at \in ix.numerical <=> DecimalsIn(A, at) # {}
         /\ at \in ix.unattributed <=> ValuesIn(A, at) # {} /\ CategoriesIn(A, at) = {} /\ DecimalsIn(A, at) = {}
  BY <1>1, <1>2 DEF Declares, PlacesDeclared
<1>11. \A at \in Places :
         /\ m.categories[at] # {} <=> CategoriesIn(A, at) # {}
         /\ DecimalsIn(A, at) # {} => BoundIn(m, "NUMERICAL", at)
         /\ (\E k \in Kinds : BoundIn(m, k, at)) <=>
              CategoriesIn(A, at) # {} \/ DecimalsIn(A, at) # {} \/ ValuesIn(A, at) # {}
  BY DEF MatriciesFollow
<1>12. \A at \in Places : at \in ix.categorical <=> m.categories[at] # {}
  BY <1>10, <1>11
<1>13. \A at \in ix.numerical : BoundIn(m, "NUMERICAL", at)
  BY <1>9, <1>10, <1>11
<1>14. \A at \in Places :
         at \in ix.categorical \cup ix.numerical \cup ix.unattributed <=> \E k \in Kinds : BoundIn(m, k, at)
  BY <1>10, <1>11
<1>. QED
  BY <1>7, <1>8, <1>9, <1>12, <1>13, <1>14 DEF Stored

(* A projection that is complete.                                             *)
LEMMA ProjectedStored ==
  ASSUME ChainInv, Projecting, Plan.kind # "SCAN"
  PROVE  /\ Plan.kind = "UP_TO_DATE" /\ pin \in 0..HeadBlock
         /\ Follows(Block(pin), LogsOf(blocks, 1, pin)) /\ Stored(index, Pinned)
<1>1. /\ ChainType /\ ChainFollows /\ HeadBlock \in Nat /\ Final <= HeadBlock /\ highest \in Nat
  BY LogsBefore DEF ChainInv, ChainType
<1>2. pin \in 0..Final /\ pin \in Nat /\ (cursor = NoCursor \/ cursor \in 1..pin) /\ Final \in Nat
  BY <1>1, ReportAssumption DEF Projecting, Final
<1>3. Plan.kind = "UP_TO_DATE" /\ 1..cursor = 1..pin
  BY <1>2, Planned
<1>4. pin \in 0..HeadBlock
  BY <1>1, <1>2
<1>5. Follows(Block(pin), LogsOf(blocks, 1, pin))
  BY <1>1, <1>4 DEF ChainFollows
<1>6. LogsOf(blocks, 1, cursor) = LogsOf(blocks, 1, pin)
  BY <1>3 DEF LogsOf
<1>7. Declares(index, {e \in LogsOf(blocks, 1, pin) : IsIndexEvent(e.log)})
  BY <1>6 DEF Projecting, EventsOf
<1>8. Ordered(LogsOf(blocks, 1, pin)) /\ MatriciesFollow(Pinned, LogsOf(blocks, 1, pin))
  BY <1>5 DEF Follows, Pinned
<1>9. Stored(index, Pinned)
  BY <1>7, <1>8, AllIsStored
<1>. QED
  BY <1>3, <1>4, <1>5, <1>9

(* The report's part of the invariant.                                        *)
Told ==
  \/ outcome.kind = "WRITTEN"
  \/ outcome = [kind |-> "REFUSED", code |-> "NOTHING_READABLE"]

ReportInv ==
  /\ phase \in {"idle", "projecting", "done"}
  /\ phase = "idle" => index = EmptyIndex /\ cursor = NoCursor
  /\ phase = "projecting" => Projecting
  /\ phase # "done" => outcome = NoOutcome
  /\ Told => /\ \E missing \in {lost} : outcome = Assembled(missing)
             /\ pin \in 0..HeadBlock
             /\ Stored(index, Pinned)

Inv == ChainInv /\ ReportInv

(* What a report says depends on the index and the chain at the pin.          *)
LEMMA SameReport ==
  ASSUME index' = index, pin' = pin, blocks' = blocks
  PROVE  Pinned' = Pinned /\ \A missing : Assembled(missing)' = Assembled(missing)
<1>1. Pinned' = Pinned
  BY DEF Pinned, Block
<1>2. \A k, at : BoundAt(k, at)' = BoundAt(k, at)
  BY <1>1 DEF BoundAt
<1>3. Themes' = Themes /\ Statements' = Statements
  BY DEF Themes, Statements
<1>. SUFFICES ASSUME NEW missing PROVE Assembled(missing)' = Assembled(missing)
  BY <1>1
<1>4. \A at : Attribute(at, missing)' = Attribute(at, missing)
  BY <1>2 DEF Attribute
<1>5. Targets(missing)' = Targets(missing)
  BY <1>4 DEF Targets
<1>6. \A k, at : ValueDisplay(k, at, missing)' = ValueDisplay(k, at, missing)
  BY <1>1 DEF ValueDisplay
<1>7. \A k, at : Row(k, at, missing)' = Row(k, at, missing)
  BY <1>1, <1>6 DEF Row
<1>8. Axes(missing)' = Axes(missing)
  BY <1>1, <1>3 DEF Axes
<1>9. Attempted(missing)' = Attempted(missing)
  BY <1>3, <1>5 DEF Attempted
<1>10. NothingReadable(missing)' = NothingReadable(missing)
  BY <1>5, <1>9 DEF NothingReadable
<1>. QED
  BY <1>5, <1>7, <1>8, <1>10 DEF Assembled

LEMMA NotTold ==
  /\ outcome \in {NoOutcome, Failure} => ~Told
  /\ outcome' \in {NoOutcome, Failure} => ~Told'
  /\ outcome' = [kind |-> "REFUSED", code |-> "NO_PINNED_BLOCK"] => ~Told'
  /\ outcome' = [kind |-> "REFUSED", code |-> "CHAIN_INCONSISTENT"] => ~Told'
BY DEF Told, NoOutcome, Failure

LEMMA ReportNext ==
  ASSUME Inv, [Next]_vars
  PROVE  ReportInv'
<1>1. ChainInv /\ ReportInv
  BY DEF Inv
<1>2. CASE phase # "done" /\ ((\E tx \in Transactions : Execute(tx)) \/ Mine \/ Reorganise)
  <2>1. phase' = phase /\ pin' = pin /\ cursor' = cursor /\ index' = index /\ lost' = lost /\ outcome' = outcome
    BY <1>2 DEF Execute, Mine, Reorganise
  <2>2. phase = "projecting" => Projecting'
    BY <1>1, <1>2, ChainLeavesProjection DEF ReportInv
  <2>3. outcome' = NoOutcome
    BY <1>1, <1>2, <2>1 DEF ReportInv
  <2>4. ~Told'
    BY <2>3, NotTold
  <2>5. phase' # "done" => outcome' = NoOutcome
    BY <2>3
  <2>. QED
    BY <1>1, <2>1, <2>2, <2>4, <2>5 DEF ReportInv
<1>3. CASE Pin
  <2>1. /\ phase = "idle" /\ phase' = "projecting" /\ cursor' = cursor /\ index' = index /\ outcome' = outcome
        /\ blocks' = blocks /\ highest' = highest
        /\ pin' = IF HeadBlock >= Confirmations THEN HeadBlock - Confirmations ELSE 0
    BY <1>3 DEF Pin, chain
  <2>2. highest \in Nat /\ HeadBlock \in Nat /\ HeadBlock <= highest
    BY <1>1, LogsBefore DEF ChainInv, ChainType
  <2>3. pin' \in 0..Final'
    <3>1. Final' = IF highest >= Confirmations THEN highest - Confirmations ELSE 0
      BY <2>1 DEF Final
    <3>. QED
      BY <2>1, <2>2, <3>1, FinalGrows, ReportAssumption
  <2>4. index' = EmptyIndex /\ cursor' = NoCursor /\ outcome' = NoOutcome
    BY <1>1, <2>1 DEF ReportInv
  <2>5. EventsOf(blocks', 1, cursor') = {}
    BY <2>4 DEF EventsOf, LogsOf, NoCursor
  <2>6. Projecting'
    BY <2>3, <2>4, <2>5, EmptyDeclares DEF Projecting
  <2>7. ~Told'
    BY <2>4, NotTold
  <2>8. phase' # "done" => outcome' = NoOutcome
    BY <2>4
  <2>. QED
    BY <2>1, <2>6, <2>7, <2>8 DEF ReportInv
<1>4. CASE PinFails \/ ScanFails
  <2>1. phase' = "done" /\ outcome' \in {[kind |-> "REFUSED", code |-> "NO_PINNED_BLOCK"], Failure}
    BY <1>4 DEF PinFails, ScanFails, Refused
  <2>2. ~Told'
    BY <2>1, NotTold
  <2>. QED
    BY <2>1, <2>2 DEF ReportInv
<1>5. CASE Scan
  <2>1. phase = "projecting" /\ phase' = phase /\ outcome' = outcome
    BY <1>5 DEF Scan
  <2>2. Projecting /\ outcome = NoOutcome
    BY <1>1, <2>1 DEF ReportInv
  <2>3. Projecting'
    BY <1>1, <1>5, <2>2, ScanDeclares
  <2>4. outcome' = NoOutcome
    BY <2>1, <2>2
  <2>5. ~Told'
    BY <2>4, NotTold
  <2>6. phase' # "done" => outcome' = NoOutcome
    BY <2>4
  <2>. QED
    BY <2>1, <2>3, <2>5, <2>6 DEF ReportInv
<1>6. CASE Projected
  <2>1. /\ phase = "projecting" /\ Plan.kind # "SCAN" /\ phase' = "done"
        /\ pin' = pin /\ index' = index /\ blocks' = blocks
        /\ Plan.kind # "CURSOR_AHEAD" => outcome' \in {Assembled(lost'), Failure}
    BY <1>6 DEF Projected, chain, Refused
  <2>2. Plan.kind = "UP_TO_DATE" /\ pin \in 0..HeadBlock /\ Stored(index, Pinned)
    BY <1>1, <2>1, ProjectedStored DEF ReportInv
  <2>3. outcome' \in {Assembled(lost'), Failure}
    BY <2>1, <2>2
  <2>4. Pinned' = Pinned /\ (\A missing : Assembled(missing)' = Assembled(missing)) /\ HeadBlock' = HeadBlock
    BY <2>1, SameReport DEF HeadBlock
  <2>5. CASE outcome' = Failure
    <3>1. ~Told'
      BY <2>5, NotTold
    <3>. QED
      BY <2>1, <3>1 DEF ReportInv
  <2>6. CASE outcome' = Assembled(lost')
    <3>1. \E missing \in {lost'} : outcome' = Assembled(missing)'
      BY <2>4, <2>6
    <3>2. pin' \in 0..HeadBlock' /\ Stored(index', Pinned')
      BY <2>1, <2>2, <2>4
    <3>. QED
      BY <2>1, <3>1, <3>2 DEF ReportInv
  <2>. QED
    BY <2>3, <2>5, <2>6
<1>7. CASE Again
  <2>1. phase' = "idle" /\ cursor' = NoCursor /\ index' = EmptyIndex /\ outcome' = NoOutcome
    BY <1>7 DEF Again
  <2>2. ~Told'
    BY <2>1, NotTold
  <2>. QED
    BY <2>1, <2>2 DEF ReportInv
<1>8. CASE UNCHANGED vars
  <2>1. /\ phase' = phase /\ pin' = pin /\ cursor' = cursor /\ index' = index /\ lost' = lost /\ outcome' = outcome
        /\ blocks' = blocks /\ highest' = highest
    BY <1>8 DEF vars
  <2>2. Pinned' = Pinned /\ (\A missing : Assembled(missing)' = Assembled(missing)) /\ HeadBlock' = HeadBlock
    BY <2>1, SameReport DEF HeadBlock
  <2>3. Projecting' = Projecting
    BY <2>1 DEF Projecting, EventsOf, Final
  <2>4. Told' = Told
    BY <2>1 DEF Told
  <2>. QED
    BY <1>1, <2>1, <2>2, <2>3, <2>4 DEF ReportInv
<1>. QED
  BY <1>2, <1>3, <1>4, <1>5, <1>6, <1>7, <1>8 DEF Next, Report

-----------------------------------------------------------------------------
(* The inductive invariant: in every reachable state each block holds what    *)
(* the logs up to it say (Votings.sol, Matricies.sol), and the index folded   *)
(* so far (matrixIndex.ts, generateMatrixReport.ts) is what the events up to  *)
(* the cursor declare, at a pin no reorganisation reaches.                    *)
THEOREM SpecInv == Spec => []Inv
<1>1. Init => Inv
  <2>1. Init => ChainInv
    BY ChainInit
  <2>2. Init => ReportInv
    BY NotTold DEF Init, ReportInv
  <2>. QED
    BY <2>1, <2>2 DEF Inv
<1>2. Inv /\ [Next]_vars => Inv'
  BY ChainNext, ReportNext DEF Inv
<1>. QED
  BY <1>1, <1>2, PTL DEF Spec

LEMMA StoredIs ==
  ASSUME Stored(index, Pinned)
  PROVE  /\ \A e \in Kinds \X Xs : index.themes[e].text = Pinned.themes[e]
         /\ \A e \in Kinds \X Ys : index.statements[e].text = Pinned.statements[e]
         /\ index.categorical = {at \in Xs \X Ys : Pinned.categories[at] # {}}
         /\ \A at \in index.numerical : BoundAt("NUMERICAL", at)
         /\ index.categorical \cup index.numerical \cup index.unattributed =
              {at \in Xs \X Ys : \E k \in Kinds : BoundAt(k, at)}
<1>1. \A k, at : BoundIn(Pinned, k, at) <=> BoundAt(k, at)
  BY DEF BoundIn, BoundAt
<1>2. index.categorical \subseteq Places /\ index.numerical \subseteq Places /\ index.unattributed \subseteq Places
  BY DEF Stored
<1>3. \A at \in Places : at \in index.categorical <=> Pinned.categories[at] # {}
  BY DEF Stored
<1>4. \A at \in Places :
        at \in index.categorical \cup index.numerical \cup index.unattributed <=> \E k \in Kinds : BoundAt(k, at)
  BY <1>1 DEF Stored
<1>5. \A at \in index.numerical : BoundAt("NUMERICAL", at)
  BY <1>1 DEF Stored
<1>6. index.categorical = {at \in Xs \X Ys : Pinned.categories[at] # {}}
  BY <1>2, <1>3 DEF Places
<1>7. index.categorical \cup index.numerical \cup index.unattributed =
        {at \in Xs \X Ys : \E k \in Kinds : BoundAt(k, at)}
  BY <1>2, <1>4 DEF Places
<1>8. /\ \A e \in Kinds \X Xs : index.themes[e].text = Pinned.themes[e]
      /\ \A e \in Kinds \X Ys : index.statements[e].text = Pinned.statements[e]
  BY DEF Stored
<1>. QED
  BY <1>5, <1>6, <1>7, <1>8

(* However the logs of votings are cut into windows, and in whatever order    *)
(* they are delivered, the completed projection (foldMatrixIndexWindow) is    *)
(* the contract's storage at the pinned block.                                *)
THEOREM IndexIsStorageHolds == Spec => []IndexIsStorage
<1>1. Inv => IndexIsStorage
  <2>. SUFFICES ASSUME Inv, CompleteProjection
                PROVE  Stored(index, Pinned)
    BY StoredIs DEF IndexIsStorage
  <2>1. phase = "projecting" /\ Plan.kind = "UP_TO_DATE"
    BY DEF CompleteProjection
  <2>2. ChainInv /\ Projecting
    BY <2>1 DEF Inv, ReportInv
  <2>. QED
    BY <2>1, <2>2, ProjectedStored
<1>. QED
  BY <1>1, SpecInv, PTL

(* The coordinates of the rows.                                               *)
LEMMA TargetsAre ==
  ASSUME NEW missing
  PROVE  /\ {t[2] : t \in Targets(missing)} = index.categorical \cup index.numerical \cup index.unattributed
         /\ \A t \in Targets(missing) : t = <<t[1], t[2]>> /\ t[1] \in Kinds
<1>1. \A at : Attribute(at, missing) # {} /\ Attribute(at, missing) \subseteq Kinds
  <2>1. Kinds # {}
    BY DEF Kinds
  <2>. QED
    BY <2>1 DEF Attribute
<1>2. "CATEGORICAL" \in Kinds /\ "NUMERICAL" \in Kinds
  BY DEF Kinds
<1>3. \A t \in Targets(missing) :
        /\ t = <<t[1], t[2]>> /\ t[1] \in Kinds
        /\ t[2] \in index.categorical \cup index.numerical \cup index.unattributed
  BY <1>1, <1>2 DEF Targets
<1>4. ASSUME NEW at \in index.categorical \cup index.numerical \cup index.unattributed
      PROVE  \E t \in Targets(missing) : t[2] = at
  <2>1. CASE at \in index.categorical
    <3>1. <<"CATEGORICAL", at>> \in Targets(missing)
      BY <2>1 DEF Targets
    <3>. QED
      BY <3>1
  <2>2. CASE at \in index.numerical
    <3>1. <<"NUMERICAL", at>> \in Targets(missing)
      BY <2>2 DEF Targets
    <3>. QED
      BY <3>1
  <2>3. CASE at \in index.unattributed
    <3>1. PICK k : k \in Attribute(at, missing)
      BY <1>1
    <3>2. <<k, at>> \in Attribute(at, missing) \X {at}
      BY <3>1
    <3>3. <<k, at>> \in Targets(missing)
      BY <2>3, <3>2 DEF Targets
    <3>. QED
      BY <3>3
  <2>. QED
    BY <2>1, <2>2, <2>3
<1>. QED
  BY <1>3, <1>4

LEMMA RowsAre ==
  ASSUME NEW missing, outcome = Assembled(missing), outcome.kind = "WRITTEN"
  PROVE  /\ ~NothingReadable(missing)
         /\ outcome.rows = {Row(t[1], t[2], missing) : t \in Targets(missing)}
         /\ outcome.axes = Axes(missing)
         /\ outcome.empty <=> Targets(missing) = {} /\ Axes(missing) = {}
<1>1. ~NothingReadable(missing)
  BY DEF Assembled
<1>. DEFINE rows == {Row(t[1], t[2], missing) : t \in Targets(missing)}
            nothing == Targets(missing) = {} /\ Axes(missing) = {}
<1>2. outcome = [kind |-> "WRITTEN", rows |-> rows, axes |-> Axes(missing), empty |-> nothing]
  BY <1>1 DEF Assembled
<1>3. nothing \in BOOLEAN
  OBVIOUS
<1>. HIDE DEF rows, nothing
<1>4. outcome.rows = rows /\ outcome.axes = Axes(missing) /\ outcome.empty = nothing
  BY <1>2
<1>5. outcome.empty <=> nothing
  BY <1>4
<1>. QED
  BY <1>1, <1>4, <1>5 DEF rows, nothing

(* Whichever reads fail, a written report (assembleMatrixReport) leaves out   *)
(* no coordinate of the pinned matrices, and shows no cell that is not there  *)
(* when every cell was read.                                                  *)
THEOREM CoordinatesSurviveHolds == Spec => []CoordinatesSurvive
<1>1. Inv => CoordinatesSurvive
  <2>. SUFFICES ASSUME Inv, outcome.kind = "WRITTEN"
                PROVE  /\ {at \in Xs \X Ys : \E k \in Kinds : BoundAt(k, at)} = {r.at : r \in outcome.rows}
                       /\ lost \cap CellReads = {} => \A r \in outcome.rows : BoundAt(r.matrix, r.at)
    BY DEF CoordinatesSurvive
  <2>1. /\ outcome = Assembled(lost) /\ pin \in 0..HeadBlock /\ Stored(index, Pinned)
        /\ ChainType /\ ChainFollows
    BY DEF Inv, ReportInv, Told, ChainInv
  <2>2. outcome.rows = {Row(t[1], t[2], lost) : t \in Targets(lost)}
    BY <2>1, RowsAre
  <2>3. \A k, at : Row(k, at, lost).matrix = k /\ Row(k, at, lost).at = at
    BY DEF Row
  <2>4. {r.at : r \in outcome.rows} = {t[2] : t \in Targets(lost)}
    BY <2>2, <2>3
  <2>5. {at \in Xs \X Ys : \E k \in Kinds : BoundAt(k, at)} = {r.at : r \in outcome.rows}
    BY <2>1, <2>4, StoredIs, TargetsAre
  <2>6. ASSUME lost \cap CellReads = {}, NEW t \in Targets(lost)
        PROVE  BoundAt(t[1], t[2])
    <3>1. CellsBound(Pinned)
      <4>1. Follows(Block(pin), LogsOf(blocks, 1, pin))
        BY <2>1 DEF ChainFollows
      <4>. QED
        BY <4>1 DEF Follows, Pinned
    <3>2. /\ index.categorical = {at \in Xs \X Ys : Pinned.categories[at] # {}}
          /\ \A at \in index.numerical : BoundAt("NUMERICAL", at)
          /\ index.categorical \cup index.numerical \cup index.unattributed =
              {at \in Xs \X Ys : \E k \in Kinds : BoundAt(k, at)}
      BY <2>1, StoredIs
    <3>3. CASE t \in {"CATEGORICAL"} \X index.categorical
      <4>1. t[1] = "CATEGORICAL" /\ t[2] \in Places /\ Pinned.categories[t[2]] # {}
        BY <3>2, <3>3 DEF Places
      <4>. QED
        BY <3>1, <4>1 DEF CellsBound, BoundIn, BoundAt
    <3>4. CASE t \in {"NUMERICAL"} \X index.numerical
      <4>1. t[1] = "NUMERICAL" /\ t[2] \in index.numerical
        BY <3>4
      <4>. QED
        BY <3>2, <4>1
    <3>5. ASSUME NEW at \in index.unattributed, t \in Attribute(at, lost) \X {at}
          PROVE  BoundAt(t[1], t[2])
      <4>1. at \in Xs \X Ys /\ \E k \in Kinds : BoundAt(k, at)
        BY <3>2
      <4>2. \A k \in Kinds : CellRead(k, at) \in CellReads
        BY <4>1 DEF CellReads
      <4>3. {CellRead(k, at) : k \in Kinds} \cap lost = {}
        BY <2>6, <4>2
      <4>4. Attribute(at, lost) = {k \in Kinds : BoundAt(k, at)}
        BY <4>1, <4>3 DEF Attribute
      <4>. QED
        BY <3>5, <4>4
    <3>. QED
      BY <3>3, <3>4, <3>5 DEF Targets
  <2>. QED
    BY <2>2, <2>3, <2>5, <2>6
<1>. QED
  BY <1>1, SpecInv, PTL

LEMMA SomeRead ==
  ASSUME NEW missing, Targets(missing) # {}, ~NothingReadable(missing)
  PROVE  \/ \E t \in Targets(missing) : Row(t[1], t[2], missing).unread # {"CELL", "VALUE", "THEME", "STATEMENT"}
         \/ \E label \in Axes(missing) : label[4] # "UNREAD"
<1>1. PICK r \in Attempted(missing) : r \notin missing
  BY DEF NothingReadable
<1>2. ASSUME NEW t \in Targets(missing), r \in RowReads(t[1], t[2])
      PROVE  Row(t[1], t[2], missing).unread # {"CELL", "VALUE", "THEME", "STATEMENT"}
  <2>1. \A q \in RowReads(t[1], t[2]) : q[1] = r[1] => q = r
    BY <1>2 DEF RowReads, CellRead, ValueRead, ThemeRead, StatementRead
  <2>2. r[1] \in {"CELL", "VALUE", "THEME", "STATEMENT"}
    BY <1>2 DEF RowReads, CellRead, ValueRead, ThemeRead, StatementRead
  <2>3. Row(t[1], t[2], missing).unread = {q[1] : q \in RowReads(t[1], t[2]) \cap missing}
    BY DEF Row
  <2>4. r[1] \notin {q[1] : q \in RowReads(t[1], t[2]) \cap missing}
    BY <1>1, <2>1
  <2>. QED
    BY <2>2, <2>3, <2>4
<1>3. ASSUME NEW k \in Kinds, NEW at \in index.unattributed, r = CellRead(k, at)
      PROVE  \E t \in Targets(missing) : CellRead(k, at) = CellRead(t[1], t[2]) \/ CellRead(t[1], t[2]) \notin missing
  <2>1. \E j \in Attribute(at, missing) : j = k \/ CellRead(j, at) \notin missing
    <3>1. CASE Attribute(at, missing) = Kinds
      BY <3>1
    <3>2. CASE Attribute(at, missing) # Kinds
      <4>1. {CellRead(j, at) : j \in Kinds} \cap missing = {} /\ \E j \in Kinds : BoundAt(j, at)
        BY <3>2 DEF Attribute
      <4>2. Attribute(at, missing) = {j \in Kinds : BoundAt(j, at)}
        BY <4>1 DEF Attribute
      <4>. QED
        BY <4>1, <4>2
    <3>. QED
      BY <3>1, <3>2
  <2>2. PICK j \in Attribute(at, missing) : j = k \/ CellRead(j, at) \notin missing
    BY <2>1
  <2>3. <<j, at>> \in Attribute(at, missing) \X {at}
    OBVIOUS
  <2>4. <<j, at>> \in Targets(missing)
    BY <2>3 DEF Targets
  <2>. QED
    BY <2>2, <2>4
<1>4. ASSUME NEW t \in Targets(missing), CellRead(t[1], t[2]) \notin missing
      PROVE  Row(t[1], t[2], missing).unread # {"CELL", "VALUE", "THEME", "STATEMENT"}
  <2>1. Row(t[1], t[2], missing).unread = {q[1] : q \in RowReads(t[1], t[2]) \cap missing}
    BY DEF Row
  <2>2. \A q \in RowReads(t[1], t[2]) : q[1] = "CELL" => q = CellRead(t[1], t[2])
    BY DEF RowReads, CellRead, ValueRead, ThemeRead, StatementRead
  <2>3. "CELL" \notin {q[1] : q \in RowReads(t[1], t[2]) \cap missing}
    BY <1>4, <2>2
  <2>. QED
    BY <2>1, <2>3
<1>5. \A text, onChain : Confirmation(text, onChain, r, missing) # "UNREAD"
  BY <1>1 DEF Confirmation
<1>6. ASSUME NEW e \in Themes, r = ThemeRead(e[1], e[2]) PROVE \E label \in Axes(missing) : label[4] # "UNREAD"
  <2>. DEFINE c == Confirmation(index.themes[e].text, Pinned.themes[e], ThemeRead(e[1], e[2]), missing)
  <2>1. c # "UNREAD"
    BY <1>5, <1>6
  <2>2. <<"THEME", e[1], e[2], c>> \in Axes(missing)
    BY DEF Axes
  <2>. HIDE DEF c
  <2>. QED
    BY <2>1, <2>2
<1>7. ASSUME NEW e \in Statements, r = StatementRead(e[1], e[2]) PROVE \E label \in Axes(missing) : label[4] # "UNREAD"
  <2>. DEFINE c == Confirmation(index.statements[e].text, Pinned.statements[e], StatementRead(e[1], e[2]), missing)
  <2>1. c # "UNREAD"
    BY <1>5, <1>7
  <2>2. <<"STATEMENT", e[1], e[2], c>> \in Axes(missing)
    BY DEF Axes
  <2>. HIDE DEF c
  <2>. QED
    BY <2>1, <2>2
<1>8. \/ \E t \in Targets(missing) : r \in RowReads(t[1], t[2])
      \/ \E k \in Kinds, at \in index.unattributed : r = CellRead(k, at)
      \/ \E e \in Themes : r = ThemeRead(e[1], e[2])
      \/ \E e \in Statements : r = StatementRead(e[1], e[2])
  <2>. DEFINE rows == UNION {RowReads(t[1], t[2]) : t \in Targets(missing)}
              cells == {CellRead(k, at) : k \in Kinds, at \in index.unattributed}
              themes == {ThemeRead(e[1], e[2]) : e \in Themes}
              statements == {StatementRead(e[1], e[2]) : e \in Statements}
  <2>1. r \in rows \/ r \in cells \/ r \in themes \/ r \in statements
    BY DEF Attempted
  <2>2. r \in rows => \E t \in Targets(missing) : r \in RowReads(t[1], t[2])
    OBVIOUS
  <2>3. r \in cells => \E k \in Kinds, at \in index.unattributed : r = CellRead(k, at)
    OBVIOUS
  <2>4. r \in themes => \E e \in Themes : r = ThemeRead(e[1], e[2])
    OBVIOUS
  <2>5. r \in statements => \E e \in Statements : r = StatementRead(e[1], e[2])
    OBVIOUS
  <2>. HIDE DEF rows, cells, themes, statements
  <2>. QED
    BY <2>1, <2>2, <2>3, <2>4, <2>5
<1>9. CASE \E k \in Kinds, at \in index.unattributed : r = CellRead(k, at)
  <2>1. \E t \in Targets(missing) : CellRead(t[1], t[2]) \notin missing
    BY <1>1, <1>3, <1>9
  <2>. QED
    BY <1>4, <2>1
<1>. QED
  BY <1>2, <1>6, <1>7, <1>8, <1>9

(* There are no rows and no labels where nothing is stored.                   *)
LEMMA NothingIsEmpty ==
  ASSUME NEW missing, Stored(index, Pinned), MatriciesType(Pinned), CellsBound(Pinned)
  PROVE  /\ Targets(missing) = {} /\ Axes(missing) = {} => Pinned = EmptyMatricies
         /\ Pinned = EmptyMatricies => Targets(missing) = {} /\ Axes(missing) = {}
<1>1. Targets(missing) = {} <=> index.categorical \cup index.numerical \cup index.unattributed = {}
  BY TargetsAre
<1>2. index.categorical \cup index.numerical \cup index.unattributed =
        {at \in Xs \X Ys : \E k \in Kinds : BoundAt(k, at)}
  BY StoredIs
<1>3. Targets(missing) = {} <=> \A at \in Places, k \in Kinds : ~BoundIn(Pinned, k, at)
  BY <1>1, <1>2 DEF Places, BoundIn, BoundAt
<1>4. Axes(missing) = {} <=> Themes = {} /\ Statements = {}
  BY DEF Axes
<1>5. Themes = {} <=> \A h \in Kinds \X Xs : Pinned.themes[h] = NoText
  BY DEF Themes, Stored, NoEntry
<1>6. Statements = {} <=> \A h \in Kinds \X Ys : Pinned.statements[h] = NoText
  BY DEF Statements, Stored, NoEntry
<1>7. ASSUME Targets(missing) = {}, Axes(missing) = {} PROVE Pinned = EmptyMatricies
  <2>. DEFINE m == Pinned
  <2>1. Pinned.themes = [h \in Kinds \X Xs |-> NoText]
    BY <1>4, <1>5, <1>7 DEF MatriciesType
  <2>2. Pinned.statements = [h \in Kinds \X Ys |-> NoText]
    BY <1>4, <1>6, <1>7 DEF MatriciesType
  <2>3. \A at \in Places, k \in Kinds : ~BoundIn(Pinned, k, at)
    BY <1>3, <1>7
  <2>4. \A c \in Cells : c = <<c[1], c[2], c[3]>> /\ c[1] \in Kinds /\ <<c[2], c[3]>> \in Places
    BY DEF Cells, Places
  <2>5. \A c \in Cells : Pinned.organs[c] = NoOrgan
    <3>. SUFFICES ASSUME NEW c \in Cells PROVE Pinned.organs[c] = NoOrgan
      OBVIOUS
    <3>1. ~BoundIn(Pinned, c[1], <<c[2], c[3]>>)
      BY <2>3, <2>4
    <3>. QED
      BY <2>4, <3>1 DEF BoundIn
  <2>6. \A c \in Cells : Pinned.samples[c] = << >>
    <3>. SUFFICES ASSUME NEW c \in Cells PROVE Pinned.samples[c] = << >>
      OBVIOUS
    <3>1. ~BoundIn(Pinned, c[1], <<c[2], c[3]>>) /\ c[1] \in Kinds /\ <<c[2], c[3]>> \in Places
      BY <2>3, <2>4
    <3>. QED
      BY <2>4, <3>1 DEF CellsBound
  <2>7. "CATEGORICAL" \in Kinds /\ "NUMERICAL" \in Kinds
    BY DEF Kinds
  <2>8. \A at \in Places : Pinned.categories[at] = {} /\ Pinned.decimals[at] = 0
    BY <2>3, <2>7 DEF CellsBound
  <2>9. Pinned.organs = [c \in Cells |-> NoOrgan] /\ Pinned.samples = [c \in Cells |-> << >>]
    <3>1. Pinned.organs = [c \in Cells |-> Pinned.organs[c]] /\ Pinned.samples = [c \in Cells |-> Pinned.samples[c]]
      BY DEF MatriciesType
    <3>. QED
      BY <2>5, <2>6, <3>1
  <2>10. Pinned.categories = [at \in Places |-> {}] /\ Pinned.decimals = [at \in Places |-> 0]
    <3>1. /\ Pinned.categories = [at \in Places |-> Pinned.categories[at]]
          /\ Pinned.decimals = [at \in Places |-> Pinned.decimals[at]]
      BY DEF MatriciesType
    <3>. QED
      BY <2>8, <3>1
  <2>11. Pinned = [themes |-> Pinned.themes, statements |-> Pinned.statements, organs |-> Pinned.organs,
                   categories |-> Pinned.categories, decimals |-> Pinned.decimals, samples |-> Pinned.samples]
    BY DEF MatriciesType
  <2>. QED
    BY <2>1, <2>2, <2>9, <2>10, <2>11 DEF EmptyMatricies, Places
<1>8. ASSUME Pinned = EmptyMatricies PROVE Targets(missing) = {} /\ Axes(missing) = {}
  <2>1. \A at \in Places, k \in Kinds : ~BoundIn(Pinned, k, at)
    BY <1>8 DEF BoundIn, EmptyMatricies, Cells, Places
  <2>2. /\ \A h \in Kinds \X Xs : Pinned.themes[h] = NoText
        /\ \A h \in Kinds \X Ys : Pinned.statements[h] = NoText
    BY <1>8 DEF EmptyMatricies
  <2>. QED
    BY <1>3, <1>4, <1>5, <1>6, <2>1, <2>2
<1>. QED
  BY <1>7, <1>8

(* Whichever reads fail, a report in which nothing was read is refused, and   *)
(* one that calls the matrices empty is of empty matrices                     *)
(* (assembleMatrixReport's whole-outage check).                               *)
THEOREM OutageIsNotEmptyHolds == Spec => []OutageIsNotEmpty
<1>1. ASSUME Inv, Told
      PROVE  /\ outcome = Assembled(lost) /\ Stored(index, Pinned)
             /\ MatriciesType(Pinned) /\ CellsBound(Pinned)
  <2>1. outcome = Assembled(lost) /\ pin \in 0..HeadBlock /\ Stored(index, Pinned) /\ ChainFollows
    BY <1>1 DEF Inv, ReportInv, ChainInv
  <2>2. Follows(Block(pin), LogsOf(blocks, 1, pin))
    BY <2>1 DEF ChainFollows
  <2>. QED
    BY <2>1, <2>2 DEF Follows, Pinned
<1>2. ASSUME Inv, outcome.kind = "WRITTEN"
      PROVE  /\ \/ outcome.rows = {}
                \/ \E r \in outcome.rows : r.unread # {"CELL", "VALUE", "THEME", "STATEMENT"}
                \/ \E label \in outcome.axes : label[4] # "UNREAD"
             /\ outcome.empty <=> Pinned = EmptyMatricies
  <2>1. /\ outcome = Assembled(lost) /\ Stored(index, Pinned)
        /\ MatriciesType(Pinned) /\ CellsBound(Pinned)
    BY <1>1, <1>2 DEF Told
  <2>2. /\ ~NothingReadable(lost)
        /\ outcome.rows = {Row(t[1], t[2], lost) : t \in Targets(lost)}
        /\ outcome.axes = Axes(lost)
        /\ outcome.empty <=> Targets(lost) = {} /\ Axes(lost) = {}
    BY <1>2, <2>1, RowsAre
  <2>3. \/ outcome.rows = {}
        \/ \E r \in outcome.rows : r.unread # {"CELL", "VALUE", "THEME", "STATEMENT"}
        \/ \E label \in outcome.axes : label[4] # "UNREAD"
    <3>1. CASE Targets(lost) = {}
      BY <2>2, <3>1
    <3>2. CASE Targets(lost) # {}
      BY <2>2, <3>2, SomeRead
    <3>. QED
      BY <3>1, <3>2
  <2>4. outcome.empty <=> Pinned = EmptyMatricies
    BY <2>1, <2>2, NothingIsEmpty
  <2>. QED
    BY <2>3, <2>4
<1>3. ASSUME Inv, outcome = [kind |-> "REFUSED", code |-> "NOTHING_READABLE"] PROVE Pinned # EmptyMatricies
  <2>1. /\ outcome = Assembled(lost) /\ Stored(index, Pinned)
        /\ MatriciesType(Pinned) /\ CellsBound(Pinned)
    BY <1>1, <1>3 DEF Told
  <2>2. outcome.kind = "REFUSED"
    BY <1>3
  <2>3. NothingReadable(lost)
    BY <2>1, <2>2 DEF Assembled
  <2>. QED
    BY <2>1, <2>3, NothingIsEmpty DEF NothingReadable
<1>4. Inv => OutageIsNotEmpty
  BY <1>2, <1>3 DEF OutageIsNotEmpty
<1>. QED
  BY <1>4, SpecInv, PTL

-----------------------------------------------------------------------------
(* Warnings.                                                                  *)
FailsFirst(guards, k) == guards[k][1] /\ \A j \in 1..(k - 1) : ~guards[j][1]

LEMMA FirstErrorAt ==
  ASSUME NEW n \in 1..4, NEW guards, DOMAIN guards = 1..n, NEW k \in 1..n, FailsFirst(guards, k)
  PROVE  FirstError(guards) = guards[k][2]
<1>1. \A i \in 1..n : FailsFirst(guards, i) => i = k
  <2>. SUFFICES ASSUME NEW i \in 1..n, FailsFirst(guards, i) PROVE i = k
    OBVIOUS
  <2>1. ~(k \in 1..(i - 1)) /\ ~(i \in 1..(k - 1))
    BY DEF FailsFirst
  <2>. QED
    BY <2>1
<1>2. FirstError(guards) = guards[CHOOSE i \in 1..n : FailsFirst(guards, i)][2]
  BY DEF FirstError, FailsFirst
<1>3. (CHOOSE i \in 1..n : FailsFirst(guards, i)) = k
  BY <1>1
<1>. QED
  BY <1>2, <1>3

(* The error of up to four guards.                                            *)
LEMMA ErrorOf ==
  ASSUME NEW n \in 1..4, NEW guards, DOMAIN guards = 1..n, \A i \in 1..n : guards[i][1] \in BOOLEAN
  PROVE  /\ guards[1][1] => FirstError(guards) = guards[1][2]
         /\ n >= 2 /\ ~guards[1][1] /\ guards[2][1] => FirstError(guards) = guards[2][2]
         /\ n >= 3 /\ ~guards[1][1] /\ ~guards[2][1] /\ guards[3][1] => FirstError(guards) = guards[3][2]
         /\ n = 4 /\ ~guards[1][1] /\ ~guards[2][1] /\ ~guards[3][1] /\ guards[4][1] => FirstError(guards) = guards[4][2]
         /\ (\A i \in 1..n : ~guards[i][1]) => FirstError(guards) = NoError
<1>1. ASSUME guards[1][1] PROVE FirstError(guards) = guards[1][2]
  <2>1. 1 \in 1..n /\ FailsFirst(guards, 1)
    BY <1>1 DEF FailsFirst
  <2>. QED
    BY <2>1, FirstErrorAt
<1>2. ASSUME n >= 2, ~guards[1][1], guards[2][1] PROVE FirstError(guards) = guards[2][2]
  <2>1. 2 \in 1..n /\ \A j \in 1..(2 - 1) : j = 1
    BY <1>2
  <2>2. FailsFirst(guards, 2)
    BY <1>2, <2>1 DEF FailsFirst
  <2>. QED
    BY <2>1, <2>2, FirstErrorAt
<1>3. ASSUME n >= 3, ~guards[1][1], ~guards[2][1], guards[3][1] PROVE FirstError(guards) = guards[3][2]
  <2>1. 3 \in 1..n /\ \A j \in 1..(3 - 1) : j = 1 \/ j = 2
    BY <1>3
  <2>2. FailsFirst(guards, 3)
    BY <1>3, <2>1 DEF FailsFirst
  <2>. QED
    BY <2>1, <2>2, FirstErrorAt
<1>4. ASSUME n = 4, ~guards[1][1], ~guards[2][1], ~guards[3][1], guards[4][1]
      PROVE  FirstError(guards) = guards[4][2]
  <2>1. 4 \in 1..n /\ \A j \in 1..(4 - 1) : j = 1 \/ j = 2 \/ j = 3
    BY <1>4
  <2>2. FailsFirst(guards, 4)
    BY <1>4, <2>1 DEF FailsFirst
  <2>. QED
    BY <2>1, <2>2, FirstErrorAt
<1>5. ASSUME \A i \in 1..n : ~guards[i][1] PROVE FirstError(guards) = NoError
  BY <1>5 DEF FirstError
<1>. QED
  BY <1>1, <1>2, <1>3, <1>4, <1>5

(* A list of what holds.                                                      *)
When(cond, warning) == IF cond THEN <<warning>> ELSE << >>

LEMMA WhenIs ==
  ASSUME NEW c \in BOOLEAN, NEW S, NEW w \in S
  PROVE  /\ When(c, w) \in Seq(S)
         /\ c => Len(When(c, w)) = 1 /\ When(c, w)[1] = w
         /\ ~c => When(c, w) = << >>
<1>1. << w >> \in Seq(S) /\ << >> \in Seq(S) /\ Len(<< w >>) = 1 /\ << w >>[1] = w
  OBVIOUS
<1>2. CASE c
  <2>1. When(c, w) = << w >>
    BY <1>2 DEF When
  <2>. QED
    BY <1>1, <1>2, <2>1
<1>3. CASE ~c
  <2>1. When(c, w) = << >>
    BY <1>3 DEF When
  <2>. QED
    BY <1>1, <1>3, <2>1
<1>. QED
  BY <1>2, <1>3

LEMMA Joined ==
  ASSUME NEW S, NEW p \in Seq(S), NEW q \in Seq(S)
  PROVE  /\ p \o q \in Seq(S) /\ Len(p \o q) = Len(p) + Len(q)
         /\ p = << >> => p \o q = q
         /\ q = << >> => p \o q = p
         /\ p # << >> => (p \o q)[1] = p[1]
         /\ p \o q = << >> <=> p = << >> /\ q = << >>
         /\ p # << >> <=> Len(p) > 0
<1>1. Len(p) \in Nat /\ Len(q) \in Nat
  BY LenProperties
<1>2. p \o q \in Seq(S) /\ Len(p \o q) = Len(p) + Len(q)
  BY ConcatProperties
<1>3. p = << >> => p \o q = q
  BY ConcatEmptySeq
<1>4. q = << >> => p \o q = p
  BY ConcatEmptySeq
<1>5. p # << >> <=> Len(p) > 0
  BY <1>1, EmptySeq
<1>6. p # << >> => (p \o q)[1] = p[1]
  <2>1. p # << >> => 1 \in 1..Len(p)
    BY <1>1, <1>5
  <2>. QED
    BY <2>1, ConcatProperties
<1>7. p \o q = << >> <=> p = << >> /\ q = << >>
  <2>. DEFINE r == p \o q
  <2>1. r \in Seq(S) /\ Len(r) = Len(p) + Len(q)
    BY <1>2
  <2>. HIDE DEF r
  <2>2. (r = << >> <=> Len(r) = 0) /\ (p = << >> <=> Len(p) = 0) /\ (q = << >> <=> Len(q) = 0)
    BY <2>1, EmptySeq
  <2>3. r = << >> <=> p = << >> /\ q = << >>
    BY <1>1, <2>1, <2>2
  <2>. QED
    BY <2>3 DEF r
<1>. QED
  BY <1>2, <1>3, <1>4, <1>5, <1>6, <1>7

(* The first of a gap, two labels and up to two warnings of the cell.         *)
Listing(g, a, b, c, r, d, t) ==
  (When(g, Unread) \o (When(a, "NoThemeSet") \o When(b, "NoStatementSet"))) \o (When(c, r) \o When(d, t))

Says(told, g, a, b, c, r, d, t) ==
  /\ ~g /\ ~a /\ ~b /\ ~c /\ ~d => told = << >>
  /\ ~g /\ (a \/ b \/ c \/ d) => told # << >>
  /\ ~g /\ a => told[1] = "NoThemeSet"
  /\ ~g /\ ~a /\ b => told[1] = "NoStatementSet"
  /\ ~g /\ ~a /\ ~b /\ c => told[1] = r
  /\ ~g /\ ~a /\ ~b /\ ~c /\ d => told[1] = t
  /\ g => told[1] = Unread
  /\ g /\ Len(told) > 1 => a \/ b \/ c \/ d

LEMMA ToldIs ==
  ASSUME NEW g \in BOOLEAN, NEW a \in BOOLEAN, NEW b \in BOOLEAN, NEW c \in BOOLEAN, NEW d \in BOOLEAN,
         NEW r, NEW t, NEW told, told = Listing(g, a, b, c, r, d, t)
  PROVE  Says(told, g, a, b, c, r, d, t)
<1>1. PICK u, p, q : u = Unread /\ p = "NoThemeSet" /\ q = "NoStatementSet"
  OBVIOUS
<1>. DEFINE S == {u, p, q, r, t}
            G == When(g, u)
            A == When(a, p)
            B == When(b, q)
            C == When(c, r)
            D == When(d, t)
<1>2. u \in S /\ p \in S /\ q \in S /\ r \in S /\ t \in S
  OBVIOUS
<1>3. /\ G \in Seq(S) /\ A \in Seq(S) /\ B \in Seq(S) /\ C \in Seq(S) /\ D \in Seq(S)
  <2>. HIDE DEF S
  <2>. QED
    BY <1>2, WhenIs
<1>4. /\ (g => Len(G) = 1 /\ G[1] = u) /\ (~g => G = << >>)
      /\ (a => Len(A) = 1 /\ A[1] = p) /\ (~a => A = << >>)
      /\ (b => Len(B) = 1 /\ B[1] = q) /\ (~b => B = << >>)
      /\ (c => Len(C) = 1 /\ C[1] = r) /\ (~c => C = << >>)
      /\ (d => Len(D) = 1 /\ D[1] = t) /\ (~d => D = << >>)
  <2>. HIDE DEF S
  <2>. QED
    BY <1>2, WhenIs
<1>5. told = (G \o (A \o B)) \o (C \o D)
  BY <1>1 DEF Listing
<1>. HIDE DEF S, G, A, B, C, D
<1>. DEFINE AB == A \o B
            CD == C \o D
            H == G \o AB
<1>6. /\ AB \in Seq(S)
      /\ A = << >> => AB = B
      /\ A # << >> => AB[1] = A[1]
      /\ AB = << >> <=> A = << >> /\ B = << >>
  BY <1>3, Joined
<1>7. /\ CD \in Seq(S)
      /\ C = << >> => CD = D
      /\ C # << >> => CD[1] = C[1]
      /\ CD = << >> <=> C = << >> /\ D = << >>
  BY <1>3, Joined
<1>. HIDE DEF AB, CD
<1>8. /\ H \in Seq(S)
      /\ G = << >> => H = AB
      /\ AB = << >> => H = G
      /\ G # << >> => H[1] = G[1]
      /\ H = << >> <=> G = << >> /\ AB = << >>
  BY <1>3, <1>6, Joined
<1>9. told = H \o CD
  BY <1>5 DEF AB, CD
<1>. HIDE DEF H
<1>10. /\ H = << >> => told = CD
       /\ CD = << >> => told = H
       /\ H # << >> => told[1] = H[1]
       /\ told = << >> <=> H = << >> /\ CD = << >>
  BY <1>7, <1>8, <1>9, Joined
<1>11. /\ g <=> G # << >>
       /\ a <=> A # << >>
       /\ b <=> B # << >>
       /\ c <=> C # << >>
       /\ d <=> D # << >>
  <2>1. Len(<< >>) = 0
    OBVIOUS
  <2>. QED
    BY <1>4, <2>1
<1>12. ASSUME ~g, ~a, ~b, ~c, ~d PROVE told = << >>
  BY <1>6, <1>7, <1>8, <1>10, <1>11, <1>12
<1>13. ASSUME ~g, a \/ b \/ c \/ d PROVE told # << >>
  BY <1>6, <1>7, <1>8, <1>10, <1>11, <1>13
<1>14. ASSUME ~g, a PROVE told[1] = p
  BY <1>4, <1>6, <1>8, <1>10, <1>11, <1>14
<1>15. ASSUME ~g, ~a, b PROVE told[1] = q
  BY <1>4, <1>6, <1>8, <1>10, <1>11, <1>15
<1>16. ASSUME ~g, ~a, ~b, c PROVE told[1] = r
  BY <1>4, <1>6, <1>7, <1>8, <1>10, <1>11, <1>16
<1>17. ASSUME ~g, ~a, ~b, ~c, d PROVE told[1] = t
  BY <1>4, <1>6, <1>7, <1>8, <1>10, <1>11, <1>17
<1>18. ASSUME g PROVE told[1] = u
  BY <1>4, <1>6, <1>8, <1>10, <1>11, <1>18
<1>19. ASSUME g, Len(told) > 1 PROVE a \/ b \/ c \/ d
  <2>. SUFFICES ASSUME ~a, ~b, ~c, ~d PROVE FALSE
    OBVIOUS
  <2>1. told = G
    BY <1>6, <1>7, <1>8, <1>10, <1>11
  <2>2. Len(told) = 1
    BY <1>4, <1>19, <2>1
  <2>3. ~(1 > 1)
    OBVIOUS
  <2>. QED
    BY <1>19, <2>2, <2>3
<1>. QED
  BY <1>1, <1>12, <1>13, <1>14, <1>15, <1>16, <1>17, <1>18, <1>19 DEF Says

(* A proposal's warnings are such a list.                                     *)
Gap(s, read) == ~(ApplicationReads(s) \subseteq read)
ThemeGone(m, s, read) == "theme" \in LabelReads(s) \cap read /\ NoThemeAt(m, s)
StatementGone(m, s, read) == "statement" \in LabelReads(s) \cap read /\ NoStatementAt(m, s)

(* The warnings that say what the cell has against proposal s.                *)
CellSays(m, s, read, c, r, d, t) ==
  \/ s.type = "CategoricalValue" /\ r = "InvalidCategory" /\ ~d
     /\ (c <=> "cell" \in read /\ (BoundElsewhere(m, s) \/ s.value \notin m.categories[PlaceOf(s)]))
  \/ s.type = "Category" /\ r = "InvalidOrgan" /\ t = "CategoryAlreadyExists"
     /\ (c <=> "cell" \in read /\ BoundElsewhere(m, s))
     /\ (d <=> "cell" \in read /\ s.value \in m.categories[PlaceOf(s)])
  \/ s.type \in {"Decimals", "NumericalValue"} /\ r = "InvalidOrgan" /\ ~d
     /\ (c <=> "cell" \in read /\ BoundElsewhere(m, s))
  \/ s.type \in {"Theme", "Statement"} /\ ~c /\ ~d

LEMMA NothingMore ==
  ASSUME NEW p, NEW S, p \in Seq(S)
  PROVE  p \o << >> = p /\ << >> \o << >> = << >>
<1>1. << >> \in Seq(S)
  OBVIOUS
<1>. QED
  BY <1>1, Joined

LabelsSay(m, s, read, g, a, b) ==
  (g <=> Gap(s, read)) /\ (a <=> ThemeGone(m, s, read)) /\ (b <=> StatementGone(m, s, read))

LEMMA WarningsAre ==
  ASSUME NEW m, NEW s, NEW read, NEW g \in BOOLEAN, NEW a \in BOOLEAN, NEW b \in BOOLEAN,
         LabelsSay(m, s, read, g, a, b),
         NEW c \in BOOLEAN, NEW d \in BOOLEAN, NEW r, NEW t, CellSays(m, s, read, c, r, d, t)
  PROVE  Warnings(m, s, read) = Listing(g, a, b, c, r, d, t)
<1>. DEFINE gap == IF ~(ApplicationReads(s) \subseteq read) THEN << Unread >> ELSE << >>
            theme == IF "theme" \in LabelReads(s) \cap read /\ NoThemeAt(m, s) THEN << "NoThemeSet" >> ELSE << >>
            statement == IF "statement" \in LabelReads(s) \cap read /\ NoStatementAt(m, s)
                         THEN << "NoStatementSet" >> ELSE << >>
            wrong == IF "cell" \in read /\ (BoundElsewhere(m, s) \/ s.value \notin m.categories[PlaceOf(s)])
                     THEN << "InvalidCategory" >> ELSE << >>
            bound == IF "cell" \in read /\ BoundElsewhere(m, s) THEN << "InvalidOrgan" >> ELSE << >>
            known == IF "cell" \in read /\ s.value \in m.categories[PlaceOf(s)]
                     THEN << "CategoryAlreadyExists" >> ELSE << >>
            last == CASE s.type = "CategoricalValue" -> wrong
                      [] s.type = "Category" -> bound \o known
                      [] s.type \in {"Decimals", "NumericalValue"} -> bound
                      [] OTHER -> << >>
<1>1. Warnings(m, s, read) = gap \o (theme \o statement) \o last
  BY DEF Warnings
<1>2. gap = When(g, Unread) /\ theme = When(a, "NoThemeSet") /\ statement = When(b, "NoStatementSet")
  <2>1. gap = When(g, Unread)
    BY DEF When, LabelsSay, Gap
  <2>2. theme = When(a, "NoThemeSet")
    BY DEF When, LabelsSay, ThemeGone
  <2>3. statement = When(b, "NoStatementSet")
    BY DEF When, LabelsSay, StatementGone
  <2>. QED
    BY <2>1, <2>2, <2>3
<1>3. ~c => When(c, r) = << >>
  BY DEF When
<1>4. ~d => When(d, t) = << >>
  BY DEF When
<1>5. When(c, r) \in Seq({r})
  BY WhenIs
<1>6. When(c, r) \o << >> = When(c, r) /\ << >> \o << >> = << >>
  BY <1>5, NothingMore
<1>7. last = When(c, r) \o When(d, t)
  <2>1. CASE s.type = "CategoricalValue"
    <3>1. (c <=> "cell" \in read /\ (BoundElsewhere(m, s) \/ s.value \notin m.categories[PlaceOf(s)])) /\ r = "InvalidCategory" /\ ~d
      BY <2>1 DEF CellSays
    <3>2. wrong = When(c, r)
      BY <3>1 DEF When
    <3>3. last = wrong
      <4>. HIDE DEF wrong, bound, known
      <4>. QED
        BY <2>1
    <3>. HIDE DEF last, wrong
    <3>. QED
      BY <1>4, <1>6, <3>1, <3>2, <3>3
  <2>2. CASE s.type = "Category"
    <3>1. /\ r = "InvalidOrgan" /\ t = "CategoryAlreadyExists" /\ (c <=> "cell" \in read /\ BoundElsewhere(m, s))
          /\ (d <=> "cell" \in read /\ s.value \in m.categories[PlaceOf(s)])
      BY <2>2 DEF CellSays
    <3>2. bound = When(c, r)
      BY <3>1 DEF When
    <3>3. known = When(d, t)
      BY <3>1 DEF When
    <3>4. last = bound \o known
      <4>. HIDE DEF wrong, bound, known
      <4>. QED
        BY <2>2
    <3>. HIDE DEF last, bound, known
    <3>. QED
      BY <3>2, <3>3, <3>4
  <2>3. CASE s.type \in {"Decimals", "NumericalValue"}
    <3>1. r = "InvalidOrgan" /\ (c <=> "cell" \in read /\ BoundElsewhere(m, s)) /\ ~d
      BY <2>3 DEF CellSays
    <3>2. bound = When(c, r)
      BY <3>1 DEF When
    <3>3. last = bound
      <4>. HIDE DEF wrong, bound, known
      <4>. QED
        BY <2>3
    <3>. HIDE DEF last, bound
    <3>. QED
      BY <1>4, <1>6, <3>1, <3>2, <3>3
  <2>4. CASE s.type \in {"Theme", "Statement"}
    <3>1. ~c /\ ~d
      BY <2>4 DEF CellSays
    <3>2. last = << >>
      <4>. HIDE DEF wrong, bound, known
      <4>. QED
        BY <2>4
    <3>. HIDE DEF last
    <3>. QED
      BY <1>3, <1>4, <1>6, <3>1, <3>2
  <2>. HIDE DEF last
  <2>. QED
    BY <2>1, <2>2, <2>3, <2>4 DEF CellSays
<1>. HIDE DEF gap, theme, statement, last
<1>. QED
  BY <1>1, <1>2, <1>7 DEF Listing

LEMMA ListedIs ==
  ASSUME NEW m, NEW s, NEW read, NEW c \in BOOLEAN, NEW d \in BOOLEAN, NEW r, NEW t, CellSays(m, s, read, c, r, d, t),
         NEW told, told = Warnings(m, s, read)
  PROVE  \E g \in BOOLEAN, a \in BOOLEAN, b \in BOOLEAN :
           LabelsSay(m, s, read, g, a, b) /\ Says(told, g, a, b, c, r, d, t)
<1>1. PICK g \in BOOLEAN : g <=> Gap(s, read)
  BY Zenon
<1>2. PICK a \in BOOLEAN : a <=> ThemeGone(m, s, read)
  BY Zenon
<1>3. PICK b \in BOOLEAN : b <=> StatementGone(m, s, read)
  BY Zenon
<1>4. LabelsSay(m, s, read, g, a, b)
  BY <1>1, <1>2, <1>3 DEF LabelsSay
<1>5. told = Listing(g, a, b, c, r, d, t)
  BY <1>4, WarningsAre
<1>6. Says(told, g, a, b, c, r, d, t)
  BY <1>5, ToldIs
<1>. QED
  BY <1>4, <1>6

Foretells(m, s, read, told) ==
  /\ ~Gap(s, read) => ApplyError(m, s) = IF told = << >> THEN NoError ELSE told[1]
  /\ Gap(s, read) => told[1] = Unread /\ (Len(told) > 1 => ApplyError(m, s) # NoError)

LEMMA Foretold ==
  ASSUME NEW m, CellsBound(m), NEW s, IsSuggestion(s), NEW read
  PROVE  Foretells(m, s, read, Warnings(m, s, read))
<1>. DEFINE theme == NoThemeAt(m, s)
            statement == NoStatementAt(m, s)
            bound == BoundElsewhere(m, s)
            known == s.value \in m.categories[PlaceOf(s)]
            told == Warnings(m, s, read)
<1>1. theme \in BOOLEAN /\ statement \in BOOLEAN /\ bound \in BOOLEAN /\ known \in BOOLEAN
  BY DEF NoThemeAt, NoStatementAt, BoundElsewhere
<1>2. CASE s.type = "Theme"
  <2>1. ~Gap(s, read) /\ ~ThemeGone(m, s, read) /\ ~StatementGone(m, s, read)
    BY <1>2 DEF Gap, ThemeGone, StatementGone, ApplicationReads, LabelReads, WritesCell
  <2>2. told = << >>
    <3>1. PICK c \in BOOLEAN, d \in BOOLEAN : ~c /\ ~d
      BY Zenon
    <3>2. CellSays(m, s, read, c, "InvalidOrgan", d, "InvalidOrgan")
      BY <1>2, <3>1 DEF CellSays
    <3>. HIDE DEF told
    <3>3. told = Warnings(m, s, read)
      BY DEF told
    <3>4. PICK g \in BOOLEAN, a \in BOOLEAN, b \in BOOLEAN :
            LabelsSay(m, s, read, g, a, b) /\ Says(told, g, a, b, c, "InvalidOrgan", d, "InvalidOrgan")
      BY <3>2, <3>3, ListedIs
    <3>. QED
      BY <2>1, <3>1, <3>4 DEF LabelsSay, Says
  <2>3. ApplyError(m, s) = NoError
    BY <1>2 DEF ApplyError
  <2>. QED
    BY <2>1, <2>2, <2>3 DEF Foretells
<1>3. CASE s.type = "Statement"
  <2>1. /\ Gap(s, read) <=> "theme" \notin read
        /\ ThemeGone(m, s, read) <=> "theme" \in read /\ theme
        /\ ~StatementGone(m, s, read)
    BY <1>3 DEF Gap, ThemeGone, StatementGone, ApplicationReads, LabelReads, WritesCell
  <2>. DEFINE guards == << <<theme, "NoThemeSet">> >>
  <2>2. ApplyError(m, s) = FirstError(guards)
    BY <1>3 DEF ApplyError
  <2>3. DOMAIN guards = 1..1 /\ 1 \in 1..4 /\ 1..1 = {1} /\ (guards[1][1] <=> theme) /\ guards[1][1] \in BOOLEAN /\ guards[1][2] = "NoThemeSet"
    BY <1>1
  <2>. HIDE DEF guards, theme, statement, bound, known, told
  <2>4. (theme => ApplyError(m, s) = "NoThemeSet") /\ (~theme => ApplyError(m, s) = NoError)
    BY <2>2, <2>3, ErrorOf
  <2>5. PICK c \in BOOLEAN, d \in BOOLEAN : ~c /\ ~d
    BY Zenon
  <2>6. CellSays(m, s, read, c, "InvalidOrgan", d, "InvalidOrgan") /\ told = Warnings(m, s, read)
    BY <1>3, <2>5 DEF CellSays, told
  <2>7. PICK g \in BOOLEAN, a \in BOOLEAN, b \in BOOLEAN :
          LabelsSay(m, s, read, g, a, b) /\ Says(told, g, a, b, c, "InvalidOrgan", d, "InvalidOrgan")
    BY <2>6, ListedIs
  <2>8. /\ ~Gap(s, read) /\ ~ThemeGone(m, s, read) => told = << >>
        /\ ~Gap(s, read) /\ ThemeGone(m, s, read) => told # << >> /\ told[1] = "NoThemeSet"
        /\ Gap(s, read) => told[1] = Unread
        /\ Gap(s, read) /\ Len(told) > 1 => ThemeGone(m, s, read)
    BY <2>1, <2>5, <2>7 DEF LabelsSay, Says
  <2>9. "NoThemeSet" # NoError
    BY DEF NoError
  <2>10. Foretells(m, s, read, told)
    BY <2>1, <2>4, <2>8, <2>9 DEF Foretells
  <2>. QED
    BY <2>10 DEF told
<1>4. CASE s.type = "Category"
  <2>1. /\ Gap(s, read) <=> "cell" \notin read
        /\ ~ThemeGone(m, s, read) /\ ~StatementGone(m, s, read)
    BY <1>4 DEF Gap, ThemeGone, StatementGone, ApplicationReads, LabelReads, WritesCell
  <2>. DEFINE guards == << <<bound, "InvalidOrgan">>, <<known, "CategoryAlreadyExists">> >>
  <2>2. ApplyError(m, s) = FirstError(guards)
    BY <1>4 DEF ApplyError
  <2>3. DOMAIN guards = 1..2 /\ 2 \in 1..4 /\ 1..2 = {1, 2}
    OBVIOUS
  <2>4. guards[1] = <<bound, "InvalidOrgan">> /\ guards[2] = <<known, "CategoryAlreadyExists">>
    <3>. HIDE DEF bound, known
    <3>. QED
      OBVIOUS
  <2>5. /\ (guards[1][1] <=> bound) /\ guards[1][1] \in BOOLEAN /\ guards[1][2] = "InvalidOrgan"
        /\ (guards[2][1] <=> known) /\ guards[2][1] \in BOOLEAN /\ guards[2][2] = "CategoryAlreadyExists"
    <3>. HIDE DEF guards, bound, known
    <3>. QED
      BY <1>1, <2>4
  <2>6. PICK c \in BOOLEAN, d \in BOOLEAN : (c <=> "cell" \in read /\ bound) /\ (d <=> "cell" \in read /\ known)
    <3>. HIDE DEF bound, known
    <3>. QED
      BY Zenon
  <2>7. CellSays(m, s, read, c, "InvalidOrgan", d, "CategoryAlreadyExists") /\ told = Warnings(m, s, read)
    BY <1>4, <2>6 DEF CellSays
  <2>. HIDE DEF guards, theme, statement, bound, known, told
  <2>8. /\ bound => ApplyError(m, s) = "InvalidOrgan"
        /\ ~bound /\ known => ApplyError(m, s) = "CategoryAlreadyExists"
        /\ ~bound /\ ~known => ApplyError(m, s) = NoError
    BY <2>2, <2>3, <2>5, ErrorOf
  <2>9. PICK g \in BOOLEAN, a \in BOOLEAN, b \in BOOLEAN :
          LabelsSay(m, s, read, g, a, b) /\ Says(told, g, a, b, c, "InvalidOrgan", d, "CategoryAlreadyExists")
    BY <2>7, ListedIs
  <2>10. /\ ~Gap(s, read) /\ ~c /\ ~d => told = << >>
         /\ ~Gap(s, read) /\ c => told # << >> /\ told[1] = "InvalidOrgan"
         /\ ~Gap(s, read) /\ ~c /\ d => told # << >> /\ told[1] = "CategoryAlreadyExists"
         /\ Gap(s, read) => told[1] = Unread
         /\ Gap(s, read) /\ Len(told) > 1 => c \/ d
    BY <2>1, <2>6, <2>9 DEF LabelsSay, Says
  <2>11. "InvalidOrgan" # NoError /\ "CategoryAlreadyExists" # NoError
    BY DEF NoError
  <2>12. Foretells(m, s, read, told)
    BY <2>1, <2>6, <2>8, <2>10, <2>11 DEF Foretells
  <2>. QED
    BY <2>12 DEF told
<1>5. CASE s.type = "Decimals"
  <2>1. /\ Gap(s, read) <=> "cell" \notin read
        /\ ~ThemeGone(m, s, read) /\ ~StatementGone(m, s, read)
    BY <1>5 DEF Gap, ThemeGone, StatementGone, ApplicationReads, LabelReads, WritesCell
  <2>. DEFINE guards == << <<bound, "InvalidOrgan">> >>
  <2>2. ApplyError(m, s) = FirstError(guards)
    BY <1>5 DEF ApplyError
  <2>3. DOMAIN guards = 1..1 /\ 1 \in 1..4 /\ 1..1 = {1} /\ (guards[1][1] <=> bound) /\ guards[1][1] \in BOOLEAN /\ guards[1][2] = "InvalidOrgan"
    BY <1>1
  <2>4. PICK c \in BOOLEAN, d \in BOOLEAN : (c <=> "cell" \in read /\ bound) /\ ~d
    <3>. HIDE DEF bound
    <3>. QED
      BY Zenon
  <2>5. CellSays(m, s, read, c, "InvalidOrgan", d, "InvalidOrgan") /\ told = Warnings(m, s, read)
    BY <1>5, <2>4 DEF CellSays
  <2>. HIDE DEF guards, theme, statement, bound, known, told
  <2>6. (bound => ApplyError(m, s) = "InvalidOrgan") /\ (~bound => ApplyError(m, s) = NoError)
    BY <2>2, <2>3, ErrorOf
  <2>7. PICK g \in BOOLEAN, a \in BOOLEAN, b \in BOOLEAN :
          LabelsSay(m, s, read, g, a, b) /\ Says(told, g, a, b, c, "InvalidOrgan", d, "InvalidOrgan")
    BY <2>5, ListedIs
  <2>8. /\ ~Gap(s, read) /\ ~c => told = << >>
        /\ ~Gap(s, read) /\ c => told # << >> /\ told[1] = "InvalidOrgan"
        /\ Gap(s, read) => told[1] = Unread
        /\ Gap(s, read) /\ Len(told) > 1 => c
    BY <2>1, <2>4, <2>7 DEF LabelsSay, Says
  <2>9. "InvalidOrgan" # NoError
    BY DEF NoError
  <2>10. Foretells(m, s, read, told)
    BY <2>1, <2>4, <2>6, <2>8, <2>9 DEF Foretells
  <2>. QED
    BY <2>10 DEF told
<1>6. CASE s.type = "NumericalValue"
  <2>1. /\ Gap(s, read) <=> ~({"theme", "statement", "cell"} \subseteq read)
        /\ ThemeGone(m, s, read) <=> "theme" \in read /\ theme
        /\ StatementGone(m, s, read) <=> "statement" \in read /\ statement
    BY <1>6 DEF Gap, ThemeGone, StatementGone, ApplicationReads, LabelReads, WritesCell
  <2>. DEFINE guards == << <<theme, "NoThemeSet">>, <<statement, "NoStatementSet">>, <<bound, "InvalidOrgan">> >>
  <2>2. ApplyError(m, s) = FirstError(guards)
    BY <1>6 DEF ApplyError
  <2>3. /\ DOMAIN guards = 1..3 /\ 3 \in 1..4 /\ 1..3 = {1, 2, 3}
        /\ (guards[1][1] <=> theme) /\ guards[1][1] \in BOOLEAN /\ guards[1][2] = "NoThemeSet"
        /\ (guards[2][1] <=> statement) /\ guards[2][1] \in BOOLEAN /\ guards[2][2] = "NoStatementSet"
        /\ (guards[3][1] <=> bound) /\ guards[3][1] \in BOOLEAN /\ guards[3][2] = "InvalidOrgan"
    BY <1>1
  <2>4. PICK c \in BOOLEAN, d \in BOOLEAN : (c <=> "cell" \in read /\ bound) /\ ~d
    <3>. HIDE DEF bound
    <3>. QED
      BY Zenon
  <2>5. CellSays(m, s, read, c, "InvalidOrgan", d, "InvalidOrgan") /\ told = Warnings(m, s, read)
    BY <1>6, <2>4 DEF CellSays
  <2>. HIDE DEF guards, theme, statement, bound, known, told
  <2>6. /\ theme => ApplyError(m, s) = "NoThemeSet"
        /\ ~theme /\ statement => ApplyError(m, s) = "NoStatementSet"
        /\ ~theme /\ ~statement /\ bound => ApplyError(m, s) = "InvalidOrgan"
        /\ ~theme /\ ~statement /\ ~bound => ApplyError(m, s) = NoError
    BY <2>2, <2>3, ErrorOf
  <2>7. PICK g \in BOOLEAN, a \in BOOLEAN, b \in BOOLEAN :
          LabelsSay(m, s, read, g, a, b) /\ Says(told, g, a, b, c, "InvalidOrgan", d, "InvalidOrgan")
    BY <2>5, ListedIs
  <2>8. /\ ~Gap(s, read) /\ ~ThemeGone(m, s, read) /\ ~StatementGone(m, s, read) /\ ~c => told = << >>
        /\ ~Gap(s, read) /\ ThemeGone(m, s, read) => told # << >> /\ told[1] = "NoThemeSet"
        /\ ~Gap(s, read) /\ ~ThemeGone(m, s, read) /\ StatementGone(m, s, read) => told # << >> /\ told[1] = "NoStatementSet"
        /\ ~Gap(s, read) /\ ~ThemeGone(m, s, read) /\ ~StatementGone(m, s, read) /\ c => told # << >> /\ told[1] = "InvalidOrgan"
        /\ Gap(s, read) => told[1] = Unread
        /\ Gap(s, read) /\ Len(told) > 1 => ThemeGone(m, s, read) \/ StatementGone(m, s, read) \/ c
    BY <2>1, <2>4, <2>7 DEF LabelsSay, Says
  <2>9. "InvalidOrgan" # NoError /\ "NoThemeSet" # NoError /\ "NoStatementSet" # NoError
    BY DEF NoError
  <2>10. Foretells(m, s, read, told)
    BY <2>1, <2>4, <2>6, <2>8, <2>9 DEF Foretells
  <2>. QED
    BY <2>10 DEF told
<1>7. CASE s.type = "CategoricalValue"
  <2>1. /\ Gap(s, read) <=> ~({"theme", "statement", "cell"} \subseteq read)
        /\ ThemeGone(m, s, read) <=> "theme" \in read /\ theme
        /\ StatementGone(m, s, read) <=> "statement" \in read /\ statement
    BY <1>7 DEF Gap, ThemeGone, StatementGone, ApplicationReads, LabelReads, WritesCell
  <2>. DEFINE wrong == ~CategoryAllowed(m, s)
              guards == << <<theme, "NoThemeSet">>, <<statement, "NoStatementSet">>, <<wrong, "InvalidCategory">>,
                           <<bound, "InvalidOrgan">> >>
  <2>2. ApplyError(m, s) = FirstError(guards)
    BY <1>7 DEF ApplyError
  <2>3. DOMAIN guards = 1..4 /\ 4 \in 1..4 /\ 1..4 = {1, 2, 3, 4}
    OBVIOUS
  <2>4. /\ guards[1] = <<theme, "NoThemeSet">> /\ guards[2] = <<statement, "NoStatementSet">>
        /\ guards[3] = <<wrong, "InvalidCategory">> /\ guards[4] = <<bound, "InvalidOrgan">>
    <3>. HIDE DEF theme, statement, wrong, bound
    <3>. QED
      OBVIOUS
  <2>5. wrong \in BOOLEAN
    BY DEF CategoryAllowed
  <2>6. /\ (guards[1][1] <=> theme) /\ guards[1][1] \in BOOLEAN /\ guards[1][2] = "NoThemeSet"
        /\ (guards[2][1] <=> statement) /\ guards[2][1] \in BOOLEAN /\ guards[2][2] = "NoStatementSet"
        /\ (guards[3][1] <=> wrong) /\ guards[3][1] \in BOOLEAN /\ guards[3][2] = "InvalidCategory"
        /\ (guards[4][1] <=> bound) /\ guards[4][1] \in BOOLEAN
    <3>. HIDE DEF guards, theme, statement, wrong, bound
    <3>. QED
      BY <1>1, <2>4, <2>5
  <2>7. PICK c \in BOOLEAN, d \in BOOLEAN : (c <=> "cell" \in read /\ (bound \/ ~known)) /\ ~d
    <3>. HIDE DEF bound, known
    <3>. QED
      BY Zenon
  <2>8. CellSays(m, s, read, c, "InvalidCategory", d, "InvalidOrgan") /\ told = Warnings(m, s, read)
    BY <1>7, <2>7 DEF CellSays
  <2>9. wrong <=> bound \/ ~known
    <3>1. s.x \in Xs /\ s.y \in Ys /\ PlaceOf(s) = <<s.x, s.y>> /\ CellOf(s) = <<"CATEGORICAL", s.x, s.y>>
      BY <1>7 DEF IsSuggestion, PlaceOf, CellOf, KindOf
    <3>2. known => m.organs[CellOf(s)] # NoOrgan
      <4>1. PlaceOf(s) \in Places /\ PlaceOf(s)[1] = s.x /\ PlaceOf(s)[2] = s.y
        BY <3>1 DEF Places
      <4>2. known => BoundIn(m, "CATEGORICAL", PlaceOf(s))
        BY <4>1 DEF CellsBound
      <4>. QED
        BY <3>1, <4>1, <4>2 DEF BoundIn
    <3>3. bound <=> m.organs[CellOf(s)] # NoOrgan /\ m.organs[CellOf(s)] # s.organ
      BY DEF BoundElsewhere
    <3>4. wrong <=> ~(known /\ m.organs[CellOf(s)] = s.organ)
      BY DEF CategoryAllowed
    <3>5. s.organ # NoOrgan
      BY <1>7 DEF IsSuggestion, WritesCell
    <3>. HIDE DEF wrong, bound, known
    <3>. QED
      BY <3>2, <3>3, <3>4, <3>5
  <2>. HIDE DEF guards, theme, statement, bound, known, told, wrong
  <2>10. /\ theme => ApplyError(m, s) = "NoThemeSet"
         /\ ~theme /\ statement => ApplyError(m, s) = "NoStatementSet"
         /\ ~theme /\ ~statement /\ wrong => ApplyError(m, s) = "InvalidCategory"
         /\ ~theme /\ ~statement /\ ~wrong /\ ~bound => ApplyError(m, s) = NoError
    BY <2>2, <2>3, <2>6, ErrorOf
  <2>11. PICK g \in BOOLEAN, a \in BOOLEAN, b \in BOOLEAN :
           LabelsSay(m, s, read, g, a, b) /\ Says(told, g, a, b, c, "InvalidCategory", d, "InvalidOrgan")
    BY <2>8, ListedIs
  <2>12. /\ ~Gap(s, read) /\ ~ThemeGone(m, s, read) /\ ~StatementGone(m, s, read) /\ ~c => told = << >>
         /\ ~Gap(s, read) /\ ThemeGone(m, s, read) => told # << >> /\ told[1] = "NoThemeSet"
         /\ ~Gap(s, read) /\ ~ThemeGone(m, s, read) /\ StatementGone(m, s, read) => told # << >> /\ told[1] = "NoStatementSet"
         /\ ~Gap(s, read) /\ ~ThemeGone(m, s, read) /\ ~StatementGone(m, s, read) /\ c => told # << >> /\ told[1] = "InvalidCategory"
         /\ Gap(s, read) => told[1] = Unread
         /\ Gap(s, read) /\ Len(told) > 1 => ThemeGone(m, s, read) \/ StatementGone(m, s, read) \/ c
    BY <2>1, <2>7, <2>11 DEF LabelsSay, Says
  <2>13. "InvalidCategory" # NoError /\ "NoThemeSet" # NoError /\ "NoStatementSet" # NoError
    BY DEF NoError
  <2>14. Foretells(m, s, read, told)
    BY <2>1, <2>7, <2>9, <2>10, <2>12, <2>13 DEF Foretells
  <2>. QED
    BY <2>14 DEF told
<1>8. s.type \in {"Theme", "Statement", "Category", "Decimals", "CategoricalValue", "NumericalValue"}
  BY DEF IsSuggestion, WritesCell
<1>. QED
  BY <1>2, <1>3, <1>4, <1>5, <1>6, <1>7, <1>8

(* For every suggestion and every set of answered reads, the first warning of *)
(* applicationPreflight.ts is what Matricies.sol reverts with, none means it  *)
(* applies, and a missing read is told and never invents a revert.            *)
THEOREM WarningsForetellHolds == Spec => []WarningsForetell
<1>1. Inv => WarningsForetell
  <2>. SUFFICES ASSUME Inv, NEW s \in Asked, NEW read \in SUBSET {"theme", "statement", "cell"}
                PROVE  Foretells(Block(HeadBlock).matricies, s, read, Warnings(Block(HeadBlock).matricies, s, read))
    BY DEF WarningsForetell, Foretells, Gap
  <2>1. HeadBlock \in 0..HeadBlock /\ ChainFollows
    BY LogsBefore DEF Inv, ChainInv
  <2>2. CellsBound(Block(HeadBlock).matricies)
    BY <2>1 DEF ChainFollows, Follows
  <2>3. IsSuggestion(s)
    BY ReportAssumption
  <2>. QED
    BY <2>2, <2>3, Foretold
<1>. QED
  BY <1>1, SpecInv, PTL

-----------------------------------------------------------------------------
(* The windows of voting discovery.                                           *)
Step(c) == PlanDiscovery(c, HeadBlock, DeploymentBlock, Confirmations, MaxBlocksPerScan)
Start(c) == IF c = NoCursor THEN 1 ELSE c + 1
Confirmed == IF HeadBlock >= Confirmations THEN HeadBlock - Confirmations ELSE -1
Scans == [kind : {"SCAN"}, from : Int, to : Int]

LEMMA Stepped ==
  ASSUME HeadBlock \in Nat, HeadBlock <= MaxBlocks, NEW c \in NoCursor..MaxBlocks
  PROVE  /\ Start(c) \in Nat \ {0} /\ Confirmed \in Int /\ Confirmed <= MaxBlocks
         /\ Step(c).kind = "SCAN" =>
              /\ Step(c) \in Scans /\ Step(c).from = Start(c)
              /\ Step(c).to \in Start(c)..Confirmed /\ Step(c).to \in NoCursor..MaxBlocks /\ Step(c).to > c
         /\ Step(c).kind # "SCAN" => Start(c) > Confirmed
<1>1. MaxBlocksPerScan \in Nat \ {0} /\ Confirmations \in Nat /\ MaxBlocks \in Nat
  BY ReportAssumption
<1>2. Start(c) \in Nat \ {0} /\ Confirmed \in Int /\ Confirmed <= MaxBlocks /\ c \in Int /\ c < Start(c)
  BY <1>1 DEF Start, Confirmed, NoCursor
<1>. DEFINE from == Start(c)
            to == IF Confirmed - from + 1 > MaxBlocksPerScan THEN from + MaxBlocksPerScan - 1 ELSE Confirmed
<1>3. Step(c) = IF Confirmed < 1 THEN [kind |-> "UP_TO_DATE"]
                ELSE IF c # NoCursor /\ c > Confirmed THEN [kind |-> "CURSOR_AHEAD"]
                ELSE IF from > Confirmed THEN [kind |-> "UP_TO_DATE"]
                ELSE [kind |-> "SCAN", from |-> from, to |-> to]
  BY DEF Step, PlanDiscovery, Start, Confirmed, DeploymentBlock
<1>4. from <= Confirmed => to \in from..Confirmed /\ to \in Int
  BY <1>1, <1>2
<1>. HIDE DEF to
<1>5. CASE Confirmed < 1 \/ (c # NoCursor /\ c > Confirmed) \/ from > Confirmed
  <2>1. Step(c).kind # "SCAN"
    BY <1>3, <1>5
  <2>2. from > Confirmed
    BY <1>2, <1>5
  <2>. QED
    BY <1>2, <2>1, <2>2
<1>6. CASE ~(Confirmed < 1) /\ ~(c # NoCursor /\ c > Confirmed) /\ ~(from > Confirmed)
  <2>1. Step(c) = [kind |-> "SCAN", from |-> from, to |-> to]
    BY <1>3, <1>6
  <2>2. from <= Confirmed /\ to \in from..Confirmed /\ to \in Int /\ from \in Int
    BY <1>2, <1>4, <1>6
  <2>3. to > c /\ to \in NoCursor..MaxBlocks
    BY <1>1, <1>2, <2>2 DEF NoCursor
  <2>4. Step(c) \in Scans /\ Step(c).kind = "SCAN" /\ Step(c).from = from /\ Step(c).to = to
    BY <2>1, <2>2 DEF Scans
  <2>. QED
    BY <1>2, <2>2, <2>3, <2>4
<1>. QED
  BY <1>5, <1>6

WindowsFrom(f, c) == IF Step(c).kind # "SCAN" THEN << >> ELSE << Step(c) >> \o f[Step(c).to]

LEMMA WindowsAre ==
  ASSUME HeadBlock \in Nat, HeadBlock <= MaxBlocks
  PROVE  \E f : Windows = f[NoCursor] /\ \A c \in NoCursor..MaxBlocks : f[c] = WindowsFrom(f, c)
<1>. DEFINE D == NoCursor..MaxBlocks
            N == {n \in Nat : \E g : \A c \in D : MaxBlocks - c < n => g[c] = WindowsFrom(g, c)}
<1>1. MaxBlocks \in Nat /\ \A c \in D : c \in Int
  BY ReportAssumption DEF NoCursor
<1>2. \A c \in D : Step(c).kind = "SCAN" => Step(c).to \in D /\ Step(c).to \in Int /\ Step(c).to > c
  BY <1>1, Stepped
<1>3. 0 \in N
  <2>. DEFINE g == [c \in D |-> << >>]
  <2>1. \A c \in D : MaxBlocks - c < 0 => g[c] = WindowsFrom(g, c)
    BY <1>1
  <2>. QED
    BY <2>1
<1>4. ASSUME NEW n \in Nat, n \in N PROVE n + 1 \in N
  <2>1. PICK g : \A c \in D : MaxBlocks - c < n => g[c] = WindowsFrom(g, c)
    BY <1>4
  <2>. DEFINE h == [c \in D |-> IF MaxBlocks - c < n THEN g[c] ELSE WindowsFrom(g, c)]
  <2>2. ASSUME NEW c \in D, MaxBlocks - c < n + 1 PROVE h[c] = WindowsFrom(h, c)
    <3>1. h[c] = WindowsFrom(g, c)
      BY <2>1
    <3>2. CASE Step(c).kind # "SCAN"
      BY <3>1, <3>2 DEF WindowsFrom
    <3>3. CASE Step(c).kind = "SCAN"
      <4>1. Step(c).to \in D /\ MaxBlocks - Step(c).to < n
        BY <1>1, <1>2, <2>2, <3>3
      <4>2. h[Step(c).to] = g[Step(c).to]
        BY <4>1
      <4>. HIDE DEF h
      <4>. QED
        BY <3>1, <3>3, <4>2 DEF WindowsFrom
    <3>. QED
      BY <3>2, <3>3
  <2>. HIDE DEF h, D
  <2>3. \E k : \A c \in D : MaxBlocks - c < n + 1 => k[c] = WindowsFrom(k, c)
    BY <2>2
  <2>. QED
    BY <2>3
<1>5. Nat \subseteq N
  <2>. HIDE DEF N
  <2>. QED
    BY <1>3, <1>4, SetInduction
<1>6. PICK g : \A c \in D : MaxBlocks - c < MaxBlocks + 2 => g[c] = WindowsFrom(g, c)
  <2>1. MaxBlocks + 2 \in N
    BY <1>1, <1>5
  <2>. QED
    BY <2>1
<1>7. \A c \in D : MaxBlocks - c < MaxBlocks + 2
  BY <1>1 DEF NoCursor
<1>. DEFINE h == [c \in D |-> g[c]]
<1>8. ASSUME NEW c \in D PROVE h[c] = WindowsFrom(h, c)
  <2>1. h[c] = WindowsFrom(g, c)
    BY <1>6, <1>7
  <2>2. Step(c).kind = "SCAN" => h[Step(c).to] = g[Step(c).to]
    BY <1>2
  <2>. HIDE DEF h
  <2>. QED
    BY <2>1, <2>2 DEF WindowsFrom
<1>. DEFINE body(f) == [c \in NoCursor..MaxBlocks |->
              IF PlanDiscovery(c, HeadBlock, DeploymentBlock, Confirmations, MaxBlocksPerScan).kind # "SCAN" THEN << >>
              ELSE << PlanDiscovery(c, HeadBlock, DeploymentBlock, Confirmations, MaxBlocksPerScan) >>
                   \o f[PlanDiscovery(c, HeadBlock, DeploymentBlock, Confirmations, MaxBlocksPerScan).to]]
<1>9. \A f : body(f) = [c \in D |-> WindowsFrom(f, c)]
  BY DEF WindowsFrom, Step
<1>10. \E f : f = body(f)
  <2>1. h = [c \in D |-> h[c]]
    OBVIOUS
  <2>. HIDE DEF h, body, D
  <2>2. h = [c \in D |-> WindowsFrom(h, c)]
    BY <1>8, <2>1
  <2>. QED
    BY <1>9, <2>2
<1>. DEFINE k == CHOOSE f : f = body(f)
<1>11. k = body(k)
  <2>. HIDE DEF body
  <2>. QED
    BY <1>10
<1>12. Windows = k[NoCursor]
  BY DEF Windows
<1>13. \A c \in D : k[c] = WindowsFrom(k, c)
  <2>. HIDE DEF k, body
  <2>1. k = [c \in D |-> WindowsFrom(k, c)]
    BY <1>9, <1>11
  <2>. HIDE DEF D
  <2>. QED
    BY <2>1
<1>. HIDE DEF k
<1>. QED
  BY <1>12, <1>13

(* Every confirmed block after a cursor is in exactly one of the windows.     *)
Within(n, window) == window.from <= n /\ n <= window.to

Covers(w, c) ==
  /\ w \in Seq(Scans)
  /\ \A i \in DOMAIN w : Start(c) <= w[i].from /\ w[i].to <= Confirmed
  /\ \A n \in Start(c)..Confirmed : \E i \in DOMAIN w : Within(n, w[i])
  /\ \A i, j \in DOMAIN w, n \in Int : Within(n, w[i]) /\ Within(n, w[j]) => i = j

LEMMA OneWindowMore ==
  ASSUME HeadBlock \in Nat, HeadBlock <= MaxBlocks, NEW c \in NoCursor..MaxBlocks, Step(c).kind = "SCAN",
         NEW w, Covers(w, Step(c).to)
  PROVE  Covers(<< Step(c) >> \o w, c)
<1>. DEFINE p == Step(c)
            v == << p >> \o w
            to == p.to
<1>1. /\ Start(c) \in Nat \ {0} /\ Confirmed \in Int
      /\ p \in Scans /\ p.from = Start(c) /\ to \in Start(c)..Confirmed
  BY Stepped
<1>2. w \in Seq(Scans) /\ << p >> \in Seq(Scans) /\ Len(<< p >>) = 1 /\ << p >>[1] = p
  BY <1>1 DEF Covers
<1>3. Start(to) = to + 1 /\ to \in Int
  BY <1>1 DEF Start, NoCursor
<1>. HIDE DEF p
<1>4. v \in Seq(Scans) /\ Len(v) = Len(w) + 1 /\ Len(w) \in Nat
      /\ v[1] = p /\ \A i \in 1..Len(w) : v[i + 1] = w[i]
  <2>1. /\ << p >> \o w \in Seq(Scans) /\ Len(<< p >> \o w) = Len(<< p >>) + Len(w) /\ Len(w) \in Nat
        /\ \A i \in 1..Len(<< p >>) : (<< p >> \o w)[i] = << p >>[i]
        /\ \A i \in 1..Len(w) : (<< p >> \o w)[Len(<< p >>) + i] = w[i]
    BY <1>2, ConcatProperties, LenProperties
  <2>2. 1 \in 1..Len(<< p >>)
    BY <1>2
  <2>. HIDE DEF v
  <2>3. v \in Seq(Scans) /\ Len(v) = Len(w) + 1 /\ Len(w) \in Nat /\ v[1] = p
    BY <1>2, <2>1, <2>2 DEF v
  <2>4. ASSUME NEW i \in 1..Len(w) PROVE v[i + 1] = w[i]
    <3>1. v[1 + i] = w[i] /\ 1 + i = i + 1
      BY <1>2, <2>1 DEF v
    <3>. QED
      BY <3>1
  <2>. QED
    BY <2>3, <2>4
<1>. HIDE DEF v, to
<1>5. DOMAIN v = 1..Len(v) /\ DOMAIN w = 1..Len(w)
  BY <1>2, <1>4
<1>6. \A i \in DOMAIN v : i = 1 \/ (i - 1 \in DOMAIN w /\ v[i] = w[i - 1])
  <2>. SUFFICES ASSUME NEW i \in DOMAIN v, i # 1 PROVE i - 1 \in DOMAIN w /\ v[i] = w[i - 1]
    OBVIOUS
  <2>1. i - 1 \in 1..Len(w) /\ i - 1 + 1 = i
    BY <1>4, <1>5
  <2>2. v[i - 1 + 1] = w[i - 1]
    BY <1>4, <2>1
  <2>. QED
    BY <1>5, <2>1, <2>2
<1>7. p.from = Start(c) /\ p.to = to /\ \A i \in DOMAIN w : w[i].from \in Int /\ w[i].to \in Int
  <2>1. \A i \in DOMAIN w : w[i] \in Scans
    BY <1>2, <1>5
  <2>. QED
    BY <1>1, <2>1 DEF Scans, to
<1>8. /\ \A i \in DOMAIN w : to + 1 <= w[i].from /\ w[i].to <= Confirmed
      /\ \A n \in (to + 1)..Confirmed : \E i \in DOMAIN w : Within(n, w[i])
      /\ \A i, j \in DOMAIN w, n \in Int : Within(n, w[i]) /\ Within(n, w[j]) => i = j
  BY <1>3 DEF Covers, to, p
<1>9. ASSUME NEW i \in DOMAIN v PROVE Start(c) <= v[i].from /\ v[i].to <= Confirmed
  <2>1. CASE i = 1
    BY <1>1, <1>4, <1>7, <2>1
  <2>2. CASE i # 1
    <3>1. i - 1 \in DOMAIN w /\ v[i] = w[i - 1]
      BY <1>6, <2>2
    <3>2. to + 1 <= w[i - 1].from /\ w[i - 1].to <= Confirmed /\ w[i - 1].from \in Int
      BY <1>7, <1>8, <3>1
    <3>. QED
      BY <1>1, <3>1, <3>2
  <2>. QED
    BY <2>1, <2>2
<1>10. ASSUME NEW n \in Start(c)..Confirmed PROVE \E i \in DOMAIN v : Within(n, v[i])
  <2>1. CASE n <= to
    <3>1. 1 \in DOMAIN v
      BY <1>4, <1>5
    <3>2. Within(n, v[1])
      BY <1>1, <1>4, <1>7, <2>1 DEF Within
    <3>. QED
      BY <3>1, <3>2
  <2>2. CASE ~(n <= to)
    <3>1. n \in (to + 1)..Confirmed
      BY <1>1, <1>3, <2>2
    <3>2. PICK i \in DOMAIN w : Within(n, w[i])
      BY <1>8, <3>1
    <3>3. i + 1 \in DOMAIN v /\ v[i + 1] = w[i]
      BY <1>4, <1>5
    <3>. QED
      BY <3>2, <3>3
  <2>. QED
    BY <2>1, <2>2
<1>11. ASSUME NEW i \in DOMAIN v, NEW j \in DOMAIN v, NEW n \in Int, Within(n, v[i]), Within(n, v[j])
       PROVE  i = j
  <2>1. ASSUME NEW l \in DOMAIN v, l # 1, Within(n, v[l]) PROVE l - 1 \in DOMAIN w /\ Within(n, w[l - 1]) /\ n > to
    <3>1. l - 1 \in DOMAIN w /\ v[l] = w[l - 1]
      BY <1>6, <2>1
    <3>2. to + 1 <= w[l - 1].from /\ w[l - 1].from \in Int /\ w[l - 1].from <= n
      BY <1>7, <1>8, <2>1, <3>1 DEF Within
    <3>. QED
      BY <1>3, <2>1, <3>1, <3>2
  <2>2. Within(n, v[1]) => n <= to
    BY <1>4, <1>7 DEF Within
  <2>3. CASE i = 1 \/ j = 1
    BY <1>3, <1>11, <2>1, <2>2, <2>3
  <2>4. CASE i # 1 /\ j # 1
    <3>1. i - 1 = j - 1
      BY <1>8, <1>11, <2>1, <2>4
    <3>2. i \in Int /\ j \in Int
      BY <1>4, <1>5
    <3>. QED
      BY <3>1, <3>2
  <2>. QED
    BY <2>3, <2>4
<1>12. Covers(v, c)
  BY <1>4, <1>9, <1>10, <1>11 DEF Covers
<1>. QED
  BY <1>12 DEF v, p

LEMMA WindowsCover ==
  ASSUME HeadBlock \in Nat, HeadBlock <= MaxBlocks
  PROVE  Covers(Windows, NoCursor)
<1>1. PICK f : Windows = f[NoCursor] /\ \A c \in NoCursor..MaxBlocks : f[c] = WindowsFrom(f, c)
  BY WindowsAre
<1>2. MaxBlocks \in Nat
  BY ReportAssumption
<1>. DEFINE N == {n \in Nat : \A c \in NoCursor..MaxBlocks : MaxBlocks - c < n => Covers(f[c], c)}
<1>3. 0 \in N
  BY <1>2 DEF NoCursor
<1>4. ASSUME NEW n \in Nat, n \in N PROVE n + 1 \in N
  <2>1. ASSUME NEW c \in NoCursor..MaxBlocks, MaxBlocks - c < n + 1 PROVE Covers(f[c], c)
    <3>1. CASE Step(c).kind # "SCAN"
      <4>1. f[c] = << >>
        BY <1>1, <3>1 DEF WindowsFrom
      <4>2. Start(c) > Confirmed /\ Start(c) \in Int /\ Confirmed \in Int
        BY <3>1, Stepped
      <4>3. << >> \in Seq(Scans) /\ DOMAIN << >> = {}
        OBVIOUS
      <4>4. \A m \in Start(c)..Confirmed : FALSE
        BY <4>2
      <4>. QED
        BY <4>1, <4>3, <4>4 DEF Covers
    <3>2. CASE Step(c).kind = "SCAN"
      <4>1. Step(c).to \in NoCursor..MaxBlocks /\ Step(c).to > c
        BY <3>2, Stepped
      <4>2. MaxBlocks - Step(c).to < n
        BY <1>2, <2>1, <4>1 DEF NoCursor
      <4>3. Covers(f[Step(c).to], Step(c).to)
        BY <1>4, <4>1, <4>2
      <4>4. f[c] = << Step(c) >> \o f[Step(c).to]
        BY <1>1, <3>2 DEF WindowsFrom
      <4>. QED
        BY <3>2, <4>3, <4>4, OneWindowMore
    <3>. QED
      BY <3>1, <3>2
  <2>. QED
    BY <2>1
<1>5. Nat \subseteq N
  <2>. HIDE DEF N
  <2>. QED
    BY <1>3, <1>4, SetInduction
<1>6. MaxBlocks + 2 \in N
  <2>1. MaxBlocks + 2 \in Nat
    BY <1>2
  <2>. HIDE DEF N
  <2>. QED
    BY <1>5, <2>1
<1>7. NoCursor \in NoCursor..MaxBlocks /\ MaxBlocks - NoCursor < MaxBlocks + 2
  BY <1>2 DEF NoCursor
<1>. QED
  BY <1>1, <1>6, <1>7

-----------------------------------------------------------------------------
(* The votings those windows meet.                                            *)
LogsMet(M, i) == {e.log : e \in M[i]}

(* The windows D share out the records A, those of one block to one window.   *)
Shares(D, M, A) ==
  /\ \A i \in D : M[i] \subseteq A
  /\ \A e \in A : \E i \in D : e \in M[i]
  /\ \A i \in D, e, f \in A : e \in M[i] /\ e.position[1] = f.position[1] => f \in M[i]
  /\ \A i, j \in D, e \in A : e \in M[i] /\ e \in M[j] => i = j

LEMMA VotingsMet ==
  ASSUME NEW D, NEW M, NEW A, Shares(D, M, A), NEW block, Follows(block, A)
  PROVE  /\ {r.voting : r \in UNION {Discovered(LogsMet(M, i)) : i \in D}} = block.open \cup block.ended
         /\ \A i, j \in D : \A r \in Discovered(LogsMet(M, i)) : \A q \in Discovered(LogsMet(M, j)) :
              r.voting = q.voting => i = j /\ r.organ # "UNKNOWN"
<1>1. Ordered(A) /\ VotingsFollow(block, A)
  BY DEF Follows
<1>2. ASSUME NEW i \in D, NEW r \in Discovered(LogsMet(M, i))
      PROVE  \E e \in M[i] : /\ e \in A /\ r.voting \in Suggestions /\ Creates(e, r.voting)
                             /\ r = Record(LogsMet(M, i), r.voting)
  <2>1. PICK log \in LogsMet(M, i) : log.name = "VotingCreated" /\ r = Record(LogsMet(M, i), log.voting)
    BY <1>2 DEF Discovered
  <2>2. PICK e \in M[i] : log = e.log
    BY <2>1 DEF LogsMet
  <2>3. r.voting = log.voting
    BY <2>1 DEF Record
  <2>4. e \in A /\ IsLog(e.log)
    BY <1>1, <2>2 DEF Shares, Ordered
  <2>5. log.voting \in Suggestions
    BY <2>1, <2>2, <2>4 DEF IsLog
  <2>. QED
    BY <2>1, <2>2, <2>3, <2>4, <2>5 DEF Creates
<1>3. ASSUME NEW s \in block.open \cup block.ended
      PROVE  \E i \in D : \E r \in Discovered(LogsMet(M, i)) : r.voting = s
  <2>1. s \in Suggestions
    BY <1>1 DEF VotingsFollow
  <2>2. PICK e \in A : Creates(e, s)
    BY <1>1, <2>1 DEF VotingsFollow
  <2>3. PICK i \in D : e \in M[i]
    BY <2>2 DEF Shares
  <2>4. e.log \in LogsMet(M, i) /\ e.log.name = "VotingCreated" /\ e.log.voting = s
    BY <2>2, <2>3 DEF LogsMet, Creates
  <2>5. Record(LogsMet(M, i), s) \in Discovered(LogsMet(M, i))
    BY <2>4 DEF Discovered
  <2>6. Record(LogsMet(M, i), s).voting = s
    BY DEF Record
  <2>. QED
    BY <2>5, <2>6
<1>4. ASSUME NEW i \in D, NEW r \in Discovered(LogsMet(M, i)) PROVE r.voting \in block.open \cup block.ended
  <2>1. PICK e \in M[i] : e \in A /\ r.voting \in Suggestions /\ Creates(e, r.voting)
    BY <1>2
  <2>. QED
    BY <1>1, <2>1 DEF VotingsFollow
<1>5. {r.voting : r \in UNION {Discovered(LogsMet(M, i)) : i \in D}} = block.open \cup block.ended
  BY <1>3, <1>4
<1>6. ASSUME NEW i \in D, NEW j \in D, NEW r \in Discovered(LogsMet(M, i)), NEW q \in Discovered(LogsMet(M, j)),
             r.voting = q.voting
      PROVE  i = j
  <2>1. PICK e \in M[i] : e \in A /\ r.voting \in Suggestions /\ Creates(e, r.voting)
    BY <1>2
  <2>2. PICK f \in M[j] : f \in A /\ Creates(f, q.voting)
    BY <1>2
  <2>3. e = f
    BY <1>1, <1>6, <2>1, <2>2 DEF Ordered
  <2>. QED
    BY <2>1, <2>2, <2>3 DEF Shares
<1>7. ASSUME NEW i \in D, NEW r \in Discovered(LogsMet(M, i)) PROVE r.organ # "UNKNOWN"
  <2>1. PICK e \in M[i] : /\ e \in A /\ r.voting \in Suggestions /\ Creates(e, r.voting)
                          /\ r = Record(LogsMet(M, i), r.voting)
    BY <1>2
  <2>2. PICK d \in A : Details(d, r.voting)
    BY <1>1, <2>1 DEF VotingsFollow
  <2>3. e.position[1] = d.position[1]
    BY <1>1, <2>1, <2>2 DEF VotingsFollow
  <2>4. d \in M[i]
    BY <2>1, <2>2, <2>3 DEF Shares
  <2>5. \E log \in LogsMet(M, i) : log.name = "Detail" /\ log.voting = r.voting
    BY <2>2, <2>4 DEF LogsMet, Details
  <2>6. Record(LogsMet(M, i), r.voting).organ \in {"NONE", "ORGAN"}
    BY <2>5 DEF Record
  <2>. QED
    BY <2>1, <2>6
<1>. QED
  BY <1>5, <1>6, <1>7

LEMMA WindowsShare ==
  ASSUME NEW w, Covers(w, NoCursor), Confirmed \in Int, \A n \in 1..Confirmed : blocks[n + 1].logs \in Seq(Logs)
  PROVE  Shares(DOMAIN w, [i \in DOMAIN w |-> LogsOf(blocks, w[i].from, w[i].to)], LogsOf(blocks, 1, Confirmed))
<1>. DEFINE A == LogsOf(blocks, 1, Confirmed)
            M == [i \in DOMAIN w |-> LogsOf(blocks, w[i].from, w[i].to)]
<1>1. Start(NoCursor) = 1
  BY DEF Start
<1>2. \A i \in DOMAIN w : w[i].from \in Nat /\ w[i].to \in Int /\ 1 <= w[i].from /\ w[i].to <= Confirmed
  <2>1. \A i \in DOMAIN w : w[i] \in Scans
    BY DEF Covers
  <2>. QED
    BY <1>1, <2>1 DEF Scans, Covers
<1>3. \A i \in DOMAIN w, n \in Int : n \in w[i].from..w[i].to <=> Within(n, w[i])
  BY <1>2 DEF Within
<1>4. \A i \in DOMAIN w : \A n \in w[i].from..w[i].to : n \in 1..Confirmed
  BY <1>2
<1>5. ASSUME NEW i \in DOMAIN w PROVE M[i] \subseteq A
  BY <1>4 DEF LogsOf
<1>6. ASSUME NEW e \in A PROVE e.position[1] \in 1..Confirmed /\ e \in RecordsOf(blocks[e.position[1] + 1], e.position[1])
  <2>1. PICK n \in 1..Confirmed : e \in RecordsOf(blocks[n + 1], n)
    BY DEF LogsOf
  <2>2. e.position[1] = n
    BY <2>1 DEF RecordsOf
  <2>. QED
    BY <2>1, <2>2
<1>. HIDE DEF A
<1>7. ASSUME NEW i \in DOMAIN w, NEW e \in A PROVE e \in M[i] <=> Within(e.position[1], w[i])
  <2>1. ASSUME e \in M[i] PROVE Within(e.position[1], w[i])
    <3>1. PICK n \in w[i].from..w[i].to : e \in RecordsOf(blocks[n + 1], n)
      BY <2>1 DEF LogsOf
    <3>2. e.position[1] = n
      BY <3>1 DEF RecordsOf
    <3>. QED
      BY <1>3, <3>1, <3>2
  <2>2. ASSUME Within(e.position[1], w[i]) PROVE e \in M[i]
    <3>1. e.position[1] \in w[i].from..w[i].to
      BY <1>3, <1>6, <2>2
    <3>. QED
      BY <1>6, <3>1 DEF LogsOf
  <2>. QED
    BY <2>1, <2>2
<1>. HIDE DEF M
<1>8. ASSUME NEW e \in A PROVE \E i \in DOMAIN w : e \in M[i]
  <2>1. e.position[1] \in Start(NoCursor)..Confirmed
    BY <1>1, <1>6
  <2>2. PICK i \in DOMAIN w : Within(e.position[1], w[i])
    BY <2>1 DEF Covers
  <2>. QED
    BY <1>7, <2>2
<1>9. \A i, j \in DOMAIN w, e \in A : e \in M[i] /\ e \in M[j] => i = j
  <2>. SUFFICES ASSUME NEW i \in DOMAIN w, NEW j \in DOMAIN w, NEW e \in A, e \in M[i], e \in M[j]
                PROVE  i = j
    OBVIOUS
  <2>1. e.position[1] \in Int /\ Within(e.position[1], w[i]) /\ Within(e.position[1], w[j])
    BY <1>6, <1>7
  <2>. QED
    BY <2>1 DEF Covers
<1>10. \A i \in DOMAIN w, e, f \in A : e \in M[i] /\ e.position[1] = f.position[1] => f \in M[i]
  BY <1>7
<1>11. Shares(DOMAIN w, M, A)
  BY <1>5, <1>8, <1>9, <1>10 DEF Shares
<1>. QED
  BY <1>11 DEF M, A

(* The bound on the chain holds.                                              *)
Bounded == HeadBlock <= MaxBlocks

LEMMA BoundedNext ==
  ASSUME Inv, Bounded, [Next]_vars
  PROVE  Bounded'
<1>1. PICK h : h = HeadBlock
  OBVIOUS
<1>2. h \in Nat /\ h = Len(blocks) - 1 /\ h <= MaxBlocks /\ MaxBlocks \in Nat /\ IsSequence(blocks) /\ Len(blocks) > 0
  BY <1>1, LogsBefore, ReportAssumption DEF Inv, ChainInv, ChainType, Bounded
<1>3. HeadBlock' = Len(blocks') - 1
  BY DEF HeadBlock
<1>4. CASE Mine
  <2>1. Len(blocks') = Len(blocks) + 1 /\ h < MaxBlocks
    BY <1>1, <1>2, <1>4, SequenceAppended DEF Mine
  <2>. QED
    BY <1>2, <1>3, <2>1 DEF Bounded
<1>5. CASE Reorganise
  <2>1. blocks' = SubSeq(blocks, 1, h) /\ h > Final
    BY <1>1, <1>5 DEF Reorganise
  <2>2. Len(blocks') = h
    BY <1>2, <2>1, SequenceShortened
  <2>. QED
    BY <1>2, <1>3, <2>2 DEF Bounded
<1>6. CASE blocks' = blocks
  BY <1>1, <1>2, <1>3, <1>6 DEF Bounded, HeadBlock
<1>7. blocks' = blocks \/ Mine \/ Reorganise
  BY ReportLeavesChain DEF Next, Execute, vars, chain
<1>. QED
  BY <1>4, <1>5, <1>6, <1>7

(* For every number of confirmations and of blocks per scan, the windows of   *)
(* planDiscovery meet every confirmed voting exactly once, with its creation  *)
(* and its detail in one window (votingDiscovery.ts).                         *)
THEOREM EveryVotingIsDiscoveredHolds == Spec => []EveryVotingIsDiscovered
<1>1. Init => Bounded
  <2>1. Init => HeadBlock = 0
    BY DEF Init, HeadBlock
  <2>. QED
    BY <2>1, ReportAssumption DEF Bounded
<1>2. Inv /\ Bounded => EveryVotingIsDiscovered
  <2>. SUFFICES ASSUME Inv, Bounded
                PROVE  EveryVotingIsDiscovered
    OBVIOUS
  <2>1. /\ HeadBlock \in Nat /\ HeadBlock <= MaxBlocks /\ Confirmations \in Nat
        /\ \A n \in 0..HeadBlock : blocks[n + 1].logs \in Seq(Logs) /\ Follows(Block(n), LogsOf(blocks, 1, n))
    BY LogsBefore, ReportAssumption DEF Inv, ChainInv, ChainFollows, Bounded
  <2>. DEFINE confirmed == IF HeadBlock >= Confirmations THEN Block(HeadBlock - Confirmations) ELSE Genesis
  <2>2. Confirmed \in Int /\ Confirmed <= HeadBlock /\ (HeadBlock >= Confirmations => Confirmed \in 0..HeadBlock)
    BY <2>1 DEF Confirmed
  <2>3. Follows(confirmed, LogsOf(blocks, 1, Confirmed))
    <3>1. CASE HeadBlock >= Confirmations
      <4>1. confirmed = Block(Confirmed)
        BY <3>1 DEF Confirmed
      <4>. HIDE DEF confirmed
      <4>. QED
        BY <2>1, <2>2, <3>1, <4>1
    <3>2. CASE ~(HeadBlock >= Confirmations)
      <4>1. confirmed = Genesis /\ Confirmed = -1
        BY <3>2 DEF Confirmed
      <4>2. LogsOf(blocks, 1, Confirmed) = {}
        BY <4>1 DEF LogsOf
      <4>. HIDE DEF confirmed
      <4>. QED
        BY <4>1, <4>2, GenesisFollows
    <3>. QED
      BY <3>1, <3>2
  <2>. HIDE DEF confirmed
  <2>. DEFINE w == Windows
  <2>4. Covers(w, NoCursor)
    BY <2>1, WindowsCover
  <2>. HIDE DEF w
  <2>. DEFINE M == [i \in DOMAIN w |-> LogsOf(blocks, w[i].from, w[i].to)]
              found == [i \in DOMAIN w |-> Discovered({e.log : e \in LogsIn(w[i].from, w[i].to)})]
  <2>5. Shares(DOMAIN w, M, LogsOf(blocks, 1, Confirmed))
    <3>1. \A n \in 1..Confirmed : blocks[n + 1].logs \in Seq(Logs)
      <4>1. \A n \in 1..Confirmed : n \in 0..HeadBlock
        BY <2>1, <2>2
      <4>. QED
        BY <2>1, <4>1
    <3>. QED
      BY <2>2, <2>4, <3>1, WindowsShare
  <2>6. \A i \in DOMAIN w : found[i] = Discovered(LogsMet(M, i))
    BY LogsInAre DEF LogsMet
  <2>7. DOMAIN found = DOMAIN w
    OBVIOUS
  <2>. HIDE DEF M, found
  <2>8. /\ {r.voting : r \in UNION {Discovered(LogsMet(M, i)) : i \in DOMAIN w}} = confirmed.open \cup confirmed.ended
        /\ \A i, j \in DOMAIN w : \A r \in Discovered(LogsMet(M, i)) : \A q \in Discovered(LogsMet(M, j)) :
             r.voting = q.voting => i = j /\ r.organ # "UNKNOWN"
    BY <2>3, <2>5, VotingsMet
  <2>9. {found[i] : i \in DOMAIN found} = {Discovered(LogsMet(M, i)) : i \in DOMAIN w}
    BY <2>6, <2>7
  <2>10. /\ {r.voting : r \in UNION {found[i] : i \in DOMAIN found}} = confirmed.open \cup confirmed.ended
         /\ \A i, j \in DOMAIN found : \A r \in found[i], q \in found[j] :
              r.voting = q.voting => i = j /\ r.organ # "UNKNOWN"
    BY <2>6, <2>7, <2>8, <2>9
  <2>. QED
    BY <2>10 DEF EveryVotingIsDiscovered, found, confirmed, w
<1>. QED
  BY <1>1, <1>2, SpecInv, BoundedNext, PTL DEF Spec
=============================================================================
