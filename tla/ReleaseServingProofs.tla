------------------------- MODULE ReleaseServingProofs -------------------------
(***************************************************************************)
(* What readers of a release are given: that the pages of a walk are all   *)
(* there, and that what a build says about the history of a Repository is  *)
(* what happened.  The model of all three parts takes the steps of each by *)
(* itself, so each has an invariant of its own.                            *)
(***************************************************************************)
EXTENDS MCReleaseServing, ReleaseOrchestrationProofs, SequenceTheorems,
        FiniteSetTheorems

-----------------------------------------------------------------------------
(* The instances count as this module does.                                *)
LEMMA SameCounts ==
    \A S : /\ Reads!Cardinality(S) = Cardinality(S)
           /\ Reads!IsFiniteSet(S) <=> IsFiniteSet(S)
           /\ History!Cardinality(S) = Cardinality(S)
BY DEF Reads!Cardinality, Reads!IsFiniteSet, History!Cardinality, Cardinality,
       IsFiniteSet

(* A page is cut from the front of what is listed: all of it, or its Limit *)
(* smallest keys.                                                          *)
Below(S, x) == {y \in S : y < x}
Cut(S, n)   == {x \in S : Cardinality(Below(S, x)) < n}

LEMMA BelowFinite ==
    ASSUME NEW S, IsFiniteSet(S), NEW x
    PROVE  IsFiniteSet(Below(S, x)) /\ Cardinality(Below(S, x)) \in Nat
BY FS_Subset, FS_CardinalityType DEF Below

LEMMA CutCloses ==
    ASSUME NEW S \in SUBSET Nat, IsFiniteSet(S), NEW n \in Nat,
           NEW x \in Cut(S, n), NEW y \in S, y <= x
    PROVE  y \in Cut(S, n)
<1>1. Below(S, y) \subseteq Below(S, x)
  <2>1. x \in Nat /\ y \in Nat /\ \A z \in S : z \in Nat
    BY DEF Cut
  <2>2. ASSUME NEW z \in S, z < y PROVE z < x
    BY <2>1, <2>2
  <2> QED BY <2>2 DEF Below
<1>2. Cardinality(Below(S, y)) <= Cardinality(Below(S, x))
  BY <1>1, BelowFinite, FS_Subset
<1> QED BY <1>2, BelowFinite DEF Cut

LEMMA CutFirst ==
    ASSUME NEW S \in SUBSET Nat, IsFiniteSet(S), NEW n \in Nat \ {0}, S # {}
    PROVE  Cut(S, n) # {}
<1>1. PICK m \in S : \A x \in S : m <= x
  BY Least
<1>2. Below(S, m) = {}
  <2>1. \A x \in S : x \in Nat /\ m \in Nat /\ ~ (x < m)
    BY <1>1
  <2> QED BY <2>1 DEF Below
<1>3. m \in Cut(S, n)
  BY <1>2, FS_EmptySet DEF Cut
<1> QED BY <1>3

LEMMA CutGreatest ==
    ASSUME NEW S \in SUBSET Nat, IsFiniteSet(S), NEW b \in Nat, \A x \in S : x <= b,
           NEW n \in Nat, Cut(S, n) # {}
    PROVE  \E p \in Cut(S, n) :
             /\ Cut(S, n) = {x \in S : x <= p}
             /\ Cardinality(Cut(S, n)) <= n
<1>1. Cut(S, n) \in SUBSET Nat /\ \A x \in Cut(S, n) : x <= b
  BY DEF Cut
<1>2. PICK p \in Cut(S, n) : \A x \in Cut(S, n) : x <= p
  BY <1>1, Greatest
<1>3. Cut(S, n) = {x \in S : x <= p}
  <2>1. \A x \in S : x <= p => x \in Cut(S, n)
    BY CutCloses
  <2> QED BY <2>1, <1>2 DEF Cut
<1>4. Cut(S, n) = Below(S, p) \cup {p} /\ p \notin Below(S, p)
  <2>1. p \in S /\ \A x \in S : x \in Nat /\ (x <= p <=> x < p \/ x = p)
    BY <1>2 DEF Cut
  <2>2. ~ (p < p)
    BY <2>1
  <2> QED BY <2>1, <2>2, <1>3 DEF Below
<1>5. Cardinality(Cut(S, n)) = Cardinality(Below(S, p)) + 1
  BY <1>4, BelowFinite, FS_AddElement
<1>6. Cardinality(Below(S, p)) < n
  BY <1>2 DEF Cut
<1> QED BY <1>3, <1>5, <1>6, BelowFinite

LEMMA CutShort ==
    ASSUME NEW S \in SUBSET Nat, IsFiniteSet(S), NEW b \in Nat, \A x \in S : x <= b,
           NEW n \in Nat \ {0}, Cardinality(Cut(S, n)) # n
    PROVE  Cut(S, n) = S
<1> SUFFICES ASSUME Cut(S, n) # S PROVE FALSE
  OBVIOUS
<1>1. S \ Cut(S, n) \in SUBSET Nat /\ S \ Cut(S, n) # {}
  BY DEF Cut
<1>2. PICK m \in S \ Cut(S, n) : \A x \in S \ Cut(S, n) : m <= x
  BY <1>1, Least
<1>3. Below(S, m) \subseteq Cut(S, n)
  <2>1. \A x \in S : x \in Nat /\ m \in Nat /\ (x < m => ~ (m <= x))
    BY <1>2
  <2> QED BY <2>1, <1>2 DEF Below
<1>4. Cardinality(Below(S, m)) >= n
  BY <1>2, BelowFinite DEF Cut
<1>5. IsFiniteSet(Cut(S, n))
  BY FS_Subset DEF Cut
<1>6. Cardinality(Below(S, m)) <= Cardinality(Cut(S, n)) /\ Cardinality(Cut(S, n)) \in Nat
  BY <1>3, <1>5, FS_Subset, FS_CardinalityType
<1>7. Cut(S, n) # {}
  BY <1>1, CutFirst
<1>8. Cardinality(Cut(S, n)) <= n
  BY <1>7, CutGreatest
<1> QED BY <1>4, <1>6, <1>8, BelowFinite

LEMMA CutFits ==
    ASSUME NEW S \in SUBSET Nat, IsFiniteSet(S), NEW n \in Nat, Cardinality(S) <= n
    PROVE  Cut(S, n) = S
<1>1. ASSUME NEW x \in S PROVE Cardinality(Below(S, x)) < n
  <2>1. Below(S, x) \subseteq S /\ x \notin Below(S, x)
    BY DEF Below
  <2>2. Cardinality(Below(S, x) \cup {x}) = Cardinality(Below(S, x)) + 1
    BY <2>1, BelowFinite, FS_AddElement
  <2>3. Cardinality(Below(S, x) \cup {x}) <= Cardinality(S)
    BY <2>1, FS_Subset
  <2> QED BY <2>2, <2>3, BelowFinite, FS_CardinalityType
<1> QED BY <1>1 DEF Cut

(* A walk has collected what comes up to its cursor, once, or, when the    *)
(* rows of its page are read, what comes up to the next; without a next    *)
(* cursor, everything.                                                     *)
Upto(c, cursor) == {x \in Rows[c] : x <= cursor}

Collected(w) ==
    /\ w.kind \in Kinds \cup {"graph"}
    /\ w.outcome = "new" /\ ~w.torn => w.got = {} /\ w.cursor = 0 /\ ~w.repeated
    /\ w.kind # "browse" /\ ~w.torn =>
         /\ ~w.repeated
         /\ w.outcome = "walking" =>
              w.got = IF "rows" \in w.todo THEN Upto(w.root, w.cursor)
                      ELSE IF w.next # 0 THEN Upto(w.root, w.next) ELSE Rows[w.root]
         /\ w.outcome = "complete" => w.got = Rows[w.root]

WalksInv ==
    /\ current \in Releases /\ moves \in Nat
    /\ read \in [Readers -> Reads!Walk]
    /\ \A d \in Readers : Collected(read[d])

-----------------------------------------------------------------------------
LEMMA RowsTyped ==
    ASSUME Reads!ConstantsTyped, NEW c \in Releases
    PROVE  /\ Rows[c] \in SUBSET Reads!Keys /\ Reads!Keys = 1 .. Len(Length) /\ Len(Length) \in Nat
           /\ \A S \in SUBSET Reads!Keys : IsFiniteSet(S)
<1>1. Reads!Keys = 1 .. Len(Length) /\ Len(Length) \in Nat
  BY DEF Reads!ConstantsTyped, Reads!Keys
<1>2. IsFiniteSet(Reads!Keys)
  BY <1>1, FS_Interval
<1>3. \A S \in SUBSET Reads!Keys : IsFiniteSet(S)
  BY <1>2, FS_Subset
<1> QED BY <1>1, <1>3 DEF Reads!ConstantsTyped

(* A page that is not empty has a last row, in any of the orders.          *)
LEMMA LengthsBounded ==
    ASSUME Reads!ConstantsTyped
    PROVE  \E b \in Nat : \A x \in Reads!Keys : Length[x] <= b
<1>1. Reads!Keys = 1 .. Len(Length) /\ Len(Length) \in Nat /\ \A x \in Reads!Keys : Length[x] \in Nat
  BY DEF Reads!ConstantsTyped, Reads!Keys
<1> DEFINE S == {n \in 0 .. Len(Length) : ~ \E b \in Nat : \A x \in 1 .. n : Length[x] <= b}
<1>2. ASSUME S # {} PROVE FALSE
  <2>1. S \in SUBSET Nat
    BY <1>1
  <2>2. PICK n \in S : \A y \in S : n <= y
    <3> HIDE DEF S
    <3> QED BY <1>2, <2>1, Least
  <2>3. n \in 0 .. Len(Length) /\ ~ \E b \in Nat : \A x \in 1 .. n : Length[x] <= b
    BY <2>2
  <2>4. n # 0
    <3>1. 0 \in Nat /\ \A x \in 1 .. 0 : Length[x] <= 0
      OBVIOUS
    <3> QED BY <3>1, <2>3
  <2>5. n - 1 \in 0 .. Len(Length) /\ n - 1 \notin S
    <3>1. n \in Nat /\ n - 1 \in 0 .. Len(Length) /\ ~ (n <= n - 1)
      BY <1>1, <2>3, <2>4
    <3> HIDE DEF S
    <3> QED BY <3>1, <2>2
  <2>6. PICK b \in Nat : \A x \in 1 .. n - 1 : Length[x] <= b
    BY <2>5
  <2> HIDE DEF S
  <2>7. \A x \in 1 .. n : Length[x] <= b + Length[n]
    <3> SUFFICES ASSUME NEW x \in 1 .. n PROVE Length[x] <= b + Length[n]
      OBVIOUS
    <3>1. Length[x] \in Nat /\ Length[n] \in Nat
      BY <1>1, <2>3, <2>4
    <3>2. x = n \/ x \in 1 .. n - 1
      BY <1>1, <2>3
    <3>3. CASE x = n
      BY <3>1, <3>3
    <3>4. CASE x \in 1 .. n - 1
      <4>1. Length[x] <= b /\ b \in Nat
        BY <3>4, <2>6
      <4> QED BY <3>1, <4>1
    <3> QED BY <3>2, <3>3, <3>4
  <2>8. b + Length[n] \in Nat
    <3>1. n \in Reads!Keys
      BY <1>1, <2>3, <2>4
    <3>2. Length[n] \in Nat
      BY <1>1, <3>1
    <3> QED BY <3>2
  <2> QED BY <2>3, <2>7, <2>8
<1>3. Len(Length) \notin S
  BY <1>2
<1> QED BY <1>1, <1>3

LEMMA LastIsThere ==
    ASSUME Reads!ConstantsTyped, NEW P \in SUBSET Reads!Keys, P # {}, NEW kind
    PROVE  Reads!Last(kind, P) \in P
<1>1. Reads!Keys = 1 .. Len(Length) /\ Len(Length) \in Nat /\ \A x \in Reads!Keys : Length[x] \in Nat
  BY DEF Reads!ConstantsTyped, Reads!Keys
<1>2. \A Q \in SUBSET P : Q \in SUBSET Nat /\ \A x \in Q : x <= Len(Length)
  BY <1>1
<1>3. CASE kind # "browse"
  <2>1. PICK p \in P : \A x \in P : x <= p
    BY <1>1, <1>2, Greatest
  <2>2. \A y \in P \ {p} : Reads!Before(kind, y, p)
    BY <1>2, <1>3, <2>1 DEF Reads!Before
  <2> QED BY <2>2 DEF Reads!Last
<1>4. CASE kind = "browse"
  <2> DEFINE L == {Length[x] : x \in P}
  <2>1. PICK b \in Nat : \A x \in Reads!Keys : Length[x] <= b
    BY LengthsBounded
  <2>2. L \in SUBSET Nat /\ L # {} /\ \A l \in L : l <= b
    BY <1>1, <2>1
  <2>3. PICK m \in L : \A l \in L : l <= m
    <3> HIDE DEF L
    <3> QED BY <2>2, Greatest
  <2> DEFINE Q == {x \in P : Length[x] = m}
  <2>4. Q \in SUBSET P /\ Q # {}
    BY <2>3
  <2>5. PICK p \in Q : \A x \in Q : x <= p
    <3> HIDE DEF Q
    <3> QED BY <2>4, <1>1, <1>2, Greatest
  <2>6. ASSUME NEW y \in P \ {p} PROVE Reads!Before(kind, y, p)
    <3>1. Length[y] \in Nat /\ Length[p] = m /\ Length[y] <= m /\ m \in Nat
      BY <1>1, <2>2, <2>3, <2>5
    <3>2. y \in Nat /\ p \in Nat /\ (Length[y] = m => y <= p)
      BY <1>2, <2>5
    <3> QED BY <3>1, <3>2, <1>4 DEF Reads!Before
  <2> QED BY <2>4, <2>5, <2>6 DEF Reads!Last
<1> QED BY <1>3, <1>4

(* A page goes on where the last one ended, and says so.                   *)
LEMMA PageContinues ==
    ASSUME Reads!ConstantsTyped, NEW d \in Readers, read[d] \in Reads!Walk
    PROVE  LET w == read[d]
               c == w.root
           IN  /\ Reads!Page(d) \in SUBSET Reads!Keys
               /\ Reads!MoreToCome(d) => Reads!Last(w.kind, Reads!Page(d)) \in Reads!Keys \ {0}
               /\ w.kind # "browse" /\ Reads!IsStored(c) /\ w.got = Upto(c, w.cursor) =>
                    /\ w.got \cap Reads!Page(d) = {}
                    /\ w.got \cup Reads!Page(d) = IF Reads!MoreToCome(d)
                                           THEN Upto(c, Reads!Last(w.kind, Reads!Page(d))) ELSE Rows[c]
<1> DEFINE w == read[d]
           c == w.root
           S == Reads!Listed(d)
<1>1. /\ c \in Releases /\ w.cursor \in Reads!Keys \cup {0} /\ w.kind \in Reads!AllKinds
  BY DEF Reads!Walk
<1>2. /\ Rows[c] \in SUBSET Reads!Keys /\ Reads!Keys = 1 .. Len(Length) /\ Len(Length) \in Nat
      /\ \A T \in SUBSET Reads!Keys : IsFiniteSet(T)
  BY <1>1, RowsTyped
<1>3. /\ S \subseteq Rows[c]
      /\ Reads!IsStored(c) => S = {x \in Rows[c] : x > w.cursor}
  BY DEF Reads!Listed, Reads!After
<1>4. S \in SUBSET Reads!Keys /\ S \in SUBSET Nat /\ IsFiniteSet(S)
      /\ \A x \in S : x <= Len(Length)
  <2>1. S \subseteq Reads!Keys
    BY <1>2, <1>3
  <2> HIDE DEF S
  <2> QED BY <2>1, <1>2
<1>5. Limit \in Nat \ {0}
  BY DEF Reads!ConstantsTyped
<1>6. Reads!Page(d) \subseteq S /\ Reads!Page(d) \in SUBSET Reads!Keys
  BY <1>4 DEF Reads!Page
<1>7. ASSUME w.kind # "browse" PROVE Reads!Page(d) = Cut(S, Limit)
  BY <1>1, <1>7, SameCounts DEF Reads!Page, Reads!Before, Cut, Below
<1> HIDE DEF S
<1>8. Reads!IsStored(c) /\ w.got = Upto(c, w.cursor) => w.got \cap Reads!Page(d) = {}
  BY <1>1, <1>2, <1>3, <1>6 DEF Upto
<1>9. ASSUME Reads!MoreToCome(d) PROVE Reads!Page(d) # {}
  <2>1. CASE w.kind = "native"
    <3>1. Cardinality(S) > Limit
      BY <1>9, <2>1, SameCounts DEF Reads!MoreToCome, S
    <3>2. S # {}
      BY <3>1, <1>5, FS_EmptySet
    <3> QED BY <3>2, <2>1, <1>4, <1>5, <1>7, CutFirst
  <2>2. CASE w.kind # "native"
    <3>1. Cardinality(Reads!Page(d)) = Limit
      BY <1>9, <2>2, SameCounts DEF Reads!MoreToCome
    <3> QED BY <3>1, <1>5, FS_EmptySet
  <2> QED BY <2>1, <2>2
<1>10. ASSUME Reads!MoreToCome(d)
       PROVE  Reads!Last(w.kind, Reads!Page(d)) \in Reads!Page(d) /\ Reads!Last(w.kind, Reads!Page(d)) \in Reads!Keys \ {0}
  <2>1. Reads!Last(w.kind, Reads!Page(d)) \in Reads!Page(d)
    BY <1>6, <1>9, <1>10, LastIsThere
  <2>2. \A k \in 1 .. Len(Length) : k # 0
    BY <1>2
  <2> QED BY <2>1, <2>2, <1>2, <1>6
<1>11. ASSUME Reads!MoreToCome(d), w.kind # "browse", Reads!IsStored(c), w.got = Upto(c, w.cursor)
       PROVE  w.got \cup Reads!Page(d) = Upto(c, Reads!Last(w.kind, Reads!Page(d)))
  <2>1. Reads!Page(d) # {}
    BY <1>9, <1>11
  <2>2. PICK p \in Reads!Page(d) : Reads!Page(d) = {x \in S : x <= p}
    BY <2>1, <1>2, <1>4, <1>5, <1>7, <1>11, CutGreatest
  <2>3. Reads!Last(w.kind, Reads!Page(d)) = p
    <3>1. \A x \in Reads!Page(d) : x \in Nat /\ x <= p
      BY <2>2, <1>4
    <3>2. \A y \in Reads!Page(d) \ {p} : Reads!Before(w.kind, y, p)
      BY <3>1, <1>11 DEF Reads!Before
    <3>3. \A x \in Reads!Page(d) : (\A y \in Reads!Page(d) \ {x} : Reads!Before(w.kind, y, x)) => x = p
      BY <3>1, <1>11 DEF Reads!Before
    <3> QED BY <3>2, <3>3 DEF Reads!Last
  <2>4. \A x \in Rows[c] : x \in Nat
    BY <1>2
  <2>5. p > w.cursor /\ p \in Nat /\ w.cursor \in Nat
    BY <1>1, <1>2, <1>3, <1>6, <1>11
  <2>6. \A x \in Rows[c] : x <= p <=> x <= w.cursor \/ (x > w.cursor /\ x <= p)
    BY <2>4, <2>5
  <2>7. Reads!Page(d) = {x \in Rows[c] : x > w.cursor /\ x <= p}
    BY <2>2, <1>3, <1>11
  <2> QED BY <2>3, <2>6, <2>7, <1>11 DEF Upto
<1>12. ASSUME ~Reads!MoreToCome(d), w.kind # "browse", Reads!IsStored(c), w.got = Upto(c, w.cursor)
       PROVE  w.got \cup Reads!Page(d) = Rows[c]
  <2>1. Reads!Page(d) = S
    <3>1. CASE w.kind = "native"
      <4>1. ~ (Cardinality(S) > Limit)
        BY <1>12, <3>1, SameCounts DEF Reads!MoreToCome, S
      <4>2. Cardinality(S) <= Limit
        BY <4>1, <1>4, <1>5, FS_CardinalityType
      <4> QED BY <4>2, <1>4, <1>5, <1>7, <1>12, CutFits
    <3>2. CASE w.kind # "native"
      <4>1. Cardinality(Reads!Page(d)) # Limit
        BY <1>12, <3>2, SameCounts DEF Reads!MoreToCome
      <4> QED BY <4>1, <1>2, <1>4, <1>5, <1>7, <1>12, CutShort
    <3> QED BY <3>1, <3>2
  <2>2. \A x \in Rows[c] : x <= w.cursor \/ x > w.cursor
    BY <1>1, <1>2
  <2> QED BY <2>1, <2>2, <1>3, <1>12 DEF Upto
<1> QED BY <1>6, <1>8, <1>10, <1>11, <1>12

LEMMA WalksInit == Reads!ConstantsTyped /\ Reads!Init => WalksInv
<1> SUFFICES ASSUME Reads!ConstantsTyped, Reads!Init PROVE WalksInv
  OBVIOUS
<1>1. current \in Releases /\ moves \in Nat
  BY DEF Reads!Init
<1>2. ASSUME NEW d \in Readers PROVE read[d] = Reads!Fresh(current)
  BY DEF Reads!Init
<1>3. Reads!Fresh(current) \in Reads!Walk /\ Collected(Reads!Fresh(current))
  BY <1>1 DEF Reads!Fresh, Reads!Walk, Reads!AllKinds, Reads!Parts, Collected
<1>4. read \in [Readers -> Reads!Walk]
  BY <1>3 DEF Reads!Init
<1> QED BY <1>1, <1>2, <1>3, <1>4 DEF WalksInv

(* A request changes the walk of its reader.                               *)
LEMMA BecomeKeeps ==
    ASSUME WalksInv, NEW d \in Readers, NEW walk, Reads!Become(d, walk),
           walk \in Reads!Walk, Collected(walk)
    PROVE  WalksInv'
<1>1. read' = [read EXCEPT ![d] = walk] /\ current' = current /\ moves' = moves
  BY DEF Reads!Become, Reads!store
<1>2. read' \in [Readers -> Reads!Walk]
  BY <1>1 DEF WalksInv
<1>3. ASSUME NEW e \in Readers PROVE Collected(read'[e])
  <2>1. read'[e] = IF e = d THEN walk ELSE read[e]
    BY <1>1 DEF WalksInv
  <2> QED BY <2>1 DEF WalksInv
<1>4. \A e \in Readers : Collected(read'[e]) => Collected(read[e])'
  BY DEF Collected, Upto
<1> QED BY <1>1, <1>2, <1>3, <1>4 DEF WalksInv

LEMMA RowsKeep ==
    ASSUME Reads!ConstantsTyped, WalksInv, NEW d \in Readers, Reads!ReadRows(d)
    PROVE  WalksInv'
<1> DEFINE w == read[d]
           walk == [Reads!Step(d, "rows") EXCEPT
                      !.got = @ \cup Reads!Page(d),
                      !.repeated = @ \/ w.got \cap Reads!Page(d) # {},
                      !.torn = @ \/ ~Reads!IsStored(w.root),
                      !.next = IF Reads!MoreToCome(d) THEN Reads!Last(w.kind, Reads!Page(d)) ELSE 0]
<1>1. w \in Reads!Walk /\ Collected(w) /\ w.outcome = "walking" /\ "rows" \in w.todo
      /\ Reads!Become(d, walk)
  BY DEF Reads!ReadRows, WalksInv, Reads!Todo
<1> DEFINE more == [w EXCEPT !.todo = @ \ {"rows"},
                             !.got = @ \cup Reads!Page(d),
                             !.repeated = @ \/ w.got \cap Reads!Page(d) # {},
                             !.torn = @ \/ ~Reads!IsStored(w.root),
                             !.next = IF Reads!MoreToCome(d) THEN Reads!Last(w.kind, Reads!Page(d)) ELSE 0]
<1>2. walk = more
  BY <1>1 DEF Reads!Step, Reads!Walk
<1>3. /\ Reads!Page(d) \subseteq Reads!Keys
      /\ Reads!MoreToCome(d) => Reads!Last(w.kind, Reads!Page(d)) \in Reads!Keys \ {0}
      /\ w.kind # "browse" /\ Reads!IsStored(w.root) /\ w.got = Upto(w.root, w.cursor) =>
           /\ w.got \cap Reads!Page(d) = {}
           /\ w.got \cup Reads!Page(d) = IF Reads!MoreToCome(d)
                                  THEN Upto(w.root, Reads!Last(w.kind, Reads!Page(d))) ELSE Rows[w.root]
  BY <1>1, PageContinues DEF Collected
<1>4. PICK next : next = IF Reads!MoreToCome(d) THEN Reads!Last(w.kind, Reads!Page(d)) ELSE 0
  OBVIOUS
<1>5. PICK page : page = Reads!Page(d)
  OBVIOUS
<1>6. /\ next \in Reads!Keys \cup {0} /\ page \subseteq Reads!Keys
      /\ w.kind # "browse" /\ Reads!IsStored(w.root) /\ w.got = Upto(w.root, w.cursor) =>
           /\ w.got \cap page = {}
           /\ w.got \cup page = IF next # 0 THEN Upto(w.root, next) ELSE Rows[w.root]
  BY <1>3, <1>4, <1>5
<1>7. /\ more \in Reads!Walk /\ more.kind = w.kind /\ more.root = w.root
      /\ more.outcome = "walking" /\ "rows" \notin more.todo /\ more.next = next
      /\ more.got = w.got \cup page
      /\ ~more.torn => ~w.torn /\ Reads!IsStored(w.root)
      /\ ~more.torn /\ ~w.repeated /\ w.got \cap page = {} => ~more.repeated
  BY <1>1, <1>4, <1>5, <1>6 DEF Reads!Walk
<1>8. Collected(more)
  <2> HIDE DEF more
  <2> QED BY <1>1, <1>6, <1>7 DEF Collected
<1> QED BY <1>1, <1>2, <1>7, <1>8, BecomeKeeps

LEMMA WalksStep ==
    ASSUME Reads!ConstantsTyped, WalksInv, [Reads!Next]_(Reads!vars)
    PROVE  WalksInv'
<1>1. ASSUME read' = read, current' \in Releases, moves' \in Nat
      PROVE WalksInv'
  BY <1>1 DEF WalksInv, Collected, Upto
<1>2. ASSUME NEW c \in Releases, Reads!Point(c) PROVE WalksInv'
  BY <1>1, <1>2 DEF Reads!Point, WalksInv
<1>3. CASE Reads!PruneSnapshot
  BY <1>1, <1>3 DEF Reads!PruneSnapshot, Reads!store, WalksInv
<1>4. CASE Reads!PruneDelete
  BY <1>1, <1>4 DEF Reads!PruneDelete, WalksInv
<1>5. CASE UNCHANGED Reads!vars
  BY <1>1, <1>5 DEF Reads!vars, WalksInv
<1>6. ASSUME NEW d \in Readers, Reads!Refused(d) PROVE WalksInv'
  <2> DEFINE walk == [read[d] EXCEPT !.todo = {}, !.outcome = "refused"]
  <2>1. read[d] \in Reads!Walk /\ Collected(read[d]) /\ Reads!Become(d, walk)
    BY <1>6 DEF WalksInv, Reads!Refused
  <2>2. walk \in Reads!Walk /\ Collected(walk)
    BY <2>1 DEF Reads!Walk, Collected, Upto
  <2> QED BY <2>1, <2>2, BecomeKeeps
<1>7. ASSUME NEW d \in Readers, Reads!Start(d) PROVE WalksInv'
  <2>1. read[d] \in Reads!Walk /\ Collected(read[d]) /\ read[d].outcome = "new"
    BY <1>7 DEF WalksInv, Reads!Start
  <2>2. PICK k \in Kinds :
          Reads!Become(d, [read[d] EXCEPT !.kind = k, !.root = current, !.todo = Reads!PartsOf(k),
                                    !.outcome = "walking"])
    BY <1>7 DEF Reads!Start
  <2> DEFINE walk == [read[d] EXCEPT !.kind = k, !.root = current, !.todo = Reads!PartsOf(k),
                                     !.outcome = "walking"]
  <2>3. k \in Reads!AllKinds /\ current \in Releases
    BY DEF Reads!ConstantsTyped, WalksInv
  <2>4. /\ walk \in Reads!Walk /\ walk.kind = k /\ walk.root = current /\ walk.todo = Reads!PartsOf(k)
        /\ walk.outcome = "walking" /\ walk.got = read[d].got /\ walk.cursor = read[d].cursor
        /\ walk.torn = read[d].torn /\ walk.repeated = read[d].repeated
    BY <2>1, <2>3 DEF Reads!Walk, Reads!Parts, Reads!PartsOf
  <2>5. Upto(current, 0) = {}
    <3>1. Rows[current] \subseteq 1 .. Len(Length) /\ Len(Length) \in Nat
      BY <2>3, RowsTyped
    <3>2. \A x \in 1 .. Len(Length) : ~ (x <= 0)
      BY <3>1
    <3> QED BY <3>1, <3>2 DEF Upto
  <2>6. Collected(walk)
    <3> HIDE DEF walk
    <3> QED BY <2>1, <2>3, <2>4, <2>5 DEF Collected, Reads!Parts, Reads!PartsOf
  <2> QED BY <2>2, <2>4, <2>6, BecomeKeeps
<1>8. ASSUME NEW d \in Readers, Reads!Gate(d) PROVE WalksInv'
  <2>1. CASE Reads!Refused(d)
    BY <2>1, <1>6
  <2>2. CASE Reads!Become(d, [Reads!Step(d, "gate") EXCEPT !.began = moves])
    <3> DEFINE walk == [Reads!Step(d, "gate") EXCEPT !.began = moves]
    <3>1. read[d] \in Reads!Walk /\ Collected(read[d]) /\ moves \in Nat
      BY DEF WalksInv
    <3>2. walk \in Reads!Walk /\ Collected(walk)
      BY <3>1 DEF Reads!Walk, Collected, Upto, Reads!Step
    <3> QED BY <2>2, <3>2, BecomeKeeps
  <2> QED BY <1>8, <2>1, <2>2 DEF Reads!Gate
<1>9. ASSUME NEW d \in Readers, Reads!CheckPresent(d) PROVE WalksInv'
  <2>1. CASE Reads!Refused(d)
    BY <2>1, <1>6
  <2>2. CASE Reads!Become(d, Reads!Step(d, "check"))
    <3>1. read[d] \in Reads!Walk /\ Collected(read[d])
      BY DEF WalksInv
    <3>2. Reads!Step(d, "check") \in Reads!Walk /\ Collected(Reads!Step(d, "check"))
      BY <3>1 DEF Reads!Walk, Collected, Upto, Reads!Step
    <3> QED BY <2>2, <3>2, BecomeKeeps
  <2> QED BY <1>9, <2>1, <2>2 DEF Reads!CheckPresent
<1>10. ASSUME NEW d \in Readers, Reads!ReadBeside(d) PROVE WalksInv'
  <2> DEFINE walk == [Reads!Step(d, "beside") EXCEPT
                        !.torn = @ \/ ~Reads!IsStored(read[d].root)]
  <2>1. read[d] \in Reads!Walk /\ Collected(read[d]) /\ Reads!Become(d, walk)
    BY <1>10 DEF WalksInv, Reads!ReadBeside
  <2>2. walk \in Reads!Walk /\ Collected(walk)
    BY <2>1 DEF Reads!Walk, Collected, Upto, Reads!Step
  <2> QED BY <2>1, <2>2, BecomeKeeps
<1>11. ASSUME NEW d \in Readers, Reads!Answer(d) PROVE WalksInv'
  <2>1. /\ read[d] \in Reads!Walk /\ Collected(read[d])
        /\ read[d].outcome = "walking" /\ read[d].todo = {}
    BY <1>11 DEF WalksInv, Reads!Answer
  <2>2. CASE read[d].next = 0
    <3> DEFINE walk == [read[d] EXCEPT !.outcome = "complete"]
    <3>1. Reads!Become(d, walk)
      BY <1>11, <2>2 DEF Reads!Answer
    <3>2. walk \in Reads!Walk /\ Collected(walk)
      BY <2>1, <2>2 DEF Reads!Walk, Collected
    <3> QED BY <3>1, <3>2, BecomeKeeps
  <2>3. CASE read[d].next # 0
    <3> DEFINE walk == [read[d] EXCEPT !.todo = Reads!PartsOf(read[d].kind), !.cursor = read[d].next]
    <3>1. Reads!Become(d, walk)
      BY <1>11, <2>3 DEF Reads!Answer
    <3>2. walk \in Reads!Walk /\ Collected(walk)
      BY <2>1, <2>3 DEF Reads!Walk, Collected, Upto, Reads!Parts, Reads!PartsOf
    <3> QED BY <3>1, <3>2, BecomeKeeps
  <2> QED BY <2>2, <2>3
<1> QED BY <1>2, <1>3, <1>4, <1>5, <1>7, <1>8, <1>9, <1>10, <1>11, RowsKeep
           DEF Reads!Next

LEMMA WalksWhole == WalksInv /\ "browse" \notin Kinds => Reads!PagesComplete
BY DEF WalksInv, Collected, Reads!PagesComplete, Reads!Walk

(* The current release is stored, and a prune that no move has interrupted *)
(* is about to delete nothing that the gate lets through.                  *)
StoreInv ==
    /\ liveAt \in [Releases -> Nat] /\ current \in Releases /\ Reads!IsStored(current)
    /\ moves \in Nat
    /\ doomed \subseteq Releases
    /\ pruning => /\ seenMoves \in Nat /\ seenMoves <= moves
                  /\ seenMoves = moves => doomed \cap Reads!Kept = {}

(* What passed the gate is still in the window, unless the pointer moved   *)
(* since then or under a prune.                                            *)
Admitted(w) ==
    w.outcome = "walking" /\ "gate" \notin w.todo =>
      /\ w.began \in Nat /\ w.began <= moves
      /\ w.began = moves => w.root \in crossed \/ w.root \in Reads!Kept

GateInv == StoreInv /\ read \in [Readers -> Reads!Walk] /\ \A d \in Readers : Admitted(read[d])

-----------------------------------------------------------------------------
LEMMA KeptStored == StoreInv => \A c \in Reads!Kept : c \in Releases /\ Reads!IsStored(c)
BY DEF StoreInv, Reads!Kept, Reads!Latest, Reads!Behind

(* A prune that deletes nothing of the window leaves it as it is, or       *)
(* larger.                                                                 *)
LEMMA PruneSparesKept ==
    ASSUME Reads!ConstantsTyped, StoreInv, NEW gone \in SUBSET Releases, current \notin gone,
           liveAt' = [c \in Releases |-> IF c \in gone THEN 0 ELSE liveAt[c]],
           current' = current
    PROVE  Reads!Kept \ gone \subseteq Reads!Kept'
<1>1. liveAt \in [Releases -> Nat] /\ current \in Releases
  BY DEF StoreInv
<1>2. Reads!Behind' = Reads!Behind \ gone
  BY <1>1 DEF Reads!Behind, Reads!IsStored
<1>3. ASSUME NEW c \in Reads!Latest(Predecessors), c \notin gone
      PROVE  c \in Reads!Latest(Predecessors)'
  <2> DEFINE above == {d \in Reads!Behind : liveAt[d] > liveAt[c]}
             later == {d \in Reads!Behind' : liveAt'[d] > liveAt'[c]}
  <2>1. c \in Reads!Behind /\ c \in Reads!Behind' /\ Cardinality(above) < Predecessors
    BY <1>2, <1>3, SameCounts DEF Reads!Latest
  <2>2. later \subseteq above
    BY <1>1, <1>2, <1>3, <2>1 DEF Reads!Behind
  <2>3. IsFiniteSet(above)
    <3>1. above \subseteq Releases
      BY DEF Reads!Behind
    <3> HIDE DEF above
    <3> QED BY <3>1, FS_Subset, SameCounts DEF Reads!ConstantsTyped
  <2>4. Cardinality(later) <= Cardinality(above) /\ IsFiniteSet(later)
    <3> HIDE DEF above, later
    <3> QED BY <2>2, <2>3, FS_Subset
  <2>5. Cardinality(later) \in Nat /\ Cardinality(above) \in Nat /\ Predecessors \in Nat
    <3> HIDE DEF above, later
    <3> QED BY <2>3, <2>4, FS_CardinalityType DEF Reads!ConstantsTyped
  <2>6. Cardinality(later) < Predecessors
    <3> HIDE DEF above, later
    <3> QED BY <2>1, <2>4, <2>5
  <2> QED BY <2>1, <2>6, SameCounts DEF Reads!Latest
<1> QED BY <1>1, <1>3 DEF Reads!Kept

LEMMA GateInit == Reads!ConstantsTyped /\ Reads!Init => GateInv
<1> SUFFICES ASSUME Reads!ConstantsTyped, Reads!Init PROVE GateInv
  OBVIOUS
<1>1. StoreInv
  BY DEF Reads!Init, StoreInv, Reads!IsStored
<1>2. ASSUME NEW d \in Readers PROVE Admitted(read[d])
  BY DEF Reads!Init, Reads!Fresh, Admitted
<1>3. read \in [Readers -> Reads!Walk]
  BY WalksInit DEF WalksInv
<1> QED BY <1>1, <1>2, <1>3 DEF GateInv

(* A request changes nothing of the store.                                 *)
LEMMA BecomeAdmits ==
    ASSUME GateInv, NEW d \in Readers, NEW walk, Reads!Become(d, walk),
           read' \in [Readers -> Reads!Walk], Admitted(walk)
    PROVE  GateInv'
<1>1. UNCHANGED <<liveAt, current, moves, pruning, doomed, seenMoves, crossed>>
      /\ read' = [read EXCEPT ![d] = walk]
  BY DEF Reads!Become, Reads!store, Reads!prune
<1>2. Reads!Kept' = Reads!Kept
  BY <1>1 DEF Reads!Kept, Reads!Latest, Reads!Behind, Reads!IsStored
<1>3. StoreInv'
  BY <1>1, <1>2 DEF GateInv, StoreInv, Reads!IsStored
<1>4. ASSUME NEW e \in Readers PROVE Admitted(read[e])'
  <2>1. read'[e] = IF e = d THEN walk ELSE read[e]
    BY <1>1 DEF GateInv
  <2>2. Admitted(read'[e])
    BY <2>1 DEF GateInv
  <2> QED BY <2>2, <1>1, <1>2 DEF Admitted
<1> QED BY <1>3, <1>4 DEF GateInv

LEMMA GateStep ==
    ASSUME Reads!ConstantsTyped, GateInv, [Reads!Next]_(Reads!vars), read' \in [Readers -> Reads!Walk]
    PROVE  GateInv'
<1>0. StoreInv /\ \A d \in Readers : read[d] \in Reads!Walk /\ Admitted(read[d])
  BY DEF GateInv
<1>1. ASSUME NEW c \in Releases, Reads!Point(c) PROVE GateInv'
  <2>1. /\ current' = c /\ moves' = moves + 1 /\ moves \in Nat
        /\ UNCHANGED <<pruning, doomed, seenMoves, read>>
    BY <1>0, <1>1 DEF Reads!Point, StoreInv
  <2>2. liveAt' \in [Releases -> Nat] /\ liveAt'[c] > 0
    BY <1>0, <1>1 DEF Reads!Point, StoreInv, Reads!IsStored, Reads!Instants,
                      Reads!ConstantsTyped
  <2>3. StoreInv'
    BY <2>1, <2>2, <1>0 DEF StoreInv, Reads!IsStored
  <2>4. \A d \in Readers : Admitted(read[d])'
    BY <1>0, <2>1 DEF Admitted
  <2> QED BY <2>1, <2>3, <2>4, <1>0 DEF GateInv
<1>2. CASE Reads!PruneSnapshot
  <2>1. /\ UNCHANGED <<liveAt, current, moves, crossed, read>>
        /\ doomed' = {c \in Releases : Reads!IsStored(c)} \ Reads!Kept /\ seenMoves' = moves
    BY <1>2 DEF Reads!PruneSnapshot, Reads!store
  <2>2. Reads!Kept' = Reads!Kept
    BY <2>1 DEF Reads!Kept, Reads!Latest, Reads!Behind, Reads!IsStored
  <2>3. StoreInv'
    BY <2>1, <2>2, <1>0 DEF StoreInv, Reads!IsStored
  <2>4. \A d \in Readers : Admitted(read[d])'
    BY <1>0, <2>1, <2>2 DEF Admitted
  <2> QED BY <2>1, <2>3, <2>4, <1>0 DEF GateInv
<1>3. CASE Reads!PruneDelete
  <2>1. UNCHANGED <<current, moves, read>> /\ ~pruning' /\ doomed' = {} /\ pruning
    BY <1>3 DEF Reads!PruneDelete
  <2>2. CASE current \in doomed
    <3>1. UNCHANGED <<liveAt, crossed>>
      BY <1>3, <2>2 DEF Reads!PruneDelete
    <3>2. Reads!Kept' = Reads!Kept
      BY <2>1, <3>1 DEF Reads!Kept, Reads!Latest, Reads!Behind, Reads!IsStored
    <3>3. StoreInv'
      BY <2>1, <3>1, <3>2, <1>0 DEF StoreInv, Reads!IsStored
    <3>4. \A d \in Readers : Admitted(read[d])'
      BY <1>0, <2>1, <3>1, <3>2 DEF Admitted
    <3> QED BY <2>1, <3>3, <3>4, <1>0 DEF GateInv
  <2>3. CASE current \notin doomed
    <3>1. /\ liveAt' = [c \in Releases |-> IF c \in doomed THEN 0 ELSE liveAt[c]]
          /\ crossed' = IF moves = seenMoves THEN crossed ELSE crossed \cup doomed
      BY <1>3, <2>3 DEF Reads!PruneDelete
    <3>2. /\ doomed \subseteq Releases /\ current \in Releases /\ liveAt \in [Releases -> Nat]
          /\ moves = seenMoves => doomed \cap Reads!Kept = {}
      BY <1>0, <2>1 DEF StoreInv
    <3>3. Reads!Kept \ doomed \subseteq Reads!Kept'
      BY <1>0, <2>1, <2>3, <3>1, <3>2, PruneSparesKept
    <3>4. StoreInv'
      BY <1>0, <2>1, <2>3, <3>1, <3>2 DEF StoreInv, Reads!IsStored
    <3>5. \A d \in Readers : Admitted(read[d])'
      <4>1. \A c \in Reads!Kept : c \in crossed' \/ c \in Reads!Kept'
        BY <3>1, <3>2, <3>3
      <4>2. crossed \subseteq crossed'
        BY <3>1
      <4> QED BY <1>0, <2>1, <4>1, <4>2 DEF Admitted
    <3> QED BY <2>1, <3>4, <3>5, <1>0 DEF GateInv
  <2> QED BY <2>2, <2>3
<1>4. CASE UNCHANGED Reads!vars
  <2>1. UNCHANGED <<liveAt, current, moves, pruning, doomed, seenMoves, crossed, read>>
    BY <1>4 DEF Reads!vars
  <2>2. Reads!Kept' = Reads!Kept
    BY <2>1 DEF Reads!Kept, Reads!Latest, Reads!Behind, Reads!IsStored
  <2>3. StoreInv' /\ \A d \in Readers : Admitted(read[d])'
    BY <2>1, <2>2, <1>0 DEF StoreInv, Reads!IsStored, Admitted
  <2> QED BY <2>1, <2>3, <1>0 DEF GateInv
<1>5. ASSUME NEW d \in Readers, Reads!Refused(d) PROVE GateInv'
  <2>1. Admitted([read[d] EXCEPT !.todo = {}, !.outcome = "refused"])
    BY <1>0 DEF Admitted, Reads!Walk
  <2> QED BY <2>1, <1>5, BecomeAdmits DEF Reads!Refused
<1>6. ASSUME NEW d \in Readers, Reads!Start(d) PROVE GateInv'
  <2>1. PICK k \in Kinds :
          Reads!Become(d, [read[d] EXCEPT !.kind = k, !.root = current, !.todo = Reads!PartsOf(k),
                                    !.outcome = "walking"])
    BY <1>6 DEF Reads!Start
  <2>2. Admitted([read[d] EXCEPT !.kind = k, !.root = current, !.todo = Reads!PartsOf(k),
                                 !.outcome = "walking"])
    BY <1>0 DEF Admitted, Reads!Walk, Reads!Parts, Reads!PartsOf
  <2> QED BY <2>1, <2>2, BecomeAdmits
<1>7. ASSUME NEW d \in Readers, Reads!Gate(d) PROVE GateInv'
  <2>1. CASE Reads!Readable(read[d].root)
    <3>1. Reads!Become(d, [Reads!Step(d, "gate") EXCEPT !.began = moves])
      BY <1>7, <2>1 DEF Reads!Gate
    <3>2. Admitted([Reads!Step(d, "gate") EXCEPT !.began = moves])
      BY <1>0, <2>1 DEF Admitted, Reads!Walk, Reads!Step, Reads!Readable,
             StoreInv
    <3> QED BY <3>1, <3>2, BecomeAdmits
  <2>2. CASE ~Reads!Readable(read[d].root)
    BY <1>5, <1>7, <2>2 DEF Reads!Gate
  <2> QED BY <2>1, <2>2
<1>8. ASSUME NEW d \in Readers, Reads!CheckPresent(d) PROVE GateInv'
  <2>1. CASE Reads!Refused(d)
    BY <2>1, <1>5
  <2>2. CASE Reads!Become(d, Reads!Step(d, "check"))
    <3>1. Admitted(Reads!Step(d, "check"))
      BY <1>0 DEF Admitted, Reads!Walk, Reads!Step
    <3> QED BY <2>2, <3>1, BecomeAdmits
  <2> QED BY <1>8, <2>1, <2>2 DEF Reads!CheckPresent
<1>9. ASSUME NEW d \in Readers, Reads!ReadRows(d) PROVE GateInv'
  <2>1. PICK got, repeated, torn, next :
          Reads!Become(d, [Reads!Step(d, "rows") EXCEPT !.got = got, !.repeated = repeated,
                                            !.torn = torn, !.next = next])
    BY <1>9 DEF Reads!ReadRows
  <2>2. Admitted([Reads!Step(d, "rows") EXCEPT !.got = got, !.repeated = repeated,
                                         !.torn = torn, !.next = next])
    BY <1>0 DEF Admitted, Reads!Walk, Reads!Step
  <2> QED BY <2>1, <2>2, BecomeAdmits
<1>10. ASSUME NEW d \in Readers, Reads!ReadBeside(d) PROVE GateInv'
  <2>1. PICK torn : Reads!Become(d, [Reads!Step(d, "beside") EXCEPT !.torn = torn])
    BY <1>10 DEF Reads!ReadBeside
  <2>2. Admitted([Reads!Step(d, "beside") EXCEPT !.torn = torn])
    BY <1>0 DEF Admitted, Reads!Walk, Reads!Step
  <2> QED BY <2>1, <2>2, BecomeAdmits
<1>11. ASSUME NEW d \in Readers, Reads!Answer(d) PROVE GateInv'
  <2>1. Admitted([read[d] EXCEPT !.outcome = "complete"])
    BY <1>0 DEF Admitted, Reads!Walk
  <2>2. Admitted([read[d] EXCEPT !.todo = Reads!PartsOf(read[d].kind), !.cursor = read[d].next])
    BY <1>0 DEF Admitted, Reads!Walk, Reads!Parts, Reads!PartsOf
  <2> QED BY <1>11, <2>1, <2>2, BecomeAdmits DEF Reads!Answer
<1> QED
  BY <1>1, <1>2, <1>3, <1>4, <1>6, <1>7, <1>8, <1>9, <1>10, <1>11 DEF Reads!Next

(* A statement tears a walk only where its release is gone.                *)
LEMMA TearsMoved ==
    ASSUME GateInv, [Reads!Next]_(Reads!vars)
    PROVE Reads!MovedUnder
<1> SUFFICES ASSUME NEW d \in Readers, ~read[d].torn, read'[d].torn
             PROVE  read[d].began < moves \/ read[d].root \in crossed
  BY DEF Reads!MovedUnder
<1>1. read[d] \in Reads!Walk /\ Admitted(read[d]) /\ StoreInv
  BY DEF GateInv
<1>2. ASSUME read[d].outcome = "walking", "gate" \notin read[d].todo,
             ~Reads!IsStored(read[d].root)
      PROVE  read[d].began < moves \/ read[d].root \in crossed
  <2>1. read[d].root \notin Reads!Kept
    BY <1>1, <1>2, KeptStored
  <2>2. read[d].began \in Nat /\ moves \in Nat /\ read[d].began <= moves
    BY <1>1, <1>2 DEF Admitted, StoreInv
  <2> QED BY <1>1, <1>2, <2>1, <2>2 DEF Admitted
<1>3. ASSUME NEW e \in Readers, NEW walk, Reads!Become(e, walk), d = e => ~walk.torn
      PROVE  FALSE
  BY <1>3 DEF Reads!Become, GateInv
<1>4. ASSUME NEW e \in Readers, Reads!ReadRows(e)
      PROVE  read[d].began < moves \/ read[d].root \in crossed
  <2>1. read[e] \in Reads!Walk
    BY DEF GateInv
  <2>2. PICK got, repeated, next :
          Reads!Become(e, [Reads!Step(e, "rows") EXCEPT
                       !.got = got, !.repeated = repeated,
                       !.torn = @ \/ ~Reads!IsStored(read[e].root), !.next = next])
    BY <1>4 DEF Reads!ReadRows
  <2>3. d = e /\ ~Reads!IsStored(read[d].root)
    <3> SUFFICES ASSUME d = e => Reads!IsStored(read[d].root) PROVE FALSE
      OBVIOUS
    <3>1. d = e => ~[Reads!Step(e, "rows") EXCEPT
                       !.got = got, !.repeated = repeated,
                       !.torn = @ \/ ~Reads!IsStored(read[e].root), !.next = next].torn
      BY <2>1 DEF Reads!Step, Reads!Walk
    <3> QED BY <2>2, <3>1, <1>3
  <2> QED BY <1>2, <1>4, <2>3 DEF Reads!ReadRows, Reads!Todo
<1>5. ASSUME NEW e \in Readers, Reads!ReadBeside(e)
      PROVE  read[d].began < moves \/ read[d].root \in crossed
  <2>1. read[e] \in Reads!Walk
    BY DEF GateInv
  <2> DEFINE walk == [Reads!Step(e, "beside") EXCEPT
                        !.torn = @ \/ ~Reads!IsStored(read[e].root)]
  <2>2. Reads!Become(e, walk)
    BY <1>5 DEF Reads!ReadBeside
  <2>3. d = e /\ ~Reads!IsStored(read[d].root)
    <3> SUFFICES ASSUME d = e => Reads!IsStored(read[d].root) PROVE FALSE
      OBVIOUS
    <3>1. d = e => ~walk.torn
      BY <2>1 DEF Reads!Step, Reads!Walk
    <3> QED BY <2>2, <3>1, <1>3
  <2> QED BY <1>2, <1>5, <2>3 DEF Reads!ReadBeside, Reads!Todo
<1>6. ASSUME NEW e \in Readers, Reads!Start(e) \/ Reads!Gate(e) \/ Reads!CheckPresent(e) \/ Reads!Answer(e)
      PROVE  FALSE
  <2>1. read[e] \in Reads!Walk
    BY DEF GateInv
  <2>2. ASSUME NEW walk, Reads!Become(e, walk), walk.torn = read[e].torn
        PROVE FALSE
    BY <2>2, <1>3
  <2>3. CASE Reads!Start(e)
    <3>1. PICK k \in Kinds :
            Reads!Become(e, [read[e] EXCEPT !.kind = k, !.root = current, !.todo = Reads!PartsOf(k),
                                      !.outcome = "walking"])
      BY <2>3 DEF Reads!Start
    <3>2. [read[e] EXCEPT !.kind = k, !.root = current, !.todo = Reads!PartsOf(k),
                          !.outcome = "walking"].torn = read[e].torn
      BY <2>1 DEF Reads!Walk
    <3> QED BY <3>1, <3>2, <2>2
  <2>4. ASSUME Reads!Refused(e) PROVE FALSE
    <3>1. [read[e] EXCEPT !.todo = {}, !.outcome = "refused"].torn = read[e].torn
      BY <2>1 DEF Reads!Walk
    <3> QED BY <2>4, <3>1, <2>2 DEF Reads!Refused
  <2>5. [Reads!Step(e, "gate") EXCEPT !.began = moves].torn = read[e].torn
        /\ Reads!Step(e, "check").torn = read[e].torn
    BY <2>1 DEF Reads!Walk, Reads!Step
  <2>6. [read[e] EXCEPT !.outcome = "complete"].torn = read[e].torn
        /\ [read[e] EXCEPT !.todo = Reads!PartsOf(read[e].kind), !.cursor = read[e].next].torn = read[e].torn
    BY <2>1 DEF Reads!Walk
  <2>7. CASE Reads!Gate(e)
    BY <2>7, <2>2, <2>4, <2>5 DEF Reads!Gate
  <2>8. CASE Reads!CheckPresent(e)
    BY <2>8, <2>2, <2>4, <2>5 DEF Reads!CheckPresent
  <2>9. CASE Reads!Answer(e)
    BY <2>9, <2>2, <2>6 DEF Reads!Answer
  <2> QED BY <1>6, <2>3, <2>7, <2>8, <2>9
<1>7. ASSUME read' = read PROVE FALSE
  BY <1>7
<1> QED
  BY <1>4, <1>5, <1>6, <1>7
     DEF Reads!Next, Reads!Point, Reads!PruneSnapshot, Reads!PruneDelete, Reads!vars

-----------------------------------------------------------------------------
(* The function that Ancestry is, for the first n of some commits.         *)
IsAncestry(f, cs, n) ==
    f = [x \in 0 .. n |->
           IF x = 0 THEN {} ELSE {x} \cup f[cs[x].parent] \cup f[cs[x].other]]

Ordered(cs) ==
    \A x \in 1 .. Len(cs) : cs[x].parent \in 0 .. x - 1 /\ cs[x].other \in 0 .. x - 1

AncestryEquation(f, cs, n) ==
    \A x \in 0 .. n :
      /\ x = 0 => f[x] = {}
      /\ x # 0 => f[x] = {x} \cup f[cs[x].parent] \cup f[cs[x].other]

LEMMA AncestryAt ==
    ASSUME NEW f, NEW cs, NEW n, IsAncestry(f, cs, n)
    PROVE  AncestryEquation(f, cs, n)
<1> DEFINE F(y) == IF y = 0 THEN {} ELSE {y} \cup f[cs[y].parent] \cup f[cs[y].other]
<1>1. f = [y \in 0 .. n |-> F(y)]
  BY DEF IsAncestry
<1> HIDE DEF F
<1>2. \A x \in 0 .. n : f[x] = F(x)
  BY <1>1
<1> QED BY <1>2 DEF F, AncestryEquation

(* Commits that agree on their parents have the same ancestry.             *)
LEMMA AncestriesAgree ==
    ASSUME NEW f, NEW g, NEW cs, NEW ds, NEW m \in Nat, NEW n \in Nat, m <= n,
           IsAncestry(f, cs, m), IsAncestry(g, ds, n),
           \A x \in 1 .. m :
             /\ cs[x].parent \in 0 .. x - 1 /\ cs[x].other \in 0 .. x - 1
             /\ ds[x].parent = cs[x].parent /\ ds[x].other = cs[x].other
    PROVE  \A x \in 0 .. m : f[x] = g[x]
<1> DEFINE S == {x \in 0 .. m : f[x] # g[x]}
<1> SUFFICES ASSUME S # {} PROVE FALSE
  OBVIOUS
<1>1. S \in SUBSET Nat
  OBVIOUS
<1>2. PICK x \in S : \A y \in S : x <= y
  <2> HIDE DEF S
  <2> QED BY <1>1, Least
<1>3. \A y \in 0 .. x - 1 : f[y] = g[y]
  BY <1>2
<1>4. x \in 0 .. m /\ f[x] # g[x]
  BY <1>2
<1>5. AncestryEquation(f, cs, m) /\ AncestryEquation(g, ds, n)
  BY AncestryAt, Zenon
<1>6. x \in 0 .. n
  BY <1>4
<1>7. x # 0 /\ x \in 1 .. m
  <2>1. f[0] = {} /\ g[0] = {}
    BY <1>5 DEF AncestryEquation
  <2>2. x # 0
    BY <1>4, <2>1, Zenon
  <2> HIDE DEF S
  <2> QED BY <1>4, <2>2
<1>8. ds[x].parent = cs[x].parent /\ ds[x].other = cs[x].other
      /\ f[cs[x].parent] = g[cs[x].parent] /\ f[cs[x].other] = g[cs[x].other]
  BY <1>3, <1>7
<1>9. f[x] = {x} \cup f[cs[x].parent] \cup f[cs[x].other]
  BY <1>4, <1>5, <1>7 DEF AncestryEquation
<1>10. g[x] = {x} \cup g[ds[x].parent] \cup g[ds[x].other]
  BY <1>6, <1>5, <1>7 DEF AncestryEquation
<1> QED BY <1>4, <1>8, <1>9, <1>10

LEMMA AncestryExists ==
    ASSUME NEW cs, Ordered(cs), Len(cs) \in Nat
    PROVE  \E f : IsAncestry(f, cs, Len(cs))
<1> DEFINE S == {n \in 0 .. Len(cs) : ~ \E f : IsAncestry(f, cs, n)}
<1> SUFFICES ASSUME S # {} PROVE FALSE
  OBVIOUS
<1>1. S \in SUBSET Nat
  OBVIOUS
<1>2. PICK n \in S : \A y \in S : n <= y
  <2> HIDE DEF S
  <2> QED BY <1>1, Least
<1>3. n \in 0 .. Len(cs) /\ ~ \E f : IsAncestry(f, cs, n)
  BY <1>2
<1>4. CASE n = 0
  <2>1. IsAncestry([x \in 0 .. 0 |-> {}], cs, 0)
    BY DEF IsAncestry
  <2> QED BY <2>1, <1>3, <1>4
<1>5. CASE n # 0
  <2>1. n - 1 \in 0 .. Len(cs) /\ n - 1 \notin S
    BY <1>2, <1>3, <1>5
  <2>2. PICK f : IsAncestry(f, cs, n - 1)
    BY <2>1
  <2>3. cs[n].parent \in 0 .. n - 1 /\ cs[n].other \in 0 .. n - 1
    BY <1>3, <1>5 DEF Ordered
  <2> DEFINE last == {n} \cup f[cs[n].parent] \cup f[cs[n].other]
             g == [x \in 0 .. n |-> IF x = n THEN last ELSE f[x]]
  <2>4. AncestryEquation(f, cs, n - 1) /\ \A x \in 0 .. n - 1 : g[x] = f[x]
    <3>1. \A x \in 0 .. n - 1 : g[x] = f[x]
      BY <1>3
    <3> QED BY <3>1, <2>2, AncestryAt, Zenon
  <2>5. g[n] = {n} \cup g[cs[n].parent] \cup g[cs[n].other]
    BY <2>3, <1>3
  <2>6. \A x \in 0 .. n :
          g[x] = IF x = 0 THEN {} ELSE {x} \cup g[cs[x].parent] \cup g[cs[x].other]
    <3> SUFFICES ASSUME NEW x \in 0 .. n
                 PROVE  g[x] = IF x = 0 THEN {}
                               ELSE {x} \cup g[cs[x].parent] \cup g[cs[x].other]
      OBVIOUS
    <3> HIDE DEF g
    <3>1. CASE x = n
      BY <3>1, <2>5, <1>5
    <3>2. CASE x # n
      <4>1. x \in 0 .. n - 1
        BY <3>2, <1>3
      <4>2. x # 0 => cs[x].parent \in 0 .. n - 1 /\ cs[x].other \in 0 .. n - 1
        BY <4>1, <1>3 DEF Ordered
      <4> QED BY <4>1, <4>2, <2>4 DEF AncestryEquation
    <3> QED BY <3>1, <3>2
  <2>7. IsAncestry(g, cs, n)
    <3>1. g = [x \in 0 .. n |-> g[x]]
      OBVIOUS
    <3> HIDE DEF g
    <3> QED BY <3>1, <2>6 DEF IsAncestry
  <2> QED BY <2>7, <1>3
<1> QED BY <1>4, <1>5

LEMMA AncestryIs ==
    ASSUME Ordered(revisions), Len(revisions) \in Nat
    PROVE  IsAncestry(History!Ancestry, revisions, Len(revisions))
<1>1. History!Ancestry = CHOOSE f : IsAncestry(f, revisions, Len(revisions))
  BY DEF History!Ancestry, IsAncestry
<1> QED BY <1>1, AncestryExists

(* Where a standing may still lead.                                        *)
Grows(a, b) ==
    \A c \in Claims :
      /\ a[c] # "none" => b[c] # "none"
      /\ History!IsDecided(a[c]) => History!IsDecided(b[c])
      /\ a[c] = "accepted" => b[c] \in {"accepted", "superseded"}
      /\ a[c] \in {"superseded", "rejected", "withdrawn"} => b[c] = a[c]

Shaped ==
    /\ revisions \in Seq(History!Commit) /\ Ordered(revisions)
    /\ 1 \in DOMAIN revisions /\ revisions[1].index = History!Genesis
    /\ \A x \in DOMAIN revisions :
         LET k == revisions[x] IN
         /\ k.parent = 0 => x = 1 /\ k.other = 0 /\ k.touched
         /\ k.touched => k.other = 0
         /\ k.other = 0 /\ ~k.touched => k.index = revisions[k.parent].index
         /\ \A c \in Claims : c \in k.decides <=>
              /\ k.other = 0 /\ History!IsDecided(k.index[c])
              /\ k.parent # 0 => ~History!IsDecided(revisions[k.parent].index[c])

Branches ==
    /\ head \in DOMAIN revisions /\ {side, fork} \subseteq DOMAIN revisions \cup {0}

(* A commit's index has grown from every one it descends from.             *)
Descended(t) ==
    \A x \in History!Ancestry[t] :
      x \in 1 .. t /\ Grows(revisions[x].index, revisions[t].index)

(* What is decided was decided by one commit.                              *)
OnceDecided(t) ==
    \A c \in Claims :
      /\ History!IsDecided(revisions[t].index[c]) =>
           \E x \in History!Ancestry[t] : c \in revisions[x].decides
      /\ \A x, y \in History!Ancestry[t] :
           c \in revisions[x].decides /\ c \in revisions[y].decides => x = y

AddedAt(x) ==
    IF revisions[x].touched /\ revisions[x].parent # 0
    THEN History!AcceptedIn(revisions[x].index) \ History!AcceptedIn(revisions[revisions[x].parent].index) ELSE {}

RemovedAt(x) ==
    IF revisions[x].touched /\ revisions[x].parent # 0
    THEN History!AcceptedIn(revisions[revisions[x].parent].index) \ History!AcceptedIn(revisions[x].index) ELSE {}

AddedBy(t)   == {c \in Claims : \E x \in History!Ancestry[t] : c \in AddedAt(x)}
RemovedBy(t) == {c \in Claims : \E x \in History!Ancestry[t] : c \in RemovedAt(x)}

(* The rows of a history lead to what is accepted at its end.              *)
Explained(t) ==
    \A c \in Claims :
      /\ c \in RemovedBy(t) => revisions[t].index[c] = "superseded"
      /\ c \in Imported \cup AddedBy(t) => revisions[t].index[c] \in {"accepted", "superseded"}
      /\ revisions[t].index[c] = "accepted" <=>
           c \in (Imported \cup AddedBy(t)) \ RemovedBy(t)

(* The side branch goes on from fork, and so does the published one.       *)
Forked ==
    side # 0 =>
      /\ fork # 0
      /\ History!Ancestry[fork] \subseteq History!Ancestry[head] \cap History!Ancestry[side]
      /\ \A x \in History!Ancestry[head] \ History!Ancestry[fork] :
           revisions[x].parent # 0 /\ fork \in History!Ancestry[revisions[x].parent]

Linked == \A t \in DOMAIN revisions : Descended(t) /\ OnceDecided(t) /\ Explained(t)

Replayed == Shaped /\ Branches /\ Linked /\ Forked

-----------------------------------------------------------------------------
LEMMA GrowsOn ==
    ASSUME NEW a, NEW b, NEW d, Grows(a, b), Grows(b, d)
    PROVE  Grows(a, d)
BY DEF Grows, History!IsDecided

LEMMA GrowsSame == ASSUME NEW a PROVE Grows(a, a)
BY DEF Grows

LEMMA SuccessorsGrow ==
    ASSUME NEW a \in History!Indexes, NEW b \in History!Successors(a)
    PROVE  b \in History!Indexes /\ Grows(a, b)
<1>1. ASSUME NEW c \in Claims, a[c] = "none", b = [a EXCEPT ![c] = "pending"]
      PROVE  b \in History!Indexes /\ Grows(a, b)
  BY <1>1 DEF History!Indexes, History!Standings, Grows, History!IsDecided
<1>2. ASSUME NEW c \in History!PendingIn(a)
      PROVE  /\ History!IfAccept(a, c) \in History!Indexes /\ Grows(a, History!IfAccept(a, c))
             /\ History!IfReject(a, c) \in History!Indexes /\ Grows(a, History!IfReject(a, c))
             /\ [a EXCEPT ![c] = "withdrawn"] \in History!Indexes
             /\ Grows(a, [a EXCEPT ![c] = "withdrawn"])
  <2>0. c \in Claims /\ a[c] = "pending"
    BY DEF History!PendingIn
  <2>1. History!IfAccept(a, c) \in History!Indexes /\ Grows(a, History!IfAccept(a, c))
    BY <2>0 DEF History!Indexes, History!Standings, Grows, History!IfAccept,
                History!IsDecided
  <2>2. History!IfReject(a, c) \in History!Indexes /\ Grows(a, History!IfReject(a, c))
    BY <2>0 DEF History!Indexes, History!Standings, Grows, History!IfReject,
                History!IsDecided
  <2>3. [a EXCEPT ![c] = "withdrawn"] \in History!Indexes /\ Grows(a, [a EXCEPT ![c] = "withdrawn"])
    BY <2>0 DEF History!Indexes, History!Standings, Grows, History!IsDecided
  <2> QED BY <2>1, <2>2, <2>3
<1>3. \/ \E c \in Claims : a[c] = "none" /\ b = [a EXCEPT ![c] = "pending"]
      \/ \E c \in History!PendingIn(a) :
           \/ b = History!IfAccept(a, c) \/ b = History!IfReject(a, c)
           \/ b = [a EXCEPT ![c] = "withdrawn"]
  BY DEF History!Successors
<1> QED BY <1>1, <1>2, <1>3

-----------------------------------------------------------------------------
(* Ancestry of what is there.                                              *)
LEMMA Ancestors ==
    ASSUME Ordered(revisions), revisions \in Seq(History!Commit)
    PROVE  /\ History!Ancestry[0] = {}
           /\ \A x \in DOMAIN revisions :
                /\ History!Ancestry[x] = {x} \cup History!Ancestry[revisions[x].parent]
                                     \cup History!Ancestry[revisions[x].other]
                /\ x \in History!Ancestry[x]
<1>1. Len(revisions) \in Nat /\ DOMAIN revisions = 1 .. Len(revisions)
  OBVIOUS
<1>2. AncestryEquation(History!Ancestry, revisions, Len(revisions))
  BY <1>1, AncestryIs, AncestryAt, Zenon
<1> QED BY <1>1, <1>2 DEF AncestryEquation

(* A new commit changes nothing for those before it.                       *)
LEMMA AncestorsStay ==
    ASSUME Ordered(revisions), revisions \in Seq(History!Commit),
           Ordered(revisions)', revisions' \in Seq(History!Commit), Len(revisions) <= Len(revisions'),
           \A x \in DOMAIN revisions :
             /\ revisions'[x].parent = revisions[x].parent
             /\ revisions'[x].other = revisions[x].other
    PROVE  /\ \A x \in DOMAIN revisions \cup {0} : History!Ancestry'[x] = History!Ancestry[x]
           /\ AncestryEquation(History!Ancestry', revisions', Len(revisions'))
<1>1. Len(revisions) \in Nat /\ Len(revisions') \in Nat /\ DOMAIN revisions = 1 .. Len(revisions)
  OBVIOUS
<1>2. IsAncestry(History!Ancestry, revisions, Len(revisions))
  BY <1>1, AncestryIs
<1>3. History!Ancestry' = CHOOSE f : IsAncestry(f, revisions', Len(revisions'))
  BY DEF History!Ancestry, IsAncestry
<1>4. \E f : IsAncestry(f, revisions', Len(revisions'))
  <2>1. Ordered(revisions')
    BY DEF Ordered
  <2> QED BY <2>1, <1>1, AncestryExists
<1>5. IsAncestry(History!Ancestry', revisions', Len(revisions'))
  BY <1>3, <1>4
<1>6. \A x \in 1 .. Len(revisions) :
        /\ revisions[x].parent \in 0 .. x - 1 /\ revisions[x].other \in 0 .. x - 1
        /\ revisions'[x].parent = revisions[x].parent /\ revisions'[x].other = revisions[x].other
  BY <1>1 DEF Ordered
<1>7. \A x \in 0 .. Len(revisions) : History!Ancestry[x] = History!Ancestry'[x]
  BY <1>1, <1>2, <1>5, <1>6, AncestriesAgree
<1>8. AncestryEquation(History!Ancestry', revisions', Len(revisions'))
  BY <1>5, AncestryAt, Zenon
<1> QED BY <1>1, <1>7, <1>8

(* A decided Proposal stays so, and a decider has decided it.              *)
LEMMA Decides ==
    ASSUME Shaped, NEW t \in DOMAIN revisions, Descended(t), NEW x \in History!Ancestry[t],
           NEW c \in Claims, c \in revisions[x].decides
    PROVE  History!IsDecided(revisions[t].index[c])
<1>1. x \in DOMAIN revisions /\ Grows(revisions[x].index, revisions[t].index)
  BY DEF Shaped, Descended
<1>2. History!IsDecided(revisions[x].index[c])
  BY <1>1 DEF Shaped
<1> QED BY <1>1, <1>2 DEF Grows

(* A commit of parent p, and of o if it is a merge, comes after the others. *)
Comes(p, o, index, touched, reading) ==
    /\ revisions' = Append(revisions, History!NewCommit(p, o, index, touched, reading))
    /\ p \in DOMAIN revisions /\ o \in DOMAIN revisions \cup {0}
    /\ index \in History!Indexes /\ touched \in BOOLEAN /\ reading \in History!Readings
    /\ Grows(revisions[p].index, index)
    /\ touched => o = 0
    /\ o = 0 /\ ~touched => index = revisions[p].index

(* A merge brings the side branch to an index that has not changed since.  *)
Joining(p, o, index) ==
    o # 0 =>
      /\ p = head /\ o = side /\ index = revisions[side].index
      /\ revisions[head].index = revisions[fork].index

LEMMA NewCommitIs ==
    ASSUME Shaped, NEW p, NEW o, NEW index, NEW touched, NEW reading,
           Comes(p, o, index, touched, reading)
    PROVE  LET k == History!NewCommit(p, o, index, touched, reading) IN
           /\ k \in History!Commit
           /\ k.parent = p /\ k.other = o /\ k.index = index /\ k.touched = touched
           /\ \A c \in Claims : c \in k.decides <=>
                o = 0 /\ History!IsDecided(index[c]) /\ ~History!IsDecided(revisions[p].index[c])
<1>1. p # 0 /\ p \in Nat /\ o \in Nat
  BY DEF Comes, Shaped
<1> QED BY <1>1 DEF Comes, History!NewCommit, History!Commit

LEMMA CommitsGrow ==
    ASSUME Shaped, NEW p, NEW o, NEW index, NEW touched, NEW reading,
           Comes(p, o, index, touched, reading)
    PROVE  LET n == Len(revisions) + 1
               k == History!NewCommit(p, o, index, touched, reading)
           IN  /\ revisions' \in Seq(History!Commit) /\ Len(revisions') = n /\ n \in Nat
               /\ DOMAIN revisions' = DOMAIN revisions \cup {n} /\ n \notin DOMAIN revisions
               /\ DOMAIN revisions = 1 .. Len(revisions)
               /\ revisions'[n] = k
               /\ \A x \in DOMAIN revisions : revisions'[x] = revisions[x]
<1> DEFINE k == History!NewCommit(p, o, index, touched, reading)
<1>1. k \in History!Commit /\ revisions \in Seq(History!Commit) /\ revisions' = Append(revisions, k)
  BY NewCommitIs DEF Comes, Shaped
<1> HIDE DEF k
<1> QED BY <1>1 DEF k

LEMMA ShapedGrows ==
    ASSUME Shaped, NEW p, NEW o, NEW index, NEW touched, NEW reading,
           Comes(p, o, index, touched, reading)
    PROVE  Shaped' /\ Ordered(revisions)'
<1> DEFINE n == Len(revisions) + 1
           k == History!NewCommit(p, o, index, touched, reading)
<1>1. /\ revisions' \in Seq(History!Commit) /\ Len(revisions') = n /\ n \in Nat
      /\ DOMAIN revisions' = DOMAIN revisions \cup {n} /\ n \notin DOMAIN revisions
      /\ DOMAIN revisions = 1 .. Len(revisions)
      /\ revisions'[n] = k
      /\ \A x \in DOMAIN revisions : revisions'[x] = revisions[x]
  BY CommitsGrow
<1>2. /\ k.parent = p /\ k.other = o /\ k.index = index /\ k.touched = touched
      /\ \A c \in Claims : c \in k.decides <=>
           o = 0 /\ History!IsDecided(index[c]) /\ ~History!IsDecided(revisions[p].index[c])
      /\ p \in DOMAIN revisions /\ o \in DOMAIN revisions \cup {0} /\ p # 0
      /\ touched => o = 0
      /\ o = 0 /\ ~touched => index = revisions[p].index
  BY NewCommitIs, <1>1 DEF Comes
<1> HIDE DEF n, k
<1>3. Ordered(revisions)'
  <2>1. ASSUME NEW x \in DOMAIN revisions'
        PROVE  revisions'[x].parent \in 0 .. x - 1 /\ revisions'[x].other \in 0 .. x - 1
    <3>1. CASE x = n
      BY <1>1, <1>2, <3>1 DEF n
    <3>2. CASE x # n
      BY <1>1, <3>2 DEF Shaped, Ordered
    <3> QED BY <3>1, <3>2
  <2>2. DOMAIN revisions' = 1 .. Len(revisions')
    <3>1. revisions' \in Seq(History!Commit)
      BY <1>1
    <3> QED BY <3>1
  <2> QED BY <2>1, <2>2 DEF Ordered
<1>4. ASSUME NEW x \in DOMAIN revisions'
      PROVE  LET l == revisions'[x] IN
             /\ l.parent = 0 => x = 1 /\ l.other = 0 /\ l.touched
             /\ l.touched => l.other = 0
             /\ l.other = 0 /\ ~l.touched => l.index = revisions'[l.parent].index
             /\ \A c \in Claims : c \in l.decides <=>
                  /\ l.other = 0 /\ History!IsDecided(l.index[c])
                  /\ l.parent # 0 => ~History!IsDecided(revisions'[l.parent].index[c])
  <2>1. CASE x = n
    BY <1>1, <1>2, <2>1
  <2>2. CASE x # n
    <3>1. x \in DOMAIN revisions /\ revisions'[x] = revisions[x]
      BY <1>1, <2>2
    <3>2. revisions[x].parent # 0 => revisions[x].parent \in DOMAIN revisions
      BY <3>1, <1>1 DEF Shaped, Ordered
    <3>3. revisions[x].parent = 0 => x = 1 /\ revisions[x].other = 0 /\ revisions[x].touched
      BY <3>1 DEF Shaped
    <3>4. revisions[x].parent # 0 => revisions'[revisions[x].parent] = revisions[revisions[x].parent]
      BY <3>2, <1>1
    <3>5. CASE revisions[x].parent # 0
      BY <3>1, <3>4, <3>5 DEF Shaped
    <3>6. CASE revisions[x].parent = 0
      BY <3>1, <3>3, <3>6 DEF Shaped
    <3> QED BY <3>5, <3>6
  <2> QED BY <2>1, <2>2
<1>5. 1 \in DOMAIN revisions' /\ revisions'[1].index = History!Genesis
  BY <1>1 DEF Shaped
<1> QED BY <1>1, <1>3, <1>4, <1>5 DEF Shaped

LEMMA AncestryGrows ==
    ASSUME Shaped, NEW p, NEW o, NEW index, NEW touched, NEW reading,
           Comes(p, o, index, touched, reading)
    PROVE  LET n == Len(revisions) + 1 IN
           /\ \A x \in DOMAIN revisions \cup {0} : History!Ancestry'[x] = History!Ancestry[x]
           /\ History!Ancestry'[n] = {n} \cup History!Ancestry[p] \cup History!Ancestry[o]
           /\ History!Ancestry[0] = {}
<1> DEFINE n == Len(revisions) + 1
           k == History!NewCommit(p, o, index, touched, reading)
<1>1. /\ revisions' \in Seq(History!Commit) /\ Len(revisions') = n /\ n \in Nat
      /\ DOMAIN revisions' = DOMAIN revisions \cup {n} /\ n \notin DOMAIN revisions
      /\ DOMAIN revisions = 1 .. Len(revisions)
      /\ revisions'[n] = k
      /\ \A x \in DOMAIN revisions : revisions'[x] = revisions[x]
  BY CommitsGrow
<1>2. p \in DOMAIN revisions /\ o \in DOMAIN revisions \cup {0}
  BY DEF Comes
<1>3. k.parent = p /\ k.other = o
  BY DEF History!NewCommit
<1>4. Ordered(revisions) /\ Ordered(revisions)' /\ revisions \in Seq(History!Commit)
  BY ShapedGrows DEF Shaped
<1>5. Len(revisions) \in Nat /\ Len(revisions) <= Len(revisions')
  BY <1>1, <1>4
<1> HIDE DEF n, k
<1>6. /\ \A x \in DOMAIN revisions \cup {0} : History!Ancestry'[x] = History!Ancestry[x]
      /\ AncestryEquation(History!Ancestry', revisions', Len(revisions'))
  BY <1>1, <1>4, <1>5, AncestorsStay
<1>7. History!Ancestry'[n] = {n} \cup History!Ancestry'[p] \cup History!Ancestry'[o]
  <2>1. n \in 0 .. Len(revisions') /\ n # 0
    BY <1>1, <1>5 DEF n
  <2> QED BY <1>1, <1>3, <1>6, <2>1 DEF AncestryEquation
<1>8. History!Ancestry[0] = {}
  BY <1>4, Ancestors
<1> QED BY <1>2, <1>6, <1>7, <1>8 DEF n

LEMMA LinkedStay ==
    ASSUME Shaped, Linked, NEW p, NEW o, NEW index, NEW touched, NEW reading,
           Comes(p, o, index, touched, reading), NEW t \in DOMAIN revisions
    PROVE  /\ Descended(t)' /\ OnceDecided(t)' /\ Explained(t)'
           /\ AddedBy(t)' = AddedBy(t) /\ RemovedBy(t)' = RemovedBy(t)
<1>1. History!Ancestry'[t] = History!Ancestry[t]
  BY AncestryGrows
<1>2. DOMAIN revisions = 1 .. Len(revisions) /\ \A x \in DOMAIN revisions : revisions'[x] = revisions[x]
  BY CommitsGrow
<1>3. \A x \in History!Ancestry[t] : x \in DOMAIN revisions /\ revisions'[x] = revisions[x]
  <2>1. \A x \in History!Ancestry[t] : x \in 1 .. t
    BY DEF Linked, Descended
  <2> QED BY <1>2, <2>1
<1>4. revisions'[t] = revisions[t]
  BY <1>2
<1>5. Descended(t)'
  BY <1>1, <1>3, <1>4 DEF Linked, Descended
<1>6. OnceDecided(t)'
  BY <1>1, <1>3, <1>4 DEF Linked, OnceDecided
<1>7. \A x \in History!Ancestry[t] :
        revisions[x].parent # 0 =>
          revisions'[revisions'[x].parent] = revisions[revisions[x].parent]
  <2>1. \A x \in DOMAIN revisions : revisions[x].parent # 0 => revisions[x].parent \in DOMAIN revisions
    BY <1>2 DEF Shaped, Ordered
  <2> QED BY <1>2, <1>3, <2>1
<1>8. ASSUME NEW x \in History!Ancestry[t]
      PROVE  AddedAt(x)' = AddedAt(x) /\ RemovedAt(x)' = RemovedAt(x)
  BY <1>3, <1>7 DEF AddedAt, RemovedAt
<1>9. AddedBy(t)' = AddedBy(t) /\ RemovedBy(t)' = RemovedBy(t)
  BY <1>1, <1>8 DEF AddedBy, RemovedBy
<1>10. Explained(t)'
  BY <1>4, <1>9 DEF Linked, Explained
<1> QED BY <1>5, <1>6, <1>9, <1>10

(* What a new commit makes of the standings.                               *)
Makes(n, p, o, index, touched) ==
    /\ revisions'[n].index = index /\ p \in DOMAIN revisions
    /\ AddedAt(n)' = (IF touched THEN History!AcceptedIn(index) \ History!AcceptedIn(revisions[p].index) ELSE {})
    /\ RemovedAt(n)' = (IF touched THEN History!AcceptedIn(revisions[p].index) \ History!AcceptedIn(index) ELSE {})
    /\ \A c \in Claims : c \in revisions'[n].decides <=>
         o = 0 /\ History!IsDecided(index[c]) /\ ~History!IsDecided(revisions[p].index[c])

LEMMA NewIndex ==
    ASSUME Shaped, NEW p, NEW o, NEW index, NEW touched, NEW reading,
           Comes(p, o, index, touched, reading), NEW n, n = Len(revisions) + 1
    PROVE  Makes(n, p, o, index, touched)
<1> DEFINE k == History!NewCommit(p, o, index, touched, reading)
<1>1. revisions'[n] = k /\ \A x \in DOMAIN revisions : revisions'[x] = revisions[x]
  BY CommitsGrow
<1>2. /\ k.parent = p /\ k.other = o /\ k.index = index /\ k.touched = touched
      /\ \A c \in Claims : c \in k.decides <=>
           o = 0 /\ History!IsDecided(index[c]) /\ ~History!IsDecided(revisions[p].index[c])
  BY NewCommitIs
<1>3. p \in DOMAIN revisions /\ p # 0
  BY DEF Comes, Shaped
<1>4. revisions'[p] = revisions[p]
  BY <1>1, <1>3
<1> HIDE DEF k
<1>5. /\ AddedAt(n)' = (IF touched THEN History!AcceptedIn(index) \ History!AcceptedIn(revisions[p].index) ELSE {})
      /\ RemovedAt(n)' = (IF touched THEN History!AcceptedIn(revisions[p].index) \ History!AcceptedIn(index) ELSE {})
  BY <1>1, <1>2, <1>3, <1>4 DEF AddedAt, RemovedAt, History!AcceptedIn
<1> QED BY <1>1, <1>2, <1>3, <1>5 DEF Makes

(* The new commit itself: a merge has both branches behind it.             *)
LEMMA LinkedGrows ==
    ASSUME Replayed, NEW p, NEW o, NEW index, NEW touched, NEW reading,
           Comes(p, o, index, touched, reading), Joining(p, o, index)
    PROVE  Linked'
<1>0. PICK n : n = Len(revisions) + 1
  OBVIOUS
<1>1. /\ DOMAIN revisions' = DOMAIN revisions \cup {n} /\ n \in Nat
      /\ DOMAIN revisions = 1 .. Len(revisions) /\ Len(revisions) \in Nat
      /\ \A x \in DOMAIN revisions : revisions'[x] = revisions[x]
  <2>1. Shaped /\ Len(revisions) \in Nat
    BY DEF Replayed, Shaped
  <2> QED BY <1>0, <2>1, CommitsGrow
<1>2. History!Ancestry'[n] = {n} \cup History!Ancestry[p] \cup History!Ancestry[o] /\ History!Ancestry[0] = {}
  BY <1>0, AncestryGrows DEF Replayed
<1>3. /\ revisions'[n].index = index
      /\ AddedAt(n)' = (IF touched THEN History!AcceptedIn(index) \ History!AcceptedIn(revisions[p].index) ELSE {})
      /\ RemovedAt(n)' = (IF touched THEN History!AcceptedIn(revisions[p].index) \ History!AcceptedIn(index) ELSE {})
      /\ \A c \in Claims : c \in revisions'[n].decides <=>
           o = 0 /\ History!IsDecided(index[c]) /\ ~History!IsDecided(revisions[p].index[c])
  <2>1. Shaped
    BY DEF Replayed
  <2>2. Makes(n, p, o, index, touched)
    BY <1>0, <2>1, NewIndex
  <2> QED BY <2>2 DEF Makes
<1>4. /\ p \in DOMAIN revisions /\ o \in DOMAIN revisions \cup {0}
      /\ Grows(revisions[p].index, index) /\ (touched => o = 0)
      /\ (o = 0 /\ ~touched => index = revisions[p].index)
  BY DEF Comes
<1>5. /\ Descended(p) /\ OnceDecided(p) /\ Explained(p)
      /\ o # 0 => Descended(o) /\ OnceDecided(o) /\ Explained(o)
  BY <1>4 DEF Replayed, Linked
<1>6. o # 0 =>
        /\ p = head /\ o = side /\ index = revisions[o].index
        /\ revisions[p].index = revisions[fork].index
        /\ fork \in DOMAIN revisions /\ Descended(fork) /\ OnceDecided(fork) /\ Explained(fork)
        /\ History!Ancestry[fork] \subseteq History!Ancestry[p] /\ History!Ancestry[fork] \subseteq History!Ancestry[o]
        /\ \A x \in History!Ancestry[p] \ History!Ancestry[fork] :
             revisions[x].parent # 0 /\ fork \in History!Ancestry[revisions[x].parent]
  <2> SUFFICES ASSUME o # 0
               PROVE  /\ p = head /\ o = side /\ index = revisions[o].index
                      /\ revisions[p].index = revisions[fork].index
                      /\ fork \in DOMAIN revisions
                      /\ History!Ancestry[fork] \subseteq History!Ancestry[p] /\ History!Ancestry[fork] \subseteq History!Ancestry[o]
                      /\ \A x \in History!Ancestry[p] \ History!Ancestry[fork] :
                           revisions[x].parent # 0 /\ fork \in History!Ancestry[revisions[x].parent]
    BY DEF Replayed, Linked
  <2>1. p = head /\ o = side /\ index = revisions[o].index
        /\ revisions[p].index = revisions[fork].index /\ side # 0
    BY DEF Joining
  <2> QED BY <2>1 DEF Replayed, Forked, Branches
<1>7. /\ \A x \in History!Ancestry[p] : x \in DOMAIN revisions /\ x # n /\ revisions'[x] = revisions[x]
      /\ \A x \in History!Ancestry[o] : x \in DOMAIN revisions /\ x # n /\ revisions'[x] = revisions[x]
  <2>1. \A x \in History!Ancestry[p] \cup History!Ancestry[o] : x \in DOMAIN revisions
    BY <1>1, <1>2, <1>4, <1>5 DEF Descended
  <2> QED BY <2>1, <1>0, <1>1
<1>8. Descended(n)'
  <2>1. ASSUME NEW x \in History!Ancestry[p]
        PROVE Grows(revisions[x].index, index)
    BY <1>4, <1>5, GrowsOn DEF Descended
  <2>2. ASSUME NEW x \in History!Ancestry[o]
        PROVE Grows(revisions[x].index, index)
    BY <1>2, <1>5, <1>6 DEF Descended
  <2>3. Grows(index, index)
    BY GrowsSame
  <2>4. \A x \in DOMAIN revisions \cup {n} : x \in 1 .. n
    BY <1>0, <1>1
  <2> QED BY <1>2, <1>3, <1>7, <2>1, <2>2, <2>3, <2>4 DEF Descended
<1>9. OnceDecided(n)'
  <2> SUFFICES ASSUME NEW c \in Claims
               PROVE  /\ History!IsDecided(index[c]) =>
                           \E x \in History!Ancestry'[n] : c \in revisions'[x].decides
                      /\ \A x, y \in History!Ancestry'[n] :
                           c \in revisions'[x].decides /\ c \in revisions'[y].decides => x = y
    BY <1>3 DEF OnceDecided
  <2>1. \A x \in History!Ancestry[p] : c \in revisions[x].decides => History!IsDecided(revisions[p].index[c])
    BY <1>4, <1>5, Decides DEF Replayed
  <2>2. CASE o = 0
    <3>1. History!Ancestry'[n] = {n} \cup History!Ancestry[p]
      BY <1>2, <2>2
    <3>2. History!IsDecided(index[c]) => \E x \in History!Ancestry'[n] : c \in revisions'[x].decides
      BY <3>1, <1>3, <1>5, <1>7, <2>2 DEF OnceDecided
    <3> QED BY <3>1, <3>2, <1>3, <1>5, <1>7, <2>1 DEF OnceDecided
  <2>3. CASE o # 0
    <3>1. c \notin revisions'[n].decides
      BY <1>3, <2>3
    <3>2. \A x \in History!Ancestry[p] : c \in revisions[x].decides => x \in History!Ancestry[o]
      <4> SUFFICES ASSUME NEW x \in History!Ancestry[p], c \in revisions[x].decides
                   PROVE  x \in History!Ancestry[o]
        OBVIOUS
      <4>1. History!IsDecided(revisions[fork].index[c])
        BY <2>1, <2>3, <1>6
      <4>2. PICK y \in History!Ancestry[fork] : c \in revisions[y].decides
        BY <4>1, <2>3, <1>6 DEF OnceDecided
      <4>3. y = x
        BY <4>2, <2>3, <1>5, <1>6 DEF OnceDecided
      <4> QED BY <4>2, <4>3, <2>3, <1>6
    <3>3. History!IsDecided(index[c]) => \E x \in History!Ancestry[o] : c \in revisions[x].decides
      BY <2>3, <1>5, <1>6 DEF OnceDecided
    <3>4. \A x, y \in History!Ancestry[o] : c \in revisions[x].decides /\ c \in revisions[y].decides => x = y
      BY <2>3, <1>5 DEF OnceDecided
    <3>5. \A x \in History!Ancestry'[n] : c \in revisions'[x].decides => x \in History!Ancestry[o] /\ c \in revisions[x].decides
      BY <1>2, <1>7, <3>1, <3>2
    <3>6. \A x \in History!Ancestry[o] : x \in History!Ancestry'[n] /\ revisions'[x] = revisions[x]
      BY <1>2, <1>7
    <3> QED BY <3>3, <3>4, <3>5, <3>6
  <2> QED BY <2>2, <2>3
<1>10. /\ \A x \in History!Ancestry[p] : AddedAt(x)' = AddedAt(x) /\ RemovedAt(x)' = RemovedAt(x)
       /\ \A x \in History!Ancestry[o] : AddedAt(x)' = AddedAt(x) /\ RemovedAt(x)' = RemovedAt(x)
  <2>1. \A x \in DOMAIN revisions : revisions[x].parent # 0 =>
          revisions'[revisions[x].parent] = revisions[revisions[x].parent]
    BY <1>1 DEF Replayed, Shaped, Ordered
  <2> QED BY <1>7, <2>1 DEF AddedAt, RemovedAt
<1>11. /\ AddedBy(n)' = {c \in Claims : \/ c \in AddedAt(n)' \/ c \in AddedBy(p)
                                        \/ \E x \in History!Ancestry[o] : c \in AddedAt(x)}
       /\ RemovedBy(n)' = {c \in Claims : \/ c \in RemovedAt(n)' \/ c \in RemovedBy(p)
                                          \/ \E x \in History!Ancestry[o] : c \in RemovedAt(x)}
  BY <1>2, <1>10 DEF AddedBy, RemovedBy
<1>12. Explained(n)'
  <2> SUFFICES ASSUME NEW c \in Claims
               PROVE  /\ c \in RemovedBy(n)' => index[c] = "superseded"
                      /\ c \in Imported \cup AddedBy(n)' => index[c] \in {"accepted", "superseded"}
                      /\ index[c] = "accepted" <=>
                           c \in (Imported \cup AddedBy(n)') \ RemovedBy(n)'
    BY <1>3 DEF Explained
  <2> DEFINE was == revisions[p].index[c]
  <2>1. /\ c \in RemovedBy(p) => was = "superseded"
        /\ c \in Imported \cup AddedBy(p) => was \in {"accepted", "superseded"}
        /\ was = "accepted" <=> c \in (Imported \cup AddedBy(p)) \ RemovedBy(p)
    BY <1>5 DEF Explained
  <2>2. /\ was = "accepted" => index[c] \in {"accepted", "superseded"}
        /\ was = "superseded" => index[c] = "superseded"
    BY <1>4 DEF Grows
  <2>3. CASE o = 0
    <3>1. /\ c \in AddedBy(n)' <=> c \in AddedAt(n)' \/ c \in AddedBy(p)
          /\ c \in RemovedBy(n)' <=> c \in RemovedAt(n)' \/ c \in RemovedBy(p)
      BY <1>2, <1>11, <2>3
    <3>2. /\ c \in AddedAt(n)' <=> index[c] = "accepted" /\ was # "accepted"
          /\ c \in RemovedAt(n)' <=> was = "accepted" /\ index[c] # "accepted"
      <4>1. CASE touched
        BY <4>1, <1>3 DEF History!AcceptedIn
      <4>2. CASE ~touched
        BY <4>2, <1>3, <1>4, <2>3
      <4> QED BY <4>1, <4>2
    <3> QED BY <3>1, <3>2, <2>1, <2>2
  <2>4. CASE o # 0
    <3>1. /\ c \in AddedBy(n)' <=> c \in AddedBy(p) \/ c \in AddedBy(o)
          /\ c \in RemovedBy(n)' <=> c \in RemovedBy(p) \/ c \in RemovedBy(o)
      BY <1>3, <1>4, <1>11, <2>4 DEF AddedBy, RemovedBy
    <3>2. /\ c \in RemovedBy(o) => index[c] = "superseded"
          /\ c \in Imported \cup AddedBy(o) => index[c] \in {"accepted", "superseded"}
          /\ index[c] = "accepted" <=> c \in (Imported \cup AddedBy(o)) \ RemovedBy(o)
      BY <2>4, <1>5, <1>6 DEF Explained
    <3>3. /\ was = revisions[fork].index[c]
          /\ c \in AddedBy(fork) => c \in AddedBy(o)
          /\ c \in RemovedBy(fork) => c \in RemovedBy(o)
          /\ was = "accepted" <=> c \in (Imported \cup AddedBy(fork)) \ RemovedBy(fork)
      BY <2>4, <1>6 DEF Explained, AddedBy, RemovedBy
    <3>4. c \in AddedBy(p) => c \in AddedBy(fork) \/ was \notin {"accepted", "superseded"}
      <4> SUFFICES ASSUME NEW x \in History!Ancestry[p] \ History!Ancestry[fork], c \in AddedAt(x)
                   PROVE  was \notin {"accepted", "superseded"}
        BY DEF AddedBy
      <4>1. fork \in History!Ancestry[revisions[x].parent] /\ revisions[x].parent # 0
        BY <2>4, <1>6
      <4>2. revisions[x].parent \in DOMAIN revisions
        BY <4>1, <1>1, <1>7 DEF Replayed, Shaped, Ordered
      <4>3. Grows(revisions[fork].index, revisions[revisions[x].parent].index)
        BY <4>1, <4>2 DEF Replayed, Linked, Descended
      <4>4. revisions[revisions[x].parent].index[c] # "accepted" /\ revisions[x].index[c] = "accepted"
        BY <4>1 DEF AddedAt, History!AcceptedIn
      <4>5. Grows(revisions[revisions[x].parent].index, revisions[x].index)
        <5>1. x \in DOMAIN revisions /\ revisions[x].parent \in History!Ancestry[x]
          <6>1. x \in DOMAIN revisions
            BY <1>7
          <6>2. /\ History!Ancestry[x] = {x} \cup History!Ancestry[revisions[x].parent]
                                     \cup History!Ancestry[revisions[x].other]
                /\ revisions[x].parent \in History!Ancestry[revisions[x].parent]
            BY <6>1, <4>2, Ancestors DEF Replayed, Shaped
          <6> QED BY <6>1, <6>2
        <5> QED BY <5>1 DEF Replayed, Linked, Descended
      <4> QED BY <4>3, <4>4, <4>5, <3>3 DEF Grows
    <3> QED BY <3>1, <3>2, <3>3, <3>4, <2>1, <2>2
  <2> QED BY <2>3, <2>4
<1>13. \A t \in DOMAIN revisions : Descended(t)' /\ OnceDecided(t)' /\ Explained(t)'
  BY LinkedStay DEF Replayed
<1> QED BY <1>1, <1>8, <1>9, <1>12, <1>13 DEF Linked

(* What has been said of a decided Proposal stays explained by its commit. *)
PreviewTrue(c) ==
    LET x == History!Shown(c).terminal
        b == History!Shown(c).base
    IN  /\ History!Shown(c) \in History!Preview
        /\ x \in History!Log /\ c \in revisions[x].decides
        /\ b = revisions[x].parent /\ b \in DOMAIN revisions
        /\ revisions[b].reading # "refused" =>
             History!Shown(c).state = IF revisions[x].index[c] = "withdrawn"
                                 \/ revisions[b].reading # "listed"
                              THEN "unavailable" ELSE "terminal_historical"

SaidTrue ==
    /\ \A c \in Claims : History!Shown(c) # None /\ History!Shown(c).terminal # 0 => PreviewTrue(c)
    /\ history # None =>
         /\ history.changes \subseteq History!StateChange
         /\ \A e \in history.changes : e.commit \in DOMAIN revisions

HistoryInv ==
    /\ Imported \subseteq Claims
    /\ Replayed
    /\ SaidTrue
    /\ History!TypeOK
    /\ History!PreviewsBound
    /\ History!ChangesExplainState

-----------------------------------------------------------------------------
(* Commits stay as they are, except that Core may come to refuse them.     *)
Lasts ==
    /\ revisions' \in Seq(History!Commit) /\ DOMAIN revisions \subseteq DOMAIN revisions'
    /\ \A x \in DOMAIN revisions :
         /\ revisions'[x].parent = revisions[x].parent
         /\ revisions'[x].index = revisions[x].index
         /\ revisions'[x].decides = revisions[x].decides
         /\ revisions'[x].reading \in {revisions[x].reading, "refused"}

LEMMA SaidStays ==
    ASSUME HistoryInv, UNCHANGED history, Lasts, History!Log \subseteq History!Log', Branches'
    PROVE  SaidTrue' /\ History!TypeOK' /\ History!PreviewsBound' /\ History!ChangesExplainState'
<1>1. \A c \in Claims : History!Shown(c)' = History!Shown(c)
  BY DEF History!Shown
<1>2. \A x \in DOMAIN revisions : x \in DOMAIN revisions'
  BY DEF Lasts
<1>3. History!Log \subseteq DOMAIN revisions
  <2>1. head \in DOMAIN revisions /\ DOMAIN revisions = 1 .. Len(revisions)
    BY DEF HistoryInv, Replayed, Branches, Shaped
  <2> QED BY <2>1 DEF HistoryInv, Replayed, Linked, Descended, History!Log
<1>4. ASSUME NEW c \in Claims, History!Shown(c)' # None, History!Shown(c)'.terminal # 0
      PROVE  PreviewTrue(c)'
  <2>1. PreviewTrue(c)
    BY <1>1, <1>4 DEF HistoryInv, SaidTrue
  <2> QED BY <1>1, <1>2, <1>3, <2>1 DEF PreviewTrue, Lasts
<1>5. SaidTrue'
  BY <1>2, <1>4 DEF HistoryInv, SaidTrue
<1>6. History!TypeOK'
  <2>1. \A x \in DOMAIN revisions' : revisions'[x] \in History!Commit
    BY DEF Lasts
  <2> QED BY <1>2, <2>1 DEF HistoryInv, History!TypeOK, Branches
<1>7. History!PreviewsBound'
  <2> SUFFICES ASSUME NEW c \in Claims, History!Shown(c) # None, History!Shown(c).terminal # 0
               PROVE  LET t == revisions'[History!Shown(c).terminal] IN
                      /\ c \in t.decides
                      /\ History!Shown(c).base = t.parent
                      /\ History!Shown(c).state = "terminal_historical" =>
                           t.index \in {History!IfAccept(revisions'[t.parent].index, c),
                                        History!IfReject(revisions'[t.parent].index, c)}
    BY <1>1 DEF History!PreviewsBound
  <2> DEFINE x == History!Shown(c).terminal
  <2>1. x \in DOMAIN revisions /\ revisions[x].parent \in DOMAIN revisions
    BY <1>3 DEF HistoryInv, SaidTrue, PreviewTrue
  <2>2. /\ revisions'[x].decides = revisions[x].decides
        /\ revisions'[x].parent = revisions[x].parent
        /\ revisions'[x].index = revisions[x].index
        /\ revisions'[revisions[x].parent].index = revisions[revisions[x].parent].index
    BY <2>1 DEF Lasts
  <2>3. /\ c \in revisions[x].decides
        /\ History!Shown(c).base = revisions[x].parent
        /\ History!Shown(c).state = "terminal_historical" =>
             revisions[x].index \in {History!IfAccept(revisions[revisions[x].parent].index, c),
                                   History!IfReject(revisions[revisions[x].parent].index, c)}
    BY DEF HistoryInv, History!PreviewsBound
  <2> HIDE DEF x
  <2> QED BY <2>2, <2>3 DEF x
<1>8. History!ChangesExplainState'
  <2> SUFFICES ASSUME history # None PROVE History!ChangesExplainState'
    BY DEF History!ChangesExplainState
  <2>1. ASSUME NEW x \in DOMAIN revisions \cup {0}
        PROVE History!AcceptedAt(x)' = History!AcceptedAt(x)
    BY <2>1 DEF History!AcceptedAt, Lasts
  <2>2. ASSUME NEW e \in history.changes
        PROVE  /\ History!ParentOf(e.commit)' = History!ParentOf(e.commit)
               /\ History!AcceptedAt(e.commit)' = History!AcceptedAt(e.commit)
               /\ History!AcceptedAt(History!ParentOf(e.commit))' = History!AcceptedAt(History!ParentOf(e.commit))
    <3>1. e.commit \in DOMAIN revisions
      BY DEF HistoryInv, SaidTrue
    <3>2. History!ParentOf(e.commit)' = History!ParentOf(e.commit)
      BY <3>1 DEF Lasts, History!ParentOf
    <3>3. History!ParentOf(e.commit) \in DOMAIN revisions \cup {0}
      BY <3>1 DEF HistoryInv, Replayed, Shaped, Ordered, History!ParentOf
    <3>4. History!AcceptedAt(History!ParentOf(e.commit))' = History!AcceptedAt(History!ParentOf(e.commit))
      BY <3>2, <3>3, <2>1 DEF History!AcceptedAt
    <3> QED BY <3>1, <3>2, <3>4, <2>1 DEF History!AcceptedAt
  <2>3. History!AcceptedAt(history.head)' = History!AcceptedAt(history.head)
    BY <2>1 DEF HistoryInv, History!TypeOK, History!AcceptedAt
  <2>4. History!Of("added")' = History!Of("added") /\ History!Of("removed")' = History!Of("removed")
    BY DEF History!Of
  <2>5. (\A x \in DOMAIN revisions' : revisions'[x].reading # "refused") =>
          \A x \in DOMAIN revisions : revisions[x].reading # "refused"
    BY <1>2 DEF Lasts
  <2> QED BY <2>2, <2>3, <2>4, <2>5 DEF HistoryInv, History!ChangesExplainState
<1> QED BY <1>5, <1>6, <1>7, <1>8

-----------------------------------------------------------------------------
(* Commits that come, one by one.                                          *)
LEMMA CommitLasts ==
    ASSUME HistoryInv, NEW p, NEW o, NEW index, NEW touched, NEW reading,
           Comes(p, o, index, touched, reading)
    PROVE  Lasts
<1>1. Shaped
  BY DEF HistoryInv, Replayed
<1>2. /\ revisions' \in Seq(History!Commit)
      /\ DOMAIN revisions' = DOMAIN revisions \cup {Len(revisions) + 1}
      /\ \A x \in DOMAIN revisions : revisions'[x] = revisions[x]
  BY <1>1, CommitsGrow
<1> QED BY <1>2 DEF Lasts

LEMMA AdvanceKeeps == ASSUME HistoryInv, History!Advance PROVE HistoryInv'
<1>1. PICK p : p = head
  OBVIOUS
<1>2. PICK index \in History!Successors(revisions[p].index) \cup {revisions[p].index} :
      \E reading \in History!ReadingsOf(index) :
        revisions' = Append(revisions, History!NewCommit(p, 0, index, index # revisions[p].index, reading))
  BY <1>1 DEF History!Advance
<1>3. PICK reading \in History!ReadingsOf(index) :
        revisions' = Append(revisions, History!NewCommit(p, 0, index, index # revisions[p].index, reading))
  BY <1>2
<1>4. PICK touched : touched = (index # revisions[p].index)
  OBVIOUS
<1>5. PICK n : n = Len(revisions) + 1
  OBVIOUS
<1>6. p \in DOMAIN revisions /\ revisions[p].index \in History!Indexes /\ Shaped
  BY <1>1 DEF HistoryInv, Replayed, Branches, History!TypeOK, History!Commit
<1>7. Comes(p, 0, index, touched, reading)
  <2>1. index \in History!Indexes /\ Grows(revisions[p].index, index)
    BY <1>2, <1>6, SuccessorsGrow, GrowsSame
  <2>2. reading \in History!Readings
    BY <1>3 DEF History!ReadingsOf, History!Readings
  <2> QED BY <1>3, <1>4, <1>6, <2>1, <2>2 DEF Comes
<1>8. Joining(p, 0, index)
  BY DEF Joining
<1>9. /\ DOMAIN revisions' = DOMAIN revisions \cup {n}
      /\ revisions'[n] = History!NewCommit(p, 0, index, touched, reading)
      /\ \A x \in DOMAIN revisions : revisions'[x] = revisions[x]
      /\ DOMAIN revisions = 1 .. Len(revisions)
  BY <1>5, <1>6, <1>7, CommitsGrow
<1>10. /\ \A x \in DOMAIN revisions \cup {0} : History!Ancestry'[x] = History!Ancestry[x]
       /\ History!Ancestry'[n] = {n} \cup History!Ancestry[p]
  BY <1>5, <1>6, <1>7, AncestryGrows
<1>11. Replayed'
  <2>1. Shaped' /\ Linked'
    BY <1>6, <1>7, <1>8, ShapedGrows, LinkedGrows DEF HistoryInv
  <2>2. Branches'
    BY <1>5, <1>9 DEF History!Advance, Branches, HistoryInv, Replayed
  <2>3. Forked'
    <3> SUFFICES ASSUME side # 0
                 PROVE  /\ fork # 0
                        /\ History!Ancestry'[fork] \subseteq History!Ancestry'[n] \cap History!Ancestry'[side]
                        /\ \A x \in History!Ancestry'[n] \ History!Ancestry'[fork] :
                             revisions'[x].parent # 0 /\ fork \in History!Ancestry'[revisions'[x].parent]
      BY <1>5 DEF Forked, History!Advance
    <3>1. /\ fork # 0 /\ fork \in DOMAIN revisions /\ side \in DOMAIN revisions
          /\ History!Ancestry[fork] \subseteq History!Ancestry[p] \cap History!Ancestry[side]
          /\ \A x \in History!Ancestry[p] \ History!Ancestry[fork] :
               revisions[x].parent # 0 /\ fork \in History!Ancestry[revisions[x].parent]
      BY <1>1 DEF HistoryInv, Replayed, Forked, Branches
    <3>2. History!Ancestry'[fork] = History!Ancestry[fork] /\ History!Ancestry'[side] = History!Ancestry[side]
          /\ History!Ancestry'[p] = History!Ancestry[p]
      BY <3>1, <1>6, <1>10
    <3>3. fork \in History!Ancestry[p]
      BY <3>1, <1>6, Ancestors DEF Shaped
    <3>4. ASSUME NEW x \in History!Ancestry[p] \ History!Ancestry[fork]
          PROVE  revisions'[x].parent # 0 /\ fork \in History!Ancestry'[revisions'[x].parent]
      <4>1. x \in DOMAIN revisions /\ revisions'[x] = revisions[x]
        BY <1>6, <1>9 DEF HistoryInv, Replayed, Linked, Descended
      <4>2. revisions[x].parent \in DOMAIN revisions
        BY <4>1, <3>1, <1>9 DEF HistoryInv, Replayed, Shaped, Ordered
      <4> QED BY <3>1, <4>1, <4>2, <1>10
    <3>5. revisions'[n].parent = p /\ p # 0
      BY <1>6, <1>9 DEF History!NewCommit
    <3> QED BY <3>1, <3>2, <3>3, <3>4, <3>5, <1>10
  <2> QED BY <2>1, <2>2, <2>3 DEF Replayed
<1>12. History!Log \subseteq History!Log'
  <2>1. head' = n
    BY <1>5 DEF History!Advance
  <2> QED BY <2>1, <1>1, <1>10 DEF History!Log
<1>13. Lasts /\ UNCHANGED history
  BY <1>7, CommitLasts DEF History!Advance
<1> QED BY <1>11, <1>12, <1>13, SaidStays DEF HistoryInv, Replayed

LEMMA BranchKeeps == ASSUME HistoryInv, History!Branch PROVE HistoryInv'
<1>1. PICK p : p = IF side = 0 THEN head ELSE side
  OBVIOUS
<1>2. PICK index \in History!Successors(revisions[p].index) :
      \E reading \in History!ReadingsOf(index) :
        revisions' = Append(revisions, History!NewCommit(p, 0, index, TRUE, reading))
  BY <1>1 DEF History!Branch
<1>3. PICK reading \in History!ReadingsOf(index) :
        revisions' = Append(revisions, History!NewCommit(p, 0, index, TRUE, reading))
  BY <1>2
<1>5. PICK n : n = Len(revisions) + 1
  OBVIOUS
<1>6. p \in DOMAIN revisions /\ revisions[p].index \in History!Indexes /\ Shaped
  BY <1>1 DEF HistoryInv, Replayed, Branches, History!TypeOK, History!Commit
<1>7. Comes(p, 0, index, TRUE, reading)
  <2>1. index \in History!Indexes /\ Grows(revisions[p].index, index)
    BY <1>2, <1>6, SuccessorsGrow
  <2>2. reading \in History!Readings
    BY <1>3 DEF History!ReadingsOf, History!Readings
  <2> QED BY <1>3, <1>6, <2>1, <2>2 DEF Comes
<1>8. Joining(p, 0, index)
  BY DEF Joining
<1>9. /\ DOMAIN revisions' = DOMAIN revisions \cup {n}
      /\ \A x \in DOMAIN revisions : revisions'[x] = revisions[x]
      /\ DOMAIN revisions = 1 .. Len(revisions)
  BY <1>5, <1>6, <1>7, CommitsGrow
<1>10. /\ \A x \in DOMAIN revisions \cup {0} : History!Ancestry'[x] = History!Ancestry[x]
       /\ History!Ancestry'[n] = {n} \cup History!Ancestry[p]
  BY <1>5, <1>6, <1>7, AncestryGrows
<1>11. /\ head' = head /\ side' = n /\ UNCHANGED history
       /\ fork' = IF side = 0 THEN head ELSE fork
       /\ head \in DOMAIN revisions
  BY <1>5 DEF History!Branch, HistoryInv, Replayed, Branches
<1>12. Replayed'
  <2>1. Shaped' /\ Linked'
    BY <1>6, <1>7, <1>8, ShapedGrows, LinkedGrows DEF HistoryInv
  <2>2. Branches'
    BY <1>9, <1>11 DEF Branches, HistoryInv, Replayed
  <2>3. Forked'
    <3>1. CASE side = 0
      BY <3>1, <1>1, <1>9, <1>10, <1>11 DEF Forked
    <3>2. CASE side # 0
      <4>1. /\ fork # 0 /\ fork \in DOMAIN revisions
            /\ History!Ancestry[fork] \subseteq History!Ancestry[head] \cap History!Ancestry[p]
            /\ \A x \in History!Ancestry[head] \ History!Ancestry[fork] :
                 revisions[x].parent # 0 /\ fork \in History!Ancestry[revisions[x].parent]
        BY <3>2, <1>1 DEF HistoryInv, Replayed, Forked, Branches
      <4>2. History!Ancestry'[fork] = History!Ancestry[fork] /\ History!Ancestry'[head] = History!Ancestry[head]
        BY <4>1, <1>10, <1>11
      <4>3. ASSUME NEW x \in History!Ancestry[head] \ History!Ancestry[fork]
            PROVE  revisions'[x].parent # 0 /\ fork \in History!Ancestry'[revisions'[x].parent]
        <5>1. x \in DOMAIN revisions /\ revisions'[x] = revisions[x]
          BY <1>9, <1>11 DEF HistoryInv, Replayed, Linked, Descended
        <5>2. revisions[x].parent \in DOMAIN revisions
          BY <5>1, <4>1, <1>9 DEF HistoryInv, Replayed, Shaped, Ordered
        <5> QED BY <4>1, <5>1, <5>2, <1>10
      <4> QED BY <3>2, <4>1, <4>2, <4>3, <1>10, <1>11 DEF Forked
    <3> QED BY <3>1, <3>2
  <2> QED BY <2>1, <2>2, <2>3 DEF Replayed
<1>13. History!Log \subseteq History!Log'
  BY <1>10, <1>11 DEF History!Log
<1>14. Lasts
  BY <1>7, CommitLasts
<1> QED BY <1>11, <1>12, <1>13, <1>14, SaidStays DEF HistoryInv, Replayed

LEMMA JoinKeeps ==
    ASSUME HistoryInv, NEW p, NEW o, p = head, o \in {0, side}, History!JoinWith(p, o)
    PROVE  HistoryInv'
<1>1. PICK index : index = revisions[side].index
  OBVIOUS
<1>2. PICK touched : touched = (o = 0 /\ index # revisions[p].index)
  OBVIOUS
<1>3. PICK reading \in History!ReadingsOf(index) :
        revisions' = Append(revisions, History!NewCommit(p, o, index, touched, reading))
  BY <1>1, <1>2 DEF History!JoinWith
<1>5. PICK n : n = Len(revisions) + 1
  OBVIOUS
<1>6. /\ side \in DOMAIN revisions /\ side # 0 /\ revisions[head].index = revisions[fork].index
      /\ p \in DOMAIN revisions /\ Shaped
  BY DEF History!JoinWith, History!Joins, HistoryInv, Replayed, Branches
<1>7. Comes(p, o, index, touched, reading)
  <2>1. index \in History!Indexes
    BY <1>1, <1>6 DEF HistoryInv, History!TypeOK, History!Commit
  <2>2. fork \in History!Ancestry[side]
    <3>1. fork \in DOMAIN revisions /\ History!Ancestry[fork] \subseteq History!Ancestry[side]
      BY <1>6 DEF HistoryInv, Replayed, Forked, Branches
    <3> QED BY <3>1, <1>6, Ancestors DEF Shaped
  <2>3. Grows(revisions[p].index, index)
    BY <2>2, <1>1, <1>6 DEF HistoryInv, Replayed, Linked, Descended
  <2>4. reading \in History!Readings
    BY <1>3 DEF History!ReadingsOf, History!Readings
  <2> QED BY <1>2, <1>3, <1>6, <2>1, <2>3, <2>4 DEF Comes
<1>8. Joining(p, o, index)
  BY <1>1, <1>6 DEF Joining
<1>9. DOMAIN revisions' = DOMAIN revisions \cup {n}
  BY <1>5, <1>6, <1>7, CommitsGrow
<1>10. History!Ancestry'[n] = {n} \cup History!Ancestry[p] \cup History!Ancestry[o]
  BY <1>5, <1>6, <1>7, AncestryGrows
<1>11. head' = n /\ side' = 0 /\ fork' = 0 /\ UNCHANGED history
  BY <1>5 DEF History!JoinWith
<1>12. Replayed'
  <2>1. Shaped' /\ Linked'
    BY <1>6, <1>7, <1>8, ShapedGrows, LinkedGrows DEF HistoryInv
  <2>2. Branches' /\ Forked'
    BY <1>9, <1>11 DEF Branches, Forked
  <2> QED BY <2>1, <2>2 DEF Replayed
<1>13. History!Log \subseteq History!Log'
  BY <1>10, <1>11 DEF History!Log
<1>14. Lasts
  BY <1>7, CommitLasts
<1> QED BY <1>11, <1>12, <1>13, <1>14, SaidStays DEF HistoryInv, Replayed

(* Core refuses a commit: nothing else about it changes.                   *)
LEMMA UpgradeKeeps == ASSUME HistoryInv, History!Upgrade PROVE HistoryInv'
<1>1. PICK x \in DOMAIN revisions : revisions' = [revisions EXCEPT ![x].reading = "refused"]
  BY DEF History!Upgrade
<1>2. revisions \in Seq(History!Commit) /\ DOMAIN revisions = 1 .. Len(revisions) /\ Len(revisions) \in Nat
  BY DEF HistoryInv, Replayed, Shaped
<1>3. [revisions[x] EXCEPT !.reading = "refused"] \in History!Commit
  <2>1. revisions[x] \in History!Commit
    BY <1>2
  <2> QED BY <2>1 DEF History!Commit, History!Readings
<1>4. /\ revisions' \in Seq(History!Commit) /\ Len(revisions') = Len(revisions)
      /\ \A y \in 1 .. Len(revisions) :
           revisions'[y] = IF y = x THEN [revisions[x] EXCEPT !.reading = "refused"] ELSE revisions[y]
  BY <1>1, <1>2, <1>3, ExceptSeq
<1>5. DOMAIN revisions' = DOMAIN revisions
  BY <1>2, <1>4
<1>6. \A y \in DOMAIN revisions :
        /\ revisions[y] \in History!Commit /\ revisions'[y] \in History!Commit
        /\ revisions'[y].parent = revisions[y].parent
        /\ revisions'[y].other = revisions[y].other
        /\ revisions'[y].index = revisions[y].index
        /\ revisions'[y].touched = revisions[y].touched
        /\ revisions'[y].decides = revisions[y].decides
        /\ revisions'[y].reading \in {revisions[y].reading, "refused"}
  <2> SUFFICES ASSUME NEW y \in DOMAIN revisions
               PROVE  /\ revisions[y] \in History!Commit /\ revisions'[y] \in History!Commit
                      /\ revisions'[y].parent = revisions[y].parent
                      /\ revisions'[y].other = revisions[y].other
                      /\ revisions'[y].index = revisions[y].index
                      /\ revisions'[y].touched = revisions[y].touched
                      /\ revisions'[y].decides = revisions[y].decides
                      /\ revisions'[y].reading \in {revisions[y].reading, "refused"}
    OBVIOUS
  <2>1. revisions[y] \in History!Commit
    BY <1>2
  <2>2. CASE y = x
    <3>1. revisions'[y] = [revisions[y] EXCEPT !.reading = "refused"]
      BY <2>2, <1>2, <1>4
    <3>2. revisions'[y] \in History!Commit
      BY <2>2, <1>3, <3>1
    <3> QED BY <2>1, <3>1, <3>2 DEF History!Commit
  <2>3. CASE y # x
    <3>1. revisions'[y] = revisions[y]
      BY <2>3, <1>2, <1>4
    <3> QED BY <2>1, <3>1
  <2> QED BY <2>2, <2>3
<1>7. UNCHANGED <<head, side, fork, history>>
  BY DEF History!Upgrade, History!branches
<1>8. Ordered(revisions)'
  <2>1. \A y \in DOMAIN revisions : revisions[y].parent \in 0 .. y - 1 /\ revisions[y].other \in 0 .. y - 1
    BY <1>2 DEF HistoryInv, Replayed, Shaped, Ordered
  <2> QED BY <2>1, <1>2, <1>4, <1>6 DEF Ordered
<1>9. \A y \in DOMAIN revisions \cup {0} : History!Ancestry'[y] = History!Ancestry[y]
  <2>1. Ordered(revisions)
    BY DEF HistoryInv, Replayed, Shaped
  <2> QED BY <2>1, <1>2, <1>4, <1>6, <1>8, AncestorsStay
<1>10. \A y \in DOMAIN revisions : revisions[y].parent # 0 => revisions[y].parent \in DOMAIN revisions
  BY <1>2 DEF HistoryInv, Replayed, Shaped, Ordered
<1>11. Shaped'
  <2>1. ASSUME NEW y \in DOMAIN revisions'
        PROVE  LET k == revisions'[y] IN
               /\ k.parent = 0 => y = 1 /\ k.other = 0 /\ k.touched
               /\ k.touched => k.other = 0
               /\ k.other = 0 /\ ~k.touched => k.index = revisions'[k.parent].index
               /\ \A c \in Claims : c \in k.decides <=>
                    /\ k.other = 0 /\ History!IsDecided(k.index[c])
                    /\ k.parent # 0 => ~History!IsDecided(revisions'[k.parent].index[c])
    <3>1. y \in DOMAIN revisions
      BY <1>5
    <3>2. LET k == revisions[y] IN
          /\ k.parent = 0 => y = 1 /\ k.other = 0 /\ k.touched
          /\ k.touched => k.other = 0
          /\ k.other = 0 /\ ~k.touched => k.index = revisions[k.parent].index
          /\ \A c \in Claims : c \in k.decides <=>
               /\ k.other = 0 /\ History!IsDecided(k.index[c])
               /\ k.parent # 0 => ~History!IsDecided(revisions[k.parent].index[c])
      BY <3>1 DEF HistoryInv, Replayed, Shaped
    <3>3. revisions[y].parent # 0 =>
            revisions'[revisions[y].parent].index = revisions[revisions[y].parent].index
      BY <3>1, <1>6, <1>10
    <3> QED BY <3>1, <3>2, <3>3, <1>6
  <2>2. 1 \in DOMAIN revisions' /\ revisions'[1].index = History!Genesis
    BY <1>5, <1>6 DEF HistoryInv, Replayed, Shaped
  <2> QED BY <2>1, <2>2, <1>4, <1>8 DEF Shaped
<1>12. ASSUME NEW t \in DOMAIN revisions
       PROVE  \A y \in History!Ancestry[t] : y \in DOMAIN revisions
  BY <1>2 DEF HistoryInv, Replayed, Linked, Descended
<1>13. Linked'
  <2> SUFFICES ASSUME NEW t \in DOMAIN revisions
               PROVE  Descended(t)' /\ OnceDecided(t)' /\ Explained(t)'
    BY <1>5 DEF Linked
  <2>1. History!Ancestry'[t] = History!Ancestry[t] /\ revisions'[t].index = revisions[t].index
    BY <1>6, <1>9
  <2>2. Descended(t)'
    BY <2>1, <1>6, <1>12 DEF HistoryInv, Replayed, Linked, Descended
  <2>3. OnceDecided(t)'
    BY <2>1, <1>6, <1>12 DEF HistoryInv, Replayed, Linked, OnceDecided
  <2>4. ASSUME NEW y \in History!Ancestry[t]
        PROVE  AddedAt(y)' = AddedAt(y) /\ RemovedAt(y)' = RemovedAt(y)
    <3>1. y \in DOMAIN revisions
      BY <1>12
    <3> QED BY <3>1, <1>6, <1>10 DEF AddedAt, RemovedAt
  <2>5. AddedBy(t)' = AddedBy(t) /\ RemovedBy(t)' = RemovedBy(t)
    BY <2>1, <2>4 DEF AddedBy, RemovedBy
  <2>6. Explained(t)'
    BY <2>1, <2>5 DEF HistoryInv, Replayed, Linked, Explained
  <2> QED BY <2>2, <2>3, <2>6
<1>14. Branches'
  BY <1>5, <1>7 DEF HistoryInv, Replayed, Branches
<1>15. Forked'
  <2> SUFFICES ASSUME side # 0
               PROVE  /\ fork # 0
                      /\ History!Ancestry'[fork] \subseteq History!Ancestry'[head] \cap History!Ancestry'[side]
                      /\ \A y \in History!Ancestry'[head] \ History!Ancestry'[fork] :
                           revisions'[y].parent # 0 /\ fork \in History!Ancestry'[revisions'[y].parent]
    BY <1>7 DEF Forked
  <2>1. /\ fork # 0 /\ fork \in DOMAIN revisions /\ side \in DOMAIN revisions /\ head \in DOMAIN revisions
        /\ History!Ancestry[fork] \subseteq History!Ancestry[head] \cap History!Ancestry[side]
        /\ \A y \in History!Ancestry[head] \ History!Ancestry[fork] :
             revisions[y].parent # 0 /\ fork \in History!Ancestry[revisions[y].parent]
    BY DEF HistoryInv, Replayed, Forked, Branches
  <2> QED BY <2>1, <1>6, <1>9, <1>10, <1>12
<1>16. Lasts
  BY <1>4, <1>5, <1>6 DEF Lasts
<1>17. History!Log \subseteq History!Log'
  BY <1>7, <1>9 DEF History!Log, HistoryInv, Replayed, Branches
<1> QED BY <1>7, <1>11, <1>13, <1>14, <1>15, <1>16, <1>17, SaidStays
           DEF HistoryInv, Replayed

-----------------------------------------------------------------------------
(* A build: the row that took a Proposal from review is the commit that    *)
(* decided it.                                                             *)
LEMMA TerminalFound ==
    ASSUME Replayed, NEW c \in Claims, History!Previewable(c), History!Status(c) # "pending"
    PROVE  LET x == History!Terminal(c)
               b == revisions[x].parent
           IN  /\ x \in History!Log /\ x \in DOMAIN revisions /\ c \in revisions[x].decides
               /\ b \in DOMAIN revisions /\ revisions[b].reading # "refused"
               /\ revisions[x].index[c] = "withdrawn" <=> History!Status(c) = "withdrawn"
               /\ History!PreviewKind(c) = "terminal_historical" =>
                    History!Predicted(revisions[b].index, c) = revisions[x].index
<1> DEFINE x == History!Terminal(c)
           b == revisions[x].parent
<1>1. /\ Cardinality(History!TerminalTransitions(c)) = 1
      /\ History!Verified(b) /\ History!Verified(x)
      /\ History!PreviewKind(c) = "terminal_historical" =>
           History!Predicted(revisions[b].index, c) = revisions[x].index
  BY SameCounts DEF History!Previewable, History!ParentOf
<1>2. x \in History!TerminalTransitions(c)
  <2>1. History!TerminalTransitions(c) # {}
    BY <1>1, FS_EmptySet
  <2> QED BY <2>1 DEF History!Terminal
<1>3. x \in History!Log /\ revisions[x].touched /\ c \in History!PendingRemoved(x)
  BY <1>2 DEF History!TerminalTransitions, History!ChangedIndex
<1>4. head \in DOMAIN revisions /\ DOMAIN revisions = 1 .. Len(revisions)
  BY DEF Replayed, Branches, Shaped
<1>5. x \in DOMAIN revisions /\ Grows(revisions[x].index, revisions[head].index)
  BY <1>3, <1>4 DEF Replayed, Linked, Descended, History!Log
<1> HIDE DEF x
<1>6. b # 0 /\ revisions[b].reading # "refused"
  BY <1>1 DEF History!Verified
<1>7. b \in DOMAIN revisions
  BY <1>4, <1>5, <1>6 DEF Replayed, Shaped, Ordered
<1>8. revisions[b].index[c] = "pending" /\ revisions[x].index[c] # "pending"
  BY <1>1, <1>3 DEF History!PendingRemoved, History!Pending, History!ParentOf,
                    History!PendingIn
<1>9. Grows(revisions[b].index, revisions[x].index)
  <2>1. b \in History!Ancestry[x]
    <3>1. /\ History!Ancestry[x] = {x} \cup History!Ancestry[b] \cup History!Ancestry[revisions[x].other]
          /\ b \in History!Ancestry[b]
      BY <1>5, <1>7, Ancestors DEF Replayed, Shaped
    <3> QED BY <3>1
  <2> QED BY <2>1, <1>5 DEF Replayed, Linked, Descended
<1>10. History!IsDecided(revisions[x].index[c]) /\ ~History!IsDecided(revisions[b].index[c])
  BY <1>8, <1>9 DEF Grows, History!IsDecided
<1>11. c \in revisions[x].decides
  BY <1>3, <1>5, <1>6, <1>10 DEF Replayed, Shaped
<1>12. revisions[x].index[c] = "withdrawn" <=> History!Status(c) = "withdrawn"
  <2>1. revisions[x].index[c] \in {"accepted", "superseded", "rejected", "withdrawn"}
    <3>1. revisions[x].index \in History!Indexes
      <4>1. revisions[x] \in History!Commit
        BY <1>5 DEF Replayed, Shaped
      <4> QED BY <4>1 DEF History!Commit
    <3> QED BY <3>1, <1>10 DEF History!Indexes, History!Standings,
                   History!IsDecided
  <2> QED BY <2>1, <1>5 DEF Grows, History!Status
<1> QED BY <1>1, <1>3, <1>5, <1>6, <1>7, <1>11, <1>12 DEF x

LEMMA BuiltPreview ==
    ASSUME Replayed, History!BuildProjection, NEW c \in History!Reviews
    PROVE  /\ History!PreviewOf(c) \in History!Preview
           /\ History!PreviewOf(c).terminal # 0 => History!Status(c) # "pending"
           /\ History!Status(c) # "pending" =>
                /\ History!PreviewOf(c).terminal = History!Terminal(c)
                /\ History!PreviewOf(c).base = revisions[History!Terminal(c)].parent
                /\ History!PreviewOf(c).state = History!PreviewKind(c)
                /\ History!PreviewKind(c) = IF revisions[History!Terminal(c)].index[c] = "withdrawn"
                                       \/ revisions[revisions[History!Terminal(c)].parent].reading # "listed"
                                    THEN "unavailable" ELSE "terminal_historical"
<1>1. c \in Claims /\ History!Previewable(c)
  BY DEF History!Reviews, History!BuildProjection
<1>2. DOMAIN revisions = 1 .. Len(revisions) /\ head \in Nat
  BY DEF Replayed, Branches, Shaped
<1>3. CASE History!Status(c) = "pending"
  BY <1>2, <1>3 DEF History!PreviewOf, History!PreviewKind, History!Preview
<1>4. CASE History!Status(c) # "pending"
  <2>1. /\ History!Terminal(c) \in DOMAIN revisions /\ revisions[History!Terminal(c)].parent \in DOMAIN revisions
        /\ revisions[History!Terminal(c)].index[c] = "withdrawn" <=> History!Status(c) = "withdrawn"
    BY <1>1, <1>4, TerminalFound
  <2>2. History!PreviewKind(c) = IF revisions[History!Terminal(c)].index[c] = "withdrawn"
                            \/ revisions[revisions[History!Terminal(c)].parent].reading # "listed"
                         THEN "unavailable" ELSE "terminal_historical"
    BY <1>4, <2>1 DEF History!PreviewKind, History!ParentOf
  <2>3. History!PreviewOf(c) = [state |-> History!PreviewKind(c), base |-> revisions[History!Terminal(c)].parent,
                        terminal |-> History!Terminal(c)]
    BY <1>4 DEF History!PreviewOf, History!ParentOf
  <2> QED BY <1>2, <1>4, <2>1, <2>2, <2>3 DEF History!Preview
<1> QED BY <1>3, <1>4

(* Without a commit that Core refuses, the published changes are all.      *)
LEMMA AllChanges ==
    ASSUME Replayed, \A x \in DOMAIN revisions : revisions[x].reading # "refused",
           NEW c \in Claims
    PROVE  /\ c \in AddedBy(head) <=>
                \E e \in History!StateChanges : e.change = "added" /\ e.claim = c
           /\ c \in RemovedBy(head) <=>
                \E e \in History!StateChanges : e.change = "removed" /\ e.claim = c
<1>1. head \in DOMAIN revisions /\ DOMAIN revisions = 1 .. Len(revisions)
  BY DEF Replayed, Branches, Shaped
<1>2. \A x \in History!Log : x \in DOMAIN revisions /\ x # 0
  BY <1>1 DEF Replayed, Linked, Descended, History!Log
<1>3. ASSUME NEW x \in History!Log
      PROVE  /\ revisions[x].parent # 0 => revisions[x].parent \in DOMAIN revisions
             /\ History!Comparable(x) <=> revisions[x].parent # 0
             /\ revisions[x].parent # 0 =>
                  /\ History!AcceptedAdded(x) = History!AcceptedIn(revisions[x].index)
                                          \ History!AcceptedIn(revisions[revisions[x].parent].index)
                  /\ History!AcceptedRemoved(x) = History!AcceptedIn(revisions[revisions[x].parent].index)
                                            \ History!AcceptedIn(revisions[x].index)
  <2>1. revisions[x].parent # 0 => revisions[x].parent \in DOMAIN revisions
    BY <1>1, <1>2 DEF Replayed, Shaped, Ordered
  <2>2. History!Verified(x) /\ (History!Verified(revisions[x].parent) <=> revisions[x].parent # 0)
    BY <1>2, <2>1 DEF History!Verified
  <2> QED BY <2>1, <2>2 DEF History!Comparable, History!ParentOf,
                            History!AcceptedAdded, History!AcceptedRemoved,
                            History!Accepted
<1>4. ASSUME NEW x \in History!Log
      PROVE  /\ c \in AddedAt(x) <=> x \in History!ChangedIndex /\ History!Comparable(x) /\ c \in History!AcceptedAdded(x)
             /\ c \in RemovedAt(x) <=> x \in History!ChangedIndex /\ History!Comparable(x) /\ c \in History!AcceptedRemoved(x)
  BY <1>3 DEF AddedAt, RemovedAt, History!ChangedIndex
<1>5. ASSUME NEW x \in History!ChangedIndex, History!Comparable(x), c \in History!AcceptedAdded(x)
      PROVE  \E e \in History!StateChanges : e.change = "added" /\ e.claim = c
  <2>1. [commit |-> x, claim |-> c, change |-> "added"] \in History!StateChanges
    BY <1>5 DEF History!StateChanges
  <2> QED BY <2>1
<1>6. ASSUME NEW x \in History!ChangedIndex, History!Comparable(x), c \in History!AcceptedRemoved(x)
      PROVE  \E e \in History!StateChanges : e.change = "removed" /\ e.claim = c
  <2>1. [commit |-> x, claim |-> c, change |-> "removed"] \in History!StateChanges
    BY <1>6 DEF History!StateChanges
  <2> QED BY <2>1
<1>7. ASSUME NEW e \in History!StateChanges, e.claim = c
      PROVE  /\ e.commit \in History!Log /\ e.commit \in History!ChangedIndex /\ History!Comparable(e.commit)
             /\ e.change = "added" => c \in History!AcceptedAdded(e.commit)
             /\ e.change = "removed" => c \in History!AcceptedRemoved(e.commit)
  BY <1>7 DEF History!StateChanges, History!ChangedIndex
<1> QED BY <1>4, <1>5, <1>6, <1>7 DEF AddedBy, RemovedBy, History!Log,
                                      History!ChangedIndex

LEMMA BuildKeeps ==
    ASSUME HistoryInv, History!BuildProjection
    PROVE HistoryInv'
<1> DEFINE pub == [head     |-> head,
                   previews |-> [c \in Claims |-> IF c \in History!Reviews THEN History!PreviewOf(c) ELSE None],
                   changes  |-> History!StateChanges]
<1>1. /\ history' = pub /\ history'.head = head /\ history'.changes = History!StateChanges
      /\ \A c \in Claims : history'.previews[c] = IF c \in History!Reviews THEN History!PreviewOf(c) ELSE None
      /\ UNCHANGED <<revisions, head, side, fork>>
  BY DEF History!BuildProjection, History!branches
<1> HIDE DEF pub
<1>2. History!Ancestry' = History!Ancestry
  BY <1>1 DEF History!Ancestry
<1>3. Replayed'
  <2>1. Shaped' /\ Branches'
    BY <1>1 DEF HistoryInv, Replayed, Shaped, Branches, Ordered
  <2>2. Linked'
    BY <1>1, <1>2 DEF HistoryInv, Replayed, Linked, Descended, OnceDecided,
                      Explained,
       AddedBy, RemovedBy, AddedAt, RemovedAt
  <2>3. Forked'
    BY <1>1, <1>2 DEF HistoryInv, Replayed, Forked
  <2> QED BY <2>1, <2>2, <2>3 DEF Replayed
<1>4. History!Log' = History!Log
  BY <1>1, <1>2 DEF History!Log
<1>5. head \in DOMAIN revisions /\ DOMAIN revisions = 1 .. Len(revisions)
      /\ \A x \in History!Log : x \in DOMAIN revisions
  <2>1. head \in DOMAIN revisions /\ DOMAIN revisions = 1 .. Len(revisions)
    BY DEF HistoryInv, Replayed, Branches, Shaped
  <2> QED BY <2>1 DEF HistoryInv, Replayed, Linked, Descended, History!Log
<1>6. ASSUME NEW c \in Claims, History!Shown(c)' # None
      PROVE  /\ c \in History!Reviews /\ History!Shown(c)' = History!PreviewOf(c) /\ History!PreviewOf(c) \in History!Preview
             /\ History!Shown(c)'.terminal # 0 => History!Status(c) # "pending" /\ History!Previewable(c)
  <2>1. c \in History!Reviews /\ History!Shown(c)' = History!PreviewOf(c)
    BY <1>1, <1>6 DEF History!Shown
  <2> QED BY <2>1, BuiltPreview DEF HistoryInv, History!BuildProjection
<1>7. ASSUME NEW c \in Claims, History!Shown(c)' # None, History!Shown(c)'.terminal # 0
      PROVE  PreviewTrue(c)'
  <2>1. c \in History!Reviews /\ History!Shown(c)' = History!PreviewOf(c) /\ History!Status(c) # "pending" /\ History!Previewable(c)
        /\ History!PreviewOf(c) \in History!Preview
    BY <1>6, <1>7
  <2>2. /\ History!PreviewOf(c).terminal = History!Terminal(c)
        /\ History!PreviewOf(c).base = revisions[History!Terminal(c)].parent
        /\ History!PreviewOf(c).state = IF revisions[History!Terminal(c)].index[c] = "withdrawn"
                                   \/ revisions[revisions[History!Terminal(c)].parent].reading # "listed"
                                THEN "unavailable" ELSE "terminal_historical"
    BY <2>1, BuiltPreview DEF HistoryInv
  <2>3. /\ History!Terminal(c) \in History!Log /\ c \in revisions[History!Terminal(c)].decides
        /\ revisions[History!Terminal(c)].parent \in DOMAIN revisions
    BY <2>1, TerminalFound DEF HistoryInv
  <2> QED BY <2>1, <2>2, <2>3, <1>1, <1>4 DEF PreviewTrue
<1>8. History!StateChanges \subseteq History!StateChange /\ \A e \in History!StateChanges : e.commit \in DOMAIN revisions
  <2>1. History!ChangedIndex \subseteq DOMAIN revisions /\ History!ChangedIndex \subseteq Nat
    BY <1>5 DEF History!ChangedIndex
  <2> QED BY <2>1 DEF History!StateChanges, History!StateChange
<1>9. SaidTrue'
  BY <1>1, <1>7, <1>8 DEF SaidTrue
<1>10. History!TypeOK'
  <2>1. \A c \in Claims : history'.previews[c] \in History!Preview \cup {None}
    BY <1>1, BuiltPreview DEF HistoryInv
  <2> QED BY <1>1, <1>5, <1>8, <2>1 DEF HistoryInv, History!TypeOK
<1>11. History!PreviewsBound'
  <2> SUFFICES ASSUME NEW c \in Claims, History!Shown(c)' # None, History!Shown(c)'.terminal # 0
               PROVE  LET terminal == revisions[History!Shown(c)'.terminal] IN
                      /\ c \in terminal.decides
                      /\ History!Shown(c)'.base = terminal.parent
                      /\ History!Shown(c)'.state = "terminal_historical" =>
                           terminal.index \in {History!IfAccept(revisions[terminal.parent].index, c),
                                               History!IfReject(revisions[terminal.parent].index, c)}
    BY <1>1 DEF History!PreviewsBound
  <2>1. c \in History!Reviews /\ History!Shown(c)' = History!PreviewOf(c) /\ History!Status(c) # "pending" /\ History!Previewable(c)
    BY <1>6
  <2>2. /\ History!PreviewOf(c).terminal = History!Terminal(c)
        /\ History!PreviewOf(c).base = revisions[History!Terminal(c)].parent
        /\ History!PreviewOf(c).state = History!PreviewKind(c)
    BY <2>1, BuiltPreview DEF HistoryInv
  <2>3. /\ c \in revisions[History!Terminal(c)].decides
        /\ History!PreviewKind(c) = "terminal_historical" =>
             History!Predicted(revisions[revisions[History!Terminal(c)].parent].index, c) = revisions[History!Terminal(c)].index
    BY <2>1, TerminalFound DEF HistoryInv
  <2>4. History!Predicted(revisions[revisions[History!Terminal(c)].parent].index, c)
          \in {History!IfAccept(revisions[revisions[History!Terminal(c)].parent].index, c),
               History!IfReject(revisions[revisions[History!Terminal(c)].parent].index, c)}
    BY DEF History!Predicted
  <2> QED BY <2>1, <2>2, <2>3, <2>4
<1>12. History!ChangesExplainState'
  <2>1. ASSUME NEW e \in History!StateChanges
        PROVE  e.claim \in IF e.change = "added"
                           THEN History!AcceptedAt(e.commit) \ History!AcceptedAt(History!ParentOf(e.commit))
                           ELSE History!AcceptedAt(History!ParentOf(e.commit)) \ History!AcceptedAt(e.commit)
    <3>1. /\ History!Comparable(e.commit)
          /\ e.claim \in IF e.change = "added" THEN History!AcceptedAdded(e.commit)
                                               ELSE History!AcceptedRemoved(e.commit)
      BY DEF History!StateChanges
    <3>2. /\ History!Accepted(e.commit) = History!AcceptedAt(e.commit)
          /\ History!Accepted(History!ParentOf(e.commit)) = History!AcceptedAt(History!ParentOf(e.commit))
      BY <3>1 DEF History!Comparable, History!Accepted, History!AcceptedAt,
                  History!Verified
    <3> QED BY <3>1, <3>2 DEF History!AcceptedAdded, History!AcceptedRemoved
  <2>2. ASSUME \A x \in DOMAIN revisions : revisions[x].reading # "refused"
        PROVE  History!AcceptedAt(head) = (Imported \cup {e.claim : e \in {f \in History!StateChanges : f.change = "added"}})
                                  \ {e.claim : e \in {f \in History!StateChanges : f.change = "removed"}}
    <3>1. History!AcceptedAt(head) = {c \in Claims : revisions[head].index[c] = "accepted"}
      BY <1>5 DEF History!AcceptedAt, History!AcceptedIn
    <3>2. \A c \in Claims : revisions[head].index[c] = "accepted" <=>
            c \in (Imported \cup AddedBy(head)) \ RemovedBy(head)
      BY <1>5 DEF HistoryInv, Replayed, Linked, Explained
    <3>3. \A c \in Claims :
            /\ c \in AddedBy(head) <=> c \in {e.claim : e \in {f \in History!StateChanges : f.change = "added"}}
            /\ c \in RemovedBy(head) <=> c \in {e.claim : e \in {f \in History!StateChanges : f.change = "removed"}}
      BY <2>2, AllChanges DEF HistoryInv
    <3>4. {e.claim : e \in {f \in History!StateChanges : f.change = "added"}} \subseteq Claims
      BY DEF History!StateChanges
    <3> QED BY <3>1, <3>2, <3>3, <3>4 DEF HistoryInv
  <2>3. \A x : History!AcceptedAt(x)' = History!AcceptedAt(x) /\ History!ParentOf(x)' = History!ParentOf(x)
    BY <1>1 DEF History!AcceptedAt, History!ParentOf
  <2>4. /\ History!Of("added")' = {e.claim : e \in {f \in History!StateChanges : f.change = "added"}}
        /\ History!Of("removed")' = {e.claim : e \in {f \in History!StateChanges : f.change = "removed"}}
    BY <1>1 DEF History!Of
  <2>5. \A e \in History!StateChanges :
          History!AcceptedAt(History!ParentOf(e.commit))' = History!AcceptedAt(History!ParentOf(e.commit))
    BY <1>1 DEF History!AcceptedAt, History!ParentOf
  <2> QED BY <1>1, <2>1, <2>2, <2>3, <2>4, <2>5 DEF History!ChangesExplainState
<1> QED BY <1>3, <1>9, <1>10, <1>11, <1>12 DEF HistoryInv

(* The first commit.                                                       *)
LEMMA HistoryInit ==
    ASSUME Imported \subseteq Claims, History!Init
    PROVE HistoryInv
<1>1. PICK reading \in {"listed", "refused"} :
        revisions = <<[parent |-> 0, other |-> 0, index |-> History!Genesis, touched |-> TRUE,
                     reading |-> reading, decides |-> Imported]>>
  BY DEF History!Init
<1>2. History!Genesis \in History!Indexes
  BY DEF History!Genesis, History!Indexes, History!Standings
<1>3. \A c \in Claims : History!IsDecided(History!Genesis[c]) <=> c \in Imported
  BY DEF History!Genesis, History!IsDecided
<1>4. \A c \in Claims : History!Genesis[c] = "accepted" <=> c \in Imported
  BY DEF History!Genesis
<1>5. PICK k : k = [parent |-> 0, other |-> 0, index |-> History!Genesis, touched |-> TRUE,
                    reading |-> reading, decides |-> Imported]
  OBVIOUS
<1>6. /\ k \in History!Commit /\ k.parent = 0 /\ k.other = 0 /\ k.index = History!Genesis /\ k.touched
      /\ k.decides = Imported /\ k.reading \in {"listed", "refused"}
  BY <1>2, <1>5 DEF History!Commit, History!Readings
<1>7. revisions = <<k>>
  BY <1>1, <1>5
<1>8. /\ revisions \in Seq(History!Commit) /\ Len(revisions) = 1 /\ DOMAIN revisions = {1}
      /\ revisions[1] = k
  BY <1>6, <1>7
<1>9. head = 1 /\ side = 0 /\ fork = 0 /\ history = None
  BY DEF History!Init
<1>10. Ordered(revisions)
  BY <1>6, <1>8 DEF Ordered
<1>11. Shaped
  <2>1. \A c \in Claims : c \in k.decides <=> History!IsDecided(k.index[c])
    BY <1>3, <1>6
  <2> QED BY <2>1, <1>6, <1>8, <1>10 DEF Shaped
<1>12. History!Ancestry[1] = {1}
  BY <1>6, <1>8, <1>10, Ancestors
<1>13. Descended(1) /\ OnceDecided(1)
  <2>1. Descended(1)
    BY <1>8, <1>12, GrowsSame DEF Descended
  <2>2. OnceDecided(1)
    BY <1>3, <1>6, <1>8, <1>12 DEF OnceDecided
  <2> QED BY <2>1, <2>2
<1>14. AddedBy(1) = {} /\ RemovedBy(1) = {}
  BY <1>6, <1>8, <1>12 DEF AddedBy, RemovedBy, AddedAt, RemovedAt
<1>15. Explained(1)
  BY <1>4, <1>6, <1>8, <1>14 DEF Explained
<1>16. Linked
  BY <1>8, <1>13, <1>15 DEF Linked
<1>17. Replayed
  BY <1>8, <1>9, <1>11, <1>16 DEF Replayed, Branches, Forked
<1>18. \A c \in Claims : History!Shown(c) = None
  BY <1>9 DEF History!Shown
<1> QED BY <1>6, <1>8, <1>9, <1>17, <1>18
        DEF HistoryInv, SaidTrue, History!TypeOK, History!PreviewsBound, History!ChangesExplainState

LEMMA HistoryStays ==
    ASSUME HistoryInv, UNCHANGED History!vars
    PROVE HistoryInv'
<1>1. UNCHANGED <<revisions, head, side, fork, history>>
  BY DEF History!vars, History!branches
<1>2. History!Ancestry' = History!Ancestry
  BY <1>1 DEF History!Ancestry
<1>3. Replayed'
  <2>1. Shaped' /\ Branches'
    BY <1>1 DEF HistoryInv, Replayed, Shaped, Branches, Ordered
  <2>2. Linked'
    BY <1>1, <1>2 DEF HistoryInv, Replayed, Linked, Descended, OnceDecided,
                      Explained,
       AddedBy, RemovedBy, AddedAt, RemovedAt
  <2>3. Forked'
    BY <1>1, <1>2 DEF HistoryInv, Replayed, Forked
  <2> QED BY <2>1, <2>2, <2>3 DEF Replayed
<1>4. History!Log' = History!Log
  BY <1>1, <1>2 DEF History!Log
<1>5. Lasts
  <2>1. \A x \in DOMAIN revisions : revisions'[x] = revisions[x]
    BY <1>1
  <2>2. revisions' \in Seq(History!Commit)
    BY <1>1 DEF HistoryInv, Replayed, Shaped
  <2> QED BY <2>1, <2>2, <1>1 DEF Lasts
<1>6. SaidTrue' /\ History!TypeOK' /\ History!PreviewsBound' /\ History!ChangesExplainState'
  BY <1>1, <1>3, <1>4, <1>5, SaidStays DEF Replayed
<1> QED BY <1>3, <1>6 DEF HistoryInv

LEMMA HistoryStep ==
    ASSUME HistoryInv, [History!Next]_(History!vars)
    PROVE HistoryInv'
<1>1. CASE History!Merge
  <2>1. PICK p, o : p = head /\ o = side
    OBVIOUS
  <2>2. History!JoinWith(p, o)
    BY <1>1, <2>1 DEF History!Merge
  <2> QED BY <2>1, <2>2, JoinKeeps
<1>2. CASE History!Squash
  <2>1. PICK p : p = head
    OBVIOUS
  <2>2. History!JoinWith(p, 0)
    BY <1>2, <2>1 DEF History!Squash
  <2> QED BY <2>1, <2>2, JoinKeeps
<1> QED BY <1>1, <1>2, AdvanceKeeps, BranchKeeps, UpgradeKeeps, BuildKeeps,
           HistoryStays
        DEF History!Next

-----------------------------------------------------------------------------
(* A build says of a decided Proposal what the last one said.              *)
LEMMA SameSaid ==
    ASSUME HistoryInv, History!BuildProjection, NEW c \in Claims,
           History!Shown(c) # None, History!Shown(c).terminal # 0, History!Shown(c)' # None
    PROVE  History!Shown(c)' = History!Shown(c)
<1>1. PICK told : told = History!Shown(c)
  OBVIOUS
<1>2. PreviewTrue(c) /\ told \in History!Preview
  BY <1>1 DEF HistoryInv, SaidTrue, PreviewTrue
<1>3. c \in History!Reviews /\ History!Shown(c)' = History!PreviewOf(c)
  BY DEF History!Shown, History!BuildProjection
<1>4. head \in DOMAIN revisions /\ DOMAIN revisions = 1 .. Len(revisions)
  BY DEF HistoryInv, Replayed, Branches, Shaped
<1>5. told.terminal \in History!Log /\ c \in revisions[told.terminal].decides
      /\ told.base = revisions[told.terminal].parent
  BY <1>1, <1>2 DEF PreviewTrue
<1>6. History!IsDecided(revisions[head].index[c])
  BY <1>4, <1>5, Decides DEF HistoryInv, Replayed, Linked, History!Log
<1>7. History!Status(c) # "pending"
  BY <1>6 DEF History!Status, History!IsDecided
<1>8. History!Previewable(c)
  BY <1>3 DEF History!BuildProjection
<1>9. PICK x : x = History!Terminal(c)
  OBVIOUS
<1>10. /\ x \in History!Log /\ c \in revisions[x].decides
       /\ revisions[x].parent \in DOMAIN revisions /\ revisions[revisions[x].parent].reading # "refused"
  BY <1>7, <1>8, <1>9, TerminalFound DEF HistoryInv
<1>11. x = told.terminal
  BY <1>4, <1>5, <1>10 DEF HistoryInv, Replayed, Linked, OnceDecided,
         History!Log
<1>12. /\ History!PreviewOf(c).terminal = x /\ History!PreviewOf(c).base = revisions[x].parent
       /\ History!PreviewOf(c).state = IF revisions[x].index[c] = "withdrawn"
                                  \/ revisions[revisions[x].parent].reading # "listed"
                               THEN "unavailable" ELSE "terminal_historical"
       /\ History!PreviewOf(c) \in History!Preview
  BY <1>3, <1>7, <1>9, BuiltPreview DEF HistoryInv
<1>13. told.state = IF revisions[x].index[c] = "withdrawn"
                      \/ revisions[revisions[x].parent].reading # "listed"
                   THEN "unavailable" ELSE "terminal_historical"
  BY <1>1, <1>2, <1>5, <1>10, <1>11 DEF PreviewTrue
<1>14. History!PreviewOf(c) = told
  BY <1>2, <1>5, <1>11, <1>12, <1>13 DEF History!Preview
<1> QED BY <1>1, <1>3, <1>14

LEMMA PreviewsStep ==
    ASSUME HistoryInv, [History!Next]_(History!vars)
    PROVE History!PreviewsKept
<1>1. CASE History!BuildProjection
  BY <1>1, SameSaid DEF History!PreviewsKept
<1>2. CASE ~History!BuildProjection
  <2>1. history' = history
    BY <1>2 DEF History!Next, History!Advance, History!Branch, History!Merge,
                History!Squash, History!JoinWith, History!Upgrade, History!vars
  <2> QED BY <2>1 DEF History!PreviewsKept, History!Shown
<1> QED BY <1>1, <1>2

-----------------------------------------------------------------------------
(* A step is a step of one part, and leaves the others alone.              *)
all == <<part, orchestration, serving, building>>

LEMMA OrchestrationMoves == [MCNext]_all => [Next]_vars
<1> SUFFICES ASSUME [MCNext]_all PROVE [Next]_vars
  OBVIOUS
<1>1. CASE UNCHANGED orchestration
  BY <1>1 DEF orchestration
<1>2. CASE ~UNCHANGED orchestration
  <2>1. MCNext /\ ~OfReads /\ ~OfHistory
    BY <1>2 DEF all, OfReads, OfHistory
  <2> QED BY <2>1 DEF MCNext, Next
<1> QED BY <1>1, <1>2

LEMMA ReadsMove == [MCNext]_all => [Reads!Next]_(Reads!vars)
<1> SUFFICES ASSUME [MCNext]_all PROVE [Reads!Next]_(Reads!vars)
  OBVIOUS
<1>1. CASE UNCHANGED serving
  BY <1>1 DEF serving, Reads!vars
<1>2. CASE ~UNCHANGED serving
  <2>1. MCNext /\ ~OfOrchestration /\ ~OfHistory
    BY <1>2 DEF all, OfOrchestration, OfHistory
  <2> QED BY <2>1 DEF MCNext, Reads!Next
<1> QED BY <1>1, <1>2

LEMMA HistoryMoves == [MCNext]_all => [History!Next]_(History!vars)
<1> SUFFICES ASSUME [MCNext]_all PROVE [History!Next]_(History!vars)
  OBVIOUS
<1>1. CASE UNCHANGED building
  BY <1>1 DEF building, History!vars, History!branches
<1>2. CASE ~UNCHANGED building
  <2>1. MCNext /\ ~OfOrchestration /\ ~OfReads
    BY <1>2 DEF all, OfOrchestration, OfReads
  <2> QED BY <2>1 DEF MCNext, History!Next
<1> QED BY <1>1, <1>2

LEMMA Served == MCSpec => [](WalksInv /\ GateInv)
<1>1. MCInit => WalksInv /\ GateInv
  BY ReadsAssumption, WalksInit, GateInit DEF MCInit
<1>2. WalksInv /\ GateInv /\ [MCNext]_all => WalksInv' /\ GateInv'
  <2> SUFFICES ASSUME WalksInv, GateInv, [MCNext]_all PROVE WalksInv' /\ GateInv'
    OBVIOUS
  <2>1. [Reads!Next]_(Reads!vars)
    BY ReadsMove
  <2>2. WalksInv'
    BY <2>1, ReadsAssumption, WalksStep
  <2>3. read' \in [Readers -> Reads!Walk]
    BY <2>2 DEF WalksInv
  <2> QED BY <2>1, <2>2, <2>3, ReadsAssumption, GateStep
<1> QED BY <1>1, <1>2, PTL DEF MCSpec, all

LEMMA Rebuilt == MCSpec => []HistoryInv
<1>1. MCInit => HistoryInv
  BY HistoryAssumption, HistoryInit DEF MCInit, History!ConstantsTyped
<1>2. HistoryInv /\ [MCNext]_all => HistoryInv'
  BY HistoryMoves, HistoryStep
<1> QED BY <1>1, <1>2, PTL DEF MCSpec, all

(* read-contracts.ts: whoever follows the cursors to the end has every row *)
(* of the one release, once, for pages of any size, rows of any number and *)
(* moves of the pointer at any time, in the three reads whose cursor goes  *)
(* on where their order does.                                              *)
THEOREM PagesAllThere ==
    ASSUME "browse" \notin Kinds PROVE MCSpec => []PagesComplete
<1>1. WalksInv => PagesComplete
  BY WalksWhole DEF PagesComplete
<1> QED BY <1>1, Served, PTL

(* assertReadableRelease and pruneProjectionReleases: as long as the       *)
(* pointer stays, what the gate lets through is not pruned under the page. *)
THEOREM TornByMovesOnly == MCSpec => TornOnlyByMove
<1>1. GateInv /\ [MCNext]_all => [Reads!MovedUnder]_(Reads!vars)
  BY ReadsMove, TearsMoved
<1> QED BY <1>1, Served, PTL DEF MCSpec, all, TornOnlyByMove,
               Reads!TornOnlyByMove

(* What operators, builds and releases are made of keeps its type.         *)
THEOREM ServingTypes == MCSpec => []TypesOK
<1>1. MCInit => LockInv /\ Bounded /\ ServeInv
  BY RunInit, ServeInit DEF MCInit
<1>2. LockInv /\ Bounded /\ ServeInv /\ [MCNext]_all => (LockInv /\ Bounded /\ ServeInv)'
  BY OrchestrationMoves, RunStep, ServeStep
<1>3. LockInv /\ HistoryInv => TypesOK
  BY DEF LockInv, HistoryInv, TypesOK
<1> QED BY <1>1, <1>2, <1>3, Rebuilt, PTL DEF MCSpec, all

(* projection-builder.mjs: a published preview of a decided Proposal names *)
(* the commit that decided it, for histories of any length, merges and     *)
(* squashes, and commits that Core stops reading at any time.              *)
THEOREM PreviewsAreBound == MCSpec => []PreviewsBound
<1>1. HistoryInv => PreviewsBound
  BY DEF HistoryInv, PreviewsBound
<1> QED BY <1>1, Rebuilt, PTL

(* projection-builder.mjs: the changes a release publishes are those that  *)
(* commits made, and while Core reads every commit they are all of them.   *)
THEOREM ChangesAreExplained == MCSpec => []ChangesExplainState
<1>1. HistoryInv => ChangesExplainState
  BY DEF HistoryInv, ChangesExplainState
<1> QED BY <1>1, Rebuilt, PTL

(* projection-builder.mjs: no later release says otherwise of a Proposal   *)
(* that an earlier one said was decided.                                   *)
THEOREM PreviewsAreKept == MCSpec => PreviewsStay
<1>1. HistoryInv /\ [MCNext]_all => [History!PreviewsKept]_(History!vars)
  BY HistoryMoves, PreviewsStep
<1> QED BY <1>1, Rebuilt, PTL DEF MCSpec, all, PreviewsStay,
               History!PreviewsStay
=============================================================================
