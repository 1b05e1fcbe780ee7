---------------------------- MODULE RecapProofs ----------------------------
(***************************************************************************)
(* What reaches somebody, for every value of the constants: the recap's    *)
(* panel, whatever the photos, the facts, the size of a page and the clock;*)
(* the reports and the crash log, whatever is written and thrown; and the  *)
(* cards of a page, whatever is tapped and in whatever order it is         *)
(* answered.  A part's invariant is proved of its own steps first.         *)
(***************************************************************************)
EXTENDS MCRecap, TLAPS, FiniteSetTheorems, SequenceTheorems, WellFoundedInduction

-----------------------------------------------------------------------------
(* The invariant.                                                          *)

Rows == [when : Int, key : Int]
EventKinds == Kinds \cup {"photo_takedown", "photo_restore", "comment_hidden", "comment_restored"}
Events == [id : Nat, at : 0 .. Horizon, photo : Photos, kind : EventKinds]
Comments == [id : Nat, photo : Photos, at : 0 .. Horizon, down : BOOLEAN]
Likes == [id : Nat, by : Others, photo : Photos, at : 0 .. Horizon]
TaskType == [live : BOOLEAN, since : Int, challenge : BOOLEAN, flash : Nat \cup {NULL},
             ceremony : BOOLEAN]
Panels == [pages : Seq(SUBSET Rows), cursor : Rows \cup {NULL}, more : BOOLEAN, busy : BOOLEAN,
           asked : Seq(Rows), open : BOOLEAN, last : Int, hasMore : BOOLEAN]
Opened == [last : Int, more : BOOLEAN]

\* The variables keep their types; the tables are finite.
FactsType ==
    /\ now \in 0 .. Horizon /\ checkpoint \in 0 .. Horizon /\ nextId \in Nat
    /\ hidden \in [Photos -> {NULL, "guest", "admin"}]
    /\ events \in SUBSET Events /\ IsFiniteSet(events)
    /\ comments \in SUBSET Comments /\ IsFiniteSet(comments)
    /\ likes \in SUBSET Likes /\ IsFiniteSet(likes)
    /\ task \in TaskType
PanelType ==
    /\ panel \in Panels /\ \A i \in 1 .. Len(panel.pages) : IsFiniteSet(panel.pages[i])
    /\ seen \in SUBSET Opened /\ opened \in Opened /\ strays \in BOOLEAN

EventRowOf(e) == Row(e.at, Key(EventRow, e.id))

\* A document is of a time before the next event.
IdsAreFresh ==
    /\ \A e \in events : e.id < nextId
    /\ panel.pages # <<>> => panel.last < nextId
    /\ \A s \in seen \cup {opened} : s.last < nextId

\* What was known to a document that has all on its first page was offered.
FirstPageOffers ==
    LET offers(last, more) == ~more => \A e \in events : e.id <= last => e.id \in offered
    IN  /\ panel.pages # <<>> => offers(panel.last, panel.hasMore)
        /\ \A s \in seen \cup {opened} : offers(s.last, s.more)

\* Of the events its document knew of, the first page has all that are not
\* older than all it has.
FirstPageIsNewest ==
    panel.pages # <<>> =>
        \A e \in events : e.id <= panel.last =>
            \/ EventRowOf(e) \in panel.pages[1]
            \/ /\ panel.hasMore /\ panel.pages[1] # {}
               /\ \A r \in panel.pages[1] : Older(EventRowOf(e), r)

\* One page at most is asked for, by the cursor of a document.
OneIsAsked ==
    /\ panel.open \/ panel.asked # <<>> => panel.pages # <<>>
    /\ ~strays => panel.asked = IF panel.busy THEN <<panel.cursor>> ELSE <<>>

\* The cursor is the end of what was paged, each page ends before the next,
\* and what the document knew of and was not paged yet lies behind the cursor.
CursorIsTheEnd ==
    panel.pages # <<>> /\ ~strays =>
        /\ \A i \in 1 .. Len(panel.pages) : \A r \in panel.pages[i] :
                r = panel.cursor \/ Older(panel.cursor, r)
        /\ \A i \in 2 .. Len(panel.pages) :
                \A r \in panel.pages[i - 1], s \in panel.pages[i] : Older(s, r)
        /\ \A e \in events : e.id <= panel.last =>
                \/ \E i \in 1 .. Len(panel.pages) : EventRowOf(e) \in panel.pages[i]
                \/ panel.more /\ panel.cursor \in Rows /\ Older(EventRowOf(e), panel.cursor)

RecapInv ==
    /\ FactsType /\ PanelType /\ IdsAreFresh /\ FirstPageOffers /\ FirstPageIsNewest
    /\ OneIsAsked /\ CursorIsTheEnd /\ OpeningReadsWhatItShows /\ HostsAreHeard

-----------------------------------------------------------------------------
(* Finite sets and orders.                                                 *)

\* A finite set has an element with none in front.
LEMMA FrontExists ==
    ASSUME NEW S, IsFiniteSet(S), S # {}, NEW inFront \in [S -> SUBSET S],
           \A x \in S : x \notin inFront[x],
           \A x, y \in S : x \in inFront[y] => inFront[x] \subseteq inFront[y]
    PROVE  \E x \in S : inFront[x] = {}
<1> DEFINE T == {inFront[x] : x \in S}
<1>1. T \subseteq FiniteSubsetsOf(S) /\ T # {}
  <2>1. ASSUME NEW x \in S PROVE inFront[x] \in SUBSET S /\ IsFiniteSet(inFront[x])
    BY FS_Subset
  <2> QED  BY <2>1 DEF FiniteSubsetsOf
<1>2. PICK t \in T : \A u \in T : <<u, t>> \notin StrictSubsetOrdering(S)
  <2> HIDE DEF T
  <2> QED  BY <1>1, FS_StrictSubsetOrderingWellFounded, WFMin
<1>3. PICK x \in S : t = inFront[x]
  OBVIOUS
<1>4. ASSUME NEW y \in inFront[x] PROVE FALSE
  <2>1. y \in S /\ inFront[y] \subseteq inFront[x] /\ inFront[y] # inFront[x]
    OBVIOUS
  <2>2. <<inFront[y], inFront[x]>> \in StrictSubsetOrdering(S)
    BY <2>1 DEF StrictSubsetOrdering
  <2> QED  BY <1>2, <1>3, <2>1, <2>2
<1> QED  BY <1>4

\* The images of a finite set are finitely many.
LEMMA ImageIsFinite ==
    ASSUME NEW S, IsFiniteSet(S), NEW f, DOMAIN f = S
    PROVE  IsFiniteSet({f[x] : x \in S})
<1> DEFINE T == {f[x] : x \in S}
           g == [x \in S |-> f[x]]
<1>1. g \in Surjection(S, T)
  BY DEF Surjection
<1> QED  BY <1>1, FS_Surjection

LEMMA GreatestExists ==
    ASSUME NEW S \in SUBSET (0 .. Horizon), S # {}
    PROVE  Max(S) \in S
<1> DEFINE inFront == [x \in S |-> {y \in S : y > x}]
<1>1. Horizon \in Nat /\ S \subseteq Int
  BY RecapAssumption DEF RecapAssumption
<1>2. IsFiniteSet(S)
  <2>1. IsFiniteSet(0 .. Horizon)
    BY <1>1, FS_Interval
  <2> QED  BY <2>1, FS_Subset
<1>3. /\ inFront \in [S -> SUBSET S] /\ \A x \in S : x \notin inFront[x]
      /\ \A x, y \in S : x \in inFront[y] => inFront[x] \subseteq inFront[y]
  <2>1. inFront \in [S -> SUBSET S] /\ \A x \in S : x \notin inFront[x]
    BY <1>1
  <2>2. ASSUME NEW x \in S, NEW y \in S, x \in inFront[y], NEW z \in inFront[x]
        PROVE  z \in inFront[y]
    <3>1. x \in Int /\ y \in Int /\ z \in S /\ z \in Int /\ z > x /\ x > y
      BY <1>1, <2>2
    <3>2. z > y
      BY <3>1
    <3> QED  BY <3>1, <3>2
  <2> QED  BY <2>1, <2>2
<1>4. PICK x \in S : inFront[x] = {}
  <2> HIDE DEF inFront
  <2> QED  BY <1>2, <1>3, FrontExists
<1>5. \A y \in S : x >= y
  BY <1>1, <1>4
<1> QED  BY <1>5 DEF Max

-----------------------------------------------------------------------------
(* Rows, newest first.                                                     *)

LEMMA OlderIsAnOrder ==
    ASSUME NEW r \in Rows, NEW s \in Rows, NEW t \in Rows
    PROVE  /\ ~Older(r, r)
           /\ Older(r, s) /\ Older(s, t) => Older(r, t)
           /\ r = s \/ Older(r, s) \/ Older(s, r)
<1>1. /\ r.when \in Int /\ s.when \in Int /\ t.when \in Int
      /\ r.key \in Int /\ s.key \in Int /\ t.key \in Int
  BY DEF Rows
<1>2. r.when = s.when /\ r.key = s.key => r = s
  BY DEF Rows
<1> QED  BY <1>1, <1>2 DEF Older

\* A finite set of rows has an oldest, and the page's last row is it.
LEMMA LastIsOldest ==
    ASSUME NEW page \in SUBSET Rows, IsFiniteSet(page), page # {}, NEW else
    PROVE  /\ LastOf(page, else) \in page
           /\ \A s \in page : s = LastOf(page, else) \/ Older(LastOf(page, else), s)
<1> DEFINE inFront == [r \in page |-> {s \in page : Older(s, r)}]
<1>1. inFront \in [page -> SUBSET page]
  OBVIOUS
<1>2. \A r, s \in page : s \in inFront[r] <=> Older(s, r)
  OBVIOUS
<1>3. PICK r \in page : inFront[r] = {}
  <2> HIDE DEF inFront
  <2>1. \A x \in page : x \notin inFront[x]
    BY <1>2, OlderIsAnOrder
  <2>2. ASSUME NEW x \in page, NEW y \in page, x \in inFront[y], NEW z \in inFront[x]
        PROVE  z \in inFront[y]
    <3>1. z \in page /\ Older(z, x) /\ Older(x, y)
      BY <1>1, <1>2, <2>2
    <3> QED  BY <1>2, <3>1, OlderIsAnOrder
  <2> QED  BY <1>1, <2>1, <2>2, FrontExists
<1>4. \A s \in page : r = s \/ Older(r, s)
  <2> HIDE DEF inFront
  <2> QED  BY <1>2, <1>3, OlderIsAnOrder
<1> QED  BY <1>4 DEF LastOf

\* A row that n others are newer than is older than the n newest.
LEMMA BehindTheNewest ==
    ASSUME NEW S \in SUBSET Rows, IsFiniteSet(S), NEW n \in Nat, NEW r \in Rows,
           NEW F \in SUBSET S, \A s \in F : Older(r, s), Cardinality(F) >= n,
           NEW p \in Newest(S, n), p # r
    PROVE  Older(r, p)
<1> DEFINE front == {s \in S : Older(p, s)}
<1>1. p \in Rows /\ p \in S /\ Cardinality(front) < n
  BY DEF Newest
<1>2. SUFFICES ASSUME Older(p, r) PROVE FALSE
  BY <1>1, OlderIsAnOrder
<1>3. F \subseteq front
  BY <1>1, <1>2, OlderIsAnOrder
<1>4. /\ IsFiniteSet(front) /\ IsFiniteSet(F)
      /\ Cardinality(F) <= Cardinality(front)
      /\ Cardinality(F) \in Nat /\ Cardinality(front) \in Nat
  <2>1. IsFiniteSet(front)
    BY FS_Subset
  <2> HIDE DEF front
  <2> QED  BY <1>3, <2>1, FS_Subset, FS_CardinalityType
<1> QED  BY <1>1, <1>4

\* What is left out of the n newest rows is older than all n of them.
LEMMA LeftOutIsOlder ==
    ASSUME NEW S \in SUBSET Rows, IsFiniteSet(S), NEW n \in Nat, NEW r \in S, r \notin Newest(S, n)
    PROVE  /\ Cardinality(Newest(S, n)) >= n
           /\ \A p \in Newest(S, n) : Older(r, p)
<1> DEFINE N == Newest(S, n)
           U == S \ N
           inFront == [x \in U |-> {y \in U : Older(x, y)}]
<1>1. N \subseteq S /\ U \subseteq S /\ IsFiniteSet(N) /\ IsFiniteSet(U) /\ U # {}
  BY FS_Subset DEF Newest
<1>2. PICK u \in U : \A y \in U : ~Older(u, y)
  <2>1. inFront \in [U -> SUBSET U] /\ \A x, y \in U : y \in inFront[x] <=> Older(x, y)
    OBVIOUS
  <2> HIDE DEF inFront, U
  <2>2. \A x \in U : x \notin inFront[x]
    BY <1>1, <2>1, OlderIsAnOrder
  <2>3. ASSUME NEW x \in U, NEW y \in U, x \in inFront[y], NEW z \in inFront[x]
        PROVE  z \in inFront[y]
    <3>1. z \in U /\ Older(y, x) /\ Older(x, z)
      BY <2>1, <2>3
    <3> QED  BY <1>1, <2>1, <3>1, OlderIsAnOrder
  <2>4. PICK u \in U : inFront[u] = {}
    BY <1>1, <2>1, <2>2, <2>3, FrontExists
  <2> QED  BY <2>1, <2>4
<1>3. u \in S /\ ~(Cardinality({s \in S : Older(u, s)}) < n)
  BY DEF Newest
<1>4. {s \in S : Older(u, s)} \subseteq N
  BY <1>2
<1>5. Cardinality(N) >= n
  <2>1. /\ Cardinality({s \in S : Older(u, s)}) <= Cardinality(N)
        /\ Cardinality({s \in S : Older(u, s)}) \in Nat /\ Cardinality(N) \in Nat
    <3> HIDE DEF N
    <3> QED  BY <1>1, <1>4, FS_Subset, FS_CardinalityType
  <2> QED  BY <1>3, <2>1
<1>6. ASSUME NEW p \in N PROVE Older(r, p)
  <2> DEFINE F == {s \in S : Older(r, s)}
  <2>1. F \in SUBSET S /\ \A s \in F : Older(r, s)
    OBVIOUS
  <2>2. IsFiniteSet(F) /\ Cardinality(F) \in Nat /\ ~(Cardinality(F) < n)
    BY FS_Subset, FS_CardinalityType DEF Newest
  <2>3. Cardinality(F) >= n
    BY <2>2
  <2>4. p # r /\ r \in Rows
    OBVIOUS
  <2> HIDE DEF F
  <2> QED  BY <2>1, <2>3, <2>4, BehindTheNewest
<1> QED  BY <1>5, <1>6

(* The merge takes the newest rows of the sources' newest rows.  A row of  *)
(* one source that is not on the page is older than the whole page, and    *)
(* then there is more than a page.                                         *)
LEMMA PageIsComplete ==
    ASSUME NEW S \in SUBSET Rows, IsFiniteSet(S), NEW n \in Nat \ {0}, NEW R \in SUBSET Rows,
           IsFiniteSet(R), Newest(S, n + 1) \subseteq R, NEW r \in S, r \notin Newest(R, n)
    PROVE  /\ Cardinality(R) > n /\ Newest(R, n) # {}
           /\ \A p \in Newest(R, n) : Older(r, p)
<1> DEFINE A == Newest(S, n + 1)
<1>1. /\ IsFiniteSet(A) /\ Cardinality(A) \in Nat /\ Cardinality(A) <= Cardinality(R)
      /\ Cardinality(R) \in Nat /\ r \in Rows
  BY FS_Subset, FS_CardinalityType
<1>2. CASE r \in R
  <2> DEFINE F == {s \in R : Older(r, s)}
  <2>1. Cardinality(Newest(R, n)) >= n /\ \A p \in Newest(R, n) : Older(r, p)
    BY <1>2, LeftOutIsOlder
  <2>2. Newest(R, n) \subseteq R /\ IsFiniteSet(Newest(R, n)) /\ Cardinality(Newest(R, n)) \in Nat
    BY FS_Subset, FS_CardinalityType DEF Newest
  <2>3. Cardinality(R) # Cardinality(Newest(R, n)) /\ Cardinality(Newest(R, n)) <= Cardinality(R)
    BY <1>2, <2>2, FS_Subset
  <2>4. Newest(R, n) # {}
    BY <2>1, FS_EmptySet
  <2> QED  BY <1>1, <2>1, <2>2, <2>3, <2>4
<1>3. CASE r \notin R
  <2>1. r \notin A
    BY <1>3
  <2>2. Cardinality(A) >= n + 1 /\ \A a \in A : Older(r, a)
    BY <2>1, LeftOutIsOlder
  <2>3. Cardinality(R) > n
    BY <1>1, <2>2
  <2>4. \A p \in Newest(R, n) : p # r
    BY <1>3 DEF Newest
  <2>5. \A p \in Newest(R, n) : Older(r, p)
    <3>1. Cardinality(A) >= n /\ A \in SUBSET R
      BY <1>1, <2>2
    <3> HIDE DEF A
    <3> QED  BY <1>1, <2>2, <2>4, <3>1, BehindTheNewest
  <2>6. Newest(R, n) # {}
    <3>1. PICK x : x \in R
      BY <1>1, <2>3, FS_EmptySet
    <3>2. x \notin Newest(R, n) => Cardinality(Newest(R, n)) >= n
      BY <3>1, LeftOutIsOlder
    <3> QED  BY <3>2, FS_EmptySet
  <2> QED  BY <2>3, <2>5, <2>6
<1> QED  BY <1>2, <1>3

-----------------------------------------------------------------------------
(* The sources' rows, and a page of them.                                  *)

LEMMA SecondsPass ==
    ASSUME NEW t \in Nat
    PROVE  Second(t) \in 0 .. t
  BY RecapAssumption DEF RecapAssumption, Second

LEMMA KeysAreNumbers ==
    ASSUME NEW source \in Nat, NEW id \in Nat
    PROVE  Key(source, id) \in Int
  BY DEF Key, Text

LEMMA EventsHaveRows ==
    ASSUME FactsType
    PROVE  /\ {EventRowOf(e) : e \in events} \in SUBSET Rows
           /\ IsFiniteSet({EventRowOf(e) : e \in events})
           /\ \A e \in events : Older(EventRowOf(e), Start)
<1>1. ASSUME NEW e \in events
      PROVE  EventRowOf(e) \in Rows /\ Older(EventRowOf(e), Start)
  <2>1. e.id \in Nat /\ e.at \in 0 .. Horizon /\ Horizon \in Nat /\ EventRow \in Nat
    BY RecapAssumption DEF FactsType, Events, RecapAssumption, EventRow
  <2>2. Key(EventRow, e.id) \in Int
    BY <2>1, KeysAreNumbers
  <2> QED  BY <2>1, <2>2 DEF EventRowOf, Row, Rows, Older, Start
<1> DEFINE f == [e \in events |-> EventRowOf(e)]
<1>2. IsFiniteSet({f[e] : e \in events})
  <2>1. DOMAIN f = events /\ IsFiniteSet(events)
    BY DEF FactsType
  <2> HIDE DEF f
  <2> QED  BY <2>1, ImageIsFinite
<1>3. {f[e] : e \in events} = {EventRowOf(e) : e \in events}
  OBVIOUS
<1> QED  BY <1>1, <1>2, <1>3

LEMMA CommentsHaveRows ==
    ASSUME FactsType, NEW C \in SUBSET comments
    PROVE  /\ {Row(c.at, Key(CommentRow, c.id)) : c \in C} \in SUBSET Rows
           /\ IsFiniteSet({Row(c.at, Key(CommentRow, c.id)) : c \in C})
<1>1. ASSUME NEW c \in C PROVE Row(c.at, Key(CommentRow, c.id)) \in Rows
  <2>1. c.id \in Nat /\ c.at \in 0 .. Horizon /\ Horizon \in Nat /\ CommentRow \in Nat
    BY RecapAssumption DEF FactsType, Comments, RecapAssumption, CommentRow
  <2>2. Key(CommentRow, c.id) \in Int
    BY <2>1, KeysAreNumbers
  <2> QED  BY <2>1, <2>2 DEF Row, Rows
<1> DEFINE f == [c \in C |-> Row(c.at, Key(CommentRow, c.id))]
<1>2. IsFiniteSet({f[c] : c \in C})
  <2>1. DOMAIN f = C /\ IsFiniteSet(C)
    BY FS_Subset DEF FactsType
  <2> HIDE DEF f
  <2> QED  BY <2>1, ImageIsFinite
<1>3. {f[c] : c \in C} = {Row(c.at, Key(CommentRow, c.id)) : c \in C}
  OBVIOUS
<1> QED  BY <1>1, <1>2, <1>3

LEMMA CouplesLikesHaveRows ==
    ASSUME FactsType, NEW L \in SUBSET likes
    PROVE  /\ {Row(l.at, Key(CoupleRow, l.id)) : l \in L} \in SUBSET Rows
           /\ IsFiniteSet({Row(l.at, Key(CoupleRow, l.id)) : l \in L})
<1>1. ASSUME NEW l \in L PROVE Row(l.at, Key(CoupleRow, l.id)) \in Rows
  <2>1. l.id \in Nat /\ l.at \in 0 .. Horizon /\ Horizon \in Nat /\ CoupleRow \in Nat
    BY RecapAssumption DEF FactsType, Likes, RecapAssumption, CoupleRow
  <2>2. Key(CoupleRow, l.id) \in Int
    BY <2>1, KeysAreNumbers
  <2> QED  BY <2>1, <2>2 DEF Row, Rows
<1> DEFINE f == [l \in L |-> Row(l.at, Key(CoupleRow, l.id))]
<1>2. IsFiniteSet({f[l] : l \in L})
  <2>1. DOMAIN f = L /\ IsFiniteSet(L)
    BY FS_Subset DEF FactsType
  <2> HIDE DEF f
  <2> QED  BY <2>1, ImageIsFinite
<1>3. {f[l] : l \in L} = {Row(l.at, Key(CoupleRow, l.id)) : l \in L}
  OBVIOUS
<1> QED  BY <1>1, <1>2, <1>3

LEMMA LikesHaveRows ==
    ASSUME FactsType, NEW L \in SUBSET likes
    PROVE  LET row(p) == Row(Max({l.at : l \in {x \in L : x.photo = p}}), Key(LikeRow, p))
               rows == {row(p) : p \in {l.photo : l \in L}}
           IN  rows \in SUBSET Rows /\ IsFiniteSet(rows)
<1> DEFINE P == {l.photo : l \in L}
           when(p) == {l.at : l \in {x \in L : x.photo = p}}
           row(p) == Row(Max(when(p)), Key(LikeRow, p))
           rows == {row(p) : p \in P}
<1>1. \A l \in L : l.photo \in Nat /\ l.at \in 0 .. Horizon
  BY RecapAssumption DEF RecapAssumption, FactsType, Likes
<1>2. ASSUME NEW p \in P PROVE row(p) \in Rows
  <2>1. when(p) \in SUBSET (0 .. Horizon) /\ when(p) # {}
    BY <1>1
  <2>2. Max(when(p)) \in 0 .. Horizon
    <3> HIDE DEF when
    <3> QED  BY <2>1, GreatestExists
  <2>3. p \in Nat /\ LikeRow \in Nat
    BY <1>1 DEF LikeRow
  <2>4. Key(LikeRow, p) \in Int
    BY <2>3, KeysAreNumbers
  <2>5. Horizon \in Nat
    BY RecapAssumption DEF RecapAssumption
  <2> HIDE DEF when
  <2> QED  BY <2>2, <2>4, <2>5 DEF Row, Rows
<1>3. IsFiniteSet(P)
  <2> DEFINE f == [l \in L |-> l.photo]
  <2>1. P = {f[l] : l \in L}
    OBVIOUS
  <2>2. DOMAIN f = L /\ IsFiniteSet(L)
    BY FS_Subset DEF FactsType
  <2> HIDE DEF f, P
  <2> QED  BY <2>1, <2>2, ImageIsFinite
<1>4. IsFiniteSet(rows)
  <2> DEFINE f == [p \in P |-> row(p)]
  <2>1. rows = {f[p] : p \in P} /\ DOMAIN f = P
    <3> HIDE DEF row, P
    <3> QED  OBVIOUS
  <2> HIDE DEF f, rows, P
  <2> QED  BY <1>3, <2>1, ImageIsFinite
<1>5. rows \in SUBSET Rows
  <2> HIDE DEF row, P
  <2> QED  BY <1>2
<1> QED  BY <1>4, <1>5

LEMMA AnnouncementsAreRows ==
    ASSUME FactsType
    PROVE  qualifyingAnnounceFacts \in SUBSET Rows /\ IsFiniteSet(qualifyingAnnounceFacts)
<1> DEFINE live == Row(task.since, Key(Live, 1))
           unseal == Row(Second(DayStart), Key(Unseal, 1))
           flash == Row(Second(task.flash), Key(Flash, 1))
           ceremony == Row(Second(DayStart), Key(Ceremony, 1))
           all == {live, unseal, flash, ceremony}
<1>1. Key(Live, 1) \in Int /\ Key(Unseal, 1) \in Int /\ Key(Flash, 1) \in Int /\ Key(Ceremony, 1) \in Int
  BY KeysAreNumbers DEF Live, Unseal, Flash, Ceremony
<1>2. /\ task.since \in Int /\ Second(DayStart) \in Int
      /\ task.flash # NULL => task.flash \in Nat /\ Second(task.flash) \in Int
  <2>1. DayStart \in Nat /\ task.since \in Int /\ task.flash \in Nat \cup {NULL}
    BY RecapAssumption DEF RecapAssumption, FactsType, TaskType
  <2> QED  BY <2>1, SecondsPass
<1>3. live \in Rows /\ unseal \in Rows /\ ceremony \in Rows /\ (task.flash # NULL => flash \in Rows)
  BY <1>1, <1>2 DEF Row, Rows
<1>4. qualifyingAnnounceFacts \subseteq all
  BY DEF qualifyingAnnounceFacts
<1>5. flash \in qualifyingAnnounceFacts => flash \in Rows
  <2> DEFINE others == {live, unseal, ceremony}
  <2>1. flash \in qualifyingAnnounceFacts => task.flash # NULL \/ flash \in others
    BY DEF qualifyingAnnounceFacts, FlashActive
  <2> QED  BY <1>3, <2>1
<1>6. qualifyingAnnounceFacts \in SUBSET Rows
  <2> HIDE DEF live, unseal, flash, ceremony
  <2> QED  BY <1>3, <1>4, <1>5
<1>7. IsFiniteSet(all)
  <2> HIDE DEF live, unseal, flash, ceremony
  <2>1. IsFiniteSet({} \cup {live} \cup {unseal} \cup {flash} \cup {ceremony})
    <3>1. IsFiniteSet({} \cup {live})
      BY FS_EmptySet, FS_AddElement
    <3>2. IsFiniteSet({} \cup {live} \cup {unseal})
      BY <3>1, FS_AddElement
    <3>3. IsFiniteSet({} \cup {live} \cup {unseal} \cup {flash})
      BY <3>2, FS_AddElement
    <3> QED  BY <3>3, FS_AddElement
  <2>2. all = {} \cup {live} \cup {unseal} \cup {flash} \cup {ceremony}
    OBVIOUS
  <2> QED  BY <2>1, <2>2
<1> QED
  <2> HIDE DEF all
  <2> QED  BY <1>4, <1>6, <1>7, FS_Subset

\* The newest n of those rows of a finite set that are older than a cursor.
LEMMA NewestAreOlder ==
    ASSUME NEW X \in SUBSET Rows, IsFiniteSet(X), NEW c, NEW n \in Nat
    PROVE  LET N == Newest({r \in X : Older(r, c)}, n)
           IN  N \in SUBSET Rows /\ IsFiniteSet(N) /\ \A r \in N : Older(r, c)
<1>1. Newest({r \in X : Older(r, c)}, n) \subseteq {r \in X : Older(r, c)}
  BY DEF Newest
<1>2. IsFiniteSet(Newest({r \in X : Older(r, c)}, n))
  BY <1>1, FS_Subset
<1> QED  BY <1>1, <1>2

LEMMA AllRowsAreRows ==
    ASSUME FactsType, NEW c, NEW n \in Nat
    PROVE  /\ allRows(c, n) \in SUBSET Rows /\ IsFiniteSet(allRows(c, n))
           /\ \A r \in allRows(c, n) : Older(r, c)
<1> DEFINE Fine(N) == N \in SUBSET Rows /\ IsFiniteSet(N) /\ \A r \in N : Older(r, c)
<1>1. Fine(storedRows(c, n))
  BY EventsHaveRows, NewestAreOlder DEF storedRows, EventRowOf
<1>2. Fine(commentRows(c, n))
  <2> DEFINE there == {x \in comments : x.photo \in VisiblePhotos /\ ~x.down}
             X == {Row(x.at, Key(CommentRow, x.id)) : x \in there}
  <2>1. X \in SUBSET Rows /\ IsFiniteSet(X)
    <3>1. there \in SUBSET comments
      OBVIOUS
    <3> HIDE DEF there
    <3> QED  BY <3>1, CommentsHaveRows
  <2>2. commentRows(c, n) = Newest({r \in X : Older(r, c)}, n)
    BY DEF commentRows
  <2> HIDE DEF X
  <2> QED  BY <2>1, <2>2, NewestAreOlder
<1>3. Unseen(TRUE) \in SUBSET likes /\ Unseen(FALSE) \in SUBSET likes
  BY DEF Unseen
<1>4. Fine(coupleLikeRows(c, n))
  <2> DEFINE X == {Row(l.at, Key(CoupleRow, l.id)) : l \in Unseen(TRUE)}
  <2>1. X \in SUBSET Rows /\ IsFiniteSet(X)
    BY <1>3, CouplesLikesHaveRows
  <2>2. coupleLikeRows(c, n) = Newest({r \in X : Older(r, c)}, n)
    BY DEF coupleLikeRows
  <2> HIDE DEF X
  <2> QED  BY <2>1, <2>2, NewestAreOlder
<1>5. Fine(likeBatchRows(c, n))
  <2> DEFINE X == {Row(Max({l.at : l \in {x \in Unseen(FALSE) : x.photo = p}}), Key(LikeRow, p))
                        : p \in {l.photo : l \in Unseen(FALSE)}}
  <2>1. X \in SUBSET Rows /\ IsFiniteSet(X)
    BY <1>3, LikesHaveRows
  <2>2. likeBatchRows(c, n) = Newest({r \in X : Older(r, c)}, n)
    BY DEF likeBatchRows
  <2> HIDE DEF X
  <2> QED  BY <2>1, <2>2, NewestAreOlder
<1>6. Fine(announceRows(c, n))
  BY AnnouncementsAreRows, NewestAreOlder DEF announceRows
<1>7. IsFiniteSet(allRows(c, n))
  <2>1. IsFiniteSet(storedRows(c, n) \cup commentRows(c, n))
    BY <1>1, <1>2, FS_Union
  <2>2. IsFiniteSet(storedRows(c, n) \cup commentRows(c, n) \cup likeBatchRows(c, n))
    BY <1>5, <2>1, FS_Union
  <2>3. IsFiniteSet(storedRows(c, n) \cup commentRows(c, n) \cup likeBatchRows(c, n) \cup coupleLikeRows(c, n))
    BY <1>4, <2>2, FS_Union
  <2> QED  BY <1>6, <2>3, FS_Union DEF allRows
<1> QED  BY <1>1, <1>2, <1>4, <1>5, <1>6, <1>7 DEF allRows

\* A page is of rows older than its cursor.
LEMMA PagesAreRows ==
    ASSUME FactsType, NEW c
    PROVE  /\ getRecap(c).rows \in SUBSET Rows /\ IsFiniteSet(getRecap(c).rows)
           /\ \A r \in getRecap(c).rows : Older(r, c)
           /\ getRecap(c).more \in BOOLEAN
<1> DEFINE R == allRows(c, PageSize + 1)
<1>1. PageSize \in Nat /\ PageSize + 1 \in Nat
  BY RecapAssumption DEF RecapAssumption
<1>2. R \in SUBSET Rows /\ IsFiniteSet(R) /\ \A r \in R : Older(r, c)
  BY <1>1, AllRowsAreRows
<1>3. getRecap(c) = [rows |-> Newest(R, PageSize), more |-> Cardinality(R) > PageSize]
  BY DEF getRecap
<1>4. Newest(R, PageSize) \subseteq R
  BY DEF Newest
<1> HIDE DEF R
<1> QED  BY <1>2, <1>3, <1>4, FS_Subset

\* An event behind the cursor is on the page, or behind all of it and there
\* is more.
LEMMA EventsAreNotSkipped ==
    ASSUME FactsType, NEW c, NEW e \in events, Older(EventRowOf(e), c)
    PROVE  \/ EventRowOf(e) \in getRecap(c).rows
           \/ /\ getRecap(c).more /\ getRecap(c).rows # {}
              /\ \A r \in getRecap(c).rows : Older(EventRowOf(e), r)
<1> DEFINE R == allRows(c, PageSize + 1)
           X == {EventRowOf(x) : x \in events}
           S == {r \in X : Older(r, c)}
<1>1. PageSize \in Nat \ {0} /\ PageSize + 1 \in Nat
  BY RecapAssumption DEF RecapAssumption
<1>2. R \in SUBSET Rows /\ IsFiniteSet(R)
  BY <1>1, AllRowsAreRows
<1>3. getRecap(c) = [rows |-> Newest(R, PageSize), more |-> Cardinality(R) > PageSize]
  BY DEF getRecap
<1>4. S \in SUBSET Rows /\ IsFiniteSet(S)
  <2>1. X \in SUBSET Rows /\ IsFiniteSet(X)
    BY EventsHaveRows
  <2> HIDE DEF X
  <2> QED  BY <2>1, FS_Subset
<1>5. Newest(S, PageSize + 1) \subseteq R
  BY DEF allRows, storedRows, EventRowOf
<1>6. EventRowOf(e) \in S
  OBVIOUS
<1>7. \/ EventRowOf(e) \in Newest(R, PageSize)
      \/ /\ Cardinality(R) > PageSize /\ Newest(R, PageSize) # {}
         /\ \A r \in Newest(R, PageSize) : Older(EventRowOf(e), r)
  <2> HIDE DEF R, S
  <2> QED  BY <1>1, <1>2, <1>4, <1>5, <1>6, PageIsComplete
<1>8. getRecap(c).rows = Newest(R, PageSize) /\ getRecap(c).more = (Cardinality(R) > PageSize)
  <2> HIDE DEF R
  <2> QED  BY <1>3
<1>9. Cardinality(R) > PageSize => getRecap(c).more
  <2> HIDE DEF R
  <2> QED  BY <1>8
<1> HIDE DEF R
<1> QED  BY <1>7, <1>8, <1>9

-----------------------------------------------------------------------------
(* The invariant is kept.                                                  *)

LEMMA RecapInitInv ==
    Init => RecapInv
<1> SUFFICES ASSUME Init PROVE RecapInv
  OBVIOUS
<1> USE DEF Init
<1>1. /\ Horizon \in Nat /\ FirstId \in Nat \ {0} /\ PageSize \in Nat
      /\ \A t \in Tasks : t \in TaskType
  <2>1. ASSUME NEW t \in Tasks PROVE t \in TaskType
    <3>1. t \in [live : BOOLEAN, since : {-1}, challenge : BOOLEAN,
                  flash : Nat \cup {NULL}, ceremony : BOOLEAN]
      BY RecapAssumption DEF RecapAssumption
    <3> QED  BY <3>1 DEF TaskType
  <2> QED  BY <2>1, RecapAssumption DEF RecapAssumption
<1>2. FactsType
  BY <1>1, FS_EmptySet DEF FactsType
<1>3. PanelType
  <2>1. Start \in Rows
    BY <1>1 DEF Start, Rows
  <2>2. <<>> \in Seq(SUBSET Rows) /\ <<>> \in Seq(Rows)
    OBVIOUS
  <2>3. panel \in Panels
    BY <2>1, <2>2 DEF Panels
  <2>4. opened \in Opened
    BY <1>1 DEF Opened
  <2>5. Len(panel.pages) = 0 /\ seen = {} /\ strays = FALSE
    OBVIOUS
  <2>6. \A i \in 1 .. Len(panel.pages) : IsFiniteSet(panel.pages[i])
    BY <2>5
  <2> QED  BY <2>3, <2>4, <2>5, <2>6 DEF PanelType
<1>4. IdsAreFresh
  BY <1>1 DEF IdsAreFresh
<1>5. FirstPageOffers /\ FirstPageIsNewest /\ OneIsAsked /\ CursorIsTheEnd
      /\ OpeningReadsWhatItShows /\ HostsAreHeard
  BY DEF FirstPageOffers, FirstPageIsNewest, OneIsAsked, CursorIsTheEnd,
         OpeningReadsWhatItShows, HostsAreHeard
<1> QED  BY <1>2, <1>3, <1>4, <1>5 DEF RecapInv

\* What happens to the guest adds at most one event, with a new id.
EventsGrow ==
    \/ events' = events /\ nextId' \in Nat /\ nextId' >= nextId
    \/ \E p \in Photos, kind \in EventKinds : recordEvent(kind, p)

LEMMA GrowingIsTyped ==
    ASSUME RecapInv, EventsGrow
    PROVE  /\ events \subseteq events' /\ nextId' \in Nat /\ nextId <= nextId'
           /\ \A e \in events' : e \in events \/ (e.id = nextId /\ e.id < nextId')
           /\ events' \in SUBSET Events /\ IsFiniteSet(events')
<1>1. /\ nextId \in Nat /\ events \in SUBSET Events /\ IsFiniteSet(events)
      /\ now \in 0 .. Horizon /\ Horizon \in Nat
  BY RecapAssumption DEF RecapInv, FactsType, RecapAssumption
<1>2. CASE events' = events /\ nextId' \in Nat /\ nextId' >= nextId
  BY <1>1, <1>2
<1>3. ASSUME NEW p \in Photos, NEW kind \in EventKinds, recordEvent(kind, p)
      PROVE  /\ events \subseteq events' /\ nextId' \in Nat /\ nextId <= nextId'
             /\ \A e \in events' : e \in events \/ (e.id = nextId /\ e.id < nextId')
             /\ events' \in SUBSET Events /\ IsFiniteSet(events')
  <2> DEFINE new == [id |-> nextId, at |-> Second(now), photo |-> p, kind |-> kind]
  <2>1. events' = events \cup {new} /\ nextId' = nextId + 1
    BY <1>3 DEF recordEvent
  <2>2. Second(now) \in 0 .. Horizon
    BY <1>1, SecondsPass
  <2>3. new \in Events
    BY <1>1, <2>2 DEF Events
  <2>4. IsFiniteSet(events \cup {new})
    BY <1>1, FS_AddElement
  <2> QED  BY <1>1, <2>1, <2>3, <2>4
<1> QED  BY <1>2, <1>3 DEF EventsGrow

LEMMA ThePanelRests ==
    ASSUME RecapInv, EventsGrow, UNCHANGED <<checkpoint, client>>
    PROVE  /\ PanelType' /\ IdsAreFresh' /\ FirstPageOffers' /\ FirstPageIsNewest'
           /\ OneIsAsked' /\ CursorIsTheEnd' /\ OpeningReadsWhatItShows'
<1>1. /\ panel' = panel /\ seen' = seen /\ offered' = offered /\ opened' = opened
      /\ strays' = strays /\ checkpoint' = checkpoint
  BY DEF client
<1>2. /\ events \subseteq events' /\ nextId' \in Nat /\ nextId <= nextId' /\ nextId \in Nat
      /\ \A e \in events' : e \in events \/ (e.id = nextId /\ e.id < nextId')
      /\ \A e \in events : e.id \in Nat
  BY GrowingIsTyped DEF RecapInv, FactsType, Events
<1>3. PanelType'
  BY <1>1 DEF RecapInv, PanelType
<1>4. /\ panel.pages # <<>> => panel.last < nextId /\ panel.last \in Int
      /\ \A s \in seen \cup {opened} : s.last < nextId /\ s.last \in Int
      /\ \A e \in events : e.id < nextId
  BY DEF RecapInv, IdsAreFresh, PanelType, Opened, Panels
<1>5. IdsAreFresh'
  <2>1. \A e \in events' : e.id < nextId'
    BY <1>2, <1>4
  <2>2. panel.pages # <<>> => panel.last < nextId'
    BY <1>2, <1>4
  <2>3. \A s \in seen \cup {opened} : s.last < nextId'
    BY <1>2, <1>4
  <2> QED  BY <1>1, <2>1, <2>2, <2>3 DEF IdsAreFresh
<1>6. /\ panel.pages # <<>> => \A e \in events' : e.id <= panel.last => e \in events
      /\ \A s \in seen \cup {opened} : \A e \in events' : e.id <= s.last => e \in events
  BY <1>2, <1>4
<1>7. FirstPageOffers'
  BY <1>1, <1>6 DEF RecapInv, FirstPageOffers
<1>8. FirstPageIsNewest' /\ CursorIsTheEnd'
  BY <1>1, <1>6 DEF RecapInv, FirstPageIsNewest, CursorIsTheEnd, EventRowOf
<1>9. OneIsAsked'
  BY <1>1 DEF RecapInv, OneIsAsked
<1>10. OpeningReadsWhatItShows'
  <2>1. ASSUME NEW e \in events', e.at <= checkpoint, e.id \notin offered
        PROVE  opened.more \/ e.id > opened.last
    <3>1. CASE e \in events
      BY <2>1, <3>1 DEF RecapInv, OpeningReadsWhatItShows
    <3>2. CASE e \notin events
      BY <1>2, <1>4, <3>2
    <3> QED  BY <3>1, <3>2
  <2> QED  BY <1>1, <2>1 DEF OpeningReadsWhatItShows
<1> QED  BY <1>3, <1>5, <1>7, <1>8, <1>9, <1>10

\* What the host's last word on a photo was, after one more event.
LEMMA TheHostIsHeard ==
    ASSUME RecapInv, EventsGrow,
           \A p \in Photos : hidden'[p] = hidden[p] \/ hidden'[p] = "admin" \/ hidden[p] = NULL
                \/ \E kind \in EventKinds \ {"photo_takedown"} : recordEvent(kind, p) /\ kind = "photo_restore",
           \A p \in Photos : recordEvent("photo_takedown", p) => hidden'[p] = "admin"
    PROVE  HostsAreHeard'
<1>1. SUFFICES ASSUME NEW p \in Photos, NEW e \in events', e.photo = p, e.kind = "photo_takedown",
                      \A f \in events' : f.photo = p /\ f.kind \in {"photo_takedown", "photo_restore"}
                            => f.id <= e.id
               PROVE  hidden'[p] = "admin"
  BY DEF HostsAreHeard
<1>2. /\ events \subseteq events' /\ \A f \in events : f.id < nextId /\ f.id \in Nat
      /\ nextId \in Nat /\ NULL # "admin"
  BY GrowingIsTyped, RecapAssumption DEF RecapInv, FactsType, Events, IdsAreFresh, RecapAssumption
<1>3. CASE e \in events
  <2>1. hidden[p] = "admin"
    BY <1>1, <1>2, <1>3 DEF RecapInv, HostsAreHeard
  <2>2. ASSUME NEW kind \in EventKinds, recordEvent(kind, p), kind = "photo_restore" PROVE FALSE
    <3>1. [id |-> nextId, at |-> Second(now), photo |-> p, kind |-> kind] \in events'
      BY <2>2 DEF recordEvent
    <3>2. nextId <= e.id
      BY <1>1, <2>2, <3>1
    <3> QED  BY <1>2, <1>3, <3>2
  <2> QED  BY <1>2, <2>1, <2>2
<1>4. CASE e \notin events
  <2>1. PICK q \in Photos, kind \in EventKinds : recordEvent(kind, q)
    BY <1>4 DEF EventsGrow
  <2>2. e = [id |-> nextId, at |-> Second(now), photo |-> q, kind |-> kind]
    BY <1>4, <2>1 DEF recordEvent
  <2>3. q = p /\ kind = "photo_takedown"
    BY <1>1, <2>2
  <2> QED  BY <2>1, <2>3
<1> QED  BY <1>3, <1>4

\* A step that leaves the panel and the photos alone.
LEMMA OnlyFacts ==
    ASSUME RecapInv, EventsGrow, hidden' = hidden, UNCHANGED <<checkpoint, client>>,
           ~(\E p \in Photos : recordEvent("photo_takedown", p)), FactsType'
    PROVE  RecapInv'
<1>1. HostsAreHeard'
  BY TheHostIsHeard
<1> QED  BY <1>1, ThePanelRests DEF RecapInv

\* A step that records no event tells nothing.
LEMMA NothingIsTold ==
    ASSUME RecapInv, events' = events
    PROVE  ~(\E q \in Photos : recordEvent("photo_takedown", q))
<1>1. nextId \in Nat /\ \A e \in events : e.id < nextId
  BY DEF RecapInv, IdsAreFresh, FactsType
<1>2. SUFFICES ASSUME NEW q \in Photos, recordEvent("photo_takedown", q) PROVE FALSE
  OBVIOUS
<1>3. [id |-> nextId, at |-> Second(now), photo |-> q, kind |-> "photo_takedown"] \in events'
  BY <1>2 DEF recordEvent
<1> QED  BY <1>1, <1>3

\* An event that is recorded is the one that is told.
LEMMA OneIsTold ==
    ASSUME RecapInv, NEW kind, NEW p, recordEvent(kind, p),
           NEW q, NEW other, recordEvent(other, q)
    PROVE  kind = other /\ p = q
<1> DEFINE new(k, r) == [id |-> nextId, at |-> Second(now), photo |-> r, kind |-> k]
<1>1. new(other, q) \in events' /\ events' = events \cup {new(kind, p)}
  BY DEF recordEvent
<1>2. new(other, q) \notin events
  BY DEF RecapInv, IdsAreFresh, FactsType
<1>3. new(other, q) = new(kind, p)
  BY <1>1, <1>2
<1>4. new(other, q).kind = new(kind, p).kind /\ new(other, q).photo = new(kind, p).photo
  <2> HIDE DEF new
  <2> QED  BY <1>3
<1> QED  BY <1>4

LEMMA TickKeeps ==
    ASSUME RecapInv, Tick
    PROVE  RecapInv'
<1> USE DEF Tick
<1>1. EventsGrow /\ ~(\E p \in Photos : recordEvent("photo_takedown", p))
  BY NothingIsTold DEF EventsGrow, RecapInv, FactsType
<1>2. FactsType'
  BY RecapAssumption DEF RecapInv, FactsType, RecapAssumption
<1> QED  BY <1>1, <1>2, OnlyFacts

LEMMA RecordKeeps ==
    ASSUME RecapInv, NEW p \in Photos, NEW kind \in Kinds, RecordEvent(kind, p)
    PROVE  RecapInv'
<1>1. recordEvent(kind, p) /\ kind \in EventKinds /\ kind # "photo_takedown"
  BY RecapAssumption DEF RecordEvent, EventKinds, RecapAssumption
<1>2. EventsGrow
  BY <1>1 DEF EventsGrow
<1>3. ~(\E q \in Photos : recordEvent("photo_takedown", q))
  <2>1. SUFFICES ASSUME NEW q \in Photos, recordEvent("photo_takedown", q) PROVE FALSE
    OBVIOUS
  <2> QED  BY <1>1, <2>1, OneIsTold
<1>4. FactsType'
  BY <1>2, GrowingIsTyped DEF RecapInv, FactsType, RecordEvent
<1> QED  BY <1>2, <1>3, <1>4, OnlyFacts DEF RecordEvent

LEMMA LikeKeeps ==
    ASSUME RecapInv, NEW by \in Others, NEW p \in Photos, Like(by, p)
    PROVE  RecapInv'
<1>1. EventsGrow /\ ~(\E q \in Photos : recordEvent("photo_takedown", q))
  <2>1. events' = events /\ (nextId' = nextId \/ nextId' = nextId + 1) /\ nextId \in Nat
    BY DEF Like, RecapInv, FactsType
  <2> QED  BY <2>1, NothingIsTold DEF EventsGrow
<1>2. likes' \in SUBSET Likes /\ IsFiniteSet(likes')
  <2> DEFINE new == [id |-> nextId, by |-> by, photo |-> p, at |-> Second(now)]
             mine == {l \in likes : l.by = by /\ l.photo = p}
  <2>1. likes \in SUBSET Likes /\ IsFiniteSet(likes) /\ nextId \in Nat /\ now \in 0 .. Horizon /\ Horizon \in Nat
    BY RecapAssumption DEF RecapInv, FactsType, RecapAssumption
  <2>2. Second(now) \in 0 .. Horizon
    BY <2>1, SecondsPass
  <2>3. new \in Likes
    BY <2>1, <2>2 DEF Likes
  <2>4. likes' = likes \ mine \/ likes' = likes \cup {new}
    BY DEF Like
  <2>5. IsFiniteSet(likes \ mine) /\ IsFiniteSet(likes \cup {new})
    BY <2>1, FS_Subset, FS_AddElement
  <2> HIDE DEF new, mine
  <2> QED  BY <2>1, <2>3, <2>4, <2>5
<1>3. nextId' \in Nat /\ UNCHANGED <<now, hidden, events, comments, task, checkpoint>>
  BY DEF RecapInv, FactsType, Like
<1>4. FactsType'
  BY <1>2, <1>3 DEF RecapInv, FactsType
<1> QED  BY <1>1, <1>4, OnlyFacts DEF Like

LEMMA CommentKeeps ==
    ASSUME RecapInv, NEW p \in Photos, Comment(p)
    PROVE  RecapInv'
<1>1. EventsGrow /\ ~(\E q \in Photos : recordEvent("photo_takedown", q))
  <2>1. events' = events /\ (nextId' = nextId \/ nextId' = nextId + 1) /\ nextId \in Nat
    BY DEF Comment, RecapInv, FactsType
  <2> QED  BY <2>1, NothingIsTold DEF EventsGrow
<1>2. comments' \in SUBSET Comments /\ IsFiniteSet(comments')
  <2> DEFINE new == [id |-> nextId, photo |-> p, at |-> Second(now), down |-> FALSE]
  <2>1. comments \in SUBSET Comments /\ IsFiniteSet(comments) /\ nextId \in Nat /\ now \in 0 .. Horizon /\ Horizon \in Nat
    BY RecapAssumption DEF RecapInv, FactsType, RecapAssumption
  <2>2. Second(now) \in 0 .. Horizon
    BY <2>1, SecondsPass
  <2>3. new \in Comments
    BY <2>1, <2>2 DEF Comments
  <2>4. comments' = comments \cup {new}
    BY DEF Comment
  <2>5. IsFiniteSet(comments \cup {new})
    BY <2>1, FS_AddElement
  <2> HIDE DEF new
  <2> QED  BY <2>1, <2>3, <2>4, <2>5
<1>3. nextId' \in Nat /\ UNCHANGED <<now, hidden, events, likes, task, checkpoint>>
  BY DEF RecapInv, FactsType, Comment
<1>4. FactsType'
  BY <1>2, <1>3 DEF RecapInv, FactsType
<1> QED  BY <1>1, <1>4, OnlyFacts DEF Comment

LEMMA DeleteCommentKeeps ==
    ASSUME RecapInv, NEW c \in comments, DeleteComment(c)
    PROVE  RecapInv'
<1>1. EventsGrow /\ ~(\E q \in Photos : recordEvent("photo_takedown", q))
  BY NothingIsTold DEF EventsGrow, RecapInv, FactsType, DeleteComment
<1>2. comments' \in SUBSET Comments /\ IsFiniteSet(comments')
  BY FS_RemoveElement DEF RecapInv, FactsType, DeleteComment
<1>3. FactsType'
  BY <1>2 DEF RecapInv, FactsType, DeleteComment
<1> QED  BY <1>1, <1>3, OnlyFacts DEF DeleteComment

LEMMA moderateCommentKeeps ==
    ASSUME RecapInv, NEW c \in comments, NEW down \in BOOLEAN, moderateComment(c, down)
    PROVE  RecapInv'
<1> DEFINE kind == IF down THEN "comment_hidden" ELSE "comment_restored"
<1>1. \/ recordEvent(kind, c.photo) \/ UNCHANGED <<events, nextId>>
  BY DEF moderateComment
<1>2. c \in Comments /\ c.photo \in Photos /\ kind \in EventKinds /\ kind # "photo_takedown"
  BY DEF RecapInv, FactsType, Comments, EventKinds
<1>3. EventsGrow
  BY <1>1, <1>2 DEF EventsGrow, RecapInv, FactsType
<1>4. ~(\E q \in Photos : recordEvent("photo_takedown", q))
  <2>1. SUFFICES ASSUME NEW q \in Photos, recordEvent("photo_takedown", q) PROVE FALSE
    OBVIOUS
  <2>2. CASE recordEvent(kind, c.photo)
    <3> HIDE DEF kind
    <3> QED  BY <1>2, <2>1, <2>2, OneIsTold
  <2>3. CASE UNCHANGED <<events, nextId>>
    BY <2>1, <2>3, NothingIsTold
  <2> QED  BY <1>1, <2>2, <2>3
<1>5. comments' \in SUBSET Comments /\ IsFiniteSet(comments')
  <2> DEFINE new == [c EXCEPT !.down = down]
  <2>1. comments' = (comments \ {c}) \cup {new}
    BY DEF moderateComment
  <2>2. new \in Comments
    BY <1>2 DEF Comments
  <2>3. IsFiniteSet((comments \ {c}) \cup {new})
    BY FS_RemoveElement, FS_AddElement DEF RecapInv, FactsType
  <2> HIDE DEF new
  <2> QED  BY <2>1, <2>2, <2>3 DEF RecapInv, FactsType
<1>6. FactsType'
  BY <1>3, <1>5, GrowingIsTyped DEF RecapInv, FactsType, moderateComment
<1> QED  BY <1>3, <1>4, <1>6, OnlyFacts DEF moderateComment

LEMMA moderatePhotoKeeps ==
    ASSUME RecapInv, NEW p \in Photos, NEW down \in BOOLEAN, moderatePhoto(p, down)
    PROVE  RecapInv'
<1> DEFINE kind == IF down THEN "photo_takedown" ELSE "photo_restore"
<1>1. recordEvent(kind, p) \/ (UNCHANGED <<events, nextId>> /\ (~down => hidden[p] = NULL))
  <2>1. CASE (hidden[p] # NULL) # down
    BY <2>1 DEF moderatePhoto
  <2>2. CASE ~((hidden[p] # NULL) # down)
    <3>1. ~down => hidden[p] = NULL
      BY <2>2
    <3> QED  BY <2>2, <3>1 DEF moderatePhoto
  <2> QED  BY <2>1, <2>2
<1>2. hidden' = [hidden EXCEPT ![p] = IF down THEN "admin" ELSE NULL]
  BY DEF moderatePhoto
<1>3. kind \in EventKinds /\ hidden \in [Photos -> {NULL, "guest", "admin"}]
  BY DEF EventKinds, RecapInv, FactsType
<1>4. EventsGrow
  <2> HIDE DEF kind
  <2> QED  BY <1>1, <1>3 DEF EventsGrow, RecapInv, FactsType
<1>5. HostsAreHeard'
  <2>1. ASSUME NEW q \in Photos
        PROVE  \/ hidden'[q] = hidden[q] \/ hidden'[q] = "admin" \/ hidden[q] = NULL
               \/ \E k \in EventKinds \ {"photo_takedown"} : recordEvent(k, q) /\ k = "photo_restore"
    <3>1. CASE q # p
      BY <1>2, <1>3, <3>1
    <3>2. CASE q = p /\ down
      BY <1>2, <1>3, <3>2
    <3>3. CASE q = p /\ ~down
      <4>1. recordEvent("photo_restore", q) \/ hidden[q] = NULL
        BY <1>1, <3>3
      <4> QED  BY <4>1 DEF EventKinds
    <3> QED  BY <3>1, <3>2, <3>3
  <2>2. ASSUME NEW q \in Photos, recordEvent("photo_takedown", q) PROVE hidden'[q] = "admin"
    <3>1. recordEvent(kind, p)
      BY <1>1, <2>2, NothingIsTold
    <3>2. kind = "photo_takedown" /\ p = q
      <4> HIDE DEF kind
      <4> QED  BY <2>2, <3>1, OneIsTold
    <3>3. down
      BY <3>2
    <3> QED  BY <1>2, <1>3, <3>2, <3>3
  <2> QED  BY <1>4, <2>1, <2>2, TheHostIsHeard
<1>6. FactsType'
  <2>1. hidden' \in [Photos -> {NULL, "guest", "admin"}]
    BY <1>2, <1>3
  <2> QED  BY <1>4, <2>1, GrowingIsTyped DEF RecapInv, FactsType, moderatePhoto
<1> QED  BY <1>4, <1>5, <1>6, ThePanelRests DEF RecapInv, moderatePhoto

LEMMA HideOwnKeeps ==
    ASSUME RecapInv, NEW p \in Photos, HideOwn(p)
    PROVE  RecapInv'
<1>1. EventsGrow /\ ~(\E q \in Photos : recordEvent("photo_takedown", q))
  BY NothingIsTold DEF EventsGrow, RecapInv, FactsType, HideOwn
<1>2. /\ hidden[p] = NULL /\ hidden' = [hidden EXCEPT ![p] = "guest"]
      /\ hidden \in [Photos -> {NULL, "guest", "admin"}]
  BY DEF HideOwn, RecapInv, FactsType
<1>3. HostsAreHeard'
  <2>1. \A q \in Photos : hidden'[q] = hidden[q] \/ hidden[q] = NULL
    BY <1>2
  <2> QED  BY <1>1, <2>1, TheHostIsHeard
<1>4. FactsType'
  <2>1. hidden' \in [Photos -> {NULL, "guest", "admin"}]
    BY <1>2
  <2> QED  BY <2>1 DEF RecapInv, FactsType, HideOwn
<1> QED  BY <1>1, <1>3, <1>4, ThePanelRests DEF RecapInv, HideOwn

LEMMA ToggleTaskKeeps ==
    ASSUME RecapInv, ToggleTask
    PROVE  RecapInv'
<1>1. EventsGrow /\ ~(\E q \in Photos : recordEvent("photo_takedown", q))
  BY NothingIsTold DEF EventsGrow, RecapInv, FactsType, ToggleTask
<1>2. task' \in TaskType
  <2>1. now \in Nat /\ Second(now) \in Int
    BY SecondsPass, RecapAssumption DEF RecapInv, FactsType, RecapAssumption
  <2> QED  BY <2>1 DEF ToggleTask, TaskType, RecapInv, FactsType
<1>3. FactsType'
  BY <1>2 DEF RecapInv, FactsType, ToggleTask
<1> QED  BY <1>1, <1>3, OnlyFacts DEF ToggleTask

\* The panel's own steps leave what happened to the guest alone.
LEMMA ServerRests ==
    ASSUME RecapInv, UNCHANGED server, checkpoint' \in 0 .. Horizon
    PROVE  FactsType' /\ HostsAreHeard'
  BY DEF server, RecapInv, FactsType, HostsAreHeard

\* A page that is shown offers its events, and takes no offer back.
LEMMA ShownIsOffered ==
    ASSUME NEW page, Shows(page)
    PROVE  /\ offered \subseteq offered'
           /\ \A e \in events : EventRowOf(e) \in page => e.id \in offered'
  BY DEF Shows, EventRowOf

LEMMA RenderKeeps ==
    ASSUME RecapInv, Render
    PROVE  RecapInv'
<1> DEFINE first == getRecap(Start)
<1>1. /\ panel'.pages = <<first.rows>> /\ panel'.cursor = LastOf(first.rows, NULL)
      /\ panel'.more = first.more /\ panel'.busy = FALSE /\ panel'.asked = <<>>
      /\ panel'.open = FALSE /\ panel'.last = nextId - 1 /\ panel'.hasMore = first.more
  BY DEF Render
<1>2. /\ events' = events /\ nextId' = nextId /\ checkpoint' = checkpoint /\ seen' = seen
      /\ opened' = opened /\ strays' = FALSE /\ UNCHANGED server /\ Shows(first.rows)
  BY DEF Render, server
<1>3. /\ FactsType /\ nextId \in Nat /\ checkpoint \in 0 .. Horizon
      /\ \A e \in events : e.id \in Nat /\ e.id < nextId
  BY DEF RecapInv, FactsType, Events, IdsAreFresh
<1>4. /\ first.rows \in SUBSET Rows /\ IsFiniteSet(first.rows) /\ first.more \in BOOLEAN
  BY <1>3, PagesAreRows
<1>5. /\ offered \subseteq offered'
      /\ \A e \in events : EventRowOf(e) \in first.rows => e.id \in offered'
  BY <1>2, ShownIsOffered
<1>6. ASSUME NEW e \in events
      PROVE  \/ EventRowOf(e) \in first.rows
             \/ /\ first.more /\ first.rows # {}
                /\ \A r \in first.rows : Older(EventRowOf(e), r)
  BY <1>3, EventsHaveRows, EventsAreNotSkipped
<1>7. first.rows # {} =>
        /\ LastOf(first.rows, NULL) \in first.rows
        /\ \A s \in first.rows : s = LastOf(first.rows, NULL) \/ Older(LastOf(first.rows, NULL), s)
  BY <1>4, LastIsOldest
<1>8. panel' = [pages |-> <<first.rows>>, cursor |-> LastOf(first.rows, NULL), more |-> first.more,
                busy |-> FALSE, asked |-> <<>>, open |-> FALSE, last |-> nextId - 1,
                hasMore |-> first.more]
  BY DEF Render
<1> HIDE DEF first
<1>9. PanelType'
  <2>1. LastOf(first.rows, NULL) \in Rows \cup {NULL}
    BY <1>4, <1>7 DEF LastOf
  <2>2. <<first.rows>> \in Seq(SUBSET Rows) /\ <<>> \in Seq(Rows) /\ nextId - 1 \in Int
    BY <1>3, <1>4
  <2>3. panel' \in Panels
    BY <1>4, <1>8, <2>1, <2>2 DEF Panels
  <2>4. \A i \in 1 .. Len(panel'.pages) : IsFiniteSet(panel'.pages[i])
    BY <1>1, <1>4
  <2> QED  BY <1>2, <2>3, <2>4 DEF PanelType, RecapInv
<1>10. IdsAreFresh'
  BY <1>1, <1>2, <1>3 DEF RecapInv, IdsAreFresh
<1>11. FirstPageOffers'
  BY <1>1, <1>2, <1>5, <1>6 DEF RecapInv, FirstPageOffers
<1>12. FirstPageIsNewest'
  BY <1>1, <1>2, <1>6 DEF FirstPageIsNewest, EventRowOf
<1>13. OneIsAsked'
  BY <1>1, <1>2 DEF OneIsAsked
<1>14. CursorIsTheEnd'
  <2>1. Len(panel'.pages) = 1 /\ panel'.pages[1] = first.rows
    BY <1>1
  <2>2. \A i \in 1 .. 1 : \A r \in panel'.pages[i] : r = panel'.cursor \/ Older(panel'.cursor, r)
    BY <1>1, <1>7, <2>1
  <2>3. ASSUME NEW e \in events
        PROVE  \/ \E i \in 1 .. 1 : EventRowOf(e) \in panel'.pages[i]
               \/ panel'.more /\ panel'.cursor \in Rows /\ Older(EventRowOf(e), panel'.cursor)
    <3>1. CASE EventRowOf(e) \in first.rows
      BY <2>1, <3>1
    <3>2. CASE EventRowOf(e) \notin first.rows
      BY <1>1, <1>4, <1>6, <1>7, <3>2
    <3> QED  BY <3>1, <3>2
  <2> QED  BY <1>2, <2>1, <2>2, <2>3 DEF CursorIsTheEnd, EventRowOf
<1>15. OpeningReadsWhatItShows'
  BY <1>2, <1>5 DEF RecapInv, OpeningReadsWhatItShows
<1> QED  BY <1>2, <1>3, <1>9, <1>10, <1>11, <1>12, <1>13, <1>14, <1>15, ServerRests DEF RecapInv

LEMMA OpenKeeps ==
    ASSUME RecapInv, Open
    PROVE  RecapInv'
<1>1. /\ panel.pages # <<>> /\ panel' = [panel EXCEPT !.open = TRUE] /\ panel \in Panels
      /\ seen' = seen \cup {[last |-> panel.last, more |-> panel.hasMore]}
      /\ UNCHANGED <<server, checkpoint, offered, opened, strays, events, nextId>>
  BY DEF Open, server, RecapInv, PanelType
<1>2. /\ panel'.pages = panel.pages /\ panel'.cursor = panel.cursor /\ panel'.more = panel.more
      /\ panel'.busy = panel.busy /\ panel'.asked = panel.asked /\ panel'.last = panel.last
      /\ panel'.hasMore = panel.hasMore
  BY <1>1 DEF Panels
<1>3. PanelType'
  <2>1. panel' \in Panels
    BY <1>1 DEF Panels
  <2>2. [last |-> panel.last, more |-> panel.hasMore] \in Opened
    BY <1>1 DEF Panels, Opened
  <2> QED  BY <1>1, <1>2, <2>1, <2>2 DEF RecapInv, PanelType
<1>4. IdsAreFresh' /\ FirstPageOffers'
  BY <1>1, <1>2 DEF RecapInv, IdsAreFresh, FirstPageOffers
<1>5. FirstPageIsNewest' /\ OneIsAsked' /\ CursorIsTheEnd' /\ OpeningReadsWhatItShows'
  BY <1>1, <1>2 DEF RecapInv, FirstPageIsNewest, OneIsAsked, CursorIsTheEnd, EventRowOf,
                    OpeningReadsWhatItShows
<1> QED  BY <1>1, <1>3, <1>4, <1>5, ServerRests DEF RecapInv, FactsType

LEMMA SeenKeeps ==
    ASSUME RecapInv, NEW s \in seen, markSeen(s) \/ LoseSeen(s)
    PROVE  RecapInv'
<1>1. /\ UNCHANGED <<server, panel, offered, strays, events, nextId>> /\ seen' = seen \ {s}
      /\ (checkpoint' = Second(now) /\ opened' = s) \/ UNCHANGED <<checkpoint, opened>>
  BY DEF markSeen, LoseSeen, server
<1>2. checkpoint' \in 0 .. Horizon
  <2>1. now \in 0 .. Horizon /\ Horizon \in Nat /\ checkpoint \in 0 .. Horizon
    BY RecapAssumption DEF RecapInv, FactsType, RecapAssumption
  <2>2. Second(now) \in 0 .. Horizon
    BY <2>1, SecondsPass
  <2> QED  BY <1>1, <2>1, <2>2
<1>3. PanelType'
  BY <1>1 DEF RecapInv, PanelType
<1>4. IdsAreFresh' /\ FirstPageOffers'
  BY <1>1 DEF RecapInv, IdsAreFresh, FirstPageOffers
<1>5. FirstPageIsNewest' /\ OneIsAsked' /\ CursorIsTheEnd'
  BY <1>1 DEF RecapInv, FirstPageIsNewest, OneIsAsked, CursorIsTheEnd, EventRowOf
<1>6. OpeningReadsWhatItShows'
  <2>1. CASE UNCHANGED <<checkpoint, opened>>
    BY <1>1, <2>1 DEF RecapInv, OpeningReadsWhatItShows
  <2>2. CASE opened' = s
    <3>1. \A e \in events : e.id \in Nat /\ s.last \in Int
      BY DEF RecapInv, FactsType, PanelType, Events, Opened
    <3>2. ~s.more => \A e \in events : e.id <= s.last => e.id \in offered
      BY DEF RecapInv, FirstPageOffers
    <3> QED  BY <1>1, <2>2, <3>1, <3>2 DEF OpeningReadsWhatItShows
  <2> QED  BY <1>1, <2>1, <2>2
<1> QED  BY <1>1, <1>2, <1>3, <1>4, <1>5, <1>6, ServerRests DEF RecapInv

LEMMA LoadMoreKeeps ==
    ASSUME RecapInv, LoadMore
    PROVE  RecapInv'
<1>1. /\ panel.open /\ ~panel.busy /\ panel.cursor # NULL /\ panel \in Panels /\ panel.asked \in Seq(Rows)
      /\ panel.cursor \in Rows \cup {NULL}
      /\ panel' = [panel EXCEPT !.busy = TRUE, !.asked = Append(panel.asked, panel.cursor)]
      /\ UNCHANGED <<server, checkpoint, seen, offered, opened, strays, events, nextId>>
  BY DEF LoadMore, server, RecapInv, PanelType, Panels
<1>2. /\ panel'.pages = panel.pages /\ panel'.cursor = panel.cursor /\ panel'.more = panel.more
      /\ panel'.busy = TRUE /\ panel'.asked = Append(panel.asked, panel.cursor)
      /\ panel'.open = panel.open /\ panel'.last = panel.last /\ panel'.hasMore = panel.hasMore
  BY <1>1 DEF Panels
<1>3. PanelType'
  <2>1. Append(panel.asked, panel.cursor) \in Seq(Rows)
    BY <1>1, AppendProperties
  <2>2. panel' \in Panels
    BY <1>1, <2>1 DEF Panels
  <2> QED  BY <1>1, <1>2, <2>2 DEF RecapInv, PanelType
<1>4. IdsAreFresh' /\ FirstPageOffers'
  BY <1>1, <1>2 DEF RecapInv, IdsAreFresh, FirstPageOffers
<1>5. FirstPageIsNewest' /\ CursorIsTheEnd' /\ OpeningReadsWhatItShows'
  BY <1>1, <1>2 DEF RecapInv, FirstPageIsNewest, CursorIsTheEnd, EventRowOf, OpeningReadsWhatItShows
<1>6. OneIsAsked'
  <2>1. panel.pages # <<>> /\ (~strays => panel.asked = <<>>)
    BY <1>1 DEF RecapInv, OneIsAsked
  <2>2. Append(<<>>, panel.cursor) = <<panel.cursor>>
    OBVIOUS
  <2> QED  BY <1>1, <1>2, <2>1, <2>2 DEF OneIsAsked
<1> QED  BY <1>1, <1>3, <1>4, <1>5, <1>6, ServerRests DEF RecapInv, FactsType

LEMMA WithoutOne ==
    ASSUME NEW s \in Seq(Rows), NEW i \in 1 .. Len(s)
    PROVE  Without(s, i) \in Seq(Rows) /\ (Len(s) = 1 => Without(s, i) = <<>>)
<1>1. Len(s) \in Nat
  OBVIOUS
<1>2. SubSeq(s, 1, i - 1) \in Seq(Rows) /\ Len(SubSeq(s, 1, i - 1)) = i - 1
  BY <1>1, SubSeqProperties
<1>3. SubSeq(s, i + 1, Len(s)) \in Seq(Rows) /\ Len(SubSeq(s, i + 1, Len(s))) = Len(s) - i
  BY <1>1, SubSeqProperties
<1>4. /\ Without(s, i) \in Seq(Rows) /\ Len(Without(s, i)) = i - 1 + (Len(s) - i)
  <2> DEFINE a == SubSeq(s, 1, i - 1)
             b == SubSeq(s, i + 1, Len(s))
  <2>1. Without(s, i) = a \o b
    BY DEF Without
  <2> HIDE DEF a, b
  <2>2. a \in Seq(Rows) /\ b \in Seq(Rows) /\ Len(a) = i - 1 /\ Len(b) = Len(s) - i
    BY <1>2, <1>3 DEF a, b
  <2>3. a \o b \in Seq(Rows) /\ Len(a \o b) = Len(a) + Len(b)
    BY <2>2, ConcatProperties
  <2> QED  BY <2>1, <2>2, <2>3
<1>5. Len(s) = 1 => Len(Without(s, i)) = 0
  BY <1>1, <1>4
<1> QED  BY <1>4, <1>5, EmptySeq

LEMMA MoreFailsKeeps ==
    ASSUME RecapInv, NEW i \in 1 .. 2, MoreFails(i)
    PROVE  RecapInv'
<1>1. /\ i \in 1 .. Len(panel.asked) /\ panel \in Panels /\ panel.asked \in Seq(Rows)
      /\ panel' = [panel EXCEPT !.busy = FALSE, !.asked = Without(panel.asked, i)]
      /\ UNCHANGED <<server, checkpoint, seen, offered, opened, strays, events, nextId>>
  BY DEF MoreFails, server, RecapInv, PanelType, Panels
<1>2. /\ panel'.pages = panel.pages /\ panel'.cursor = panel.cursor /\ panel'.more = panel.more
      /\ panel'.busy = FALSE /\ panel'.asked = Without(panel.asked, i)
      /\ panel'.last = panel.last /\ panel'.hasMore = panel.hasMore
  BY <1>1 DEF Panels
<1>3. Without(panel.asked, i) \in Seq(Rows) /\ (Len(panel.asked) = 1 => Without(panel.asked, i) = <<>>)
  BY <1>1, WithoutOne
<1>4. PanelType'
  <2>1. panel' \in Panels
    BY <1>1, <1>3 DEF Panels
  <2> QED  BY <1>1, <1>2, <2>1 DEF RecapInv, PanelType
<1>5. IdsAreFresh' /\ FirstPageOffers'
  BY <1>1, <1>2 DEF RecapInv, IdsAreFresh, FirstPageOffers
<1>6. FirstPageIsNewest' /\ CursorIsTheEnd' /\ OpeningReadsWhatItShows'
  BY <1>1, <1>2 DEF RecapInv, FirstPageIsNewest, CursorIsTheEnd, EventRowOf, OpeningReadsWhatItShows
<1>7. OneIsAsked'
  <2>1. panel.asked # <<>>
    BY <1>1
  <2>2. panel.pages # <<>> /\ (~strays => panel.asked = <<panel.cursor>>)
    BY <2>1 DEF RecapInv, OneIsAsked
  <2>3. ~strays => Len(panel.asked) = 1
    <3>1. Len(<<panel.cursor>>) = 1
      OBVIOUS
    <3> QED  BY <2>2, <3>1
  <2> QED  BY <1>1, <1>2, <1>3, <2>2, <2>3 DEF OneIsAsked
<1> QED  BY <1>1, <1>4, <1>5, <1>6, <1>7, ServerRests DEF RecapInv, FactsType

LEMMA CloseKeeps ==
    ASSUME RecapInv, Close
    PROVE  RecapInv'
<1> DEFINE page == panel.pages[1]
<1>1. /\ panel.open /\ panel \in Panels /\ panel.pages \in Seq(SUBSET Rows)
      /\ panel' = [panel EXCEPT !.open = FALSE, !.busy = FALSE, !.pages = <<page>>,
                                !.cursor = LastOf(page, NULL), !.more = panel.hasMore]
      /\ strays' = (strays \/ panel.asked # <<>>)
      /\ UNCHANGED <<server, checkpoint, seen, offered, opened, events, nextId>>
  BY DEF Close, server, RecapInv, PanelType, Panels
<1>2. panel.pages # <<>>
  BY <1>1 DEF RecapInv, OneIsAsked
<1>3. page \in SUBSET Rows /\ IsFiniteSet(page)
  <2>1. 1 \in 1 .. Len(panel.pages)
    BY <1>1, <1>2
  <2> QED  BY <1>1, <2>1 DEF RecapInv, PanelType
<1>4. page # {} =>
        /\ LastOf(page, NULL) \in page
        /\ \A s \in page : s = LastOf(page, NULL) \/ Older(LastOf(page, NULL), s)
  BY <1>3, LastIsOldest
<1> HIDE DEF page
<1>5. /\ panel'.pages = <<page>> /\ panel'.cursor = LastOf(page, NULL) /\ panel'.more = panel.hasMore
      /\ panel'.busy = FALSE /\ panel'.open = FALSE /\ panel'.asked = panel.asked
      /\ panel'.last = panel.last /\ panel'.hasMore = panel.hasMore
  BY <1>1 DEF Panels
<1>6. PanelType'
  <2>1. LastOf(page, NULL) \in Rows \cup {NULL}
    BY <1>3, <1>4 DEF LastOf
  <2>2. <<page>> \in Seq(SUBSET Rows)
    BY <1>3
  <2>3. panel' \in Panels
    BY <1>1, <2>1, <2>2 DEF Panels
  <2>4. \A i \in 1 .. Len(panel'.pages) : IsFiniteSet(panel'.pages[i])
    BY <1>3, <1>5
  <2>5. strays' \in BOOLEAN
    BY <1>1
  <2> QED  BY <1>1, <2>3, <2>4, <2>5 DEF RecapInv, PanelType
<1>7. IdsAreFresh' /\ FirstPageOffers'
  BY <1>1, <1>2, <1>5 DEF RecapInv, IdsAreFresh, FirstPageOffers
<1>8. ASSUME NEW e \in events, e.id <= panel.last
      PROVE  \/ EventRowOf(e) \in page
             \/ /\ panel.hasMore /\ page # {}
                /\ \A r \in page : Older(EventRowOf(e), r)
  BY <1>2, <1>8 DEF RecapInv, FirstPageIsNewest, page
<1>9. FirstPageIsNewest'
  BY <1>1, <1>5, <1>8 DEF FirstPageIsNewest, EventRowOf
<1>10. OneIsAsked'
  <2>1. ~strays' => panel.asked = <<>>
    BY <1>1
  <2>2. panel'.pages # <<>>
    BY <1>5
  <2> QED  BY <1>5, <2>1, <2>2 DEF OneIsAsked
<1>11. CursorIsTheEnd'
  <2>1. Len(panel'.pages) = 1 /\ panel'.pages[1] = page
    BY <1>5
  <2>2. \A i \in 1 .. 1 : \A r \in panel'.pages[i] : r = panel'.cursor \/ Older(panel'.cursor, r)
    BY <1>4, <1>5, <2>1
  <2>3. ASSUME NEW e \in events, e.id <= panel.last
        PROVE  \/ \E i \in 1 .. 1 : EventRowOf(e) \in panel'.pages[i]
               \/ panel'.more /\ panel'.cursor \in Rows /\ Older(EventRowOf(e), panel'.cursor)
    <3>1. CASE EventRowOf(e) \in page
      BY <2>1, <3>1
    <3>2. CASE EventRowOf(e) \notin page
      BY <1>3, <1>4, <1>5, <1>8, <2>3, <3>2
    <3> QED  BY <3>1, <3>2
  <2> QED  BY <1>1, <1>5, <2>1, <2>2, <2>3 DEF CursorIsTheEnd, EventRowOf
<1>12. OpeningReadsWhatItShows'
  BY <1>1 DEF RecapInv, OpeningReadsWhatItShows
<1> QED  BY <1>1, <1>6, <1>7, <1>9, <1>10, <1>11, <1>12, ServerRests DEF RecapInv, FactsType

\* A page that arrives for the cursor goes on where the list ends.
LEMMA NextPageGoesOn ==
    ASSUME FactsType, PanelType, CursorIsTheEnd, panel.pages # <<>>, ~strays, panel.cursor \in Rows,
           NEW cursor2, cursor2 = LastOf(getRecap(panel.cursor).rows, panel.cursor)
    PROVE  LET page == getRecap(panel.cursor)
               pages == Append(panel.pages, page.rows)
           IN  /\ \A i \in 1 .. Len(pages) : \A r \in pages[i] : r = cursor2 \/ Older(cursor2, r)
               /\ \A i \in 2 .. Len(pages) : \A r \in pages[i - 1], s \in pages[i] : Older(s, r)
               /\ \A e \in events : e.id <= panel.last =>
                        \/ \E i \in 1 .. Len(pages) : EventRowOf(e) \in pages[i]
                        \/ page.more /\ cursor2 \in Rows /\ Older(EventRowOf(e), cursor2)
<1> DEFINE page  == getRecap(panel.cursor)
           pages == Append(panel.pages, page.rows)
           n     == Len(panel.pages)
           c     == panel.cursor
<1>1. /\ page.rows \in SUBSET Rows /\ IsFiniteSet(page.rows) /\ page.more \in BOOLEAN
      /\ \A r \in page.rows : Older(r, c)
  BY PagesAreRows
<1>2. /\ panel.pages \in Seq(SUBSET Rows) /\ n \in Nat /\ n >= 1 /\ Len(pages) = n + 1
      /\ pages[n + 1] = page.rows /\ \A i \in 1 .. n : pages[i] = panel.pages[i] /\ pages[i] \in SUBSET Rows
  <2>1. panel.pages \in Seq(SUBSET Rows)
    BY DEF PanelType, Panels
  <2>2. n \in Nat /\ n >= 1
    BY <2>1
  <2> HIDE DEF page
  <2> QED  BY <1>1, <2>1, <2>2
<1>3. /\ \A i \in 1 .. n : \A r \in panel.pages[i] : r = c \/ Older(c, r)
      /\ \A i \in 2 .. n : \A r \in panel.pages[i - 1], s \in panel.pages[i] : Older(s, r)
      /\ \A e \in events : e.id <= panel.last =>
            \/ \E i \in 1 .. n : EventRowOf(e) \in panel.pages[i]
            \/ panel.more /\ c \in Rows /\ Older(EventRowOf(e), c)
  BY DEF CursorIsTheEnd
<1>4. \A e \in events : EventRowOf(e) \in Rows
  BY EventsHaveRows
<1>5. \/ page.rows = {} /\ cursor2 = c
      \/ /\ page.rows # {} /\ cursor2 \in page.rows /\ Older(cursor2, c)
         /\ \A s \in page.rows : s = cursor2 \/ Older(cursor2, s)
  <2>1. CASE page.rows = {}
    BY <2>1 DEF LastOf
  <2>2. CASE page.rows # {}
    <3> HIDE DEF page
    <3> QED  BY <1>1, <2>2, LastIsOldest DEF page
  <2> QED  BY <2>1, <2>2
<1>6. \A i \in 1 .. n : \A r \in panel.pages[i] : r \in Rows /\ (r = cursor2 \/ Older(cursor2, r))
  <2>1. SUFFICES ASSUME NEW i \in 1 .. n, NEW r \in panel.pages[i]
                 PROVE  r \in Rows /\ (r = cursor2 \/ Older(cursor2, r))
    OBVIOUS
  <2>2. r \in Rows /\ (r = c \/ Older(c, r))
    BY <1>2, <1>3
  <2>3. CASE cursor2 = c
    BY <2>2, <2>3
  <2>4. CASE cursor2 \in Rows /\ Older(cursor2, c)
    BY <2>2, <2>4, OlderIsAnOrder
  <2> HIDE DEF page
  <2> QED  BY <1>1, <1>5, <2>3, <2>4
<1>7. ASSUME NEW i \in 1 .. Len(pages), NEW r \in pages[i]
      PROVE  r = cursor2 \/ Older(cursor2, r)
  <2>1. CASE i \in 1 .. n
    <3> HIDE DEF pages, page, n
    <3> QED  BY <1>2, <1>6, <2>1
  <2>2. CASE i = n + 1
    <3> HIDE DEF pages, page, n
    <3> QED  BY <1>2, <1>5, <2>2
  <2> HIDE DEF pages, n
  <2> QED  BY <1>2, <2>1, <2>2
<1>8. ASSUME NEW i \in 2 .. Len(pages), NEW r \in pages[i - 1], NEW s \in pages[i]
      PROVE  Older(s, r)
  <2>1. CASE i \in 2 .. n
    <3>1. i \in 1 .. n /\ i - 1 \in 1 .. n
      BY <1>2, <2>1
    <3> HIDE DEF pages, page, n
    <3> QED  BY <1>2, <1>3, <2>1, <3>1
  <2>2. CASE i = n + 1
    <3>1. i - 1 \in 1 .. n /\ i - 1 = n
      BY <1>2, <2>2
    <3>2. r \in Rows /\ (r = c \/ Older(c, r))
      <4> HIDE DEF pages, page, n
      <4> QED  BY <1>2, <1>3, <3>1
    <3>3. s \in Rows /\ Older(s, c)
      <4> HIDE DEF pages, page, n
      <4> QED  BY <1>1, <1>2, <2>2
    <3> QED  BY <3>2, <3>3, OlderIsAnOrder
  <2> HIDE DEF pages, n
  <2> QED  BY <1>2, <2>1, <2>2
<1>9. ASSUME NEW e \in events, e.id <= panel.last
      PROVE  \/ \E i \in 1 .. Len(pages) : EventRowOf(e) \in pages[i]
             \/ page.more /\ cursor2 \in Rows /\ Older(EventRowOf(e), cursor2)
  <2>1. ASSUME NEW i \in 1 .. n, EventRowOf(e) \in panel.pages[i]
        PROVE  \E j \in 1 .. Len(pages) : EventRowOf(e) \in pages[j]
    <3> HIDE DEF pages, page, n
    <3> QED  BY <1>2, <2>1
  <2>2. CASE Older(EventRowOf(e), c)
    <3>1. \/ EventRowOf(e) \in page.rows
          \/ page.more /\ page.rows # {} /\ \A r \in page.rows : Older(EventRowOf(e), r)
      BY <2>2, EventsAreNotSkipped
    <3>2. CASE EventRowOf(e) \in page.rows
      <4>1. n + 1 \in 1 .. Len(pages) /\ EventRowOf(e) \in pages[n + 1]
        <5> HIDE DEF pages, page, n
        <5> QED  BY <1>2, <3>2
      <4> QED  BY <4>1
    <3>3. CASE EventRowOf(e) \notin page.rows
      <4> HIDE DEF pages, page, n
      <4> QED  BY <1>1, <1>5, <3>1, <3>3
    <3> QED  BY <3>2, <3>3
  <2> QED  BY <1>3, <1>9, <2>1, <2>2
<1> QED  BY <1>7, <1>8, <1>9

LEMMA MoreArrivesKeeps ==
    ASSUME RecapInv, NEW i \in 1 .. 2, MoreArrives(i)
    PROVE  RecapInv'
<1> DEFINE page  == getRecap(panel.asked[i])
           pages == Append(panel.pages, page.rows)
           cursor2 == LastOf(page.rows, panel.cursor)
<1>1. /\ i \in 1 .. Len(panel.asked) /\ panel \in Panels /\ panel.asked \in Seq(Rows)
      /\ panel.pages \in Seq(SUBSET Rows) /\ panel.cursor \in Rows \cup {NULL}
      /\ panel' = [panel EXCEPT !.busy = FALSE, !.asked = Without(panel.asked, i),
                        !.pages = pages, !.more = page.more, !.cursor = cursor2]
      /\ UNCHANGED <<server, checkpoint, seen, opened, strays, events, nextId>> /\ Shows(page.rows)
  BY DEF MoreArrives, server, RecapInv, PanelType, Panels
<1>2. /\ page.rows \in SUBSET Rows /\ IsFiniteSet(page.rows) /\ page.more \in BOOLEAN
  BY PagesAreRows DEF RecapInv
<1>3. cursor2 \in Rows \cup {NULL}
  <2>1. CASE page.rows = {}
    BY <1>1, <2>1 DEF LastOf
  <2>2. CASE page.rows # {}
    <3> HIDE DEF page
    <3>1. cursor2 \in page.rows
      BY <1>2, <2>2, LastIsOldest
    <3> HIDE DEF cursor2
    <3> QED  BY <1>2, <3>1
  <2> QED  BY <2>1, <2>2
<1>4. /\ offered \subseteq offered'
      /\ \A e \in events : EventRowOf(e) \in page.rows => e.id \in offered'
  BY <1>1, ShownIsOffered
<1>5. Without(panel.asked, i) \in Seq(Rows) /\ (Len(panel.asked) = 1 => Without(panel.asked, i) = <<>>)
  BY <1>1, WithoutOne
<1>6. /\ panel.pages # <<>> /\ (~strays => panel.asked = <<panel.cursor>>)
  <2>1. panel.asked # <<>>
    BY <1>1
  <2> QED  BY <2>1 DEF RecapInv, OneIsAsked
<1>7. /\ panel'.pages = pages /\ panel'.cursor = cursor2 /\ panel'.more = page.more
      /\ panel'.busy = FALSE /\ panel'.asked = Without(panel.asked, i)
      /\ panel'.last = panel.last /\ panel'.hasMore = panel.hasMore
  <2> HIDE DEF page, pages, cursor2
  <2> QED  BY <1>1 DEF Panels
<1>8. /\ pages \in Seq(SUBSET Rows) /\ pages # <<>> /\ pages[1] = panel.pages[1]
      /\ \A j \in 1 .. Len(pages) : IsFiniteSet(pages[j])
  <2> DEFINE n == Len(panel.pages)
  <2>1. n \in Nat /\ n >= 1
    BY <1>1, <1>6
  <2>2. /\ pages \in Seq(SUBSET Rows) /\ Len(pages) = n + 1 /\ pages[n + 1] = page.rows
        /\ \A j \in 1 .. n : pages[j] = panel.pages[j]
    <3> HIDE DEF page
    <3> QED  BY <1>1, <1>2, <2>1
  <2>3. \A j \in 1 .. n : IsFiniteSet(panel.pages[j])
    BY DEF RecapInv, PanelType
  <2> HIDE DEF pages, page, n
  <2>4. 1 \in 1 .. n /\ \A j \in 1 .. n + 1 : j \in 1 .. n \/ j = n + 1
    BY <2>1
  <2>5. pages # <<>>
    BY <2>1, <2>2
  <2> QED  BY <1>2, <2>2, <2>3, <2>4, <2>5
<1>9. PanelType'
  <2> HIDE DEF page, pages, cursor2
  <2>1. panel' \in Panels
    BY <1>1, <1>2, <1>3, <1>5, <1>8 DEF Panels
  <2> QED  BY <1>1, <1>7, <1>8, <2>1 DEF RecapInv, PanelType
<1>10. IdsAreFresh' /\ FirstPageOffers'
  <2> HIDE DEF page, pages, cursor2
  <2> QED  BY <1>1, <1>4, <1>6, <1>7 DEF RecapInv, IdsAreFresh, FirstPageOffers
<1>11. FirstPageIsNewest' /\ OpeningReadsWhatItShows'
  <2> HIDE DEF page, pages, cursor2
  <2> QED  BY <1>1, <1>4, <1>6, <1>7, <1>8 DEF RecapInv, FirstPageIsNewest, EventRowOf,
                                               OpeningReadsWhatItShows
<1>12. OneIsAsked'
  <2> HIDE DEF page, pages, cursor2
  <2>1. ~strays => Len(panel.asked) = 1
    <3>1. Len(<<panel.cursor>>) = 1
      OBVIOUS
    <3> QED  BY <1>6, <3>1
  <2> QED  BY <1>1, <1>5, <1>7, <1>8, <2>1 DEF OneIsAsked
<1>13. CASE ~strays
  <2>1. panel.asked = <<panel.cursor>> /\ Len(<<panel.cursor>>) = 1
    BY <1>6, <1>13
  <2>2. i = 1 /\ panel.asked[i] = panel.cursor
    BY <1>1, <2>1
  <2>3. panel.cursor \in Rows
    BY <1>1, <2>2
  <2>4. /\ \A j \in 1 .. Len(pages) : \A r \in pages[j] : r = cursor2 \/ Older(cursor2, r)
        /\ \A j \in 2 .. Len(pages) : \A r \in pages[j - 1], s \in pages[j] : Older(s, r)
        /\ \A e \in events : e.id <= panel.last =>
                        \/ \E j \in 1 .. Len(pages) : EventRowOf(e) \in pages[j]
                        \/ page.more /\ cursor2 \in Rows /\ Older(EventRowOf(e), cursor2)
    BY <1>6, <1>13, <2>2, <2>3, NextPageGoesOn DEF RecapInv
  <2>5. CursorIsTheEnd'
    <3> HIDE DEF page, pages, cursor2
    <3> QED  BY <1>1, <1>7, <2>4 DEF CursorIsTheEnd, EventRowOf
  <2> QED  BY <1>1, <1>9, <1>10, <1>11, <1>12, <2>5, ServerRests DEF RecapInv, FactsType
<1>14. CASE strays
  <2>1. CursorIsTheEnd'
    BY <1>1, <1>14 DEF CursorIsTheEnd
  <2> QED  BY <1>1, <1>9, <1>10, <1>11, <1>12, <2>1, ServerRests DEF RecapInv, FactsType
<1> QED  BY <1>13, <1>14

LEMMA RecapStep ==
    RecapInv /\ [Next]_vars => RecapInv'
<1> SUFFICES ASSUME RecapInv, [Next]_vars PROVE RecapInv'
  OBVIOUS
<1>1. CASE Tick \/ ToggleTask
  BY <1>1, TickKeeps, ToggleTaskKeeps
<1>2. ASSUME NEW p \in Photos,
             \/ hidden[p] = NULL /\ \E kind \in Kinds : RecordEvent(kind, p)
             \/ \E by \in Others : Like(by, p)
             \/ Comment(p) \/ HideOwn(p)
             \/ \E down \in BOOLEAN : moderatePhoto(p, down)
      PROVE  RecapInv'
  BY <1>2, RecordKeeps, LikeKeeps, CommentKeeps, HideOwnKeeps, moderatePhotoKeeps
<1>3. ASSUME NEW c \in comments, DeleteComment(c) \/ \E down \in BOOLEAN : moderateComment(c, down)
      PROVE  RecapInv'
  BY <1>3, DeleteCommentKeeps, moderateCommentKeeps
<1>4. CASE Render \/ Open \/ LoadMore \/ Close
  BY <1>4, RenderKeeps, OpenKeeps, LoadMoreKeeps, CloseKeeps
<1>5. CASE \E s \in seen : markSeen(s) \/ LoseSeen(s)
  BY <1>5, SeenKeeps
<1>6. CASE \E i \in 1 .. 2 : MoreArrives(i) \/ MoreFails(i)
  BY <1>6, MoreArrivesKeeps, MoreFailsKeeps
<1>7. CASE UNCHANGED vars
  <2>1. EventsGrow /\ ~(\E q \in Photos : recordEvent("photo_takedown", q))
    BY <1>7, NothingIsTold DEF vars, EventsGrow, RecapInv, FactsType
  <2>2. FactsType'
    BY <1>7 DEF vars, RecapInv, FactsType
  <2> QED  BY <1>7, <2>1, <2>2, OnlyFacts DEF vars, client
<1> QED  BY <1>1, <1>2, <1>3, <1>4, <1>5, <1>6, <1>7 DEF Next

\* The invariant of the recap and its panel.
THEOREM RecapInvariant ==
    Spec => []RecapInv
<1> QED  BY RecapInitInv, RecapStep, PTL DEF Spec

LEMMA LinksLead ==
    RecapInv => LinksAreAlive
<1> SUFFICES ASSUME RecapInv, NEW e \in events PROVE Link(e) \subseteq VisiblePhotos \cup {NULL}
  BY DEF LinksAreAlive
<1>1. /\ e.photo \in Photos /\ e.photo # NULL
      /\ e.kind \in {"badge_granted", "badge_removed", "crowd_favorite", "crowd_favorite_lost",
                    "photo_takedown", "photo_restore", "comment_hidden", "comment_restored"}
  <2>1. e.photo \in Photos /\ e.kind \in EventKinds
    BY DEF RecapInv, FactsType, Events
  <2>2. Photos \subseteq Nat /\ NULL \notin Int
    BY RecapAssumption DEF RecapAssumption
  <2>3. Kinds \subseteq {"badge_granted", "badge_removed", "crowd_favorite", "crowd_favorite_lost"}
    BY RecapAssumption DEF RecapAssumption
  <2>4. e.photo # NULL
    <3>1. e.photo \in Nat
      BY <2>1, <2>2
    <3>2. e.photo \in Int
      BY <3>1
    <3> QED  BY <2>2, <3>2, Zenon
  <2>5. \/ e.kind \in Kinds
        \/ e.kind \in {"photo_takedown", "photo_restore", "comment_hidden", "comment_restored"}
    BY <2>1 DEF EventKinds
  <2>6. \/ e.kind = "badge_granted" \/ e.kind = "badge_removed" \/ e.kind = "crowd_favorite"
        \/ e.kind = "crowd_favorite_lost"
        \/ e.kind \in {"photo_takedown", "photo_restore", "comment_hidden", "comment_restored"}
    BY <2>3, <2>5
  <2> QED  BY <2>1, <2>4, <2>6
<1>2. KIND_VIEW(e) \in {e.photo, NULL}
  BY <1>1 DEF KIND_VIEW
<1> QED  BY <1>1, <1>2 DEF Link

LEMMA WalkingBack ==
    RecapInv => PanelWalksBack
<1> SUFFICES ASSUME RecapInv, panel.pages # <<>>, ~strays
             PROVE  /\ \A i \in 2 .. Len(panel.pages) :
                            \A r \in panel.pages[i - 1], s \in panel.pages[i] : Older(s, r)
                    /\ ~panel.more => \A e \in events : e.id <= panel.last =>
                            Row(e.at, Key(EventRow, e.id)) \in UNION {panel.pages[i] : i \in 1 .. Len(panel.pages)}
  BY DEF PanelWalksBack
<1> QED  BY DEF RecapInv, CursorIsTheEnd, EventRowOf

(* What the recap's panel has shown and said holds, whatever number of     *)
(* photos, facts, pages and documents: page after page is older, an event  *)
(* the document knew of is in the list when there is no more, what opening *)
(* the panel reads was offered or more was announced, a host's last word   *)
(* on a photo is true and no link leads nowhere (services/notifications.js,*)
(* public/js/recap.js).                                                    *)
THEOREM ThePanelKeepsItsWord ==
    Spec => []PanelKeepsItsWord
<1>1. RecapInv => PanelKeepsItsWord
  BY LinksLead, WalkingBack DEF PanelKeepsItsWord, RecapInv
<1> QED  BY <1>1, RecapInvariant, PTL
-----------------------------------------------------------------------------
(* Reports: a row answers for everybody who was thanked.                   *)

ReportRows == [guest : Writers, body : {Bodies[b] : b \in DOMAIN Bodies}, at : Nat,
               status : {"open", "tracked", "closed"}]
Thanks == [guest : Writers, text : DOMAIN Bodies, at : Nat]

\* The words of a thanks are those of a row.
Answers(row, r) ==
    /\ row.guest = r.guest /\ row.body = Bodies[r.text]
    /\ r.at - BUG_REPORT_DUPLICATE_WINDOW_SECONDS <= row.at /\ row.at <= r.at
Alike(row, other) == row.guest = other.guest /\ row.body = other.body

ReportsInv ==
    /\ clock \in Nat /\ bug_reports \in Seq(ReportRows) /\ thanked \in Seq(Thanks)
    /\ \A i \in 1 .. Len(bug_reports) : bug_reports[i].at <= clock
    /\ \A k \in 1 .. Len(thanked) : \E i \in 1 .. Len(bug_reports) : Answers(bug_reports[i], thanked[k])
    /\ \A i, j \in 1 .. Len(bug_reports) :
        i < j /\ Alike(bug_reports[i], bug_reports[j])
            => bug_reports[j].at - bug_reports[i].at > BUG_REPORT_DUPLICATE_WINDOW_SECONDS

LEMMA ReportsStart ==
    Reports!ReportsInit => ReportsInv
<1> SUFFICES ASSUME Reports!ReportsInit PROVE ReportsInv
  OBVIOUS
<1>1. clock = 0 /\ bug_reports = <<>> /\ thanked = <<>>
  BY DEF Reports!ReportsInit
<1>2. bug_reports \in Seq(ReportRows) /\ thanked \in Seq(Thanks) /\ Len(bug_reports) = 0 /\ Len(thanked) = 0
  BY <1>1
<1> QED  BY <1>1, <1>2 DEF ReportsInv

\* A report finds its like within the window, or is a new row.
LEMMA ReportKeeps ==
    ASSUME ReportsInv, NEW g \in Writers, NEW b \in DOMAIN Bodies, Reports!Report(g, b)
    PROVE  ReportsInv'
<1> DEFINE w == BUG_REPORT_DUPLICATE_WINDOW_SECONDS
           row == [guest |-> g, body |-> Bodies[b], at |-> clock, status |-> "open"]
           thank == [guest |-> g, text |-> b, at |-> clock]
           dup(i) == bug_reports[i].guest = g /\ bug_reports[i].body = Bodies[b] /\ bug_reports[i].at >= clock - w
<1>1. /\ clock \in Nat /\ bug_reports \in Seq(ReportRows) /\ thanked \in Seq(Thanks) /\ w \in Nat
      /\ \A i \in 1 .. Len(bug_reports) : bug_reports[i].at <= clock
  BY NewsAssumption DEF ReportsInv, NewsAssumption
<1>2. /\ \A k \in 1 .. Len(thanked) : \E i \in 1 .. Len(bug_reports) : Answers(bug_reports[i], thanked[k])
      /\ \A i, j \in 1 .. Len(bug_reports) :
            i < j /\ Alike(bug_reports[i], bug_reports[j]) => bug_reports[j].at - bug_reports[i].at > w
  BY <1>1 DEF ReportsInv
<1>3. /\ clock' = clock /\ thanked' = Append(thanked, thank)
      /\ row \in ReportRows /\ thank \in Thanks
  BY <1>1 DEF Reports!Report, ReportRows, Thanks
<1>4. /\ thanked' \in Seq(Thanks) /\ Len(thanked') = Len(thanked) + 1 /\ thanked'[Len(thanked) + 1] = thank
      /\ \A k \in 1 .. Len(thanked) : thanked'[k] = thanked[k]
  BY <1>1, <1>3
<1>5. DOMAIN bug_reports = 1 .. Len(bug_reports)
  BY <1>1
<1>6. CASE \E i \in 1 .. Len(bug_reports) : dup(i)
  <2>1. bug_reports' = bug_reports
    BY <1>5, <1>6 DEF Reports!Report, Reports!insertBugReportOnce, Reports!recentDuplicate
  <2>2. PICK n \in 1 .. Len(bug_reports) : dup(n)
    BY <1>6
  <2>3. bug_reports[n] \in ReportRows /\ bug_reports[n].at <= clock
    BY <1>1
  <2>4. Answers(bug_reports[n], thank)
    BY <1>1, <2>2, <2>3 DEF Answers, ReportRows
  <2>5. \A k \in 1 .. Len(thanked') : \E i \in 1 .. Len(bug_reports') : Answers(bug_reports'[i], thanked'[k])
    <3> SUFFICES ASSUME NEW k \in 1 .. Len(thanked')
                 PROVE  \E i \in 1 .. Len(bug_reports) : Answers(bug_reports[i], thanked'[k])
      BY <2>1
    <3>1. k \in 1 .. Len(thanked) \/ k = Len(thanked) + 1
      BY <1>1, <1>4
    <3> QED  BY <1>2, <1>4, <2>4, <3>1
  <2> QED  BY <1>1, <1>2, <1>3, <1>4, <2>1, <2>5 DEF ReportsInv
<1>7. CASE ~ \E i \in 1 .. Len(bug_reports) : dup(i)
  <2> DEFINE n == Len(bug_reports) + 1
  <2>1. bug_reports' = Append(bug_reports, row)
    BY <1>5, <1>7 DEF Reports!Report, Reports!insertBugReportOnce, Reports!recentDuplicate
  <2>2. /\ bug_reports' \in Seq(ReportRows) /\ Len(bug_reports') = n /\ bug_reports'[n] = row
        /\ \A i \in 1 .. Len(bug_reports) : bug_reports'[i] = bug_reports[i]
        /\ Len(bug_reports) \in Nat
    BY <1>1, <1>3, <2>1
  <2>3. \A i \in 1 .. n : i \in 1 .. Len(bug_reports) \/ i = n
    BY <2>2
  <2>4. Answers(row, thank)
    BY <1>1 DEF Answers
  <2>5. \A k \in 1 .. Len(thanked') : \E i \in 1 .. Len(bug_reports') : Answers(bug_reports'[i], thanked'[k])
    <3> SUFFICES ASSUME NEW k \in 1 .. Len(thanked')
                 PROVE  \E i \in 1 .. n : Answers(bug_reports'[i], thanked'[k])
      BY <2>2
    <3>1. CASE k = Len(thanked) + 1
      BY <1>4, <2>2, <2>4, <3>1
    <3>2. CASE k \in 1 .. Len(thanked)
      <4>1. PICK i \in 1 .. Len(bug_reports) : Answers(bug_reports[i], thanked[k])
        BY <1>2, <3>2
      <4>2. i \in 1 .. n /\ bug_reports'[i] = bug_reports[i] /\ thanked'[k] = thanked[k]
        BY <1>4, <2>2, <3>2
      <4> QED  BY <4>1, <4>2
    <3> QED  BY <1>1, <1>4, <3>1, <3>2
  <2>6. ASSUME NEW i \in 1 .. n, NEW j \in 1 .. n, i < j, Alike(bug_reports'[i], bug_reports'[j])
        PROVE  bug_reports'[j].at - bug_reports'[i].at > w
    <3>1. i \in 1 .. Len(bug_reports) /\ bug_reports[i] \in ReportRows
      BY <1>1, <2>2, <2>6
    <3>2. CASE j = n
      <4>1. bug_reports[i].guest = g /\ bug_reports[i].body = Bodies[b]
        BY <2>2, <2>6, <3>1, <3>2 DEF Alike
      <4>2. ~(bug_reports[i].at >= clock - w) /\ bug_reports[i].at \in Nat
        BY <1>7, <3>1, <4>1 DEF ReportRows
      <4> QED  BY <1>1, <2>2, <3>1, <3>2, <4>2
    <3>3. CASE j \in 1 .. Len(bug_reports)
      BY <1>2, <2>2, <2>6, <3>1, <3>3
    <3> QED  BY <2>3, <3>2, <3>3
  <2>7. \A i, j \in 1 .. Len(bug_reports') :
            i < j /\ Alike(bug_reports'[i], bug_reports'[j]) => bug_reports'[j].at - bug_reports'[i].at > w
    BY <2>2, <2>6
  <2>8. \A i \in 1 .. Len(bug_reports') : bug_reports'[i].at <= clock'
    <3> SUFFICES ASSUME NEW i \in 1 .. n PROVE bug_reports'[i].at <= clock
      BY <1>3, <2>2
    <3> QED  BY <1>1, <2>2, <2>3
  <2> QED  BY <1>1, <1>3, <1>4, <2>2, <2>5, <2>7, <2>8 DEF ReportsInv
<1> QED  BY <1>6, <1>7

\* Nothing the host does, and no passing of time, changes what a row says.
LEMMA HandleKeeps ==
    ASSUME ReportsInv, NEW i \in DOMAIN bug_reports, NEW status \in {"tracked", "closed"},
           Reports!Handle(i, status)
    PROVE  ReportsInv'
<1>1. /\ clock \in Nat /\ bug_reports \in Seq(ReportRows) /\ thanked \in Seq(Thanks)
      /\ \A j \in 1 .. Len(bug_reports) : bug_reports[j].at <= clock
      /\ DOMAIN bug_reports = 1 .. Len(bug_reports)
  BY DEF ReportsInv
<1>2. clock' = clock /\ thanked' = thanked /\ bug_reports' = [bug_reports EXCEPT ![i].status = status]
  BY DEF Reports!Handle
<1>3. /\ Len(bug_reports') = Len(bug_reports) /\ bug_reports' \in Seq(ReportRows)
      /\ \A j \in 1 .. Len(bug_reports) :
            /\ bug_reports'[j].guest = bug_reports[j].guest
            /\ bug_reports'[j].body = bug_reports[j].body
            /\ bug_reports'[j].at = bug_reports[j].at
  <2>1. \A j \in 1 .. Len(bug_reports) : bug_reports[j] \in ReportRows
    BY <1>1
  <2>2. [bug_reports[i] EXCEPT !.status = status] \in ReportRows
    BY <1>1, <2>1 DEF ReportRows
  <2>3. bug_reports' = [bug_reports EXCEPT ![i] = [bug_reports[i] EXCEPT !.status = status]]
    BY <1>2
  <2>4. bug_reports' \in Seq(ReportRows) /\ Len(bug_reports') = Len(bug_reports)
    BY <1>1, <2>2, <2>3, ExceptSeq
  <2>5. \A j \in 1 .. Len(bug_reports) :
            bug_reports'[j] = IF j = i THEN [bug_reports[i] EXCEPT !.status = status] ELSE bug_reports[j]
    BY <1>1, <2>3
  <2> QED  BY <2>1, <2>4, <2>5 DEF ReportRows
<1>4. /\ \A k \in 1 .. Len(thanked) : \E j \in 1 .. Len(bug_reports') : Answers(bug_reports'[j], thanked[k])
      /\ \A j, k \in 1 .. Len(bug_reports') :
            j < k /\ Alike(bug_reports'[j], bug_reports'[k])
                => bug_reports'[k].at - bug_reports'[j].at > BUG_REPORT_DUPLICATE_WINDOW_SECONDS
  <2>1. \A j \in 1 .. Len(bug_reports) : \A r : Answers(bug_reports'[j], r) <=> Answers(bug_reports[j], r)
    BY <1>3 DEF Answers
  <2>2. \A j, k \in 1 .. Len(bug_reports) : Alike(bug_reports'[j], bug_reports'[k]) <=> Alike(bug_reports[j], bug_reports[k])
    BY <1>3 DEF Alike
  <2>3. \A k \in 1 .. Len(thanked) : \E j \in 1 .. Len(bug_reports') : Answers(bug_reports'[j], thanked[k])
    BY <1>3, <2>1 DEF ReportsInv
  <2> QED  BY <1>3, <2>2, <2>3 DEF ReportsInv
<1>5. \A j \in 1 .. Len(bug_reports') : bug_reports'[j].at <= clock'
  BY <1>1, <1>2, <1>3
<1> QED  BY <1>1, <1>2, <1>3, <1>4, <1>5 DEF ReportsInv

LEMMA ReportsStep ==
    ReportsInv /\ [Reports!ReportsNext]_reportVars => ReportsInv'
<1> SUFFICES ASSUME ReportsInv, [Reports!ReportsNext]_reportVars PROVE ReportsInv'
  OBVIOUS
<1>1. CASE UNCHANGED <<bug_reports, thanked>> /\ (clock' = clock \/ clock' = clock + 1)
  <2>1. ASSUME NEW i \in 1 .. Len(bug_reports) PROVE bug_reports[i].at \in Nat
    <3>1. bug_reports[i] \in ReportRows
      BY DEF ReportsInv
    <3> QED  BY <3>1 DEF ReportRows
  <2>2. /\ clock \in Nat /\ clock' \in Nat /\ clock <= clock'
        /\ \A i \in 1 .. Len(bug_reports) : bug_reports[i].at <= clock
    BY <1>1 DEF ReportsInv
  <2>3. \A i \in 1 .. Len(bug_reports) : bug_reports[i].at <= clock'
    BY <2>1, <2>2
  <2> QED  BY <1>1, <2>2, <2>3 DEF ReportsInv
<1>2. CASE \E g \in Writers, b \in DOMAIN Bodies : Reports!Report(g, b)
  BY <1>2, ReportKeeps
<1>3. CASE \E i \in DOMAIN bug_reports : Reports!track(i) \/ Reports!close(i)
  BY <1>3, HandleKeeps DEF Reports!track, Reports!close
<1>4. CASE Reports!Tick
  BY <1>1, <1>4 DEF Reports!Tick
<1>5. CASE UNCHANGED reportVars
  BY <1>1, <1>5 DEF reportVars
<1> QED  BY <1>2, <1>3, <1>4, <1>5 DEF Reports!ReportsNext

LEMMA KeptMeans ==
    ReportsInv => Reports!ReportsAreKept
<1> SUFFICES ASSUME ReportsInv PROVE Reports!ReportsAreKept
  OBVIOUS
<1>1. DOMAIN bug_reports = 1 .. Len(bug_reports) /\ DOMAIN thanked = 1 .. Len(thanked)
  BY DEF ReportsInv
<1>2. ASSUME NEW r \in Reports!Range(thanked)
      PROVE  \E i \in DOMAIN bug_reports : Answers(bug_reports[i], r)
  <2>1. PICK k \in 1 .. Len(thanked) : r = thanked[k]
    BY <1>1 DEF Reports!Range
  <2> QED  BY <1>1, <2>1 DEF ReportsInv
<1>3. \A i, j \in DOMAIN bug_reports :
        i < j /\ Alike(bug_reports[i], bug_reports[j])
            => bug_reports[j].at - bug_reports[i].at > BUG_REPORT_DUPLICATE_WINDOW_SECONDS
  BY <1>1 DEF ReportsInv
<1> QED  BY <1>2, <1>3 DEF Reports!ReportsAreKept, Answers, Alike

-----------------------------------------------------------------------------
(* The crash beacon: the map remembers lines of the log.                   *)

Untils == Nat \cup {Beacon!Never}
LogLines == [key : Beacon!Keys, at : Nat]

\* The map remembers the last line of a key.
Remembers(map, k, lines) ==
    /\ \E i \in 1 .. Len(lines) : lines[i].key = k /\ map[k] = lines[i].at + CLIENT_ERROR_DEDUPE_WINDOW_MS
    /\ \A i \in 1 .. Len(lines) : lines[i].key = k => map[k] >= lines[i].at + CLIENT_ERROR_DEDUPE_WINDOW_MS
Covers(line, r) == line.key = r.key /\ line.at <= r.at /\ r.at - line.at < CLIENT_ERROR_DEDUPE_WINDOW_MS

BeaconInv ==
    /\ ticks \in Nat /\ throws \in Nat
    /\ dedupeMap \in [Beacon!Keys -> Untils]
    /\ flying \in SUBSET [key : Beacon!Keys, n : Nat]
    /\ received \in SUBSET LogLines
    /\ log \in Seq(LogLines)
    /\ \A i \in 1 .. Len(log) : log[i].at <= ticks
    /\ \A r \in received : \E i \in 1 .. Len(log) : Covers(log[i], r)
    /\ Cardinality(Beacon!Held(dedupeMap)) <= RATE_LIMIT_TRACKED_MAX
    /\ \A k \in Beacon!Held(dedupeMap) : Remembers(dedupeMap, k, log)
    /\ \A k \in Beacon!Keys \ (evicted \cup Beacon!Held(dedupeMap)) : \A i \in 1 .. Len(log) :
        log[i].key = k => ticks >= log[i].at + CLIENT_ERROR_DEDUPE_WINDOW_MS

LEMMA CardinalityIsOne ==
    \A S : Beacon!Cardinality(S) = Cardinality(S)
<1> QED  BY DEF Beacon!Cardinality, Cardinality

LEMMA BeaconConstants ==
    /\ CLIENT_ERROR_DEDUPE_WINDOW_MS \in Nat /\ CLIENT_ERROR_DEDUPE_WINDOW_MS > 0
    /\ RATE_LIMIT_TRACKED_MAX \in Nat /\ RATE_LIMIT_TRACKED_MAX > 0
    /\ IsFiniteSet(Beacon!Keys)
    /\ \A f \in [Beacon!Keys -> Untils] :
        /\ IsFiniteSet(Beacon!Held(f)) /\ Cardinality(Beacon!Held(f)) \in Nat
        /\ Beacon!Held(f) \subseteq Beacon!Keys
        /\ \A k \in Beacon!Keys : k \in Beacon!Held(f) <=> f[k] \in Nat
<1>1. IsFiniteSet(Beacon!Keys)
  BY NewsAssumption, FS_Product DEF NewsAssumption, Beacon!Keys
<1>2. ASSUME NEW f \in [Beacon!Keys -> Untils]
      PROVE  /\ IsFiniteSet(Beacon!Held(f)) /\ Cardinality(Beacon!Held(f)) \in Nat
             /\ Beacon!Held(f) \subseteq Beacon!Keys
             /\ \A k \in Beacon!Keys : k \in Beacon!Held(f) <=> f[k] \in Nat
  <2>1. Beacon!Held(f) \subseteq Beacon!Keys
    BY DEF Beacon!Held
  <2>2. IsFiniteSet(Beacon!Held(f)) /\ Cardinality(Beacon!Held(f)) \in Nat
    BY <1>1, <2>1, FS_Subset, FS_CardinalityType
  <2>3. \A k \in Beacon!Keys : k \in Beacon!Held(f) <=> f[k] \in Nat
    BY DEF Beacon!Held, Beacon!Never, Untils
  <2> QED  BY <2>1, <2>2, <2>3
<1> QED  BY <1>1, <1>2, NewsAssumption DEF NewsAssumption

\* Sweeping and evicting forgets keys, changes none, and leaves room.
LEMMA RoomIsMade ==
    ASSUME NEW map \in [Beacon!Keys -> Untils], ticks \in Nat,
           Cardinality(Beacon!Held(map)) <= RATE_LIMIT_TRACKED_MAX,
           NEW room \in Beacon!sweepAndEvictUnderCap(map)
    PROVE  /\ room \in [Beacon!Keys -> Untils]
           /\ \A k \in Beacon!Keys : room[k] \in {map[k], Beacon!Never}
           /\ Cardinality(Beacon!Held(room)) < RATE_LIMIT_TRACKED_MAX
<1> DEFINE swept == [k \in Beacon!Keys |-> IF ticks >= map[k] THEN Beacon!Never ELSE map[k]]
           soonest == {k \in Beacon!Held(swept) : \A j \in Beacon!Held(swept) : swept[k] <= swept[j]}
<1>1. \/ ~Beacon!Full(map) /\ room = map
      \/ ~Beacon!Full(swept) /\ room = swept
      \/ \E k \in soonest : room = [swept EXCEPT ![k] = Beacon!Never]
  BY DEF Beacon!sweepAndEvictUnderCap
<1>2. /\ swept \in [Beacon!Keys -> Untils] /\ \A k \in Beacon!Keys : swept[k] \in {map[k], Beacon!Never}
      /\ Beacon!Held(swept) \subseteq Beacon!Held(map)
  BY DEF Untils, Beacon!Held
<1>3. /\ Cardinality(Beacon!Held(swept)) <= RATE_LIMIT_TRACKED_MAX
      /\ Cardinality(Beacon!Held(swept)) \in Nat /\ Cardinality(Beacon!Held(map)) \in Nat
      /\ IsFiniteSet(Beacon!Held(swept)) /\ RATE_LIMIT_TRACKED_MAX \in Nat
  <2> HIDE DEF swept
  <2>1. Cardinality(Beacon!Held(swept)) <= Cardinality(Beacon!Held(map))
    BY <1>2, BeaconConstants, FS_Subset
  <2> QED  BY <1>2, <2>1, BeaconConstants
<1>4. CASE ~Beacon!Full(map) /\ room = map
  BY <1>3, <1>4, CardinalityIsOne DEF Beacon!Full
<1>5. CASE ~Beacon!Full(swept) /\ room = swept
  <2> HIDE DEF swept
  <2> QED  BY <1>2, <1>3, <1>5, CardinalityIsOne DEF Beacon!Full
<1>6. ASSUME NEW k \in soonest, room = [swept EXCEPT ![k] = Beacon!Never]
      PROVE  /\ room \in [Beacon!Keys -> Untils]
             /\ \A j \in Beacon!Keys : room[j] \in {map[j], Beacon!Never}
             /\ Cardinality(Beacon!Held(room)) < RATE_LIMIT_TRACKED_MAX
  <2>1. k \in Beacon!Held(swept) /\ k \in Beacon!Keys
    BY DEF Beacon!Held
  <2> HIDE DEF swept
  <2>2. /\ room \in [Beacon!Keys -> Untils]
        /\ \A j \in Beacon!Keys : room[j] \in {map[j], Beacon!Never}
        /\ Beacon!Held(room) = Beacon!Held(swept) \ {k}
    BY <1>2, <1>6, <2>1 DEF Untils, Beacon!Held
  <2>3. Cardinality(Beacon!Held(room)) = Cardinality(Beacon!Held(swept)) - 1
    BY <1>3, <2>1, <2>2, FS_RemoveElement
  <2> QED  BY <1>3, <2>2, <2>3
<1> QED  BY <1>1, <1>4, <1>5, <1>6

LEMMA BeaconStart ==
    Beacon!BeaconInit => BeaconInv
<1> SUFFICES ASSUME Beacon!BeaconInit PROVE BeaconInv
  OBVIOUS
<1>1. /\ ticks = 0 /\ throws = 0 /\ log = <<>> /\ flying = {} /\ received = {} /\ evicted = {}
      /\ dedupeMap = [k \in Beacon!Keys |-> Beacon!Never]
  BY DEF Beacon!BeaconInit
<1>2. dedupeMap \in [Beacon!Keys -> Untils] /\ Beacon!Held(dedupeMap) = {}
  BY <1>1 DEF Untils, Beacon!Held
<1>3. Cardinality(Beacon!Held(dedupeMap)) <= RATE_LIMIT_TRACKED_MAX
  BY <1>2, BeaconConstants, FS_EmptySet
<1>4. log \in Seq(LogLines) /\ Len(log) = 0
  BY <1>1
<1> QED  BY <1>1, <1>2, <1>3, <1>4 DEF BeaconInv

\* A beacon repeats a line of the window or becomes a line.
LEMMA NoteKeeps ==
    ASSUME BeaconInv, NEW b \in flying, Beacon!Note(b)
    PROVE  BeaconInv'
<1> DEFINE w == CLIENT_ERROR_DEDUPE_WINDOW_MS
           key == b.key
           line == [key |-> key, at |-> ticks]
<1>1. /\ ticks \in Nat /\ throws \in Nat /\ dedupeMap \in [Beacon!Keys -> Untils]
      /\ flying \in SUBSET [key : Beacon!Keys, n : Nat] /\ received \in SUBSET LogLines
      /\ log \in Seq(LogLines) /\ w \in Nat /\ w > 0
      /\ \A i \in 1 .. Len(log) : log[i].at <= ticks
      /\ Cardinality(Beacon!Held(dedupeMap)) <= RATE_LIMIT_TRACKED_MAX
  BY BeaconConstants DEF BeaconInv
<1>2. /\ ticks' = ticks /\ throws' = throws /\ flying' = flying \ {b}
      /\ received' = received \cup {line}
      /\ evicted' = {k \in evicted : k # key} \cup
                    {k \in Beacon!Held(dedupeMap) : dedupeMap'[k] = Beacon!Never /\ ticks < dedupeMap[k]}
  BY DEF Beacon!Note
<1>3. key \in Beacon!Keys /\ line \in LogLines /\ Covers(line, line)
  BY <1>1 DEF LogLines, Covers
<1>4. \A i \in 1 .. Len(log) : log[i].at \in Nat /\ log[i] \in LogLines
  <2>1. \A i \in 1 .. Len(log) : log[i] \in LogLines
    BY <1>1
  <2> QED  BY <2>1 DEF LogLines
<1>5. \/ /\ dedupeMap[key] # Beacon!Never /\ ticks < dedupeMap[key]
         /\ dedupeMap' = dedupeMap /\ log' = log
      \/ /\ log' = Append(log, line)
         /\ \E room \in IF dedupeMap[key] # Beacon!Never THEN {dedupeMap} ELSE Beacon!sweepAndEvictUnderCap(dedupeMap) :
                dedupeMap' = [room EXCEPT ![key] = ticks + w]
  BY DEF Beacon!Note, Beacon!noteReport
<1>6. CASE /\ dedupeMap[key] # Beacon!Never /\ ticks < dedupeMap[key]
           /\ dedupeMap' = dedupeMap /\ log' = log
  <2>1. key \in Beacon!Held(dedupeMap)
    BY <1>3, <1>6 DEF Beacon!Held
  <2>2. PICK i \in 1 .. Len(log) : log[i].key = key /\ dedupeMap[key] = log[i].at + w
    BY <2>1 DEF BeaconInv, Remembers
  <2>3. Covers(log[i], line)
    BY <1>1, <1>4, <1>6, <2>2 DEF Covers
  <2>4. \A r \in received' : \E j \in 1 .. Len(log') : Covers(log'[j], r)
    BY <1>2, <1>6, <2>3 DEF BeaconInv
  <2>5. \A k \in Beacon!Keys \ (evicted' \cup Beacon!Held(dedupeMap')) : k \notin evicted
    BY <1>2, <1>6, <2>1
  <2>6. \A k \in Beacon!Keys \ (evicted' \cup Beacon!Held(dedupeMap')) : \A j \in 1 .. Len(log') :
            log'[j].key = k => ticks' >= log'[j].at + w
    BY <1>2, <1>6, <2>5 DEF BeaconInv
  <2>7. \A k \in Beacon!Held(dedupeMap') : Remembers(dedupeMap', k, log')
    BY <1>6 DEF BeaconInv
  <2>8. Cardinality(Beacon!Held(dedupeMap')) <= RATE_LIMIT_TRACKED_MAX /\ received' \in SUBSET LogLines
    BY <1>1, <1>2, <1>3, <1>6
  <2> QED  BY <1>1, <1>2, <1>6, <2>4, <2>6, <2>7, <2>8 DEF BeaconInv
<1>7. ASSUME log' = Append(log, line),
             NEW room \in IF dedupeMap[key] # Beacon!Never THEN {dedupeMap} ELSE Beacon!sweepAndEvictUnderCap(dedupeMap),
             dedupeMap' = [room EXCEPT ![key] = ticks + w]
      PROVE  BeaconInv'
  <2> DEFINE n == Len(log) + 1
  <2>1. /\ room \in [Beacon!Keys -> Untils]
        /\ \A k \in Beacon!Keys : room[k] \in {dedupeMap[k], Beacon!Never}
        /\ Cardinality(Beacon!Held(room) \cup {key}) <= RATE_LIMIT_TRACKED_MAX
    <3>1. CASE dedupeMap[key] # Beacon!Never
      <4>1. room = dedupeMap
        BY <1>7, <3>1
      <4>2. Beacon!Held(room) \cup {key} = Beacon!Held(dedupeMap)
        BY <1>3, <3>1, <4>1 DEF Beacon!Held
      <4> QED  BY <1>1, <4>1, <4>2
    <3>2. CASE dedupeMap[key] = Beacon!Never
      <4>1. /\ room \in [Beacon!Keys -> Untils]
            /\ \A k \in Beacon!Keys : room[k] \in {dedupeMap[k], Beacon!Never}
            /\ Cardinality(Beacon!Held(room)) < RATE_LIMIT_TRACKED_MAX
        BY <1>1, <1>7, <3>2, RoomIsMade
      <4>2. key \notin Beacon!Held(room)
        BY <1>3, <3>2, <4>1 DEF Beacon!Held
      <4>3. Cardinality(Beacon!Held(room) \cup {key}) = Cardinality(Beacon!Held(room)) + 1
        BY <4>1, <4>2, BeaconConstants, FS_AddElement
      <4>4. Cardinality(Beacon!Held(room)) \in Nat
        BY <4>1, BeaconConstants
      <4> QED  BY <4>1, <4>3, <4>4, BeaconConstants
    <3> QED  BY <3>1, <3>2
  <2>2. /\ dedupeMap' \in [Beacon!Keys -> Untils] /\ dedupeMap'[key] = ticks + w
        /\ \A k \in Beacon!Keys \ {key} : dedupeMap'[k] \in {dedupeMap[k], Beacon!Never}
    BY <1>1, <1>3, <1>7, <2>1 DEF Untils
  <2>3. Beacon!Held(dedupeMap') = Beacon!Held(room) \cup {key}
    <3>1. ticks + w # Beacon!Never
      BY <1>1 DEF Beacon!Never
    <3> QED  BY <1>3, <1>7, <2>1, <2>2, <3>1 DEF Beacon!Held
  <2>4. /\ log' \in Seq(LogLines) /\ Len(log') = n /\ log'[n] = line /\ n \in Nat
        /\ \A i \in 1 .. Len(log) : log'[i] = log[i]
        /\ \A i \in 1 .. n : i \in 1 .. Len(log) \/ i = n
    BY <1>1, <1>3, <1>7
  <2>5. \A r \in received' : \E j \in 1 .. n : Covers(log'[j], r)
    <3> SUFFICES ASSUME NEW r \in received' PROVE \E j \in 1 .. n : Covers(log'[j], r)
      OBVIOUS
    <3>1. CASE r = line
      BY <1>3, <2>4, <3>1
    <3>2. CASE r \in received
      <4>1. PICK j \in 1 .. Len(log) : Covers(log[j], r)
        BY <3>2 DEF BeaconInv
      <4>2. j \in 1 .. n /\ log'[j] = log[j]
        BY <2>4
      <4> QED  BY <4>1, <4>2
    <3> QED  BY <1>2, <3>1, <3>2
  <2>6. \A k \in Beacon!Held(dedupeMap') : Remembers(dedupeMap', k, log')
    <3> SUFFICES ASSUME NEW k \in Beacon!Held(dedupeMap')
                 PROVE  /\ \E i \in 1 .. n : log'[i].key = k /\ dedupeMap'[k] = log'[i].at + w
                        /\ \A i \in 1 .. n : log'[i].key = k => dedupeMap'[k] >= log'[i].at + w
      BY <2>4 DEF Remembers
    <3>1. CASE k = key
      <4>1. \A i \in 1 .. n : log'[i].at \in Nat /\ log'[i].at <= ticks
        BY <1>1, <1>4, <2>4
      <4> QED  BY <1>1, <2>2, <2>4, <3>1, <4>1
    <3>2. CASE k # key
      <4>1. k \in Beacon!Keys /\ dedupeMap'[k] # Beacon!Never
        BY DEF Beacon!Held
      <4>2. dedupeMap'[k] = dedupeMap[k] /\ k \in Beacon!Held(dedupeMap)
        BY <2>2, <3>2, <4>1 DEF Beacon!Held
      <4>3. /\ \E i \in 1 .. Len(log) : log[i].key = k /\ dedupeMap[k] = log[i].at + w
            /\ \A i \in 1 .. Len(log) : log[i].key = k => dedupeMap[k] >= log[i].at + w
        BY <4>2 DEF BeaconInv, Remembers
      <4>4. \A i \in 1 .. Len(log) : i \in 1 .. n /\ log'[i] = log[i]
        BY <2>4
      <4>5. \A i \in 1 .. n : log'[i].key = k => i \in 1 .. Len(log)
        BY <2>4, <3>2
      <4> QED  BY <4>2, <4>3, <4>4, <4>5
    <3> QED  BY <3>1, <3>2
  <2>7. ASSUME NEW k \in Beacon!Keys \ (evicted' \cup Beacon!Held(dedupeMap')), NEW i \in 1 .. n, log'[i].key = k
        PROVE  ticks >= log'[i].at + w
    <3>1. k # key /\ k \notin evicted
      BY <1>2, <2>3, <2>7
    <3>2. i \in 1 .. Len(log) /\ log'[i] = log[i] /\ log[i].at \in Nat
      BY <1>4, <2>4, <2>7, <3>1
    <3>3. CASE k \in Beacon!Held(dedupeMap)
      <4>1. dedupeMap'[k] = Beacon!Never
        BY <2>7 DEF Beacon!Held
      <4>2. ~(ticks < dedupeMap[k]) /\ dedupeMap[k] \in Nat
        BY <1>1, <1>2, <2>7, <3>3, <4>1, BeaconConstants
      <4>3. dedupeMap[k] >= log[i].at + w
        BY <2>7, <3>2, <3>3 DEF BeaconInv, Remembers
      <4> QED  BY <1>1, <3>2, <4>2, <4>3
    <3>4. CASE k \notin Beacon!Held(dedupeMap)
      BY <2>7, <3>1, <3>2, <3>4 DEF BeaconInv
    <3> QED  BY <3>3, <3>4
  <2>8. \A i \in 1 .. Len(log') : log'[i].at <= ticks'
    <3>1. line.at <= ticks
      BY <1>1
    <3> QED  BY <1>1, <1>2, <2>4, <3>1
  <2>9. received' \in SUBSET LogLines
    BY <1>1, <1>2, <1>3
  <2> QED  BY <1>1, <1>2, <2>1, <2>2, <2>3, <2>4, <2>5, <2>6, <2>7, <2>8, <2>9 DEF BeaconInv
<1> QED  BY <1>5, <1>6, <1>7

LEMMA BeaconStep ==
    BeaconInv /\ [Beacon!BeaconNext]_beaconVars => BeaconInv'
<1> SUFFICES ASSUME BeaconInv, [Beacon!BeaconNext]_beaconVars PROVE BeaconInv'
  OBVIOUS
<1>1. CASE /\ UNCHANGED <<dedupeMap, log, received, evicted>> /\ flying' \in SUBSET [key : Beacon!Keys, n : Nat]
           /\ throws' \in Nat /\ ticks' = ticks
  BY <1>1 DEF BeaconInv
<1>2. CASE Beacon!Tick
  <2>1. /\ UNCHANGED <<dedupeMap, log, received, evicted, flying, throws>> /\ ticks' = ticks + 1
    BY <1>2 DEF Beacon!Tick
  <2>2. ticks \in Nat /\ log \in Seq(LogLines) /\ CLIENT_ERROR_DEDUPE_WINDOW_MS \in Nat
    BY BeaconConstants DEF BeaconInv
  <2>3. ASSUME NEW i \in 1 .. Len(log) PROVE log[i].at \in Nat /\ log[i].at <= ticks
    <3>1. log[i] \in LogLines
      BY <2>2
    <3> QED  BY <3>1 DEF LogLines, BeaconInv
  <2>4. \A k \in Beacon!Keys \ (evicted \cup Beacon!Held(dedupeMap)) : \A i \in 1 .. Len(log) :
            log[i].key = k => ticks + 1 >= log[i].at + CLIENT_ERROR_DEDUPE_WINDOW_MS
    BY <2>2, <2>3 DEF BeaconInv
  <2>5. \A i \in 1 .. Len(log) : log[i].at <= ticks + 1
    BY <2>2, <2>3
  <2> QED  BY <2>1, <2>2, <2>4, <2>5 DEF BeaconInv
<1>3. ASSUME NEW g \in Senders, Beacon!Reload(g) PROVE BeaconInv'
  BY <1>1, <1>3 DEF Beacon!Reload, BeaconInv
<1>4. ASSUME NEW g \in Senders, NEW e \in Crashes, Beacon!Throw(g, e) PROVE BeaconInv'
  <2>1. /\ UNCHANGED <<ticks, dedupeMap, log, received, evicted>> /\ throws' = throws + 1
        /\ flying' = flying \cup {[key |-> <<g, e>>, n |-> throws]}
    BY <1>4 DEF Beacon!Throw
  <2>2. <<g, e>> \in Beacon!Keys /\ throws \in Nat /\ flying \in SUBSET [key : Beacon!Keys, n : Nat]
    BY DEF Beacon!Keys, BeaconInv
  <2> QED  BY <1>1, <2>1, <2>2
<1>5. ASSUME NEW b \in flying, Beacon!Lose(b) PROVE BeaconInv'
  BY <1>1, <1>5 DEF Beacon!Lose, BeaconInv
<1>6. CASE UNCHANGED beaconVars
  BY <1>1, <1>6 DEF beaconVars, BeaconInv
<1> QED  BY <1>2, <1>3, <1>4, <1>5, <1>6, NoteKeeps DEF Beacon!BeaconNext

LEMMA LoggedMeans ==
    BeaconInv => Beacon!CrashesAreLogged
<1> SUFFICES ASSUME BeaconInv PROVE Beacon!CrashesAreLogged
  OBVIOUS
<1>1. /\ DOMAIN log = 1 .. Len(log) /\ ticks \in Nat /\ CLIENT_ERROR_DEDUPE_WINDOW_MS \in Nat
      /\ log \in Seq(LogLines) /\ dedupeMap \in [Beacon!Keys -> Untils]
  BY BeaconConstants DEF BeaconInv
<1>2. ASSUME NEW r \in received
      PROVE  \E i \in Beacon!Lines(r.key) : log[i].at <= r.at /\ r.at - log[i].at < CLIENT_ERROR_DEDUPE_WINDOW_MS
  BY <1>1 DEF BeaconInv, Covers, Beacon!Lines
<1>3. ASSUME NEW k \in Beacon!Keys \ evicted, NEW i \in Beacon!Lines(k),
             ticks - log[i].at < CLIENT_ERROR_DEDUPE_WINDOW_MS
      PROVE  dedupeMap[k] > ticks
  <2>1. i \in 1 .. Len(log) /\ log[i].key = k /\ log[i] \in LogLines
    BY <1>1 DEF Beacon!Lines
  <2>2. log[i].at \in Nat
    BY <2>1 DEF LogLines
  <2>3. k \in Beacon!Held(dedupeMap)
    BY <1>1, <1>3, <2>1, <2>2 DEF BeaconInv
  <2>4. dedupeMap[k] >= log[i].at + CLIENT_ERROR_DEDUPE_WINDOW_MS /\ dedupeMap[k] \in Nat
    BY <1>1, <2>1, <2>3, BeaconConstants DEF BeaconInv, Remembers
  <2> QED  BY <1>1, <1>3, <2>2, <2>4
<1>4. Cardinality(Beacon!Held(dedupeMap)) <= RATE_LIMIT_TRACKED_MAX
  BY DEF BeaconInv
<1> QED  BY <1>2, <1>3, <1>4, CardinalityIsOne DEF Beacon!CrashesAreLogged

-----------------------------------------------------------------------------
(* Both, wherever the others rest.                                         *)

ArrivalInv ==
    /\ part = "reports" => ReportsInv
    /\ part = "beacon" => BeaconInv

LEMMA ArrivalInitInv ==
    NewsInit => ArrivalInv
<1> QED  BY ReportsStart, BeaconStart DEF NewsInit, ArrivalInv

LEMMA ArrivalStep ==
    ArrivalInv /\ [NewsNext]_<<part, vars, cardVars, slideVars, reportVars, beaconVars>> => ArrivalInv'
<1> SUFFICES ASSUME ArrivalInv, [NewsNext]_<<part, vars, cardVars, slideVars, reportVars, beaconVars>>
             PROVE  ArrivalInv'
  OBVIOUS
<1>1. part' = part
  BY DEF NewsNext
<1>2. ASSUME part = "reports" PROVE [Reports!ReportsNext]_reportVars
  BY <1>2 DEF NewsNext
<1>3. ASSUME part = "beacon" PROVE [Beacon!BeaconNext]_beaconVars
  BY <1>3 DEF NewsNext
<1> QED  BY <1>1, <1>2, <1>3, ReportsStep, BeaconStep DEF ArrivalInv

(* Whatever is reported, by whomever and however often, whatever the host  *)
(* does meanwhile: whoever was thanked has a row with those words no older *)
(* than the window of a double tap, no two rows are one tap, and a crash   *)
(* the server took is a line of its log or repeats one of the window, the  *)
(* map under its cap (bug-report.js, bugs-export.js, client-error.js).     *)
THEOREM ReportsAlwaysArrive ==
    NewsSpec => []ReportsArrive
<1>1. ArrivalInv => ReportsArrive
  BY KeptMeans, LoggedMeans DEF ArrivalInv, ReportsArrive
<1> QED  BY <1>1, ArrivalInitInv, ArrivalStep, PTL DEF NewsSpec

-----------------------------------------------------------------------------
(* Cards: what a card shows is the server's, but for what is on its way.   *)

Ids(k) == 1 .. 100 + k      \* the comments after k requests: the first are numbered up to 100
Asks(k) == [n : 1 .. k, kind : {"like", "post", "delete"}, photo : Cards, comment : Ids(k) \cup {0},
            held : BOOLEAN, drawn : BOOLEAN, state : {"sent", "done", "failed"}, liked : BOOLEAN, row : Nat]
Asked(r, kind, p) == r.kind = kind /\ r.photo = p
Done(r, kind, p) == Asked(r, kind, p) /\ r.state = "done"
PostRows(p) == {r.row : r \in {s \in requests : Done(s, "post", p)}}
DeleteRows(p) == {r.comment : r \in {s \in requests : Done(s, "delete", p)}}
Distinct(s) == \A i, j \in 1 .. Len(s) : s[i] = s[j] => i = j

CardType ==
    /\ taps \in Nat
    /\ requests \in SUBSET Asks(taps)
    /\ said \in [Cards -> SUBSET Nat]
    /\ payload \in [Cards -> Seq(Ids(taps))]
    /\ dialog \in [photo : Cards \cup {0}, thread : Seq(Ids(taps)), draft : BOOLEAN]
    /\ dialog.photo = 0 => dialog.thread = <<>> /\ ~dialog.draft
    /\ late \in BOOLEAN

\* No two requests are one; a comment that was not answered is on no card, in
\* no thread and asked to be deleted by nobody.
RequestsAreApart ==
    /\ \A r, s \in requests : r.n = s.n => r = s
    /\ \A r \in requests : r.kind = "post" =>
        /\ r.state = "done" => r.row = 100 + r.n
        /\ \A p \in Cards : \A i \in 1 .. Len(payload[p]) : payload[p][i] # 100 + r.n
        /\ \A i \in 1 .. Len(dialog.thread) : dialog.thread[i] # 100 + r.n
        /\ \A s \in requests : s.kind = "delete" => s.comment # 100 + r.n

\* One toggle of a photo is held at most.  Its answer is what the row is now,
\* or one that is not held will come; with no answer on its way all agree.
HeartFollows ==
    /\ \A r \in requests : r.kind = "like" => r.drawn /\ r.comment = 0
    /\ \A r, s \in requests : r.held /\ s.held /\ Asked(r, "like", s.photo) /\ s.kind = "like" => r = s
    /\ \A p \in Cards \ astray :
        \/ \E r \in requests : Done(r, "like", p) /\ ~r.held
        \/ \E r \in requests : Done(r, "like", p) /\ r.held /\ (r.liked <=> p \in liked)
        \/ /\ \A r \in requests : ~Done(r, "like", p)
           /\ (p \in heart <=> p \in liked) /\ (p \in likers <=> p \in liked)

\* A card has the comments of the server, the posted that are not answered yet
\* less, the deleted that are not answered yet more.
CommentsFollow ==
    /\ \A p \in Cards : Distinct(payload[p])
    /\ \A p \in Cards \ dropped : said[p] = (Card!Elements(payload[p]) \cup PostRows(p)) \ DeleteRows(p)

CardInv == CardType /\ RequestsAreApart /\ HeartFollows /\ CommentsFollow /\ Card!ThreadIsTheCards

-----------------------------------------------------------------------------
(* Filtering a sequence.                                                   *)

LEMMA CardCardinality ==
    \A S : Card!Cardinality(S) = Cardinality(S)
<1> QED  BY DEF Card!Cardinality, Cardinality

\* The places of a finite set of positions: 1, 2 and so on, each taken once.
LEMMA PlacesAreTaken ==
    ASSUME NEW m \in Nat, NEW kept \in SUBSET (1 .. m),
           NEW place, place = [i \in kept |-> Cardinality({j \in kept : j <= i})]
    PROVE  /\ IsFiniteSet(kept) /\ Cardinality(kept) \in Nat
           /\ \A i \in kept : place[i] \in 1 .. Cardinality(kept)
           /\ \A i, j \in kept : i < j => place[i] < place[j]
           /\ \A n \in 1 .. Cardinality(kept) : \E i \in kept : place[i] = n
<1> DEFINE upto(i) == {j \in kept : j <= i}
<1>1. IsFiniteSet(kept) /\ Cardinality(kept) \in Nat
  <2>1. IsFiniteSet(1 .. m)
    BY FS_Interval
  <2> QED  BY <2>1, FS_Subset, FS_CardinalityType
<1>2. ASSUME NEW i \in kept
      PROVE  /\ IsFiniteSet(upto(i)) /\ Cardinality(upto(i)) \in Nat /\ Cardinality(upto(i)) >= 1
             /\ Cardinality(upto(i)) <= Cardinality(kept)
  <2>1. IsFiniteSet(upto(i)) /\ Cardinality(upto(i)) <= Cardinality(kept)
    BY <1>1, FS_Subset
  <2>2. i \in upto(i)
    OBVIOUS
  <2>3. Cardinality(upto(i)) \in Nat /\ Cardinality(upto(i)) # 0
    BY <2>1, <2>2, FS_CardinalityType, FS_EmptySet
  <2> QED  BY <2>1, <2>3
<1>3. \A i \in kept : place[i] \in 1 .. Cardinality(kept)
  BY <1>1, <1>2
<1>4. ASSUME NEW i \in kept, NEW j \in kept, i < j PROVE place[i] < place[j]
  <2>1. upto(i) \subseteq upto(j) /\ j \in upto(j) /\ j \notin upto(i)
    <3>1. \A k \in kept : k \in Int
      OBVIOUS
    <3>2. \A k \in kept : k <= i => k <= j
      BY <1>4, <3>1
    <3>3. j <= j /\ ~(j <= i)
      BY <1>4, <3>1
    <3> QED  BY <3>2, <3>3
  <2>2. Cardinality(upto(i)) < Cardinality(upto(j))
    <3>1. upto(i) \subseteq upto(j) \ {j} /\ Cardinality(upto(j) \ {j}) = Cardinality(upto(j)) - 1
      BY <1>2, <2>1, FS_RemoveElement
    <3>2. IsFiniteSet(upto(j) \ {j})
      BY <1>2, FS_Subset
    <3>3. Cardinality(upto(i)) <= Cardinality(upto(j) \ {j})
      BY <3>1, <3>2, FS_Subset
    <3> QED  BY <1>2, <3>1, <3>3
  <2> QED  BY <2>2
<1>5. place \in Bijection(kept, 1 .. Cardinality(kept))
  <2>1. place \in [kept -> 1 .. Cardinality(kept)]
    BY <1>3
  <2>2. \A i, j \in kept : place[i] = place[j] => i = j
    <3> SUFFICES ASSUME NEW i \in kept, NEW j \in kept, place[i] = place[j] PROVE i = j
      OBVIOUS
    <3>1. place[i] \in Nat /\ place[j] \in Nat /\ i \in Nat /\ j \in Nat
      BY <1>1, <1>3
    <3> QED  BY <1>4, <3>1
  <2>3. place \in Injection(kept, 1 .. Cardinality(kept))
    BY <2>1, <2>2 DEF Injection, IsInjective
  <2>4. IsFiniteSet(1 .. Cardinality(kept)) /\ Cardinality(1 .. Cardinality(kept)) = Cardinality(kept)
    BY <1>1, FS_Interval
  <2>5. place \in Surjection(kept, 1 .. Cardinality(kept))
    BY <1>1, <2>3, <2>4, FS_Injection
  <2> QED  BY <2>3, <2>5 DEF Bijection
<1>6. \A n \in 1 .. Cardinality(kept) : \E i \in kept : place[i] = n
  BY <1>5 DEF Bijection, Surjection
<1> QED  BY <1>1, <1>3, <1>4, <1>6

\* A filtered sequence has what was kept and keeps it apart.
LEMMA FilteredSequence ==
    ASSUME NEW S, NEW s \in Seq(S), NEW c
    PROVE  /\ Card!Without(s, c) \in Seq(S)
           /\ Card!Elements(Card!Without(s, c)) = Card!Elements(s) \ {c}
           /\ Distinct(s) => Distinct(Card!Without(s, c))
           /\ \A n \in 1 .. Len(Card!Without(s, c)) : \E i \in 1 .. Len(s) : Card!Without(s, c)[n] = s[i]
<1> DEFINE kept == {i \in DOMAIN s : s[i] # c}
           place == [i \in kept |-> Cardinality({j \in kept : j <= i})]
           at(n) == CHOOSE i \in kept : place[i] = n
           r == Card!Without(s, c)
<1>1. Len(s) \in Nat /\ DOMAIN s = 1 .. Len(s) /\ kept \in SUBSET (1 .. Len(s))
  OBVIOUS
<1>2. /\ IsFiniteSet(kept) /\ Cardinality(kept) \in Nat
      /\ \A i \in kept : place[i] \in 1 .. Cardinality(kept)
      /\ \A i, j \in kept : i < j => place[i] < place[j]
      /\ \A n \in 1 .. Cardinality(kept) : \E i \in kept : place[i] = n
  <2> HIDE DEF kept
  <2> QED  BY <1>1, PlacesAreTaken
<1>3. r = [n \in 1 .. Cardinality(kept) |-> s[at(n)]]
  <2> DEFINE there == [i \in kept |-> Card!Cardinality({j \in kept : j <= i})]
  <2>1. there = place
    BY CardCardinality
  <2>2. r = [n \in 1 .. Card!Cardinality(kept) |-> s[CHOOSE i \in kept : there[i] = n]]
    BY DEF Card!Without
  <2> HIDE DEF there, place, kept, r
  <2> QED  BY <2>1, <2>2, CardCardinality
<1>4. \A n \in 1 .. Cardinality(kept) : at(n) \in kept /\ place[at(n)] = n
  <2> HIDE DEF kept, place
  <2> QED  BY <1>2
<1>5. ASSUME NEW i \in kept PROVE at(place[i]) = i
  <2> HIDE DEF kept, place
  <2>1. at(place[i]) \in kept /\ place[at(place[i])] = place[i] /\ place[i] \in Nat
    BY <1>2, <1>4, <1>5
  <2>2. \A j \in kept : j \in Nat
    BY <1>1
  <2> HIDE DEF at
  <2>3. ~(at(place[i]) < i) /\ ~(i < at(place[i]))
    BY <1>2, <2>1
  <2> QED  BY <2>1, <2>2, <2>3
<1> HIDE DEF place, at, r
<1>6. r \in Seq(S) /\ Len(r) = Cardinality(kept) /\ DOMAIN r = 1 .. Len(r)
  <2>1. \A n \in 1 .. Cardinality(kept) : s[at(n)] \in S
    BY <1>1, <1>4
  <2>2. r \in [1 .. Cardinality(kept) -> S]
    BY <1>3, <2>1
  <2>3. DOMAIN r = 1 .. Cardinality(kept)
    BY <1>3
  <2> HIDE DEF kept
  <2> QED  BY <1>2, <2>2, <2>3
<1>7. Card!Elements(r) = Card!Elements(s) \ {c}
  <2>1. ASSUME NEW x \in Card!Elements(r) PROVE x \in Card!Elements(s) \ {c}
    <3>1. PICK n \in 1 .. Cardinality(kept) : x = r[n]
      BY <1>6, <2>1 DEF Card!Elements
    <3>2. x = s[at(n)] /\ at(n) \in kept
      BY <1>3, <1>4, <3>1
    <3> QED  BY <3>2 DEF Card!Elements
  <2>2. ASSUME NEW x \in Card!Elements(s) \ {c} PROVE x \in Card!Elements(r)
    <3>1. PICK i \in DOMAIN s : x = s[i]
      BY <2>2 DEF Card!Elements
    <3>2. i \in kept
      BY <2>2, <3>1
    <3>3. place[i] \in 1 .. Cardinality(kept) /\ r[place[i]] = s[i]
      BY <1>2, <1>3, <1>5, <3>2
    <3> QED  BY <1>6, <3>1, <3>3 DEF Card!Elements
  <2> QED  BY <2>1, <2>2
<1>8. ASSUME Distinct(s) PROVE Distinct(r)
  <2> SUFFICES ASSUME NEW m \in 1 .. Len(r), NEW n \in 1 .. Len(r), r[m] = r[n] PROVE m = n
    BY DEF Distinct
  <2>1. s[at(m)] = s[at(n)] /\ at(m) \in 1 .. Len(s) /\ at(n) \in 1 .. Len(s)
    BY <1>1, <1>3, <1>4, <1>6
  <2>2. at(m) = at(n)
    BY <1>8, <2>1 DEF Distinct
  <2> QED  BY <1>4, <1>6, <2>2
<1>9. \A n \in 1 .. Len(r) : \E i \in 1 .. Len(s) : r[n] = s[i]
  BY <1>1, <1>3, <1>4, <1>6
<1> QED  BY <1>6, <1>7, <1>8, <1>9 DEF r

-----------------------------------------------------------------------------
(* One lemma for each action.                                              *)

LEMMA CardStart ==
    Card!CardInit => CardInv
<1> SUFFICES ASSUME Card!CardInit PROVE CardInv
  OBVIOUS
<1>1. /\ liked = {} /\ heart = {} /\ likers = {} /\ requests = {} /\ taps = 0 /\ late = FALSE
      /\ payload = Started /\ said = [p \in Cards |-> Card!Elements(Started[p])]
      /\ dialog = [photo |-> 0, thread |-> <<>>, draft |-> FALSE]
  BY DEF Card!CardInit, Card!Nothing
<1>2. /\ Started \in [Cards -> Seq(1 .. 100)]
      /\ \A p \in Cards : Distinct(Started[p])
  <2>1. \A p \in Cards : DOMAIN Started[p] = 1 .. Len(Started[p])
    BY NewsAssumption DEF NewsAssumption
  <2> QED  BY <2>1, NewsAssumption DEF NewsAssumption, Distinct
<1>3. Ids(0) = 1 .. 100
  BY DEF Ids
<1>4. \A p \in Cards : Card!Elements(Started[p]) \subseteq Nat
  <2> SUFFICES ASSUME NEW p \in Cards, NEW i \in DOMAIN Started[p] PROVE Started[p][i] \in Nat
    BY DEF Card!Elements
  <2>1. Started[p] \in Seq(1 .. 100) /\ i \in 1 .. Len(Started[p])
    BY <1>2
  <2>2. Started[p][i] \in 1 .. 100
    BY <2>1, ElementOfSeq
  <2> QED  BY <2>2
<1>5. CardType
  <2>1. said \in [Cards -> SUBSET Nat]
    BY <1>1, <1>4
  <2>2. dialog \in [photo : Cards \cup {0}, thread : Seq(Ids(taps)), draft : BOOLEAN]
    BY <1>1
  <2> QED  BY <1>1, <1>2, <1>3, <2>1, <2>2 DEF CardType
<1>6. RequestsAreApart
  BY <1>1 DEF RequestsAreApart
<1>7. HeartFollows
  BY <1>1 DEF HeartFollows
<1>8. CommentsFollow
  <2>1. \A p \in Cards : PostRows(p) = {} /\ DeleteRows(p) = {}
    BY <1>1 DEF PostRows, DeleteRows
  <2> QED  BY <1>1, <1>2, <2>1 DEF CommentsFollow
<1>9. Card!ThreadIsTheCards
  BY <1>1 DEF Card!ThreadIsTheCards, Card!Nothing
<1> QED  BY <1>5, <1>6, <1>7, <1>8, <1>9 DEF CardInv

\* A request that goes on is of the same number, form and comment, and has its
\* row when it was posted.
GoesOn(q, r) ==
    /\ r.n = q.n /\ r.kind = q.kind /\ r.photo = q.photo /\ r.comment = q.comment
    /\ r.kind = "post" /\ r.state = "done" => r.row = 100 + r.n

LEMMA RequestsGoOn ==
    ASSUME RequestsAreApart, NEW f, requests' \subseteq {f[q] : q \in requests},
           \A q \in requests : GoesOn(q, f[q]),
           \A r \in requests : r.kind = "post" /\ f[r] \in requests' =>
                /\ \A p \in Cards : \A i \in 1 .. Len(payload'[p]) : payload'[p][i] # 100 + r.n
                /\ \A i \in 1 .. Len(dialog'.thread) : dialog'.thread[i] # 100 + r.n
    PROVE  RequestsAreApart'
<1>1. ASSUME NEW r \in requests', NEW s \in requests', r.n = s.n PROVE r = s
  <2>1. PICK q \in requests, p \in requests : r = f[q] /\ s = f[p]
    OBVIOUS
  <2>2. q.n = p.n
    BY <1>1, <2>1 DEF GoesOn
  <2> QED  BY <2>1, <2>2 DEF RequestsAreApart
<1>2. ASSUME NEW r \in requests', r.kind = "post"
      PROVE  /\ r.state = "done" => r.row = 100 + r.n
             /\ \A p \in Cards : \A i \in 1 .. Len(payload'[p]) : payload'[p][i] # 100 + r.n
             /\ \A i \in 1 .. Len(dialog'.thread) : dialog'.thread[i] # 100 + r.n
             /\ \A s \in requests' : s.kind = "delete" => s.comment # 100 + r.n
  <2>1. PICK q \in requests : r = f[q]
    OBVIOUS
  <2>2. q.kind = "post" /\ q.n = r.n /\ (r.state = "done" => r.row = 100 + r.n)
    BY <1>2, <2>1 DEF GoesOn
  <2>3. ASSUME NEW s \in requests', s.kind = "delete" PROVE s.comment # 100 + r.n
    <3>1. PICK p \in requests : s = f[p]
      OBVIOUS
    <3>2. p.kind = "delete" /\ p.comment = s.comment
      BY <2>3, <3>1 DEF GoesOn
    <3> QED  BY <2>2, <3>2 DEF RequestsAreApart
  <2> QED  BY <2>1, <2>2, <2>3
<1> QED  BY <1>1, <1>2 DEF RequestsAreApart

\* Hearts do not depend on what is no toggle.
LEMMA HeartsUntouched ==
    ASSUME HeartFollows, UNCHANGED <<liked, heart, likers, astray>>,
           {r \in requests' : r.kind = "like"} = {r \in requests : r.kind = "like"}
    PROVE  HeartFollows'
<1>1. \A r \in requests' : r.kind = "like" => r.drawn /\ r.comment = 0
  BY DEF HeartFollows
<1>2. \A r, s \in requests' : r.held /\ s.held /\ Asked(r, "like", s.photo) /\ s.kind = "like" => r = s
  BY DEF HeartFollows, Asked
<1>3. ASSUME NEW p \in Cards \ astray
      PROVE  \/ \E r \in requests' : Done(r, "like", p) /\ ~r.held
             \/ \E r \in requests' : Done(r, "like", p) /\ r.held /\ (r.liked <=> p \in liked)
             \/ /\ \A r \in requests' : ~Done(r, "like", p)
                /\ (p \in heart <=> p \in liked) /\ (p \in likers <=> p \in liked)
  <2>1. {r \in requests' : Done(r, "like", p)} = {r \in requests : Done(r, "like", p)}
    BY DEF Done, Asked
  <2> QED  BY <2>1 DEF HeartFollows
<1> QED  BY <1>1, <1>2, <1>3 DEF HeartFollows

\* Nor a card's comments on what is no answer about them.
SameAnswers(R, T, p) ==
    \A r \in R : \A kind \in {"post", "delete"} : Done(r, kind, p) =>
        \E q \in T : Done(q, kind, p) /\ q.row = r.row /\ q.comment = r.comment

LEMMA CommentsUntouched ==
    ASSUME CommentsFollow, UNCHANGED <<said, payload>>, dropped \subseteq dropped',
           \A p \in Cards \ dropped' : SameAnswers(requests, requests', p) /\ SameAnswers(requests', requests, p)
    PROVE  CommentsFollow'
<1>1. ASSUME NEW p \in Cards \ dropped' PROVE PostRows(p)' = PostRows(p) /\ DeleteRows(p)' = DeleteRows(p)
  <2>1. PostRows(p)' = {r.row : r \in {s \in requests' : Done(s, "post", p)}}
    BY DEF PostRows, Done, Asked
  <2>2. DeleteRows(p)' = {r.comment : r \in {s \in requests' : Done(s, "delete", p)}}
    BY DEF DeleteRows, Done, Asked
  <2> QED  BY <2>1, <2>2 DEF PostRows, DeleteRows, SameAnswers
<1> QED  BY <1>1 DEF CommentsFollow

LEMMA AskedTypes ==
    ASSUME CardType, NEW r \in requests
    PROVE  /\ r \in Asks(taps) /\ r.n \in 1 .. taps /\ r.kind \in {"like", "post", "delete"} /\ r.photo \in Cards
           /\ r.comment \in Ids(taps) \cup {0} /\ r.held \in BOOLEAN /\ r.drawn \in BOOLEAN
           /\ r.state \in {"sent", "done", "failed"} /\ r.liked \in BOOLEAN /\ r.row \in Nat
<1> QED  BY DEF CardType, Asks

\* With no held request for the form, one is sent and held.
LEMMA SendKeeps ==
    ASSUME CardInv, NEW kind \in {"like", "post", "delete"}, NEW p \in Cards, NEW c \in Ids(taps) \cup {0},
           kind = "like" => c = 0, kind = "delete" => c \in Card!Elements(dialog.thread), Card!Send(kind, p, c)
    PROVE  CardInv'
<1> DEFINE loose(r) == IF kind = "post" /\ r.kind = "post" THEN [r EXCEPT !.held = FALSE] ELSE r
           f == [r \in requests |-> loose(r)]
           new == [n |-> taps + 1, kind |-> kind, photo |-> p, comment |-> c, held |-> TRUE,
                   drawn |-> TRUE, state |-> "sent", liked |-> FALSE, row |-> 0]
<1>1. /\ taps \in Nat /\ taps' = taps + 1
      /\ requests' = {f[r] : r \in requests} \cup {new}
      /\ UNCHANGED <<liked, said, heart, likers, payload, dialog, astray, dropped, late>>
      /\ ~Card!Pending(kind, p, c)
  BY DEF Card!Send, CardInv, CardType, Card!server, Card!Nothing
<1>2. Ids(taps) \subseteq Ids(taps') /\ Asks(taps) \subseteq Asks(taps')
  <2>1. Ids(taps) \subseteq Ids(taps') /\ 1 .. taps \subseteq 1 .. taps'
    BY <1>1 DEF Ids
  <2> QED  BY <2>1 DEF Asks
<1>3. ASSUME NEW r \in requests
      PROVE  /\ f[r] \in Asks(taps) /\ GoesOn(r, f[r]) /\ f[r].state = r.state /\ f[r].row = r.row
             /\ (r.kind # "post" => f[r] = r)
  <2>1. f[r] = loose(r)
    OBVIOUS
  <2> HIDE DEF f
  <2>2. r.kind = "post" /\ r.state = "done" => r.row = 100 + r.n
    BY DEF CardInv, RequestsAreApart
  <2>3. [r EXCEPT !.held = FALSE] \in Asks(taps)
    BY AskedTypes DEF CardInv, Asks
  <2>4. r \in Asks(taps)
    BY AskedTypes DEF CardInv
  <2>5. GoesOn(r, r) /\ GoesOn(r, [r EXCEPT !.held = FALSE])
    BY <2>2, <2>4 DEF GoesOn, Asks
  <2> QED  BY <2>1, <2>3, <2>4, <2>5 DEF Asks
<1> HIDE DEF f
<1>4. CardType'
  <2>1. new \in Asks(taps')
    BY <1>1, <1>2 DEF Asks
  <2>2. requests' \subseteq Asks(taps')
    BY <1>1, <1>2, <1>3, <2>1
  <2>3. payload \in [Cards -> Seq(Ids(taps'))] /\ dialog \in [photo : Cards \cup {0}, thread : Seq(Ids(taps')), draft : BOOLEAN]
    <3>1. \A s \in Seq(Ids(taps)) : s \in Seq(Ids(taps'))
      BY <1>2
    <3> QED  BY <3>1 DEF CardInv, CardType
  <2> QED  BY <1>1, <2>2, <2>3 DEF CardInv, CardType
<1>5. RequestsAreApart'
  <2> DEFINE old == {f[r] : r \in requests}
  <2>1. ASSUME NEW r \in old PROVE \E q \in requests : r = f[q] /\ GoesOn(q, r) /\ q.n \in 1 .. taps
    BY <1>3, AskedTypes DEF CardInv
  <2> HIDE DEF old
  <2>2. requests' = old \cup {new}
    BY <1>1 DEF old
  <2>3. \A r \in old : r.n \in 1 .. taps /\ r.n # taps + 1
    BY <1>1, <2>1 DEF GoesOn
  <2>4. \A r, s \in requests' : r.n = s.n => r = s
    <3>1. ASSUME NEW r \in old, NEW s \in old, r.n = s.n PROVE r = s
      <4>1. PICK q \in requests : r = f[q] /\ GoesOn(q, r)
        BY <2>1
      <4>2. PICK t \in requests : s = f[t] /\ GoesOn(t, s)
        BY <2>1
      <4>3. q.n = t.n
        BY <3>1, <4>1, <4>2 DEF GoesOn
      <4> QED  BY <4>1, <4>2, <4>3 DEF CardInv, RequestsAreApart
    <3>2. new.n = taps + 1
      OBVIOUS
    <3> QED  BY <2>2, <2>3, <3>1, <3>2
  <2>5. ASSUME NEW r \in requests', r.kind = "post"
        PROVE  /\ r.state = "done" => r.row = 100 + r.n
               /\ \A q \in Cards : \A i \in 1 .. Len(payload[q]) : payload[q][i] # 100 + r.n
               /\ \A i \in 1 .. Len(dialog.thread) : dialog.thread[i] # 100 + r.n
    <3>1. CASE r \in old
      <4>1. PICK q \in requests : r = f[q] /\ GoesOn(q, r)
        BY <2>1, <3>1
      <4> QED  BY <2>5, <4>1 DEF GoesOn, CardInv, RequestsAreApart
    <3>2. CASE r = new
      <4>1. ASSUME NEW x \in Ids(taps) PROVE x # 100 + r.n
        BY <1>1, <3>2 DEF Ids
      <4>2. \A q \in Cards : payload[q] \in Seq(Ids(taps))
        BY DEF CardInv, CardType
      <4>3. dialog.thread \in Seq(Ids(taps))
        BY DEF CardInv, CardType
      <4> QED  BY <3>2, <4>1, <4>2, <4>3
    <3> QED  BY <2>2, <3>1, <3>2
  <2>6. ASSUME NEW r \in requests', r.kind = "post", NEW s \in requests', s.kind = "delete"
        PROVE  s.comment # 100 + r.n
    <3>1. r \in old \/ (r = new /\ r.n = taps + 1)
      BY <2>2
    <3>2. s \in old \/ (s = new /\ s.comment = c)
      BY <2>2
    <3>3. r \in old => \E q \in requests : q.kind = "post" /\ q.n = r.n
      BY <2>1, <2>6 DEF GoesOn
    <3>4. s \in old => \E q \in requests : q.kind = "delete" /\ q.comment = s.comment
      BY <2>1, <2>6 DEF GoesOn
    <3>5. CASE r \in old /\ s \in old
      BY <3>3, <3>4, <3>5 DEF CardInv, RequestsAreApart
    <3>6. CASE r = new
      <4>1. s \in old
        BY <2>6, <3>2, <3>6
      <4>2. s.comment \in Ids(taps) \cup {0}
        BY <3>4, <4>1, AskedTypes DEF CardInv
      <4> QED  BY <1>1, <3>6, <4>2 DEF Ids
    <3>7. CASE s = new /\ r \in old
      <4>1. kind = "delete" /\ s.comment = c
        BY <2>6, <3>7
      <4>2. PICK i \in DOMAIN dialog.thread : c = dialog.thread[i]
        BY <4>1 DEF Card!Elements
      <4>3. i \in 1 .. Len(dialog.thread)
        BY <4>2 DEF CardInv, CardType
      <4> QED  BY <3>3, <3>7, <4>1, <4>2, <4>3 DEF CardInv, RequestsAreApart
    <3> QED  BY <3>1, <3>2, <3>5, <3>6, <3>7
  <2> QED  BY <1>1, <2>4, <2>5, <2>6 DEF RequestsAreApart
<1>6. ASSUME kind = "like" PROVE HeartFollows'
  <2>1. \A r \in requests : f[r] = r
    <3>1. \A r \in requests : loose(r) = r
      BY <1>6
    <3> QED  BY <3>1 DEF f
  <2>2. requests' = requests \cup {new}
    BY <1>1, <2>1
  <2>3. \A q \in Cards : Done(new, "like", q) <=> FALSE
    BY DEF Done
  <2>4. \A r \in requests : r.kind = "like" /\ r.photo = p => ~r.held
    BY <1>1, <1>6 DEF Card!Pending, CardInv, HeartFollows
  <2>5. HeartFollows'
    <3>1. \A r \in requests' : r.kind = "like" => r.drawn /\ r.comment = 0
      BY <1>6, <2>2 DEF CardInv, HeartFollows
    <3>2. \A r, s \in requests' : r.held /\ s.held /\ Asked(r, "like", s.photo) /\ s.kind = "like" => r = s
      <4> SUFFICES ASSUME NEW r \in requests', NEW s \in requests', r.held, s.held,
                          r.kind = "like", s.kind = "like", r.photo = s.photo
                   PROVE  r = s
        BY DEF Asked
      <4>1. CASE r \in requests /\ s \in requests
        BY <4>1 DEF CardInv, HeartFollows, Asked
      <4>2. CASE r = new /\ s \in requests
        BY <2>4, <4>2
      <4>3. CASE s = new /\ r \in requests
        BY <2>4, <4>3
      <4> QED  BY <2>2, <4>1, <4>2, <4>3
    <3>3. ASSUME NEW q \in Cards \ astray
          PROVE  \/ \E r \in requests' : Done(r, "like", q) /\ ~r.held
                 \/ \E r \in requests' : Done(r, "like", q) /\ r.held /\ (r.liked <=> q \in liked)
                 \/ /\ \A r \in requests' : ~Done(r, "like", q)
                    /\ (q \in heart <=> q \in liked) /\ (q \in likers <=> q \in liked)
      BY <2>2, <2>3 DEF CardInv, HeartFollows
    <3>4. UNCHANGED <<liked, heart, likers, astray>>
      BY <1>1
    <3> QED  BY <3>1, <3>2, <3>3, <3>4 DEF HeartFollows
  <2> QED  BY <2>5
<1>7. ASSUME kind # "like" PROVE HeartFollows'
  <2>1. {r \in requests' : r.kind = "like"} = {r \in requests : r.kind = "like"}
    <3>1. \A q \in requests : q.kind = f[q].kind /\ (q.kind # "post" => f[q] = q)
      BY <1>3 DEF GoesOn
    <3> QED  BY <1>1, <1>7, <3>1
  <2>2. HeartFollows'
    <3>1. HeartFollows /\ UNCHANGED <<liked, heart, likers, astray>>
      BY <1>1 DEF CardInv
    <3> QED  BY <2>1, <3>1, HeartsUntouched
  <2> QED  BY <2>2
<1>8. CommentsFollow'
  <2>1. ASSUME NEW q \in Cards
        PROVE  SameAnswers(requests, requests', q) /\ SameAnswers(requests', requests, q)
    <3>1. \A r \in requests : \A k : Done(r, k, q) <=> Done(f[r], k, q)
      BY <1>3 DEF Done, Asked, GoesOn
    <3>2. \A r \in requests : f[r].row = r.row /\ f[r].comment = r.comment
      BY <1>3 DEF GoesOn
    <3>3. \A k : ~Done(new, k, q)
      BY DEF Done
    <3>4. SameAnswers(requests, requests', q)
      <4> SUFFICES ASSUME NEW r \in requests, NEW k \in {"post", "delete"}, Done(r, k, q)
                   PROVE  \E t \in requests' : Done(t, k, q) /\ t.row = r.row /\ t.comment = r.comment
        BY DEF SameAnswers
      <4> QED  BY <1>1, <3>1, <3>2
    <3>5. SameAnswers(requests', requests, q)
      <4> SUFFICES ASSUME NEW r \in requests', NEW k \in {"post", "delete"}, Done(r, k, q)
                   PROVE  \E t \in requests : Done(t, k, q) /\ t.row = r.row /\ t.comment = r.comment
        BY DEF SameAnswers
      <4>1. PICK t \in requests : r = f[t]
        BY <1>1, <3>3
      <4> QED  BY <3>1, <3>2, <4>1
    <3> QED  BY <3>4, <3>5
  <2> QED  BY <1>1, <2>1, CommentsUntouched DEF CardInv
<1>9. Card!ThreadIsTheCards'
  BY <1>1 DEF CardInv, Card!ThreadIsTheCards
<1> QED  BY <1>4, <1>5, <1>6, <1>7, <1>8, <1>9 DEF CardInv

\* A request gives way to another of its own, or to none.
LEMMA OneGoesOn ==
    ASSUME CardType, RequestsAreApart, NEW r \in requests, NEW a \in Asks(taps), GoesOn(r, a),
           UNCHANGED <<taps, payload, dialog>>,
           requests' = (requests \ {r}) \cup {a} \/ requests' = requests \ {r}
    PROVE  RequestsAreApart' /\ requests' \in SUBSET Asks(taps)
<1> DEFINE f == [q \in requests |-> IF q = r THEN a ELSE q]
<1>1. requests' \subseteq {f[q] : q \in requests}
  <2>1. f[r] = a /\ \A q \in requests \ {r} : f[q] = q
    OBVIOUS
  <2> HIDE DEF f
  <2> QED  BY <2>1
<1>2. \A q \in requests : GoesOn(q, f[q])
  BY DEF GoesOn, RequestsAreApart
<1>3. requests' \in SUBSET Asks(taps)
  BY DEF CardType
<1>4. RequestsAreApart'
  <2> HIDE DEF f
  <2>1. \A q \in requests : q.kind = "post" =>
            /\ \A p \in Cards : \A i \in 1 .. Len(payload'[p]) : payload'[p][i] # 100 + q.n
            /\ \A i \in 1 .. Len(dialog'.thread) : dialog'.thread[i] # 100 + q.n
    BY DEF RequestsAreApart
  <2> QED  BY <1>1, <1>2, <2>1, RequestsGoOn
<1> QED  BY <1>3, <1>4

\* What is left of a set in which one element gave way.
LEMMA OthersStay ==
    ASSUME NEW R, NEW r \in R, NEW a, NEW p, ~Done(r, "post", p), ~Done(r, "delete", p),
           ~Done(a, "post", p), ~Done(a, "delete", p),
           NEW T, T = (R \ {r}) \cup {a} \/ T = R \ {r}
    PROVE  SameAnswers(R, T, p) /\ SameAnswers(T, R, p)
<1>1. SameAnswers(R, T, p)
  <2> SUFFICES ASSUME NEW q \in R, NEW kind \in {"post", "delete"}, Done(q, kind, p)
               PROVE  \E t \in T : Done(t, kind, p) /\ t.row = q.row /\ t.comment = q.comment
    BY DEF SameAnswers
  <2> QED  OBVIOUS
<1>2. SameAnswers(T, R, p)
  <2> SUFFICES ASSUME NEW q \in T, NEW kind \in {"post", "delete"}, Done(q, kind, p)
               PROVE  \E t \in R : Done(t, kind, p) /\ t.row = q.row /\ t.comment = q.comment
    BY DEF SameAnswers
  <2> QED  OBVIOUS
<1> QED  BY <1>1, <1>2

\* The watchdog gives a form back.
LEMMA WatchdogKeeps ==
    ASSUME CardInv, NEW r \in requests, Card!Watchdog(r)
    PROVE  CardInv'
<1> DEFINE a == [r EXCEPT !.held = FALSE]
<1>1. /\ requests' = (requests \ {r}) \cup {a} /\ r.held
      /\ UNCHANGED <<liked, said, heart, likers, payload, dialog, taps, astray, dropped, late>>
  BY DEF Card!Watchdog, Card!server
<1>2. CardType /\ RequestsAreApart /\ HeartFollows /\ CommentsFollow /\ Card!ThreadIsTheCards
  BY DEF CardInv
<1>3. /\ a \in Asks(taps) /\ GoesOn(r, a) /\ ~a.held /\ a.kind = r.kind /\ a.photo = r.photo
      /\ a.state = r.state /\ a.row = r.row /\ a.comment = r.comment /\ a.drawn = r.drawn
  <2>1. r \in Asks(taps)
    BY <1>2, AskedTypes
  <2>2. r.kind = "post" /\ r.state = "done" => r.row = 100 + r.n
    BY <1>2 DEF RequestsAreApart
  <2> QED  BY <2>1, <2>2 DEF Asks, GoesOn
<1> HIDE DEF a
<1>4. RequestsAreApart' /\ CardType'
  BY <1>1, <1>2, <1>3, OneGoesOn DEF CardType
<1>5. HeartFollows'
  <2>1. \A q \in requests' : q.kind = "like" => q.drawn /\ q.comment = 0
    BY <1>1, <1>2, <1>3 DEF HeartFollows
  <2>2. \A q, s \in requests' : q.held /\ s.held /\ Asked(q, "like", s.photo) /\ s.kind = "like" => q = s
    BY <1>1, <1>2, <1>3 DEF HeartFollows
  <2>3. ASSUME NEW p \in Cards \ astray
        PROVE  \/ \E q \in requests' : Done(q, "like", p) /\ ~q.held
               \/ \E q \in requests' : Done(q, "like", p) /\ q.held /\ (q.liked <=> p \in liked)
               \/ /\ \A q \in requests' : ~Done(q, "like", p)
                  /\ (p \in heart <=> p \in liked) /\ (p \in likers <=> p \in liked)
    <3>1. Done(a, "like", p) <=> Done(r, "like", p)
      BY <1>3 DEF Done, Asked
    <3>2. CASE Done(r, "like", p)
      BY <1>1, <1>3, <3>1, <3>2
    <3>3. CASE ~Done(r, "like", p)
      BY <1>1, <1>2, <3>1, <3>3 DEF HeartFollows
    <3> QED  BY <3>2, <3>3
  <2>4. UNCHANGED <<liked, heart, likers, astray>>
    BY <1>1
  <2> QED  BY <2>1, <2>2, <2>3, <2>4 DEF HeartFollows
<1>6. CommentsFollow'
  <2>1. ASSUME NEW p \in Cards
        PROVE  SameAnswers(requests, requests', p) /\ SameAnswers(requests', requests, p)
    <3>1. \A kind : Done(a, kind, p) <=> Done(r, kind, p)
      BY <1>3 DEF Done, Asked
    <3> QED  BY <1>1, <1>3, <3>1 DEF SameAnswers
  <2> QED  BY <1>1, <1>2, <2>1, CommentsUntouched
<1>7. Card!ThreadIsTheCards'
  BY <1>1, <1>2 DEF Card!ThreadIsTheCards
<1> QED  BY <1>4, <1>5, <1>6, <1>7 DEF CardInv

\* Typing, and an answer that says it failed or is dropped for that.
LEMMA TypeKeeps ==
    ASSUME CardInv, Card!Type
    PROVE  CardInv'
<1>1. /\ dialog.photo # 0 /\ dialog' = [dialog EXCEPT !.draft = TRUE]
      /\ UNCHANGED <<liked, said, heart, likers, payload, requests, taps, astray, dropped, late>>
  BY DEF Card!Type, Card!server, Card!Nothing
<1>2. CardType /\ RequestsAreApart /\ HeartFollows /\ CommentsFollow /\ Card!ThreadIsTheCards
  BY DEF CardInv
<1>3. /\ dialog' \in [photo : Cards \cup {0}, thread : Seq(Ids(taps)), draft : BOOLEAN]
      /\ dialog'.photo = dialog.photo /\ dialog'.thread = dialog.thread
  BY <1>1, <1>2 DEF CardType
<1>4. CardType'
  BY <1>1, <1>2, <1>3 DEF CardType
<1>5. RequestsAreApart'
  BY <1>1, <1>2, <1>3 DEF RequestsAreApart
<1>6. HeartFollows'
  <2>1. UNCHANGED <<requests, liked, heart, likers, astray>>
    BY <1>1
  <2> QED  BY <1>2, <2>1 DEF HeartFollows
<1>7. CommentsFollow'
  <2>1. UNCHANGED <<requests, payload, said, dropped>>
    BY <1>1
  <2> QED  BY <1>2, <2>1 DEF CommentsFollow, PostRows, DeleteRows
<1>8. Card!ThreadIsTheCards'
  BY <1>1, <1>2, <1>3 DEF Card!ThreadIsTheCards, Card!Nothing
<1> QED  BY <1>4, <1>5, <1>6, <1>7, <1>8 DEF CardInv

LEMMA FailedKeeps ==
    ASSUME CardInv, NEW r \in requests, Card!Failed(r)
    PROVE  CardInv'
<1>1. /\ r.state = "failed" /\ requests' = requests \ {r}
      /\ UNCHANGED <<liked, said, heart, likers, payload, dialog, taps, astray, dropped, late>>
  BY DEF Card!Failed, Card!server
<1>2. CardType /\ RequestsAreApart /\ HeartFollows /\ CommentsFollow /\ Card!ThreadIsTheCards
  BY DEF CardInv
<1>3. r \in Asks(taps) /\ GoesOn(r, r)
  BY <1>1, <1>2, AskedTypes DEF GoesOn
<1>4. RequestsAreApart' /\ CardType'
  BY <1>1, <1>2, <1>3, OneGoesOn DEF CardType
<1>5. \A kind, p : ~Done(r, kind, p)
  BY <1>1 DEF Done
<1>6. HeartFollows'
  <2>1. UNCHANGED <<liked, heart, likers, astray>>
    BY <1>1
  <2>2. requests' \subseteq requests
    BY <1>1
  <2>3. ASSUME NEW p \in Cards \ astray
        PROVE  \/ \E q \in requests' : Done(q, "like", p) /\ ~q.held
               \/ \E q \in requests' : Done(q, "like", p) /\ q.held /\ (q.liked <=> p \in liked)
               \/ /\ \A q \in requests' : ~Done(q, "like", p)
                  /\ (p \in heart <=> p \in liked) /\ (p \in likers <=> p \in liked)
    BY <1>1, <1>2, <1>5 DEF HeartFollows
  <2> QED  BY <1>2, <2>1, <2>2, <2>3 DEF HeartFollows
<1>7. CommentsFollow'
  <2>1. \A p \in Cards : SameAnswers(requests, requests', p) /\ SameAnswers(requests', requests, p)
    BY <1>1, <1>5, OthersStay
  <2> QED  BY <1>1, <1>2, <2>1, CommentsUntouched
<1>8. Card!ThreadIsTheCards'
  BY <1>1, <1>2 DEF Card!ThreadIsTheCards
<1> QED  BY <1>4, <1>6, <1>7, <1>8 DEF CardInv

\* A toggle is served: its answer, if held, is what the row is now.
LEMMA ToggleKeeps ==
    ASSUME CardInv, NEW r \in requests, Card!Toggle(r), Card!Serve(r)
    PROVE  CardInv'
<1> DEFINE a == [r EXCEPT !.state = "done", !.liked = r.photo \notin liked]
<1>1. /\ r.kind = "like" /\ r.state = "sent" /\ requests' = (requests \ {r}) \cup {a}
      /\ liked' = IF r.photo \in liked THEN liked \ {r.photo} ELSE liked \cup {r.photo}
      /\ UNCHANGED <<said, heart, likers, payload, dialog, taps, astray, dropped, late>>
  BY DEF Card!Serve, Card!Toggle, Card!Answer
<1>2. CardType /\ RequestsAreApart /\ HeartFollows /\ CommentsFollow /\ Card!ThreadIsTheCards
  BY DEF CardInv
<1>3. /\ a \in Asks(taps) /\ GoesOn(r, a) /\ a.held = r.held /\ a.kind = "like" /\ a.photo = r.photo
      /\ a.state = "done" /\ a.comment = r.comment /\ a.drawn = r.drawn /\ (a.liked <=> r.photo \notin liked)
  <2>1. r \in Asks(taps)
    BY <1>2, AskedTypes
  <2> QED  BY <1>1, <2>1 DEF Asks, GoesOn
<1> HIDE DEF a
<1>4. RequestsAreApart' /\ CardType'
  BY <1>1, <1>2, <1>3, OneGoesOn DEF CardType
<1>5. HeartFollows'
  <2>1. \A q \in requests' : q.kind = "like" => q.drawn /\ q.comment = 0
    BY <1>1, <1>2, <1>3 DEF HeartFollows
  <2>2. \A q, s \in requests' : q.held /\ s.held /\ Asked(q, "like", s.photo) /\ s.kind = "like" => q = s
    <3> SUFFICES ASSUME NEW q \in requests', NEW s \in requests', q.held, s.held,
                        q.kind = "like", s.kind = "like", q.photo = s.photo
                 PROVE  q = s
      BY DEF Asked
    <3>1. \A t \in requests : t.held /\ t.kind = "like" /\ t.photo = r.photo /\ r.held => t = r
      BY <1>1, <1>2 DEF HeartFollows, Asked
    <3>2. CASE q = a /\ s # a
      BY <1>1, <1>3, <3>1, <3>2
    <3>3. CASE s = a /\ q # a
      BY <1>1, <1>3, <3>1, <3>3
    <3>4. CASE q # a /\ s # a
      BY <1>1, <1>2, <3>4 DEF HeartFollows, Asked
    <3> QED  BY <3>2, <3>3, <3>4
  <2>3. ASSUME NEW p \in Cards \ astray
        PROVE  \/ \E q \in requests' : Done(q, "like", p) /\ ~q.held
               \/ \E q \in requests' : Done(q, "like", p) /\ q.held /\ (q.liked <=> p \in liked')
               \/ /\ \A q \in requests' : ~Done(q, "like", p)
                  /\ (p \in heart <=> p \in liked') /\ (p \in likers <=> p \in liked')
    <3>1. CASE p = r.photo
      <4>1. Done(a, "like", p) /\ a \in requests'
        BY <1>1, <1>3, <3>1 DEF Done, Asked
      <4>2. a.liked <=> p \in liked'
        BY <1>1, <1>3, <3>1
      <4> QED  BY <4>1, <4>2
    <3>2. CASE p # r.photo
      <4>1. (p \in liked' <=> p \in liked) /\ ~Done(a, "like", p) /\ ~Done(r, "like", p)
        BY <1>1, <1>3, <3>2 DEF Done, Asked
      <4> QED  BY <1>1, <1>2, <4>1 DEF HeartFollows
    <3> QED  BY <3>1, <3>2
  <2>4. UNCHANGED <<heart, likers, astray>>
    BY <1>1
  <2> QED  BY <2>1, <2>2, <2>3, <2>4 DEF HeartFollows
<1>6. CommentsFollow'
  <2>1. \A p \in Cards : SameAnswers(requests, requests', p) /\ SameAnswers(requests', requests, p)
    <3>1. \A p : ~Done(r, "post", p) /\ ~Done(r, "delete", p) /\ ~Done(a, "post", p) /\ ~Done(a, "delete", p)
      BY <1>1, <1>3 DEF Done, Asked
    <3> QED  BY <1>1, <3>1, OthersStay
  <2> QED  BY <1>1, <1>2, <2>1, CommentsUntouched
<1>7. Card!ThreadIsTheCards'
  BY <1>1, <1>2 DEF Card!ThreadIsTheCards
<1> QED  BY <1>4, <1>5, <1>6, <1>7 DEF CardInv

\* A comment is stored.
LEMMA PostKeeps ==
    ASSUME CardInv, NEW r \in requests, Card!Comment(r), Card!Serve(r)
    PROVE  CardInv'
<1> DEFINE id == 100 + r.n
           a == [r EXCEPT !.state = "done", !.row = id]
<1>1. /\ r.kind = "post" /\ r.state = "sent" /\ requests' = (requests \ {r}) \cup {a}
      /\ said' = [said EXCEPT ![r.photo] = @ \cup {id}]
      /\ UNCHANGED <<liked, heart, likers, payload, dialog, taps, astray, dropped, late>>
  BY DEF Card!Serve, Card!Comment, Card!Answer
<1>2. CardType /\ RequestsAreApart /\ HeartFollows /\ CommentsFollow /\ Card!ThreadIsTheCards
  BY DEF CardInv
<1>3. /\ a \in Asks(taps) /\ GoesOn(r, a) /\ a.kind = "post" /\ a.photo = r.photo
      /\ a.state = "done" /\ a.row = id /\ id \in Nat /\ r.photo \in Cards
  <2>1. r \in Asks(taps) /\ r.n \in Nat
    <3>1. r.n \in 1 .. taps /\ taps \in Nat
      BY <1>2, AskedTypes DEF CardType
    <3> QED  BY <1>2, <3>1, AskedTypes
  <2>2. id \in Nat
    BY <2>1
  <2> HIDE DEF id
  <2>3. a \in Asks(taps)
    BY <2>1, <2>2 DEF Asks
  <2>4. /\ a.n = r.n /\ a.kind = "post" /\ a.photo = r.photo /\ a.comment = r.comment
        /\ a.state = "done" /\ a.row = id /\ r.photo \in Cards
    BY <1>1, <2>1 DEF Asks
  <2>5. GoesOn(r, a)
    BY <1>1, <2>4 DEF GoesOn, id
  <2> QED  BY <2>2, <2>3, <2>4, <2>5
<1> HIDE DEF a
<1>4. RequestsAreApart' /\ CardType'
  <2>1. said' \in [Cards -> SUBSET Nat]
    BY <1>1, <1>2, <1>3 DEF CardType
  <2> QED  BY <1>1, <1>2, <1>3, <2>1, OneGoesOn DEF CardType
<1>5. HeartFollows'
  <2>1. {q \in requests' : q.kind = "like"} = {q \in requests : q.kind = "like"}
    BY <1>1, <1>3
  <2> QED  BY <1>1, <1>2, <2>1, HeartsUntouched
<1>6. CommentsFollow'
  <2>1. ASSUME NEW p \in Cards \ dropped
        PROVE  said'[p] = (Card!Elements(payload[p]) \cup PostRows(p)') \ DeleteRows(p)'
    <3>1. DeleteRows(p)' = DeleteRows(p)
      <4>1. ~Done(a, "delete", p) /\ ~Done(r, "delete", p)
        BY <1>1, <1>3 DEF Done, Asked
      <4> QED  BY <1>1, <4>1 DEF DeleteRows
    <3>2. CASE p = r.photo
      <4>1. PostRows(p)' = PostRows(p) \cup {id}
        <5>1. Done(a, "post", p) /\ ~Done(r, "post", p)
          BY <1>1, <1>3, <3>2 DEF Done, Asked
        <5> QED  BY <1>1, <1>3, <5>1 DEF PostRows
      <4>2. id \notin DeleteRows(p)
        BY <1>1, <1>2 DEF DeleteRows, RequestsAreApart, Done, Asked
      <4>3. said'[p] = said[p] \cup {id}
        BY <1>1, <1>2, <3>2 DEF CardType
      <4> QED  BY <1>2, <3>1, <4>1, <4>2, <4>3 DEF CommentsFollow
    <3>3. CASE p # r.photo
      <4>1. PostRows(p)' = PostRows(p)
        <5>1. ~Done(a, "post", p) /\ ~Done(r, "post", p)
          BY <1>1, <1>3, <3>3 DEF Done, Asked
        <5> QED  BY <1>1, <5>1 DEF PostRows
      <4>2. said'[p] = said[p]
        BY <1>1, <1>2, <3>3 DEF CardType
      <4> QED  BY <1>2, <3>1, <4>1, <4>2 DEF CommentsFollow
    <3> QED  BY <3>2, <3>3
  <2>2. UNCHANGED <<payload, dropped>>
    BY <1>1
  <2> QED  BY <1>2, <2>1, <2>2 DEF CommentsFollow
<1>7. Card!ThreadIsTheCards'
  BY <1>1, <1>2 DEF Card!ThreadIsTheCards
<1> QED  BY <1>4, <1>5, <1>6, <1>7 DEF CardInv

\* A comment is deleted, or was gone.
LEMMA DeleteKeeps ==
    ASSUME CardInv, NEW r \in requests, Card!Delete(r), Card!Serve(r)
    PROVE  CardInv'
<1> DEFINE gone == r.comment \notin said[r.photo]
           a == [r EXCEPT !.state = IF gone THEN "failed" ELSE "done"]
<1>1. /\ r.kind = "delete" /\ r.state = "sent" /\ requests' = (requests \ {r}) \cup {a}
      /\ said' = [said EXCEPT ![r.photo] = @ \ {r.comment}]
      /\ UNCHANGED <<liked, heart, likers, payload, dialog, taps, astray, dropped, late>>
  BY DEF Card!Serve, Card!Delete, Card!Answer
<1>2. CardType /\ RequestsAreApart /\ HeartFollows /\ CommentsFollow /\ Card!ThreadIsTheCards
  BY DEF CardInv
<1>3. /\ a \in Asks(taps) /\ GoesOn(r, a) /\ a.kind = "delete" /\ a.photo = r.photo
      /\ a.state = (IF gone THEN "failed" ELSE "done") /\ a.comment = r.comment /\ r.photo \in Cards
  <2>1. r \in Asks(taps)
    BY <1>2, AskedTypes
  <2> QED  BY <1>1, <2>1 DEF Asks, GoesOn
<1> HIDE DEF a
<1>4. RequestsAreApart' /\ CardType'
  <2>1. said' \in [Cards -> SUBSET Nat]
    BY <1>1, <1>2, <1>3 DEF CardType
  <2> QED  BY <1>1, <1>2, <1>3, <2>1, OneGoesOn DEF CardType
<1>5. HeartFollows'
  <2>1. {q \in requests' : q.kind = "like"} = {q \in requests : q.kind = "like"}
    BY <1>1, <1>3
  <2> QED  BY <1>1, <1>2, <2>1, HeartsUntouched
<1>6. CommentsFollow'
  <2>1. ASSUME NEW p \in Cards \ dropped
        PROVE  said'[p] = (Card!Elements(payload[p]) \cup PostRows(p)') \ DeleteRows(p)'
    <3>1. PostRows(p)' = PostRows(p)
      <4>1. ~Done(a, "post", p) /\ ~Done(r, "post", p)
        BY <1>1, <1>3 DEF Done, Asked
      <4> QED  BY <1>1, <4>1 DEF PostRows
    <3>2. ~Done(r, "delete", p) /\ (Done(a, "delete", p) <=> p = r.photo /\ ~gone)
      BY <1>1, <1>3 DEF Done, Asked
    <3>3. CASE p = r.photo /\ ~gone
      <4>1. DeleteRows(p)' = DeleteRows(p) \cup {r.comment}
        BY <1>1, <1>3, <3>2, <3>3 DEF DeleteRows
      <4>2. said'[p] = said[p] \ {r.comment}
        BY <1>1, <1>2, <3>3 DEF CardType
      <4> QED  BY <1>2, <3>1, <4>1, <4>2 DEF CommentsFollow
    <3>4. CASE ~(p = r.photo /\ ~gone)
      <4>1. DeleteRows(p)' = DeleteRows(p)
        BY <1>1, <3>2, <3>4 DEF DeleteRows
      <4>2. said'[p] = said[p]
        BY <1>1, <1>2, <3>4 DEF CardType
      <4> QED  BY <1>2, <3>1, <4>1, <4>2 DEF CommentsFollow
    <3> QED  BY <3>3, <3>4
  <2>2. UNCHANGED <<payload, dropped>>
    BY <1>1
  <2> QED  BY <1>2, <2>1, <2>2 DEF CommentsFollow
<1>7. Card!ThreadIsTheCards'
  BY <1>1, <1>2 DEF Card!ThreadIsTheCards
<1> QED  BY <1>4, <1>5, <1>6, <1>7 DEF CardInv

\* What is lost on its way back leaves its mark.
LEMMA LoseKeeps ==
    ASSUME CardInv, NEW r \in requests, Card!Lose(r)
    PROVE  CardInv'
<1> DEFINE a == [r EXCEPT !.state = "failed"]
<1>1. /\ r.state # "failed" /\ requests' = (requests \ {r}) \cup {a}
      /\ astray' = IF r.kind = "like" /\ r.state = "done" THEN astray \cup {r.photo} ELSE astray
      /\ dropped' = IF r.kind # "like" /\ r.state = "done" THEN dropped \cup {r.photo} ELSE dropped
      /\ UNCHANGED <<liked, said, heart, likers, payload, dialog, taps, late>>
  BY DEF Card!Lose, Card!Answer, Card!server
<1>2. CardType /\ RequestsAreApart /\ HeartFollows /\ CommentsFollow /\ Card!ThreadIsTheCards
  BY DEF CardInv
<1>3. /\ a \in Asks(taps) /\ GoesOn(r, a) /\ a.held = r.held /\ a.kind = r.kind /\ a.photo = r.photo
      /\ a.state = "failed" /\ a.comment = r.comment /\ a.drawn = r.drawn /\ r.photo \in Cards
  <2>1. r \in Asks(taps)
    BY <1>2, AskedTypes
  <2> QED  BY <1>1, <2>1 DEF Asks, GoesOn
<1> HIDE DEF a
<1>4. RequestsAreApart' /\ CardType'
  BY <1>1, <1>2, <1>3, OneGoesOn DEF CardType
<1>5. \A kind, p : ~Done(a, kind, p)
  BY <1>3 DEF Done
<1>6. HeartFollows'
  <2>1. \A q \in requests' : q.kind = "like" => q.drawn /\ q.comment = 0
    BY <1>1, <1>2, <1>3 DEF HeartFollows
  <2>2. \A q, s \in requests' : q.held /\ s.held /\ Asked(q, "like", s.photo) /\ s.kind = "like" => q = s
    <3> SUFFICES ASSUME NEW q \in requests', NEW s \in requests', q.held, s.held,
                        q.kind = "like", s.kind = "like", q.photo = s.photo
                 PROVE  q = s
      BY DEF Asked
    <3>1. \A t \in requests : t.held /\ t.kind = "like" /\ t.photo = r.photo /\ r.held /\ r.kind = "like" => t = r
      BY <1>1, <1>2 DEF HeartFollows, Asked
    <3>2. CASE q = a /\ s # a
      BY <1>1, <1>3, <3>1, <3>2
    <3>3. CASE s = a /\ q # a
      BY <1>1, <1>3, <3>1, <3>3
    <3>4. CASE q # a /\ s # a
      BY <1>1, <1>2, <3>4 DEF HeartFollows, Asked
    <3> QED  BY <3>2, <3>3, <3>4
  <2>3. ASSUME NEW p \in Cards \ astray'
        PROVE  \/ \E q \in requests' : Done(q, "like", p) /\ ~q.held
               \/ \E q \in requests' : Done(q, "like", p) /\ q.held /\ (q.liked <=> p \in liked)
               \/ /\ \A q \in requests' : ~Done(q, "like", p)
                  /\ (p \in heart <=> p \in liked) /\ (p \in likers <=> p \in liked)
    <3>1. p \notin astray /\ ~Done(r, "like", p)
      BY <1>1, <2>3 DEF Done, Asked
    <3> QED  BY <1>1, <1>2, <1>5, <3>1 DEF HeartFollows
  <2>4. UNCHANGED <<liked, heart, likers>>
    BY <1>1
  <2> QED  BY <2>1, <2>2, <2>3, <2>4 DEF HeartFollows
<1>7. CommentsFollow'
  <2>1. ASSUME NEW p \in Cards \ dropped'
        PROVE  SameAnswers(requests, requests', p) /\ SameAnswers(requests', requests, p)
    <3>1. ~Done(r, "post", p) /\ ~Done(r, "delete", p)
      BY <1>1, <2>1 DEF Done, Asked
    <3> QED  BY <1>1, <1>5, <3>1, OthersStay
  <2>2. dropped \subseteq dropped' /\ UNCHANGED <<said, payload>>
    BY <1>1
  <2> QED  BY <1>2, <2>1, <2>2, CommentsUntouched
<1>8. Card!ThreadIsTheCards'
  BY <1>1, <1>2 DEF Card!ThreadIsTheCards
<1> QED  BY <1>4, <1>6, <1>7, <1>8 DEF CardInv

\* The held answer paints the heart, another marks the photo.
LEMMA LikeAnsweredKeeps ==
    ASSUME CardInv, NEW r \in requests, Card!LikeAnswered(r)
    PROVE  CardInv'
<1>1. /\ r.kind = "like" /\ r.state = "done" /\ requests' = requests \ {r}
      /\ r.held => /\ heart' = IF r.liked THEN heart \cup {r.photo} ELSE heart \ {r.photo}
                   /\ likers' = IF r.liked THEN likers \cup {r.photo} ELSE likers \ {r.photo}
                   /\ astray' = astray
      /\ ~r.held => astray' = astray \cup {r.photo} /\ heart' = heart /\ likers' = likers
      /\ UNCHANGED <<liked, said, payload, dialog, taps, dropped, late>>
  BY DEF Card!LikeAnswered, Card!server
<1>2. CardType /\ RequestsAreApart /\ HeartFollows /\ CommentsFollow /\ Card!ThreadIsTheCards
  BY DEF CardInv
<1>3. r \in Asks(taps) /\ GoesOn(r, r) /\ r.held \in BOOLEAN
  BY <1>1, <1>2, AskedTypes DEF GoesOn
<1>4. RequestsAreApart' /\ CardType'
  BY <1>1, <1>2, <1>3, OneGoesOn DEF CardType
<1>5. HeartFollows'
  <2>1. requests' \subseteq requests
    BY <1>1
  <2>2. ASSUME NEW p \in Cards \ astray'
        PROVE  \/ \E q \in requests' : Done(q, "like", p) /\ ~q.held
               \/ \E q \in requests' : Done(q, "like", p) /\ q.held /\ (q.liked <=> p \in liked)
               \/ /\ \A q \in requests' : ~Done(q, "like", p)
                  /\ (p \in heart' <=> p \in liked) /\ (p \in likers' <=> p \in liked)
    <3>1. p \notin astray
      BY <1>1, <1>3, <2>2
    <3>2. CASE p # r.photo
      <4>1. ~Done(r, "like", p) /\ (p \in heart' <=> p \in heart) /\ (p \in likers' <=> p \in likers)
        BY <1>1, <1>3, <3>2 DEF Done, Asked
      <4> QED  BY <1>1, <1>2, <3>1, <4>1 DEF HeartFollows
    <3>3. CASE p = r.photo
      <4>1. r.held /\ Done(r, "like", p)
        BY <1>1, <1>3, <2>2, <3>3 DEF Done, Asked
      <4>2. CASE \E q \in requests : Done(q, "like", p) /\ ~q.held
        BY <1>1, <4>1, <4>2
      <4>3. CASE \A q \in requests : Done(q, "like", p) => q.held
        <5>1. \A q \in requests : Done(q, "like", p) => q = r
          BY <1>2, <3>3, <4>1, <4>3 DEF HeartFollows, Done, Asked
        <5>2. r.liked <=> p \in liked
          BY <1>2, <3>1, <4>1, <4>3, <5>1 DEF HeartFollows
        <5>3. (p \in heart' <=> p \in liked) /\ (p \in likers' <=> p \in liked)
          BY <1>1, <3>3, <4>1, <5>2
        <5> QED  BY <1>1, <5>1, <5>3
      <4> QED  BY <4>2, <4>3
    <3> QED  BY <3>2, <3>3
  <2>3. liked' = liked
    BY <1>1
  <2> QED  BY <1>2, <2>1, <2>2, <2>3 DEF HeartFollows
<1>6. CommentsFollow'
  <2>1. \A p \in Cards : SameAnswers(requests, requests', p) /\ SameAnswers(requests', requests, p)
    <3>1. \A p : ~Done(r, "post", p) /\ ~Done(r, "delete", p)
      BY <1>1 DEF Done, Asked
    <3> QED  BY <1>1, <3>1, OthersStay
  <2> QED  BY <1>1, <1>2, <2>1, CommentsUntouched
<1>7. Card!ThreadIsTheCards'
  BY <1>1, <1>2 DEF Card!ThreadIsTheCards
<1> QED  BY <1>4, <1>5, <1>6, <1>7 DEF CardInv

\* A thread drawn again: its delete forms are new ones.
LEMMA RedrawnRequests ==
    ASSUME CardType, RequestsAreApart, NEW f,
           f = [q \in requests |-> IF q.kind = "delete" THEN [q EXCEPT !.drawn = FALSE] ELSE q], NEW q \in requests
    PROVE  /\ f[q] \in Asks(taps) /\ GoesOn(q, f[q]) /\ f[q].state = q.state /\ f[q].row = q.row
           /\ (q.kind # "delete" => f[q] = q)
<1>1. q \in Asks(taps)
  BY AskedTypes
<1>2. q.kind = "post" /\ q.state = "done" => q.row = 100 + q.n
  BY DEF RequestsAreApart
<1>3. CASE q.kind = "delete"
  <2>1. f[q] = [q EXCEPT !.drawn = FALSE]
    BY <1>3
  <2> QED  BY <1>1, <1>2, <2>1 DEF Asks, GoesOn
<1>4. CASE q.kind # "delete"
  <2>1. f[q] = q
    BY <1>4
  <2> QED  BY <1>1, <1>2, <1>4, <2>1 DEF Asks, GoesOn
<1> QED  BY <1>3, <1>4

LEMMA RedrawnAnswers ==
    ASSUME CardType, RequestsAreApart, NEW R \in SUBSET requests
    PROVE  /\ Card!Redraw(R) \subseteq Asks(taps)
           /\ \A p : SameAnswers(R, Card!Redraw(R), p) /\ SameAnswers(Card!Redraw(R), R, p)
           /\ {q \in Card!Redraw(R) : q.kind = "like"} = {q \in R : q.kind = "like"}
<1> DEFINE f == [q \in requests |-> IF q.kind = "delete" THEN [q EXCEPT !.drawn = FALSE] ELSE q]
           T == Card!Redraw(R)
<1>0. T = {f[q] : q \in R}
  <2>1. ASSUME NEW t \in T PROVE t \in {f[q] : q \in R}
    BY <2>1 DEF Card!Redraw
  <2>2. ASSUME NEW q \in R PROVE f[q] \in T
    BY <2>2 DEF Card!Redraw
  <2> QED  BY <2>1, <2>2
<1> HIDE DEF T
<1>1. \A q \in R : /\ f[q] \in Asks(taps) /\ GoesOn(q, f[q]) /\ f[q].state = q.state /\ f[q].row = q.row
                   /\ (q.kind # "delete" => f[q] = q)
  BY RedrawnRequests
<1> HIDE DEF f
<1>2. \A q \in R : f[q].kind = q.kind /\ f[q].photo = q.photo /\ f[q].comment = q.comment
  BY <1>1 DEF GoesOn
<1>3. \A q \in R : \A kind, p : Done(q, kind, p) <=> Done(f[q], kind, p)
  BY <1>1, <1>2 DEF Done, Asked
<1>4. ASSUME NEW p PROVE SameAnswers(R, T, p) /\ SameAnswers(T, R, p)
  <2>1. SameAnswers(R, T, p)
    <3> SUFFICES ASSUME NEW q \in R, NEW kind \in {"post", "delete"}, Done(q, kind, p)
                 PROVE  \E t \in T : Done(t, kind, p) /\ t.row = q.row /\ t.comment = q.comment
      BY DEF SameAnswers
    <3>1. f[q] \in T /\ Done(f[q], kind, p) /\ f[q].row = q.row /\ f[q].comment = q.comment
      BY <1>0, <1>1, <1>2, <1>3
    <3> QED  BY <3>1
  <2>2. SameAnswers(T, R, p)
    <3> SUFFICES ASSUME NEW t \in T, NEW kind \in {"post", "delete"}, Done(t, kind, p)
                 PROVE  \E q \in R : Done(q, kind, p) /\ q.row = t.row /\ q.comment = t.comment
      BY DEF SameAnswers
    <3>1. PICK q \in R : t = f[q]
      BY <1>0
    <3>2. Done(q, kind, p) /\ t.row = q.row /\ t.comment = q.comment
      BY <1>1, <1>2, <1>3, <3>1
    <3> QED  BY <3>2
  <2> QED  BY <2>1, <2>2
<1>5. {q \in T : q.kind = "like"} = {q \in R : q.kind = "like"}
  <2>1. ASSUME NEW t \in T, t.kind = "like" PROVE t \in R
    <3>1. PICK q \in R : t = f[q]
      BY <1>0
    <3>2. q.kind = "like"
      BY <1>2, <2>1, <3>1
    <3> QED  BY <1>1, <3>1, <3>2
  <2>2. ASSUME NEW q \in R, q.kind = "like" PROVE q \in T
    <3>1. f[q] = q /\ f[q] \in T
      BY <1>0, <1>1, <2>2
    <3> QED  BY <3>1
  <2> QED  BY <2>1, <2>2
<1>6. T \subseteq Asks(taps)
  <2>1. \A q \in R : f[q] \in Asks(taps)
    BY <1>1
  <2> QED  BY <1>0, <2>1
<1> QED  BY <1>4, <1>5, <1>6 DEF T

\* The dialog is opened on a photo.
LEMMA DialogKeeps ==
    ASSUME CardInv, NEW p \in Cards, Card!openComments(p)
    PROVE  CardInv'
<1> DEFINE f == [q \in requests |-> IF q.kind = "delete" THEN [q EXCEPT !.drawn = FALSE] ELSE q]
<1>1. /\ dialog' = [photo |-> p, thread |-> payload[p], draft |-> dialog.draft /\ dialog.photo = p]
      /\ requests' = {f[q] : q \in requests} /\ requests' = Card!Redraw(requests) /\ late' = FALSE
      /\ UNCHANGED <<liked, said, heart, likers, payload, taps, astray, dropped>>
  <2>1. Card!Redraw(requests) = {f[q] : q \in requests}
    BY DEF Card!Redraw
  <2> HIDE DEF f
  <2> QED  BY <2>1 DEF Card!openComments, Card!Rendered, Card!server
<1>2. CardType /\ RequestsAreApart /\ HeartFollows /\ CommentsFollow /\ Card!ThreadIsTheCards
  BY DEF CardInv
<1>3. \A q \in requests : GoesOn(q, f[q])
  BY <1>2, RedrawnRequests
<1>4. /\ requests' \subseteq Asks(taps)
      /\ \A q : SameAnswers(requests, requests', q) /\ SameAnswers(requests', requests, q)
      /\ {q \in requests' : q.kind = "like"} = {q \in requests : q.kind = "like"}
  <2>1. requests \in SUBSET requests
    OBVIOUS
  <2> HIDE DEF f
  <2> QED  BY <1>1, <1>2, <2>1, RedrawnAnswers
<1> HIDE DEF f
<1>5. CardType'
  <2>1. dialog' \in [photo : Cards \cup {0}, thread : Seq(Ids(taps)), draft : BOOLEAN] /\ dialog'.photo # 0
    <3>1. p # 0
      BY NewsAssumption DEF NewsAssumption
    <3>2. payload[p] \in Seq(Ids(taps)) /\ (dialog.draft /\ dialog.photo = p) \in BOOLEAN
      BY <1>2 DEF CardType
    <3> QED  BY <1>1, <3>1, <3>2
  <2> QED  BY <1>1, <1>2, <1>4, <2>1 DEF CardType
<1>6. RequestsAreApart'
  <2>1. \A q \in requests : q.kind = "post" =>
            /\ \A s \in Cards : \A i \in 1 .. Len(payload'[s]) : payload'[s][i] # 100 + q.n
            /\ \A i \in 1 .. Len(dialog'.thread) : dialog'.thread[i] # 100 + q.n
    BY <1>1, <1>2 DEF RequestsAreApart
  <2> QED  BY <1>1, <1>2, <1>3, <2>1, RequestsGoOn
<1>7. HeartFollows'
  <2>1. UNCHANGED <<liked, heart, likers, astray>>
    BY <1>1
  <2> QED  BY <1>2, <1>4, <2>1, HeartsUntouched
<1>8. CommentsFollow'
  BY <1>1, <1>2, <1>4, CommentsUntouched
<1>9. Card!ThreadIsTheCards'
  BY <1>1 DEF Card!ThreadIsTheCards
<1> QED  BY <1>5, <1>6, <1>7, <1>8, <1>9 DEF CardInv

\* A posted comment's answer: the card has it, and the thread if it waits for it.
LEMMA PostAnsweredKeeps ==
    ASSUME CardInv, NEW r \in requests, Card!PostAnswered(r)
    PROVE  CardInv'
<1> DEFINE id == 100 + r.n
           card == payload[r.photo]
<1>1. /\ r.kind = "post" /\ r.state = "done" /\ requests' = requests \ {r}
      /\ payload' = [payload EXCEPT ![r.photo] = Append(@, r.row)]
      /\ UNCHANGED <<liked, said, heart, likers, taps, astray, dropped>>
      /\ IF r.held /\ dialog.photo = r.photo
         THEN dialog' = [dialog EXCEPT !.thread = Append(@, r.row), !.draft = FALSE] /\ late' = late
         ELSE late' = (late \/ dialog.photo = r.photo) /\ dialog' = dialog
  BY DEF Card!PostAnswered, Card!Current, Card!server
<1>2. CardType /\ RequestsAreApart /\ HeartFollows /\ CommentsFollow /\ Card!ThreadIsTheCards
  BY DEF CardInv
<1>3. r.row = id /\ id \in Ids(taps) /\ id \in Nat /\ r.photo \in Cards /\ r.photo # 0 /\ r.n \in Nat
  <2>1. r.n \in 1 .. taps /\ taps \in Nat /\ r.photo \in Cards
    BY <1>2, AskedTypes DEF CardType
  <2>2. r.photo # 0
    BY <2>1, NewsAssumption DEF NewsAssumption
  <2> QED  BY <1>1, <1>2, <2>1, <2>2 DEF RequestsAreApart, Ids
<1>4. /\ payload' \in [Cards -> Seq(Ids(taps))] /\ payload'[r.photo] = Append(card, id)
      /\ \A p \in Cards \ {r.photo} : payload'[p] = payload[p]
      /\ card \in Seq(Ids(taps))
  <2>1. payload \in [Cards -> Seq(Ids(taps))]
    BY <1>2 DEF CardType
  <2> HIDE DEF id
  <2>2. Append(payload[r.photo], id) \in Seq(Ids(taps))
    BY <1>3, <2>1
  <2> QED  BY <1>1, <1>3, <2>1, <2>2
<1>5. /\ dialog' \in [photo : Cards \cup {0}, thread : Seq(Ids(taps)), draft : BOOLEAN]
      /\ dialog'.photo = dialog.photo
      /\ dialog'.photo = 0 => dialog'.thread = <<>> /\ ~dialog'.draft
      /\ dialog'.thread = dialog.thread \/ dialog'.thread = Append(dialog.thread, id)
      /\ dialog.thread \in Seq(Ids(taps)) /\ late' \in BOOLEAN
  <2>1. dialog \in [photo : Cards \cup {0}, thread : Seq(Ids(taps)), draft : BOOLEAN]
    BY <1>2 DEF CardType
  <2> HIDE DEF id
  <2>2. CASE r.held /\ dialog.photo = r.photo
    <3>1. dialog' = [dialog EXCEPT !.thread = Append(@, id), !.draft = FALSE] /\ late' = late
      BY <1>1, <1>3, <2>2
    <3>2. Append(dialog.thread, id) \in Seq(Ids(taps))
      BY <1>3, <2>1
    <3> QED  BY <1>2, <1>3, <2>1, <2>2, <3>1, <3>2 DEF CardType
  <2>3. CASE ~(r.held /\ dialog.photo = r.photo)
    BY <1>1, <1>2, <2>1, <2>3 DEF CardType
  <2> QED  BY <2>2, <2>3
<1>6. CardType'
  BY <1>1, <1>2, <1>4, <1>5 DEF CardType
<1>7. ASSUME NEW q \in requests', q.kind = "post"
      PROVE  /\ \A p \in Cards : \A i \in 1 .. Len(payload'[p]) : payload'[p][i] # 100 + q.n
             /\ \A i \in 1 .. Len(dialog'.thread) : dialog'.thread[i] # 100 + q.n
  <2>1. q \in requests /\ q.n \in Nat /\ q.n # r.n
    <3>1. q \in requests /\ q # r
      BY <1>1
    <3>2. q.n \in 1 .. taps /\ taps \in Nat
      BY <1>2, <3>1, AskedTypes DEF CardType
    <3> QED  BY <1>2, <3>1, <3>2 DEF RequestsAreApart
  <2>2. id # 100 + q.n
    BY <1>3, <2>1
  <2>3. /\ \A p \in Cards : \A i \in 1 .. Len(payload[p]) : payload[p][i] # 100 + q.n
        /\ \A i \in 1 .. Len(dialog.thread) : dialog.thread[i] # 100 + q.n
    BY <1>2, <1>7, <2>1 DEF RequestsAreApart
  <2> DEFINE other == 100 + q.n
  <2>4. ASSUME NEW s \in Seq(Ids(taps)), \A i \in 1 .. Len(s) : s[i] # other
        PROVE  \A i \in 1 .. Len(Append(s, id)) : Append(s, id)[i] # other
    <3> HIDE DEF other, id
    <3> QED  BY <1>3, <2>2, <2>4 DEF id, other
  <2>5. \A p \in Cards : \A i \in 1 .. Len(payload'[p]) : payload'[p][i] # other
    <3>1. \A i \in 1 .. Len(card) : card[i] # other
      BY <1>3, <2>3
    <3> HIDE DEF id, other, card
    <3>2. \A i \in 1 .. Len(Append(card, id)) : Append(card, id)[i] # other
      BY <1>4, <2>4, <3>1
    <3> QED  BY <1>4, <2>3, <3>2 DEF other
  <2>6. \A i \in 1 .. Len(dialog'.thread) : dialog'.thread[i] # other
    <3>1. \A i \in 1 .. Len(dialog.thread) : dialog.thread[i] # other
      BY <2>3
    <3> HIDE DEF id, other
    <3> QED  BY <1>5, <2>4, <3>1
  <2> QED  BY <2>5, <2>6
<1> HIDE DEF id
<1>8. RequestsAreApart'
  <2> DEFINE f == [q \in requests |-> q]
  <2>1. requests' \subseteq {f[q] : q \in requests} /\ \A q \in requests : f[q] = q
    BY <1>1
  <2>2. \A q \in requests : GoesOn(q, f[q])
    BY <1>2 DEF GoesOn, RequestsAreApart
  <2>3. \A q \in requests : q.kind = "post" /\ f[q] \in requests' =>
            /\ \A p \in Cards : \A i \in 1 .. Len(payload'[p]) : payload'[p][i] # 100 + q.n
            /\ \A i \in 1 .. Len(dialog'.thread) : dialog'.thread[i] # 100 + q.n
    BY <1>7
  <2> HIDE DEF f
  <2> QED  BY <1>2, <2>1, <2>2, <2>3, RequestsGoOn
<1>9. HeartFollows'
  <2>1. {q \in requests' : q.kind = "like"} = {q \in requests : q.kind = "like"}
    BY <1>1
  <2> QED  BY <1>1, <1>2, <2>1, HeartsUntouched
<1>10. CommentsFollow'
  <2>1. Card!Elements(Append(card, id)) = Card!Elements(card) \cup {id}
    <3>1. DOMAIN Append(card, id) = 1 .. Len(card) + 1 /\ Append(card, id)[Len(card) + 1] = id
      BY <1>3, <1>4
    <3>2. DOMAIN card = 1 .. Len(card) /\ \A i \in 1 .. Len(card) : Append(card, id)[i] = card[i]
      BY <1>3, <1>4
    <3>3. Len(card) \in Nat
      BY <1>4
    <3> HIDE DEF card
    <3>4. 1 .. Len(card) + 1 = (1 .. Len(card)) \cup {Len(card) + 1}
      BY <3>3
    <3> QED  BY <3>1, <3>2, <3>4 DEF Card!Elements
  <2>2. Distinct(Append(card, id))
    <3>1. Distinct(card) /\ \A i \in 1 .. Len(card) : card[i] # id
      BY <1>1, <1>2, <1>3 DEF CommentsFollow, RequestsAreApart, id
    <3> HIDE DEF card
    <3> QED  BY <1>3, <1>4, <3>1 DEF Distinct
  <2>3. \A p \in Cards : Distinct(payload'[p])
    BY <1>2, <1>4, <2>2 DEF CommentsFollow
  <2>4. ASSUME NEW p \in Cards \ dropped
        PROVE  said[p] = (Card!Elements(payload'[p]) \cup PostRows(p)') \ DeleteRows(p)'
    <3>1. DeleteRows(p)' = DeleteRows(p)
      BY <1>1 DEF DeleteRows, Done, Asked
    <3>2. CASE p = r.photo
      <4>1. PostRows(p) = PostRows(p)' \cup {id}
        <5>1. Done(r, "post", p)
          BY <1>1, <3>2 DEF Done, Asked
        <5> QED  BY <1>1, <1>3, <5>1 DEF PostRows
      <4>2. Card!Elements(payload'[p]) = Card!Elements(payload[p]) \cup {id}
        BY <1>4, <2>1, <3>2
      <4> QED  BY <1>2, <3>1, <4>1, <4>2 DEF CommentsFollow
    <3>3. CASE p # r.photo
      <4>1. PostRows(p)' = PostRows(p)
        <5>1. ~Done(r, "post", p)
          BY <1>1, <3>3 DEF Done, Asked
        <5> QED  BY <1>1, <5>1 DEF PostRows
      <4>2. payload'[p] = payload[p]
        BY <1>4, <3>3
      <4> QED  BY <1>2, <3>1, <4>1, <4>2 DEF CommentsFollow
    <3> QED  BY <3>2, <3>3
  <2>5. UNCHANGED <<said, dropped>>
    BY <1>1
  <2> QED  BY <2>3, <2>4, <2>5 DEF CommentsFollow
<1>11. Card!ThreadIsTheCards'
  <2> SUFFICES ASSUME dialog'.photo # 0, ~late' PROVE dialog'.thread = payload'[dialog'.photo]
    BY DEF Card!ThreadIsTheCards, Card!Nothing
  <2>1. ~late /\ dialog.photo # 0 /\ dialog.photo \in Cards
    BY <1>1, <1>2, <1>5 DEF CardType
  <2>2. dialog.thread = payload[dialog.photo]
    BY <1>2, <2>1 DEF Card!ThreadIsTheCards, Card!Nothing
  <2>3. CASE r.held /\ dialog.photo = r.photo
    <3>1. dialog'.thread = Append(dialog.thread, id)
      <4>1. dialog \in [photo : Cards \cup {0}, thread : Seq(Ids(taps)), draft : BOOLEAN]
        BY <1>2 DEF CardType
      <4> QED  BY <1>1, <1>3, <2>3, <4>1
    <3> QED  BY <1>4, <1>5, <2>2, <2>3, <3>1
  <2>4. CASE ~(r.held /\ dialog.photo = r.photo)
    BY <1>1, <1>4, <1>5, <2>1, <2>2, <2>4
  <2> QED  BY <2>3, <2>4
<1> QED  BY <1>6, <1>8, <1>9, <1>10, <1>11 DEF CardInv

\* A deleted comment's answer: the card lets it go, and the thread is drawn
\* again if it waits for it.
LEMMA DeleteAnsweredKeeps ==
    ASSUME CardInv, NEW r \in requests, Card!DeleteAnswered(r)
    PROVE  CardInv'
<1> DEFINE c == r.comment
           card == payload[r.photo]
           less == Card!Without(card, c)
           f == [q \in requests |-> IF q.kind = "delete" THEN [q EXCEPT !.drawn = FALSE] ELSE q]
           drawn == r.held /\ dialog.photo = r.photo
<1>1. /\ r.kind = "delete" /\ r.state = "done"
      /\ payload' = [payload EXCEPT ![r.photo] = Card!Without(@, c)]
      /\ UNCHANGED <<liked, said, heart, likers, taps, astray, dropped>>
      /\ IF drawn
         THEN /\ dialog' = [photo |-> r.photo, thread |-> less, draft |-> dialog.draft /\ dialog.photo = r.photo]
              /\ requests' = {f[q] : q \in requests \ {r}} /\ requests' = Card!Redraw(requests \ {r}) /\ late' = FALSE
         ELSE /\ late' = (late \/ dialog.photo = r.photo) /\ requests' = requests \ {r} /\ dialog' = dialog
  <2>1. Card!Redraw(requests \ {r}) = {f[q] : q \in requests \ {r}}
    BY DEF Card!Redraw
  <2> HIDE DEF f
  <2> QED  BY <2>1 DEF Card!DeleteAnswered, Card!Current, Card!server, Card!Rendered
<1>2. CardType /\ RequestsAreApart /\ HeartFollows /\ CommentsFollow /\ Card!ThreadIsTheCards
  BY DEF CardInv
<1>3. r.photo \in Cards /\ r.photo # 0 /\ card \in Seq(Ids(taps))
  <2>1. r.photo \in Cards
    BY <1>2, AskedTypes
  <2>2. r.photo # 0
    BY <2>1, NewsAssumption DEF NewsAssumption
  <2> QED  BY <1>2, <2>1, <2>2 DEF CardType
<1>4. /\ less \in Seq(Ids(taps)) /\ Card!Elements(less) = Card!Elements(card) \ {c}
      /\ Distinct(card) => Distinct(less)
      /\ \A n \in 1 .. Len(less) : \E i \in 1 .. Len(card) : less[n] = card[i]
  <2> HIDE DEF card
  <2> QED  BY <1>3, FilteredSequence
<1>5. /\ payload' \in [Cards -> Seq(Ids(taps))] /\ payload'[r.photo] = less
      /\ \A p \in Cards \ {r.photo} : payload'[p] = payload[p]
  <2>1. payload \in [Cards -> Seq(Ids(taps))]
    BY <1>2 DEF CardType
  <2>2. payload' = [payload EXCEPT ![r.photo] = less]
    BY <1>1
  <2> HIDE DEF less
  <2> QED  BY <1>3, <1>4, <2>1, <2>2
<1>6. /\ requests' \subseteq Asks(taps)
      /\ \A p : SameAnswers(requests \ {r}, requests', p) /\ SameAnswers(requests', requests \ {r}, p)
      /\ {q \in requests' : q.kind = "like"} = {q \in requests : q.kind = "like"}
  <2>1. {q \in requests \ {r} : q.kind = "like"} = {q \in requests : q.kind = "like"}
    BY <1>1
  <2>2. CASE drawn
    <3>1. requests' = Card!Redraw(requests \ {r}) /\ requests \ {r} \in SUBSET requests
      BY <1>1, <2>2
    <3> HIDE DEF f
    <3> QED  BY <1>2, <2>1, <3>1, RedrawnAnswers
  <2>3. CASE ~drawn
    <3>1. requests' = requests \ {r}
      BY <1>1, <2>3
    <3> QED  BY <1>2, <2>1, <3>1 DEF SameAnswers, CardType
  <2> QED  BY <2>2, <2>3
<1>7. \A q \in requests : GoesOn(q, f[q]) /\ GoesOn(q, q)
  <2>1. \A q \in requests : GoesOn(q, f[q])
    BY <1>2, RedrawnRequests
  <2>2. \A q \in requests : GoesOn(q, q)
    BY <1>2 DEF GoesOn, RequestsAreApart
  <2> QED  BY <2>1, <2>2
<1> HIDE DEF f
<1>8. /\ dialog' \in [photo : Cards \cup {0}, thread : Seq(Ids(taps)), draft : BOOLEAN]
      /\ dialog'.photo = 0 => dialog'.thread = <<>> /\ ~dialog'.draft
      /\ late' \in BOOLEAN /\ dialog'.photo = dialog.photo
      /\ drawn => dialog'.thread = less
      /\ ~drawn => dialog' = dialog
  <2>1. dialog \in [photo : Cards \cup {0}, thread : Seq(Ids(taps)), draft : BOOLEAN]
    BY <1>2 DEF CardType
  <2> HIDE DEF less
  <2>2. CASE drawn
    <3>1. dialog' = [photo |-> r.photo, thread |-> less, draft |-> dialog.draft /\ dialog.photo = r.photo] /\ late' = FALSE
      BY <1>1, <2>2 DEF less
    <3>2. (dialog.draft /\ dialog.photo = r.photo) \in BOOLEAN
      BY <2>1
    <3> QED  BY <1>3, <1>4, <2>2, <3>1, <3>2
  <2>3. CASE ~drawn
    BY <1>1, <1>2, <2>1, <2>3 DEF CardType
  <2> QED  BY <2>2, <2>3
<1>9. CardType'
  BY <1>1, <1>2, <1>5, <1>6, <1>8 DEF CardType
<1>10. RequestsAreApart'
  <2>1. ASSUME NEW q \in requests, q.kind = "post"
        PROVE  /\ \A p \in Cards : \A i \in 1 .. Len(payload'[p]) : payload'[p][i] # 100 + q.n
               /\ \A i \in 1 .. Len(dialog'.thread) : dialog'.thread[i] # 100 + q.n
    <3>1. /\ \A p \in Cards : \A i \in 1 .. Len(payload[p]) : payload[p][i] # 100 + q.n
          /\ \A i \in 1 .. Len(dialog.thread) : dialog.thread[i] # 100 + q.n
      BY <1>2, <2>1 DEF RequestsAreApart
    <3>2. \A i \in 1 .. Len(less) : less[i] # 100 + q.n
      <4>1. \A i \in 1 .. Len(card) : card[i] # 100 + q.n
        BY <1>3, <3>1
      <4> HIDE DEF less, card
      <4> QED  BY <1>4, <4>1
    <3> HIDE DEF less
    <3> QED  BY <1>5, <1>8, <3>1, <3>2
  <2>2. CASE drawn
    <3>1. requests' \subseteq {f[q] : q \in requests}
      BY <1>1, <2>2
    <3> QED  BY <1>2, <1>7, <2>1, <3>1, RequestsGoOn
  <2>3. CASE ~drawn
    <3> DEFINE g == [q \in requests |-> q]
    <3>1. requests' \subseteq {g[q] : q \in requests} /\ \A q \in requests : g[q] = q
      BY <1>1, <2>3
    <3> HIDE DEF g
    <3>2. \A q \in requests : GoesOn(q, g[q])
      BY <1>7, <3>1
    <3> QED  BY <1>2, <2>1, <3>1, <3>2, RequestsGoOn
  <2> QED  BY <2>2, <2>3
<1>11. HeartFollows'
  BY <1>1, <1>2, <1>6, HeartsUntouched
<1>12. CommentsFollow'
  <2>1. \A p \in Cards : Distinct(payload'[p])
    <3> HIDE DEF less
    <3>1. Distinct(card)
      BY <1>2, <1>3 DEF CommentsFollow
    <3> QED  BY <1>2, <1>4, <1>5, <3>1 DEF CommentsFollow
  <2>2. ASSUME NEW p \in Cards \ dropped
        PROVE  said[p] = (Card!Elements(payload'[p]) \cup PostRows(p)') \ DeleteRows(p)'
    <3> DEFINE others == requests \ {r}
               theirs == {q.comment : q \in {s \in others : Done(s, "delete", p)}}
    <3>1. PostRows(p)' = {q.row : q \in {s \in requests' : Done(s, "post", p)}}
      BY DEF PostRows, Done, Asked
    <3>2. DeleteRows(p)' = {q.comment : q \in {s \in requests' : Done(s, "delete", p)}}
      BY DEF DeleteRows, Done, Asked
    <3>3. PostRows(p)' = PostRows(p)
      <4>1. PostRows(p) = {q.row : q \in {s \in others : Done(s, "post", p)}}
        BY <1>1 DEF PostRows, Done, Asked
      <4> HIDE DEF others
      <4>2. SameAnswers(others, requests', p) /\ SameAnswers(requests', others, p)
        BY <1>6 DEF others
      <4> QED  BY <3>1, <4>1, <4>2 DEF SameAnswers
    <3>4. DeleteRows(p)' = theirs
      <4> HIDE DEF others
      <4>1. SameAnswers(others, requests', p) /\ SameAnswers(requests', others, p)
        BY <1>6 DEF others
      <4> QED  BY <3>2, <4>1 DEF SameAnswers
    <3>5. CASE p = r.photo
      <4>1. DeleteRows(p) = theirs \cup {c}
        <5>1. Done(r, "delete", p)
          BY <1>1, <3>5 DEF Done, Asked
        <5> QED  BY <5>1 DEF DeleteRows
      <4>2. c \notin PostRows(p)
        BY <1>1, <1>2 DEF PostRows, RequestsAreApart, Done, Asked
      <4>3. Card!Elements(payload'[p]) = Card!Elements(payload[p]) \ {c}
        BY <1>4, <1>5, <3>5
      <4> HIDE DEF theirs
      <4> QED  BY <1>2, <3>3, <3>4, <4>1, <4>2, <4>3 DEF CommentsFollow
    <3>6. CASE p # r.photo
      <4>1. DeleteRows(p) = theirs
        <5>1. ~Done(r, "delete", p)
          BY <1>1, <3>6 DEF Done, Asked
        <5> QED  BY <5>1 DEF DeleteRows
      <4>2. payload'[p] = payload[p]
        BY <1>5, <3>6
      <4> HIDE DEF theirs
      <4> QED  BY <1>2, <3>3, <3>4, <4>1, <4>2 DEF CommentsFollow
    <3> QED  BY <3>5, <3>6
  <2>3. UNCHANGED <<said, dropped>>
    BY <1>1
  <2> QED  BY <2>1, <2>2, <2>3 DEF CommentsFollow
<1>13. Card!ThreadIsTheCards'
  <2> SUFFICES ASSUME dialog'.photo # 0, ~late' PROVE dialog'.thread = payload'[dialog'.photo]
    BY DEF Card!ThreadIsTheCards, Card!Nothing
  <2> HIDE DEF less
  <2>1. CASE drawn
    BY <1>5, <1>8, <2>1
  <2>2. CASE ~drawn
    <3>1. dialog.photo # r.photo /\ ~late /\ dialog.photo \in Cards /\ dialog' = dialog
      BY <1>1, <1>2, <1>8, <2>2 DEF CardType
    <3>2. dialog.thread = payload[dialog.photo]
      BY <1>2, <1>8, <3>1 DEF Card!ThreadIsTheCards, Card!Nothing
    <3> QED  BY <1>5, <3>1, <3>2
  <2> QED  BY <2>1, <2>2
<1> QED  BY <1>9, <1>10, <1>11, <1>12, <1>13 DEF CardInv

LEMMA CardStep ==
    ASSUME CardInv, Card!CardNext
    PROVE  CardInv'
<1>1. ASSUME NEW p \in Cards, Card!toggleLike(p) PROVE CardInv'
  BY <1>1, SendKeeps DEF Card!toggleLike, Card!Nothing
<1>2. ASSUME NEW p \in Cards, Card!openComments(p) PROVE CardInv'
  BY <1>2, DialogKeeps
<1>3. CASE Card!Type
  BY <1>3, TypeKeeps
<1>4. CASE Card!postComment
  <2>1. dialog.draft /\ Card!Send("post", dialog.photo, 0)
    BY <1>4 DEF Card!postComment, Card!Nothing
  <2>2. dialog.photo \in Cards
    BY <2>1 DEF CardInv, CardType
  <2> QED  BY <2>1, <2>2, SendKeeps
<1>5. ASSUME NEW c \in Card!Elements(dialog.thread), Card!deleteComment(c) PROVE CardInv'
  <2>1. Card!Send("delete", dialog.photo, c)
    BY <1>5 DEF Card!deleteComment
  <2>2. PICK i \in DOMAIN dialog.thread : c = dialog.thread[i]
    BY <1>5 DEF Card!Elements
  <2>3. dialog.thread \in Seq(Ids(taps)) /\ dialog.thread # <<>>
    BY <2>2 DEF CardInv, CardType
  <2>4. c \in Ids(taps) /\ dialog.photo \in Cards
    <3>1. i \in 1 .. Len(dialog.thread)
      BY <2>2, <2>3
    <3>2. dialog.photo \in Cards
      BY <2>3 DEF CardInv, CardType
    <3> QED  BY <2>2, <2>3, <3>1, <3>2, ElementOfSeq
  <2> QED  BY <1>5, <2>1, <2>4, SendKeeps
<1>6. ASSUME NEW r \in requests,
             \/ Card!Watchdog(r) \/ Card!Serve(r) \/ Card!Lose(r) \/ Card!LikeAnswered(r)
             \/ Card!PostAnswered(r) \/ Card!DeleteAnswered(r) \/ Card!Failed(r)
      PROVE  CardInv'
  <2>1. ASSUME Card!Serve(r) PROVE CardInv'
    <3>1. Card!Toggle(r) \/ Card!Comment(r) \/ Card!Delete(r)
      BY <2>1 DEF Card!Serve
    <3> QED  BY <2>1, <3>1, ToggleKeeps, PostKeeps, DeleteKeeps
  <2> QED  BY <1>6, <2>1, WatchdogKeeps, LoseKeeps, LikeAnsweredKeeps, PostAnsweredKeeps,
              DeleteAnsweredKeeps, FailedKeeps
<1> QED  BY <1>1, <1>2, <1>3, <1>4, <1>5, <1>6 DEF Card!CardNext

LEMMA CardShows ==
    CardInv => Card!HeartIsTrue /\ Card!CardIsTrue /\ Card!ThreadIsTheCards
<1> SUFFICES ASSUME CardInv PROVE Card!HeartIsTrue /\ Card!CardIsTrue /\ Card!ThreadIsTheCards
  OBVIOUS
<1>1. Card!HeartIsTrue
  <2> SUFFICES ASSUME NEW p \in Cards \ astray, ~Card!Open({"like"}, p)
               PROVE  (p \in heart <=> p \in liked) /\ (p \in likers <=> p \in liked)
    BY DEF Card!HeartIsTrue
  <2>1. \A r \in requests : ~Done(r, "like", p)
    BY DEF Card!Open, Done, Asked
  <2> QED  BY <2>1 DEF CardInv, HeartFollows
<1>2. Card!CardIsTrue
  <2>1. ASSUME NEW p \in Cards PROVE \A i, j \in DOMAIN payload[p] : payload[p][i] = payload[p][j] => i = j
    <3>1. DOMAIN payload[p] = 1 .. Len(payload[p])
      BY DEF CardInv, CardType
    <3> QED  BY <3>1 DEF CardInv, CommentsFollow, Distinct
  <2>2. ASSUME NEW p \in Cards, p \notin dropped, ~Card!Open({"post", "delete"}, p)
        PROVE  Card!Elements(payload[p]) = said[p]
    <3>1. PostRows(p) = {} /\ DeleteRows(p) = {}
      BY <2>2 DEF PostRows, DeleteRows, Done, Asked, Card!Open
    <3> QED  BY <2>2, <3>1 DEF CardInv, CommentsFollow
  <2> QED  BY <2>1, <2>2 DEF Card!CardIsTrue
<1> QED  BY <1>1, <1>2 DEF CardInv

CardsInv == part = "card" => CardInv

LEMMA CardsStart ==
    NewsInit => CardsInv
<1> QED  BY CardStart DEF NewsInit, CardsInv

LEMMA CardsStep ==
    CardsInv /\ [NewsNext]_<<part, vars, cardVars, slideVars, reportVars, beaconVars>> => CardsInv'
<1> SUFFICES ASSUME CardsInv, [NewsNext]_<<part, vars, cardVars, slideVars, reportVars, beaconVars>>
             PROVE  CardsInv'
  OBVIOUS
<1>1. part' = part
  BY DEF NewsNext
<1>2. ASSUME part = "card" PROVE Card!CardNext \/ UNCHANGED cardVars
  BY <1>2 DEF NewsNext
<1>3. ASSUME CardInv, UNCHANGED cardVars PROVE CardInv'
  <2>1. UNCHANGED <<liked, said, heart, likers, payload, dialog, requests, taps, astray, dropped, late>>
    BY <1>3 DEF cardVars
  <2>2. CardType' /\ RequestsAreApart' /\ HeartFollows'
    BY <1>3, <2>1 DEF CardInv, CardType, RequestsAreApart, HeartFollows
  <2>3. CommentsFollow'
    BY <1>3, <2>1 DEF CardInv, CommentsFollow, PostRows, DeleteRows
  <2>4. Card!ThreadIsTheCards'
    BY <1>3, <2>1 DEF CardInv, Card!ThreadIsTheCards
  <2> QED  BY <2>2, <2>3, <2>4 DEF CardInv
<1> QED  BY <1>1, <1>2, <1>3, CardStep DEF CardsInv

(* However many cards, taps and answers, in whatever order they come: with *)
(* every answer in, a heart and the guest's name among the likers are what *)
(* the row is, unless an answer was lost or came when the form had been    *)
(* given back; a card has the guest's comments on its photo, each once; and*)
(* the shared dialog shows those of its own photo (public/js/feed.js).     *)
THEOREM CardsAreAlwaysTrue ==
    NewsSpec => []CardsAreTrue
<1>1. CardsInv => CardsAreTrue
  BY CardShows DEF CardsInv, CardsAreTrue
<1> QED  BY <1>1, CardsStart, CardsStep, PTL DEF NewsSpec
=============================================================================
