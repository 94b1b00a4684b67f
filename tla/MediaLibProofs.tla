---------------------------- MODULE MediaLibProofs ----------------------------
(***************************************************************************)
(* MediaLib keeps its table typed, counted and a tree, and the library     *)
(* durable and exact: TypeOK, RefCounts, Tree, Durable and ScanExact, for  *)
(* any names, any disk, any directories scanned, any length of path, depth *)
(* of recursion and growth of the table, from Premises, which among others *)
(* exclude two of the ways in which the writing of the file may fail.      *)
(*                                                                         *)
(* First the table: paths, and what each operation of DirDb does to the    *)
(* tree and, given an account w of the handles others hold, to the counts  *)
(* (Counts).  Then its loops, the file, and the library read off a table.  *)
(* Then the scan: the account of its handles (Wanted), what its calls have *)
(* still to look at (WalkOK), and what those of the submit will come to    *)
(* (Reached).  Then the inductive invariant IInv, a lemma for each action, *)
(* and the theorems.  At last what a scan leaves in the library: what has  *)
(* been tagged so far (Walked), what has been handed over (Handed).        *)
(*                                                                         *)
(* A recursive function is used through the function it is: that it exists *)
(* is shown by the least length for which it would not.                    *)
(***************************************************************************)
EXTENDS MediaLib, FiniteSetTheorems, SequenceTheorems, WellFoundedInduction, TLAPS
-----------------------------------------------------------------------------
(* A table of entries; paths as the names from the drive on. *)
Size(t) == Cardinality(DOMAIN t)
AllNames == Names \cup {Drive[1], NoName}
Entry == [name : AllNames, parent : Int, mdbref : Int, newmdbref : Int, refcount : Int]
Table(t) == Size(t) \in Nat /\ t \in [0 .. Size(t) - 1 -> Entry]

(* p gives the path of every name in the table.                            *)
PathStep(t, p, i) ==
  IF t[i].parent \in Named(t) THEN Append(p[t[i].parent], t[i].name) ELSE <<t[i].name>>
IsPaths(t, p) == p = [i \in Named(t) |-> PathStep(t, p, i)]
Paths(t) == CHOOSE p : IsPaths(t, p)

(* The names hang in the tree of the drive, every path once.               *)
Hangs(t, p) ==
  /\ p \in [Named(t) -> Seq(AllNames)] /\ IsPaths(t, p)
  /\ \A m, n \in Named(t) : p[m] = p[n] => m = n
  /\ \A n \in Named(t) : Len(p[n]) >= 1 /\ p[n][1] = Drive[1]
Sane(t) ==
  /\ Table(t)
  /\ 0 \in Named(t) /\ t[0].parent = NoParent /\ t[0].name = Drive[1]
  /\ \A i \in Named(t) : i # 0 => t[i].parent \in Named(t)
  /\ \A i \in Holes(t) : t[i].parent = 0
  /\ Hangs(t, Paths(t))
-----------------------------------------------------------------------------
(* The order of the naturals, for inductions. *)
LEMMA NatWellFounded == IsWellFoundedOn({xy \in Nat \X Nat : xy[1] < xy[2]}, Nat)
BY NatLessThanWellFounded DEF OpToRel

(* A set of naturals has a least member. *)
LEMMA HasLeast ==
  ASSUME NEW S \in SUBSET Nat, S # {}
  PROVE  \E x \in S : \A y \in S : x <= y
<1> DEFINE R == {xy \in Nat \X Nat : xy[1] < xy[2]}
<1>0. IsWellFoundedOn(R, Nat)
  BY NatWellFounded
<1> HIDE DEF R
<1>1. PICK x \in S : \A y \in S : ~(<<y, x>> \in R)
  BY <1>0, WFMin
<1>2. ASSUME NEW y \in S PROVE x <= y
  <2>1. <<y, x>> \notin R
    BY <1>1
  <2>2. QED BY <2>1 DEF R
<1>3. QED BY <1>2

(* Lowest, which Submit and Grown use, is that member. *)
LEMMA LowestIs ==
  ASSUME NEW S \in SUBSET Nat, S # {}
  PROVE  Lowest(S) \in S /\ \A y \in S : Lowest(S) <= y
BY HasLeast DEF Lowest

(* A table from 0 to n - 1 has n entries. *)
LEMMA SizeIs ==
  ASSUME NEW t, NEW n \in Nat, DOMAIN t = 0 .. n - 1
  PROVE  Size(t) = n
<1>1. Cardinality(0 .. n - 1) = IF 0 > n - 1 THEN 0 ELSE (n - 1) - 0 + 1
  BY FS_Interval
<1>2. QED BY <1>1 DEF Size

(* The same, with entries of the right type. *)
LEMMA TableIs ==
  ASSUME NEW t, NEW n \in Nat, t \in [0 .. n - 1 -> Entry]
  PROVE  Table(t) /\ Size(t) = n
<1>1. Size(t) = n
  BY SizeIs
<1>2. QED BY <1>1 DEF Table

(* What is in a table has the type of an entry. *)
LEMMA InTable ==
  ASSUME NEW t, Table(t)
  PROVE  /\ DOMAIN t = 0 .. Size(t) - 1 /\ Named(t) \subseteq DOMAIN t /\ DOMAIN t \subseteq Nat
         /\ \A i \in DOMAIN t : t[i] \in Entry /\ t[i].name \in AllNames /\ t[i].parent \in Int
                                /\ t[i].refcount \in Int /\ t[i].mdbref \in Int
                                /\ t[i].newmdbref \in Int
         /\ IsFiniteSet(DOMAIN t) /\ IsFiniteSet(Named(t))
<1>1. DOMAIN t = 0 .. Size(t) - 1 /\ \A i \in DOMAIN t : t[i] \in Entry
  BY DEF Table
<1>2. IsFiniteSet(0 .. Size(t) - 1)
  BY FS_Interval DEF Table
<1>3. Named(t) \subseteq DOMAIN t
  BY DEF Named
<1>4. IsFiniteSet(Named(t))
  BY <1>1, <1>2, <1>3, FS_Subset
<1>5. DOMAIN t \subseteq Nat
  BY <1>1 DEF Table
<1>6. QED BY <1>1, <1>2, <1>3, <1>4, <1>5 DEF Entry

(* What Append does, one index at a time. *)
LEMMA AppendIs ==
  ASSUME NEW S, NEW s \in Seq(S), NEW e \in S
  PROVE  /\ Append(s, e) \in Seq(S) /\ Len(s) \in Nat /\ Len(Append(s, e)) = Len(s) + 1
         /\ \A i \in 1 .. Len(s) : Append(s, e)[i] = s[i]
         /\ Append(s, e)[Len(s) + 1] = e
<1>1. /\ Append(s, e) \in Seq(S)
      /\ Len(Append(s, e)) = Len(s) + 1
      /\ \A i \in 1 .. Len(s) : Append(s, e)[i] = s[i]
      /\ Append(s, e)[Len(s) + 1] = e
  BY AppendProperties
<1>2. Len(s) \in Nat
  BY LenProperties
<1>3. QED BY <1>1, <1>2

(* The path of one name. *)
LEMMA PathsAt ==
  ASSUME NEW t, NEW p, IsPaths(t, p), NEW i \in Named(t)
  PROVE  p[i] = PathStep(t, p, i)
BY DEF IsPaths

(* There is only one function that gives the paths. *)
LEMMA OnePaths ==
  ASSUME NEW t, NEW p, NEW q, Table(t), p \in [Named(t) -> Seq(AllNames)],
         IsPaths(t, p), IsPaths(t, q)
  PROVE  q = p
<1>1. DOMAIN p = Named(t) /\ DOMAIN q = Named(t) /\ q = [i \in Named(t) |-> q[i]]
                          /\ p = [i \in Named(t) |-> p[i]]
  BY DEF IsPaths
<1>2. SUFFICES ASSUME \E i \in Named(t) : q[i] # p[i] PROVE FALSE
  BY <1>1
<1> DEFINE Bad == {Len(p[i]) : i \in {j \in Named(t) : q[j] # p[j]}}
<1>3. Bad \in SUBSET Nat /\ Bad # {}
  <2>1. \A i \in Named(t) : Len(p[i]) \in Nat
    BY LenProperties
  <2>2. QED BY <2>1, <1>2
<1>4. PICK x \in Bad : \A y \in Bad : x <= y
  BY <1>3, HasLeast
<1>5. PICK i \in Named(t) : q[i] # p[i] /\ Len(p[i]) = x
  BY <1>4
<1>6. p[i] = PathStep(t, p, i) /\ q[i] = PathStep(t, q, i)
  BY PathsAt
<1>7. t[i].parent \in Named(t) /\ q[t[i].parent] # p[t[i].parent]
  BY <1>5, <1>6 DEF PathStep
<1> DEFINE m == t[i].parent
<1>8. Len(p[m]) \in Bad
  BY <1>7
<1>9. p[m] \in Seq(AllNames) /\ p[i] = Append(p[m], t[i].name) /\ t[i].name \in AllNames
  BY <1>6, <1>7, InTable DEF PathStep
<1> HIDE DEF m, Bad
<1>10. Len(p[i]) = Len(p[m]) + 1 /\ Len(p[m]) \in Nat
  BY <1>9, AppendIs
<1>11. QED BY <1>4, <1>5, <1>8, <1>10

(* So Paths is the one that is found. *)
LEMMA PathsAre ==
  ASSUME NEW t, NEW p, Table(t), p \in [Named(t) -> Seq(AllNames)], IsPaths(t, p)
  PROVE  Paths(t) = p
BY OnePaths DEF Paths

(* dirdbGetFullName is that path. *)
LEMMA FullNameIs ==
  ASSUME NEW t, NEW n
  PROVE  FullName(t, n) = Paths(t)[n]
BY DEF FullName, Paths, IsPaths, PathStep
-----------------------------------------------------------------------------
KidCount(t, n) == Cardinality(Children(t, n))

(* The children of an entry are finitely many. *)
LEMMA KidsAre ==
  ASSUME NEW t, Table(t), NEW n
  PROVE  /\ IsFiniteSet(Children(t, n)) /\ KidCount(t, n) \in Nat
         /\ Children(t, n) # {} => KidCount(t, n) >= 1
<1>1. Children(t, n) \subseteq Named(t)
  BY DEF Children
<1>2. IsFiniteSet(Children(t, n))
  BY <1>1, InTable, FS_Subset
<1>3. KidCount(t, n) \in Nat
  BY <1>2, FS_CardinalityType DEF KidCount
<1>4. Children(t, n) # {} => KidCount(t, n) # 0
  BY <1>2, FS_EmptySet DEF KidCount
<1>5. QED BY <1>2, <1>3, <1>4

(* An entry that is not in use. *)
LEMMA HoleIs ==
  /\ Hole \in Entry /\ Hole.name = NoName /\ Hole.parent = 0 /\ Hole.refcount = 0
  /\ Hole.mdbref = NoRef /\ Hole.newmdbref = NoRef /\ NoRef \in Int /\ NoName \in AllNames
BY DEF Hole, AllNames, Entry, NoRef

(* Only counts and references differ.                                      *)
Alike(t, u) ==
  /\ DOMAIN u = DOMAIN t
  /\ \A i \in DOMAIN t : u[i].name = t[i].name /\ u[i].parent = t[i].parent

(* The same names have the same children, *)
LEMMA AlikeNames ==
  ASSUME NEW t, NEW u, Alike(t, u)
  PROVE  /\ Named(u) = Named(t) /\ Holes(u) = Holes(t)
         /\ \A n : Children(u, n) = Children(t, n)
         /\ \A n : KidCount(u, n) = KidCount(t, n)
<1>1. Named(u) = Named(t) /\ DOMAIN u = DOMAIN t
  BY DEF Alike, Named
<1>2. \A i \in Named(t) : u[i].parent = t[i].parent
  BY DEF Alike, Named
<1>3. \A n : Children(u, n) = Children(t, n)
  BY <1>1, <1>2 DEF Children
<1>4. QED BY <1>1, <1>3 DEF Holes, KidCount

(* and the same paths. *)
LEMMA AlikeIsSane ==
  ASSUME NEW t, NEW u, Sane(t), Table(u), Alike(t, u)
  PROVE  Sane(u) /\ Paths(u) = Paths(t)
<1>1. Named(u) = Named(t) /\ Holes(u) = Holes(t) /\ DOMAIN u = DOMAIN t
  BY AlikeNames DEF Alike
<1>2. /\ \A i \in Named(t) : u[i].parent = t[i].parent /\ u[i].name = t[i].name
      /\ \A i \in Holes(t) : u[i].parent = t[i].parent
  BY DEF Alike, Named, Holes
<1> DEFINE p == Paths(t)
<1>3. Hangs(t, p)
  BY DEF Sane
<1> HIDE DEF p
<1>4. \A i \in Named(u) : PathStep(u, p, i) = PathStep(t, p, i)
  BY <1>1, <1>2 DEF PathStep
<1>5. IsPaths(u, p)
  BY <1>1, <1>3, <1>4 DEF IsPaths, Hangs
<1>6. Hangs(u, p)
  BY <1>1, <1>3, <1>5 DEF Hangs
<1>7. Paths(u) = p
  BY <1>6, PathsAre DEF Hangs
<1>8. Sane(u)
  BY <1>1, <1>2, <1>6, <1>7 DEF Sane
<1>9. QED BY <1>7, <1>8 DEF p

(* An entry that nothing hangs on goes.                                    *)
Without(t, m) == [t EXCEPT ![m] = Hole]

(* The tree without a leaf is a tree, *)
LEMMA DroppedIsSane ==
  ASSUME NEW t, Sane(t), NEW m \in Named(t), m # 0, Children(t, m) = {},
         NEW u, u = Without(t, m)
  PROVE  /\ Sane(u) /\ DOMAIN u = DOMAIN t /\ Named(u) = Named(t) \ {m}
         /\ \A i \in Named(u) : Paths(u)[i] = Paths(t)[i]
<1>1. /\ Table(t) /\ DOMAIN t = 0 .. Size(t) - 1 /\ m \in DOMAIN t /\ Size(t) \in Nat
      /\ t \in [0 .. Size(t) - 1 -> Entry]
  BY InTable DEF Sane, Table
<1>2. u \in [0 .. Size(t) - 1 -> Entry]
  BY <1>1, HoleIs DEF Without
<1>3. Table(u) /\ DOMAIN u = DOMAIN t
  BY <1>1, <1>2, TableIs
<1>4. u[m] = Hole /\ \A i \in DOMAIN t : i # m => u[i] = t[i]
  BY <1>1 DEF Without
<1>5. Named(u) = Named(t) \ {m}
  BY <1>3, <1>4, HoleIs DEF Named
<1>6. \A i \in Named(u) : u[i] = t[i] /\ i \in DOMAIN t
  BY <1>4, <1>5, <1>3 DEF Named
<1> DEFINE p == Paths(t)
           q == [i \in Named(u) |-> p[i]]
<1>7. Hangs(t, p)
  BY DEF Sane
<1>8. \A i \in Named(u) : q[i] = p[i]
  OBVIOUS
<1>9. q \in [Named(u) -> Seq(AllNames)] /\ q = [i \in Named(u) |-> q[i]]
  BY <1>5, <1>7 DEF Hangs
<1> HIDE DEF p, q
<1>10. ASSUME NEW i \in Named(u) PROVE q[i] = PathStep(u, q, i)
  <2>1. p[i] = PathStep(t, p, i)
    BY <1>5, <1>7 DEF Hangs, IsPaths
  <2>2. t[i].parent \in Named(t) => t[i].parent # m
    BY <1>5 DEF Children
  <2>3. t[i].parent \in Named(t) <=> u[i].parent \in Named(u)
    BY <2>2, <1>5, <1>6
  <2>4. QED BY <2>1, <2>3, <1>6, <1>8 DEF PathStep
<1>11. IsPaths(u, q)
  BY <1>9, <1>10 DEF IsPaths
<1>12. Hangs(u, q)
  BY <1>5, <1>7, <1>8, <1>9, <1>11 DEF Hangs
<1>13. Paths(u) = q
  BY <1>3, <1>9, <1>11, PathsAre
<1>14. ASSUME NEW i \in Named(u), i # 0 PROVE u[i].parent \in Named(u)
  <2>1. t[i].parent \in Named(t) /\ t[i].parent # m
    BY <1>5, <1>14 DEF Sane, Children
  <2>2. QED BY <2>1, <1>5, <1>6
<1>15. ASSUME NEW i \in Holes(u) PROVE u[i].parent = 0
  <2>1. i = m \/ (i \in Holes(t) /\ u[i] = t[i])
    BY <1>3, <1>4, <1>5 DEF Holes
  <2>2. QED BY <2>1, <1>4, HoleIs DEF Sane
<1>16. 0 \in Named(u) /\ u[0].parent = NoParent /\ u[0].name = Drive[1]
  BY <1>5, <1>6 DEF Sane
<1>17. Sane(u)
  BY <1>3, <1>12, <1>13, <1>14, <1>15, <1>16 DEF Sane
<1>18. QED BY <1>3, <1>5, <1>8, <1>13, <1>17 DEF p

(* in which its parent has a child less. *)
LEMMA DroppedKids ==
  ASSUME NEW t, Table(t), NEW m \in Named(t),
         NEW u, u = Without(t, m)
  PROVE  \A n : KidCount(u, n) = IF n = t[m].parent THEN KidCount(t, n) - 1 ELSE KidCount(t, n)
<1>1. m \in DOMAIN t /\ DOMAIN u = DOMAIN t /\ t \in [0 .. Size(t) - 1 -> Entry]
  BY InTable DEF Table, Without
<1>2. u[m] = Hole /\ \A i \in DOMAIN t : i # m => u[i] = t[i]
  BY <1>1 DEF Without
<1>3. Named(u) = Named(t) \ {m}
  BY <1>1, <1>2, HoleIs DEF Named
<1>4. ASSUME NEW n PROVE Children(u, n) = Children(t, n) \ {m}
  <2>1. \A i \in Named(u) : u[i] = t[i]
    BY <1>1, <1>2, <1>3 DEF Named
  <2>2. QED BY <2>1, <1>3 DEF Children
<1>5. ASSUME NEW n
      PROVE KidCount(u, n) = IF n = t[m].parent THEN KidCount(t, n) - 1 ELSE KidCount(t, n)
  <2>1. m \in Children(t, n) <=> n = t[m].parent
    BY DEF Children
  <2>2. IsFiniteSet(Children(t, n))
    BY KidsAre
  <2>3. QED BY <1>4, <2>1, <2>2, FS_RemoveElement DEF KidCount
<1>6. QED BY <1>5

-----------------------------------------------------------------------------
(* An entry is counted for its mdbref and, while a scan runs, for its tag,  *)
(* for every entry below it, and w[n] times for the handles others hold.    *)
Tagged(e, scanning) == e.mdbref # NoRef \/ (scanning /\ e.newmdbref # NoRef)
Tag(e, scanning) == IF Tagged(e, scanning) THEN 1 ELSE 0
Owed(t, w, scanning, n) == KidCount(t, n) + Tag(t[n], scanning) + w[n]
Fits(r, c, exact) == r >= c /\ (exact => r = c)
Handles == [Int -> Nat]
Plus(w, n) == [w EXCEPT ![n] = @ + 1]
Counts(t, w, scanning, exact) ==
  /\ \A n \in Named(t) : Fits(t[n].refcount, Owed(t, w, scanning, n), exact)
  /\ \A n \in Holes(t) : Fits(t[n].refcount, 0, exact)
  /\ \A n \in Int : w[n] > 0 /\ n # NoParent => n \in Named(t)

(* Entries keep everything but their count; some may go that nobody wants. *)
Keeps(e, f) ==
  f.name = e.name /\ f.parent = e.parent /\ f.mdbref = e.mdbref /\ f.newmdbref = e.newmdbref
Recounted(t, u) == DOMAIN u = DOMAIN t /\ \A i \in DOMAIN t : Keeps(t[i], u[i])
Shrunk(t, u, scanning) ==
  /\ DOMAIN u = DOMAIN t
  /\ \A i \in DOMAIN t : \/ Keeps(t[i], u[i])
                         \/ i \in Named(t) /\ Keeps(Hole, u[i]) /\ ~Tagged(t[i], scanning)

(* A count and what it should be may grow together. *)
LEMMA FitsMore ==
  ASSUME NEW r \in Int, NEW c \in Int, NEW d \in Int, NEW exact, Fits(r, c, exact)
  PROVE  Fits(r + d, c + d, exact)
BY DEF Fits

(* One handle more of one entry. *)
LEMMA PlusIs ==
  ASSUME NEW w \in Handles, NEW n \in Int
  PROVE  /\ Plus(w, n) \in Handles /\ Plus(w, n)[n] = w[n] + 1
         /\ \A m \in Int : w[m] \in Nat /\ (m # n => Plus(w, n)[m] = w[m])
BY DEF Plus, Handles

(* What an entry is owed is a natural. *)
LEMMA OwedIs ==
  ASSUME NEW t, Table(t), NEW w \in Handles, NEW n \in DOMAIN t, NEW scanning
  PROVE  /\ KidCount(t, n) \in Nat /\ Tag(t[n], scanning) \in {0, 1} /\ w[n] \in Nat
         /\ Owed(t, w, scanning, n) \in Nat /\ t[n].refcount \in Int /\ n \in Nat
<1>1. n \in Nat /\ t[n].refcount \in Int
  BY InTable
<1>2. w[n] \in Nat
  BY <1>1 DEF Handles
<1>3. KidCount(t, n) \in Nat
  BY KidsAre
<1>4. QED BY <1>1, <1>2, <1>3 DEF Owed, Tag

(* New counts leave all the rest. *)
LEMMA RecountedIs ==
  ASSUME NEW t, NEW u, Recounted(t, u)
  PROVE  /\ Alike(t, u)
         /\ \A s : Shrunk(t, u, s)
         /\ \A s : \A i \in DOMAIN t : Tagged(u[i], s) = Tagged(t[i], s) /\ Tag(u[i], s) = Tag(t[i], s)
<1>1. Alike(t, u) /\ \A s : Shrunk(t, u, s)
  BY DEF Recounted, Alike, Shrunk, Keeps
<1>2. \A s : \A i \in DOMAIN t : Tagged(u[i], s) = Tagged(t[i], s)
  BY DEF Recounted, Keeps, Tagged
<1>3. QED BY <1>1, <1>2 DEF Tag

(* What shrinks twice has shrunk. *)
LEMMA ShrunkTrans ==
  ASSUME NEW t, NEW u, NEW v, NEW s, Shrunk(t, u, s), Shrunk(u, v, s)
  PROVE  Shrunk(t, v, s)
<1>1. DOMAIN v = DOMAIN t /\ DOMAIN u = DOMAIN t
  BY DEF Shrunk
<1>2. ASSUME NEW i \in DOMAIN t
      PROVE  Keeps(t[i], v[i]) \/ (i \in Named(t) /\ Keeps(Hole, v[i]) /\ ~Tagged(t[i], s))
  <2>1. CASE Keeps(t[i], u[i])
    <3>1. Tagged(u[i], s) = Tagged(t[i], s) /\ (i \in Named(u) => i \in Named(t))
      BY <2>1, <1>1 DEF Keeps, Tagged, Named
    <3>2. Keeps(u[i], v[i]) \/ (i \in Named(u) /\ Keeps(Hole, v[i]) /\ ~Tagged(u[i], s))
      BY <1>1 DEF Shrunk
    <3>3. QED BY <2>1, <3>1, <3>2 DEF Keeps
  <2>2. CASE i \in Named(t) /\ Keeps(Hole, u[i]) /\ ~Tagged(t[i], s)
    <3>1. i \notin Named(u)
      BY <2>2, HoleIs DEF Named, Keeps
    <3>2. Keeps(u[i], v[i])
      BY <3>1, <1>1 DEF Shrunk
    <3>3. QED BY <2>2, <3>2 DEF Keeps
  <2>3. QED BY <2>1, <2>2 DEF Shrunk
<1>3. QED BY <1>1, <1>2 DEF Shrunk

(* An entry with another count. *)
Recount(t, n, c) == [t EXCEPT ![n].refcount = c]

(* A new count leaves the table a table, *)
LEMMA RecountIn ==
  ASSUME NEW S, NEW t \in [S -> Entry], NEW n \in S, NEW c \in Int
  PROVE  Recount(t, n, c) \in [S -> Entry]
<1> DEFINE e == [t[n] EXCEPT !.refcount = c]
<1>1. e \in Entry
  BY DEF Entry
<1>2. [t EXCEPT ![n] = e] \in [S -> Entry]
  BY <1>1
<1>3. QED BY <1>2 DEF Recount

(* dirdbRef.                                                               *)
LEMMA RefIs ==
  ASSUME NEW t, Table(t), NEW n \in DOMAIN t, NEW c \in Int, NEW u, u = Recount(t, n, c)
  PROVE  /\ Table(u) /\ Recounted(t, u) /\ u[n].refcount = c
         /\ \A i \in DOMAIN t : i # n => u[i] = t[i]
<1>1. t \in [0 .. Size(t) - 1 -> Entry] /\ DOMAIN t = 0 .. Size(t) - 1 /\ Size(t) \in Nat
  BY InTable DEF Table
<1>2. u \in [0 .. Size(t) - 1 -> Entry]
  BY <1>1, RecountIn
<1>3. Table(u) /\ DOMAIN u = DOMAIN t
  BY <1>1, <1>2, TableIs
<1>4. \A i \in DOMAIN t : Keeps(t[i], u[i]) /\ (i # n => u[i] = t[i])
  BY <1>1, <1>3 DEF Entry, Keeps, Recount
<1>5. u[n].refcount = c
  BY <1>1 DEF Entry, Recount
<1>6. QED BY <1>3, <1>4, <1>5 DEF Recounted

(* dirdbRef counts the handle it gives. *)
LEMMA CountsRef ==
  ASSUME NEW t, Table(t), NEW n \in Named(t), NEW w \in Handles, NEW s, NEW x, Counts(t, w, s, x)
  PROVE  Table(Ref(t, n)) /\ Recounted(t, Ref(t, n)) /\ Counts(Ref(t, n), Plus(w, n), s, x)
<1> DEFINE u == Ref(t, n)
           v == Plus(w, n)
<1>1. n \in DOMAIN t /\ n \in Int /\ DOMAIN t \subseteq Int
  BY InTable
<1>2. /\ Table(u) /\ Recounted(t, u) /\ u[n].refcount = t[n].refcount + 1
      /\ \A i \in DOMAIN t : i # n => u[i] = t[i]
  <2>1. t[n].refcount + 1 \in Int
    BY <1>1, InTable
  <2>2. QED BY <1>1, <2>1, RefIs DEF Ref, Recount
<1>3. v \in Handles /\ v[n] = w[n] + 1 /\ \A m \in Int : w[m] \in Nat /\ (m # n => v[m] = w[m])
  BY <1>1, PlusIs
<1> HIDE DEF u, v
<1>4. /\ Named(u) = Named(t) /\ Holes(u) = Holes(t) /\ \A m : KidCount(u, m) = KidCount(t, m)
      /\ \A i \in DOMAIN t : Tag(u[i], s) = Tag(t[i], s)
  BY <1>2, RecountedIs, AlikeNames
<1>5. ASSUME NEW m \in Named(u) PROVE Fits(u[m].refcount, Owed(u, v, s, m), x)
  <2>1. m \in DOMAIN t /\ Fits(t[m].refcount, Owed(t, w, s, m), x)
    BY <1>4, InTable DEF Counts
  <2>2. /\ KidCount(t, m) \in Nat /\ Tag(t[m], s) \in {0, 1} /\ w[m] \in Nat
        /\ Owed(t, w, s, m) \in Int /\ t[m].refcount \in Int /\ m \in Int
    BY <2>1, OwedIs
  <2>3. CASE m = n
    <3>1. Owed(u, v, s, m) = Owed(t, w, s, m) + 1
      BY <2>1, <2>2, <2>3, <1>3, <1>4 DEF Owed
    <3>2. QED BY <2>1, <2>2, <2>3, <3>1, <1>2, FitsMore
  <2>4. CASE m # n
    <3>1. Owed(u, v, s, m) = Owed(t, w, s, m)
      BY <2>1, <2>2, <2>4, <1>3, <1>4 DEF Owed
    <3>2. QED BY <2>1, <2>4, <3>1, <1>2
  <2>5. QED BY <2>3, <2>4
<1>6. ASSUME NEW m \in Holes(u) PROVE Fits(u[m].refcount, 0, x)
  <2>1. m \in Holes(t) /\ m \in DOMAIN t /\ m # n
    BY <1>4 DEF Holes
  <2>2. QED BY <2>1, <1>2 DEF Counts
<1>7. ASSUME NEW m \in Int, v[m] > 0, m # NoParent PROVE m \in Named(u)
  <2>1. m = n \/ w[m] > 0
    BY <1>3, <1>7
  <2>2. QED BY <2>1, <1>4, <1>7 DEF Counts
<1>8. Counts(u, v, s, x)
  BY <1>5, <1>6, <1>7 DEF Counts
<1>9. QED BY <1>2, <1>8 DEF u, v

(* dirdbUnref, of one entry; the handle that goes is counted by Plus.      *)
LEMMA StepFrees ==
  ASSUME NEW t, Sane(t), NEW w \in Handles, w[0] >= 1, NEW s, NEW x,
         NEW n \in Named(t), Counts(t, Plus(w, n), s, x), t[n].refcount = 1,
         NEW u, u = Without(t, n)
  PROVE  LET m == t[n].parent IN
         /\ Sane(u) /\ m \in Named(u) /\ Counts(u, Plus(w, m), s, x) /\ Shrunk(t, u, s)
         /\ Named(u) = Named(t) \ {n} /\ \A i \in Named(u) : Paths(u)[i] = Paths(t)[i]
<1> DEFINE m == t[n].parent
           wn == Plus(w, n)
           wm == Plus(w, m)
<1>1. Table(t) /\ n \in DOMAIN t /\ n \in Int /\ DOMAIN t \subseteq Int /\ m \in Int
  BY InTable DEF Sane
<1>2. wn \in Handles /\ wn[n] = w[n] + 1 /\ \A i \in Int : w[i] \in Nat /\ (i # n => wn[i] = w[i])
  BY <1>1, PlusIs
<1>3. wm \in Handles /\ wm[m] = w[m] + 1 /\ \A i \in Int : i # m => wm[i] = w[i]
  BY <1>1, PlusIs
<1>4. KidCount(t, n) = 0 /\ Tag(t[n], s) = 0 /\ w[n] = 0
  <2>1. Fits(1, Owed(t, wn, s, n), x)
    BY DEF Counts
  <2>2. KidCount(t, n) \in Nat /\ Tag(t[n], s) \in {0, 1} /\ w[n] \in Nat
    BY <1>1, <1>2, OwedIs
  <2> HIDE DEF wn
  <2>3. QED BY <2>1, <2>2, <1>2 DEF Fits, Owed
<1>5. n # 0 /\ Children(t, n) = {} /\ ~Tagged(t[n], s)
  BY <1>1, <1>4, KidsAre DEF Tag
<1>6. /\ Sane(u) /\ DOMAIN u = DOMAIN t /\ Named(u) = Named(t) \ {n}
      /\ \A i \in Named(u) : Paths(u)[i] = Paths(t)[i]
  BY <1>5, DroppedIsSane
<1>7. m \in Named(u)
  <2>1. m \in Named(t) /\ m # n
    BY <1>5 DEF Sane, Children
  <2>2. QED BY <2>1, <1>6
<1>8. u[n] = Hole /\ \A i \in DOMAIN t : i # n => u[i] = t[i]
  BY <1>1 DEF Sane, Table, Without
<1>9. Shrunk(t, u, s)
  BY <1>5, <1>6, <1>8 DEF Shrunk, Keeps
<1>10. \A i : KidCount(u, i) = IF i = m THEN KidCount(t, i) - 1 ELSE KidCount(t, i)
  BY <1>1, DroppedKids
<1> HIDE DEF wn, wm
<1>11. ASSUME NEW i \in Named(u) PROVE Fits(u[i].refcount, Owed(u, wm, s, i), x)
  <2>1. i \in Named(t) /\ i # n /\ u[i] = t[i] /\ i \in DOMAIN t /\ i \in Int
    BY <1>1, <1>6, <1>8, InTable
  <2>2. KidCount(t, i) \in Nat /\ Tag(t[i], s) \in {0, 1} /\ w[i] \in Nat
    BY <1>1, <2>1, OwedIs
  <2>3. Owed(u, wm, s, i) = Owed(t, wn, s, i)
    BY <2>1, <2>2, <1>2, <1>3, <1>10 DEF Owed
  <2>4. QED BY <2>1, <2>3 DEF Counts, wn
<1>12. ASSUME NEW i \in Holes(u) PROVE Fits(u[i].refcount, 0, x)
  <2>1. i = n \/ (i \in Holes(t) /\ u[i] = t[i])
    BY <1>6, <1>8 DEF Holes
  <2>2. QED BY <2>1, <1>8, HoleIs DEF Counts, Fits
<1>13. ASSUME NEW i \in Int, wm[i] > 0, i # NoParent PROVE i \in Named(u)
  <2>1. CASE i = m
    BY <2>1, <1>7
  <2>2. CASE i # m
    <3>1. i # n /\ wn[i] > 0
      BY <2>2, <1>2, <1>3, <1>4, <1>13
    <3>2. QED BY <3>1, <1>6, <1>13 DEF Counts, wn
  <2>3. QED BY <2>1, <2>2
<1>14. Counts(u, wm, s, x)
  BY <1>11, <1>12, <1>13 DEF Counts
<1>15. QED BY <1>6, <1>7, <1>9, <1>14 DEF wm

(* dirdbUnref of an entry with another reference only counts. *)
LEMMA StepCounts ==
  ASSUME NEW t, Sane(t), NEW w \in Handles, NEW s, NEW x,
         NEW n \in Named(t), Counts(t, Plus(w, n), s, x),
         NEW u, u = Recount(t, n, t[n].refcount - 1)
  PROVE  /\ Sane(u) /\ Counts(u, w, s, x) /\ Recounted(t, u)
         /\ Named(u) = Named(t) /\ Paths(u) = Paths(t)
<1> DEFINE wn == Plus(w, n)
<1>1. Table(t) /\ n \in DOMAIN t /\ n \in Int /\ DOMAIN t \subseteq Int /\ t[n].refcount \in Int
  BY InTable DEF Sane
<1>2. wn \in Handles /\ wn[n] = w[n] + 1 /\ \A i \in Int : w[i] \in Nat /\ (i # n => wn[i] = w[i])
  BY <1>1, PlusIs
<1>3. /\ Table(u) /\ Recounted(t, u) /\ u[n].refcount = t[n].refcount - 1
      /\ \A i \in DOMAIN t : i # n => u[i] = t[i]
  <2>1. t[n].refcount - 1 \in Int
    BY <1>1
  <2>2. QED BY <1>1, <2>1, RefIs
<1> HIDE DEF wn
<1>4. /\ Named(u) = Named(t) /\ Holes(u) = Holes(t) /\ \A m : KidCount(u, m) = KidCount(t, m)
      /\ \A i \in DOMAIN t : Tag(u[i], s) = Tag(t[i], s)
      /\ Sane(u) /\ Paths(u) = Paths(t)
  BY <1>3, RecountedIs, AlikeNames, AlikeIsSane
<1>5. ASSUME NEW m \in Named(u) PROVE Fits(u[m].refcount, Owed(u, w, s, m), x)
  <2>1. m \in DOMAIN t /\ Fits(t[m].refcount, Owed(t, wn, s, m), x)
    BY <1>1, <1>4, InTable DEF Counts, wn
  <2>2. /\ KidCount(t, m) \in Nat /\ Tag(t[m], s) \in {0, 1} /\ w[m] \in Nat
        /\ Owed(t, wn, s, m) \in Int /\ t[m].refcount \in Int /\ m \in Int
    BY <1>1, <1>2, <2>1, OwedIs
  <2>3. CASE m = n
    <3>1. Owed(u, w, s, m) = Owed(t, wn, s, m) - 1
      BY <2>1, <2>2, <2>3, <1>2, <1>4 DEF Owed
    <3>2. QED BY <2>1, <2>2, <2>3, <3>1, <1>3 DEF Fits
  <2>4. CASE m # n
    <3>1. Owed(u, w, s, m) = Owed(t, wn, s, m)
      BY <2>1, <2>2, <2>4, <1>2, <1>4 DEF Owed
    <3>2. QED BY <2>1, <2>4, <3>1, <1>3
  <2>5. QED BY <2>3, <2>4
<1>6. ASSUME NEW m \in Holes(u) PROVE Fits(u[m].refcount, 0, x)
  <2>1. m \in Holes(t) /\ m \in DOMAIN t /\ m # n
    BY <1>4 DEF Holes
  <2>2. QED BY <2>1, <1>3 DEF Counts
<1>7. ASSUME NEW m \in Int, w[m] > 0, m # NoParent PROVE m \in Named(u)
  <2>1. wn[m] > 0
    BY <1>2, <1>7
  <2>2. QED BY <2>1, <1>4, <1>7 DEF Counts, wn
<1>8. Counts(u, w, s, x)
  BY <1>5, <1>6, <1>7 DEF Counts
<1>9. QED BY <1>3, <1>4, <1>8

-----------------------------------------------------------------------------
(* What is left keeps all but its count. *)
LEMMA ShrunkNames ==
  ASSUME NEW t, NEW u, NEW s, Shrunk(t, u, s)
  PROVE  /\ Named(u) \subseteq Named(t) /\ DOMAIN u = DOMAIN t
         /\ \A i \in Named(u) : Keeps(t[i], u[i])
         /\ \A i \in Named(t) : Tagged(t[i], s) => i \in Named(u)
<1>1. DOMAIN u = DOMAIN t
  BY DEF Shrunk
<1>2. ASSUME NEW i \in DOMAIN t, Keeps(Hole, u[i]) PROVE i \notin Named(u)
  BY <1>2, HoleIs DEF Named, Keeps
<1>3. ASSUME NEW i \in Named(u) PROVE Keeps(t[i], u[i])
  BY <1>1, <1>2 DEF Shrunk, Named
<1>4. Named(u) \subseteq Named(t)
  BY <1>1, <1>3 DEF Named, Keeps
<1>5. ASSUME NEW i \in Named(t), Tagged(t[i], s) PROVE i \in Named(u)
  <2>1. Keeps(t[i], u[i])
    BY <1>5 DEF Shrunk, Named
  <2>2. QED BY <2>1, <1>1 DEF Named, Keeps
<1>6. QED BY <1>1, <1>3, <1>4, <1>5

(* What is left hangs where it hung.                                       *)
LEMMA ShrunkPaths ==
  ASSUME NEW t, NEW u, NEW s, Sane(t), Sane(u), Shrunk(t, u, s)
  PROVE  \A i \in Named(u) : Paths(u)[i] = Paths(t)[i]
<1> DEFINE p == Paths(t)
           q == [i \in Named(u) |-> p[i]]
<1>1. Hangs(t, p) /\ Named(u) \subseteq Named(t) /\ \A i \in Named(u) : Keeps(t[i], u[i])
  BY ShrunkNames DEF Sane
<1>2. q \in [Named(u) -> Seq(AllNames)] /\ q = [i \in Named(u) |-> q[i]] /\ \A i \in Named(u) : q[i] = p[i]
  BY <1>1 DEF Hangs
<1> HIDE DEF p, q
<1>3. ASSUME NEW i \in Named(u) PROVE q[i] = PathStep(u, q, i)
  <2>1. p[i] = PathStep(t, p, i) /\ q[i] = p[i]
    BY <1>1, <1>2 DEF Hangs, IsPaths
  <2>2. u[i].parent = t[i].parent /\ u[i].name = t[i].name
    BY <1>1 DEF Keeps
  <2>3. CASE i = 0
    <3>1. u[i].parent \notin Nat
      BY <2>3 DEF Sane, NoParent
    <3>2. u[i].parent \notin Named(u) /\ t[i].parent \notin Named(t)
      BY <3>1, <2>2, InTable DEF Sane
    <3>3. QED BY <3>2, <2>1, <2>2 DEF PathStep
  <2>4. CASE i # 0
    <3>1. u[i].parent \in Named(u)
      BY <2>4 DEF Sane
    <3>2. QED BY <3>1, <2>1, <2>2, <1>1, <1>2, SMTT(40) DEF PathStep
  <2>5. QED BY <2>3, <2>4
<1>4. IsPaths(u, q)
  BY <1>2, <1>3 DEF IsPaths
<1>5. Paths(u) = q
  BY <1>2, <1>4, PathsAre DEF Sane
<1>6. QED BY <1>2, <1>5 DEF p

(* Nothing shrinks by nothing. *)
LEMMA ShrunkSelf ==
  ASSUME NEW t, NEW s
  PROVE  Shrunk(t, t, s)
BY DEF Shrunk, Keeps
-----------------------------------------------------------------------------
(* dirdbUnref as a loop, k steps above n.                                  *)
UpStep(f, k, t, n) == IF k = 0 THEN [table |-> t, node |-> n] ELSE UnrefStep(f[k-1])
IsUp(f, j, t, n) == f = [k \in 0 .. j |-> UpStep(f, k, t, n)]

(* The recursive function of dirdbUnref exists, *)
LEMMA UpExists ==
  \A t, n : \A j \in Nat : \E f : IsUp(f, j, t, n)
<1> SUFFICES ASSUME NEW t, NEW n, NEW any \in Nat, ~ \E f : IsUp(f, any, t, n)
             PROVE  FALSE
  OBVIOUS
<1> DEFINE Bad == {j \in Nat : ~ \E f : IsUp(f, j, t, n)}
<1>1. PICK j \in Bad : \A y \in Bad : j <= y
  BY HasLeast
<1>2. CASE j = 0
  <2> DEFINE f == [k \in 0 .. 0 |-> [table |-> t, node |-> n]]
  <2>1. \A k \in 0 .. 0 : UpStep(f, k, t, n) = [table |-> t, node |-> n]
    BY DEF UpStep
  <2>2. IsUp(f, 0, t, n)
    BY <2>1 DEF IsUp
  <2>3. QED BY <1>1, <1>2, <2>2
<1>3. CASE j # 0
  <2>1. j \in Nat /\ j - 1 \in Nat /\ j - 1 \notin Bad
    BY <1>1, <1>3
  <2>2. PICK f : IsUp(f, j - 1, t, n)
    BY <2>1
  <2> DEFINE g == [k \in 0 .. j |-> IF k = j THEN UnrefStep(f[j - 1]) ELSE f[k]]
  <2>3. \A k \in 0 .. j - 1 : g[k] = f[k] /\ k \in 0 .. j
    BY <2>1
  <2>4. g[j] = UnrefStep(f[j - 1]) /\ g = [k \in 0 .. j |-> g[k]]
    BY <2>1
  <2> HIDE DEF g
  <2>5. ASSUME NEW k \in 0 .. j PROVE g[k] = UpStep(g, k, t, n)
    <3>1. CASE k = j
      <4>1. j - 1 \in 0 .. j - 1
        BY <2>1
      <4>2. g[j - 1] = f[j - 1]
        BY <4>1, <2>3
      <4>3. QED BY <3>1, <4>2, <2>4, <1>3 DEF UpStep
    <3>2. CASE k # j
      <4>1. k \in 0 .. j - 1 /\ (k # 0 => k - 1 \in 0 .. j - 1)
        BY <3>2, <2>1
      <4>2. f[k] = UpStep(f, k, t, n)
        BY <4>1, <2>2 DEF IsUp
      <4>3. g[k] = f[k] /\ (k # 0 => g[k - 1] = f[k - 1])
        BY <4>1, <2>3
      <4>4. QED BY <4>2, <4>3 DEF UpStep
    <3>3. QED BY <3>1, <3>2
  <2>6. IsUp(g, j, t, n)
    BY <2>4, <2>5 DEF IsUp
  <2>7. QED BY <1>1, <2>6
<1>4. QED BY <1>2, <1>3

(* and gives the steps of the loop. *)
LEMMA UnrefUp ==
  ASSUME NEW t, Table(t), NEW n
  PROVE  \E f : /\ Unref(t, n) = f[Size(t)].table
                /\ f[0] = [table |-> t, node |-> n]
                /\ \A k \in 1 .. Size(t) : f[k] = UnrefStep(f[k-1])
<1> DEFINE F == CHOOSE f : IsUp(f, Size(t), t, n)
<1>1. \E f : IsUp(f, Size(t), t, n)
  BY UpExists DEF Table
<1>2. IsUp(F, Size(t), t, n)
  BY <1>1
<1>3. Unref(t, n) = F[Size(t)].table
  BY DEF Unref, IsUp, UpStep, Size
<1> HIDE DEF F
<1>4. F[0] = [table |-> t, node |-> n]
  BY <1>2 DEF IsUp, UpStep, Table
<1>5. ASSUME NEW k \in 1 .. Size(t) PROVE F[k] = UnrefStep(F[k-1])
  BY <1>2 DEF IsUp, UpStep, Table
<1>6. QED BY <1>3, <1>4, <1>5

(* After k steps of dirdbUnref: the loop is through, or one handle of a    *)
(* node at most that high is left to give back.                            *)
Climbed(t, k, at, w, s, x) ==
  /\ Sane(at.table) /\ at.node \in Named(at.table) \cup {NoParent}
  /\ Counts(at.table, Plus(w, at.node), s, x) /\ Shrunk(t, at.table, s)
  /\ at.node = NoParent \/ Cardinality(Named(at.table)) + k = Cardinality(Named(t))

(* A step of the loop keeps the counts and comes nearer to the root.       *)
LEMMA ClimbsOn ==
  ASSUME NEW t, Sane(t), NEW w \in Handles, w[0] >= 1, NEW s, NEW x, NEW k \in Nat, NEW at,
         Climbed(t, k, at, w, s, x)
  PROVE  Climbed(t, k + 1, UnrefStep(at), w, s, x)
<1> DEFINE u == at.table
           n == at.node
<1>1. CASE n = NoParent
  BY <1>1 DEF UnrefStep, Climbed
<1>2. CASE n # NoParent /\ u[n].refcount = 1
  <2> DEFINE v == Without(u, n)
             m == u[n].parent
  <2>1. Sane(u) /\ n \in Named(u) /\ Counts(u, Plus(w, n), s, x)
    BY <1>2 DEF Climbed
  <2>2. /\ Sane(v) /\ m \in Named(v) /\ Counts(v, Plus(w, m), s, x) /\ Shrunk(u, v, s)
        /\ Named(v) = Named(u) \ {n}
    BY <2>1, <1>2, StepFrees
  <2>3. UnrefStep(at) = [table |-> v, node |-> m]
    BY <1>2 DEF UnrefStep, Without
  <2>4. IsFiniteSet(Named(u)) /\ Cardinality(Named(u)) \in Nat
    BY <2>1, InTable, FS_CardinalityType DEF Sane
  <2>5. Cardinality(Named(v)) = Cardinality(Named(u)) - 1
    BY <2>1, <2>2, <2>4, FS_RemoveElement
  <2>6. Cardinality(Named(u)) + k = Cardinality(Named(t))
    BY <1>2 DEF Climbed
  <2>7. Shrunk(t, v, s)
    BY <2>2, ShrunkTrans DEF Climbed
  <2> HIDE DEF v, m, u
  <2>8. Cardinality(Named(v)) + (k + 1) = Cardinality(Named(t))
    BY <2>4, <2>5, <2>6
  <2>9. QED BY <2>2, <2>3, <2>7, <2>8 DEF Climbed
<1>3. CASE n # NoParent /\ u[n].refcount # 1
  <2> DEFINE v == Recount(u, n, u[n].refcount - 1)
  <2>1. Sane(u) /\ n \in Named(u) /\ Counts(u, Plus(w, n), s, x)
    BY <1>3 DEF Climbed
  <2>2. Sane(v) /\ Counts(v, w, s, x) /\ Recounted(u, v)
    BY <2>1, StepCounts
  <2>3. UnrefStep(at) = [table |-> v, node |-> NoParent]
    BY <1>3 DEF UnrefStep, Recount
  <2>4. Counts(v, Plus(w, NoParent), s, x)
    <3>1. \A i \in Int : i # NoParent => Plus(w, NoParent)[i] = w[i]
      BY PlusIs DEF NoParent
    <3> HIDE DEF v
    <3>2. \A i \in Named(v) : i \in Int /\ i # NoParent
      <4>1. Named(v) \subseteq DOMAIN v /\ DOMAIN v \subseteq Nat
        BY <2>2, InTable, Zenon DEF Sane
      <4>2. QED BY <4>1 DEF NoParent
    <3>3. \A i \in Named(v) : Owed(v, Plus(w, NoParent), s, i) = Owed(v, w, s, i)
      BY <3>1, <3>2 DEF Owed
    <3>4. QED BY <2>2, <3>1, <3>3 DEF Counts
  <2>5. Shrunk(t, v, s)
    BY <2>2, RecountedIs, ShrunkTrans DEF Climbed
  <2> HIDE DEF v
  <2>6. QED BY <2>2, <2>3, <2>4, <2>5 DEF Climbed
<1>4. QED BY <1>1, <1>2, <1>3

-----------------------------------------------------------------------------
(* The counts see the handles of nodes only. *)
LEMMA CountsAgree ==
  ASSUME NEW t, Table(t), NEW w \in Handles, NEW v \in Handles,
         \A i \in Int : i # NoParent => v[i] = w[i], NEW s, NEW x, Counts(t, w, s, x)
  PROVE  Counts(t, v, s, x)
<1>1. \A i \in Named(t) : i \in Int /\ i # NoParent
  BY InTable DEF NoParent
<1>2. \A i \in Named(t) : Owed(t, v, s, i) = Owed(t, w, s, i)
  BY <1>1 DEF Owed
<1>3. QED BY <1>1, <1>2 DEF Counts

(* No more names than entries. *)
LEMMA NamedSize ==
  ASSUME NEW t, Table(t)
  PROVE  Cardinality(Named(t)) \in Nat /\ Cardinality(Named(t)) <= Size(t)
<1>1. IsFiniteSet(DOMAIN t) /\ Named(t) \subseteq DOMAIN t /\ IsFiniteSet(Named(t))
  BY InTable
<1>2. QED BY <1>1, FS_Subset, FS_CardinalityType DEF Size

(* dirdbUnref gives the handle back, and what nobody wants any longer goes.*)
LEMMA UnrefIs ==
  ASSUME NEW t, Sane(t), NEW w \in Handles, w[0] >= 1, NEW s, NEW x,
         NEW n \in Named(t), Counts(t, Plus(w, n), s, x)
  PROVE  Sane(Unref(t, n)) /\ Counts(Unref(t, n), w, s, x) /\ Shrunk(t, Unref(t, n), s)
<1>1. Table(t) /\ Size(t) \in Nat
  BY DEF Sane, Table
<1>2. PICK f : /\ Unref(t, n) = f[Size(t)].table
               /\ f[0] = [table |-> t, node |-> n]
               /\ \A k \in 1 .. Size(t) : f[k] = UnrefStep(f[k-1])
  BY <1>1, UnrefUp
<1>3. Climbed(t, 0, f[0], w, s, x)
  <2>1. Shrunk(t, t, s)
    BY ShrunkSelf
  <2>2. Cardinality(Named(t)) + 0 = Cardinality(Named(t))
    BY <1>1, NamedSize
  <2>3. QED BY <1>2, <2>1, <2>2 DEF Climbed
<1>4. \A k \in 0 .. Size(t) : Climbed(t, k, f[k], w, s, x)
  <2> SUFFICES ASSUME NEW any \in 0 .. Size(t), ~Climbed(t, any, f[any], w, s, x)
               PROVE  FALSE
    OBVIOUS
  <2> DEFINE Bad == {k \in 0 .. Size(t) : ~Climbed(t, k, f[k], w, s, x)}
  <2>1. PICK k \in Bad : \A y \in Bad : k <= y
    <3>1. Bad \in SUBSET Nat /\ Bad # {}
      BY <1>1
    <3>2. QED BY <3>1, HasLeast
  <2>2. k # 0 /\ k \in 1 .. Size(t) /\ k - 1 \in 0 .. Size(t) /\ k - 1 \in Nat /\ k - 1 + 1 = k
    BY <1>3, <2>1, <1>1
  <2>3. k - 1 \notin Bad
    BY <2>1, <2>2
  <2>4. Climbed(t, k - 1, f[k-1], w, s, x)
    BY <2>2, <2>3
  <2>5. Climbed(t, k - 1 + 1, UnrefStep(f[k-1]), w, s, x)
    BY <2>2, <2>4, ClimbsOn
  <2>6. QED BY <2>1, <2>2, <2>5, <1>2
<1> DEFINE at == f[Size(t)]
<1>5. Climbed(t, Size(t), at, w, s, x)
  BY <1>1, <1>4
<1> HIDE DEF at
<1>6. at.node = NoParent
  <2>1. SUFFICES ASSUME at.node # NoParent PROVE FALSE
    OBVIOUS
  <2>2. at.node \in Named(at.table) /\ Cardinality(Named(at.table)) + Size(t) = Cardinality(Named(t))
    BY <2>1, <1>5 DEF Climbed
  <2>3. Table(at.table)
    BY <1>5 DEF Climbed, Sane
  <2>4. Cardinality(Named(at.table)) \in Nat /\ IsFiniteSet(Named(at.table))
    BY <2>3, NamedSize, InTable
  <2>5. Cardinality(Named(at.table)) # 0
    BY <2>2, <2>4, FS_EmptySet
  <2>6. Cardinality(Named(t)) \in Nat /\ Cardinality(Named(t)) <= Size(t)
    BY <1>1, NamedSize
  <2>7. QED BY <1>1, <2>2, <2>4, <2>5, <2>6
<1>7. Counts(at.table, Plus(w, NoParent), s, x) /\ Sane(at.table) /\ Shrunk(t, at.table, s)
  BY <1>5, <1>6 DEF Climbed
<1>8. Counts(at.table, w, s, x)
  <2>1. Plus(w, NoParent) \in Handles /\ \A i \in Int : i # NoParent => w[i] = Plus(w, NoParent)[i]
    BY PlusIs, SMTT(40) DEF NoParent
  <2>2. QED BY <2>1, <1>7, CountsAgree DEF Sane
<1>9. QED BY <1>2, <1>7, <1>8 DEF at

(* An entry with another reference stays.                                  *)
LEMMA UnrefStays ==
  ASSUME NEW t, Table(t), NEW n \in Named(t), t[n].refcount # 1
  PROVE  Unref(t, n) = Recount(t, n, t[n].refcount - 1)
<1>1. Size(t) \in Nat /\ Size(t) >= 1 /\ n # NoParent
  <2>1. n \in 0 .. Size(t) - 1 /\ Size(t) \in Nat
    BY InTable DEF Table
  <2>2. QED BY <2>1 DEF NoParent
<1>2. PICK f : /\ Unref(t, n) = f[Size(t)].table
               /\ f[0] = [table |-> t, node |-> n]
               /\ \A k \in 1 .. Size(t) : f[k] = UnrefStep(f[k-1])
  BY UnrefUp
<1> DEFINE end == [table |-> Recount(t, n, t[n].refcount - 1), node |-> NoParent]
<1>3. UnrefStep([table |-> t, node |-> n]) = end
  BY <1>1 DEF UnrefStep, Recount
<1>4. UnrefStep(end) = end
  BY DEF UnrefStep
<1>5. end.table = Recount(t, n, t[n].refcount - 1)
  OBVIOUS
<1> HIDE DEF end
<1>6. f[1] = end
  <2>1. 1 \in 1 .. Size(t) /\ 1 - 1 = 0
    BY <1>1
  <2>2. f[1] = UnrefStep(f[1-1])
    BY <2>1, <1>2
  <2>3. QED BY <2>1, <2>2, <1>2, <1>3
<1>7. \A k \in 1 .. Size(t) : f[k] = end
  <2> SUFFICES ASSUME NEW any \in 1 .. Size(t), f[any] # end
               PROVE  FALSE
    OBVIOUS
  <2> DEFINE Bad == {k \in 1 .. Size(t) : f[k] # end}
  <2>1. PICK k \in Bad : \A y \in Bad : k <= y
    <3>1. Bad \in SUBSET Nat /\ Bad # {}
      BY <1>1
    <3>2. QED BY <3>1, HasLeast
  <2>2. k # 1 /\ k \in 1 .. Size(t) /\ k - 1 \in 1 .. Size(t)
    BY <1>6, <2>1, <1>1
  <2>3. k - 1 \notin Bad
    BY <2>1, <2>2
  <2>4. f[k-1] = end
    BY <2>2, <2>3
  <2>5. f[k] = UnrefStep(f[k-1])
    BY <2>2, <1>2
  <2>6. QED BY <2>1, <2>4, <2>5, <1>4
<1>8. f[Size(t)] = end
  BY <1>1, <1>7
<1>9. QED BY <1>2, <1>5, <1>8

-----------------------------------------------------------------------------
(* The table gains entries without a name, or names without references.    *)
Was(t, i) == IF i \in DOMAIN t THEN t[i] ELSE Hole
Grew(t, u) ==
  /\ DOMAIN t \subseteq DOMAIN u
  /\ \A i \in DOMAIN u :
       \/ Keeps(Was(t, i), u[i])
       \/ /\ i \notin Named(t) /\ i \in Named(u)
          /\ u[i].mdbref = NoRef /\ u[i].newmdbref = Was(t, i).newmdbref

(* What was there keeps all but its count. *)
LEMMA GrewNames ==
  ASSUME NEW t, NEW u, Grew(t, u)
  PROVE  Named(t) \subseteq Named(u) /\ \A i \in Named(t) : Keeps(t[i], u[i])
<1>1. \A i \in Named(t) : Keeps(t[i], u[i]) /\ i \in DOMAIN u
  BY DEF Grew, Was, Named
<1>2. QED BY <1>1 DEF Named, Keeps

(* What grows twice has grown. *)
LEMMA GrewTrans ==
  ASSUME NEW t, NEW u, NEW v, Grew(t, u), Grew(u, v)
  PROVE  Grew(t, v)
<1>1. DOMAIN t \subseteq DOMAIN u /\ DOMAIN u \subseteq DOMAIN v
  BY DEF Grew
<1>2. ASSUME NEW i \in DOMAIN v
      PROVE  \/ Keeps(Was(t, i), v[i])
             \/ /\ i \notin Named(t) /\ i \in Named(v)
                /\ v[i].mdbref = NoRef /\ v[i].newmdbref = Was(t, i).newmdbref
  <2>1. \/ Keeps(Was(u, i), v[i])
        \/ /\ i \notin Named(u) /\ i \in Named(v)
           /\ v[i].mdbref = NoRef /\ v[i].newmdbref = Was(u, i).newmdbref
    BY DEF Grew
  <2>2. CASE i \in DOMAIN u
    <3>1. \/ Keeps(Was(t, i), u[i])
          \/ /\ i \notin Named(t) /\ i \in Named(u)
             /\ u[i].mdbref = NoRef /\ u[i].newmdbref = Was(t, i).newmdbref
      BY <2>2 DEF Grew
    <3>2. Was(u, i) = u[i] /\ (i \in Named(t) => i \in Named(u))
      BY <2>2, GrewNames DEF Was
    <3>3. i \in Named(u) /\ Keeps(u[i], v[i]) => i \in Named(v)
      BY DEF Named, Keeps
    <3>4. QED BY <2>1, <3>1, <3>2, <3>3 DEF Keeps
  <2>3. CASE i \notin DOMAIN u
    <3>1. Was(u, i) = Hole /\ Was(t, i) = Hole /\ i \notin Named(t)
      BY <2>3, <1>1 DEF Was, Named
    <3>2. QED BY <2>1, <3>1
  <2>4. QED BY <2>2, <2>3
<1>3. QED BY <1>1, <1>2 DEF Grew

(* New counts are no loss. *)
LEMMA RecountedGrew ==
  ASSUME NEW t, NEW u, Recounted(t, u)
  PROVE  Grew(t, u)
BY DEF Recounted, Grew, Was

(* What was there hangs where it hung. *)
LEMMA GrewPaths ==
  ASSUME NEW t, NEW u, Sane(t), Sane(u), Grew(t, u)
  PROVE  \A i \in Named(t) : Paths(u)[i] = Paths(t)[i]
<1> DEFINE p == Paths(t)
           r == Paths(u)
           q == [i \in Named(t) |-> r[i]]
<1>1. Hangs(t, p) /\ Hangs(u, r) /\ Named(t) \subseteq Named(u) /\ \A i \in Named(t) : Keeps(t[i], u[i])
  BY GrewNames DEF Sane
<1>2. q = [i \in Named(t) |-> q[i]] /\ \A i \in Named(t) : q[i] = r[i]
  OBVIOUS
<1> HIDE DEF p, q, r
<1>3. ASSUME NEW i \in Named(t) PROVE q[i] = PathStep(t, q, i)
  <2>1. r[i] = PathStep(u, r, i) /\ q[i] = r[i]
    BY <1>1, <1>2 DEF Hangs, IsPaths
  <2>2. u[i].parent = t[i].parent /\ u[i].name = t[i].name
    BY <1>1 DEF Keeps
  <2>3. CASE i = 0
    <3>1. u[i].parent \notin Nat
      BY <2>3 DEF Sane, NoParent
    <3>2. u[i].parent \notin Named(u) /\ t[i].parent \notin Named(t)
      BY <3>1, <2>2, InTable DEF Sane
    <3>3. QED BY <3>2, <2>1, <2>2 DEF PathStep
  <2>4. CASE i # 0
    <3>1. t[i].parent \in Named(t)
      BY <2>4 DEF Sane
    <3>2. QED BY <3>1, <2>1, <2>2, <1>1, <1>2, SMTT(40) DEF PathStep
  <2>5. QED BY <2>3, <2>4
<1>4. IsPaths(t, q)
  BY <1>2, <1>3 DEF IsPaths
<1>5. q = p
  BY <1>1, <1>4, OnePaths DEF Sane, Hangs
<1>6. QED BY <1>2, <1>5 DEF p, r

(* No two children of an entry have the same name, *)
LEMMA Siblings ==
  ASSUME NEW t, Sane(t), NEW i \in Named(t), NEW j \in Named(t),
         t[i].parent = t[j].parent, t[i].name = t[j].name
  PROVE  i = j
<1>1. Hangs(t, Paths(t))
  BY DEF Sane
<1>2. PathStep(t, Paths(t), i) = PathStep(t, Paths(t), j)
  BY DEF PathStep
<1>3. Paths(t)[i] = Paths(t)[j]
  BY <1>1, <1>2, PathsAt DEF Hangs
<1>4. QED BY <1>1, <1>3 DEF Hangs

(* so NodeOf finds the one that has it. *)
LEMMA NodeOfIs ==
  ASSUME NEW t, Sane(t), NEW i \in Named(t), NEW parent, parent = t[i].parent,
         NEW name, name = t[i].name
  PROVE  NodeOf(t, parent, name) = i
<1> DEFINE S == {j \in Named(t) : t[j].parent = parent /\ t[j].name = name}
<1>1. S \in SUBSET Nat /\ i \in S /\ \A j \in S : j = i
  <2>1. Named(t) \subseteq Nat
    BY InTable DEF Sane
  <2>2. QED BY <2>1, Siblings
<1>2. Lowest(S) \in S
  BY <1>1, LowestIs
<1>3. QED BY <1>1, <1>2 DEF NodeOf

(* A path is that of the parent and the name. *)
LEMMA PathIs ==
  ASSUME NEW t, Sane(t), NEW i \in Named(t), i # 0
  PROVE  /\ t[i].parent \in Named(t)
         /\ Paths(t)[t[i].parent] \in Seq(AllNames) /\ t[i].name \in AllNames
         /\ Paths(t)[i] = Append(Paths(t)[t[i].parent], t[i].name)
<1>1. Hangs(t, Paths(t)) /\ t[i].parent \in Named(t)
  BY DEF Sane
<1>2. Paths(t)[i] = Append(Paths(t)[t[i].parent], t[i].name)
  BY <1>1, PathsAt DEF Hangs, PathStep
<1>3. t[i].name \in AllNames
  BY InTable DEF Sane
<1>4. QED BY <1>1, <1>2, <1>3 DEF Hangs

(* The drive is the root. *)
LEMMA RootPath ==
  ASSUME NEW t, Sane(t)
  PROVE  Paths(t)[0] = Drive
<1>1. Hangs(t, Paths(t)) /\ 0 \in Named(t) /\ t[0].parent = NoParent /\ t[0].name = Drive[1]
  BY DEF Sane
<1>2. NoParent \notin Named(t)
  BY InTable DEF NoParent, Sane
<1>3. Paths(t)[0] = <<t[0].name>>
  <2>1. Paths(t)[0] = PathStep(t, Paths(t), 0)
    BY <1>1, PathsAt DEF Hangs
  <2>2. t[0].parent \notin Named(t)
    BY <1>1, <1>2
  <2>3. QED BY <2>1, <2>2, Zenon DEF PathStep
<1>4. QED BY <1>1, <1>3 DEF Drive

(* A table with the same names in the same places is as sane. *)
LEMMA SaneSame ==
  ASSUME NEW t, NEW u, Sane(t), Table(u), Named(u) = Named(t),
         \A i \in Named(t) : u[i].parent = t[i].parent /\ u[i].name = t[i].name,
         \A i \in Holes(u) : u[i].parent = 0
  PROVE  Sane(u) /\ Paths(u) = Paths(t) /\ \A n : KidCount(u, n) = KidCount(t, n)
<1> DEFINE p == Paths(t)
<1>3. Hangs(t, p)
  BY DEF Sane
<1> HIDE DEF p
<1>4. \A i \in Named(u) : PathStep(u, p, i) = PathStep(t, p, i)
  BY DEF PathStep
<1>5. IsPaths(u, p)
  BY <1>3, <1>4 DEF IsPaths, Hangs
<1>6. Hangs(u, p)
  BY <1>3, <1>5 DEF Hangs
<1>7. Paths(u) = p
  BY <1>6, PathsAre DEF Hangs
<1>8. Sane(u)
  BY <1>6, <1>7 DEF Sane
<1>9. \A n : Children(u, n) = Children(t, n)
  BY DEF Children
<1>10. QED BY <1>7, <1>8, <1>9 DEF p, KidCount

-----------------------------------------------------------------------------
(* dirdbFindAndRef makes room when there is none, *)
LEMMA GrownIs ==
  ASSUME NEW t, Table(t)
  PROVE  LET g == Grown(t) IN
         /\ Table(g) /\ DOMAIN t \subseteq DOMAIN g /\ Named(g) = Named(t) /\ Holes(g) # {}
         /\ \A i \in DOMAIN g : g[i] = Was(t, i)
<1> DEFINE n == Size(t)
           g == Grown(t)
<1>1. n \in Nat /\ DOMAIN t = 0 .. n - 1 /\ t \in [0 .. n - 1 -> Entry] /\ Growth \in Nat \ {0}
  BY InTable, GrowthAssumption DEF Table
<1>2. g = [i \in 0 .. n + Growth - 1 |-> Was(t, i)]
  BY Zenon DEF Grown, Was, Size
<1> HIDE DEF n, g
<1>3. \A i \in 0 .. n + Growth - 1 : Was(t, i) \in Entry
  BY <1>1, HoleIs DEF Was
<1>4. n + Growth \in Nat /\ n + Growth - 1 = (n + Growth) - 1
  BY <1>1
<1>5. g \in [0 .. (n + Growth) - 1 -> Entry]
  BY <1>2, <1>3, <1>4
<1>6. Table(g) /\ DOMAIN g = 0 .. n + Growth - 1
  BY <1>4, <1>5, <1>2, TableIs
<1>7. DOMAIN t \subseteq DOMAIN g /\ n \in DOMAIN g /\ n \notin DOMAIN t
  BY <1>1, <1>6
<1>8. \A i \in DOMAIN g : g[i] = Was(t, i)
  BY <1>2, <1>6
<1>9. Named(g) = Named(t)
  BY <1>7, <1>8, HoleIs DEF Named, Was
<1>10. n \in Holes(g)
  BY <1>7, <1>9 DEF Holes, Named
<1>11. QED BY <1>6, <1>7, <1>8, <1>9, <1>10 DEF g

(* which nothing is changed by. *)
LEMMA GrownIsSane ==
  ASSUME NEW t, Sane(t), NEW w, NEW s, NEW x, Counts(t, w, s, x)
  PROVE  /\ Sane(Grown(t)) /\ Grew(t, Grown(t)) /\ Counts(Grown(t), w, s, x)
         /\ Paths(Grown(t)) = Paths(t)
<1> DEFINE g == Grown(t)
<1>1. /\ Table(g) /\ DOMAIN t \subseteq DOMAIN g /\ Named(g) = Named(t)
      /\ \A i \in DOMAIN g : g[i] = Was(t, i)
  BY GrownIs DEF Sane
<1> HIDE DEF g
<1>2. Named(t) \subseteq DOMAIN t /\ \A i \in Named(t) : g[i] = t[i]
  BY <1>1 DEF Named, Was
<1>3. ASSUME NEW i \in Holes(g) PROVE (i \in Holes(t) /\ g[i] = t[i]) \/ g[i] = Hole
  BY <1>1 DEF Holes, Was
<1>4. \A i \in Holes(g) : g[i].parent = 0
  BY <1>3, HoleIs DEF Sane
<1>5. Sane(g) /\ Paths(g) = Paths(t) /\ \A n : KidCount(g, n) = KidCount(t, n)
  BY <1>1, <1>2, <1>4, SaneSame
<1>6. Grew(t, g)
  BY <1>1 DEF Grew, Keeps
<1>7. Counts(g, w, s, x)
  <2>1. \A i \in Named(g) : Fits(g[i].refcount, Owed(g, w, s, i), x)
    BY <1>1, <1>2, <1>5 DEF Counts, Owed
  <2>2. \A i \in Holes(g) : Fits(g[i].refcount, 0, x)
    BY <1>3, HoleIs DEF Counts, Fits
  <2>3. QED BY <2>1, <2>2, <1>1 DEF Counts
<1>8. QED BY <1>5, <1>6, <1>7 DEF g

(* dirdbFindAndRef names a hole. *)
With(g, h, parent, name) == [g EXCEPT ![h] = Called(g[h], parent, name)]

(* An entry that has just been named. *)
LEMMA EntryWith ==
  ASSUME NEW e \in Entry, NEW name \in AllNames, NEW parent \in Int
  PROVE  LET f == Called(e, parent, name) IN
         /\ f \in Entry /\ f.name = name /\ f.parent = parent /\ f.mdbref = NoRef
         /\ f.newmdbref = e.newmdbref /\ f.refcount = e.refcount + 1
<1> DEFINE a == [e EXCEPT !.name = name]
           b == [a EXCEPT !.parent = parent]
           c == [b EXCEPT !.mdbref = NoRef]
           d == [c EXCEPT !.refcount = e.refcount + 1]
<1>1. /\ a \in Entry /\ a.name = name /\ a.newmdbref = e.newmdbref /\ a.refcount = e.refcount
  BY DEF Entry
<1> HIDE DEF a
<1>2. /\ b \in Entry /\ b.name = name /\ b.newmdbref = e.newmdbref /\ b.refcount = e.refcount
      /\ b.parent = parent
  BY <1>1 DEF Entry
<1> HIDE DEF b
<1>3. /\ c \in Entry /\ c.name = name /\ c.newmdbref = e.newmdbref /\ c.refcount = e.refcount
      /\ c.parent = parent /\ c.mdbref = NoRef
  BY <1>2 DEF Entry, NoRef
<1> HIDE DEF c
<1>4. /\ d \in Entry /\ d.name = name /\ d.newmdbref = e.newmdbref /\ d.refcount = e.refcount + 1
      /\ d.parent = parent /\ d.mdbref = NoRef
  BY <1>3 DEF Entry
<1>5. d = Called(e, parent, name)
  BY DEF d, c, b, a, Called
<1> HIDE DEF d
<1>6. QED BY <1>4, <1>5

(* The path of a new child. *)
LEMMA ChildPath ==
  ASSUME NEW r \in Seq(AllNames), Len(r) >= 1, r[1] = Drive[1], NEW a \in AllNames, NEW q, q = Append(r, a)
  PROVE  /\ q \in Seq(AllNames) /\ Len(q) = Len(r) + 1 /\ Len(q) >= 1 /\ Len(r) \in Nat
         /\ q[1] = Drive[1] /\ q[Len(q)] = a /\ \A i \in 1 .. Len(r) : q[i] = r[i]
<1>1. Len(r) \in Nat /\ 1 \in 1 .. Len(r)
  BY LenProperties
<1>2. /\ q \in Seq(AllNames) /\ Len(q) = Len(r) + 1
      /\ \A i \in 1 .. Len(r) : q[i] = r[i]
      /\ q[Len(r) + 1] = a
  BY AppendIs
<1>3. q[1] = r[1]
  BY <1>1, <1>2
<1>4. QED BY <1>1, <1>2, <1>3

(* Paths are equal name by name. *)
LEMMA SamePath ==
  ASSUME NEW r \in Seq(AllNames), NEW a \in AllNames, NEW s \in Seq(AllNames), NEW b \in AllNames,
         Append(r, a) = Append(s, b)
  PROVE  r = s /\ a = b
BY AppendInjective

(* A name put into a hole hangs in the tree. *)
LEMMA WithIs ==
  ASSUME NEW g, Sane(g), NEW h \in Holes(g), NEW parent \in Named(g),
         NEW name \in AllNames, name # NoName,
         \A i \in Named(g) : ~(g[i].parent = parent /\ g[i].name = name)
  PROVE  LET v == With(g, h, parent, name) IN
         /\ Sane(v) /\ Named(v) = Named(g) \cup {h} /\ DOMAIN v = DOMAIN g /\ Grew(g, v)
         /\ v[h].name = name /\ v[h].parent = parent
         /\ v[h].refcount = g[h].refcount + 1 /\ v[h].mdbref = NoRef
         /\ v[h].newmdbref = g[h].newmdbref
         /\ \A i \in DOMAIN g : i # h => v[i] = g[i]
         /\ Paths(v)[h] = Append(Paths(g)[parent], name)
<1> DEFINE v == With(g, h, parent, name)
           e == Called(g[h], parent, name)
<1>1. /\ Table(g) /\ g \in [0 .. Size(g) - 1 -> Entry] /\ Size(g) \in Nat /\ h \in DOMAIN g
      /\ DOMAIN g = 0 .. Size(g) - 1 /\ h \notin Named(g) /\ parent \in DOMAIN g /\ parent \in Int
      /\ parent \in Nat
  BY InTable DEF Sane, Table, Holes
<1>2. /\ e \in Entry /\ e.name = name /\ e.parent = parent /\ e.mdbref = NoRef
      /\ e.newmdbref = g[h].newmdbref /\ e.refcount = g[h].refcount + 1
  BY <1>1, EntryWith
<1>3. v = [g EXCEPT ![h] = e]
  BY DEF With
<1> HIDE DEF v, e
<1>4. v \in [0 .. Size(g) - 1 -> Entry] /\ v[h] = e /\ \A i \in DOMAIN g : i # h => v[i] = g[i]
  BY <1>1, <1>2, <1>3
<1>5. Table(v) /\ DOMAIN v = DOMAIN g
  BY <1>1, <1>4, TableIs
<1>6. Named(v) = Named(g) \cup {h}
  BY <1>1, <1>2, <1>4, <1>5 DEF Named
<1>7. \A i \in Named(g) : v[i] = g[i] /\ i # h
  BY <1>1, <1>4 DEF Named
<1> DEFINE p == Paths(g)
           q == [i \in Named(v) |-> IF i = h THEN Append(p[parent], name) ELSE p[i]]
<1>8. Hangs(g, p)
  BY DEF Sane
<1>9. /\ q = [i \in Named(v) |-> q[i]] /\ q[h] = Append(p[parent], name)
      /\ \A i \in Named(g) : q[i] = p[i]
  BY <1>6, <1>7
<1> HIDE DEF p, q
<1>10. p[parent] \in Seq(AllNames) /\ Len(p[parent]) >= 1 /\ p[parent][1] = Drive[1]
  BY <1>8 DEF Hangs
<1>11. /\ q[h] \in Seq(AllNames) /\ Len(q[h]) >= 1 /\ q[h][1] = Drive[1] /\ q[h][Len(q[h])] = name
       /\ Len(q[h]) = Len(p[parent]) + 1
  <2> DEFINE r == p[parent]
             z == q[h]
  <2>1. r \in Seq(AllNames) /\ Len(r) >= 1 /\ r[1] = Drive[1] /\ z = Append(r, name)
    BY <1>9, <1>10
  <2> HIDE DEF r, z
  <2>2. /\ z \in Seq(AllNames) /\ Len(z) >= 1 /\ z[1] = Drive[1] /\ z[Len(z)] = name
        /\ Len(z) = Len(r) + 1
    BY <2>1, ChildPath
  <2>3. QED BY <2>2 DEF r, z
<1>12. q \in [Named(v) -> Seq(AllNames)] /\ \A i \in Named(v) : Len(q[i]) >= 1 /\ q[i][1] = Drive[1]
  <2>1. ASSUME NEW i \in Named(v) PROVE q[i] \in Seq(AllNames) /\ Len(q[i]) >= 1 /\ q[i][1] = Drive[1]
    <3>1. CASE i = h
      BY <3>1, <1>11
    <3>2. CASE i # h
      BY <3>2, <1>6, <1>8, <1>9 DEF Hangs
    <3>3. QED BY <3>1, <3>2
  <2>2. QED BY <2>1, <1>9
<1>13. ASSUME NEW i \in Named(v) PROVE q[i] = PathStep(v, q, i)
  <2>1. CASE i = h
    <3>1. v[h].parent \in Named(v) /\ v[h].name = name /\ v[h].parent = parent /\ q[parent] = p[parent]
      BY <1>2, <1>4, <1>6, <1>9
    <3>2. QED BY <2>1, <3>1, <1>9 DEF PathStep
  <2>2. CASE i # h
    <3>1. i \in Named(g) /\ v[i] = g[i] /\ q[i] = p[i]
      BY <2>2, <1>6, <1>7, <1>9
    <3>2. p[i] = PathStep(g, p, i)
      BY <3>1, <1>8, PathsAt DEF Hangs
    <3>3. CASE i = 0
      <4>1. g[i].parent \notin Named(g) /\ g[i].parent \notin Named(v)
        <5>1. g[i].parent = NoParent /\ NoParent \notin Nat
          BY <3>3 DEF Sane, NoParent
        <5>2. Named(v) \subseteq Nat /\ Named(g) \subseteq Nat
          BY <1>1, <1>5, InTable
        <5>3. QED BY <5>1, <5>2
      <4>2. QED BY <4>1, <3>1, <3>2 DEF PathStep
    <3>4. CASE i # 0
      <4>1. g[i].parent \in Named(g) /\ g[i].parent \in Named(v) /\ q[g[i].parent] = p[g[i].parent]
        BY <3>1, <3>4, <1>6, <1>9 DEF Sane
      <4>2. QED BY <4>1, <3>1, <3>2 DEF PathStep
    <3>5. QED BY <3>3, <3>4
  <2>3. QED BY <2>1, <2>2
<1>14. IsPaths(v, q)
  BY <1>9, <1>13 DEF IsPaths
<1>15. ASSUME NEW i \in Named(g) PROVE q[i] # q[h]
  <2>1. SUFFICES ASSUME p[i] = Append(p[parent], name) PROVE FALSE
    BY <1>9
  <2>2. CASE i = 0
    <3>1. Len(p[i]) = 1
      BY <2>2, RootPath DEF p, Drive
    <3>2. QED BY <2>1, <3>1, <1>9, <1>10, <1>11
  <2>3. CASE i # 0
    <3>1. /\ g[i].parent \in Named(g) /\ p[g[i].parent] \in Seq(AllNames) /\ g[i].name \in AllNames
          /\ p[i] = Append(p[g[i].parent], g[i].name)
      BY <2>3, PathIs DEF p
    <3>2. p[g[i].parent] = p[parent] /\ g[i].name = name
      <4> DEFINE r == p[g[i].parent]
                 z == p[parent]
                 b == g[i].name
      <4>1. r \in Seq(AllNames) /\ z \in Seq(AllNames) /\ b \in AllNames /\ Append(r, b) = Append(z, name)
        BY <2>1, <3>1, <1>10
      <4> HIDE DEF r, z, b
      <4>2. r = z /\ b = name
        BY <4>1, SamePath
      <4>3. QED BY <4>2 DEF r, z, b
    <3>3. QED BY <3>1, <3>2, <1>8 DEF Hangs
  <2>4. QED BY <2>2, <2>3
<1>16. \A m, n \in Named(v) : q[m] = q[n] => m = n
  <2>1. \A m, n \in Named(g) : q[m] = q[n] => m = n
    BY <1>8, <1>9 DEF Hangs
  <2>2. QED BY <2>1, <1>6, <1>15
<1>17. Hangs(v, q)
  BY <1>12, <1>14, <1>16 DEF Hangs
<1>18. Paths(v) = q
  BY <1>5, <1>12, <1>14, PathsAre
<1>19. Sane(v)
  <2>1. 0 \in Named(v) /\ v[0].parent = NoParent /\ v[0].name = Drive[1]
    BY <1>6, <1>7 DEF Sane
  <2>2. \A i \in Named(v) : i # 0 => v[i].parent \in Named(v)
    BY <1>2, <1>4, <1>6, <1>7 DEF Sane
  <2>3. \A i \in Holes(v) : i \in Holes(g) /\ v[i] = g[i]
    BY <1>4, <1>5, <1>6 DEF Holes
  <2>4. \A i \in Holes(v) : v[i].parent = 0
    BY <2>3 DEF Sane
  <2>5. QED BY <1>5, <1>17, <1>18, <2>1, <2>2, <2>4 DEF Sane
<1>20. Grew(g, v)
  BY <1>1, <1>2, <1>4, <1>5, <1>6 DEF Grew, Was, Keeps
<1>21. QED BY <1>2, <1>4, <1>5, <1>6, <1>9, <1>18, <1>19, <1>20 DEF v, p

-----------------------------------------------------------------------------
(* While a scan runs no hole is tagged. *)
HolesClean(t, s) == s => \A i \in Holes(t) : t[i].newmdbref = NoRef

(* A hole has no children. *)
LEMMA NoKids ==
  ASSUME NEW t, Sane(t), NEW n \in Nat, n \notin Named(t)
  PROVE  Children(t, n) = {} /\ KidCount(t, n) = 0
<1>1. ASSUME NEW i \in Named(t) PROVE t[i].parent # n
  <2>1. CASE i = 0
    BY <2>1 DEF Sane, NoParent
  <2>2. CASE i # 0
    BY <2>2 DEF Sane
  <2>3. QED BY <2>1, <2>2
<1>2. Children(t, n) = {}
  BY <1>1 DEF Children
<1>3. QED BY <1>2, FS_EmptySet DEF KidCount

(* The new name is one more child of its parent. *)
LEMMA WithKids ==
  ASSUME NEW g, Sane(g), NEW h \in Holes(g), NEW parent \in Named(g), NEW v,
         Named(v) = Named(g) \cup {h}, v[h].parent = parent,
         \A i \in DOMAIN g : i # h => v[i] = g[i]
  PROVE  /\ \A n : KidCount(v, n) = IF n = parent THEN KidCount(g, n) + 1 ELSE KidCount(g, n)
         /\ KidCount(v, h) = 0
<1>1. h \in Nat /\ h \notin Named(g) /\ h # parent /\ Named(g) \subseteq DOMAIN g
  BY InTable DEF Holes, Sane
<1>2. \A i \in Named(g) : v[i] = g[i]
  BY <1>1
<1>3. ASSUME NEW n
      PROVE KidCount(v, n) = IF n = parent THEN KidCount(g, n) + 1 ELSE KidCount(g, n)
  <2>1. Children(v, n) = IF n = parent THEN Children(g, n) \cup {h} ELSE Children(g, n)
    BY <1>2 DEF Children
  <2>2. h \notin Children(g, n)
    BY <1>1 DEF Children
  <2>4. IsFiniteSet(Children(g, n))
    BY KidsAre DEF Sane
  <2>3. QED BY <2>1, <2>2, <2>4, FS_AddElement DEF KidCount
<1>4. KidCount(g, h) = 0
  BY <1>1, NoKids
<1>5. QED BY <1>1, <1>3, <1>4

(* dirdbFindAndRef counts the new name and its parent. *)
LEMMA WithCounts ==
  ASSUME NEW g, Sane(g), NEW w \in Handles, NEW s, NEW x, Counts(g, w, s, x), HolesClean(g, s),
         NEW h \in Holes(g), NEW parent \in Named(g),
         NEW name \in AllNames, name # NoName,
         \A i \in Named(g) : ~(g[i].parent = parent /\ g[i].name = name)
  PROVE  LET v == With(g, h, parent, name)
             u == Ref(v, parent) IN
         /\ Sane(u) /\ Counts(u, Plus(w, h), s, x) /\ Grew(g, u) /\ h \in Named(u)
         /\ u[h].parent = parent /\ u[h].name = name
         /\ Paths(u)[h] = Append(Paths(g)[parent], name)
<1> DEFINE v == With(g, h, parent, name)
           u == Ref(v, parent)
           wh == Plus(w, h)
<1>1. /\ Sane(v) /\ Named(v) = Named(g) \cup {h} /\ DOMAIN v = DOMAIN g /\ Grew(g, v)
      /\ v[h].name = name /\ v[h].parent = parent
      /\ v[h].refcount = g[h].refcount + 1 /\ v[h].mdbref = NoRef
      /\ v[h].newmdbref = g[h].newmdbref
      /\ \A i \in DOMAIN g : i # h => v[i] = g[i]
      /\ Paths(v)[h] = Append(Paths(g)[parent], name)
  BY WithIs
<1> HIDE DEF v
<1>2. Table(v) /\ Table(g) /\ parent \in DOMAIN v /\ h \in DOMAIN v /\ v[parent].refcount + 1 \in Int
  BY <1>1, InTable DEF Sane
<1>3. /\ Table(u) /\ Recounted(v, u) /\ u[parent].refcount = v[parent].refcount + 1
      /\ \A i \in DOMAIN v : i # parent => u[i] = v[i]
  BY <1>2, RefIs DEF Ref, Recount
<1> HIDE DEF u
<1>4. Alike(v, u) /\ Sane(u) /\ Paths(u) = Paths(v) /\ Named(u) = Named(v) /\ Holes(u) = Holes(v)
  BY <1>1, <1>3, RecountedIs, AlikeIsSane, AlikeNames
<1>5. Grew(g, u)
  BY <1>1, <1>3, RecountedGrew, GrewTrans
<1>6. u[h].parent = parent /\ u[h].name = name
  BY <1>1, <1>2, <1>4 DEF Alike
<1>7. /\ \A n : KidCount(u, n) = IF n = parent THEN KidCount(g, n) + 1 ELSE KidCount(g, n)
      /\ KidCount(u, h) = 0
  BY <1>1, <1>3, WithKids, RecountedIs, AlikeNames
<1>8. h \notin Named(g) /\ h # parent /\ h \in Int /\ h # NoParent /\ parent \in Int
  BY <1>2, InTable DEF Holes, NoParent
<1>9. wh \in Handles /\ wh[h] = w[h] + 1 /\ \A m \in Int : w[m] \in Nat /\ (m # h => wh[m] = w[m])
  BY <1>8, PlusIs
<1> HIDE DEF wh
<1>10. w[h] = 0
  BY <1>8, <1>9 DEF Counts
<1>11. ASSUME NEW i \in Named(u) PROVE Fits(u[i].refcount, Owed(u, wh, s, i), x)
  <2>1. CASE i = h
    <3>1. u[h] = v[h]
      BY <1>2, <1>3, <1>8
    <3>2. ~Tagged(u[h], s)
      BY <3>1, <1>1 DEF Tagged, HolesClean
    <3>3. Owed(u, wh, s, h) = 1
      BY <3>2, <1>7, <1>9, <1>10 DEF Owed, Tag
    <3>4. Fits(g[h].refcount, 0, x) /\ g[h].refcount \in Int
      BY <1>1, <1>2, InTable DEF Counts
    <3>5. Fits(g[h].refcount + 1, 0 + 1, x)
      BY <3>4, FitsMore
    <3>6. u[h].refcount = g[h].refcount + 1
      BY <3>1, <1>1
    <3>7. QED BY <2>1, <3>3, <3>5, <3>6
  <2>2. CASE i # h
    <3>1. i \in Named(g) /\ i \in DOMAIN g /\ v[i] = g[i] /\ i \in Int
      BY <2>2, <1>1, <1>2, <1>4, InTable
    <3>2. /\ KidCount(g, i) \in Nat /\ Tag(g[i], s) \in {0, 1} /\ w[i] \in Nat
          /\ Owed(g, w, s, i) \in Int /\ g[i].refcount \in Int
      BY <3>1, <1>2, OwedIs
    <3>3. Fits(g[i].refcount, Owed(g, w, s, i), x)
      BY <3>1 DEF Counts
    <3>4. Tag(u[i], s) = Tag(g[i], s)
      BY <3>1, <1>1, <1>3, RecountedIs
    <3>5. CASE i = parent
      <4>1. Owed(u, wh, s, i) = Owed(g, w, s, i) + 1
        BY <3>1, <3>2, <3>4, <3>5, <1>7, <1>8, <1>9 DEF Owed
      <4>2. QED BY <4>1, <3>1, <3>2, <3>3, <3>5, <1>3, FitsMore
    <3>6. CASE i # parent
      <4>1. Owed(u, wh, s, i) = Owed(g, w, s, i)
        BY <3>1, <3>2, <3>4, <3>6, <2>2, <1>7, <1>8, <1>9 DEF Owed
      <4>2. u[i] = g[i]
        BY <3>1, <3>6, <1>1, <1>3
      <4>3. QED BY <4>1, <4>2, <3>3
    <3>7. QED BY <3>5, <3>6
  <2>3. QED BY <2>1, <2>2
<1>12. ASSUME NEW i \in Holes(u) PROVE Fits(u[i].refcount, 0, x)
  <2>1. i \in Holes(g) /\ i # h /\ i # parent /\ i \in DOMAIN g
    BY <1>1, <1>4 DEF Holes
  <2>2. u[i] = g[i]
    BY <2>1, <1>1, <1>3
  <2>3. QED BY <2>1, <2>2 DEF Counts
<1>13. ASSUME NEW i \in Int, wh[i] > 0, i # NoParent PROVE i \in Named(u)
  <2>1. i = h \/ w[i] > 0
    BY <1>9, <1>13
  <2>2. QED BY <2>1, <1>1, <1>4, <1>13 DEF Counts
<1>14. Counts(u, wh, s, x)
  BY <1>11, <1>12, <1>13 DEF Counts
<1>15. QED BY <1>1, <1>4, <1>5, <1>6, <1>14 DEF u, v, wh

(* dirdbFindAndRef, whether it finds the name or makes it. *)
LEMMA FindIs ==
  ASSUME NEW t, Sane(t), NEW w \in Handles, NEW s, NEW x, Counts(t, w, s, x), HolesClean(t, s),
         NEW parent \in Named(t), NEW name \in AllNames, name # NoName
  PROVE  LET u == FindAndRef(t, parent, name)
             m == NodeOf(u, parent, name) IN
         /\ Sane(u) /\ Counts(u, Plus(w, m), s, x) /\ Grew(t, u) /\ m \in Named(u)
         /\ u[m].parent = parent
         /\ Paths(u)[m] = Append(Paths(t)[parent], name)
<1> DEFINE u == FindAndRef(t, parent, name)
           m == NodeOf(u, parent, name)
<1>1. CASE \E i \in Named(t) : t[i].parent = parent /\ t[i].name = name
  <2>1. PICK i \in Named(t) : t[i].parent = parent /\ t[i].name = name
    BY <1>1
  <2>2. NodeOf(t, parent, name) = i
    BY <2>1, NodeOfIs
  <2>3. u = Ref(t, i)
    BY <1>1, <2>2 DEF FindAndRef
  <2> HIDE DEF u
  <2>4. Table(u) /\ Recounted(t, u) /\ Counts(u, Plus(w, i), s, x)
    BY <2>3, CountsRef DEF Sane
  <2>5. Alike(t, u) /\ Sane(u) /\ Paths(u) = Paths(t) /\ Named(u) = Named(t) /\ Grew(t, u)
    BY <2>4, RecountedIs, AlikeIsSane, AlikeNames, RecountedGrew
  <2>6. u[i].parent = parent /\ u[i].name = name
    BY <2>1, <2>5, InTable DEF Alike, Sane
  <2>7. m = i
    BY <2>5, <2>6, NodeOfIs
  <2>8. i # 0
    <3>1. parent \in Nat
      BY InTable DEF Sane
    <3>2. QED BY <2>1, <3>1 DEF Sane, NoParent
  <2>9. Paths(t)[i] = Append(Paths(t)[parent], name)
    BY <2>1, <2>8, PathIs
  <2>10. QED BY <2>1, <2>4, <2>5, <2>6, <2>7, <2>9 DEF u
<1>2. CASE ~ \E i \in Named(t) : t[i].parent = parent /\ t[i].name = name
  <2> DEFINE g == IF Holes(t) = {} THEN Grown(t) ELSE t
             h == Lowest(Holes(g))
             v == With(g, h, parent, name)
  <2>1. parent # NoParent
    <3>1. parent \in Nat
      BY InTable DEF Sane
    <3>2. QED BY <3>1 DEF NoParent
  <2>2. u = Ref(v, parent)
    BY <1>2, <2>1, Zenon DEF FindAndRef, With
  <2>3. Sane(g) /\ Grew(t, g) /\ Counts(g, w, s, x) /\ Paths(g) = Paths(t) /\ Holes(g) # {}
        /\ Named(g) = Named(t) /\ \A i \in DOMAIN g : g[i] = Was(t, i)
    <3>1. CASE Holes(t) = {}
      BY <3>1, GrownIs, GrownIsSane DEF Sane
    <3>2. CASE Holes(t) # {}
      <4>1. Grew(t, t)
        BY DEF Grew, Was, Keeps
      <4>2. QED BY <3>2, <4>1 DEF Was
    <3>3. QED BY <3>1, <3>2
  <2> HIDE DEF g
  <2>4. h \in Holes(g)
    <3>1. Holes(g) \in SUBSET Nat
      BY <2>3, InTable DEF Holes, Sane
    <3>2. QED BY <3>1, <2>3, LowestIs
  <2> HIDE DEF h, u
  <2>5. HolesClean(g, s)
    <3>1. \A i \in Holes(g) : (i \in Holes(t) /\ g[i] = t[i]) \/ g[i] = Hole
      BY <2>3 DEF Holes, Was
    <3>2. QED BY <3>1, HoleIs DEF HolesClean
  <2>6. \A i \in Named(g) : ~(g[i].parent = parent /\ g[i].name = name)
    <3>1. \A i \in Named(g) : g[i] = t[i] /\ i \in Named(t)
      BY <2>3, InTable DEF Was, Sane
    <3>2. QED BY <3>1, <1>2
  <2>7. /\ Sane(u) /\ Counts(u, Plus(w, h), s, x) /\ Grew(g, u) /\ h \in Named(u)
        /\ u[h].parent = parent /\ u[h].name = name
        /\ Paths(u)[h] = Append(Paths(g)[parent], name)
    BY <2>2, <2>3, <2>4, <2>5, <2>6, WithCounts
  <2>8. m = h
    BY <2>7, NodeOfIs
  <2>9. Grew(t, u)
    BY <2>3, <2>7, GrewTrans
  <2>10. QED BY <2>3, <2>7, <2>8, <2>9 DEF u
<1>3. QED BY <1>1, <1>2

-----------------------------------------------------------------------------
(* New holes carry no tags. *)
LEMMA GrewClean ==
  ASSUME NEW t, NEW u, NEW s, HolesClean(t, s), Grew(t, u)
  PROVE  HolesClean(u, s)
<1>1. ASSUME s, NEW i \in Holes(u) PROVE u[i].newmdbref = NoRef
  <2>1. Keeps(Was(t, i), u[i]) /\ i \in DOMAIN u
    BY DEF Grew, Holes
  <2>2. CASE i \in DOMAIN t
    <3>1. i \in Holes(t)
      BY <2>1, <2>2 DEF Holes, Named, Keeps, Was
    <3>2. QED BY <3>1, <2>1, <2>2, <1>1 DEF HolesClean, Keeps, Was
  <2>3. CASE i \notin DOMAIN t
    BY <2>1, <2>3, HoleIs DEF Keeps, Was
  <2>4. QED BY <2>2, <2>3
<1>2. QED BY <1>1 DEF HolesClean

(* Handles are counted in any order. *)
LEMMA PlusSwap ==
  ASSUME NEW w \in Handles, NEW m \in Int, NEW n \in Int
  PROVE  Plus(Plus(w, m), n) = Plus(Plus(w, n), m)
BY DEF Plus, Handles

(* dirdbResolvePathAndRef goes down one name: it gets the child and gives  *)
(* the parent back.                                                        *)
LEMMA DescendIs ==
  ASSUME NEW t, Sane(t), NEW w \in Handles, NEW s, NEW x, NEW n \in Named(t),
         Counts(t, Plus(w, n), s, x), HolesClean(t, s),
         NEW name \in AllNames, name # NoName
  PROVE  LET at == Descend([table |-> t, node |-> n], name) IN
         /\ Sane(at.table) /\ Counts(at.table, Plus(w, at.node), s, x) /\ Grew(t, at.table)
         /\ at.node \in Named(at.table)
         /\ Paths(at.table)[at.node] = Append(Paths(t)[n], name)
<1> DEFINE v == FindAndRef(t, n, name)
           m == NodeOf(v, n, name)
           u == Unref(v, n)
           wn == Plus(w, n)
           wm == Plus(w, m)
<1>1. n \in Nat /\ n # NoParent /\ wn \in Handles
  <2>1. n \in Nat
    BY InTable DEF Sane
  <2>2. QED BY <2>1, PlusIs DEF NoParent
<1>2. Descend([table |-> t, node |-> n], name) = [table |-> u, node |-> m]
  BY <1>1 DEF Descend
<1>3. /\ Sane(v) /\ Counts(v, Plus(wn, m), s, x) /\ Grew(t, v) /\ m \in Named(v)
      /\ v[m].parent = n
      /\ Paths(v)[m] = Append(Paths(t)[n], name)
  BY <1>1, FindIs
<1> HIDE DEF v, m, u, wn, wm
<1>4. m \in Nat /\ Table(v)
  BY <1>3, InTable DEF Sane
<1>5. wm \in Handles /\ Plus(wn, m) = Plus(wm, n)
  BY <1>1, <1>4, PlusIs, PlusSwap DEF wm, wn
<1>6. n \in Named(v)
  BY <1>3, GrewNames
<1>7. v[n].refcount # 1
  <2>1. Fits(v[n].refcount, Owed(v, Plus(wm, n), s, n), x)
    BY <1>3, <1>5, <1>6 DEF Counts
  <2>2. Children(v, n) # {}
    BY <1>3 DEF Children
  <2>3. KidCount(v, n) \in Nat /\ KidCount(v, n) >= 1
    BY <1>4, <2>2, KidsAre
  <2>4. Plus(wm, n)[n] = wm[n] + 1 /\ wm[n] \in Nat
    <3>1. n \in Int
      BY <1>1
    <3>2. QED BY <3>1, <1>5, PlusIs
  <2>5. v[n].refcount \in Int
    BY <1>4, <1>6, InTable
  <2>6. QED BY <2>1, <2>3, <2>4, <2>5 DEF Fits, Owed, Tag
<1>8. u = Recount(v, n, v[n].refcount - 1)
  BY <1>4, <1>6, <1>7, UnrefStays DEF u
<1>9. /\ Sane(u) /\ Counts(u, wm, s, x) /\ Recounted(v, u)
      /\ Named(u) = Named(v) /\ Paths(u) = Paths(v)
  BY <1>3, <1>5, <1>6, <1>8, StepCounts
<1>10. Grew(t, u)
  BY <1>3, <1>9, RecountedGrew, GrewTrans
<1>11. QED BY <1>2, <1>3, <1>9, <1>10 DEF wm

(* The first step finds the drive. *)
LEMMA DescendDrive ==
  ASSUME NEW t, Sane(t), NEW w \in Handles, NEW s, NEW x, Counts(t, w, s, x)
  PROVE  LET at == Descend([table |-> t, node |-> NoParent], Drive[1]) IN
         /\ Sane(at.table) /\ Counts(at.table, Plus(w, at.node), s, x) /\ Grew(t, at.table)
         /\ at.node = 0 /\ 0 \in Named(at.table)
<1>1. 0 \in Named(t) /\ t[0].parent = NoParent /\ t[0].name = Drive[1]
  BY DEF Sane
<1> DEFINE u == Ref(t, 0)
<1>2. NodeOf(t, NoParent, Drive[1]) = 0
  BY <1>1, NodeOfIs
<1>3. FindAndRef(t, NoParent, Drive[1]) = u
  BY <1>1, <1>2 DEF FindAndRef
<1>4. Table(u) /\ Recounted(t, u) /\ Counts(u, Plus(w, 0), s, x)
  BY <1>1, CountsRef DEF Sane
<1> HIDE DEF u
<1>5. Sane(u) /\ Named(u) = Named(t) /\ Grew(t, u)
  BY <1>4, RecountedIs, AlikeIsSane, AlikeNames, RecountedGrew
<1>6. NodeOf(u, NoParent, Drive[1]) = 0
  <2>1. 0 \in Named(u) /\ u[0].parent = NoParent /\ u[0].name = Drive[1]
    BY <1>5 DEF Sane
  <2>2. QED BY <2>1, <1>5, NodeOfIs
<1>7. Descend([table |-> t, node |-> NoParent], Drive[1]) = [table |-> u, node |-> 0]
  BY <1>3, <1>6 DEF Descend
<1>8. QED BY <1>1, <1>4, <1>5, <1>7

(* dirdbResolvePathAndRef as a loop, k names down. *)
DownStep(f, k, t, path) == IF k = 0 THEN [table |-> t, node |-> NoParent] ELSE Descend(f[k-1], path[k])
IsDown(f, j, t, path) == f = [k \in 0 .. j |-> DownStep(f, k, t, path)]

(* The recursive function of the walk down exists, *)
LEMMA DownExists ==
  \A t, path : \A j \in Nat : \E f : IsDown(f, j, t, path)
<1> SUFFICES ASSUME NEW t, NEW path, NEW any \in Nat, ~ \E f : IsDown(f, any, t, path)
             PROVE  FALSE
  OBVIOUS
<1> DEFINE Bad == {j \in Nat : ~ \E f : IsDown(f, j, t, path)}
<1>1. PICK j \in Bad : \A y \in Bad : j <= y
  BY HasLeast
<1>2. CASE j = 0
  <2> DEFINE f == [k \in 0 .. 0 |-> [table |-> t, node |-> NoParent]]
  <2>1. \A k \in 0 .. 0 : DownStep(f, k, t, path) = [table |-> t, node |-> NoParent]
    BY DEF DownStep
  <2>2. IsDown(f, 0, t, path)
    BY <2>1 DEF IsDown
  <2>3. QED BY <1>1, <1>2, <2>2
<1>3. CASE j # 0
  <2>1. j \in Nat /\ j - 1 \in Nat /\ j - 1 \notin Bad
    BY <1>1, <1>3
  <2>2. PICK f : IsDown(f, j - 1, t, path)
    BY <2>1
  <2> DEFINE g == [k \in 0 .. j |-> IF k = j THEN Descend(f[j - 1], path[j]) ELSE f[k]]
  <2>3. \A k \in 0 .. j - 1 : g[k] = f[k] /\ k \in 0 .. j
    BY <2>1
  <2>4. g[j] = Descend(f[j - 1], path[j]) /\ g = [k \in 0 .. j |-> g[k]]
    BY <2>1
  <2> HIDE DEF g
  <2>5. ASSUME NEW k \in 0 .. j PROVE g[k] = DownStep(g, k, t, path)
    <3>1. CASE k = j
      <4>1. j - 1 \in 0 .. j - 1
        BY <2>1
      <4>2. g[j - 1] = f[j - 1]
        BY <4>1, <2>3
      <4>3. QED BY <3>1, <4>2, <2>4, <1>3 DEF DownStep
    <3>2. CASE k # j
      <4>1. k \in 0 .. j - 1 /\ (k # 0 => k - 1 \in 0 .. j - 1)
        BY <3>2, <2>1
      <4>2. f[k] = DownStep(f, k, t, path)
        BY <4>1, <2>2 DEF IsDown
      <4>3. g[k] = f[k] /\ (k # 0 => g[k - 1] = f[k - 1])
        BY <4>1, <2>3
      <4>4. QED BY <4>2, <4>3 DEF DownStep
    <3>3. QED BY <3>1, <3>2
  <2>6. IsDown(g, j, t, path)
    BY <2>4, <2>5 DEF IsDown
  <2>7. QED BY <1>1, <2>6
<1>4. QED BY <1>2, <1>3

(* and gives its steps. *)
LEMMA ResolveDown ==
  ASSUME NEW t, NEW path, Len(path) \in Nat
  PROVE  \E f : /\ Resolve(t, path) = f[Len(path)]
                /\ f[0] = [table |-> t, node |-> NoParent]
                /\ \A k \in 1 .. Len(path) : f[k] = Descend(f[k-1], path[k])
<1> DEFINE F == CHOOSE f : IsDown(f, Len(path), t, path)
<1>1. \E f : IsDown(f, Len(path), t, path)
  BY DownExists
<1>2. IsDown(F, Len(path), t, path)
  BY <1>1
<1>3. Resolve(t, path) = F[Len(path)]
  BY DEF Resolve, IsDown, DownStep
<1> HIDE DEF F
<1>4. F[0] = [table |-> t, node |-> NoParent]
  BY <1>2 DEF IsDown, DownStep
<1>5. ASSUME NEW k \in 1 .. Len(path) PROVE F[k] = Descend(F[k-1], path[k])
  BY <1>2 DEF IsDown, DownStep
<1>6. QED BY <1>3, <1>4, <1>5

(* What dirdbResolvePathAndRef must give. *)
Resolved(t, at, path, w, s, x) ==
  /\ Sane(at.table) /\ at.node \in Named(at.table)
  /\ Paths(at.table)[at.node] = path
  /\ Counts(at.table, Plus(w, at.node), s, x) /\ Grew(t, at.table)

(* A path up to a name is the path before it, and the name. *)
LEMMA FrontLast ==
  ASSUME NEW S, NEW q \in Seq(S), NEW k \in 1 .. Len(q), k > 1
  PROVE  SubSeq(q, 1, k) = Append(SubSeq(q, 1, k - 1), q[k])
<1>1. k - 1 \in Nat /\ Len(q) \in Nat /\ k <= Len(q) /\ k \in Int
  OBVIOUS
<1> DEFINE a == SubSeq(q, 1, k)
           b == SubSeq(q, 1, k - 1)
           c == Append(b, q[k])
<1>2. Len(a) = k /\ \A i \in 1 .. k : a[i] = q[i]
  BY <1>1
<1>3. Len(b) = k - 1 /\ \A i \in 1 .. k - 1 : b[i] = q[i]
  BY <1>1
<1>4. a \in Seq(S) /\ b \in Seq(S) /\ q[k] \in S
  BY <1>1, ElementOfSeq
<1> HIDE DEF a, b
<1>5. c \in Seq(S) /\ Len(c) = k /\ c[k] = q[k] /\ \A i \in 1 .. k - 1 : c[i] = b[i]
  BY <1>1, <1>3, <1>4
<1> HIDE DEF c
<1>6. \A i \in 1 .. Len(a) : a[i] = c[i]
  BY <1>1, <1>2, <1>3, <1>5
<1>7. a = c
  BY <1>2, <1>4, <1>5, <1>6, SeqEqual
<1>8. QED BY <1>7 DEF a, b, c

(* A path up to its first name. *)
LEMMA FirstOnly ==
  ASSUME NEW S, NEW q \in Seq(S), Len(q) >= 1, NEW a \in S, q[1] = a
  PROVE  SubSeq(q, 1, 1) = <<a>>
<1> DEFINE b == SubSeq(q, 1, 1)
           c == <<a>>
<1>1. b \in Seq(S) /\ Len(b) = 1 /\ b[1] = q[1]
  OBVIOUS
<1>2. c \in Seq(S) /\ Len(c) = 1 /\ c[1] = a
  OBVIOUS
<1> HIDE DEF b, c
<1>3. b = c
  BY <1>1, <1>2, SeqEqual
<1>4. QED BY <1>3 DEF b, c

(* dirdbResolvePathAndRef gives a handle of the node with that path, which *)
(* it makes when it is not there.                                          *)
LEMMA ResolveIs ==
  ASSUME NEW t, Sane(t), NEW w \in Handles, NEW s, NEW x, Counts(t, w, s, x), HolesClean(t, s),
         NEW path \in Seq(AllNames), Len(path) >= 1, path[1] = Drive[1],
         \A i \in 1 .. Len(path) : path[i] # NoName
  PROVE  Resolved(t, Resolve(t, path), path, w, s, x)
<1> DEFINE n == Len(path)
           Done(f, k) == Resolved(t, f[k], SubSeq(path, 1, k), w, s, x)
<1>1. n \in Nat /\ n >= 1 /\ \A k \in 1 .. n : path[k] \in AllNames
  BY LenProperties, ElementOfSeq
<1>2. PICK f : /\ Resolve(t, path) = f[n]
               /\ f[0] = [table |-> t, node |-> NoParent]
               /\ \A k \in 1 .. n : f[k] = Descend(f[k-1], path[k])
  BY <1>1, ResolveDown
<1> HIDE DEF n
<1>3. Done(f, 1)
  <2>1. f[1] = Descend([table |-> t, node |-> NoParent], Drive[1])
    <3>1. 1 \in 1 .. n /\ 1 - 1 = 0
      BY <1>1
    <3>2. f[1] = Descend(f[1-1], path[1])
      BY <3>1, <1>2
    <3>3. QED BY <3>1, <3>2, <1>2
  <2> DEFINE at == f[1]
  <2>2. /\ Sane(at.table) /\ Counts(at.table, Plus(w, at.node), s, x) /\ Grew(t, at.table)
        /\ at.node = 0 /\ 0 \in Named(at.table)
    BY <2>1, DescendDrive
  <2>3. SubSeq(path, 1, 1) = Drive
    <3>1. Drive[1] \in AllNames /\ Drive = <<Drive[1]>>
      BY DEF AllNames, Drive
    <3>2. QED BY <3>1, <1>1, FirstOnly DEF n
  <2>4. Paths(at.table)[0] = Drive
    BY <2>2, RootPath
  <2>5. QED BY <2>2, <2>3, <2>4 DEF Resolved
<1>4. \A k \in 1 .. n : Done(f, k)
  <2> SUFFICES ASSUME NEW any \in 1 .. n, ~Done(f, any)
               PROVE  FALSE
    OBVIOUS
  <2> DEFINE Bad == {k \in 1 .. n : ~Done(f, k)}
  <2>1. PICK k \in Bad : \A y \in Bad : k <= y
    <3>1. Bad \in SUBSET Nat /\ Bad # {}
      BY <1>1
    <3>2. QED BY <3>1, HasLeast
  <2>2. k # 1 /\ k \in 1 .. n /\ k - 1 \in 1 .. n /\ k - 1 \in Nat /\ (k - 1) + 1 = k
    BY <1>3, <2>1, <1>1
  <2>3. k - 1 \notin Bad
    BY <2>1, <2>2
  <2>4. Done(f, k - 1)
    BY <2>2, <2>3
  <2> DEFINE u == f[k-1].table
             m == f[k-1].node
             at == f[k]
             a == path[k]
             q == SubSeq(path, 1, k - 1)
  <2>5. Sane(u) /\ m \in Named(u) /\ Paths(u)[m] = q /\ Counts(u, Plus(w, m), s, x) /\ Grew(t, u)
    BY <2>4 DEF Resolved
  <2>6. a \in AllNames /\ a # NoName
    BY <1>1, <2>2 DEF n
  <2>7. at = Descend([table |-> u, node |-> m], a)
    <3>1. at = Descend(f[k-1], a)
      BY <2>2, <1>2
    <3>2. Descend(f[k-1], a) = Descend([table |-> u, node |-> m], a)
      BY DEF Descend
    <3>3. QED BY <3>1, <3>2
  <2>8. SubSeq(path, 1, k) = Append(q, a)
    <3>1. k > 1
      BY <2>2, <1>1
    <3>2. QED BY <2>2, <3>1, FrontLast DEF n
  <2> HIDE DEF u, m, at, a, q
  <2>9. HolesClean(u, s)
    BY <2>5, GrewClean
  <2>10. /\ Sane(at.table) /\ Counts(at.table, Plus(w, at.node), s, x) /\ Grew(u, at.table)
         /\ at.node \in Named(at.table)
         /\ Paths(at.table)[at.node] = Append(Paths(u)[m], a)
    BY <2>5, <2>6, <2>7, <2>9, DescendIs, SMTT(40)
  <2>11. Grew(t, at.table)
    BY <2>5, <2>10, GrewTrans
  <2>12. Resolved(t, at, SubSeq(path, 1, k), w, s, x)
    BY <2>5, <2>8, <2>10, <2>11 DEF Resolved
  <2>13. QED BY <2>1, <2>12 DEF at
<1>5. SubSeq(path, 1, n) = path
  BY <1>1, SubSeqFull DEF n
<1>6. n \in 1 .. n
  BY <1>1
<1>7. QED BY <1>2, <1>4, <1>5, <1>6

-----------------------------------------------------------------------------
(* What an entry says of the file it names.                                *)
RefOK(e, s) ==
  /\ e.mdbref \in Mdbrefs \cup {NoRef, 0}
  /\ e.newmdbref \in {NoRef, 0} \cup (IF s THEN Mdbrefs ELSE {})
  /\ e.name = NoName => (s => e.newmdbref = NoRef) /\ (~Restarts => e.mdbref = NoRef)
  /\ s /\ e.name # NoName => NoRef \in {e.mdbref, e.newmdbref}
Refs(t, s) == \A i \in DOMAIN t : RefOK(t[i], s)

(* Which entries are right: holes, what keeps its references, new names.   *)
LEMMA RefOKIs ==
  /\ \A s : RefOK(Hole, s)
  /\ \A e, f, s : RefOK(e, s) /\ Keeps(e, f) => RefOK(f, s)
  /\ \A e, f, s : RefOK(e, s) /\ f.name # NoName /\ f.mdbref = NoRef /\ f.newmdbref = e.newmdbref
                    => RefOK(f, s)
<1>1. ASSUME NEW s PROVE RefOK(Hole, s)
  BY HoleIs DEF RefOK
<1>2. ASSUME NEW e, NEW f, NEW s, RefOK(e, s), Keeps(e, f) PROVE RefOK(f, s)
  BY <1>2 DEF RefOK, Keeps
<1>3. ASSUME NEW e, NEW f, NEW s, RefOK(e, s), f.name # NoName, f.mdbref = NoRef,
             f.newmdbref = e.newmdbref
      PROVE  RefOK(f, s)
  BY <1>3 DEF RefOK
<1>4. QED BY <1>1, <1>2, <1>3

(* What goes does no harm to the references, *)
LEMMA RefsShrunk ==
  ASSUME NEW t, NEW u, NEW s, Refs(t, s), Shrunk(t, u, s)
  PROVE  Refs(u, s)
<1>1. ASSUME NEW i \in DOMAIN u PROVE RefOK(u[i], s)
  <2>1. i \in DOMAIN t /\ RefOK(t[i], s) /\ (Keeps(t[i], u[i]) \/ Keeps(Hole, u[i]))
    BY DEF Refs, Shrunk
  <2>2. QED BY <2>1, RefOKIs
<1>2. QED BY <1>1 DEF Refs

(* nor does what comes, *)
LEMMA RefsGrew ==
  ASSUME NEW t, NEW u, NEW s, Refs(t, s), Grew(t, u)
  PROVE  Refs(u, s)
<1>1. ASSUME NEW i \in DOMAIN u PROVE RefOK(u[i], s)
  <2>1. RefOK(Was(t, i), s)
    BY RefOKIs DEF Refs, Was
  <2>2. CASE Keeps(Was(t, i), u[i])
    BY <2>1, <2>2, RefOKIs
  <2>3. CASE ~Keeps(Was(t, i), u[i])
    <3>1. i \in Named(u) /\ u[i].mdbref = NoRef /\ u[i].newmdbref = Was(t, i).newmdbref
      BY <2>3 DEF Grew
    <3>2. u[i].name # NoName
      BY <3>1 DEF Named
    <3>3. QED BY <2>1, <3>1, <3>2, RefOKIs
  <2>4. QED BY <2>2, <2>3
<1>2. QED BY <1>1 DEF Refs

(* and no hole is tagged. *)
LEMMA RefsClean ==
  ASSUME NEW t, NEW s, Refs(t, s)
  PROVE  HolesClean(t, s)
BY DEF Refs, RefOK, HolesClean, Holes, Named
-----------------------------------------------------------------------------
(* One entry gets other references, and the handles make up for the tag.   *)
LEMMA Retag ==
  ASSUME NEW t, Sane(t), NEW w \in Handles, NEW v \in Handles, NEW s, NEW x, Counts(t, w, s, x),
         NEW n \in Named(t), NEW u, Table(u), DOMAIN u = DOMAIN t,
         \A i \in DOMAIN t : i # n => u[i] = t[i],
         u[n].name = t[n].name, u[n].parent = t[n].parent,
         u[n].refcount - Tag(u[n], s) - v[n] = t[n].refcount - Tag(t[n], s) - w[n],
         \A i \in Int : i # n => v[i] = w[i]
  PROVE  Sane(u) /\ Paths(u) = Paths(t) /\ Named(u) = Named(t) /\ Counts(u, v, s, x)
<1>1. Named(u) = Named(t) /\ Holes(u) = Holes(t)
  <2>1. Named(u) = Named(t)
    BY DEF Named
  <2>2. QED BY <2>1 DEF Holes
<1>2. /\ \A i \in Named(t) : u[i].parent = t[i].parent /\ u[i].name = t[i].name
      /\ \A i \in Holes(t) : u[i] = t[i]
  BY DEF Holes, Named
<1>3. \A i \in Holes(u) : u[i].parent = 0
  BY <1>1, <1>2 DEF Sane
<1>4. Sane(u) /\ Paths(u) = Paths(t) /\ \A i : KidCount(u, i) = KidCount(t, i)
  BY <1>1, <1>2, <1>3, SaneSame
<1>5. ASSUME NEW i \in Named(u) PROVE Fits(u[i].refcount, Owed(u, v, s, i), x)
  <2>1. Fits(t[i].refcount, Owed(t, w, s, i), x) /\ KidCount(u, i) = KidCount(t, i)
    BY <1>1, <1>4 DEF Counts
  <2>2. i \in DOMAIN t /\ i \in DOMAIN u /\ i \in Int
    BY <1>1, InTable DEF Sane
  <2>3. CASE i # n
    BY <2>1, <2>2, <2>3 DEF Owed
  <2>4. CASE i = n
    <3>1. /\ KidCount(t, i) \in Nat /\ Tag(t[i], s) \in {0, 1} /\ w[i] \in Nat
          /\ Tag(u[i], s) \in {0, 1} /\ v[i] \in Nat
          /\ t[i].refcount \in Int /\ u[i].refcount \in Int
      BY <2>2, OwedIs DEF Sane
    <3> DEFINE a == u[i].refcount
               b == t[i].refcount
               c == Tag(u[i], s)
               d == Tag(t[i], s)
               f == v[i]
               g == w[i]
               k == KidCount(t, i)
    <3>2. Fits(b, k + d + g, x) /\ a - c - f = b - d - g
      BY <2>1, <2>4 DEF Owed
    <3>3. k \in Int /\ d \in Int /\ g \in Int /\ c \in Int /\ f \in Int /\ a \in Int /\ b \in Int
      BY <3>1
    <3>4. Owed(u, v, s, i) = k + c + f
      BY <2>1 DEF Owed
    <3> HIDE DEF a, b, c, d, f, g, k
    <3>5. Fits(a, k + c + f, x)
      BY <3>2, <3>3 DEF Fits
    <3>6. QED BY <3>4, <3>5 DEF a
  <2>5. QED BY <2>3, <2>4
<1>6. \A i \in Holes(u) : Fits(u[i].refcount, 0, x)
  BY <1>1, <1>2 DEF Counts
<1>7. \A i \in Int : v[i] > 0 /\ i # NoParent => i \in Named(u)
  BY <1>1 DEF Counts
<1>8. QED BY <1>1, <1>4, <1>5, <1>6, <1>7 DEF Counts

(* An entry with other references.                                         *)
Put(t, n, e) == [t EXCEPT ![n] = e]
OldRef(e, r) == [e EXCEPT !.mdbref = r]
NewRef(e, r) == [e EXCEPT !.newmdbref = r]

(* One entry is replaced. *)
LEMMA PutIs ==
  ASSUME NEW t, Table(t), NEW n \in DOMAIN t, NEW e \in Entry
  PROVE  /\ Table(Put(t, n, e)) /\ DOMAIN Put(t, n, e) = DOMAIN t /\ Put(t, n, e)[n] = e
         /\ \A i \in DOMAIN t : i # n => Put(t, n, e)[i] = t[i]
<1>1. t \in [0 .. Size(t) - 1 -> Entry] /\ Size(t) \in Nat /\ DOMAIN t = 0 .. Size(t) - 1
  BY DEF Table
<1> DEFINE u == [t EXCEPT ![n] = e]
<1>2. u \in [0 .. Size(t) - 1 -> Entry]
  BY <1>1
<1>3. u[n] = e /\ \A i \in DOMAIN t : i # n => u[i] = t[i]
  OBVIOUS
<1> HIDE DEF u
<1>4. Table(u) /\ DOMAIN u = DOMAIN t
  BY <1>1, <1>2, TableIs
<1>5. u = Put(t, n, e)
  BY DEF u, Put
<1>6. QED BY <1>3, <1>4, <1>5

(* One entry gets a tag, *)
LEMMA NewRefIs ==
  ASSUME NEW e \in Entry, NEW r \in Int
  PROVE  LET f == NewRef(e, r) IN
         /\ f \in Entry /\ f.name = e.name /\ f.parent = e.parent /\ f.refcount = e.refcount
         /\ f.mdbref = e.mdbref /\ f.newmdbref = r
BY DEF Entry, NewRef

(* or an mdbref. *)
LEMMA OldRefIs ==
  ASSUME NEW e \in Entry, NEW r \in Int
  PROVE  LET f == OldRef(e, r) IN
         /\ f \in Entry /\ f.name = e.name /\ f.parent = e.parent /\ f.refcount = e.refcount
         /\ f.mdbref = r /\ f.newmdbref = e.newmdbref
BY DEF Entry, OldRef

(* dirdbTagSetParent starts with no tags.                                  *)
LEMMA TagSetParentIs ==
  ASSUME NEW t, Sane(t), NEW w \in Handles, NEW x, NEW n \in Named(t), Counts(t, w, FALSE, x),
         Refs(t, FALSE)
  PROVE  LET u == TagSetParent(t, n) IN
         /\ Sane(u) /\ Paths(u) = Paths(t) /\ Named(u) = Named(t)
         /\ Counts(u, Plus(w, n), TRUE, x) /\ Refs(u, TRUE)
         /\ \A i \in Named(u) : u[i].newmdbref = NoRef /\ u[i].mdbref = t[i].mdbref
<1> DEFINE c == [i \in DOMAIN t |-> NewRef(t[i], NoRef)]
           u == Ref(c, n)
<1>1. u = TagSetParent(t, n)
  BY DEF TagSetParent, NewRef
<1>2. /\ Table(t) /\ DOMAIN t = 0 .. Size(t) - 1 /\ Size(t) \in Nat /\ DOMAIN t \subseteq Nat
      /\ \A i \in DOMAIN t : t[i] \in Entry /\ t[i].refcount \in Int
  BY InTable DEF Sane, Table
<1>3. \A i \in DOMAIN t : /\ c[i] \in Entry /\ c[i].name = t[i].name /\ c[i].parent = t[i].parent
                          /\ c[i].refcount = t[i].refcount /\ c[i].mdbref = t[i].mdbref
                          /\ c[i].newmdbref = NoRef
  BY <1>2, NewRefIs DEF NoRef
<1>4. c \in [0 .. Size(t) - 1 -> Entry] /\ DOMAIN c = DOMAIN t
  BY <1>2, <1>3
<1> HIDE DEF c
<1>5. Table(c)
  BY <1>2, <1>4, TableIs
<1>6. Named(c) = Named(t) /\ Holes(c) = Holes(t)
  <2>1. Named(c) = Named(t)
    BY <1>3, <1>4 DEF Named
  <2>2. QED BY <2>1, <1>4 DEF Holes
<1>7. \A i \in Named(t) : i \in DOMAIN t
  BY DEF Named
<1>8. Sane(c) /\ Paths(c) = Paths(t) /\ \A i : KidCount(c, i) = KidCount(t, i)
  <2>1. \A i \in Holes(c) : c[i].parent = 0
    BY <1>3, <1>6 DEF Sane, Holes
  <2>2. \A i \in Named(t) : c[i].parent = t[i].parent /\ c[i].name = t[i].name
    BY <1>3, <1>7
  <2>3. QED BY <1>5, <1>6, <2>1, <2>2, SaneSame
<1>9. Counts(c, w, TRUE, x)
  <2>1. ASSUME NEW i \in Named(c) PROVE Fits(c[i].refcount, Owed(c, w, TRUE, i), x)
    <3>1. i \in DOMAIN t /\ i \in Named(t)
      BY <1>6, <1>7
    <3>2. Tagged(c[i], TRUE) = Tagged(t[i], FALSE)
      BY <3>1, <1>3 DEF Tagged
    <3>3. Tag(c[i], TRUE) = Tag(t[i], FALSE)
      BY <3>2 DEF Tag
    <3>4. Owed(c, w, TRUE, i) = Owed(t, w, FALSE, i)
      BY <3>3, <1>8 DEF Owed
    <3>5. QED BY <3>1, <3>4, <1>3 DEF Counts
  <2>2. ASSUME NEW i \in Holes(c) PROVE Fits(c[i].refcount, 0, x)
    BY <1>3, <1>6 DEF Counts, Holes
  <2>3. \A i \in Int : w[i] > 0 /\ i # NoParent => i \in Named(c)
    BY <1>6 DEF Counts
  <2>4. QED BY <2>1, <2>2, <2>3 DEF Counts
<1>10. Refs(c, TRUE)
  <2>1. ASSUME NEW i \in DOMAIN c PROVE RefOK(c[i], TRUE)
    <3>1. RefOK(t[i], FALSE) /\ i \in DOMAIN t
      BY <1>4 DEF Refs
    <3>2. c[i].name = t[i].name /\ c[i].mdbref = t[i].mdbref /\ c[i].newmdbref = NoRef
      BY <3>1, <1>3
    <3>3. QED BY <3>1, <3>2 DEF RefOK
  <2>2. QED BY <2>1 DEF Refs
<1>11. Table(u) /\ Recounted(c, u) /\ Counts(u, Plus(w, n), TRUE, x)
  BY <1>5, <1>6, <1>9, CountsRef
<1> HIDE DEF u
<1>12. Alike(c, u) /\ Shrunk(c, u, TRUE)
  BY <1>11, RecountedIs
<1>13. Sane(u) /\ Paths(u) = Paths(t) /\ Named(u) = Named(t)
  BY <1>6, <1>8, <1>11, <1>12, AlikeIsSane, AlikeNames
<1>14. Refs(u, TRUE)
  BY <1>10, <1>12, RefsShrunk
<1>15. ASSUME NEW i \in Named(u) PROVE u[i].newmdbref = NoRef /\ u[i].mdbref = t[i].mdbref
  <2>1. i \in DOMAIN t /\ i \in DOMAIN c
    BY <1>4, <1>7, <1>13
  <2>2. Keeps(c[i], u[i])
    BY <2>1, <1>11 DEF Recounted
  <2>3. QED BY <2>1, <2>2, <1>3 DEF Keeps
<1>16. QED BY <1>1, <1>11, <1>13, <1>14, <1>15

-----------------------------------------------------------------------------
(* Arithmetic of a tag that comes, *)
LEMMA TagUp ==
  ASSUME NEW a, NEW b \in Int, NEW c, NEW d, NEW g \in Int, a = b + 1, c = 1, d = 0
  PROVE  a - c - g = b - d - g
OBVIOUS

(* and of one that takes the place of a handle. *)
LEMMA TagDown ==
  ASSUME NEW a, NEW b \in Int, NEW c, NEW d, NEW f, NEW g \in Int, a = b, c = 0, d = 1, f = g + 1
  PROVE  a - c - f = b - d - g
OBVIOUS

(* Entry n has the tag r, which is counted. *)
Marked(t, u, w, x, n, r) ==
  /\ Sane(u) /\ Paths(u) = Paths(t) /\ Named(u) = Named(t)
  /\ Counts(u, w, TRUE, x) /\ Refs(u, TRUE)
  /\ DOMAIN u = DOMAIN t /\ u[n].newmdbref = r /\ u[n].mdbref = NoRef
  /\ \A i \in DOMAIN t : i # n => u[i] = t[i]

(* dirdbMakeMdbAdbRef tags a file and counts the tag. *)
LEMMA MakeMdbAdbRefIs ==
  ASSUME NEW t, Sane(t), NEW w \in Handles, NEW x, Counts(t, w, TRUE, x), Refs(t, TRUE),
         NEW n \in Named(t), t[n].mdbref = NoRef, t[n].newmdbref = NoRef, NEW r \in Mdbrefs
  PROVE  Marked(t, MakeMdbAdbRef(t, n, r), w, x, n, r)
<1> DEFINE e == NewRef(t[n], r)
           v == Put(t, n, e)
           u == Recount(v, n, v[n].refcount + 1)
<1>1. MakeMdbAdbRef(t, n, r) = u
  BY DEF MakeMdbAdbRef, Ref, Recount, Put, NewRef
<1>2. /\ Table(t) /\ n \in DOMAIN t /\ t[n] \in Entry /\ r \in Int /\ r # NoRef /\ t[n].refcount \in Int
      /\ n \in Int
  BY InTable, NumbersAssumption DEF Sane, NoRef
<1>3. /\ e \in Entry /\ e.name = t[n].name /\ e.parent = t[n].parent /\ e.refcount = t[n].refcount
      /\ e.mdbref = t[n].mdbref /\ e.newmdbref = r
  BY <1>2, NewRefIs
<1> HIDE DEF e
<1>4. /\ Table(v) /\ DOMAIN v = DOMAIN t /\ v[n] = e
      /\ \A i \in DOMAIN t : i # n => v[i] = t[i]
  BY <1>2, <1>3, PutIs
<1> HIDE DEF v
<1>5. v[n].refcount + 1 \in Int /\ n \in DOMAIN v
  BY <1>2, <1>3, <1>4
<1>6. /\ Table(u) /\ Recounted(v, u) /\ u[n].refcount = v[n].refcount + 1
      /\ \A i \in DOMAIN v : i # n => u[i] = v[i]
  BY <1>4, <1>5, RefIs
<1> HIDE DEF u
<1>7. /\ DOMAIN u = DOMAIN t /\ \A i \in DOMAIN t : i # n => u[i] = t[i]
      /\ u[n].name = t[n].name /\ u[n].parent = t[n].parent
      /\ u[n].refcount = t[n].refcount + 1 /\ u[n].mdbref = NoRef /\ u[n].newmdbref = r
  BY <1>2, <1>3, <1>4, <1>6 DEF Recounted, Keeps
<1>8. Tag(u[n], TRUE) = 1 /\ Tag(t[n], TRUE) = 0
  BY <1>2, <1>7 DEF Tag, Tagged
<1>9. w[n] \in Int
  BY <1>2 DEF Handles
<1>10. u[n].refcount - Tag(u[n], TRUE) - w[n] = t[n].refcount - Tag(t[n], TRUE) - w[n]
  <2> DEFINE a == u[n].refcount
             b == t[n].refcount
             c == Tag(u[n], TRUE)
             d == Tag(t[n], TRUE)
             g == w[n]
  <2>1. b \in Int /\ g \in Int /\ a = b + 1 /\ c = 1 /\ d = 0
    BY <1>2, <1>7, <1>8, <1>9
  <2> HIDE DEF a, b, c, d, g
  <2>2. a - c - g = b - d - g
    BY <2>1, TagUp
  <2>3. QED BY <2>2 DEF a, b, c, d, g
<1>11. Sane(u) /\ Paths(u) = Paths(t) /\ Named(u) = Named(t) /\ Counts(u, w, TRUE, x)
  BY <1>6, <1>7, <1>10, Retag
<1>12. Refs(u, TRUE)
  <2>1. ASSUME NEW i \in DOMAIN u PROVE RefOK(u[i], TRUE)
    <3>1. CASE i # n
      BY <3>1, <1>7 DEF Refs
    <3>2. CASE i = n
      BY <3>2, <1>2, <1>7 DEF RefOK, Named
    <3>3. QED BY <3>1, <3>2
  <2>2. QED BY <2>1 DEF Refs
<1>13. QED BY <1>1, <1>7, <1>11, <1>12 DEF Marked
-----------------------------------------------------------------------------
(* The two things a submit does with a tag. *)
Cleared(t, i) == [t EXCEPT ![i].newmdbref = NoRef]
Moved(t, i) == [t EXCEPT ![i].mdbref = t[i].newmdbref, ![i].newmdbref = NoRef]

(* The tag is dropped. *)
LEMMA ClearedIs ==
  ASSUME NEW t, Table(t), NEW i \in DOMAIN t, NEW u, u = Cleared(t, i)
  PROVE  /\ Table(u) /\ DOMAIN u = DOMAIN t /\ \A j \in DOMAIN t : j # i => u[j] = t[j]
         /\ u[i].name = t[i].name /\ u[i].parent = t[i].parent /\ u[i].refcount = t[i].refcount
         /\ u[i].mdbref = t[i].mdbref /\ u[i].newmdbref = NoRef /\ t[i].refcount \in Int
<1> DEFINE e == NewRef(t[i], NoRef)
<1>1. Cleared(t, i) = Put(t, i, e)
  BY DEF Cleared, Put, NewRef
<1>2. t[i] \in Entry /\ NoRef \in Int /\ t[i].refcount \in Int
  BY InTable, HoleIs
<1>3. /\ e \in Entry /\ e.name = t[i].name /\ e.parent = t[i].parent /\ e.refcount = t[i].refcount
      /\ e.mdbref = t[i].mdbref /\ e.newmdbref = NoRef
  BY <1>2, NewRefIs
<1> HIDE DEF e
<1>4. QED BY <1>1, <1>2, <1>3, PutIs

(* The tag becomes the mdbref. *)
LEMMA MovedIs ==
  ASSUME NEW t, Table(t), NEW i \in DOMAIN t, NEW u, u = Moved(t, i)
  PROVE  /\ Table(u) /\ DOMAIN u = DOMAIN t /\ \A j \in DOMAIN t : j # i => u[j] = t[j]
         /\ u[i].name = t[i].name /\ u[i].parent = t[i].parent /\ u[i].refcount = t[i].refcount
         /\ u[i].mdbref = t[i].newmdbref /\ u[i].newmdbref = NoRef /\ t[i].refcount \in Int
<1> DEFINE d == OldRef(t[i], t[i].newmdbref)
           e == NewRef(d, NoRef)
<1>1. Moved(t, i) = Put(t, i, e)
  BY DEF Moved, Put, NewRef, OldRef
<1>2. t[i] \in Entry /\ NoRef \in Int /\ t[i].refcount \in Int /\ t[i].newmdbref \in Int
  BY InTable, HoleIs
<1>3. /\ d \in Entry /\ d.name = t[i].name /\ d.parent = t[i].parent /\ d.refcount = t[i].refcount
      /\ d.mdbref = t[i].newmdbref
  BY <1>2, OldRefIs
<1> HIDE DEF d
<1>4. /\ e \in Entry /\ e.name = t[i].name /\ e.parent = t[i].parent /\ e.refcount = t[i].refcount
      /\ e.mdbref = t[i].newmdbref /\ e.newmdbref = NoRef
  BY <1>2, <1>3, NewRefIs
<1> HIDE DEF e
<1>5. QED BY <1>1, <1>2, <1>4, PutIs

(* A tag taken from an entry that has no mdbref leaves a handle too many,  *)
(* which dirdbUnref gives back.                                            *)
LEMMA UntagIs ==
  ASSUME NEW t, Sane(t), NEW w \in Handles, w[0] >= 1, NEW x, Counts(t, w, TRUE, x), Refs(t, TRUE),
         NEW i \in DOMAIN t
  PROVE  LET u == Untag(t, i) IN
         /\ Sane(u) /\ Counts(u, w, TRUE, x) /\ Refs(u, TRUE) /\ u[i].newmdbref = NoRef
         /\ \/ u = t /\ t[i].newmdbref = NoRef
            \/ i \in Named(t) /\ Shrunk(Cleared(t, i), u, TRUE)
<1> DEFINE c == Cleared(t, i)
           u == Unref(c, i)
<1>1. CASE t[i].newmdbref = NoRef
  <2>1. Untag(t, i) = t
    BY <1>1 DEF Untag
  <2>2. QED BY <1>1, <2>1
<1>2. CASE t[i].newmdbref # NoRef
  <2>1. Untag(t, i) = u
    BY <1>2 DEF Untag, Cleared
  <2>2. Table(t) /\ i \in Int
    <3>1. Table(t)
      BY DEF Sane
    <3>2. QED BY <3>1, InTable
  <2>r. RefOK(t[i], TRUE)
    BY DEF Refs
  <2>3. i \in Named(t) /\ t[i].mdbref = NoRef
    BY <1>2, <2>r DEF RefOK, Named
  <2>4. /\ Table(c) /\ DOMAIN c = DOMAIN t /\ \A j \in DOMAIN t : j # i => c[j] = t[j]
        /\ c[i].name = t[i].name /\ c[i].parent = t[i].parent /\ c[i].refcount = t[i].refcount
        /\ c[i].mdbref = t[i].mdbref /\ c[i].newmdbref = NoRef /\ t[i].refcount \in Int
    BY <2>2, ClearedIs
  <2> HIDE DEF c
  <2>5. Tag(c[i], TRUE) = 0 /\ Tag(t[i], TRUE) = 1
    BY <1>2, <2>3, <2>4 DEF Tag, Tagged
  <2> DEFINE v == Plus(w, i)
  <2>6. /\ v \in Handles /\ v[i] = w[i] + 1 /\ w[i] \in Int
        /\ \A j \in Int : j # i => v[j] = w[j]
    <3>1. Plus(w, i) \in Handles /\ Plus(w, i)[i] = w[i] + 1
          /\ \A m \in Int : w[m] \in Nat /\ (m # i => Plus(w, i)[m] = w[m])
      BY <2>2, PlusIs
    <3>2. QED BY <3>1, <2>2
  <2>7. Sane(c) /\ Paths(c) = Paths(t) /\ Named(c) = Named(t) /\ Counts(c, v, TRUE, x)
    <3> HIDE DEF v
    <3>1. c[i].refcount - Tag(c[i], TRUE) - v[i] = t[i].refcount - Tag(t[i], TRUE) - w[i]
      <4> DEFINE m == c[i].refcount
                 b == t[i].refcount
                 r == Tag(c[i], TRUE)
                 d == Tag(t[i], TRUE)
                 f == v[i]
                 g == w[i]
      <4>1. b \in Int /\ g \in Int /\ m = b /\ r = 0 /\ d = 1 /\ f = g + 1
        BY <2>4, <2>5, <2>6
      <4> HIDE DEF m, b, r, d, f, g
      <4>2. m - r - f = b - d - g
        BY <4>1, TagDown
      <4>3. QED BY <4>2 DEF m, b, r, d, f, g
    <3>2. QED BY <2>3, <2>4, <2>6, <3>1, Retag
  <2>8. Sane(u) /\ Counts(u, w, TRUE, x) /\ Shrunk(c, u, TRUE)
    BY <2>3, <2>7, UnrefIs
  <2> HIDE DEF u
  <2>9. Refs(c, TRUE)
    <3>1. ASSUME NEW j \in DOMAIN c PROVE RefOK(c[j], TRUE)
      <4>1. CASE j # i
        BY <4>1, <2>4 DEF Refs
      <4>2. CASE j = i
        BY <4>2, <2>r, <2>3, <2>4 DEF RefOK
      <4>3. QED BY <4>1, <4>2
    <3>2. QED BY <3>1 DEF Refs
  <2>10. Refs(u, TRUE)
    BY <2>8, <2>9, RefsShrunk
  <2>11. u[i].newmdbref = NoRef
    BY <2>4, <2>8, HoleIs DEF Shrunk, Keeps
  <2>12. QED BY <2>1, <2>3, <2>8, <2>10, <2>11 DEF c
<1>3. QED BY <1>1, <1>2

(* The submit moves the tag of an entry to its mdbref.                     *)
LEMMA SubmitEntryIs ==
  ASSUME NEW t, Sane(t), NEW w \in Handles, w[0] >= 1, NEW x, Counts(t, w, TRUE, x), Refs(t, TRUE),
         NEW i \in Named(t)
  PROVE  LET u == SubmitEntry(t, i) IN
         /\ Sane(u) /\ Counts(u, w, TRUE, x) /\ Refs(u, TRUE) /\ Shrunk(Moved(t, i), u, TRUE)
         /\ Sane(Moved(t, i)) /\ Paths(Moved(t, i)) = Paths(t) /\ Named(Moved(t, i)) = Named(t)
<1> DEFINE c == Moved(t, i)
           u == Unref(c, i)
<1>1. SubmitEntry(t, i) = IF t[i].mdbref = NoRef THEN c ELSE u
  BY Zenon DEF SubmitEntry, Moved
<1>2. Table(t) /\ i \in DOMAIN t /\ i \in Int /\ t[i].name # NoName
  <2>1. Table(t) /\ i \in DOMAIN t /\ t[i].name # NoName
    BY DEF Sane, Named
  <2>2. QED BY <2>1, InTable
<1>r. RefOK(t[i], TRUE)
  BY <1>2 DEF Refs
<1>3. /\ Table(c) /\ DOMAIN c = DOMAIN t /\ \A j \in DOMAIN t : j # i => c[j] = t[j]
      /\ c[i].name = t[i].name /\ c[i].parent = t[i].parent /\ c[i].refcount = t[i].refcount
      /\ c[i].mdbref = t[i].newmdbref /\ c[i].newmdbref = NoRef /\ t[i].refcount \in Int
  BY <1>2, MovedIs
<1> HIDE DEF c
<1>4. NoRef \in {t[i].mdbref, t[i].newmdbref}
  BY <1>r DEF RefOK
<1>5. Refs(c, TRUE)
  <2>1. ASSUME NEW j \in DOMAIN c PROVE RefOK(c[j], TRUE)
    <3>1. CASE j # i
      BY <3>1, <1>3 DEF Refs
    <3>2. CASE j = i
      BY <3>2, <1>r, <1>2, <1>3 DEF RefOK
    <3>3. QED BY <3>1, <3>2
  <2>2. QED BY <2>1 DEF Refs
<1>6. w[i] \in Int
  BY <1>2 DEF Handles
<1>7. CASE t[i].mdbref = NoRef
  <2>1. Tagged(c[i], TRUE) = Tagged(t[i], TRUE)
    BY <1>7, <1>3 DEF Tagged
  <2>2. Tag(c[i], TRUE) = Tag(t[i], TRUE)
    BY <2>1 DEF Tag
  <2>3. c[i].refcount - Tag(c[i], TRUE) - w[i] = t[i].refcount - Tag(t[i], TRUE) - w[i]
    BY <2>2, <1>3
  <2>4. Sane(c) /\ Paths(c) = Paths(t) /\ Named(c) = Named(t) /\ Counts(c, w, TRUE, x)
    BY <1>3, <2>3, Retag
  <2>5. Shrunk(c, c, TRUE)
    BY ShrunkSelf
  <2>6. QED BY <1>1, <1>5, <1>7, <2>4, <2>5 DEF c
<1>8. CASE t[i].mdbref # NoRef
  <2>1. Tag(c[i], TRUE) = 0 /\ Tag(t[i], TRUE) = 1
    BY <1>3, <1>4, <1>8 DEF Tag, Tagged
  <2> DEFINE v == Plus(w, i)
  <2>2. /\ v \in Handles /\ v[i] = w[i] + 1 /\ \A j \in Int : j # i => v[j] = w[j]
    <3>1. Plus(w, i) \in Handles /\ Plus(w, i)[i] = w[i] + 1
          /\ \A m \in Int : w[m] \in Nat /\ (m # i => Plus(w, i)[m] = w[m])
      BY <1>2, PlusIs
    <3>2. QED BY <3>1
  <2>3. Sane(c) /\ Paths(c) = Paths(t) /\ Named(c) = Named(t) /\ Counts(c, v, TRUE, x)
    <3> HIDE DEF v
    <3>1. c[i].refcount - Tag(c[i], TRUE) - v[i] = t[i].refcount - Tag(t[i], TRUE) - w[i]
      <4> DEFINE m == c[i].refcount
                 b == t[i].refcount
                 r == Tag(c[i], TRUE)
                 d == Tag(t[i], TRUE)
                 f == v[i]
                 g == w[i]
      <4>1. b \in Int /\ g \in Int /\ m = b /\ r = 0 /\ d = 1 /\ f = g + 1
        BY <1>3, <1>6, <2>1, <2>2
      <4> HIDE DEF m, b, r, d, f, g
      <4>2. m - r - f = b - d - g
        BY <4>1, TagDown
      <4>3. QED BY <4>2 DEF m, b, r, d, f, g
    <3>2. QED BY <1>3, <2>2, <3>1, Retag
  <2>4. Sane(u) /\ Counts(u, w, TRUE, x) /\ Shrunk(c, u, TRUE)
    BY <2>3, UnrefIs
  <2> HIDE DEF u
  <2>5. Refs(u, TRUE)
    BY <1>5, <2>4, RefsShrunk
  <2>6. QED BY <1>1, <1>8, <2>3, <2>4, <2>5 DEF c
<1>9. QED BY <1>7, <1>8

(* A hole without references is not touched.                               *)
LEMMA SubmitHole ==
  ASSUME NEW t, Sane(t), NEW i \in Holes(t), t[i].mdbref = NoRef, t[i].newmdbref = NoRef
  PROVE  SubmitEntry(t, i) = t
<1>1. Table(t) /\ i \in DOMAIN t /\ i \notin Named(t)
  BY DEF Sane, Holes
<1> DEFINE c == Moved(t, i)
<1>2. SubmitEntry(t, i) = c
  BY DEF SubmitEntry, Moved
<1> HIDE DEF c
<1>3. /\ Table(c) /\ DOMAIN c = DOMAIN t /\ \A j \in DOMAIN t : j # i => c[j] = t[j]
      /\ c[i].name = t[i].name /\ c[i].parent = t[i].parent /\ c[i].refcount = t[i].refcount
      /\ c[i].mdbref = t[i].newmdbref /\ c[i].newmdbref = NoRef
  BY <1>1, MovedIs DEF c
<1>4. c[i] \in Entry /\ t[i] \in Entry
  BY <1>1, <1>3, InTable
<1>5. c[i] = t[i]
  BY <1>3, <1>4 DEF Entry
<1>6. c \in [0 .. Size(c) - 1 -> Entry] /\ t \in [0 .. Size(t) - 1 -> Entry]
  BY <1>1, <1>3 DEF Table
<1>7. \A j \in DOMAIN t : c[j] = t[j]
  BY <1>3, <1>5
<1>8. c = [j \in DOMAIN c |-> c[j]] /\ t = [j \in DOMAIN t |-> t[j]]
  BY <1>6
<1>9. c = t
  BY <1>3, <1>7, <1>8
<1>10. QED BY <1>2, <1>9

-----------------------------------------------------------------------------
(* The three loops over the table.                                         *)
OneStep(loop, S, u, i) ==
  IF loop = 1 THEN IF i \in S THEN Unref(u, i) ELSE u
  ELSE IF loop = 2 THEN Untag(u, i) ELSE PurgeEntry(u, i)
EachStep(f, k, t, loop, S) == IF k = 0 THEN t ELSE OneStep(loop, S, f[k-1], k-1)
IsEach(f, j, t, loop, S) == f = [k \in 0 .. j |-> EachStep(f, k, t, loop, S)]

(* The recursive functions of the loops exist, *)
LEMMA EachExists ==
  \A t, loop, S : \A j \in Nat : \E f : IsEach(f, j, t, loop, S)
<1> SUFFICES ASSUME NEW t, NEW loop, NEW S, NEW any \in Nat, ~ \E f : IsEach(f, any, t, loop, S)
             PROVE  FALSE
  OBVIOUS
<1> DEFINE Bad == {j \in Nat : ~ \E f : IsEach(f, j, t, loop, S)}
<1>1. PICK j \in Bad : \A y \in Bad : j <= y
  BY HasLeast
<1>2. CASE j = 0
  <2> DEFINE f == [k \in 0 .. 0 |-> t]
  <2>1. \A k \in 0 .. 0 : EachStep(f, k, t, loop, S) = t
    BY DEF EachStep
  <2>2. IsEach(f, 0, t, loop, S)
    BY <2>1 DEF IsEach
  <2>3. QED BY <1>1, <1>2, <2>2
<1>3. CASE j # 0
  <2>1. j \in Nat /\ j - 1 \in Nat /\ j - 1 \notin Bad
    BY <1>1, <1>3
  <2>2. PICK f : IsEach(f, j - 1, t, loop, S)
    BY <2>1
  <2> DEFINE g == [k \in 0 .. j |-> IF k = j THEN OneStep(loop, S, f[j - 1], j - 1) ELSE f[k]]
  <2>3. \A k \in 0 .. j - 1 : g[k] = f[k] /\ k \in 0 .. j
    BY <2>1
  <2>4. g[j] = OneStep(loop, S, f[j - 1], j - 1) /\ g = [k \in 0 .. j |-> g[k]]
    BY <2>1
  <2> HIDE DEF g
  <2>5. ASSUME NEW k \in 0 .. j PROVE g[k] = EachStep(g, k, t, loop, S)
    <3>1. CASE k = j
      <4>1. j - 1 \in 0 .. j - 1
        BY <2>1
      <4>2. g[j - 1] = f[j - 1]
        BY <4>1, <2>3
      <4>3. QED BY <3>1, <4>2, <2>4, <1>3 DEF EachStep
    <3>2. CASE k # j
      <4>1. k \in 0 .. j - 1 /\ (k # 0 => k - 1 \in 0 .. j - 1)
        BY <3>2, <2>1
      <4>2. f[k] = EachStep(f, k, t, loop, S)
        BY <4>1, <2>2 DEF IsEach
      <4>3. g[k] = f[k] /\ (k # 0 => g[k - 1] = f[k - 1])
        BY <4>1, <2>3
      <4>4. QED BY <4>2, <4>3 DEF EachStep
    <3>3. QED BY <3>1, <3>2
  <2>6. IsEach(g, j, t, loop, S)
    BY <2>4, <2>5 DEF IsEach
  <2>7. QED BY <1>1, <2>6
<1>4. QED BY <1>2, <1>3

(* The loops of modlist_free, dirdbTagCancel and the purge. *)
AllStep(f, k, t, S) ==
  IF k = 0 THEN t ELSE IF k - 1 \in S THEN Unref(f[k-1], k - 1) ELSE f[k-1]
IsAll(f, j, t, S) == f = [k \in 0 .. j |-> AllStep(f, k, t, S)]
TagStep(f, k, t) == IF k = 0 THEN t ELSE Untag(f[k-1], k - 1)
IsTags(f, j, t) == f = [k \in 0 .. j |-> TagStep(f, k, t)]
PurgeStep(f, k, t) == IF k = 0 THEN t ELSE PurgeEntry(f[k-1], k - 1)
IsPurge(f, j, t) == f = [k \in 0 .. j |-> PurgeStep(f, k, t)]

(* each of the three, *)
LEMMA LoopsExist ==
  ASSUME NEW t, NEW S, NEW j \in Nat
  PROVE  (\E f : IsAll(f, j, t, S)) /\ (\E f : IsTags(f, j, t)) /\ (\E f : IsPurge(f, j, t))
<1>1. \A loop : \E f : IsEach(f, j, t, loop, S)
  BY EachExists
<1>2. PICK f : IsEach(f, j, t, 1, S)
  BY <1>1
<1>3. PICK g : IsEach(g, j, t, 2, S)
  BY <1>1
<1>4. PICK h : IsEach(h, j, t, 3, S)
  BY <1>1
<1>5. \A k : EachStep(f, k, t, 1, S) = AllStep(f, k, t, S)
  BY Zenon DEF EachStep, OneStep, AllStep
<1>6. \A k : EachStep(g, k, t, 2, S) = TagStep(g, k, t)
  <2>1. 2 # 1
    OBVIOUS
  <2>2. QED BY <2>1, Zenon DEF EachStep, OneStep, TagStep
<1>7. \A k : EachStep(h, k, t, 3, S) = PurgeStep(h, k, t)
  <2>1. 3 # 1 /\ 3 # 2
    OBVIOUS
  <2>2. QED BY <2>1, Zenon DEF EachStep, OneStep, PurgeStep
<1>8. IsAll(f, j, t, S) /\ IsTags(g, j, t) /\ IsPurge(h, j, t)
  BY <1>2, <1>3, <1>4, <1>5, <1>6, <1>7 DEF IsEach, IsAll, IsTags, IsPurge
<1>9. QED BY <1>8

(* and give the steps of modlist_free, *)
LEMMA UnrefAllLoop ==
  ASSUME NEW t, Table(t), NEW S
  PROVE  \E f : /\ UnrefAll(t, S) = f[Size(t)] /\ f[0] = t
                /\ \A k \in 1 .. Size(t) :
                     f[k] = IF k - 1 \in S THEN Unref(f[k-1], k - 1) ELSE f[k-1]
<1> DEFINE F == CHOOSE f : IsAll(f, Size(t), t, S)
<1>1. \E f : IsAll(f, Size(t), t, S)
  BY LoopsExist DEF Table
<1>2. IsAll(F, Size(t), t, S)
  BY <1>1
<1>3. UnrefAll(t, S) = F[Size(t)]
  BY DEF UnrefAll, IsAll, AllStep, Size
<1> HIDE DEF F
<1>4. F[0] = t
  BY <1>2 DEF IsAll, AllStep, Table
<1>5. ASSUME NEW k \in 1 .. Size(t)
      PROVE F[k] = IF k - 1 \in S THEN Unref(F[k-1], k - 1) ELSE F[k-1]
  BY <1>2 DEF IsAll, AllStep, Table
<1>6. QED BY <1>3, <1>4, <1>5

(* of dirdbTagCancel, *)
LEMMA TagCancelLoop ==
  ASSUME NEW t, Table(t), NEW n
  PROVE  \E f : /\ TagCancel(t, n) = Unref(f[Size(t)], n) /\ f[0] = t
                /\ \A k \in 1 .. Size(t) : f[k] = Untag(f[k-1], k - 1)
<1> DEFINE F == CHOOSE f : IsTags(f, Size(t), t)
<1>1. \E f : IsTags(f, Size(t), t)
  BY LoopsExist DEF Table
<1>2. IsTags(F, Size(t), t)
  BY <1>1
<1>3. TagCancel(t, n) = Unref(F[Size(t)], n)
  BY DEF TagCancel, IsTags, TagStep, Size
<1> HIDE DEF F
<1>4. F[0] = t
  BY <1>2 DEF IsTags, TagStep, Table
<1>5. ASSUME NEW k \in 1 .. Size(t) PROVE F[k] = Untag(F[k-1], k - 1)
  BY <1>2 DEF IsTags, TagStep, Table
<1>6. QED BY <1>3, <1>4, <1>5

(* and of the purge in dirdbFlush. *)
LEMMA PurgedLoop ==
  ASSUME NEW t, Table(t)
  PROVE  \E f : /\ Purged(t) = f[Size(t)] /\ f[0] = t
                /\ \A k \in 1 .. Size(t) : f[k] = PurgeEntry(f[k-1], k - 1)
<1> DEFINE F == CHOOSE f : IsPurge(f, Size(t), t)
<1>1. \E f : IsPurge(f, Size(t), t)
  BY LoopsExist DEF Table
<1>2. IsPurge(F, Size(t), t)
  BY <1>1
<1>3. Purged(t) = F[Size(t)]
  BY DEF Purged, IsPurge, PurgeStep, Size
<1> HIDE DEF F
<1>4. F[0] = t
  BY <1>2 DEF IsPurge, PurgeStep, Table
<1>5. ASSUME NEW k \in 1 .. Size(t) PROVE F[k] = PurgeEntry(F[k-1], k - 1)
  BY <1>2 DEF IsPurge, PurgeStep, Table
<1>6. QED BY <1>3, <1>4, <1>5
-----------------------------------------------------------------------------
(* A table some names of which may have gone; handles of S from k on.      *)
Freed(t, u, w, s, x) == Sane(u) /\ Counts(u, w, s, x) /\ Shrunk(t, u, s)
Hold(w, S, k) == [n \in Int |-> w[n] + IF n \in S /\ n >= k THEN 1 ELSE 0]

(* The handles of a list that are still to be given back. *)
LEMMA HoldIs ==
  ASSUME NEW w \in Handles, NEW S, NEW k \in Nat
  PROVE  /\ Hold(w, S, k) \in Handles /\ Hold(w, S, k)[0] >= w[0]
         /\ k \notin S => Hold(w, S, k) = Hold(w, S, k + 1)
         /\ k \in S => Hold(w, S, k) = Plus(Hold(w, S, k + 1), k) /\ Hold(w, S, k)[k] > 0
         /\ (\A n \in S : n < k) => Hold(w, S, k) = w
<1> DEFINE h == Hold(w, S, k)
           g == Hold(w, S, k + 1)
<1>1. w = [n \in Int |-> w[n]] /\ \A n \in Int : w[n] \in Nat
  BY DEF Handles
<1>2. /\ h = [n \in Int |-> h[n]] /\ g = [n \in Int |-> g[n]]
      /\ \A n \in Int : /\ h[n] = w[n] + IF n \in S /\ n >= k THEN 1 ELSE 0
                        /\ g[n] = w[n] + IF n \in S /\ n >= k + 1 THEN 1 ELSE 0
  BY DEF Hold
<1> HIDE DEF h, g
<1>3. h \in Handles /\ g \in Handles /\ h[0] >= w[0]
  <2>1. \A n \in Int : h[n] \in Nat /\ g[n] \in Nat
    BY <1>1, <1>2
  <2>2. h[0] >= w[0]
    BY <1>1, <1>2
  <2>3. QED BY <1>2, <2>1, <2>2 DEF Handles
<1>4. ASSUME k \notin S PROVE h = g
  <2>1. \A n \in Int : n \in S => (n >= k <=> n >= k + 1)
    BY <1>4
  <2>2. \A n \in Int : h[n] = g[n]
    BY <1>2, <2>1
  <2>3. QED BY <1>2, <2>2
<1>5. ASSUME k \in S PROVE h = Plus(g, k) /\ h[k] > 0
  <2> DEFINE p == Plus(g, k)
  <2>1. p = [n \in Int |-> p[n]] /\ p[k] = g[k] + 1 /\ \A n \in Int : n # k => p[n] = g[n]
    <3>1. g \in [Int -> Nat] /\ k \in Int
      BY <1>3 DEF Handles
    <3>2. p = [n \in Int |-> p[n]]
      BY <3>1 DEF Plus
    <3>3. QED BY <3>1, <3>2 DEF Plus
  <2> HIDE DEF p
  <2>2. h[k] = w[k] + 1 /\ g[k] = w[k] /\ w[k] \in Nat
    BY <1>1, <1>2, <1>5
  <2>3. \A n \in Int : n # k => (n >= k <=> n >= k + 1)
    OBVIOUS
  <2>4. \A n \in Int : n # k => h[n] = g[n]
    BY <1>2, <2>3
  <2>5. \A n \in Int : h[n] = p[n]
    BY <2>1, <2>2, <2>4
  <2>6. h = p
    BY <1>2, <2>1, <2>5
  <2>7. k \in Int => h[k] > 0
    BY <2>2
  <2>8. QED BY <2>6, <2>7 DEF p
<1>6. ASSUME \A n \in S : n < k PROVE h = w
  <2>1. \A n \in Int : ~(n \in S /\ n >= k)
    BY <1>6
  <2>2. \A n \in Int : h[n] = w[n]
    BY <1>1, <1>2, <2>1
  <2>3. QED BY <1>1, <1>2, <2>2
<1>7. QED BY <1>3, <1>4, <1>5, <1>6 DEF h, g

(* modlist_free gives back a handle of every entry in the list.            *)
LEMMA UnrefAllIs ==
  ASSUME NEW t, Sane(t), NEW w \in Handles, w[0] >= 1, NEW s, NEW x, NEW S,
         S \subseteq DOMAIN t, Counts(t, Hold(w, S, 0), s, x)
  PROVE  Freed(t, UnrefAll(t, S), w, s, x)
<1>1. Table(t) /\ Size(t) \in Nat /\ DOMAIN t = 0 .. Size(t) - 1
  BY DEF Sane, Table
<1>2. PICK f : /\ UnrefAll(t, S) = f[Size(t)] /\ f[0] = t
               /\ \A k \in 1 .. Size(t) :
                     f[k] = IF k - 1 \in S THEN Unref(f[k-1], k - 1) ELSE f[k-1]
  BY <1>1, UnrefAllLoop
<1> DEFINE Done(k) == Freed(t, f[k], Hold(w, S, k), s, x)
<1>3. Done(0)
  BY <1>2, ShrunkSelf DEF Freed
<1>4. \A k \in 0 .. Size(t) : Done(k)
  <2> SUFFICES ASSUME NEW any \in 0 .. Size(t), ~Done(any)
               PROVE  FALSE
    OBVIOUS
  <2> DEFINE Bad == {k \in 0 .. Size(t) : ~Done(k)}
  <2>1. PICK k \in Bad : \A y \in Bad : k <= y
    <3>1. Bad \in SUBSET Nat /\ Bad # {}
      BY <1>1
    <3>2. QED BY <3>1, HasLeast
  <2>2. /\ k # 0 /\ k \in 1 .. Size(t) /\ k - 1 \in 0 .. Size(t) /\ k - 1 \in Nat /\ k \in Nat
        /\ (k - 1) + 1 = k
    BY <1>3, <2>1, <1>1
  <2>3. k - 1 \notin Bad
    BY <2>1, <2>2
  <2> DEFINE u == f[k-1]
             n == k - 1
             h == Hold(w, S, n)
             g == Hold(w, S, k)
  <2>4. Sane(u) /\ Counts(u, h, s, x) /\ Shrunk(t, u, s)
    BY <2>2, <2>3 DEF Freed
  <2>5. g \in Handles /\ g[0] >= 1 /\ h \in Handles
    <3>1. g \in Handles /\ g[0] >= w[0] /\ h \in Handles
      BY <2>2, HoldIs
    <3>2. g[0] \in Nat /\ w[0] \in Nat
      BY <3>1 DEF Handles
    <3>3. QED BY <3>1, <3>2
  <2>6. n + 1 = k /\ n \in Nat
    BY <2>2
  <2>7. (n \notin S => h = g) /\ (n \in S => h = Plus(g, n) /\ h[n] > 0)
    BY <2>6, HoldIs
  <2>8. f[k] = IF n \in S THEN Unref(u, n) ELSE u
    BY <2>2, <1>2
  <2> HIDE DEF u, n, h, g
  <2>9. CASE n \notin S
    BY <2>1, <2>4, <2>7, <2>8, <2>9 DEF Freed, g
  <2>10. CASE n \in S
    <3>1. n \in Named(u)
      BY <2>4, <2>6, <2>7, <2>10 DEF Counts, NoParent
    <3>2. Sane(Unref(u, n)) /\ Counts(Unref(u, n), g, s, x) /\ Shrunk(u, Unref(u, n), s)
      BY <2>4, <2>5, <2>7, <2>10, <3>1, UnrefIs
    <3>3. Shrunk(t, Unref(u, n), s)
      BY <2>4, <3>2, ShrunkTrans
    <3>4. QED BY <2>1, <2>8, <2>10, <3>2, <3>3 DEF Freed, g
  <2>11. QED BY <2>9, <2>10
<1>5. Done(Size(t))
  BY <1>1, <1>4
<1>6. Hold(w, S, Size(t)) = w
  <2>1. \A n \in S : n < Size(t)
    BY <1>1
  <2>2. QED BY <1>1, <2>1, HoldIs
<1>7. QED BY <1>2, <1>5, <1>6

(* dirdbFlush lets an entry go that nobody wants, *)
LEMMA PurgeEntryIs ==
  ASSUME NEW t, Sane(t), NEW w \in Handles, w[0] >= 1, NEW s, NEW x, Counts(t, w, s, x), NEW i
  PROVE  Freed(t, PurgeEntry(t, i), w, s, x)
<1> DEFINE r == Ref(t, i)
<1>1. CASE i \in Named(t) /\ t[i].refcount = 0
  <2>1. PurgeEntry(t, i) = Unref(r, i)
    BY <1>1 DEF PurgeEntry
  <2>2. Table(r) /\ Recounted(t, r) /\ Counts(r, Plus(w, i), s, x)
    BY <1>1, CountsRef DEF Sane
  <2> HIDE DEF r
  <2>3. Sane(r) /\ Named(r) = Named(t) /\ Shrunk(t, r, s)
    BY <2>2, RecountedIs, AlikeIsSane, AlikeNames
  <2>4. Sane(Unref(r, i)) /\ Counts(Unref(r, i), w, s, x) /\ Shrunk(r, Unref(r, i), s)
    BY <1>1, <2>2, <2>3, UnrefIs
  <2>5. QED BY <2>1, <2>3, <2>4, ShrunkTrans DEF Freed
<1>2. CASE ~(i \in Named(t) /\ t[i].refcount = 0)
  <2>1. PurgeEntry(t, i) = t
    BY <1>2 DEF PurgeEntry
  <2>2. QED BY <2>1, ShrunkSelf DEF Freed
<1>3. QED BY <1>1, <1>2

(* and all of them. *)
LEMMA PurgedIs ==
  ASSUME NEW t, Sane(t), NEW w \in Handles, w[0] >= 1, NEW s, NEW x, Counts(t, w, s, x)
  PROVE  Freed(t, Purged(t), w, s, x)
<1>1. Table(t) /\ Size(t) \in Nat
  BY DEF Sane, Table
<1>2. PICK f : /\ Purged(t) = f[Size(t)] /\ f[0] = t
               /\ \A k \in 1 .. Size(t) : f[k] = PurgeEntry(f[k-1], k - 1)
  BY <1>1, PurgedLoop
<1> DEFINE Done(k) == Freed(t, f[k], w, s, x)
<1>3. Done(0)
  BY <1>2, ShrunkSelf DEF Freed
<1>4. \A k \in 0 .. Size(t) : Done(k)
  <2> SUFFICES ASSUME NEW any \in 0 .. Size(t), ~Done(any)
               PROVE  FALSE
    OBVIOUS
  <2> DEFINE Bad == {k \in 0 .. Size(t) : ~Done(k)}
  <2>1. PICK k \in Bad : \A y \in Bad : k <= y
    <3>1. Bad \in SUBSET Nat /\ Bad # {}
      BY <1>1
    <3>2. QED BY <3>1, HasLeast
  <2>2. k # 0 /\ k \in 1 .. Size(t) /\ k - 1 \in 0 .. Size(t)
    BY <1>3, <2>1, <1>1
  <2>3. k - 1 \notin Bad
    BY <2>1, <2>2
  <2> DEFINE u == f[k-1]
             v == PurgeEntry(u, k - 1)
  <2>4. Sane(u) /\ Counts(u, w, s, x) /\ Shrunk(t, u, s)
    BY <2>2, <2>3 DEF Freed
  <2>5. f[k] = v
    BY <2>2, <1>2
  <2> HIDE DEF u
  <2>6. Freed(u, v, w, s, x)
    BY <2>4, PurgeEntryIs
  <2> HIDE DEF v
  <2>7. Freed(t, v, w, s, x)
    BY <2>4, <2>6, ShrunkTrans DEF Freed
  <2>8. QED BY <2>1, <2>5, <2>7
<1>5. QED BY <1>1, <1>2, <1>4

-----------------------------------------------------------------------------
(* Names and mdbrefs are kept; a name may go that has no mdbref.           *)
Kept(t, u) ==
  /\ DOMAIN u = DOMAIN t
  /\ \A i \in DOMAIN t :
       \/ u[i].name = t[i].name /\ u[i].parent = t[i].parent /\ u[i].mdbref = t[i].mdbref
       \/ i \in Named(t) /\ i \notin Named(u) /\ t[i].mdbref = NoRef

(* Nothing lost, *)
LEMMA KeptSelf == \A t : Kept(t, t)
BY DEF Kept

(* and nothing lost twice. *)
LEMMA KeptTrans ==
  ASSUME NEW t, NEW u, NEW v, Kept(t, u), Kept(u, v)
  PROVE  Kept(t, v)
<1>1. DOMAIN v = DOMAIN t /\ DOMAIN u = DOMAIN t
  BY DEF Kept
<1>2. ASSUME NEW i \in DOMAIN t
      PROVE  \/ v[i].name = t[i].name /\ v[i].parent = t[i].parent /\ v[i].mdbref = t[i].mdbref
             \/ i \in Named(t) /\ i \notin Named(v) /\ t[i].mdbref = NoRef
  <2>1. \/ u[i].name = t[i].name /\ u[i].parent = t[i].parent /\ u[i].mdbref = t[i].mdbref
        \/ i \in Named(t) /\ i \notin Named(u) /\ t[i].mdbref = NoRef
    BY DEF Kept
  <2>2. \/ v[i].name = u[i].name /\ v[i].parent = u[i].parent /\ v[i].mdbref = u[i].mdbref
        \/ i \in Named(u) /\ i \notin Named(v) /\ u[i].mdbref = NoRef
    BY <1>1 DEF Kept
  <2>3. QED BY <1>1, <2>1, <2>2 DEF Named
<1>3. QED BY <1>1, <1>2 DEF Kept

(* What shrinks keeps its mdbrefs. *)
LEMMA ShrunkKept ==
  ASSUME NEW t, NEW u, NEW s, Shrunk(t, u, s)
  PROVE  Kept(t, u)
<1>1. ASSUME NEW i \in DOMAIN t
      PROVE  \/ u[i].name = t[i].name /\ u[i].parent = t[i].parent /\ u[i].mdbref = t[i].mdbref
             \/ i \in Named(t) /\ i \notin Named(u) /\ t[i].mdbref = NoRef
  <2>1. Keeps(t[i], u[i]) \/ (i \in Named(t) /\ Keeps(Hole, u[i]) /\ ~Tagged(t[i], s))
    BY DEF Shrunk
  <2>2. QED BY <2>1, HoleIs DEF Keeps, Tagged, Named
<1>2. QED BY <1>1 DEF Kept, Shrunk

(* Without tags the counts are those of a table at rest. *)
LEMMA EndTags ==
  ASSUME NEW t, NEW w, NEW x, Counts(t, w, TRUE, x), Refs(t, TRUE),
         \A i \in Named(t) : t[i].newmdbref = NoRef
  PROVE  Counts(t, w, FALSE, x) /\ Refs(t, FALSE)
<1>1. ASSUME NEW i \in Named(t) PROVE Owed(t, w, FALSE, i) = Owed(t, w, TRUE, i)
  <2>1. Tagged(t[i], FALSE) = Tagged(t[i], TRUE)
    BY DEF Tagged
  <2>2. QED BY <2>1 DEF Owed, Tag
<1>2. Counts(t, w, FALSE, x)
  BY <1>1 DEF Counts
<1>3. ASSUME NEW i \in DOMAIN t PROVE RefOK(t[i], FALSE)
  <2>1. RefOK(t[i], TRUE)
    BY DEF Refs
  <2>2. t[i].newmdbref = NoRef
    BY <2>1 DEF RefOK, Named
  <2>3. QED BY <2>1, <2>2 DEF RefOK
<1>4. Refs(t, FALSE)
  BY <1>3 DEF Refs
<1>5. QED BY <1>2, <1>4

(* Untagging one entry loses no mdbref, and tags none. *)
LEMMA UntagKeeps ==
  ASSUME NEW t, Table(t), NEW i \in DOMAIN t, NEW u,
         \/ u = t /\ t[i].newmdbref = NoRef
         \/ i \in Named(t) /\ Shrunk(Cleared(t, i), u, TRUE)
  PROVE  Kept(t, u) /\ \A j \in DOMAIN t : t[j].newmdbref = NoRef => u[j].newmdbref = NoRef
<1>1. CASE u = t
  BY <1>1, KeptSelf
<1>2. CASE i \in Named(t) /\ Shrunk(Cleared(t, i), u, TRUE)
  <2> DEFINE c == Cleared(t, i)
  <2>1. /\ DOMAIN c = DOMAIN t /\ \A j \in DOMAIN t : j # i => c[j] = t[j]
        /\ c[i].name = t[i].name /\ c[i].parent = t[i].parent /\ c[i].mdbref = t[i].mdbref
        /\ c[i].newmdbref = NoRef
    BY ClearedIs
  <2>2. Shrunk(c, u, TRUE)
    BY <1>2
  <2> HIDE DEF c
  <2>3. Kept(t, c)
    BY <2>1 DEF Kept
  <2>4. Kept(t, u)
    BY <2>2, <2>3, ShrunkKept, KeptTrans
  <2>5. ASSUME NEW j \in DOMAIN t, t[j].newmdbref = NoRef PROVE u[j].newmdbref = NoRef
    <3>1. c[j].newmdbref = NoRef
      BY <2>1, <2>5
    <3>2. Keeps(c[j], u[j]) \/ Keeps(Hole, u[j])
      BY <2>1, <2>2 DEF Shrunk
    <3>3. QED BY <3>1, <3>2, HoleIs DEF Keeps
  <2>6. QED BY <2>4, <2>5
<1>3. QED BY <1>1, <1>2

(* Up to entry k the tags have been dropped. *)
Untagged(t, u, w, x, k) ==
  /\ Sane(u) /\ Counts(u, w, TRUE, x) /\ Refs(u, TRUE) /\ Kept(t, u)
  /\ \A j \in DOMAIN t : j < k => u[j].newmdbref = NoRef

(* dirdbTagCancel drops every tag and gives the handle back.               *)
LEMMA TagCancelIs ==
  ASSUME NEW t, Sane(t), NEW w \in Handles, w[0] >= 1, NEW x, NEW n \in Named(t),
         Counts(t, Plus(w, n), TRUE, x), Refs(t, TRUE)
  PROVE  LET u == TagCancel(t, n) IN
         /\ Sane(u) /\ Counts(u, w, FALSE, x) /\ Refs(u, FALSE) /\ Kept(t, u)
<1>1. Table(t) /\ Size(t) \in Nat /\ DOMAIN t = 0 .. Size(t) - 1 /\ n \in Nat
  <2>1. Table(t)
    BY DEF Sane
  <2>2. QED BY <2>1, InTable DEF Table
<1>2. PICK f : /\ TagCancel(t, n) = Unref(f[Size(t)], n) /\ f[0] = t
               /\ \A k \in 1 .. Size(t) : f[k] = Untag(f[k-1], k - 1)
  BY <1>1, TagCancelLoop
<1> DEFINE wn == Plus(w, n)
<1>3. wn \in Handles /\ wn[0] >= 1 /\ wn[n] > 0
  <2>1. n \in Int /\ 0 \in Int
    BY <1>1
  <2>2. wn \in Handles /\ wn[n] = w[n] + 1
    BY <2>1, PlusIs
  <2>3. w[n] \in Nat /\ w[0] \in Nat /\ (0 # n => wn[0] = w[0])
    BY <2>1, PlusIs
  <2> HIDE DEF wn
  <2>4. QED BY <2>2, <2>3
<1>4. Counts(t, wn, TRUE, x)
  OBVIOUS
<1> HIDE DEF wn
<1> DEFINE Done(k) == Untagged(t, f[k], wn, x, k)
<1>5. Done(0)
  <2>1. \A j \in DOMAIN t : ~(j < 0)
    BY <1>1
  <2>2. QED BY <1>2, <1>4, <2>1, KeptSelf DEF Untagged
<1>6. \A k \in 0 .. Size(t) : Done(k)
  <2> SUFFICES ASSUME NEW any \in 0 .. Size(t), ~Done(any)
               PROVE  FALSE
    OBVIOUS
  <2> DEFINE Bad == {k \in 0 .. Size(t) : ~Done(k)}
  <2>1. PICK k \in Bad : \A y \in Bad : k <= y
    <3>1. Bad \in SUBSET Nat /\ Bad # {}
      BY <1>1
    <3>2. QED BY <3>1, HasLeast
  <2>2. k # 0 /\ k \in 1 .. Size(t) /\ k - 1 \in 0 .. Size(t) /\ k - 1 \in DOMAIN t
    BY <1>5, <2>1, <1>1
  <2>3. k - 1 \notin Bad
    BY <2>1, <2>2
  <2> DEFINE u == f[k-1]
             i == k - 1
             v == Untag(u, i)
  <2>4. Untagged(t, u, wn, x, i)
    BY <2>2, <2>3
  <2>5. f[k] = v
    BY <2>2, <1>2
  <2>6. i \in DOMAIN t /\ \A j \in DOMAIN t : j < k => j = i \/ j < i
    BY <1>1, <2>2
  <2> HIDE DEF u, i
  <2>7. Sane(u) /\ Counts(u, wn, TRUE, x) /\ Refs(u, TRUE) /\ Kept(t, u) /\ DOMAIN u = DOMAIN t
    BY <2>4 DEF Untagged, Kept
  <2>8. /\ Sane(v) /\ Counts(v, wn, TRUE, x) /\ Refs(v, TRUE) /\ v[i].newmdbref = NoRef
        /\ \/ v = u /\ u[i].newmdbref = NoRef
           \/ i \in Named(u) /\ Shrunk(Cleared(u, i), v, TRUE)
    BY <1>3, <2>6, <2>7, UntagIs
  <2> HIDE DEF v
  <2>9. Kept(u, v) /\ \A j \in DOMAIN u : u[j].newmdbref = NoRef => v[j].newmdbref = NoRef
    <3>1. Table(u)
      BY <2>7 DEF Sane
    <3>2. QED BY <3>1, <2>6, <2>7, <2>8, UntagKeeps
  <2>10. Kept(t, v)
    BY <2>7, <2>9, KeptTrans
  <2>11. \A j \in DOMAIN t : j < k => v[j].newmdbref = NoRef
    BY <2>4, <2>6, <2>7, <2>8, <2>9 DEF Untagged
  <2>12. Untagged(t, v, wn, x, k)
    BY <2>8, <2>10, <2>11 DEF Untagged
  <2>13. QED BY <2>1, <2>5, <2>12
<1> DEFINE u == f[Size(t)]
           v == Unref(u, n)
<1>7. Untagged(t, u, wn, x, Size(t))
  BY <1>1, <1>6
<1> HIDE DEF u
<1>8. Sane(u) /\ Counts(u, wn, TRUE, x) /\ Refs(u, TRUE) /\ Kept(t, u) /\ DOMAIN u = DOMAIN t
  BY <1>7 DEF Untagged, Kept
<1>9. \A i \in Named(u) : u[i].newmdbref = NoRef
  <2>1. \A j \in DOMAIN t : u[j].newmdbref = NoRef
    BY <1>1, <1>7 DEF Untagged
  <2>2. QED BY <2>1, <1>8 DEF Named
<1>10. n \in Named(u)
  BY <1>1, <1>3, <1>8 DEF Counts, NoParent
<1>11. Sane(v) /\ Counts(v, w, TRUE, x) /\ Shrunk(u, v, TRUE)
  <2>1. Counts(u, Plus(w, n), TRUE, x)
    BY <1>8 DEF wn
  <2>2. QED BY <1>8, <1>10, <2>1, UnrefIs
<1> HIDE DEF v
<1>12. Refs(v, TRUE) /\ Kept(t, v)
  BY <1>8, <1>11, RefsShrunk, ShrunkKept, KeptTrans
<1>13. \A i \in Named(v) : v[i].newmdbref = NoRef
  <2>1. \A i \in Named(v) : i \in Named(u) /\ Keeps(u[i], v[i])
    BY <1>11, ShrunkNames
  <2>2. QED BY <2>1, <1>9 DEF Keeps
<1>14. Counts(v, w, FALSE, x) /\ Refs(v, FALSE)
  BY <1>11, <1>12, <1>13, EndTags
<1>15. TagCancel(t, n) = v
  BY <1>2 DEF u, v
<1>16. QED BY <1>11, <1>12, <1>14, <1>15

-----------------------------------------------------------------------------
(* A path begins with another.                                             *)
Pre(q, r) == Len(q) <= Len(r) /\ \A i \in 1 .. Len(q) : q[i] = r[i]

(* A path begins with itself. *)
LEMMA PreSelf ==
  ASSUME NEW S, NEW q \in Seq(S)
  PROVE  Pre(q, q)
BY LenProperties DEF Pre

(* Beginnings of beginnings. *)
LEMMA PreTrans ==
  ASSUME NEW S, NEW q \in Seq(S), NEW r \in Seq(S), NEW a \in Seq(S), Pre(q, r), Pre(r, a)
  PROVE  Pre(q, a)
<1>1. Len(q) \in Nat /\ Len(r) \in Nat /\ Len(a) \in Nat
  BY LenProperties
<1> DEFINE m == Len(q)
           n == Len(r)
           k == Len(a)
<1>2. /\ m <= n /\ \A i \in 1 .. m : q[i] = r[i]
      /\ n <= k /\ \A i \in 1 .. n : r[i] = a[i]
  BY DEF Pre
<1>3. m <= k /\ \A i \in 1 .. m : q[i] = a[i]
  <2>1. m \in Nat /\ n \in Nat /\ k \in Nat
    BY <1>1
  <2> HIDE DEF m, n, k
  <2>2. \A i \in 1 .. m : i \in 1 .. n
    BY <1>2, <2>1
  <2>3. QED BY <1>2, <2>1, <2>2
<1>4. QED BY <1>3 DEF Pre

(* A beginning as long as the path is the path. *)
LEMMA PreSame ==
  ASSUME NEW S, NEW q \in Seq(S), NEW r \in Seq(S), Pre(q, r), Len(q) = Len(r)
  PROVE  q = r
BY SeqEqual DEF Pre

(* A path begins the paths of its children. *)
LEMMA AppendPre ==
  ASSUME NEW S, NEW r \in Seq(S), NEW a \in S
  PROVE  /\ Append(r, a) \in Seq(S) /\ Len(r) \in Nat /\ Len(Append(r, a)) = Len(r) + 1
         /\ Pre(r, Append(r, a))
<1> DEFINE ra == Append(r, a)
<1>1. /\ ra \in Seq(S) /\ Len(r) \in Nat /\ Len(ra) = Len(r) + 1
      /\ \A i \in 1 .. Len(r) : ra[i] = r[i]
  BY AppendIs
<1> HIDE DEF ra
<1>2. Pre(r, ra)
  BY <1>1 DEF Pre
<1>3. QED BY <1>1, <1>2 DEF ra

(* What begins a child's path begins the parent's, or is it. *)
LEMMA PreStep ==
  ASSUME NEW S, NEW q \in Seq(S), NEW r \in Seq(S), NEW ra \in Seq(S), Len(ra) = Len(r) + 1,
         Pre(r, ra), Pre(q, ra)
  PROVE  Pre(q, r) \/ q = ra
<1>1. Len(r) \in Nat /\ Len(q) \in Nat
  BY LenProperties
<1>2. CASE Len(q) = Len(ra)
  BY <1>1, <1>2, PreSame
<1>3. CASE Len(q) # Len(ra)
  <2>1. Len(q) <= Len(r) /\ \A i \in 1 .. Len(q) : q[i] = ra[i] /\ i \in 1 .. Len(r)
    BY <1>1, <1>3 DEF Pre
  <2>2. \A i \in 1 .. Len(r) : r[i] = ra[i]
    BY DEF Pre
  <2>3. QED BY <2>1, <2>2 DEF Pre
<1>4. QED BY <1>2, <1>3

(* Below, as ScanExact and StartScan use it. *)
LEMMA BelowIs ==
  ASSUME NEW S, NEW q \in Seq(S), NEW r \in Seq(S)
  PROVE  Below(q, r) <=> Pre(q, r) /\ Len(q) < Len(r)
<1>1. Len(q) \in Nat /\ Len(r) \in Nat
  BY LenProperties
<1>2. ASSUME Len(q) <= Len(r)
      PROVE  SubSeq(q, 1, Len(q)) = SubSeq(r, 1, Len(q)) <=> \A i \in 1 .. Len(q) : q[i] = r[i]
  <2> DEFINE a == SubSeq(q, 1, Len(q))
             b == SubSeq(r, 1, Len(q))
  <2>1. a \in Seq(S) /\ Len(a) = Len(q) /\ \A i \in 1 .. Len(q) : a[i] = q[i]
    BY <1>1
  <2>2. b \in Seq(S) /\ Len(b) = Len(q) /\ \A i \in 1 .. Len(q) : b[i] = r[i]
    BY <1>1, <1>2
  <2> HIDE DEF a, b
  <2>3. ASSUME \A i \in 1 .. Len(q) : q[i] = r[i] PROVE a = b
    BY <2>1, <2>2, <2>3, SeqEqual
  <2>4. ASSUME a = b PROVE \A i \in 1 .. Len(q) : q[i] = r[i]
    BY <2>1, <2>2, <2>4
  <2>5. QED BY <2>3, <2>4 DEF a, b
<1>3. IsPrefix(q, r) <=> Pre(q, r)
  BY <1>2 DEF IsPrefix, Pre
<1>4. ASSUME Pre(q, r) PROVE q # r <=> Len(q) < Len(r)
  <2>1. q = r => ~(Len(q) < Len(r))
    BY <1>1
  <2>2. Len(q) <= Len(r)
    BY <1>4 DEF Pre
  <2>3. ~(Len(q) < Len(r)) => q = r
    BY <1>1, <1>4, <2>2, PreSame
  <2>4. QED BY <2>1, <2>3
<1>5. Below(q, r) <=> IsPrefix(q, r) /\ q # r
  BY DEF Below, IsStrictPrefix
<1>6. Pre(q, r) => Len(q) <= Len(r)
  BY DEF Pre
<1>7. QED BY <1>3, <1>4, <1>5, <1>6
-----------------------------------------------------------------------------
(* The path of an entry below the drive.                                   *)
Short(t, n) == Tail(Paths(t)[n])

(* A path on the drive: its tail, *)
LEMMA DriveTail ==
  ASSUME NEW S, NEW a \in S, NEW q \in Seq(S), NEW p, p = <<a>> \o q
  PROVE  p \in Seq(S) /\ Len(p) = Len(q) + 1 /\ Len(p) >= 1 /\ p[1] = a /\ Tail(p) = q
         /\ \A i \in 1 .. Len(q) : p[i + 1] = q[i]
<1>1. <<a>> \in Seq(S) /\ Len(<<a>>) = 1 /\ <<a>>[1] = a
  OBVIOUS
<1>2. Len(q) \in Nat
  BY LenProperties
<1>3. /\ p \in Seq(S) /\ Len(p) = 1 + Len(q)
      /\ \A i \in 1 .. 1 + Len(q) : p[i] = IF i <= 1 THEN <<a>>[i] ELSE q[i - 1]
  BY <1>1, ConcatProperties
<1>4. p[1] = a /\ \A i \in 1 .. Len(q) : p[i + 1] = q[i]
  <2>1. 1 \in 1 .. 1 + Len(q) /\ 1 <= 1
    BY <1>2
  <2>2. p[1] = a
    BY <2>1, <1>1, <1>3
  <2>3. ASSUME NEW i \in 1 .. Len(q) PROVE p[i + 1] = q[i]
    <3>1. i + 1 \in 1 .. 1 + Len(q) /\ ~(i + 1 <= 1) /\ (i + 1) - 1 = i
      BY <1>2
    <3>2. QED BY <3>1, <1>3
  <2>4. QED BY <2>2, <2>3
<1>5. Tail(p) = q
  <2>1. p # <<>>
    BY <1>2, <1>3
  <2> DEFINE r == Tail(p)
  <2>2. r \in Seq(S) /\ Len(r) = Len(p) - 1 /\ \A i \in 1 .. Len(r) : r[i] = p[i + 1]
    BY <1>3, <2>1, HeadTailProperties
  <2> HIDE DEF r
  <2>3. Len(r) = Len(q)
    BY <2>2, <1>2, <1>3
  <2>4. \A i \in 1 .. Len(r) : r[i] = q[i]
    BY <2>2, <2>3, <1>4
  <2>5. r = q
    BY <2>2, <2>3, <2>4, SeqEqual
  <2>6. QED BY <2>5 DEF r
<1>6. QED BY <1>2, <1>3, <1>4, <1>5

(* and the other way round. *)
LEMMA HeadOn ==
  ASSUME NEW S, NEW p \in Seq(S), Len(p) >= 1, NEW a \in S, p[1] = a
  PROVE  Tail(p) \in Seq(S) /\ p = <<a>> \o Tail(p)
<1>1. p # <<>> /\ Len(p) \in Nat
  BY LenProperties
<1> DEFINE r == Tail(p)
           b == <<a>> \o r
<1>2. r \in Seq(S) /\ Len(r) = Len(p) - 1 /\ \A i \in 1 .. Len(r) : r[i] = p[i + 1]
  BY <1>1, HeadTailProperties
<1> HIDE DEF r
<1>3. /\ b \in Seq(S) /\ Len(b) = Len(r) + 1 /\ b[1] = a
      /\ \A i \in 1 .. Len(r) : b[i + 1] = r[i]
  BY <1>2, DriveTail
<1> HIDE DEF b
<1>4. Len(b) = Len(p)
  BY <1>1, <1>2, <1>3
<1>5. \A i \in 1 .. Len(p) : i # 1 => i - 1 \in 1 .. Len(r) /\ (i - 1) + 1 = i
  BY <1>1, <1>2
<1>6. \A i \in 1 .. Len(p) : p[i] = b[i]
  BY <1>2, <1>3, <1>5, ZenonT(60)
<1>7. p = b
  BY <1>3, <1>4, <1>6, SeqEqual
<1>8. QED BY <1>2, <1>7 DEF r, b

(* What is on the disk has names of the table. *)
LEMMA MoreNames == Seq(Names) \subseteq Seq(AllNames) /\ Drive[1] \in AllNames /\ Drive = <<Drive[1]>>
<1>1. Names \subseteq AllNames /\ Drive[1] \in AllNames /\ Drive = <<Drive[1]>>
  BY DEF AllNames, Drive
<1>2. QED BY <1>1

(* The path fsReadDir and mlSourcesAdd resolve. *)
LEMMA OnDrive ==
  ASSUME NEW q \in Seq(Names), NEW p, p = Drive \o q
  PROVE  /\ p \in Seq(AllNames) /\ Len(p) >= 1 /\ p[1] = Drive[1] /\ Tail(p) = q
         /\ \A i \in 1 .. Len(p) : p[i] # NoName
<1>1. q \in Seq(AllNames) /\ Drive[1] \in AllNames /\ Drive = <<Drive[1]>>
  BY MoreNames
<1>2. /\ p \in Seq(AllNames) /\ Len(p) = Len(q) + 1 /\ Len(p) >= 1 /\ p[1] = Drive[1] /\ Tail(p) = q
      /\ \A i \in 1 .. Len(q) : p[i + 1] = q[i]
  <2> DEFINE a == Drive[1]
  <2>1. a \in AllNames /\ p = <<a>> \o q
    BY <1>1, Zenon
  <2> HIDE DEF a
  <2>2. /\ p \in Seq(AllNames) /\ Len(p) = Len(q) + 1 /\ Len(p) >= 1 /\ p[1] = a /\ Tail(p) = q
        /\ \A i \in 1 .. Len(q) : p[i + 1] = q[i]
    BY <1>1, <2>1, DriveTail
  <2>3. QED BY <2>2 DEF a
<1>3. Len(q) \in Nat /\ \A i \in 1 .. Len(q) : q[i] \in Names
  BY LenProperties, ElementOfSeq
<1>4. ASSUME NEW i \in 1 .. Len(p) PROVE p[i] # NoName
  <2>1. CASE i = 1
    BY <2>1, <1>2 DEF NoName, Drive
  <2>2. CASE i # 1
    <3>1. i - 1 \in 1 .. Len(q) /\ (i - 1) + 1 = i
      BY <2>2, <1>2, <1>3
    <3>2. p[i] = q[i - 1] /\ q[i - 1] \in Names
      BY <3>1, <1>2, <1>3
    <3>3. QED BY <3>2, PathsAssumption
  <2>3. QED BY <2>1, <2>2
<1>5. QED BY <1>2, <1>4

(* It is the full path without the drive. *)
LEMMA ShortIs ==
  ASSUME NEW t, Sane(t), NEW n \in Named(t)
  PROVE  /\ Short(t, n) \in Seq(AllNames) /\ Paths(t)[n] = Drive \o Short(t, n)
         /\ Paths(t)[n] \in Seq(AllNames) /\ Len(Paths(t)[n]) >= 1 /\ Paths(t)[n][1] = Drive[1]
<1> DEFINE p == Paths(t)[n]
<1>1. p \in Seq(AllNames) /\ Len(p) >= 1 /\ p[1] = Drive[1]
  <2>1. Hangs(t, Paths(t))
    BY DEF Sane
  <2>2. QED BY <2>1 DEF Hangs
<1> HIDE DEF p
<1>2. Tail(p) \in Seq(AllNames) /\ p = <<Drive[1]>> \o Tail(p)
  BY <1>1, MoreNames, HeadOn
<1>3. QED BY <1>1, <1>2, MoreNames DEF p, Short

(* No two entries have the same one. *)
LEMMA ShortOnce ==
  ASSUME NEW t, Sane(t), NEW m \in Named(t), NEW n \in Named(t), Short(t, m) = Short(t, n)
  PROVE  m = n
<1>1. Paths(t)[m] = Paths(t)[n]
  <2>1. Paths(t)[m] = Drive \o Short(t, m)
    BY ShortIs
  <2>2. Paths(t)[n] = Drive \o Short(t, n)
    BY ShortIs
  <2>3. QED BY <2>1, <2>2, Zenon
<1>2. QED BY <1>1 DEF Sane, Hangs

(* That of the drive is empty. *)
LEMMA ShortRoot ==
  ASSUME NEW t, Sane(t)
  PROVE  0 \in Named(t) /\ Short(t, 0) = <<>>
<1>1. Paths(t)[0] = Drive /\ 0 \in Named(t)
  BY RootPath DEF Sane
<1>2. Tail(Drive) = <<>>
  BY DEF Drive
<1>3. QED BY <1>1, <1>2 DEF Short

(* A child's is its parent's and its name. *)
LEMMA ShortChild ==
  ASSUME NEW t, Sane(t), NEW n \in Named(t), n # 0
  PROVE  /\ t[n].parent \in Named(t) /\ t[n].name \in AllNames
         /\ Short(t, t[n].parent) \in Seq(AllNames)
         /\ Short(t, n) = Append(Short(t, t[n].parent), t[n].name)
<1> DEFINE m == t[n].parent
           p == Paths(t)[m]
           q == Paths(t)[n]
<1>1. m \in Named(t) /\ p \in Seq(AllNames) /\ t[n].name \in AllNames /\ q = Append(p, t[n].name)
  BY PathIs
<1> HIDE DEF m
<1>2. Len(p) >= 1 /\ Short(t, m) \in Seq(AllNames)
  BY <1>1, ShortIs
<1> HIDE DEF p, q
<1>3. p # <<>>
  BY <1>2
<1>4. Tail(q) = Append(Tail(p), t[n].name)
  BY <1>1, <1>3, HeadTailAppend
<1>5. QED BY <1>1, <1>2, <1>4 DEF Short, m, p, q

(* Call looks into the directory with this path. *)
LEMMA FullNameTail ==
  ASSUME NEW t, NEW n
  PROVE  Tail(FullName(t, n)) = Short(t, n)
BY FullNameIs DEF Short

-----------------------------------------------------------------------------
(* These paths stay when the table grows, *)
LEMMA GrewShort ==
  ASSUME NEW t, NEW u, Sane(t), Sane(u), Grew(t, u)
  PROVE  \A i \in Named(t) : i \in Named(u) /\ Short(u, i) = Short(t, i) /\ Keeps(t[i], u[i])
BY GrewPaths, GrewNames DEF Short

(* and when it shrinks. *)
LEMMA ShrunkShort ==
  ASSUME NEW t, NEW u, NEW s, Sane(t), Sane(u), Shrunk(t, u, s)
  PROVE  \A i \in Named(u) : i \in Named(t) /\ Short(u, i) = Short(t, i) /\ Keeps(t[i], u[i])
BY ShrunkPaths, ShrunkNames DEF Short

(* dirdbResolvePathAndRef, of a path on the drive. *)
LEMMA ResolvePath ==
  ASSUME NEW t, Sane(t), NEW w \in Handles, NEW s, NEW x, Counts(t, w, s, x), Refs(t, s),
         NEW p \in Seq(Names)
  PROVE  LET at == Resolve(t, Drive \o p) IN
         /\ Sane(at.table) /\ at.node \in Named(at.table) /\ Short(at.table, at.node) = p
         /\ Counts(at.table, Plus(w, at.node), s, x) /\ Grew(t, at.table) /\ Refs(at.table, s)
<1> DEFINE path == Drive \o p
           at == Resolve(t, path)
<1>1. /\ path \in Seq(AllNames) /\ Len(path) >= 1 /\ path[1] = Drive[1] /\ Tail(path) = p
      /\ \A i \in 1 .. Len(path) : path[i] # NoName
  BY OnDrive
<1> HIDE DEF path
<1>2. HolesClean(t, s)
  BY RefsClean
<1>3. Resolved(t, at, path, w, s, x)
  BY <1>1, <1>2, ResolveIs
<1> HIDE DEF at
<1>4. /\ Sane(at.table) /\ at.node \in Named(at.table) /\ Paths(at.table)[at.node] = path
      /\ Counts(at.table, Plus(w, at.node), s, x) /\ Grew(t, at.table)
  BY <1>3 DEF Resolved
<1>5. Refs(at.table, s)
  BY <1>4, RefsGrew
<1>6. Short(at.table, at.node) = p
  BY <1>1, <1>4 DEF Short
<1>7. QED BY <1>4, <1>5, <1>6 DEF at, path
-----------------------------------------------------------------------------
(* What begins an entry's path is that path or begins its parent's.        *)
LEMMA UnderParent ==
  ASSUME NEW t, Sane(t), NEW n \in Named(t), n # 0, NEW q \in Seq(AllNames), Pre(q, Short(t, n))
  PROVE  \/ q = Short(t, n)
         \/ Pre(q, Short(t, t[n].parent)) /\ Len(Short(t, t[n].parent)) < Len(Short(t, n))
<1> DEFINE m == t[n].parent
           r == Short(t, m)
           b == Short(t, n)
           a == t[n].name
<1>1. m \in Named(t) /\ a \in AllNames /\ r \in Seq(AllNames) /\ b = Append(r, a)
  BY ShortChild
<1>2. Pre(q, b)
  OBVIOUS
<1> HIDE DEF m, r, b, a
<1>3. b \in Seq(AllNames) /\ Len(r) \in Nat /\ Len(b) = Len(r) + 1 /\ Pre(r, b)
  <2>1. /\ Append(r, a) \in Seq(AllNames) /\ Len(r) \in Nat /\ Len(Append(r, a)) = Len(r) + 1
        /\ Pre(r, Append(r, a))
    BY <1>1, AppendPre
  <2>2. QED BY <1>1, <2>1, Zenon
<1>4. Pre(q, r) \/ q = b
  BY <1>1, <1>2, <1>3, PreStep
<1>5. QED BY <1>3, <1>4 DEF m, r, b

(* Below an entry there is a way down.                                     *)
LEMMA DownTo ==
  ASSUME NEW t, Sane(t), NEW i \in Named(t), NEW any \in Named(t), any # i,
         Pre(Short(t, i), Short(t, any))
  PROVE  \E a \in Named(t) : t[a].parent = i /\ Pre(Short(t, a), Short(t, any))
<1> DEFINE q == Short(t, i)
           Good(n) == \E a \in Named(t) : t[a].parent = i /\ Pre(Short(t, a), Short(t, n))
           Out == {n \in Named(t) : n # i /\ Pre(q, Short(t, n)) /\ ~Good(n)}
           Bad == {Len(Short(t, n)) : n \in Out}
<1>1. SUFFICES ASSUME ~Good(any) PROVE FALSE
  OBVIOUS
<1>2. q \in Seq(AllNames) /\ \A n \in Named(t) : Short(t, n) \in Seq(AllNames) /\ Len(Short(t, n)) \in Nat
  <2>1. \A n \in Named(t) : Short(t, n) \in Seq(AllNames)
    BY ShortIs
  <2>2. QED BY <2>1, LenProperties
<1>3. Bad \in SUBSET Nat /\ Bad # {}
  <2>1. any \in Out
    BY <1>1
  <2>2. \A n \in Out : Len(Short(t, n)) \in Nat
    BY <1>2
  <2> HIDE DEF Out
  <2>3. QED BY <2>1, <2>2
<1> HIDE DEF Bad
<1>4. PICK x \in Bad : \A y \in Bad : x <= y
  BY <1>3, HasLeast
<1>5. PICK n \in Out : Len(Short(t, n)) = x
  BY <1>4 DEF Bad
<1>6. n \in Named(t) /\ n # i /\ Pre(q, Short(t, n)) /\ ~Good(n)
  OBVIOUS
<1> HIDE DEF Out, Good
<1>7. n # 0
  <2>1. SUFFICES ASSUME n = 0 PROVE FALSE
    OBVIOUS
  <2>2. Short(t, n) = <<>> /\ Len(q) \in Nat
    BY <2>1, <1>2, ShortRoot
  <2>3. Len(q) = Len(Short(t, n))
    BY <2>2, <1>6 DEF Pre
  <2>4. q = Short(t, n)
    BY <1>2, <1>6, <2>3, PreSame
  <2>5. QED BY <2>4, <1>6, ShortOnce
<1> DEFINE m == t[n].parent
<1>8. q # Short(t, n)
  BY <1>6, ShortOnce
<1>9. Pre(q, Short(t, m)) /\ Len(Short(t, m)) < Len(Short(t, n))
  BY <1>2, <1>6, <1>7, <1>8, UnderParent
<1>10. m \in Named(t) /\ Pre(Short(t, m), Short(t, n))
  <2>1. m \in Named(t) /\ t[n].name \in AllNames /\ Short(t, m) \in Seq(AllNames)
        /\ Short(t, n) = Append(Short(t, m), t[n].name)
    BY <1>6, <1>7, ShortChild
  <2> HIDE DEF m
  <2>2. Pre(Short(t, m), Append(Short(t, m), t[n].name))
    BY <2>1, AppendPre
  <2>3. QED BY <2>1, <2>2, Zenon
<1>11. CASE m = i
  <2>1. Pre(Short(t, n), Short(t, n))
    BY <1>2, <1>6, PreSelf
  <2>2. QED BY <1>6, <1>11, <2>1 DEF Good
<1>12. CASE m # i
  <2> HIDE DEF m
  <2>1. ~Good(m)
    <3>1. SUFFICES ASSUME NEW a \in Named(t), t[a].parent = i, Pre(Short(t, a), Short(t, m))
                   PROVE  Good(n)
      BY <1>6 DEF Good
    <3>2. Pre(Short(t, a), Short(t, n))
      BY <1>2, <1>6, <1>10, <3>1, PreTrans
    <3>3. QED BY <3>1, <3>2 DEF Good
  <2>2. m \in Out
    BY <2>1, <1>9, <1>10, <1>12 DEF Out
  <2>3. Len(Short(t, m)) \in Bad
    BY <2>2 DEF Bad
  <2>4. x <= Len(Short(t, m))
    BY <2>3, <1>4
  <2>5. Len(Short(t, m)) \in Nat /\ Len(Short(t, n)) \in Nat /\ Len(Short(t, m)) < Len(Short(t, n))
    BY <1>2, <1>6, <1>9, <1>10 DEF m
  <2>6. QED BY <1>5, <2>4, <2>5
<1>13. QED BY <1>11, <1>12

(* What stays, stays with all that is above it.                            *)
LEMMA AboveStays ==
  ASSUME NEW t, NEW u, NEW s, Sane(t), Sane(u), Shrunk(t, u, s),
         NEW a \in Named(t), NEW any \in Named(u), Pre(Short(t, a), Short(t, any))
  PROVE  a \in Named(u)
<1> DEFINE q == Short(t, a)
           Out == {n \in Named(u) : Pre(q, Short(t, n))}
           Bad == {Len(Short(t, n)) : n \in Out}
<1>1. SUFFICES ASSUME a \notin Named(u) PROVE FALSE
  OBVIOUS
<1>2. \A n \in Named(u) : n \in Named(t) /\ Short(u, n) = Short(t, n) /\ Keeps(t[n], u[n])
  BY ShrunkShort
<1>3. q \in Seq(AllNames) /\ \A n \in Named(t) : Short(t, n) \in Seq(AllNames) /\ Len(Short(t, n)) \in Nat
  <2>1. \A n \in Named(t) : Short(t, n) \in Seq(AllNames)
    BY ShortIs
  <2>2. QED BY <2>1, LenProperties
<1>4. Bad \in SUBSET Nat /\ Bad # {}
  <2>1. any \in Out
    OBVIOUS
  <2>2. \A n \in Out : Len(Short(t, n)) \in Nat
    BY <1>2, <1>3
  <2> HIDE DEF Out
  <2>3. QED BY <2>1, <2>2
<1> HIDE DEF Bad
<1>5. PICK x \in Bad : \A y \in Bad : x <= y
  BY <1>4, HasLeast
<1>6. PICK n \in Out : Len(Short(t, n)) = x
  BY <1>5 DEF Bad
<1>7. n \in Named(u) /\ Pre(q, Short(t, n)) /\ n \in Named(t)
  BY <1>2
<1> HIDE DEF Out
<1>8. n # a
  BY <1>1, <1>7
<1>9. q # Short(t, n)
  BY <1>7, <1>8, ShortOnce
<1>10. n # 0
  <2>1. SUFFICES ASSUME n = 0 PROVE FALSE
    OBVIOUS
  <2>2. Short(t, n) = <<>> /\ Len(q) \in Nat
    BY <2>1, <1>3, ShortRoot
  <2>3. Len(q) = Len(Short(t, n))
    BY <2>2, <1>7 DEF Pre
  <2>4. QED BY <1>3, <1>7, <1>9, <2>3, PreSame
<1> DEFINE m == t[n].parent
<1>11. Pre(q, Short(t, m)) /\ Len(Short(t, m)) < Len(Short(t, n))
  BY <1>3, <1>7, <1>9, <1>10, UnderParent
<1>12. m \in Named(u)
  <2>1. u[n].parent = m
    BY <1>2, <1>7 DEF Keeps
  <2>2. QED BY <2>1, <1>7, <1>10 DEF Sane
<1> HIDE DEF m
<1>13. Len(Short(t, m)) \in Bad
  BY <1>11, <1>12 DEF Bad, Out
<1>14. x <= Len(Short(t, m))
  BY <1>5, <1>13
<1>15. Len(Short(t, m)) \in Nat /\ Len(Short(t, n)) \in Nat /\ Len(Short(t, m)) < Len(Short(t, n))
  BY <1>2, <1>3, <1>7, <1>11, <1>12
<1>16. QED BY <1>6, <1>14, <1>15

-----------------------------------------------------------------------------
(* What dirdbInit makes of a file.                                         *)
None == [n \in Int |-> 0]
Root == [n \in Int |-> IF n = 0 THEN 2 ELSE 0]
LoadOK(l) ==
  /\ Table(l) /\ Refs(l, FALSE)
  /\ \A i \in Holes(l) : l[i].parent = 0 /\ l[i].refcount >= 0
  /\ Named(l) = {} \/ (Sane(l) /\ Counts(l, None, FALSE, Holes(l) = {}))

(* Nobody has a handle; then the drive has two. *)
LEMMA NoneIs ==
  /\ None \in Handles /\ Root \in Handles /\ Plus(Plus(None, 0), 0) = Root
  /\ Plus(None, 0) \in Handles /\ Plus(None, 0)[0] = 1 /\ \A n \in Int : n # 0 => Plus(None, 0)[n] = 0
<1> DEFINE a == Plus(None, 0)
           b == Plus(a, 0)
<1>1. None \in Handles /\ Root \in Handles /\ \A n \in Int : None[n] = 0
  BY DEF None, Root, Handles
<1>2. a \in Handles /\ a[0] = 1 /\ \A n \in Int : n # 0 => a[n] = 0
  <2>1. 0 \in Int
    OBVIOUS
  <2>2. a \in Handles /\ a[0] = None[0] + 1 /\ \A n \in Int : n # 0 => a[n] = None[n]
    BY <2>1, <1>1, PlusIs
  <2> HIDE DEF a
  <2>3. QED BY <2>1, <2>2, <1>1
<1> HIDE DEF a
<1>3. b \in Handles /\ b[0] = 2 /\ \A n \in Int : n # 0 => b[n] = 0
  <2>1. 0 \in Int
    OBVIOUS
  <2>2. b \in Handles /\ b[0] = a[0] + 1 /\ \A n \in Int : n # 0 => b[n] = a[n]
    BY <2>1, <1>2, PlusIs
  <2> HIDE DEF b
  <2>3. QED BY <2>1, <2>2, <1>2
<1> HIDE DEF b
<1>4. \A n \in Int : b[n] = Root[n]
  BY <1>3 DEF Root
<1>5. b = Root
  BY <1>1, <1>3, <1>4 DEF Handles
<1>6. QED BY <1>1, <1>2, <1>5 DEF a, b

(* RegisterDrive finds the drive in what was read, *)
LEMMA StartedNamed ==
  ASSUME NEW l, Sane(l), NEW x, Counts(l, None, FALSE, x)
  PROVE  LET u == FindAndRef(l, NoParent, Drive[1])
             v == Ref(u, NodeOf(u, NoParent, Drive[1])) IN
         Sane(v) /\ Counts(v, Root, FALSE, x) /\ Recounted(l, v)
<1>1. 0 \in Named(l) /\ l[0].parent = NoParent /\ l[0].name = Drive[1]
  BY DEF Sane
<1> DEFINE u == Ref(l, 0)
           v == Ref(u, 0)
<1>2. NodeOf(l, NoParent, Drive[1]) = 0
  BY <1>1, NodeOfIs
<1>3. FindAndRef(l, NoParent, Drive[1]) = u
  BY <1>1, <1>2 DEF FindAndRef
<1>4. Table(u) /\ Recounted(l, u) /\ Counts(u, Plus(None, 0), FALSE, x)
  BY <1>1, NoneIs, CountsRef DEF Sane
<1> HIDE DEF u
<1>5. Sane(u) /\ Named(u) = Named(l)
  BY <1>4, RecountedIs, AlikeIsSane, AlikeNames
<1>6. 0 \in Named(u) /\ u[0].parent = NoParent /\ u[0].name = Drive[1]
  BY <1>5 DEF Sane
<1>7. NodeOf(u, NoParent, Drive[1]) = 0
  BY <1>5, <1>6, NodeOfIs
<1>8. Table(v) /\ Recounted(u, v) /\ Counts(v, Plus(Plus(None, 0), 0), FALSE, x)
  BY <1>4, <1>6, NoneIs, CountsRef
<1> HIDE DEF v
<1>9. Sane(v)
  BY <1>5, <1>8, RecountedIs, AlikeIsSane
<1>10. Recounted(l, v)
  BY <1>4, <1>8 DEF Recounted, Keeps
<1>11. QED BY <1>3, <1>7, <1>8, <1>9, <1>10, NoneIs DEF v

(* The drive as the first entry. *)
Rooted(g) == [g EXCEPT ![0] = Called(@, NoParent, Drive[1])]

(* or makes it the first entry. *)
LEMMA RootedIs ==
  ASSUME NEW g, Table(g), 0 \in DOMAIN g, Named(g) = {}, NEW x,
         \A i \in DOMAIN g : g[i].parent = 0 /\ Fits(g[i].refcount, 0, x), Refs(g, FALSE)
  PROVE  LET v == Rooted(g) IN
         /\ Sane(v) /\ Counts(v, Plus(None, 0), FALSE, x) /\ Named(v) = {0}
         /\ v[0].mdbref = NoRef /\ Refs(v, FALSE)
<1> DEFINE e == Called(g[0], NoParent, Drive[1])
           v == Put(g, 0, e)
<1>1. Rooted(g) = v
  BY DEF Rooted, Put
<1>2. g[0] \in Entry /\ Drive[1] \in AllNames /\ NoParent \in Int /\ g[0].refcount \in Int
  BY InTable, MoreNames DEF NoParent
<1>3. /\ e \in Entry /\ e.name = Drive[1] /\ e.parent = NoParent /\ e.mdbref = NoRef
      /\ e.newmdbref = g[0].newmdbref /\ e.refcount = g[0].refcount + 1
  BY <1>2, EntryWith, SMTT(40)
<1> HIDE DEF e
<1>4. Table(v) /\ DOMAIN v = DOMAIN g /\ v[0] = e /\ \A i \in DOMAIN g : i # 0 => v[i] = g[i]
  BY <1>3, PutIs
<1> HIDE DEF v
<1>5. Named(v) = {0}
  <2>1. e.name # NoName
    BY <1>3 DEF Drive, NoName
  <2>2. \A i \in DOMAIN g : g[i].name = NoName
    BY DEF Named
  <2>3. QED BY <1>4, <2>1, <2>2 DEF Named
<1> DEFINE p == [i \in {0} |-> Drive]
<1>6. p \in [Named(v) -> Seq(AllNames)] /\ p = [i \in Named(v) |-> p[i]] /\ p[0] = Drive
  <2>1. Drive \in Seq(AllNames)
    BY MoreNames
  <2>2. QED BY <1>5, <2>1
<1> HIDE DEF p
<1>7. IsPaths(v, p)
  <2>1. PathStep(v, p, 0) = Drive
    <3>1. v[0].parent \notin Named(v) /\ v[0].name = Drive[1]
      BY <1>3, <1>4, <1>5 DEF NoParent
    <3>2. QED BY <3>1, MoreNames DEF PathStep
  <2>2. \A i \in Named(v) : p[i] = PathStep(v, p, i)
    BY <1>5, <1>6, <2>1
  <2>3. QED BY <1>6, <2>2 DEF IsPaths
<1>8. Paths(v) = p
  BY <1>4, <1>6, <1>7, PathsAre
<1>9. Hangs(v, p)
  <2>1. Len(Drive) >= 1
    BY DEF Drive
  <2>2. \A n \in Named(v) : Len(p[n]) >= 1 /\ p[n][1] = Drive[1]
    BY <1>5, <1>6, <2>1
  <2>3. QED BY <1>5, <1>6, <1>7, <2>2 DEF Hangs
<1>10. Sane(v)
  <2>1. \A i \in Holes(v) : v[i].parent = 0
    BY <1>4, <1>5 DEF Holes
  <2>2. QED BY <1>3, <1>4, <1>5, <1>8, <1>9, <2>1 DEF Sane
<1>11. Counts(v, Plus(None, 0), FALSE, x)
  <2> DEFINE w == Plus(None, 0)
  <2>1. w \in Handles /\ w[0] = 1 /\ \A n \in Int : n # 0 => w[n] = 0
    BY NoneIs
  <2> HIDE DEF w
  <2>2. Children(v, 0) = {}
    BY <1>3, <1>4, <1>5 DEF Children, NoParent
  <2>3. KidCount(v, 0) = 0
    BY <2>2, FS_EmptySet DEF KidCount
  <2>4. Tag(v[0], FALSE) = 0
    BY <1>3, <1>4 DEF Tag, Tagged
  <2>5. Owed(v, w, FALSE, 0) = 1
    <3>1. Owed(v, w, FALSE, 0) = 0 + 0 + w[0]
      BY <2>3, <2>4, Zenon DEF Owed
    <3>2. w[0] = 1
      BY <2>1
    <3> DEFINE o == Owed(v, w, FALSE, 0)
    <3>3. o = 0 + 0 + w[0]
      BY <3>1
    <3> HIDE DEF o
    <3>4. o = 1
      BY <3>2, <3>3
    <3>5. QED BY <3>4 DEF o
  <2>6. Fits(v[0].refcount, 1, x)
    BY <1>2, <1>3, <1>4 DEF Fits
  <2>7. \A i \in Holes(v) : Fits(v[i].refcount, 0, x)
    BY <1>4, <1>5 DEF Holes
  <2>8. \A n \in Named(v) : Fits(v[n].refcount, Owed(v, w, FALSE, n), x)
    BY <1>5, <2>5, <2>6
  <2>9. \A n \in Int : w[n] > 0 /\ n # NoParent => n \in Named(v)
    BY <1>5, <2>1
  <2>10. Counts(v, w, FALSE, x)
    BY <2>7, <2>8, <2>9 DEF Counts
  <2>11. QED BY <2>10 DEF w
<1>12. Refs(v, FALSE)
  <2>1. ASSUME NEW i \in DOMAIN v PROVE RefOK(v[i], FALSE)
    <3>1. CASE i # 0
      BY <3>1, <1>4 DEF Refs
    <3>2. CASE i = 0
      <4>1. RefOK(g[0], FALSE) /\ e.name # NoName
        BY <1>3 DEF Refs, Drive, NoName
      <4>2. RefOK(e, FALSE)
        BY <4>1, <1>3, RefOKIs
      <4>3. QED BY <3>2, <4>2, <1>4
    <3>3. QED BY <3>1, <3>2
  <2>2. QED BY <2>1 DEF Refs
<1>13. QED BY <1>1, <1>3, <1>4, <1>5, <1>10, <1>11, <1>12

-----------------------------------------------------------------------------
(* RegisterDrive takes two handles of the drive. *)
StartOf(l) == LET t == FindAndRef(l, NoParent, Drive[1]) IN Ref(t, NodeOf(t, NoParent, Drive[1]))

(* fsPreInit, on whatever dirdbInit has made of the file.                  *)
LEMMA StartIs ==
  ASSUME NEW l, LoadOK(l)
  PROVE  /\ Sane(StartOf(l)) /\ Counts(StartOf(l), Root, FALSE, Holes(l) = {})
         /\ Refs(StartOf(l), FALSE)
         /\ Recounted(l, StartOf(l))
              \/ (Named(l) = {} /\ Named(StartOf(l)) = {0} /\ StartOf(l)[0].mdbref = NoRef)
<1> DEFINE x == Holes(l) = {}
           v == StartOf(l)
<1>1. CASE Sane(l)
  <2>1. 0 \in Named(l)
    BY <1>1 DEF Sane
  <2>2. Counts(l, None, FALSE, x)
    BY <2>1 DEF LoadOK
  <2> HIDE DEF x
  <2>3. Sane(v) /\ Counts(v, Root, FALSE, x) /\ Recounted(l, v)
    BY <1>1, <2>2, StartedNamed DEF StartOf
  <2>4. Refs(v, FALSE)
    BY <2>3, RecountedIs, RefsShrunk DEF LoadOK
  <2>5. QED BY <2>3, <2>4 DEF x
<1>2. CASE ~Sane(l)
  <2>1. Named(l) = {} /\ Table(l) /\ Refs(l, FALSE) /\ Holes(l) = DOMAIN l
        /\ \A i \in Holes(l) : l[i].parent = 0 /\ l[i].refcount >= 0
    BY <1>2 DEF LoadOK, Holes
  <2> DEFINE g == IF Holes(l) = {} THEN Grown(l) ELSE l
             a == [g EXCEPT ![Lowest(Holes(g))] = Called(@, NoParent, Drive[1])]
  <2>2. FindAndRef(l, NoParent, Drive[1]) = a
    BY <2>1 DEF FindAndRef
  <2>3. /\ Table(g) /\ Named(g) = {} /\ Refs(g, FALSE) /\ DOMAIN g # {}
        /\ \A i \in DOMAIN g : g[i].parent = 0 /\ Fits(g[i].refcount, 0, x)
    <3>1. CASE Holes(l) = {}
      <4> DEFINE b == Grown(l)
      <4>1. /\ Table(b) /\ DOMAIN l \subseteq DOMAIN b /\ Named(b) = Named(l) /\ Holes(b) # {}
            /\ \A i \in DOMAIN b : b[i] = Was(l, i)
        BY <2>1, GrownIs
      <4>2. g = b
        BY <3>1
      <4> HIDE DEF b, g
      <4>3. \A i \in DOMAIN b : b[i] = Hole
        BY <2>1, <3>1, <4>1 DEF Was
      <4>4. Refs(b, FALSE)
        BY <4>3, RefOKIs DEF Refs
      <4>5. DOMAIN b # {}
        BY <4>1 DEF Holes
      <4>6. \A i \in DOMAIN b : b[i].parent = 0 /\ Fits(b[i].refcount, 0, x)
        BY <4>3, HoleIs DEF Fits
      <4>7. QED BY <2>1, <4>1, <4>2, <4>4, <4>5, <4>6
    <3>2. CASE Holes(l) # {}
      <4>1. g = l
        BY <3>2
      <4>2. \A i \in DOMAIN l : l[i].parent = 0 /\ Fits(l[i].refcount, 0, x)
        BY <2>1, <3>2 DEF Fits
      <4>3. QED BY <2>1, <3>2, <4>1, <4>2
    <3>3. QED BY <3>1, <3>2
  <2> HIDE DEF g, x
  <2>4. 0 \in DOMAIN g /\ Holes(g) = DOMAIN g /\ DOMAIN g \subseteq Nat
    <3>1. DOMAIN g = 0 .. Size(g) - 1 /\ Size(g) \in Nat
      BY <2>3, InTable DEF Table
    <3>2. QED BY <3>1, <2>3 DEF Holes
  <2>5. Lowest(Holes(g)) = 0
    <3> DEFINE m == Lowest(Holes(g))
    <3>1. m \in DOMAIN g /\ \A y \in DOMAIN g : m <= y
      BY <2>3, <2>4, LowestIs
    <3> HIDE DEF m
    <3>2. m = 0
      BY <3>1, <2>4
    <3>3. QED BY <3>2 DEF m
  <2>6. a = Rooted(g)
    BY <2>5 DEF Rooted
  <2> HIDE DEF a
  <2>7. /\ Sane(a) /\ Counts(a, Plus(None, 0), FALSE, x) /\ Named(a) = {0}
        /\ a[0].mdbref = NoRef /\ Refs(a, FALSE)
    BY <2>3, <2>4, <2>6, RootedIs
  <2>8. NodeOf(a, NoParent, Drive[1]) = 0
    <3>1. 0 \in Named(a) /\ a[0].parent = NoParent /\ a[0].name = Drive[1]
      BY <2>7 DEF Sane
    <3>2. QED BY <3>1, <2>7, NodeOfIs
  <2>9. v = Ref(a, 0)
    BY <2>2, <2>8 DEF StartOf
  <2> HIDE DEF v
  <2>10. Table(v) /\ Recounted(a, v) /\ Counts(v, Root, FALSE, x)
    <3>1. 0 \in Named(a) /\ Table(a)
      BY <2>7 DEF Sane
    <3>2. Table(v) /\ Recounted(a, v) /\ Counts(v, Plus(Plus(None, 0), 0), FALSE, x)
      BY <3>1, <2>7, <2>9, NoneIs, CountsRef
    <3>3. QED BY <3>2, NoneIs
  <2>11. Sane(v) /\ Named(v) = Named(a) /\ Refs(v, FALSE)
    BY <2>7, <2>10, RecountedIs, AlikeIsSane, AlikeNames, RefsShrunk
  <2>12. v[0].mdbref = NoRef
    <3>1. 0 \in DOMAIN a
      BY <2>7 DEF Named
    <3>2. QED BY <3>1, <2>7, <2>10 DEF Recounted, Keeps
  <2>13. QED BY <2>1, <2>7, <2>10, <2>11, <2>12 DEF v, x
<1>3. QED BY <1>1, <1>2

(* Without a file the table is empty. *)
LEMMA NoFileIs == LoadOK(Load(NoFile)) /\ Holes(Load(NoFile)) = {} /\ Named(Load(NoFile)) = {}
<1> DEFINE t == ReadEntries(NoFile)
           l == Load(NoFile)
<1>1. DOMAIN t = {} /\ DOMAIN NoFile.nodes = {}
  BY DEF ReadEntries, NoFile
<1>2. l = [i \in DOMAIN t |-> [t[i] EXCEPT
             !.refcount = @ + Cardinality({j \in DOMAIN t : t[j].parent = i})]]
  BY <1>1, Zenon DEF Load
<1>3. DOMAIN l = {}
  BY <1>1, <1>2, Zenon
<1>5. l \in [0 .. 0 - 1 -> Entry]
  <2>1. 0 .. 0 - 1 = {}
    OBVIOUS
  <2>2. l = [i \in {} |-> l[i]]
    BY <1>1, <1>2
  <2> HIDE DEF l
  <2>3. QED BY <1>3, <2>1, <2>2
<1> HIDE DEF l, t
<1>6. Table(l)
  BY <1>5, TableIs
<1>7. Named(l) = {} /\ Holes(l) = {}
  BY <1>3 DEF Named, Holes
<1>8. Refs(l, FALSE)
  BY <1>3 DEF Refs
<1>9. QED BY <1>6, <1>7, <1>8 DEF LoadOK, l

-----------------------------------------------------------------------------
(* A bounded set of naturals has a greatest member. *)
LEMMA HasGreatest ==
  ASSUME NEW n \in Nat, NEW S \in SUBSET (0 .. n - 1), S # {}
  PROVE  \E x \in S : \A y \in S : y <= x
<1> DEFINE R == {n - y : y \in S}
<1>1. R \in SUBSET Nat /\ R # {}
  <2>1. \A y \in S : n - y \in Nat
    OBVIOUS
  <2>2. R \in SUBSET Nat
    BY <2>1
  <2>3. PICK y \in S : TRUE
    OBVIOUS
  <2>4. n - y \in R
    OBVIOUS
  <2>5. QED BY <2>2, <2>4
<1>2. PICK m \in R : \A y \in R : m <= y
  BY <1>1, HasLeast
<1>3. PICK x \in S : m = n - x
  BY <1>2
<1>4. ASSUME NEW y \in S PROVE y <= x
  <2>1. m <= n - y
    BY <1>2
  <2>2. QED BY <2>1, <1>3
<1>5. QED BY <1>4

(* dirdbFlush writes all entries up to the last name. *)
LEMMA EntryCountIs ==
  ASSUME NEW t, Sane(t)
  PROVE  /\ EntryCount(t) \in Nat /\ EntryCount(t) >= 1 /\ EntryCount(t) <= Size(t)
         /\ Named(t) \subseteq 0 .. EntryCount(t) - 1 /\ 0 .. EntryCount(t) - 1 \subseteq DOMAIN t
         /\ Size(t) \in Nat
<1>1. Table(t) /\ 0 \in Named(t)
  BY DEF Sane
<1>2. DOMAIN t = 0 .. Size(t) - 1 /\ Size(t) \in Nat /\ Named(t) \subseteq DOMAIN t
  BY <1>1, InTable DEF Table
<1> DEFINE m == CHOOSE i \in Named(t) : \A j \in Named(t) : j <= i
<1>3. \E i \in Named(t) : \A j \in Named(t) : j <= i
  BY <1>1, <1>2, HasGreatest
<1>4. m \in Named(t) /\ \A j \in Named(t) : j <= m
  BY <1>3
<1>5. EntryCount(t) = 1 + m
  BY <1>1 DEF EntryCount
<1> HIDE DEF m
<1>6. m \in 0 .. Size(t) - 1
  BY <1>2, <1>4
<1>7. QED BY <1>1, <1>2, <1>4, <1>5, <1>6

(* What the file keeps of an entry.                                        *)
WrittenEntry(e) == [name |-> e.name, parent |-> e.parent, mdbref |-> e.mdbref]
ReadEntry(e) == [name |-> e.name, parent |-> e.parent, mdbref |-> e.mdbref, newmdbref |-> 0,
             refcount |-> IF e.mdbref = NoRef THEN 0 ELSE 1]

(* What calloc leaves of an entry that is not in the file. *)
LEMMA ZeroedIs ==
  /\ Zeroed \in Entry /\ Zeroed.name = NoName /\ Zeroed.parent = 0 /\ Zeroed.refcount = 0
  /\ Zeroed.mdbref = 0 /\ Zeroed.newmdbref = 0
BY HoleIs DEF Zeroed, Entry

(* What is read of an entry. *)
LEMMA ReadEntryIs ==
  ASSUME NEW e \in Entry
  PROVE  LET f == ReadEntry(e) IN
         /\ f \in Entry /\ f.name = e.name /\ f.parent = e.parent /\ f.mdbref = e.mdbref
         /\ f.newmdbref = 0 /\ f.refcount = Tag(e, FALSE)
<1> DEFINE c == IF e.mdbref = NoRef THEN 0 ELSE 1
           f == [name |-> e.name, parent |-> e.parent, mdbref |-> e.mdbref, newmdbref |-> 0,
                 refcount |-> c]
<1>1. c = Tag(e, FALSE)
  BY DEF Tag, Tagged
<1>2. c \in Int /\ 0 \in Int
  OBVIOUS
<1>3. ReadEntry(e) = f
  BY Zenon DEF ReadEntry
<1> HIDE DEF c
<1>4. f \in Entry
  BY <1>2 DEF Entry
<1>5. /\ f.name = e.name /\ f.parent = e.parent /\ f.mdbref = e.mdbref
      /\ f.newmdbref = 0 /\ f.refcount = c
  OBVIOUS
<1> HIDE DEF f
<1>6. QED BY <1>1, <1>3, <1>4, <1>5

(* What dirdbInit reads, of a file that holds k entries of the table.      *)
LEMMA ReadIs ==
  ASSUME NEW t, Sane(t), NEW k \in Nat, k <= EntryCount(t), NEW file,
         file.entries = EntryCount(t), file.nodes = Written(t, k)
  PROVE  LET r == ReadEntries(file) IN
         /\ Table(r) /\ DOMAIN r = 0 .. EntryCount(t) - 1 /\ Size(r) = EntryCount(t)
         /\ DOMAIN file.nodes = 0 .. k - 1
         /\ \A i \in DOMAIN r : r[i] = IF i < k /\ i \in Named(t) THEN ReadEntry(t[i]) ELSE Zeroed
<1> DEFINE m == EntryCount(t)
           r == ReadEntries(file)
           nodes == file.nodes
<1>1. /\ m \in Nat /\ 0 .. m - 1 \subseteq DOMAIN t /\ Named(t) \subseteq 0 .. m - 1
      /\ \A i \in DOMAIN t : t[i] \in Entry
  BY EntryCountIs, InTable DEF Sane
<1>2. nodes = [i \in 0 .. k - 1 |-> WrittenEntry(t[i])]
  BY DEF Written, WrittenEntry
<1> HIDE DEF nodes
<1>3. DOMAIN nodes = 0 .. k - 1 /\ \A i \in 0 .. k - 1 : nodes[i] = WrittenEntry(t[i])
  BY <1>2
<1>4. r = [i \in 0 .. m - 1 |->
             IF i \in DOMAIN nodes /\ nodes[i].name # NoName
               THEN [name |-> nodes[i].name, parent |-> nodes[i].parent,
                     mdbref |-> nodes[i].mdbref, newmdbref |-> 0,
                     refcount |-> IF nodes[i].mdbref = NoRef THEN 0 ELSE 1]
               ELSE Zeroed]
  BY DEF ReadEntries, nodes
<1> HIDE DEF r
<1>5. DOMAIN r = 0 .. m - 1 /\ r = [i \in 0 .. m - 1 |-> r[i]]
  BY <1>4
<1>6. ASSUME NEW i \in 0 .. m - 1
      PROVE  r[i] = IF i < k /\ i \in Named(t) THEN ReadEntry(t[i]) ELSE Zeroed
  <2>1. i \in DOMAIN nodes <=> i < k
    BY <1>1, <1>3
  <2>2. CASE i < k
    <3>1. nodes[i] = WrittenEntry(t[i]) /\ i \in DOMAIN nodes
      BY <2>1, <2>2, <1>3
    <3>2. nodes[i].name = t[i].name /\ nodes[i].parent = t[i].parent /\ nodes[i].mdbref = t[i].mdbref
      BY <3>1 DEF WrittenEntry
    <3>3. i \in Named(t) <=> t[i].name # NoName
      BY <1>1 DEF Named
    <3>4. QED BY <1>4, <2>2, <3>1, <3>2, <3>3 DEF ReadEntry
  <2>3. CASE ~(i < k)
    BY <1>4, <2>1, <2>3
  <2>4. QED BY <2>2, <2>3
<1>7. \A i \in 0 .. m - 1 : r[i] \in Entry
  <2>1. ASSUME NEW i \in 0 .. m - 1 PROVE r[i] \in Entry
    <3>1. ReadEntry(t[i]) \in Entry
      BY <1>1, ReadEntryIs
    <3>2. QED BY <3>1, <1>6, ZeroedIs
  <2>2. QED BY <2>1
<1>8. r \in [0 .. m - 1 -> Entry]
  BY <1>5, <1>7
<1>9. Table(r) /\ Size(r) = m
  BY <1>1, <1>8, TableIs
<1>10. QED BY <1>3, <1>5, <1>6, <1>9 DEF nodes, r

(* A file that ends inside the fields of entry n; dirdbInit blanks all.    *)
Torn(t, n) == [FileOf(t) EXCEPT !.nodes = Written(t, n), !.torn = "fields"]
Blank(e) == [e EXCEPT !.name = NoName, !.parent = 0]
Also(e, c) == [e EXCEPT !.refcount = @ + c]

(* dirdbInit takes the name from an entry. *)
LEMMA BlankIs ==
  ASSUME NEW e \in Entry
  PROVE  LET f == Blank(e) IN
         /\ f \in Entry /\ f.name = NoName /\ f.parent = 0 /\ f.refcount = e.refcount
         /\ f.mdbref = e.mdbref /\ f.newmdbref = e.newmdbref
<1> DEFINE a == [e EXCEPT !.name = NoName]
           b == [a EXCEPT !.parent = 0]
<1>1. /\ a \in Entry /\ a.name = NoName /\ a.refcount = e.refcount
      /\ a.mdbref = e.mdbref /\ a.newmdbref = e.newmdbref
  BY HoleIs DEF Entry
<1>2. Blank(e) = b
  BY DEF Blank
<1> HIDE DEF a
<1>3. /\ b \in Entry /\ b.name = a.name /\ b.parent = 0 /\ b.refcount = a.refcount
      /\ b.mdbref = a.mdbref /\ b.newmdbref = a.newmdbref
  BY <1>1 DEF Entry
<1> HIDE DEF b
<1>4. QED BY <1>1, <1>2, <1>3

(* dirdbInit counts the children of an entry. *)
LEMMA AlsoIs ==
  ASSUME NEW e \in Entry, NEW c \in Int
  PROVE  LET f == Also(e, c) IN
         /\ f \in Entry /\ f.name = e.name /\ f.parent = e.parent /\ f.refcount = e.refcount + c
         /\ f.mdbref = e.mdbref /\ f.newmdbref = e.newmdbref /\ e.refcount \in Int
BY DEF Entry, Also

(* A file that ends in such fields is read as a table without names. *)
LEMMA TornIs ==
  ASSUME Restarts, NEW t, Sane(t), Refs(t, FALSE), NEW k \in Nat, k < EntryCount(t)
  PROVE  LoadOK(Load(Torn(t, k)))
<1> DEFINE file == Torn(t, k)
           r == ReadEntries(file)
           l == Load(file)
           m == EntryCount(t)
<1>1. file.entries = m /\ file.nodes = Written(t, k) /\ file.torn = "fields" /\ m \in Nat
  BY EntryCountIs DEF Torn, FileOf
<1> HIDE DEF file
<1>2. /\ Table(r) /\ DOMAIN r = 0 .. m - 1 /\ DOMAIN file.nodes = 0 .. k - 1
      /\ \A i \in DOMAIN r : r[i] = IF i < k /\ i \in Named(t) THEN ReadEntry(t[i]) ELSE Zeroed
  BY <1>1, ReadIs
<1>3. DOMAIN file.nodes # DOMAIN r
  <2>1. k \in 0 .. m - 1 /\ k \notin 0 .. k - 1
    BY <1>1
  <2>2. QED BY <2>1, <1>2
<1>4. l = [i \in DOMAIN r |-> Blank(r[i])]
  BY <1>1, <1>3 DEF Load, Blank
<1> HIDE DEF l, r, m
<1>5. ASSUME NEW i \in DOMAIN r
      PROVE  /\ l[i] \in Entry /\ l[i].name = NoName /\ l[i].parent = 0 /\ l[i].refcount >= 0
             /\ RefOK(l[i], FALSE)
  <2>1. r[i] \in Entry /\ l[i] = Blank(r[i])
    BY <1>2, <1>4, InTable
  <2> DEFINE f == l[i]
             e == r[i]
  <2>2. /\ f \in Entry /\ f.name = NoName /\ f.parent = 0 /\ f.refcount = e.refcount
        /\ f.mdbref = e.mdbref /\ f.newmdbref = e.newmdbref
    BY <2>1, BlankIs
  <2>3. /\ e.refcount \in {0, 1} /\ e.mdbref \in Mdbrefs \cup {NoRef, 0} /\ e.newmdbref = 0
    <3>1. CASE i < k /\ i \in Named(t)
      <4> DEFINE d == t[i]
      <4>1. d \in Entry /\ RefOK(d, FALSE)
        BY <3>1, InTable DEF Sane, Refs, Named
      <4>2. e = ReadEntry(d)
        BY <3>1, <1>2
      <4> HIDE DEF d, e
      <4>3. e.mdbref = d.mdbref /\ e.newmdbref = 0 /\ e.refcount = Tag(d, FALSE)
        BY <4>1, <4>2, ReadEntryIs
      <4>4. Tag(d, FALSE) \in {0, 1}
        BY DEF Tag
      <4>5. d.mdbref \in Mdbrefs \cup {NoRef, 0}
        BY <4>1 DEF RefOK
      <4>6. QED BY <4>3, <4>4, <4>5
    <3>2. CASE ~(i < k /\ i \in Named(t))
      <4>1. e = Zeroed
        BY <3>2, <1>2
      <4>2. QED BY <4>1, ZeroedIs
    <3>3. QED BY <3>1, <3>2
  <2> HIDE DEF e, f
  <2>4. RefOK(f, FALSE)
    BY <2>2, <2>3 DEF RefOK
  <2>5. f.refcount >= 0
    BY <2>2, <2>3
  <2>6. QED BY <2>2, <2>4, <2>5 DEF f
<1>6. l \in [0 .. m - 1 -> Entry] /\ DOMAIN l = DOMAIN r
  <2>1. l = [i \in DOMAIN r |-> l[i]] /\ DOMAIN r = 0 .. m - 1
    BY <1>4, <1>2
  <2>2. QED BY <2>1, <1>5
<1>7. Table(l)
  BY <1>1, <1>6, TableIs DEF m
<1>8. Named(l) = {} /\ Holes(l) = DOMAIN l
  BY <1>5, <1>6 DEF Named, Holes
<1>9. Refs(l, FALSE)
  BY <1>5, <1>6 DEF Refs
<1>10. \A i \in Holes(l) : l[i].parent = 0 /\ l[i].refcount >= 0
  BY <1>5, <1>6, <1>8
<1>11. LoadOK(l)
  BY <1>7, <1>8, <1>9, <1>10 DEF LoadOK
<1>12. QED BY <1>11 DEF l, file

LoadedEntry(r, i) == Also(r[i], Cardinality({j \in DOMAIN r : r[j].parent = i}))

(* A file that was written whole is read with all names and mdbrefs.       *)
LEMMA LoadedIs ==
  ASSUME NEW t, Sane(t), Refs(t, FALSE)
  PROVE  LET l == Load(FileOf(t)) IN
         /\ (Restarts => LoadOK(l)) /\ Sane(l) /\ Named(l) = Named(t) /\ Paths(l) = Paths(t)
         /\ \A i \in Named(t) : l[i].mdbref = t[i].mdbref
<1> DEFINE file == FileOf(t)
           r == ReadEntries(file)
           l == Load(file)
           m == EntryCount(t)
<1>1. file.entries = m /\ file.nodes = Written(t, m) /\ m \in Nat /\ Named(t) \subseteq 0 .. m - 1
      /\ 0 .. m - 1 \subseteq DOMAIN t
  BY EntryCountIs DEF FileOf
<1>a. file.torn = "no"
  BY DEF FileOf
<1> HIDE DEF file
<1>2. /\ Table(r) /\ DOMAIN r = 0 .. m - 1 /\ DOMAIN file.nodes = 0 .. m - 1
      /\ \A i \in DOMAIN r : r[i] = IF i < m /\ i \in Named(t) THEN ReadEntry(t[i]) ELSE Zeroed
  BY <1>1, ReadIs
<1>3. l = [i \in DOMAIN r |-> LoadedEntry(r, i)]
  <2>1. DOMAIN file.nodes = DOMAIN r
    BY <1>2
  <2>2. l = [i \in DOMAIN r |-> [r[i] EXCEPT
               !.refcount = @ + Cardinality({j \in DOMAIN r : r[j].parent = i})]]
    BY <1>a, <2>1, Zenon DEF Load
  <2> HIDE DEF l, r
  <2>3. QED BY <2>2, Zenon DEF LoadedEntry, Also
<1> HIDE DEF l, r, m
<1> DEFINE Kids(n) == {j \in DOMAIN r : r[j].parent = n}
<1>4. \A n : IsFiniteSet(Kids(n)) /\ Cardinality(Kids(n)) \in Nat
  <2>1. IsFiniteSet(DOMAIN r)
    BY <1>2, InTable
  <2>2. \A n : Kids(n) \subseteq DOMAIN r
    OBVIOUS
  <2> HIDE DEF Kids
  <2>3. QED BY <2>1, <2>2, FS_Subset, FS_CardinalityType
<1>5. ASSUME NEW i \in DOMAIN r, i \in Named(t)
      PROVE  /\ l[i] \in Entry /\ l[i].name = t[i].name /\ l[i].parent = t[i].parent
             /\ l[i].mdbref = t[i].mdbref /\ l[i].newmdbref = 0 /\ r[i].parent = t[i].parent
             /\ l[i].refcount = Tag(t[i], FALSE) + Cardinality(Kids(i))
  <2> DEFINE e == t[i]
             f == r[i]
             c == Cardinality(Kids(i))
             g == l[i]
  <2>1. e \in Entry /\ f = ReadEntry(e) /\ c \in Int /\ g = Also(f, c)
    <3>1. i < m /\ i \in DOMAIN t
      BY <1>1, <1>2, <1>5
    <3>2. e \in Entry
      BY <3>1, InTable DEF Sane
    <3>3. f = ReadEntry(e)
      BY <3>1, <1>2, <1>5
    <3>4. g = Also(f, c)
      BY <1>3 DEF LoadedEntry
    <3>5. c \in Nat
      BY <1>4
    <3> HIDE DEF e, f, c, g
    <3>6. QED BY <3>2, <3>3, <3>4, <3>5
  <2> HIDE DEF e, f, c, g
  <2>2. /\ f \in Entry /\ f.name = e.name /\ f.parent = e.parent /\ f.mdbref = e.mdbref
        /\ f.newmdbref = 0 /\ f.refcount = Tag(e, FALSE)
    BY <2>1, ReadEntryIs
  <2>3. /\ g \in Entry /\ g.name = f.name /\ g.parent = f.parent /\ g.refcount = f.refcount + c
        /\ g.mdbref = f.mdbref /\ g.newmdbref = f.newmdbref
    BY <2>1, <2>2, AlsoIs
  <2>4. g.refcount = Tag(e, FALSE) + c
    BY <2>2, <2>3
  <2>5. QED BY <2>2, <2>3, <2>4 DEF e, f, c, g
<1>6. ASSUME NEW i \in DOMAIN r, i \notin Named(t)
      PROVE  /\ l[i] \in Entry /\ l[i].name = NoName /\ l[i].parent = 0 /\ l[i].mdbref = 0
             /\ l[i].newmdbref = 0 /\ r[i].parent = 0 /\ l[i].refcount >= 0
             /\ l[i].refcount = Cardinality(Kids(i))
  <2> DEFINE f == r[i]
             c == Cardinality(Kids(i))
             g == l[i]
  <2>1. f = Zeroed /\ c \in Nat /\ c \in Int /\ g = Also(f, c)
    <3>1. f = Zeroed
      BY <1>2, <1>6
    <3>2. g = Also(f, c)
      BY <1>3 DEF LoadedEntry
    <3>3. c \in Nat
      BY <1>4
    <3> HIDE DEF f, c, g
    <3>4. QED BY <3>1, <3>2, <3>3
  <2> HIDE DEF f, c, g
  <2>2. /\ g \in Entry /\ g.name = f.name /\ g.parent = f.parent /\ g.refcount = f.refcount + c
        /\ g.mdbref = f.mdbref /\ g.newmdbref = f.newmdbref
    BY <2>1, ZeroedIs, AlsoIs
  <2>3. g.refcount = c /\ g.refcount >= 0
    BY <2>1, <2>2, ZeroedIs
  <2>4. QED BY <2>1, <2>2, <2>3, ZeroedIs DEF f, c, g
<1>7. DOMAIN l = DOMAIN r /\ l = [i \in DOMAIN r |-> l[i]] /\ DOMAIN r = 0 .. m - 1
  BY <1>2, <1>3
<1>8. Table(l)
  <2>1. \A i \in DOMAIN r : l[i] \in Entry
    BY <1>5, <1>6
  <2>2. l \in [0 .. m - 1 -> Entry]
    BY <2>1, <1>7
  <2>3. QED BY <2>2, <1>1, TableIs DEF m
<1>9. Named(l) = Named(t)
  <2>1. \A i \in Named(t) : i \in DOMAIN r /\ t[i].name # NoName
    BY <1>1, <1>2 DEF Named, m
  <2>2. \A i \in DOMAIN r : l[i].name # NoName <=> i \in Named(t)
    BY <1>5, <1>6, <2>1
  <2>3. QED BY <2>1, <2>2, <1>7 DEF Named
<1>10. \A i \in Named(t) : i \in DOMAIN r
  BY <1>1, <1>2 DEF m
<1>11. \A i \in Holes(l) : i \in DOMAIN r /\ i \notin Named(t)
  BY <1>7, <1>9 DEF Holes
<1>12. Sane(l) /\ Paths(l) = Paths(t) /\ \A n : KidCount(l, n) = KidCount(t, n)
  <2>1. \A i \in Named(t) : l[i].parent = t[i].parent /\ l[i].name = t[i].name
    BY <1>5, <1>10
  <2>2. \A i \in Holes(l) : l[i].parent = 0
    BY <1>6, <1>11
  <2>3. QED BY <1>8, <1>9, <2>1, <2>2, SaneSame
<1>13. \A n : KidCount(t, n) \in Nat /\ Cardinality(Kids(n)) >= KidCount(t, n)
  <2>1. ASSUME NEW n PROVE KidCount(t, n) \in Nat /\ Cardinality(Kids(n)) >= KidCount(t, n)
    <3>1. Children(t, n) \subseteq Kids(n)
      BY <1>5, <1>10 DEF Children
    <3> HIDE DEF Kids
    <3>2. Cardinality(Children(t, n)) <= Cardinality(Kids(n)) /\ Cardinality(Children(t, n)) \in Nat
          /\ Cardinality(Kids(n)) \in Nat
      BY <3>1, <1>4, FS_Subset, FS_CardinalityType
    <3>3. QED BY <3>2 DEF KidCount
  <2>2. QED BY <2>1
<1>14. ASSUME Holes(l) = {} PROVE \A n : Cardinality(Kids(n)) = KidCount(t, n)
  <2>1. \A i \in DOMAIN r : i \in Named(t)
    BY <1>7, <1>9, <1>14 DEF Holes
  <2>2. ASSUME NEW n PROVE Kids(n) = Children(t, n)
    BY <1>5, <1>10, <2>1 DEF Children
  <2> HIDE DEF Kids
  <2>3. QED BY <2>2 DEF KidCount
<1> HIDE DEF Kids
<1> DEFINE x == Holes(l) = {}
<1>15. Counts(l, None, FALSE, x)
  <2>1. ASSUME NEW i \in Named(l) PROVE Fits(l[i].refcount, Owed(l, None, FALSE, i), x)
    <3> DEFINE a == KidCount(t, i)
               b == Tag(t[i], FALSE)
               c == Cardinality(Kids(i))
               g == l[i].refcount
               o == Owed(l, None, FALSE, i)
    <3>1. i \in Named(t) /\ i \in DOMAIN r /\ i \in Int
      BY <1>9, <1>10, InTable DEF Sane
    <3>2. Tagged(l[i], FALSE) = Tagged(t[i], FALSE)
      BY <3>1, <1>5 DEF Tagged
    <3>3. Tag(l[i], FALSE) = b
      BY <3>2 DEF Tag
    <3>4. None[i] = 0
      BY <3>1 DEF None
    <3>5. o = a + b + 0
      BY <3>3, <3>4, <1>12, Zenon DEF Owed
    <3>6. g = b + c
      BY <3>1, <1>5
    <3>7. a \in Nat /\ b \in {0, 1} /\ c \in Nat /\ c >= a /\ (x => c = a)
      BY <1>4, <1>13, <1>14 DEF Tag
    <3> HIDE DEF a, b, c, g, o, x
    <3>8. Fits(g, o, x)
      BY <3>5, <3>6, <3>7 DEF Fits
    <3>9. QED BY <3>8 DEF g, o
  <2>2. ASSUME NEW i \in Holes(l) PROVE Fits(l[i].refcount, 0, x)
    <3>1. ~x
      OBVIOUS
    <3>2. l[i].refcount >= 0
      BY <1>6, <1>11
    <3>3. QED BY <3>1, <3>2 DEF Fits
  <2>3. \A n \in Int : None[n] > 0 /\ n # NoParent => n \in Named(l)
    BY DEF None
  <2> HIDE DEF x
  <2>4. QED BY <2>1, <2>2, <2>3 DEF Counts
<1>16. ASSUME Restarts PROVE Refs(l, FALSE)
  <2>1. ASSUME NEW i \in DOMAIN l PROVE RefOK(l[i], FALSE)
    <3>1. CASE i \in Named(t)
      <4>1. l[i].mdbref = t[i].mdbref /\ l[i].newmdbref = 0
        BY <3>1, <1>5, <1>7
      <4>2. RefOK(t[i], FALSE)
        BY <3>1 DEF Refs, Named
      <4>3. QED BY <4>1, <4>2, <1>16 DEF RefOK
    <3>2. CASE i \notin Named(t)
      <4>1. l[i].mdbref = 0 /\ l[i].newmdbref = 0
        BY <3>2, <1>6, <1>7
      <4>2. QED BY <4>1, <1>16 DEF RefOK
    <3>3. QED BY <3>1, <3>2
  <2>2. QED BY <2>1 DEF Refs
<1>17. Restarts => LoadOK(l)
  <2>1. \A i \in Holes(l) : l[i].parent = 0 /\ l[i].refcount >= 0
    BY <1>6, <1>11
  <2>2. QED BY <1>8, <1>12, <1>15, <1>16, <2>1 DEF LoadOK
<1>18. \A i \in Named(t) : l[i].mdbref = t[i].mdbref
  BY <1>5, <1>10
<1>19. QED BY <1>9, <1>12, <1>17, <1>18 DEF l, file
-----------------------------------------------------------------------------
(* Paths agree where parents and names do. *)
LEMMA LessPaths ==
  ASSUME NEW t, NEW u, Sane(t), Sane(u), Named(t) \subseteq Named(u),
         \A i \in Named(t) : u[i].parent = t[i].parent /\ u[i].name = t[i].name
  PROVE  \A i \in Named(t) : Paths(u)[i] = Paths(t)[i]
<1> DEFINE p == Paths(t)
           r == Paths(u)
           q == [i \in Named(t) |-> r[i]]
<1>1. Hangs(t, p) /\ Hangs(u, r)
  BY DEF Sane
<1>2. q = [i \in Named(t) |-> q[i]] /\ \A i \in Named(t) : q[i] = r[i]
  OBVIOUS
<1> HIDE DEF p, q, r
<1>3. ASSUME NEW i \in Named(t) PROVE q[i] = PathStep(t, q, i)
  <2>1. r[i] = PathStep(u, r, i) /\ q[i] = r[i]
    BY <1>1, <1>2 DEF Hangs, IsPaths
  <2>2. CASE i = 0
    <3>1. u[i].parent \notin Nat
      BY <2>2 DEF Sane, NoParent
    <3>2. u[i].parent \notin Named(u) /\ t[i].parent \notin Named(t)
      BY <3>1, InTable DEF Sane
    <3>3. QED BY <3>2, <2>1 DEF PathStep
  <2>3. CASE i # 0
    <3>1. t[i].parent \in Named(t)
      BY <2>3 DEF Sane
    <3>2. QED BY <3>1, <2>1, <1>2 DEF PathStep
  <2>4. QED BY <2>2, <2>3
<1>4. IsPaths(t, q)
  BY <1>2, <1>3 DEF IsPaths
<1>5. q = p
  BY <1>1, <1>4, OnePaths DEF Sane, Hangs
<1>6. QED BY <1>2, <1>5 DEF p, r

(* The library is what the mdbrefs and paths are. *)
LEMMA LibrarySame ==
  ASSUME NEW t, NEW u,
         \A i \in Named(t) : t[i].mdbref # NoRef => i \in Named(u) /\ u[i].mdbref = t[i].mdbref,
         \A i \in Named(u) : u[i].mdbref # NoRef => i \in Named(t) /\ u[i].mdbref = t[i].mdbref,
         \A i \in Named(t) : i \in Named(u) => Paths(u)[i] = Paths(t)[i]
  PROVE  Library(u) = Library(t)
<1> DEFINE S == {j \in Named(t) : t[j].mdbref # NoRef}
           R == {j \in Named(u) : u[j].mdbref # NoRef}
<1>1. R = S /\ \A i \in S : u[i].mdbref = t[i].mdbref /\ Paths(u)[i] = Paths(t)[i]
  OBVIOUS
<1>2. Library(t) = {<<FullName(t, i), t[i].mdbref>> : i \in S}
  BY DEF Library
<1>3. Library(u) = {<<FullName(u, i), u[i].mdbref>> : i \in R}
  BY DEF Library
<1>4. \A i : FullName(t, i) = Paths(t)[i] /\ FullName(u, i) = Paths(u)[i]
  BY FullNameIs
<1> HIDE DEF S, R
<1>5. \A i \in S : <<FullName(u, i), u[i].mdbref>> = <<FullName(t, i), t[i].mdbref>>
  BY <1>1, <1>4
<1>6. QED BY <1>1, <1>2, <1>3, <1>5

(* So it stays when only names without mdbref go, *)
LEMMA LibraryKept ==
  ASSUME NEW t, NEW u, Sane(t), Sane(u), Kept(t, u)
  PROVE  Library(u) = Library(t)
<1>1. \A i \in DOMAIN t : \/ u[i].name = t[i].name /\ u[i].parent = t[i].parent /\ u[i].mdbref = t[i].mdbref
                          \/ i \in Named(t) /\ i \notin Named(u) /\ t[i].mdbref = NoRef
  BY DEF Kept
<1>2. DOMAIN u = DOMAIN t
  BY DEF Kept
<1>3. \A i \in Named(u) : i \in Named(t) /\ u[i].name = t[i].name /\ u[i].parent = t[i].parent
                          /\ u[i].mdbref = t[i].mdbref
  BY <1>1, <1>2 DEF Named
<1>4. \A i \in Named(t) : t[i].mdbref # NoRef => i \in Named(u)
  BY <1>1, <1>2 DEF Named
<1>5. \A i \in Named(u) : Paths(t)[i] = Paths(u)[i]
  <2>1. Named(u) \subseteq Named(t) /\ \A i \in Named(u) : t[i].parent = u[i].parent /\ t[i].name = u[i].name
    BY <1>3
  <2>2. QED BY <2>1, LessPaths
<1>6. QED BY <1>3, <1>4, <1>5, LibrarySame

(* or come. *)
LEMMA LibraryGrew ==
  ASSUME NEW t, NEW u, Sane(t), Sane(u), Grew(t, u)
  PROVE  Library(u) = Library(t)
<1>1. \A i \in Named(t) : i \in Named(u) /\ Keeps(t[i], u[i])
  BY GrewNames
<1>2. \A i \in Named(t) : Paths(u)[i] = Paths(t)[i]
  BY GrewPaths
<1>3. \A i \in Named(u) : i \notin Named(t) => u[i].mdbref = NoRef
  <2> SUFFICES ASSUME NEW i \in Named(u), i \notin Named(t)
               PROVE  u[i].mdbref = NoRef
    OBVIOUS
  <2>1. i \in DOMAIN u /\ u[i].name # NoName
    BY DEF Named
  <2>2. Was(t, i).name = NoName
    BY HoleIs DEF Was, Named
  <2>3. ~Keeps(Was(t, i), u[i])
    BY <2>1, <2>2 DEF Keeps
  <2>4. QED BY <2>1, <2>3 DEF Grew
<1>4. \A i \in Named(t) : u[i].mdbref = t[i].mdbref
  BY <1>1 DEF Keeps
<1>5. QED BY <1>1, <1>2, <1>3, <1>4, LibrarySame

(* What the program begins with is what it loads, and what was written.    *)
LEMMA LibraryStarts ==
  ASSUME NEW l, LoadOK(l)
  PROVE  Library(StartOf(l)) = Library(l)
<1> DEFINE v == StartOf(l)
<1>1. /\ Sane(v)
      /\ Recounted(l, v) \/ (Named(l) = {} /\ Named(v) = {0} /\ v[0].mdbref = NoRef)
  BY StartIs
<1> HIDE DEF v
<1>2. CASE Named(l) = {} /\ Named(v) = {0} /\ v[0].mdbref = NoRef
  <2>1. \A i \in Named(v) : v[i].mdbref = NoRef
    BY <1>2
  <2>2. \A i \in Named(l) : FALSE
    BY <1>2
  <2>3. QED BY <2>1, <2>2, LibrarySame DEF v
<1>3. CASE Recounted(l, v) /\ ~(Named(l) = {} /\ Named(v) = {0} /\ v[0].mdbref = NoRef)
  <2>1. Kept(l, v)
    BY <1>3 DEF Recounted, Kept, Keeps
  <2>2. Named(l) # {}
    <3>1. 0 \in Named(v) /\ DOMAIN v = DOMAIN l /\ \A i \in DOMAIN l : v[i].name = l[i].name
      BY <1>1, <1>3 DEF Sane, Recounted, Keeps
    <3>2. 0 \in Named(l)
      BY <3>1 DEF Named
    <3>3. QED BY <3>2
  <2>3. Sane(l)
    BY <2>2 DEF LoadOK
  <2>4. QED BY <1>1, <2>1, <2>3, LibraryKept DEF v
<1>4. QED BY <1>1, <1>2, <1>3

(* A file that was written whole holds the library. *)
LEMMA LibraryWritten ==
  ASSUME NEW t, Sane(t), Refs(t, FALSE)
  PROVE  Library(Load(FileOf(t))) = Library(t)
<1> DEFINE l == Load(FileOf(t))
<1>1. Named(l) = Named(t) /\ Paths(l) = Paths(t) /\ \A i \in Named(t) : l[i].mdbref = t[i].mdbref
  BY LoadedIs
<1> HIDE DEF l
<1>2. QED BY <1>1, LibrarySame DEF l

-----------------------------------------------------------------------------
(* The handles that are held: by the scan, the playlist, the drive and the *)
(* lists of the calls of mlSubScan.                                        *)
One(b) == IF b THEN 1 ELSE 0
Frame == [node : Nat, toRead : SUBSET Seq(Names), ml : SUBSET Nat,
          left : SUBSET (Seq(Names) \X Nat)]
Holding(st, n) == {k \in DOMAIN st : n \in st[k].ml}
Held(st, n) == Cardinality(Holding(st, n))
Holders(tp, h, pl, n) == One(tp = n) + One(h = n) + One(n \in pl) + (IF n = 0 THEN 2 ELSE 0)
Wanted(tp, h, pl, st) == [n \in Int |-> Holders(tp, h, pl, n) + Held(st, n)]

(* The calls on a stack. *)
LEMMA DomainIs ==
  ASSUME NEW S, NEW st \in Seq(S)
  PROVE  Len(st) \in Nat /\ DOMAIN st = 1 .. Len(st) /\ IsFiniteSet(DOMAIN st)
         /\ \A k \in DOMAIN st : st[k] \in S
<1>1. Len(st) \in Nat /\ DOMAIN st = 1 .. Len(st) /\ \A k \in DOMAIN st : st[k] \in S
  OBVIOUS
<1>2. IsFiniteSet(1 .. Len(st))
  BY <1>1, FS_Interval
<1>3. QED BY <1>1, <1>2

(* The lists hold an entry a natural number of times. *)
LEMMA HeldIs ==
  ASSUME NEW st \in Seq(Frame), NEW n
  PROVE  /\ Held(st, n) \in Nat /\ IsFiniteSet(Holding(st, n))
         /\ \A k \in DOMAIN st : n \in st[k].ml => Held(st, n) > 0
         /\ (\A k \in DOMAIN st : n \notin st[k].ml) => Held(st, n) = 0
<1>1. IsFiniteSet(DOMAIN st) /\ Holding(st, n) \subseteq DOMAIN st
  BY DomainIs DEF Holding
<1>2. IsFiniteSet(Holding(st, n))
  BY <1>1, FS_Subset
<1>3. Held(st, n) \in Nat
  BY <1>2, FS_CardinalityType DEF Held
<1>4. Held(st, n) = 0 <=> Holding(st, n) = {}
  BY <1>2, FS_EmptySet DEF Held
<1>5. QED BY <1>2, <1>3, <1>4 DEF Holding

(* So do the others. *)
LEMMA HoldersIs ==
  ASSUME NEW tp, NEW h, NEW pl, NEW n
  PROVE  Holders(tp, h, pl, n) \in Nat
BY DEF Holders, One

(* What is wanted is an account of handles. *)
LEMMA WantedIs ==
  ASSUME NEW tp, NEW h, NEW pl, NEW st \in Seq(Frame)
  PROVE  LET w == Wanted(tp, h, pl, st) IN
         /\ w \in Handles /\ w[0] >= 1
         /\ \A n \in Int : w[n] = Holders(tp, h, pl, n) + Held(st, n)
         /\ \A n \in Int : n = tp \/ n = h \/ n \in pl \/ (\E k \in DOMAIN st : n \in st[k].ml)
                             => w[n] > 0
<1> DEFINE w == Wanted(tp, h, pl, st)
<1>1. \A n : Held(st, n) \in Nat /\ Holders(tp, h, pl, n) \in Nat
  BY HeldIs, HoldersIs
<1>2. \A n \in Int : w[n] = Holders(tp, h, pl, n) + Held(st, n) /\ w[n] \in Nat
  BY <1>1 DEF Wanted
<1>a. \A a, b : a \in Nat /\ b \in Nat /\ a >= 2 => a + b >= 1
  OBVIOUS
<1>b. \A a, b : a \in Nat /\ b \in Nat /\ (a > 0 \/ b > 0) => a + b > 0
  OBVIOUS
<1>3. w \in Handles
  BY <1>1, <1>2 DEF Wanted, Handles
<1>4. Holders(tp, h, pl, 0) >= 2
  BY DEF Holders, One
<1>5. w[0] >= 1
  <2>1. 0 \in Int
    OBVIOUS
  <2>2. w[0] = Holders(tp, h, pl, 0) + Held(st, 0)
    BY <1>2, <2>1
  <2> HIDE DEF w
  <2>3. QED BY <1>1, <1>a, <2>2, <1>4
<1>6. \A n : n = tp \/ n = h \/ n \in pl => Holders(tp, h, pl, n) > 0
  BY DEF Holders, One
<1>7. \A n : (\E k \in DOMAIN st : n \in st[k].ml) => Held(st, n) > 0
  BY HeldIs
<1> HIDE DEF w
<1>8. \A n \in Int : n = tp \/ n = h \/ n \in pl \/ (\E k \in DOMAIN st : n \in st[k].ml)
                             => w[n] > 0
  <2> SUFFICES ASSUME NEW n \in Int,
                      n = tp \/ n = h \/ n \in pl \/ (\E k \in DOMAIN st : n \in st[k].ml)
               PROVE  w[n] > 0
    OBVIOUS
  <2>1. CASE n = tp \/ n = h \/ n \in pl
    <3>1. Holders(tp, h, pl, n) > 0
      BY <2>1, <1>6
    <3>2. QED BY <3>1, <1>1, <1>2, <1>b
  <2>2. CASE \E k \in DOMAIN st : n \in st[k].ml
    <3>1. Held(st, n) > 0
      BY <2>2, <1>7
    <3>2. QED BY <3>1, <1>1, <1>2, <1>b
  <2>3. QED BY <2>1, <2>2
<1>9. QED BY <1>2, <1>3, <1>5, <1>8 DEF w
-----------------------------------------------------------------------------
(* Equal lists hold the same, *)
LEMMA HeldSame ==
  ASSUME NEW st, NEW u, DOMAIN u = DOMAIN st, \A k \in DOMAIN st : u[k].ml = st[k].ml, NEW n
  PROVE  Held(u, n) = Held(st, n)
<1>1. Holding(u, n) = Holding(st, n)
  BY DEF Holding
<1>2. QED BY <1>1 DEF Held

(* a longer list one more, *)
LEMMA HeldMore ==
  ASSUME NEW st \in Seq(Frame), NEW u \in Seq(Frame), Len(u) = Len(st), Len(st) >= 1,
         \A k \in DOMAIN st : k # Len(st) => u[k].ml = st[k].ml,
         NEW m, m \notin st[Len(st)].ml, u[Len(st)].ml = st[Len(st)].ml \cup {m}, NEW n
  PROVE  Held(u, n) = Held(st, n) + One(n = m)
<1>1. DOMAIN u = DOMAIN st /\ Len(st) \in DOMAIN st
  BY DomainIs
<1>2. CASE n = m
  <2>1. Len(st) \notin Holding(st, n) /\ Holding(u, n) = Holding(st, n) \cup {Len(st)}
    BY <1>1, <1>2 DEF Holding
  <2>2. Held(u, n) = Held(st, n) + 1
    BY <2>1, HeldIs, FS_AddElement, ZenonT(60) DEF Held
  <2>3. QED BY <2>2, <1>2 DEF One
<1>3. CASE n # m
  <2>1. Holding(u, n) = Holding(st, n)
    BY <1>1, <1>3 DEF Holding
  <2>2. Held(st, n) \in Nat
    BY HeldIs
  <2>3. QED BY <2>1, <2>2, <1>3 DEF Held, One
<1>4. QED BY <1>2, <1>3

(* and a new call what is in its list. *)
LEMMA HeldTop ==
  ASSUME NEW st \in Seq(Frame), NEW u \in Seq(Frame), Len(u) = Len(st) + 1,
         \A k \in DOMAIN st : u[k].ml = st[k].ml, NEW n
  PROVE  Held(u, n) = Held(st, n) + One(n \in u[Len(u)].ml)
<1>1. DOMAIN st = 1 .. Len(st) /\ DOMAIN u = 1 .. Len(u) /\ Len(st) \in Nat
  BY DomainIs
<1>2. DOMAIN u = DOMAIN st \cup {Len(u)} /\ Len(u) \notin DOMAIN st
  BY <1>1
<1>3. CASE n \in u[Len(u)].ml
  <2>1. Len(u) \notin Holding(st, n) /\ Holding(u, n) = Holding(st, n) \cup {Len(u)}
    BY <1>2, <1>3 DEF Holding
  <2>2. Held(u, n) = Held(st, n) + 1
    BY <2>1, HeldIs, FS_AddElement, ZenonT(60) DEF Held
  <2>3. QED BY <2>2, <1>3 DEF One
<1>4. CASE n \notin u[Len(u)].ml
  <2>1. Holding(u, n) = Holding(st, n)
    BY <1>2, <1>4 DEF Holding
  <2>2. Held(st, n) \in Nat
    BY HeldIs
  <2>3. QED BY <2>1, <2>2, <1>4 DEF Held, One
<1>5. QED BY <1>3, <1>4

(* The stack without its top. *)
LEMMA FrontIs ==
  ASSUME NEW S, NEW st \in Seq(S), st # <<>>
  PROVE  /\ Front(st) \in Seq(S) /\ Len(st) = Len(Front(st)) + 1 /\ Len(st) \in Nat
         /\ Len(st) >= 1 /\ Len(st) \in DOMAIN st /\ st[Len(st)] \in S
         /\ DOMAIN Front(st) \subseteq DOMAIN st /\ \A k \in DOMAIN Front(st) : Front(st)[k] = st[k]
         /\ DOMAIN st = DOMAIN Front(st) \cup {Len(st)}
<1>1. Len(st) \in Nat /\ Len(st) >= 1 /\ DOMAIN st = 1 .. Len(st) /\ st[Len(st)] \in S
  OBVIOUS
<1>2. /\ Front(st) \in Seq(S) /\ Len(Front(st)) = Len(st) - 1
      /\ \A k \in 1 .. Len(st) - 1 : Front(st)[k] = st[k]
  BY <1>1 DEF Front
<1>3. DOMAIN Front(st) = 1 .. Len(st) - 1
  BY <1>2, DomainIs
<1> HIDE DEF Front
<1>4. QED BY <1>1, <1>2, <1>3

(* The stack with another top. *)
LEMMA PutTopIs ==
  ASSUME NEW S, NEW st \in Seq(S), st # <<>>, NEW f \in S, NEW u, u = [st EXCEPT ![Len(st)] = f]
  PROVE  /\ u \in Seq(S) /\ Len(u) = Len(st) /\ DOMAIN u = DOMAIN st /\ u[Len(st)] = f
         /\ \A k \in DOMAIN st : k # Len(st) => u[k] = st[k]
OBVIOUS

-----------------------------------------------------------------------------
(* What the calls of mlSubScan have still to look at lies below the        *)
(* directory scanned, no two of these paths overlap, nothing below them is *)
(* tagged yet, and the library has no file there that is on the disk.      *)
Todo(f) == f.toRead \cup {e[1] : e \in f.left}
Inner(t, tp, q) == Pre(Short(t, tp), q) /\ Len(Short(t, tp)) < Len(q)
Fresh(t, fs, q) == \A n \in Named(t) : Pre(q, Short(t, n)) =>
  /\ t[n].newmdbref = NoRef
  /\ t[n].mdbref # NoRef => \A f \in fs : f[1] # Short(t, n)
FrameOK(t, tp, fs, f) ==
  /\ \A e \in f.left : e[2] \in f.ml /\ Short(t, e[2]) = e[1]
  /\ \A n \in f.ml : Short(t, n) \notin f.toRead
  /\ \A q \in Todo(f) : Inner(t, tp, q) /\ Fresh(t, fs, q)
Apart(st) == \A j \in DOMAIN st : \A k \in DOMAIN st : \A q \in Todo(st[j]) : \A r \in Todo(st[k]) :
               Pre(q, r) => j = k /\ q = r
WalkOK(t, tp, fs, st) == (\A k \in DOMAIN st : FrameOK(t, tp, fs, st[k])) /\ Apart(st)
TagsIn(t, tp) == \A n \in Named(t) : t[n].newmdbref # NoRef => Inner(t, tp, Short(t, n))
Alone(st, p) == \A k \in DOMAIN st : \A r \in Todo(st[k]) : ~Pre(p, r) /\ ~Pre(r, p)

(* What a call of mlSubScan has. *)
LEMMA FrameIs ==
  ASSUME NEW f \in Frame
  PROVE  /\ f.toRead \subseteq Seq(Names) /\ f.ml \subseteq Nat
         /\ \A e \in f.left : e[1] \in Seq(Names) /\ e[2] \in Nat /\ e = <<e[1], e[2]>>
         /\ Todo(f) \subseteq Seq(Names) /\ Todo(f) \subseteq Seq(AllNames)
<1>1. /\ f.toRead \subseteq Seq(Names) /\ f.ml \subseteq Nat
      /\ \A e \in f.left : e[1] \in Seq(Names) /\ e[2] \in Nat /\ e = <<e[1], e[2]>>
  BY DEF Frame
<1>2. Todo(f) \subseteq Seq(Names)
  BY <1>1 DEF Todo
<1>3. QED BY <1>1, <1>2, MoreNames

(* The walk goes on when the table changes only elsewhere. *)
LEMMA WalkFollows ==
  ASSUME NEW t, NEW u, NEW tp, NEW fs, NEW st, WalkOK(t, tp, fs, st),
         \A n \in Named(u) :
           \/ u[n].mdbref = NoRef /\ u[n].newmdbref = NoRef
           \/ /\ n \in Named(t) /\ Short(u, n) = Short(t, n)
              /\ u[n].mdbref = t[n].mdbref /\ u[n].newmdbref = t[n].newmdbref,
         Short(u, tp) = Short(t, tp),
         \A k \in DOMAIN st : \A n \in st[k].ml : Short(u, n) = Short(t, n)
  PROVE  WalkOK(u, tp, fs, st)
<1>1. \A q : Inner(t, tp, q) => Inner(u, tp, q)
  BY DEF Inner
<1>2. \A q : Fresh(t, fs, q) => Fresh(u, fs, q)
  BY Zenon DEF Fresh
<1>3. ASSUME NEW k \in DOMAIN st
      PROVE  FrameOK(u, tp, fs, st[k])
  <2>1. FrameOK(t, tp, fs, st[k])
    BY DEF WalkOK
  <2>2. \A n \in st[k].ml : Short(u, n) = Short(t, n)
    OBVIOUS
  <2>3. \A e \in st[k].left : e[2] \in st[k].ml /\ Short(u, e[2]) = e[1]
    BY <2>1, <2>2, Zenon DEF FrameOK
  <2>4. \A n \in st[k].ml : Short(u, n) \notin st[k].toRead
    BY <2>1, <2>2, Zenon DEF FrameOK
  <2>5. \A q \in Todo(st[k]) : Inner(u, tp, q) /\ Fresh(u, fs, q)
    BY <1>1, <1>2, <2>1, Zenon DEF FrameOK
  <2>6. QED BY <2>3, <2>4, <2>5, Zenon DEF FrameOK
<1>4. QED BY <1>3, Zenon DEF WalkOK

(* dosReadDirChild *)
LEMMA ListedIs ==
  ASSUME NEW f \in Frame, NEW p \in f.toRead, NEW m \in Nat
  PROVE  LET g == Listed(f, p, m) IN
         /\ g \in Frame /\ g.toRead = f.toRead \ {p} /\ g.ml = f.ml \cup {m}
         /\ g.left = f.left \cup {<<p, m>>} /\ g.node = f.node /\ Todo(g) = Todo(f)
<1> DEFINE g == Listed(f, p, m)
<1>1. /\ g.toRead = f.toRead \ {p} /\ g.ml = f.ml \cup {m} /\ g.left = f.left \cup {<<p, m>>}
      /\ g.node = f.node
  BY DEF Listed, Frame
<1>2. g \in Frame
  <2> DEFINE a == f.toRead \ {p}
             b == f.ml \cup {m}
             c == f.left \cup {<<p, m>>}
  <2>1. a \in SUBSET Seq(Names) /\ p \in Seq(Names)
    BY DEF Frame
  <2>2. b \in SUBSET Nat
    BY DEF Frame
  <2>3. c \in SUBSET (Seq(Names) \X Nat)
    BY <2>1 DEF Frame
  <2>4. g = [f EXCEPT !.toRead = a, !.ml = b, !.left = c]
    BY DEF Listed
  <2> HIDE DEF a, b, c, g
  <2>5. QED BY <2>1, <2>2, <2>3, <2>4 DEF Frame
<1> HIDE DEF g
<1>3. \A q : q \in {e[1] : e \in g.left} <=> q = p \/ q \in {e[1] : e \in f.left}
  <2>1. <<p, m>>[1] = p
    OBVIOUS
  <2>2. \A e : e \in g.left <=> e = <<p, m>> \/ e \in f.left
    BY <1>1
  <2>3. QED BY <2>1, <2>2, Zenon
<1>4. \A q : q \in Todo(g) <=> q \in Todo(f)
  BY <1>1, <1>3 DEF Todo
<1>5. Todo(g) = Todo(f)
  BY <1>4
<1>6. QED BY <1>1, <1>2, <1>5 DEF g

(* So the walk goes on. *)
LEMMA WalkList ==
  ASSUME NEW t, NEW tp, NEW fs, NEW st \in Seq(Frame), st # <<>>, WalkOK(t, tp, fs, st),
         NEW p \in st[Len(st)].toRead, NEW m \in Nat, Short(t, m) = p,
         NEW u \in Seq(Frame), Len(u) = Len(st), DOMAIN u = DOMAIN st,
         u[Len(st)] = Listed(st[Len(st)], p, m),
         \A k \in DOMAIN st : k # Len(st) => u[k] = st[k]
  PROVE  WalkOK(t, tp, fs, u)
<1> DEFINE f == st[Len(st)]
           g == Listed(f, p, m)
<1>1. Len(st) \in DOMAIN st /\ f \in Frame
  BY FrontIs
<1>2. /\ g.toRead = f.toRead \ {p} /\ g.ml = f.ml \cup {m} /\ g.left = f.left \cup {<<p, m>>}
      /\ Todo(g) = Todo(f)
  BY <1>1, ListedIs
<1>3. FrameOK(t, tp, fs, f)
  BY <1>1 DEF WalkOK
<1>4. u[Len(st)] = g
  OBVIOUS
<1> HIDE DEF f, g
<1>5. FrameOK(t, tp, fs, g)
  <2>1. \A e \in g.left : e[2] \in g.ml /\ Short(t, e[2]) = e[1]
    BY <1>2, <1>3 DEF FrameOK
  <2>2. \A n \in g.ml : Short(t, n) \notin g.toRead
    BY <1>2, <1>3 DEF FrameOK
  <2>3. \A q \in Todo(g) : Inner(t, tp, q) /\ Fresh(t, fs, q)
    BY <1>2, <1>3, Zenon DEF FrameOK
  <2>4. QED BY <2>1, <2>2, <2>3, Zenon DEF FrameOK
<1>6. \A k \in DOMAIN st : Todo(u[k]) = Todo(st[k])
  BY <1>2, <1>4 DEF f
<1>7. Apart(u)
  BY <1>6, Zenon DEF WalkOK, Apart
<1>8. \A k \in DOMAIN u : FrameOK(t, tp, fs, u[k])
  BY <1>4, <1>5, Zenon DEF WalkOK
<1>9. QED BY <1>7, <1>8, Zenon DEF WalkOK

(* A call that has less to look at. *)
Part(f, g) == Todo(g) \subseteq Todo(f) /\ g.left \subseteq f.left /\ g.ml = f.ml
              /\ g.toRead = f.toRead

(* An entry of the list has been dealt with.                               *)
Drop(f, e) == [f EXCEPT !.left = @ \ {e}]

(* What the call has to look at then. *)
LEMMA DropIs ==
  ASSUME NEW f \in Frame, NEW e \in f.left
  PROVE  LET g == Drop(f, e) IN
         /\ g \in Frame /\ Part(f, g) /\ g.node = f.node
         /\ \A q \in Todo(g) : q \in f.toRead \/ \E d \in f.left : d # e /\ q = d[1]
<1> DEFINE g == Drop(f, e)
<1>1. /\ g.toRead = f.toRead /\ g.ml = f.ml /\ g.left = f.left \ {e} /\ g.node = f.node
  BY DEF Drop, Frame
<1>2. g \in Frame
  BY DEF Drop, Frame
<1> HIDE DEF g
<1>3. Part(f, g)
  BY <1>1 DEF Part, Todo
<1>4. \A q \in Todo(g) : q \in f.toRead \/ \E d \in f.left : d # e /\ q = d[1]
  BY <1>1 DEF Todo
<1>5. QED BY <1>1, <1>2, <1>3, <1>4 DEF g

(* The walk without the entry; nothing else to look at overlaps with it.   *)
LEMMA WalkDrop ==
  ASSUME NEW t, Sane(t), NEW tp, NEW fs, NEW st \in Seq(Frame), st # <<>>, WalkOK(t, tp, fs, st),
         \A k \in DOMAIN st : st[k].ml \subseteq Named(t),
         NEW e \in st[Len(st)].left,
         NEW u \in Seq(Frame), Len(u) = Len(st), DOMAIN u = DOMAIN st,
         u[Len(st)] = Drop(st[Len(st)], e),
         \A k \in DOMAIN st : k # Len(st) => u[k] = st[k]
  PROVE  /\ WalkOK(t, tp, fs, u) /\ Alone(u, e[1]) /\ Inner(t, tp, e[1]) /\ Fresh(t, fs, e[1])
         /\ e[1] \in Seq(Names) /\ e[2] \in Named(t) /\ Short(t, e[2]) = e[1]
<1> DEFINE f == st[Len(st)]
           g == Drop(f, e)
<1>1. Len(st) \in DOMAIN st /\ f \in Frame
  BY FrontIs
<1>2. /\ Part(f, g)
      /\ \A q \in Todo(g) : q \in f.toRead \/ \E d \in f.left : d # e /\ q = d[1]
  BY <1>1, DropIs
<1>3. FrameOK(t, tp, fs, f) /\ f.ml \subseteq Named(t) /\ e \in f.left
  BY <1>1 DEF WalkOK
<1>4. u[Len(st)] = g
  OBVIOUS
<1>a. /\ f.ml \subseteq Nat
      /\ \A d \in f.left : d[1] \in Seq(Names) /\ d[2] \in Nat /\ d = <<d[1], d[2]>>
  BY <1>1, FrameIs
<1> HIDE DEF f, g
<1>5. FrameOK(t, tp, fs, g)
  BY <1>2, <1>3, Zenon DEF FrameOK, Part
<1>6. \A k \in DOMAIN st : Todo(u[k]) \subseteq Todo(st[k])
  BY <1>2, <1>4 DEF f, Part
<1>7. Apart(u)
  BY <1>6, Zenon DEF WalkOK, Apart
<1>8. \A k \in DOMAIN u : FrameOK(t, tp, fs, u[k])
  BY <1>4, <1>5, Zenon DEF WalkOK
<1>9. e[1] \in Todo(f)
  BY <1>3 DEF Todo
<1>10. e[1] \notin Todo(g)
  <2>1. e[2] \in f.ml /\ Short(t, e[2]) = e[1]
    BY <1>3 DEF FrameOK
  <2>2. e[1] \notin f.toRead
    BY <2>1, <1>3 DEF FrameOK
  <2>3. ASSUME NEW d \in f.left, e[1] = d[1]
        PROVE  d = e
    <3>1. d[2] \in f.ml /\ Short(t, d[2]) = d[1]
      BY <1>3 DEF FrameOK
    <3>2. d[2] = e[2]
      BY <3>1, <2>1, <2>3, <1>3, ShortOnce
    <3>3. QED BY <3>2, <2>3, <1>a, <1>3
  <2>4. QED BY <1>2, <2>2, <2>3
<1>11. Alone(u, e[1])
  <2> SUFFICES ASSUME NEW k \in DOMAIN u, NEW r \in Todo(u[k])
               PROVE  ~Pre(e[1], r) /\ ~Pre(r, e[1])
    BY DEF Alone
  <2>1. r \in Todo(st[k]) /\ k \in DOMAIN st
    BY <1>6
  <2>2. e[1] \in Todo(st[Len(st)])
    BY <1>9 DEF f
  <2>3. Pre(e[1], r) \/ Pre(r, e[1]) => k = Len(st) /\ r = e[1]
    BY <2>1, <2>2, <1>1 DEF WalkOK, Apart
  <2>4. k = Len(st) => r # e[1]
    BY <1>4, <1>10
  <2>5. QED BY <2>3, <2>4
<1>12. Inner(t, tp, e[1]) /\ Fresh(t, fs, e[1])
  BY <1>3, <1>9 DEF FrameOK
<1>13. e[1] \in Seq(Names) /\ e[2] \in Named(t) /\ Short(t, e[2]) = e[1]
  BY <1>3, <1>a DEF FrameOK
<1>14. WalkOK(t, tp, fs, u)
  BY <1>7, <1>8, Zenon DEF WalkOK
<1>15. QED BY <1>11, <1>12, <1>13, <1>14

-----------------------------------------------------------------------------
(* What lies below what lies below the directory scanned lies there too.   *)
LEMMA InnerBelow ==
  ASSUME NEW t, NEW tp, Short(t, tp) \in Seq(AllNames), NEW p \in Seq(AllNames),
         NEW q \in Seq(AllNames), Pre(Short(t, tp), p), Pre(p, q), Len(p) < Len(q)
  PROVE  Inner(t, tp, q)
<1>1. Pre(Short(t, tp), q)
  BY PreTrans
<1>2. Len(Short(t, tp)) <= Len(p) /\ Len(Short(t, tp)) \in Nat /\ Len(p) \in Nat /\ Len(q) \in Nat
  BY DEF Pre
<1>3. Len(Short(t, tp)) < Len(q)
  BY <1>2
<1>4. QED BY <1>1, <1>3 DEF Inner

(* Nothing is tagged below a path that is below an untouched one.          *)
LEMMA FreshBelow ==
  ASSUME NEW t, Sane(t), NEW fs, NEW p \in Seq(AllNames), NEW q \in Seq(AllNames), Fresh(t, fs, p),
         Pre(p, q)
  PROVE  Fresh(t, fs, q)
<1>1. \A n \in Named(t) : Pre(q, Short(t, n)) => Pre(p, Short(t, n))
  BY PreTrans, ShortIs
<1>2. QED BY <1>1, Zenon DEF Fresh

(* A call more, for a directory apart from the rest. *)
LEMMA WalkCall ==
  ASSUME NEW t, NEW tp, NEW fs, NEW st \in Seq(Frame), WalkOK(t, tp, fs, st),
         NEW p \in Seq(AllNames), Alone(st, p),
         NEW u \in Seq(Frame), Len(u) = Len(st) + 1, \A k \in DOMAIN st : u[k] = st[k],
         u[Len(u)].ml = {}, u[Len(u)].left = {},
         \A q \in u[Len(u)].toRead :
           Pre(p, q) /\ Len(q) = Len(p) + 1 /\ Inner(t, tp, q) /\ Fresh(t, fs, q)
  PROVE  WalkOK(t, tp, fs, u)
<1> DEFINE g == u[Len(u)]
<1>1. DOMAIN st = 1 .. Len(st) /\ DOMAIN u = 1 .. Len(u) /\ Len(st) \in Nat
  BY DomainIs
<1>2. DOMAIN u = DOMAIN st \cup {Len(u)} /\ Len(u) \notin DOMAIN st
  BY <1>1
<1>3. Todo(g) = g.toRead
  BY DEF Todo
<1>4. \A k \in DOMAIN u : Todo(u[k]) \subseteq Seq(AllNames)
  BY DomainIs, FrameIs
<1>5. FrameOK(t, tp, fs, g)
  BY <1>3 DEF FrameOK
<1>6. \A k \in DOMAIN u : FrameOK(t, tp, fs, u[k])
  BY <1>2, <1>5 DEF WalkOK
<1>7. ASSUME NEW j \in DOMAIN u, NEW k \in DOMAIN u, NEW q \in Todo(u[j]), NEW r \in Todo(u[k]),
             Pre(q, r)
      PROVE  j = k /\ q = r
  <2>1. q \in Seq(AllNames) /\ r \in Seq(AllNames)
    BY <1>4
  <2>2. CASE j \in DOMAIN st /\ k \in DOMAIN st
    <3>1. u[j] = st[j] /\ u[k] = st[k]
      BY <2>2
    <3>2. QED BY <3>1, <2>2, <1>7, Zenon DEF WalkOK, Apart
  <2>3. CASE j \in DOMAIN st /\ k = Len(u)
    <3>1. q \in Todo(st[j]) /\ r \in g.toRead
      BY <2>3, <1>3
    <3>2. Pre(p, r) /\ Len(r) = Len(p) + 1
      BY <3>1
    <3>3. Pre(q, p) \/ q = r
      BY <3>2, <2>1, <1>7, PreStep
    <3>4. Pre(q, p) \/ Pre(p, q)
      BY <3>2, <3>3
    <3>5. QED BY <3>1, <3>4, <2>3 DEF Alone
  <2>4. CASE j = Len(u) /\ k \in DOMAIN st
    <3>1. r \in Todo(st[k]) /\ q \in g.toRead
      BY <2>4, <1>3
    <3>2. Pre(p, q)
      BY <3>1
    <3>3. Pre(p, r)
      BY <3>2, <2>1, <1>7, PreTrans
    <3>4. QED BY <3>1, <3>3, <2>4 DEF Alone
  <2>5. CASE j = Len(u) /\ k = Len(u)
    <3>1. Len(q) = Len(p) + 1 /\ Len(r) = Len(p) + 1
      BY <2>5, <1>3
    <3>2. q = r
      BY <3>1, <2>1, <1>7, PreSame
    <3>3. QED BY <3>2, <2>5
  <2>6. QED BY <1>2, <2>2, <2>3, <2>4, <2>5
<1>8. Apart(u)
  BY <1>7 DEF Apart
<1>9. QED BY <1>6, <1>8 DEF WalkOK

(* A call less. *)
LEMMA WalkFront ==
  ASSUME NEW t, NEW tp, NEW fs, NEW st, WalkOK(t, tp, fs, st), NEW u, DOMAIN u \subseteq DOMAIN st,
         \A k \in DOMAIN u : u[k] = st[k]
  PROVE  WalkOK(t, tp, fs, u)
<1>1. \A k \in DOMAIN u : FrameOK(t, tp, fs, u[k])
  BY Zenon DEF WalkOK
<1>2. Apart(u)
  <2> SUFFICES ASSUME NEW j \in DOMAIN u, NEW k \in DOMAIN u, NEW q \in Todo(u[j]),
                      NEW r \in Todo(u[k]), Pre(q, r)
               PROVE  j = k /\ q = r
    BY DEF Apart
  <2>1. u[j] = st[j] /\ u[k] = st[k] /\ j \in DOMAIN st /\ k \in DOMAIN st
    OBVIOUS
  <2>2. QED BY <2>1, Zenon DEF WalkOK, Apart
<1>3. QED BY <1>1, <1>2 DEF WalkOK

(* A tag on an entry that is apart from the rest. *)
LEMMA WalkTag ==
  ASSUME NEW t, Sane(t), NEW u, NEW tp, NEW fs, NEW st, WalkOK(t, tp, fs, st),
         Paths(u) = Paths(t), Named(u) = Named(t), NEW m \in Named(t),
         \A i \in Named(t) : i # m => u[i] = t[i], Alone(st, Short(t, m))
  PROVE  WalkOK(u, tp, fs, st)
<1>1. \A n : Short(u, n) = Short(t, n)
  BY DEF Short
<1>2. ASSUME NEW k \in DOMAIN st
      PROVE  FrameOK(u, tp, fs, st[k])
  <2>1. FrameOK(t, tp, fs, st[k])
    BY DEF WalkOK
  <2>2. \A e \in st[k].left : e[2] \in st[k].ml /\ Short(u, e[2]) = e[1]
    BY <2>1, <1>1, Zenon DEF FrameOK
  <2>3. \A n \in st[k].ml : Short(u, n) \notin st[k].toRead
    BY <2>1, <1>1, Zenon DEF FrameOK
  <2>4. ASSUME NEW q \in Todo(st[k])
        PROVE  Inner(u, tp, q) /\ Fresh(u, fs, q)
    <3>1. Inner(t, tp, q) /\ Fresh(t, fs, q)
      BY <2>1, Zenon DEF FrameOK
    <3>2. ~Pre(q, Short(t, m))
      BY DEF Alone
    <3>3. \A n \in Named(u) : Pre(q, Short(u, n)) => n \in Named(t) /\ u[n] = t[n]
      BY <1>1, <3>2
    <3>4. Fresh(u, fs, q)
      BY <1>1, <3>1, <3>3, Zenon DEF Fresh
    <3>5. QED BY <3>1, <3>4, <1>1, Zenon DEF Inner
  <2>5. QED BY <2>2, <2>3, <2>4, Zenon DEF FrameOK
<1>3. QED BY <1>2, Zenon DEF WalkOK

-----------------------------------------------------------------------------
(* The calls of _dirdbTagRemoveUntaggedAndSubmit will come to every tag.   *)
SubmitCall == [node : Nat, next : Nat]
Via(t, c, n) == \E a \in Named(t) :
                  t[a].parent = c.node /\ a >= c.next /\ Pre(Short(t, a), Short(t, n))
Reached(t, cs) == \A n \in Named(t) : t[n].newmdbref # NoRef => \E k \in DOMAIN cs : Via(t, cs[k], n)

(* While no entry has an mdbref and a tag, the submit looks below every    *)
(* entry.                                                                  *)
LEMMA LooksBelowIs ==
  ASSUME NEW t, Refs(t, TRUE), NEW i \in DOMAIN t
  PROVE  LooksBelow(t, i)
<1>1. RefOK(t[i], TRUE)
  BY DEF Refs
<1>2. t[i].name = NoName => t[i].newmdbref = NoRef
  BY <1>1, Zenon DEF RefOK
<1>3. t[i].name # NoName => NoRef \in {t[i].mdbref, t[i].newmdbref}
  BY <1>1, Zenon DEF RefOK
<1>4. QED BY <1>2, <1>3 DEF LooksBelow

(* A call for an entry comes to everything below it. *)
LEMMA ReachDown ==
  ASSUME NEW t, Sane(t), NEW i \in Named(t), NEW n \in Named(t), n # i, Pre(Short(t, i), Short(t, n)),
         NEW c, c.node = i, c.next = 0
  PROVE  Via(t, c, n)
<1>1. PICK a \in Named(t) : t[a].parent = i /\ Pre(Short(t, a), Short(t, n))
  BY DownTo
<1>2. a \in Nat
  BY InTable DEF Sane
<1>3. a >= 0
  BY <1>2
<1>4. QED BY <1>1, <1>3 DEF Via

(* The first call comes to every tag. *)
LEMMA ReachStart ==
  ASSUME NEW t, Sane(t), NEW tp \in Named(t), TagsIn(t, tp), NEW cs, 1 \in DOMAIN cs,
         cs[1].node = tp, cs[1].next = 0
  PROVE  Reached(t, cs)
<1> SUFFICES ASSUME NEW n \in Named(t), t[n].newmdbref # NoRef
             PROVE  \E k \in DOMAIN cs : Via(t, cs[k], n)
  BY DEF Reached
<1>1. Pre(Short(t, tp), Short(t, n)) /\ Len(Short(t, tp)) < Len(Short(t, n))
  BY DEF TagsIn, Inner
<1>2. Short(t, tp) \in Seq(AllNames)
  BY ShortIs
<1>3. n # tp
  BY <1>1, <1>2
<1>4. QED BY <1>1, <1>3, ReachDown

(* The next entry of the last call, the calls with one for it, and the     *)
(* table after it.                                                         *)
NextEntry(t, cs, i) ==
  /\ i \in DOMAIN t /\ i \in Nat /\ i # 0
  /\ t[i].parent = cs[Len(cs)].node /\ i >= cs[Len(cs)].next
  /\ \A j \in DOMAIN t : t[j].parent = cs[Len(cs)].node /\ j >= cs[Len(cs)].next => i <= j

Deeper(cs, i, ds) ==
  /\ ds \in Seq(SubmitCall) /\ ds # <<>> /\ DOMAIN ds = 1 .. Len(cs) + 1 /\ Len(cs) \in DOMAIN cs
  /\ \A k \in DOMAIN cs : ds[k].node = cs[k].node /\ (k # Len(cs) => ds[k].next = cs[k].next)
  /\ ds[Len(cs)].next = i + 1 /\ ds[Len(cs) + 1].node = i /\ ds[Len(cs) + 1].next = 0

Entered(t, i, u) ==
  \/ i \in Holes(t) /\ u = t
  \/ /\ i \in Named(t) /\ Shrunk(Moved(t, i), u, TRUE)
     /\ Sane(Moved(t, i)) /\ Paths(Moved(t, i)) = Paths(t) /\ Named(Moved(t, i)) = Named(t)

(* When an entry is done and its call begun, the calls still come to every *)
(* tag that is left.                                                       *)
LEMMA ReachEntry ==
  ASSUME NEW t, Sane(t), NEW cs \in Seq(SubmitCall), cs # <<>>, Reached(t, cs),
         NEW i, NextEntry(t, cs, i), NEW u, Sane(u), Entered(t, i, u), NEW ds, Deeper(cs, i, ds)
  PROVE  Reached(u, ds)
<1> USE DEF NextEntry, Entered, Deeper
<1> SUFFICES ASSUME NEW n \in Named(u), u[n].newmdbref # NoRef
             PROVE  \E k \in DOMAIN ds : Via(u, ds[k], n)
  BY DEF Reached
<1> DEFINE v == IF i \in Holes(t) THEN t ELSE Moved(t, i)
           top == Len(cs)
<1>0. /\ top \in Nat /\ top \in DOMAIN cs /\ DOMAIN cs = 1 .. top /\ top + 1 \in DOMAIN ds
      /\ \A k \in DOMAIN cs : k \in DOMAIN ds
  BY DomainIs
<1>1. /\ Sane(v) /\ Shrunk(v, u, TRUE) /\ Named(v) = Named(t) /\ Paths(v) = Paths(t)
  <2>1. CASE i \in Holes(t)
    <3>1. u = t /\ v = t
      BY <2>1 DEF Holes
    <3>2. QED BY <3>1, ShrunkSelf
  <2>2. CASE i \notin Holes(t)
    BY <2>2
  <2>3. QED BY <2>1, <2>2
<1>2. \A m : Short(v, m) = Short(t, m)
  BY <1>1 DEF Short
<1>3. Table(t) /\ DOMAIN t \subseteq Nat /\ Named(t) \subseteq DOMAIN t
  BY InTable DEF Sane
<1>4. \A m \in DOMAIN t : v[m].parent = t[m].parent /\ (m # i => v[m] = t[m])
                          /\ (i \in Named(t) /\ m = i => v[m].newmdbref = NoRef)
  <2>1. CASE i \in Holes(t)
    BY <2>1 DEF Holes
  <2>2. CASE i \notin Holes(t)
    BY <2>2, <1>3, MovedIs, SMTT(40)
  <2>3. QED BY <2>1, <2>2
<1> HIDE DEF v
<1>5. \A m \in Named(u) : m \in Named(v) /\ Short(u, m) = Short(v, m) /\ Keeps(v[m], u[m])
  BY <1>1, ShrunkShort
<1>6. n \in Named(t) /\ Short(u, n) = Short(t, n) /\ v[n].newmdbref # NoRef /\ n # i
      /\ t[n].newmdbref # NoRef
  <2>1. n \in Named(v) /\ Short(u, n) = Short(v, n) /\ Keeps(v[n], u[n])
    BY <1>5
  <2>2. n \in Named(t) /\ n \in DOMAIN t /\ v[n].newmdbref # NoRef
    BY <2>1, <1>1, <1>3 DEF Keeps
  <2>3. n # i
    BY <2>2, <1>4
  <2>4. QED BY <2>1, <2>2, <2>3, <1>2, <1>4
<1>7. PICK k \in DOMAIN cs : Via(t, cs[k], n)
  BY <1>6 DEF Reached
<1>8. PICK a \in Named(t) : t[a].parent = cs[k].node /\ a >= cs[k].next
                            /\ Pre(Short(t, a), Short(t, n))
  BY <1>7 DEF Via
<1>9. /\ a \in Named(u) /\ u[a].parent = t[a].parent /\ Short(u, a) = Short(t, a)
  <2>1. a \in Named(v) /\ Pre(Short(v, a), Short(v, n))
    BY <1>8, <1>1, <1>2
  <2>2. a \in Named(u)
    BY <2>1, <1>1, AboveStays
  <2>3. Short(u, a) = Short(v, a) /\ Keeps(v[a], u[a])
    BY <2>2, <1>5
  <2>4. QED BY <2>2, <2>3, <1>2, <1>3, <1>4 DEF Keeps
<1>10. CASE a = i
  <2>1. i \in Named(u) /\ Pre(Short(u, i), Short(u, n))
    BY <1>10, <1>9, <1>8, <1>6
  <2>2. Via(u, ds[top + 1], n)
    BY <2>1, <1>6, ReachDown
  <2>3. QED BY <2>2, <1>0
<1>11. CASE a # i
  <2>1. a >= ds[k].next
    <3>1. CASE k # top
      BY <3>1, <1>8
    <3>2. CASE k = top
      <4>1. i <= a
        BY <3>2, <1>8, <1>3
      <4>2. a \in Nat /\ i \in Nat
        BY <1>3
      <4>3. a >= i + 1
        BY <4>1, <4>2, <1>11
      <4>4. QED BY <4>3, <3>2
    <3>3. QED BY <3>1, <3>2
  <2>2. Via(u, ds[k], n)
    BY <2>1, <1>6, <1>8, <1>9 DEF Via
  <2>3. QED BY <2>2, <1>0
<1>12. QED BY <1>10, <1>11

(* So they do when a call is through; after the last no tag is left.       *)
LEMMA ReachBack ==
  ASSUME NEW t, Table(t), NEW cs \in Seq(SubmitCall), cs # <<>>, Reached(t, cs),
         \A j \in DOMAIN t : ~(t[j].parent = cs[Len(cs)].node /\ j >= cs[Len(cs)].next)
  PROVE  /\ Reached(t, Front(cs))
         /\ Len(cs) = 1 => \A n \in Named(t) : t[n].newmdbref = NoRef
<1>1. Named(t) \subseteq DOMAIN t
  BY DEF Named
<1>2. \A n : ~Via(t, cs[Len(cs)], n)
  BY <1>1 DEF Via
<1>3. /\ DOMAIN cs = DOMAIN Front(cs) \cup {Len(cs)}
      /\ \A k \in DOMAIN Front(cs) : Front(cs)[k] = cs[k]
  BY FrontIs
<1>4. Reached(t, Front(cs))
  <2> SUFFICES ASSUME NEW n \in Named(t), t[n].newmdbref # NoRef
               PROVE  \E k \in DOMAIN Front(cs) : Via(t, Front(cs)[k], n)
    BY DEF Reached
  <2>1. PICK k \in DOMAIN cs : Via(t, cs[k], n)
    BY DEF Reached
  <2>2. k \in DOMAIN Front(cs)
    BY <2>1, <1>2, <1>3
  <2>3. QED BY <2>1, <2>2, <1>3
<1>5. ASSUME Len(cs) = 1, NEW n \in Named(t)
      PROVE  t[n].newmdbref = NoRef
  <2>1. DOMAIN cs = 1 .. 1
    BY <1>5, DomainIs
  <2>2. \A k \in DOMAIN cs : k = Len(cs)
    BY <2>1, <1>5
  <2>3. QED BY <2>2, <1>2 DEF Reached
<1>6. QED BY <1>4, <1>5

-----------------------------------------------------------------------------
(* The inductive invariant.                                                *)
Scanning == tagparentnode # NoParent
Wants == Wanted(tagparentnode, handle, playlist, stack)
Sound(t, w, s, x) == Sane(t) /\ Counts(t, w, s, x) /\ Refs(t, s)

Typing ==
  /\ stack \in Seq(Frame) /\ calls \in Seq(SubmitCall)
  /\ dirs \subseteq Seq(Names) /\ files \subseteq Seq(Names) \X Mdbrefs
  /\ playlist \subseteq Nat /\ tagparentnode \in Int /\ handle \in Int /\ leaky \in BOOLEAN
Control ==
  \/ pc = "idle" /\ ~Scanning /\ handle = NoParent /\ stack = <<>> /\ calls = <<>>
  \/ pc \in {"read", "files"} /\ Scanning /\ handle = tagparentnode /\ stack # <<>> /\ calls = <<>>
  \/ pc = "cancel" /\ Scanning /\ handle = tagparentnode /\ stack = <<>> /\ calls = <<>>
  \/ pc = "submit" /\ Scanning /\ handle = tagparentnode /\ stack = <<>> /\ calls # <<>>
  \/ pc = "flush" /\ ~Scanning /\ handle # NoParent /\ stack = <<>> /\ calls = <<>>
TableOK ==
  /\ Scanning => Sound(dirdbData, Wants, TRUE, ~leaky)
  /\ ~Scanning => Sound(dirdbData, Wants, FALSE, ~leaky)
SavedOK ==
  saved.torn \in {"no", "fields", "name"} /\ saved.entries \in Nat /\ (Restarts => LoadOK(Load(saved)))
Walking ==
  /\ Restarts => tagparentnode # 0
  /\ pc \in {"read", "files"} => /\ WalkOK(dirdbData, tagparentnode, files, stack)
                                 /\ TagsIn(dirdbData, tagparentnode)
Submitting ==
  pc = "submit" => /\ Reached(dirdbData, calls)
                   /\ Restarts => \A k \in DOMAIN calls : calls[k].node # 0
IInv == Typing /\ Control /\ TableOK /\ SavedOK /\ Walking /\ Submitting

(* What is asked of the parameters, beyond their assumptions: files the    *)
(* library has are not scanned again, no write breaks off between two      *)
(* entries or inside a name, and, where the process begins again, the drive*)
(* itself is not scanned.  Each is needed for RefCounts: with any of them  *)
(* dropped TLC finds it violated, by what the code does (dirdb.c:735, 139, *)
(* 170 with 207, 129).                                                     *)
Premises ==
  ~Known /\ WriteErrors \cap {"between", "name"} = {} /\ (Restarts => <<>> \notin Targets)
-----------------------------------------------------------------------------
(* Accounts that agree on nodes are as good. *)
LEMMA WantedAgree ==
  ASSUME NEW t, NEW w \in Handles, NEW v \in Handles, \A i \in Int : i # NoParent => v[i] = w[i],
         NEW s, NEW x, Sound(t, w, s, x)
  PROVE  Sound(t, v, s, x)
<1>1. Table(t)
  BY DEF Sound, Sane
<1>2. Counts(t, v, s, x)
  BY <1>1, CountsAgree DEF Sound
<1>3. QED BY <1>2 DEF Sound

(* Without calls no list holds anything. *)
LEMMA NoFrames ==
  /\ <<>> \in Seq(Frame) /\ <<>> \in Seq(SubmitCall)
  /\ \A n : Held(<<>>, n) = 0
<1>1. <<>> \in Seq(Frame) /\ <<>> \in Seq(SubmitCall) /\ DOMAIN <<>> = {}
  OBVIOUS
<1>2. \A n : Held(<<>>, n) = 0
  BY <1>1, HeldIs
<1>3. QED BY <1>1, <1>2

(* At the beginning only the drive has handles. *)
LEMMA NobodyWants ==
  \A i \in Int : i # NoParent => Wanted(NoParent, NoParent, {}, <<>>)[i] = Root[i]
<1>1. \A i \in Int : i # NoParent => Holders(NoParent, NoParent, {}, i) = Root[i] /\ Root[i] \in Nat
  BY DEF Holders, One, Root
<1>2. \A i \in Int : Wanted(NoParent, NoParent, {}, <<>>)[i]
                       = Holders(NoParent, NoParent, {}, i) + Held(<<>>, i)
  BY NoFrames, WantedIs, ZenonT(60)
<1>3. QED BY <1>1, <1>2, NoFrames

(* Counts are no less than what is owed. *)
LEMMA OwedAre ==
  ASSUME NEW t, NEW w, NEW s, NEW x, Sound(t, w, s, x), NEW n \in Named(t)
  PROVE  /\ t[n].refcount >= Owed(t, w, s, n) /\ (x => t[n].refcount = Owed(t, w, s, n))
         /\ w \in Handles => t[n].refcount >= 0
<1> DEFINE r == t[n].refcount
           o == Owed(t, w, s, n)
<1>1. Table(t)
  BY Zenon DEF Sound, Sane
<1>2. Fits(r, o, x)
  BY Zenon DEF Sound, Counts
<1>3. r >= o /\ (x => r = o)
  BY <1>2, Zenon DEF Fits
<1>4. r \in Int /\ n \in Nat /\ KidCount(t, n) \in Nat
  BY <1>1, KidsAre, InTable
<1>5. ASSUME w \in Handles
      PROVE  o \in Nat
  <2>1. w[n] \in Nat
    BY <1>4, <1>5 DEF Handles
  <2> DEFINE a == Tag(t[n], s)
  <2>2. a \in Nat
    BY DEF Tag
  <2> HIDE DEF a
  <2>3. KidCount(t, n) + a + w[n] \in Nat
    BY <1>4, <2>1, <2>2
  <2>4. QED BY <2>3, Zenon DEF Owed, a
<1> HIDE DEF r, o
<1>6. w \in Handles => r >= 0
  BY <1>3, <1>4, <1>5
<1>7. QED BY <1>3, <1>6, Zenon DEF r, o

(* dirdbInit survives a file it can read. *)
LEMMA StartedIs ==
  ASSUME NEW file, LoadOK(Load(file))
  PROVE  Started(file) = StartOf(Load(file))
<1> DEFINE l == Load(file)
<1>1. Table(l) /\ LoadOK(l)
  BY DEF LoadOK
<1> HIDE DEF l
<1>2. ASSUME NEW i \in Named(l)
      PROVE  l[i].refcount >= 0
  <2> DEFINE x == Holes(l) = {}
  <2> HIDE DEF x
  <2>1. Sound(l, None, FALSE, x)
    BY <1>1, <1>2 DEF LoadOK, Sound, x
  <2>2. None \in Handles
    BY NoneIs
  <2>3. QED BY <2>1, <2>2, OwedAre
<1>3. \A i \in DOMAIN l : l[i].refcount \in Int /\ l[i].refcount >= 0
  BY <1>1, <1>2, InTable DEF LoadOK, Holes
<1>4. ~Aborted(l)
  BY <1>3 DEF Aborted
<1>5. QED BY <1>4 DEF Started, StartOf, l

(* The table the program begins with. *)
LEMMA BeginsSound ==
  ASSUME NEW l, LoadOK(l), NEW x, x = (Holes(l) = {})
  PROVE  Sound(StartOf(l), Wanted(NoParent, NoParent, {}, <<>>), FALSE, x)
<1>1. Sane(StartOf(l)) /\ Counts(StartOf(l), Root, FALSE, x) /\ Refs(StartOf(l), FALSE)
  BY StartIs
<1>2. Sound(StartOf(l), Root, FALSE, x)
  BY <1>1 DEF Sound
<1>3. Root \in Handles /\ Wanted(NoParent, NoParent, {}, <<>>) \in Handles
  BY NoneIs, NoFrames, WantedIs
<1>4. QED BY <1>2, <1>3, NobodyWants, WantedAgree
-----------------------------------------------------------------------------
(* The program begins with an empty table and the drive. *)
LEMMA InitIInv == Init => IInv
<1> SUFFICES ASSUME Init
             PROVE  IInv
  OBVIOUS
<1> DEFINE l == Load(NoFile)
<1>2. LoadOK(l) /\ Holes(l) = {}
  BY NoFileIs
<1>1. dirdbData = StartOf(l)
  BY <1>2, StartedIs DEF Init
<1>3. Wants = Wanted(NoParent, NoParent, {}, <<>>)
  BY DEF Init, Wants
<1>4. /\ pc = "idle" /\ tagparentnode = NoParent /\ handle = NoParent /\ stack = <<>> /\ calls = <<>>
      /\ playlist = {} /\ leaky = FALSE /\ saved = NoFile /\ dirs \subseteq DirPaths /\ files = {}
  BY DEF Init
<1>a. NoParent \in Int /\ NoParent # 0
  BY DEF NoParent
<1>5. Typing
  BY <1>4, <1>a, NoFrames, PathsAssumption DEF Typing
<1>6. Control
  BY <1>4 DEF Control, Scanning
<1> HIDE DEF l
<1>7. Sound(dirdbData, Wants, FALSE, ~leaky)
  BY <1>1, <1>2, <1>3, <1>4, BeginsSound
<1>8. TableOK
  BY <1>4, <1>7 DEF TableOK, Scanning
<1>9. SavedOK
  <2>1. saved.torn = "no" /\ saved.entries = 0
    BY <1>4 DEF NoFile
  <2>2. LoadOK(Load(saved))
    BY <1>2, <1>4 DEF l
  <2>3. "no" \in {"no", "fields", "name"} /\ 0 \in Nat
    OBVIOUS
  <2>4. QED BY <2>1, <2>2, <2>3, Zenon DEF SavedOK
<1>10. Walking /\ Submitting
  BY <1>4, <1>a DEF Walking, Submitting
<1>11. QED BY <1>5, <1>6, <1>8, <1>9, <1>10 DEF IInv

(* The process begins again, with whatever file there is. *)
LEMMA RestartIInv ==
  ASSUME IInv, Restart
  PROVE  IInv'
<1> DEFINE l == Load(saved)
<1>2. LoadOK(l)
  BY DEF IInv, SavedOK, Restart
<1>1. dirdbData' = StartOf(l)
  BY <1>2, StartedIs DEF Restart
<1>3. Wants' = Wanted(NoParent, NoParent, {}, <<>>)
  BY DEF Restart, Forgotten, Wants
<1>4. /\ pc' = "idle" /\ tagparentnode' = NoParent /\ handle' = NoParent /\ stack' = <<>>
      /\ calls' = <<>> /\ playlist' = {} /\ leaky' = (Holes(l) # {}) /\ saved' = saved
      /\ dirs' = dirs /\ files' = files
  BY DEF Restart, Forgotten, disk
<1>a. NoParent \in Int /\ NoParent # 0
  BY DEF NoParent
<1>5. Typing'
  BY <1>4, <1>a, NoFrames DEF IInv, Typing
<1>6. Control'
  BY <1>4 DEF Control, Scanning
<1>9. SavedOK'
  BY <1>4 DEF IInv, SavedOK
<1> HIDE DEF l
<1>7. Sound(dirdbData', Wants', FALSE, ~leaky')
  <2>1. (~leaky') = (Holes(l) = {})
    BY <1>4
  <2> DEFINE x == ~leaky'
  <2> HIDE DEF x
  <2>2. x = (Holes(l) = {})
    BY <2>1 DEF x
  <2>3. Sound(StartOf(l), Wanted(NoParent, NoParent, {}, <<>>), FALSE, x)
    BY <1>2, <2>2, BeginsSound
  <2>4. QED BY <1>1, <1>3, <2>3, Zenon DEF x
<1>8. TableOK'
  BY <1>4, <1>7 DEF TableOK, Scanning
<1>10. Walking' /\ Submitting'
  BY <1>4, <1>a DEF Walking, Submitting
<1>11. QED BY <1>5, <1>6, <1>8, <1>9, <1>10 DEF IInv

(* The disk changes. *)
LEMMA DiskChangeIInv ==
  ASSUME IInv, DiskChange
  PROVE  IInv'
<1>1. /\ pc = "idle" /\ pc' = "idle" /\ tagparentnode' = tagparentnode /\ handle' = handle
      /\ stack' = stack /\ calls' = calls /\ playlist' = playlist /\ leaky' = leaky /\ saved' = saved
      /\ dirdbData' = dirdbData
  BY DEF DiskChange, At, scan
<1>2. dirs' \subseteq dirs \cup DirPaths /\ files' \subseteq files \cup (FilePaths \X Mdbrefs)
  BY DEF DiskChange
<1>3. dirs' \subseteq Seq(Names) /\ files' \subseteq Seq(Names) \X Mdbrefs
  BY <1>2, PathsAssumption DEF IInv, Typing
<1>4. Typing'
  BY <1>1, <1>3 DEF IInv, Typing
<1>5. Control' /\ Scanning' = Scanning /\ Wants' = Wants
  BY <1>1 DEF IInv, Control, Scanning, Wants
<1>6. TableOK'
  BY <1>1, <1>5 DEF IInv, TableOK
<1>7. SavedOK' /\ Walking' /\ Submitting'
  BY <1>1 DEF IInv, SavedOK, Walking, Submitting
<1>8. QED BY <1>4, <1>5, <1>6, <1>7 DEF IInv

-----------------------------------------------------------------------------
(* A handle more, counted. *)
LEMMA PlusOne ==
  ASSUME NEW w \in Handles, NEW n \in Int
  PROVE  Plus(w, n) \in Handles /\ \A i \in Int : Plus(w, n)[i] = w[i] + One(i = n) /\ w[i] \in Nat
<1>1. /\ Plus(w, n) \in Handles /\ Plus(w, n)[n] = w[n] + 1
      /\ \A m \in Int : w[m] \in Nat /\ (m # n => Plus(w, n)[m] = w[m])
  BY PlusIs
<1>2. \A i \in Int : Plus(w, n)[i] = w[i] + One(i = n)
  <2> SUFFICES ASSUME NEW i \in Int
               PROVE  Plus(w, n)[i] = w[i] + One(i = n)
    OBVIOUS
  <2>1. CASE i = n
    BY <1>1, <2>1 DEF One
  <2>2. CASE i # n
    <3>1. Plus(w, n)[i] = w[i] /\ w[i] \in Nat /\ One(i = n) = 0
      BY <1>1, <2>2 DEF One
    <3>2. QED BY <3>1
  <2>3. QED BY <2>1, <2>2
<1>3. QED BY <1>1, <1>2

(* Two accounts that differ by one handle.                                 *)
LEMMA OneMore ==
  ASSUME NEW t, NEW w \in Handles, NEW v \in Handles, NEW n \in Int,
         \A i \in Int : i # NoParent => v[i] = w[i] + One(i = n), NEW s, NEW x
  PROVE  Sound(t, Plus(w, n), s, x) <=> Sound(t, v, s, x)
<1>1. Plus(w, n) \in Handles /\ \A i \in Int : Plus(w, n)[i] = w[i] + One(i = n)
  BY PlusOne
<1>2. \A i \in Int : i # NoParent => v[i] = Plus(w, n)[i] /\ Plus(w, n)[i] = v[i]
  BY <1>1
<1>3. QED BY <1>1, <1>2, WantedAgree

(* dirdbRef, *)
LEMMA RefSound ==
  ASSUME NEW t, NEW w \in Handles, NEW s, NEW x, Sound(t, w, s, x), NEW n \in Named(t)
  PROVE  Sound(Ref(t, n), Plus(w, n), s, x) /\ Recounted(t, Ref(t, n))
<1>1. Sane(t) /\ Table(t) /\ Counts(t, w, s, x) /\ Refs(t, s)
  BY DEF Sound, Sane
<1>2. /\ Table(Ref(t, n)) /\ Recounted(t, Ref(t, n)) /\ Counts(Ref(t, n), Plus(w, n), s, x)
  BY <1>1, CountsRef
<1>3. Sane(Ref(t, n))
  BY <1>1, <1>2, RecountedIs, AlikeIsSane
<1>4. Refs(Ref(t, n), s)
  BY <1>1, <1>2, RecountedIs, RefsShrunk
<1>5. QED BY <1>2, <1>3, <1>4 DEF Sound

(* and dirdbUnref, of a sound table. *)
LEMMA UnrefSound ==
  ASSUME NEW t, NEW w \in Handles, w[0] >= 1, NEW s, NEW x, NEW n \in Named(t),
         Sound(t, Plus(w, n), s, x)
  PROVE  Sound(Unref(t, n), w, s, x) /\ Shrunk(t, Unref(t, n), s)
<1>1. Sane(t) /\ Counts(t, Plus(w, n), s, x) /\ Refs(t, s)
  BY DEF Sound
<1>2. Sane(Unref(t, n)) /\ Counts(Unref(t, n), w, s, x) /\ Shrunk(t, Unref(t, n), s)
  BY <1>1, UnrefIs
<1>3. Refs(Unref(t, n), s)
  BY <1>1, <1>2, RefsShrunk
<1>4. QED BY <1>2, <1>3 DEF Sound

(* Who has a handle has a name. *)
LEMMA WantedNamed ==
  ASSUME NEW t, NEW tp, NEW h, NEW pl, NEW st \in Seq(Frame), NEW s, NEW x,
         Sound(t, Wanted(tp, h, pl, st), s, x)
  PROVE  /\ Named(t) \subseteq Nat /\ Named(t) \subseteq DOMAIN t
         /\ tp \in Int /\ tp # NoParent => tp \in Named(t)
         /\ h \in Int /\ h # NoParent => h \in Named(t)
         /\ pl \subseteq Nat => pl \subseteq Named(t)
         /\ \A k \in DOMAIN st : st[k].ml \subseteq Named(t)
<1> DEFINE w == Wanted(tp, h, pl, st)
<1>1. \A n \in Int : w[n] > 0 /\ n # NoParent => n \in Named(t)
  BY DEF Sound, Counts
<1>2. \A n \in Int : n = tp \/ n = h \/ n \in pl \/ (\E k \in DOMAIN st : n \in st[k].ml)
                             => w[n] > 0
  BY WantedIs
<1>3. \A k \in DOMAIN st : st[k].ml \subseteq Nat
  BY DomainIs, FrameIs
<1>4. Named(t) \subseteq Nat /\ Named(t) \subseteq DOMAIN t
  BY InTable DEF Sound, Sane
<1>5. \A n \in Nat : n \in Int /\ n # NoParent
  BY DEF NoParent
<1> HIDE DEF w
<1>6. QED BY <1>1, <1>2, <1>3, <1>4, <1>5

(* Two accounts that differ in what holds an entry. *)
LEMMA WantedBy ==
  ASSUME NEW tp, NEW h, NEW pl, NEW st \in Seq(Frame), NEW tq, NEW g, NEW ql, NEW u \in Seq(Frame),
         NEW i \in Int, NEW a \in Nat, NEW b \in Nat,
         Holders(tq, g, ql, i) = Holders(tp, h, pl, i) + a, Held(u, i) = Held(st, i) + b
  PROVE  Wanted(tq, g, ql, u)[i] = Wanted(tp, h, pl, st)[i] + a + b
<1>1. Holders(tp, h, pl, i) \in Nat /\ Held(st, i) \in Nat
  BY HoldersIs, HeldIs
<1>2. /\ Wanted(tp, h, pl, st)[i] = Holders(tp, h, pl, i) + Held(st, i)
      /\ Wanted(tq, g, ql, u)[i] = Holders(tq, g, ql, i) + Held(u, i)
  BY WantedIs
<1> DEFINE k == Holders(tp, h, pl, i)
           e == Held(st, i)
<1> HIDE DEF k, e
<1>3. Wanted(tp, h, pl, st)[i] = k + e /\ Wanted(tq, g, ql, u)[i] = (k + a) + (e + b)
      /\ k \in Nat /\ e \in Nat
  BY <1>1, <1>2 DEF k, e
<1>4. QED BY <1>3

-----------------------------------------------------------------------------
(* modlist_append on the playlist. *)
LEMMA Append1IInv ==
  ASSUME IInv, Append1
  PROVE  IInv' /\ Library(dirdbData') = Library(dirdbData)
<1> DEFINE w == Wants
<1>1. /\ pc = "idle" /\ pc' = "idle" /\ tagparentnode' = tagparentnode /\ handle' = handle
      /\ stack' = stack /\ calls' = calls /\ leaky' = leaky /\ saved' = saved
      /\ dirs' = dirs /\ files' = files
  BY DEF Append1, At, scan, disk
<1>2. PICK n \in Named(dirdbData) \ playlist :
        dirdbData' = Ref(dirdbData, n) /\ playlist' = playlist \cup {n}
  BY DEF Append1
<1>3. Typing /\ ~Scanning /\ stack = <<>> /\ Sound(dirdbData, w, FALSE, ~leaky)
  BY <1>1 DEF IInv, Control, TableOK
<1>4. w \in Handles /\ Wants' \in Handles
  BY <1>1, <1>3, WantedIs DEF Wants, Typing
<1>5. n \in Nat /\ n \in Int /\ n \notin playlist
  BY <1>2, <1>3, InTable DEF Sound, Sane
<1>6. \A i \in Int : i # NoParent => Wants'[i] = w[i] + One(i = n)
  <2> SUFFICES ASSUME NEW i \in Int
               PROVE  Wants'[i] = w[i] + One(i = n)
    OBVIOUS
  <2> DEFINE o == One(i = n)
  <2>1. Holders(tagparentnode, handle, playlist', i) = Holders(tagparentnode, handle, playlist, i) + o
    BY <1>2, <1>5 DEF Holders, One
  <2>2. o \in Nat
    BY DEF One
  <2> HIDE DEF o
  <2>3. Held(stack, i) = Held(stack, i) + 0 /\ 0 \in Nat /\ stack \in Seq(Frame)
    <3>1. stack \in Seq(Frame)
      BY <1>3 DEF Typing
    <3>2. Held(stack, i) \in Nat
      BY <3>1, HeldIs
    <3>3. QED BY <3>1, <3>2
  <2>4. Wanted(tagparentnode, handle, playlist', stack)[i]
          = Wanted(tagparentnode, handle, playlist, stack)[i] + o + 0
    BY <2>1, <2>2, <2>3, WantedBy
  <2>5. Wants'[i] = w[i] + o + 0
    BY <2>4, <1>1, Zenon DEF Wants
  <2>6. w[i] \in Nat
    BY <1>4 DEF Handles
  <2> HIDE DEF w
  <2>7. QED BY <2>2, <2>5, <2>6 DEF o
<1>7. Sound(Ref(dirdbData, n), Plus(w, n), FALSE, ~leaky)
  BY <1>2, <1>3, <1>4, RefSound
<1> HIDE DEF w
<1>8. Sound(dirdbData', Wants', FALSE, ~leaky)
  BY <1>2, <1>4, <1>5, <1>6, <1>7, OneMore
<1>9. TableOK'
  BY <1>1, <1>3, <1>8 DEF TableOK, Scanning
<1>10. Typing'
  BY <1>1, <1>2, <1>3, <1>5 DEF Typing
<1>11. Control' /\ SavedOK' /\ Walking' /\ Submitting'
  BY <1>1 DEF IInv, Control, Scanning, SavedOK, Walking, Submitting
<1>12. Library(dirdbData') = Library(dirdbData)
  <2>1. Recounted(dirdbData, dirdbData')
    BY <1>2, <1>3, <1>4, RefSound
  <2>2. Kept(dirdbData, dirdbData')
    BY <2>1 DEF Recounted, Kept, Keeps
  <2>3. Sane(dirdbData) /\ Sane(dirdbData')
    BY <1>3, <1>8 DEF Sound
  <2>4. QED BY <2>2, <2>3, LibraryKept
<1>13. QED BY <1>9, <1>10, <1>11, <1>12 DEF IInv

(* modlist_remove on the playlist. *)
LEMMA Remove1IInv ==
  ASSUME IInv, Remove1
  PROVE  IInv' /\ Library(dirdbData') = Library(dirdbData)
<1> DEFINE w == Wants
<1>1. /\ pc = "idle" /\ pc' = "idle" /\ tagparentnode' = tagparentnode /\ handle' = handle
      /\ stack' = stack /\ calls' = calls /\ leaky' = leaky /\ saved' = saved
      /\ dirs' = dirs /\ files' = files
  BY DEF Remove1, At, scan, disk
<1>2. PICK n \in playlist :
        dirdbData' = Unref(dirdbData, n) /\ playlist' = playlist \ {n}
  BY DEF Remove1
<1>3. Typing /\ ~Scanning /\ stack = <<>> /\ Sound(dirdbData, w, FALSE, ~leaky)
  BY <1>1 DEF IInv, Control, TableOK
<1>4. w \in Handles /\ Wants' \in Handles /\ Wants'[0] >= 1
  BY <1>1, <1>3, WantedIs DEF Wants, Typing
<1>5. n \in Nat /\ n \in Int /\ n \in Named(dirdbData)
  <2>1. stack \in Seq(Frame) /\ playlist \subseteq Nat
    BY <1>3 DEF Typing
  <2>2. playlist \subseteq Named(dirdbData)
    BY <1>3, <2>1, WantedNamed DEF Wants
  <2>3. QED BY <2>1, <2>2, <1>2
<1>6. \A i \in Int : i # NoParent => w[i] = Wants'[i] + One(i = n)
  <2> SUFFICES ASSUME NEW i \in Int
               PROVE  w[i] = Wants'[i] + One(i = n)
    OBVIOUS
  <2> DEFINE o == One(i = n)
  <2>1. Holders(tagparentnode, handle, playlist, i) = Holders(tagparentnode, handle, playlist', i) + o
    BY <1>2, <1>5 DEF Holders, One
  <2>2. o \in Nat
    BY DEF One
  <2> HIDE DEF o
  <2>3. Held(stack, i) = Held(stack, i) + 0 /\ 0 \in Nat /\ stack \in Seq(Frame)
    <3>1. stack \in Seq(Frame)
      BY <1>3 DEF Typing
    <3>2. Held(stack, i) \in Nat
      BY <3>1, HeldIs
    <3>3. QED BY <3>1, <3>2
  <2>4. Wanted(tagparentnode, handle, playlist, stack)[i]
          = Wanted(tagparentnode, handle, playlist', stack)[i] + o + 0
    BY <2>1, <2>2, <2>3, WantedBy
  <2>5. w[i] = Wants'[i] + o + 0
    BY <2>4, <1>1, Zenon DEF Wants
  <2>6. Wants'[i] \in Nat
    BY <1>4 DEF Handles
  <2> HIDE DEF w
  <2>7. QED BY <2>2, <2>5, <2>6 DEF o
<1> HIDE DEF w
<1>7. Sound(dirdbData, Plus(Wants', n), FALSE, ~leaky)
  BY <1>3, <1>4, <1>5, <1>6, OneMore
<1>8. Sound(dirdbData', Wants', FALSE, ~leaky)
  BY <1>2, <1>4, <1>5, <1>7, UnrefSound
<1>9. TableOK'
  BY <1>1, <1>3, <1>8 DEF TableOK, Scanning
<1>10. Typing'
  BY <1>1, <1>2, <1>3 DEF Typing
<1>11. Control' /\ SavedOK' /\ Walking' /\ Submitting'
  BY <1>1 DEF IInv, Control, Scanning, SavedOK, Walking, Submitting
<1>12. Library(dirdbData') = Library(dirdbData)
  <2>1. Shrunk(dirdbData, dirdbData', FALSE)
    BY <1>2, <1>4, <1>5, <1>7, UnrefSound
  <2>2. Sane(dirdbData) /\ Sane(dirdbData')
    BY <1>3, <1>8 DEF Sound
  <2>3. QED BY <2>1, <2>2, ShrunkKept, LibraryKept
<1>13. QED BY <1>9, <1>10, <1>11, <1>12 DEF IInv

-----------------------------------------------------------------------------
(* What fsReadDir finds lies directly below the directory. *)
LEMMA EntriesAre ==
  ASSUME dirs \subseteq Seq(Names), files \subseteq Seq(Names) \X Mdbrefs, NEW p \in Seq(Names)
  PROVE  \A q \in Entries(p) : q \in Seq(Names) /\ q \in Seq(AllNames) /\ Pre(p, q) /\ Len(q) = Len(p) + 1
<1> SUFFICES ASSUME NEW q \in Entries(p)
             PROVE  q \in Seq(Names) /\ q \in Seq(AllNames) /\ Pre(p, q) /\ Len(q) = Len(p) + 1
  OBVIOUS
<1>1. q \in dirs \cup {f[1] : f \in files} /\ Below(p, q) /\ Len(q) = Len(p) + 1
  BY DEF Entries
<1>2. q \in Seq(Names)
  BY <1>1
<1>3. Pre(p, q)
  BY <1>1, <1>2, BelowIs
<1>4. QED BY <1>1, <1>2, <1>3, MoreNames

(* A call of mlSubScan begins with all of it to read. *)
LEMMA CallIs ==
  ASSUME dirs \subseteq Seq(Names), files \subseteq Seq(Names) \X Mdbrefs,
         NEW t, NEW n \in Nat, NEW p \in Seq(Names), Short(t, n) = p
  PROVE  LET g == Call(t, n) IN
         /\ g \in Frame /\ g.ml = {} /\ g.left = {} /\ g.node = n
         /\ \A q \in g.toRead : q \in Seq(AllNames) /\ Pre(p, q) /\ Len(q) = Len(p) + 1
<1> DEFINE g == Call(t, n)
<1>1. g.toRead = Entries(p) /\ g.ml = {} /\ g.left = {} /\ g.node = n
  BY FullNameTail DEF Call
<1>2. Entries(p) \subseteq Seq(Names)
  BY EntriesAre
<1>3. g \in Frame
  BY <1>2, FullNameTail DEF Call, Frame
<1>4. QED BY <1>1, <1>3, EntriesAre

(* The first call holds nothing yet. *)
LEMMA OneFrame ==
  ASSUME NEW g \in Frame, NEW u, u = <<g>>, g.ml = {}
  PROVE  /\ u \in Seq(Frame) /\ Len(u) = 1 /\ u[1] = g /\ u # <<>> /\ DOMAIN <<>> = {} /\ Len(<<>>) = 0
         /\ \A n : Held(u, n) = 0
<1>1. u \in Seq(Frame) /\ Len(u) = 1 /\ u[1] = g /\ u # <<>> /\ DOMAIN u = {1} /\ DOMAIN <<>> = {}
      /\ Len(<<>>) = 0
  OBVIOUS
<1>2. \A n : Held(u, n) = 0
  BY <1>1, HeldIs
<1>3. QED BY <1>1, <1>2

(* Nothing that the library has below the target is on the disk.           *)
LEMMA FreshStart ==
  ASSUME NEW t, Sane(t), NEW u, Sane(u), NEW v, Sane(v), Grew(t, u),
         Paths(v) = Paths(u), Named(v) = Named(u),
         \A i \in Named(v) : v[i].newmdbref = NoRef /\ v[i].mdbref = u[i].mdbref,
         NEW fs, fs \subseteq Seq(Names) \X Mdbrefs, NEW p \in Seq(Names),
         \A f \in fs : Below(p, f[1]) => \A e \in Library(t) : e[1] # Drive \o f[1],
         NEW q \in Seq(AllNames), Pre(p, q), Len(q) = Len(p) + 1
  PROVE  Fresh(v, fs, q)
<1> SUFFICES ASSUME NEW n \in Named(v), Pre(q, Short(v, n)), v[n].mdbref # NoRef,
                    NEW f \in fs, f[1] = Short(v, n)
             PROVE  FALSE
  BY DEF Fresh
<1>1. DOMAIN u \subseteq Nat /\ n \in DOMAIN u /\ n \in Named(u) /\ u[n].mdbref # NoRef
  BY InTable DEF Sane
<1>2. n \in Named(t) /\ Keeps(t[n], u[n])
  <2>1. Keeps(Was(t, n), u[n])
    BY <1>1 DEF Grew
  <2>2. Was(t, n) # Hole
    BY <2>1, <1>1, HoleIs DEF Keeps
  <2>3. n \in DOMAIN t /\ Was(t, n) = t[n]
    BY <2>2 DEF Was
  <2>4. u[n].name # NoName
    BY <1>1 DEF Named
  <2>5. QED BY <2>1, <2>3, <2>4 DEF Keeps, Named
<1>3. t[n].mdbref # NoRef /\ Short(v, n) = Short(t, n)
  <2>1. Short(u, n) = Short(t, n)
    BY <1>2, GrewShort
  <2>2. Short(v, n) = Short(u, n)
    BY DEF Short
  <2>3. QED BY <2>1, <2>2, <1>1, <1>2 DEF Keeps
<1>4. Below(p, f[1])
  <2>1. Pre(p, Short(v, n)) /\ p \in Seq(AllNames) /\ Short(v, n) \in Seq(AllNames)
    BY PreTrans, ShortIs, MoreNames
  <2>2. Len(q) <= Len(Short(v, n))
    BY DEF Pre
  <2>3. Len(p) < Len(Short(v, n))
    BY <2>1, <2>2
  <2>4. QED BY <2>1, <2>3, BelowIs
<1>5. <<FullName(t, n), t[n].mdbref>> \in Library(t)
  BY <1>2, <1>3 DEF Library
<1>6. FullName(t, n) = Drive \o f[1]
  BY <1>2, <1>3, FullNameIs, ShortIs, SMTT(40)
<1>7. QED BY <1>4, <1>5, <1>6

-----------------------------------------------------------------------------
(* What a scan holds: the node of mlSourcesAdd and that of dirdbTagSetParent. *)
LEMMA ScanWants ==
  ASSUME NEW pl, NEW st \in Seq(Frame), NEW u \in Seq(Frame), NEW n \in Nat, NEW i \in Int, i # NoParent,
         Held(u, i) = Held(st, i)
  PROVE  /\ Wanted(n, n, pl, u)[i] = Wanted(NoParent, n, pl, st)[i] + One(i = n)
         /\ Wanted(NoParent, n, pl, u)[i] = Wanted(NoParent, NoParent, pl, st)[i] + One(i = n)
         /\ Wanted(n, n, pl, u)[i] = Wanted(NoParent, n, pl, u)[i] + One(i = n)
<1> DEFINE o == One(i = n)
           k == One(i \in pl) + (IF i = 0 THEN 2 ELSE 0)
<1>1. o \in Nat /\ k \in Nat
  BY DEF One
<1>2. /\ Holders(n, n, pl, i) = o + o + k /\ Holders(NoParent, n, pl, i) = o + k
      /\ Holders(NoParent, NoParent, pl, i) = k
  BY DEF Holders, One
<1> HIDE DEF o, k
<1>3. Holders(n, n, pl, i) = Holders(NoParent, n, pl, i) + o
      /\ Holders(NoParent, n, pl, i) = Holders(NoParent, NoParent, pl, i) + o
  BY <1>1, <1>2
<1>4. Held(u, i) = Held(st, i) + 0 /\ 0 \in Nat /\ Held(u, i) = Held(u, i) + 0
  BY HeldIs
<1>a. Wanted(n, n, pl, u)[i] = Wanted(NoParent, n, pl, u)[i] + o + 0
  BY <1>1, <1>3, <1>4, WantedBy
<1>5. /\ Wanted(n, n, pl, u)[i] = Wanted(NoParent, n, pl, st)[i] + o + 0
      /\ Wanted(NoParent, n, pl, u)[i] = Wanted(NoParent, NoParent, pl, st)[i] + o + 0
  BY <1>1, <1>3, <1>4, WantedBy
<1>6. /\ Wanted(NoParent, n, pl, st)[i] \in Nat /\ Wanted(NoParent, NoParent, pl, st)[i] \in Nat
      /\ Wanted(NoParent, n, pl, u)[i] \in Nat
  <2>1. \A v \in Handles : v[i] \in Nat
    BY DEF Handles
  <2>2. QED BY <2>1, WantedIs
<1>7. QED BY <1>1, <1>5, <1>6, <1>a DEF o

(* mlSourcesAdd: the path is resolved, then the node is set.               *)
LEMMA StartTable ==
  ASSUME NEW t, NEW w \in Handles, NEW x, Sound(t, w, FALSE, x), NEW p \in Seq(Names)
  PROVE  LET at == Resolve(t, Drive \o p)
             u == TagSetParent(at.table, at.node) IN
         /\ at.node \in Nat /\ Sane(at.table) /\ Short(at.table, at.node) = p /\ Grew(t, at.table)
         /\ Sound(u, Plus(Plus(w, at.node), at.node), TRUE, x) /\ Sane(u)
         /\ Paths(u) = Paths(at.table) /\ Named(u) = Named(at.table)
         /\ \A i \in Named(u) : u[i].newmdbref = NoRef /\ u[i].mdbref = at.table[i].mdbref
         /\ at.node = 0 => p = <<>>
<1> DEFINE at == Resolve(t, Drive \o p)
           n == at.node
           u == TagSetParent(at.table, n)
<1>1. Sane(t) /\ Counts(t, w, FALSE, x) /\ Refs(t, FALSE)
  BY DEF Sound
<1>2. /\ Sane(at.table) /\ n \in Named(at.table) /\ Short(at.table, n) = p
      /\ Counts(at.table, Plus(w, n), FALSE, x) /\ Grew(t, at.table) /\ Refs(at.table, FALSE)
  BY <1>1, ResolvePath
<1>3. n \in Nat
  BY <1>2, InTable DEF Sane
<1>4. Plus(w, n) \in Handles
  BY <1>3, PlusIs
<1> HIDE DEF at, n
<1>5. /\ Sane(u) /\ Paths(u) = Paths(at.table) /\ Named(u) = Named(at.table)
      /\ Counts(u, Plus(Plus(w, n), n), TRUE, x) /\ Refs(u, TRUE)
      /\ \A i \in Named(u) : u[i].newmdbref = NoRef /\ u[i].mdbref = at.table[i].mdbref
  BY <1>2, <1>4, TagSetParentIs
<1>6. Sound(u, Plus(Plus(w, n), n), TRUE, x)
  BY <1>5 DEF Sound
<1>7. n = 0 => p = <<>>
  BY <1>2, ShortRoot
<1> HIDE DEF u
<1>8. QED BY <1>2, <1>3, <1>5, <1>6, <1>7 DEF u, n, at

-----------------------------------------------------------------------------
(* mlSourcesAdd. *)
LEMMA StartScanIInv ==
  ASSUME IInv, Premises, NEW target \in Targets, StartScan(target)
  PROVE  IInv' /\ Library(dirdbData') = Library(dirdbData)
<1> DEFINE at == Resolve(dirdbData, Drive \o target)
           n == at.node
           u == TagSetParent(at.table, at.node)
           w == Wants
           x == ~leaky
           g == Call(at.table, at.node)
<1>1. /\ pc = "idle" /\ pc' = "read" /\ tagparentnode' = n /\ handle' = n /\ dirdbData' = u
      /\ stack' = <<g>> /\ calls' = calls /\ playlist' = playlist /\ leaky' = leaky /\ saved' = saved
      /\ dirs' = dirs /\ files' = files
  BY Zenon DEF StartScan, At, disk
<1>2. Typing /\ ~Scanning /\ handle = NoParent /\ tagparentnode = NoParent /\ stack = <<>> /\ calls = <<>>
      /\ Sound(dirdbData, w, FALSE, x)
  BY <1>1 DEF IInv, Control, TableOK, Scanning
<1>3. target \in Seq(Names) /\ (Restarts => target # <<>>)
  BY PathsAssumption DEF Premises
<1>4. \A f \in files : Below(target, f[1]) => \A e \in Library(dirdbData) : e[1] # Drive \o f[1]
  BY DEF StartScan, Premises
<1>5. /\ stack \in Seq(Frame) /\ dirs \subseteq Seq(Names) /\ files \subseteq Seq(Names) \X Mdbrefs
      /\ playlist \subseteq Nat /\ leaky \in BOOLEAN /\ calls \in Seq(SubmitCall)
  BY <1>2 DEF Typing
<1>6. w \in Handles /\ w = Wanted(NoParent, NoParent, playlist, stack)
  BY <1>2, <1>5, WantedIs DEF Wants
<1> HIDE DEF w, x
<1>7. /\ n \in Nat /\ Sane(at.table) /\ Short(at.table, n) = target /\ Grew(dirdbData, at.table)
      /\ Sound(u, Plus(Plus(w, n), n), TRUE, x) /\ Sane(u)
      /\ Paths(u) = Paths(at.table) /\ Named(u) = Named(at.table)
      /\ \A i \in Named(u) : u[i].newmdbref = NoRef /\ u[i].mdbref = at.table[i].mdbref
      /\ n = 0 => target = <<>>
  <2>1. w \in Handles /\ Sound(dirdbData, w, FALSE, x) /\ target \in Seq(Names)
    BY <1>2, <1>3, <1>6
  <2>2. LET at0 == Resolve(dirdbData, Drive \o target)
            u0 == TagSetParent(at0.table, at0.node) IN
         /\ at0.node \in Nat /\ Sane(at0.table) /\ Short(at0.table, at0.node) = target /\ Grew(dirdbData, at0.table)
         /\ Sound(u0, Plus(Plus(w, at0.node), at0.node), TRUE, x) /\ Sane(u0)
         /\ Paths(u0) = Paths(at0.table) /\ Named(u0) = Named(at0.table)
         /\ \A i \in Named(u0) : u0[i].newmdbref = NoRef /\ u0[i].mdbref = at0.table[i].mdbref
         /\ at0.node = 0 => target = <<>>
    BY <2>1, StartTable
  <2>3. QED BY <2>2
<1>8. Sane(dirdbData)
  BY <1>2 DEF Sound
<1> HIDE DEF at, n, u
<1>9. /\ g \in Frame /\ g.ml = {} /\ g.left = {}
      /\ \A q \in g.toRead : q \in Seq(AllNames) /\ Pre(target, q) /\ Len(q) = Len(target) + 1
  BY <1>3, <1>5, <1>7, CallIs DEF n
<1> HIDE DEF g
<1>10. /\ stack' \in Seq(Frame) /\ Len(stack') = 1 /\ stack'[1] = g /\ stack' # <<>>
       /\ \A i : Held(stack', i) = 0
  BY <1>1, <1>9, OneFrame
<1>11. NoParent \notin Nat /\ n # NoParent /\ n \in Int
  BY <1>7 DEF NoParent
<1>12. Sound(u, Wants', TRUE, x)
  <2>1. \A i : Held(stack', i) = Held(stack, i)
    BY <1>10, <1>2, NoFrames
  <2> DEFINE a == Wanted(NoParent, n, playlist, stack')
             b == Wanted(n, n, playlist, stack')
  <2>2. /\ a \in Handles /\ b \in Handles
        /\ \A i \in Int : i # NoParent => a[i] = w[i] + One(i = n)
        /\ \A i \in Int : i # NoParent => b[i] = a[i] + One(i = n)
    <3>1. a \in Handles /\ b \in Handles
      BY <1>10, WantedIs
    <3>2. \A i \in Int : i # NoParent => a[i] = w[i] + One(i = n)
      BY <1>5, <1>6, <1>7, <1>10, <2>1, ScanWants
    <3>3. \A i \in Int : i # NoParent => b[i] = a[i] + One(i = n)
      BY <1>5, <1>6, <1>7, <1>10, <2>1, ScanWants
    <3>4. QED BY <3>1, <3>2, <3>3
  <2>3. Wants' = b
    BY <1>1 DEF Wants
  <2> HIDE DEF a, b
  <2>4. Plus(w, n) \in Handles /\ Plus(a, n) \in Handles
        /\ \A i \in Int : Plus(w, n)[i] = w[i] + One(i = n) /\ Plus(a, n)[i] = a[i] + One(i = n)
    <3>0. w \in Handles
      BY <1>6
    <3>1. Plus(w, n) \in Handles /\ \A i \in Int : Plus(w, n)[i] = w[i] + One(i = n)
      BY <3>0, <1>11, PlusOne
    <3>2. Plus(a, n) \in Handles /\ \A i \in Int : Plus(a, n)[i] = a[i] + One(i = n)
      BY <2>2, <1>11, PlusOne
    <3>3. QED BY <3>1, <3>2
  <2>5. Plus(Plus(w, n), n) \in Handles
        /\ \A i \in Int : Plus(Plus(w, n), n)[i] = Plus(w, n)[i] + One(i = n)
    BY <1>11, <2>4, PlusOne
  <2>6. \A i \in Int : i # NoParent => b[i] = Plus(Plus(w, n), n)[i]
    BY <2>2, <2>4, <2>5
  <2>7. Sound(u, b, TRUE, x)
    BY <1>7, <2>2, <2>5, <2>6, WantedAgree
  <2>8. QED BY <2>3, <2>7
<1>13. TableOK'
  BY <1>1, <1>11, <1>12 DEF TableOK, Scanning, x
<1>14. Typing'
  BY <1>1, <1>5, <1>7, <1>10 DEF Typing
<1>15. Control'
  BY <1>1, <1>2, <1>10, <1>11 DEF Control, Scanning
<1>16. SavedOK' /\ Submitting'
  BY <1>1 DEF IInv, SavedOK, Submitting
<1>17. Short(u, n) = target /\ target \in Seq(AllNames)
  BY <1>3, <1>7, MoreNames DEF Short
<1>18. WalkOK(u, n, files, stack')
  <2>1. \A q \in g.toRead : Fresh(u, files, q)
    BY <1>3, <1>4, <1>5, <1>7, <1>8, <1>9, FreshStart
  <2>2. \A q \in g.toRead : Inner(u, n, q)
    <3> SUFFICES ASSUME NEW q \in g.toRead
                 PROVE  Inner(u, n, q)
      OBVIOUS
    <3>1. q \in Seq(AllNames) /\ Pre(target, q) /\ Len(q) = Len(target) + 1 /\ Len(target) \in Nat
      BY <1>9, <1>17
    <3>2. Len(target) < Len(q)
      BY <3>1
    <3>3. QED BY <3>1, <3>2, <1>17 DEF Inner
  <2>3. /\ <<>> \in Seq(Frame) /\ Len(<<>>) = 0 /\ DOMAIN <<>> = {}
        /\ WalkOK(u, n, files, <<>>) /\ Alone(<<>>, target)
    <3>1. <<>> \in Seq(Frame) /\ Len(<<>>) = 0 /\ DOMAIN <<>> = {}
      OBVIOUS
    <3>2. QED BY <3>1 DEF WalkOK, Apart, Alone
  <2>4. Len(stack') = Len(<<>>) + 1 /\ stack'[Len(stack')] = g
    BY <1>10, <2>3
  <2>5. \A k \in DOMAIN <<>> : stack'[k] = <<>>[k]
    BY <2>3
  <2>6. QED BY <1>9, <1>10, <1>17, <2>1, <2>2, <2>3, <2>4, <2>5, WalkCall
<1>19. TagsIn(u, n)
  BY <1>7 DEF TagsIn
<1>20. Walking'
  BY <1>1, <1>3, <1>7, <1>18, <1>19 DEF Walking
<1>21. Library(dirdbData') = Library(dirdbData)
  <2> DEFINE v == at.table
  <2>1. Sane(v) /\ Grew(dirdbData, v) /\ Paths(u) = Paths(v) /\ Named(u) = Named(v)
        /\ \A i \in Named(u) : u[i].mdbref = v[i].mdbref
    BY <1>7
  <2> HIDE DEF v
  <2>2. Library(v) = Library(dirdbData)
    BY <1>8, <2>1, LibraryGrew
  <2>3. Library(u) = Library(v)
    BY <2>1, LibrarySame
  <2>4. QED BY <1>1, <2>2, <2>3
<1>22. QED BY <1>13, <1>14, <1>15, <1>16, <1>20, <1>21 DEF IInv

-----------------------------------------------------------------------------
(* Names that come have no references, and those that stay keep theirs.    *)
Follows(t, u) ==
  \A n \in Named(u) :
    \/ u[n].mdbref = NoRef /\ u[n].newmdbref = NoRef
    \/ /\ n \in Named(t) /\ Short(u, n) = Short(t, n)
       /\ u[n].mdbref = t[n].mdbref /\ u[n].newmdbref = t[n].newmdbref

(* dosReadDirChild makes or finds the node of a directory entry.           *)
LEMMA ReadTable ==
  ASSUME NEW t, NEW w \in Handles, NEW x, Sound(t, w, TRUE, x), NEW p \in Seq(Names)
  PROVE  LET at == Resolve(t, Drive \o p)
             u == at.table IN
         /\ at.node \in Nat /\ Sound(u, Plus(w, at.node), TRUE, x) /\ Short(u, at.node) = p
         /\ at.node \in Named(u)
         /\ Follows(t, u) /\ \A i \in Named(t) : i \in Named(u) /\ Short(u, i) = Short(t, i)
         /\ Library(u) = Library(t)
<1> DEFINE at == Resolve(t, Drive \o p)
           u == at.table
           m == at.node
<1>1. Sane(t) /\ Counts(t, w, TRUE, x) /\ Refs(t, TRUE)
  BY DEF Sound
<1>2. /\ Sane(u) /\ m \in Named(u) /\ Short(u, m) = p
      /\ Counts(u, Plus(w, m), TRUE, x) /\ Grew(t, u) /\ Refs(u, TRUE)
  BY <1>1, ResolvePath
<1>3. m \in Nat
  BY <1>2, InTable DEF Sane
<1> HIDE DEF u, m
<1>4. \A i \in Named(t) : i \in Named(u) /\ Short(u, i) = Short(t, i) /\ Keeps(t[i], u[i])
  BY <1>1, <1>2, GrewShort
<1>5. ASSUME NEW n \in Named(u)
      PROVE  \/ u[n].mdbref = NoRef /\ u[n].newmdbref = NoRef
             \/ /\ n \in Named(t) /\ Short(u, n) = Short(t, n)
                /\ u[n].mdbref = t[n].mdbref /\ u[n].newmdbref = t[n].newmdbref
  <2>1. CASE n \in Named(t)
    BY <2>1, <1>4 DEF Keeps
  <2>2. CASE n \notin Named(t)
    <3>1. n \in DOMAIN u /\ u[n].name # NoName
      BY DEF Named
    <3>2. Was(t, n).name = NoName
      BY <2>2, HoleIs DEF Was, Named
    <3>3. ~Keeps(Was(t, n), u[n])
      BY <3>1, <3>2 DEF Keeps
    <3>4. u[n].mdbref = NoRef /\ u[n].newmdbref = Was(t, n).newmdbref
      BY <3>1, <3>3, <1>2 DEF Grew
    <3>5. Was(t, n).newmdbref = NoRef
      <4>1. HolesClean(t, TRUE)
        BY <1>1, RefsClean
      <4>2. \A i \in Holes(t) : t[i].newmdbref = NoRef
        BY <4>1, Zenon DEF HolesClean
      <4>3. QED BY <4>2, <2>2, HoleIs DEF Was, Holes
    <3>6. QED BY <3>4, <3>5
  <2>3. QED BY <2>1, <2>2
<1>6. Sound(u, Plus(w, m), TRUE, x)
  BY <1>2 DEF Sound
<1>7. Follows(t, u)
  BY <1>5 DEF Follows
<1>8. Library(u) = Library(t)
  BY <1>1, <1>2, LibraryGrew
<1>9. QED BY <1>2, <1>3, <1>4, <1>6, <1>7, <1>8 DEF u, m

(* An entry of the directory comes into the list. *)
LEMMA ReadDirChildIInv ==
  ASSUME IInv, ReadDirChild
  PROVE  IInv' /\ Library(dirdbData') = Library(dirdbData)
<1> DEFINE w == Wants
           x == ~leaky
           L == Len(stack)
<1>1. PICK p \in Top.toRead : LET at == Resolve(dirdbData, Drive \o p) IN
         /\ dirdbData' = at.table
         /\ stack' = [stack EXCEPT ![Len(stack)] = Listed(@, p, at.node)]
  BY DEF ReadDirChild
<1> DEFINE at == Resolve(dirdbData, Drive \o p)
           m == at.node
           g == Listed(stack[L], p, m)
<1>2. dirdbData' = at.table /\ stack' = [stack EXCEPT ![L] = g]
  BY <1>1
<1>3. /\ pc = "read" /\ pc' = pc /\ tagparentnode' = tagparentnode /\ handle' = handle
      /\ calls' = calls /\ playlist' = playlist /\ leaky' = leaky /\ saved' = saved
      /\ dirs' = dirs /\ files' = files
  BY Zenon DEF ReadDirChild, At, disk
<1>4. /\ Typing /\ Scanning /\ stack # <<>> /\ calls = <<>> /\ handle = tagparentnode
      /\ Sound(dirdbData, w, TRUE, x)
      /\ WalkOK(dirdbData, tagparentnode, files, stack) /\ TagsIn(dirdbData, tagparentnode)
  BY <1>3 DEF IInv, Control, TableOK, Walking
<1>5. /\ stack \in Seq(Frame) /\ tagparentnode \in Int /\ tagparentnode # NoParent
  BY <1>4 DEF Typing, Scanning
<1>6. w \in Handles
  BY <1>5, WantedIs DEF Wants
<1>7. L \in Nat /\ L >= 1 /\ L \in DOMAIN stack /\ stack[L] \in Frame
  BY <1>4, <1>5, FrontIs
<1>8. p \in stack[L].toRead /\ p \in Seq(Names)
  BY <1>7, FrameIs DEF Top
<1>9. tagparentnode \in Named(dirdbData) /\ \A k \in DOMAIN stack : stack[k].ml \subseteq Named(dirdbData)
  BY <1>4, <1>5, WantedNamed DEF Wants
<1> HIDE DEF w, x
<1>10. /\ m \in Nat /\ Sound(at.table, Plus(w, m), TRUE, x) /\ Short(at.table, m) = p
       /\ m \in Named(at.table)
       /\ Follows(dirdbData, at.table)
       /\ \A i \in Named(dirdbData) : i \in Named(at.table) /\ Short(at.table, i) = Short(dirdbData, i)
       /\ Library(at.table) = Library(dirdbData)
  BY <1>4, <1>6, <1>8, ReadTable
<1> HIDE DEF at, m
<1>11. /\ g \in Frame /\ g.ml = stack[L].ml \cup {m} /\ Todo(g) = Todo(stack[L])
  BY <1>7, <1>8, <1>10, ListedIs
<1> HIDE DEF g
<1>12. /\ stack' \in Seq(Frame) /\ Len(stack') = L /\ DOMAIN stack' = DOMAIN stack
       /\ stack'[L] = g /\ \A k \in DOMAIN stack : k # L => stack'[k] = stack[k]
  BY <1>2, <1>4, <1>5, <1>11, PutTopIs
<1>13. m \notin stack[L].ml
  <2>1. FrameOK(dirdbData, tagparentnode, files, stack[L])
    BY <1>4, <1>7 DEF WalkOK
  <2>2. \A n \in stack[L].ml : Short(dirdbData, n) \notin stack[L].toRead
    BY <2>1 DEF FrameOK
  <2>3. \A n \in stack[L].ml : Short(at.table, n) = Short(dirdbData, n)
    BY <1>7, <1>9, <1>10
  <2>4. QED BY <2>2, <2>3, <1>8, <1>10
<1>14. Sound(at.table, Wants', TRUE, x)
  <2>1. \A i : Held(stack', i) = Held(stack, i) + One(i = m)
    <3> SUFFICES ASSUME NEW i
                 PROVE  Held(stack', i) = Held(stack, i) + One(i = m)
      OBVIOUS
    <3>1. \A k \in DOMAIN stack : k # L => stack'[k].ml = stack[k].ml
      BY <1>12
    <3>2. stack'[L].ml = stack[L].ml \cup {m}
      BY <1>11, <1>12
    <3>3. QED BY <3>1, <3>2, <1>5, <1>7, <1>12, <1>13, HeldMore
  <2>2. \A i \in Int : i # NoParent => Wants'[i] = w[i] + One(i = m)
    <3> SUFFICES ASSUME NEW i \in Int
                 PROVE  Wants'[i] = w[i] + One(i = m)
      OBVIOUS
    <3> DEFINE o == One(i = m)
               k == Holders(tagparentnode, handle, playlist, i)
    <3>1. o \in Nat /\ k \in Nat /\ 0 \in Nat
      BY HoldersIs DEF One
    <3>2. Held(stack', i) = Held(stack, i) + o
      BY <2>1
    <3> HIDE DEF o
    <3>3. k = k + 0
      BY <3>1
    <3> HIDE DEF k
    <3>4. Wanted(tagparentnode, handle, playlist, stack')[i]
            = Wanted(tagparentnode, handle, playlist, stack)[i] + 0 + o
      BY <1>5, <1>12, <3>1, <3>2, <3>3, WantedBy DEF k
    <3>5. Wants'[i] = w[i] + 0 + o
      BY <3>4, <1>3, Zenon DEF Wants, w
    <3>6. w[i] \in Nat
      BY <1>6 DEF Handles
    <3>7. QED BY <3>1, <3>5, <3>6 DEF o
  <2>3. Wants' \in Handles
    BY <1>12, WantedIs DEF Wants
  <2>4. m \in Int
    BY <1>10
  <2>5. QED BY <1>6, <1>10, <2>2, <2>3, <2>4, OneMore
<1>15. TableOK'
  BY <1>2, <1>3, <1>5, <1>14 DEF TableOK, Scanning, x
<1>16. Typing'
  BY <1>3, <1>4, <1>12 DEF Typing
<1>17. stack' # <<>>
  BY <1>7, <1>12
<1>18. Control'
  BY <1>3, <1>4, <1>5, <1>17 DEF Control, Scanning
<1>19. SavedOK' /\ Submitting'
  BY <1>3 DEF IInv, SavedOK, Submitting
<1>20. WalkOK(at.table, tagparentnode, files, stack')
  <2>1. \A k \in DOMAIN stack : \A n \in stack[k].ml : Short(at.table, n) = Short(dirdbData, n)
    BY <1>9, <1>10
  <2>2. Short(at.table, tagparentnode) = Short(dirdbData, tagparentnode)
    BY <1>9, <1>10
  <2>3. WalkOK(at.table, tagparentnode, files, stack)
    BY <1>4, <1>10, <2>1, <2>2, WalkFollows, Zenon DEF Follows
  <2>4. QED BY <1>4, <1>5, <1>8, <1>10, <1>12, <2>3, WalkList DEF g
<1>21. TagsIn(at.table, tagparentnode)
  <2>1. \A n \in Named(at.table) : at.table[n].newmdbref # NoRef =>
           /\ n \in Named(dirdbData) /\ Short(at.table, n) = Short(dirdbData, n)
           /\ dirdbData[n].newmdbref # NoRef
    BY <1>10 DEF Follows
  <2>2. Short(at.table, tagparentnode) = Short(dirdbData, tagparentnode)
    BY <1>9, <1>10
  <2>3. QED BY <1>4, <2>1, <2>2 DEF TagsIn, Inner
<1>22. Walking'
  BY <1>2, <1>3, <1>20, <1>21 DEF IInv, Walking
<1>23. QED BY <1>2, <1>10, <1>15, <1>16, <1>18, <1>19, <1>22 DEF IInv

-----------------------------------------------------------------------------
(* A handle is forgotten.                                                  *)
LEMMA LessWanted ==
  ASSUME NEW t, NEW w \in Handles, NEW v \in Handles, \A i \in Int : i # NoParent => v[i] <= w[i],
         NEW s, NEW x, Sound(t, w, s, x)
  PROVE  Sound(t, v, s, FALSE)
<1>1. Sane(t) /\ Counts(t, w, s, x) /\ Refs(t, s) /\ Table(t)
  BY DEF Sound, Sane
<1>2. Named(t) \subseteq DOMAIN t /\ DOMAIN t \subseteq Nat /\ \A n \in Nat : n \in Int /\ n # NoParent
  BY <1>1, InTable DEF NoParent
<1>3. ASSUME NEW n \in Named(t)
      PROVE  Fits(t[n].refcount, Owed(t, v, s, n), FALSE)
  <2>1. /\ KidCount(t, n) \in Nat /\ Tag(t[n], s) \in {0, 1} /\ w[n] \in Nat /\ v[n] \in Nat
        /\ t[n].refcount \in Int
    BY <1>1, <1>2, OwedIs
  <2>2. t[n].refcount >= KidCount(t, n) + Tag(t[n], s) + w[n]
    BY <1>1 DEF Counts, Fits, Owed
  <2>3. v[n] <= w[n]
    BY <1>2
  <2> DEFINE a == KidCount(t, n)
             b == Tag(t[n], s)
             r == t[n].refcount
  <2> HIDE DEF a, b, r
  <2>4. r >= a + b + v[n]
    BY <2>1, <2>2, <2>3 DEF a, b, r
  <2>5. QED BY <2>4 DEF Fits, Owed, a, b, r
<1>4. ASSUME NEW n \in Holes(t)
      PROVE  Fits(t[n].refcount, 0, FALSE)
  BY <1>1 DEF Counts, Fits
<1>5. ASSUME NEW n \in Int, v[n] > 0, n # NoParent
      PROVE  n \in Named(t)
  <2>1. v[n] <= w[n] /\ w[n] \in Nat /\ v[n] \in Nat
    BY <1>5 DEF Handles
  <2>2. w[n] > 0
    BY <2>1, <1>5
  <2>3. QED BY <2>2, <1>1, <1>5 DEF Counts
<1>6. Counts(t, v, s, FALSE)
  BY <1>3, <1>4, <1>5 DEF Counts
<1>7. QED BY <1>1, <1>6 DEF Sound

(* Escape forgets the lists, whose handles leak. *)
LEMMA LostStack ==
  ASSUME NEW t, NEW tp, NEW h, NEW pl, NEW st \in Seq(Frame), NEW s, NEW x,
         Sound(t, Wanted(tp, h, pl, st), s, x)
  PROVE  /\ Sound(t, Wanted(tp, h, pl, <<>>), s, FALSE)
         /\ (\A k \in DOMAIN st : st[k].ml = {}) => Sound(t, Wanted(tp, h, pl, <<>>), s, x)
<1> DEFINE w == Wanted(tp, h, pl, st)
           v == Wanted(tp, h, pl, <<>>)
<1>1. w \in Handles /\ v \in Handles
  BY NoFrames, WantedIs
<1>2. ASSUME NEW i \in Int
      PROVE  v[i] <= w[i] /\ ((\A k \in DOMAIN st : st[k].ml = {}) => v[i] = w[i])
  <2> DEFINE k == Holders(tp, h, pl, i)
             e == Held(st, i)
  <2>1. v[i] = k + 0 /\ w[i] = k + e /\ k \in Nat /\ e \in Nat
    <3>1. w[i] = Holders(tp, h, pl, i) + Held(st, i)
      BY WantedIs
    <3>2. v[i] = Holders(tp, h, pl, i) + Held(<<>>, i) /\ Held(<<>>, i) = 0
      <4>1. <<>> \in Seq(Frame) /\ Held(<<>>, i) = 0
        BY NoFrames
      <4>2. v[i] = Holders(tp, h, pl, i) + Held(<<>>, i)
        BY <4>1, WantedIs, ZenonT(60)
      <4>3. QED BY <4>1, <4>2
    <3>3. QED BY <3>1, <3>2, HoldersIs, HeldIs
  <2>2. (\A j \in DOMAIN st : st[j].ml = {}) => e = 0
    BY HeldIs
  <2> HIDE DEF k, e, w, v
  <2>3. v[i] <= w[i] /\ (e = 0 => v[i] = w[i])
    BY <2>1
  <2>4. QED BY <2>2, <2>3
<1> HIDE DEF w, v
<1>3. Sound(t, w, s, x)
  BY DEF w
<1>4. Sound(t, v, s, FALSE)
  BY <1>1, <1>2, <1>3, LessWanted
<1>5. ASSUME \A k \in DOMAIN st : st[k].ml = {}
      PROVE  Sound(t, v, s, x)
  BY <1>1, <1>2, <1>3, <1>5, WantedAgree
<1>6. QED BY <1>4, <1>5 DEF v

(* A directory has been read, or escape was pressed. *)
LEMMA ReadDoneIInv ==
  ASSUME IInv, ReadDone
  PROVE  IInv'
<1> DEFINE x == ~leaky
<1>1. /\ pc = "read" /\ tagparentnode' = tagparentnode /\ handle' = handle
      /\ calls' = calls /\ playlist' = playlist /\ saved' = saved /\ dirdbData' = dirdbData
      /\ dirs' = dirs /\ files' = files
  BY Zenon DEF ReadDone, At, disk
<1>2. /\ Typing /\ Scanning /\ stack # <<>> /\ calls = <<>> /\ handle = tagparentnode
      /\ Sound(dirdbData, Wants, TRUE, x)
  BY <1>1 DEF IInv, Control, TableOK
<1>3. Scanning' = Scanning /\ stack \in Seq(Frame) /\ leaky \in BOOLEAN
  BY <1>1, <1>2 DEF Scanning, Typing
<1>4. SavedOK'
  BY <1>1 DEF IInv, SavedOK
<1>5. CASE pc' = "files" /\ UNCHANGED <<stack, leaky>>
  <2>1. Typing' /\ Control' /\ TableOK'
    BY <1>1, <1>2, <1>5 DEF IInv, Typing, Control, TableOK, Scanning, Wants
  <2>2. Walking' /\ Submitting'
    BY <1>1, <1>5 DEF IInv, Walking, Submitting
  <2>3. QED BY <1>4, <2>1, <2>2 DEF IInv
<1>6. CASE /\ pc' = "cancel" /\ stack' = <<>>
           /\ leaky' = (leaky \/ \E k \in DOMAIN stack : stack[k].ml # {})
  <2>1. Typing'
    BY <1>1, <1>2, <1>6, NoFrames DEF Typing
  <2>2. Control'
    BY <1>1, <1>2, <1>6 DEF Control, Scanning
  <2>3. Walking' /\ Submitting'
    BY <1>1, <1>6 DEF IInv, Walking, Submitting
  <2> DEFINE v == Wanted(tagparentnode, handle, playlist, <<>>)
  <2>4. /\ Sound(dirdbData, v, TRUE, FALSE)
        /\ (\A k \in DOMAIN stack : stack[k].ml = {}) => Sound(dirdbData, v, TRUE, x)
    <3> HIDE DEF x
    <3>1. QED BY <1>2, <1>3, LostStack DEF Wants
  <2>5. Wants' = v
    BY <1>1, <1>6 DEF Wants
  <2> HIDE DEF v
  <2>6. Sound(dirdbData', Wants', TRUE, ~leaky')
    <3>1. CASE leaky'
      <4>1. (~leaky') = FALSE
        BY <3>1
      <4>2. QED BY <4>1, <2>4, <2>5, <1>1, Zenon
    <3>2. CASE ~leaky'
      <4>1. (~leaky') = x /\ \A k \in DOMAIN stack : stack[k].ml = {}
        BY <3>2, <1>3, <1>6
      <4> HIDE DEF x
      <4>2. QED BY <4>1, <2>4, <2>5, <1>1, Zenon
    <3>3. QED BY <3>1, <3>2
  <2>7. TableOK'
    BY <1>2, <1>3, <2>6, Zenon DEF TableOK
  <2>8. QED BY <1>4, <2>1, <2>2, <2>3, <2>7 DEF IInv
<1>7. QED BY <1>5, <1>6 DEF ReadDone

-----------------------------------------------------------------------------
(* The counts depend on the lists the calls hold, not on what is left.     *)
LEMMA SameHeld ==
  ASSUME NEW t, NEW tp, NEW h, NEW pl, NEW st \in Seq(Frame), NEW u \in Seq(Frame),
         \A i : Held(u, i) = Held(st, i), NEW s, NEW x, Sound(t, Wanted(tp, h, pl, st), s, x)
  PROVE  Sound(t, Wanted(tp, h, pl, u), s, x)
<1> DEFINE w == Wanted(tp, h, pl, st)
           v == Wanted(tp, h, pl, u)
<1>1. w \in Handles /\ v \in Handles
  BY WantedIs
<1>2. \A i \in Int : w[i] = Holders(tp, h, pl, i) + Held(st, i) /\ v[i] = Holders(tp, h, pl, i) + Held(u, i)
  BY WantedIs
<1> HIDE DEF w, v
<1>3. \A i \in Int : i # NoParent => v[i] = w[i]
  BY <1>2
<1>4. Sound(t, w, s, x)
  BY DEF w
<1>5. Sound(t, v, s, x)
  BY <1>1, <1>3, <1>4, WantedAgree
<1>6. QED BY <1>5 DEF v

(* mlSubScan calls itself for a directory in its list. *)
LEMMA SubScanIInv ==
  ASSUME IInv, SubScan
  PROVE  IInv'
<1> DEFINE x == ~leaky
           L == Len(stack)
<1>1. PICK e \in Top.left :
        stack' = Append([stack EXCEPT ![Len(stack)].left = @ \ {e}], Call(dirdbData, e[2]))
  BY DEF SubScan
<1> DEFINE d == Drop(stack[L], e)
           st == [stack EXCEPT ![L] = d]
           g == Call(dirdbData, e[2])
<1>2. /\ pc = "files" /\ pc' = "read" /\ tagparentnode' = tagparentnode /\ handle' = handle
      /\ calls' = calls /\ playlist' = playlist /\ leaky' = leaky /\ saved' = saved
      /\ dirs' = dirs /\ files' = files /\ dirdbData' = dirdbData
  BY Zenon DEF SubScan, At, disk
<1>3. /\ Typing /\ Scanning /\ stack # <<>> /\ calls = <<>> /\ handle = tagparentnode
      /\ Sound(dirdbData, Wants, TRUE, x)
      /\ WalkOK(dirdbData, tagparentnode, files, stack) /\ TagsIn(dirdbData, tagparentnode)
  BY <1>2 DEF IInv, Control, TableOK, Walking
<1>4. /\ stack \in Seq(Frame) /\ tagparentnode \in Int /\ tagparentnode # NoParent
      /\ dirs \subseteq Seq(Names) /\ files \subseteq Seq(Names) \X Mdbrefs /\ leaky \in BOOLEAN
  BY <1>3 DEF Typing, Scanning
<1>5. Scanning' = Scanning
  BY <1>2 DEF Scanning
<1>6. L \in Nat /\ L >= 1 /\ L \in DOMAIN stack /\ stack[L] \in Frame
  BY <1>3, <1>4, FrontIs
<1>7. e \in stack[L].left
  BY DEF Top
<1> HIDE DEF x
<1>8. /\ tagparentnode \in Named(dirdbData)
      /\ \A k \in DOMAIN stack : stack[k].ml \subseteq Named(dirdbData)
  BY <1>3, <1>4, WantedNamed DEF Wants
<1>9. d \in Frame /\ Part(stack[L], d)
  BY <1>6, <1>7, DropIs
<1>10. st = [stack EXCEPT ![L].left = @ \ {e}]
  BY <1>6 DEF Drop
<1> HIDE DEF d
<1>11. /\ st \in Seq(Frame) /\ Len(st) = L /\ DOMAIN st = DOMAIN stack /\ st[L] = d
       /\ \A k \in DOMAIN stack : k # L => st[k] = stack[k]
  BY <1>3, <1>4, <1>9, PutTopIs
<1>12. stack' = Append(st, g)
  BY <1>1, <1>10
<1> HIDE DEF st
<1>13. Sane(dirdbData)
  BY <1>3 DEF Sound
<1>14. /\ WalkOK(dirdbData, tagparentnode, files, st) /\ Alone(st, e[1])
       /\ Inner(dirdbData, tagparentnode, e[1]) /\ Fresh(dirdbData, files, e[1])
       /\ e[1] \in Seq(Names) /\ e[2] \in Named(dirdbData) /\ Short(dirdbData, e[2]) = e[1]
  BY <1>3, <1>4, <1>7, <1>8, <1>11, <1>13, WalkDrop DEF d
<1>15. e[2] \in Nat /\ e[1] \in Seq(AllNames)
  BY <1>13, <1>14, InTable, MoreNames DEF Sane
<1>16. /\ g \in Frame /\ g.ml = {} /\ g.left = {}
       /\ \A q \in g.toRead : q \in Seq(AllNames) /\ Pre(e[1], q) /\ Len(q) = Len(e[1]) + 1
  BY <1>4, <1>14, <1>15, CallIs
<1> HIDE DEF g
<1>17. /\ stack' \in Seq(Frame) /\ Len(stack') = Len(st) + 1 /\ stack'[Len(stack')] = g
       /\ \A k \in DOMAIN st : stack'[k] = st[k]
  <2>1. DOMAIN st = 1 .. Len(st)
    BY <1>11, DomainIs
  <2>2. QED BY <2>1, <1>11, <1>12, <1>16, AppendIs
<1>18. \A i : Held(stack', i) = Held(stack, i)
  <2> SUFFICES ASSUME NEW i
               PROVE  Held(stack', i) = Held(stack, i)
    OBVIOUS
  <2>1. \A k \in DOMAIN stack : st[k].ml = stack[k].ml
    BY <1>9, <1>11 DEF Part
  <2>2. Held(st, i) = Held(stack, i)
    BY <2>1, <1>11, HeldSame
  <2>3. Held(stack', i) = Held(st, i) + One(i \in stack'[Len(stack')].ml)
    BY <1>11, <1>17, HeldTop
  <2>4. One(i \in stack'[Len(stack')].ml) = 0
    BY <1>16, <1>17 DEF One
  <2>5. Held(st, i) \in Nat
    BY <1>11, HeldIs
  <2>6. QED BY <2>2, <2>3, <2>4, <2>5
<1>19. Sound(dirdbData, Wants', TRUE, x)
  <2>1. Sound(dirdbData, Wanted(tagparentnode, handle, playlist, stack'), TRUE, x)
    BY <1>3, <1>4, <1>17, <1>18, SameHeld DEF Wants
  <2>2. QED BY <2>1, <1>2, Zenon DEF Wants
<1>20. TableOK'
  BY <1>2, <1>3, <1>5, <1>19, Zenon DEF TableOK, x
<1>21. Typing'
  BY <1>2, <1>3, <1>17 DEF Typing
<1>22. stack' # <<>>
  BY <1>11, <1>17
<1>23. Control'
  BY <1>2, <1>3, <1>5, <1>22 DEF Control
<1>24. SavedOK' /\ Submitting'
  BY <1>2 DEF IInv, SavedOK, Submitting
<1>25. WalkOK(dirdbData, tagparentnode, files, stack')
  <2>1. ASSUME NEW q \in g.toRead
        PROVE  Inner(dirdbData, tagparentnode, q) /\ Fresh(dirdbData, files, q)
    <3>1. q \in Seq(AllNames) /\ Pre(e[1], q) /\ Len(q) = Len(e[1]) + 1 /\ Len(e[1]) \in Nat
      BY <1>15, <1>16
    <3>2. Len(e[1]) < Len(q)
      BY <3>1
    <3>3. Short(dirdbData, tagparentnode) \in Seq(AllNames)
      BY <1>8, <1>13, ShortIs
    <3>4. Inner(dirdbData, tagparentnode, q)
      BY <1>14, <1>15, <3>1, <3>2, <3>3, InnerBelow DEF Inner
    <3>5. Fresh(dirdbData, files, q)
      BY <1>13, <1>14, <1>15, <3>1, FreshBelow
    <3>6. QED BY <3>4, <3>5
  <2>2. QED BY <1>11, <1>14, <1>15, <1>16, <1>17, <2>1, WalkCall
<1>26. Walking'
  BY <1>2, <1>3, <1>25 DEF IInv, Walking
<1>27. QED BY <1>20, <1>21, <1>23, <1>24, <1>26 DEF IInv

-----------------------------------------------------------------------------
(* A module file is tagged. *)
LEMMA TagFileIInv ==
  ASSUME IInv, TagFile
  PROVE  IInv' /\ Library(dirdbData') = Library(dirdbData)
<1> DEFINE x == ~leaky
           L == Len(stack)
           t == dirdbData
           tp == tagparentnode
<1>1. PICK e \in Top.left, f \in files :
        /\ e[1] = f[1] /\ stack' = [stack EXCEPT ![Len(stack)].left = @ \ {e}]
        /\ dirdbData' = MakeMdbAdbRef(dirdbData, e[2], f[2])
  BY DEF TagFile
<1> DEFINE d == Drop(stack[L], e)
           m == e[2]
           u == MakeMdbAdbRef(t, m, f[2])
<1>2. /\ pc = "files" /\ pc' = pc /\ tagparentnode' = tagparentnode /\ handle' = handle
      /\ calls' = calls /\ playlist' = playlist /\ leaky' = leaky /\ saved' = saved
      /\ dirs' = dirs /\ files' = files
  BY Zenon DEF TagFile, At, disk
<1>3. /\ Typing /\ Scanning /\ stack # <<>> /\ calls = <<>> /\ handle = tagparentnode
      /\ Sound(t, Wants, TRUE, x) /\ WalkOK(t, tp, files, stack) /\ TagsIn(t, tp)
  BY <1>2 DEF IInv, Control, TableOK, Walking
<1>4. /\ stack \in Seq(Frame) /\ tagparentnode \in Int /\ tagparentnode # NoParent
      /\ files \subseteq Seq(Names) \X Mdbrefs
  BY <1>3 DEF Typing, Scanning
<1>5. Scanning' = Scanning
  BY <1>2 DEF Scanning
<1>6. L \in Nat /\ L >= 1 /\ L \in DOMAIN stack /\ stack[L] \in Frame
  BY <1>3, <1>4, FrontIs
<1>7. e \in stack[L].left
  BY DEF Top
<1> HIDE DEF x
<1>8. tp \in Named(t) /\ \A k \in DOMAIN stack : stack[k].ml \subseteq Named(t)
  BY <1>3, <1>4, WantedNamed DEF Wants
<1>9. d \in Frame /\ Part(stack[L], d)
  BY <1>6, <1>7, DropIs
<1>10. stack' = [stack EXCEPT ![L] = d]
  BY <1>1, <1>6 DEF Drop
<1> HIDE DEF d
<1>11. /\ stack' \in Seq(Frame) /\ Len(stack') = L /\ DOMAIN stack' = DOMAIN stack /\ stack'[L] = d
       /\ \A k \in DOMAIN stack : k # L => stack'[k] = stack[k]
  BY <1>3, <1>4, <1>9, <1>10, PutTopIs
<1>12. Sane(t) /\ Refs(t, TRUE) /\ Counts(t, Wants, TRUE, x) /\ Wants \in Handles
  BY <1>3, <1>4, WantedIs DEF Sound, Wants
<1>13. /\ WalkOK(t, tp, files, stack') /\ Alone(stack', e[1])
       /\ Inner(t, tp, e[1]) /\ Fresh(t, files, e[1])
       /\ m \in Named(t) /\ Short(t, m) = e[1] /\ e[1] \in Seq(Names)
  <2>1. Sane(t) /\ stack # <<>> /\ WalkOK(t, tp, files, stack)
    BY <1>3, <1>12
  <2>2. stack'[L] = Drop(stack[L], e)
    BY <1>11 DEF d
  <2>3. /\ stack \in Seq(Frame) /\ \A k \in DOMAIN stack : stack[k].ml \subseteq Named(t)
        /\ e \in stack[Len(stack)].left /\ stack' \in Seq(Frame) /\ Len(stack') = Len(stack)
        /\ DOMAIN stack' = DOMAIN stack /\ stack'[Len(stack)] = Drop(stack[Len(stack)], e)
        /\ \A k \in DOMAIN stack : k # Len(stack) => stack'[k] = stack[k]
    BY <2>2, <1>4, <1>7, <1>8, <1>11
  <2>4. /\ WalkOK(t, tp, files, stack') /\ Alone(stack', e[1])
        /\ Inner(t, tp, e[1]) /\ Fresh(t, files, e[1])
        /\ e[1] \in Seq(Names) /\ e[2] \in Named(t) /\ Short(t, e[2]) = e[1]
    <3>1. QED BY <2>1, <2>3, WalkDrop, ZenonT(60)
  <2>5. QED BY <2>4
<1>14. f[2] \in Mdbrefs
  BY <1>4
<1>15. t[m].newmdbref = NoRef /\ t[m].mdbref = NoRef
  <2>1. Pre(e[1], Short(t, m))
    BY <1>13, PreSelf
  <2>2. t[m].newmdbref = NoRef /\ (t[m].mdbref # NoRef => \A b \in files : b[1] # Short(t, m))
    BY <2>1, <1>13 DEF Fresh
  <2>3. f[1] = Short(t, m)
    BY <1>1, <1>13
  <2>4. QED BY <2>2, <2>3
<1> HIDE DEF m
<1>16. /\ Sane(u) /\ Paths(u) = Paths(t) /\ Named(u) = Named(t)
       /\ Counts(u, Wants, TRUE, x) /\ Refs(u, TRUE)
       /\ DOMAIN u = DOMAIN t /\ u[m].mdbref = NoRef /\ \A i \in DOMAIN t : i # m => u[i] = t[i]
  <2> DEFINE r == f[2]
             w == Wants
  <2>1. Sane(t) /\ Refs(t, TRUE) /\ Counts(t, w, TRUE, x) /\ w \in Handles /\ r \in Mdbrefs
        /\ m \in Named(t) /\ t[m].newmdbref = NoRef /\ t[m].mdbref = NoRef
    BY <1>12, <1>13, <1>14, <1>15
  <2> HIDE DEF r, w
  <2>2. Marked(t, MakeMdbAdbRef(t, m, r), w, x, m, r)
    BY <2>1, MakeMdbAdbRefIs
  <2>3. QED BY <2>2 DEF r, w, Marked
<1>17. dirdbData' = u
  BY <1>1 DEF m
<1> HIDE DEF u
<1>18. \A i : Held(stack', i) = Held(stack, i)
  <2>1. \A k \in DOMAIN stack : stack'[k].ml = stack[k].ml
    BY <1>9, <1>11 DEF Part
  <2>2. QED BY <2>1, <1>11, HeldSame
<1>19. Sound(u, Wants', TRUE, x)
  <2>1. Sound(u, Wanted(tagparentnode, handle, playlist, stack), TRUE, x)
    BY <1>16 DEF Sound, Wants
  <2>2. Sound(u, Wanted(tagparentnode, handle, playlist, stack'), TRUE, x)
    BY <2>1, <1>4, <1>11, <1>18, SameHeld
  <2>3. QED BY <2>2, <1>2, Zenon DEF Wants
<1>20. TableOK'
  BY <1>2, <1>3, <1>5, <1>17, <1>19, Zenon DEF TableOK, x
<1>21. Typing'
  BY <1>2, <1>3, <1>11 DEF Typing
<1>22. stack' # <<>>
  BY <1>6, <1>11
<1>23. Control'
  BY <1>2, <1>3, <1>5, <1>22 DEF Control
<1>24. SavedOK' /\ Submitting'
  BY <1>2 DEF IInv, SavedOK, Submitting
<1>25. \A i : Short(u, i) = Short(t, i)
  BY <1>16 DEF Short
<1>26. WalkOK(u, tp, files, stack')
  <2>1. \A i \in Named(t) : i # m => u[i] = t[i]
    BY <1>16 DEF Named
  <2>2. Alone(stack', Short(t, m))
    BY <1>13
  <2>3. QED BY <1>12, <1>13, <1>16, <2>1, <2>2, WalkTag
<1>27. TagsIn(u, tp)
  <2> SUFFICES ASSUME NEW n \in Named(u), u[n].newmdbref # NoRef
               PROVE  Inner(u, tp, Short(u, n))
    BY DEF TagsIn
  <2>1. n \in Named(t) /\ n \in DOMAIN t
    BY <1>16 DEF Named
  <2>2. Inner(t, tp, Short(t, n))
    <3>1. CASE n = m
      BY <3>1, <1>13
    <3>2. CASE n # m
      BY <3>2, <2>1, <1>3, <1>16 DEF TagsIn
    <3>3. QED BY <3>1, <3>2
  <2>3. QED BY <2>2, <1>25 DEF Inner
<1>28. Walking'
  BY <1>2, <1>17, <1>26, <1>27 DEF IInv, Walking
<1>29. Library(dirdbData') = Library(dirdbData)
  <2>1. \A i \in Named(t) : u[i].mdbref = t[i].mdbref
    BY <1>15, <1>16 DEF Named
  <2>2. Library(u) = Library(t)
    BY <1>16, <2>1, LibrarySame
  <2>3. QED BY <1>17, <2>2
<1>30. QED BY <1>20, <1>21, <1>23, <1>24, <1>28, <1>29 DEF IInv

-----------------------------------------------------------------------------
(* The handles of the top's list are to be given back. *)
LEMMA HoldTop ==
  ASSUME NEW t, NEW tp, NEW h, NEW pl, NEW st \in Seq(Frame), NEW fr \in Seq(Frame),
         Len(st) = Len(fr) + 1, \A k \in DOMAIN fr : st[k] = fr[k],
         NEW S, S = st[Len(st)].ml, S \subseteq Nat, NEW s, NEW x, Sound(t, Wanted(tp, h, pl, st), s, x)
  PROVE  Sound(t, Hold(Wanted(tp, h, pl, fr), S, 0), s, x)
<1> DEFINE w == Wanted(tp, h, pl, st)
           v == Wanted(tp, h, pl, fr)
           z == Hold(v, S, 0)
<1>1. w \in Handles /\ v \in Handles
  BY WantedIs
<1>2. z \in Handles
  BY <1>1, HoldIs
<1>3. ASSUME NEW i \in Int
      PROVE  z[i] = w[i]
  <2> DEFINE o == One(i \in S)
             k == Holders(tp, h, pl, i)
             e == Held(fr, i)
             g == Held(st, i)
  <2>1. w[i] = k + g /\ v[i] = k + e
    BY WantedIs
  <2>2. g = e + o
    BY HeldTop
  <2>3. k \in Nat /\ e \in Nat /\ o \in Nat
    BY HoldersIs, HeldIs DEF One
  <2>4. o = IF i \in S /\ i >= 0 THEN 1 ELSE 0
    BY DEF One
  <2>5. z[i] = v[i] + IF i \in S /\ i >= 0 THEN 1 ELSE 0
    BY DEF Hold
  <2> HIDE DEF o, k, e, g, w, v, z
  <2>6. z[i] = v[i] + o
    BY <2>4, <2>5
  <2>7. QED BY <2>1, <2>2, <2>3, <2>6
<1> HIDE DEF w, v, z
<1>4. Sound(t, w, s, x)
  BY DEF w
<1>5. Sound(t, z, s, x)
  BY <1>1, <1>2, <1>3, <1>4, WantedAgree
<1>6. QED BY <1>5 DEF z, v

(* modlist_free gives them back. *)
LEMMA FreeList ==
  ASSUME NEW t, NEW w \in Handles, w[0] >= 1, NEW S, S \subseteq DOMAIN t, NEW x,
         Sound(t, Hold(w, S, 0), TRUE, x)
  PROVE  LET u == UnrefAll(t, S) IN
         /\ Sound(u, w, TRUE, x) /\ Shrunk(t, u, TRUE) /\ Follows(t, u)
         /\ \A n \in Named(u) : n \in Named(t) /\ Short(u, n) = Short(t, n)
         /\ Library(u) = Library(t)
<1> DEFINE u == UnrefAll(t, S)
<1>1. Sane(t) /\ Counts(t, Hold(w, S, 0), TRUE, x) /\ Refs(t, TRUE)
  BY DEF Sound
<1>2. Sane(u) /\ Counts(u, w, TRUE, x) /\ Shrunk(t, u, TRUE)
  BY <1>1, UnrefAllIs DEF Freed
<1> HIDE DEF u
<1>3. Refs(u, TRUE)
  BY <1>1, <1>2, RefsShrunk
<1>4. \A n \in Named(u) : n \in Named(t) /\ Short(u, n) = Short(t, n) /\ Keeps(t[n], u[n])
  BY <1>1, <1>2, ShrunkShort
<1>5. Follows(t, u)
  BY <1>4 DEF Follows, Keeps
<1>6. Library(u) = Library(t)
  BY <1>1, <1>2, ShrunkKept, LibraryKept
<1>7. QED BY <1>2, <1>3, <1>4, <1>5, <1>6 DEF Sound, u

(* mlSubScan returns. *)
LEMMA SubScanDoneIInv ==
  ASSUME IInv, SubScanDone
  PROVE  IInv' /\ Library(dirdbData') = Library(dirdbData)
<1> DEFINE x == ~leaky
           L == Len(stack)
           t == dirdbData
           tp == tagparentnode
           S == stack[L].ml
           fr == Front(stack)
           u == UnrefAll(t, S)
           v == Wanted(tp, handle, playlist, fr)
<1>1. /\ pc = "files" /\ tagparentnode' = tagparentnode /\ handle' = handle
      /\ playlist' = playlist /\ leaky' = leaky /\ saved' = saved
      /\ dirs' = dirs /\ files' = files /\ dirdbData' = u /\ stack' = fr
  BY Zenon DEF SubScanDone, At, disk, Top
<1>2. IF L > 1 THEN pc' = "files" /\ calls' = calls
               ELSE pc' = "submit" /\ calls' = <<[node |-> tp, next |-> 0]>>
  BY DEF SubScanDone
<1>3. /\ Typing /\ Scanning /\ stack # <<>> /\ calls = <<>> /\ handle = tagparentnode
      /\ Sound(t, Wants, TRUE, x) /\ WalkOK(t, tp, files, stack) /\ TagsIn(t, tp)
  BY <1>1 DEF IInv, Control, TableOK, Walking
<1>4. stack \in Seq(Frame) /\ tp \in Int /\ tp # NoParent
  BY <1>3 DEF Typing, Scanning
<1>5. Scanning' = Scanning
  BY <1>1 DEF Scanning
<1>6. /\ fr \in Seq(Frame) /\ L = Len(fr) + 1 /\ L \in Nat /\ L >= 1 /\ L \in DOMAIN stack
      /\ stack[L] \in Frame /\ DOMAIN fr \subseteq DOMAIN stack
      /\ \A k \in DOMAIN fr : fr[k] = stack[k]
  BY <1>3, <1>4, FrontIs
<1> HIDE DEF x
<1>7. \A k \in DOMAIN stack : stack[k].ml \subseteq Named(t)
  BY <1>3, <1>4, WantedNamed DEF Wants
<1>8. S \subseteq Nat /\ S \subseteq DOMAIN t
  <2>1. S \subseteq Nat
    BY <1>6, FrameIs
  <2>2. S \subseteq Named(t)
    BY <1>6, <1>7
  <2>3. QED BY <2>1, <2>2 DEF Named
<1> HIDE DEF fr, S
<1>9. v \in Handles /\ v[0] >= 1
  BY <1>6, WantedIs
<1>10. Sound(t, Hold(v, S, 0), TRUE, x)
  <2>1. Sound(t, Wanted(tagparentnode, handle, playlist, stack), TRUE, x)
    BY <1>3 DEF Wants
  <2>2. S = stack[Len(stack)].ml
    BY DEF S
  <2>3. \A k \in DOMAIN fr : stack[k] = fr[k]
    BY <1>6
  <2>4. QED BY <2>1, <2>2, <2>3, <1>4, <1>6, <1>8, HoldTop
<1> HIDE DEF v
<1>11. /\ Sound(u, v, TRUE, x) /\ Follows(t, u)
       /\ \A n \in Named(u) : n \in Named(t) /\ Short(u, n) = Short(t, n)
       /\ Library(u) = Library(t)
  <2> HIDE DEF v
  <2>1. S \subseteq DOMAIN t
    BY <1>8
  <2>2. /\ Sound(u, v, TRUE, x) /\ Shrunk(t, u, TRUE) /\ Follows(t, u)
        /\ \A n \in Named(u) : n \in Named(t) /\ Short(u, n) = Short(t, n)
        /\ Library(u) = Library(t)
    BY <2>1, <1>9, <1>10, FreeList, Zenon DEF u
  <2>3. QED BY <2>2, Zenon
<1> HIDE DEF u
<1>12. Sound(u, Wants', TRUE, x)
  BY <1>1, <1>11, Zenon DEF v, Wants
<1>13. TableOK'
  BY <1>1, <1>3, <1>5, <1>12, Zenon DEF TableOK, x
<1>14. /\ tp \in Named(u) /\ \A k \in DOMAIN fr : fr[k].ml \subseteq Named(u)
  <2>1. Sound(u, Wanted(tp, handle, playlist, fr), TRUE, x)
    BY <1>11, Zenon DEF v
  <2>2. QED BY <2>1, <1>4, <1>6, WantedNamed
<1>15. tp \in Nat /\ Sane(u)
  BY <1>11, <1>14, InTable DEF Sound, Sane
<1>16. SavedOK'
  BY <1>1 DEF IInv, SavedOK
<1>17. WalkOK(u, tp, files, fr)
  <2>1. WalkOK(t, tp, files, fr)
    BY <1>3, <1>6, WalkFront
  <2>2. Short(u, tp) = Short(t, tp)
    BY <1>11, <1>14
  <2>3. \A k \in DOMAIN fr : \A n \in fr[k].ml : Short(u, n) = Short(t, n)
    BY <1>11, <1>14
  <2>4. QED BY <1>11, <2>1, <2>2, <2>3, WalkFollows, Zenon DEF Follows
<1>18. TagsIn(u, tp)
  <2>1. \A n \in Named(u) : u[n].newmdbref # NoRef =>
           n \in Named(t) /\ Short(u, n) = Short(t, n) /\ t[n].newmdbref # NoRef
    BY <1>11 DEF Follows
  <2>2. Short(u, tp) = Short(t, tp)
    BY <1>11, <1>14
  <2>3. QED BY <1>3, <2>1, <2>2 DEF TagsIn, Inner
<1>a. Library(dirdbData') = Library(dirdbData)
  BY <1>1, <1>11
<1>19. CASE L > 1
  <2>1. pc' = "files" /\ calls' = calls
    BY <1>2, <1>19
  <2>2. stack' # <<>>
    BY <1>1, <1>6, <1>19
  <2>3. Typing'
    BY <1>1, <1>3, <1>6, <2>1 DEF Typing
  <2>4. Control'
    BY <1>1, <1>3, <1>5, <2>1, <2>2 DEF Control
  <2>5. Walking' /\ Submitting'
    BY <1>1, <1>17, <1>18, <2>1 DEF IInv, Walking, Submitting
  <2>6. QED BY <1>13, <1>16, <1>a, <2>3, <2>4, <2>5 DEF IInv
<1>20. CASE ~(L > 1)
  <2>1. pc' = "submit" /\ calls' = <<[node |-> tp, next |-> 0]>>
    BY <1>2, <1>20
  <2>2. stack' = <<>>
    BY <1>1, <1>6, <1>20
  <2>3. /\ calls' \in Seq(SubmitCall) /\ calls' # <<>> /\ DOMAIN calls' = {1}
        /\ calls'[1].node = tp /\ calls'[1].next = 0
    <3>1. [node |-> tp, next |-> 0] \in SubmitCall
      BY <1>15 DEF SubmitCall
    <3>2. QED BY <2>1, <3>1
  <2>4. Typing'
    BY <1>1, <1>3, <1>6, <2>3 DEF Typing
  <2>5. Control'
    BY <1>1, <1>3, <1>5, <2>1, <2>2, <2>3 DEF Control
  <2>6. Walking'
    BY <1>1, <2>1 DEF IInv, Walking
  <2>7. Reached(u, calls')
    BY <1>14, <1>15, <1>18, <2>3, ReachStart
  <2>8. Restarts => tp # 0
    BY DEF IInv, Walking
  <2>9. Submitting'
    BY <1>1, <2>3, <2>7, <2>8 DEF Submitting
  <2>10. QED BY <1>13, <1>16, <1>a, <2>4, <2>5, <2>6, <2>9 DEF IInv
<1>21. QED BY <1>19, <1>20

-----------------------------------------------------------------------------
(* The scan gives its two handles back.                                    *)
LEMMA TwoHandles ==
  ASSUME NEW t, NEW pl, NEW st \in Seq(Frame), NEW n \in Nat, NEW s, NEW x
  PROVE  LET w == Wanted(NoParent, NoParent, pl, st)
             v == Wanted(NoParent, n, pl, st)
             z == Wanted(n, n, pl, st) IN
         /\ w \in Handles /\ v \in Handles /\ w[0] >= 1 /\ v[0] >= 1
         /\ Sound(t, v, s, x) => Sound(t, Plus(w, n), s, x)
         /\ Sound(t, z, s, x) => Sound(t, Plus(v, n), s, x)
<1> DEFINE w == Wanted(NoParent, NoParent, pl, st)
           v == Wanted(NoParent, n, pl, st)
           z == Wanted(n, n, pl, st)
<1>1. w \in Handles /\ v \in Handles /\ z \in Handles /\ w[0] >= 1 /\ v[0] >= 1
  BY WantedIs
<1>2. PICK u \in Seq(Frame) : u = st
  OBVIOUS
<1>3. \A i : Held(u, i) = Held(st, i)
  BY <1>2
<1>4. \A i \in Int : i # NoParent => Wanted(NoParent, n, pl, u)[i] = w[i] + One(i = n)
                                     /\ Wanted(n, n, pl, u)[i] = v[i] + One(i = n)
  BY <1>3, ScanWants
<1>5. \A i \in Int : i # NoParent => v[i] = w[i] + One(i = n) /\ z[i] = v[i] + One(i = n)
  BY <1>2, <1>4
<1> HIDE DEF w, v, z
<1>6. n \in Int
  OBVIOUS
<1>7. Sound(t, v, s, x) => Sound(t, Plus(w, n), s, x)
  BY <1>1, <1>5, <1>6, OneMore
<1>8. Sound(t, z, s, x) => Sound(t, Plus(v, n), s, x)
  BY <1>1, <1>5, <1>6, OneMore
<1>9. QED BY <1>1, <1>7, <1>8 DEF w, v, z

(* dirdbTagCancel drops the tags and gives its handle back. *)
LEMMA CancelTable ==
  ASSUME NEW t, NEW w \in Handles, w[0] >= 1, NEW x, NEW n \in Named(t),
         Sound(t, Plus(w, n), TRUE, x)
  PROVE  Sound(TagCancel(t, n), w, FALSE, x) /\ Library(TagCancel(t, n)) = Library(t)
<1>1. Sane(t) /\ Counts(t, Plus(w, n), TRUE, x) /\ Refs(t, TRUE)
  BY DEF Sound
<1>2. LET u == TagCancel(t, n) IN
      Sane(u) /\ Counts(u, w, FALSE, x) /\ Refs(u, FALSE) /\ Kept(t, u)
  BY <1>1, TagCancelIs
<1>3. Library(TagCancel(t, n)) = Library(t)
  BY <1>1, <1>2, LibraryKept
<1>4. QED BY <1>2, <1>3 DEF Sound

(* An aborted scan ends. *)
LEMMA CancelIInv ==
  ASSUME IInv, Cancel
  PROVE  IInv' /\ Library(dirdbData') = Library(dirdbData)
<1> DEFINE x == ~leaky
           t == dirdbData
           n == tagparentnode
           u == TagCancel(t, n)
           w == Wanted(NoParent, NoParent, playlist, <<>>)
           v == Wanted(NoParent, n, playlist, <<>>)
           z == Wanted(n, n, playlist, <<>>)
<1>1. /\ pc = "cancel" /\ pc' = "idle" /\ tagparentnode' = NoParent /\ handle' = NoParent
      /\ playlist' = playlist /\ leaky' = leaky /\ saved' = saved /\ stack' = <<>> /\ calls' = <<>>
      /\ dirs' = dirs /\ files' = files /\ dirdbData' = Unref(u, handle)
  BY Zenon DEF Cancel, At, disk, Forgotten
<1>2. /\ Typing /\ Scanning /\ stack = <<>> /\ handle = n
      /\ Sound(t, Wants, TRUE, x)
  BY <1>1 DEF IInv, Control, TableOK
<1>3. stack \in Seq(Frame) /\ n \in Int /\ n # NoParent
  BY <1>2 DEF Typing, Scanning
<1>4. n \in Named(t) /\ n \in Nat
  BY <1>2, <1>3, WantedNamed DEF Wants
<1> HIDE DEF x
<1>5. Sound(t, z, TRUE, x)
  BY <1>2, Zenon DEF Wants
<1>6. /\ w \in Handles /\ v \in Handles /\ w[0] >= 1 /\ v[0] >= 1
      /\ Sound(t, Plus(v, n), TRUE, x)
  BY <1>4, <1>5, NoFrames, TwoHandles
<1>7. Sound(u, v, FALSE, x) /\ Library(u) = Library(t)
  <2> HIDE DEF v, u
  <2>1. QED BY <1>4, <1>6, CancelTable DEF u
<1>8. Sound(u, Plus(w, n), FALSE, x)
  BY <1>4, <1>7, NoFrames, TwoHandles
<1>9. n \in Named(u)
  <2>1. Sound(u, Wanted(NoParent, n, playlist, <<>>), FALSE, x)
    BY <1>7
  <2> HIDE DEF u
  <2>2. QED BY <2>1, <1>3, NoFrames, WantedNamed
<1> HIDE DEF u, w
<1>10. Sound(Unref(u, n), w, FALSE, x)
  BY <1>6, <1>8, <1>9, UnrefSound
<1>11. Sound(dirdbData', Wants', FALSE, ~leaky')
  BY <1>1, <1>2, <1>10, Zenon DEF w, x, Wants
<1>12. TableOK'
  BY <1>1, <1>11, Zenon DEF TableOK, Scanning
<1>a. NoParent \in Int /\ NoParent # 0
  BY DEF NoParent
<1>13. Typing'
  BY <1>1, <1>2, <1>a, NoFrames DEF Typing
<1>14. Control'
  BY <1>1 DEF Control, Scanning
<1>15. SavedOK' /\ Submitting'
  BY <1>1 DEF IInv, SavedOK, Submitting
<1>16. Walking'
  BY <1>1, <1>a DEF Walking
<1>17. Library(dirdbData') = Library(dirdbData)
  <2>1. Shrunk(u, Unref(u, n), FALSE)
    BY <1>6, <1>8, <1>9, UnrefSound
  <2>2. Sane(u) /\ Sane(Unref(u, n))
    BY <1>7, <1>10 DEF Sound
  <2>3. Library(Unref(u, n)) = Library(u)
    BY <2>1, <2>2, ShrunkKept, LibraryKept
  <2>4. QED BY <1>1, <1>2, <1>7, <2>3
<1>18. QED BY <1>12, <1>13, <1>14, <1>15, <1>16, <1>17 DEF IInv

-----------------------------------------------------------------------------
(* A file dirdbInit can read. *)
FileOK(file) == file.torn \in {"no", "fields", "name"} /\ file.entries \in Nat /\ (Restarts => LoadOK(Load(file)))

(* A file that was written whole, *)
LEMMA FileOfOK ==
  ASSUME NEW t, Sane(t), Refs(t, FALSE)
  PROVE  FileOK(FileOf(t))
<1>1. FileOf(t).torn = "no" /\ FileOf(t).entries = EntryCount(t) /\ EntryCount(t) \in Nat
  BY EntryCountIs DEF FileOf
<1>2. Restarts => LoadOK(Load(FileOf(t)))
  BY LoadedIs
<1>3. "no" \in {"no", "fields", "name"}
  OBVIOUS
<1>4. QED BY <1>1, <1>2, <1>3, Zenon DEF FileOK

(* an empty one, *)
LEMMA NoFileOK == FileOK(NoFile)
<1>1. NoFile.torn = "no" /\ NoFile.entries = 0
  BY DEF NoFile
<1>2. LoadOK(Load(NoFile))
  BY NoFileIs
<1>3. "no" \in {"no", "fields", "name"} /\ 0 \in Nat
  OBVIOUS
<1>4. QED BY <1>1, <1>2, <1>3, Zenon DEF FileOK

(* and one that ends inside the fields of an entry, *)
LEMMA TornOK ==
  ASSUME NEW t, Sane(t), Refs(t, FALSE), NEW n \in 0 .. EntryCount(t) - 1
  PROVE  FileOK(Torn(t, n))
<1>1. EntryCount(t) \in Nat
  BY EntryCountIs
<1>2. n \in Nat /\ n < EntryCount(t)
  BY <1>1
<1>3. Torn(t, n).torn = "fields" /\ Torn(t, n).entries = EntryCount(t)
  BY DEF Torn, FileOf
<1>4. Restarts => LoadOK(Load(Torn(t, n)))
  BY <1>2, TornIs
<1>5. "fields" \in {"no", "fields", "name"}
  OBVIOUS
<1>6. QED BY <1>1, <1>3, <1>4, <1>5, Zenon DEF FileOK

(* so any file a failing write leaves that does not break off elsewhere. *)
LEMMA CutOK ==
  ASSUME NEW t, Sane(t), Refs(t, FALSE), NEW errors, errors \cap {"between", "name"} = {},
         NEW file \in CutFiles(t, errors)
  PROVE  FileOK(file)
<1>1. file = NoFile \/ \E n \in Named(t) : file = Cut(t, n, "fields")
  <2>1. \/ file \in {NoFile : e \in errors \cap {"header"}}
        \/ file \in {Cut(t, n, "no") : n \in 0 .. EntryCount(t) - 1, e \in errors \cap {"between"}}
        \/ file \in {Cut(t, n, e) : n \in Named(t), e \in errors \cap {"fields", "name"}}
    BY DEF CutFiles
  <2>2. errors \cap {"between"} = {} /\ errors \cap {"fields", "name"} \subseteq {"fields"}
    OBVIOUS
  <2>3. QED BY <2>1, <2>2
<1>2. CASE file = NoFile
  BY <1>2, NoFileOK
<1>3. ASSUME NEW n \in Named(t), file = Cut(t, n, "fields")
      PROVE  FileOK(file)
  <2>1. n \in 0 .. EntryCount(t) - 1
    BY EntryCountIs
  <2>2. file = Torn(t, n)
    BY <1>3, Zenon DEF Torn, Cut
  <2>3. QED BY <2>1, <2>2, TornOK
<1>4. QED BY <1>1, <1>2, <1>3

(* The purge in dirdbFlush keeps the table sound and the library.          *)
LEMMA PurgedSound ==
  ASSUME NEW t, NEW v \in Handles, v[0] >= 1, NEW x, Sound(t, v, FALSE, x)
  PROVE  Sound(Purged(t), v, FALSE, x) /\ Library(Purged(t)) = Library(t)
<1> DEFINE u == Purged(t)
<1>1. Sane(t) /\ Counts(t, v, FALSE, x) /\ Refs(t, FALSE)
  BY DEF Sound
<1> HIDE DEF u
<1>2. Freed(t, u, v, FALSE, x)
  BY <1>1, PurgedIs DEF u
<1>3. Sane(u) /\ Counts(u, v, FALSE, x) /\ Shrunk(t, u, FALSE)
  BY <1>2 DEF Freed
<1>4. Refs(u, FALSE)
  BY <1>1, <1>3, RefsShrunk
<1>5. Library(u) = Library(t)
  BY <1>1, <1>3, ShrunkKept, LibraryKept
<1>6. QED BY <1>3, <1>4, <1>5 DEF Sound, u

(* dirdbFlush, and the end of mlSourcesAdd. *)
LEMMA FlushIInv ==
  ASSUME IInv, Premises, Flush
  PROVE  IInv' /\ Library(dirdbData') = Library(dirdbData)
<1> DEFINE x == ~leaky
           t == dirdbData
           n == handle
           u == Purged(t)
           w == Wanted(NoParent, NoParent, playlist, <<>>)
           v == Wanted(NoParent, n, playlist, <<>>)
<1>1. /\ pc = "flush" /\ pc' = "idle" /\ tagparentnode' = NoParent /\ handle' = NoParent
      /\ playlist' = playlist /\ leaky' = leaky /\ stack' = <<>> /\ calls' = <<>>
      /\ dirs' = dirs /\ files' = files /\ dirdbData' = Unref(u, n)
      /\ saved' \in {FileOf(u)} \cup CutFiles(u, WriteErrors) \cup {saved : e \in WriteErrors \cap {"open"}}
  BY Zenon DEF Flush, At, disk, Forgotten
<1>2. /\ Typing /\ ~Scanning /\ stack = <<>> /\ n # NoParent /\ Sound(t, Wants, FALSE, x) /\ SavedOK
  BY <1>1 DEF IInv, Control, TableOK
<1>3. stack \in Seq(Frame) /\ n \in Int /\ tagparentnode = NoParent
  BY <1>2 DEF Typing, Scanning
<1>4. n \in Nat
  <2>1. n \in Named(t) /\ Named(t) \subseteq Nat
    BY <1>2, <1>3, WantedNamed DEF Wants
  <2>2. QED BY <2>1
<1> HIDE DEF x
<1>5. Sound(t, v, FALSE, x)
  BY <1>2, <1>3, Zenon DEF Wants
<1>6. w \in Handles /\ v \in Handles /\ w[0] >= 1 /\ v[0] >= 1
  BY <1>4, NoFrames, TwoHandles
<1>7. Sound(u, v, FALSE, x) /\ Library(u) = Library(t)
  BY <1>5, <1>6, PurgedSound
<1>8. Sound(u, Plus(w, n), FALSE, x)
  BY <1>4, <1>7, NoFrames, TwoHandles
<1>9. n \in Named(u)
  <2>1. Sound(u, Wanted(NoParent, n, playlist, <<>>), FALSE, x)
    BY <1>7
  <2> HIDE DEF u
  <2>2. QED BY <2>1, <1>2, <1>3, NoFrames, WantedNamed
<1> HIDE DEF u, w
<1>10. Sound(Unref(u, n), w, FALSE, x)
  BY <1>6, <1>8, <1>9, UnrefSound
<1>11. Sound(dirdbData', Wants', FALSE, ~leaky')
  BY <1>1, <1>10, Zenon DEF w, x, Wants
<1>12. TableOK'
  BY <1>1, <1>11, Zenon DEF TableOK, Scanning
<1>a. NoParent \in Int /\ NoParent # 0
  BY DEF NoParent
<1>13. Typing'
  BY <1>1, <1>2, <1>a, NoFrames DEF Typing
<1>14. Control'
  BY <1>1 DEF Control, Scanning
<1>15. SavedOK'
  <2>1. Sane(u) /\ Refs(u, FALSE)
    BY <1>7 DEF Sound
  <2>2. FileOK(saved)
    BY <1>2 DEF FileOK, SavedOK
  <2>3. saved' \in {FileOf(u)} \cup CutFiles(u, WriteErrors) \cup {saved}
    BY <1>1
  <2>4. FileOK(saved')
    BY <2>1, <2>2, <2>3, FileOfOK, CutOK DEF Premises
  <2>5. QED BY <2>4 DEF FileOK, SavedOK
<1>16. Walking' /\ Submitting'
  BY <1>1, <1>a DEF Walking, Submitting
<1>17. Library(dirdbData') = Library(dirdbData)
  <2>1. Shrunk(u, Unref(u, n), FALSE)
    BY <1>6, <1>8, <1>9, UnrefSound
  <2>2. Sane(u) /\ Sane(Unref(u, n))
    BY <1>7, <1>10 DEF Sound
  <2>3. Library(Unref(u, n)) = Library(u)
    BY <2>1, <2>2, ShrunkKept, LibraryKept
  <2>4. QED BY <1>1, <1>7, <2>3
<1>18. QED BY <1>12, <1>13, <1>14, <1>15, <1>16, <1>17 DEF IInv

(* The file of a flush that is written whole holds the library. *)
LEMMA FlushWrites ==
  ASSUME IInv, pc = "flush"
  PROVE  Library(Load(FileOf(Purged(dirdbData)))) = Library(dirdbData)
<1> DEFINE x == ~leaky
           u == Purged(dirdbData)
           v == Wants
<1>1. Sound(dirdbData, v, FALSE, x) /\ stack \in Seq(Frame)
  BY DEF IInv, Control, TableOK, Typing
<1>2. v \in Handles /\ v[0] >= 1
  BY <1>1, WantedIs DEF Wants
<1> HIDE DEF x, v
<1>3. Sound(u, v, FALSE, x) /\ Library(u) = Library(dirdbData)
  BY <1>1, <1>2, PurgedSound
<1> HIDE DEF u
<1>4. Sane(u) /\ Refs(u, FALSE)
  BY <1>3 DEF Sound
<1>5. Library(Load(FileOf(u))) = Library(u)
  BY <1>4, LibraryWritten
<1>6. QED BY <1>3, <1>5 DEF u

-----------------------------------------------------------------------------
(* The entries a call has still to come to. *)
Pending(t, c) == {i \in DOMAIN t : i >= c.next /\ t[i].parent = c.node}
Resumed(cs, i) == [cs EXCEPT ![Len(cs)].next = i + 1]

(* The next entry of a call of _dirdbTagRemoveUntaggedAndSubmit.           *)
LEMMA PendingIs ==
  ASSUME NEW t, Sane(t), NEW c, Pending(t, c) # {}, NEW i, i = Lowest(Pending(t, c))
  PROVE  /\ i \in DOMAIN t /\ i \in Nat /\ i >= c.next /\ t[i].parent = c.node
         /\ \A j \in DOMAIN t : t[j].parent = c.node /\ j >= c.next => i <= j
         /\ c.node \in Nat => i # 0
<1>1. Pending(t, c) \in SUBSET Nat
  BY InTable DEF Pending, Sane
<1>2. i \in Pending(t, c) /\ \A j \in Pending(t, c) : i <= j
  BY <1>1, LowestIs
<1>3. t[0].parent = NoParent /\ NoParent \notin Nat
  BY DEF Sane, NoParent
<1>4. QED BY <1>1, <1>2, <1>3 DEF Pending

(* An entry is submitted, be it a hole or a name. *)
LEMMA SubmitOne ==
  ASSUME NEW t, NEW w \in Handles, w[0] >= 1, NEW x, Sound(t, w, TRUE, x), NEW i \in DOMAIN t,
         Restarts => t[i].parent # 0
  PROVE  LET u == SubmitEntry(t, i) IN
         /\ Sound(u, w, TRUE, x) /\ Sane(u)
         /\ \/ i \in Holes(t) /\ u = t
            \/ /\ i \in Named(t) /\ Shrunk(Moved(t, i), u, TRUE)
               /\ Sane(Moved(t, i)) /\ Paths(Moved(t, i)) = Paths(t) /\ Named(Moved(t, i)) = Named(t)
<1> DEFINE u == SubmitEntry(t, i)
<1>1. Sane(t) /\ Counts(t, w, TRUE, x) /\ Refs(t, TRUE)
  BY DEF Sound
<1>2. CASE i \in Named(t)
  <2>1. /\ Sane(u) /\ Counts(u, w, TRUE, x) /\ Refs(u, TRUE) /\ Shrunk(Moved(t, i), u, TRUE)
        /\ Sane(Moved(t, i)) /\ Paths(Moved(t, i)) = Paths(t) /\ Named(Moved(t, i)) = Named(t)
    BY <1>1, <1>2, SubmitEntryIs
  <2> HIDE DEF u
  <2>2. QED BY <2>1, <1>2 DEF Sound, u
<1>3. CASE i \notin Named(t)
  <2>1. i \in Holes(t)
    BY <1>3 DEF Holes
  <2>2. t[i].parent = 0 /\ ~Restarts
    BY <1>1, <2>1 DEF Sane
  <2>3. RefOK(t[i], TRUE) /\ t[i].name = NoName
    BY <1>1, <1>3 DEF Refs, Named
  <2>4. t[i].newmdbref = NoRef /\ t[i].mdbref = NoRef
    BY <2>2, <2>3, Zenon DEF RefOK
  <2>5. u = t
    BY <1>1, <2>1, <2>4, SubmitHole
  <2> HIDE DEF u
  <2>6. QED BY <2>1, <2>5, <1>1 DEF Sound, u
<1>4. QED BY <1>2, <1>3

(* The calls, with one for the entry. *)
LEMMA CallsOn ==
  ASSUME NEW cs \in Seq(SubmitCall), cs # <<>>, NEW i \in Nat,
         NEW ds, ds = Append(Resumed(cs, i), [node |-> i, next |-> 0])
  PROVE  Deeper(cs, i, ds)
<1> DEFINE L == Len(cs)
           c == [cs[L] EXCEPT !.next = i + 1]
           r == [cs EXCEPT ![L] = c]
           b == [node |-> i, next |-> 0]
<1>1. L \in Nat /\ L >= 1 /\ L \in DOMAIN cs /\ cs[L] \in SubmitCall /\ DOMAIN cs = 1 .. L
  BY FrontIs, DomainIs
<1>2. c \in SubmitCall /\ c.node = cs[L].node /\ c.next = i + 1
  <2> DEFINE a == cs[L]
             n == i + 1
  <2>1. a \in SubmitCall /\ n \in Nat
    BY <1>1
  <2> HIDE DEF a, n
  <2>2. [a EXCEPT !.next = n] \in SubmitCall /\ [a EXCEPT !.next = n].node = a.node
        /\ [a EXCEPT !.next = n].next = n
    BY <2>1 DEF SubmitCall
  <2>3. QED BY <2>2 DEF a, n
<1>3. b \in SubmitCall /\ b.node = i /\ b.next = 0
  BY DEF SubmitCall
<1>4. Resumed(cs, i) = r
  BY <1>1 DEF Resumed
<1> HIDE DEF c
<1>5. /\ r \in Seq(SubmitCall) /\ Len(r) = L /\ r[L] = c
      /\ \A k \in DOMAIN cs : k # L => r[k] = cs[k]
  BY <1>2, PutTopIs
<1> HIDE DEF r, b
<1>6. ds = Append(r, b)
  BY <1>4 DEF b
<1>7. /\ ds \in Seq(SubmitCall) /\ Len(ds) = L + 1 /\ ds[L + 1] = b
      /\ \A k \in 1 .. L : ds[k] = r[k]
  <2>1. /\ Append(r, b) \in Seq(SubmitCall) /\ Len(Append(r, b)) = Len(r) + 1
        /\ Append(r, b)[Len(r) + 1] = b
        /\ \A k \in 1 .. Len(r) : Append(r, b)[k] = r[k]
    BY <1>3, <1>5, AppendIs
  <2>2. QED BY <2>1, <1>5, <1>6, Zenon
<1>8. DOMAIN ds = 1 .. L + 1 /\ ds # <<>>
  BY <1>1, <1>7, DomainIs
<1> HIDE DEF L
<1>9. /\ \A k \in DOMAIN cs : ds[k].node = cs[k].node /\ (k # L => ds[k].next = cs[k].next)
      /\ ds[L].next = i + 1 /\ ds[L + 1].node = i /\ ds[L + 1].next = 0
  BY <1>1, <1>2, <1>3, <1>5, <1>7
<1>10. QED BY <1>1, <1>7, <1>8, <1>9 DEF L, Deeper

(* The calls reach what they should, and not the drive. *)
LEMMA EntryReached ==
  ASSUME NEW t, Sane(t), NEW cs \in Seq(SubmitCall), cs # <<>>, Reached(t, cs),
         NEW i, NextEntry(t, cs, i), NEW u, Sane(u), Entered(t, i, u), NEW ds, Deeper(cs, i, ds)
  PROVE  /\ Reached(u, ds)
         /\ (\A k \in DOMAIN cs : cs[k].node # 0) => \A k \in DOMAIN ds : ds[k].node # 0
<1>1. /\ i \in DOMAIN t /\ i # 0
      /\ \A j \in DOMAIN t : t[j].parent = cs[Len(cs)].node /\ j >= cs[Len(cs)].next => i <= j
  BY DEF NextEntry
<1>2. /\ DOMAIN ds = 1 .. Len(cs) + 1
      /\ \A k \in DOMAIN cs : ds[k].node = cs[k].node /\ (k # Len(cs) => ds[k].next = cs[k].next)
      /\ ds[Len(cs)].next = i + 1 /\ ds[Len(cs) + 1].node = i /\ ds[Len(cs) + 1].next = 0
  BY DEF Deeper
<1>4. Reached(u, ds)
  BY ReachEntry, Zenon
<1>5. ASSUME \A k \in DOMAIN cs : cs[k].node # 0, NEW k \in DOMAIN ds
      PROVE  ds[k].node # 0
  <2>1. k \in DOMAIN cs \/ k = Len(cs) + 1
    <3>1. DOMAIN cs = 1 .. Len(cs) /\ Len(cs) \in Nat
      BY DomainIs
    <3>2. QED BY <3>1, <1>2, <1>5
  <2>2. QED BY <2>1, <1>1, <1>2, <1>5
<1>6. QED BY <1>4, <1>5

(* Both, for the entry that is next. *)
LEMMA EntryStep ==
  ASSUME NEW t, NEW w \in Handles, w[0] >= 1, NEW x, Sound(t, w, TRUE, x),
         NEW cs \in Seq(SubmitCall), cs # <<>>, Reached(t, cs), NEW i, NextEntry(t, cs, i),
         Restarts => \A k \in DOMAIN cs : cs[k].node # 0,
         NEW ds, ds = Append(Resumed(cs, i), [node |-> i, next |-> 0])
  PROVE  /\ Sound(SubmitEntry(t, i), w, TRUE, x) /\ Reached(SubmitEntry(t, i), ds)
         /\ ds \in Seq(SubmitCall) /\ ds # <<>>
         /\ Restarts => \A k \in DOMAIN ds : ds[k].node # 0
<1> DEFINE u == SubmitEntry(t, i)
<1>1. i \in DOMAIN t /\ i \in Nat /\ i # 0 /\ t[i].parent = cs[Len(cs)].node
  BY DEF NextEntry
<1>2. Deeper(cs, i, ds)
  BY <1>1, CallsOn, Zenon
<1>3. ds \in Seq(SubmitCall) /\ ds # <<>> /\ Len(cs) \in DOMAIN cs
  BY <1>2, Zenon DEF Deeper
<1>4. Restarts => t[i].parent # 0
  BY <1>1, <1>3, Zenon
<1>5. Sane(t)
  BY Zenon DEF Sound
<1>6. /\ Sound(u, w, TRUE, x) /\ Sane(u)
      /\ \/ i \in Holes(t) /\ u = t
         \/ /\ i \in Named(t) /\ Shrunk(Moved(t, i), u, TRUE)
            /\ Sane(Moved(t, i)) /\ Paths(Moved(t, i)) = Paths(t) /\ Named(Moved(t, i)) = Named(t)
  BY <1>1, <1>4, SubmitOne, Zenon
<1>7. Entered(t, i, u)
  BY <1>6, Zenon DEF Entered
<1> HIDE DEF u
<1>8. /\ Reached(u, ds)
      /\ (\A k \in DOMAIN cs : cs[k].node # 0) => \A k \in DOMAIN ds : ds[k].node # 0
  BY <1>2, <1>5, <1>6, <1>7, EntryReached, Zenon
<1>9. QED BY <1>3, <1>6, <1>8, Zenon DEF u

(* dirdbTagRemoveUntaggedAndSubmit, one entry at a time. *)
LEMMA SubmitIInv ==
  ASSUME IInv, Submit
  PROVE  IInv'
<1> DEFINE x == ~leaky
           t == dirdbData
           tp == tagparentnode
           w == Wants
           L == Len(calls)
           c == calls[L]
           i == Lowest(Pending(t, c))
           u == SubmitEntry(t, i)
<1>1. /\ pc = "submit" /\ handle' = handle
      /\ playlist' = playlist /\ leaky' = leaky /\ saved' = saved /\ stack' = stack
      /\ dirs' = dirs /\ files' = files
  BY Zenon DEF Submit, At, disk
<1>2. \/ /\ Pending(t, c) # {} /\ dirdbData' = u
         /\ calls' = IF LooksBelow(t, i) THEN Append(Resumed(calls, i), [node |-> i, next |-> 0])
                                         ELSE Resumed(calls, i)
         /\ tp' = tp /\ pc' = pc
      \/ /\ Pending(t, c) = {} /\ L > 1 /\ calls' = Front(calls)
         /\ dirdbData' = t /\ tp' = tp /\ pc' = pc
      \/ /\ Pending(t, c) = {} /\ L = 1 /\ calls' = <<>> /\ pc' = "flush"
         /\ dirdbData' = Unref(t, tp) /\ tp' = NoParent
  BY Zenon DEF Submit, Pending, Resumed
<1>3. /\ Typing /\ Scanning /\ stack = <<>> /\ calls # <<>> /\ handle = tp
      /\ Sound(t, w, TRUE, x) /\ Reached(t, calls)
      /\ Restarts => \A k \in DOMAIN calls : calls[k].node # 0
  BY <1>1 DEF IInv, Control, TableOK, Submitting
<1>4. stack \in Seq(Frame) /\ tp \in Int /\ tp # NoParent /\ calls \in Seq(SubmitCall)
  BY <1>3 DEF Typing, Scanning
<1>5. w \in Handles /\ w[0] >= 1
  BY <1>4, WantedIs DEF Wants
<1>6. L \in DOMAIN calls /\ c \in SubmitCall /\ c.node \in Nat
  <2>1. L \in DOMAIN calls /\ c \in SubmitCall
    BY <1>3, <1>4, FrontIs
  <2>2. QED BY <2>1 DEF SubmitCall
<1>7. Sane(t) /\ Refs(t, TRUE) /\ Table(t)
  BY <1>3 DEF Sound, Sane
<1>8. SavedOK'
  BY <1>1 DEF IInv, SavedOK
<1> HIDE DEF x, w, u
<1>9. CASE /\ Pending(t, c) # {} /\ dirdbData' = u
           /\ calls' = IF LooksBelow(t, i) THEN Append(Resumed(calls, i), [node |-> i, next |-> 0])
                                           ELSE Resumed(calls, i)
           /\ tp' = tp /\ pc' = pc
  <2> HIDE DEF i
  <2>1. /\ i \in DOMAIN t /\ i \in Nat /\ i >= c.next /\ t[i].parent = c.node /\ i # 0
        /\ \A j \in DOMAIN t : t[j].parent = c.node /\ j >= c.next => i <= j
    BY <1>6, <1>7, <1>9, PendingIs DEF i
  <2>2. calls' = Append(Resumed(calls, i), [node |-> i, next |-> 0])
    BY <1>7, <1>9, <2>1, LooksBelowIs
  <2>3. NextEntry(t, calls, i)
    BY <2>1 DEF NextEntry
  <2>4. /\ Sound(u, w, TRUE, x) /\ Reached(u, calls')
        /\ calls' \in Seq(SubmitCall) /\ calls' # <<>>
        /\ Restarts => \A k \in DOMAIN calls' : calls'[k].node # 0
    BY <1>3, <1>4, <1>5, <2>2, <2>3, EntryStep, Zenon DEF u
  <2>8. Wants' = w
    BY <1>1, <1>9, Zenon DEF Wants, w
  <2>9. Scanning' = Scanning
    BY <1>9 DEF Scanning
  <2>10. TableOK'
    BY <1>1, <1>3, <1>9, <2>4, <2>8, <2>9, Zenon DEF TableOK, x
  <2>11. Typing'
    BY <1>1, <1>3, <1>9, <2>4 DEF Typing
  <2>12. Control'
    BY <1>1, <1>3, <1>9, <2>4, <2>9 DEF Control
  <2>13. Submitting'
    BY <1>9, <2>4 DEF Submitting
  <2>14. Walking'
    BY <1>1, <1>9 DEF IInv, Walking
  <2>15. QED BY <1>8, <2>10, <2>11, <2>12, <2>13, <2>14 DEF IInv
<1>10. ASSUME Pending(t, c) = {}
       PROVE  /\ Reached(t, Front(calls))
              /\ L = 1 => \A n \in Named(t) : t[n].newmdbref = NoRef
  <2>1. \A j \in DOMAIN t : ~(t[j].parent = c.node /\ j >= c.next)
    BY <1>10 DEF Pending
  <2>2. QED BY <1>3, <1>4, <1>7, <2>1, ReachBack
<1>11. CASE /\ Pending(t, c) = {} /\ L > 1 /\ calls' = Front(calls)
            /\ dirdbData' = t /\ tp' = tp /\ pc' = pc
  <2>1. /\ calls' \in Seq(SubmitCall) /\ L = Len(calls') + 1
        /\ DOMAIN calls' \subseteq DOMAIN calls /\ \A k \in DOMAIN calls' : calls'[k] = calls[k]
    BY <1>3, <1>4, <1>11, FrontIs
  <2>2. calls' # <<>>
    BY <2>1, <1>11
  <2>3. Wants' = w /\ Scanning' = Scanning
    BY <1>1, <1>11, Zenon DEF Wants, w, Scanning
  <2>4. TableOK'
    BY <1>1, <1>3, <1>11, <2>3, Zenon DEF TableOK, x
  <2>5. Typing'
    BY <1>1, <1>3, <1>11, <2>1 DEF Typing
  <2>6. Control'
    BY <1>1, <1>3, <1>11, <2>2, <2>3 DEF Control
  <2>7. Submitting'
    BY <1>3, <1>10, <1>11, <2>1 DEF Submitting
  <2>8. Walking'
    BY <1>1, <1>11 DEF IInv, Walking
  <2>9. QED BY <1>8, <2>4, <2>5, <2>6, <2>7, <2>8 DEF IInv
<1>12. CASE /\ Pending(t, c) = {} /\ L = 1 /\ calls' = <<>> /\ pc' = "flush"
            /\ dirdbData' = Unref(t, tp) /\ tp' = NoParent
  <2> DEFINE v == Wanted(NoParent, tp, playlist, stack)
  <2>1. Counts(t, w, FALSE, x) /\ Refs(t, FALSE)
    <3>1. \A n \in Named(t) : t[n].newmdbref = NoRef
      BY <1>10, <1>12
    <3>2. Counts(t, w, TRUE, x) /\ Refs(t, TRUE)
      BY <1>3 DEF Sound
    <3>3. QED BY <3>1, <3>2, EndTags
  <2>2. Sound(t, w, FALSE, x)
    BY <1>7, <2>1 DEF Sound
  <2>3. tp \in Named(t) /\ tp \in Nat
    <3>1. Sound(t, Wanted(tp, handle, playlist, stack), FALSE, x)
      BY <2>2, Zenon DEF Wants, w
    <3>2. tp \in Named(t) /\ Named(t) \subseteq Nat
      BY <3>1, <1>4, WantedNamed
    <3>3. QED BY <3>2
  <2>4. Sound(t, Wanted(tp, tp, playlist, stack), FALSE, x)
    BY <2>2, <1>3, Zenon DEF w, Wants
  <2>5. v \in Handles /\ v[0] >= 1 /\ Sound(t, Plus(v, tp), FALSE, x)
    BY <1>4, <2>3, <2>4, TwoHandles
  <2> HIDE DEF v
  <2>6. Sound(Unref(t, tp), v, FALSE, x)
    BY <2>3, <2>5, UnrefSound
  <2>7. Wants' = v
    BY <1>1, <1>3, <1>12, Zenon DEF Wants, v
  <2>8. TableOK'
    BY <1>1, <1>12, <2>6, <2>7, Zenon DEF TableOK, Scanning, x
  <2>a. NoParent \in Int /\ NoParent # 0
    BY DEF NoParent
  <2>9. Typing'
    BY <1>1, <1>3, <1>12, <2>a, NoFrames DEF Typing
  <2>10. Control'
    BY <1>1, <1>3, <1>4, <1>12 DEF Control, Scanning
  <2>11. Submitting' /\ Walking'
    BY <1>12, <2>a DEF Submitting, Walking
  <2>12. QED BY <1>8, <2>8, <2>9, <2>10, <2>11 DEF IInv
<1>13. QED BY <1>2, <1>9, <1>11, <1>12

-----------------------------------------------------------------------------
(* Nothing happens. *)
LEMMA StutterIInv ==
  ASSUME IInv, UNCHANGED vars
  PROVE  IInv'
<1>1. /\ dirdbData' = dirdbData /\ saved' = saved /\ playlist' = playlist /\ pc' = pc
      /\ tagparentnode' = tagparentnode /\ handle' = handle /\ stack' = stack /\ calls' = calls
      /\ dirs' = dirs /\ files' = files /\ leaky' = leaky
  BY DEF vars, scan, disk
<1>2. Wants' = Wants /\ Scanning' = Scanning
  BY <1>1, Zenon DEF Wants, Scanning
<1>3. Typing' /\ SavedOK'
  BY <1>1 DEF IInv, Typing, SavedOK
<1>4. Control'
  BY <1>1, <1>2 DEF IInv, Control
<1>5. TableOK'
  BY <1>1, <1>2, Zenon DEF IInv, TableOK
<1>6. Walking'
  BY <1>1 DEF IInv, Walking
<1>7. Submitting'
  BY <1>1 DEF IInv, Submitting
<1>8. QED BY <1>3, <1>4, <1>5, <1>6, <1>7 DEF IInv

(* Every step of the library, the scans, the playlist, the disk and the    *)
(* process keeps the inductive invariant.  That the file reads back as a   *)
(* sound table (SavedOK), so that dirdbInit survives it (StartedIs), needs *)
(* that no write broke off between two entries or inside a name (Premises).*)
THEOREM NextIInv ==
  ASSUME IInv, Premises, [Next]_vars
  PROVE  IInv'
<1>1. CASE Restart
  BY <1>1, RestartIInv
<1>2. CASE DiskChange
  BY <1>2, DiskChangeIInv
<1>3. CASE Append1
  BY <1>3, Append1IInv
<1>4. CASE Remove1
  BY <1>4, Remove1IInv
<1>5. ASSUME NEW target \in Targets, StartScan(target)
      PROVE  IInv'
  BY <1>5, StartScanIInv
<1>6. CASE ReadDirChild
  BY <1>6, ReadDirChildIInv
<1>7. CASE ReadDone
  BY <1>7, ReadDoneIInv
<1>8. CASE SubScan
  BY <1>8, SubScanIInv
<1>9. CASE TagFile
  BY <1>9, TagFileIInv
<1>10. CASE SubScanDone
  BY <1>10, SubScanDoneIInv
<1>11. CASE Cancel
  BY <1>11, CancelIInv
<1>12. CASE Submit
  BY <1>12, SubmitIInv
<1>13. CASE Flush
  BY <1>13, FlushIInv
<1>14. CASE UNCHANGED vars
  BY <1>14, StutterIInv
<1>15. QED
  BY <1>1, <1>2, <1>3, <1>4, <1>5, <1>6, <1>7, <1>8, <1>9, <1>10, <1>11, <1>12, <1>13, <1>14
     DEF Next, Scans

(* So it always holds. *)
LEMMA SpecIInv == ASSUME Premises PROVE Spec => []IInv
<1>1. Init => IInv
  BY InitIInv
<1>2. IInv /\ [Next]_vars => IInv'
  BY NextIInv
<1>3. QED BY <1>1, <1>2, PTL DEF Spec
-----------------------------------------------------------------------------
(* What is owed is what Owners counts in the state. *)
LEMMA OwnersNow ==
  ASSUME IInv, NEW s, Sound(dirdbData, Wants, s, ~leaky),
         \A e : Tagged(e, s) <=> (e.mdbref # NoRef \/ (tagparentnode # NoParent /\ e.newmdbref # NoRef)),
         NEW n \in Named(dirdbData)
  PROVE  Owners(n) = Owed(dirdbData, Wants, s, n)
<1> DEFINE e == dirdbData[n]
           st == stack
           a == KidCount(dirdbData, n)
           b == Tag(e, s)
           h == Held(st, n)
           c1 == One(tagparentnode = n)
           c2 == One(handle = n)
           c3 == One(n \in playlist)
           c4 == IF n = 0 THEN 2 ELSE 0
<1>1. Sane(dirdbData) /\ Table(dirdbData)
  BY DEF Sound, Sane
<1>2. n \in Nat
  BY <1>1, InTable
<1>3. basepath = 0
  <2>1. 0 \in Named(dirdbData) /\ dirdbData[0].parent = NoParent /\ dirdbData[0].name = Drive[1]
    BY <1>1 DEF Sane
  <2>2. QED BY <1>1, <2>1, NodeOfIs DEF basepath
<1>4. Wants[n] = c1 + c2 + c3 + c4 + h
  <2>1. st \in Seq(Frame)
    BY DEF IInv, Typing
  <2>2. Wants[n] = Holders(tagparentnode, handle, playlist, n) + Held(st, n)
    BY <1>2, <2>1, WantedIs DEF Wants
  <2>3. QED BY <2>2 DEF Holders
<1>5. a \in Nat /\ b \in Nat /\ h \in Nat /\ c1 \in Nat /\ c2 \in Nat /\ c3 \in Nat /\ c4 \in Nat
  <2>1. a \in Nat
    BY <1>1, KidsAre
  <2>2. b \in Nat
    BY DEF Tag
  <2>3. h \in Nat
    BY HeldIs DEF IInv, Typing
  <2>4. c1 \in Nat /\ c2 \in Nat /\ c3 \in Nat /\ c4 \in Nat
    BY DEF One
  <2>5. QED BY <2>1, <2>2, <2>3, <2>4
<1>6. b = IF e.mdbref # NoRef \/ (tagparentnode # NoParent /\ e.newmdbref # NoRef) THEN 1 ELSE 0
  <2>1. Tagged(e, s) <=> (e.mdbref # NoRef \/ (tagparentnode # NoParent /\ e.newmdbref # NoRef))
    OBVIOUS
  <2>2. QED BY <2>1, Zenon DEF Tag
<1>7. Owners(n) = a + b + c1 + c2 + c3 + c4 + h
  <2>1. Owners(n) = a + (IF e.mdbref # NoRef \/ (tagparentnode # NoParent /\ e.newmdbref # NoRef) THEN 1 ELSE 0)
                      + c1 + c2 + c3 + c4 + h
    BY <1>3, Zenon DEF Owners, KidCount, Held, Holding, One
  <2>2. QED BY <2>1, <1>6, Zenon
<1> HIDE DEF a, b, c1, c2, c3, c4, h
<1>8. a + b + c1 + c2 + c3 + c4 + h = a + b + (c1 + c2 + c3 + c4 + h)
  BY <1>5
<1>9. Owners(n) = a + b + Wants[n]
  BY <1>4, <1>7, <1>8, Zenon
<1>10. QED BY <1>9, Zenon DEF Owed, a, b, e

(* So the counts are right. *)
LEMMA CountsHold ==
  ASSUME IInv, NEW s, Sound(dirdbData, Wants, s, ~leaky),
         \A e : Tagged(e, s) <=> (e.mdbref # NoRef \/ (tagparentnode # NoParent /\ e.newmdbref # NoRef))
  PROVE  RefCounts
<1> DEFINE x == ~leaky
           t == dirdbData
           w == Wants
<1>1. w \in Handles
  BY WantedIs DEF IInv, Typing, Wants
<1>2. ASSUME NEW n \in Named(t)
      PROVE  t[n].refcount >= Owners(n) /\ (x => t[n].refcount = Owners(n)) /\ t[n].refcount >= 0
  <2>1. Owners(n) = Owed(t, w, s, n)
    BY OwnersNow, Zenon
  <2>2. /\ t[n].refcount >= Owed(t, w, s, n) /\ (x => t[n].refcount = Owed(t, w, s, n))
        /\ w \in Handles => t[n].refcount >= 0
    BY OwedAre, Zenon
  <2>3. QED BY <1>1, <2>1, <2>2, Zenon
<1>3. \A n \in Holes(t) : t[n].refcount >= 0
  <2>1. \A n \in Holes(t) : Fits(t[n].refcount, 0, x)
    BY Zenon DEF Sound, Counts
  <2>2. QED BY <2>1, Zenon DEF Fits
<1>4. Table(t)
  BY Zenon DEF Sound, Sane
<1>5. ~Aborted(t)
  <2> SUFFICES ASSUME NEW i \in DOMAIN t
               PROVE  ~(t[i].refcount < 0)
    BY Zenon DEF Aborted
  <2>1. t[i].refcount >= 0
    BY <1>2, <1>3, Zenon DEF Holes
  <2>2. t[i].refcount \in Int
    BY <1>4, InTable
  <2>3. QED BY <2>1, <2>2
<1>6. QED BY <1>2, <1>5, Zenon DEF RefCounts

(* The invariant implies RefCounts, *)
LEMMA RefCountsHold == IInv => RefCounts
<1> SUFFICES ASSUME IInv
             PROVE  RefCounts
  OBVIOUS
<1>1. CASE Scanning
  <2>1. Sound(dirdbData, Wants, TRUE, ~leaky)
    BY <1>1, Zenon DEF IInv, TableOK
  <2>2. \A e : Tagged(e, TRUE) <=> (e.mdbref # NoRef \/ (tagparentnode # NoParent /\ e.newmdbref # NoRef))
    BY <1>1, Zenon DEF Tagged, Scanning
  <2>3. QED BY <2>1, <2>2, CountsHold, Zenon
<1>2. CASE ~Scanning
  <2>1. Sound(dirdbData, Wants, FALSE, ~leaky)
    BY <1>2, Zenon DEF IInv, TableOK
  <2>2. \A e : Tagged(e, FALSE) <=> (e.mdbref # NoRef \/ (tagparentnode # NoParent /\ e.newmdbref # NoRef))
    BY <1>2, Zenon DEF Tagged, Scanning
  <2>3. QED BY <2>1, <2>2, CountsHold, Zenon
<1>3. QED BY <1>1, <1>2

(* Tree, *)
LEMMA TreeHolds ==
  ASSUME IInv, NEW s, Sound(dirdbData, Wants, s, ~leaky)
  PROVE  Tree
<1> DEFINE t == dirdbData
<1>1. Sane(t)
  BY Zenon DEF Sound
<1>2. /\ \A m, n \in Named(t) : Paths(t)[m] = Paths(t)[n] => m = n
      /\ \A n \in Named(t) : Paths(t)[n][1] = Drive[1]
  BY <1>1, Zenon DEF Sane, Hangs
<1>3. /\ \A n \in Named(t) : FullName(t, n)[1] = Drive[1]
      /\ \A m, n \in Named(t) : FullName(t, m) = FullName(t, n) => m = n
  BY <1>2, FullNameIs, Zenon
<1>4. stack \in Seq(Frame) /\ tagparentnode \in Int /\ handle \in Int /\ playlist \subseteq Nat
  BY Zenon DEF IInv, Typing
<1>5. /\ tagparentnode \in Int /\ tagparentnode # NoParent => tagparentnode \in Named(t)
      /\ handle \in Int /\ handle # NoParent => handle \in Named(t)
      /\ playlist \subseteq Nat => playlist \subseteq Named(t)
      /\ \A k \in DOMAIN stack : stack[k].ml \subseteq Named(t)
  BY <1>4, WantedNamed, Zenon DEF Wants
<1>6. {tagparentnode, handle} \cup playlist \cup UNION {stack[k].ml : k \in DOMAIN stack}
        \subseteq Named(t) \cup {NoParent}
  <2>1. UNION {stack[k].ml : k \in DOMAIN stack} \subseteq Named(t)
    BY <1>5, Zenon
  <2>2. {tagparentnode, handle} \subseteq Named(t) \cup {NoParent}
    BY <1>4, <1>5
  <2>3. playlist \subseteq Named(t)
    BY <1>4, <1>5, Zenon
  <2>4. ASSUME NEW n \in {tagparentnode, handle} \cup playlist \cup UNION {stack[k].ml : k \in DOMAIN stack}
        PROVE  n \in Named(t) \cup {NoParent}
    <3>1. CASE n \in playlist
      BY <3>1, <2>3, Zenon
    <3>2. CASE n \in UNION {stack[k].ml : k \in DOMAIN stack}
      BY <3>2, <2>1, Zenon
    <3>3. CASE n \in {tagparentnode, handle}
      BY <3>3, <2>2, Zenon
    <3>4. QED BY <3>1, <3>2, <3>3, <2>4, Zenon
  <2>5. QED BY <2>4, Zenon
<1>7. QED BY <1>3, <1>6, Zenon DEF Tree

(* and TypeOK. *)
LEMMA TypeHolds ==
  ASSUME IInv, NEW s, Sound(dirdbData, Wants, s, ~leaky), s => Scanning
  PROVE  TypeOK
<1> DEFINE t == dirdbData
<1>1. Sane(t) /\ Table(t) /\ Refs(t, s)
  BY Zenon DEF Sound, Sane
<1>2. DOMAIN t = 0 .. Cardinality(DOMAIN t) - 1
  BY <1>1, InTable, Zenon DEF Size
<1>3. ASSUME NEW i \in DOMAIN t
      PROVE  /\ t[i].parent \in DOMAIN t \cup {NoParent}
             /\ t[i].mdbref \in Mdbrefs \cup {NoRef, 0}
             /\ t[i].newmdbref \in {NoRef, 0} \cup IF tagparentnode = NoParent THEN {} ELSE Mdbrefs
             /\ t[i].refcount \in Nat \cup {-1}
  <2>1. t[i].parent \in DOMAIN t \cup {NoParent}
    BY <1>1, <1>3, Zenon DEF Sane, Holes, Named
  <2>2. RefOK(t[i], s)
    BY <1>1, <1>3, Zenon DEF Refs
  <2>3. /\ t[i].mdbref \in Mdbrefs \cup {NoRef, 0}
        /\ t[i].newmdbref \in {NoRef, 0} \cup IF tagparentnode = NoParent THEN {} ELSE Mdbrefs
    <3>1. CASE s
      BY <2>2, <3>1, Zenon DEF RefOK, Scanning
    <3>2. CASE ~s
      BY <2>2, <3>2, Zenon DEF RefOK
    <3>3. QED BY <3>1, <3>2
  <2>4. t[i].refcount \in Nat
    <3>1. ~Aborted(t)
      BY RefCountsHold, Zenon DEF RefCounts
    <3>2. ~(t[i].refcount < 0)
      BY <1>3, <3>1, Zenon DEF Aborted
    <3>3. t[i].refcount \in Int
      BY <1>1, <1>3, InTable
    <3>4. QED BY <3>2, <3>3
  <2>5. QED BY <2>1, <2>3, <2>4, Zenon
<1>4. stack \in Seq(Frame) /\ tagparentnode \in Int /\ handle \in Int /\ playlist \subseteq Nat
  BY Zenon DEF IInv, Typing
<1>5. {tagparentnode, handle} \cup playlist \subseteq DOMAIN t \cup {NoParent}
  <2>1. /\ Named(t) \subseteq DOMAIN t
        /\ tagparentnode \in Int /\ tagparentnode # NoParent => tagparentnode \in Named(t)
        /\ handle \in Int /\ handle # NoParent => handle \in Named(t)
        /\ playlist \subseteq Nat => playlist \subseteq Named(t)
    BY <1>4, WantedNamed, Zenon DEF Wants
  <2>2. QED BY <1>4, <2>1, Zenon
<1>6. pc \in {"idle", "read", "files", "cancel", "submit", "flush"}
  BY Zenon DEF IInv, Control
<1>7. saved.torn \in {"no", "fields", "name"} /\ saved.entries \in Nat
  BY Zenon DEF IInv, SavedOK
<1>8. QED BY <1>2, <1>3, <1>5, <1>6, <1>7, Zenon DEF TypeOK

(* All three. *)
LEMMA StateHolds == IInv => TypeOK /\ RefCounts /\ Tree
<1> SUFFICES ASSUME IInv
             PROVE  TypeOK /\ RefCounts /\ Tree
  OBVIOUS
<1>1. CASE Scanning
  <2>1. Sound(dirdbData, Wants, TRUE, ~leaky)
    BY <1>1, Zenon DEF IInv, TableOK
  <2>2. TypeOK /\ Tree
    BY <1>1, <2>1, TypeHolds, TreeHolds, Zenon
  <2>3. QED BY <2>2, RefCountsHold
<1>2. CASE ~Scanning
  <2>1. Sound(dirdbData, Wants, FALSE, ~leaky)
    BY <1>2, Zenon DEF IInv, TableOK
  <2>2. TypeOK /\ Tree
    BY <2>1, TypeHolds, TreeHolds, Zenon
  <2>3. QED BY <2>2, RefCountsHold
<1>3. QED BY <1>1, <1>2

(* In every reachable state the table is an array of entries whose         *)
(* parents, references and counts keep to their types, and tags are set    *)
(* only during a scan.                                                     *)
THEOREM TypeCorrect == ASSUME Premises PROVE Spec => []TypeOK
<1>1. Spec => []IInv
  BY SpecIInv
<1>2. IInv => TypeOK
  BY StateHolds
<1>3. QED BY <1>1, <1>2, PTL

(* dirdbUnref never aborts, and every entry is counted for its children,   *)
(* its mdbref or tag, and the handles of the scan, the lists, the playlist *)
(* and the drive: never less often, and, unless a scan was aborted or a    *)
(* file with holes was read, never more often.  The file may be any that a *)
(* flush leaves but those Premises excludes: one cut between two entries,  *)
(* and one cut inside a name, on which dirdbInit itself would abort.       *)
THEOREM CountsRight == ASSUME Premises PROVE Spec => []RefCounts
<1>1. Spec => []IInv
  BY SpecIInv
<1>2. IInv => RefCounts
  BY StateHolds
<1>3. QED BY <1>1, <1>2, PTL

(* Every name hangs in the tree of the drive, no path occurs twice, and no *)
(* node that the scan, its lists or the playlist have a handle of loses    *)
(* its name.                                                               *)
THEOREM TreeStands == ASSUME Premises PROVE Spec => []Tree
<1>1. Spec => []IInv
  BY SpecIInv
<1>2. IInv => Tree
  BY StateHolds
<1>3. QED BY <1>1, <1>2, PTL
-----------------------------------------------------------------------------
(* What a step does to the library. *)
LibraryStep ==
  \/ Library(dirdbData') \in {Library(dirdbData), Library(Load(saved))}
  \/ pc = "submit"

(* The library changes in a submit, and goes back when the process begins  *)
(* again.                                                                  *)
LEMMA NextLibrary ==
  ASSUME IInv, Premises, [Next]_vars
  PROVE  LibraryStep
<1>1. CASE Restart
  <2>1. dirdbData' = Started(saved) /\ LoadOK(Load(saved))
    BY <1>1 DEF Restart, IInv, SavedOK
  <2>2. Library(dirdbData') = Library(Load(saved))
    BY <2>1, StartedIs, LibraryStarts
  <2>3. QED BY <2>2 DEF LibraryStep
<1>2. CASE dirdbData' = dirdbData
  BY <1>2 DEF LibraryStep
<1>3. CASE Library(dirdbData') = Library(dirdbData)
  BY <1>3 DEF LibraryStep
<1>4. CASE DiskChange \/ ReadDone \/ SubScan \/ UNCHANGED vars
  BY <1>2, <1>4, Zenon DEF DiskChange, ReadDone, SubScan, vars
<1>5. CASE Append1
  BY <1>3, <1>5, Append1IInv
<1>6. CASE Remove1
  BY <1>3, <1>6, Remove1IInv
<1>7. ASSUME NEW target \in Targets, StartScan(target)
      PROVE  LibraryStep
  BY <1>3, <1>7, StartScanIInv
<1>8. CASE ReadDirChild
  BY <1>3, <1>8, ReadDirChildIInv
<1>9. CASE TagFile
  BY <1>3, <1>9, TagFileIInv
<1>10. CASE SubScanDone
  BY <1>3, <1>10, SubScanDoneIInv
<1>11. CASE Cancel
  BY <1>3, <1>11, CancelIInv
<1>12. CASE Submit
  BY <1>12, Zenon DEF Submit, At, LibraryStep
<1>13. CASE Flush
  BY <1>3, <1>13, FlushIInv
<1>14. QED
  BY <1>1, <1>4, <1>5, <1>6, <1>7, <1>8, <1>9, <1>10, <1>11, <1>12, <1>13 DEF Next, Scans

(* Nothing but the submit of a scan changes the library, a restart brings  *)
(* back what the last flush left in the file, and a flush whose writes     *)
(* succeed writes the library.  Where they fail it may be left empty or cut*)
(* inside the fields of an entry, which is a library of nothing; Premises  *)
(* excludes the file cut between entries or inside a name.                 *)
THEOREM LibraryDurable == ASSUME Premises PROVE Spec => Durable
<1> DEFINE step == /\ \/ Library(dirdbData') \in {Library(dirdbData), Library(Load(saved))}
                      \/ pc = "submit"
                   /\ pc = "flush" /\ pc' = "idle" /\ saved' = FileOf(Purged(dirdbData)) =>
                        Library(Load(saved')) = Library(dirdbData)
<1>1. Spec => []IInv
  BY SpecIInv
<1>2. IInv /\ [Next]_vars => [step]_vars
  <2>1. SUFFICES ASSUME IInv, [Next]_vars
                 PROVE  step
    OBVIOUS
  <2>2. LibraryStep
    BY <2>1, NextLibrary
  <2>3. pc = "flush" => Library(Load(FileOf(Purged(dirdbData)))) = Library(dirdbData)
    BY <2>1, FlushWrites
  <2>4. QED BY <2>2, <2>3, Zenon DEF LibraryStep
<1>3. Durable <=> [][step]_vars
  BY DEF Durable
<1> HIDE DEF step
<1>4. QED BY <1>1, <1>2, <1>3, PTL DEF Spec
-----------------------------------------------------------------------------
(* One path lies below another; the disk is a tree whose leaves are files. *)
Under(q, r) == Pre(q, r) /\ Len(q) < Len(r)
OnDisk(ds, fs) == ds \cup {f[1] : f \in fs}
DiskTree(ds, fs) ==
  /\ \A q \in OnDisk(ds, fs) : Len(q) > 1 => Front(q) \in ds
  /\ \A f \in fs : f[1] \notin ds
  /\ \A f \in fs, g \in fs : f[1] = g[1] => f = g

(* Under is Below, on the drive. *)
LEMMA UnderDrive ==
  ASSUME NEW q \in Seq(AllNames), NEW r \in Seq(AllNames)
  PROVE  Below(Drive \o q, Drive \o r) <=> Under(q, r)
<1> DEFINE a == Drive[1]
           qq == Drive \o q
           rr == Drive \o r
<1>1. a \in AllNames /\ qq = <<a>> \o q /\ rr = <<a>> \o r
  BY MoreNames, Zenon
<1> HIDE DEF a, qq, rr
<1>2. /\ qq \in Seq(AllNames) /\ Len(qq) = Len(q) + 1 /\ qq[1] = a
      /\ \A i \in 1 .. Len(q) : qq[i + 1] = q[i]
  BY <1>1, DriveTail
<1>3. /\ rr \in Seq(AllNames) /\ Len(rr) = Len(r) + 1 /\ rr[1] = a
      /\ \A i \in 1 .. Len(r) : rr[i + 1] = r[i]
  BY <1>1, DriveTail
<1>4. Len(q) \in Nat /\ Len(r) \in Nat
  BY LenProperties
<1>5. ASSUME Pre(q, r) PROVE Pre(qq, rr)
  <2>1. Len(q) <= Len(r) /\ \A i \in 1 .. Len(q) : q[i] = r[i]
    BY <1>5 DEF Pre
  <2>2. ASSUME NEW i \in 1 .. Len(qq) PROVE qq[i] = rr[i]
    <3>1. CASE i = 1
      BY <3>1, <1>2, <1>3
    <3>2. CASE i # 1
      <4>1. i - 1 \in 1 .. Len(q) /\ i - 1 \in 1 .. Len(r) /\ (i - 1) + 1 = i
        BY <3>2, <2>1, <1>2, <1>4
      <4>2. QED BY <4>1, <2>1, <1>2, <1>3, Zenon
    <3>3. QED BY <3>1, <3>2
  <2>3. QED BY <2>1, <2>2, <1>2, <1>3, <1>4 DEF Pre
<1>6. ASSUME Pre(qq, rr) PROVE Pre(q, r)
  <2>1. Len(q) <= Len(r) /\ \A i \in 1 .. Len(qq) : qq[i] = rr[i]
    BY <1>6, <1>2, <1>3, <1>4 DEF Pre
  <2>2. ASSUME NEW i \in 1 .. Len(q) PROVE q[i] = r[i]
    <3>1. i \in 1 .. Len(r) /\ i + 1 \in 1 .. Len(qq)
      BY <2>1, <1>2, <1>4
    <3>2. QED BY <3>1, <2>1, <1>2, <1>3
  <2>3. QED BY <2>1, <2>2 DEF Pre
<1>7. Below(qq, rr) <=> Pre(qq, rr) /\ Len(qq) < Len(rr)
  BY <1>2, <1>3, BelowIs
<1>8. QED BY <1>2, <1>3, <1>4, <1>5, <1>6, <1>7 DEF Under, qq, rr

(* A path without its last name. *)
LEMMA FrontPre ==
  ASSUME NEW S, NEW q \in Seq(S), Len(q) >= 1
  PROVE  /\ Front(q) \in Seq(S) /\ Len(q) = Len(Front(q)) + 1 /\ Pre(Front(q), q) /\ Len(q) \in Nat
         /\ \A p \in Seq(S) : Pre(p, q) /\ Len(p) < Len(q) => Pre(p, Front(q))
         /\ \A p \in Seq(S) : Pre(p, q) /\ Len(q) = Len(p) + 1 => p = Front(q)
<1> DEFINE r == Front(q)
<1>1. q # <<>>
  OBVIOUS
<1>2. /\ r \in Seq(S) /\ Len(q) = Len(r) + 1 /\ Len(q) \in Nat
      /\ \A k \in DOMAIN r : r[k] = q[k]
  BY <1>1, FrontIs
<1>3. DOMAIN r = 1 .. Len(r) /\ Len(r) \in Nat
  BY <1>2, DomainIs
<1> HIDE DEF r
<1>4. Pre(r, q)
  BY <1>2, <1>3 DEF Pre
<1>5. ASSUME NEW p \in Seq(S), Pre(p, q), Len(p) < Len(q)
      PROVE  Pre(p, r)
  <2>1. Len(p) \in Nat
    BY LenProperties
  <2>2. Len(p) <= Len(r)
    BY <2>1, <1>2, <1>3, <1>5
  <2>3. \A i \in 1 .. Len(p) : p[i] = q[i] /\ i \in 1 .. Len(r)
    BY <2>1, <2>2, <1>3, <1>5 DEF Pre
  <2>4. QED BY <2>2, <2>3, <1>2, <1>3 DEF Pre
<1>6. ASSUME NEW p \in Seq(S), Pre(p, q), Len(q) = Len(p) + 1
      PROVE  p = r
  <2>1. Len(p) \in Nat /\ Len(p) = Len(r) /\ Len(p) < Len(q)
    BY <1>2, <1>3, <1>6
  <2>2. QED BY <2>1, <1>2, <1>5, <1>6, PreSame
<1>7. QED BY <1>2, <1>4, <1>5, <1>6 DEF r

(* The way to anything on the disk begins with an entry of the directory.  *)
LEMMA WayDown ==
  ASSUME NEW ds \in SUBSET Seq(Names), NEW fs \in SUBSET (Seq(Names) \X Mdbrefs), DiskTree(ds, fs),
         NEW p \in Seq(Names), NEW r \in OnDisk(ds, fs), Under(p, r)
  PROVE  \E q \in OnDisk(ds, fs) : Pre(p, q) /\ Len(q) = Len(p) + 1 /\ Pre(q, r)
<1> DEFINE D == OnDisk(ds, fs)
           On == {q \in D : Under(p, q) /\ Pre(q, r)}
           S == {Len(q) : q \in On}
<1>1. D \subseteq Seq(Names)
  BY DEF OnDisk
<1>2. \A q \in D : Len(q) > 1 => Front(q) \in D
  BY DEF OnDisk, DiskTree
<1> HIDE DEF D
<1>3. S \in SUBSET Nat
  BY <1>1
<1>4. r \in On
  BY <1>1, PreSelf DEF D
<1>5. PICK x \in S : \A y \in S : x <= y
  <2>1. S # {}
    BY <1>4
  <2> HIDE DEF S
  <2>2. QED BY <1>3, <2>1, HasLeast
<1>6. PICK q \in On : Len(q) = x
  OBVIOUS
<1>7. q \in Seq(Names) /\ r \in Seq(Names) /\ Len(q) \in Nat /\ Len(p) \in Nat /\ Pre(p, q) /\ Len(p) < Len(q)
      /\ Pre(q, r) /\ q \in D
  BY <1>1, <1>4, <1>6 DEF Under
<1>8. ASSUME Len(q) # Len(p) + 1 PROVE FALSE
  <2> DEFINE b == Front(q)
  <2>1. Len(q) > 1 /\ Len(q) >= 1
    BY <1>7, <1>8
  <2>2. b \in D
    BY <2>1, <1>2, <1>7
  <2>3. b \in Seq(Names) /\ Len(q) = Len(b) + 1 /\ Pre(b, q) /\ Pre(p, b)
    BY <2>1, <1>7, FrontPre
  <2> HIDE DEF b
  <2>4. Pre(b, r)
    BY <2>3, <1>7, PreTrans
  <2>5. Len(b) \in Nat /\ Len(p) < Len(b)
    BY <2>3, <1>7, <1>8
  <2>6. b \in On
    BY <2>2, <2>3, <2>4, <2>5 DEF Under
  <2>7. Len(q) <= Len(b)
    BY <2>6, <1>5, <1>6
  <2>8. QED BY <2>3, <2>5, <2>7, <1>7
<1>9. QED BY <1>7, <1>8 DEF D

(* There is nothing below a file. *)
LEMMA NoneBelow ==
  ASSUME NEW ds \in SUBSET Seq(Names), NEW fs \in SUBSET (Seq(Names) \X Mdbrefs), DiskTree(ds, fs),
         NEW f \in fs, NEW g \in fs, Len(f[1]) >= 1
  PROVE  ~Under(f[1], g[1])
<1> SUFFICES ASSUME Under(f[1], g[1]) PROVE FALSE
  OBVIOUS
<1>1. f[1] \in Seq(Names) /\ g[1] \in OnDisk(ds, fs) /\ Len(f[1]) \in Nat
  BY DEF OnDisk
<1>2. PICK q \in OnDisk(ds, fs) : Pre(f[1], q) /\ Len(q) = Len(f[1]) + 1
  BY <1>1, WayDown
<1>3. q \in Seq(Names) /\ Len(q) > 1 /\ Len(q) >= 1
  BY <1>1, <1>2 DEF OnDisk
<1>4. f[1] = Front(q)
  BY <1>1, <1>2, <1>3, FrontPre
<1>5. QED BY <1>2, <1>3, <1>4 DEF DiskTree

(* Other programs keep the disk a tree. *)
LEMMA DiskStays ==
  ASSUME dirs \subseteq Seq(Names), files \subseteq Seq(Names) \X Mdbrefs, DiskTree(dirs, files),
         DiskChange
  PROVE  DiskTree(dirs', files')
<1>1. \A q \in dirs \cup {f[1] : f \in files} : Len(q) > 1 => Front(q) \in dirs
  BY DEF DiskTree, OnDisk
<1>2. \A f \in files : f[1] \notin dirs
  BY DEF DiskTree
<1>3. \A f \in files, g \in files : f[1] = g[1] => f = g
  BY DEF DiskTree
<1>4. CASE \E f \in files : files' = files \ {f} /\ UNCHANGED dirs
  BY <1>1, <1>2, <1>3, <1>4 DEF DiskTree, OnDisk
<1>5. ASSUME NEW d \in dirs, Entries(d) = {}, dirs' = dirs \ {d}, UNCHANGED files
      PROVE  DiskTree(dirs', files')
  <2>1. ASSUME NEW q \in dirs \cup {f[1] : f \in files}, Len(q) > 1
        PROVE  Front(q) # d
    <3>1. q \in Seq(Names) /\ Len(q) >= 1 /\ d \in Seq(Names)
      BY <2>1
    <3>2. Pre(Front(q), q) /\ Len(q) = Len(Front(q)) + 1
      BY <3>1, FrontPre
    <3>3. ASSUME Front(q) = d PROVE FALSE
      <4>1. Pre(d, q) /\ Len(q) = Len(d) + 1 /\ Len(d) \in Nat
        BY <3>1, <3>2, <3>3
      <4>2. Below(d, q)
        BY <3>1, <4>1, BelowIs
      <4>3. q \in Entries(d)
        BY <4>1, <4>2 DEF Entries
      <4>4. QED BY <4>3, <1>5
    <3>4. QED BY <3>3
  <2>2. QED BY <2>1, <1>1, <1>2, <1>3, <1>5 DEF DiskTree, OnDisk
<1>6. ASSUME NEW p \in DirPaths \cup FilePaths, p \notin dirs \cup {f[1] : f \in files},
             Len(p) > 1 => Front(p) \in dirs
      PROVE  /\ dirs' = dirs \cup {p} /\ UNCHANGED files => DiskTree(dirs', files')
             /\ \A r \in Mdbrefs : files' = files \cup {<<p, r>>} /\ UNCHANGED dirs
                                     => DiskTree(dirs', files')
  <2>1. ASSUME dirs' = dirs \cup {p}, UNCHANGED files
        PROVE  DiskTree(dirs', files')
    BY <2>1, <1>1, <1>2, <1>3, <1>6 DEF DiskTree, OnDisk
  <2>2. ASSUME NEW r \in Mdbrefs, files' = files \cup {<<p, r>>}, UNCHANGED dirs
        PROVE  DiskTree(dirs', files')
    <3>1. \A f \in files' : f \in files \/ f[1] = p
      BY <2>2
    <3>2. \A q \in OnDisk(dirs', files') : Len(q) > 1 => Front(q) \in dirs'
      BY <3>1, <2>2, <1>1, <1>6 DEF OnDisk
    <3>3. \A f \in files' : f[1] \notin dirs'
      BY <2>2, <1>2, <1>6
    <3>4. \A f \in files', g \in files' : f[1] = g[1] => f = g
      BY <2>2, <1>3, <1>6
    <3>5. QED BY <3>2, <3>3, <3>4 DEF DiskTree
  <2>3. QED BY <2>1, <2>2
<1>7. QED BY <1>4, <1>5, <1>6, Zenon DEF DiskChange
-----------------------------------------------------------------------------
(* What has been tagged is on the disk; every file below the directory     *)
(* scanned, p, is tagged or lies on or below a path still to be looked at. *)
TagsOnDisk(t, fs) ==
  \A n \in Named(t) : t[n].newmdbref # NoRef => <<Short(t, n), t[n].newmdbref>> \in fs
Awaited(st, q) == \E k \in DOMAIN st : \E r \in Todo(st[k]) : Pre(r, q)
TaggedAs(t, f) == \E n \in Named(t) : Short(t, n) = f[1] /\ t[n].newmdbref = f[2]
Tagging(t, p, fs, st) ==
  /\ TagsOnDisk(t, fs)
  /\ \A f \in fs : Under(p, f[1]) => TaggedAs(t, f) \/ Awaited(st, f[1])

(* Two tables have the same tags. *)
SameTags(t, u) ==
  /\ \A n \in Named(u) : u[n].newmdbref # NoRef =>
       n \in Named(t) /\ Short(u, n) = Short(t, n) /\ u[n].newmdbref = t[n].newmdbref
  /\ \A n \in Named(t) : t[n].newmdbref # NoRef =>
       n \in Named(u) /\ Short(u, n) = Short(t, n) /\ u[n].newmdbref = t[n].newmdbref

(* What the calls have to look at can be put differently. *)
LEMMA TaggingOn ==
  ASSUME NEW t, NEW u, NEW p, NEW fs \in SUBSET (Seq(Names) \X Mdbrefs), NEW st, NEW v,
         Tagging(t, p, fs, st), SameTags(t, u),
         \A f \in fs : Under(p, f[1]) /\ Awaited(st, f[1]) => Awaited(v, f[1]) \/ TaggedAs(u, f)
  PROVE  Tagging(u, p, fs, v)
<1>1. TagsOnDisk(u, fs)
  BY DEF Tagging, TagsOnDisk, SameTags
<1>2. ASSUME NEW f \in fs, TaggedAs(t, f)
      PROVE  TaggedAs(u, f)
  <2>1. f[2] # NoRef
    BY NumbersAssumption DEF NoRef
  <2>2. QED BY <2>1, <1>2 DEF TaggedAs, SameTags
<1>3. QED BY <1>1, <1>2 DEF Tagging

(* Growth of the table changes no tag, *)
LEMMA GrewTags ==
  ASSUME NEW t, NEW u, Sane(t), Sane(u), Grew(t, u), HolesClean(t, TRUE)
  PROVE  SameTags(t, u)
<1>1. \A i \in Named(t) : i \in Named(u) /\ Short(u, i) = Short(t, i) /\ Keeps(t[i], u[i])
  BY GrewShort
<1>2. ASSUME NEW n \in Named(u), n \notin Named(t)
      PROVE  u[n].newmdbref = NoRef
  <2>1. n \in DOMAIN u /\ u[n].name # NoName
    BY DEF Named
  <2>2. Was(t, n).name = NoName /\ Was(t, n).newmdbref = NoRef
    <3>1. \A i \in Holes(t) : t[i].newmdbref = NoRef
      BY Zenon DEF HolesClean
    <3>2. QED BY <3>1, <1>2, HoleIs DEF Was, Named, Holes
  <2>3. ~Keeps(Was(t, n), u[n])
    BY <2>1, <2>2 DEF Keeps
  <2>4. QED BY <2>1, <2>2, <2>3 DEF Grew
<1>3. QED BY <1>1, <1>2 DEF SameTags, Keeps

(* nor does the loss of names that nobody refers to. *)
LEMMA ShrunkTags ==
  ASSUME NEW t, NEW u, Sane(t), Sane(u), Shrunk(t, u, TRUE)
  PROVE  SameTags(t, u)
<1>1. \A i \in Named(u) : i \in Named(t) /\ Short(u, i) = Short(t, i) /\ Keeps(t[i], u[i])
  BY ShrunkShort
<1>2. \A i \in Named(t) : Tagged(t[i], TRUE) => i \in Named(u)
  BY ShrunkNames
<1>3. QED BY <1>1, <1>2 DEF SameTags, Keeps, Tagged

(* A directory has been opened: its entries are looked at. *)
LEMMA AwaitedCall ==
  ASSUME dirs \subseteq Seq(Names), files \subseteq Seq(Names) \X Mdbrefs, DiskTree(dirs, files),
         NEW t, NEW n, NEW p \in Seq(Names), Short(t, n) = p, NEW st, NEW k \in DOMAIN st,
         st[k] = Call(t, n), NEW f \in files, Under(p, f[1])
  PROVE  Awaited(st, f[1])
<1>1. Call(t, n).toRead = Entries(p)
  BY FullNameTail DEF Call
<1>2. f[1] \in OnDisk(dirs, files) /\ dirs \in SUBSET Seq(Names)
      /\ files \in SUBSET (Seq(Names) \X Mdbrefs)
  BY DEF OnDisk
<1>3. PICK q \in OnDisk(dirs, files) : Pre(p, q) /\ Len(q) = Len(p) + 1 /\ Pre(q, f[1])
  BY <1>2, WayDown
<1>4. q \in Seq(Names) /\ Len(p) < Len(q)
  <2>1. q \in Seq(Names) /\ Len(p) \in Nat
    BY <1>2 DEF OnDisk
  <2>2. QED BY <2>1, <1>3
<1>5. Below(p, q)
  BY <1>3, <1>4, BelowIs
<1>6. q \in Entries(p)
  BY <1>3, <1>5 DEF Entries, OnDisk
<1>7. q \in Todo(st[k])
  BY <1>1, <1>6 DEF Todo
<1>8. QED BY <1>3, <1>7 DEF Awaited
-----------------------------------------------------------------------------
(* While a scan walks: the library is what it was when the scan began, and *)
(* has no file below the directory scanned that is on the disk; all that   *)
(* is there is tagged or awaited; only the topmost call still reads.       *)
Scanned == Short(dirdbData, tagparentnode)
NewBelow(p, fs, bf) == \A f \in fs : Under(p, f[1]) => \A e \in bf : e[1] # Drive \o f[1]
TopReads(st, reading) == \A k \in DOMAIN st : st[k].toRead # {} => k = Len(st) /\ reading
Walked ==
  pc \in {"read", "files"} =>
    /\ before = Library(dirdbData) /\ NewBelow(Scanned, files, before)
    /\ Tagging(dirdbData, Scanned, files, stack) /\ TopReads(stack, pc = "read")

(* What is known then. *)
LEMMA WalkState ==
  ASSUME IInv, pc \in {"read", "files"}
  PROVE  /\ Sound(dirdbData, Wants, TRUE, ~leaky) /\ Sane(dirdbData) /\ Refs(dirdbData, TRUE)
         /\ Wants \in Handles /\ Counts(dirdbData, Wants, TRUE, ~leaky)
         /\ tagparentnode \in Named(dirdbData) /\ Scanned \in Seq(AllNames)
         /\ stack \in Seq(Frame) /\ stack # <<>>
         /\ WalkOK(dirdbData, tagparentnode, files, stack) /\ TagsIn(dirdbData, tagparentnode)
         /\ \A k \in DOMAIN stack : stack[k].ml \subseteq Named(dirdbData)
         /\ dirs \subseteq Seq(Names) /\ files \subseteq Seq(Names) \X Mdbrefs
<1>1. /\ Typing /\ Scanning /\ stack # <<>> /\ Sound(dirdbData, Wants, TRUE, ~leaky)
      /\ WalkOK(dirdbData, tagparentnode, files, stack) /\ TagsIn(dirdbData, tagparentnode)
  BY DEF IInv, Control, TableOK, Walking
<1>2. /\ stack \in Seq(Frame) /\ tagparentnode \in Int /\ tagparentnode # NoParent
      /\ dirs \subseteq Seq(Names) /\ files \subseteq Seq(Names) \X Mdbrefs
  BY <1>1 DEF Typing, Scanning
<1>3. /\ tagparentnode \in Named(dirdbData)
      /\ \A k \in DOMAIN stack : stack[k].ml \subseteq Named(dirdbData)
  <2> DEFINE x == ~leaky
  <2>1. Sound(dirdbData, Wants, TRUE, x)
    BY <1>1
  <2> HIDE DEF x
  <2>2. QED BY <2>1, <1>2, WantedNamed DEF Wants
<1>4. Sane(dirdbData) /\ Refs(dirdbData, TRUE) /\ Counts(dirdbData, Wants, TRUE, ~leaky)
  BY <1>1 DEF Sound
<1>5. Scanned \in Seq(AllNames)
  BY <1>3, <1>4, ShortIs DEF Scanned
<1>6. Wants \in Handles
  BY <1>2, WantedIs DEF Wants
<1>7. QED BY <1>1, <1>2, <1>3, <1>4, <1>5, <1>6

(* mlScan begins. *)
LEMMA StartWalked ==
  ASSUME IInv, DiskTree(dirs, files), Premises, NEW target \in Targets, StartScan(target)
  PROVE  Walked'
<1> DEFINE at == Resolve(dirdbData, Drive \o target)
           n == at.node
           t == at.table
           u == TagSetParent(t, n)
           g == Call(t, n)
<1>1. /\ pc = "idle" /\ pc' = "read" /\ tagparentnode' = n /\ dirdbData' = u
      /\ stack' = <<g>> /\ files' = files /\ before' = Library(dirdbData)
  BY Zenon DEF StartScan, At, disk
<1>2. /\ dirs \subseteq Seq(Names) /\ files \subseteq Seq(Names) \X Mdbrefs
      /\ Wants \in Handles /\ Sound(dirdbData, Wants, FALSE, ~leaky) /\ target \in Seq(Names)
  <2>1. Typing /\ Sound(dirdbData, Wants, FALSE, ~leaky)
    BY <1>1 DEF IInv, Control, TableOK
  <2>2. stack \in Seq(Frame)
    BY <2>1 DEF Typing
  <2>3. QED BY <2>1, <2>2, WantedIs, PathsAssumption DEF Wants, Typing
<1>3. \A f \in files : Below(target, f[1]) => \A e \in Library(dirdbData) : e[1] # Drive \o f[1]
  BY DEF StartScan, Premises
<1>4. IInv' /\ Library(u) = Library(dirdbData)
  BY <1>1, StartScanIInv
<1>5. /\ n \in Nat /\ Short(t, n) = target
      /\ Paths(u) = Paths(t) /\ Named(u) = Named(t)
      /\ \A i \in Named(u) : u[i].newmdbref = NoRef
  <2> DEFINE w == Wants
             x == ~leaky
  <2>1. w \in Handles /\ Sound(dirdbData, w, FALSE, x)
    BY <1>2
  <2> HIDE DEF w, x
  <2>2. LET at0 == Resolve(dirdbData, Drive \o target)
            u0 == TagSetParent(at0.table, at0.node) IN
         /\ at0.node \in Nat /\ Sane(at0.table) /\ Short(at0.table, at0.node) = target /\ Grew(dirdbData, at0.table)
         /\ Sound(u0, Plus(Plus(w, at0.node), at0.node), TRUE, x) /\ Sane(u0)
         /\ Paths(u0) = Paths(at0.table) /\ Named(u0) = Named(at0.table)
         /\ \A i \in Named(u0) : u0[i].newmdbref = NoRef /\ u0[i].mdbref = at0.table[i].mdbref
         /\ at0.node = 0 => target = <<>>
    BY <2>1, <1>2, StartTable
  <2>3. QED BY <2>2
<1> HIDE DEF at, n, t, u
<1>6. Short(u, n) = target
  BY <1>5 DEF Short
<1>7. Scanned' = target
  BY <1>1, <1>6 DEF Scanned
<1>8. DOMAIN stack' = {1} /\ Len(stack') = 1 /\ stack'[1] = g
  <2> HIDE DEF g
  <2>1. QED BY <1>1
<1>9. Tagging(u, target, files, stack')
  <2>1. TagsOnDisk(u, files)
    BY <1>5 DEF TagsOnDisk
  <2>2. ASSUME NEW f \in files, Under(target, f[1])
        PROVE  Awaited(stack', f[1])
    <3>1. 1 \in DOMAIN stack'
      BY <1>8
    <3>2. QED BY <3>1, <2>2, <1>2, <1>5, <1>8, AwaitedCall
  <2>3. QED BY <2>1, <2>2 DEF Tagging
<1>10. NewBelow(target, files, before')
  <2> SUFFICES ASSUME NEW f \in files, Under(target, f[1]), NEW e \in before'
               PROVE  e[1] # Drive \o f[1]
    BY DEF NewBelow
  <2>1. f[1] \in Seq(Names)
    BY <1>2
  <2>2. Below(target, f[1])
    BY <2>1, <1>2, BelowIs DEF Under
  <2>3. QED BY <2>2, <1>1, <1>3
<1>11. TopReads(stack', TRUE)
  BY <1>8 DEF TopReads
<1>12. QED BY <1>1, <1>4, <1>7, <1>9, <1>10, <1>11 DEF Walked

(* An entry of the directory is read. *)
LEMMA ReadWalked ==
  ASSUME IInv, Walked, ReadDirChild
  PROVE  Walked'
<1> DEFINE t == dirdbData
           tp == tagparentnode
           L == Len(stack)
<1>1. PICK p \in Top.toRead : LET at == Resolve(dirdbData, Drive \o p) IN
         /\ dirdbData' = at.table
         /\ stack' = [stack EXCEPT ![Len(stack)] = Listed(@, p, at.node)]
  BY DEF ReadDirChild
<1> DEFINE at == Resolve(t, Drive \o p)
           u == at.table
           m == at.node
           g == Listed(stack[L], p, m)
<1>2. dirdbData' = u /\ stack' = [stack EXCEPT ![L] = g]
  BY <1>1
<1>3. pc = "read" /\ pc' = pc /\ tp' = tp /\ files' = files /\ before' = before
  BY Zenon DEF ReadDirChild, At, disk
<1>4. /\ Sane(t) /\ Refs(t, TRUE) /\ Wants \in Handles /\ Counts(t, Wants, TRUE, ~leaky)
      /\ tp \in Named(t) /\ stack \in Seq(Frame) /\ stack # <<>>
      /\ files \subseteq Seq(Names) \X Mdbrefs
  BY <1>3, WalkState
<1>5. /\ before = Library(t) /\ NewBelow(Scanned, files, before)
      /\ Tagging(t, Scanned, files, stack) /\ TopReads(stack, TRUE)
  BY <1>3 DEF Walked
<1>6. L \in Nat /\ L >= 1 /\ L \in DOMAIN stack /\ stack[L] \in Frame
  BY <1>4, FrontIs
<1>7. p \in stack[L].toRead /\ p \in Seq(Names)
  BY <1>6, FrameIs DEF Top
<1>8. Sane(u) /\ Grew(t, u) /\ m \in Nat
  <2> DEFINE w == Wants
             x == ~leaky
  <2>1. w \in Handles /\ Counts(t, w, TRUE, x)
    BY <1>4
  <2> HIDE DEF w, x
  <2>2. Sane(u) /\ Grew(t, u) /\ m \in Named(u)
    BY <2>1, <1>4, <1>7, ResolvePath
  <2> HIDE DEF u, m
  <2>3. QED BY <2>2, InTable DEF Sane
<1>9. Library(u) = Library(t)
  BY <1>2, ReadDirChildIInv
<1> HIDE DEF at, u, m
<1>10. g \in Frame /\ Todo(g) = Todo(stack[L]) /\ g.toRead = stack[L].toRead \ {p}
  BY <1>6, <1>7, <1>8, ListedIs
<1> HIDE DEF g
<1>11. /\ Len(stack') = L /\ DOMAIN stack' = DOMAIN stack
       /\ stack'[L] = g /\ \A k \in DOMAIN stack : k # L => stack'[k] = stack[k]
  BY <1>2, <1>4, <1>10, PutTopIs
<1>12. Scanned' = Scanned
  <2>1. Short(u, tp) = Short(t, tp)
    BY <1>4, <1>8, GrewShort
  <2>2. QED BY <2>1, <1>2, <1>3 DEF Scanned
<1>13. SameTags(t, u)
  BY <1>4, <1>8, RefsClean, GrewTags
<1>14. Tagging(u, Scanned, files, stack')
  <2> DEFINE p0 == Scanned
             v == stack'
  <2>1. ASSUME NEW q, Awaited(stack, q) PROVE Awaited(v, q)
    BY <2>1, <1>10, <1>11 DEF Awaited
  <2>2. Tagging(t, p0, files, stack)
    BY <1>5
  <2> HIDE DEF p0, v
  <2>3. Tagging(u, p0, files, v)
    BY <1>4, <1>13, <2>1, <2>2, TaggingOn
  <2>4. QED BY <2>3 DEF p0, v
<1>15. TopReads(stack', TRUE)
  BY <1>5, <1>10, <1>11 DEF TopReads
<1>16. QED BY <1>2, <1>3, <1>5, <1>9, <1>12, <1>14, <1>15 DEF Walked

(* All has been read. *)
LEMMA ReadDoneWalked ==
  ASSUME IInv, Walked, ReadDone
  PROVE  Walked'
<1>1. /\ pc = "read" /\ Top.toRead = {} /\ tagparentnode' = tagparentnode /\ dirdbData' = dirdbData
      /\ files' = files /\ before' = before
  BY Zenon DEF ReadDone, At, disk
<1>2. CASE pc' = "cancel"
  BY <1>2 DEF Walked
<1>3. CASE pc' = "files" /\ stack' = stack
  <2>1. /\ before = Library(dirdbData) /\ NewBelow(Scanned, files, before)
        /\ Tagging(dirdbData, Scanned, files, stack) /\ TopReads(stack, TRUE)
    BY <1>1 DEF Walked
  <2>2. TopReads(stack, FALSE)
    BY <1>1, <2>1 DEF TopReads, Top
  <2>3. Scanned' = Scanned
    BY <1>1 DEF Scanned
  <2>4. QED BY <1>1, <1>3, <2>1, <2>2, <2>3 DEF Walked
<1>4. QED BY <1>2, <1>3 DEF ReadDone

(* An entry is taken from the list. *)
LEMMA DropLeaves ==
  ASSUME NEW f \in Frame, NEW e \in f.left
  PROVE  /\ Drop(f, e) \in Frame /\ Drop(f, e).toRead = f.toRead
         /\ Drop(f, e).left = f.left \ {e}
<1>1. Drop(f, e) \in Frame /\ Part(f, Drop(f, e))
  BY DropIs
<1>2. Drop(f, e).left = f.left \ {e}
  BY DEF Drop, Frame
<1>3. QED BY <1>1, <1>2 DEF Part

(* A directory of the list is opened. *)
LEMMA SubScanWalked ==
  ASSUME IInv, DiskTree(dirs, files), Walked, SubScan
  PROVE  Walked'
<1> DEFINE t == dirdbData
           tp == tagparentnode
           L == Len(stack)
<1>1. PICK e \in Top.left :
        /\ e[1] \in dirs
        /\ stack' = Append([stack EXCEPT ![Len(stack)].left = @ \ {e}], Call(dirdbData, e[2]))
  BY DEF SubScan
<1> DEFINE d == Drop(stack[L], e)
           st == [stack EXCEPT ![L] = d]
           g == Call(t, e[2])
<1>2. /\ pc = "files" /\ pc' = "read" /\ tp' = tp /\ files' = files /\ before' = before
      /\ dirdbData' = t
  BY Zenon DEF SubScan, At, disk
<1>3. /\ Sane(t) /\ tp \in Named(t) /\ stack \in Seq(Frame) /\ stack # <<>>
      /\ dirs \subseteq Seq(Names) /\ files \subseteq Seq(Names) \X Mdbrefs
      /\ WalkOK(t, tp, files, stack) /\ \A k \in DOMAIN stack : stack[k].ml \subseteq Named(t)
  BY <1>2, WalkState
<1>4. /\ before = Library(t) /\ NewBelow(Scanned, files, before)
      /\ Tagging(t, Scanned, files, stack) /\ TopReads(stack, FALSE)
  BY <1>2 DEF Walked
<1>5. L \in Nat /\ L >= 1 /\ L \in DOMAIN stack /\ stack[L] \in Frame /\ DOMAIN stack = 1 .. L
  BY <1>3, FrontIs, DomainIs
<1>6. e \in stack[L].left /\ e[1] \in Seq(Names) /\ e[2] \in Nat
  <2>1. e \in stack[L].left
    BY DEF Top
  <2>2. QED BY <2>1, <1>5, FrameIs
<1>7. /\ e[2] \in stack[L].ml /\ Short(t, e[2]) = e[1]
  BY <1>3, <1>5, <1>6 DEF WalkOK, FrameOK
<1>8. d \in Frame /\ d.toRead = stack[L].toRead /\ d.left = stack[L].left \ {e}
  BY <1>5, <1>6, DropLeaves
<1>9. st = [stack EXCEPT ![L].left = @ \ {e}]
  BY <1>5 DEF Drop
<1> HIDE DEF d
<1>10. /\ st \in Seq(Frame) /\ Len(st) = L /\ DOMAIN st = DOMAIN stack /\ st[L] = d
       /\ \A k \in DOMAIN stack : k # L => st[k] = stack[k]
  BY <1>3, <1>8, PutTopIs
<1>11. stack' = Append(st, g)
  BY <1>1, <1>9
<1> HIDE DEF st
<1>12. g \in Frame
  BY <1>3, <1>6, <1>7, CallIs
<1> HIDE DEF g
<1>13. /\ Len(stack') = L + 1 /\ stack'[L + 1] = g /\ DOMAIN stack' = 1 .. L + 1
       /\ \A k \in DOMAIN stack : stack'[k] = st[k]
  <2>1. /\ stack' \in Seq(Frame) /\ Len(stack') = L + 1 /\ stack'[L + 1] = g
        /\ \A k \in 1 .. L : stack'[k] = st[k]
    BY <1>10, <1>11, <1>12, AppendIs
  <2>2. QED BY <2>1, <1>5, DomainIs
<1>14. Scanned' = Scanned
  BY <1>2 DEF Scanned
<1>15. SameTags(t, t)
  BY DEF SameTags
<1>16. Tagging(t, Scanned, files, stack')
  <2> DEFINE p0 == Scanned
             v == stack'
  <2>1. ASSUME NEW f \in files, Awaited(stack, f[1])
        PROVE  Awaited(v, f[1])
    <3>1. PICK k \in DOMAIN stack : \E r \in Todo(stack[k]) : Pre(r, f[1])
      BY <2>1 DEF Awaited
    <3>2. PICK r \in Todo(stack[k]) : Pre(r, f[1])
      BY <3>1
    <3>3. CASE r \in Todo(st[k])
      <4>1. r \in Todo(v[k]) /\ k \in DOMAIN v
        BY <3>3, <1>5, <1>13
      <4>2. QED BY <4>1, <3>2 DEF Awaited
    <3>4. CASE r \notin Todo(st[k])
      <4>1. k = L
        BY <3>2, <3>4, <1>10
      <4>2. r = e[1]
        BY <4>1, <3>2, <3>4, <1>8, <1>10 DEF Todo
      <4>3. f[1] # e[1] /\ f[1] \in Seq(Names)
        BY <1>1, <1>3 DEF DiskTree
      <4>4. Len(e[1]) \in Nat /\ Len(f[1]) \in Nat /\ Len(e[1]) <= Len(f[1])
        BY <4>2, <4>3, <3>2, <1>6, LenProperties DEF Pre
      <4>5. Len(e[1]) # Len(f[1])
        BY <4>2, <4>3, <3>2, <1>6, PreSame
      <4>6. Under(e[1], f[1])
        BY <4>2, <4>4, <4>5, <3>2 DEF Under
      <4>7. L + 1 \in DOMAIN v /\ v[L + 1] = Call(t, e[2])
        BY <1>5, <1>13 DEF g
      <4>8. QED BY <4>6, <4>7, <1>3, <1>6, <1>7, AwaitedCall
    <3>5. QED BY <3>3, <3>4
  <2>2. Tagging(t, p0, files, stack)
    BY <1>4
  <2> HIDE DEF p0, v
  <2>3. Tagging(t, p0, files, v)
    BY <1>3, <1>15, <2>1, <2>2, TaggingOn
  <2>4. QED BY <2>3 DEF p0, v
<1>17. TopReads(stack', TRUE)
  <2>1. ASSUME NEW k \in DOMAIN stack', stack'[k].toRead # {}, k # L + 1
        PROVE  FALSE
    <3>1. k \in DOMAIN stack
      BY <2>1, <1>5, <1>13
    <3>2. stack'[k].toRead = stack[k].toRead
      BY <3>1, <1>8, <1>10, <1>13
    <3>3. QED BY <3>1, <3>2, <2>1, <1>4 DEF TopReads
  <2>2. QED BY <2>1, <1>13 DEF TopReads
<1>18. QED BY <1>2, <1>4, <1>14, <1>16, <1>17 DEF Walked

(* A file of the list is tagged. *)
LEMMA TagWalked ==
  ASSUME IInv, DiskTree(dirs, files), Walked, TagFile
  PROVE  Walked'
<1> DEFINE t == dirdbData
           tp == tagparentnode
           L == Len(stack)
           x == ~leaky
<1>1. PICK e \in Top.left, f \in files :
        /\ e[1] = f[1] /\ stack' = [stack EXCEPT ![Len(stack)].left = @ \ {e}]
        /\ dirdbData' = MakeMdbAdbRef(dirdbData, e[2], f[2])
  BY DEF TagFile
<1> DEFINE d == Drop(stack[L], e)
           m == e[2]
           u == MakeMdbAdbRef(t, m, f[2])
<1>2. /\ pc = "files" /\ pc' = pc /\ tp' = tp /\ files' = files /\ before' = before
      /\ dirdbData' = u
  BY <1>1, Zenon DEF TagFile, At, disk
<1>3. /\ Sane(t) /\ Refs(t, TRUE) /\ Wants \in Handles /\ Counts(t, Wants, TRUE, x)
      /\ tp \in Named(t) /\ stack \in Seq(Frame) /\ stack # <<>>
      /\ dirs \subseteq Seq(Names) /\ files \subseteq Seq(Names) \X Mdbrefs
      /\ WalkOK(t, tp, files, stack) /\ \A k \in DOMAIN stack : stack[k].ml \subseteq Named(t)
      /\ Scanned \in Seq(AllNames)
  BY <1>2, WalkState
<1> HIDE DEF x
<1>4. /\ before = Library(t) /\ NewBelow(Scanned, files, before)
      /\ Tagging(t, Scanned, files, stack) /\ TopReads(stack, FALSE)
  BY <1>2 DEF Walked
<1>5. L \in Nat /\ L >= 1 /\ L \in DOMAIN stack /\ stack[L] \in Frame
  BY <1>3, FrontIs
<1>6. e \in stack[L].left
  BY DEF Top
<1>7. d \in Frame /\ d.toRead = stack[L].toRead /\ d.left = stack[L].left \ {e}
  BY <1>5, <1>6, DropLeaves
<1>8. stack' = [stack EXCEPT ![L] = d]
  BY <1>1, <1>5 DEF Drop
<1>9. /\ stack' \in Seq(Frame) /\ Len(stack') = L /\ DOMAIN stack' = DOMAIN stack /\ stack'[L] = d
      /\ \A k \in DOMAIN stack : k # L => stack'[k] = stack[k]
  <2> HIDE DEF d
  <2>1. QED BY <1>3, <1>7, <1>8, PutTopIs
<1>10. /\ Inner(t, tp, e[1]) /\ Fresh(t, files, e[1])
       /\ m \in Named(t) /\ Short(t, m) = e[1] /\ e[1] \in Seq(Names)
  BY <1>3, <1>6, <1>9, WalkDrop, ZenonT(60)
<1> HIDE DEF d
<1>11. f[2] \in Mdbrefs /\ f[1] \in Seq(Names)
  BY <1>3
<1>12. t[m].newmdbref = NoRef /\ t[m].mdbref = NoRef
  <2>1. Pre(e[1], Short(t, m))
    BY <1>10, PreSelf
  <2>2. t[m].newmdbref = NoRef /\ (t[m].mdbref # NoRef => \A b \in files : b[1] # Short(t, m))
    BY <2>1, <1>10 DEF Fresh
  <2>3. f[1] = Short(t, m)
    BY <1>1, <1>10
  <2>4. QED BY <2>2, <2>3
<1> HIDE DEF m
<1>13. /\ Paths(u) = Paths(t) /\ Named(u) = Named(t)
       /\ u[m].newmdbref = f[2] /\ \A i \in DOMAIN t : i # m => u[i] = t[i]
  <2> DEFINE r == f[2]
             w == Wants
  <2>1. Sane(t) /\ Refs(t, TRUE) /\ Counts(t, w, TRUE, x) /\ w \in Handles /\ r \in Mdbrefs
        /\ m \in Named(t) /\ t[m].newmdbref = NoRef /\ t[m].mdbref = NoRef
    BY <1>3, <1>10, <1>11, <1>12
  <2> HIDE DEF r, w
  <2>2. Marked(t, MakeMdbAdbRef(t, m, r), w, x, m, r)
    BY <2>1, MakeMdbAdbRefIs
  <2>3. QED BY <2>2 DEF r, w, Marked
<1>14. Library(u) = Library(t)
  BY <1>2, TagFileIInv
<1> HIDE DEF u
<1>15. \A i : Short(u, i) = Short(t, i)
  BY <1>13 DEF Short
<1>16. Scanned' = Scanned
  BY <1>2, <1>15 DEF Scanned
<1>17. \A i \in Named(t) : i # m => u[i] = t[i]
  BY <1>13 DEF Named
<1>18. TagsOnDisk(u, files)
  <2> SUFFICES ASSUME NEW n \in Named(u), u[n].newmdbref # NoRef
               PROVE  <<Short(u, n), u[n].newmdbref>> \in files
    BY DEF TagsOnDisk
  <2>1. CASE n = m
    <3>1. f = <<f[1], f[2]>>
      BY <1>3
    <3>2. QED BY <2>1, <3>1, <1>1, <1>10, <1>13, <1>15
  <2>2. CASE n # m
    <3>1. n \in Named(t) /\ u[n] = t[n]
      BY <2>2, <1>13, <1>17
    <3>2. <<Short(t, n), t[n].newmdbref>> \in files
      BY <3>1, <1>4 DEF Tagging, TagsOnDisk
    <3>3. QED BY <3>1, <3>2, <1>15
  <2>3. QED BY <2>1, <2>2
<1>19. ASSUME NEW g \in files, Under(Scanned, g[1])
       PROVE  TaggedAs(u, g) \/ Awaited(stack', g[1])
  <2>1. CASE TaggedAs(t, g)
    <3>1. PICK n \in Named(t) : Short(t, n) = g[1] /\ t[n].newmdbref = g[2]
      BY <2>1 DEF TaggedAs
    <3>2. n # m
      BY <3>1, <1>3, <1>12, NumbersAssumption DEF NoRef
    <3>3. QED BY <3>1, <3>2, <1>13, <1>15, <1>17 DEF TaggedAs
  <2>2. CASE Awaited(stack, g[1])
    <3>1. PICK k \in DOMAIN stack : \E r \in Todo(stack[k]) : Pre(r, g[1])
      BY <2>2 DEF Awaited
    <3>2. PICK r \in Todo(stack[k]) : Pre(r, g[1])
      BY <3>1
    <3>3. CASE r \in Todo(stack'[k])
      BY <3>2, <3>3, <1>9 DEF Awaited
    <3>4. CASE r \notin Todo(stack'[k])
      <4>1. k = L
        BY <3>2, <3>4, <1>9
      <4>2. r = f[1]
        BY <4>1, <3>2, <3>4, <1>1, <1>7, <1>9 DEF Todo
      <4>3. Len(f[1]) >= 1 /\ Len(f[1]) \in Nat /\ g[1] \in Seq(Names) /\ Len(g[1]) \in Nat
        <5>1. Len(Scanned) < Len(f[1])
          BY <1>1, <1>10 DEF Inner, Scanned
        <5>2. Len(Scanned) \in Nat /\ Len(f[1]) \in Nat /\ g[1] \in Seq(Names)
          BY <1>3, <1>11, LenProperties
        <5>3. QED BY <5>1, <5>2, LenProperties
      <4>4. ~Under(f[1], g[1])
        BY <4>3, <1>3, NoneBelow
      <4>5. Len(f[1]) = Len(g[1])
        BY <4>2, <4>3, <4>4, <3>2 DEF Under, Pre
      <4>6. f[1] = g[1]
        BY <4>2, <4>3, <4>5, <3>2, <1>11, PreSame
      <4>7. f = g
        BY <4>6 DEF DiskTree
      <4>8. m \in Named(u) /\ Short(u, m) = g[1] /\ u[m].newmdbref = g[2]
        BY <4>7, <1>1, <1>10, <1>13, <1>15
      <4>9. QED BY <4>8 DEF TaggedAs
    <3>5. QED BY <3>3, <3>4
  <2>3. QED BY <2>1, <2>2, <1>4, <1>19 DEF Tagging
<1>20. Tagging(u, Scanned, files, stack')
  BY <1>18, <1>19 DEF Tagging
<1>21. TopReads(stack', FALSE)
  BY <1>4, <1>7, <1>9 DEF TopReads
<1>22. QED BY <1>2, <1>4, <1>14, <1>16, <1>20, <1>21 DEF Walked

(* A directory is through, and nothing of it is left; its list goes.       *)
LEMMA DoneWalked ==
  ASSUME IInv, Walked, SubScanDone
  PROVE  /\ SameTags(dirdbData, dirdbData') /\ Scanned' = Scanned /\ Sane(dirdbData')
         /\ tagparentnode \in Named(dirdbData') /\ before' = before /\ files' = files
         /\ before' = Library(dirdbData') /\ NewBelow(Scanned, files, before)
         /\ Tagging(dirdbData', Scanned, files, Front(stack))
         /\ Walked'
<1> DEFINE t == dirdbData
           tp == tagparentnode
           L == Len(stack)
           S == stack[L].ml
           fr == Front(stack)
           u == UnrefAll(t, S)
           v == Wanted(tp, handle, playlist, fr)
           x == ~leaky
<1>1. /\ pc = "files" /\ tp' = tp /\ files' = files /\ before' = before
      /\ dirdbData' = u /\ stack' = fr /\ stack[L].left = {}
  BY Zenon DEF SubScanDone, At, disk, Top
<1>2. IF L > 1 THEN pc' = "files" ELSE pc' = "submit"
  BY DEF SubScanDone
<1>3. /\ Sane(t) /\ tp \in Named(t) /\ stack \in Seq(Frame) /\ stack # <<>>
      /\ Sound(t, Wants, TRUE, x) /\ files \subseteq Seq(Names) \X Mdbrefs
      /\ \A k \in DOMAIN stack : stack[k].ml \subseteq Named(t)
  BY <1>1, WalkState
<1> HIDE DEF x
<1>4. /\ before = Library(t) /\ NewBelow(Scanned, files, before)
      /\ Tagging(t, Scanned, files, stack) /\ TopReads(stack, FALSE)
  BY <1>1 DEF Walked
<1>5. /\ fr \in Seq(Frame) /\ L = Len(fr) + 1 /\ L \in Nat /\ L >= 1 /\ L \in DOMAIN stack
      /\ stack[L] \in Frame /\ DOMAIN stack = DOMAIN fr \cup {L} /\ DOMAIN fr \subseteq DOMAIN stack
      /\ \A k \in DOMAIN fr : fr[k] = stack[k]
  BY <1>3, FrontIs
<1>6. S \subseteq Nat /\ S \subseteq DOMAIN t
  <2>1. S \subseteq Nat
    BY <1>5, FrameIs
  <2>2. S \subseteq Named(t)
    BY <1>3, <1>5
  <2>3. QED BY <2>1, <2>2 DEF Named
<1> HIDE DEF fr, S
<1>7. v \in Handles /\ v[0] >= 1
  BY <1>5, WantedIs
<1>8. Sound(t, Hold(v, S, 0), TRUE, x)
  <2>1. Sound(t, Wanted(tagparentnode, handle, playlist, stack), TRUE, x)
    BY <1>3 DEF Wants
  <2>2. S = stack[Len(stack)].ml /\ \A k \in DOMAIN fr : stack[k] = fr[k]
    BY <1>5 DEF S
  <2>3. QED BY <2>1, <2>2, <1>3, <1>5, <1>6, HoldTop
<1> HIDE DEF v
<1>9. Sound(u, v, TRUE, x) /\ Shrunk(t, u, TRUE)
  BY <1>6, <1>7, <1>8, FreeList, Zenon DEF u
<1>10. Library(u) = Library(t) /\ IInv'
  BY <1>1, SubScanDoneIInv
<1> HIDE DEF u
<1>11. Sane(u)
  BY <1>9 DEF Sound
<1>12. SameTags(t, u)
  BY <1>3, <1>9, <1>11, ShrunkTags
<1>13. tp \in Named(u)
  <2>1. /\ pc' \in {"files", "submit"}
    BY <1>2
  <2>2. tp # NoParent /\ tp \in Int
    BY <1>1 DEF IInv, Control, Scanning, Typing
  <2>3. Sound(u, Wanted(tp, handle, playlist, fr), TRUE, x)
    BY <1>9 DEF v
  <2>4. QED BY <2>2, <2>3, <1>5, WantedNamed
<1>14. Scanned' = Scanned
  BY <1>1, <1>3, <1>9, <1>11, <1>13, ShrunkShort DEF Scanned
<1>15. Todo(stack[L]) = {}
  BY <1>1, <1>4, <1>5 DEF TopReads, Todo
<1>16. Tagging(u, Scanned, files, fr)
  <2> DEFINE p0 == Scanned
  <2>1. ASSUME NEW q, Awaited(stack, q) PROVE Awaited(fr, q)
    <3>1. PICK k \in DOMAIN stack : \E r \in Todo(stack[k]) : Pre(r, q)
      BY <2>1 DEF Awaited
    <3>2. k \in DOMAIN fr
      BY <3>1, <1>5, <1>15
    <3>3. QED BY <3>1, <3>2, <1>5 DEF Awaited
  <2>2. Tagging(t, p0, files, stack)
    BY <1>4
  <2> HIDE DEF p0
  <2>3. Tagging(u, p0, files, fr)
    BY <1>3, <1>12, <2>1, <2>2, TaggingOn
  <2>4. QED BY <2>3 DEF p0
<1>17. TopReads(fr, FALSE)
  <2>1. \A k \in DOMAIN fr : fr[k].toRead = {}
    BY <1>4, <1>5 DEF TopReads
  <2>2. QED BY <2>1 DEF TopReads
<1>18. Walked'
  <2>1. pc' # "read"
    BY <1>2
  <2>2. QED BY <2>1, <1>1, <1>4, <1>10, <1>14, <1>16, <1>17 DEF Walked
<1>19. QED BY <1>1, <1>4, <1>10, <1>11, <1>12, <1>13, <1>14, <1>16, <1>18 DEF fr
-----------------------------------------------------------------------------
(* What submitting an entry has left of the table: all but its references, *)
(* which are now what it was tagged with, and names nobody refers to.      *)
LEMMA EnteredIs ==
  ASSUME NEW t, Sane(t), NEW i \in DOMAIN t, NEW u, Sane(u), Entered(t, i, u)
  PROVE  /\ \A n \in Named(u) :
              /\ n \in Named(t) /\ Short(u, n) = Short(t, n) /\ u[n].parent = t[n].parent
              /\ n # i => u[n].mdbref = t[n].mdbref /\ u[n].newmdbref = t[n].newmdbref
              /\ n = i => u[n].mdbref = t[n].newmdbref /\ u[n].newmdbref = NoRef
         /\ \A n \in Named(t) :
              t[n].newmdbref # NoRef \/ (n # i /\ t[n].mdbref # NoRef) => n \in Named(u)
         /\ \A a \in Named(t), n \in Named(u) : Pre(Short(t, a), Short(t, n)) => a \in Named(u)
<1> DEFINE v == IF i \in Holes(t) THEN t ELSE Moved(t, i)
<1>1. /\ Sane(v) /\ Shrunk(v, u, TRUE) /\ Named(v) = Named(t) /\ Paths(v) = Paths(t)
  <2>1. CASE i \in Holes(t)
    <3>1. u = t /\ v = t
      BY <2>1 DEF Holes, Entered
    <3>2. QED BY <3>1, ShrunkSelf
  <2>2. CASE i \notin Holes(t)
    BY <2>2 DEF Entered
  <2>3. QED BY <2>1, <2>2
<1>2. \A m : Short(v, m) = Short(t, m)
  BY <1>1 DEF Short
<1>3. Table(t) /\ Named(t) \subseteq DOMAIN t
  BY InTable DEF Sane
<1>4. \A m \in Named(t) : /\ v[m].parent = t[m].parent
                          /\ m # i => v[m] = t[m]
                          /\ m = i => v[m].mdbref = t[m].newmdbref /\ v[m].newmdbref = NoRef
  <2>1. CASE i \in Holes(t)
    BY <2>1 DEF Holes
  <2>2. CASE i \notin Holes(t)
    BY <2>2, <1>3, MovedIs, SMTT(40)
  <2>3. QED BY <2>1, <2>2
<1> HIDE DEF v
<1>5. \A m \in Named(u) : m \in Named(v) /\ Short(u, m) = Short(v, m) /\ Keeps(v[m], u[m])
  BY <1>1, ShrunkShort
<1>6. \A n \in Named(u) :
        /\ n \in Named(t) /\ Short(u, n) = Short(t, n) /\ u[n].parent = t[n].parent
        /\ n # i => u[n].mdbref = t[n].mdbref /\ u[n].newmdbref = t[n].newmdbref
        /\ n = i => u[n].mdbref = t[n].newmdbref /\ u[n].newmdbref = NoRef
  BY <1>1, <1>2, <1>4, <1>5 DEF Keeps
<1>7. \A n \in Named(t) :
        t[n].newmdbref # NoRef \/ (n # i /\ t[n].mdbref # NoRef) => n \in Named(u)
  <2>1. \A n \in Named(v) : Tagged(v[n], TRUE) => n \in Named(u)
    BY <1>1, ShrunkNames
  <2>2. QED BY <2>1, <1>1, <1>4 DEF Tagged
<1>8. \A a \in Named(t), n \in Named(u) : Pre(Short(t, a), Short(t, n)) => a \in Named(u)
  <2> SUFFICES ASSUME NEW a \in Named(t), NEW n \in Named(u), Pre(Short(t, a), Short(t, n))
               PROVE  a \in Named(u)
    OBVIOUS
  <2>1. Pre(Short(v, a), Short(v, n)) /\ a \in Named(v)
    BY <1>1, <1>2
  <2>2. QED BY <2>1, <1>1, AboveStays
<1>9. QED BY <1>6, <1>7, <1>8

(* The calls still come to what they came to, but for that entry, *)
LEMMA ViaOn ==
  ASSUME NEW t, Sane(t), NEW cs \in Seq(SubmitCall), NEW i, NextEntry(t, cs, i),
         NEW u, Sane(u), Entered(t, i, u), NEW ds, Deeper(cs, i, ds),
         NEW n \in Named(u), n # i, NEW k \in DOMAIN cs, Via(t, cs[k], n)
  PROVE  \E j \in DOMAIN ds : Via(u, ds[j], n)
<1> USE DEF NextEntry, Deeper
<1> DEFINE top == Len(cs)
<1>1. /\ top \in Nat /\ top \in DOMAIN cs /\ DOMAIN cs = 1 .. top /\ top + 1 \in DOMAIN ds
      /\ \A j \in DOMAIN cs : j \in DOMAIN ds
  BY DomainIs
<1>2. DOMAIN t \subseteq Nat /\ Named(t) \subseteq DOMAIN t
  BY InTable DEF Sane
<1>3. PICK a \in Named(t) : t[a].parent = cs[k].node /\ a >= cs[k].next
                            /\ Pre(Short(t, a), Short(t, n))
  BY DEF Via
<1>4. /\ Short(u, n) = Short(t, n) /\ a \in Named(u) /\ Short(u, a) = Short(t, a)
      /\ u[a].parent = t[a].parent
  <2>1. a \in Named(u) /\ n \in Named(u)
    BY <1>3, EnteredIs
  <2>2. QED BY <2>1, EnteredIs
<1>5. CASE a = i
  <2>1. Pre(Short(u, i), Short(u, n)) /\ i \in Named(u)
    BY <1>3, <1>4, <1>5
  <2>2. Via(u, ds[top + 1], n)
    BY <2>1, ReachDown
  <2>3. QED BY <2>2, <1>1
<1>6. CASE a # i
  <2>1. a >= ds[k].next
    <3>1. CASE k # top
      BY <3>1, <1>3
    <3>2. CASE k = top
      <4>1. i <= a /\ a \in Nat /\ i \in Nat
        BY <3>2, <1>2, <1>3
      <4>2. a >= i + 1
        BY <4>1, <1>6
      <4>3. QED BY <4>2, <3>2
    <3>3. QED BY <3>1, <3>2
  <2>2. Via(u, ds[k], n)
    BY <2>1, <1>3, <1>4 DEF Via
  <2>3. QED BY <2>2, <1>1
<1>7. QED BY <1>5, <1>6

(* and to nothing else. *)
LEMMA ViaBack ==
  ASSUME NEW t, Sane(t), NEW cs \in Seq(SubmitCall), NEW i, NextEntry(t, cs, i),
         NEW u, Sane(u), Entered(t, i, u), NEW ds, Deeper(cs, i, ds),
         NEW n \in Named(u), NEW k \in DOMAIN ds, Via(u, ds[k], n)
  PROVE  \E j \in DOMAIN cs : Via(t, cs[j], n)
<1> USE DEF NextEntry, Deeper
<1> DEFINE top == Len(cs)
<1>1. top \in Nat /\ top \in DOMAIN cs /\ DOMAIN cs = 1 .. top /\ cs[top] \in SubmitCall
  BY DomainIs
<1>2. DOMAIN t \subseteq Nat /\ Named(t) \subseteq DOMAIN t
  BY InTable DEF Sane
<1>3. PICK a \in Named(u) : u[a].parent = ds[k].node /\ a >= ds[k].next
                            /\ Pre(Short(u, a), Short(u, n))
  BY DEF Via
<1>4. /\ n \in Named(t) /\ Short(u, n) = Short(t, n)
      /\ a \in Named(t) /\ Short(u, a) = Short(t, a) /\ t[a].parent = ds[k].node
  BY <1>3, EnteredIs
<1>5. CASE k \in DOMAIN cs
  <2>1. a >= cs[k].next
    <3>1. CASE k # top
      BY <3>1, <1>3, <1>5
    <3>2. CASE k = top
      <4>1. a >= i + 1 /\ a \in Nat /\ i \in Nat /\ cs[k].next \in Nat /\ i >= cs[k].next
        BY <3>2, <1>1, <1>2, <1>3, <1>4 DEF SubmitCall
      <4>2. QED BY <4>1
    <3>3. QED BY <3>1, <3>2
  <2>2. Via(t, cs[k], n)
    BY <2>1, <1>3, <1>4, <1>5 DEF Via
  <2>3. QED BY <2>2, <1>5
<1>6. CASE k \notin DOMAIN cs
  <2>1. k = top + 1 /\ t[a].parent = i /\ i \in Nat
    BY <1>1, <1>4, <1>6
  <2>2. a # 0
    BY <2>1 DEF Sane, NoParent
  <2>3. i \in Named(t) /\ Short(t, a) = Append(Short(t, i), t[a].name) /\ t[a].name \in AllNames
        /\ Short(t, i) \in Seq(AllNames)
    BY <2>1, <2>2, <1>4, ShortChild
  <2>4. Pre(Short(t, i), Short(t, a))
    BY <2>3, AppendPre
  <2>5. Pre(Short(t, i), Short(t, n))
    <3>1. Short(t, i) \in Seq(AllNames) /\ Short(t, a) \in Seq(AllNames) /\ Short(t, n) \in Seq(AllNames)
      BY <2>3, <1>4, ShortIs
    <3>2. QED BY <3>1, <2>4, <1>3, <1>4, PreTrans
  <2>6. Via(t, cs[top], n)
    BY <2>3, <2>5 DEF Via
  <2>7. QED BY <2>6, <1>1
<1>7. QED BY <1>5, <1>6
-----------------------------------------------------------------------------
(* The first call is for the directory scanned, every other for an entry   *)
(* the call before it has passed.                                          *)
Nest(t, tp, cs) ==
  /\ cs[1].node = tp
  /\ \A k \in 1 .. Len(cs) - 1 :
       /\ cs[k + 1].node < cs[k].next
       /\ cs[k + 1].node \in Named(t) => t[cs[k + 1].node].parent = cs[k].node

(* The calls of the submit. *)
LEMMA CallsAre ==
  ASSUME NEW cs \in Seq(SubmitCall), cs # <<>>
  PROVE  /\ Len(cs) \in Nat /\ Len(cs) >= 1 /\ DOMAIN cs = 1 .. Len(cs) /\ Len(cs) \in DOMAIN cs
         /\ \A j \in DOMAIN cs : cs[j].node \in Nat /\ cs[j].next \in Nat
<1>1. \A j \in DOMAIN cs : cs[j] \in SubmitCall
  BY DomainIs
<1>2. QED BY <1>1, FrontIs, DomainIs DEF SubmitCall

(* An entry further up the way to another, of the same depth, is that one. *)
LEMMA SameDepth ==
  ASSUME NEW t, Sane(t), NEW a \in Named(t), NEW b \in Named(t), NEW q \in Seq(AllNames),
         Pre(Short(t, a), q), Pre(Short(t, b), q), Len(Short(t, a)) = Len(Short(t, b))
  PROVE  a = b
<1>1. Short(t, a) \in Seq(AllNames) /\ Short(t, b) \in Seq(AllNames)
  BY ShortIs
<1>2. Pre(Short(t, a), Short(t, b))
  BY <1>1 DEF Pre
<1>3. Short(t, a) = Short(t, b)
  BY <1>1, <1>2, PreSame
<1>4. QED BY <1>3, ShortOnce

(* A child's path is longer by one name. *)
LEMMA ChildLen ==
  ASSUME NEW t, Sane(t), NEW n \in Named(t), t[n].parent \in Nat
  PROVE  /\ t[n].parent \in Named(t) /\ n # 0
         /\ Short(t, n) \in Seq(AllNames) /\ Short(t, t[n].parent) \in Seq(AllNames)
         /\ Pre(Short(t, t[n].parent), Short(t, n))
         /\ Len(Short(t, n)) = Len(Short(t, t[n].parent)) + 1 /\ Len(Short(t, t[n].parent)) \in Nat
<1>1. n # 0
  BY DEF Sane, NoParent
<1> DEFINE m == t[n].parent
           r == Short(t, m)
           q == Short(t, n)
           a == t[n].name
<1>2. m \in Named(t) /\ a \in AllNames /\ r \in Seq(AllNames) /\ q = Append(r, a)
  BY <1>1, ShortChild
<1> HIDE DEF m, r, q, a
<1>3. q \in Seq(AllNames) /\ Len(r) \in Nat /\ Len(q) = Len(r) + 1 /\ Pre(r, q)
  BY <1>2, AppendPre
<1>4. QED BY <1>1, <1>2, <1>3 DEF m, r, q, a

(* The way to the next entry leads through the entries of all calls.       *)
LEMMA ChainIs ==
  ASSUME NEW t, Sane(t), NEW cs \in Seq(SubmitCall), cs # <<>>, NEW tp, Nest(t, tp, cs),
         NEW i \in Named(t), t[i].parent = cs[Len(cs)].node, NEW k \in DOMAIN cs
  PROVE  /\ cs[k].node \in Named(t) /\ Pre(Short(t, cs[k].node), Short(t, i))
         /\ Len(Short(t, cs[k].node)) < Len(Short(t, i))
<1> DEFINE L == Len(cs)
           Through(j) == /\ cs[j].node \in Named(t) /\ Pre(Short(t, cs[j].node), Short(t, i))
                         /\ Len(Short(t, cs[j].node)) < Len(Short(t, i))
           Bad == {j \in Nat : j < L /\ ~Through(L - j)}
<1>1. L \in Nat /\ L >= 1 /\ DOMAIN cs = 1 .. L /\ \A j \in DOMAIN cs : cs[j].node \in Nat
  BY CallsAre
<1>2. Short(t, i) \in Seq(AllNames)
  BY ShortIs
<1>3. Through(L)
  <2>1. t[i].parent \in Nat
    BY <1>1
  <2>2. QED BY <2>1, ChildLen
<1>4. ASSUME NEW j \in 1 .. L, j < L, Through(j + 1)
      PROVE  Through(j)
  <2> DEFINE b == cs[j + 1].node
             c == cs[j].node
  <2>1. b \in Named(t) /\ t[b].parent = c /\ c \in Nat
    <3>1. j \in 1 .. Len(cs) - 1 /\ j \in DOMAIN cs
      BY <1>1, <1>4
    <3>2. QED BY <3>1, <1>1, <1>4 DEF Nest
  <2>2. Pre(Short(t, b), Short(t, i)) /\ Len(Short(t, b)) < Len(Short(t, i))
    BY <1>4
  <2> HIDE DEF b, c
  <2>3. /\ c \in Named(t) /\ Short(t, b) \in Seq(AllNames) /\ Short(t, c) \in Seq(AllNames)
        /\ Pre(Short(t, c), Short(t, b)) /\ Len(Short(t, b)) = Len(Short(t, c)) + 1
        /\ Len(Short(t, c)) \in Nat
    BY <2>1, ChildLen
  <2>4. Pre(Short(t, c), Short(t, i))
    BY <2>2, <2>3, <1>2, PreTrans
  <2>5. Len(Short(t, c)) < Len(Short(t, i))
    BY <2>2, <2>3, <1>2
  <2>6. QED BY <2>3, <2>4, <2>5 DEF c
<1> HIDE DEF Through
<1>5. Bad = {}
  <2> SUFFICES ASSUME Bad # {} PROVE FALSE
    OBVIOUS
  <2>1. PICK j \in Bad : \A y \in Bad : j <= y
    <3>1. Bad \in SUBSET Nat
      OBVIOUS
    <3> HIDE DEF Bad
    <3>2. QED BY <3>1, HasLeast
  <2>2. j \in Nat /\ j < L /\ ~Through(L - j)
    OBVIOUS
  <2>3. j # 0
    BY <2>2, <1>1, <1>3
  <2>4. j - 1 \in Nat /\ j - 1 < L /\ ~(j <= j - 1)
    BY <2>2, <2>3, <1>1
  <2>a. Through(L - (j - 1))
    BY <2>1, <2>4
  <2>5. L - j \in 1 .. L /\ L - j < L /\ (L - j) + 1 = L - (j - 1)
    BY <2>2, <2>3, <1>1
  <2>6. Through((L - j) + 1)
    BY <2>a, <2>5
  <2>7. QED BY <2>2, <2>5, <2>6, <1>4
<1>6. L - k \in Nat /\ L - k < L /\ L - (L - k) = k
  BY <1>1
<1>7. Through(k)
  BY <1>5, <1>6
<1>8. QED BY <1>7 DEF Through

(* No call comes to an entry again. *)
LEMMA NotAgain ==
  ASSUME NEW t, Sane(t), NEW cs \in Seq(SubmitCall), cs # <<>>, NEW tp, Nest(t, tp, cs),
         NEW i, NextEntry(t, cs, i), NEW u, Sane(u), Entered(t, i, u), NEW ds, Deeper(cs, i, ds),
         i \in Named(u), NEW k \in DOMAIN ds
  PROVE  ~Via(u, ds[k], i)
<1> USE DEF NextEntry, Deeper
<1> DEFINE top == Len(cs)
<1> SUFFICES ASSUME Via(u, ds[k], i) PROVE FALSE
  OBVIOUS
<1>1. top \in Nat /\ top >= 1 /\ top \in DOMAIN cs /\ DOMAIN cs = 1 .. top
      /\ \A j \in DOMAIN cs : cs[j].node \in Nat /\ cs[j].next \in Nat
  BY CallsAre
<1>2. DOMAIN t \subseteq Nat /\ Named(t) \subseteq DOMAIN t
  BY InTable DEF Sane
<1>3. PICK a \in Named(u) : u[a].parent = ds[k].node /\ a >= ds[k].next
                            /\ Pre(Short(u, a), Short(u, i))
  BY DEF Via
<1>4. /\ i \in Named(t) /\ Short(u, i) = Short(t, i)
      /\ a \in Named(t) /\ Short(u, a) = Short(t, a) /\ t[a].parent = ds[k].node
  BY <1>3, EnteredIs
<1>5. Short(t, i) \in Seq(AllNames) /\ Short(t, a) \in Seq(AllNames) /\ Pre(Short(t, a), Short(t, i))
  BY <1>3, <1>4, ShortIs
<1>6. CASE k \notin DOMAIN cs
  <2>1. t[a].parent = i /\ i \in Nat
    BY <1>1, <1>4, <1>6
  <2>2. Len(Short(t, a)) = Len(Short(t, i)) + 1 /\ Len(Short(t, i)) \in Nat
    BY <2>1, <1>4, ChildLen
  <2>3. Len(Short(t, a)) <= Len(Short(t, i))
    BY <1>5 DEF Pre
  <2>4. QED BY <2>2, <2>3
<1>7. CASE k = top
  <2>1. t[a].parent = t[i].parent /\ t[i].parent \in Nat /\ a >= i + 1
    BY <1>1, <1>3, <1>4, <1>7
  <2>2. Len(Short(t, a)) = Len(Short(t, i))
    <3>1. Len(Short(t, a)) = Len(Short(t, t[i].parent)) + 1
      BY <2>1, <1>4, ChildLen
    <3>2. Len(Short(t, i)) = Len(Short(t, t[i].parent)) + 1
      BY <2>1, <1>4, ChildLen
    <3>3. QED BY <3>1, <3>2
  <2>3. a = i
    BY <2>2, <1>4, <1>5, PreSelf, SameDepth
  <2>4. a \in Nat
    BY <1>2, <1>4
  <2>5. QED BY <2>1, <2>3, <2>4
<1>8. CASE k \in DOMAIN cs /\ k # top
  <2> DEFINE b == cs[k + 1].node
  <2>1. k + 1 \in DOMAIN cs /\ k \in 1 .. Len(cs) - 1
    BY <1>1, <1>8
  <2>2. b \in Named(t) /\ Pre(Short(t, b), Short(t, i))
    BY <2>1, <1>4, ChainIs
  <2>3. b < cs[k].next /\ t[b].parent = cs[k].node
    BY <2>1, <2>2 DEF Nest
  <2>4. t[a].parent = cs[k].node /\ a >= cs[k].next /\ cs[k].node \in Nat
    BY <1>1, <1>3, <1>4, <1>8
  <2> HIDE DEF b
  <2>5. Len(Short(t, a)) = Len(Short(t, b))
    <3>1. Len(Short(t, a)) = Len(Short(t, cs[k].node)) + 1
      BY <2>4, <1>4, ChildLen
    <3>2. Len(Short(t, b)) = Len(Short(t, cs[k].node)) + 1
      BY <2>2, <2>3, <2>4, ChildLen
    <3>3. QED BY <3>1, <3>2
  <2>6. a = b
    BY <2>2, <2>5, <1>4, <1>5, SameDepth
  <2>7. a \in Nat /\ cs[k].next \in Nat
    BY <1>1, <1>2, <1>4, <1>8
  <2>8. QED BY <2>3, <2>4, <2>6, <2>7
<1>9. QED BY <1>6, <1>7, <1>8

(* A call more is nested in the others; so are the calls without the last. *)
LEMMA NestOn ==
  ASSUME NEW t, Sane(t), NEW cs \in Seq(SubmitCall), cs # <<>>, NEW tp, Nest(t, tp, cs),
         NEW i, NextEntry(t, cs, i), NEW u, Sane(u), Entered(t, i, u), NEW ds, Deeper(cs, i, ds)
  PROVE  Nest(u, tp, ds)
<1> DEFINE top == Len(cs)
<1>1. top \in Nat /\ top >= 1 /\ DOMAIN cs = 1 .. top /\ Len(ds) = top + 1
  BY CallsAre DEF Deeper
<1>a. /\ \A k \in DOMAIN cs : ds[k].node = cs[k].node /\ (k # top => ds[k].next = cs[k].next)
      /\ ds[top].next = i + 1 /\ ds[top + 1].node = i
  BY DEF Deeper
<1>b. i \in Nat /\ t[i].parent = cs[top].node /\ i \in DOMAIN t
  BY DEF NextEntry
<1>2. \A n \in Named(u) : n \in Named(t) /\ u[n].parent = t[n].parent
  BY <1>b, EnteredIs
<1>c. /\ cs[1].node = tp
      /\ \A k \in 1 .. top - 1 :
           /\ cs[k + 1].node < cs[k].next
           /\ cs[k + 1].node \in Named(t) => t[cs[k + 1].node].parent = cs[k].node
  BY DEF Nest
<1> HIDE DEF top
<1>3. ds[1].node = tp
  BY <1>1, <1>a, <1>c
<1>4. ASSUME NEW k \in 1 .. Len(ds) - 1
      PROVE  /\ ds[k + 1].node < ds[k].next
             /\ ds[k + 1].node \in Named(u) => u[ds[k + 1].node].parent = ds[k].node
  <2>1. CASE k = top
    BY <2>1, <1>1, <1>2, <1>a, <1>b
  <2>2. CASE k # top
    <3>1. k \in 1 .. top - 1 /\ k \in DOMAIN cs /\ k + 1 \in DOMAIN cs
      BY <2>2, <1>1
    <3>2. ds[k + 1].node = cs[k + 1].node /\ ds[k].node = cs[k].node /\ ds[k].next = cs[k].next
      BY <3>1, <2>2, <1>a
    <3>3. QED BY <3>1, <3>2, <1>2, <1>c
  <2>3. QED BY <2>1, <2>2
<1>5. QED BY <1>3, <1>4 DEF Nest

LEMMA NestBack ==
  ASSUME NEW t, NEW cs \in Seq(SubmitCall), Len(cs) > 1, NEW tp, Nest(t, tp, cs)
  PROVE  Nest(t, tp, Front(cs))
<1> DEFINE fr == Front(cs)
<1>0. cs # <<>>
  OBVIOUS
<1>1. fr \in Seq(SubmitCall) /\ Len(cs) = Len(fr) + 1 /\ \A k \in DOMAIN fr : fr[k] = cs[k]
  BY <1>0, FrontIs
<1>2. DOMAIN fr = 1 .. Len(fr) /\ Len(fr) \in Nat
  BY <1>1, DomainIs
<1> HIDE DEF fr
<1>3. 1 \in DOMAIN fr /\ \A k \in 1 .. Len(fr) - 1 :
        k \in DOMAIN fr /\ k + 1 \in DOMAIN fr /\ k \in 1 .. Len(cs) - 1
  BY <1>1, <1>2
<1>4. Nest(t, tp, fr)
  BY <1>1, <1>3 DEF Nest
<1>5. QED BY <1>4 DEF fr
-----------------------------------------------------------------------------
(* While the submit goes on: an entry with an mdbref is done with, lies    *)
(* outside, or has no file any longer and will be come to; a file below    *)
(* the directory scanned is tagged or has its mdbref; what the library had *)
(* elsewhere is there.                                                     *)
Done(t, p, fs, cs, n) ==
  /\ Under(p, Short(t, n)) /\ <<Short(t, n), t[n].mdbref>> \in fs
  /\ \A k \in DOMAIN cs : ~Via(t, cs[k], n)
Outside(t, p, bf, n) == ~Under(p, Short(t, n)) /\ <<Drive \o Short(t, n), t[n].mdbref>> \in bf
Stale(t, p, fs, cs, n) ==
  /\ Under(p, Short(t, n)) /\ \A f \in fs : f[1] # Short(t, n)
  /\ \E k \in DOMAIN cs : Via(t, cs[k], n)
Stands(t, p, fs, bf, cs) == \A n \in Named(t) : t[n].mdbref # NoRef =>
  Done(t, p, fs, cs, n) \/ Outside(t, p, bf, n) \/ Stale(t, p, fs, cs, n)
Has(t, f) == \E n \in Named(t) : Short(t, n) = f[1] /\ f[2] \in {t[n].newmdbref, t[n].mdbref}
Elsewhere(p, bf) == {e \in bf : ~Below(Drive \o p, e[1])}
Due(p, fs, bf) == Elsewhere(p, bf)
  \cup {<<Drive \o f[1], f[2]>> : f \in {g \in fs : Below(Drive \o p, Drive \o g[1])}}
Handing(t, p, fs, bf, cs) ==
  /\ TagsOnDisk(t, fs) /\ \A f \in fs : Under(p, f[1]) => Has(t, f)
  /\ Elsewhere(p, bf) \subseteq Library(t) /\ Stands(t, p, fs, bf, cs)

(* What is in the library. *)
LEMMA LibraryIs ==
  ASSUME NEW t, Sane(t)
  PROVE  /\ \A e \in Library(t) : \E n \in Named(t) :
              t[n].mdbref # NoRef /\ e = <<Drive \o Short(t, n), t[n].mdbref>>
         /\ \A n \in Named(t) : t[n].mdbref # NoRef =>
              <<Drive \o Short(t, n), t[n].mdbref>> \in Library(t)
<1>1. \A n \in Named(t) : FullName(t, n) = Drive \o Short(t, n)
  BY FullNameIs, ShortIs
<1>2. QED BY <1>1 DEF Library

(* The submit begins. *)
LEMMA HandingBegins ==
  ASSUME NEW t, Sane(t), NEW tp \in Named(t), NEW p, p = Short(t, tp), NEW bf, bf = Library(t),
         NEW fs \in SUBSET (Seq(Names) \X Mdbrefs), NewBelow(p, fs, bf), NEW st, Tagging(t, p, fs, st),
         \A q : ~Awaited(st, q), NEW cs, DOMAIN cs = {1}, cs[1].node = tp, cs[1].next = 0
  PROVE  Handing(t, p, fs, bf, cs)
<1>1. TagsOnDisk(t, fs) /\ \A f \in fs : Under(p, f[1]) => TaggedAs(t, f)
  BY DEF Tagging
<1>2. \A f \in fs : Under(p, f[1]) => Has(t, f)
  BY <1>1 DEF Has, TaggedAs
<1>3. Elsewhere(p, bf) \subseteq Library(t)
  BY DEF Elsewhere
<1>4. ASSUME NEW n \in Named(t), t[n].mdbref # NoRef
      PROVE  Outside(t, p, bf, n) \/ Stale(t, p, fs, cs, n)
  <2>1. <<Drive \o Short(t, n), t[n].mdbref>> \in bf
    BY <1>4, LibraryIs
  <2>2. CASE Under(p, Short(t, n))
    <3>1. \A f \in fs : f[1] # Short(t, n)
      BY <2>1, <2>2 DEF NewBelow
    <3>2. Pre(p, Short(t, n)) /\ n # tp
      <4>1. Len(p) \in Nat
        BY ShortIs, LenProperties
      <4>2. QED BY <4>1, <2>2 DEF Under
    <3>3. Via(t, cs[1], n)
      BY <3>2, ReachDown
    <3>4. QED BY <2>2, <3>1, <3>3 DEF Stale
  <2>3. CASE ~Under(p, Short(t, n))
    BY <2>1, <2>3 DEF Outside
  <2>4. QED BY <2>2, <2>3
<1>5. QED BY <1>1, <1>2, <1>3, <1>4 DEF Handing, Stands

(* An entry is submitted. *)
LEMMA HandingOn ==
  ASSUME NEW t, Sane(t), NEW cs \in Seq(SubmitCall), cs # <<>>, NEW tp, Nest(t, tp, cs),
         NEW i, NextEntry(t, cs, i), NEW u, Sane(u), Entered(t, i, u), NEW ds, Deeper(cs, i, ds),
         NEW p, p = Short(t, tp), NEW bf, NEW fs \in SUBSET (Seq(Names) \X Mdbrefs),
         Handing(t, p, fs, bf, cs)
  PROVE  Handing(u, p, fs, bf, ds)
<1>1. /\ i \in DOMAIN t /\ i \in Nat /\ t[i].parent = cs[Len(cs)].node /\ i >= cs[Len(cs)].next
      /\ Len(cs) \in DOMAIN cs /\ 1 \in DOMAIN cs
  BY CallsAre DEF NextEntry
<1>2. i \in Named(t) => Under(p, Short(t, i)) /\ Via(t, cs[Len(cs)], i)
  <2> SUFFICES ASSUME i \in Named(t) PROVE Under(p, Short(t, i)) /\ Via(t, cs[Len(cs)], i)
    OBVIOUS
  <2>1. Under(p, Short(t, i))
    <3>1. Pre(Short(t, cs[1].node), Short(t, i)) /\ Len(Short(t, cs[1].node)) < Len(Short(t, i))
      BY <1>1, ChainIs
    <3>2. cs[1].node = tp
      BY DEF Nest
    <3>3. QED BY <3>1, <3>2 DEF Under
  <2>2. Pre(Short(t, i), Short(t, i))
    BY ShortIs, PreSelf
  <2>3. QED BY <2>1, <2>2, <1>1 DEF Via
<1>3. /\ \A n \in Named(u) :
           /\ n \in Named(t) /\ Short(u, n) = Short(t, n)
           /\ n # i => u[n].mdbref = t[n].mdbref /\ u[n].newmdbref = t[n].newmdbref
           /\ n = i => u[n].mdbref = t[n].newmdbref /\ u[n].newmdbref = NoRef
      /\ \A n \in Named(t) :
           t[n].newmdbref # NoRef \/ (n # i /\ t[n].mdbref # NoRef) => n \in Named(u)
  BY <1>1, EnteredIs
<1>4. TagsOnDisk(u, fs)
  BY <1>3 DEF Handing, TagsOnDisk
<1>5. i \in Named(t) => t[i].mdbref = NoRef \/ Stale(t, p, fs, cs, i)
  BY <1>1, <1>2 DEF Handing, Stands, Done, Outside
<1>6. ASSUME NEW f \in fs, Under(p, f[1])
      PROVE  Has(u, f)
  <2>1. PICK n \in Named(t) : Short(t, n) = f[1] /\ f[2] \in {t[n].newmdbref, t[n].mdbref}
    BY <1>6 DEF Handing, Has
  <2>2. f[2] # NoRef
    BY NumbersAssumption DEF NoRef
  <2>3. CASE n # i
    <3>1. n \in Named(u)
      BY <2>1, <2>2, <2>3, <1>3
    <3>2. QED BY <3>1, <2>1, <2>3, <1>3 DEF Has
  <2>4. CASE n = i
    <3>1. f[2] = t[i].newmdbref
      BY <2>1, <2>2, <2>4, <1>5 DEF Stale
    <3>2. i \in Named(u)
      BY <3>1, <2>1, <2>2, <2>4, <1>3
    <3>3. QED BY <3>1, <3>2, <2>1, <2>4, <1>3 DEF Has
  <2>5. QED BY <2>3, <2>4
<1>7. Elsewhere(p, bf) \subseteq Library(u)
  <2> SUFFICES ASSUME NEW e \in Elsewhere(p, bf)
               PROVE  e \in Library(u)
    OBVIOUS
  <2>1. e \in Library(t) /\ ~Below(Drive \o p, e[1])
    BY DEF Handing, Elsewhere
  <2>2. PICK n \in Named(t) : t[n].mdbref # NoRef /\ e = <<Drive \o Short(t, n), t[n].mdbref>>
    BY <2>1, LibraryIs
  <2>3. n # i
    <3> SUFFICES ASSUME n = i PROVE FALSE
      OBVIOUS
    <3>1. tp \in Named(t)
      <4>1. cs[1].node \in Named(t)
        BY <1>1, <2>2, ChainIs
      <4>2. QED BY <4>1 DEF Nest
    <3>2. p \in Seq(AllNames) /\ Short(t, n) \in Seq(AllNames)
      BY <3>1, ShortIs
    <3>3. Under(p, Short(t, n))
      BY <1>2
    <3>4. Below(Drive \o p, Drive \o Short(t, n))
      BY <3>2, <3>3, UnderDrive
    <3>5. QED BY <3>4, <2>1, <2>2
  <2>4. n \in Named(u) /\ u[n].mdbref = t[n].mdbref /\ Short(u, n) = Short(t, n)
    BY <2>2, <2>3, <1>3
  <2>5. <<Drive \o Short(u, n), u[n].mdbref>> \in Library(u)
    BY <2>2, <2>4, LibraryIs
  <2>6. QED BY <2>2, <2>4, <2>5
<1>8. ASSUME NEW n \in Named(u), u[n].mdbref # NoRef
      PROVE  Done(u, p, fs, ds, n) \/ Outside(u, p, bf, n) \/ Stale(u, p, fs, ds, n)
  <2>1. n \in Named(t) /\ Short(u, n) = Short(t, n)
    BY <1>3
  <2>2. CASE n = i
    <3>1. u[i].mdbref = t[i].newmdbref /\ t[i].newmdbref # NoRef
      BY <2>2, <1>3, <1>8
    <3>2. <<Short(t, i), t[i].newmdbref>> \in fs
      BY <3>1, <2>1, <2>2 DEF Handing, TagsOnDisk
    <3>3. \A k \in DOMAIN ds : ~Via(u, ds[k], i)
      BY <2>2, NotAgain
    <3>4. QED BY <3>1, <3>2, <3>3, <2>1, <2>2, <1>2 DEF Done
  <2>3. CASE n # i
    <3>1. u[n].mdbref = t[n].mdbref
      BY <2>3, <1>3
    <3>2. CASE Done(t, p, fs, cs, n)
      <4>1. \A k \in DOMAIN ds : ~Via(u, ds[k], n)
        BY <3>2, ViaBack DEF Done
      <4>2. QED BY <4>1, <3>1, <3>2, <2>1 DEF Done
    <3>3. CASE Outside(t, p, bf, n)
      BY <3>1, <3>3, <2>1 DEF Outside
    <3>4. CASE Stale(t, p, fs, cs, n)
      <4>1. \E k \in DOMAIN ds : Via(u, ds[k], n)
        BY <3>4, <2>3, ViaOn DEF Stale
      <4>2. QED BY <4>1, <3>4, <2>1 DEF Stale
    <3>5. QED BY <3>1, <3>2, <3>3, <3>4, <2>1, <1>8 DEF Handing, Stands
  <2>4. QED BY <2>2, <2>3
<1>9. QED BY <1>4, <1>6, <1>7, <1>8 DEF Handing, Stands

(* A call is through. *)
LEMMA HandingBack ==
  ASSUME NEW t, Table(t), NEW cs \in Seq(SubmitCall), cs # <<>>, NEW p, NEW fs, NEW bf,
         Handing(t, p, fs, bf, cs),
         \A j \in DOMAIN t : ~(t[j].parent = cs[Len(cs)].node /\ j >= cs[Len(cs)].next)
  PROVE  Handing(t, p, fs, bf, Front(cs))
<1>1. Named(t) \subseteq DOMAIN t
  BY DEF Named
<1>2. \A n : ~Via(t, cs[Len(cs)], n)
  BY <1>1 DEF Via
<1>3. /\ DOMAIN cs = DOMAIN Front(cs) \cup {Len(cs)}
      /\ \A k \in DOMAIN Front(cs) : Front(cs)[k] = cs[k]
  BY FrontIs
<1>4. ASSUME NEW n \in Named(t)
      PROVE  /\ Done(t, p, fs, cs, n) => Done(t, p, fs, Front(cs), n)
             /\ Stale(t, p, fs, cs, n) => Stale(t, p, fs, Front(cs), n)
  BY <1>2, <1>3 DEF Done, Stale
<1>5. QED BY <1>4 DEF Handing, Stands

(* The last call is through: the library is what it should be. *)
LEMMA HandedOver ==
  ASSUME NEW t, Sane(t), NEW tp \in Named(t), NEW p, p = Short(t, tp),
         NEW fs \in SUBSET (Seq(Names) \X Mdbrefs), NEW bf, NEW cs, Handing(t, p, fs, bf, cs),
         \A k \in DOMAIN cs : \A n : ~Via(t, cs[k], n), \A n \in Named(t) : t[n].newmdbref = NoRef
  PROVE  Library(t) = Due(p, fs, bf)
<1> DEFINE new == {<<Drive \o f[1], f[2]>> : f \in {g \in fs : Below(Drive \o p, Drive \o g[1])}}
<1>1. p \in Seq(AllNames) /\ \A n \in Named(t) : Short(t, n) \in Seq(AllNames)
  BY ShortIs
<1>2. \A f \in fs : f[1] \in Seq(AllNames) /\ f[2] \in Nat /\ f[2] # NoRef
  BY MoreNames, NumbersAssumption DEF NoRef
<1>3. ASSUME NEW e \in Library(t)
      PROVE  e \in Elsewhere(p, bf) \cup new
  <2>1. PICK n \in Named(t) : t[n].mdbref # NoRef /\ e = <<Drive \o Short(t, n), t[n].mdbref>>
    BY LibraryIs
  <2>2. Done(t, p, fs, cs, n) \/ Outside(t, p, bf, n)
    BY <2>1 DEF Handing, Stands, Stale
  <2>3. Below(Drive \o p, Drive \o Short(t, n)) <=> Under(p, Short(t, n))
    BY <1>1, UnderDrive
  <2>4. CASE Done(t, p, fs, cs, n)
    <3> DEFINE f == <<Short(t, n), t[n].mdbref>>
    <3>1. f \in fs /\ f[1] = Short(t, n) /\ f[2] = t[n].mdbref /\ Under(p, Short(t, n))
      BY <2>4 DEF Done
    <3> HIDE DEF f
    <3>2. <<Drive \o f[1], f[2]>> \in new
      BY <3>1, <2>3
    <3>3. QED BY <3>1, <3>2, <2>1
  <2>5. CASE Outside(t, p, bf, n)
    <3>1. e \in bf /\ e[1] = Drive \o Short(t, n) /\ ~Under(p, Short(t, n))
      BY <2>1, <2>5 DEF Outside
    <3>2. QED BY <3>1, <2>3 DEF Elsewhere
  <2>6. QED BY <2>2, <2>4, <2>5
<1>4. ASSUME NEW e \in new
      PROVE  e \in Library(t)
  <2>1. PICK f \in fs : Below(Drive \o p, Drive \o f[1]) /\ e = <<Drive \o f[1], f[2]>>
    BY <1>4
  <2>2. Under(p, f[1])
    BY <2>1, <1>1, <1>2, UnderDrive
  <2>3. PICK n \in Named(t) : Short(t, n) = f[1] /\ f[2] \in {t[n].newmdbref, t[n].mdbref}
    BY <2>2 DEF Handing, Has
  <2>4. t[n].mdbref = f[2] /\ t[n].mdbref # NoRef
    BY <2>3, <1>2
  <2>5. <<Drive \o Short(t, n), t[n].mdbref>> \in Library(t)
    BY <2>4, LibraryIs
  <2>6. QED BY <2>1, <2>3, <2>4, <2>5
<1>5. Elsewhere(p, bf) \subseteq Library(t)
  BY DEF Handing
<1>6. QED BY <1>3, <1>4, <1>5 DEF Due
-----------------------------------------------------------------------------
(* While the submit goes on.                                               *)
Handed ==
  pc = "submit" => /\ Handing(dirdbData, Scanned, files, before, calls)
                   /\ Nest(dirdbData, tagparentnode, calls)

(* The invariant that what a scan leaves rests on.                         *)
JInv == IInv /\ DiskTree(dirs, files) /\ Walked /\ Handed

(* What is known then. *)
LEMMA HandState ==
  ASSUME IInv, pc = "submit"
  PROVE  /\ Sound(dirdbData, Wants, TRUE, ~leaky) /\ Sane(dirdbData) /\ Refs(dirdbData, TRUE)
         /\ Wants \in Handles /\ Wants[0] >= 1 /\ handle = tagparentnode /\ tagparentnode # NoParent
         /\ tagparentnode \in Named(dirdbData) /\ tagparentnode \in Nat
         /\ calls \in Seq(SubmitCall) /\ calls # <<>> /\ Reached(dirdbData, calls)
         /\ files \in SUBSET (Seq(Names) \X Mdbrefs) /\ stack \in Seq(Frame)
         /\ Restarts => \A k \in DOMAIN calls : calls[k].node # 0
<1>1. /\ Typing /\ Scanning /\ calls # <<>> /\ handle = tagparentnode
      /\ Sound(dirdbData, Wants, TRUE, ~leaky) /\ Reached(dirdbData, calls)
      /\ Restarts => \A k \in DOMAIN calls : calls[k].node # 0
  BY DEF IInv, Control, TableOK, Submitting
<1>2. /\ stack \in Seq(Frame) /\ tagparentnode \in Int /\ tagparentnode # NoParent
      /\ calls \in Seq(SubmitCall) /\ files \in SUBSET (Seq(Names) \X Mdbrefs)
  BY <1>1 DEF Typing, Scanning
<1>3. tagparentnode \in Named(dirdbData) /\ Named(dirdbData) \subseteq Nat
  <2> DEFINE x == ~leaky
  <2>1. Sound(dirdbData, Wants, TRUE, x)
    BY <1>1
  <2> HIDE DEF x
  <2>2. QED BY <2>1, <1>2, WantedNamed DEF Wants
<1>4. Wants \in Handles /\ Wants[0] >= 1
  BY <1>2, WantedIs DEF Wants
<1>5. Sane(dirdbData) /\ Refs(dirdbData, TRUE)
  BY <1>1 DEF Sound
<1>6. QED BY <1>1, <1>2, <1>3, <1>4, <1>5

(* The walk ends and the submit begins. *)
LEMMA DoneHanded ==
  ASSUME IInv, Walked, SubScanDone
  PROVE  Handed'
<1> SUFFICES ASSUME pc' = "submit" PROVE Handed'
  BY DEF Handed
<1> DEFINE t == dirdbData'
           tp == tagparentnode
           cs == calls'
<1>1. /\ pc = "files" /\ tp' = tp /\ Len(stack) <= 1
      /\ cs = <<[node |-> tp, next |-> 0]>>
  <2>1. pc = "files" /\ tp' = tp
    BY Zenon DEF SubScanDone, At
  <2>2. ~(Len(stack) > 1) /\ cs = <<[node |-> tp, next |-> 0]>>
    BY DEF SubScanDone
  <2>3. stack \in Seq(Frame)
    BY DEF IInv, Typing
  <2>4. Len(stack) \in Nat
    BY <2>3, LenProperties
  <2>5. QED BY <2>1, <2>2, <2>4
<1>2. /\ Scanned' = Scanned /\ Sane(t) /\ tp \in Named(t) /\ before' = before /\ files' = files
      /\ before' = Library(t) /\ NewBelow(Scanned, files, before)
      /\ Tagging(t, Scanned, files, Front(stack))
  BY DoneWalked
<1>3. Scanned = Short(t, tp)
  BY <1>1, <1>2 DEF Scanned
<1>4. DOMAIN Front(stack) = {} /\ files \in SUBSET (Seq(Names) \X Mdbrefs)
  <2>1. stack \in Seq(Frame) /\ stack # <<>> /\ files \subseteq Seq(Names) \X Mdbrefs
    BY <1>1, WalkState
  <2>2. Front(stack) \in Seq(Frame) /\ Len(stack) = Len(Front(stack)) + 1
    BY <2>1, FrontIs
  <2>3. Len(Front(stack)) = 0
    BY <1>1, <2>1, <2>2, LenProperties
  <2>4. QED BY <2>1, <2>2, <2>3, DomainIs
<1>5. \A q : ~Awaited(Front(stack), q)
  BY <1>4 DEF Awaited
<1>6. DOMAIN cs = {1} /\ Len(cs) = 1 /\ cs[1].node = tp /\ cs[1].next = 0
  BY <1>1
<1> HIDE DEF t, tp, cs
<1>7. Handing(t, Scanned, files, before, cs)
  <2> DEFINE st == Front(stack)
             p == Scanned
             bf == before
             fs == files
  <2>1. /\ \A q : ~Awaited(st, q)
        /\ Tagging(t, p, fs, st)
        /\ p = Short(t, tp) /\ bf = Library(t) /\ NewBelow(p, fs, bf)
        /\ fs \in SUBSET (Seq(Names) \X Mdbrefs)
    BY <1>2, <1>3, <1>4, <1>5
  <2> HIDE DEF st, p, bf, fs
  <2>2. Handing(t, p, fs, bf, cs)
    BY <1>2, <1>6, <2>1, HandingBegins
  <2>3. QED BY <2>2 DEF p, bf, fs
<1>8. Nest(t, tp, cs)
  BY <1>6 DEF Nest
<1>9. QED BY <1>1, <1>2, <1>7, <1>8 DEF Handed, t, tp, cs

(* An entry is submitted, or a call is through. *)
LEMMA SubmitHanded ==
  ASSUME IInv, Handed, Submit
  PROVE  Handed'
<1> SUFFICES ASSUME pc' = "submit" PROVE Handed'
  BY DEF Handed
<1> DEFINE x == ~leaky
           t == dirdbData
           tp == tagparentnode
           w == Wants
           L == Len(calls)
           c == calls[L]
           i == Lowest(Pending(t, c))
           u == SubmitEntry(t, i)
<1>1. pc = "submit" /\ files' = files /\ before' = before
  BY Zenon DEF Submit, At, disk
<1>2. \/ /\ Pending(t, c) # {} /\ dirdbData' = u
         /\ calls' = IF LooksBelow(t, i) THEN Append(Resumed(calls, i), [node |-> i, next |-> 0])
                                         ELSE Resumed(calls, i)
         /\ tp' = tp
      \/ /\ Pending(t, c) = {} /\ L > 1 /\ calls' = Front(calls)
         /\ dirdbData' = t /\ tp' = tp
  BY Zenon DEF Submit, Pending, Resumed
<1>3. /\ Sound(t, w, TRUE, x) /\ Sane(t) /\ Refs(t, TRUE)
      /\ w \in Handles /\ w[0] >= 1 /\ tp \in Named(t)
      /\ calls \in Seq(SubmitCall) /\ calls # <<>>
      /\ files \in SUBSET (Seq(Names) \X Mdbrefs)
      /\ Restarts => \A k \in DOMAIN calls : calls[k].node # 0
  BY <1>1, HandState
<1>4. Handing(t, Scanned, files, before, calls) /\ Nest(t, tp, calls)
  BY <1>1 DEF Handed
<1>5. tagparentnode' \in Named(dirdbData')
  <2>1. IInv'
    BY SubmitIInv
  <2>2. QED
    <3>1. /\ Typing' /\ Scanning' /\ Sound(dirdbData', Wants', TRUE, ~leaky')
      BY <2>1 DEF IInv, Control, TableOK
    <3> DEFINE y == ~leaky'
    <3>2. Sound(dirdbData', Wanted(tagparentnode', handle', playlist', stack'), TRUE, y)
      BY <3>1 DEF Wants
    <3> HIDE DEF y
    <3>3. stack' \in Seq(Frame) /\ tagparentnode' \in Int /\ tagparentnode' # NoParent
      BY <3>1 DEF Typing, Scanning
    <3>4. QED BY <3>2, <3>3, WantedNamed
<1> HIDE DEF x, w, u
<1>6. CASE /\ Pending(t, c) # {} /\ dirdbData' = u
           /\ calls' = IF LooksBelow(t, i) THEN Append(Resumed(calls, i), [node |-> i, next |-> 0])
                                           ELSE Resumed(calls, i)
           /\ tp' = tp
  <2>1. c.node \in Nat
    BY <1>3, CallsAre
  <2> HIDE DEF i
  <2>2. /\ i \in DOMAIN t /\ i \in Nat /\ i >= c.next /\ t[i].parent = c.node /\ i # 0
        /\ \A j \in DOMAIN t : t[j].parent = c.node /\ j >= c.next => i <= j
    BY <1>3, <1>6, <2>1, PendingIs DEF i
  <2>3. NextEntry(t, calls, i)
    BY <2>2 DEF NextEntry
  <2>4. LooksBelow(t, i)
    BY <1>3, <2>2, LooksBelowIs
  <2>5. Deeper(calls, i, calls')
    BY <1>3, <1>6, <2>2, <2>4, CallsOn
  <2>6. L \in DOMAIN calls
    BY <1>3, CallsAre
  <2>7. Restarts => t[i].parent # 0
    BY <1>3, <2>2, <2>6, Zenon
  <2>8. Sane(u) /\ Entered(t, i, u)
    BY <1>3, <2>2, <2>7, SubmitOne, Zenon DEF Entered, u
  <2>9. Short(u, tp) = Short(t, tp)
    BY <1>3, <1>5, <1>6, <2>2, <2>8, EnteredIs
  <2>10. Scanned' = Scanned /\ Scanned = Short(t, tp)
    BY <1>6, <2>9 DEF Scanned
  <2>11. Handing(u, Scanned, files, before, calls')
    <3> DEFINE p == Scanned
    <3>1. p = Short(t, tp) /\ Handing(t, p, files, before, calls)
      BY <1>4, <2>10
    <3> HIDE DEF p
    <3>2. Handing(u, p, files, before, calls')
      BY <1>3, <1>4, <2>3, <2>5, <2>8, <3>1, HandingOn
    <3>3. QED BY <3>2 DEF p
  <2>12. Nest(u, tp, calls')
    BY <1>3, <1>4, <2>3, <2>5, <2>8, NestOn
  <2>13. QED BY <1>1, <1>6, <2>10, <2>11, <2>12 DEF Handed
<1>7. CASE /\ Pending(t, c) = {} /\ L > 1 /\ calls' = Front(calls)
           /\ dirdbData' = t /\ tp' = tp
  <2>1. \A j \in DOMAIN t : ~(t[j].parent = c.node /\ j >= c.next)
    BY <1>7 DEF Pending
  <2>2. Table(t)
    BY <1>3 DEF Sane
  <2>3. Handing(t, Scanned, files, before, calls')
    BY <1>3, <1>4, <1>7, <2>1, <2>2, HandingBack
  <2>4. Nest(t, tp, calls')
    BY <1>3, <1>4, <1>7, NestBack
  <2>5. Scanned' = Scanned
    BY <1>7 DEF Scanned
  <2>6. QED BY <1>1, <1>7, <2>3, <2>4, <2>5 DEF Handed
<1>8. QED BY <1>2, <1>6, <1>7

(* The submit ends. *)
LEMMA SubmitEnds ==
  ASSUME IInv, Handed, Submit, pc' = "flush"
  PROVE  LET scanned == FullName(dirdbData, tagparentnode) IN
         Library(dirdbData') =
              {e \in before : ~Below(scanned, e[1])}
                \cup {<<Drive \o f[1], f[2]>> : f \in {g \in files : Below(scanned, Drive \o g[1])}}
<1> DEFINE x == ~leaky
           t == dirdbData
           tp == tagparentnode
           w == Wants
           L == Len(calls)
           c == calls[L]
           u == Unref(t, tp)
<1>1. /\ pc = "submit" /\ Pending(t, c) = {} /\ L = 1 /\ dirdbData' = u
  <2>1. pc = "submit"
    BY Zenon DEF Submit, At
  <2>2. QED BY <2>1, Zenon DEF Submit, Pending
<1>2. /\ Sound(t, w, TRUE, x) /\ Sane(t) /\ Table(t) /\ handle = tp /\ stack \in Seq(Frame)
      /\ tp \in Named(t) /\ tp \in Nat /\ calls \in Seq(SubmitCall) /\ calls # <<>>
      /\ Reached(t, calls) /\ files \in SUBSET (Seq(Names) \X Mdbrefs)
  BY <1>1, HandState DEF Sane
<1>3. Handing(t, Scanned, files, before, calls)
  BY <1>1 DEF Handed
<1> HIDE DEF x, w
<1>4. \A j \in DOMAIN t : ~(t[j].parent = c.node /\ j >= c.next)
  BY <1>1 DEF Pending
<1>5. \A n \in Named(t) : t[n].newmdbref = NoRef
  BY <1>1, <1>2, <1>4, ReachBack
<1>6. \A k \in DOMAIN calls : \A n : ~Via(t, calls[k], n)
  <2>1. DOMAIN calls = 1 .. 1
    BY <1>1, <1>2, DomainIs
  <2>2. \A k \in DOMAIN calls : k = L
    BY <1>1, <2>1
  <2>3. Named(t) \subseteq DOMAIN t
    BY DEF Named
  <2>4. QED BY <2>2, <2>3, <1>4 DEF Via
<1>7. Library(t) = Due(Scanned, files, before)
  <2> DEFINE p == Scanned
             cs == calls
             bf == before
             fs == files
  <2>1. /\ p = Short(t, tp) /\ Handing(t, p, fs, bf, cs) /\ fs \in SUBSET (Seq(Names) \X Mdbrefs)
        /\ \A k \in DOMAIN cs : \A n : ~Via(t, cs[k], n)
    BY <1>2, <1>3, <1>6 DEF Scanned
  <2> HIDE DEF p, cs, bf, fs
  <2>2. Library(t) = Due(p, fs, bf)
    BY <1>2, <1>5, <2>1, HandedOver
  <2>3. QED BY <2>2 DEF p, bf, fs
<1>8. Library(u) = Library(t)
  <2> DEFINE v == Wanted(NoParent, tp, playlist, stack)
  <2>1. Sound(t, Wanted(tp, tp, playlist, stack), TRUE, x)
    BY <1>2, Zenon DEF w, Wants
  <2>2. v \in Handles /\ v[0] >= 1 /\ Sound(t, Plus(v, tp), TRUE, x)
    BY <1>2, <2>1, TwoHandles
  <2> HIDE DEF v
  <2>3. Sound(u, v, TRUE, x) /\ Shrunk(t, u, TRUE)
    BY <1>2, <2>2, UnrefSound
  <2>4. Kept(t, u) /\ Sane(u)
    BY <2>3, ShrunkKept DEF Sound
  <2>5. QED BY <1>2, <2>4, LibraryKept
<1>9. FullName(t, tp) = Drive \o Scanned
  BY <1>2, FullNameIs, ShortIs DEF Scanned
<1>10. QED BY <1>1, <1>7, <1>8, <1>9 DEF Elsewhere, Due
-----------------------------------------------------------------------------
(* At first nothing is scanned, and no file is on the disk. *)
LEMMA InitJInv == Init => JInv
<1> SUFFICES ASSUME Init
             PROVE  JInv
  OBVIOUS
<1>1. IInv /\ pc = "idle" /\ files = {} /\ \A q \in dirs : Len(q) > 1 => Front(q) \in dirs
  BY InitIInv DEF Init
<1>2. DiskTree(dirs, files)
  BY <1>1 DEF DiskTree, OnDisk
<1>3. QED BY <1>1, <1>2 DEF JInv, Walked, Handed

(* Other steps than those of the user's programs leave the disk alone. *)
LEMMA NextDisk ==
  ASSUME IInv, DiskTree(dirs, files), [Next]_vars
  PROVE  DiskTree(dirs', files')
<1>1. CASE DiskChange
  BY <1>1, DiskStays DEF IInv, Typing
<1>2. CASE dirs' = dirs /\ files' = files
  BY <1>2
<1>3. ASSUME NEW target \in Targets, StartScan(target)
      PROVE  dirs' = dirs /\ files' = files
  BY <1>3, Zenon DEF StartScan, disk
<1>4. CASE Restart \/ Append1 \/ Remove1 \/ UNCHANGED vars
  BY <1>2, <1>4, Zenon DEF Restart, Append1, Remove1, vars, disk
<1>5. CASE ReadDirChild \/ ReadDone \/ SubScan \/ TagFile \/ SubScanDone
  BY <1>2, <1>5, Zenon DEF ReadDirChild, ReadDone, SubScan, TagFile, SubScanDone, disk
<1>6. CASE Cancel \/ Submit \/ Flush
  BY <1>2, <1>6, Zenon DEF Cancel, Submit, Flush, disk
<1>7. QED BY <1>1, <1>2, <1>3, <1>4, <1>5, <1>6 DEF Next, Scans

(* Every step keeps what a scan rests on. *)
LEMMA NextWalked ==
  ASSUME JInv, Premises, [Next]_vars
  PROVE  Walked' /\ Handed'
<1>1. IInv /\ DiskTree(dirs, files) /\ Walked /\ Handed
  BY DEF JInv
<1>2. CASE pc' \notin {"read", "files", "submit"}
  BY <1>2 DEF Walked, Handed
<1>3. CASE pc' \in {"read", "files"} /\ Walked'
  BY <1>3 DEF Handed
<1>4. CASE Restart \/ DiskChange \/ Append1 \/ Remove1 \/ Cancel \/ Flush
  <2>1. pc' = "idle"
    <3>1. CASE Restart \/ Cancel \/ Flush
      BY <3>1, Zenon DEF Restart, Cancel, Flush, Forgotten
    <3>2. CASE DiskChange \/ Append1 \/ Remove1
      BY <3>2, Zenon DEF DiskChange, Append1, Remove1, At
    <3>3. QED BY <1>4, <3>1, <3>2
  <2>2. QED BY <2>1, <1>2
<1>5. ASSUME NEW target \in Targets, StartScan(target)
      PROVE  Walked' /\ Handed'
  <2>1. Walked'
    BY <1>1, <1>5, StartWalked
  <2>2. pc' = "read"
    BY <1>5, Zenon DEF StartScan
  <2>3. QED BY <2>1, <2>2, <1>3
<1>6. CASE ReadDirChild
  <2>1. Walked'
    BY <1>1, <1>6, ReadWalked
  <2>2. pc' = "read"
    BY <1>6, Zenon DEF ReadDirChild, At
  <2>3. QED BY <2>1, <2>2, <1>3
<1>7. CASE ReadDone
  <2>1. Walked'
    BY <1>1, <1>7, ReadDoneWalked
  <2>2. pc' \in {"files", "cancel"}
    BY <1>7 DEF ReadDone
  <2>3. QED BY <2>1, <2>2, <1>2, <1>3
<1>8. CASE SubScan
  <2>1. Walked'
    BY <1>1, <1>8, SubScanWalked
  <2>2. pc' = "read"
    BY <1>8, Zenon DEF SubScan
  <2>3. QED BY <2>1, <2>2, <1>3
<1>9. CASE TagFile
  <2>1. Walked'
    BY <1>1, <1>9, TagWalked
  <2>2. pc' = "files"
    BY <1>9, Zenon DEF TagFile, At
  <2>3. QED BY <2>1, <2>2, <1>3
<1>10. CASE SubScanDone
  BY <1>1, <1>10, DoneWalked, DoneHanded
<1>11. CASE Submit
  <2>1. pc' \in {"submit", "flush"}
    BY <1>11 DEF Submit, At
  <2>2. Handed'
    BY <1>1, <1>11, SubmitHanded
  <2>3. QED BY <2>1, <2>2 DEF Walked
<1>12. CASE UNCHANGED vars
  <2>1. /\ dirdbData' = dirdbData /\ tagparentnode' = tagparentnode /\ stack' = stack
        /\ calls' = calls /\ pc' = pc /\ files' = files /\ before' = before
    BY <1>12 DEF vars, scan, disk
  <2>2. Scanned' = Scanned
    BY <2>1 DEF Scanned
  <2>3. QED BY <1>1, <2>1, <2>2 DEF Walked, Handed
<1>13. QED BY <1>4, <1>5, <1>6, <1>7, <1>8, <1>9, <1>10, <1>11, <1>12 DEF Next, Scans

(* A step from the submit to the flush is one of Submit. *)
LEMMA OnlySubmit ==
  ASSUME [Next]_vars, pc = "submit", pc' = "flush"
  PROVE  Submit
<1>1. ASSUME NEW target \in Targets, StartScan(target)
      PROVE  FALSE
  BY <1>1, Zenon DEF StartScan
<1>2. CASE Restart \/ Cancel \/ Flush
  BY <1>2 DEF Restart, Cancel, Flush, Forgotten
<1>3. CASE DiskChange \/ Append1 \/ Remove1
  BY <1>3 DEF DiskChange, Append1, Remove1, At
<1>4. CASE ReadDirChild \/ ReadDone \/ SubScan \/ TagFile \/ SubScanDone
  BY <1>4 DEF ReadDirChild, ReadDone, SubScan, TagFile, SubScanDone, At
<1>5. CASE UNCHANGED vars
  BY <1>5 DEF vars
<1>6. QED BY <1>1, <1>2, <1>3, <1>4, <1>5 DEF Next, Scans

(* A scan that is not aborted leaves in the library, below the directory   *)
(* scanned, exactly the files that are on the disk, and what was there     *)
(* before elsewhere.                                                       *)
THEOREM ScansExact == ASSUME Premises PROVE Spec => ScanExact
<1> DEFINE step == pc = "submit" /\ pc' = "flush" =>
                     LET scanned == FullName(dirdbData, tagparentnode) IN
                     Library(dirdbData') =
                          {e \in before : ~Below(scanned, e[1])}
                            \cup {<<Drive \o f[1], f[2]>> : f \in {g \in files : Below(scanned, Drive \o g[1])}}
<1>1. Init => JInv
  BY InitJInv
<1>2. JInv /\ [Next]_vars => JInv'
  <2>1. SUFFICES ASSUME JInv, [Next]_vars
                 PROVE  JInv'
    OBVIOUS
  <2>2. IInv' /\ DiskTree(dirs', files')
    BY <2>1, NextIInv, NextDisk DEF JInv
  <2>3. QED BY <2>1, <2>2, NextWalked DEF JInv
<1>3. JInv /\ [Next]_vars => [step]_vars
  <2>1. SUFFICES ASSUME JInv, [Next]_vars
                 PROVE  step
    OBVIOUS
  <2>2. QED BY <2>1, OnlySubmit, SubmitEnds DEF JInv
<1>4. ScanExact <=> [][step]_vars
  BY DEF ScanExact
<1> HIDE DEF step
<1>5. QED BY <1>1, <1>2, <1>3, <1>4, PTL DEF Spec
=============================================================================
