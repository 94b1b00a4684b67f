---------------------------- MODULE FsMainProofs ----------------------------
(***************************************************************************)
(* The main loop holds what it opens, proved for any files and any list:   *)
(* no FILE and no interface is lost or closed twice, the interface that    *)
(* runs was given the file that was chosen for it, and the cursor of the   *)
(* playlist stays in the list.                                             *)
(***************************************************************************)
EXTENDS FsMain, TLAPS, SequenceTheorems, WellFoundedInduction, NaturalsInduction

Places ==
  {"main", "select", "browse", "fetch", "handle", "consume", "run", "quit", "done"}

(* What is open is what the variables hold, and where in the loop each of  *)
(* them may hold something: tf only between the fetch and its end, nextf   *)
(* from there to the exchange, and callselector is called for a song that  *)
(* plays but from the top of _fsMain.                                      *)
HoldsInv ==
  /\ pc \in Places /\ open \in Int /\ inits \in Int
  /\ open = Closed(tf) + Closed(nextf) + Closed(thisf)
  /\ inits = Closed(plintr)
  /\ tf # NoFile => pc = "handle"
  /\ pc = "handle" => nextplay \in Files /\ tf = HandleOf(nextplay)
  /\ nextintr # NoFile => /\ nextintr \in Files /\ nextf = HandleOf(nextintr)
                          /\ \/ pc = "consume"
                             \/ pc = "main" /\ plintr # NoFile /\ stop = "auto"
  /\ nextintr = NoFile => nextf = NoFile
  /\ plintr # NoFile => plintr \in Files \ NoInit /\ thisf = HandleOf(plintr)
  /\ pc \in {"select", "browse", "fetch", "handle"} /\ call.from # "main" =>
       plintr # NoFile
  /\ pc = "run" => plintr # NoFile
  /\ pc = "done" => plintr = NoFile /\ thisf = NoFile

LEMMA InitHolds == Init => HoldsInv
  BY DEF Init, HoldsInv, Places, Closed

LEMMA StepHolds == HoldsInv /\ [Next]_vars => HoldsInv'
<1> SUFFICES ASSUME HoldsInv, [Next]_vars PROVE HoldsInv'
  OBVIOUS
<1> USE FilesAssumption DEF HoldsInv, Places, Closed
<1> USE DEF list, options, selector, flags, interfaces, handles
<1>1. CASE Main
  BY <1>1 DEF Main, Call
<1>2. CASE Ask
  BY <1>2 DEF Ask
<1>3. ASSUME NEW file \in Files, Fetch(file) PROVE HoldsInv'
  <2>1. CASE file \in Unreadable
    BY <1>3, <2>1 DEF Fetch
  <2>2. CASE file \notin Unreadable
    BY <1>3, <2>2 DEF Fetch, HandleOf
  <2>3. QED  BY <2>1, <2>2
<1>4. CASE Handle
  <2>1. CASE nextplay \in NoInterface
    BY <1>4, <2>1 DEF Handle, Reject
  <2>2. CASE nextplay \notin NoInterface
    BY <1>4, <2>2 DEF Handle, ReturnFile, Deliver, HandleOf
  <2>3. QED  BY <2>1, <2>2
<1>5. CASE GiveUp
  BY <1>5 DEF GiveUp, ReturnNone, Call
<1>6. CASE Consume
  BY <1>6 DEF Consume, Replace, HandleOf
<1>7. CASE Quit
  BY <1>7 DEF Quit
<1>8. CASE Escape \/ Choose \/ Fails \/ EditList \/ fsSetup
  BY <1>8 DEF Escape, Choose, Fails, EditList, fsSetup, Browsing
<1>9. CASE SongEnds \/ KeyCallFs \/ KeyLeave
  BY <1>9 DEF SongEnds, KeyCallFs, KeyLeave, Call
<1>10. ASSUME NEW next \in {"next", "prev"}, KeyNext(next) PROVE HoldsInv'
  BY <1>10 DEF KeyNext, Call
<1>11. CASE Done \/ UNCHANGED vars
  BY <1>11 DEF Done, vars
<1>12. QED
  BY <1>1, <1>2, <1>3, <1>4, <1>5, <1>6, <1>7, <1>8, <1>9, <1>10, <1>11
     DEF Next, Loop

LEMMA Holds == Spec => []HoldsInv
  BY InitHolds, StepHolds, PTL DEF Spec

(* Every FILE and every interface the main loop has opened and not closed  *)
(* is held by one of its variables, whatever files fail (pfsmain.c: the    *)
(* fclose and Close of callselector and _fsMain).                          *)
THEOREM NothingIsLeaked == Spec => []NothingLeaks
<1>1. HoldsInv => NothingLeaks
  BY DEF HoldsInv, NothingLeaks, Closed
<1>2. QED  BY <1>1, Holds, PTL

(* The interface that runs has the FILE of the file it was chosen for.     *)
THEOREM InterfaceHasItsFile == Spec => []RunsItsFile
<1>1. HoldsInv => RunsItsFile
  BY DEF HoldsInv, RunsItsFile
<1>2. QED  BY <1>1, Holds, PTL
-----------------------------------------------------------------------------
(* A set of numbers has a least one.                                       *)
LEMMA LeastNat ==
  ASSUME NEW S \in SUBSET Nat, S # {}
  PROVE  \E x \in S : \A y \in S : x <= y
<1> DEFINE R == {xy \in Nat \X Nat : xy[1] < xy[2]}
<1>0. IsWellFoundedOn(R, Nat)
  BY NatLessThanWellFounded DEF OpToRel
<1> HIDE DEF R
<1>1. PICK x \in S : \A y \in S : ~(<<y, x>> \in R)
  BY <1>0, WFMin
<1>2. ASSUME NEW y \in S PROVE x <= y
  <2>1. <<y, x>> \notin R
    BY <1>1
  <2>2. QED BY <2>1 DEF R
<1>3. QED BY <1>2
-----------------------------------------------------------------------------
(* A playlist, of at most so many files.                                   *)
IsList(s, max) == s \in Seq(Files) /\ Len(s) <= max

LEMMA ListShorter ==
  ASSUME NEW max \in Nat, NEW s, IsList(s, max), NEW i \in 1 .. Len(s)
  PROVE  IsList(RemoveAt(s, i), max) /\ Len(RemoveAt(s, i)) = Len(s) - 1 /\ s[i] \in Files
<1> DEFINE a == SubSeq(s, 1, i - 1)
           b == SubSeq(s, i + 1, Len(s))
<1>1. s \in Seq(Files) /\ Len(s) \in Nat /\ Len(s) <= max /\ i \in Nat /\ s[i] \in Files
  BY ElementOfSeq, LenProperties DEF IsList
<1>2. a \in Seq(Files) /\ Len(a) = i - 1
  BY <1>1, SubSeqProperties
<1>3. b \in Seq(Files) /\ Len(b) = Len(s) - i
  BY <1>1, SubSeqProperties
<1> HIDE DEF a, b
<1>4. a \o b \in Seq(Files) /\ Len(a \o b) = Len(a) + Len(b)
  BY <1>2, <1>3, ConcatProperties
<1>5. RemoveAt(s, i) = a \o b
  BY DEF RemoveAt, a, b
<1>6. QED BY <1>1, <1>2, <1>3, <1>4, <1>5 DEF IsList

LEMMA ListLonger ==
  ASSUME NEW max \in Nat, NEW s, IsList(s, max), NEW file \in Files
  PROVE  IsList(Append(s, file), max + 1) /\ Len(Append(s, file)) = Len(s) + 1
BY AppendProperties, LenProperties DEF IsList

(* The entries of the first n that are not the file.                       *)
Rest(rest, n, file) ==
  IF n = 0 THEN <<>>
  ELSE IF playlist[n] = file THEN rest[n - 1] ELSE Append(rest[n - 1], playlist[n])
IsRest(rest, m, file) == rest = [n \in 0 .. m |-> Rest(rest, n, file)]

(* Such a function there is, whatever the length: there is no least one    *)
(* without.                                                                *)
LEMMA RestExists == \A file : \A m \in Nat : \E rest : IsRest(rest, m, file)
<1> SUFFICES ASSUME NEW file, NEW any \in Nat, ~ \E rest : IsRest(rest, any, file)
             PROVE  FALSE
  OBVIOUS
<1> DEFINE Bad == {m \in Nat : ~ \E rest : IsRest(rest, m, file)}
<1>1. PICK m \in Bad : \A y \in Bad : m <= y
  BY LeastNat
<1>2. CASE m = 0
  <2> DEFINE f == [n \in 0 .. 0 |-> <<>>]
  <2>1. \A n \in 0 .. 0 : Rest(f, n, file) = <<>>
    BY DEF Rest
  <2>2. IsRest(f, 0, file)
    BY <2>1 DEF IsRest
  <2>3. QED BY <1>1, <1>2, <2>2
<1>3. CASE m # 0
  <2>1. m \in Nat /\ m - 1 \in Nat /\ m - 1 \notin Bad
    BY <1>1, <1>3
  <2>2. PICK f : IsRest(f, m - 1, file)
    BY <2>1
  <2> DEFINE last == IF playlist[m] = file THEN f[m - 1] ELSE Append(f[m - 1], playlist[m])
             g == [n \in 0 .. m |-> IF n = m THEN last ELSE f[n]]
  <2>3. \A n \in 0 .. m - 1 : g[n] = f[n] /\ n \in 0 .. m
    BY <2>1
  <2>4. g[m] = last /\ g = [n \in 0 .. m |-> g[n]]
    BY <2>1
  <2> HIDE DEF g
  <2>5. ASSUME NEW n \in 0 .. m PROVE g[n] = Rest(g, n, file)
    <3>1. CASE n = m
      <4>1. g[m - 1] = f[m - 1]
        BY <2>1, <2>3
      <4>2. QED BY <3>1, <4>1, <2>4, <1>3 DEF Rest
    <3>2. CASE n # m
      <4>1. n \in 0 .. m - 1 /\ (n # 0 => n - 1 \in 0 .. m - 1)
        BY <3>2, <2>1
      <4>2. f[n] = Rest(f, n, file)
        BY <4>1, <2>2 DEF IsRest
      <4>3. g[n] = f[n] /\ (n # 0 => g[n - 1] = f[n - 1])
        BY <4>1, <2>3
      <4>4. QED BY <4>2, <4>3 DEF Rest
    <3>3. QED BY <3>1, <3>2
  <2>6. IsRest(g, m, file)
    BY <2>4, <2>5 DEF IsRest
  <2>7. QED BY <1>1, <2>6
<1>4. QED BY <1>2, <1>3

LEMMA WithoutIs ==
  ASSUME NEW file, NEW max \in Nat, IsList(playlist, max)
  PROVE  IsList(Without(file), max)
<1> DEFINE len == Len(playlist)
           F == CHOOSE f : IsRest(f, len, file)
<1>1. len \in Nat /\ len <= max /\ playlist \in Seq(Files)
  BY LenProperties DEF IsList
<1>2. IsRest(F, len, file)
  BY <1>1, RestExists
<1>3. Without(file) = F[len]
  BY DEF Without, IsRest, Rest
<1> HIDE DEF F, len
<1> DEFINE Bad == {n \in 0 .. len : ~ IsList(F[n], n)}
<1>4. Bad = {}
  <2> SUFFICES ASSUME Bad # {} PROVE FALSE
    OBVIOUS
  <2>1. Bad \in SUBSET Nat
    BY <1>1
  <2>2. PICK n \in Bad : \A y \in Bad : n <= y
    BY <2>1, LeastNat
  <2>3. n \in Nat /\ n \in 0 .. len
    BY <1>1, <2>2
  <2>4. F[n] = Rest(F, n, file)
    BY <2>3, <1>2 DEF IsRest
  <2>5. n # 0
    <3>1. IsList(<<>>, 0)
      BY DEF IsList
    <3>2. QED BY <3>1, <2>2, <2>4 DEF Rest
  <2> DEFINE k == n - 1
  <2>6. k \in Nat /\ k \in 0 .. len /\ k < n /\ k + 1 = n /\ n \in 1 .. len
    BY <1>1, <2>3, <2>5
  <2>7. F[n] = IF playlist[n] = file THEN F[k] ELSE Append(F[k], playlist[n])
    BY <2>4, <2>5 DEF Rest
  <2>8. IsList(F[k], k)
    BY <2>2, <2>3, <2>6
  <2>9. playlist[n] \in Files
    BY <1>1, <2>6, ElementOfSeq DEF len
  <2> HIDE DEF k
  <2>10. IsList(Append(F[k], playlist[n]), n)
    BY <2>6, <2>8, <2>9, ListLonger
  <2>11. IsList(F[k], n)
    BY <2>6, <2>8, LenProperties DEF IsList
  <2>12. IsList(F[n], n)
    BY <2>7, <2>10, <2>11
  <2>13. QED BY <2>2, <2>12
<1>5. IsList(F[len], len)
  BY <1>1, <1>4
<1>6. QED BY <1>1, <1>3, <1>5, LenProperties DEF IsList
-----------------------------------------------------------------------------
(* The cursor is in the list.                                              *)
ListInv ==
  /\ IsList(playlist, MaxList)
  /\ IF playlist = <<>> THEN pos = 0 ELSE pos \in 0 .. Len(playlist) - 1
ChoiceInv ==
  /\ isnextplay \in {"none", "browser", "playlist"} /\ nextplay \in Files \cup {NoFile}
  /\ isnextplay = "browser" => nextplay \in Files
  /\ stop \in {"continue", "auto", "callfs", "shell", "quit"}
  /\ thisf \in Files \cup {NoFile}
OptionsInv ==
  fsListRemove \in BOOLEAN /\ fsListScramble \in BOOLEAN /\ fsPlaylistOnly \in BOOLEAN
FlagsInv == ret \in BOOLEAN /\ callfs \in BOOLEAN /\ firstfile \in BOOLEAN
CallInv == call \in Calls

LEMMA EmptyIs ==
  ASSUME NEW s, NEW max \in Nat, IsList(s, max)
  PROVE  Len(s) \in Nat /\ (s = <<>> <=> Len(s) = 0)
BY EmptySeq, LenProperties DEF IsList

(* A list and a cursor clamped to it.                                      *)
LEMMA ClampedIs ==
  ASSUME IsList(playlist', MaxList), NEW cursor \in Nat,
         pos' = Clamped(cursor, Len(playlist'))
  PROVE  ListInv'
<1>1. Len(playlist') \in Nat /\ (playlist' = <<>> <=> Len(playlist') = 0)
  BY EmptyIs, FilesAssumption
<1>2. QED BY <1>1 DEF ListInv, Clamped

LEMMA SameList ==
  ASSUME ListInv, playlist' = playlist, pos' = pos
  PROVE  ListInv'
BY DEF ListInv

LEMMA ListIs ==
  ASSUME ListInv
  PROVE  /\ Len(playlist) \in Nat /\ (playlist = <<>> <=> Len(playlist) = 0) /\ pos \in Nat
         /\ pos <= Len(playlist) /\ (playlist # <<>> => pos < Len(playlist))
         /\ MaxList \in Nat /\ IsList(playlist, MaxList)
<1>1. /\ MaxList \in Nat /\ IsList(playlist, MaxList)
      /\ Len(playlist) \in Nat /\ (playlist = <<>> <=> Len(playlist) = 0)
  BY EmptyIs, FilesAssumption DEF ListInv
<1>2. QED BY <1>1 DEF ListInv

LEMMA RemovesOne ==
  ASSUME ListInv, NEW i \in 1 .. Len(playlist), NEW cursor \in Nat,
         playlist' = RemoveAt(playlist, i), pos' = Clamped(cursor, Len(playlist) - 1)
  PROVE  ListInv'
<1>1. IsList(RemoveAt(playlist, i), MaxList) /\ Len(RemoveAt(playlist, i)) = Len(playlist) - 1
  BY ListIs, ListShorter
<1>2. QED BY <1>1, ClampedIs

LEMMA Moves ==
  ASSUME ListInv, playlist' = playlist, pos' \in 0 .. Len(playlist) - 1
  PROVE  ListInv'
<1>1. playlist # <<>>
  BY ListIs
<1>2. QED BY <1>1 DEF ListInv

LEMMA BeforeIs ==
  ASSUME ListInv, playlist # <<>>, NEW index \in 0 .. Len(playlist) - 1
  PROVE  Before(index) \in 0 .. Len(playlist) - 1
BY ListIs DEF Before

LEMMA StepTakes ==
  ASSUME ListInv, ChoiceInv, Wanted, NEW file \in Files,
         TakeChosen(file) \/ TakeNext(file) \/ TakePrev(file)
  PROVE  ListInv'
<1>1. CASE TakeChosen(file)
  BY <1>1, SameList DEF TakeChosen
<1>2. CASE TakeNext(file)
  <2>1. PICK index \in 0 .. Len(playlist) - 1 : Consumed(index)
    BY <1>2 DEF TakeNext
  <2>2. index + 1 \in 1 .. Len(playlist) /\ index \in Nat /\ pos \in Nat
    BY ListIs
  <2>3. CASE fsListRemove
    <3>1. playlist' = RemoveAt(playlist, index + 1) /\ pos' = Clamped(pos, Len(playlist) - 1)
      BY <2>1, <2>3 DEF Consumed, modlist_remove
    <3>2. QED BY <2>2, <3>1, RemovesOne
  <2>4. CASE ~fsListRemove
    <3>1. playlist' = playlist /\ pos' = IF fsListScramble THEN index ELSE After(index)
      BY <2>1, <2>4 DEF Consumed
    <3>2. After(index) \in 0 .. Len(playlist) - 1
      BY <2>2, ListIs DEF After
    <3>3. pos' \in 0 .. Len(playlist) - 1
      BY <3>1, <3>2
    <3>4. QED BY <3>1, <3>3, Moves
  <2>5. QED BY <2>3, <2>4
<1>3. CASE TakePrev(file)
  <2> DEFINE index == Before(Before(pos))
  <2>1. playlist # <<>>
    BY <1>3 DEF TakePrev, Wanted, FilesLeft
  <2>2. Before(pos) \in 0 .. Len(playlist) - 1
    BY <2>1, ListIs DEF Before
  <2>3. index \in 0 .. Len(playlist) - 1
    BY <2>1, <2>2, BeforeIs
  <2>4. index + 1 \in 1 .. Len(playlist) /\ Before(pos) \in Nat
    BY <2>2, <2>3, ListIs
  <2>5. \/ /\ playlist' = RemoveAt(playlist, index + 1)
           /\ pos' = Clamped(Before(pos), Len(playlist) - 1)
        \/ pos' = Before(pos) /\ playlist' = playlist
    BY <1>3 DEF TakePrev
  <2> HIDE DEF index
  <2>6. QED BY <2>2, <2>4, <2>5, RemovesOne, Moves
<1>4. QED BY <1>1, <1>2, <1>3

LEMMA StepEdits ==
  ASSUME ListInv, EditList
  PROVE  ListInv'
<1>1. CASE /\ Len(playlist) < MaxList
           /\ \E file \in Files : playlist' = Append(playlist, file)
           /\ pos' = pos
  <2>1. PICK file \in Files : playlist' = Append(playlist, file)
    BY <1>1
  <2>2. IsList(playlist, Len(playlist)) /\ Len(playlist) + 1 <= MaxList
    BY <1>1, ListIs DEF IsList
  <2>3. IsList(playlist', Len(playlist) + 1) /\ Len(playlist') = Len(playlist) + 1
    BY <2>1, <2>2, ListIs, ListLonger
  <2>4. IsList(playlist', MaxList) /\ playlist' # <<>>
    BY <2>2, <2>3, ListIs, EmptyIs DEF IsList
  <2>5. pos' \in 0 .. Len(playlist') - 1
    BY <1>1, <2>3, ListIs
  <2>6. QED BY <2>4, <2>5 DEF ListInv
<1>2. CASE \E i \in DOMAIN playlist : modlist_remove(i - 1)
  <2>1. PICK i \in DOMAIN playlist : modlist_remove(i - 1)
    BY <1>2
  <2>2. i \in 1 .. Len(playlist) /\ (i - 1) + 1 = i
    BY ListIs DEF IsList
  <2>3. playlist' = RemoveAt(playlist, i) /\ pos' = Clamped(pos, Len(playlist) - 1)
    BY <2>1, <2>2 DEF modlist_remove
  <2>4. QED BY <2>2, <2>3, ListIs, RemovesOne
<1>3. CASE playlist' = <<>> /\ pos' = 0
  <2>1. IsList(<<>>, MaxList)
    BY FilesAssumption DEF IsList
  <2>2. QED BY <1>3, <2>1 DEF ListInv
<1>4. CASE playlist # <<>> /\ pos' \in 0 .. Len(playlist) - 1 /\ playlist' = playlist
  BY <1>4, Moves
<1>5. QED BY <1>1, <1>2, <1>3, <1>4 DEF EditList

LEMMA StepList == ListInv /\ ChoiceInv /\ [Next]_vars => ListInv'
<1> SUFFICES ASSUME ListInv, ChoiceInv, [Next]_vars PROVE ListInv'
  OBVIOUS
<1>1. ASSUME NEW file \in Files, Fetch(file) PROVE ListInv'
  BY <1>1, StepTakes DEF Fetch
<1>2. CASE Handle
  <2>1. CASE fsForceRemove(nextplay)
    <3>1. playlist' = Without(nextplay) /\ pos' = Clamped(pos, Len(playlist'))
      BY <2>1 DEF fsForceRemove
    <3>2. IsList(playlist', MaxList)
      BY <3>1, ListIs, WithoutIs
    <3>3. QED BY <3>1, <3>2, ListIs, ClampedIs
  <2>2. CASE UNCHANGED <<playlist, pos>>
    BY <2>2, SameList
  <2>3. QED BY <1>2, <2>1, <2>2 DEF Handle
<1>3. CASE EditList
  BY <1>3, StepEdits
<1>4. CASE Main \/ Ask \/ GiveUp \/ Consume \/ Quit
  BY Zenon, <1>4, SameList DEF Main, Ask, GiveUp, Consume, Quit, list
<1>5. CASE Escape \/ Choose \/ Fails \/ fsSetup
  BY Zenon, <1>5, SameList DEF Escape, Choose, Fails, fsSetup, list
<1>6. CASE SongEnds \/ (\E next \in {"next", "prev"} : KeyNext(next)) \/ KeyCallFs \/ KeyLeave
  BY Zenon, <1>6, SameList DEF SongEnds, KeyNext, KeyCallFs, KeyLeave, list
<1>7. CASE Done \/ UNCHANGED vars
  BY Zenon, <1>7, SameList DEF Done, vars, list
<1>8. QED BY <1>1, <1>2, <1>3, <1>4, <1>5, <1>6, <1>7 DEF Next, Loop

LEMMA StepChoice == ListInv /\ ChoiceInv /\ HoldsInv /\ [Next]_vars => ChoiceInv'
<1> SUFFICES ASSUME ListInv, ChoiceInv, HoldsInv, [Next]_vars PROVE ChoiceInv'
  OBVIOUS
<1> USE DEF ChoiceInv, list, selector, flags, interfaces, handles
<1>1. CASE Main
  BY <1>1 DEF Main, Call
<1>2. CASE Ask
  BY <1>2 DEF Ask
<1>3. ASSUME NEW file \in Files, Fetch(file) PROVE ChoiceInv'
  BY <1>3 DEF Fetch
<1>4. CASE Handle
  BY <1>4 DEF Handle, ReturnFile
<1>5. CASE GiveUp
  BY <1>5 DEF GiveUp, ReturnNone, Call
<1>6. CASE Consume
  BY <1>6 DEF Consume, HoldsInv, HandleOf
<1>7. CASE Quit
  BY <1>7 DEF Quit
<1>8. CASE Escape \/ Choose \/ Fails \/ EditList \/ fsSetup
  BY <1>8 DEF Escape, Choose, Fails, EditList, fsSetup
<1>9. CASE SongEnds \/ KeyCallFs \/ KeyLeave
  BY <1>9 DEF SongEnds, KeyCallFs, KeyLeave, Call
<1>10. ASSUME NEW next \in {"next", "prev"}, KeyNext(next) PROVE ChoiceInv'
  BY <1>10 DEF KeyNext, Call
<1>11. CASE Done \/ UNCHANGED vars
  BY <1>11 DEF Done, vars
<1>12. QED
  BY <1>1, <1>2, <1>3, <1>4, <1>5, <1>6, <1>7, <1>8, <1>9, <1>10, <1>11
     DEF Next, Loop

LEMMA StepOptions == OptionsInv /\ [Next]_vars => OptionsInv'
<1> SUFFICES ASSUME OptionsInv, [Next]_vars PROVE OptionsInv'
  OBVIOUS
<1> USE DEF OptionsInv, options
<1>1. CASE Main \/ Ask \/ (\E file \in Files : Fetch(file)) \/ Handle \/ GiveUp \/ Consume \/ Quit
  BY Zenon, <1>1 DEF Main, Ask, Fetch, Handle, GiveUp, Consume, Quit
<1>2. CASE Escape \/ Choose \/ Fails \/ EditList \/ fsSetup
  BY Zenon, <1>2 DEF Escape, Choose, Fails, EditList, fsSetup
<1>3. CASE SongEnds \/ (\E next \in {"next", "prev"} : KeyNext(next)) \/ KeyCallFs \/ KeyLeave
  BY Zenon, <1>3 DEF SongEnds, KeyNext, KeyCallFs, KeyLeave
<1>4. CASE Done \/ UNCHANGED vars
  BY Zenon, <1>4 DEF Done, vars
<1>5. QED BY <1>1, <1>2, <1>3, <1>4 DEF Next, Loop

LEMMA StepFlags == FlagsInv /\ [Next]_vars => FlagsInv'
<1> SUFFICES ASSUME FlagsInv, [Next]_vars PROVE FlagsInv'
  OBVIOUS
<1> USE DEF FlagsInv, selector, flags
<1>1. CASE Main
  BY Zenon, <1>1 DEF Main, Call
<1>2. CASE Ask \/ (\E file \in Files : Fetch(file))
  BY Zenon, <1>2 DEF Ask, Fetch
<1>3. CASE Handle
  BY Zenon, <1>3 DEF Handle, ReturnFile
<1>4. CASE GiveUp
  BY Zenon, <1>4 DEF GiveUp, ReturnNone, Call
<1>5. CASE Consume \/ Quit
  BY Zenon, <1>5 DEF Consume, Quit
<1>6. CASE Escape \/ Choose \/ Fails \/ EditList \/ fsSetup
  BY Zenon, <1>6 DEF Escape, Choose, Fails, FilesLeft, EditList, fsSetup
<1>7. CASE SongEnds \/ (\E next \in {"next", "prev"} : KeyNext(next)) \/ KeyCallFs \/ KeyLeave
  BY Zenon, <1>7 DEF SongEnds, KeyNext, KeyCallFs, KeyLeave, Call
<1>8. CASE Done \/ UNCHANGED vars
  BY Zenon, <1>8 DEF Done, vars
<1>9. QED BY <1>1, <1>2, <1>3, <1>4, <1>5, <1>6, <1>7, <1>8 DEF Next, Loop

(* callselector's arguments, of which three callers compute one.           *)
LEMMA CallIs ==
  ASSUME NEW autocall \in BOOLEAN, NEW force \in BOOLEAN, NEW next \in {"no", "next", "prev"},
         NEW from \in {"main", "auto", "autonext", "user"}, Call(autocall, force, next, from)
  PROVE  CallInv'
BY DEF Call, CallInv, Calls

LEMMA StepCall == CallInv /\ FlagsInv /\ [Next]_vars => CallInv'
<1> SUFFICES ASSUME CallInv, FlagsInv, [Next]_vars PROVE CallInv'
  OBVIOUS
<1>0. ASSUME call' = call PROVE CallInv'
  BY <1>0 DEF CallInv
<1> USE DEF selector
<1>1. CASE Main
  <2>1. CASE Call(callfs \/ firstfile, stop = "callfs", "next", "main")
    <3>1. (callfs \/ firstfile) \in BOOLEAN /\ (stop = "callfs") \in BOOLEAN
      OBVIOUS
    <3>2. QED BY <2>1, <3>1, CallIs
  <2>2. QED BY Zenon, <1>1, <2>1, <1>0 DEF Main
<1>2. CASE GiveUp
  <2>1. CASE Call(FALSE, FALSE, "next", "autonext")
    BY <2>1, CallIs
  <2>2. QED BY Zenon, <1>2, <2>1, <1>0 DEF GiveUp, ReturnNone
<1>3. CASE Ask \/ (\E file \in Files : Fetch(file)) \/ Handle \/ Consume \/ Quit
  BY Zenon, <1>3, <1>0 DEF Ask, Fetch, Handle, ReturnFile, Consume, Quit
<1>4. CASE Escape \/ Choose \/ Fails \/ EditList \/ fsSetup
  BY Zenon, <1>4, <1>0 DEF Escape, Choose, Fails, EditList, fsSetup
<1>5. CASE SongEnds
  BY <1>5, CallIs DEF SongEnds
<1>6. ASSUME NEW next \in {"next", "prev"}, KeyNext(next) PROVE CallInv'
  <2>1. (~FilesLeft) \in BOOLEAN
    BY Zenon DEF FilesLeft
  <2>2. (IF FilesLeft THEN next ELSE "no") \in {"no", "next", "prev"}
    OBVIOUS
  <2>3. Call(~FilesLeft, FALSE, IF FilesLeft THEN next ELSE "no", "user")
    BY <1>6 DEF KeyNext
  <2>4. QED BY <2>1, <2>2, <2>3, CallIs
<1>7. CASE KeyCallFs
  BY <1>7, CallIs DEF KeyCallFs
<1>8. CASE KeyLeave \/ Done \/ UNCHANGED vars
  BY Zenon, <1>8, <1>0 DEF KeyLeave, Done, vars
<1>9. QED BY <1>1, <1>2, <1>3, <1>4, <1>5, <1>6, <1>7, <1>8 DEF Next, Loop
-----------------------------------------------------------------------------
TypeInv == ListInv /\ ChoiceInv /\ OptionsInv /\ FlagsInv /\ CallInv

LEMMA InitTypes == Init => TypeInv
<1> SUFFICES ASSUME Init PROVE TypeInv
  OBVIOUS
<1>1. ListInv
  <2>1. playlist \in UNION {[1 .. m -> Files] : m \in 0 .. MaxList} /\ pos = 0
    BY DEF Init, SeqOf
  <2>2. PICK m \in 0 .. MaxList : playlist \in [1 .. m -> Files]
    BY <2>1
  <2>3. m \in Nat /\ m <= MaxList
    BY FilesAssumption
  <2>4. playlist \in Seq(Files) /\ Len(playlist) = m
    BY <2>2, <2>3
  <2>5. IsList(playlist, MaxList)
    BY <2>3, <2>4 DEF IsList
  <2>6. playlist = <<>> <=> m = 0
    BY <2>3, <2>4, <2>5, EmptyIs, FilesAssumption
  <2>7. QED BY <2>1, <2>3, <2>4, <2>5, <2>6 DEF ListInv
<1>2. ChoiceInv
  BY DEF Init, ChoiceInv
<1>3. OptionsInv /\ FlagsInv
  BY Zenon DEF Init, OptionsInv, FlagsInv
<1>4. CallInv
  BY DEF Init, CallInv, Calls
<1>5. QED BY <1>1, <1>2, <1>3, <1>4 DEF TypeInv

(* The type invariant: the cursor is in the list, or 0, whoever moves it,  *)
(* and the list is never longer than it may be (modlist.c:125, and the     *)
(* positions fsGetNextFile and fsGetPrevFile compute).                     *)
THEOREM Typed == Spec => []TypeOK
<1>1. TypeInv /\ HoldsInv /\ [Next]_vars => TypeInv'
  BY StepList, StepChoice, StepOptions, StepFlags, StepCall DEF TypeInv
<1>2. TypeInv /\ HoldsInv => TypeOK
  <2> SUFFICES ASSUME TypeInv, HoldsInv PROVE TypeOK
    OBVIOUS
  <2>1. \A file \in Files : HandleOf(file) \in Files \cup {NoFile}
    BY DEF HandleOf
  <2>2. {plintr, nextintr, tf, nextf, thisf} \subseteq Files \cup {NoFile}
    BY <2>1 DEF HoldsInv, TypeInv, ChoiceInv
  <2>3. /\ playlist \in Seq(Files) /\ Len(playlist) <= MaxList
        /\ IF playlist = <<>> THEN pos = 0 ELSE pos \in 0 .. Len(playlist) - 1
    BY DEF TypeInv, ListInv, IsList
  <2>4. /\ fsListRemove \in BOOLEAN /\ fsListScramble \in BOOLEAN /\ fsPlaylistOnly \in BOOLEAN
        /\ ret \in BOOLEAN /\ callfs \in BOOLEAN /\ firstfile \in BOOLEAN
    BY Zenon DEF TypeInv, OptionsInv, FlagsInv
  <2>5. /\ isnextplay \in {"none", "browser", "playlist"} /\ nextplay \in Files \cup {NoFile}
        /\ stop \in {"continue", "auto", "callfs", "shell", "quit"} /\ call \in Calls
        /\ pc \in {"main", "select", "browse", "fetch", "handle", "consume", "run", "quit", "done"}
        /\ open \in Int /\ inits \in Int
    BY DEF TypeInv, ChoiceInv, CallInv, HoldsInv, Places
  <2>6. QED BY Zenon, <2>2, <2>3, <2>4, <2>5 DEF TypeOK
<1>3. QED BY <1>1, <1>2, InitTypes, Holds, PTL DEF Spec
=============================================================================
