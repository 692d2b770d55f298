----------------------------- MODULE ListsProofs -----------------------------
(***************************************************************************)
(* A list read page by page from a table that changes meanwhile shows no   *)
(* document twice and skips none, and the progress joined to an order of   *)
(* which nothing was reversed is never ahead of it, for any number of      *)
(* documents, any size of pages and any filters.                           *)
(***************************************************************************)
EXTENDS DocumentLists, SumProofs

-----------------------------------------------------------------------------
(* Finite sets of numbers.                                                 *)

(* There is a least one: else take a smallest non-empty set without, and   *)
(* remove one of its members.                                              *)
LEMMA LeastExists ==
  ASSUME NEW S \in SUBSET Nat, IsFiniteSet(S), S # {}
  PROVE  \E m \in S : \A i \in S : m <= i
<1> DEFINE Bad == {U \in SUBSET S : U # {} /\ ~ \E m \in U : \A i \in U : m <= i}
<1>1. SUFFICES ASSUME Bad # {}
               PROVE  FALSE
  <2>1. S \notin Bad
    BY <1>1
  <2> QED
    BY <2>1
<1>2. IsWellFoundedOn(StrictSubsetOrdering(S), SUBSET S)
  BY FS_StrictSubsetOrderingWellFounded, FS_FiniteSubsetsOfFinite
<1>3. PICK U \in Bad : \A V \in Bad : ~ (<<V, U>> \in StrictSubsetOrdering(S))
  <2>1. Bad \subseteq SUBSET S
    OBVIOUS
  <2> HIDE DEF Bad
  <2> QED
    BY <1>1, <1>2, <2>1, WFMin
<1>4. PICK x \in U : TRUE
  OBVIOUS
<1>5. U \ {x} \in SUBSET S /\ U \ {x} # U
  OBVIOUS
<1>6. <<U \ {x}, U>> \in StrictSubsetOrdering(S)
  BY <1>5 DEF StrictSubsetOrdering
<1>7. U \ {x} \notin Bad
  BY <1>3, <1>6
<1>8. CASE U \ {x} = {}
  <2>1. \A i \in U : i = x
    BY <1>8
  <2> QED
    BY <2>1
<1>9. CASE U \ {x} # {}
  <2>1. PICK m \in U \ {x} : \A i \in U \ {x} : m <= i
    BY <1>5, <1>7, <1>9
  <2>2. m \in Nat /\ x \in Nat /\ U \subseteq Nat
    OBVIOUS
  <2>3. CASE m <= x
    BY <2>1, <2>2, <2>3
  <2>4. CASE ~(m <= x)
    BY <2>1, <2>2, <2>4
  <2> QED
    BY <2>3, <2>4
<1> QED
  BY <1>8, <1>9

(* Min is that one.                                                        *)
LEMMA MinIsLeast ==
  ASSUME NEW S \in SUBSET Nat, IsFiniteSet(S), S # {}
  PROVE  Min(S) \in S /\ \A i \in S : Min(S) <= i
BY LeastExists DEF Min

Above(S, i) == {j \in S : j > i}

(* The numbers above one are counted, and the fewer the greater it is.     *)
LEMMA AboveCounts ==
  ASSUME NEW S \in SUBSET Nat, IsFiniteSet(S)
  PROVE  /\ \A i \in S : /\ IsFiniteSet(Above(S, i))
                         /\ Cardinality(Above(S, i)) \in Nat
                         /\ Cardinality(Above(S, i)) <= Cardinality(S)
         /\ \A i, k \in S : i >= k => Cardinality(Above(S, i)) <= Cardinality(Above(S, k))
         /\ \A i, k \in S : i > k => Cardinality(Above(S, i)) < Cardinality(Above(S, k))
<1>1. \A i \in S : Above(S, i) \in SUBSET S
  BY DEF Above
<1>2. \A i \in S : /\ IsFiniteSet(Above(S, i))
                   /\ Cardinality(Above(S, i)) <= Cardinality(S)
  BY <1>1, FS_Subset
<1>3. \A i \in S : Cardinality(Above(S, i)) \in Nat
  BY <1>2, FS_CardinalityType
<1>4. \A i \in S : i \in Nat
  OBVIOUS
<1>5. ASSUME NEW i \in S, NEW k \in S, i >= k
      PROVE  Cardinality(Above(S, i)) <= Cardinality(Above(S, k))
  <2>1. \A j \in S : j > i => j > k
    BY <1>5, <1>4
  <2>2. Above(S, i) \in SUBSET Above(S, k)
    BY <2>1 DEF Above
  <2> QED
    BY <1>2, <2>2, FS_Subset
<1>6. ASSUME NEW i \in S, NEW k \in S, i > k
      PROVE  Cardinality(Above(S, i)) < Cardinality(Above(S, k))
  <2>1. (\A j \in S : j > i => j > k) /\ ~(i > i)
    BY <1>6, <1>4
  <2>2. Above(S, i) \in SUBSET Above(S, k) /\ i \in Above(S, k) /\ i \notin Above(S, i)
    BY <1>6, <2>1 DEF Above
  <2>3. IsFiniteSet(Above(S, k)) /\ Above(S, i) # Above(S, k)
    BY <1>2, <2>2
  <2>4. /\ Cardinality(Above(S, i)) <= Cardinality(Above(S, k))
        /\ Cardinality(Above(S, i)) # Cardinality(Above(S, k))
    BY <2>2, <2>3, FS_Subset
  <2> QED
    BY <1>3, <2>4
<1> QED
  BY <1>2, <1>3, <1>5, <1>6

(* The greatest is the one that the fewest are above.                      *)
LEMMA GreatestExists ==
  ASSUME NEW S \in SUBSET Nat, IsFiniteSet(S), S # {}
  PROVE  \E m \in S : \A i \in S : i <= m
<1> DEFINE Counts == {Cardinality(Above(S, i)) : i \in S}
<1>1. Cardinality(S) \in Nat
  BY FS_CardinalityType
<1>2. /\ Counts \in SUBSET Nat /\ Counts # {}
      /\ \A c \in Counts : c <= Cardinality(S)
  BY AboveCounts
<1>3. IsFiniteSet(Counts)
  <2> HIDE DEF Counts
  <2>1. \A c \in Counts : c \in 0..Cardinality(S)
    BY <1>1, <1>2
  <2>2. Counts \in SUBSET (0..Cardinality(S))
    BY <2>1
  <2>3. IsFiniteSet(0..Cardinality(S))
    BY <1>1, FS_Interval
  <2> QED
    BY <2>2, <2>3, FS_Subset
<1>4. PICK c \in Counts : \A d \in Counts : c <= d
  <2> HIDE DEF Counts
  <2> QED
    BY <1>2, <1>3, LeastExists
<1>5. PICK m \in S : c = Cardinality(Above(S, m))
  OBVIOUS
<1>6. ASSUME NEW i \in S, i > m
      PROVE  FALSE
  <2>1. Cardinality(Above(S, i)) < Cardinality(Above(S, m))
    BY <1>6, AboveCounts
  <2>2. Cardinality(Above(S, m)) <= Cardinality(Above(S, i))
    BY <1>4, <1>5
  <2>3. Cardinality(Above(S, i)) \in Nat /\ Cardinality(Above(S, m)) \in Nat
    BY AboveCounts
  <2> QED
    BY <2>1, <2>2, <2>3
<1> QED
  BY <1>6

-----------------------------------------------------------------------------
(* The n largest rows are at most n: all but the least of them are above   *)
(* it, and fewer than n are.                                               *)
LEMMA LargestAreFew ==
  ASSUME NEW rows \in SUBSET Nat, IsFiniteSet(rows), NEW n \in Nat
  PROVE  /\ Largest(rows, n) \in SUBSET rows
         /\ IsFiniteSet(Largest(rows, n))
         /\ Cardinality(Largest(rows, n)) \in Nat
         /\ Cardinality(Largest(rows, n)) <= n
<1> DEFINE L == Largest(rows, n)
<1>1. L \in SUBSET rows /\ \A i \in L : Cardinality(Above(rows, i)) < n
  BY DEF Largest, Above
<1> HIDE DEF L
<1>2. IsFiniteSet(L) /\ Cardinality(L) \in Nat
  BY <1>1, FS_Subset, FS_CardinalityType
<1>3. CASE L = {}
  <2>1. Cardinality(L) = 0
    BY <1>3, FS_EmptySet
  <2> QED
    BY <1>1, <1>2, <2>1 DEF L
<1>4. CASE L # {}
  <2>1. PICK m \in L : \A i \in L : m <= i
    BY <1>1, <1>2, <1>4, LeastExists
  <2>2. m \in rows /\ m \in Nat /\ L \subseteq Nat
    BY <1>1
  <2>3. L \ {m} \in SUBSET Above(rows, m)
    BY <1>1, <2>1, <2>2 DEF Above
  <2>4. IsFiniteSet(Above(rows, m)) /\ Cardinality(Above(rows, m)) \in Nat
    BY <2>2, AboveCounts
  <2>5. Cardinality(L \ {m}) <= Cardinality(Above(rows, m))
    BY <2>3, <2>4, FS_Subset
  <2>6. Cardinality(L \ {m}) = Cardinality(L) - 1
    BY <1>2, FS_RemoveElement
  <2>7. Cardinality(Above(rows, m)) < n
    BY <1>1
  <2>8. Cardinality(L) <= n
    BY <1>2, <2>4, <2>5, <2>6, <2>7
  <2> QED
    BY <1>1, <1>2, <2>8 DEF L
<1> QED
  BY <1>3, <1>4

(* They are an upper part of the rows.                                     *)
LEMMA LargestAreAbove ==
  ASSUME NEW rows \in SUBSET Nat, IsFiniteSet(rows), NEW n \in Nat,
         NEW k \in Largest(rows, n), NEW i \in rows, i >= k
  PROVE  i \in Largest(rows, n)
<1>1. k \in rows /\ Cardinality(Above(rows, k)) < n
  BY DEF Largest, Above
<1>2. /\ Cardinality(Above(rows, i)) <= Cardinality(Above(rows, k))
      /\ Cardinality(Above(rows, i)) \in Nat /\ Cardinality(Above(rows, k)) \in Nat
  BY <1>1, AboveCounts
<1>3. Cardinality(Above(rows, i)) < n
  BY <1>1, <1>2
<1> QED
  BY <1>3 DEF Largest, Above

(* There are fewer than n of them only if they are all there is: the       *)
(* greatest row left out has n above it, all of them among the largest.    *)
LEMMA FewAreAll ==
  ASSUME NEW rows \in SUBSET Nat, IsFiniteSet(rows), NEW n \in Nat,
         Cardinality(Largest(rows, n)) < n
  PROVE  Largest(rows, n) = rows
<1> DEFINE L == Largest(rows, n)
<1>1. L \in SUBSET rows /\ IsFiniteSet(L) /\ Cardinality(L) \in Nat
  BY LargestAreFew
<1>2. SUFFICES ASSUME rows \ L # {}
               PROVE  FALSE
  BY <1>1
<1> HIDE DEF L
<1>3. rows \ L \in SUBSET Nat /\ IsFiniteSet(rows \ L)
  <2>1. rows \ L \in SUBSET rows
    OBVIOUS
  <2> QED
    BY <2>1, FS_Subset
<1>4. PICK g \in rows \ L : \A i \in rows \ L : i <= g
  BY <1>2, <1>3, GreatestExists
<1>5. Above(rows, g) \in SUBSET L
  <2>1. \A i \in rows \ L : i \in Nat /\ g \in Nat
    BY <1>3
  <2>2. \A i \in rows \ L : ~(i > g)
    BY <1>4, <2>1
  <2> QED
    BY <2>2 DEF Above
<1>6. Cardinality(Above(rows, g)) \in Nat /\ Cardinality(Above(rows, g)) <= Cardinality(L)
  BY <1>1, <1>5, AboveCounts, FS_Subset
<1>7. Cardinality(Above(rows, g)) < n
  BY <1>1, <1>6 DEF L
<1> QED
  BY <1>4, <1>7 DEF Largest, Above, L

(* A page of the rows that a query finds: it has every row from its cursor *)
(* up, and all of them when it has no cursor.                              *)
LEMMA PageOfQuery ==
  ASSUME NEW found \in SUBSET Id
  PROVE  LET page == nextCursorIfMore(Largest(found, PageLimit + 1)) IN
         /\ page.rows \in SUBSET found /\ Cardinality(page.rows) <= PageLimit
         /\ page.next \in page.rows \cup {None}
         /\ page.next # None => \A i \in page.rows : i >= page.next
         /\ \A i \in found : page.next = None \/ i >= page.next => i \in page.rows
<1> DEFINE asked_for == Largest(found, PageLimit + 1)
           kept == Largest(asked_for, PageLimit)
           page == nextCursorIfMore(asked_for)
<1>1. found \in SUBSET Nat /\ IsFiniteSet(found) /\ None \notin found
  BY IdAssumption, FS_Subset
<1>2. PageLimit \in Nat /\ PageLimit + 1 \in Nat /\ PageLimit > 0
  BY LimitsAssumption
<1>3. asked_for \in SUBSET found /\ IsFiniteSet(asked_for) /\ Cardinality(asked_for) \in Nat
  BY <1>1, <1>2, LargestAreFew
<1>4. CASE Cardinality(asked_for) <= PageLimit
  <2>1. page = [rows |-> asked_for, next |-> None]
    BY <1>4 DEF nextCursorIfMore
  <2>2. asked_for = found
    BY <1>1, <1>2, <1>3, <1>4, FewAreAll
  <2> QED
    BY <1>3, <1>4, <2>1, <2>2
<1>5. CASE ~(Cardinality(asked_for) <= PageLimit)
  <2> HIDE DEF asked_for
  <2>1. kept \in SUBSET asked_for /\ IsFiniteSet(kept) /\ Cardinality(kept) \in Nat /\ Cardinality(kept) <= PageLimit
    BY <1>1, <1>2, <1>3, LargestAreFew
  <2>2. kept # {}
    <3>1. asked_for # {}
      BY <1>2, <1>5, FS_EmptySet
    <3>2. PICK g \in asked_for : \A i \in asked_for : i <= g
      BY <1>1, <1>3, <3>1, GreatestExists
    <3>3. \A j \in asked_for : j \in Nat
      BY <1>1, <1>3
    <3>4. Above(asked_for, g) = {}
      BY <3>2, <3>3 DEF Above
    <3>5. Cardinality(Above(asked_for, g)) = 0
      BY <3>4, FS_EmptySet
    <3> QED
      BY <1>2, <3>2, <3>5 DEF Largest, Above
  <2>3. Min(kept) \in kept /\ \A i \in kept : Min(kept) <= i
    BY <1>1, <1>3, <2>1, <2>2, MinIsLeast
  <2>4. page = [rows |-> kept, next |-> Min(kept)]
    BY <1>5 DEF nextCursorIfMore
  <2>5. ASSUME NEW i \in found, i >= Min(kept)
        PROVE  i \in kept
    <3>1. Min(kept) \in Largest(found, PageLimit + 1)
      BY <2>1, <2>3 DEF asked_for
    <3>2. i \in asked_for
      BY <1>1, <1>2, <2>5, <3>1, LargestAreAbove DEF asked_for
    <3> QED
      BY <1>1, <1>2, <1>3, <2>3, <2>5, <3>2, LargestAreAbove
  <2>6. \A i \in kept : i >= Min(kept)
    BY <1>1, <1>3, <2>1, <2>3
  <2>7. Min(kept) # None
    BY <1>1, <1>3, <2>1, <2>3
  <2> HIDE DEF kept
  <2> QED
    BY <1>3, <2>1, <2>3, <2>4, <2>5, <2>6, <2>7 DEF asked_for
<1> QED
  BY <1>4, <1>5

-----------------------------------------------------------------------------
(* What a list keeps.                                                      *)

LoadedPages ==
  {p \in [rows : SUBSET Id, next : Id \cup {None}, refused : BOOLEAN] :
     Cardinality(p.rows) <= PageLimit}

Fetches == [more : BOOLEAN, got : Seq(LoadedPages), cursor : Id \cup {None},
            answer : LoadedPages \cup {None}]

TypeInv ==
  /\ kind \in Kinds
  /\ docs \in [Id -> Status]
  /\ linked \in [LinkedId -> [status : Status, order : Id \cup {None}, qty : 0..Ordered,
                              reverses : LinkedId \cup {None}]]
  /\ filter \in Filter
  /\ cache \in [Filter -> Seq(LoadedPages)]
  /\ fetch \in [Filter -> Fetches \cup {None}]
  /\ acts \in 0..MaxActs
  /\ steady \in [Filter -> [shown : SUBSET Id, read : SUBSET Id]]

(* The cursor of a page is its last row.                                   *)
Ends(p) == p.next # None => p.next \in p.rows /\ \A i \in p.rows : i >= p.next

(* Every page begins below the cursor of each page before it.              *)
Chained(ps) ==
  /\ \A n \in DOMAIN ps : Ends(ps[n])
  /\ \A m, n \in DOMAIN ps :
       m < n => ps[m].next # None /\ \A i \in ps[n].rows : i < ps[m].next

(* No page of them was refused, so that every document that was there all  *)
(* along, down to the last cursor, is on one of them.                      *)
Whole(ps, stayed) ==
  ps # <<>> /\ (\A n \in DOMAIN ps : ~ps[n].refused) =>
    \A i \in stayed :
      ps[Len(ps)].next = None \/ i >= ps[Len(ps)].next => \E n \in DOMAIN ps : i \in ps[n].rows

(* The cursor goes on from these pages, or there are none.                 *)
GoesOn(ps, cursor) ==
  IF ps = <<>> THEN cursor = None ELSE cursor # None /\ cursor = ps[Len(ps)].next

(* A page is what a query from the cursor finds, but for what has changed  *)
(* since, or it was refused.                                               *)
Answers(p, cursor, stayed) ==
  /\ Ends(p)
  /\ \A i \in p.rows : cursor = None \/ i < cursor
  /\ ~p.refused =>
       \A i \in stayed :
         (cursor = None \/ i < cursor) /\ (p.next = None \/ i >= p.next) => i \in p.rows

(* A list of the documents "found" now: the pages shown, the fetch under   *)
(* way, and the documents that stayed.                                     *)
ListOK(found, ps, was, stayed) ==
  /\ stayed.shown \subseteq found /\ stayed.read \subseteq found
  /\ Chained(ps) /\ Whole(ps, stayed.shown)
  /\ was # None =>
       /\ Chained(was.got) /\ Whole(was.got, stayed.read)
       /\ was.more => ps # <<>> /\ was.got = <<>>
       /\ GoesOn(IF was.more THEN ps ELSE was.got, was.cursor)
       /\ was.answer # None =>
            Answers(was.answer, was.cursor, IF was.more THEN stayed.shown ELSE stayed.read)

ListsInv == \A f \in Filter : ListOK(Matching(docs, f), cache[f], fetch[f], steady[f])

IInv == TypeInv /\ ListsInv

-----------------------------------------------------------------------------
(* Appending a page.                                                       *)

LEMMA Appended ==
  ASSUME NEW ps \in Seq(LoadedPages), NEW p \in LoadedPages
  PROVE  /\ Append(ps, p) \in Seq(LoadedPages) /\ Append(ps, p) # <<>>
         /\ Len(Append(ps, p)) = Len(ps) + 1 /\ Len(ps) \in Nat
         /\ Append(ps, p)[Len(ps) + 1] = p
         /\ \A n \in DOMAIN ps : Append(ps, p)[n] = ps[n]
         /\ DOMAIN ps = 1..Len(ps) /\ DOMAIN Append(ps, p) = 1..(Len(ps) + 1)
OBVIOUS

LEMMA ChainGoesOn ==
  ASSUME NEW ps \in Seq(LoadedPages), NEW p \in LoadedPages, NEW cursor \in Id \cup {None},
         NEW stayed, Chained(ps), GoesOn(ps, cursor), Answers(p, cursor, stayed)
  PROVE  Chained(Append(ps, p))
<1> DEFINE qs == Append(ps, p)
           last == Len(ps)
<1>1. Ends(p) /\ \A i \in p.rows : cursor = None \/ i < cursor
  BY DEF Answers
<1>2. /\ last \in Nat /\ DOMAIN ps = 1..last /\ DOMAIN qs = 1..(last + 1)
      /\ qs[last + 1] = p /\ \A n \in 1..last : qs[n] = ps[n]
  BY Appended
<1> HIDE DEF qs, last
<1>3. \A n \in DOMAIN qs : Ends(qs[n])
  BY <1>1, <1>2 DEF Chained
<1>4. ASSUME NEW m \in DOMAIN qs, NEW n \in DOMAIN qs, m < n
      PROVE  qs[m].next # None /\ \A i \in qs[n].rows : i < qs[m].next
  <2>1. m \in 1..last /\ qs[m] = ps[m]
    BY <1>2, <1>4
  <2>2. CASE n \in 1..last
    BY <1>2, <1>4, <2>1, <2>2 DEF Chained
  <2>3. CASE n = last + 1
    <3>1. ps # <<>> /\ last \in 1..last
      BY <1>2, <2>1 DEF last
    <3>2. cursor # None /\ cursor = ps[last].next
      BY <3>1 DEF GoesOn, last
    <3>3. \A i \in p.rows : i < cursor
      BY <1>1, <3>2
    <3>4. CASE m = last
      BY <1>2, <2>1, <2>3, <3>2, <3>3, <3>4
    <3>5. CASE m < last
      <4>1. ps[m].next # None /\ \A i \in ps[last].rows : i < ps[m].next
        BY <1>2, <2>1, <3>1, <3>5 DEF Chained
      <4>2. cursor < ps[m].next
        BY <1>2, <3>1, <3>2, <4>1 DEF Chained, Ends
      <4>3. ps[m] \in LoadedPages
        BY <1>2, <2>1
      <4>4. cursor \in Nat /\ ps[m].next \in Nat /\ \A i \in p.rows : i \in Nat
        BY <3>2, <4>1, <4>3, IdAssumption DEF LoadedPages
      <4>5. \A i \in p.rows : i < ps[m].next
        BY <3>3, <4>2, <4>4
      <4> QED
        BY <1>2, <2>1, <2>3, <4>1, <4>5
    <3> QED
      BY <1>2, <2>1, <3>4, <3>5
  <2> QED
    BY <1>2, <2>2, <2>3
<1> QED
  BY <1>3, <1>4 DEF Chained, qs

LEMMA StaysWhole ==
  ASSUME NEW ps \in Seq(LoadedPages), NEW p \in LoadedPages, NEW cursor \in Id \cup {None},
         NEW stayed \in SUBSET Id,
         Whole(ps, stayed), GoesOn(ps, cursor), Answers(p, cursor, stayed)
  PROVE  Whole(Append(ps, p), stayed)
<1> DEFINE qs == Append(ps, p)
           last == Len(ps)
<1>1. /\ last \in Nat /\ DOMAIN ps = 1..last /\ DOMAIN qs = 1..(last + 1) /\ Len(qs) = last + 1
      /\ qs[last + 1] = p /\ \A n \in 1..last : qs[n] = ps[n]
  BY Appended
<1>2. SUFFICES ASSUME \A n \in DOMAIN qs : ~qs[n].refused,
                      NEW i \in stayed, p.next = None \/ i >= p.next
               PROVE  \E n \in DOMAIN qs : i \in qs[n].rows
  <2> HIDE DEF qs
  <2> QED
    BY <1>1 DEF Whole, qs
<1> HIDE DEF qs, last
<1>3. ~p.refused /\ \A n \in DOMAIN ps : ~ps[n].refused
  BY <1>1, <1>2
<1>4. CASE cursor = None \/ i < cursor
  <2>1. i \in p.rows
    BY <1>2, <1>3, <1>4 DEF Answers
  <2> QED
    BY <1>1, <2>1
<1>5. CASE ~(cursor = None \/ i < cursor)
  <2>1. ps # <<>> /\ cursor = ps[last].next
    BY <1>5 DEF GoesOn, last
  <2>2. cursor \in Nat /\ i \in Nat
    BY <1>5, IdAssumption
  <2>3. \E n \in DOMAIN ps : i \in ps[n].rows
    BY <1>3, <1>5, <2>1, <2>2 DEF Whole, last
  <2> QED
    BY <1>1, <2>3
<1> QED
  BY <1>4, <1>5

(* Fewer documents may have stayed.                                        *)
LEMMA FewerStay ==
  ASSUME NEW found, NEW less, NEW ps, NEW was, NEW stayed,
         ListOK(found, ps, was, stayed)
  PROVE  ListOK(less, ps, was, [shown |-> stayed.shown \cap less, read |-> stayed.read \cap less])
<1> DEFINE now == [shown |-> stayed.shown \cap less, read |-> stayed.read \cap less]
<1>1. \A qs : Whole(qs, stayed.shown) => Whole(qs, now.shown)
  BY DEF Whole
<1>2. \A qs : Whole(qs, stayed.read) => Whole(qs, now.read)
  BY DEF Whole
<1>3. \A p, c : Answers(p, c, stayed.shown) => Answers(p, c, now.shown)
  BY DEF Answers
<1>4. \A p, c : Answers(p, c, stayed.read) => Answers(p, c, now.read)
  BY DEF Answers
<1>5. now.shown \subseteq less /\ now.read \subseteq less
  OBVIOUS
<1> HIDE DEF now
<1>6. ListOK(less, ps, was, now)
  BY <1>1, <1>2, <1>3, <1>4, <1>5 DEF ListOK
<1> QED
  BY <1>6 DEF now

-----------------------------------------------------------------------------
(* The steps of one list.                                                  *)

(* A fetch begins, at the first page or after the last.                    *)
LEMMA FetchBegins ==
  ASSUME NEW found, NEW ps \in Seq(LoadedPages), NEW was, NEW stayed,
         ListOK(found, ps, was, stayed)
  PROVE  /\ ListOK(found, ps, None, stayed)
         /\ ListOK(found, ps, Idle, stayed)
         /\ ps # <<>> /\ ps[Len(ps)].next # None =>
              ListOK(found, ps, [Idle EXCEPT !.more = TRUE, !.cursor = ps[Len(ps)].next], stayed)
<1>1. Chained(<<>>) /\ Whole(<<>>, stayed.read)
  BY DEF Chained, Whole
<1> QED
  BY <1>1 DEF ListOK, Idle, GoesOn

(* A query is answered, or refused.                                        *)
LEMMA QueryAnswered ==
  ASSUME NEW found \in SUBSET Id, NEW ps \in Seq(LoadedPages), NEW was \in Fetches,
         NEW stayed \in [shown : SUBSET Id, read : SUBSET Id],
         ListOK(found, ps, was, stayed), was # None,
         NEW answer \in {PageOf(nextCursorIfMore(
                           Largest({i \in found : was.cursor = None \/ i < was.cursor}, PageLimit + 1))),
                         NoData}
  PROVE  /\ answer \in LoadedPages
         /\ ListOK(found, ps, [was EXCEPT !.answer = answer],
                   IF was.cursor = None THEN [stayed EXCEPT !.read = found] ELSE stayed)
<1> DEFINE below == {i \in found : was.cursor = None \/ i < was.cursor}
           page == nextCursorIfMore(Largest(below, PageLimit + 1))
           now == IF was.cursor = None THEN [stayed EXCEPT !.read = found] ELSE stayed
<1>1. /\ page.rows \in SUBSET below /\ Cardinality(page.rows) <= PageLimit
      /\ page.next \in page.rows \cup {None}
      /\ page.next # None => \A i \in page.rows : i >= page.next
      /\ \A i \in below : page.next = None \/ i >= page.next => i \in page.rows
  <2>1. below \in SUBSET Id
    OBVIOUS
  <2> HIDE DEF below
  <2> QED
    BY <2>1, PageOfQuery
<1>2. answer \in {PageOf(page), NoData}
  OBVIOUS
<1> HIDE DEF page
<1>3. PageOf(page) \in LoadedPages /\ NoData \in LoadedPages
  <2>1. Cardinality({}) <= PageLimit
    BY LimitsAssumption, FS_EmptySet
  <2> QED
    BY <1>1, <2>1 DEF PageOf, NoData, LoadedPages
<1>4. ASSUME NEW S \in SUBSET found
      PROVE  Answers(answer, was.cursor, S)
  <2>1. CASE answer = PageOf(page)
    BY <1>1, <2>1 DEF PageOf, Answers, Ends
  <2>2. CASE answer = NoData
    BY <2>2 DEF NoData, Answers, Ends
  <2> QED
    BY <1>2, <2>1, <2>2
<1>5. now.shown = stayed.shown /\ now.shown \subseteq found /\ now.read \subseteq found
  BY DEF ListOK
<1>6. Whole(was.got, now.read)
  <2>1. CASE was.cursor = None
    <3>1. was.got = <<>>
      BY <2>1 DEF ListOK, GoesOn
    <3> QED
      BY <3>1 DEF Whole
  <2>2. CASE was.cursor # None
    BY <2>2 DEF ListOK
  <2> QED
    BY <2>1, <2>2
<1> HIDE DEF now
<1>7. ListOK(found, ps, [was EXCEPT !.answer = answer], now)
  <2> DEFINE is == [was EXCEPT !.answer = answer]
  <2>1. /\ is.more = was.more /\ is.got = was.got /\ is.cursor = was.cursor /\ is.answer = answer
    BY DEF Fetches
  <2> HIDE DEF is
  <2>2. Answers(answer, was.cursor, IF was.more THEN now.shown ELSE now.read)
    BY <1>4, <1>5
  <2>3. ListOK(found, ps, is, now)
    BY <1>5, <1>6, <2>1, <2>2 DEF ListOK
  <2> QED
    BY <2>3 DEF is
<1> QED
  BY <1>2, <1>3, <1>7 DEF now

(* The page arrives: one more is shown, or one more is got, or what was    *)
(* got is shown.                                                           *)
LEMMA AnswerArrives ==
  ASSUME NEW found \in SUBSET Id, NEW ps \in Seq(LoadedPages), NEW was \in Fetches,
         NEW stayed \in [shown : SUBSET Id, read : SUBSET Id],
         ListOK(found, ps, was, stayed), was # None, was.answer # None
  PROVE  LET got == Append(was.got, was.answer) IN
         /\ was.answer \in LoadedPages /\ got \in Seq(LoadedPages)
         /\ was.more => ListOK(found, Append(ps, was.answer), None, stayed)
         /\ ~was.more => ListOK(found, got, None, [stayed EXCEPT !.shown = stayed.read])
         /\ ~was.more /\ was.answer.next # None =>
              ListOK(found, ps, [Idle EXCEPT !.got = got, !.cursor = was.answer.next], stayed)
<1> DEFINE got == Append(was.got, was.answer)
<1>1. /\ was.answer \in LoadedPages /\ was.got \in Seq(LoadedPages)
      /\ was.cursor \in Id \cup {None} /\ was.more \in BOOLEAN
  BY DEF Fetches
<1>2. got \in Seq(LoadedPages) /\ got # <<>> /\ got[Len(got)] = was.answer
  BY <1>1, Appended
<1>3. CASE was.more
  <2>1. Chained(Append(ps, was.answer))
    BY <1>1, <1>3, ChainGoesOn DEF ListOK
  <2>2. Whole(Append(ps, was.answer), stayed.shown)
    BY <1>1, <1>3, StaysWhole DEF ListOK
  <2> QED
    BY <1>1, <1>2, <1>3, <2>1, <2>2 DEF ListOK
<1>4. CASE ~was.more
  <2>1. Chained(got)
    BY <1>1, <1>4, ChainGoesOn DEF ListOK
  <2>2. Whole(got, stayed.read)
    BY <1>1, <1>4, StaysWhole DEF ListOK
  <2> HIDE DEF got
  <2>3. ListOK(found, got, None, [stayed EXCEPT !.shown = stayed.read])
    BY <2>1, <2>2 DEF ListOK
  <2>4. ASSUME was.answer.next # None
        PROVE  ListOK(found, ps, [Idle EXCEPT !.got = got, !.cursor = was.answer.next], stayed)
    BY <1>2, <2>1, <2>2, <2>4 DEF ListOK, Idle, GoesOn
  <2> QED
    BY <1>1, <1>2, <1>4, <2>3, <2>4 DEF got
<1> QED
  BY <1>1, <1>3, <1>4

-----------------------------------------------------------------------------
(* The steps of the module.                                                *)

LEMMA Beginning == Init => IInv
<1> SUFFICES ASSUME Init
             PROVE  IInv
  OBVIOUS
<1>1. TypeInv
  <2>1. Idle \in Fetches /\ <<>> \in Seq(LoadedPages)
    BY DEF Idle, Fetches
  <2>2. 0 \in 0..Ordered /\ 0 \in 0..MaxActs
    BY LimitsAssumption
  <2>3. Absent \in [status : Status, order : Id \cup {None}, qty : 0..Ordered,
                   reverses : LinkedId \cup {None}]
    BY <2>2 DEF Absent, Status
  <2>4. linked \in [LinkedId -> [status : Status, order : Id \cup {None}, qty : 0..Ordered,
                                reverses : LinkedId \cup {None}]]
    BY <2>3 DEF Init
  <2>5. docs \in [Id -> Status]
    BY DEF Init, Status
  <2>6. fetch \in [Filter -> Fetches \cup {None}]
    BY <2>1 DEF Init
  <2>7. cache \in [Filter -> Seq(LoadedPages)]
    BY <2>1 DEF Init
  <2>8. steady \in [Filter -> [shown : SUBSET Id, read : SUBSET Id]]
    BY DEF Init
  <2>9. kind \in Kinds /\ filter \in Filter /\ acts \in 0..MaxActs
    BY <2>2, FilterAssumption DEF Init
  <2> QED
    BY <2>4, <2>5, <2>6, <2>7, <2>8, <2>9 DEF TypeInv
<1>2. ASSUME NEW f \in Filter
      PROVE  ListOK(Matching(docs, f), cache[f], fetch[f], steady[f])
  <2>1. cache[f] = <<>> /\ fetch[f] \in {Idle, None} /\ steady[f] = [shown |-> {}, read |-> {}]
    BY <1>2 DEF Init
  <2>2. Chained(<<>>) /\ Whole(<<>>, {})
    BY DEF Chained, Whole
  <2> QED
    BY <2>1, <2>2 DEF ListOK, Idle, GoesOn
<1> QED
  BY <1>1, <1>2 DEF IInv, ListsInv

(* What a step of one list has to show.                                    *)
LEMMA OneList ==
  ASSUME IInv, UNCHANGED docs, NEW f \in Filter, NEW ps, NEW was, NEW stayed,
         cache' = [cache EXCEPT ![f] = ps], fetch' = [fetch EXCEPT ![f] = was],
         steady' = [steady EXCEPT ![f] = stayed],
         ListOK(Matching(docs, f), ps, was, stayed)
  PROVE  ListsInv'
<1>1. \A g \in Filter : Matching(docs, g)' = Matching(docs, g)
  BY DEF Matching
<1>2. cache \in [Filter -> Seq(LoadedPages)] /\ fetch \in [Filter -> Fetches \cup {None}]
      /\ steady \in [Filter -> [shown : SUBSET Id, read : SUBSET Id]]
  BY DEF IInv, TypeInv
<1>3. ASSUME NEW g \in Filter
      PROVE  ListOK(Matching(docs, g), cache[g], fetch[g], steady[g])'
  <2>1. CASE g = f
    <3>1. cache'[g] = ps /\ fetch'[g] = was /\ steady'[g] = stayed
      BY <1>2, <2>1
    <3> QED
      BY <1>1, <2>1, <3>1 DEF ListOK, Chained, Whole, GoesOn, Answers, Ends
  <2>2. CASE g # f
    <3>1. cache'[g] = cache[g] /\ fetch'[g] = fetch[g] /\ steady'[g] = steady[g]
      BY <1>2, <2>2
    <3>2. ListOK(Matching(docs, g), cache[g], fetch[g], steady[g])
      BY DEF IInv, ListsInv
    <3> QED
      BY <1>1, <3>1, <3>2 DEF ListOK, Chained, Whole, GoesOn, Answers, Ends
  <2> QED
    BY <2>1, <2>2
<1> QED
  BY <1>3 DEF ListsInv

(* A step that touches no list.                                            *)
LEMMA NoList ==
  ASSUME IInv, UNCHANGED <<docs, cache, fetch, steady>>
  PROVE  ListsInv'
<1>1. ASSUME NEW f \in Filter
      PROVE  ListOK(Matching(docs, f), cache[f], fetch[f], steady[f])'
  <2>1. ListOK(Matching(docs, f), cache[f], fetch[f], steady[f])
    BY DEF IInv, ListsInv
  <2>2. /\ Matching(docs, f)' = Matching(docs, f) /\ cache'[f] = cache[f]
        /\ fetch'[f] = fetch[f] /\ steady'[f] = steady[f]
    BY DEF Matching
  <2> QED
    BY <2>1, <2>2 DEF ListOK, Chained, Whole, GoesOn, Answers, Ends
<1> QED
  BY <1>1 DEF ListsInv

LEMMA OpenListStep == IInv /\ OpenList => IInv'
<1> SUFFICES ASSUME IInv, OpenList
             PROVE  IInv'
  OBVIOUS
<1>1. Idle \in Fetches
  BY DEF Idle, Fetches
<1>2. TypeInv'
  BY <1>1, LimitsAssumption DEF IInv, TypeInv, OpenList, Acting, Fetching
<1>3. ListsInv'
  <2> DEFINE f == filter'
  <2>1. f \in Filter
    BY DEF OpenList
  <2>2. cache' = [cache EXCEPT ![f] = cache[f]] /\ steady' = [steady EXCEPT ![f] = steady[f]]
    BY DEF IInv, TypeInv, OpenList
  <2>3. ListOK(Matching(docs, f), cache[f], fetch[f], steady[f]) /\ cache[f] \in Seq(LoadedPages)
    BY <2>1 DEF IInv, TypeInv, ListsInv
  <2>4. UNCHANGED docs
    BY DEF OpenList
  <2>5. CASE fetch[f] = None
    <3>1. fetch' = [fetch EXCEPT ![f] = Idle]
      BY <2>5 DEF OpenList, Fetching
    <3>2. ListOK(Matching(docs, f), cache[f], Idle, steady[f])
      BY <2>3, FetchBegins
    <3> HIDE DEF f
    <3> QED
      BY <2>1, <2>2, <2>4, <3>1, <3>2, OneList
  <2>6. CASE fetch[f] # None
    <3>1. fetch' = [fetch EXCEPT ![f] = fetch[f]]
      BY <2>6 DEF OpenList, Fetching, IInv, TypeInv
    <3> HIDE DEF f
    <3> QED
      BY <2>1, <2>2, <2>3, <2>4, <3>1, OneList
  <2> QED
    BY <2>5, <2>6
<1> QED
  BY <1>2, <1>3 DEF IInv

LEMMA LoadMoreStep == IInv /\ LoadMore => IInv'
<1> SUFFICES ASSUME IInv, LoadMore
             PROVE  IInv'
  OBVIOUS
<1> DEFINE ps == cache[filter]
           was == [Idle EXCEPT !.more = TRUE, !.cursor = ps[Len(ps)].next]
<1>1. filter \in Filter /\ ps \in Seq(LoadedPages) /\ ps # <<>> /\ ps[Len(ps)].next # None
  BY DEF IInv, TypeInv, LoadMore, HasNextPage
<1>2. was \in Fetches
  <2>1. ps[Len(ps)] \in LoadedPages
    BY <1>1
  <2>2. ps[Len(ps)].next \in Id \cup {None}
    BY <2>1 DEF LoadedPages
  <2>3. \A w \in Fetches, b \in BOOLEAN : [w EXCEPT !.more = b] \in Fetches
    BY DEF Fetches
  <2>4. Idle \in Fetches
    BY DEF Idle, Fetches
  <2>5. \A w \in Fetches, c \in Id \cup {None} : [w EXCEPT !.cursor = c] \in Fetches
    BY DEF Fetches
  <2> HIDE DEF ps
  <2> QED
    BY <2>2, <2>3, <2>4, <2>5
<1>3. fetch' = [fetch EXCEPT ![filter] = was] /\ acts' \in 0..MaxActs
      /\ UNCHANGED <<kind, docs, linked, filter, cache, steady>>
  BY LimitsAssumption DEF LoadMore, Acting, IInv, TypeInv
<1>4. TypeInv'
  <2> HIDE DEF was
  <2> QED
    BY <1>1, <1>2, <1>3 DEF IInv, TypeInv
<1>5. ListOK(Matching(docs, filter), ps, was, steady[filter])
  BY <1>1, FetchBegins DEF IInv, ListsInv
<1>6. cache' = [cache EXCEPT ![filter] = ps] /\ steady' = [steady EXCEPT ![filter] = steady[filter]]
  BY <1>3 DEF IInv, TypeInv
<1> HIDE DEF was, ps
<1>7. ListsInv'
  BY <1>1, <1>3, <1>5, <1>6, OneList
<1> QED
  BY <1>4, <1>7 DEF IInv

LEMMA RespondStep ==
  ASSUME IInv, NEW f \in Filter, Respond(f)
  PROVE  IInv'
<1> DEFINE found == Matching(docs, f)
           was == fetch[f]
           now == IF was.cursor = None THEN [steady[f] EXCEPT !.read = found] ELSE steady[f]
<1>1. PICK answer \in {PageOf(ListDocuments(f, was.cursor)), NoData} :
        fetch' = [fetch EXCEPT ![f].answer = answer]
  BY DEF Respond
<1>2. /\ found \in SUBSET Id /\ cache[f] \in Seq(LoadedPages) /\ was # None /\ was \in Fetches
      /\ steady[f] \in [shown : SUBSET Id, read : SUBSET Id]
      /\ ListOK(found, cache[f], was, steady[f])
  BY DEF Respond, IInv, TypeInv, ListsInv, Matching
<1>3. answer \in LoadedPages /\ ListOK(found, cache[f], [was EXCEPT !.answer = answer], now)
  <2>1. answer \in {PageOf(nextCursorIfMore(
                      Largest({i \in found : was.cursor = None \/ i < was.cursor}, PageLimit + 1))),
                    NoData}
    BY <1>1 DEF ListDocuments
  <2> HIDE DEF found, was
  <2> QED
    BY <1>2, <2>1, QueryAnswered
<1>4. fetch' = [fetch EXCEPT ![f] = [was EXCEPT !.answer = answer]]
  BY <1>1 DEF IInv, TypeInv
<1>5. steady' = [steady EXCEPT ![f] = now]
  BY DEF Respond, IInv, TypeInv
<1>6. cache' = [cache EXCEPT ![f] = cache[f]] /\ UNCHANGED <<kind, docs, linked, filter, cache, acts>>
  BY DEF Respond, IInv, TypeInv
<1>7. now \in [shown : SUBSET Id, read : SUBSET Id] /\ [was EXCEPT !.answer = answer] \in Fetches
  BY <1>2, <1>3 DEF Fetches
<1> HIDE DEF found, was, now
<1>8. TypeInv'
  BY <1>4, <1>5, <1>6, <1>7 DEF IInv, TypeInv
<1>9. ListsInv'
  BY <1>3, <1>4, <1>5, <1>6, OneList DEF found
<1> QED
  BY <1>8, <1>9 DEF IInv

LEMMA PageArrivesStep ==
  ASSUME IInv, NEW f \in Filter, PageArrives(f)
  PROVE  IInv'
<1> DEFINE found == Matching(docs, f)
           was == fetch[f]
           got == Append(was.got, was.answer)
           next == [Idle EXCEPT !.got = got, !.cursor = was.answer.next]
<1>1. /\ found \in SUBSET Id /\ cache[f] \in Seq(LoadedPages) /\ was # None /\ was \in Fetches
      /\ steady[f] \in [shown : SUBSET Id, read : SUBSET Id] /\ was.answer # None
      /\ ListOK(found, cache[f], was, steady[f])
  BY DEF PageArrives, IInv, TypeInv, ListsInv, Matching
<1>2. /\ was.answer \in LoadedPages /\ got \in Seq(LoadedPages)
      /\ was.more => ListOK(found, Append(cache[f], was.answer), None, steady[f])
      /\ ~was.more => ListOK(found, got, None, [steady[f] EXCEPT !.shown = steady[f].read])
      /\ ~was.more /\ was.answer.next # None => ListOK(found, cache[f], next, steady[f])
  <2> HIDE DEF found, was
  <2> QED
    BY <1>1, AnswerArrives
<1>3. UNCHANGED <<kind, docs, linked, filter, acts>>
  BY DEF PageArrives
<1>4. /\ cache = [cache EXCEPT ![f] = cache[f]] /\ steady = [steady EXCEPT ![f] = steady[f]]
  BY DEF IInv, TypeInv
<1>5. CASE was.more
  <2>1. /\ cache' = [cache EXCEPT ![f] = Append(cache[f], was.answer)]
        /\ fetch' = [fetch EXCEPT ![f] = None] /\ UNCHANGED steady
    BY <1>5 DEF PageArrives
  <2>2. Append(cache[f], was.answer) \in Seq(LoadedPages)
    BY <1>1, <1>2
  <2> HIDE DEF found, was
  <2>3. TypeInv'
    BY <1>3, <2>1, <2>2 DEF IInv, TypeInv
  <2>4. ListsInv'
    BY <1>2, <1>3, <1>4, <1>5, <2>1, OneList DEF found
  <2> QED
    BY <2>3, <2>4 DEF IInv
<1>6. CASE ~was.more /\ Len(got) < Len(cache[f]) /\ was.answer.next # None
  <2>1. fetch' = [fetch EXCEPT ![f] = next] /\ UNCHANGED <<cache, steady>>
    BY <1>6 DEF PageArrives
  <2>2. next \in Fetches
    <3>1. was.answer.next \in Id \cup {None}
      BY <1>2 DEF LoadedPages
    <3> HIDE DEF got
    <3> QED
      BY <1>2, <3>1 DEF Fetches, Idle
  <2> HIDE DEF found, was, next
  <2>3. TypeInv'
    BY <1>3, <2>1, <2>2 DEF IInv, TypeInv
  <2>4. ListsInv'
    BY <1>2, <1>3, <1>4, <1>6, <2>1, OneList DEF found
  <2> QED
    BY <2>3, <2>4 DEF IInv
<1>7. CASE ~was.more /\ ~(Len(got) < Len(cache[f]) /\ was.answer.next # None)
  <2>1. /\ cache' = [cache EXCEPT ![f] = got] /\ fetch' = [fetch EXCEPT ![f] = None]
        /\ steady' = [steady EXCEPT ![f] = [steady[f] EXCEPT !.shown = steady[f].read]]
    BY <1>7 DEF PageArrives, IInv, TypeInv
  <2>2. [steady[f] EXCEPT !.shown = steady[f].read] \in [shown : SUBSET Id, read : SUBSET Id]
    BY <1>1
  <2> HIDE DEF found, was, got
  <2>3. TypeInv'
    BY <1>2, <1>3, <2>1, <2>2 DEF IInv, TypeInv
  <2>4. ListsInv'
    BY <1>2, <1>3, <1>7, <2>1, OneList DEF found
  <2> QED
    BY <2>3, <2>4 DEF IInv
<1> QED
  BY <1>5, <1>6, <1>7

LEMMA FetchFailsStep ==
  ASSUME IInv, NEW f \in Filter, FetchFails(f)
  PROVE  IInv'
<1>1. /\ fetch' = [fetch EXCEPT ![f] = None]
      /\ UNCHANGED <<kind, docs, linked, filter, cache, receipts, asked, acts, steady>>
  BY DEF FetchFails
<1>2. TypeInv'
  BY <1>1 DEF IInv, TypeInv
<1>3. ListOK(Matching(docs, f), cache[f], None, steady[f])
  BY FetchBegins DEF IInv, TypeInv, ListsInv
<1>4. cache' = [cache EXCEPT ![f] = cache[f]] /\ steady' = [steady EXCEPT ![f] = steady[f]]
  BY <1>1 DEF IInv, TypeInv
<1>5. ListsInv'
  BY <1>1, <1>3, <1>4, OneList
<1> QED
  BY <1>2, <1>5 DEF IInv

(* Other users change documents: fewer have stayed.                        *)
LEMMA ChangeStep ==
  ASSUME IInv, NEW table \in [Id -> Status], ChangesTo(table), acts' \in 0..MaxActs
  PROVE  IInv'
<1>1. \A f \in Filter :
        steady'[f] = [shown |-> steady[f].shown \cap Matching(table, f),
                      read |-> steady[f].read \cap Matching(table, f)]
  BY DEF ChangesTo, StillMatching
<1>2. TypeInv'
  <2>1. steady' \in [Filter -> [shown : SUBSET Id, read : SUBSET Id]]
    BY DEF ChangesTo, StillMatching, Matching
  <2> QED
    BY <2>1 DEF IInv, TypeInv, ChangesTo
<1>3. ASSUME NEW f \in Filter
      PROVE  ListOK(Matching(docs, f), cache[f], fetch[f], steady[f])'
  <2>1. Matching(docs, f)' = Matching(table, f)
    BY DEF ChangesTo, Matching
  <2>2. cache'[f] = cache[f] /\ fetch'[f] = fetch[f]
    BY DEF ChangesTo
  <2>3. ListOK(Matching(docs, f), cache[f], fetch[f], steady[f])
    BY DEF IInv, ListsInv
  <2>4. ListOK(Matching(table, f), cache[f], fetch[f],
               [shown |-> steady[f].shown \cap Matching(table, f),
                read |-> steady[f].read \cap Matching(table, f)])
    BY <2>3, FewerStay
  <2> QED
    BY <1>1, <2>1, <2>2, <2>4 DEF ListOK, Chained, Whole, GoesOn, Answers, Ends
<1> QED
  BY <1>2, <1>3 DEF IInv, ListsInv

(* Receipts or deliveries change, which no list of documents reads.        *)
LEMMA LinkedStep ==
  ASSUME IInv,
         NEW table \in [LinkedId -> [status : Status, order : Id \cup {None}, qty : 0..Ordered,
                                    reverses : LinkedId \cup {None}]],
         LinkedChangesTo(table), acts' \in 0..MaxActs
  PROVE  IInv'
<1>1. linked' = table /\ UNCHANGED <<kind, docs, filter, cache, fetch, receipts, asked, steady>>
  BY DEF LinkedChangesTo
<1>2. TypeInv'
  BY <1>1 DEF IInv, TypeInv
<1>3. ListsInv'
  BY <1>1, NoList
<1> QED
  BY <1>2, <1>3 DEF IInv

LEMMA OthersStep == IInv /\ Others => IInv'
<1> SUFFICES ASSUME IInv, Others
             PROVE  IInv'
  OBVIOUS
<1>1. docs \in [Id -> Status] /\ acts \in 0..MaxActs /\ (Acting => acts' \in 0..MaxActs)
  BY LimitsAssumption DEF IInv, TypeInv, Acting
<1>2. CASE CreateDocument
  <2>1. PICK i \in Id : ChangesTo([docs EXCEPT ![i] = "draft"])
    BY <1>2 DEF CreateDocument
  <2>2. [docs EXCEPT ![i] = "draft"] \in [Id -> Status] /\ acts' \in 0..MaxActs
    BY <1>1, <1>2 DEF Status, CreateDocument
  <2> QED
    BY <2>1, <2>2, ChangeStep
<1>3. CASE PostDocument
  <2>1. PICK i \in Id : ChangesTo([docs EXCEPT ![i] = "posted"])
    BY <1>3 DEF PostDocument
  <2>2. [docs EXCEPT ![i] = "posted"] \in [Id -> Status] /\ acts' \in 0..MaxActs
    BY <1>1, <1>3 DEF Status, PostDocument
  <2> QED
    BY <2>1, <2>2, ChangeStep
<1>4. CASE DeleteDocument
  <2>1. PICK i \in Id : ChangesTo([docs EXCEPT ![i] = "none"])
    BY <1>4 DEF DeleteDocument
  <2>2. [docs EXCEPT ![i] = "none"] \in [Id -> Status] /\ acts' \in 0..MaxActs
    BY <1>1, <1>4 DEF Status, DeleteDocument
  <2> QED
    BY <2>1, <2>2, ChangeStep
<1>5. CASE ReverseDocument
  <2>1. PICK i \in Id, r \in Id : ChangesTo([docs EXCEPT ![i] = "reversed", ![r] = "posted"])
    BY <1>5 DEF ReverseDocument
  <2>2. [docs EXCEPT ![i] = "reversed", ![r] = "posted"] \in [Id -> Status] /\ acts' \in 0..MaxActs
    BY <1>1, <1>5 DEF Status, ReverseDocument
  <2> QED
    BY <2>1, <2>2, ChangeStep
<1> DEFINE Links == [status : Status, order : Id \cup {None}, qty : 0..Ordered,
                     reverses : LinkedId \cup {None}]
<1>6. linked \in [LinkedId -> Links]
  BY DEF IInv, TypeInv
<1>7. CASE Receive
  <2>1. PICK i \in LinkedId, o \in Id, q \in 1..Ordered :
          LinkedChangesTo([linked EXCEPT ![i] = [Absent EXCEPT !.status = "draft", !.order = o, !.qty = q]])
    BY <1>7 DEF Receive
  <2>2. [Absent EXCEPT !.status = "draft", !.order = o, !.qty = q] \in Links
    <3>1. q \in 0..Ordered
      BY LimitsAssumption
    <3> QED
      BY <3>1 DEF Absent, Status
  <2>3. acts' \in 0..MaxActs
    BY <1>1, <1>7 DEF Receive
  <2> QED
    BY <1>6, <2>1, <2>2, <2>3, LinkedStep
<1>8. CASE PostLinked
  <2>1. PICK i \in LinkedId : LinkedChangesTo([linked EXCEPT ![i].status = "posted"])
    BY <1>8 DEF PostLinked
  <2>2. [linked EXCEPT ![i].status = "posted"] \in [LinkedId -> Links]
    BY <1>6 DEF Status
  <2>3. acts' \in 0..MaxActs
    BY <1>1, <1>8 DEF PostLinked
  <2> QED
    BY <1>6, <2>1, <2>2, <2>3, LinkedStep
<1>9. CASE BeginReverseLinked
  <2>1. PICK i \in LinkedId, r \in LinkedId :
          LinkedChangesTo([linked EXCEPT ![r] = [linked[i] EXCEPT !.status = "draft", !.reverses = i]])
    BY <1>9 DEF BeginReverseLinked
  <2>2. [linked[i] EXCEPT !.status = "draft", !.reverses = i] \in Links
    <3>1. linked[i] \in Links
      BY <1>6
    <3> QED
      BY <3>1 DEF Status
  <2>3. acts' \in 0..MaxActs
    BY <1>1, <1>9 DEF BeginReverseLinked
  <2>4. [linked EXCEPT ![r] = [linked[i] EXCEPT !.status = "draft", !.reverses = i]] \in [LinkedId -> Links]
    BY <1>6, <2>2
  <2> QED
    BY <2>1, <2>3, <2>4, LinkedStep
<1>10. CASE ReverseLinked
  <2>1. PICK r \in LinkedId :
          /\ linked[r].reverses # None
          /\ LinkedChangesTo([linked EXCEPT ![r].status = "posted", ![linked[r].reverses].status = "reversed"])
    BY <1>10 DEF ReverseLinked
  <2>2. linked[r].reverses \in LinkedId
    BY <1>6, <2>1
  <2>3. [linked EXCEPT ![r].status = "posted"] \in [LinkedId -> Links]
    BY <1>6 DEF Status
  <2>4. [linked EXCEPT ![r].status = "posted", ![linked[r].reverses].status = "reversed"] \in [LinkedId -> Links]
    BY <2>2, <2>3 DEF Status
  <2>5. acts' \in 0..MaxActs
    BY <1>1, <1>10 DEF ReverseLinked
  <2> HIDE DEF Links
  <2> QED
    BY <1>6, <2>1, <2>4, <2>5, LinkedStep DEF Links
<1>11. CASE DeleteLinked
  <2>1. PICK i \in LinkedId : LinkedChangesTo([linked EXCEPT ![i] = Absent])
    BY <1>11 DEF DeleteLinked
  <2>2. Absent \in Links
    <3>1. 0 \in 0..Ordered
      BY LimitsAssumption
    <3> QED
      BY <3>1 DEF Absent, Status
  <2>3. acts' \in 0..MaxActs
    BY <1>1, <1>11 DEF DeleteLinked
  <2> QED
    BY <1>6, <2>1, <2>2, <2>3, LinkedStep
<1> QED
  BY <1>2, <1>3, <1>4, <1>5, <1>7, <1>8, <1>9, <1>10, <1>11 DEF Others

LEMMA Step == IInv /\ [Next]_vars => IInv'
<1> SUFFICES ASSUME IInv, [Next]_vars
             PROVE  IInv'
  OBVIOUS
<1>1. CASE RespondLinked \/ LinkedArrive \/ UNCHANGED vars
  <2>1. UNCHANGED <<kind, docs, linked, filter, cache, fetch, acts, steady>>
    BY <1>1 DEF RespondLinked, LinkedArrive, vars
  <2>2. TypeInv'
    BY <2>1 DEF IInv, TypeInv
  <2> QED
    BY <2>1, <2>2, NoList DEF IInv
<1>2. ASSUME NEW f \in Filter, Respond(f) \/ PageArrives(f) \/ FetchFails(f)
      PROVE  IInv'
  BY <1>2, RespondStep, PageArrivesStep, FetchFailsStep
<1> QED
  BY <1>1, <1>2, OpenListStep, LoadMoreStep, OthersStep DEF Next

-----------------------------------------------------------------------------
LEMMA PagesAreTyped == IInv => TypeOK
<1> SUFFICES ASSUME IInv
             PROVE  TypeOK
  OBVIOUS
<1>1. \A ps \in Seq(LoadedPages) : PagesOK(ps)
  BY DEF PagesOK, LoadedPages
<1>2. \A f \in Filter : fetch[f] # None => fetch[f].got \in Seq(LoadedPages)
  BY DEF IInv, TypeInv, Fetches
<1> QED
  BY <1>1, <1>2 DEF TypeOK, IInv, TypeInv

LEMMA ChainsAreWhole == IInv => RowsAreWhole
<1> SUFFICES ASSUME IInv, NEW f \in Filter, cache[f] # <<>>,
                    \A n \in DOMAIN cache[f] : ~cache[f][n].refused
             PROVE  /\ \A m, n \in DOMAIN cache[f] : m # n => cache[f][m].rows \cap cache[f][n].rows = {}
                    /\ \A i \in steady[f].shown :
                         cache[f][Len(cache[f])].next = None \/ i >= cache[f][Len(cache[f])].next
                           => \E n \in DOMAIN cache[f] : i \in cache[f][n].rows
  BY DEF RowsAreWhole
<1> DEFINE ps == cache[f]
<1>1. ps \in Seq(LoadedPages) /\ Chained(ps) /\ Whole(ps, steady[f].shown)
  BY DEF IInv, TypeInv, ListsInv, ListOK
<1>2. ASSUME NEW m \in DOMAIN ps, NEW n \in DOMAIN ps, m < n
      PROVE  ps[m].rows \cap ps[n].rows = {}
  <2>1. ps[m].next # None /\ (\A i \in ps[n].rows : i < ps[m].next) /\ \A i \in ps[m].rows : i >= ps[m].next
    BY <1>1, <1>2 DEF Chained, Ends
  <2>2. ps[m] \in LoadedPages /\ ps[n] \in LoadedPages
    BY <1>1
  <2>3. ps[m].next \in Nat /\ \A i \in ps[m].rows : i \in Nat
    BY <2>1, <2>2, IdAssumption DEF LoadedPages
  <2> QED
    BY <2>1, <2>3
<1>3. \A m, n \in DOMAIN ps : m # n => m < n \/ n < m
  BY <1>1
<1>4. \A m, n \in DOMAIN ps : m # n => ps[m].rows \cap ps[n].rows = {}
  BY <1>2, <1>3
<1> QED
  BY <1>1, <1>4 DEF Whole

(* Whatever users do and however fetches overlap, fail and are refused,    *)
(* the pages of a list are pages: no more rows than their limit, known     *)
(* documents, a cursor or the end.                                         *)
THEOREM Types == Spec => []TypeOK
<1>1. Spec => []IInv
  BY Beginning, Step, PTL DEF Spec
<1> QED
  BY <1>1, PagesAreTyped, PTL

(* No list shows a document twice, and none that was not refused misses    *)
(* one that stayed on it, for any number of documents and size of pages:   *)
(* every page was read from the cursor of the page before.                 *)
THEOREM ListsAreWhole == Spec => []RowsAreWhole
<1>1. Spec => []IInv
  BY Beginning, Step, PTL DEF Spec
<1> QED
  BY <1>1, ChainsAreWhole, PTL
-----------------------------------------------------------------------------
(* The progress of orders.                                                 *)

(* A receipt or delivery that was posted is posted, or was reversed since. *)
WasPosted(i) == linked[i].status \in {"posted", "reversed"}

(* What was read of the receipts and deliveries at some time: what counts  *)
(* of it was posted then, against the same order and for as much.          *)
ReadingOK(rs) ==
  /\ DOMAIN rs \subseteq LinkedId
  /\ \A j \in DOMAIN rs :
       countsAsReceived(rs[j]) =>
         rs[j].order = linked[j].order /\ rs[j].qty = linked[j].qty /\ WasPosted(j)

ProgressInv == ReadingOK(receipts) /\ ReadingOK(asked.rows)

(* What was posted stays so or becomes reversed, and keeps order and lines.*)
PostedStays(table) ==
  \A j \in LinkedId :
    WasPosted(j) => /\ table[j].order = linked[j].order /\ table[j].qty = linked[j].qty
                    /\ table[j].status \in {"posted", "reversed"}

(* Any step of the receipts and deliveries.                                *)
LEMMA LinkedProgress ==
  ASSUME ProgressInv, NEW table, PostedStays(table), LinkedChangesTo(table)
  PROVE  ProgressInv'
<1>1. linked' = table /\ UNCHANGED <<receipts, asked>>
  BY DEF LinkedChangesTo
<1>2. ReadingOK(receipts)' /\ ReadingOK(asked.rows)'
  BY <1>1 DEF ProgressInv, ReadingOK, PostedStays, WasPosted, countsAsReceived
<1> QED
  BY <1>2 DEF ProgressInv

(* A step that changes no receipt or delivery, and what is read of them.   *)
LEMMA ReadProgress ==
  ASSUME UNCHANGED linked, ReadingOK(receipts'), ReadingOK(asked'.rows)
  PROVE  ProgressInv'
BY DEF ProgressInv, ReadingOK, WasPosted, countsAsReceived

(* Nothing, and all that there is, are read as they are.                   *)
LEMMA ReadNow ==
  ASSUME NEW rows \in SUBSET LinkedId
  PROVE  ReadingOK([i \in rows |-> linked[i]])
BY DEF ReadingOK, WasPosted, countsAsReceived

LEMMA ReadNothing == ReadingOK(<<>>)
BY DEF ReadingOK

LEMMA ProgressBegins == Init => ProgressInv
<1> SUFFICES ASSUME Init
             PROVE  ProgressInv
  OBVIOUS
<1>1. asked.rows = <<>> /\ receipts = <<>>
  BY DEF Init, Sent, NotAsked
<1> QED
  BY <1>1, ReadNothing DEF ProgressInv

(* The actions of the receipts and deliveries: none changes what was       *)
(* posted, but to reverse it.                                              *)
LEMMA LinkedActsProgress ==
  ASSUME IInv, ProgressInv,
         Receive \/ PostLinked \/ DeleteLinked \/ BeginReverseLinked \/ ReverseLinked
  PROVE  ProgressInv'
<1>1. linked \in [LinkedId -> [status : Status, order : Id \cup {None}, qty : 0..Ordered,
                               reverses : LinkedId \cup {None}]]
  BY DEF IInv, TypeInv
<1>2. ASSUME NEW i \in LinkedId, NEW new, ~WasPosted(i), LinkedChangesTo([linked EXCEPT ![i] = new])
      PROVE  ProgressInv'
  <2> DEFINE table == [linked EXCEPT ![i] = new]
  <2>1. \A j \in LinkedId : j # i => table[j] = linked[j]
    BY <1>1
  <2> HIDE DEF table
  <2>2. PostedStays(table)
    BY <1>2, <2>1 DEF PostedStays, WasPosted
  <2> QED
    BY <1>2, <2>2, LinkedProgress DEF table
<1>3. CASE Receive
  <2>1. PICK i \in LinkedId, o \in Id, q \in 1..Ordered :
          /\ linked[i].status = "none"
          /\ LinkedChangesTo([linked EXCEPT ![i] = [Absent EXCEPT !.status = "draft", !.order = o, !.qty = q]])
    BY <1>3 DEF Receive
  <2> QED
    BY <1>2, <2>1 DEF WasPosted
<1>4. CASE PostLinked
  <2>1. PICK i \in LinkedId :
          linked[i].status = "draft" /\ LinkedChangesTo([linked EXCEPT ![i] = [linked[i] EXCEPT !.status = "posted"]])
    BY <1>1, <1>4 DEF PostLinked
  <2> QED
    BY <1>2, <2>1 DEF WasPosted
<1>5. CASE DeleteLinked
  <2>1. PICK i \in LinkedId :
          linked[i].status = "draft" /\ LinkedChangesTo([linked EXCEPT ![i] = Absent])
    BY <1>5 DEF DeleteLinked
  <2> QED
    BY <1>2, <2>1 DEF WasPosted
<1>6. CASE BeginReverseLinked
  <2>1. PICK i \in LinkedId, r \in LinkedId :
          /\ linked[r].status = "none"
          /\ LinkedChangesTo([linked EXCEPT ![r] = [linked[i] EXCEPT !.status = "draft", !.reverses = i]])
    BY <1>6 DEF BeginReverseLinked
  <2> QED
    BY <1>2, <2>1 DEF WasPosted
<1>7. CASE ReverseLinked
  <2>1. PICK r \in LinkedId :
          /\ linked[r].reverses # None
          /\ LinkedChangesTo([linked EXCEPT ![r].status = "posted", ![linked[r].reverses].status = "reversed"])
    BY <1>7 DEF ReverseLinked
  <2> DEFINE i == linked[r].reverses
             table == [linked EXCEPT ![r].status = "posted", ![i].status = "reversed"]
  <2>2. i \in LinkedId
    BY <1>1, <2>1
  <2> HIDE DEF i
  <2>3. /\ \A j \in LinkedId : table[j].order = linked[j].order /\ table[j].qty = linked[j].qty
        /\ \A j \in {r, i} : table[j].status \in {"posted", "reversed"}
        /\ \A j \in LinkedId \ {r, i} : table[j].status = linked[j].status
    BY <1>1, <2>2
  <2> HIDE DEF table
  <2>4. PostedStays(table)
    BY <2>3 DEF PostedStays, WasPosted
  <2> QED
    BY <2>1, <2>4, LinkedProgress DEF table, i
<1> QED
  BY <1>3, <1>4, <1>5, <1>6, <1>7

LEMMA ProgressStep == IInv /\ ProgressInv /\ [Next]_vars => ProgressInv'
<1> SUFFICES ASSUME IInv, ProgressInv, [Next]_vars
             PROVE  ProgressInv'
  OBVIOUS
<1>1. ReadingOK(receipts) /\ ReadingOK(asked.rows)
  BY DEF ProgressInv
<1>2. CASE OpenList
  <2>1. UNCHANGED <<linked, receipts>> /\ asked'.rows \in {asked.rows, <<>>}
    BY <1>2 DEF OpenList, Sent
  <2> QED
    BY <1>1, <2>1, ReadNothing, ReadProgress
<1>3. CASE RespondLinked
  <2>1. PICK rows \in {ListLinked, {}} :
          asked' = [state |-> "answered", rows |-> [i \in rows |-> linked[i]]]
    BY <1>3 DEF RespondLinked
  <2>2. rows \in SUBSET LinkedId
    BY <2>1 DEF ListLinked, Largest
  <2>3. ReadingOK(asked'.rows)
    <3>1. asked'.rows = [i \in rows |-> linked[i]]
      BY <2>1
    <3>2. ReadingOK([i \in rows |-> linked[i]])
      BY <2>2, ReadNow
    <3> QED
      BY <3>1, <3>2
  <2>4. UNCHANGED <<linked, receipts>>
    BY <1>3 DEF RespondLinked
  <2> QED
    BY <1>1, <2>3, <2>4, ReadProgress
<1>4. CASE LinkedArrive
  <2>1. UNCHANGED linked /\ receipts' = asked.rows /\ asked'.rows = <<>>
    BY <1>4 DEF LinkedArrive, NotAsked
  <2> QED
    BY <1>1, <2>1, ReadNothing, ReadProgress
<1>5. CASE \/ LoadMore \/ CreateDocument \/ PostDocument \/ DeleteDocument \/ ReverseDocument
           \/ UNCHANGED vars \/ \E f \in Filter : Respond(f) \/ PageArrives(f) \/ FetchFails(f)
  <2>1. UNCHANGED <<linked, receipts, asked>>
    BY <1>5 DEF LoadMore, CreateDocument, PostDocument, DeleteDocument, ReverseDocument, ChangesTo,
                vars, Respond, PageArrives, FetchFails
  <2> QED
    BY <1>1, <2>1, ReadProgress
<1> QED
  BY <1>2, <1>3, <1>4, <1>5, LinkedActsProgress DEF Next, Others

(* What counts of an order, none of whose receipts was reversed since, is  *)
(* posted still, and so part of what was received.                         *)
LEMMA CountedWasReceived ==
  ASSUME IInv, ProgressInv, NEW o \in Id,
         \A i \in LinkedId : linked[i].order = o => linked[i].status # "reversed"
  PROVE  /\ Received(o) \in Nat
         /\ receivedByPoLine(o, receipts) \in Nat
         /\ receivedByPoLine(o, receipts) <= Received(o)
<1> DEFINE R == {j \in DOMAIN receipts : receipts[j].order = o /\ countsAsReceived(receipts[j])}
           E == {j \in LinkedId : linked[j].order = o /\ linked[j].status = "posted"}
           f == [i \in R |-> receipts[i].qty]
           g == [i \in E |-> linked[i].qty]
<1>1. R \in SUBSET E /\ E \in SUBSET LinkedId /\ \A j \in R : receipts[j].qty = linked[j].qty
  BY DEF ProgressInv, ReadingOK, WasPosted
<1>2. \A j \in LinkedId : linked[j].qty \in Nat
  BY LimitsAssumption DEF IInv, TypeInv
<1>3. /\ DOMAIN f = R /\ DOMAIN g = E
      /\ \A j \in R : f[j] = receipts[j].qty
      /\ \A j \in E : g[j] = linked[j].qty
  OBVIOUS
<1>4. receivedByPoLine(o, receipts) = Sum(f, R) /\ Received(o) = Sum(g, E)
  BY DEF receivedByPoLine, Received, SumFunction, Sum
<1> HIDE DEF R, E, f, g
<1>5. IsFiniteSet(E) /\ IsFiniteSet(R) /\ IsFiniteSet(E \ R)
  BY <1>1, IdAssumption, FS_Subset
<1>6. (\A j \in E : g[j] \in Nat) /\ \A j \in R : g[j] \in Int /\ f[j] = g[j]
  BY <1>1, <1>2, <1>3
<1>7. Sum(f, R) = Sum(g, R)
  BY <1>5, <1>6, SumSame
<1>8. Sum(g, E) = Sum(g, R) + Sum(g, E \ R)
  BY <1>1, <1>5, <1>6, SumSplits
<1>9. Sum(g, E \ R) \in Nat /\ Sum(g, R) \in Nat
  BY <1>1, <1>5, <1>6, SumOfNaturals
<1> QED
  BY <1>4, <1>7, <1>8, <1>9

LEMMA ProgressIsBehind == IInv /\ ProgressInv => ProgressIsNotAhead
<1> SUFFICES ASSUME IInv, ProgressInv, NEW o \in Id,
                    \A i \in LinkedId : linked[i].order = o => linked[i].status # "reversed"
             PROVE  /\ fulfillmentRow(o, receipts).received <= Received(o)
                    /\ fulfilledLines(o, receipts) = 1 => Received(o) >= Ordered
  BY DEF ProgressIsNotAhead
<1>1. /\ Received(o) \in Nat /\ receivedByPoLine(o, receipts) \in Nat
      /\ receivedByPoLine(o, receipts) <= Received(o)
  BY CountedWasReceived
<1>2. Ordered \in Nat
  BY LimitsAssumption
<1>3. fulfillmentRow(o, receipts).received = receivedByPoLine(o, receipts)
  BY DEF fulfillmentRow
<1>4. fulfilledLines(o, receipts) = 1 => receivedByPoLine(o, receipts) >= Ordered
  BY <1>1, <1>2 DEF fulfilledLines, fulfillmentRow
<1> QED
  BY <1>1, <1>2, <1>3, <1>4

(* However old what is joined is, and of however many receipts the first   *)
(* page is, an order none of whose receipts or deliveries was reversed is  *)
(* never shown further along than it is: what was posted when it was read  *)
(* is posted still.                                                        *)
THEOREM ProgressStaysBehind == Spec => []ProgressIsNotAhead
<1>1. Spec => [](IInv /\ ProgressInv)
  BY Beginning, Step, ProgressBegins, ProgressStep, PTL DEF Spec
<1> QED
  BY <1>1, ProgressIsBehind, PTL
=============================================================================
