--------------------------- MODULE HomePage_proofs ---------------------------
(***************************************************************************)
(* What the home page never loses, for any notebooks, keys, limit and      *)
(* bounds: the notebook of an operation whose answer was lost, and a       *)
(* notebook that has not changed while the list was paged through.         *)
(*                                                                         *)
(* 1. InOrder enumerates a finite set, so filter and appendUnique keep what *)
(*    they should, and a page is the first rows after its cursor.          *)
(* 2. The invariant of the operations (IInv).                              *)
(* 3. The invariant of the list (ListInv), and the theorems.               *)
(***************************************************************************)
EXTENDS HomePage, FiniteSetTheorems, TLAPS

USE ListAssumption, PageAssumption

-----------------------------------------------------------------------------
(* Enumerations, filter and appendUnique. *)

\* Before orders S: no member comes before itself, and of two one comes first.
StrictOrderOn(S, Before) ==
  /\ \A x \in S : <<x, x>> \notin Before
  /\ \A x, y, z \in S : <<x, y>> \in Before /\ <<y, z>> \in Before => <<x, z>> \in Before
  /\ \A x, y \in S : x = y \/ <<x, y>> \in Before \/ <<y, x>> \in Before

\* A finite set with a total order has an enumeration in that order: the place of a
\* member is the number of members up to it.
LEMMA OrderedExists ==
  ASSUME NEW S, IsFiniteSet(S), NEW Before, StrictOrderOn(S, Before)
  PROVE  \E s \in [1 .. Cardinality(S) -> S] :
           \A i, j \in 1 .. Cardinality(S) : i < j => <<s[i], s[j]>> \in Before
<1>. DEFINE N == Cardinality(S)
            Below(x) == {y \in S : <<y, x>> \in Before}
            place == [x \in S |-> Cardinality(Below(x)) + 1]
<1>0. N \in Nat
  BY FS_CardinalityType
<1>1. ASSUME NEW x \in S
      PROVE  /\ IsFiniteSet(Below(x))
             /\ Cardinality(Below(x)) \in Nat /\ Cardinality(Below(x)) < N
  <2>1. Below(x) \in SUBSET (S \ {x})
    BY DEF StrictOrderOn
  <2>2. IsFiniteSet(S \ {x}) /\ Cardinality(S \ {x}) = N - 1
    BY FS_RemoveElement
  <2>. HIDE DEF Below, N
  <2>3. IsFiniteSet(Below(x)) /\ Cardinality(Below(x)) <= N - 1
    BY <2>1, <2>2, FS_Subset
  <2>4. Cardinality(Below(x)) \in Nat
    BY <2>3, FS_CardinalityType
  <2>. QED BY <1>0, <2>3, <2>4
<1>2. place \in [S -> 1 .. N] /\ \A x \in S : place[x] = Cardinality(Below(x)) + 1
  <2>. HIDE DEF Below, N
  <2>. QED BY <1>0, <1>1
<1>3. ASSUME NEW x \in S, NEW y \in S, <<x, y>> \in Before PROVE place[x] < place[y]
  <2>1. Below(x) \union {x} \in SUBSET Below(y) /\ x \notin Below(x)
    BY <1>3 DEF StrictOrderOn
  <2>. HIDE DEF Below, place, N
  <2>2. /\ IsFiniteSet(Below(x) \union {x})
        /\ Cardinality(Below(x) \union {x}) = Cardinality(Below(x)) + 1
    BY <1>1, <2>1, FS_AddElement
  <2>3. Cardinality(Below(x) \union {x}) <= Cardinality(Below(y))
    BY <1>1, <2>1, FS_Subset
  <2>. QED BY <1>1, <1>2, <2>2, <2>3
<1>. HIDE DEF place, N
<1>4. \A x, y \in S : place[x] = place[y] => x = y
  <2>. HIDE DEF Below
  <2>1. ASSUME NEW x \in S, NEW y \in S, <<x, y>> \in Before PROVE place[x] # place[y]
    BY <1>0, <1>2, <1>3, <2>1
  <2>. QED BY <2>1 DEF StrictOrderOn
<1>5. \A i \in 1 .. N : \E x \in S : place[x] = i
  <2>1. place \in Injection(S, 1 .. N)
    BY <1>2, <1>4 DEF Injection, IsInjective
  <2>2. IsFiniteSet(1 .. N) /\ Cardinality(1 .. N) = Cardinality(S)
    BY <1>0, FS_Interval DEF N
  <2>3. place \in Surjection(S, 1 .. N)
    BY <2>1, <2>2, FS_Injection
  <2>. QED BY <2>3 DEF Surjection
<1>. DEFINE s == [i \in 1 .. N |-> CHOOSE x \in S : place[x] = i]
<1>6. \A i \in 1 .. N : s[i] \in S /\ place[s[i]] = i
  BY <1>5
<1>7. s \in [1 .. N -> S]
  BY <1>6
<1>. HIDE DEF s
<1>8. \A i, j \in 1 .. N : i < j => <<s[i], s[j]>> \in Before
  <2>. SUFFICES ASSUME NEW i \in 1 .. N, NEW j \in 1 .. N, i < j,
                       <<s[i], s[j]>> \notin Before
                PROVE  FALSE
    OBVIOUS
  <2>1. s[i] # s[j] /\ <<s[j], s[i]>> \notin Before
    BY <1>0, <1>3, <1>6
  <2>. QED BY <1>6, <2>1 DEF StrictOrderOn
<1>. QED BY <1>7, <1>8 DEF N

\* So InOrder has the members of its set, each once and in order.
LEMMA InOrderFacts ==
  ASSUME NEW S, IsFiniteSet(S), NEW Before, StrictOrderOn(S, Before)
  PROVE  /\ InOrder(S, Before) \in [1 .. Cardinality(S) -> S]
         /\ Cardinality(S) \in Nat
         /\ \A i, j \in 1 .. Cardinality(S) :
              i < j => <<InOrder(S, Before)[i], InOrder(S, Before)[j]>> \in Before
         /\ \A x \in S : \E i \in 1 .. Cardinality(S) : InOrder(S, Before)[i] = x
         /\ IsInjective(InOrder(S, Before))
<1>. DEFINE N == Cardinality(S)
            s == InOrder(S, Before)
<1>0. N \in Nat
  BY FS_CardinalityType
<1>1. /\ s \in [1 .. N -> S]
      /\ \A i, j \in 1 .. N : i < j => <<s[i], s[j]>> \in Before
  BY OrderedExists DEF InOrder
<1>. HIDE DEF s, N
<1>2. IsInjective(s)
  <2>1. ASSUME NEW i \in 1 .. N, NEW j \in 1 .. N, i < j PROVE s[i] # s[j]
    BY <1>1, <2>1 DEF StrictOrderOn
  <2>2. DOMAIN s = 1 .. N
    BY <1>1
  <2>. QED BY <1>0, <2>1, <2>2 DEF IsInjective
<1>3. \A x \in S : \E i \in 1 .. N : s[i] = x
  <2>1. s \in Injection(1 .. N, S)
    BY <1>1, <1>2 DEF Injection
  <2>2. IsFiniteSet(1 .. N) /\ Cardinality(1 .. N) = Cardinality(S)
    BY <1>0, FS_Interval DEF N
  <2>3. s \in Surjection(1 .. N, S)
    BY <2>1, <2>2, FS_Injection
  <2>. QED BY <2>3 DEF Surjection
<1>. QED BY <1>0, <1>1, <1>2, <1>3 DEF s, N

\* filter keeps the other members, each as often as it was there.
LEMMA WithoutFacts ==
  ASSUME NEW T, NEW s \in Seq(T), NEW dropped
  PROVE  /\ Without(s, dropped) \in Seq(T)
         /\ ToSet(Without(s, dropped)) = ToSet(s) \ dropped
         /\ IsInjective(s) => IsInjective(Without(s, dropped))
<1>. DEFINE kept == {i \in DOMAIN s : s[i] \notin dropped}
            earlier == {p \in kept \X kept : p[1] < p[2]}
            order == InOrder(kept, earlier)
            N == Cardinality(kept)
            result == [j \in DOMAIN order |-> s[order[j]]]
<1>1. DOMAIN s = 1 .. Len(s) /\ Len(s) \in Nat
  OBVIOUS
<1>2. kept \in SUBSET (1 .. Len(s)) /\ IsFiniteSet(1 .. Len(s))
  BY <1>1, FS_Interval
<1>3. IsFiniteSet(kept)
  BY <1>2, FS_Subset
<1>4. StrictOrderOn(kept, earlier)
  <2>1. kept \subseteq Int
    BY <1>2
  <2>. HIDE DEF kept
  <2>. QED BY <2>1 DEF StrictOrderOn
<1>5. Without(s, dropped) = result
  BY DEF Without
<1>. HIDE DEF earlier, kept
<1>6. /\ order \in [1 .. N -> kept] /\ N \in Nat /\ IsInjective(order)
      /\ \A i \in kept : \E j \in 1 .. N : order[j] = i
  BY <1>3, <1>4, InOrderFacts
<1>. HIDE DEF order, N
<1>7. result \in [1 .. N -> T]
  <2>1. DOMAIN order = 1 .. N /\ \A j \in 1 .. N : order[j] \in 1 .. Len(s)
    BY <1>2, <1>6
  <2>2. \A i \in 1 .. Len(s) : s[i] \in T
    OBVIOUS
  <2>. HIDE DEF kept
  <2>. QED BY <2>1, <2>2
<1>8. \A j \in 1 .. N : result[j] = s[order[j]] /\ order[j] \in kept
  BY <1>6
<1>9. DOMAIN result = 1 .. N
  BY <1>7
<1>. HIDE DEF result
<1>10. result \in Seq(T)
  BY <1>6, <1>7
<1>11. ToSet(result) = ToSet(s) \ dropped
  <2>1. ASSUME NEW j \in 1 .. N PROVE result[j] \in ToSet(s) \ dropped
    BY <1>8 DEF kept, ToSet
  <2>2. ASSUME NEW i \in DOMAIN s, s[i] \notin dropped PROVE s[i] \in ToSet(result)
    <3>1. PICK j \in 1 .. N : order[j] = i
      BY <1>6, <2>2 DEF kept
    <3>. QED BY <1>8, <1>9, <3>1 DEF ToSet
  <2>. QED BY <1>9, <2>1, <2>2 DEF ToSet
<1>12. IsInjective(s) => IsInjective(result)
  <2>. SUFFICES ASSUME IsInjective(s), NEW i \in 1 .. N, NEW j \in 1 .. N,
                       result[i] = result[j]
                PROVE  i = j
    BY <1>9 DEF IsInjective
  <2>1. order[i] = order[j]
    BY <1>8 DEF IsInjective, kept
  <2>. QED BY <1>6, <2>1 DEF IsInjective
<1>. QED BY <1>5, <1>10, <1>11, <1>12

\* appendUnique adds what is new, once.
LEMMA AppendUniqueFacts ==
  ASSUME NEW T, NEW s \in Seq(T), NEW t \in Seq(T), IsInjective(s), IsInjective(t)
  PROVE  /\ AppendUnique(s, t) \in Seq(T) /\ IsInjective(AppendUnique(s, t))
         /\ ToSet(AppendUnique(s, t)) = ToSet(s) \union ToSet(t)
<1>. DEFINE more == Without(t, ToSet(s))
            both == s \o more
<1>1. /\ more \in Seq(T) /\ IsInjective(more)
      /\ ToSet(more) = ToSet(t) \ ToSet(s)
  BY WithoutFacts
<1>. HIDE DEF more
<1>2. /\ both \in Seq(T) /\ DOMAIN both = 1 .. Len(s) + Len(more)
      /\ DOMAIN s = 1 .. Len(s) /\ DOMAIN more = 1 .. Len(more)
      /\ Len(s) \in Nat /\ Len(more) \in Nat
      /\ \A i \in 1 .. Len(s) : both[i] = s[i]
      /\ \A i \in Len(s) + 1 .. Len(s) + Len(more) : both[i] = more[i - Len(s)]
  BY <1>1
<1>3. AppendUnique(s, t) = both
  BY DEF AppendUnique, more
<1>. HIDE DEF both
<1>4. ASSUME NEW i \in 1 .. Len(more) PROVE both[Len(s) + i] = more[i]
  <2>1. Len(s) + i \in Len(s) + 1 .. Len(s) + Len(more) /\ (Len(s) + i) - Len(s) = i
    BY <1>2
  <2>. QED BY <1>2, <2>1
<1>5. ToSet(both) = ToSet(s) \union ToSet(more)
  <2>1. ASSUME NEW i \in DOMAIN both PROVE both[i] \in ToSet(s) \union ToSet(more)
    <3>1. CASE i <= Len(s)
      BY <1>2, <3>1 DEF ToSet
    <3>2. CASE i > Len(s)
      <4>1. i - Len(s) \in 1 .. Len(more) /\ both[i] = more[i - Len(s)]
        BY <1>2, <3>2
      <4>. QED BY <1>2, <4>1 DEF ToSet
    <3>. QED BY <1>2, <3>1, <3>2
  <2>2. ASSUME NEW i \in 1 .. Len(s) PROVE s[i] \in ToSet(both)
    <3>1. i \in DOMAIN both /\ both[i] = s[i]
      BY <1>2
    <3>. QED BY <3>1 DEF ToSet
  <2>3. ASSUME NEW i \in 1 .. Len(more) PROVE more[i] \in ToSet(both)
    <3>1. Len(s) + i \in DOMAIN both /\ both[Len(s) + i] = more[i]
      BY <1>2, <1>4
    <3>. QED BY <3>1 DEF ToSet
  <2>. QED BY <1>2, <2>1, <2>2, <2>3 DEF ToSet
<1>6. IsInjective(both)
  <2>. SUFFICES ASSUME NEW i \in DOMAIN both, NEW j \in DOMAIN both, i < j
                PROVE  both[i] # both[j]
    BY <1>2 DEF IsInjective
  <2>1. CASE j <= Len(s)
    BY <1>2, <2>1 DEF IsInjective
  <2>2. CASE i > Len(s)
    <3>1. /\ i \in Len(s) + 1 .. Len(s) + Len(more)
          /\ j \in Len(s) + 1 .. Len(s) + Len(more)
      BY <1>2, <2>2
    <3>2. both[i] = more[i - Len(s)] /\ both[j] = more[j - Len(s)]
      BY <1>2, <3>1
    <3>3. /\ i - Len(s) \in 1 .. Len(more) /\ j - Len(s) \in 1 .. Len(more)
          /\ i - Len(s) # j - Len(s)
      BY <1>2, <3>1
    <3>. QED BY <1>1, <1>2, <3>2, <3>3 DEF IsInjective
  <2>3. CASE i <= Len(s) /\ j > Len(s)
    <3>1. /\ i \in 1 .. Len(s) /\ both[i] = s[i]
          /\ j - Len(s) \in 1 .. Len(more) /\ both[j] = more[j - Len(s)]
      BY <1>2, <2>3
    <3>2. both[i] \in ToSet(s) /\ both[j] \in ToSet(more)
      BY <1>2, <3>1 DEF ToSet
    <3>. QED BY <1>1, <3>2
  <2>. QED BY <1>2, <2>1, <2>2, <2>3
<1>. QED BY <1>1, <1>2, <1>3, <1>5, <1>6

-----------------------------------------------------------------------------
(* The pages of the service. *)

\* A cursor is the time and the id of a row.
Cursors == [at : Times, id : Notebooks]

RowsOK == rows \in [Notebooks -> [status : {"absent", "live", "deleted"}, at : Times]]

\* What the service answers: no notebook twice, at most Limit.
PageOK(page) ==
  /\ page \in [items : Seq(Notebooks), next : Cursors \union {None}]
  /\ IsInjective(page.items) /\ Len(page.items) <= Limit

\* Cursors are pairs of numbers, and rows have one each.
LEMMA CursorFacts ==
  /\ None \notin Cursors
  /\ \A c \in Cursors : c.at \in Nat /\ c.id \in Notebooks
  /\ \A n \in Notebooks : n \in Nat
  /\ RowsOK => \A n \in Notebooks : rows[n].at \in Times /\ rows[n].at \in Nat
  /\ RowsOK => \A n \in Notebooks : CursorOf(n) \in Cursors /\ CursorOf(n) # None
<1>1. None \notin Cursors
  BY DEF Cursors, Times
<1>2. \A c \in Cursors : c.at \in Nat /\ c.id \in Notebooks
  BY DEF Cursors, Times
<1>3. \A n \in Notebooks : n \in Nat
  OBVIOUS
<1>4. ASSUME RowsOK, NEW n \in Notebooks
      PROVE  rows[n].at \in Times /\ rows[n].at \in Nat
  BY <1>4 DEF RowsOK, Times
<1>5. ASSUME RowsOK, NEW n \in Notebooks PROVE CursorOf(n) \in Cursors
  BY <1>4, <1>5 DEF CursorOf, Cursors
<1>. QED BY <1>1, <1>2, <1>3, <1>4, <1>5

\* Keyset order: what follows a later cursor follows an earlier one.
LEMMA FollowsTransitive ==
  ASSUME NEW a \in Cursors, NEW b \in Cursors \union {None}, NEW n \in Notebooks, RowsOK,
         Follows(n, a), b = None \/ a.at < b.at \/ (a.at = b.at /\ a.id < b.id)
  PROVE  Follows(n, b)
<1>. DEFINE at == rows[n].at
<1>1. /\ at \in Nat /\ n \in Nat /\ a.at \in Nat /\ a.id \in Nat /\ a # None
      /\ b # None => b.at \in Nat /\ b.id \in Nat
  BY CursorFacts
<1>2. at < a.at \/ (at = a.at /\ n < a.id)
  BY <1>1 DEF Follows
<1>. HIDE DEF at
<1>3. b = None \/ at < b.at \/ (at = b.at /\ n < b.id)
  BY <1>1, <1>2
<1>. QED BY <1>3 DEF Follows, at

\* The order of the pages, as numbers.
LEMMA NewestFirstPairs ==
  ASSUME RowsOK, NEW n \in Notebooks, NEW m \in Notebooks
  PROVE  /\ <<n, m>> \in NewestFirst <=> Follows(m, CursorOf(n))
         /\ <<n, m>> \in NewestFirst <=>
              (rows[m].at < rows[n].at \/ (rows[m].at = rows[n].at /\ m < n))
<1>1. CursorOf(n) # None
  BY CursorFacts
<1>2. Follows(m, CursorOf(n)) <=>
        (rows[m].at < rows[n].at \/ (rows[m].at = rows[n].at /\ m < n))
  BY <1>1 DEF Follows, CursorOf
<1>3. <<n, m>> \in NewestFirst <=>
        (rows[m].at < rows[n].at \/ (rows[m].at = rows[n].at /\ m < n))
  <2>. DEFINE p == <<n, m>>
  <2>1. p \in Notebooks \X Notebooks /\ p[1] = n /\ p[2] = m
    OBVIOUS
  <2>. HIDE DEF p
  <2>2. p \in NewestFirst <=>
          (rows[m].at < rows[n].at \/ (rows[m].at = rows[n].at /\ m < n))
    BY <2>1 DEF NewestFirst
  <2>. QED BY <2>2 DEF p
<1>. QED BY <1>2, <1>3

\* What is as new as the row of a cursor does not follow it.
LEMMA NotFollows ==
  ASSUME RowsOK, NEW n \in Notebooks, NEW m \in Notebooks,
         \/ rows[m].at < rows[n].at
         \/ rows[n].at = rows[m].at /\ m <= n
  PROVE  ~ Follows(n, CursorOf(m))
<1>. DEFINE a == rows[n].at
            b == rows[m].at
<1>1. a \in Nat /\ b \in Nat /\ n \in Nat /\ m \in Nat
  BY CursorFacts
<1>2. b < a \/ (a = b /\ m <= n)
  OBVIOUS
<1>3. CursorOf(m) # None /\ CursorOf(m).at = b /\ CursorOf(m).id = m
  BY CursorFacts DEF CursorOf
<1>4. Follows(n, CursorOf(m)) <=> a < b \/ (a = b /\ n < m)
  BY <1>3 DEF Follows
<1>. HIDE DEF a, b
<1>. QED BY <1>1, <1>2, <1>4

\* On the rows of a table, it is a total order.
LEMMA NewestFirstOrders ==
  ASSUME RowsOK, NEW S \in SUBSET Notebooks
  PROVE  StrictOrderOn(S, NewestFirst)
<1>1. ASSUME NEW n \in Notebooks, NEW m \in Notebooks
      PROVE  <<n, m>> \in NewestFirst <=>
               \/ rows[m].at < rows[n].at
               \/ rows[m].at = rows[n].at /\ m < n
  BY NewestFirstPairs
<1>2. \A n \in Notebooks : rows[n].at \in Nat /\ n \in Nat
  BY CursorFacts
<1>3. \A x \in S : <<x, x>> \notin NewestFirst
  BY <1>1, <1>2
<1>4. \A x, y, z \in S :
        <<x, y>> \in NewestFirst /\ <<y, z>> \in NewestFirst => <<x, z>> \in NewestFirst
  BY <1>1, <1>2
<1>5. \A x, y \in S : x = y \/ <<x, y>> \in NewestFirst \/ <<y, x>> \in NewestFirst
  <2>. SUFFICES ASSUME NEW x \in S, NEW y \in S, x # y
                PROVE  <<x, y>> \in NewestFirst \/ <<y, x>> \in NewestFirst
    OBVIOUS
  <2>. DEFINE a == rows[x].at
              b == rows[y].at
  <2>1. a \in Nat /\ b \in Nat /\ x \in Nat /\ y \in Nat
    BY <1>2
  <2>. HIDE DEF a, b
  <2>2. b < a \/ (b = a /\ y < x) \/ a < b \/ (a = b /\ x < y)
    BY <2>1
  <2>. QED BY <1>1, <2>2 DEF a, b
<1>. QED BY <1>3, <1>4, <1>5 DEF StrictOrderOn

\* A page has the first rows after its cursor, and its own cursor comes next.
LEMMA PageFacts ==
  ASSUME RowsOK, NEW cursor \in Cursors \union {None}
  PROVE  LET page == Page(cursor) IN
         /\ PageOK(page)
         /\ \A n \in ToSet(page.items) : n \in Notebooks /\ Live(n) /\ Follows(n, cursor)
         /\ \A n \in Notebooks : Live(n) /\ Follows(n, cursor) =>
              \/ n \in ToSet(page.items)
              \/ page.next # None /\ Follows(n, page.next)
         /\ page.next # None =>
              /\ \A n \in ToSet(page.items) : ~ Follows(n, page.next)
              /\ \A n \in Notebooks : Follows(n, page.next) => Follows(n, cursor)
<1>. DEFINE S == {n \in Notebooks : Live(n) /\ Follows(n, cursor)}
            found == InOrder(S, NewestFirst)
            N == Cardinality(S)
            first == SubSeq(found, 1, Limit)
            next == CursorOf(found[Limit])
            page == Page(cursor)
<1>1. page = IF Len(found) <= Limit THEN [items |-> found, next |-> None]
             ELSE [items |-> first, next |-> next]
  BY DEF Page
<1>2. IsFiniteSet(S) /\ StrictOrderOn(S, NewestFirst)
  BY FS_Subset, NewestFirstOrders
<1>3. S \subseteq Notebooks /\ \A n \in Notebooks : n \in S <=> Live(n) /\ Follows(n, cursor)
  OBVIOUS
<1>. HIDE DEF S, page
<1>4. /\ found \in [1 .. N -> S] /\ N \in Nat /\ IsInjective(found)
      /\ \A i, j \in 1 .. N : i < j => <<found[i], found[j]>> \in NewestFirst
      /\ \A n \in S : \E i \in 1 .. N : found[i] = n
  BY <1>2, InOrderFacts
<1>. HIDE DEF found, N
<1>5. found \in Seq(Notebooks) /\ Len(found) = N /\ DOMAIN found = 1 .. N
  <2>1. \A i \in 1 .. N : found[i] \in Notebooks
    BY <1>3, <1>4
  <2>2. found \in [1 .. N -> Notebooks]
    BY <1>4, <2>1
  <2>. QED BY <1>4, <2>2
<1>6. CASE N <= Limit
  <2>1. page = [items |-> found, next |-> None]
    BY <1>1, <1>5, <1>6
  <2>2. ToSet(found) = S
    BY <1>4, <1>5 DEF ToSet
  <2>3. page.items = found /\ page.next = None
    BY <2>1
  <2>4. PageOK(page)
    BY <1>4, <1>5, <1>6, <2>1 DEF PageOK
  <2>5. ToSet(page.items) = S
    BY <2>2, <2>3
  <2>. QED BY <1>3, <2>3, <2>4, <2>5 DEF page
<1>7. CASE ~ (N <= Limit)
  <2>1. page = [items |-> first, next |-> next]
    BY <1>1, <1>5, <1>7
  <2>2. /\ first \in Seq(Notebooks) /\ Len(first) = Limit /\ DOMAIN first = 1 .. Limit
        /\ \A i \in 1 .. Limit : first[i] = found[i] /\ i \in 1 .. N
    BY <1>4, <1>5, <1>7
  <2>. HIDE DEF first
  <2>3. IsInjective(first)
    BY <1>4, <1>5, <2>2 DEF IsInjective
  <2>4. found[Limit] \in S /\ found[Limit] \in Notebooks
    BY <1>3, <1>4, <2>2
  <2>5. next \in Cursors /\ next # None
    BY <2>4, CursorFacts
  <2>6. PageOK(page)
    BY <2>1, <2>2, <2>3, <2>5 DEF PageOK
  <2>7. \A n \in ToSet(first) : n \in S
    BY <1>4, <2>2 DEF ToSet
  <2>8. ASSUME NEW n \in S, n \notin ToSet(first) PROVE Follows(n, next)
    <3>1. PICK i \in 1 .. N : found[i] = n
      BY <1>4
    <3>2. i > Limit
      BY <2>2, <2>8, <3>1 DEF ToSet
    <3>3. Limit \in 1 .. N /\ Limit < i
      BY <1>4, <1>7, <3>2
    <3>4. <<found[Limit], n>> \in NewestFirst
      BY <1>4, <3>1, <3>3
    <3>5. found[Limit] \in Notebooks /\ n \in Notebooks
      BY <1>3, <1>4, <3>3
    <3>. QED BY <3>4, <3>5, NewestFirstPairs
  <2>9. ASSUME NEW n \in ToSet(first) PROVE ~ Follows(n, next)
    <3>1. PICK i \in 1 .. Limit : n = found[i] /\ i \in 1 .. N
      BY <2>2 DEF ToSet
    <3>2. n = found[Limit] \/ <<n, found[Limit]>> \in NewestFirst
      BY <1>4, <2>2, <3>1
    <3>3. n \in Notebooks
      BY <1>3, <2>7
    <3>. DEFINE last == found[Limit]
    <3>. HIDE DEF last
    <3>4. last \in Notebooks /\ (n = last \/ <<n, last>> \in NewestFirst)
      BY <2>4, <3>2 DEF last
    <3>5. \/ rows[n].at = rows[last].at /\ last <= n
          \/ rows[last].at < rows[n].at
      <4>1. CASE n = last
        BY <3>3, <4>1, CursorFacts
      <4>2. CASE <<n, last>> \in NewestFirst
        <5>1. rows[last].at < rows[n].at \/ (rows[last].at = rows[n].at /\ last < n)
          BY <3>3, <3>4, <4>2, NewestFirstPairs
        <5>2. last \in Nat /\ n \in Nat
          BY <3>3, <3>4, CursorFacts
        <5>. QED BY <5>1, <5>2
      <4>. QED BY <3>4, <4>1, <4>2
    <3>. QED BY <3>3, <3>4, <3>5, NotFollows DEF last
  <2>10. ASSUME NEW n \in Notebooks, Follows(n, next) PROVE Follows(n, cursor)
    <3>1. Follows(found[Limit], cursor)
      BY <1>3, <2>4
    <3>2. cursor = None \/ next.at < cursor.at \/ (next.at = cursor.at /\ next.id < cursor.id)
      BY <3>1 DEF Follows, CursorOf
    <3>. HIDE DEF next
    <3>. QED BY <2>5, <2>10, <3>2, FollowsTransitive
  <2>. HIDE DEF next
  <2>11. page.items = first /\ page.next = next
    BY <2>1
  <2>12. \A n \in ToSet(page.items) : n \in Notebooks /\ Live(n) /\ Follows(n, cursor)
    BY <1>3, <2>7, <2>11
  <2>13. \A n \in Notebooks : Live(n) /\ Follows(n, cursor) =>
           n \in ToSet(page.items) \/ (page.next # None /\ Follows(n, page.next))
    BY <1>3, <2>5, <2>8, <2>11
  <2>14. page.next # None =>
           /\ \A n \in ToSet(page.items) : ~ Follows(n, page.next)
           /\ \A n \in Notebooks : Follows(n, page.next) => Follows(n, cursor)
    BY <2>9, <2>10, <2>11
  <2>. QED BY <2>6, <2>12, <2>13, <2>14 DEF page
<1>. QED BY <1>6, <1>7, <1>4

-----------------------------------------------------------------------------
(* The operations: their invariant, action by action. *)

\* A POST under way belongs to the operation kept for it, an upload that is
\* still being read has none yet, and only what was sent is carried out.
OperationsOK ==
  /\ pending \in [Kinds -> Keys \union {None}]
  /\ busy \in Kinds \union {None}
  /\ posting # None => posting \in Keys /\ busy # None /\ pending[busy] = posting
  /\ busy = "upload" /\ posting = None => pending["upload"] = None
  /\ request \in [Keys -> {"unused", "valid", "invalid"}]
  /\ made \in [Keys -> Notebooks \union {None}]
  /\ \A k \in Keys : made[k] # None => request[k] = "valid"

Remembered(k) == k \in abandoned \/ \E kind \in Kinds : pending[kind] = k

\* Nothing is under way any more and the app shows what k has made.
Settled(k) == busy = None /\ posting = None /\ made[k] # None /\ opened = made[k]

\* Also before the service has made anything.
KeysKept == \A k \in Keys : request[k] = "valid" => Remembered(k) \/ Settled(k)

IInv == OperationsOK /\ KeysKept

\* The page is opened with nothing under way.
LEMMA InitIInv ==
  ASSUME Init
  PROVE  IInv
BY DEF Init, IInv, OperationsOK, KeysKept, Kinds

\* Leaving the page gives up the keys it holds.
LEMMA LeavingKeeps ==
  ASSUME IInv, NEW n \in Notebooks, OpenItem(n) \/ OpenById(n)
  PROVE  IInv'
<1>1. /\ opened = None /\ abandoned' = abandoned \union Held(Kinds)
      /\ UNCHANGED <<pending, busy, posting, request, made>>
  BY DEF OpenItem, OpenById, OnPage, Leave
<1>2. OperationsOK'
  BY <1>1 DEF IInv, OperationsOK
<1>3. KeysKept'
  BY <1>1 DEF IInv, KeysKept, Remembered, Settled
<1>. QED BY <1>2, <1>3 DEF IInv

\* Clicks and files: an operation is begun, repeated or given up.
LEMMA ClicksKeep ==
  ASSUME IInv, ClickCreate \/ SelectFile \/ FileRead \/ RetryUpload
  PROVE  IInv'
<1>. USE DEF Kinds
<1>1. CASE ClickCreate
  <2>1. /\ opened = None /\ busy' = "create"
        /\ UNCHANGED <<made, opened, abandoned>>
        /\ \/ /\ pending["create"] # None /\ posting' = pending["create"]
              /\ UNCHANGED <<pending, request>>
           \/ \E k \in Keys :
                /\ pending["create"] = None /\ request[k] = "unused" /\ posting' = k
                /\ pending' = [pending EXCEPT !["create"] = k]
                /\ request' = [request EXCEPT ![k] = "valid"]
    BY <1>1 DEF ClickCreate, MayCreate, OnPage, Fresh
  <2>2. OperationsOK'
    BY <2>1 DEF IInv, OperationsOK
  <2>3. KeysKept'
    BY <2>1 DEF IInv, OperationsOK, KeysKept, Remembered, Settled
  <2>. QED BY <2>2, <2>3 DEF IInv
<1>2. CASE SelectFile
  <2>1. /\ opened = None /\ busy = None /\ busy' = "upload"
        /\ pending' = [pending EXCEPT !["upload"] = None]
        /\ abandoned' = abandoned \union Held({"upload"})
        /\ UNCHANGED <<posting, request, made, opened>>
    BY <1>2 DEF SelectFile, MayCreate, OnPage
  <2>2. OperationsOK'
    BY <2>1 DEF IInv, OperationsOK
  <2>3. KeysKept'
    BY <2>1 DEF IInv, OperationsOK, KeysKept, Remembered, Settled, Held
  <2>. QED BY <2>2, <2>3 DEF IInv
<1>3. CASE FileRead
  <2>1. /\ busy = "upload" /\ posting = None /\ pending["upload"] = None
        /\ UNCHANGED <<made, opened, abandoned>>
        /\ \/ busy' = None /\ UNCHANGED <<pending, posting, request>>
           \/ \E k \in Keys, body \in {"valid", "invalid"} :
                /\ request[k] = "unused" /\ posting' = k
                /\ pending' = [pending EXCEPT !["upload"] = k]
                /\ request' = [request EXCEPT ![k] = body]
                /\ UNCHANGED busy
    BY <1>3 DEF FileRead, Fresh, IInv, OperationsOK
  <2>2. OperationsOK'
    BY <2>1 DEF IInv, OperationsOK
  <2>3. KeysKept'
    BY <2>1 DEF IInv, OperationsOK, KeysKept, Remembered, Settled
  <2>. QED BY <2>2, <2>3 DEF IInv
<1>4. CASE RetryUpload
  <2>1. /\ opened = None /\ pending["upload"] # None
        /\ busy' = "upload" /\ posting' = pending["upload"]
        /\ UNCHANGED <<pending, request, made, opened, abandoned>>
    BY <1>4 DEF RetryUpload, MayCreate, OnPage
  <2>2. OperationsOK'
    BY <2>1 DEF IInv, OperationsOK
  <2>3. KeysKept'
    BY <2>1 DEF IInv, OperationsOK, KeysKept, Remembered, Settled
  <2>. QED BY <2>2, <2>3 DEF IInv
<1>. QED BY <1>1, <1>2, <1>3, <1>4

\* The service carries out an operation, which is not settled yet.
LEMMA HandleCreateKeeps ==
  ASSUME IInv, NEW k \in Keys, HandleCreate(k)
  PROVE  IInv'
<1>1. PICK n \in Notebooks :
        /\ request[k] = "valid" /\ made[k] = None /\ made' = [made EXCEPT ![k] = n]
        /\ UNCHANGED <<pending, busy, posting, request, opened, abandoned>>
  BY DEF HandleCreate
<1>2. OperationsOK'
  BY <1>1 DEF IInv, OperationsOK
<1>3. KeysKept'
  BY <1>1 DEF IInv, OperationsOK, KeysKept, Remembered, Settled
<1>. QED BY <1>2, <1>3 DEF IInv

\* An answer: the operation is settled, kept, refused, or given up.
LEMMA AnswersKeep ==
  ASSUME IInv, PostSucceeds \/ PostFails
  PROVE  IInv'
<1>. USE DEF Kinds
<1>0. /\ posting # None /\ posting \in Keys /\ busy \in Kinds
      /\ pending[busy] = posting /\ busy' = None /\ posting' = None
      /\ UNCHANGED <<request, made>>
  BY DEF PostSucceeds, PostFails, IInv, OperationsOK
<1>1. \A k \in Keys : request[k] = "valid" => Remembered(k)
  BY <1>0 DEF IInv, KeysKept, Settled
<1>2. CASE PostSucceeds
  <2>1. /\ made[posting] # None /\ opened' = made[posting]
        /\ pending' = [pending EXCEPT ![busy] = None]
        /\ abandoned \subseteq abandoned'
    BY <1>2 DEF PostSucceeds, Leave
  <2>2. OperationsOK'
    BY <1>0, <2>1 DEF IInv, OperationsOK
  <2>3. KeysKept'
    BY <1>0, <1>1, <2>1 DEF IInv, OperationsOK, KeysKept, Remembered, Settled
  <2>. QED BY <2>2, <2>3 DEF IInv
<1>3. CASE PostFails
  <2>1. \/ UNCHANGED <<pending, abandoned>>
        \/ /\ pending' = [pending EXCEPT ![busy] = None]
           /\ \/ request[posting] = "invalid" /\ abandoned' = abandoned
              \/ abandoned' = abandoned \union {posting}
    BY <1>3 DEF PostFails
  <2>2. OperationsOK'
    BY <1>0, <2>1 DEF IInv, OperationsOK
  <2>3. KeysKept'
    BY <1>0, <1>1, <2>1 DEF IInv, OperationsOK, KeysKept, Remembered, Settled
  <2>. QED BY <2>2, <2>3 DEF IInv
<1>. QED BY <1>2, <1>3

\* Every step keeps it.
LEMMA StepIInv ==
  ASSUME IInv, [Next]_vars
  PROVE  IInv'
<1>1. CASE UNCHANGED creation
  BY <1>1 DEF creation, IInv, OperationsOK, KeysKept, Remembered, Settled
<1>2. CASE ~ UNCHANGED creation
  <2>1. \/ \E n \in Notebooks : OpenItem(n) \/ OpenById(n)
        \/ ClickCreate \/ SelectFile \/ FileRead \/ RetryUpload
        \/ \E k \in Keys : HandleCreate(k)
        \/ PostSucceeds \/ PostFails
    BY <1>2 DEF Next, vars, ClickRefresh, ClickLoadMore, ListAnswers, ClickDelete,
                HandleDelete, DeleteSucceeds, DeleteFails, OthersWrite
  <2>. QED BY <2>1, LeavingKeeps, ClicksKeep, HandleCreateKeeps, AnswersKeep
<1>. QED BY <1>1, <1>2

\* The invariant holds in every behaviour.
THEOREM Invariance == Spec => []IInv
BY InitIInv, StepIInv, PTL DEF Spec

-----------------------------------------------------------------------------
(* The list: its invariant. *)

\* A request holds a page of the service, empty until read.
RequestOK(r) ==
  /\ r \in [phase : {"none", "sent", "read"}, cursor : Cursors \union {None},
            page : [items : Seq(Notebooks), next : Cursors \union {None}]]
  /\ PageOK(r.page)

\* A request is under way exactly while its flag of the hook is set.
ListTypes ==
  /\ RowsOK
  /\ items \in Seq(Notebooks) /\ IsInjective(items)
  /\ nextCursor \in Cursors \union {None}
  /\ RequestOK(firstPage) /\ RequestOK(morePage)
  /\ loading = (firstPage.phase # "none")
  /\ loadingMore = (morePage.phase # "none")

\* What is known of the rows: those that have not changed are there, those whose
\* deletion was carried out are not.
RowsKnown ==
  /\ steady \subseteq {n \in Notebooks : Live(n)}
  /\ gone \subseteq {n \in Notebooks : rows[n].status = "deleted"}
  /\ deleting \in Notebooks \union {None}
  /\ deleteDone => deleting # None /\ rows[deleting].status = "deleted"

\* A deletion is begun in the list, and the list goes with the page.
PageOnly ==
  /\ opened \in Notebooks \union {None}
  /\ OnPage /\ deleting # None => deleting \in Listed /\ ~ loading
  /\ ~ OnPage => items = <<>> /\ firstPage = NoRequest /\ morePage = NoRequest

\* listed with the cursor next: all that has not changed is there or comes next,
\* nothing there comes again, and what is gone is not there.
Sound(listed, next) ==
  /\ \A n \in steady : n \in listed \/ (next # None /\ Follows(n, next))
  /\ next # None => \A n \in listed : ~ Follows(n, next)
  /\ gone \intersect listed = {}

\* The list shown and the pages under way are of one sequence of requests, and no newer
\* first page has been read.
InSequence == OnPage /\ ~ overlapped /\ firstPage.phase # "read"

ListSound == InSequence => Sound(Listed, nextCursor)

\* A first page replaces the list.
FirstSound ==
  OnPage /\ firstPage.phase = "read" =>
    Sound(ToSet(firstPage.page.items), firstPage.page.next)

\* A further page continues it.
MoreSound ==
  InSequence /\ morePage.phase # "none" =>
    /\ morePage.cursor = nextCursor /\ nextCursor # None
    /\ morePage.phase = "read" =>
         /\ Listed \intersect ToSet(morePage.page.items) = {}
         /\ Sound(Listed \union ToSet(morePage.page.items), morePage.page.next)

ListInv ==
  ListTypes /\ RowsKnown /\ PageOnly /\ ListSound /\ FirstSound /\ MoreSound

\* Lists and requests begin empty.
LEMMA EmptyList ==
  /\ <<>> \in Seq(Notebooks) /\ IsInjective(<<>>) /\ ToSet(<<>>) = {}
  /\ RequestOK(NoRequest) /\ NoRequest.phase = "none"
  /\ RequestOK([NoRequest EXCEPT !.phase = "sent"])
  /\ [NoRequest EXCEPT !.phase = "sent"].phase = "sent"
<1>1. <<>> \in Seq(Notebooks) /\ DOMAIN <<>> = {} /\ Len(<<>>) = 0
  OBVIOUS
<1>2. IsInjective(<<>>) /\ ToSet(<<>>) = {}
  BY <1>1 DEF IsInjective, ToSet
<1>3. PageOK(NoPage) /\ NoPage \in [items : Seq(Notebooks), next : Cursors \union {None}]
  BY <1>1, <1>2 DEF PageOK, NoPage
<1>. QED BY <1>1, <1>2, <1>3 DEF RequestOK, NoRequest

\* The page is opened with its first page under way.
LEMMA InitListInv ==
  ASSUME Init
  PROVE  ListInv
<1>1. RowsOK
  BY DEF Init, ListInit, RowsOK
<1>2. /\ items = <<>> /\ nextCursor = None /\ loading = TRUE /\ loadingMore = FALSE
      /\ firstPage = [NoRequest EXCEPT !.phase = "sent"] /\ morePage = NoRequest
      /\ steady = {} /\ overlapped = FALSE /\ gone = {} /\ deleting = None
      /\ deleteDone = FALSE /\ opened = None
  BY DEF Init, ListInit
<1>3. ListTypes
  BY <1>1, <1>2, EmptyList DEF ListTypes
<1>. QED BY <1>2, <1>3, EmptyList DEF ListInv, RowsKnown, PageOnly, ListSound,
  FirstSound, MoreSound, Sound, Listed, OnPage, InSequence

-----------------------------------------------------------------------------
(* The rows move. *)

\* Between two pages rows become newer or are deleted, and what is unchanged is
\* not among them.
RowsMove ==
  /\ RowsOK'
  /\ steady' \subseteq steady
  /\ \A n \in steady' : rows'[n] = rows[n]
  /\ \A n \in Notebooks : rows[n].at <= rows'[n].at
  /\ \A n \in Notebooks : rows[n].status = "deleted" => rows'[n].status = "deleted"

\* A write of a notebook that is not deleted.
LEMMA TouchMoves ==
  ASSUME ListTypes, RowsKnown, NEW n \in Notebooks, NEW at \in Times, Touch(n, at),
         rows[n].status # "deleted"
  PROVE  RowsMove
<1>1. /\ at >= rows[n].at /\ rows' = [rows EXCEPT ![n] = [status |-> "live", at |-> at]]
      /\ steady' = steady \ {n}
  BY DEF Touch
<1>2. RowsOK'
  BY <1>1 DEF ListTypes, RowsOK
<1>3. \A m \in Notebooks : rows'[m] = IF m = n THEN [status |-> "live", at |-> at] ELSE rows[m]
  BY <1>1 DEF ListTypes, RowsOK
<1>4. \A m \in Notebooks : rows[m].at \in Nat
  BY CursorFacts DEF ListTypes
<1>5. rows[n].at <= at
  BY <1>1, <1>4 DEF Times
<1>. QED BY <1>1, <1>2, <1>3, <1>4, <1>5 DEF RowsMove, RowsKnown

\* A deletion.
LEMMA SoftDeleteMoves ==
  ASSUME ListTypes, RowsKnown, NEW n \in Notebooks, SoftDelete(n)
  PROVE  RowsMove /\ rows'[n].status = "deleted"
<1>1. /\ rows' = [rows EXCEPT ![n].status = "deleted"] /\ steady' = steady \ {n}
  BY DEF SoftDelete
<1>2. RowsOK'
  BY <1>1 DEF ListTypes, RowsOK
<1>3. /\ \A m \in Notebooks : m # n => rows'[m] = rows[m]
      /\ rows'[n].status = "deleted" /\ rows'[n].at = rows[n].at
  BY <1>1 DEF ListTypes, RowsOK
<1>4. \A m \in Notebooks : rows[m].at \in Nat
  BY CursorFacts DEF ListTypes
<1>5. ASSUME NEW m \in Notebooks PROVE rows[m].at <= rows'[m].at
  <2>1. rows'[m].at = rows[m].at
    BY <1>3
  <2>2. rows[m].at \in Nat
    BY <1>4
  <2>. QED BY <2>1, <2>2
<1>. QED BY <1>1, <1>2, <1>3, <1>5 DEF RowsMove, RowsKnown

\* What was sound stays so while the rows move.
LEMMA SoundMoves ==
  ASSUME RowsOK, RowsKnown, RowsMove, NEW listed \in SUBSET Notebooks,
         NEW next \in Cursors \union {None}, UNCHANGED gone, Sound(listed, next)
  PROVE  Sound(listed, next)'
<1>1. ASSUME NEW n \in Notebooks, rows'[n] = rows[n], Follows(n, next)
      PROVE  Follows(n, next)'
  BY <1>1 DEF Follows
<1>2. ASSUME NEW n \in Notebooks, next # None, ~ Follows(n, next) PROVE ~ Follows(n, next)'
  <2>. DEFINE a == rows[n].at
              b == rows'[n].at
  <2>1. a \in Nat /\ n \in Nat /\ next.at \in Nat /\ next.id \in Nat
    BY <1>2, CursorFacts
  <2>4. b \in Times
    BY DEF RowsMove, RowsOK
  <2>5. b \in Nat /\ a <= b
    BY <2>4 DEF RowsMove, Times
  <2>2. ~ (a < next.at \/ (a = next.at /\ n < next.id))
    BY <1>2 DEF Follows
  <2>3. Follows(n, next)' <=> b < next.at \/ (b = next.at /\ n < next.id)
    BY <1>2 DEF Follows
  <2>. HIDE DEF a, b
  <2>. QED BY <2>1, <2>2, <2>3, <2>5
<1>3. \A n \in steady' : n \in Notebooks /\ n \in steady /\ rows'[n] = rows[n]
  BY DEF RowsMove, RowsKnown
<1>4. \A n \in steady' : n \in listed \/ (next # None /\ Follows(n, next)')
  BY <1>1, <1>3 DEF Sound
<1>5. next # None => \A n \in listed : ~ Follows(n, next)'
  BY <1>2 DEF Sound
<1>6. gone' \intersect listed = {}
  BY DEF Sound
<1>. QED BY <1>4, <1>5, <1>6 DEF Sound

\* Moving rows, behind the back of the page, disturb nothing it relies on.
LEMMA RowsMoveKeeps ==
  ASSUME ListInv, RowsMove, deleting' = deleting, opened' = opened, gone' = gone,
         deleteDone' => deleteDone \/ (deleting # None /\ rows'[deleting].status = "deleted"),
         UNCHANGED <<hook, pages, overlapped>>
  PROVE  ListInv'
<1>0. UNCHANGED <<items, nextCursor, loading, loadingMore, firstPage, morePage, overlapped>>
  BY DEF hook, pages
<1>1. ListTypes'
  BY <1>0 DEF ListInv, ListTypes, RowsMove, RequestOK, PageOK
<1>2. RowsKnown'
  BY <1>0 DEF ListInv, RowsKnown, RowsMove, Live
<1>3. PageOnly'
  BY <1>0 DEF ListInv, PageOnly, OnPage, Listed
<1>4. ASSUME NEW listed \in SUBSET Notebooks, NEW next \in Cursors \union {None},
             Sound(listed, next)
      PROVE  Sound(listed, next)'
  BY <1>4, SoundMoves DEF ListInv, ListTypes
<1>5. /\ Listed \in SUBSET Notebooks /\ nextCursor \in Cursors \union {None}
      /\ ToSet(firstPage.page.items) \in SUBSET Notebooks
      /\ firstPage.page.next \in Cursors \union {None}
      /\ ToSet(morePage.page.items) \in SUBSET Notebooks
      /\ morePage.page.next \in Cursors \union {None}
  BY DEF ListInv, ListTypes, RequestOK, ToSet, Listed
<1>6. ListSound'
  <2>1. ListSound /\ Listed' = Listed /\ (InSequence' <=> InSequence)
    BY <1>0 DEF ListInv, Listed, InSequence, OnPage
  <2>. QED BY <1>0, <1>4, <1>5, <2>1 DEF ListSound, Sound
<1>7. FirstSound'
  <2>. DEFINE listed == ToSet(firstPage.page.items)
              next == firstPage.page.next
  <2>1. FirstSound /\ (OnPage' <=> OnPage) /\ firstPage' = firstPage
        /\ listed' = listed /\ next' = next
    BY <1>0 DEF ListInv, OnPage
  <2>2. listed \in SUBSET Notebooks /\ next \in Cursors \union {None}
    BY <1>5
  <2>3. FirstSound => (OnPage /\ firstPage.phase = "read" => Sound(listed, next))
    BY DEF FirstSound
  <2>4. (OnPage' /\ firstPage'.phase = "read" => Sound(listed, next)') => FirstSound'
    BY DEF FirstSound
  <2>. HIDE DEF listed, next
  <2>5. Sound(listed, next) => Sound(listed, next)'
    BY <1>4, <2>1, <2>2 DEF Sound
  <2>. QED BY <2>1, <2>3, <2>4, <2>5
<1>8. MoreSound'
  <2>. DEFINE listed == Listed \union ToSet(morePage.page.items)
              next == morePage.page.next
  <2>1. MoreSound /\ Listed' = Listed /\ (InSequence' <=> InSequence)
        /\ listed' = listed /\ next' = next
    BY <1>0 DEF ListInv, Listed, InSequence, OnPage
  <2>2. listed \in SUBSET Notebooks /\ next \in Cursors \union {None}
    BY <1>5
  <2>3. Sound(listed, next) => Sound(listed, next)'
    <3>. HIDE DEF listed, next
    <3>. QED BY <1>4, <2>1, <2>2 DEF Sound
  <2>. QED BY <1>0, <2>1, <2>3 DEF MoreSound
<1>. QED BY <1>1, <1>2, <1>3, <1>6, <1>7, <1>8 DEF ListInv

\* Rows move when the service carries out a deletion or a creation, or when other
\* clients write.
LEMMA WritesKeepList ==
  ASSUME ListInv, HandleDelete \/ OthersWrite \/ \E k \in Keys : HandleCreate(k)
  PROVE  ListInv'
<1>0. ListTypes /\ RowsKnown
  BY DEF ListInv
<1>1. CASE HandleDelete
  <2>1. /\ deleting # None /\ SoftDelete(deleting) /\ deleting \in Notebooks
        /\ UNCHANGED <<hook, pages, overlapped>>
        /\ deleting' = deleting /\ gone' = gone /\ opened' = opened
    BY <1>0, <1>1 DEF HandleDelete, creation, RowsKnown
  <2>. QED BY <1>0, <2>1, SoftDeleteMoves, RowsMoveKeeps
<1>2. CASE OthersWrite
  <2>1. /\ UNCHANGED <<hook, pages, overlapped>>
        /\ deleting' = deleting /\ gone' = gone /\ opened' = opened
        /\ deleteDone' = deleteDone
    BY <1>2 DEF OthersWrite, deletion, creation
  <2>2. PICK n \in Notebooks : OthersSave(n) \/ SoftDelete(n)
    BY <1>2 DEF OthersWrite
  <2>3. RowsMove
    BY <1>0, <2>2, TouchMoves, SoftDeleteMoves DEF OthersSave
  <2>. QED BY <2>1, <2>3, RowsMoveKeeps
<1>3. CASE \E k \in Keys : HandleCreate(k)
  <2>1. /\ UNCHANGED <<hook, pages, overlapped>>
        /\ deleting' = deleting /\ gone' = gone /\ opened' = opened
        /\ deleteDone' = deleteDone
    BY <1>3 DEF HandleCreate, deletion
  <2>2. PICK n \in Notebooks, at \in Times : rows[n].status = "absent" /\ Touch(n, at)
    BY <1>3 DEF HandleCreate
  <2>3. RowsMove
    BY <1>0, <2>2, TouchMoves
  <2>. QED BY <2>1, <2>3, RowsMoveKeeps
<1>. QED BY <1>1, <1>2, <1>3

-----------------------------------------------------------------------------
(* Deletions, and leaving the page. *)

\* A deletion under way changes nothing of the list: it is begun, or fails.
LEMMA DeletionKeepsList ==
  ASSUME ListInv, DeleteFails \/ \E n \in Notebooks : ClickDelete(n)
  PROVE  ListInv'
<1>1. UNCHANGED <<rows, items, nextCursor, loading, loadingMore, firstPage, morePage,
                  steady, overlapped, gone, opened>>
  BY DEF DeleteFails, ClickDelete, listVars, hook, pages, creation
<1>2. ListTypes'
  BY <1>1 DEF ListInv, ListTypes, RowsOK, RequestOK, PageOK
<1>3. RowsKnown' /\ PageOnly'
  <2>1. \/ deleting' = None /\ deleteDone' = FALSE
        \/ /\ OnPage /\ deleting' \in Notebooks /\ deleting' \in Listed /\ ~ loading
           /\ deleteDone' = FALSE
    BY DEF DeleteFails, ClickDelete
  <2>. QED BY <1>1, <2>1 DEF ListInv, RowsKnown, PageOnly, OnPage, Listed, Live
<1>4. ListSound' /\ FirstSound' /\ MoreSound'
  BY <1>1 DEF ListInv, ListSound, FirstSound, MoreSound, InSequence, OnPage, Listed, Sound,
              Follows
<1>. QED BY <1>2, <1>3, <1>4 DEF ListInv

\* A confirmed deletion takes its notebook from the list, and no page under way has it.
LEMMA DeleteSucceedsKeepsList ==
  ASSUME ListInv, DeleteSucceeds
  PROVE  ListInv'
<1>1. /\ deleting # None /\ deleteDone /\ items' = Without(items, {deleting})
      /\ gone' = gone \union {deleting} /\ deleting' = None /\ deleteDone' = FALSE
      /\ UNCHANGED <<rows, nextCursor, loading, loadingMore, firstPage, morePage,
                     steady, overlapped, opened>>
  BY DEF DeleteSucceeds, RemoveItem, pages, creation
<1>2. /\ items \in Seq(Notebooks) /\ IsInjective(items) /\ deleting \in Notebooks
      /\ rows[deleting].status = "deleted"
  BY <1>1 DEF ListInv, ListTypes, RowsKnown
<1>3. /\ items' \in Seq(Notebooks) /\ IsInjective(items')
      /\ Listed' = Listed \ {deleting}
  BY <1>1, <1>2, WithoutFacts DEF Listed
<1>4. ListTypes'
  BY <1>1, <1>3 DEF ListInv, ListTypes, RowsOK, RequestOK, PageOK
<1>5. RowsKnown'
  BY <1>1, <1>2 DEF ListInv, RowsKnown, Live
<1>6. PageOnly'
  <2>1. ASSUME ~ OnPage PROVE items' = <<>>
    <3>1. Listed = {}
      BY <2>1, EmptyList DEF ListInv, PageOnly, Listed
    <3>2. \A i \in 1 .. Len(items') : items'[i] \in Listed'
      BY <1>3 DEF Listed, ToSet
    <3>3. Len(items') = 0
      BY <1>3, <3>1, <3>2
    <3>. QED BY <1>3, <3>3
  <2>. QED BY <1>1, <2>1 DEF ListInv, PageOnly, OnPage
<1>7. deleting \notin steady
  BY <1>2 DEF ListInv, RowsKnown, Live
<1>8. OnPage => deleting \in Listed /\ firstPage.phase = "none"
  BY <1>1 DEF ListInv, PageOnly, ListTypes
<1>9. ASSUME NEW listed, NEW next, Sound(listed, next)
      PROVE  /\ \A n \in steady :
                  n \in listed \ {deleting} \/ (next # None /\ Follows(n, next))
             /\ next # None => \A n \in listed \ {deleting} : ~ Follows(n, next)
             /\ (gone \union {deleting}) \intersect (listed \ {deleting}) = {}
  BY <1>7, <1>9 DEF Sound
<1>10. ASSUME NEW listed, NEW next, Sound(listed, next)
       PROVE  /\ \A n \in steady' :
                   n \in listed \ {deleting} \/ (next # None /\ Follows(n, next)')
              /\ next # None => \A n \in listed \ {deleting} : ~ Follows(n, next)'
              /\ gone' \intersect (listed \ {deleting}) = {}
  <2>1. \A n : Follows(n, next)' <=> Follows(n, next)
    BY <1>1 DEF Follows
  <2>. QED BY <1>1, <1>9, <1>10, <2>1
<1>11. ListSound'
  <2>. SUFFICES ASSUME InSequence' PROVE Sound(Listed, nextCursor)'
    BY DEF ListSound
  <2>1. Sound(Listed, nextCursor)
    BY <1>1 DEF ListInv, ListSound, InSequence, OnPage
  <2>. QED BY <1>1, <1>3, <1>10, <2>1 DEF Sound
<1>12. FirstSound'
  BY <1>1, <1>8 DEF FirstSound, OnPage
<1>13. MoreSound'
  <2>. DEFINE both == Listed \union ToSet(morePage.page.items)
              next == morePage.page.next
  <2>. SUFFICES ASSUME InSequence', morePage'.phase # "none"
                PROVE  /\ morePage.cursor = nextCursor /\ nextCursor # None
                       /\ morePage.phase = "read" =>
                            /\ Listed' \intersect ToSet(morePage.page.items) = {}
                            /\ Sound(Listed \union ToSet(morePage.page.items),
                                     morePage.page.next)'
    BY <1>1 DEF MoreSound
  <2>1. /\ InSequence /\ OnPage /\ morePage.cursor = nextCursor /\ nextCursor # None
        /\ morePage.phase = "read" =>
             Listed \intersect ToSet(morePage.page.items) = {} /\ Sound(both, next)
    BY <1>1 DEF ListInv, MoreSound, InSequence, OnPage
  <2>2. ASSUME morePage.phase = "read"
        PROVE  Sound(Listed \union ToSet(morePage.page.items), morePage.page.next)'
    <3>1. Listed' \union ToSet(morePage.page.items) = both \ {deleting}
      BY <1>3, <1>8, <2>1, <2>2
    <3>2. Sound(both, next)
      BY <2>1, <2>2
    <3>. HIDE DEF both
    <3>. QED BY <1>1, <1>10, <3>1, <3>2 DEF Sound
  <2>. QED BY <1>3, <2>1, <2>2
<1>. QED BY <1>4, <1>5, <1>6, <1>11, <1>12, <1>13 DEF ListInv

\* Leaving the page, from the list or by an answer, leaves nothing of the list.
LEMMA LeavingKeepsList ==
  ASSUME ListInv, OperationsOK,
         PostSucceeds \/ \E n \in Notebooks : OpenItem(n) \/ OpenById(n)
  PROVE  ListInv'
<1>1. /\ Unmount /\ opened' \in Notebooks /\ gone' = {}
      /\ UNCHANGED <<deleting, deleteDone>>
  <2>1. CASE PostSucceeds
    <3>1. made[posting] \in Notebooks
      BY <2>1 DEF PostSucceeds, OperationsOK
    <3>. QED BY <2>1, <3>1 DEF PostSucceeds, Leave
  <2>2. CASE \E n \in Notebooks : OpenItem(n) \/ OpenById(n)
    BY <2>2 DEF OpenItem, OpenById, Leave
  <2>. QED BY <2>1, <2>2
<1>2. /\ items' = <<>> /\ nextCursor' = None /\ loading' = FALSE /\ loadingMore' = FALSE
      /\ firstPage' = NoRequest /\ morePage' = NoRequest /\ steady' = {}
      /\ rows' = rows
  BY <1>1 DEF Unmount
<1>3. ListTypes'
  BY <1>2, EmptyList DEF ListInv, ListTypes, RowsOK, RequestOK, PageOK
<1>4. ~ OnPage'
  BY <1>1 DEF OnPage
<1>5. RowsKnown' /\ PageOnly'
  BY <1>1, <1>2, <1>4 DEF ListInv, RowsKnown, PageOnly
<1>. QED BY <1>3, <1>4, <1>5 DEF ListInv, ListSound, FirstSound, MoreSound, InSequence

-----------------------------------------------------------------------------
(* The requests of the hook. *)

\* The requests for the first page: what was listed stays until its page is there.
LEMMA FirstPageKeepsList ==
  ASSUME ListInv,
         \/ ClickRefresh
         \/ OnPage /\ (FirstPageFails \/ ReadFirstPage) /\ UNCHANGED <<deletion, creation>>
  PROVE  ListInv'
<1>0. /\ OnPage /\ ListTypes /\ RowsKnown /\ PageOnly /\ ListSound /\ MoreSound
      /\ UNCHANGED <<rows, items, nextCursor, loadingMore, morePage, overlapped,
                     deleting, deleteDone, gone, opened>>
  BY DEF ListInv, ClickRefresh, Refresh, FirstPageFails, ReadFirstPage, deletion, creation,
         hook
<1>1. CASE ClickRefresh \/ FirstPageFails
  <2>1. /\ firstPage.phase \in {"none", "sent"} /\ deleting = None /\ steady' = steady
        /\ \/ firstPage' = [NoRequest EXCEPT !.phase = "sent"] /\ loading' = TRUE
           \/ firstPage' = NoRequest /\ loading' = FALSE
    BY <1>0, <1>1 DEF ClickRefresh, Refresh, FirstPageFails, ListTypes, PageOnly
  <2>2. RequestOK(firstPage') /\ loading' = (firstPage'.phase # "none")
        /\ firstPage'.phase # "read"
    BY <2>1, EmptyList
  <2>3. ListTypes'
    BY <1>0, <2>2 DEF ListTypes, RowsOK, RequestOK, PageOK
  <2>4. RowsKnown' /\ PageOnly'
    BY <1>0, <2>1 DEF RowsKnown, PageOnly, OnPage, Live
  <2>5. ListSound' /\ MoreSound'
    BY <1>0, <2>1 DEF ListSound, MoreSound, InSequence, Sound, Follows, Listed
  <2>6. FirstSound'
    BY <2>2 DEF FirstSound
  <2>. QED BY <2>3, <2>4, <2>5, <2>6 DEF ListInv
<1>2. CASE ReadFirstPage
  <2>. DEFINE page == Page(None)
  <2>1. /\ firstPage.phase = "sent" /\ steady' = {n \in Notebooks : Live(n)}
        /\ firstPage' = [firstPage EXCEPT !.phase = "read", !.page = page]
        /\ loading' = loading
    BY <1>2 DEF ReadFirstPage, hook
  <2>2. /\ PageOK(page)
        /\ \A n \in ToSet(page.items) : n \in Notebooks /\ Live(n)
        /\ \A n \in Notebooks : Live(n) =>
             n \in ToSet(page.items) \/ (page.next # None /\ Follows(n, page.next))
        /\ page.next # None => \A n \in ToSet(page.items) : ~ Follows(n, page.next)
    BY <1>0, PageFacts DEF ListTypes, Follows
  <2>. HIDE DEF page
  <2>3. /\ firstPage'.phase = "read" /\ firstPage'.page = page /\ RequestOK(firstPage')
    BY <1>0, <2>1, <2>2 DEF ListTypes, RequestOK, PageOK
  <2>4. ListTypes'
    BY <1>0, <2>1, <2>3 DEF ListTypes, RowsOK, RequestOK, PageOK
  <2>5. RowsKnown' /\ PageOnly'
    BY <1>0, <2>1 DEF RowsKnown, PageOnly, OnPage, Live, ListTypes
  <2>6. ListSound' /\ MoreSound'
    BY <2>3 DEF ListSound, MoreSound, InSequence
  <2>7. FirstSound'
    <3>1. \A n, next : Follows(n, next)' <=> Follows(n, next)
      BY <1>0 DEF Follows
    <3>2. gone \intersect ToSet(page.items) = {}
      BY <1>0, <2>2 DEF RowsKnown, Live
    <3>. QED BY <1>0, <2>1, <2>2, <2>3, <3>1, <3>2 DEF FirstSound, Sound
  <2>. QED BY <2>4, <2>5, <2>6, <2>7 DEF ListInv
<1>. QED BY <1>0, <1>1, <1>2

\* A first page is the new list.  Met by a further page under way, it promises nothing.
LEMMA FirstPageArrivesKeepsList ==
  ASSUME ListInv, OnPage, FirstPageArrives, UNCHANGED <<deletion, creation>>
  PROVE  ListInv'
<1>. DEFINE page == firstPage.page
<1>1. /\ firstPage.phase = "read" /\ items' = page.items /\ nextCursor' = page.next
      /\ loading' = FALSE /\ firstPage' = NoRequest /\ overlapped' = loadingMore
      /\ UNCHANGED <<rows, loadingMore, morePage, steady, deleting, deleteDone, gone, opened>>
  BY DEF FirstPageArrives, deletion, creation
<1>2. /\ PageOK(page) /\ page.items \in Seq(Notebooks) /\ page.next \in Cursors \union {None}
      /\ deleting = None /\ Sound(ToSet(page.items), page.next)
  BY <1>1 DEF ListInv, ListTypes, RequestOK, PageOnly, FirstSound
<1>. HIDE DEF page
<1>3. ListTypes'
  BY <1>1, <1>2, EmptyList DEF ListInv, ListTypes, RowsOK, RequestOK, PageOK
<1>4. RowsKnown' /\ PageOnly'
  BY <1>1, <1>2 DEF ListInv, RowsKnown, PageOnly, OnPage, Live
<1>5. ListSound'
  BY <1>1, <1>2 DEF ListSound, Sound, Follows, Listed
<1>6. FirstSound'
  BY <1>1, EmptyList DEF FirstSound
<1>7. MoreSound'
  BY <1>1 DEF ListInv, ListTypes, MoreSound, InSequence
<1>. QED BY <1>3, <1>4, <1>5, <1>6, <1>7 DEF ListInv

\* A further page is asked for, or not answered: the list and its cursor stay.
LEMMA MoreKeepsList ==
  ASSUME ListInv, OnPage, LoadMore \/ MoreFails, UNCHANGED <<deletion, creation>>
  PROVE  ListInv'
<1>1. UNCHANGED <<rows, items, nextCursor, loading, firstPage, steady, overlapped,
                  deleting, deleteDone, gone, opened>>
  BY DEF LoadMore, MoreFails, deletion, creation
<1>2. \/ /\ nextCursor # None /\ loadingMore' = TRUE
         /\ morePage' = [NoRequest EXCEPT !.phase = "sent", !.cursor = nextCursor]
      \/ loadingMore' = FALSE /\ morePage' = NoRequest
  BY DEF LoadMore, MoreFails
<1>3. /\ RequestOK(morePage') /\ loadingMore' = (morePage'.phase # "none")
      /\ morePage'.phase # "none" => /\ morePage'.phase = "sent"
                                    /\ morePage'.cursor = nextCursor /\ nextCursor # None
  BY <1>2, EmptyList DEF ListInv, ListTypes, RequestOK, NoRequest
<1>4. ListTypes'
  BY <1>1, <1>3 DEF ListInv, ListTypes, RowsOK, RequestOK, PageOK
<1>5. RowsKnown' /\ PageOnly'
  BY <1>1 DEF ListInv, RowsKnown, PageOnly, OnPage, Live, Listed
<1>6. ListSound' /\ FirstSound'
  BY <1>1 DEF ListInv, ListSound, FirstSound, InSequence, OnPage, Sound, Follows, Listed
<1>7. MoreSound'
  BY <1>1, <1>3 DEF MoreSound
<1>. QED BY <1>4, <1>5, <1>6, <1>7 DEF ListInv

\* A further page is read after the list's own cursor: it continues the list.
LEMMA ReadMoreKeepsList ==
  ASSUME ListInv, OnPage, ReadMore, UNCHANGED <<deletion, creation>>
  PROVE  ListInv'
<1>. DEFINE page == Page(morePage.cursor)
            both == Listed \union ToSet(page.items)
<1>1. /\ morePage.phase = "sent"
      /\ morePage' = [morePage EXCEPT !.phase = "read", !.page = page]
      /\ UNCHANGED <<rows, items, nextCursor, loading, loadingMore, firstPage, steady,
                     overlapped, deleting, deleteDone, gone, opened>>
  BY DEF ReadMore, hook, deletion, creation
<1>2. RowsOK /\ morePage.cursor \in Cursors \union {None}
  BY DEF ListInv, ListTypes, RequestOK
<1>3. /\ PageOK(page)
      /\ \A n \in ToSet(page.items) : n \in Notebooks /\ Live(n) /\ Follows(n, morePage.cursor)
      /\ \A n \in Notebooks : Live(n) /\ Follows(n, morePage.cursor) =>
           n \in ToSet(page.items) \/ (page.next # None /\ Follows(n, page.next))
      /\ page.next # None =>
           /\ \A n \in ToSet(page.items) : ~ Follows(n, page.next)
           /\ \A n \in Notebooks : Follows(n, page.next) => Follows(n, morePage.cursor)
  BY <1>2, PageFacts
<1>. HIDE DEF page
<1>4. /\ morePage'.phase = "read" /\ morePage'.page = page
      /\ morePage'.cursor = morePage.cursor /\ RequestOK(morePage')
  BY <1>1, <1>3 DEF ListInv, ListTypes, RequestOK, PageOK
<1>5. ListTypes'
  BY <1>1, <1>4 DEF ListInv, ListTypes, RowsOK, RequestOK, PageOK
<1>6. RowsKnown' /\ PageOnly'
  BY <1>1 DEF ListInv, RowsKnown, PageOnly, OnPage, Live, Listed
<1>7. ListSound' /\ FirstSound'
  BY <1>1 DEF ListInv, ListSound, FirstSound, InSequence, OnPage, Sound, Follows, Listed
<1>8. MoreSound'
  <2>. SUFFICES ASSUME InSequence
                PROVE  /\ morePage.cursor = nextCursor /\ nextCursor # None
                       /\ Listed \intersect ToSet(page.items) = {}
                       /\ Sound(both, page.next)
    <3>1. \A n, next : Follows(n, next)' <=> Follows(n, next)
      BY <1>1 DEF Follows
    <3>2. Listed' = Listed /\ (InSequence' <=> InSequence)
      BY <1>1 DEF Listed, InSequence, OnPage
    <3>. QED BY <1>1, <1>4, <3>1, <3>2 DEF MoreSound, Sound
  <2>1. /\ morePage.cursor = nextCursor /\ nextCursor # None /\ Sound(Listed, nextCursor)
    BY <1>1 DEF ListInv, MoreSound, ListSound
  <2>2. Listed \intersect ToSet(page.items) = {}
    BY <1>3, <2>1 DEF Sound
  <2>3. \A n \in steady : n \in both \/ (page.next # None /\ Follows(n, page.next))
    BY <1>3, <2>1 DEF Sound, ListInv, RowsKnown
  <2>4. page.next # None => \A n \in both : ~ Follows(n, page.next)
    <3>1. Listed \subseteq Notebooks
      BY DEF ListInv, ListTypes, Listed, ToSet
    <3>. QED BY <1>3, <2>1, <3>1 DEF Sound
  <2>5. gone \intersect both = {}
    BY <1>3, <2>1 DEF Sound, ListInv, RowsKnown, Live
  <2>. QED BY <2>1, <2>2, <2>3, <2>4, <2>5 DEF Sound
<1>. QED BY <1>5, <1>6, <1>7, <1>8 DEF ListInv

\* A further page is appended.
LEMMA MoreArrivesKeepsList ==
  ASSUME ListInv, OnPage, MoreArrives, UNCHANGED <<deletion, creation>>
  PROVE  ListInv'
<1>. DEFINE page == morePage.page
<1>1. /\ morePage.phase = "read" /\ items' = AppendUnique(items, page.items)
      /\ nextCursor' = page.next /\ loadingMore' = FALSE /\ morePage' = NoRequest
      /\ UNCHANGED <<rows, loading, firstPage, steady, overlapped,
                     deleting, deleteDone, gone, opened>>
  BY DEF MoreArrives, deletion, creation
<1>2. /\ items \in Seq(Notebooks) /\ IsInjective(items) /\ page.items \in Seq(Notebooks)
      /\ IsInjective(page.items) /\ page.next \in Cursors \union {None}
  BY DEF ListInv, ListTypes, RequestOK, PageOK
<1>3. InSequence => Sound(Listed \union ToSet(page.items), page.next)
  BY <1>1 DEF ListInv, MoreSound
<1>. HIDE DEF page
<1>4. /\ items' \in Seq(Notebooks) /\ IsInjective(items')
      /\ Listed' = Listed \union ToSet(page.items)
  BY <1>1, <1>2, AppendUniqueFacts DEF Listed
<1>5. ListTypes'
  BY <1>1, <1>2, <1>4, EmptyList DEF ListInv, ListTypes, RowsOK, RequestOK, PageOK
<1>6. RowsKnown' /\ PageOnly'
  BY <1>1, <1>4 DEF ListInv, RowsKnown, PageOnly, OnPage, Live
<1>7. ListSound'
  BY <1>1, <1>3, <1>4 DEF ListSound, InSequence, OnPage, Sound, Follows
<1>8. FirstSound'
  BY <1>1 DEF ListInv, FirstSound, OnPage, Sound, Follows
<1>9. MoreSound'
  BY <1>1, EmptyList DEF MoreSound
<1>. QED BY <1>5, <1>6, <1>7, <1>8, <1>9 DEF ListInv

\* What does not concern the list.
LEMMA OthersKeepList ==
  ASSUME ListInv, UNCHANGED <<listVars, deletion, opened>>
  PROVE  ListInv'
BY DEF ListInv, ListTypes, RowsOK, RequestOK, PageOK, RowsKnown, PageOnly, ListSound,
       FirstSound, MoreSound, InSequence, OnPage, Sound, Follows, Listed, Live, listVars,
       hook, pages, deletion

\* Every step keeps it.  Of the operations it needs that what was made is a notebook.
LEMMA StepListInv ==
  ASSUME ListInv, OperationsOK, [Next]_vars
  PROVE  ListInv'
<1>1. CASE ClickRefresh \/ ClickLoadMore \/ ListAnswers
  BY <1>1, FirstPageKeepsList, FirstPageArrivesKeepsList, MoreKeepsList, ReadMoreKeepsList,
     MoreArrivesKeepsList DEF ListAnswers, ListStep, ClickLoadMore
<1>2. CASE \E n \in Notebooks : OpenItem(n) \/ OpenById(n) \/ ClickDelete(n)
  BY <1>2, LeavingKeepsList, DeletionKeepsList
<1>3. CASE HandleDelete \/ DeleteSucceeds \/ DeleteFails
  BY <1>3, WritesKeepList, DeleteSucceedsKeepsList, DeletionKeepsList
<1>4. CASE ClickCreate \/ SelectFile \/ FileRead \/ RetryUpload \/ PostFails
  BY <1>4, OthersKeepList DEF ClickCreate, SelectFile, FileRead, RetryUpload, PostFails
<1>5. CASE PostSucceeds \/ OthersWrite \/ \E k \in Keys : HandleCreate(k)
  BY <1>5, LeavingKeepsList, WritesKeepList
<1>6. CASE UNCHANGED vars
  BY <1>6, OthersKeepList DEF vars, creation
<1>. QED BY <1>1, <1>2, <1>3, <1>4, <1>5, <1>6 DEF Next

-----------------------------------------------------------------------------
(* The theorems. *)

\* The invariant of the list holds in every behaviour.
THEOREM ListInvariance == Spec => []ListInv
<1>1. IInv => OperationsOK
  BY DEF IInv
<1>. QED BY <1>1, InitListInv, StepListInv, Invariance, PTL DEF Spec

\* The hook's flags and requests agree, a POST belongs to the operation kept for
\* it, no notebook is listed twice and no page holds more than Limit.
THEOREM TypeCorrect == Spec => []TypeOK
<1>1. ASSUME ListInv, IInv PROVE TypeOK
  <2>1. ASSUME NEW r \in {firstPage, morePage}
        PROVE  r.phase \in {"none", "sent", "read"} /\ Len(r.page.items) <= Limit
    BY <1>1 DEF ListInv, ListTypes, RequestOK, PageOK
  <2>2. Listed \subseteq Notebooks /\ IsInjective(items)
    BY <1>1 DEF ListInv, ListTypes, Listed, ToSet
  <2>. QED BY <1>1, <2>1, <2>2 DEF TypeOK, ListInv, ListTypes, IInv, OperationsOK
<1>. QED BY <1>1, ListInvariance, Invariance, PTL

\* Whatever is created, saved and deleted between the pages of the list, a
\* notebook that has not changed is listed or still to come.
THEOREM ListIsComplete == Spec => []ListComplete
<1>1. ListInv => ListComplete
  BY DEF ListInv, ListTypes, ListSound, InSequence, Sound, ListComplete
<1>. QED BY <1>1, ListInvariance, PTL

\* No page that arrives late brings back a notebook whose deletion was confirmed.
THEOREM DeletedStays == Spec => []DeletedStaysOut
<1>1. ListInv => DeletedStaysOut
  BY EmptyList DEF ListInv, ListTypes, PageOnly, ListSound, InSequence, Sound, Listed,
                   DeletedStaysOut
<1>. QED BY <1>1, ListInvariance, PTL

\* Every notebook made for this page is the one the app shows, or its key is
\* held for the next click, or the user has given the operation up.
THEOREM CreatesAreRemembered == Spec => []NoForgottenCreate
<1>1. IInv => NoForgottenCreate
  BY DEF IInv, OperationsOK, KeysKept, Remembered, Settled, NoForgottenCreate
<1>. QED BY <1>1, Invariance, PTL
=============================================================================
