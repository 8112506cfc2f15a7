-------------------------- MODULE FeedScreenProofs --------------------------
(***************************************************************************)
(* What holds of FeedScreen for any Expenses of any owners, any page size  *)
(* and any Users and pills that take part; then of the cursor the pages    *)
(* are fetched by; and of ExpensesTab for any Expenses, days and amounts.  *)
(***************************************************************************)
EXTENDS FeedScreen, FeedCursor, FiniteSetTheorems, SequenceTheorems, TLAPS

FirstPage == request["load"]
NextPage == request["more"]
Requests ==
    [phase : {"none", "sent", "read", "answered"}, from : 0 .. Newest,
     invisible : SUBSET Rival, page : Seq(Item), next : 0 .. Newest]

\* The types in full; what is remembered as in sight is in sight.
ServerOK == public \subseteq Expense /\ blocked \subseteq Rival /\ liked \subseteq Expense
ScreenOK ==
    /\ status \in {"unfocused", "loading", "loaded", "error"}
    /\ items \in Seq(Item) /\ cursor \in 0 .. Newest
    /\ status # "loaded" => items = <<>> /\ cursor = 0
RequestsOK ==
    /\ request \in [Request -> Requests]
    /\ \A r \in Request : Len(request[r].page) <= Limit
    /\ Flying("load") => FirstPage.from = 0
    /\ Flying("more") => NextPage.from # 0
CallsOK ==
    /\ like \in [Expense -> {"none", "put", "delete", "done"}]
    /\ block \in [phase : {"none", "sent", "done"}, user : Rival \cup {Me}]
    /\ block.phase # "none" => block.user \in Rival
HistoryOK ==
    /\ steady \subseteq Sight /\ fresh \subseteq Sight
    /\ doubted \subseteq Expense /\ met \subseteq Expense /\ banned \subseteq blocked
    /\ status # "loaded" => steady = {}
Typed == ServerOK /\ ScreenOK /\ RequestsOK /\ CallsOK /\ HistoryOK

\* The first page in flight will show all it should, down to its cursor.
LoadCovers ==
    /\ FirstPage.phase = "read" => \A e \in fresh : Owner[e] \notin FirstPage.invisible
    /\ FirstPage.phase = "answered" =>
           \A e \in fresh : FirstPage.next = 0 \/ e >= FirstPage.next => e \in Ids(FirstPage.page)

\* So will the next page in flight, from the place where the list ends.
MoreCovers ==
    ~crossed =>
        /\ Flying("more") /\ status = "loaded" => NextPage.from = cursor
        /\ NextPage.phase = "read" => \A e \in steady : Owner[e] \notin NextPage.invisible
        /\ NextPage.phase = "answered" =>
               \A e \in steady : e < NextPage.from /\ (NextPage.next = 0 \/ e >= NextPage.next)
                                     => e \in Ids(NextPage.page)

ListCovers ==
    ~crossed => \A e \in steady : cursor = 0 \/ e >= cursor => e \in Ids(items)

NoTwins(list) == \A m, n \in DOMAIN list : list[m].id = list[n].id => m = n

\* A page under way knows the Blocks made here, and shows nobody it knows blocked.
PagesKnow ==
    \A r \in Request :
        /\ request[r].phase \in {"read", "answered"} => banned \subseteq request[r].invisible
        /\ request[r].phase = "answered" =>
               \A n \in DOMAIN request[r].page : Owner[request[r].page[n].id] \notin request[r].invisible

\* A pill is what the server holds, but for the call that will make it so.
PillOK(item, doubts, call, likes) ==
    item.id \notin doubts =>
        /\ call[item.id] \in {"none", "done"} => item.liked = (item.id \in likes)
        /\ call[item.id] = "put" => item.liked = TRUE /\ item.id \notin likes
        /\ call[item.id] = "delete" => item.liked = FALSE /\ item.id \in likes
ListPills == \A n \in DOMAIN items : PillOK(items[n], doubted, like, liked)

\* A page in flight is right about every Expense that no Like has met on the way.
PageOK(ask, exempt, call, likes) ==
    ask.phase # "none" =>
        /\ \A e \in Expense \ exempt : call[e] = "none"
        /\ ask.phase = "answered" =>
               \A n \in DOMAIN ask.page :
                   ask.page[n].id \notin exempt => ask.page[n].liked = (ask.page[n].id \in likes)
LoadPills == PageOK(FirstPage, met, like, liked)
MorePills == PageOK(NextPage, doubted, like, liked)
Pills == ListPills /\ LoadPills /\ MorePills

----------------------------------------------------------------------------
(* The order of a page and of what a filter leaves: by rank.               *)

Above(S, e) == {f \in S : f > e}

LEMMA SmallerAbove ==
    ASSUME NEW S \in SUBSET Nat, IsFiniteSet(S), NEW e \in Nat, NEW f \in S, e < f
    PROVE  /\ Cardinality(Above(S, f)) \in Nat /\ Cardinality(Above(S, e)) \in Nat
           /\ Cardinality(Above(S, f)) < Cardinality(Above(S, e))
  <1> DEFINE A == Above(S, e)
             B == Above(S, f)
  <1>1. A \in SUBSET S /\ IsFiniteSet(A)
    BY FS_Subset DEF Above
  <1>2. B \in SUBSET A /\ f \in A /\ f \notin B
    <2>1. f \in Nat
      OBVIOUS
    <2>2. ASSUME NEW x \in B PROVE x \in A
      <3>1. x \in S /\ x \in Nat /\ x > f
        BY DEF Above
      <3> QED
        BY <2>1, <3>1 DEF Above
    <2>3. f \in A /\ f \notin B
      BY <2>1 DEF Above
    <2> QED
      BY <2>2, <2>3
  <1> HIDE DEF A, B
  <1>3. IsFiniteSet(B) /\ Cardinality(B) <= Cardinality(A)
        /\ (Cardinality(A) = Cardinality(B) => A = B)
    BY <1>1, <1>2, FS_Subset
  <1>4. Cardinality(A) \in Nat /\ Cardinality(B) \in Nat
    BY <1>1, <1>3, FS_CardinalityType
  <1>5. Cardinality(A) # Cardinality(B)
    BY <1>2, <1>3
  <1>6. Cardinality(B) < Cardinality(A)
    BY <1>3, <1>4, <1>5
  <1> QED
    BY <1>4, <1>6 DEF A, B

\* Each rank below the size of a set is taken, once.
LEMMA Ranks ==
    ASSUME NEW S \in SUBSET Nat, IsFiniteSet(S)
    PROVE  /\ Cardinality(S) \in Nat
           /\ \A e \in S : Cardinality(Above(S, e)) \in 0 .. (Cardinality(S) - 1)
           /\ \A n \in 1 .. Cardinality(S) : \E e \in S : Cardinality(Above(S, e)) = n - 1
  <1>1. Cardinality(S) \in Nat
    BY FS_CardinalityType
  <1> DEFINE T == 0 .. (Cardinality(S) - 1)
             rank == [e \in S |-> Cardinality(Above(S, e))]
  <1>2. ASSUME NEW e \in S PROVE Cardinality(Above(S, e)) \in T
    <2>1. /\ IsFiniteSet(S \ {e}) /\ Cardinality(S \ {e}) = Cardinality(S) - 1
      BY FS_RemoveElement
    <2>2. Above(S, e) \in SUBSET (S \ {e})
      BY DEF Above
    <2>3. IsFiniteSet(Above(S, e)) /\ Cardinality(Above(S, e)) <= Cardinality(S \ {e})
      BY <2>1, <2>2, FS_Subset
    <2>4. Cardinality(Above(S, e)) \in Nat
      BY <2>3, FS_CardinalityType
    <2> QED
      BY <1>1, <2>1, <2>3, <2>4
  <1>3. IsFiniteSet(T) /\ Cardinality(T) = Cardinality(S)
    <2>1. PICK m \in Int : m = Cardinality(S) - 1
      BY <1>1
    <2>2. IsFiniteSet(0 .. m) /\ Cardinality(0 .. m) = IF 0 > m THEN 0 ELSE m - 0 + 1
      BY FS_Interval
    <2>3. Cardinality(0 .. m) = m + 1
      BY <1>1, <2>1, <2>2
    <2> QED
      BY <1>1, <2>1, <2>2, <2>3
  <1>4. rank \in [S -> T] /\ \A e \in S : rank[e] = Cardinality(Above(S, e))
    BY <1>2
  <1>5. \A e, f \in S : rank[e] = rank[f] => e = f
    <2> SUFFICES ASSUME NEW e \in S, NEW f \in S, e # f PROVE rank[e] # rank[f]
      OBVIOUS
    <2>1. e < f \/ f < e
      OBVIOUS
    <2>2. CASE e < f
      BY <1>4, <2>2, SmallerAbove
    <2>3. CASE f < e
      BY <1>4, <2>3, SmallerAbove
    <2> QED
      BY <2>1, <2>2, <2>3
  <1> HIDE DEF T, rank
  <1>6. rank \in Injection(S, T)
    BY <1>4, <1>5 DEF Injection, IsInjective
  <1>7. rank \in Surjection(S, T)
    BY <1>3, <1>6, FS_Injection
  <1>8. \A n \in T : \E e \in S : rank[e] = n
    BY <1>7 DEF Surjection
  <1>9. ASSUME NEW n \in 1 .. Cardinality(S)
        PROVE  \E e \in S : Cardinality(Above(S, e)) = n - 1
    <2>1. n - 1 \in T
      BY <1>1 DEF T
    <2> QED
      BY <1>4, <1>8, <2>1
  <1> QED
    BY <1>1, <1>2, <1>9 DEF T

LEMMA DescendingIs ==
    ASSUME NEW S \in SUBSET Nat, IsFiniteSet(S)
    PROVE  /\ Cardinality(S) \in Nat
           /\ Descending(S) \in [1 .. Cardinality(S) -> S]
           /\ Descending(S) \in Seq(S) /\ Len(Descending(S)) = Cardinality(S)
           /\ \A m, n \in 1 .. Cardinality(S) : m < n => Descending(S)[m] > Descending(S)[n]
           /\ \A e \in S : \E n \in 1 .. Cardinality(S) : Descending(S)[n] = e
  <1> DEFINE d == Descending(S)
             N == Cardinality(S)
  <1>1. N \in Nat
    BY Ranks
  <1>2. \A n \in 1 .. N : d[n] \in S /\ Cardinality(Above(S, d[n])) = n - 1
    BY Ranks DEF Descending, Above
  <1>3. d \in [1 .. N -> S]
    BY <1>2 DEF Descending
  <1>4. d \in Seq(S) /\ Len(d) = N
    BY <1>1, <1>3
  <1>5. ASSUME NEW m \in 1 .. N, NEW n \in 1 .. N, m < n
        PROVE  d[m] > d[n]
    <2> SUFFICES ASSUME ~ (d[m] > d[n]) PROVE FALSE
      OBVIOUS
    <2>1. d[m] \in Nat /\ d[n] \in Nat
      BY <1>2
    <2>2. d[m] = d[n] \/ d[m] < d[n]
      BY <2>1
    <2>3. Cardinality(Above(S, d[n])) <= Cardinality(Above(S, d[m]))
      <3>1. CASE d[m] = d[n]
        BY <1>1, <1>2, <3>1
      <3>2. CASE d[m] < d[n]
        BY <1>2, <2>1, <3>2, SmallerAbove
      <3> QED
        BY <2>2, <3>1, <3>2
    <2>4. n - 1 <= m - 1
      BY <1>2, <2>3
    <2> QED
      BY <1>1, <1>5, <2>4
  <1>6. ASSUME NEW e \in S
        PROVE  \E n \in 1 .. N : d[n] = e
    <2> DEFINE n == Cardinality(Above(S, e)) + 1
    <2>1. n \in 1 .. N /\ n - 1 = Cardinality(Above(S, e))
      BY <1>1, Ranks
    <2>2. d[n] \in S /\ Cardinality(Above(S, d[n])) = Cardinality(Above(S, e))
      BY <1>2, <2>1
    <2>3. d[n] \in Nat /\ e \in Nat
      BY <2>2
    <2> HIDE DEF n, d
    <2>4. ~ (d[n] < e) /\ ~ (e < d[n])
      <3>1. CASE d[n] < e
        BY <2>2, <2>3, <3>1, SmallerAbove
      <3>2. CASE e < d[n]
        BY <2>2, <2>3, <3>2, SmallerAbove
      <3> QED
        BY <3>1, <3>2
    <2> QED
      BY <2>1, <2>3, <2>4
  <1> HIDE DEF d
  <1> QED
    BY <1>1, <1>3, <1>4, <1>5, <1>6 DEF d

LEMMA LeastOf ==
    ASSUME NEW S \in SUBSET Nat, IsFiniteSet(S), S # {}
    PROVE  \E e \in S : \A f \in S : e <= f
  <1> DEFINE N == Cardinality(S)
  <1>1. N \in Nat /\ N # 0
    BY FS_CardinalityType, FS_EmptySet
  <1>2. PICK d \in [1 .. N -> S] :
           /\ \A m, n \in 1 .. N : m < n => d[m] > d[n]
           /\ \A e \in S : \E n \in 1 .. N : d[n] = e
    BY DescendingIs
  <1>3. d[N] \in S
    BY <1>1
  <1>4. ASSUME NEW f \in S PROVE d[N] <= f
    <2>1. PICK n \in 1 .. N : d[n] = f
      BY <1>2
    <2>2. n = N \/ d[n] > d[N]
      BY <1>1, <1>2
    <2>3. d[N] \in Nat /\ f \in Nat
      BY <1>3
    <2> QED
      BY <2>1, <2>2, <2>3
  <1> QED
    BY <1>3, <1>4

\* The items a filter leaves are the ones of its places, each once.
LEMMA PickedIs ==
    ASSUME NEW list \in Seq(Item), NEW places \in SUBSET (DOMAIN list)
    PROVE  /\ Picked(list, places) \in Seq(Item)
           /\ \A k \in places : \E n \in DOMAIN Picked(list, places) :
                 Picked(list, places)[n] = list[k]
           /\ \A m, n \in DOMAIN Picked(list, places) : \E j, k \in places :
                 /\ Picked(list, places)[m] = list[j] /\ Picked(list, places)[n] = list[k]
                 /\ j = k => m = n
  <1> DEFINE d == Descending(places)
             N == Cardinality(places)
             p == Picked(list, places)
  <1>1. Len(list) \in Nat /\ DOMAIN list = 1 .. Len(list) /\ \A k \in DOMAIN list : list[k] \in Item
    OBVIOUS
  <1>2. places \in SUBSET Nat /\ IsFiniteSet(places)
    <2>1. IsFiniteSet(1 .. Len(list))
      BY <1>1, FS_Interval
    <2> QED
      BY <1>1, <2>1, FS_Subset
  <1>3. /\ N \in Nat /\ d \in [1 .. N -> places] /\ Len(d) = N
        /\ \A m, n \in 1 .. N : m < n => d[m] > d[n]
        /\ \A e \in places : \E n \in 1 .. N : d[n] = e
    BY <1>2, DescendingIs
  <1>4. p = [n \in DOMAIN d |-> list[d[Len(d) + 1 - n]]]
    BY DEF Picked
  <1> HIDE DEF d, p, N
  <1>5. \A n \in 1 .. N : N + 1 - n \in 1 .. N /\ N + 1 - (N + 1 - n) = n
    BY <1>3
  <1>6. DOMAIN p = 1 .. N /\ \A n \in 1 .. N : p[n] = list[d[N + 1 - n]] /\ d[N + 1 - n] \in places
    BY <1>3, <1>4, <1>5
  <1>7. p \in Seq(Item)
    <2>1. p \in [1 .. N -> Item]
      BY <1>1, <1>3, <1>4, <1>6
    <2> QED
      BY <1>3, <2>1
  <1>8. ASSUME NEW k \in places PROVE \E n \in DOMAIN p : p[n] = list[k]
    <2>1. PICK n \in 1 .. N : d[n] = k
      BY <1>3
    <2> QED
      BY <1>5, <1>6, <2>1
  <1>9. ASSUME NEW m \in DOMAIN p, NEW n \in DOMAIN p
        PROVE  \E j, k \in places : p[m] = list[j] /\ p[n] = list[k] /\ (j = k => m = n)
    <2> DEFINE a == N + 1 - m
               b == N + 1 - n
    <2>1. a \in 1 .. N /\ b \in 1 .. N /\ (a = b => m = n)
      <3>1. m \in 1 .. N /\ n \in 1 .. N
        BY <1>6
      <3>2. \A i \in 1 .. N : N + 1 - i \in 1 .. N
        BY <1>5
      <3>3. m \in Int /\ n \in Int
        BY <3>1
      <3>4. N \in Int
        BY <1>3
      <3>5. a = b => m = n
        BY <3>3, <3>4
      <3> QED
        BY <3>1, <3>2, <3>5
    <2>2. d[a] = d[b] => a = b
      <3>1. a < b \/ b < a \/ a = b
        BY <2>1
      <3>2. d[a] \in Nat /\ d[b] \in Nat
        BY <1>2, <1>3, <2>1
      <3> HIDE DEF a, b
      <3> QED
        BY <1>3, <2>1, <3>1, <3>2
    <2> QED
      BY <1>6, <2>1, <2>2
  <1> QED
    BY <1>7, <1>8, <1>9 DEF p

\* dedupeFeedItems keeps every id, and each once.
LEMMA DedupeIs ==
    ASSUME NEW list \in Seq(Item)
    PROVE  /\ dedupeFeedItems(list) \in Seq(Item)
           /\ NoTwins(dedupeFeedItems(list))
           /\ Ids(dedupeFeedItems(list)) = Ids(list)
           /\ \A n \in DOMAIN dedupeFeedItems(list) : \E k \in DOMAIN list :
                 dedupeFeedItems(list)[n] = list[k]
  <1> DEFINE firsts == {n \in DOMAIN list : \A m \in 1 .. (n - 1) : list[m].id # list[n].id}
             d == dedupeFeedItems(list)
  <1>1. Len(list) \in Nat /\ DOMAIN list = 1 .. Len(list)
    OBVIOUS
  <1>2. d = Picked(list, firsts) /\ firsts \in SUBSET (DOMAIN list)
    BY DEF dedupeFeedItems
  <1>3. ASSUME NEW j \in firsts, NEW k \in firsts, list[j].id = list[k].id
        PROVE  j = k
    <2>1. j \in Nat \ {0} /\ k \in Nat \ {0}
      BY <1>1
    <2>2. ~ (j \in 1 .. (k - 1)) /\ ~ (k \in 1 .. (j - 1))
      BY <1>3
    <2> QED
      BY <2>1, <2>2
  <1>4. ASSUME NEW k \in DOMAIN list
        PROVE  \E j \in firsts : list[j].id = list[k].id
    <2> DEFINE same == {j \in 1 .. Len(list) : list[j].id = list[k].id}
    <2>1. same \in SUBSET Nat /\ IsFiniteSet(same) /\ same # {}
      <3>1. IsFiniteSet(1 .. Len(list)) /\ same \in SUBSET (1 .. Len(list)) /\ k \in same
        BY <1>1, FS_Interval
      <3>2. IsFiniteSet(same)
        BY <3>1, FS_Subset
      <3> QED
        BY <3>1, <3>2
    <2>2. PICK j \in same : \A m \in same : j <= m
      BY <2>1, LeastOf
    <2>3. j \in 1 .. Len(list) /\ list[j].id = list[k].id
      OBVIOUS
    <2>4. ASSUME NEW m \in 1 .. (j - 1) PROVE list[m].id # list[j].id
      <3>1. m \in 1 .. Len(list) /\ ~ (j <= m)
        BY <1>1, <2>3
      <3> QED
        BY <2>2, <2>3, <3>1
    <2> QED
      BY <1>1, <2>3, <2>4
  <1> HIDE DEF firsts, d
  <1>5. /\ d \in Seq(Item)
        /\ \A k \in firsts : \E n \in DOMAIN d : d[n] = list[k]
        /\ \A m, n \in DOMAIN d : \E j, k \in firsts :
              d[m] = list[j] /\ d[n] = list[k] /\ (j = k => m = n)
    BY <1>2, PickedIs
  <1>6. NoTwins(d)
    <2> SUFFICES ASSUME NEW m \in DOMAIN d, NEW n \in DOMAIN d, d[m].id = d[n].id
                 PROVE  m = n
      BY DEF NoTwins
    <2>1. PICK j, k \in firsts : d[m] = list[j] /\ d[n] = list[k] /\ (j = k => m = n)
      BY <1>5
    <2> QED
      BY <1>3, <2>1
  <1>7. \A n \in DOMAIN d : \E k \in DOMAIN list : d[n] = list[k]
    BY <1>2, <1>5
  <1>8. Ids(d) = Ids(list)
    <2>1. Ids(d) \subseteq Ids(list)
      BY <1>7 DEF Ids
    <2>2. ASSUME NEW k \in DOMAIN list PROVE list[k].id \in Ids(d)
      <3>1. PICK j \in firsts : list[j].id = list[k].id
        BY <1>4
      <3>2. PICK n \in DOMAIN d : d[n] = list[j]
        BY <1>5
      <3> QED
        BY <3>1, <3>2 DEF Ids
    <2> QED
      BY <2>1, <2>2 DEF Ids
  <1> QED
    BY <1>5, <1>6, <1>7, <1>8 DEF d

----------------------------------------------------------------------------
(* The page the server finds.                                              *)

LEMMA PageIs ==
    ASSUME NEW rows \in SUBSET Expense
    PROVE  /\ PageOf(rows) \in Seq(Expense) /\ Len(PageOf(rows)) <= Limit
           /\ \A n \in DOMAIN PageOf(rows) : PageOf(rows)[n] \in rows
           /\ NextCursor(rows, PageOf(rows)) \in 0 .. Newest
           /\ \A e \in rows :
                 NextCursor(rows, PageOf(rows)) = 0 \/ e >= NextCursor(rows, PageOf(rows)) =>
                     \E n \in DOMAIN PageOf(rows) : PageOf(rows)[n] = e
  <1> DEFINE top == {e \in rows : Cardinality(Above(rows, e)) < Limit}
             page == PageOf(rows)
             N == Cardinality(top)
             next == NextCursor(rows, page)
  <1>1. Expense \subseteq Nat \ {0} /\ IsFiniteSet(Expense)
    BY SizeAssumption, FS_Interval DEF Expense
  <1>2. rows \in SUBSET Nat /\ IsFiniteSet(rows) /\ Cardinality(rows) \in Nat
    BY <1>1, FS_Subset, FS_CardinalityType
  <1>3. top \in SUBSET rows /\ top \in SUBSET Nat /\ IsFiniteSet(top)
    BY <1>2, FS_Subset
  <1>4. page = Descending(top)
    BY DEF PageOf, Above
  <1>5. /\ N \in Nat /\ page \in [1 .. N -> top] /\ page \in Seq(top) /\ Len(page) = N
        /\ \A e \in top : \E n \in 1 .. N : page[n] = e
    BY <1>3, <1>4, DescendingIs
  <1>6. \A e \in rows : Cardinality(Above(rows, e)) \in 0 .. (Cardinality(rows) - 1)
    BY <1>2, Ranks
  <1>7. N <= Limit
    <2> SUFFICES ASSUME N > Limit PROVE FALSE
      BY <1>5, SizeAssumption
    <2>1. PICK e \in top : Cardinality(Above(top, e)) = N - 1
      <3>1. N \in 1 .. Cardinality(top)
        BY <1>5, SizeAssumption
      <3> QED
        BY <1>3, <3>1, Ranks
    <2>2. Above(top, e) \in SUBSET Above(rows, e) /\ Above(rows, e) \in SUBSET rows
      BY <1>3 DEF Above
    <2>3. IsFiniteSet(Above(rows, e)) /\ Cardinality(Above(top, e)) <= Cardinality(Above(rows, e))
      <3>1. IsFiniteSet(Above(rows, e))
        BY <1>2, <2>2, FS_Subset
      <3> QED
        BY <2>2, <3>1, FS_Subset
    <2>4. Cardinality(Above(rows, e)) < Limit /\ Cardinality(Above(rows, e)) \in Nat
      BY <1>6, <2>3, FS_CardinalityType
    <2> HIDE DEF top, N
    <2> QED
      BY <1>5, <2>1, <2>3, <2>4, SizeAssumption
  <1>8. ASSUME ~ (Cardinality(rows) > Limit)
        PROVE  /\ next \in 0 .. Newest
               /\ \A e \in rows : next = 0 \/ e >= next => \E n \in 1 .. N : page[n] = e
    <2>1. next = 0
      BY <1>8 DEF NextCursor
    <2>2. ASSUME NEW e \in rows PROVE e \in top
      <3>1. PICK n \in 0 .. (Cardinality(rows) - 1) : n = Cardinality(Above(rows, e))
        BY <1>6
      <3>2. n < Limit
        BY <1>2, <1>8, <3>1, SizeAssumption
      <3> QED
        BY <3>1, <3>2
    <2>3. \A e \in rows : \E n \in 1 .. N : page[n] = e
      BY <1>5, <2>2
    <2> HIDE DEF top, N, page, next
    <2> QED
      BY <2>1, <2>3, SizeAssumption
  <1>9. ASSUME Cardinality(rows) > Limit
        PROVE  /\ next \in 0 .. Newest
               /\ \A e \in rows : next = 0 \/ e >= next => \E n \in 1 .. N : page[n] = e
    <2>1. next = page[N]
      BY <1>5, <1>9 DEF NextCursor, Last
    <2>2. N # 0
      <3>1. 1 \in 1 .. Cardinality(rows)
        BY <1>2, <1>9, SizeAssumption
      <3>2. PICK e \in rows : Cardinality(Above(rows, e)) = 0
        BY <1>2, <3>1, Ranks
      <3>3. e \in top
        BY <3>2, SizeAssumption
      <3> QED
        BY <1>3, <3>3, FS_EmptySet
    <2>3. next \in top
      BY <1>5, <2>1, <2>2
    <2>4. next \in Expense /\ next # 0 /\ next \in Nat
      BY <1>1, <1>3, <2>3
    <2>5. ASSUME NEW e \in rows, e >= next
          PROVE  \E n \in 1 .. N : page[n] = e
      <3>1. e \in top
        <4>1. CASE e = next
          BY <2>3, <4>1
        <4>2. CASE e # next
          <5>1. next < e /\ e \in Nat
            BY <1>2, <2>4, <2>5, <4>2
          <5>2. Cardinality(Above(rows, e)) < Cardinality(Above(rows, next))
                /\ Cardinality(Above(rows, e)) \in Nat /\ Cardinality(Above(rows, next)) \in Nat
            BY <1>2, <2>4, <5>1, SmallerAbove
          <5>3. Cardinality(Above(rows, next)) < Limit
            BY <2>3
          <5> HIDE DEF next
          <5> QED
            BY <5>2, <5>3, SizeAssumption
        <4> QED
          BY <4>1, <4>2
      <3> QED
        BY <1>5, <3>1
    <2> HIDE DEF top, N, page, next
    <2> QED
      BY <2>4, <2>5, SizeAssumption DEF Expense
  <1>10. page \in Seq(Expense) /\ DOMAIN page = 1 .. N /\ \A n \in DOMAIN page : page[n] \in rows
    <2>1. DOMAIN page = 1 .. N /\ \A n \in DOMAIN page : page[n] \in rows /\ page[n] \in Expense
      BY <1>3, <1>5
    <2>2. page \in [1 .. N -> Expense]
      BY <1>5, <2>1
    <2> HIDE DEF page, N
    <2> QED
      BY <1>5, <2>1, <2>2
  <1> HIDE DEF top, N, page, next
  <1> QED
    BY <1>5, <1>7, <1>8, <1>9, <1>10 DEF page, next

LEMMA AnswerIs ==
    ASSUME Typed, NEW r \in Request, FindPage(r)
    PROVE  /\ request' \in [Request -> Requests]
           /\ \A q \in Request \ {r} : request'[q] = request[q]
           /\ request'[r].phase = "answered" /\ Len(request'[r].page) <= Limit
           /\ request'[r].from = request[r].from
           /\ request'[r].invisible = request[r].invisible
           /\ \A n \in DOMAIN request'[r].page :
                 /\ request'[r].page[n].id \in Rows(request[r].from, request[r].invisible)
                 /\ request'[r].page[n].liked = (request'[r].page[n].id \in liked)
           /\ \A e \in Rows(request[r].from, request[r].invisible) :
                 request'[r].next = 0 \/ e >= request'[r].next => e \in Ids(request'[r].page)
  <1> DEFINE rows == Rows(request[r].from, request[r].invisible)
             page == PageOf(rows)
             next == NextCursor(rows, page)
             shown == [n \in DOMAIN page |-> [id |-> page[n], liked |-> page[n] \in liked]]
             answer == Ask("answered", request[r].from, request[r].invisible, shown, next)
  <1>1. request' = [request EXCEPT ![r] = answer]
    BY DEF FindPage
  <1>2. request[r] \in Requests /\ request \in [Request -> Requests]
    BY DEF Typed, RequestsOK
  <1>3. rows \in SUBSET Expense
    BY DEF Typed, ServerOK, Rows
  <1>4. /\ page \in Seq(Expense) /\ Len(page) <= Limit /\ next \in 0 .. Newest
        /\ \A n \in DOMAIN page : page[n] \in rows
        /\ \A e \in rows : next = 0 \/ e >= next => \E n \in DOMAIN page : page[n] = e
    BY <1>3, PageIs
  <1> HIDE DEF rows, page, next
  <1>5. /\ DOMAIN shown = DOMAIN page /\ shown \in Seq(Item) /\ Len(shown) = Len(page)
        /\ \A n \in DOMAIN shown : shown[n].id = page[n] /\ shown[n].liked = (page[n] \in liked)
    <2>1. DOMAIN page = 1 .. Len(page) /\ Len(page) \in Nat
      BY <1>4
    <2>2. \A n \in 1 .. Len(page) : [id |-> page[n], liked |-> page[n] \in liked] \in Item
      BY <1>4 DEF Item
    <2>3. shown \in [1 .. Len(page) -> Item]
      BY <2>1, <2>2
    <2>4. shown \in Seq(Item) /\ Len(shown) = Len(page)
      BY <2>1, <2>3
    <2> QED
      BY <2>1, <2>4
  <1> HIDE DEF shown
  <1>6. /\ answer \in Requests /\ answer.phase = "answered" /\ answer.from = request[r].from
        /\ answer.invisible = request[r].invisible /\ answer.page = shown /\ answer.next = next
    BY <1>2, <1>4, <1>5 DEF Ask, Requests
  <1> HIDE DEF answer
  <1>7. /\ request' \in [Request -> Requests] /\ request'[r] = answer
        /\ \A q \in Request \ {r} : request'[q] = request[q]
    BY <1>1, <1>2, <1>6
  <1>8. \A e \in rows : next = 0 \/ e >= next => e \in Ids(shown)
    BY <1>4, <1>5 DEF Ids
  <1>9. \A n \in DOMAIN shown : shown[n].id \in rows /\ shown[n].liked = (shown[n].id \in liked)
    BY <1>4, <1>5
  <1> QED
    BY <1>4, <1>5, <1>6, <1>7, <1>8, <1>9 DEF rows

----------------------------------------------------------------------------
(* The types hold.                                                         *)

LEMMA ToggleIs ==
    ASSUME NEW list \in Seq(Item), NEW e \in Expense
    PROVE  /\ toggleLike(list, e) \in Seq(Item)
           /\ DOMAIN toggleLike(list, e) = DOMAIN list
           /\ list = <<>> => toggleLike(list, e) = <<>>
           /\ \A n \in DOMAIN list :
                 /\ toggleLike(list, e)[n].id = list[n].id
                 /\ toggleLike(list, e)[n].liked =
                        IF list[n].id = e THEN ~ list[n].liked ELSE list[n].liked
  <1> DEFINE t == toggleLike(list, e)
  <1>1. DOMAIN list = 1 .. Len(list) /\ Len(list) \in Nat
    OBVIOUS
  <1>2. ASSUME NEW n \in DOMAIN list
        PROVE  /\ t[n] \in Item /\ t[n].id = list[n].id
               /\ t[n].liked = IF list[n].id = e THEN ~ list[n].liked ELSE list[n].liked
    <2>0. list[n] \in Item
      OBVIOUS
    <2>1. list[n] \in Item /\ list[n].liked \in BOOLEAN
      BY <2>0 DEF Item
    <2>2. t[n] = IF list[n].id = e THEN [list[n] EXCEPT !.liked = ~@] ELSE list[n]
      BY DEF toggleLike
    <2>3. CASE list[n].id = e
      <3>1. t[n] = [list[n] EXCEPT !.liked = ~ list[n].liked]
        BY <2>2, <2>3
      <3> QED
        BY <2>1, <2>3, <3>1 DEF Item
    <2>4. CASE list[n].id # e
      BY <2>1, <2>2, <2>4
    <2> QED
      BY <2>3, <2>4
  <1>3. DOMAIN t = 1 .. Len(list) /\ t = [n \in 1 .. Len(list) |-> t[n]]
    BY <1>1 DEF toggleLike
  <1> HIDE DEF t
  <1>4. t \in [1 .. Len(list) -> Item]
    BY <1>1, <1>2, <1>3
  <1>5. t \in Seq(Item)
    BY <1>1, <1>4
  <1>6. list = <<>> => t = <<>>
    BY <1>1, <1>3, <1>5
  <1> QED
    BY <1>1, <1>2, <1>3, <1>5, <1>6 DEF t

LEMMA InitTyped == Init => Typed
  <1> SUFFICES ASSUME Init PROVE Typed
    OBVIOUS
  <1> USE SizeAssumption DEF Init
  <1>1. ServerOK /\ ScreenOK /\ CallsOK /\ HistoryOK
    BY DEF ServerOK, ScreenOK, CallsOK, HistoryOK, Sight
  <1>2. RequestsOK
    <2>1. NoRequest \in Requests /\ Len(NoRequest.page) = 0 /\ NoRequest.phase = "none"
      BY DEF NoRequest, Ask, Requests
    <2> QED
      BY <2>1 DEF RequestsOK, Flying, Request
  <1> QED
    BY <1>1, <1>2 DEF Typed

\* A part no step touches keeps its type; so does the history of what it keeps.
LEMMA Untouched ==
    ASSUME Typed
    PROVE  /\ UNCHANGED server => ServerOK'
           /\ UNCHANGED screen => ScreenOK'
           /\ UNCHANGED request => RequestsOK'
           /\ UNCHANGED <<like, block>> => CallsOK'
           /\ Keep /\ UNCHANGED status /\ blocked \subseteq blocked' => HistoryOK'
           /\ UNCHANGED <<history, server, status>> => HistoryOK'
  <1>1. UNCHANGED server => ServerOK'
    BY DEF Typed, ServerOK, server
  <1>2. UNCHANGED screen => ScreenOK'
    BY DEF Typed, ScreenOK, screen
  <1>3. UNCHANGED request => RequestsOK'
    BY DEF Typed, RequestsOK, Flying, FirstPage, NextPage
  <1>4. UNCHANGED <<like, block>> => CallsOK'
    BY DEF Typed, CallsOK
  <1>5. Keep /\ UNCHANGED status /\ blocked \subseteq blocked' => HistoryOK'
    BY DEF Typed, HistoryOK, Keep
  <1>6. UNCHANGED <<history, server, status>> => HistoryOK'
    BY DEF Typed, HistoryOK, Sight, history, server
  <1> QED
    BY <1>1, <1>2, <1>3, <1>4, <1>5, <1>6

\* A request that is sent, or is over.
LEMMA Placed ==
    ASSUME Typed, NEW r \in Request, NEW ask \in Requests, Len(ask.page) <= Limit,
           request' = [request EXCEPT ![r] = ask],
           ask.phase # "none" => (ask.from = 0) = (r = "load")
    PROVE  RequestsOK'
  <1>1. /\ request' \in [Request -> Requests] /\ request'[r] = ask
        /\ \A q \in Request \ {r} : request'[q] = request[q]
    BY DEF Typed, RequestsOK
  <1>2. \A q \in Request : Len(request'[q].page) <= Limit
    BY <1>1 DEF Typed, RequestsOK
  <1>3. (request'["load"].phase # "none" => request'["load"].from = 0)
    <2>1. CASE r = "load"
      BY <1>1, <2>1
    <2>2. CASE r # "load"
      BY <1>1, <2>2 DEF Typed, RequestsOK, Flying, FirstPage, Request
    <2> QED
      BY <2>1, <2>2
  <1>4. (request'["more"].phase # "none" => request'["more"].from # 0)
    <2>1. CASE r = "more"
      BY <1>1, <2>1
    <2>2. CASE r # "more"
      BY <1>1, <2>2 DEF Typed, RequestsOK, Flying, NextPage, Request
    <2> QED
      BY <2>1, <2>2
  <1> QED
    BY <1>1, <1>2, <1>3, <1>4 DEF RequestsOK, Flying, FirstPage, NextPage

LEMMA EmptyAsk ==
    ASSUME Typed, NEW phase \in {"none", "sent", "read"}, NEW from \in 0 .. Newest,
           NEW invisible \in SUBSET Rival
    PROVE  LET ask == Ask(phase, from, invisible, <<>>, 0)
           IN  /\ ask \in Requests /\ Len(ask.page) = 0 /\ Len(ask.page) <= Limit
               /\ ask.phase = phase /\ ask.from = from /\ ask.invisible = invisible
  BY SizeAssumption DEF Ask, Requests

\* The server, and the calls that only it and their callers see.
LEMMA CallsTyped ==
    ASSUME Typed,
           \/ \E e \in Expense : Publish(e) \/ Hide(e) \/ LikeDone(e) \/ LikeAnswered(e)
           \/ \E u \in Rival : ConfirmBlock(u) \/ BlockElsewhere(u) \/ Unblock(u)
           \/ BlockDone \/ BlockFails
    PROVE  Typed'
  <1> USE DEF server, screen, calls
  <1>1. CASE \/ \E e \in Expense : Publish(e) \/ Hide(e)
             \/ \E u \in Rival : BlockElsewhere(u)
    <2>1. /\ UNCHANGED screen /\ UNCHANGED request /\ UNCHANGED <<like, block>>
          /\ Keep /\ UNCHANGED status /\ blocked \subseteq blocked'
      BY <1>1 DEF Publish, Hide, BlockElsewhere
    <2>2. ServerOK'
      BY <1>1 DEF Typed, ServerOK, Publish, Hide, BlockElsewhere
    <2> QED
      BY <2>1, <2>2, Untouched DEF Typed
  <1>2. CASE \E u \in Rival : Unblock(u)
    <2>1. UNCHANGED screen /\ UNCHANGED request /\ UNCHANGED <<like, block>>
      BY <1>2 DEF Unblock
    <2>2. ServerOK'
      BY <1>2 DEF Typed, ServerOK, Unblock
    <2>3. HistoryOK'
      BY <1>2 DEF Typed, HistoryOK, Sight, Unblock
    <2> QED
      BY <2>1, <2>2, <2>3, Untouched DEF Typed
  <1>3. CASE \E e \in Expense : LikeDone(e)
    <2>1. UNCHANGED screen /\ UNCHANGED request /\ Keep /\ UNCHANGED status /\ UNCHANGED blocked
      BY <1>3 DEF LikeDone
    <2>2. ServerOK'
      BY <1>3 DEF Typed, ServerOK, LikeDone
    <2>3. CallsOK'
      BY <1>3 DEF Typed, CallsOK, LikeDone
    <2> QED
      BY <2>1, <2>2, <2>3, Untouched DEF Typed
  <1>4. CASE \E e \in Expense : LikeAnswered(e)
    <2>1. UNCHANGED server /\ UNCHANGED screen /\ UNCHANGED request /\ Keep
      BY <1>4 DEF LikeAnswered
    <2>2. CallsOK'
      BY <1>4 DEF Typed, CallsOK, LikeAnswered
    <2> QED
      BY <2>1, <2>2, Untouched DEF Typed
  <1>5. CASE (\E u \in Rival : ConfirmBlock(u)) \/ BlockFails
    <2>1. UNCHANGED server /\ UNCHANGED screen /\ UNCHANGED request /\ Keep
      BY <1>5 DEF ConfirmBlock, BlockFails
    <2>2. CallsOK'
      BY <1>5 DEF Typed, CallsOK, ConfirmBlock, BlockFails
    <2> QED
      BY <2>1, <2>2, Untouched DEF Typed
  <1>6. CASE BlockDone
    <2>1. /\ UNCHANGED screen /\ UNCHANGED request /\ Keep /\ UNCHANGED status
          /\ blocked \subseteq blocked'
      BY <1>6 DEF BlockDone
    <2>2. ServerOK' /\ CallsOK'
      BY <1>6 DEF Typed, ServerOK, CallsOK, BlockDone
    <2> QED
      BY <2>1, <2>2, Untouched DEF Typed
  <1> QED
    BY <1>1, <1>2, <1>3, <1>4, <1>5, <1>6

LEMMA PillsTyped ==
    ASSUME Typed, NEW e \in Expense, TapLike(e) \/ LikeRefused(e) \/ LikeLost(e)
    PROVE  Typed'
  <1>1. /\ UNCHANGED server /\ UNCHANGED request /\ UNCHANGED <<block, status, cursor>>
        /\ items' = toggleLike(items, e)
    BY DEF TapLike, LikeRefused, LikeLost, applyToggle
  <1>2. items \in Seq(Item)
    BY DEF Typed, ScreenOK
  <1>3. ScreenOK'
    BY <1>1, <1>2, ToggleIs DEF Typed, ScreenOK
  <1>4. CallsOK'
    <2>1. CASE TapLike(e)
      <3>1. PICK call \in {"put", "delete"} : like' = [like EXCEPT ![e] = call]
        BY <2>1 DEF TapLike
      <3> QED
        BY <1>1, <3>1 DEF Typed, CallsOK
    <2>2. CASE LikeRefused(e) \/ LikeLost(e)
      BY <1>1, <2>2 DEF Typed, CallsOK, LikeRefused, LikeLost
    <2> QED
      BY <2>1, <2>2
  <1>5. HistoryOK'
    <2>1. CASE LikeRefused(e)
      BY <1>1, <2>1, Untouched DEF LikeRefused, server
    <2>2. CASE TapLike(e) \/ LikeLost(e)
      BY <1>1, <2>2 DEF Typed, HistoryOK, Sight, TapLike, LikeLost, server
    <2> QED
      BY <2>1, <2>2
  <1> QED
    BY <1>1, <1>3, <1>4, <1>5, Untouched DEF Typed

LEMMA BlockAnsweredTyped == Typed /\ BlockAnswered => Typed'
  <1> SUFFICES ASSUME Typed, BlockAnswered PROVE Typed'
    OBVIOUS
  <1> DEFINE places == {n \in DOMAIN items : Owner[items[n].id] # block.user}
  <1>1. /\ UNCHANGED <<server, request, status, cursor, like>>
        /\ items' = Picked(items, places)
        /\ block' = [phase |-> "none", user |-> Me]
    BY DEF BlockAnswered
  <1>2. ScreenOK'
    <2>1. items \in Seq(Item) /\ places \in SUBSET (DOMAIN items)
      BY DEF Typed, ScreenOK
    <2>2. items' \in Seq(Item)
      BY <1>1, <2>1, PickedIs
    <2>3. items = <<>> => items' = <<>>
      <3>1. items = <<>> => places = {}
        OBVIOUS
      <3>2. ASSUME items' # <<>>, places = {} PROVE FALSE
        <4>1. 1 \in DOMAIN items'
          BY <2>2, <3>2
        <4> HIDE DEF places
        <4> QED
          BY <1>1, <2>1, <3>2, <4>1, PickedIs
      <3> QED
        BY <3>1, <3>2
    <2> QED
      BY <1>1, <2>2, <2>3 DEF Typed, ScreenOK
  <1>3. CallsOK'
    BY <1>1 DEF Typed, CallsOK
  <1>4. HistoryOK'
    BY DEF BlockAnswered, Typed, HistoryOK, Sight, server
  <1> QED
    BY <1>1, <1>2, <1>3, <1>4, Untouched DEF Typed

LEMMA PagesTyped ==
    ASSUME Typed, NEW r \in Request, ReadBlocks(r) \/ FindPage(r)
    PROVE  Typed'
  <1>1. /\ UNCHANGED server /\ UNCHANGED screen /\ UNCHANGED <<like, block>> /\ Keep
        /\ UNCHANGED status /\ UNCHANGED blocked
    BY DEF ReadBlocks, FindPage, server, screen
  <1>2. RequestsOK'
    <2>1. CASE ReadBlocks(r)
      <3>1. /\ request[r] \in Requests /\ request[r].from \in 0 .. Newest /\ Flying(r)
            /\ blocked \in SUBSET Rival
        BY <2>1 DEF Typed, RequestsOK, Requests, ServerOK, ReadBlocks, Flying
      <3> DEFINE ask == Ask("read", request[r].from, blocked, <<>>, 0)
      <3>2. request' = [request EXCEPT ![r] = ask]
        BY <2>1 DEF ReadBlocks
      <3>3. ask \in Requests /\ Len(ask.page) <= Limit /\ ask.from = request[r].from
        BY <3>1, EmptyAsk
      <3>4. (request[r].from = 0) = (r = "load")
        BY <3>1 DEF Typed, RequestsOK, Request, FirstPage, NextPage
      <3> HIDE DEF ask
      <3> QED
        BY <3>2, <3>3, <3>4, Placed
    <2>2. CASE FindPage(r)
      <3>1. /\ request' \in [Request -> Requests]
            /\ \A q \in Request \ {r} : request'[q] = request[q]
            /\ Len(request'[r].page) <= Limit /\ request'[r].from = request[r].from
        BY <2>2, AnswerIs
      <3>2. Flying(r)
        BY <2>2 DEF FindPage, Flying
      <3>3. \A q \in Request : Len(request'[q].page) <= Limit
        BY <3>1 DEF Typed, RequestsOK
      <3>4. \A q \in Request : Flying(q)' => Flying(q) /\ request'[q].from = request[q].from
        BY <3>1, <3>2 DEF Flying
      <3> QED
        BY <3>1, <3>3, <3>4 DEF Typed, RequestsOK, FirstPage, NextPage, Request
    <2> QED
      BY <2>1, <2>2
  <1> QED
    BY <1>1, <1>2, Untouched DEF Typed

LEMMA AsksTyped ==
    ASSUME Typed, Focus \/ Refresh \/ Retry \/ EndReached
    PROVE  Typed'
  <1> USE SizeAssumption
  <1>1. UNCHANGED server /\ UNCHANGED <<items, cursor>> /\ UNCHANGED <<like, block>>
    BY DEF Focus, Refresh, Retry, EndReached, StartLoad, screen
  <1>2. ScreenOK'
    BY <1>1 DEF Typed, ScreenOK, Focus, Refresh, Retry, EndReached, screen
  <1>3. RequestsOK'
    <2>0. ASSUME NEW r \in Request, NEW from \in 0 .. Newest, Send(r, from),
                 (from = 0) = (r = "load")
          PROVE  RequestsOK'
      <3> DEFINE ask == Ask("sent", from, {}, <<>>, 0)
      <3>1. ask \in Requests /\ Len(ask.page) <= Limit /\ ask.from = from
        BY EmptyAsk
      <3>2. request' = [request EXCEPT ![r] = ask]
        BY <2>0 DEF Send
      <3> HIDE DEF ask
      <3> QED
        BY <2>0, <3>1, <3>2, Placed
    <2>1. CASE StartLoad
      <3>1. "load" \in Request /\ 0 \in 0 .. Newest /\ Send("load", 0)
        BY <2>1 DEF StartLoad, Request
      <3> QED
        BY <2>0, <3>1
    <2>2. CASE EndReached
      <3>1. cursor \in 0 .. Newest /\ cursor # 0
        BY <2>2 DEF Typed, ScreenOK, EndReached
      <3> QED
        BY <2>0, <2>2, <3>1 DEF EndReached, Request
    <2> QED
      BY <2>1, <2>2 DEF Focus, Refresh, Retry
  <1>4. HistoryOK'
    <2>1. Pending \subseteq Expense /\ Sight' = Sight
      BY <1>1 DEF Pending, Sight, server
    <2> QED
      BY <1>1, <2>1 DEF Typed, HistoryOK, Focus, Refresh, Retry, EndReached, StartLoad, server,
                        screen
  <1> QED
    BY <1>1, <1>2, <1>3, <1>4, Untouched DEF Typed

\* A list extended by a page that answers.
LEMMA Extended ==
    ASSUME NEW list \in Seq(Item), NEW page \in Seq(Item)
    PROVE  /\ list \o page \in Seq(Item)
           /\ dedupeFeedItems(list \o page) \in Seq(Item)
           /\ NoTwins(dedupeFeedItems(list \o page))
           /\ Ids(dedupeFeedItems(list \o page)) = Ids(list) \cup Ids(page)
           /\ \A n \in DOMAIN dedupeFeedItems(list \o page) :
                 \/ \E k \in DOMAIN list : dedupeFeedItems(list \o page)[n] = list[k]
                 \/ \E k \in DOMAIN page : dedupeFeedItems(list \o page)[n] = page[k]
  <1> DEFINE both == list \o page
  <1>1. both \in Seq(Item)
    OBVIOUS
  <1>2. /\ DOMAIN both = 1 .. (Len(list) + Len(page))
        /\ DOMAIN list = 1 .. Len(list) /\ DOMAIN page = 1 .. Len(page)
        /\ Len(list) \in Nat /\ Len(page) \in Nat
    OBVIOUS
  <1>3. ASSUME NEW k \in DOMAIN list PROVE k \in DOMAIN both /\ both[k] = list[k]
    OBVIOUS
  <1>4. ASSUME NEW k \in DOMAIN page
        PROVE  Len(list) + k \in DOMAIN both /\ both[Len(list) + k] = page[k]
    OBVIOUS
  <1>5. ASSUME NEW k \in DOMAIN both
        PROVE  \/ k \in DOMAIN list /\ both[k] = list[k]
               \/ k - Len(list) \in DOMAIN page /\ both[k] = page[k - Len(list)]
    OBVIOUS
  <1> HIDE DEF both
  <1>6. Ids(both) = Ids(list) \cup Ids(page)
    <2>1. Ids(both) \subseteq Ids(list) \cup Ids(page)
      BY <1>5 DEF Ids
    <2>2. Ids(list) \subseteq Ids(both)
      BY <1>3 DEF Ids
    <2>3. Ids(page) \subseteq Ids(both)
      BY <1>4 DEF Ids
    <2> QED
      BY <2>1, <2>2, <2>3
  <1>7. ASSUME NEW n \in DOMAIN dedupeFeedItems(both)
        PROVE  \/ \E k \in DOMAIN list : dedupeFeedItems(both)[n] = list[k]
               \/ \E k \in DOMAIN page : dedupeFeedItems(both)[n] = page[k]
    <2>1. PICK k \in DOMAIN both : dedupeFeedItems(both)[n] = both[k]
      BY <1>1, DedupeIs
    <2> QED
      BY <1>5, <2>1
  <1>8. dedupeFeedItems(both) \in Seq(Item) /\ NoTwins(dedupeFeedItems(both))
        /\ Ids(dedupeFeedItems(both)) = Ids(list) \cup Ids(page)
    BY <1>1, <1>6, DedupeIs
  <1> QED
    BY <1>1, <1>7, <1>8 DEF both

LEMMA AnswersTyped ==
    ASSUME Typed, LoadArrives \/ LoadFails \/ MoreArrives \/ MoreFails
    PROVE  Typed'
  <1> USE SizeAssumption
  <1>1. UNCHANGED server /\ UNCHANGED <<like, block>> /\ Sight' = Sight
    BY DEF LoadArrives, LoadFails, MoreArrives, MoreFails, server, Sight
  <1>2. RequestsOK'
    <2>1. NoRequest \in Requests /\ Len(NoRequest.page) <= Limit /\ NoRequest.phase = "none"
      BY EmptyAsk DEF NoRequest
    <2>2. PICK r \in Request : request' = [request EXCEPT ![r] = NoRequest]
      BY DEF LoadArrives, LoadFails, MoreArrives, MoreFails, Answer, Request
    <2> QED
      BY <2>1, <2>2, Placed
  <1>3. /\ items \in Seq(Item) /\ \A r \in Request : request[r].page \in Seq(Item)
        /\ \A r \in Request : request[r].next \in 0 .. Newest
    BY DEF Typed, ScreenOK, RequestsOK, Requests
  <1>4. ScreenOK'
    <2>1. CASE LoadArrives
      BY <1>3, <2>1, DedupeIs DEF ScreenOK, LoadArrives, Request
    <2>2. CASE LoadFails
      BY <2>2 DEF ScreenOK, LoadFails
    <2>3. CASE MoreArrives
      BY <1>3, <2>3, Extended DEF Typed, ScreenOK, MoreArrives, Request
    <2>4. CASE MoreFails
      BY <2>4, Untouched DEF MoreFails
    <2> QED
      BY <2>1, <2>2, <2>3, <2>4
  <1>5. HistoryOK'
    <2>1. CASE LoadArrives \/ LoadFails
      BY <1>1, <2>1 DEF Typed, HistoryOK, LoadArrives, LoadFails, server
    <2>2. CASE MoreArrives \/ MoreFails
      BY <1>1, <2>2 DEF Typed, HistoryOK, MoreArrives, MoreFails, server, screen, history
    <2> QED
      BY <2>1, <2>2
  <1> QED
    BY <1>1, <1>2, <1>4, <1>5, Untouched DEF Typed

LEMMA StepTyped == Typed /\ [Next]_vars => Typed'
  <1> SUFFICES ASSUME Typed, [Next]_vars PROVE Typed'
    OBVIOUS
  <1>1. CASE UNCHANGED vars
    BY <1>1, Untouched DEF vars, Typed, server, screen, calls, history
  <1>2. CASE Focus \/ Refresh \/ Retry \/ EndReached
    BY <1>2, AsksTyped
  <1>3. CASE \E r \in Request : ReadBlocks(r) \/ FindPage(r)
    BY <1>3, PagesTyped
  <1>4. CASE LoadArrives \/ LoadFails \/ MoreArrives \/ MoreFails
    BY <1>4, AnswersTyped
  <1>5. CASE \E e \in Expense : TapLike(e) \/ LikeRefused(e) \/ LikeLost(e)
    BY <1>5, PillsTyped
  <1>6. CASE \E e \in Expense : LikeDone(e) \/ LikeAnswered(e) \/ Publish(e) \/ Hide(e)
    BY <1>6, CallsTyped
  <1>7. CASE \/ \E u \in Rival : ConfirmBlock(u) \/ BlockElsewhere(u) \/ Unblock(u)
             \/ BlockDone \/ BlockFails
    BY <1>7, CallsTyped
  <1>8. CASE BlockAnswered
    BY <1>8, BlockAnsweredTyped
  <1> QED
    BY <1>1, <1>2, <1>3, <1>4, <1>5, <1>6, <1>7, <1>8 DEF Next

\* Every variable keeps its type: there is a list only when one is loaded, and no
\* next page is asked for without a cursor (feed.tsx).
THEOREM FeedTyped == Spec => []TypeOK
  <1>1. Typed => TypeOK
    BY DEF Typed, TypeOK, ServerOK, ScreenOK, RequestsOK, Requests, CallsOK, HistoryOK, Sight,
           NextPage
  <1> QED
    BY <1>1, InitTyped, StepTyped, PTL DEF Spec

----------------------------------------------------------------------------
(* The list has nothing twice, and everything down to its cursor.          *)

Covers == LoadCovers /\ MoreCovers /\ ListCovers
Once == NoTwins(items) /\ Covers

\* A list whose ids stay distinct keeps what it covers, if nothing in sight leaves it.
LEMMA CoversKept ==
    ASSUME Covers, UNCHANGED <<request, status, cursor, crossed>>,
           steady' \subseteq steady, fresh' \subseteq fresh,
           steady' \cap Ids(items) \subseteq Ids(items')
    PROVE  Covers'
  <1>1. LoadCovers'
    BY DEF Covers, LoadCovers, FirstPage
  <1>2. MoreCovers'
    BY DEF Covers, MoreCovers, NextPage, Flying
  <1>3. ListCovers'
    <2> SUFFICES ASSUME ~ crossed, NEW e \in steady', cursor = 0 \/ e >= cursor
                 PROVE  e \in Ids(items')
      BY DEF ListCovers
    <2> QED
      BY DEF Covers, ListCovers
  <1> QED
    BY <1>1, <1>2, <1>3 DEF Covers

\* A filter and a flip of a pill leave no id twice.
LEMMA PickedOnce ==
    ASSUME NEW list \in Seq(Item), NEW places \in SUBSET (DOMAIN list), NoTwins(list)
    PROVE  NoTwins(Picked(list, places))
  <1> SUFFICES ASSUME NEW m \in DOMAIN Picked(list, places), NEW n \in DOMAIN Picked(list, places),
                      Picked(list, places)[m].id = Picked(list, places)[n].id
               PROVE  m = n
    BY DEF NoTwins
  <1>1. PICK j, k \in places : /\ Picked(list, places)[m] = list[j]
                               /\ Picked(list, places)[n] = list[k]
                               /\ j = k => m = n
    BY PickedIs
  <1> QED
    BY <1>1 DEF NoTwins

LEMMA ToggledOnce ==
    ASSUME NEW list \in Seq(Item), NEW e \in Expense
    PROVE  /\ Ids(toggleLike(list, e)) = Ids(list)
           /\ NoTwins(list) => NoTwins(toggleLike(list, e))
  <1> DEFINE t == toggleLike(list, e)
  <1>1. DOMAIN t = DOMAIN list /\ \A n \in DOMAIN list : t[n].id = list[n].id
    BY ToggleIs
  <1> HIDE DEF t
  <1>2. Ids(t) = Ids(list)
    BY <1>1 DEF Ids
  <1>3. NoTwins(list) => NoTwins(t)
    BY <1>1 DEF NoTwins
  <1> QED
    BY <1>2, <1>3 DEF t

LEMMA PagesCover ==
    ASSUME Typed, Covers, NEW r \in Request, ReadBlocks(r) \/ FindPage(r)
    PROVE  Covers'
  <1>1. /\ UNCHANGED <<items, status, cursor, crossed>> /\ Sight' = Sight
        /\ steady' \subseteq steady /\ fresh' \subseteq fresh
        /\ steady' \subseteq Sight /\ fresh' \subseteq Sight
    BY DEF Typed, HistoryOK, ReadBlocks, FindPage, Keep, screen, server, Sight
  <1>2. ListCovers'
    BY <1>1 DEF Covers, ListCovers, Ids
  <1>3. /\ \A q \in Request \ {r} : request'[q] = request[q]
        /\ request'[r].from = request[r].from /\ Flying(r)
    <2>1. CASE ReadBlocks(r)
      BY <2>1 DEF ReadBlocks, Typed, RequestsOK, Ask, Flying
    <2>2. CASE FindPage(r)
      BY <2>2, AnswerIs DEF FindPage, Flying
    <2> QED
      BY <2>1, <2>2
  <1>4. ASSUME ReadBlocks(r)
        PROVE  request'[r].phase = "read" /\ \A e \in Sight : Owner[e] \notin request'[r].invisible
    BY <1>4 DEF ReadBlocks, Typed, RequestsOK, Ask, Sight
  <1>5. LoadCovers'
    <2>1. CASE r = "load" /\ ReadBlocks(r)
      BY <1>1, <1>4, <2>1 DEF LoadCovers, FirstPage
    <2>2. CASE r = "load" /\ FindPage(r)
      <3>1. FirstPage.phase = "read" /\ FirstPage.from = 0 /\ FirstPage'.phase = "answered"
        BY <1>3, <2>2, AnswerIs DEF FindPage, Typed, RequestsOK, FirstPage
      <3>2. \A e \in fresh' : e \in Rows(FirstPage.from, FirstPage.invisible)
        BY <1>1, <3>1 DEF Covers, LoadCovers, Rows, Sight
      <3>3. \A e \in Rows(FirstPage.from, FirstPage.invisible) :
               FirstPage'.next = 0 \/ e >= FirstPage'.next => e \in Ids(FirstPage'.page)
        BY <2>2, AnswerIs DEF FirstPage
      <3> QED
        BY <3>1, <3>2, <3>3 DEF LoadCovers, Ids
    <2>3. CASE r # "load"
      <3>1. FirstPage' = FirstPage
        BY <1>3, <2>3 DEF FirstPage, Request
      <3> QED
        BY <1>1, <3>1 DEF Covers, LoadCovers, Ids
    <2> QED
      BY <2>1, <2>2, <2>3
  <1>6. MoreCovers'
    <2> SUFFICES ASSUME ~ crossed
                 PROVE  /\ Flying("more")' /\ status = "loaded" => NextPage'.from = cursor
                        /\ NextPage'.phase = "read" =>
                               \A e \in steady' : Owner[e] \notin NextPage'.invisible
                        /\ NextPage'.phase = "answered" =>
                               \A e \in steady' :
                                   e < NextPage'.from /\ (NextPage'.next = 0 \/ e >= NextPage'.next)
                                       => e \in Ids(NextPage'.page)
      BY <1>1 DEF MoreCovers, Ids
    <2>0. \A e \in steady' : NextPage.phase = "read" => Owner[e] \notin NextPage.invisible
      BY <1>1 DEF Covers, MoreCovers
    <2>1. CASE r = "more"
      <3>1. NextPage'.from = NextPage.from /\ Flying("more")
            /\ (status = "loaded" => NextPage'.from = cursor)
        BY <1>1, <1>3, <2>1 DEF Covers, MoreCovers, NextPage
      <3>2. CASE ReadBlocks(r)
        BY <1>1, <1>4, <2>1, <3>1, <3>2 DEF NextPage
      <3>3. CASE FindPage(r)
        <4>1. NextPage.phase = "read" /\ NextPage'.phase = "answered"
          BY <2>1, <3>3, AnswerIs DEF FindPage, NextPage
        <4>2. \A e \in steady' :
                 e < NextPage.from => e \in Rows(NextPage.from, NextPage.invisible)
          BY <1>1, <2>0, <4>1 DEF Rows, Sight
        <4>3. \A e \in Rows(NextPage.from, NextPage.invisible) :
                 NextPage'.next = 0 \/ e >= NextPage'.next => e \in Ids(NextPage'.page)
          BY <2>1, <3>3, AnswerIs DEF NextPage
        <4> QED
          BY <3>1, <4>1, <4>2, <4>3
      <3> QED
        BY <3>2, <3>3
    <2>2. CASE r # "more"
      <3>1. NextPage' = NextPage /\ Flying("more")' = Flying("more")
        BY <1>3, <2>2 DEF NextPage, Request, Flying
      <3> QED
        BY <1>1, <3>1 DEF Covers, MoreCovers
    <2> QED
      BY <2>1, <2>2
  <1> QED
    BY <1>2, <1>5, <1>6 DEF Covers

LEMMA AsksCover ==
    ASSUME Typed, Covers, Focus \/ Refresh \/ Retry \/ EndReached
    PROVE  Covers'
  <1>1. CASE EndReached
    <2>1. /\ UNCHANGED <<items, status, cursor, steady, fresh, crossed>>
          /\ FirstPage' = FirstPage /\ NextPage'.phase = "sent" /\ NextPage'.from = cursor
      BY <1>1 DEF EndReached, Send, Ask, screen, FirstPage, NextPage, Typed, RequestsOK, Request
    <2> QED
      BY <2>1 DEF Covers, LoadCovers, MoreCovers, ListCovers, Ids
  <1>2. CASE Focus \/ Refresh \/ Retry
    <2>1. /\ UNCHANGED <<items, cursor, steady, crossed>>
          /\ status' = "loaded" => status = "loaded"
          /\ NextPage' = NextPage /\ FirstPage'.phase = "sent"
      BY <1>2 DEF Focus, Refresh, Retry, StartLoad, Send, Ask, FirstPage, NextPage, Typed,
                  RequestsOK, Request
    <2> QED
      BY <2>1 DEF Covers, LoadCovers, MoreCovers, ListCovers, Ids, Flying, NextPage
  <1> QED
    BY <1>1, <1>2

LEMMA AnswersCover ==
    ASSUME Typed, Covers, LoadArrives \/ LoadFails \/ MoreArrives \/ MoreFails
    PROVE  Covers'
  <1> USE DEF Covers
  <1>1. /\ items \in Seq(Item) /\ FirstPage.page \in Seq(Item) /\ NextPage.page \in Seq(Item)
        /\ "load" \in Request /\ "more" \in Request /\ NoRequest.phase = "none"
        /\ cursor \in Nat /\ steady' \subseteq Nat /\ steady \subseteq Nat /\ NextPage.next \in Nat
    <2>1. steady \subseteq Nat /\ fresh \subseteq Nat
      BY DEF Typed, HistoryOK, ServerOK, Sight, Expense
    <2>2. steady' \subseteq Nat
      BY <2>1 DEF LoadArrives, LoadFails, MoreArrives, MoreFails, history
    <2> QED
      BY <2>1, <2>2, SizeAssumption DEF Typed, ScreenOK, RequestsOK, Requests, Request, FirstPage,
                                      NextPage, NoRequest, Ask
  <1>2. CASE LoadArrives
    <2>1. /\ FirstPage'.phase = "none" /\ NextPage' = NextPage /\ FirstPage.phase = "answered"
          /\ crossed' = Flying("more") /\ steady' = fresh /\ cursor' = FirstPage.next
          /\ items' = dedupeFeedItems(FirstPage.page)
      BY <1>1, <1>2 DEF LoadArrives, Answer, FirstPage, NextPage, Typed, RequestsOK, Request
    <2>2. Ids(items') = Ids(FirstPage.page)
      BY <1>1, <2>1, DedupeIs
    <2>3. LoadCovers'
      BY <2>1 DEF LoadCovers
    <2>4. MoreCovers'
      BY <2>1 DEF MoreCovers, Flying, NextPage
    <2>5. ListCovers'
      BY <2>1, <2>2 DEF ListCovers, LoadCovers, Ids
    <2> QED
      BY <2>3, <2>4, <2>5
  <1>3. CASE LoadFails
    <2>1. /\ FirstPage'.phase = "none" /\ NextPage' = NextPage
          /\ status' = "error" /\ steady' = {} /\ crossed' = crossed
      BY <1>1, <1>3 DEF LoadFails, Answer, FirstPage, NextPage, Typed, RequestsOK, Request
    <2> QED
      BY <2>1 DEF LoadCovers, MoreCovers, ListCovers
  <1>4. CASE MoreArrives
    <2>1. /\ FirstPage' = FirstPage /\ NextPage'.phase = "none" /\ NextPage.phase = "answered"
          /\ UNCHANGED <<status, steady, fresh, crossed>>
      BY <1>1, <1>4 DEF MoreArrives, Answer, FirstPage, NextPage, Typed, RequestsOK, Request,
                        history
    <2>2. LoadCovers'
      BY <2>1 DEF LoadCovers, Ids
    <2>3. MoreCovers'
      BY <2>1 DEF MoreCovers, Flying, NextPage
    <2>4. ListCovers'
      <3>1. CASE status # "loaded"
        BY <2>1, <3>1 DEF ListCovers, Typed, HistoryOK
      <3>2. CASE status = "loaded"
        <4>1. /\ cursor' = NextPage.next
              /\ items' = dedupeFeedItems(items \o NextPage.page)
          BY <1>4, <3>2 DEF MoreArrives, NextPage
        <4>2. Ids(items') = Ids(items) \cup Ids(NextPage.page)
          BY <1>1, <4>1, Extended
        <4>3. ASSUME ~ crossed, NEW e \in steady, NextPage.next = 0 \/ e >= NextPage.next
              PROVE  e \in Ids(items')
          <5>1. NextPage.from = cursor
            BY <2>1, <3>2, <4>3 DEF MoreCovers, Flying, NextPage
          <5>2. e >= cursor \/ e < cursor
            BY <1>1
          <5>3. CASE e >= cursor
            BY <4>2, <4>3, <5>3 DEF ListCovers
          <5>4. CASE e < cursor
            BY <2>1, <4>2, <4>3, <5>1, <5>4 DEF MoreCovers
          <5> QED
            BY <5>2, <5>3, <5>4
        <4> QED
          BY <2>1, <4>1, <4>3 DEF ListCovers
      <3> QED
        BY <3>1, <3>2
    <2> QED
      BY <2>2, <2>3, <2>4
  <1>5. CASE MoreFails
    <2>1. /\ FirstPage' = FirstPage /\ NextPage'.phase = "none"
          /\ UNCHANGED <<items, status, cursor, steady, fresh, crossed>>
      BY <1>1, <1>5 DEF MoreFails, Answer, FirstPage, NextPage, Typed, RequestsOK, Request,
                        history, screen
    <2> QED
      BY <2>1 DEF LoadCovers, MoreCovers, ListCovers, Ids, Flying, NextPage
  <1> QED
    BY <1>2, <1>3, <1>4, <1>5

LEMMA StepOnce == Typed /\ Once /\ [Next]_vars => Once'
  <1> SUFFICES ASSUME Typed, Once, [Next]_vars PROVE Once'
    OBVIOUS
  <1> USE DEF Once
  <1>0. items \in Seq(Item) /\ \A r \in Request : request[r].page \in Seq(Item)
    BY DEF Typed, ScreenOK, RequestsOK, Requests
  <1>1. CASE \/ \E e \in Expense : LikeDone(e) \/ LikeAnswered(e) \/ Publish(e) \/ Hide(e)
             \/ \E u \in Rival : ConfirmBlock(u) \/ BlockElsewhere(u) \/ Unblock(u)
             \/ BlockDone \/ BlockFails \/ UNCHANGED vars
    <2>1. /\ UNCHANGED <<items, status, cursor, request, crossed>>
          /\ steady' \subseteq steady /\ fresh' \subseteq fresh
      BY <1>1 DEF LikeDone, LikeAnswered, Publish, Hide, ConfirmBlock, BlockElsewhere, Unblock,
                  BlockDone, BlockFails, Keep, vars, screen, calls, history
    <2>2. steady' \cap Ids(items) \subseteq Ids(items')
      BY <2>1
    <2> QED
      BY <2>1, <2>2, CoversKept DEF NoTwins
  <1>2. CASE \E e \in Expense : TapLike(e) \/ LikeRefused(e) \/ LikeLost(e)
    <2>1. PICK e \in Expense : TapLike(e) \/ LikeRefused(e) \/ LikeLost(e)
      BY <1>2
    <2>2. /\ UNCHANGED <<status, cursor, request, crossed>>
          /\ steady' \subseteq steady /\ fresh' \subseteq fresh
          /\ items' = toggleLike(items, e)
      BY <2>1 DEF TapLike, LikeRefused, LikeLost, applyToggle, Keep
    <2>3. Ids(items') = Ids(items) /\ NoTwins(items')
      BY <1>0, <2>2, ToggledOnce
    <2> QED
      BY <2>2, <2>3, CoversKept DEF NoTwins
  <1>3. CASE BlockAnswered
    <2> DEFINE places == {n \in DOMAIN items : Owner[items[n].id] # block.user}
    <2>1. /\ UNCHANGED <<status, cursor, request, crossed, fresh>>
          /\ steady' = {e \in steady : Owner[e] # block.user}
          /\ items' = Picked(items, places) /\ places \in SUBSET (DOMAIN items)
      BY <1>3 DEF BlockAnswered
    <2>2. NoTwins(items')
      BY <1>0, <2>1, PickedOnce
    <2>3. ASSUME NEW e \in steady', e \in Ids(items) PROVE e \in Ids(items')
      <3>1. PICK k \in DOMAIN items : items[k].id = e
        BY <2>3 DEF Ids
      <3>2. k \in places
        BY <2>1, <3>1
      <3> HIDE DEF places
      <3>3. PICK n \in DOMAIN items' : items'[n] = items[k]
        BY <1>0, <2>1, <3>2, PickedIs
      <3> QED
        BY <3>1, <3>3 DEF Ids
    <2> QED
      BY <2>1, <2>2, <2>3, CoversKept DEF NoTwins
  <1>4. CASE Focus \/ Refresh \/ Retry \/ EndReached
    <2>1. items' = items
      BY <1>4 DEF Focus, Refresh, Retry, EndReached, StartLoad, screen
    <2> QED
      BY <1>4, <2>1, AsksCover DEF NoTwins
  <1>5. CASE \E r \in Request : ReadBlocks(r) \/ FindPage(r)
    <2>1. items' = items
      BY <1>5 DEF ReadBlocks, FindPage, screen
    <2> QED
      BY <1>5, <2>1, PagesCover DEF NoTwins
  <1>6. CASE LoadArrives \/ LoadFails \/ MoreArrives \/ MoreFails
    <2>1. NoTwins(items')
      <3>1. CASE LoadArrives
        BY <1>0, <3>1, DedupeIs DEF LoadArrives, Request
      <3>2. CASE LoadFails
        BY <3>2 DEF LoadFails, NoTwins
      <3>3. CASE MoreArrives
        BY <1>0, <3>3, Extended DEF MoreArrives, Request
      <3>4. CASE MoreFails
        BY <3>4 DEF MoreFails, screen
      <3> QED
        BY <1>6, <3>1, <3>2, <3>3, <3>4
    <2> QED
      BY <1>6, <2>1, AnswersCover DEF NoTwins
  <1> QED
    BY <1>1, <1>2, <1>3, <1>4, <1>5, <1>6 DEF Next

\* However pages, refreshes and the Expenses behind them cross, the list has no id
\* twice (lib/feed.ts:8-11), and unless a refresh met a next page it has every
\* Expense in sight ever since it was asked for, down to the scroll (feed.service.ts).
THEOREM ListedOnce == Spec => []EachOnce
  <1>1. Init => Once
    BY DEF Init, Once, NoTwins, Covers, LoadCovers, MoreCovers, ListCovers, Flying, FirstPage,
           NextPage, Request, NoRequest, Ask
  <1>2. Once => EachOnce
    BY DEF Once, Covers, ListCovers, NoTwins, EachOnce
  <1> QED
    BY <1>1, <1>2, InitTyped, StepTyped, StepOnce, PTL DEF Spec

----------------------------------------------------------------------------
(* Who is blocked from the Feed stays off it.                              *)

Gone == BlockedStayGone /\ PagesKnow

\* What a step leaves on the list and in the requests has nobody more to hide.
LEMMA GoneKept ==
    ASSUME Gone, UNCHANGED request, banned' \subseteq banned, Ids(items') \subseteq Ids(items)
    PROVE  Gone'
  <1>1. BlockedStayGone'
    <2> SUFFICES ASSUME NEW n \in DOMAIN items' PROVE Owner[items'[n].id] \notin banned'
      BY DEF BlockedStayGone
    <2>1. PICK k \in DOMAIN items : items[k].id = items'[n].id
      BY DEF Ids
    <2> QED
      BY <2>1 DEF Gone, BlockedStayGone
  <1>2. PagesKnow'
    BY DEF Gone, PagesKnow
  <1> QED
    BY <1>1, <1>2 DEF Gone

\* A request that starts, ends or is answered as it must.
LEMMA GoneAnswered ==
    ASSUME Typed, Gone, NEW r \in Request, NEW ask \in Requests,
           request' = [request EXCEPT ![r] = ask], banned' = banned, BlockedStayGone',
           ask.phase \in {"read", "answered"} => banned \subseteq ask.invisible,
           ask.phase = "answered" =>
               \A n \in DOMAIN ask.page : Owner[ask.page[n].id] \notin ask.invisible
    PROVE  Gone'
  <1>1. request'[r] = ask /\ \A q \in Request \ {r} : request'[q] = request[q]
    BY DEF Typed, RequestsOK
  <1>2. PagesKnow'
    BY <1>1 DEF Gone, PagesKnow
  <1> QED
    BY <1>2 DEF Gone

LEMMA StepGone == Typed /\ Gone /\ [Next]_vars => Gone'
  <1> SUFFICES ASSUME Typed, Gone, [Next]_vars PROVE Gone'
    OBVIOUS
  <1>0. /\ items \in Seq(Item) /\ request \in [Request -> Requests]
        /\ \A r \in Request : request[r].page \in Seq(Item)
        /\ NoRequest \in Requests /\ NoRequest.phase = "none"
    BY EmptyAsk, SizeAssumption DEF Typed, ScreenOK, RequestsOK, Requests, NoRequest
  <1>1. CASE \/ \E e \in Expense : LikeDone(e) \/ LikeAnswered(e) \/ Publish(e) \/ Hide(e)
             \/ \E u \in Rival : ConfirmBlock(u) \/ BlockElsewhere(u) \/ Unblock(u)
             \/ BlockDone \/ BlockFails \/ UNCHANGED vars
    <2>1. UNCHANGED <<items, request>> /\ banned' \subseteq banned
      BY <1>1 DEF LikeDone, LikeAnswered, Publish, Hide, ConfirmBlock, BlockElsewhere, Unblock,
                  BlockDone, BlockFails, Keep, vars, screen, calls, history
    <2>2. Ids(items') \subseteq Ids(items)
      BY <2>1
    <2> QED
      BY <2>1, <2>2, GoneKept
  <1>2. CASE \E e \in Expense : TapLike(e) \/ LikeRefused(e) \/ LikeLost(e)
    <2>1. PICK e \in Expense : TapLike(e) \/ LikeRefused(e) \/ LikeLost(e)
      BY <1>2
    <2>2. UNCHANGED <<request, banned>> /\ items' = toggleLike(items, e)
      BY <2>1 DEF TapLike, LikeRefused, LikeLost, applyToggle, Keep
    <2>3. Ids(items') \subseteq Ids(items)
      BY <1>0, <2>2, ToggledOnce
    <2> QED
      BY <2>2, <2>3, GoneKept
  <1>3. CASE BlockAnswered
    <2> DEFINE places == {n \in DOMAIN items : Owner[items[n].id] # block.user}
    <2>1. /\ UNCHANGED <<request, blocked>>
          /\ banned' = banned \/ (~ Unaware(block.user) /\ banned' = banned \cup {block.user})
          /\ items' = Picked(items, places) /\ places \in SUBSET (DOMAIN items)
      BY <1>3 DEF BlockAnswered, server
    <2>2. BlockedStayGone'
      <3> SUFFICES ASSUME NEW n \in DOMAIN items' PROVE Owner[items'[n].id] \notin banned'
        BY DEF BlockedStayGone
      <3>1. PICK k \in places : items'[n] = items[k]
        BY <1>0, <2>1, PickedIs
      <3>2. Owner[items[k].id] # block.user /\ Owner[items[k].id] \notin banned
        BY DEF Gone, BlockedStayGone
      <3> QED
        BY <2>1, <3>1, <3>2
    <2>3. PagesKnow'
      <3>1. ASSUME NEW q \in Request, request[q].phase \in {"read", "answered"}
            PROVE  banned' \subseteq request[q].invisible
        BY <2>1, <3>1 DEF Gone, PagesKnow, Unaware
      <3> QED
        BY <2>1, <3>1 DEF Gone, PagesKnow
    <2> QED
      BY <2>2, <2>3 DEF Gone
  <1>4. CASE Focus \/ Refresh \/ Retry \/ EndReached
    <2>1. UNCHANGED <<items, banned>>
      BY <1>4 DEF Focus, Refresh, Retry, EndReached, StartLoad, screen
    <2>2. PICK r \in Request, from \in 0 .. Newest : Send(r, from)
      <3>1. cursor \in 0 .. Newest /\ 0 \in 0 .. Newest
        BY SizeAssumption DEF Typed, ScreenOK
      <3> QED
        BY <1>4, <3>1 DEF Focus, Refresh, Retry, EndReached, StartLoad, Request
    <2> DEFINE ask == Ask("sent", from, {}, <<>>, 0)
    <2>3. ask \in Requests /\ ask.phase = "sent" /\ request' = [request EXCEPT ![r] = ask]
      BY <2>2, EmptyAsk DEF Send
    <2> HIDE DEF ask
    <2>4. BlockedStayGone'
      BY <2>1 DEF Gone, BlockedStayGone
    <2> QED
      BY <2>1, <2>3, <2>4, GoneAnswered
  <1>5. CASE \E r \in Request : ReadBlocks(r) \/ FindPage(r)
    <2>1. PICK r \in Request : ReadBlocks(r) \/ FindPage(r)
      BY <1>5
    <2>2. UNCHANGED <<items, banned>>
      BY <2>1 DEF ReadBlocks, FindPage, screen, Keep
    <2>3. BlockedStayGone'
      BY <2>2 DEF Gone, BlockedStayGone
    <2>4. CASE ReadBlocks(r)
      <3> DEFINE ask == Ask("read", request[r].from, blocked, <<>>, 0)
      <3>1. request[r].from \in 0 .. Newest /\ blocked \in SUBSET Rival
        BY DEF Typed, RequestsOK, Requests, ServerOK
      <3>2. ask \in Requests /\ ask.phase = "read" /\ ask.invisible = blocked
        BY <3>1, EmptyAsk
      <3>3. request' = [request EXCEPT ![r] = ask] /\ banned \subseteq blocked
        BY <2>4 DEF ReadBlocks, Typed, HistoryOK
      <3> HIDE DEF ask
      <3> QED
        BY <2>2, <2>3, <3>2, <3>3, GoneAnswered
    <2>5. CASE FindPage(r)
      <3>1. /\ \A q \in Request \ {r} : request'[q] = request[q]
            /\ request'[r].invisible = request[r].invisible /\ request[r].phase = "read"
            /\ \A n \in DOMAIN request'[r].page :
                  request'[r].page[n].id \in Rows(request[r].from, request[r].invisible)
        BY <2>5, AnswerIs DEF FindPage
      <3>2. banned \subseteq request'[r].invisible
        BY <3>1 DEF Gone, PagesKnow
      <3>3. \A n \in DOMAIN request'[r].page :
               Owner[request'[r].page[n].id] \notin request'[r].invisible
        BY <3>1 DEF Rows
      <3>4. PagesKnow'
        BY <2>2, <3>1, <3>2, <3>3 DEF Gone, PagesKnow
      <3> QED
        BY <2>3, <3>4 DEF Gone
    <2> QED
      BY <2>1, <2>4, <2>5
  <1>6. CASE LoadArrives \/ LoadFails \/ MoreArrives \/ MoreFails
    <2>1. banned' = banned
      BY <1>6 DEF LoadArrives, LoadFails, MoreArrives, MoreFails, history
    <2>2. PICK r \in Request : request' = [request EXCEPT ![r] = NoRequest]
      BY <1>6 DEF LoadArrives, LoadFails, MoreArrives, MoreFails, Answer, Request
    <2>3. ASSUME NEW q \in Request, request[q].phase = "answered", NEW k \in DOMAIN request[q].page
          PROVE  Owner[request[q].page[k].id] \notin banned
      BY <2>3 DEF Gone, PagesKnow
    <2>4. BlockedStayGone'
      <3> SUFFICES ASSUME NEW n \in DOMAIN items' PROVE Owner[items'[n].id] \notin banned
        BY <2>1 DEF BlockedStayGone
      <3>1. \A k \in DOMAIN items : Owner[items[k].id] \notin banned
        BY DEF Gone, BlockedStayGone
      <3>2. CASE LoadArrives
        <4>1. /\ items' = dedupeFeedItems(request["load"].page)
              /\ request["load"].phase = "answered" /\ "load" \in Request
          BY <3>2 DEF LoadArrives, Request
        <4>2. PICK k \in DOMAIN request["load"].page : items'[n] = request["load"].page[k]
          BY <1>0, <4>1, DedupeIs
        <4> QED
          BY <2>3, <4>1, <4>2
      <3>3. CASE LoadFails
        BY <3>3 DEF LoadFails
      <3>4. CASE MoreArrives
        <4>1. /\ items' = items \/ items' = dedupeFeedItems(items \o request["more"].page)
              /\ request["more"].phase = "answered" /\ "more" \in Request
          BY <3>4 DEF MoreArrives, Request
        <4>2. CASE items' = items
          BY <3>1, <4>2
        <4>3. CASE items' = dedupeFeedItems(items \o request["more"].page)
          <5>1. \/ \E k \in DOMAIN items : items'[n] = items[k]
                \/ \E k \in DOMAIN request["more"].page : items'[n] = request["more"].page[k]
            BY <1>0, <4>1, <4>3, Extended
          <5> QED
            BY <2>3, <3>1, <4>1, <5>1
        <4> QED
          BY <4>1, <4>2, <4>3
      <3>5. CASE MoreFails
        BY <3>1, <3>5 DEF MoreFails, screen
      <3> QED
        BY <1>6, <3>2, <3>3, <3>4, <3>5
    <2> QED
      BY <1>0, <2>1, <2>2, <2>4, GoneAnswered
  <1> QED
    BY <1>1, <1>2, <1>3, <1>4, <1>5, <1>6 DEF Next

\* A User blocked from the Feed leaves it and does not come back by scroll or refresh
\* while the Block stands, unless a page under way had read the Blocks before.
THEOREM BlockedGone == Spec => []BlockedStayGone
  <1>1. Init => Gone
    BY DEF Init, Gone, BlockedStayGone, PagesKnow, NoRequest, Ask
  <1>2. Gone => BlockedStayGone
    BY DEF Gone
  <1> QED
    BY <1>1, <1>2, InitTyped, StepTyped, StepGone, PTL DEF Spec

----------------------------------------------------------------------------
(* The pills.                                                              *)

\* More doubts, and a call that leaves no other Expense's Like in question.
LEMMA PageKept ==
    ASSUME NEW ask, NEW S, NEW T, NEW call, NEW call2, NEW likes, NEW likes2,
           PageOK(ask, S, call, likes), ask.phase # "none" => S \subseteq T,
           ask.phase # "none" => \A e \in Expense \ T : call2[e] = call[e] \/ call2[e] = "none",
           ask.phase # "none" => \A e \in Expense \ T : e \in likes2 <=> e \in likes,
           ask.page \in Seq(Item)
    PROVE  PageOK(ask, T, call2, likes2)
  <1>1. \A n \in DOMAIN ask.page : ask.page[n] \in Item
    OBVIOUS
  <1>2. \A n \in DOMAIN ask.page : ask.page[n].id \in Expense
    BY <1>1 DEF Item
  <1> QED
    BY <1>2 DEF PageOK

LEMMA SentOK ==
    ASSUME NEW ask, NEW S, NEW call, NEW likes, ask.phase = "sent",
           \A e \in Expense \ S : call[e] = "none"
    PROVE  PageOK(ask, S, call, likes)
  BY DEF PageOK

\* A card at rest stays right when the doubts grow and its Like is left alone.
LEMMA PillKept ==
    ASSUME NEW item \in Item, NEW S, NEW T, NEW call, NEW call2, NEW likes, NEW likes2,
           PillOK(item, S, call, likes), S \subseteq T,
           item.id \notin T => call2[item.id] = call[item.id],
           item.id \notin T => (item.id \in likes2 <=> item.id \in likes)
    PROVE  PillOK(item, T, call2, likes2)
  BY DEF PillOK

LEMMA ListKept ==
    ASSUME Typed, ListPills, UNCHANGED <<like, liked>>, doubted \subseteq doubted',
           \A n \in DOMAIN items' : \E k \in DOMAIN items : items'[n] = items[k]
    PROVE  ListPills'
  <1> SUFFICES ASSUME NEW n \in DOMAIN items' PROVE PillOK(items'[n], doubted', like', liked')
    BY DEF ListPills
  <1>1. PICK k \in DOMAIN items : items'[n] = items[k]
    OBVIOUS
  <1>2. items[k] \in Item /\ PillOK(items[k], doubted, like, liked)
    BY DEF Typed, ScreenOK, ListPills
  <1> QED
    BY <1>1, <1>2, PillKept

\* An item of a page that is answered, shown once the Likes it met are doubted.
LEMMA PageShown ==
    ASSUME NEW ask, NEW S, NEW T, NEW call, NEW likes, PageOK(ask, S, call, likes),
           S \subseteq T, ask.phase = "answered", ask.page \in Seq(Item),
           NEW k \in DOMAIN ask.page
    PROVE  PillOK(ask.page[k], T, call, likes)
  <1>1. ask.page[k] \in Item
    OBVIOUS
  <1>2. ask.page[k].id \in Expense
    BY <1>1 DEF Item
  <1>3. ask.page[k].id \notin T => /\ call[ask.page[k].id] = "none"
                                   /\ ask.page[k].liked = (ask.page[k].id \in likes)
    BY <1>2 DEF PageOK
  <1> QED
    BY <1>3 DEF PillOK

\* The flip of a tap announces a Like; one that is undone takes it back.
LEMMA PillFlipped ==
    ASSUME NEW item \in Item, NEW flipped, NEW S, NEW T, NEW call, NEW call2, NEW likes,
           PillOK(item, S, call, likes), S \subseteq T,
           flipped.id = item.id, flipped.liked = ~ item.liked,
           item.id \notin T =>
               \/ call[item.id] \in {"put", "delete"} /\ call2[item.id] = "none"
               \/ /\ call[item.id] = "none"
                  /\ call2[item.id] = IF item.id \in likes THEN "delete" ELSE "put"
    PROVE  PillOK(flipped, T, call2, likes)
  <1>1. item.liked \in BOOLEAN
    BY DEF Item
  <1>2. CASE item.id \notin T /\ item.id \in likes
    <2>1. CASE call[item.id] = "none"
      <3>1. item.liked = TRUE /\ flipped.liked = FALSE /\ call2[item.id] = "delete"
        BY <1>1, <1>2, <2>1 DEF PillOK
      <3> QED
        BY <1>2, <3>1 DEF PillOK
    <2>2. CASE call[item.id] \in {"put", "delete"}
      <3>1. item.liked = FALSE /\ flipped.liked = TRUE /\ call2[item.id] = "none"
        BY <1>1, <1>2, <2>2 DEF PillOK
      <3> QED
        BY <1>2, <3>1 DEF PillOK
    <2> QED
      BY <1>2, <2>1, <2>2
  <1>3. CASE item.id \notin T /\ item.id \notin likes
    <2>1. CASE call[item.id] = "none"
      <3>1. item.liked = FALSE /\ flipped.liked = TRUE /\ call2[item.id] = "put"
        BY <1>1, <1>3, <2>1 DEF PillOK
      <3> QED
        BY <1>3, <3>1 DEF PillOK
    <2>2. CASE call[item.id] \in {"put", "delete"}
      <3>1. item.liked = TRUE /\ flipped.liked = FALSE /\ call2[item.id] = "none"
        BY <1>1, <1>3, <2>2 DEF PillOK
      <3> QED
        BY <1>3, <3>1 DEF PillOK
    <2> QED
      BY <1>3, <2>1, <2>2
  <1> QED
    BY <1>2, <1>3 DEF PillOK

LEMMA PagesInType ==
    ASSUME Typed
    PROVE  /\ items \in Seq(Item) /\ FirstPage.page \in Seq(Item) /\ NextPage.page \in Seq(Item)
           /\ \A n \in DOMAIN items : items[n] \in Item /\ items[n].id \in Expense
           /\ like \in [Expense -> {"none", "put", "delete", "done"}]
  <1>1. items \in Seq(Item) /\ FirstPage.page \in Seq(Item) /\ NextPage.page \in Seq(Item)
        /\ like \in [Expense -> {"none", "put", "delete", "done"}]
    BY DEF Typed, ScreenOK, RequestsOK, Requests, Request, FirstPage, NextPage, CallsOK
  <1>2. \A n \in DOMAIN items : items[n] \in Item
    BY <1>1
  <1> QED
    BY <1>1, <1>2 DEF Item

\* While a page is in flight the call of a Like is on it, or in doubt.
LEMMA CallsPill ==
    ASSUME Typed, Pills, NEW e \in Expense, LikeDone(e) \/ LikeAnswered(e)
    PROVE  Pills'
  <1> USE DEF Pills
  <1>1. /\ UNCHANGED <<items, request, doubted, met>> /\ FirstPage' = FirstPage
        /\ NextPage' = NextPage /\ like[e] # "none"
        /\ \A f \in Expense \ {e} : like'[f] = like[f] /\ (f \in liked' <=> f \in liked)
    BY DEF LikeDone, LikeAnswered, Keep, screen, server, FirstPage, NextPage, Typed, CallsOK
  <1>2. ListPills'
    <2> SUFFICES ASSUME NEW n \in DOMAIN items PROVE PillOK(items[n], doubted, like', liked')
      BY <1>1 DEF ListPills
    <2>1. items[n] \in Item /\ items[n].id \in Expense /\ PillOK(items[n], doubted, like, liked)
      BY PagesInType DEF ListPills
    <2>2. CASE items[n].id # e
      BY <1>1, <2>1, <2>2, PillKept
    <2>3. CASE items[n].id = e
      <3>1. CASE LikeAnswered(e)
        <4>1. like[e] = "done" /\ like'[e] = "none" /\ liked' = liked
          BY <3>1 DEF LikeAnswered, server, Typed, CallsOK
        <4> QED
          BY <2>1, <2>3, <4>1 DEF PillOK
      <3>2. CASE LikeDone(e)
        <4>1. /\ like[e] \in {"put", "delete"} /\ like'[e] = "done"
              /\ e \in liked' <=> like[e] = "put"
          BY <3>2 DEF LikeDone, Typed, CallsOK
        <4>2. e \notin doubted => items[n].liked = (like[e] = "put")
          BY <2>1, <2>3, <4>1 DEF PillOK
        <4>3. e \notin doubted => items[n].liked = (e \in liked')
          BY <4>1, <4>2
        <4> QED
          BY <2>3, <4>1, <4>3 DEF PillOK
      <3> QED
        BY <3>1, <3>2
    <2> QED
      BY <2>2, <2>3
  <1>3. LoadPills'
    <2>1. FirstPage.phase # "none" => e \in met
      BY <1>1 DEF LoadPills, PageOK
    <2>2. PageOK(FirstPage, met, like', liked')
      BY <1>1, <2>1, PagesInType, PageKept DEF LoadPills
    <2> QED
      BY <1>1, <2>2 DEF LoadPills
  <1>4. MorePills'
    <2>1. NextPage.phase # "none" => e \in doubted
      BY <1>1 DEF MorePills, PageOK
    <2>2. PageOK(NextPage, doubted, like', liked')
      BY <1>1, <2>1, PagesInType, PageKept DEF MorePills
    <2> QED
      BY <1>1, <2>2 DEF MorePills
  <1> QED
    BY <1>2, <1>3, <1>4

LEMMA TogglesPill ==
    ASSUME Typed, Pills, NEW e \in Expense, TapLike(e) \/ LikeRefused(e) \/ LikeLost(e)
    PROVE  Pills'
  <1> USE DEF Pills
  <1>1. /\ items' = toggleLike(items, e) /\ FirstPage' = FirstPage /\ NextPage' = NextPage
        /\ liked' = liked /\ doubted \subseteq doubted' /\ met \subseteq met'
        /\ \A f \in Expense \ {e} : like'[f] = like[f]
    BY DEF TapLike, LikeRefused, LikeLost, applyToggle, Keep, server, FirstPage, NextPage,
           Typed, CallsOK
  <1>2. /\ DOMAIN items' = DOMAIN items
        /\ \A n \in DOMAIN items :
              /\ items'[n].id = items[n].id
              /\ items'[n].liked = IF items[n].id = e THEN ~ items[n].liked ELSE items[n].liked
              /\ items[n] \in Item /\ PillOK(items[n], doubted, like, liked)
              /\ items[n].id \in Expense
    BY <1>1, PagesInType, ToggleIs DEF ListPills
  <1>3. e \notin doubted' =>
           \/ like[e] \in {"put", "delete"} /\ like'[e] = "none"
           \/ like[e] = "none" /\ like'[e] = IF e \in liked THEN "delete" ELSE "put"
    <2> SUFFICES ASSUME e \notin doubted'
                 PROVE  \/ like[e] \in {"put", "delete"} /\ like'[e] = "none"
                        \/ like[e] = "none" /\ like'[e] = IF e \in liked THEN "delete" ELSE "put"
      OBVIOUS
    <2>1. CASE LikeRefused(e)
      BY <2>1 DEF LikeRefused, Typed, CallsOK
    <2>2. CASE LikeLost(e)
      <3>1. like[e] # "done" /\ like[e] # "none" /\ like'[e] = "none"
        BY <2>2 DEF LikeLost, Typed, CallsOK
      <3> QED
        BY <3>1 DEF Typed, CallsOK
    <2>3. CASE TapLike(e)
      <3>1. PICK n \in DOMAIN items :
               /\ items[n].id = e
               /\ like' = [like EXCEPT ![e] = IF items[n].liked THEN "delete" ELSE "put"]
        BY <2>3 DEF TapLike
      <3>2. like[e] = "none" /\ e \notin doubted
        BY <1>1, <2>3 DEF TapLike
      <3>3. items[n].liked = (e \in liked)
        BY <1>2, <3>1, <3>2 DEF PillOK
      <3>4. like'[e] = IF items[n].liked THEN "delete" ELSE "put"
        BY <3>1 DEF Typed, CallsOK
      <3> QED
        BY <3>2, <3>3, <3>4
    <2> QED
      BY <2>1, <2>2, <2>3
  <1>4. ListPills'
    <2> SUFFICES ASSUME NEW n \in DOMAIN items PROVE PillOK(items'[n], doubted', like', liked)
      BY <1>1, <1>2 DEF ListPills
    <2>1. CASE items[n].id = e
      BY <1>1, <1>2, <1>3, <2>1, PillFlipped
    <2>2. CASE items[n].id # e
      <3>1. /\ items'[n].liked = items[n].liked /\ items'[n].id = items[n].id
            /\ like'[items[n].id] = like[items[n].id]
        BY <1>1, <1>2, <2>2
      <3> QED
        BY <1>1, <1>2, <3>1 DEF PillOK
    <2> QED
      BY <2>1, <2>2
  <1>5. LoadPills'
    <2>1. FirstPage.phase # "none" => \A f \in Expense \ met' : like'[f] = like[f] \/ like'[f] = "none"
      <3>1. CASE TapLike(e)
        BY <1>1, <3>1 DEF TapLike, Flying, FirstPage
      <3>2. CASE LikeRefused(e) \/ LikeLost(e)
        BY <1>1, <3>2 DEF LikeRefused, LikeLost, Typed, CallsOK
      <3> QED
        BY <3>1, <3>2
    <2>2. PageOK(FirstPage, met', like', liked)
      BY <1>1, <2>1, PagesInType, PageKept DEF LoadPills
    <2> QED
      BY <1>1, <2>2 DEF LoadPills
  <1>6. MorePills'
    <2>1. NextPage.phase # "none" =>
             \A f \in Expense \ doubted' : like'[f] = like[f] \/ like'[f] = "none"
      <3>1. CASE TapLike(e)
        BY <1>1, <3>1 DEF TapLike, Flying, NextPage
      <3>2. CASE LikeRefused(e) \/ LikeLost(e)
        BY <1>1, <3>2 DEF LikeRefused, LikeLost, Typed, CallsOK
      <3> QED
        BY <3>1, <3>2
    <2>2. PageOK(NextPage, doubted', like', liked)
      BY <1>1, <2>1, PagesInType, PageKept DEF MorePills
    <2> QED
      BY <1>1, <2>2 DEF MorePills
  <1> QED
    BY <1>4, <1>5, <1>6

LEMMA AsksPill ==
    ASSUME Typed, Pills, Focus \/ Refresh \/ Retry \/ EndReached
    PROVE  Pills'
  <1> USE DEF Pills
  <1>1. /\ items' = items /\ UNCHANGED <<like, liked>> /\ doubted \subseteq doubted'
        /\ \A e \in Expense \ Pending : like[e] = "none"
    BY DEF Focus, Refresh, Retry, EndReached, StartLoad, screen, server, Pending
  <1>2. ListPills'
    BY <1>1, ListKept
  <1>3. CASE EndReached
    <2>1. /\ FirstPage' = FirstPage /\ met' = met
          /\ NextPage'.phase = "sent" /\ doubted' = doubted \cup Pending
      BY <1>3 DEF EndReached, Send, Ask, FirstPage, NextPage, Typed, RequestsOK, Request
    <2>2. PageOK(NextPage', doubted', like, liked)
      BY <1>1, <2>1, SentOK
    <2> QED
      BY <1>1, <1>2, <2>1, <2>2 DEF LoadPills, MorePills
  <1>4. CASE Focus \/ Refresh \/ Retry
    <2>1. /\ NextPage' = NextPage /\ doubted' = doubted
          /\ FirstPage'.phase = "sent" /\ met' = Pending
      BY <1>4 DEF Focus, Refresh, Retry, StartLoad, Send, Ask, FirstPage, NextPage, Typed,
                  RequestsOK, Request
    <2>2. PageOK(FirstPage', met', like, liked)
      BY <1>1, <2>1, SentOK
    <2> QED
      BY <1>1, <1>2, <2>1, <2>2 DEF LoadPills, MorePills
  <1> QED
    BY <1>3, <1>4

LEMMA PagesPill ==
    ASSUME Typed, Pills, NEW r \in Request, ReadBlocks(r) \/ FindPage(r)
    PROVE  Pills'
  <1> USE DEF Pills
  <1>1. UNCHANGED <<items, like, liked, doubted, met>>
    BY DEF ReadBlocks, FindPage, screen, server, Keep
  <1>2. ListPills'
    BY <1>1, ListKept
  <1>3. \A q \in Request \ {r} : request'[q] = request[q]
    BY AnswerIs DEF ReadBlocks, Typed, RequestsOK
  <1>4. ASSUME NEW S, PageOK(request[r], S, like, liked)
        PROVE  PageOK(request'[r], S, like, liked)
    <2>1. \A e \in Expense \ S : like[e] = "none"
      BY <1>4 DEF PageOK, ReadBlocks, FindPage
    <2>2. CASE ReadBlocks(r)
      <3>1. request'[r].phase = "read"
        BY <2>2 DEF ReadBlocks, Ask, Typed, RequestsOK
      <3> QED
        BY <2>1, <3>1 DEF PageOK
    <2>3. CASE FindPage(r)
      <3>1. \A n \in DOMAIN request'[r].page :
               request'[r].page[n].liked = (request'[r].page[n].id \in liked)
        BY <2>3, AnswerIs
      <3> QED
        BY <2>1, <3>1 DEF PageOK
    <2> QED
      BY <2>2, <2>3
  <1>5. LoadPills'
    <2>1. PageOK(request'["load"], met, like, liked)
      BY <1>3, <1>4 DEF LoadPills, FirstPage, Request
    <2> QED
      BY <1>1, <2>1 DEF LoadPills, FirstPage
  <1>6. MorePills'
    <2>1. PageOK(request'["more"], doubted, like, liked)
      BY <1>3, <1>4 DEF MorePills, NextPage, Request
    <2> QED
      BY <1>1, <2>1 DEF MorePills, NextPage
  <1> QED
    BY <1>2, <1>5, <1>6

LEMMA AnswersPill ==
    ASSUME Typed, Pills, LoadArrives \/ LoadFails \/ MoreArrives \/ MoreFails
    PROVE  Pills'
  <1> USE DEF Pills
  <1>1. UNCHANGED <<like, liked>> /\ NoRequest.phase = "none"
    BY DEF LoadArrives, LoadFails, MoreArrives, MoreFails, server, NoRequest, Ask
  <1>2. \A ask, S : ask.phase = "none" => PageOK(ask, S, like, liked)
    BY DEF PageOK
  <1>3. CASE LoadArrives
    <2>1. /\ FirstPage'.phase = "none" /\ NextPage' = NextPage /\ FirstPage.phase = "answered"
          /\ items' = dedupeFeedItems(FirstPage.page) /\ met \subseteq doubted'
          /\ NextPage.phase # "none" => doubted \subseteq doubted'
      BY <1>1, <1>3 DEF LoadArrives, Answer, FirstPage, NextPage, Typed, RequestsOK, Request, Flying
    <2>2. ListPills'
      <3> SUFFICES ASSUME NEW n \in DOMAIN items' PROVE PillOK(items'[n], doubted', like, liked)
        BY <1>1 DEF ListPills
      <3>1. PICK k \in DOMAIN FirstPage.page : items'[n] = FirstPage.page[k]
        BY <2>1, PagesInType, DedupeIs
      <3> QED
        BY <2>1, <3>1, PagesInType, PageShown DEF LoadPills
    <2>3. PageOK(NextPage, doubted', like, liked)
      BY <2>1, PagesInType, PageKept DEF MorePills
    <2> QED
      BY <1>1, <1>2, <2>1, <2>2, <2>3 DEF LoadPills, MorePills
  <1>4. CASE LoadFails
    <2>1. /\ FirstPage'.phase = "none" /\ NextPage' = NextPage /\ items' = <<>>
          /\ doubted' = doubted
      BY <1>1, <1>4 DEF LoadFails, Answer, FirstPage, NextPage, Typed, RequestsOK, Request
    <2>2. ListPills'
      BY <2>1 DEF ListPills
    <2> QED
      BY <1>1, <1>2, <2>1, <2>2 DEF LoadPills, MorePills
  <1>5. CASE MoreArrives \/ MoreFails
    <2>1. /\ NextPage'.phase = "none" /\ FirstPage' = FirstPage
          /\ UNCHANGED <<doubted, met>>
      BY <1>1, <1>5 DEF MoreArrives, MoreFails, Answer, FirstPage, NextPage, Typed, RequestsOK,
                        Request, history
    <2>2. ListPills'
      <3>1. CASE items' = items
        BY <1>1, <2>1, <3>1, ListKept
      <3>2. CASE items' # items
        <4>1. NextPage.phase = "answered" /\ items' = dedupeFeedItems(items \o NextPage.page)
          BY <1>5, <3>2 DEF MoreArrives, MoreFails, NextPage, screen
        <4> SUFFICES ASSUME NEW n \in DOMAIN items' PROVE PillOK(items'[n], doubted, like, liked)
          BY <1>1, <2>1 DEF ListPills
        <4>2. \/ \E k \in DOMAIN items : items'[n] = items[k]
              \/ \E k \in DOMAIN NextPage.page : items'[n] = NextPage.page[k]
          BY <4>1, PagesInType, Extended
        <4>3. \A k \in DOMAIN NextPage.page : PillOK(NextPage.page[k], doubted, like, liked)
          BY <4>1, PagesInType, PageShown DEF MorePills
        <4> QED
          BY <4>2, <4>3 DEF ListPills
      <3> QED
        BY <3>1, <3>2
    <2> QED
      BY <1>1, <1>2, <2>1, <2>2 DEF LoadPills, MorePills
  <1> QED
    BY <1>3, <1>4, <1>5

LEMMA StepPills == Typed /\ Pills /\ [Next]_vars => Pills'
  <1> SUFFICES ASSUME Typed, Pills, [Next]_vars PROVE Pills'
    OBVIOUS
  <1>1. ASSUME UNCHANGED <<request, like, liked, doubted, met>>,
               \A n \in DOMAIN items' : \E k \in DOMAIN items : items'[n] = items[k]
        PROVE  Pills'
    <2>1. ListPills'
      BY <1>1, ListKept DEF Pills
    <2> QED
      BY <1>1, <2>1 DEF Pills, LoadPills, MorePills, FirstPage, NextPage
  <1>2. CASE \/ \E e \in Expense : Publish(e) \/ Hide(e)
             \/ \E u \in Rival : ConfirmBlock(u) \/ BlockElsewhere(u) \/ Unblock(u)
             \/ BlockDone \/ BlockFails \/ UNCHANGED vars
    <2>1. UNCHANGED <<items, request, like, liked, doubted, met>>
      BY <1>2 DEF Publish, Hide, ConfirmBlock, BlockElsewhere, Unblock, BlockDone, BlockFails,
                  Keep, vars, server, screen, calls, history
    <2> QED
      BY <1>1, <2>1
  <1>3. CASE BlockAnswered
    <2> DEFINE places == {n \in DOMAIN items : Owner[items[n].id] # block.user}
    <2>1. /\ UNCHANGED <<request, like, liked, doubted, met>>
          /\ items' = Picked(items, places) /\ places \in SUBSET (DOMAIN items)
      BY <1>3 DEF BlockAnswered, server
    <2>2. \A n \in DOMAIN items' : \E k \in places : items'[n] = items[k]
      BY <2>1, PagesInType, PickedIs
    <2> QED
      BY <1>1, <2>1, <2>2
  <1>4. CASE \E e \in Expense : LikeDone(e) \/ LikeAnswered(e)
    BY <1>4, CallsPill
  <1>5. CASE \E e \in Expense : TapLike(e) \/ LikeRefused(e) \/ LikeLost(e)
    BY <1>5, TogglesPill
  <1>6. CASE Focus \/ Refresh \/ Retry \/ EndReached
    BY <1>6, AsksPill
  <1>7. CASE \E r \in Request : ReadBlocks(r) \/ FindPage(r)
    BY <1>7, PagesPill
  <1>8. CASE LoadArrives \/ LoadFails \/ MoreArrives \/ MoreFails
    BY <1>8, AnswersPill
  <1> QED
    BY <1>2, <1>3, <1>4, <1>5, <1>6, <1>7, <1>8 DEF Next

\* At rest the pill says what the server holds (use-like-toggle.ts): a flip ends in the
\* Like it announced or is undone, unless that Like met a page or its answer was lost.
THEOREM PillsTrue == Spec => []PillsAgree
  <1>1. Init => Pills
    BY DEF Init, Pills, ListPills, LoadPills, MorePills, PageOK, FirstPage, NextPage, Request,
           NoRequest, Ask
  <1>2. Pills => PillsAgree
    BY DEF Pills, ListPills, PillOK, PillsAgree
  <1> QED
    BY <1>1, <1>2, InitTyped, StepTyped, StepPills, PTL DEF Spec

----------------------------------------------------------------------------
(* FeedCursor: with whole milliseconds a cursor is the row it was made of. *)

(* One element of a sequence.                                               *)
LEMMA OneElement ==
    ASSUME NEW S, NEW s, NEW n \in Int, s[n] \in S
    PROVE  SubSeq(s, n, n) = <<s[n]>>
  <1>1. \A i \in n .. n : s[i] \in S
    OBVIOUS
  <1>2. /\ SubSeq(s, n, n) \in Seq(S)
        /\ Len(SubSeq(s, n, n)) = IF n <= n THEN n - n + 1 ELSE 0
        /\ \A i \in 1 .. n - n + 1 : SubSeq(s, n, n)[i] = s[n + i - 1]
    BY <1>1, SubSeqProperties
  <1>3. n <= n /\ n - n + 1 = 1 /\ n + 1 - 1 = n
    OBVIOUS
  <1>4. /\ SubSeq(s, n, n) \in Seq(S) /\ Len(SubSeq(s, n, n)) = 1
        /\ SubSeq(s, n, n)[1] = s[n]
    BY <1>2, <1>3
  <1>5. \A t \in Seq(S) : Len(t) = 1 /\ t[1] = s[n] => t = <<s[n]>>
    OBVIOUS
  <1> QED
    BY <1>4, <1>5, Zenon

(* A token is three parts, and the separator is its second.                 *)
LEMMA TokenParts ==
    ASSUME NEW time, NEW id, time # CURSOR_SEPARATOR, id # CURSOR_SEPARATOR,
           NEW token, token = <<time, CURSOR_SEPARATOR, id>>
    PROVE  /\ {n \in DOMAIN token : token[n] = CURSOR_SEPARATOR} = {2}
           /\ SubSeq(token, 1, 1) = <<time>>
           /\ SubSeq(token, 3, Len(token)) = <<id>>
  <1>1. Len(token) = 3 /\ DOMAIN token = 1 .. 3
        /\ token[1] = time /\ token[2] = CURSOR_SEPARATOR /\ token[3] = id
    OBVIOUS
  <1>2. {n \in DOMAIN token : token[n] = CURSOR_SEPARATOR} = {2}
    BY <1>1
  <1>3. SubSeq(token, 1, 1) = <<time>> /\ SubSeq(token, 3, Len(token)) = <<id>>
    <2> DEFINE S == {time, id}
    <2>1. token[1] \in S /\ token[3] \in S
      BY <1>1
    <2> HIDE DEF S
    <2> QED
      BY <1>1, <2>1, OneElement
  <1> QED
    BY <1>2, <1>3

(* decodeFeedCursor after encodeFeedCursor, and the keyset of findPage behind *)
(* it: the page boundary of a row is that row, whatever was logged with it.   *)
THEOREM CursorIsItsRow ==
    ASSUME TicksPerMs = 1, NEW last \in [loggedAt : Nat, id : Nat]
    PROVE  /\ decodeFeedCursor(encodeFeedCursor(last)) = <<last>>
           /\ \A row : After(row, decodeFeedCursor(encodeFeedCursor(last))[1]) <=> After(row, last)
  <1> DEFINE time == [is |-> "time", of |-> last.loggedAt]
             id == [is |-> "id", of |-> last.id]
             token == <<time, CURSOR_SEPARATOR, id>>
             separators == {n \in DOMAIN token : token[n] = CURSOR_SEPARATOR}
             index == CHOOSE n \in separators : \A m \in separators : n <= m
  <1>1. last.loggedAt \div TicksPerMs = last.loggedAt
        /\ last.loggedAt * TicksPerMs = last.loggedAt
    OBVIOUS
  <1>2. encodeFeedCursor(last) = token
    BY <1>1 DEF encodeFeedCursor, toISOString
  <1>3. /\ separators = {2}
        /\ SubSeq(token, 1, 1) = <<time>>
        /\ SubSeq(token, 3, Len(token)) = <<id>>
    <2>1. time # CURSOR_SEPARATOR /\ id # CURSOR_SEPARATOR
      BY DEF CURSOR_SEPARATOR
    <2> HIDE DEF time, id
    <2> QED
      BY <2>1, TokenParts
  <1>4. index = 2
    BY <1>3
  <1> HIDE DEF separators, token
  <1>5. isValidLoggedAt(<<time>>) /\ UUID_PATTERN(<<id>>)
    BY DEF isValidLoggedAt, UUID_PATTERN
  <1>6. decodeFeedCursor(token) = <<Row(last.loggedAt, last.id)>>
    <2> HIDE DEF index
    <2>1. index - 1 = 1 /\ index + 1 = 3
      BY <1>4
    <2>2. separators # {}
      BY <1>3
    <2>3. decodeFeedCursor(token) =
            IF separators = {} \/ ~isValidLoggedAt(SubSeq(token, 1, index - 1))
                 \/ ~UUID_PATTERN(SubSeq(token, index + 1, Len(token))) THEN <<>>
            ELSE <<Row(SubSeq(token, 1, index - 1)[1].of * TicksPerMs,
                       SubSeq(token, index + 1, Len(token))[1].of)>>
      BY Zenon DEF decodeFeedCursor, separators, index
    <2>4. <<time>>[1].of = last.loggedAt /\ <<id>>[1].of = last.id
      OBVIOUS
    <2> QED
      BY <1>1, <1>3, <1>5, <2>1, <2>2, <2>3, <2>4
  <1>7. Row(last.loggedAt, last.id) = last
    BY DEF Row
  <1> QED
    BY <1>2, <1>6, <1>7

----------------------------------------------------------------------------
(* The Expenses tab, a list of one owner beside the Feed's of many.  It is  *)
(* not composed with it: its module comes in as an instance, with variables *)
(* of its own.  It calls Gone what is Deleted here.                         *)
CONSTANTS MaxIntegerDigits, Scale, CATEGORIES, Date, Day, Today, Period, Currency, Rate,
          Visibility, Text, Locale0, First, Load, Req, Deleted, NotRead, MaxChanges
VARIABLES rows, preferred, tab, sheet, shown, load, req, switch, changes, newest, overtaken,
          unattended

E == INSTANCE ExpensesTab WITH Gone <- Deleted

\* The instance has operators of its own by these names; they are the same.
LEMMA Sizes == \A S : E!Cardinality(S) = Cardinality(S)
  BY Zenon DEF E!Cardinality, Cardinality

LEMMA SameDescending == \A S : E!Descending(S) = Descending(S)
  BY Zenon DEF E!Descending, Descending, E!Cardinality, Cardinality

\* What the reads of a load find in a table and a currency.
LiveAt(r) == {id \in DOMAIN r : r[id] # Deleted}
DtoAt(r, id, c) ==
    [id |-> id, convertedAmount |-> E!Converted(r[id], c),
     originalAmount |-> E!toFixed(r[id].amount),
     category |-> r[id].category, visibility |-> r[id].visibility, expenseDate |-> r[id].date]
ListAt(r, c) ==
    [n \in 1 .. Cardinality(LiveAt(r)) |-> DtoAt(r, Descending(LiveAt(r))[n], c)]
PartAt(r, c, p) ==
    E!summarizeCategoryTotals(
        {[id |-> id, category |-> r[id].category, amount |-> E!Converted(r[id], c)] :
            id \in {i \in LiveAt(r) : E!Within(E!RangeOf(p), r[i].date)}})

\* The tables there can be, deleted rows included, and what is read of them.
Table == Seq(E!Expense \cup {Deleted})
Lists == {ListAt(r, c) : r \in Table, c \in Currency}
Sums == {PartAt(r, c, p) : r \in Table, c \in Currency, p \in E!Part}

\* A sheet, a load, a request, an answer.  A read comes after the read of its currency.
Sheets ==
    [kind : {"none", "log", "edit"}, id : Nat, prefill : E!Expense \cup {Deleted},
     stale : BOOLEAN, logged : Nat, lost : BOOLEAN]
Loads ==
    [sent : BOOLEAN, listCurrency : Currency \cup {NotRead}, list : Lists \cup {NotRead},
     currency : Currency \cup {NotRead}, part : [E!Part -> Sums \cup {NotRead}],
     torn : BOOLEAN]
LoadOK(r) ==
    /\ r.list # NotRead => r.listCurrency # NotRead
    /\ \A p \in E!Part : r.part[p] # NotRead => r.currency # NotRead
Reqs ==
    [kind : {"none", "create", "update", "delete"}, own : BOOLEAN, id : Nat,
     value : E!Expense \cup {Deleted}, phase : {"none", "sent", "done", "refused", "lost"}]
\* A request of no kind is none, and one that is lost belongs to no sheet.
ReqOK(r) ==
    /\ r.kind = "none" => r.phase = "none" /\ ~r.own
    /\ r.phase = "lost" => ~r.own
    /\ r.kind \in {"create", "update"} => r.value \in E!Expense
Answers ==
    [status : {"loaded"}, expenses : Lists, torn : BOOLEAN, statistics : [E!Part -> Sums]]

\* What is assumed of the constants, as in ExpensesTab: the days are dates, the table
\* begins with Expenses, and a Decimal column gives an amount back as it was.
Given == Day \subseteq Date /\ Today \in Day /\ First \in Seq(E!Expense) /\ E!AmountsReturn

\* The types in full: only a sheet that is up has requests.
TabTyped ==
    /\ Given
    /\ rows \in Table /\ preferred \in Currency
    /\ switch # E!NoSwitch => switch.to \in Currency
    /\ sheet \in Sheets
    /\ sheet.kind = "none" => sheet = E!NoSheet
    /\ sheet.kind = "edit" => sheet.prefill \in E!Expense
    /\ shown \in {E!Loading, E!Failed} \cup Answers
    /\ load \in [Load -> Loads] /\ \A l \in Load : LoadOK(load[l])
    /\ req \in [Req -> Reqs] /\ \A q \in Req : ReqOK(req[q])
    /\ \A q \in Req : req[q].own => sheet.kind # "none"
    /\ newest \in Load /\ overtaken \in BOOLEAN /\ unattended \in BOOLEAN

\* The server's reads are of its table.
LEMMA ReadsAt ==
    /\ \A c : E!findAllByOwner(c) = ListAt(rows, c)
    /\ \A c, p : E!summarizeCategoryTotals(E!findCategoryAmounts(p, c)) = PartAt(rows, c, p)
  BY Sizes, SameDescending
  DEF E!findAllByOwner, ListAt, LiveAt, E!Live, E!Id, E!toExpenseDto, DtoAt,
      E!findCategoryAmounts, PartAt

\* Every row of a list is of an Expense.
LEMMA ListRows ==
    ASSUME NEW r \in Table, NEW c, NEW n \in DOMAIN ListAt(r, c)
    PROVE  \E id \in Nat : /\ id \in DOMAIN r /\ r[id] # Deleted /\ r[id] \in E!Expense
                           /\ ListAt(r, c)[n] = DtoAt(r, id, c)
  <1>1. /\ DOMAIN r = 1 .. Len(r) /\ Len(r) \in Nat
        /\ \A id \in DOMAIN r : r[id] \in E!Expense \cup {Deleted}
    BY DEF Table
  <1>2. LiveAt(r) \in SUBSET Nat /\ IsFiniteSet(LiveAt(r))
    <2>1. IsFiniteSet(1 .. Len(r))
      BY <1>1, FS_Interval
    <2>2. LiveAt(r) \subseteq 1 .. Len(r)
      BY <1>1 DEF LiveAt
    <2> QED
      BY <1>1, <2>1, <2>2, FS_Subset
  <1>3. /\ n \in 1 .. Cardinality(LiveAt(r))
        /\ ListAt(r, c)[n] = DtoAt(r, Descending(LiveAt(r))[n], c)
    BY DEF ListAt
  <1>4. Descending(LiveAt(r))[n] \in LiveAt(r)
    BY <1>2, <1>3, DescendingIs DEF E!Descending, Descending
  <1> QED
    BY <1>1, <1>2, <1>3, <1>4 DEF LiveAt

\* The prefill made of a row.
PrefillOf(row) ==
    [amount |-> E!Stored(row.originalAmount), category |-> row.category,
     visibility |-> row.visibility, date |-> row.expenseDate]

\* That is the row: its amount comes back from its decimal.
LEMMA PrefillIs ==
    ASSUME Given, NEW r \in Table, NEW c, NEW n \in DOMAIN ListAt(r, c)
    PROVE  LET row == ListAt(r, c)[n]
           IN  row.id \in Nat /\ row.id \in DOMAIN r /\ r[row.id] \in E!Expense
               /\ PrefillOf(row) = r[row.id]
  <1>1. PICK id \in Nat : /\ id \in DOMAIN r /\ r[id] # Deleted /\ r[id] \in E!Expense
                          /\ ListAt(r, c)[n] = DtoAt(r, id, c)
    BY ListRows
  <1>2. E!Stored(E!toFixed(r[id].amount)) = r[id].amount
    BY <1>1 DEF Given, E!AmountsReturn, E!Expense
  <1>3. PrefillOf(DtoAt(r, id, c)) = r[id] /\ DtoAt(r, id, c).id = id
    BY <1>1, <1>2 DEF PrefillOf, DtoAt, E!Expense
  <1> QED
    BY <1>1, <1>3

LEMMA InitTabTyped == Given /\ E!Init => TabTyped
  <1> SUFFICES ASSUME Given, E!Init PROVE TabTyped
    OBVIOUS
  <1>1. rows \in Table
    BY DEF E!Init, Given, Table
  <1>2. E!NoSheet \in Sheets /\ E!NoSheet.kind = "none"
    BY DEF E!NoSheet, Sheets
  <1>3. E!NoLoad \in Loads /\ LoadOK(E!NoLoad)
    BY DEF E!NoLoad, Loads, LoadOK
  <1>4. E!NoReq \in Reqs /\ ReqOK(E!NoReq) /\ ~E!NoReq.own
    BY DEF E!NoReq, Reqs, ReqOK
  <1> QED
    BY <1>1, <1>2, <1>3, <1>4 DEF E!Init, TabTyped

----------------------------------------------------------------------------
\* What each step does, one lemma per kind of step.

\* No load, and a load just sent, have read nothing.
LEMMA FreshLoads ==
    /\ E!NoLoad \in Loads /\ LoadOK(E!NoLoad) /\ E!Sent \in Loads /\ LoadOK(E!Sent)
    /\ \A r \in {E!NoLoad, E!Sent} :
          /\ r.listCurrency = NotRead /\ r.list = NotRead /\ r.currency = NotRead
          /\ \A p \in E!Part : r.part[p] = NotRead
          /\ ~r.torn
    /\ ~E!NoLoad.sent
  <1>1. E!NoLoad \in Loads /\ E!NoLoad.listCurrency = NotRead /\ E!NoLoad.list = NotRead
        /\ E!NoLoad.currency = NotRead /\ E!NoLoad.part = [p \in E!Part |-> NotRead]
        /\ ~E!NoLoad.torn /\ ~E!NoLoad.sent
    BY DEF E!NoLoad, Loads
  <1>2. E!Sent \in Loads /\ E!Sent.listCurrency = NotRead /\ E!Sent.list = NotRead
        /\ E!Sent.currency = NotRead /\ E!Sent.part = [p \in E!Part |-> NotRead]
        /\ ~E!Sent.torn
    BY DEF E!Sent, E!NoLoad, Loads
  <1> QED
    BY <1>1, <1>2 DEF LoadOK

\* Where the navigator goes, and whether a load starts.
Starts == \E l \in Load : E!StartLoad(l)
Stays == UNCHANGED <<shown, load, E!history>>

\* A load starts where the tab gains focus, and nowhere else.
LEMMA GoIs ==
    ASSUME NEW toTab, NEW toSheet, E!Go(toTab, toSheet)
    PROVE  /\ tab' = toTab /\ sheet' = toSheet
           /\ Starts \/ Stays
           /\ E!Focused' /\ ~E!Focused => Starts
           /\ Starts /\ ~Stays => E!Focused'
  <1>1. /\ tab' = toTab /\ sheet' = toSheet
        /\ (E!Focused' <=> toTab = "expenses" /\ toSheet = E!NoSheet)
    BY DEF E!Go, E!Focused
  <1>2. CASE toTab = "expenses" /\ toSheet = E!NoSheet /\ ~E!Focused
    BY <1>1, <1>2 DEF E!Go, Starts
  <1>3. CASE ~(toTab = "expenses" /\ toSheet = E!NoSheet /\ ~E!Focused)
    <2>1. Stays
      BY <1>3 DEF E!Go, Stays
    <2> QED
      BY <1>1, <1>3, <2>1
  <1> QED
    BY <1>2, <1>3

LEMMA BackIs ==
    ASSUME E!Back
    PROVE  sheet' = E!NoSheet /\ (Starts \/ Stays) /\ (E!Focused' /\ ~E!Focused => Starts)
           /\ (Starts /\ ~Stays => E!Focused')
  BY GoIs DEF E!Back

\* A sheet opens on a row that is up.
Opens ==
    \E n \in DOMAIN shown.expenses :
        sheet' = E!EditSheet(shown.expenses[n].id, PrefillOf(shown.expenses[n]))

\* The requests, when a sheet that is up has closed.
Left == IF sheet = E!NoSheet THEN req ELSE E!Orphaned

LEMMA MovesAre ==
    ASSUME TabTyped, E!PressTab \/ E!Retry \/ E!openLogSheet \/ E!openEditSheet \/ E!Close
                     \/ \E q \in Req : E!Succeeds(q)
    PROVE  /\ UNCHANGED <<E!server, switch>>
           /\ Starts \/ Stays
           /\ E!Focused' /\ ~E!Focused => Starts
           /\ Starts /\ ~Stays => E!Focused'
           /\ \/ sheet' = E!NoSheet
              \/ sheet = E!NoSheet /\ sheet' = E!LogSheet
              \/ E!ListUp /\ Opens /\ Stays
           /\ \/ req' = req /\ sheet = E!NoSheet
              \/ req' = E!Orphaned /\ sheet' = E!NoSheet
              \/ \E q \in Req : /\ req' = [Left EXCEPT ![q] = E!NoReq]
                                 /\ sheet' = E!NoSheet
  <1>1. CASE E!PressTab
    BY <1>1, GoIs DEF E!PressTab
  <1>2. CASE E!Retry
    BY <1>2 DEF E!Retry, E!RetryUp, E!Focused, Starts, E!StartLoad
  <1>3. CASE E!openLogSheet
    BY <1>3, GoIs DEF E!openLogSheet
  <1>4. CASE E!openEditSheet
    <2>1. PICK n \in DOMAIN shown.expenses :
              E!Go(tab, E!EditSheet(shown.expenses[n].id, PrefillOf(shown.expenses[n])))
      BY <1>4 DEF E!openEditSheet, PrefillOf
    <2>2. E!ListUp /\ UNCHANGED <<E!server, req, switch>> /\ sheet = E!NoSheet
      BY <1>4 DEF E!openEditSheet, E!ListUp, E!Focused
    <2>3. E!EditSheet(shown.expenses[n].id, PrefillOf(shown.expenses[n])) # E!NoSheet
      BY DEF E!EditSheet, E!NoSheet
    <2>4. Stays
      BY <2>1, <2>3 DEF E!Go, Stays
    <2> QED
      BY <2>1, <2>2, <2>3, <2>4, GoIs DEF Opens
  <1>5. CASE E!Close
    BY <1>5, BackIs DEF E!Close
  <1>6. ASSUME NEW q \in Req, E!Succeeds(q)
        PROVE  /\ UNCHANGED <<E!server, switch>> /\ E!Back
               /\ req' = [Left EXCEPT ![q] = E!NoReq]
    BY <1>6 DEF E!Succeeds, Left
  <1>7. CASE \E q \in Req : E!Succeeds(q)
    BY <1>6, <1>7, BackIs
  <1> QED
    BY <1>1, <1>2, <1>3, <1>4, <1>5, <1>7

\* What a read leaves of the other loads and of its own.
LEMMA ReadsAre ==
    ASSUME TabTyped, NEW l \in Load,
           E!ReadListCurrency(l) \/ E!ReadList(l) \/ E!ReadCurrency(l)
             \/ \E p \in E!Part : E!ReadPart(l, p)
    PROVE  /\ UNCHANGED <<E!server, E!device, req, switch, E!history>>
           /\ load' \in [Load -> Loads] /\ \A k \in Load \ {l} : load'[k] = load[k]
           /\ LoadOK(load'[l])
           /\ load'[l].torn = load[l].torn
           /\ load'[l].listCurrency \in {load[l].listCurrency, preferred}
           /\ load'[l].currency \in {load[l].currency, preferred}
           /\ load'[l].list \in {load[l].list, ListAt(rows, load[l].listCurrency)}
           /\ \A p \in E!Part :
                 load'[l].part[p] \in {load[l].part[p], PartAt(rows, load[l].currency, p)}
           /\ load[l].list # NotRead => load'[l].list = load[l].list
           /\ load[l].listCurrency = NotRead => load'[l].list = load[l].list
           /\ \A p \in E!Part :
                 load[l].currency = NotRead => load'[l].part[p] = load[l].part[p]
           /\ load[l].listCurrency # NotRead => load'[l].listCurrency = load[l].listCurrency
           /\ load[l].currency # NotRead => load'[l].currency = load[l].currency
           /\ \A p \in E!Part : load[l].part[p] # NotRead => load'[l].part[p] = load[l].part[p]
  <1>1. UNCHANGED <<E!server, E!device, req, switch, E!history>>
    BY DEF E!ReadListCurrency, E!ReadList, E!ReadCurrency, E!ReadPart
  <1>2. /\ load \in [Load -> Loads] /\ load[l] \in Loads /\ LoadOK(load[l])
        /\ rows \in Table /\ preferred \in Currency
    BY DEF TabTyped
  <1>3. CASE E!ReadListCurrency(l)
    <2>1. load' = [load EXCEPT ![l] = [load[l] EXCEPT !.listCurrency = preferred]]
          /\ load[l].listCurrency = NotRead
      BY <1>2, <1>3 DEF E!ReadListCurrency
    <2>2. LET r == [load[l] EXCEPT !.listCurrency = preferred]
          IN  r \in Loads /\ r.listCurrency = preferred /\ r.list = load[l].list
              /\ r.currency = load[l].currency /\ r.part = load[l].part
              /\ r.torn = load[l].torn
      BY <1>2 DEF Loads
    <2>3. load[l].list = NotRead
      BY <1>2, <2>1 DEF LoadOK
    <2> QED
      BY <1>1, <1>2, <2>1, <2>2, <2>3 DEF LoadOK
  <1>4. CASE E!ReadList(l)
    <2> DEFINE list == ListAt(rows, load[l].listCurrency)
    <2>1. load' = [load EXCEPT ![l] = [load[l] EXCEPT !.list = list]]
          /\ load[l].list = NotRead /\ load[l].listCurrency # NotRead
      BY <1>2, <1>4, ReadsAt DEF E!ReadList
    <2>2. list \in Lists
      BY <1>2, <2>1 DEF Lists, Loads
    <2> HIDE DEF list
    <2>3. LET r == [load[l] EXCEPT !.list = list]
          IN  r \in Loads /\ r.listCurrency = load[l].listCurrency /\ r.list = list
              /\ r.currency = load[l].currency /\ r.part = load[l].part
              /\ r.torn = load[l].torn
      BY <1>2, <2>2 DEF Loads
    <2> QED
      BY <1>1, <1>2, <2>1, <2>3 DEF LoadOK, list
  <1>5. CASE E!ReadCurrency(l)
    <2>1. load' = [load EXCEPT ![l] = [load[l] EXCEPT !.currency = preferred]]
          /\ load[l].currency = NotRead
      BY <1>2, <1>5 DEF E!ReadCurrency
    <2>2. LET r == [load[l] EXCEPT !.currency = preferred]
          IN  r \in Loads /\ r.listCurrency = load[l].listCurrency /\ r.list = load[l].list
              /\ r.currency = preferred /\ r.part = load[l].part /\ r.torn = load[l].torn
      BY <1>2 DEF Loads
    <2>3. \A p \in E!Part : load[l].part[p] = NotRead
      BY <1>2, <2>1 DEF LoadOK
    <2> QED
      BY <1>1, <1>2, <2>1, <2>2, <2>3 DEF LoadOK
  <1>6. ASSUME NEW p \in E!Part, E!ReadPart(l, p)
        PROVE  LET sum == PartAt(rows, load[l].currency, p) IN
               /\ load[l].part[p] = NotRead /\ load[l].currency # NotRead
               /\ \E r \in Loads :
                     /\ load' = [load EXCEPT ![l] = r]
                     /\ r.listCurrency = load[l].listCurrency /\ r.list = load[l].list
                     /\ r.currency = load[l].currency /\ r.torn = load[l].torn
                     /\ r.part[p] = sum
                     /\ \A o \in E!Part : o # p => r.part[o] = load[l].part[o]
    <2> DEFINE sum == PartAt(rows, load[l].currency, p)
               part == [load[l].part EXCEPT ![p] = sum]
    <2>1. load' = [load EXCEPT ![l] = [load[l] EXCEPT !.part = part]]
          /\ load[l].part[p] = NotRead /\ load[l].currency # NotRead
      BY <1>2, <1>6, ReadsAt DEF E!ReadPart
    <2>2. sum \in Sums
      BY <1>2, <2>1 DEF Sums, Loads
    <2> HIDE DEF sum
    <2>3. load[l].part \in [E!Part -> Sums \cup {NotRead}]
      BY <1>2 DEF Loads
    <2>4. /\ part \in [E!Part -> Sums \cup {NotRead}] /\ part[p] = sum
          /\ \A o \in E!Part : o # p => part[o] = load[l].part[o]
      BY <2>2, <2>3
    <2> HIDE DEF part
    <2>5. LET r == [load[l] EXCEPT !.part = part]
          IN  r \in Loads /\ r.listCurrency = load[l].listCurrency /\ r.list = load[l].list
              /\ r.currency = load[l].currency /\ r.part = part /\ r.torn = load[l].torn
      BY <1>2, <2>4 DEF Loads
    <2> QED
      BY <2>1, <2>4, <2>5 DEF sum
  <1>7. CASE \E p \in E!Part : E!ReadPart(l, p)
    BY <1>1, <1>2, <1>6, <1>7 DEF LoadOK
  <1> QED
    BY <1>3, <1>4, <1>5, <1>7

\* What is stored is a table, and marks the loads that it tears.
LEMMA Outcomes ==
    ASSUME TabTyped, NEW q \in Req, req[q].kind = "create" => req[q].value \in E!Expense,
           req[q].id \in E!Live /\ req[q].kind # "delete" => req[q].value \in E!Expense
    PROVE  E!Outcome(req[q]) \in Table
  <1>1. rows \in Table /\ rows \in Seq(E!Expense \cup {Deleted})
    BY DEF TabTyped, Table
  <1>2. CASE req[q].kind = "create"
    BY <1>1, <1>2 DEF E!Outcome, Table
  <1>3. CASE req[q].kind # "create" /\ req[q].id \in E!Live
    <2>1. req[q].id \in DOMAIN rows /\ rows[req[q].id] \in E!Expense
      BY <1>1, <1>3 DEF E!Live, E!Id
    <2>2. \A e \in E!Expense \cup {Deleted} : [rows EXCEPT ![req[q].id] = e] \in Table
      BY <1>1, <2>1 DEF Table
    <2>3. req[q].kind # "delete" =>
              [req[q].value EXCEPT !.amount = rows[req[q].id].amount] \in E!Expense
      BY <1>3, <2>1 DEF E!Expense
    <2> QED
      BY <1>3, <2>2, <2>3 DEF E!Outcome
  <1>4. CASE req[q].kind # "create" /\ req[q].id \notin E!Live
    BY <1>1, <1>4 DEF E!Outcome
  <1> QED
    BY <1>2, <1>3, <1>4


\* The loads that a store meets; a request of the sheet that was served.
Torn ==
    [l \in Load |-> [load[l] EXCEPT !.torn = @ \/ (E!Begun(load[l]) /\ ~E!Complete(load[l]))]]
Answered == \E q \in Req : req[q].own /\ req[q].phase = "done"

\* The sheet counts what it logged.
Counted(q) ==
    IF req[q].own /\ req[q].kind = "create" THEN [sheet EXCEPT !.logged = @ + 1] ELSE sheet

\* A request that its sheet waits for is served behind that sheet.
LEMMA ServedIs ==
    ASSUME TabTyped, NEW q \in Req, E!Served(q)
    PROVE  /\ rows' \in Table /\ preferred' = preferred /\ load' = Torn
           /\ UNCHANGED <<tab, shown, switch, newest, overtaken>>
           /\ req[q].phase = "sent" /\ req[q].kind # "none"
           /\ \E phase \in {"done", "refused"} :
                 /\ req' = [req EXCEPT ![q] = [req[q] EXCEPT !.phase = phase]]
                 /\ rows' = rows \/ phase = "done"
                 /\ req[q].kind = "create" => phase = "done"
           /\ sheet' = Counted(q)
           /\ unattended' = (unattended \/ ~req[q].own)
  <1>1. /\ req \in [Req -> Reqs] /\ req[q] \in Reqs /\ ReqOK(req[q]) /\ req[q].phase = "sent"
        /\ E!Store(E!Outcome(req[q]), preferred)
    BY DEF TabTyped, E!Served
  <1>2. req[q].kind \in {"create", "update", "delete"}
    BY <1>1 DEF ReqOK, Reqs
  <1>3. E!Outcome(req[q]) \in Table
    BY <1>1, <1>2, Outcomes DEF ReqOK
  <1>4. rows' = E!Outcome(req[q]) /\ preferred' = preferred /\ load' = Torn
    BY <1>1 DEF E!Store, Torn
  <1>5. req[q].kind # "create" /\ req[q].id \notin E!Live => E!Outcome(req[q]) = rows
    BY DEF E!Outcome
  <1>6. req' = [req EXCEPT ![q] = [req[q] EXCEPT !.phase =
            IF req[q].kind = "create" \/ req[q].id \in E!Live THEN "done" ELSE "refused"]]
    BY <1>1 DEF E!Served
  <1>7. UNCHANGED <<tab, shown, switch, newest, overtaken>>
        /\ unattended' = (unattended \/ ~req[q].own)
        /\ sheet' = Counted(q)
    BY DEF E!Served, Counted
  <1>8. \E phase \in {"done", "refused"} :
            /\ req' = [req EXCEPT ![q] = [req[q] EXCEPT !.phase = phase]]
            /\ rows' = rows \/ phase = "done"
            /\ req[q].kind = "create" => phase = "done"
    <2>1. CASE req[q].kind = "create" \/ req[q].id \in E!Live
      BY <1>6, <2>1
    <2>2. CASE ~(req[q].kind = "create" \/ req[q].id \in E!Live)
      BY <1>4, <1>5, <1>6, <2>2
    <2> QED
      BY <2>1, <2>2
  <1> QED
    BY <1>1, <1>2, <1>3, <1>4, <1>7, <1>8

\* Everything else that is stored finds nobody to reload for it, or not the tab.
Apart == E!SwitchServed \/ E!Elsewhere \/ \E q \in Req : E!ServedLate(q)

LEMMA ApartIs ==
    ASSUME TabTyped, Apart
    PROVE  /\ rows' \in Table /\ preferred' \in Currency /\ load' = Torn
           /\ UNCHANGED <<E!device, newest, overtaken>>
           /\ switch' \in {switch, E!NoSwitch}
           /\ \/ req' = req
              \/ \E q \in Req : req[q].phase = "lost" /\ req' = [req EXCEPT ![q] = E!NoReq]
           /\ unattended' \in BOOLEAN /\ (unattended => unattended')
           /\ tab = "expenses" => unattended'
           /\ rows' = rows \/ unattended'
  <1>1. /\ rows \in Table /\ preferred \in Currency /\ unattended \in BOOLEAN
        /\ \A q \in Req : req[q] \in Reqs /\ ReqOK(req[q])
        /\ Day \subseteq Date
        /\ switch # E!NoSwitch => switch.to \in Currency
    BY DEF TabTyped, Given
  <1>2. CASE E!SwitchServed
    <2>1. rows' = rows /\ preferred' = switch.to /\ load' = Torn /\ switch # E!NoSwitch
      BY <1>2 DEF E!SwitchServed, E!Store, Torn
    <2> QED
      BY <1>1, <1>2, <2>1 DEF E!SwitchServed
  <1>3. CASE E!Elsewhere
    <2>1. PICK id \in E!Live, visibility \in Visibility, day \in Day \cup {Deleted} :
              /\ rows' = [rows EXCEPT ![id] = IF day = Deleted THEN Deleted
                    ELSE [rows[id] EXCEPT !.visibility = visibility, !.date = day]]
              /\ preferred' = preferred /\ load' = Torn
      BY <1>3 DEF E!Elsewhere, E!Store, Torn
    <2>2. /\ rows \in Seq(E!Expense \cup {Deleted})
          /\ id \in DOMAIN rows /\ rows[id] \in E!Expense
      BY <1>1 DEF E!Live, E!Id, Table
    <2>3. CASE day = Deleted
      <3>1. rows' = [rows EXCEPT ![id] = Deleted] /\ preferred' = preferred /\ load' = Torn
        BY <2>1, <2>3
      <3>2. rows' \in Table
        BY <2>2, <3>1 DEF Table
      <3> QED
        BY <1>1, <1>3, <3>1, <3>2 DEF E!Elsewhere
    <2>4. CASE day # Deleted
      <3>1. /\ rows' = [rows EXCEPT ![id] =
                            [rows[id] EXCEPT !.visibility = visibility, !.date = day]]
            /\ preferred' = preferred /\ load' = Torn
        BY <2>1, <2>4
      <3>2. [rows[id] EXCEPT !.visibility = visibility, !.date = day] \in E!Expense
        BY <1>1, <2>2, <2>4 DEF E!Expense
      <3>3. \A e \in E!Expense : [rows EXCEPT ![id] = e] \in Table
        BY <2>2 DEF Table
      <3>4. rows' \in Table
        BY <3>1, <3>2, <3>3
      <3> QED
        BY <1>1, <1>3, <3>1, <3>4 DEF E!Elsewhere
    <2> QED
      BY <2>3, <2>4
  <1>4. ASSUME NEW q \in Req, E!ServedLate(q)
        PROVE  /\ rows' \in Table /\ preferred' = preferred /\ load' = Torn /\ unattended'
               /\ unattended' \in BOOLEAN
               /\ UNCHANGED <<E!device, switch, newest, overtaken>>
               /\ req[q].phase = "lost" /\ req' = [req EXCEPT ![q] = E!NoReq]
    <2>1. req[q] \in Reqs /\ ReqOK(req[q]) /\ req[q].phase = "lost"
      BY <1>1, <1>4 DEF E!ServedLate
    <2>2. req[q].kind \in {"create", "update", "delete"}
      BY <2>1 DEF ReqOK, Reqs
    <2>3. E!Outcome(req[q]) \in Table
      BY <2>1, <2>2, Outcomes DEF ReqOK
    <2> QED
      BY <1>4, <2>1, <2>3 DEF E!ServedLate, E!Store, Torn
  <1>5. CASE \E q \in Req : E!ServedLate(q)
    BY <1>1, <1>4, <1>5
  <1> QED
    BY <1>2, <1>3, <1>5 DEF Apart

\* A sheet sends one request more.
Asks == \E q \in Req : E!submit(q) \/ E!save(q) \/ E!confirmDelete(q)

LEMMA AsksIs ==
    ASSUME TabTyped, Asks
    PROVE  /\ UNCHANGED <<E!server, E!device, load, switch, E!history>>
           /\ sheet.kind # "none"
           /\ \E q \in Req, r \in Reqs :
                 /\ req[q] = E!NoReq /\ req' = [req EXCEPT ![q] = r]
                 /\ ReqOK(r) /\ r.kind # "none" /\ r.own /\ r.phase = "sent"
                 /\ r.kind = "delete" \/ ~E!Submitting
  <1>1. /\ sheet \in Sheets /\ (sheet.kind = "edit" => sheet.prefill \in E!Expense)
        /\ Day \subseteq Date
    BY DEF TabTyped, Given
  <1>2. ASSUME NEW q \in Req, NEW kind \in {"create", "update", "delete"}, NEW value,
               E!Ask(q, kind, value), sheet.kind # "none",
               kind = "delete" \/ ~E!Submitting,
               value \in E!Expense \/ (kind = "delete" /\ value = Deleted)
        PROVE  /\ UNCHANGED <<E!server, E!device, load, switch, E!history>>
               /\ sheet.kind # "none"
               /\ \E o \in Req, r \in Reqs :
                     /\ req[o] = E!NoReq /\ req' = [req EXCEPT ![o] = r]
                     /\ ReqOK(r) /\ r.kind # "none" /\ r.own /\ r.phase = "sent"
                     /\ r.kind = "delete" \/ ~E!Submitting
    <2> DEFINE r == [kind |-> kind, own |-> TRUE, id |-> sheet.id, value |-> value,
                     phase |-> "sent"]
    <2>1. req[q] = E!NoReq /\ req' = [req EXCEPT ![q] = r]
          /\ UNCHANGED <<E!server, E!device, load, switch, E!history>>
      BY <1>2 DEF E!Ask
    <2>2. sheet.id \in Nat
      BY <1>1 DEF Sheets
    <2>3. r \in Reqs /\ r.kind = kind /\ r.own /\ r.phase = "sent" /\ r.value = value
      BY <1>2, <2>2 DEF Reqs
    <2>4. ReqOK(r)
      BY <1>2, <2>3 DEF ReqOK
    <2> QED
      BY <1>2, <2>1, <2>3, <2>4
  <1>3. ASSUME NEW q \in Req, E!submit(q)
        PROVE  \E value \in E!Expense :
                   E!Ask(q, "create", value) /\ sheet.kind # "none" /\ ~E!Submitting
    <2>1. PICK text \in Text, category \in E!Category, visibility \in Visibility, day \in Day :
              /\ E!parseAmountInput(text, Locale0) # E!NotAnAmount
              /\ E!Ask(q, "create", [amount |-> E!Stored(E!parseAmountInput(text, Locale0)),
                                   category |-> category, visibility |-> visibility,
                                   date |-> day])
      BY <1>3 DEF E!submit
    <2>2. E!Stored(E!parseAmountInput(text, Locale0)) \in E!Amount
      BY <2>1 DEF E!Amount
    <2>3. [amount |-> E!Stored(E!parseAmountInput(text, Locale0)), category |-> category,
           visibility |-> visibility, date |-> day] \in E!Expense
      BY <1>1, <2>2 DEF E!Expense
    <2>4. sheet.kind # "none" /\ ~E!Submitting
      BY <1>3 DEF E!submit, E!SubmitEnabled
    <2> QED
      BY <2>1, <2>3, <2>4
  <1>4. ASSUME NEW q \in Req, E!save(q)
        PROVE  \E value \in E!Expense :
                   E!Ask(q, "update", value) /\ sheet.kind # "none" /\ ~E!Submitting
    <2>1. PICK category \in E!Category, visibility \in Visibility, day \in Day :
              E!Ask(q, "update", [[[sheet.prefill EXCEPT !.category = category] EXCEPT
                                   !.visibility = visibility] EXCEPT !.date = day])
      BY <1>4 DEF E!save
    <2>2. sheet.kind = "edit" /\ ~E!Submitting
      BY <1>4 DEF E!save, E!SubmitEnabled
    <2>3. [sheet.prefill EXCEPT !.category = category, !.visibility = visibility, !.date = day]
             \in E!Expense
      BY <1>1, <2>2 DEF E!Expense
    <2> QED
      BY <2>1, <2>2, <2>3
  <1>5. ASSUME NEW q \in Req, E!confirmDelete(q)
        PROVE  E!Ask(q, "delete", Deleted) /\ sheet.kind # "none"
    BY <1>5 DEF E!confirmDelete
  <1> QED
    BY <1>2, <1>3, <1>4, <1>5 DEF Asks

\* A request ends without its sheet.
Drops == \E q \in Req : E!Fails(q) \/ E!NeverServed(q)

LEMMA DropsIs ==
    ASSUME TabTyped, Drops
    PROVE  /\ UNCHANGED <<E!server, tab, shown, load, switch, E!history>>
           /\ \E q \in Req, r \in Reqs :
                 /\ req' = [req EXCEPT ![q] = r] /\ ReqOK(r) /\ ~r.own
                 /\ sheet' = IF req[q].own /\ req[q].phase # "refused"
                             THEN [sheet EXCEPT !.lost = TRUE] ELSE sheet
  <1>1. \A q \in Req : req[q] \in Reqs /\ ReqOK(req[q])
    BY DEF TabTyped
  <1>2. E!NoReq \in Reqs /\ ReqOK(E!NoReq) /\ ~E!NoReq.own
    BY DEF E!NoReq, Reqs, ReqOK
  <1>3. ASSUME NEW q \in Req, E!Fails(q)
        PROVE  /\ UNCHANGED <<E!server, tab, shown, load, switch, E!history>>
               /\ \E r \in Reqs : req' = [req EXCEPT ![q] = r] /\ ReqOK(r) /\ ~r.own
               /\ sheet' = IF req[q].own /\ req[q].phase # "refused"
                           THEN [sheet EXCEPT !.lost = TRUE] ELSE sheet
    <2>1. CASE req' = [req EXCEPT ![q] = E!NoReq]
      BY <1>2, <1>3, <2>1 DEF E!Fails
    <2>2. CASE /\ req[q].phase = "sent"
               /\ req' = [req EXCEPT ![q].own = FALSE, ![q].phase = "lost"]
      <3> DEFINE r == [req[q] EXCEPT !.own = FALSE, !.phase = "lost"]
      <3>1. r \in Reqs /\ ~r.own /\ ReqOK(r)
        BY <1>1, <2>2 DEF Reqs, ReqOK
      <3>2. req' = [req EXCEPT ![q] = r]
        BY <2>2 DEF TabTyped
      <3> QED
        BY <1>3, <3>1, <3>2 DEF E!Fails
    <2> QED
      BY <1>3, <2>1, <2>2 DEF E!Fails
  <1>4. ASSUME NEW q \in Req, E!NeverServed(q)
        PROVE  /\ UNCHANGED <<E!server, tab, sheet, shown, load, switch, E!history>>
               /\ req' = [req EXCEPT ![q] = E!NoReq] /\ ~req[q].own
    BY <1>1, <1>4 DEF E!NeverServed, ReqOK, E!device
  <1>5. CASE \E q \in Req : E!Fails(q)
    BY <1>3, <1>5
  <1>6. CASE \E q \in Req : E!NeverServed(q)
    BY <1>2, <1>4, <1>6
  <1> QED
    BY <1>5, <1>6 DEF Drops

\* An answer to the tab, or none.
Arrives == \E l \in Load : E!LoadArrives(l) \/ E!LoadFails(l)

LEMMA ArrivesIs ==
    ASSUME TabTyped, Arrives
    PROVE  /\ UNCHANGED <<E!server, tab, sheet, req, switch, newest, unattended>>
           /\ \E l \in Load :
                 /\ load' = [load EXCEPT ![l] = E!NoLoad]
                 /\ \/ shown' = E!Failed /\ overtaken' = overtaken
                    \/ /\ shown' \in Answers /\ E!Complete(load[l])
                       /\ shown'.expenses = load[l].list /\ shown'.torn = load[l].torn
                       /\ shown'.statistics = load[l].part
                       /\ overtaken' = (l # newest)
  <1>1. ASSUME NEW l \in Load, E!LoadArrives(l)
        PROVE  /\ UNCHANGED <<E!server, tab, sheet, req, switch, newest, unattended>>
               /\ load' = [load EXCEPT ![l] = E!NoLoad]
               /\ shown' \in Answers /\ E!Complete(load[l])
               /\ shown'.expenses = load[l].list /\ shown'.torn = load[l].torn
               /\ shown'.statistics = load[l].part
               /\ overtaken' = (l # newest)
    <2>1. /\ E!Complete(load[l]) /\ load[l] \in Loads
          /\ shown' = [status |-> "loaded", expenses |-> load[l].list, torn |-> load[l].torn,
                       statistics |-> load[l].part]
      BY <1>1 DEF E!LoadArrives, TabTyped
    <2>2. load[l].list \in Lists /\ load[l].torn \in BOOLEAN
          /\ load[l].part \in [E!Part -> Sums \cup {NotRead}]
      BY <2>1 DEF E!Complete, Loads
    <2>3. load[l].part \in [E!Part -> Sums]
      BY <2>1, <2>2 DEF E!Complete
    <2> QED
      BY <1>1, <2>1, <2>2, <2>3 DEF E!LoadArrives, Answers
  <1>2. ASSUME NEW l \in Load, E!LoadFails(l)
        PROVE  /\ UNCHANGED <<E!server, tab, sheet, req, switch, newest, unattended>>
               /\ load' = [load EXCEPT ![l] = E!NoLoad]
               /\ shown' = E!Failed /\ overtaken' = overtaken
    BY <1>2 DEF E!LoadFails, E!history
  <1> QED
    BY <1>1, <1>2 DEF Arrives

\* The Profile tab, but for what the server stores.
Switches == E!onSelectCurrency \/ E!SwitchFails

LEMMA SwitchesIs ==
    ASSUME TabTyped, Switches
    PROVE  /\ UNCHANGED <<E!server, E!device, load, req, E!history>>
           /\ switch' # E!NoSwitch => switch'.to \in Currency
  BY DEF Switches, E!onSelectCurrency, E!SwitchFails

Reads == \E l \in Load : E!ReadListCurrency(l) \/ E!ReadList(l) \/ E!ReadCurrency(l)
                         \/ \E p \in E!Part : E!ReadPart(l, p)
Moves == E!PressTab \/ E!Retry \/ E!openLogSheet \/ E!openEditSheet \/ E!Close
         \/ \E q \in Req : E!Succeeds(q)

LEMMA StepsAre ==
    ASSUME [E!Next]_(E!vars)
    PROVE  \/ Reads \/ Moves \/ Apart \/ Asks \/ Drops \/ Arrives \/ Switches
           \/ \E q \in Req : E!Served(q)
           \/ UNCHANGED E!vars
  BY DEF E!Next, Reads, Moves, Apart, Asks, Drops, Arrives, Switches

LEMMA StepTabTyped ==
    ASSUME TabTyped, [E!Next]_(E!vars)
    PROVE  TabTyped'
  <1>1. CASE Reads
    <2>1. PICK l \in Load : E!ReadListCurrency(l) \/ E!ReadList(l) \/ E!ReadCurrency(l)
                            \/ \E p \in E!Part : E!ReadPart(l, p)
      BY <1>1 DEF Reads
    <2>2. UNCHANGED <<E!server, E!device, req, switch, E!history>> /\ load' \in [Load -> Loads]
          /\ (\A k \in Load \ {l} : load'[k] = load[k]) /\ LoadOK(load'[l])
      BY <2>1, ReadsAre
    <2>3. \A k \in Load : LoadOK(load'[k])
      BY <2>2 DEF TabTyped
    <2> QED
      BY <2>2, <2>3 DEF TabTyped, E!server, E!device, E!history, Given, E!AmountsReturn
  <1>2. CASE Moves
    <2>1. /\ UNCHANGED E!server
          /\ Starts \/ Stays
          /\ \/ sheet' = E!NoSheet
             \/ sheet = E!NoSheet /\ sheet' = E!LogSheet
             \/ E!ListUp /\ Opens /\ Stays
          /\ \/ req' = req /\ sheet = E!NoSheet
             \/ req' = E!Orphaned /\ sheet' = E!NoSheet
             \/ \E q \in Req : /\ req' = [Left EXCEPT ![q] = E!NoReq]
                                /\ sheet' = E!NoSheet
          /\ switch' = switch
      BY <1>2, MovesAre DEF Moves
    <2>2. shown' \in {E!Loading, E!Failed} \cup Answers /\ load' \in [Load -> Loads]
          /\ (\A l \in Load : LoadOK(load'[l]))
          /\ newest' \in Load /\ overtaken' \in BOOLEAN /\ unattended' \in BOOLEAN
      <3>1. CASE Starts
        <4>1. PICK l \in Load : E!StartLoad(l)
          BY <3>1 DEF Starts
        <4> QED
          BY <4>1, FreshLoads DEF E!StartLoad, TabTyped
      <3>2. CASE Stays
        BY <3>2 DEF Stays, E!history, TabTyped
      <3> QED
        BY <2>1, <3>1, <3>2
    <2>3. sheet' \in Sheets /\ (sheet'.kind = "none" => sheet' = E!NoSheet)
          /\ (sheet'.kind = "edit" => sheet'.prefill \in E!Expense)
      <3>1. CASE sheet' = E!NoSheet
        BY <3>1 DEF E!NoSheet, Sheets
      <3>2. CASE sheet' = E!LogSheet
        BY <3>2 DEF E!LogSheet, E!NoSheet, Sheets
      <3>3. CASE E!ListUp /\ Opens
        <4>1. PICK n \in DOMAIN shown.expenses :
                  sheet' = E!EditSheet(shown.expenses[n].id, PrefillOf(shown.expenses[n]))
          BY <3>3 DEF Opens
        <4>2. shown.expenses \in Lists
          BY <3>3 DEF E!ListUp, TabTyped, Answers, E!Loading, E!Failed
        <4>3. PICK r \in Table, c \in Currency : shown.expenses = ListAt(r, c)
          BY <4>2 DEF Lists
        <4>4. shown.expenses[n].id \in Nat /\ PrefillOf(shown.expenses[n]) \in E!Expense
          BY <4>1, <4>3, PrefillIs DEF TabTyped
        <4>5. overtaken \in BOOLEAN
          BY DEF TabTyped
        <4> QED
          BY <4>1, <4>4, <4>5 DEF E!EditSheet, E!NoSheet, Sheets
      <3> QED
        BY <2>1, <3>1, <3>2, <3>3
    <2>4. req' \in [Req -> Reqs] /\ (\A q \in Req : ReqOK(req'[q]))
          /\ \A q \in Req : req'[q].own => sheet'.kind # "none"
      <3>1. /\ req \in [Req -> Reqs] /\ \A q \in Req : ReqOK(req[q])
            /\ \A q \in Req : req[q].own => sheet.kind # "none"
        BY DEF TabTyped
      <3>2. E!NoReq \in Reqs /\ ReqOK(E!NoReq) /\ ~E!NoReq.own
        BY DEF E!NoReq, Reqs, ReqOK
      <3>3. /\ E!Orphaned \in [Req -> Reqs]
            /\ \A q \in Req : ReqOK(E!Orphaned[q]) /\ ~E!Orphaned[q].own
        BY <3>1 DEF E!Orphaned, Reqs, ReqOK
      <3>4. sheet = E!NoSheet => \A q \in Req : ~req[q].own
        BY <3>1 DEF E!NoSheet
      <3>5. CASE req' = req /\ sheet = E!NoSheet
        BY <3>1, <3>4, <3>5
      <3>6. CASE req' = E!Orphaned
        BY <3>3, <3>6
      <3>7. CASE \E q \in Req : req' = [Left EXCEPT ![q] = E!NoReq]
        <4>1. PICK q \in Req : req' = [Left EXCEPT ![q] = E!NoReq]
          BY <3>7
        <4>2. CASE sheet = E!NoSheet
          BY <3>1, <3>2, <3>4, <4>1, <4>2 DEF Left
        <4>3. CASE sheet # E!NoSheet
          BY <3>2, <3>3, <4>1, <4>3 DEF Left
        <4> QED
          BY <4>2, <4>3
      <3> QED
        BY <2>1, <3>5, <3>6, <3>7
    <2> QED
      BY <2>1, <2>2, <2>3, <2>4 DEF TabTyped, E!server, Given, E!AmountsReturn
  <1>3. ASSUME load' = Torn
        PROVE  load' \in [Load -> Loads] /\ \A l \in Load : LoadOK(load'[l])
    <2>1. load \in [Load -> Loads] /\ \A l \in Load : LoadOK(load[l])
      BY DEF TabTyped
    <2>2. ASSUME NEW l \in Load
          PROVE  Torn[l] \in Loads /\ LoadOK(Torn[l])
      <3>1. load[l] \in Loads /\ LoadOK(load[l])
        BY <2>1
      <3>2. E!Begun(load[l]) \in BOOLEAN /\ E!Complete(load[l]) \in BOOLEAN
        BY DEF E!Begun, E!Complete
      <3>3. \A b \in BOOLEAN : [load[l] EXCEPT !.torn = b] \in Loads
                               /\ LoadOK([load[l] EXCEPT !.torn = b])
        BY <3>1 DEF Loads, LoadOK
      <3>4. (load[l].torn \/ (E!Begun(load[l]) /\ ~E!Complete(load[l]))) \in BOOLEAN
        BY <3>2
      <3> QED
        BY <3>3, <3>4 DEF Torn
    <2> QED
      BY <1>3, <2>2 DEF Torn
  <1>4. CASE \E q \in Req : E!Served(q)
    <2>1. PICK q \in Req : E!Served(q)
      BY <1>4
    <2>2. /\ rows' \in Table /\ preferred' = preferred /\ load' = Torn
          /\ UNCHANGED <<tab, shown, switch, newest, overtaken>>
          /\ req[q].phase = "sent" /\ req[q].kind # "none"
          /\ sheet' = Counted(q)
          /\ unattended' = (unattended \/ ~req[q].own)
      BY <2>1, ServedIs
    <2>3. PICK phase \in {"done", "refused"} :
              req' = [req EXCEPT ![q] = [req[q] EXCEPT !.phase = phase]]
      BY <2>1, ServedIs
    <2>4. req' \in [Req -> Reqs] /\ \A o \in Req : ReqOK(req'[o]) /\ req'[o].own = req[o].own
      <3>1. /\ req \in [Req -> Reqs] /\ \A o \in Req : ReqOK(req[o])
        BY DEF TabTyped
      <3>2. LET r == [req[q] EXCEPT !.phase = phase]
            IN  r \in Reqs /\ ReqOK(r) /\ r.own = req[q].own
        BY <2>2, <3>1 DEF Reqs, ReqOK
      <3> QED
        BY <2>3, <3>1, <3>2
    <2>5. sheet' \in Sheets /\ sheet'.kind = sheet.kind /\ sheet'.prefill = sheet.prefill
          /\ (sheet.kind = "none" => sheet' = sheet)
      <3>1. sheet \in Sheets /\ (req[q].own => sheet.kind # "none")
        BY DEF TabTyped
      <3> QED
        BY <2>2, <3>1 DEF Sheets, Counted
    <2>6. unattended' \in BOOLEAN
      BY <2>2 DEF TabTyped
    <2>7. load' \in [Load -> Loads] /\ \A l \in Load : LoadOK(load'[l])
      BY <1>3, <2>2
    <2> QED
      BY <2>2, <2>4, <2>5, <2>6, <2>7 DEF TabTyped, Given, E!AmountsReturn
  <1>5. CASE Apart
    <2>1. /\ rows' \in Table /\ preferred' \in Currency /\ load' = Torn
          /\ UNCHANGED <<E!device, newest, overtaken>>
          /\ switch' \in {switch, E!NoSwitch}
          /\ \/ req' = req
             \/ \E q \in Req : req[q].phase = "lost" /\ req' = [req EXCEPT ![q] = E!NoReq]
          /\ unattended' \in BOOLEAN
      BY <1>5, ApartIs
    <2>2. req' \in [Req -> Reqs] /\ (\A q \in Req : ReqOK(req'[q]))
          /\ \A q \in Req : req'[q].own => req[q].own
      <3>1. E!NoReq \in Reqs /\ ReqOK(E!NoReq) /\ ~E!NoReq.own
        BY DEF E!NoReq, Reqs, ReqOK
      <3> QED
        BY <2>1, <3>1 DEF TabTyped
    <2>3. load' \in [Load -> Loads] /\ \A l \in Load : LoadOK(load'[l])
      BY <1>3, <2>1
    <2> QED
      BY <2>1, <2>2, <2>3 DEF TabTyped, E!device, Given, E!AmountsReturn
  <1>6. CASE Asks
    <2>1. UNCHANGED <<E!server, E!device, load, switch, E!history>> /\ sheet.kind # "none"
      BY <1>6, AsksIs
    <2>2. PICK q \in Req, r \in Reqs : req' = [req EXCEPT ![q] = r] /\ ReqOK(r)
      BY <1>6, AsksIs
    <2> QED
      BY <2>1, <2>2 DEF TabTyped, E!server, E!device, E!history, Given, E!AmountsReturn
  <1>7. CASE Drops
    <2>1. UNCHANGED <<E!server, tab, shown, load, switch, E!history>>
      BY <1>7, DropsIs
    <2>2. PICK q \in Req, r \in Reqs :
              /\ req' = [req EXCEPT ![q] = r] /\ ReqOK(r) /\ ~r.own
              /\ sheet' = IF req[q].own /\ req[q].phase # "refused"
                          THEN [sheet EXCEPT !.lost = TRUE] ELSE sheet
      BY <1>7, DropsIs
    <2>3. sheet' \in Sheets /\ sheet'.kind = sheet.kind /\ sheet'.prefill = sheet.prefill
          /\ (sheet.kind = "none" => sheet' = sheet)
      BY <2>2 DEF TabTyped, Sheets
    <2>4. /\ req' \in [Req -> Reqs]
          /\ \A o \in Req : ReqOK(req'[o]) /\ (req'[o].own => req[o].own)
      BY <2>2 DEF TabTyped
    <2> QED
      BY <2>1, <2>3, <2>4 DEF TabTyped, E!server, E!history, Given, E!AmountsReturn
  <1>8. CASE Arrives
    <2>1. UNCHANGED <<E!server, tab, sheet, req, switch, newest, unattended>>
      BY <1>8, ArrivesIs
    <2>2. PICK l \in Load : /\ load' = [load EXCEPT ![l] = E!NoLoad]
                            /\ shown' \in {E!Failed} \cup Answers /\ overtaken' \in BOOLEAN
      BY <1>8, ArrivesIs DEF TabTyped
    <2> QED
      BY <2>1, <2>2, FreshLoads DEF TabTyped, E!server, Given, E!AmountsReturn
  <1>9. CASE Switches
    BY <1>9, SwitchesIs DEF TabTyped, E!server, E!device, E!history, Given, E!AmountsReturn
  <1>10. CASE UNCHANGED E!vars
    BY <1>10 DEF TabTyped, E!vars, E!server, E!device, E!history, Given, E!AmountsReturn
  <1> QED
    BY <1>1, <1>2, <1>4, <1>5, <1>6, <1>7, <1>8, <1>9, <1>10, StepsAre

----------------------------------------------------------------------------
\* What the newest load has read, and what is up, is the table as it is.
Fresh(r) ==
    r.listCurrency \in {NotRead, preferred} /\ r.list \in {NotRead, ListAt(rows, preferred)}
ListFollows ==
    E!Focused /\ ~unattended =>
        /\ Fresh(load[newest])
        /\ ~overtaken /\ shown.status = "loaded" => shown.expenses = ListAt(rows, preferred)
PrefillFollows ==
    sheet.kind = "edit" /\ ~sheet.lost /\ ~sheet.stale /\ ~unattended =>
        sheet.prefill = rows[sheet.id] \/ Answered

LEMMA StepListFollows ==
    ASSUME TabTyped, ListFollows, [E!Next]_(E!vars)
    PROVE  ListFollows'
  <1> SUFFICES ASSUME E!Focused', ~unattended'
               PROVE  /\ Fresh(load[newest])'
                      /\ ~overtaken' /\ shown'.status = "loaded" =>
                             shown'.expenses = ListAt(rows', preferred')
    BY DEF ListFollows, ListAt, LiveAt, DtoAt
  <1>1. newest \in Load /\ load \in [Load -> Loads] /\ preferred \in Currency
        /\ \A q \in Req : req[q].own => sheet.kind # "none"
    BY DEF TabTyped
  <1>2. CASE Reads
    <2>1. PICK l \in Load : E!ReadListCurrency(l) \/ E!ReadList(l) \/ E!ReadCurrency(l)
                            \/ \E p \in E!Part : E!ReadPart(l, p)
      BY <1>2 DEF Reads
    <2>2. UNCHANGED <<E!server, E!device, req, switch, E!history>>
          /\ (\A k \in Load \ {l} : load'[k] = load[k])
          /\ load'[l].listCurrency \in {load[l].listCurrency, preferred}
          /\ load'[l].list \in {load[l].list, ListAt(rows, load[l].listCurrency)}
          /\ (load[l].listCurrency = NotRead => load'[l].list = load[l].list)
      BY <2>1, ReadsAre
    <2>3. ListFollows /\ E!Focused /\ ~unattended
      BY <2>2 DEF E!Focused, E!device, E!history
    <2>4. Fresh(load[newest])'
      BY <1>1, <2>2, <2>3 DEF ListFollows, Fresh, E!server, E!history
    <2> QED
      BY <2>2, <2>3, <2>4 DEF ListFollows, E!server, E!device, E!history
  <1>3. CASE Moves
    <2>1. UNCHANGED E!server /\ (Starts \/ Stays) /\ (~E!Focused => Starts)
      BY <1>3, MovesAre DEF Moves
    <2>2. CASE Starts
      <3>1. PICK l \in Load : E!StartLoad(l)
        BY <2>2 DEF Starts
      <3>2. load'[newest'] = E!Sent /\ shown' = E!Loading
        BY <1>1, <3>1 DEF E!StartLoad
      <3> QED
        BY <3>2, FreshLoads DEF Fresh, E!Loading
    <2>3. CASE E!Focused /\ Stays
      BY <2>1, <2>3 DEF ListFollows, Stays, Fresh, E!server, E!history
    <2> QED
      BY <2>1, <2>2, <2>3
  <1>4. CASE \E q \in Req : E!Served(q)
    <2>1. PICK q \in Req : E!Served(q)
      BY <1>4
    <2>2. ~unattended /\ req[q].own /\ sheet'.kind = sheet.kind
      <3>1. unattended' = (unattended \/ ~req[q].own)
            /\ sheet' = Counted(q)
        BY <2>1, ServedIs
      <3> QED
        BY <3>1 DEF TabTyped, Sheets, Counted
    <2>3. sheet'.kind = "none"
      BY DEF E!Focused, E!NoSheet
    <2> QED
      BY <1>1, <2>2, <2>3
  <1>5. CASE Apart
    BY <1>5, ApartIs DEF E!Focused, E!device
  <1>6. CASE Asks \/ Drops \/ Switches
    <2>1. UNCHANGED <<E!server, tab, shown, load, E!history>> /\ sheet'.kind = sheet.kind
      <3>1. CASE Asks
        BY <3>1, AsksIs DEF E!device
      <3>2. CASE Drops
        BY <3>2, DropsIs DEF TabTyped, Sheets
      <3>3. CASE Switches
        BY <3>3, SwitchesIs DEF E!device
      <3> QED
        BY <1>6, <3>1, <3>2, <3>3
    <2>2. E!Focused
      BY <2>1 DEF E!Focused, E!NoSheet, TabTyped
    <2> QED
      BY <2>1, <2>2 DEF ListFollows, Fresh, E!server, E!history
  <1>7. CASE Arrives
    <2>1. UNCHANGED <<E!server, tab, sheet, req, switch, newest, unattended>>
      BY <1>7, ArrivesIs
    <2>2. PICK l \in Load :
              /\ load' = [load EXCEPT ![l] = E!NoLoad]
              /\ \/ shown' = E!Failed /\ overtaken' = overtaken
                 \/ /\ shown' \in Answers /\ E!Complete(load[l])
                    /\ shown'.expenses = load[l].list
                    /\ overtaken' = (l # newest)
      BY <1>7, ArrivesIs
    <2>3. ListFollows /\ E!Focused /\ ~unattended
      BY <2>1 DEF E!Focused
    <2>4. Fresh(load[newest])'
      BY <1>1, <2>1, <2>2, <2>3, FreshLoads DEF ListFollows, Fresh, E!server
    <2>5. ASSUME ~overtaken', shown'.status = "loaded"
          PROVE  shown'.expenses = ListAt(rows', preferred')
      <3>1. shown' # E!Failed
        BY <2>5 DEF E!Failed
      <3>2. E!Complete(load[newest]) /\ shown'.expenses = load[newest].list
        BY <2>2, <2>5, <3>1
      <3> QED
        BY <2>1, <2>3, <3>2 DEF ListFollows, Fresh, E!Complete, E!server
    <2> QED
      BY <2>4, <2>5
  <1>8. CASE UNCHANGED E!vars
    <2>1. E!Focused /\ ~unattended
      BY <1>8 DEF E!Focused, E!vars, E!device, E!history
    <2> QED
      BY <1>8, <2>1 DEF ListFollows, Fresh, E!vars, E!server, E!device, E!history
  <1> QED
    BY <1>2, <1>3, <1>4, <1>5, <1>6, <1>7, <1>8, StepsAre

LEMMA StepPrefillFollows ==
    ASSUME TabTyped, ListFollows, PrefillFollows, [E!Next]_(E!vars)
    PROVE  PrefillFollows'
  <1> SUFFICES ASSUME sheet'.kind = "edit", ~sheet'.lost, ~sheet'.stale, ~unattended'
               PROVE  sheet'.prefill = rows'[sheet'.id] \/ Answered'
    BY DEF PrefillFollows
  <1>1. CASE Reads \/ Arrives \/ Switches \/ UNCHANGED E!vars
    <2>1. UNCHANGED <<rows, sheet, req, unattended>>
      <3>1. CASE Reads
        BY <3>1, ReadsAre DEF Reads, E!server, E!device, E!history
      <3>2. CASE Arrives
        BY <3>2, ArrivesIs DEF E!server
      <3>3. CASE Switches
        BY <3>3, SwitchesIs DEF E!server, E!device, E!history
      <3>4. CASE UNCHANGED E!vars
        BY <3>4 DEF E!vars, E!server, E!device, E!history
      <3> QED
        BY <1>1, <3>1, <3>2, <3>3, <3>4
    <2> QED
      BY <2>1 DEF PrefillFollows, Answered
  <1>2. CASE Moves
    <2>1. UNCHANGED E!server /\ Stays /\ E!ListUp /\ Opens
      BY <1>2, MovesAre DEF Moves, E!NoSheet, E!LogSheet
    <2>2. PICK n \in DOMAIN shown.expenses :
              sheet' = E!EditSheet(shown.expenses[n].id, PrefillOf(shown.expenses[n]))
      BY <2>1 DEF Opens
    <2>3. sheet'.prefill = PrefillOf(shown.expenses[n]) /\ sheet'.id = shown.expenses[n].id
          /\ sheet'.stale = overtaken
      BY <2>2 DEF E!EditSheet, E!NoSheet
    <2>4. shown.expenses = ListAt(rows, preferred)
      BY <2>1, <2>3 DEF ListFollows, E!ListUp, Stays, E!history
    <2>5. PrefillOf(shown.expenses[n]) = rows[shown.expenses[n].id]
      BY <2>2, <2>4, PrefillIs DEF TabTyped
    <2> QED
      BY <2>1, <2>3, <2>5 DEF E!server
  <1>3. CASE \E q \in Req : E!Served(q)
    <2>1. PICK q \in Req : E!Served(q)
      BY <1>3
    <2>2. /\ req[q].phase = "sent"
          /\ sheet' = Counted(q)
          /\ unattended' = (unattended \/ ~req[q].own)
          /\ req[q] \in Reqs /\ req \in [Req -> Reqs] /\ sheet \in Sheets
      BY <2>1, ServedIs DEF TabTyped
    <2>3. PICK phase \in {"done", "refused"} :
                 /\ req' = [req EXCEPT ![q] = [req[q] EXCEPT !.phase = phase]]
                 /\ rows' = rows \/ phase = "done"
      BY <2>1, ServedIs
    <2>4. sheet'.kind = sheet.kind /\ sheet'.lost = sheet.lost /\ sheet'.stale = sheet.stale
          /\ sheet'.prefill = sheet.prefill /\ sheet'.id = sheet.id
      BY <2>2 DEF Sheets, Counted
    <2>5. ~unattended /\ req[q].own
      BY <2>2
    <2>6. CASE phase = "done"
      <3>1. req'[q].own /\ req'[q].phase = "done"
        BY <2>2, <2>3, <2>5, <2>6 DEF Reqs
      <3> QED
        BY <3>1 DEF Answered
    <2>7. CASE phase # "done"
      <3>1. rows' = rows
        BY <2>3, <2>7
      <3>2. sheet.prefill = rows[sheet.id] \/ Answered
        BY <2>4, <2>5 DEF PrefillFollows
      <3>3. Answered => Answered'
        BY <2>2, <2>3 DEF Answered
      <3> QED
        BY <2>4, <3>1, <3>2, <3>3
    <2> QED
      BY <2>6, <2>7
  <1>4. CASE Apart
    <2>1. rows' = rows /\ sheet' = sheet /\ ~unattended
          /\ \/ req' = req
             \/ \E q \in Req : req[q].phase = "lost" /\ req' = [req EXCEPT ![q] = E!NoReq]
      BY <1>4, ApartIs DEF E!device
    <2>2. Answered => Answered'
      BY <2>1 DEF Answered, TabTyped
    <2> QED
      BY <2>1, <2>2 DEF PrefillFollows
  <1>5. CASE Asks
    <2>1. UNCHANGED <<rows, sheet, unattended>>
      BY <1>5, AsksIs DEF E!server, E!device, E!history
    <2>2. PICK q \in Req, r \in Reqs : req[q] = E!NoReq /\ req' = [req EXCEPT ![q] = r]
      BY <1>5, AsksIs
    <2>3. Answered => Answered'
      BY <2>2 DEF Answered, TabTyped, E!NoReq
    <2> QED
      BY <2>1, <2>3 DEF PrefillFollows
  <1>6. CASE Drops
    <2>1. UNCHANGED <<rows, unattended>>
      BY <1>6, DropsIs DEF E!server, E!history
    <2>2. PICK q \in Req, r \in Reqs :
              /\ req' = [req EXCEPT ![q] = r]
              /\ sheet' = IF req[q].own /\ req[q].phase # "refused"
                          THEN [sheet EXCEPT !.lost = TRUE] ELSE sheet
      BY <1>6, DropsIs
    <2>3. sheet' = sheet /\ ~(req[q].own /\ req[q].phase # "refused")
      BY <2>2 DEF TabTyped, Sheets
    <2>4. Answered => Answered'
      BY <2>2, <2>3 DEF Answered, TabTyped
    <2> QED
      BY <2>1, <2>3, <2>4 DEF PrefillFollows
  <1> QED
    BY <1>1, <1>2, <1>3, <1>4, <1>5, <1>6, StepsAre

----------------------------------------------------------------------------
\* A sheet has one submission at most; what it logged is that one, and has arrived.
Submission(q) == req[q].own /\ req[q].kind # "delete"
Logged ==
    /\ \A q, o \in Req : Submission(q) /\ Submission(o) => q = o
    /\ ~sheet.lost => \/ sheet.logged = 0
                      \/ /\ sheet.logged = 1
                         /\ \E q \in Req : /\ req[q].own /\ req[q].kind = "create"
                                           /\ req[q].phase = "done"

LEMMA StepLogged ==
    ASSUME TabTyped, Logged, [E!Next]_(E!vars)
    PROVE  Logged'
  <1>1. /\ req \in [Req -> Reqs] /\ sheet \in Sheets
        /\ \A q \in Req : ReqOK(req[q]) /\ (req[q].own => sheet.kind # "none")
    BY DEF TabTyped
  <1>2. CASE Reads \/ Arrives \/ Switches \/ UNCHANGED E!vars
    <2>1. UNCHANGED <<sheet, req>>
      <3>1. CASE Reads
        BY <3>1, ReadsAre DEF Reads, E!device
      <3>2. CASE Arrives
        BY <3>2, ArrivesIs
      <3>3. CASE Switches
        BY <3>3, SwitchesIs DEF E!device
      <3>4. CASE UNCHANGED E!vars
        BY <3>4 DEF E!vars, E!device
      <3> QED
        BY <1>2, <3>1, <3>2, <3>3, <3>4
    <2> QED
      BY <2>1 DEF Logged, Submission
  <1>3. CASE Moves
    <2>1. /\ \/ sheet' = E!NoSheet
             \/ sheet = E!NoSheet /\ sheet' = E!LogSheet
             \/ E!ListUp /\ Opens /\ Stays
          /\ \/ req' = req /\ sheet = E!NoSheet
             \/ req' = E!Orphaned /\ sheet' = E!NoSheet
             \/ \E q \in Req : /\ req' = [Left EXCEPT ![q] = E!NoReq]
                                /\ sheet' = E!NoSheet
      BY <1>3, MovesAre DEF Moves
    <2>2. sheet'.logged = 0
      <3>1. E!NoSheet.logged = 0 /\ E!LogSheet.logged = 0
            /\ \A id, prefill : E!EditSheet(id, prefill).logged = 0
        BY DEF E!NoSheet, E!LogSheet, E!EditSheet
      <3> QED
        BY <2>1, <3>1 DEF Opens
    <2>3. \A q \in Req : ~E!Orphaned[q].own
      BY <1>1 DEF E!Orphaned, Reqs
    <2>4. sheet = E!NoSheet => \A q \in Req : ~req[q].own
      BY <1>1 DEF E!NoSheet
    <2>5. \A q \in Req : ~req'[q].own
      <3>1. CASE req' = req /\ sheet = E!NoSheet
        BY <2>4, <3>1
      <3>2. CASE req' = E!Orphaned
        BY <2>3, <3>2
      <3>3. CASE \E q \in Req : req' = [Left EXCEPT ![q] = E!NoReq]
        <4>1. PICK q \in Req : req' = [Left EXCEPT ![q] = E!NoReq]
          BY <3>3
        <4>2. ~E!NoReq.own
          BY DEF E!NoReq
        <4>3. E!Orphaned \in [Req -> {E!Orphaned[o] : o \in Req}]
          BY DEF E!Orphaned
        <4> QED
          BY <1>1, <2>3, <2>4, <4>1, <4>2, <4>3 DEF Left
      <3> QED
        BY <2>1, <3>1, <3>2, <3>3
    <2> QED
      BY <2>2, <2>5 DEF Logged, Submission
  <1>4. CASE \E q \in Req : E!Served(q)
    <2>1. PICK q \in Req : E!Served(q)
      BY <1>4
    <2>2. /\ req[q].phase = "sent"
          /\ sheet' = Counted(q)
      BY <2>1, ServedIs
    <2>3. PICK phase \in {"done", "refused"} :
                 /\ req' = [req EXCEPT ![q] = [req[q] EXCEPT !.phase = phase]]
                 /\ req[q].kind = "create" => phase = "done"
      BY <2>1, ServedIs
    <2>4. /\ \A o \in Req : req'[o].own = req[o].own /\ req'[o].kind = req[o].kind
          /\ \A o \in Req : o # q => req'[o] = req[o]
          /\ req'[q].phase = phase
      BY <1>1, <2>3 DEF Reqs
    <2>5. \A o, k \in Req : Submission(o)' /\ Submission(k)' => o = k
      BY <2>4 DEF Logged, Submission
    <2>6. CASE req[q].own /\ req[q].kind = "create"
      <3>1. /\ sheet'.lost = sheet.lost /\ sheet'.logged = sheet.logged + 1
            /\ sheet.logged \in Nat
        BY <1>1, <2>2, <2>6 DEF Sheets, Counted
      <3>2. ~sheet.lost => sheet.logged = 0
        BY <2>2, <2>6 DEF Logged, Submission
      <3>3. req'[q].own /\ req'[q].kind = "create" /\ req'[q].phase = "done"
        BY <2>3, <2>4, <2>6
      <3> QED
        BY <2>5, <3>1, <3>2, <3>3 DEF Logged
    <2>7. CASE ~(req[q].own /\ req[q].kind = "create")
      <3>1. sheet' = sheet
        BY <2>2, <2>7 DEF Counted
      <3> QED
        BY <2>4, <2>5, <2>7, <3>1 DEF Logged
    <2> QED
      BY <2>6, <2>7
  <1>5. CASE Apart
    <2>1. sheet' = sheet
          /\ \/ req' = req
             \/ \E q \in Req : req[q].phase = "lost" /\ req' = [req EXCEPT ![q] = E!NoReq]
      BY <1>5, ApartIs DEF E!device
    <2>2. CASE req' = req
      BY <2>1, <2>2 DEF Logged, Submission
    <2>3. CASE \E q \in Req : req[q].phase = "lost" /\ req' = [req EXCEPT ![q] = E!NoReq]
      BY <1>1, <2>1, <2>3 DEF Logged, Submission, E!NoReq
    <2> QED
      BY <2>1, <2>2, <2>3
  <1>6. CASE Asks
    <2>1. sheet' = sheet
      BY <1>6, AsksIs DEF E!device
    <2>2. PICK q \in Req, r \in Reqs :
              /\ req[q] = E!NoReq /\ req' = [req EXCEPT ![q] = r]
              /\ r.kind = "delete" \/ ~E!Submitting
      BY <1>6, AsksIs
    <2>3. \A o \in Req : o # q => req'[o] = req[o]
      BY <1>1, <2>2
    <2>4. req'[q] = r /\ ~req[q].own
      BY <1>1, <2>2 DEF E!NoReq
    <2>5. \A o, k \in Req : Submission(o)' /\ Submission(k)' => o = k
      <3>1. CASE r.kind = "delete"
        BY <2>3, <2>4, <3>1 DEF Logged, Submission
      <3>2. CASE ~E!Submitting
        BY <2>3, <3>2 DEF E!Submitting, Submission
      <3> QED
        BY <2>2, <3>1, <3>2
    <2> QED
      BY <2>1, <2>3, <2>4, <2>5 DEF Logged
  <1>7. CASE Drops
    <2>1. PICK q \in Req, r \in Reqs :
              /\ req' = [req EXCEPT ![q] = r] /\ ~r.own
              /\ sheet' = IF req[q].own /\ req[q].phase # "refused"
                          THEN [sheet EXCEPT !.lost = TRUE] ELSE sheet
      BY <1>7, DropsIs
    <2>2. req'[q] = r /\ \A o \in Req : o # q => req'[o] = req[o]
      BY <1>1, <2>1
    <2>3. \A o, k \in Req : Submission(o)' /\ Submission(k)' => o = k
      BY <2>1, <2>2 DEF Logged, Submission
    <2>4. CASE req[q].own /\ req[q].phase # "refused"
      <3>1. sheet'.lost
        BY <1>1, <2>1, <2>4 DEF Sheets
      <3> QED
        BY <2>3, <3>1 DEF Logged
    <2>5. CASE ~(req[q].own /\ req[q].phase # "refused")
      <3>1. sheet' = sheet
        BY <2>1, <2>5
      <3> QED
        BY <2>2, <2>3, <2>5, <3>1 DEF Logged
    <2> QED
      BY <2>4, <2>5
  <1> QED
    BY <1>2, <1>3, <1>4, <1>5, <1>6, <1>7, StepsAre

----------------------------------------------------------------------------
\* What a load that nothing has torn has read is the table as it is, or, once it has
\* read everything, the table as it was.
ReadOf(r, table, c) ==
    /\ r.listCurrency \in {NotRead, c} /\ r.currency \in {NotRead, c}
    /\ r.list \in {NotRead, ListAt(table, c)}
    /\ \A p \in E!Part : r.part[p] \in {NotRead, PartAt(table, c, p)}
OfOne(list, part) ==
    \E r \in Table, c \in Currency :
        list = ListAt(r, c) /\ \A p \in E!Part : part[p] = PartAt(r, c, p)
Sound(r, table, c) == ReadOf(r, table, c) \/ (E!Complete(r) /\ OfOne(r.list, r.part))
OneMoment ==
    /\ \A l \in Load : ~load[l].torn => Sound(load[l], rows, preferred)
    /\ shown.status = "loaded" /\ ~shown.torn => OfOne(shown.expenses, shown.statistics)

LEMMA NowComplete ==
    ASSUME TabTyped, NEW l \in Load, ReadOf(load[l], rows, preferred), E!Complete(load[l])
    PROVE  OfOne(load[l].list, load[l].part)
  BY DEF TabTyped, ReadOf, E!Complete, OfOne

LEMMA TornMoment ==
    ASSUME TabTyped, OneMoment, load' = Torn, NEW l \in Load, ~load'[l].torn
    PROVE  Sound(load'[l], rows', preferred')
  <1>1. load[l] \in Loads /\ LoadOK(load[l])
    BY DEF TabTyped
  <1>2. /\ load'[l].list = load[l].list /\ load'[l].part = load[l].part
        /\ load'[l].listCurrency = load[l].listCurrency /\ load'[l].currency = load[l].currency
        /\ load'[l].torn = (load[l].torn \/ (E!Begun(load[l]) /\ ~E!Complete(load[l])))
    BY <1>1 DEF Torn, Loads
  <1>3. ~load[l].torn /\ (~E!Begun(load[l]) \/ E!Complete(load[l]))
    BY <1>2
  <1>4. CASE E!Complete(load[l])
    <2>1. OfOne(load[l].list, load[l].part)
      BY <1>3, <1>4, NowComplete DEF OneMoment, Sound
    <2>2. E!Complete(load'[l])
      BY <1>2, <1>4 DEF E!Complete
    <2> QED
      BY <1>2, <2>1, <2>2 DEF Sound
  <1>5. CASE ~E!Begun(load[l])
    BY <1>1, <1>2, <1>5 DEF E!Begun, LoadOK, ReadOf, Sound
  <1> QED
    BY <1>3, <1>4, <1>5

LEMMA StepOneMoment ==
    ASSUME TabTyped, OneMoment, [E!Next]_(E!vars)
    PROVE  OneMoment'
  <1> USE DEF OfOne
  <1>1. /\ load \in [Load -> Loads] /\ \A l \in Load : LoadOK(load[l])
        /\ preferred \in Currency
    BY DEF TabTyped
  <1>2. CASE Reads
    <2>1. PICK l \in Load : E!ReadListCurrency(l) \/ E!ReadList(l) \/ E!ReadCurrency(l)
                            \/ \E p \in E!Part : E!ReadPart(l, p)
      BY <1>2 DEF Reads
    <2>2. UNCHANGED <<rows, preferred, shown>> /\ \A k \in Load \ {l} : load'[k] = load[k]
      BY <2>1, ReadsAre DEF E!server, E!device
    <2>3. ASSUME ~load'[l].torn
          PROVE  Sound(load'[l], rows', preferred')
      <3>1. ~load[l].torn
        BY <2>1, <2>3, ReadsAre
      <3>2. CASE ReadOf(load[l], rows, preferred)
        <4>1. /\ load'[l].listCurrency \in {load[l].listCurrency, preferred}
              /\ load'[l].currency \in {load[l].currency, preferred}
              /\ load'[l].list \in {load[l].list, ListAt(rows, load[l].listCurrency)}
              /\ \A p \in E!Part :
                    load'[l].part[p] \in {load[l].part[p], PartAt(rows, load[l].currency, p)}
              /\ load[l].listCurrency = NotRead => load'[l].list = load[l].list
              /\ \A p \in E!Part :
                    load[l].currency = NotRead => load'[l].part[p] = load[l].part[p]
          BY <2>1, ReadsAre
        <4>2. /\ load'[l].listCurrency \in {NotRead, preferred}
              /\ load'[l].currency \in {NotRead, preferred}
              /\ load'[l].list \in {NotRead, ListAt(rows, preferred)}
          BY <3>2, <4>1 DEF ReadOf
        <4>3. \A p \in E!Part : load'[l].part[p] \in {NotRead, PartAt(rows, preferred, p)}
          BY <3>2, <4>1 DEF ReadOf
        <4> QED
          BY <2>2, <4>2, <4>3 DEF ReadOf, Sound
      <3>3. CASE E!Complete(load[l]) /\ OfOne(load[l].list, load[l].part)
        <4>1. /\ load'[l].list = load[l].list
              /\ \A p \in E!Part : load'[l].part[p] = load[l].part[p]
          BY <2>1, <3>3, ReadsAre DEF E!Complete
        <4> QED
          BY <3>3, <4>1 DEF E!Complete, Sound
      <3> QED
        BY <3>1, <3>2, <3>3 DEF OneMoment, Sound
    <2>4. ASSUME NEW k \in Load \ {l}, ~load'[k].torn
          PROVE  Sound(load'[k], rows', preferred')
      BY <2>2, <2>4 DEF OneMoment, Sound, ReadOf
    <2> QED
      BY <2>2, <2>3, <2>4 DEF OneMoment, Sound
  <1>3. CASE Moves
    <2>1. UNCHANGED E!server /\ (Starts \/ Stays)
      BY <1>3, MovesAre DEF Moves
    <2>2. CASE Starts
      <3>1. PICK l \in Load : E!StartLoad(l)
        BY <2>2 DEF Starts
      <3>2. load' = [load EXCEPT ![l] = E!Sent] /\ shown' = E!Loading
        BY <3>1 DEF E!StartLoad
      <3>3. ReadOf(load'[l], rows', preferred')
        BY <1>1, <3>2, FreshLoads DEF ReadOf
      <3>4. \A k \in Load \ {l} : load'[k] = load[k]
        BY <1>1, <3>2
      <3>5. \A k \in Load \ {l} :
              ReadOf(load[k], rows, preferred) => ReadOf(load'[k], rows', preferred')
        BY <2>1, <3>4 DEF ReadOf, E!server
      <3>6. shown'.status # "loaded"
        BY <3>2 DEF E!Loading
      <3> QED
        BY <3>3, <3>4, <3>5, <3>6 DEF OneMoment, Sound
    <2>3. CASE Stays
      BY <2>1, <2>3 DEF OneMoment, Sound, Stays, ReadOf, E!server, E!history
    <2> QED
      BY <2>1, <2>2, <2>3
  <1>4. CASE Apart \/ \E q \in Req : E!Served(q)
    <2>1. load' = Torn /\ shown' = shown
      <3>1. CASE Apart
        BY <3>1, ApartIs DEF E!device
      <3>2. CASE \E q \in Req : E!Served(q)
        BY <3>2, ServedIs
      <3> QED
        BY <1>4, <3>1, <3>2
    <2>2. \A l \in Load : ~load'[l].torn =>
              Sound(load'[l], rows', preferred')
      BY <2>1, TornMoment
    <2> QED
      BY <2>1, <2>2 DEF OneMoment, Sound
  <1>5. CASE Asks \/ Drops \/ Switches \/ UNCHANGED E!vars
    <2>1. UNCHANGED <<rows, preferred, shown, load>>
      <3>1. CASE Asks
        BY <3>1, AsksIs DEF E!server, E!device
      <3>2. CASE Drops
        BY <3>2, DropsIs DEF E!server
      <3>3. CASE Switches
        BY <3>3, SwitchesIs DEF E!server, E!device
      <3>4. CASE UNCHANGED E!vars
        BY <3>4 DEF E!vars, E!server, E!device
      <3> QED
        BY <1>5, <3>1, <3>2, <3>3, <3>4
    <2> QED
      BY <2>1 DEF OneMoment, Sound, ReadOf
  <1>6. CASE Arrives
    <2>1. UNCHANGED <<rows, preferred>>
      BY <1>6, ArrivesIs DEF E!server
    <2>2. PICK l \in Load :
              /\ load' = [load EXCEPT ![l] = E!NoLoad]
              /\ \/ shown' = E!Failed
                 \/ /\ E!Complete(load[l])
                    /\ shown'.expenses = load[l].list /\ shown'.torn = load[l].torn
                    /\ shown'.statistics = load[l].part
      BY <1>6, ArrivesIs
    <2>3. ReadOf(load'[l], rows', preferred') /\ \A k \in Load \ {l} : load'[k] = load[k]
      BY <1>1, <2>2, FreshLoads DEF ReadOf
    <2>4. \A k \in Load \ {l} :
              ReadOf(load[k], rows, preferred) => ReadOf(load'[k], rows', preferred')
      BY <2>1, <2>3 DEF ReadOf
    <2>5. shown'.status = "loaded" /\ ~shown'.torn => OfOne(shown'.expenses, shown'.statistics)
      <3>1. shown' = E!Failed => shown'.status # "loaded"
        BY DEF E!Failed
      <3>2. ASSUME E!Complete(load[l]), ~load[l].torn
            PROVE  OfOne(load[l].list, load[l].part)
        BY <3>2, NowComplete DEF OneMoment, Sound
      <3> QED
        BY <2>2, <3>1, <3>2
    <2> QED
      BY <2>3, <2>4, <2>5 DEF OneMoment, Sound
  <1> QED
    BY <1>2, <1>3, <1>4, <1>5, <1>6, StepsAre

----------------------------------------------------------------------------
\* Everything above, which every step keeps.
Always == TabTyped /\ ListFollows /\ PrefillFollows /\ Logged /\ OneMoment

LEMMA AlwaysHolds == Given /\ E!Spec => []Always
  <1>1. Given /\ E!Init => Always
    <2> SUFFICES ASSUME Given, E!Init PROVE Always
      OBVIOUS
    <2>1. TabTyped
      BY InitTabTyped
    <2>2. tab # "expenses" /\ sheet = E!NoSheet /\ shown.status # "loaded"
          /\ load = [l \in Load |-> E!NoLoad] /\ req = [q \in Req |-> E!NoReq]
      BY DEF E!Init, E!Loading
    <2>3. sheet.kind = "none" /\ sheet.logged = 0 /\ ~E!NoReq.own
      BY <2>2 DEF E!NoSheet, E!NoReq
    <2>4. ListFollows /\ PrefillFollows
      BY <2>2, <2>3 DEF ListFollows, PrefillFollows, E!Focused
    <2>5. Logged
      BY <2>2, <2>3 DEF Logged, Submission
    <2>6. OneMoment
      BY <2>2, FreshLoads DEF OneMoment, Sound, ReadOf
    <2> QED
      BY <2>1, <2>4, <2>5, <2>6 DEF Always
  <1>2. Always /\ [E!Next]_(E!vars) => Always'
    BY StepTabTyped, StepListFollows, StepPrefillFollows, StepLogged, StepOneMoment DEF Always
  <1> QED
    BY <1>1, <1>2, PTL DEF E!Spec

\* A list that is up is every Expense there is, newest first and as it is, and an edit
\* sheet holds the Expense as it is until its answer is due: the reload of
\* useFocusEffect (index.tsx) is enough, whatever the order in which loads, requests of
\* sheets, other devices and a currency switch are served and answered, but for the
\* answers and stores that the property names.
THEOREM ListKeepsUpHolds == Given /\ E!Spec => []E!ListKeepsUp
  <1>1. Always => E!ListKeepsUp
    BY ReadsAt DEF Always, ListFollows, PrefillFollows, E!ListKeepsUp, E!ListUp, Answered
  <1> QED
    BY <1>1, AlwaysHolds, PTL

\* A Log sheet creates one Expense however often it is submitted and refused, unless it
\* was told of a failure that was none: its button is disabled while it waits.
THEOREM SheetLogsOnceHolds == Given /\ E!Spec => []E!SheetLogsOnce
  <1>1. Always => E!SheetLogsOnce
    BY DEF Always, Logged, E!SheetLogsOnce
  <1> QED
    BY <1>1, AlwaysHolds, PTL

\* The list and the sums on screen are those of one table in one currency, though the
\* two requests read it in several statements, unless a store fell between these.
AnswerOfOneMoment ==
    shown.status = "loaded" /\ ~shown.torn =>
        \E r \in Table, c \in Currency :
            /\ shown.expenses = ListAt(r, c)
            /\ \A p \in E!Part : shown.statistics[p] = PartAt(r, c, p)
\* So the Summary Card and the rows never mix two moments of an answer that is not
\* torn: what findAllForOwner and statistics read apart belongs together.
THEOREM AnswerOfOneMomentHolds == Given /\ E!Spec => []AnswerOfOneMoment
  <1>1. Always => AnswerOfOneMoment
    BY DEF Always, OneMoment, OfOne, AnswerOfOneMoment
  <1> QED
    BY <1>1, AlwaysHolds, PTL

=============================================================================
