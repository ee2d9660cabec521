--------------------------- MODULE ListingProofs ---------------------------
(***************************************************************************)
(* What a client that walks through its pages gets to see, for any number  *)
(* of walks, appointments, filters and page sizes, whatever is booked and  *)
(* cancelled meanwhile.                                                    *)
(***************************************************************************)
EXTENDS Listing, FiniteSetTheorems, TLAPS

-----------------------------------------------------------------------------
(* Lists of rows in the order of their starts, and their pages.            *)
Dated(S) == IsFiniteSet(S) /\ \A a \in S : slot[a].from \in Int

Distinct(S) == \A a, b \in S : a # b => slot[a].from # slot[b].from

(* The rows that come before a in a list, whatever the list.               *)
Above(S, a) == {b \in S : slot[b].from > slot[a].from}

(* A list has every row once.                                              *)
LEMMA OrderedLists ==
    ASSUME NEW S, IsFiniteSet(S), NEW s \in Ordered(S)
    PROVE  /\ s \in Seq(S) /\ Len(s) = Cardinality(S) /\ Len(s) \in Nat
           /\ DOMAIN s = 1 .. Len(s)
           /\ \A i, j \in 1 .. Len(s) : i # j => s[i] # s[j]
           /\ \A a \in S : \E i \in 1 .. Len(s) : s[i] = a
           /\ \A i, j \in 1 .. Len(s) :
                  i < j => slot[s[i]].from >= slot[s[j]].from
  <1> DEFINE n == Cardinality(S)
  <1>1. n \in Nat
    BY FS_CardinalityType
  <1>2. /\ s \in [1 .. n -> S]
        /\ \A i, j \in 1 .. n : i # j => s[i] # s[j]
        /\ \A i, j \in DOMAIN s : i < j => slot[s[i]].from >= slot[s[j]].from
    BY DEF Ordered, SetToSeqs
  <1>3. IsFiniteSet(1 .. n) /\ Cardinality(1 .. n) = n
    BY <1>1, FS_Interval
  <1>4. s \in Injection(1 .. n, S)
    BY <1>2 DEF Injection, IsInjective
  <1>5. s \in Surjection(1 .. n, S)
    BY <1>3, <1>4, FS_Injection
  <1>6. \A a \in S : \E i \in 1 .. n : s[i] = a
    BY <1>5 DEF Surjection
  <1>7. s \in Seq(S) /\ Len(s) = n
    BY <1>1, <1>2
  <1> QED
    BY <1>1, <1>2, <1>6, <1>7

(* Where starts differ, a row's place in the list is the number of rows    *)
(* that start later.                                                       *)
LEMMA Rank ==
    ASSUME NEW S, Dated(S), Distinct(S), NEW s \in Ordered(S),
           NEW i \in 1 .. Len(s)
    PROVE  Cardinality(Above(S, s[i])) = i - 1
  <1> DEFINE f == [j \in 1 .. i - 1 |-> s[j]]
             T == Above(S, s[i])
  <1>1. /\ s \in Seq(S) /\ Len(s) \in Nat /\ i \in Nat /\ 1 <= i
        /\ \A j, k \in 1 .. Len(s) : j # k => s[j] # s[k]
        /\ \A a \in S : \E j \in 1 .. Len(s) : s[j] = a
        /\ \A j, k \in 1 .. Len(s) :
               j < k => slot[s[j]].from >= slot[s[k]].from
        /\ \A j \in 1 .. Len(s) : s[j] \in S /\ slot[s[j]].from \in Int
    BY OrderedLists DEF Dated
  <1>2. \A j \in 1 .. Len(s) : s[j] \in T <=> j \in 1 .. i - 1
    <2> SUFFICES ASSUME NEW j \in 1 .. Len(s)
                 PROVE  s[j] \in T <=> j \in 1 .. i - 1
      OBVIOUS
    <2>1. PICK x \in Int, y \in Int :
              x = slot[s[j]].from /\ y = slot[s[i]].from
      BY <1>1
    <2>2. /\ j < i => x >= y
          /\ i < j => y >= x
          /\ i # j <=> x # y
      BY <1>1, <2>1 DEF Distinct
    <2>0. i \in Int /\ j \in Int /\ 1 <= j
      OBVIOUS
    <2>3. x > y <=> j < i
      BY <2>0, <2>1, <2>2
    <2>4. s[j] \in T <=> x > y
      BY <1>1, <2>1 DEF Above
    <2>5. j \in 1 .. i - 1 <=> j < i
      BY <2>0
    <2> QED
      BY <2>3, <2>4, <2>5
  <1>3. f \in Injection(1 .. i - 1, T)
    <2>1. 1 .. i - 1 \subseteq 1 .. Len(s)
      BY <1>1
    <2>2. f \in [1 .. i - 1 -> T]
      BY <1>2, <2>1
    <2>3. \A j, k \in 1 .. i - 1 : f[j] = f[k] => j = k
      BY <1>1, <2>1
    <2> QED
      BY <2>2, <2>3 DEF Injection, IsInjective
  <1>4. f \in Surjection(1 .. i - 1, T)
    <2>1. \A a \in T : \E j \in 1 .. i - 1 : f[j] = a
      BY <1>1, <1>2 DEF Above
    <2> QED
      BY <1>3, <2>1 DEF Injection, Surjection
  <1>5. ExistsBijection(1 .. i - 1, T)
    BY <1>3, <1>4 DEF ExistsBijection, Bijection
  <1>6. IsFiniteSet(1 .. i - 1) /\ Cardinality(1 .. i - 1) = i - 1
    <2>1. i - 1 \in Nat
      BY <1>1
    <2>2. /\ IsFiniteSet(1 .. i - 1)
          /\ Cardinality(1 .. i - 1) = IF 1 > i - 1 THEN 0 ELSE i - 1 - 1 + 1
      BY <2>1, FS_Interval
    <2> QED
      BY <2>1, <2>2
  <1> QED
    BY <1>5, <1>6, FS_Bijection

(* So there is only one such list.                                         *)
LEMMA OneList ==
    ASSUME NEW S, Dated(S), Distinct(S),
           NEW s \in Ordered(S), NEW t \in Ordered(S)
    PROVE  s = t
  <1>1. /\ s \in Seq(S) /\ t \in Seq(S) /\ Len(s) = Len(t) /\ Len(s) \in Nat
        /\ DOMAIN s = 1 .. Len(s) /\ DOMAIN t = 1 .. Len(s)
        /\ \A a \in S : \E j \in 1 .. Len(t) : t[j] = a
    BY OrderedLists DEF Dated
  <1>2. ASSUME NEW i \in 1 .. Len(s) PROVE s[i] = t[i]
    <2>1. PICK j \in 1 .. Len(t) : t[j] = s[i]
      BY <1>1
    <2>2. i - 1 = j - 1
      BY <2>1, Rank
    <2>3. i = j
      BY <1>1, <2>2
    <2> QED
      BY <2>1, <2>3
  <1> QED
    BY <1>1, <1>2

(* The n-th page begins after the rows of the pages before it and ends     *)
(* with them, or where the list ends.                                      *)
LEMMA Pages ==
    ASSUME NEW S, NEW s \in Seq(S), NEW n \in Nat, n # 0,
           NEW limit \in Nat, limit # 0
    PROVE  \E k, m \in Nat :
               /\ k = (n - 1) * limit /\ n * limit = k + limit
               /\ (n + 1 - 1) * limit = k + limit
               /\ m = (IF k + limit < Len(s) THEN k + limit ELSE Len(s))
               /\ PageOf(s, n, limit) = SubSeq(s, k + 1, m)
  <1> DEFINE k == (n - 1) * limit
             m == IF k + limit < Len(s) THEN k + limit ELSE Len(s)
  <1>1. k \in Nat /\ Len(s) \in Nat
    <2>1. n - 1 \in Nat
      OBVIOUS
    <2> QED
      BY <2>1
  <1>2. n * limit = k + limit /\ (n + 1 - 1) * limit = k + limit
    OBVIOUS
  <1>3. PageOf(s, n, limit) = SubSeq(s, k + 1, m)
    BY <1>2 DEF PageOf
  <1> HIDE DEF k
  <1>4. m \in Nat
    BY <1>1
  <1> HIDE DEF m
  <1> QED
    BY <1>1, <1>2, <1>3, <1>4 DEF k, m

-----------------------------------------------------------------------------
(* What every walk keeps to.                                               *)
Statuses == {"none", "CONFIRMED", "CANCELLED"}

WalkInv ==
    /\ wish \in [Walks -> Wishes]
    /\ wpc \in [Walks -> {"count", "rows", "done"}]
    /\ page \in [Walks -> Nat] /\ \A w \in Walks : page[w] # 0
    /\ total \in [Walks -> Nat]
    /\ shown \in [Walks -> Seq(Ids)]
    /\ \A w \in Walks : wpc[w] # "done" /\ page[w] = 1 => shown[w] = <<>>
    /\ before \in [Walks -> [Ids -> Statuses]]
    /\ state \in [Ids -> Statuses] /\ DOMAIN slot = Ids
    /\ \A a \in Ids : state[a] # "none" => slot[a] \in Rows
    /\ \A w \in Walks, a \in Ids :
          before[w][a] # "none" => state[a] \in {before[w][a], "CANCELLED"}

(* A row of the beginning is either shown or still ahead: so many rows of  *)
(* the list are above it as have been passed.                              *)
Ahead(w, a) ==
    /\ wpc[w] # "done"
    /\ Cardinality(Above(Matching(wish[w]), a))
          >= (page[w] - 1) * wish[w].limit

Patient(w) ==
    /\ StartsDiffer(w)
    /\ wish[w].status = AnyStatus /\ wish[w].until = "short"

NothingMissed(w) ==
    Patient(w) => \A a \in Own(w) :
        before[w][a] # "none" => a \in Range(shown[w]) \/ Ahead(w, a)

MissInv == WalkInv /\ \A w \in Walks : NothingMissed(w)

(* A quiet walk has been shown the beginning of the one list there is.     *)
Quiet(w) ==
    /\ StartsDiffer(w)
    /\ \A a \in Own(w) : state[a] = before[w][a]

ShownSoFar(w) ==
    \/ page[w] = 1
    \/ \E s \in Ordered(Matching(wish[w])), k \in Nat :
          /\ k = (page[w] - 1) * wish[w].limit /\ k <= Len(s)
          /\ shown[w] = SubSeq(s, 1, k)

ExactSoFar(w) ==
    Quiet(w) =>
        /\ wpc[w] # "done" => ShownSoFar(w)
        /\ wpc[w] = "rows" => total[w] = Cardinality(Matching(wish[w]))
        /\ wpc[w] = "done" => /\ shown[w] \in Ordered(Matching(wish[w]))
                              /\ total[w] = Len(shown[w])

QuietInv == WalkInv /\ \A w \in Walks : ExactSoFar(w)

(* What a page is taken from.                                              *)
LEMMA TheList ==
    ASSUME WalkInv, NEW w \in Walks
    PROVE  /\ Matching(wish[w]) \subseteq Own(w) /\ Own(w) \subseteq Ids
           /\ \A a \in Matching(wish[w]) : state[a] # "none"
           /\ Dated(Matching(wish[w]))
           /\ Cardinality(Matching(wish[w])) \in Nat
           /\ StartsDiffer(w) => Distinct(Matching(wish[w]))
           /\ wish[w].limit \in Nat /\ wish[w].limit # 0
           /\ wish[w].until \in {"short", "total"}
  <1> DEFINE M == Matching(wish[w])
  <1>1. /\ M \subseteq Own(w) /\ Own(w) \subseteq Ids
        /\ \A a \in M : state[a] # "none"
    BY DEF Matching, Matches, Own
  <1>2. IsFiniteSet(M) /\ Cardinality(M) \in Nat
    BY <1>1, ListingAssumption, FS_Subset, FS_CardinalityType
  <1>3. \A a \in M : slot[a].from \in Int
    BY <1>1, ListingAssumption DEF WalkInv
  <1>4. StartsDiffer(w) => Distinct(M)
    BY <1>1 DEF StartsDiffer, Distinct
  <1>5. /\ wish[w].limit \in 1 .. 100
        /\ wish[w].until \in {"short", "total"}
    BY ListingAssumption DEF WalkInv
  <1> QED
    BY <1>1, <1>2, <1>3, <1>4, <1>5 DEF Dated

(* A step of the calendar: a row comes or is cancelled, none goes or moves.*)
LEMMA CalendarMoves ==
    ASSUME WalkInv, CalendarStep
    PROVE  /\ UNCHANGED walks
           /\ state' \in [Ids -> Statuses] /\ DOMAIN slot' = Ids
           /\ \A a \in Ids :
                 /\ \/ state'[a] = state[a]
                    \/ state[a] = "none" /\ state'[a] = "CONFIRMED"
                    \/ state[a] = "CONFIRMED" /\ state'[a] = "CANCELLED"
                 /\ state[a] # "none" => slot'[a] = slot[a]
                 /\ state'[a] # "none" => slot'[a] \in Rows
  <1> USE DEF WalkInv, Statuses
  <1>1. CASE \E a \in Ids : Ledger!Book(a)
    BY <1>1 DEF Ledger!Book, CalendarStep
  <1>2. CASE \E a \in Ids : Ledger!Cancel(a)
    BY <1>2 DEF Ledger!Cancel, CalendarStep
  <1> QED
    BY <1>1, <1>2 DEF CalendarStep, Ledger!Next

LEMMA WalkInit == Init => WalkInv
  BY DEF Init, Ledger!Init, WalkInv, Statuses

LEMMA PageTyped ==
    ASSUME WalkInv, NEW w \in Walks, NEW s \in Ordered(Matching(wish[w]))
    PROVE  PageOf(s, page[w], wish[w].limit) \in Seq(Ids)
  <1>1. s \in Seq(Ids)
    BY TheList, OrderedLists DEF Dated
  <1>2. PICK k, m \in Nat :
            PageOf(s, page[w], wish[w].limit) = SubSeq(s, k + 1, m) /\ m <= Len(s)
    <2> DEFINE n == page[w]
               l == wish[w].limit
    <2>1. n \in Nat /\ n # 0 /\ l \in Nat /\ l # 0
      BY TheList DEF WalkInv
    <2> HIDE DEF n, l
    <2>2. PICK k, m \in Nat :
              /\ k = (n - 1) * l /\ n * l = k + l
              /\ (n + 1 - 1) * l = k + l
              /\ m = (IF k + l < Len(s) THEN k + l ELSE Len(s))
              /\ PageOf(s, n, l) = SubSeq(s, k + 1, m)
      BY <1>1, <2>1, Pages
    <2>3. m <= Len(s)
      BY <1>1, <2>1, <2>2
    <2> QED
      BY <2>2, <2>3 DEF n, l
  <1>3. \A i \in k + 1 .. m : s[i] \in Ids
    BY <1>1, <1>2
  <1> QED
    BY <1>1, <1>2, <1>3

LEMMA WalkStep == WalkInv /\ [Next]_vars => WalkInv'
  <1> SUFFICES ASSUME WalkInv, [Next]_vars PROVE WalkInv'
    OBVIOUS
  <1>1. ASSUME NEW w \in Walks, Count(w)
        PROVE  WalkInv'
    <2>1. Cardinality(Matching(wish[w])) \in Nat
      BY TheList
    <2> QED
      BY <1>1, <2>1 DEF Count, WalkInv, calendar
  <1>2. ASSUME NEW w \in Walks, Fetch(w)
        PROVE  WalkInv'
    <2>1. PICK s \in Ordered(Matching(wish[w])) :
              shown' = [shown EXCEPT ![w] =
                          @ \o PageOf(s, page[w], wish[w].limit)]
      BY <1>2 DEF Fetch
    <2>2. shown' \in [Walks -> Seq(Ids)]
      BY <2>1, PageTyped DEF WalkInv
    <2>3. /\ wpc' \in [Walks -> {"count", "rows", "done"}]
          /\ page' \in [Walks -> Nat] /\ \A v \in Walks : page'[v] # 0
          /\ wpc'[w] = "done" \/ page'[w] # 1
          /\ \A v \in Walks \ {w} : wpc'[v] = wpc[v] /\ page'[v] = page[v]
                                    /\ shown'[v] = shown[v]
      <3>1. \/ wpc' = [wpc EXCEPT ![w] = "done"] /\ page' = page
            \/ /\ wpc' = [wpc EXCEPT ![w] = "count"]
               /\ page' = [page EXCEPT ![w] = @ + 1]
        BY <1>2 DEF Fetch
      <3>2. page[w] + 1 \in Nat /\ page[w] + 1 # 0 /\ page[w] + 1 # 1
        BY DEF WalkInv
      <3>3. wpc' \in [Walks -> {"count", "rows", "done"}]
        BY <3>1 DEF WalkInv
      <3>4. /\ page' \in [Walks -> Nat] /\ \A v \in Walks : page'[v] # 0
            /\ wpc'[w] = "done" \/ page'[w] # 1
        <4>1. CASE wpc' = [wpc EXCEPT ![w] = "done"] /\ page' = page
          BY <4>1 DEF WalkInv
        <4>2. CASE page' = [page EXCEPT ![w] = @ + 1]
          BY <3>2, <4>2 DEF WalkInv
        <4> QED
          BY <3>1, <4>1, <4>2
      <3>5. \A v \in Walks \ {w} : wpc'[v] = wpc[v] /\ page'[v] = page[v]
        BY <3>1 DEF WalkInv
      <3>6. \A v \in Walks \ {w} : shown'[v] = shown[v]
        BY <2>1 DEF WalkInv
      <3> QED
        BY <3>3, <3>4, <3>5, <3>6
    <2> QED
      BY <1>2, <2>2, <2>3 DEF Fetch, WalkInv, calendar
  <1>3. ASSUME CalendarStep
        PROVE  WalkInv'
    <2>1. \A w \in Walks, a \in Ids :
              before[w][a] # "none" => state'[a] \in {before[w][a], "CANCELLED"}
      BY <1>3, CalendarMoves DEF WalkInv
    <2> QED
      BY <1>3, <2>1, CalendarMoves DEF WalkInv, walks
  <1>4. ASSUME UNCHANGED vars
        PROVE  WalkInv'
    BY <1>4 DEF vars, walks, calendar, WalkInv
  <1> QED
    BY <1>1, <1>2, <1>3, <1>4 DEF Next

LEMMA WalkInvariant == Spec => []WalkInv
  BY WalkInit, WalkStep, PTL DEF Spec

(* What Fetch shows, and when the client stops.                            *)
FetchShows(w, s, k, m, l) ==
    /\ k = (page[w] - 1) * l
    /\ m = (IF k + l < Len(s) THEN k + l ELSE Len(s))
    /\ shown' = [shown EXCEPT ![w] = @ \o SubSeq(s, k + 1, m)]
    /\ \/ /\ wpc' = [wpc EXCEPT ![w] = "done"] /\ page' = page
          /\ wish[w].until = "short" => m < k + l
          /\ wish[w].until = "total" => total[w] <= k + l
       \/ /\ wpc' = [wpc EXCEPT ![w] = "count"]
          /\ page' = [page EXCEPT ![w] = @ + 1]
          /\ (page'[w] - 1) * l = k + l
          /\ wish[w].until = "short" => m = k + l
          /\ wish[w].until = "total" => total[w] > k + l

LEMMA FetchSteps ==
    ASSUME WalkInv, NEW w \in Walks, Fetch(w)
    PROVE  /\ wpc[w] = "rows"
           /\ UNCHANGED <<wish, total, before, calendar>>
           /\ \E s \in Ordered(Matching(wish[w])), k, m \in Nat :
                 FetchShows(w, s, k, m, wish[w].limit)
  <1> DEFINE n == page[w]
             l == wish[w].limit
             M == Matching(wish[w])
  <1>1. PICK s \in Ordered(M) :
            /\ shown' = [shown EXCEPT ![w] = @ \o PageOf(s, n, l)]
            /\ \/ /\ Stops(w, PageOf(s, n, l))
                  /\ wpc' = [wpc EXCEPT ![w] = "done"] /\ page' = page
               \/ /\ ~Stops(w, PageOf(s, n, l))
                  /\ wpc' = [wpc EXCEPT ![w] = "count"]
                  /\ page' = [page EXCEPT ![w] = @ + 1]
    BY DEF Fetch
  <1>2. /\ n \in Nat /\ n # 0 /\ l \in Nat /\ l # 0
        /\ total[w] \in Nat /\ wish[w].until \in {"short", "total"}
    BY TheList DEF WalkInv
  <1>3. s \in Seq(M) /\ Len(s) \in Nat
    BY TheList, OrderedLists DEF Dated
  <1>4. page' = [page EXCEPT ![w] = @ + 1] => page'[w] = n + 1
    BY DEF WalkInv
  <1>5. Stops(w, PageOf(s, n, l)) <=>
            IF wish[w].until = "short" THEN Len(PageOf(s, n, l)) < l
            ELSE n * l >= total[w]
    BY DEF Stops
  <1> HIDE DEF n, l, M
  <1>6. PICK k, m \in Nat :
            /\ k = (n - 1) * l /\ n * l = k + l
            /\ (n + 1 - 1) * l = k + l
            /\ m = (IF k + l < Len(s) THEN k + l ELSE Len(s))
            /\ PageOf(s, n, l) = SubSeq(s, k + 1, m)
    <2>1. n \in Nat /\ n # 0 /\ l \in Nat /\ l # 0 /\ s \in Seq(M)
      BY <1>2, <1>3
    <2> QED
      BY <2>1, Pages, Zenon
  <1>7. Len(PageOf(s, n, l)) = IF k < m THEN m - k ELSE 0
    <2>1. m <= Len(s)
      BY <1>2, <1>3, <1>6
    <2>2. Len(SubSeq(s, k + 1, m)) = IF k < m THEN m - k ELSE 0
      BY <1>3, <2>1, \A i \in k + 1 .. m : s[i] \in M
    <2> QED
      BY <1>6, <2>2
  <1>8. /\ Len(PageOf(s, n, l)) < l <=> m < k + l
        /\ m < k + l \/ m = k + l
    <2>1. PICK c \in Int : c = Len(s)
      BY <1>3
    <2>2. m = IF k + l < c THEN k + l ELSE c
      BY <1>6, <2>1
    <2>3. m < k + l \/ m = k + l
      BY <1>2, <2>1, <2>2
    <2>4. (IF k < m THEN m - k ELSE 0) < l <=> m < k + l
      BY <1>2
    <2> QED
      BY <1>7, <2>3, <2>4
  <1>9. FetchShows(w, s, k, m, l)
    <2>1. CASE Stops(w, PageOf(s, n, l))
      BY <1>1, <1>2, <1>5, <1>6, <1>8, <2>1 DEF FetchShows, n
    <2>2. CASE ~Stops(w, PageOf(s, n, l))
      <3>1. wpc' = [wpc EXCEPT ![w] = "count"] /\ page' = [page EXCEPT ![w] = @ + 1]
        BY <1>1, <2>2
      <3>2. (page'[w] - 1) * l = k + l
        <4>1. page'[w] = n + 1
          BY <1>4, <3>1
        <4>2. page'[w] - 1 = n
          BY <1>2, <4>1
        <4>3. n * l = k + l
          BY <1>6
        <4> QED
          BY <4>2, <4>3
      <3>3. /\ wish[w].until = "short" => m = k + l
            /\ wish[w].until = "total" => total[w] > k + l
        <4>1. ASSUME wish[w].until = "short" PROVE m = k + l
          BY <1>5, <1>8, <2>2, <4>1
        <4>2. ASSUME wish[w].until = "total" PROVE ~(k + l >= total[w])
          BY <1>5, <1>6, <2>2, <4>2
        <4> QED
          BY <1>2, <4>1, <4>2
      <3> QED
        BY <1>1, <1>6, <3>1, <3>2, <3>3 DEF FetchShows, n
    <2> QED
      BY <2>1, <2>2
  <1> QED
    BY <1>9 DEF Fetch, l, M

LEMMA Concatenation ==
    ASSUME NEW S, NEW s \in Seq(S), NEW t \in Seq(S),
           NEW k \in Nat, NEW m \in Nat, m <= Len(t)
    PROVE  /\ Range(s) \subseteq Range(s \o SubSeq(t, k + 1, m))
           /\ \A i \in k + 1 .. m : t[i] \in Range(s \o SubSeq(t, k + 1, m))
  <1> DEFINE u == SubSeq(t, k + 1, m)
  <1>1. /\ u \in Seq(S) /\ Len(u) = IF k < m THEN m - k ELSE 0
        /\ \A i \in k + 1 .. m : i - k \in 1 .. Len(u) /\ u[i - k] = t[i]
    BY \A i \in k + 1 .. m : t[i] \in S
  <1> HIDE DEF u
  <1>2. /\ s \o u \in Seq(S) /\ Len(s \o u) = Len(s) + Len(u)
        /\ \A i \in 1 .. Len(s) : (s \o u)[i] = s[i]
        /\ \A i \in 1 .. Len(u) : (s \o u)[Len(s) + i] = u[i]
    <2>1. u \in Seq(S)
      BY <1>1
    <2> QED
      BY <2>1
  <1>3. \A i \in 1 .. Len(s) : i \in 1 .. Len(s \o u)
    BY <1>1, <1>2
  <1>4. Range(s) \subseteq Range(s \o u)
    BY <1>2, <1>3 DEF Range
  <1>5. ASSUME NEW i \in k + 1 .. m
        PROVE  t[i] \in Range(s \o u)
    <2>1. PICK j \in 1 .. Len(u) : u[j] = t[i]
      BY <1>1
    <2>2. Len(s) + j \in 1 .. Len(s \o u)
      BY <1>1, <1>2
    <2>3. (s \o u)[Len(s) + j] = t[i]
      BY <1>2, <2>1
    <2>4. DOMAIN (s \o u) = 1 .. Len(s \o u)
      BY <1>2
    <2> QED
      BY <2>2, <2>3, <2>4, Zenon DEF Range
  <1> QED
    BY <1>4, <1>5 DEF u

-----------------------------------------------------------------------------
(* No row of the beginning is missed.                                      *)
SameFor(w) ==
    /\ UNCHANGED <<wish, state, slot>>
    /\ UNCHANGED <<wpc[w], page[w], total[w], shown[w], before[w]>>

(* What others do changes nothing for a walk.                              *)
LEMMA SameList ==
    ASSUME UNCHANGED <<wish, state, slot>>, NEW w \in Walks
    PROVE  /\ Matching(wish[w])' = Matching(wish[w])
           /\ Own(w)' = Own(w)
           /\ StartsDiffer(w)' <=> StartsDiffer(w)
           /\ Ordered(Matching(wish[w]))' = Ordered(Matching(wish[w]))
           /\ \A a \in Ids : Above(Matching(wish[w]), a)'
                                = Above(Matching(wish[w]), a)
  <1>1. Matching(wish[w])' = Matching(wish[w]) /\ Own(w)' = Own(w)
    BY DEF Matching, Matches, Own
  <1>2. StartsDiffer(w)' <=> StartsDiffer(w)
    BY <1>1 DEF StartsDiffer
  <1> QED
    BY <1>1, <1>2 DEF Ordered, Above

LEMMA OthersStep ==
    ASSUME NEW w \in Walks, SameFor(w)
    PROVE  /\ NothingMissed(w) => NothingMissed(w)'
           /\ ExactSoFar(w) => ExactSoFar(w)'
  <1>1. NothingMissed(w)' <=> NothingMissed(w)
    BY SameList DEF SameFor, NothingMissed, Patient, Ahead, Own
  <1>2. ExactSoFar(w)' <=> ExactSoFar(w)
    BY SameList DEF SameFor, ExactSoFar, Quiet, ShownSoFar
  <1> QED
    BY <1>1, <1>2

(* A step of the calendar leaves two rows apart that start apart.          *)
LEMMA StartsStayApart ==
    ASSUME WalkInv, CalendarStep, NEW w \in Walks, StartsDiffer(w)'
    PROVE  StartsDiffer(w)
  <1>1. Own(w)' = Own(w) /\ Own(w) \subseteq Ids
    BY CalendarMoves DEF Own, walks
  <1>2. \A a \in Own(w) : state[a] # "none" =>
            state'[a] # "none" /\ slot'[a] = slot[a]
    BY <1>1, CalendarMoves
  <1> QED
    BY <1>1, <1>2 DEF StartsDiffer

LEMMA MissCount ==
    ASSUME MissInv, NEW w \in Walks, Count(w)
    PROVE  NothingMissed(w)'
  <1>1. /\ UNCHANGED <<wish, state, slot, page, shown>>
        /\ wpc[w] = "count" /\ wpc'[w] = "rows"
        /\ page[w] = 1 \/ before'[w] = before[w]
    BY DEF Count, calendar, MissInv, WalkInv
  <1>2. CASE page[w] = 1
    <2>1. (page[w] - 1) * wish[w].limit = 0
      BY <1>2, TheList DEF MissInv
    <2>2. \A a \in Own(w) : Cardinality(Above(Matching(wish[w]), a)) \in Nat
      BY TheList, FS_Subset, FS_CardinalityType DEF MissInv, Dated, Above
    <2>3. \A a \in Own(w) : Ahead(w, a)'
      BY <1>1, <2>1, <2>2, SameList DEF Ahead, Own
    <2> QED
      BY <1>1, <2>3, SameList DEF NothingMissed
  <1>3. CASE before'[w] = before[w]
    BY <1>1, <1>3, SameList DEF MissInv, NothingMissed, Patient, Ahead, Own
  <1> QED
    BY <1>1, <1>2, <1>3

(* A row is on the page, or so many more are above it, and the page is     *)
(* full.                                                                   *)
LEMMA MissFetch ==
    ASSUME MissInv, NEW w \in Walks, Fetch(w)
    PROVE  NothingMissed(w)'
  <1> DEFINE l == wish[w].limit
             M == Matching(wish[w])
  <1>1. PICK s \in Ordered(M), k \in Nat, m \in Nat : FetchShows(w, s, k, m, l)
    BY FetchSteps DEF MissInv
  <1>2. UNCHANGED <<wish, state, slot, before>> /\ wpc[w] = "rows"
    BY FetchSteps DEF MissInv, calendar
  <1> SUFFICES ASSUME Patient(w), NEW a \in Own(w), before[w][a] # "none"
               PROVE  a \in Range(shown'[w]) \/ Ahead(w, a)'
    BY <1>2, SameList DEF NothingMissed, Patient
  <1>3. shown'[w] = shown[w] \o SubSeq(s, k + 1, m) /\ shown[w] \in Seq(Ids)
    BY <1>1 DEF FetchShows, MissInv, WalkInv
  <1>4. /\ s \in Seq(Ids) /\ Len(s) \in Nat /\ l \in Nat
        /\ Dated(M) /\ Distinct(M)
        /\ \A b \in M : \E i \in 1 .. Len(s) : s[i] = b
    BY TheList, OrderedLists DEF MissInv, Dated, Patient
  <1>5. m <= Len(s)
    BY <1>1, <1>4 DEF FetchShows
  <1>6. CASE a \in Range(shown[w])
    BY <1>3, <1>4, <1>5, <1>6, Concatenation
  <1>7. CASE Ahead(w, a)
    <2>1. a \in M
      BY DEF MissInv, WalkInv, Patient, Own, Matching, Matches
    <2>2. PICK i \in 1 .. Len(s) : s[i] = a
      BY <1>4, <2>1
    <2>3. Cardinality(Above(M, a)) = i - 1
      BY <1>4, <2>2, Rank
    <2>4. i - 1 >= k
      BY <1>1, <1>7, <2>3 DEF Ahead, FetchShows
    <2>5. CASE i <= m
      <3>1. i \in k + 1 .. m
        BY <2>4, <2>5
      <3> QED
        BY <1>3, <1>4, <1>5, <2>2, <3>1, Concatenation
    <2>6. CASE m < i
      <3>1. m = k + l /\ i - 1 >= k + l
        BY <1>1, <1>4, <2>4, <2>6 DEF FetchShows
      <3>2. wpc'[w] = "count" /\ (page'[w] - 1) * l = k + l
        <4>1. ~(m < k + l)
          BY <1>4, <3>1
        <4> QED
          BY <1>1, <4>1 DEF FetchShows, Patient, MissInv, WalkInv
      <3>3. Above(M, a)' = Above(M, a)
        BY <1>2, SameList DEF Own
      <3> QED
        BY <1>2, <2>3, <3>1, <3>2, <3>3 DEF Ahead
    <2> QED
      BY <1>5, <2>5, <2>6
  <1> QED
    BY <1>6, <1>7 DEF MissInv, NothingMissed

(* A new row only adds to those above another.                             *)
LEMMA MissCalendar ==
    ASSUME MissInv, CalendarStep, NEW w \in Walks
    PROVE  NothingMissed(w)'
  <1> DEFINE M == Matching(wish[w])
  <1>1. UNCHANGED <<wish, wpc, page, shown, before>> /\ Own(w)' = Own(w)
    BY CalendarMoves DEF MissInv, walks, Own
  <1> SUFFICES ASSUME Patient(w)', NEW a \in Own(w), before[w][a] # "none",
                      Ahead(w, a)
               PROVE  Ahead(w, a)'
    BY <1>1, StartsStayApart DEF MissInv, NothingMissed, Patient
  <1>2. state[a] # "none" /\ a \in Ids
    BY DEF MissInv, WalkInv, Own
  <1>3. \A b \in M : b \in M' /\ slot'[b] = slot[b]
    BY <1>1, CalendarMoves DEF MissInv, Matching, Matches, Patient
  <1>4. Above(M, a) \subseteq Above(M, a)'
    BY <1>2, <1>3, CalendarMoves DEF MissInv, Above
  <1>5. IsFiniteSet(Above(M, a)')
    BY ListingAssumption, FS_Subset DEF Above, Matching
  <1>6. /\ Cardinality(Above(M, a)) <= Cardinality(Above(M, a)')
        /\ Cardinality(Above(M, a)) \in Nat
        /\ Cardinality(Above(M, a)') \in Nat
    BY <1>4, <1>5, FS_Subset, FS_CardinalityType
  <1> QED
    BY <1>1, <1>6, TheList DEF Ahead, MissInv, WalkInv

(* A step is a walk's own, or the calendar's, or nothing to the walk.      *)
LEMMA WhoseStep ==
    ASSUME WalkInv, [Next]_vars, NEW w \in Walks
    PROVE  Count(w) \/ Fetch(w) \/ CalendarStep \/ SameFor(w)
  <1>1. ASSUME NEW v \in Walks \ {w}, Count(v) \/ Fetch(v)
        PROVE  SameFor(w)
    <2>1. CASE Count(v)
      BY <2>1 DEF Count, SameFor, WalkInv, calendar
    <2>2. CASE Fetch(v)
      <3>1. PICK s, k, m : FetchShows(v, s, k, m, wish[v].limit)
        BY <2>2, FetchSteps
      <3> QED
        BY <2>2, <3>1, FetchSteps DEF FetchShows, SameFor, WalkInv, calendar
    <2> QED
      BY <1>1, <2>1, <2>2
  <1>2. ASSUME UNCHANGED vars
        PROVE  SameFor(w)
    BY <1>2 DEF vars, walks, calendar, SameFor
  <1> QED
    BY <1>1, <1>2 DEF Next

LEMMA MissInit == Init => MissInv
  BY WalkInit DEF Init, MissInv, NothingMissed, Ledger!Init, Own

LEMMA MissStep == MissInv /\ [Next]_vars => MissInv'
  <1> SUFFICES ASSUME MissInv, [Next]_vars PROVE MissInv'
    OBVIOUS
  <1>1. ASSUME NEW w \in Walks PROVE NothingMissed(w)'
    BY WhoseStep, MissCount, MissFetch, MissCalendar, OthersStep DEF MissInv
  <1> QED
    BY <1>1, WalkStep DEF MissInv

(* A client that asks for page after page until one is not full has seen   *)
(* every row that was there when it began, however many were booked and    *)
(* cancelled meanwhile: rows are never deleted or moved, and a new one     *)
(* only pushes others to later pages (list_for_customer).                  *)
THEOREM NoneMissedAlways == Spec => []NoneMissed
  <1>1. MissInv => NoneMissed
    BY DEF MissInv, NothingMissed, Patient, Ahead, NoneMissed
  <1> QED
    BY <1>1, MissInit, MissStep, PTL DEF Spec

-----------------------------------------------------------------------------
(* A quiet walk sees the list.                                             *)

(* What was quiet up to here was quiet before, and its list is the same.   *)
LEMMA QuietBefore ==
    ASSUME WalkInv, CalendarStep, NEW w \in Walks, Quiet(w)'
    PROVE  /\ Quiet(w)
           /\ UNCHANGED <<wpc, page, total, shown>>
           /\ Matching(wish[w])' = Matching(wish[w]) /\ wish' = wish
           /\ Ordered(Matching(wish[w]))' = Ordered(Matching(wish[w]))
  <1> DEFINE M == Matching(wish[w])
  <1>1. /\ UNCHANGED <<wish, wpc, page, total, shown, before>>
        /\ Own(w)' = Own(w) /\ Own(w) \subseteq Ids
    BY CalendarMoves DEF walks, Own
  <1>2. ASSUME NEW a \in Own(w) PROVE state'[a] = state[a]
    <2>1. /\ state'[a] = before[w][a]
          /\ before[w][a] # "none" => state[a] \in {before[w][a], "CANCELLED"}
      BY <1>1 DEF Quiet, WalkInv
    <2>2. \/ state'[a] = state[a]
          \/ state[a] = "none" /\ state'[a] = "CONFIRMED"
          \/ state[a] = "CONFIRMED" /\ state'[a] = "CANCELLED"
      BY <1>1, CalendarMoves
    <2> QED
      BY <2>1, <2>2
  <1>3. Quiet(w)
    BY <1>1, <1>2, StartsStayApart DEF Quiet
  <1>4. M' = M
    BY <1>1, <1>2 DEF Matching, Matches, Own
  <1>5. \A a \in M : slot'[a] = slot[a]
    BY <1>1, TheList, CalendarMoves
  <1>6. Ordered(M)' = Ordered(M)
    <2>1. \A s \in SetToSeqs(M) : \A i \in DOMAIN s : s[i] \in M
      BY DEF SetToSeqs
    <2> QED
      BY <1>4, <1>5, <2>1 DEF Ordered
  <1> QED
    BY <1>1, <1>3, <1>4, <1>6

LEMMA QuietCount ==
    ASSUME QuietInv, NEW w \in Walks, Count(w)
    PROVE  ExactSoFar(w)'
  <1>1. /\ UNCHANGED <<wish, state, slot, page, shown>>
        /\ wpc[w] = "count" /\ wpc'[w] = "rows"
        /\ total'[w] = Cardinality(Matching(wish[w]))
        /\ page[w] = 1 \/ before'[w] = before[w]
    BY DEF Count, calendar, QuietInv, WalkInv
  <1>2. ASSUME Quiet(w)' PROVE ShownSoFar(w)'
    <2>1. CASE page[w] = 1
      BY <1>1, <2>1 DEF ShownSoFar
    <2>2. CASE before'[w] = before[w]
      <3>1. Quiet(w)
        BY <1>1, <1>2, <2>2, SameList DEF Quiet
      <3>2. ShownSoFar(w)
        BY <1>1, <3>1 DEF QuietInv, ExactSoFar
      <3> QED
        BY <1>1, <3>2, SameList DEF ShownSoFar
    <2> QED
      BY <1>1, <2>1, <2>2
  <1> QED
    BY <1>1, <1>2, SameList DEF ExactSoFar

LEMMA PrefixThenPage ==
    ASSUME NEW S, NEW s \in Seq(S), NEW k \in Nat, NEW m \in Nat,
           k <= m, m <= Len(s)
    PROVE  SubSeq(s, 1, k) \o SubSeq(s, k + 1, m) = SubSeq(s, 1, m)
  <1> DEFINE t == SubSeq(s, 1, k)
             u == SubSeq(s, k + 1, m)
             v == SubSeq(s, 1, m)
  <1>1. t \in Seq(S) /\ Len(t) = k /\ \A i \in 1 .. k : t[i] = s[i]
    BY \A i \in 1 .. k : s[i] \in S
  <1>2. /\ u \in Seq(S) /\ Len(u) = m - k
        /\ \A i \in 1 .. m - k : u[i] = s[k + i]
    BY \A i \in k + 1 .. m : s[i] \in S
  <1>3. v \in Seq(S) /\ Len(v) = m /\ \A i \in 1 .. m : v[i] = s[i]
    BY \A i \in 1 .. m : s[i] \in S
  <1> HIDE DEF t, u, v
  <1>4. t \o u \in Seq(S) /\ Len(t \o u) = m
    <2>1. t \o u \in Seq(S) /\ Len(t \o u) = Len(t) + Len(u)
      <3>1. t \in Seq(S) /\ u \in Seq(S)
        BY <1>1, <1>2
      <3> QED
        BY <3>1
    <2>2. k + (m - k) = m
      OBVIOUS
    <2> QED
      BY <1>1, <1>2, <2>1, <2>2
  <1>5. ASSUME NEW i \in 1 .. m PROVE (t \o u)[i] = v[i]
    <2>1. CASE i <= k
      <3>1. i \in 1 .. Len(t)
        BY <1>1, <2>1
      <3>2. (t \o u)[i] = t[i]
        BY <1>1, <1>2, <3>1
      <3> QED
        BY <1>1, <1>3, <2>1, <3>2
    <2>2. CASE k < i
      <3>1. PICK j \in 1 .. m - k : i = k + j
        <4>1. i - k \in 1 .. m - k /\ i = k + (i - k)
          BY <2>2
        <4> QED
          BY <4>1, Zenon
      <3>2. (t \o u)[k + j] = u[j]
        BY <1>1, <1>2
      <3>3. u[j] = s[k + j]
        BY <1>2
      <3> QED
        BY <1>3, <3>1, <3>2, <3>3
    <2>3. i <= k \/ k < i
      OBVIOUS
    <2> QED
      BY <2>1, <2>2, <2>3
  <1>6. t \o u = v
    BY <1>3, <1>4, <1>5
  <1> QED
    BY <1>6 DEF t, u, v

LEMMA NoneAndAll ==
    ASSUME NEW S, NEW s \in Seq(S)
    PROVE  SubSeq(s, 1, 0) = << >> /\ SubSeq(s, 1, Len(s)) = s
  OBVIOUS

(* The page continues the beginning of the one list there is.              *)
LEMMA QuietFetch ==
    ASSUME QuietInv, NEW w \in Walks, Fetch(w)
    PROVE  ExactSoFar(w)'
  <1> DEFINE l == wish[w].limit
             M == Matching(wish[w])
  <1>1. PICK s \in Ordered(M), k \in Nat, m \in Nat : FetchShows(w, s, k, m, l)
    BY FetchSteps DEF QuietInv
  <1>2. UNCHANGED <<wish, state, slot, before, total>> /\ wpc[w] = "rows"
    BY FetchSteps DEF QuietInv, calendar
  <1>3. M' = M /\ Ordered(M)' = Ordered(M) /\ (Quiet(w)' <=> Quiet(w))
    BY <1>2, SameList DEF Quiet
  <1> SUFFICES ASSUME Quiet(w)
               PROVE  /\ wpc'[w] # "done" => ShownSoFar(w)'
                      /\ wpc'[w] # "rows"
                      /\ wpc'[w] = "done" => /\ shown'[w] \in Ordered(M)
                                             /\ total[w] = Len(shown'[w])
    BY <1>2, <1>3 DEF ExactSoFar
  <1>4. /\ s \in Seq(M) /\ Len(s) \in Nat /\ Len(s) = Cardinality(M)
        /\ Dated(M) /\ Distinct(M) /\ l \in Nat
        /\ wish[w].until \in {"short", "total"}
    BY TheList, OrderedLists DEF QuietInv, Dated, Quiet
  <1>5. total[w] = Len(s)
    BY <1>2, <1>4 DEF QuietInv, ExactSoFar
  <1>6. k <= Len(s) /\ shown[w] = SubSeq(s, 1, k)
    <2>1. CASE page[w] = 1
      <3>1. k = 0
        BY <1>1, <1>4, <2>1 DEF FetchShows
      <3>2. shown[w] = << >>
        BY <1>2, <2>1 DEF QuietInv, WalkInv
      <3> QED
        BY <1>4, <3>1, <3>2, NoneAndAll
    <2>2. CASE page[w] # 1
      <3>1. PICK t \in Ordered(M), j \in Nat :
                /\ j = (page[w] - 1) * l /\ j <= Len(t)
                /\ shown[w] = SubSeq(t, 1, j)
        BY <1>2, <2>2 DEF QuietInv, ExactSoFar, ShownSoFar
      <3>2. t = s /\ j = k
        BY <1>1, <1>4, <3>1, OneList DEF FetchShows
      <3> QED
        BY <3>1, <3>2
    <2> QED
      BY <2>1, <2>2
  <1>7. /\ k <= m /\ m <= Len(s) /\ m <= k + l
        /\ m < k + l => m = Len(s)
        /\ Len(s) <= k + l => m = Len(s)
        /\ Len(s) > k + l => m = k + l
    <2>1. m = (IF k + l < Len(s) THEN k + l ELSE Len(s))
      BY <1>1 DEF FetchShows
    <2>2. k \in Nat /\ m \in Nat /\ l \in Nat /\ Len(s) \in Nat /\ k <= Len(s)
      BY <1>4, <1>6
    <2> HIDE DEF M, l
    <2> QED
      BY <2>1, <2>2
  <1>8. shown'[w] = SubSeq(s, 1, m)
    <2>1. shown'[w] = shown[w] \o SubSeq(s, k + 1, m)
      BY <1>1 DEF FetchShows, QuietInv, WalkInv
    <2>2. SubSeq(s, 1, k) \o SubSeq(s, k + 1, m) = SubSeq(s, 1, m)
      <3>1. s \in Seq(M) /\ k <= m /\ m <= Len(s)
        BY <1>4, <1>7
      <3> HIDE DEF M, l
      <3> QED
        BY <3>1, PrefixThenPage
    <2> QED
      BY <1>6, <2>1, <2>2
  <1>9. CASE wpc' = [wpc EXCEPT ![w] = "done"]
    <2>1. wpc'[w] = "done"
      BY <1>9 DEF QuietInv, WalkInv
    <2>2. m = Len(s)
      <3>1. \/ wish[w].until = "short" /\ m < k + l
            \/ wish[w].until = "total" /\ total[w] <= k + l
        BY <1>1, <1>4, <2>1 DEF FetchShows, QuietInv, WalkInv
      <3> QED
        BY <1>5, <1>7, <3>1
    <2>3. shown'[w] = s
      BY <1>4, <1>8, <2>2, NoneAndAll
    <2> QED
      BY <1>5, <2>1, <2>3
  <1>10. CASE wpc' = [wpc EXCEPT ![w] = "count"]
    <2>1. wpc'[w] = "count"
      BY <1>10 DEF QuietInv, WalkInv
    <2>2. /\ (page'[w] - 1) * l = k + l
          /\ \/ wish[w].until = "short" /\ m = k + l
             \/ wish[w].until = "total" /\ total[w] > k + l
      BY <1>1, <1>4, <2>1 DEF FetchShows, QuietInv, WalkInv
    <2>3. m = (page'[w] - 1) * l
      BY <1>5, <1>7, <2>2
    <2>4. ShownSoFar(w)'
      BY <1>2, <1>3, <1>7, <1>8, <2>3 DEF ShownSoFar
    <2> QED
      BY <2>1, <2>4
  <1> QED
    BY <1>1, <1>9, <1>10 DEF FetchShows

LEMMA QuietInit == Init => QuietInv
  BY WalkInit DEF Init, QuietInv, ExactSoFar, ShownSoFar

LEMMA QuietStep == QuietInv /\ [Next]_vars => QuietInv'
  <1> SUFFICES ASSUME QuietInv, [Next]_vars PROVE QuietInv'
    OBVIOUS
  <1>1. ASSUME NEW w \in Walks PROVE ExactSoFar(w)'
    <2>1. CASE CalendarStep
      <3> SUFFICES ASSUME Quiet(w)' PROVE ExactSoFar(w)'
        BY DEF ExactSoFar
      <3> QED
        BY <2>1, QuietBefore DEF QuietInv, ExactSoFar, ShownSoFar
    <2> QED
      BY <2>1, WhoseStep, QuietCount, QuietFetch, OthersStep DEF QuietInv
  <1> QED
    BY <1>1, WalkStep DEF QuietInv

(* When nothing of the customer's changes meanwhile and no two of his      *)
(* appointments start together, the pages together are the list, whatever  *)
(* the page size, the filter and the way the client knows the last page:   *)
(* each appointment once, the latest first, as many as the total says      *)
(* (list_for_customer).                                                    *)
THEOREM QuietWalkIsExactAlways == Spec => []QuietWalkIsExact
  <1>1. QuietInv => QuietWalkIsExact
    BY DEF QuietInv, ExactSoFar, Quiet, QuietWalkIsExact
  <1> QED
    BY <1>1, QuietInit, QuietStep, PTL DEF Spec
=============================================================================
