------------------------- MODULE AvailabilityProofs -------------------------
(***************************************************************************)
(* What the hours test of _within_hours decides, for every instant, every  *)
(* length and every dealership whose zone resolves; and what               *)
(* check_availability answers, for any questions, any catalogue, any       *)
(* bookings and any faults.                                                *)
(***************************************************************************)
EXTENDS Availability, TLAPS

-----------------------------------------------------------------------------
(* The hours test.                                                         *)
LEMMA OffsetIsInt ==
    ASSUME NEW x \in -Day .. Day
    PROVE  x \in Int
  BY DEF Day

LEMMA HoursTyped ==
    ASSUME NEW hours \in HoursType
    PROVE  /\ hours.open \in 0 .. 1439 /\ hours.close \in 0 .. 1439
           /\ hours.offset \in Int
  <1>1. hours.offset \in -Day .. Day
    BY DEF HoursType
  <1>2. hours.offset \in Int
    BY <1>1, OffsetIsInt
  <1>3. hours.open \in 0 .. Day - 1 /\ hours.close \in 0 .. Day - 1
    BY DEF HoursType
  <1> QED
    BY <1>2, <1>3 DEF Day

LEMMA HoursNamed ==
    ASSUME NEW hours \in HoursType
    PROVE  \E o, c, x \in Int :
               /\ hours.open = o /\ hours.close = c /\ hours.offset = x
               /\ 0 <= o /\ o < 1440 /\ 0 <= c /\ c < 1440
  <1> DEFINE o == hours.open
             c == hours.close
             x == hours.offset
  <1>1. o \in 0 .. 1439 /\ c \in 0 .. 1439 /\ x \in Int
    BY HoursTyped
  <1>2. hours.open = o /\ hours.close = c /\ hours.offset = x
    OBVIOUS
  <1> HIDE DEF o, c, x
  <1>3. /\ o \in Int /\ 0 <= o /\ o < 1440
        /\ c \in Int /\ 0 <= c /\ c < 1440
    BY <1>1
  <1> QED
    BY <1>1, <1>2, <1>3

(* An instant is a local day and a time of day.                            *)
LEMMA LocalTime ==
    ASSUME NEW t \in Int, NEW hours \in HoursType
    PROVE  /\ LocalDayOf(t, hours) \in Int
           /\ TimeOfDay(t, hours) \in 0 .. 1439
           /\ t + hours.offset = LocalDayOf(t, hours) * 1440 + TimeOfDay(t, hours)
  <1> DEFINE u == t + hours.offset
  <1>1. u \in Int
    BY HoursTyped
  <1> HIDE DEF u
  <1>2. u \div 1440 \in Int /\ u % 1440 \in 0 .. 1439
    BY <1>1
  <1>3. u = (u \div 1440) * 1440 + (u % 1440)
    BY <1>1
  <1>4. LocalDayOf(t, hours) = u \div 1440 /\ TimeOfDay(t, hours) = u % 1440
    BY DEF u, LocalDayOf, TimeOfDay, Day
  <1>5. t + hours.offset = u
    BY DEF u
  <1> QED
    BY <1>2, <1>3, <1>4, <1>5

-----------------------------------------------------------------------------
(* No appointment that fits into one day's hours is turned away, by the    *)
(* midnight rule or otherwise (_within_hours).                             *)
THEOREM NoFalseRejection ==
    ASSUME NEW start \in Int, NEW end \in Int, NEW hours \in HoursType,
           start < end, EntirelyWithin(start, end, hours)
    PROVE  WithinHours(start, end, hours)
  <1> DEFINE s == start + hours.offset
             t == end + hours.offset
             d == LocalDayOf(start, hours)
             e == LocalDayOf(end, hours)
             f == TimeOfDay(start, hours)
             g == TimeOfDay(end, hours)
             o == hours.open
             c == hours.close
  <1>1. /\ d \in Int /\ e \in Int /\ f \in 0 .. 1439 /\ g \in 0 .. 1439
        /\ s = d * 1440 + f /\ t = e * 1440 + g
    BY LocalTime
  <1>2. o \in 0 .. 1439 /\ c \in 0 .. 1439 /\ s \in Int /\ t \in Int /\ s < t
    BY HoursTyped
  <1>3. d * 1440 + o <= s /\ t <= d * 1440 + c
    <2>1. d * Day - hours.offset + o <= start /\ end <= d * Day - hours.offset + c
      BY DEF EntirelyWithin
    <2>2. PICK x \in Int : x = hours.offset
      BY HoursTyped
    <2>3. d * 1440 - x + o <= start /\ end <= d * 1440 - x + c
      BY <2>1, <2>2 DEF Day
    <2>4. d * 1440 + o <= start + x /\ end + x <= d * 1440 + c
      <3> HIDE DEF d, o, c, s, t
      <3> QED
        BY <2>3, <1>1, <1>2
    <2> QED
      BY <2>2, <2>4
  <1> HIDE DEF s, t, d, e, f, g, o, c
  <1>4. o <= f /\ g <= c /\ g # 0
    <2>1. /\ f \in Int /\ g \in Int /\ o \in Int /\ c \in Int
          /\ f <= 1439 /\ 0 <= g /\ g <= 1439 /\ 0 <= o /\ c <= 1439
      BY <1>1, <1>2
    <2>2. e <= d
      BY <2>1, <1>1, <1>2, <1>3
    <2>3. o <= f
      BY <2>1, <1>1, <1>3
    <2>4. d <= e
      BY <2>1, <1>1, <1>2
    <2>5. e = d
      BY <1>1, <2>2, <2>4
    <2> QED
      BY <2>1, <2>3, <2>5, <1>1, <1>2, <1>3
  <1>5. ~(g = 0) /\ 60 * g <= 60 * c
    BY <1>1, <1>2, <1>4
  <1> QED
    BY <1>4, <1>5 DEF WithinHours, LocalEnd, f, g, o, c

(* The test is exact for an appointment that ends on the local day it      *)
(* starts on, or at the midnight that ends that day: none it lets in runs  *)
(* past closing time (_within_hours, local_end at midnight).               *)
THEOREM ExactWithinOneDay ==
    ASSUME NEW start \in Int, NEW end \in Int, NEW hours \in HoursType,
           start < end, hours.known,
           LocalDayOf(end - 1, hours) = LocalDayOf(start, hours),
           WithinHours(start, end, hours)
    PROVE  EntirelyWithin(start, end, hours)
  <1> DEFINE s == start + hours.offset
             t == end + hours.offset
             d == LocalDayOf(start, hours)
             e == LocalDayOf(end, hours)
             f == TimeOfDay(start, hours)
             g == TimeOfDay(end, hours)
             h == TimeOfDay(end - 1, hours)
             o == hours.open
             c == hours.close
  <1>1. /\ d \in Int /\ e \in Int
        /\ f \in 0 .. 1439 /\ g \in 0 .. 1439 /\ h \in 0 .. 1439
        /\ s = d * 1440 + f /\ t = e * 1440 + g
        /\ (end - 1) + hours.offset = d * 1440 + h
    BY LocalTime
  <1>2. /\ o \in 0 .. 1439 /\ c \in 0 .. 1439 /\ s \in Int /\ t \in Int
        /\ t - 1 = (end - 1) + hours.offset
    BY HoursTyped
  <1>3. /\ o <= f
        /\ (IF g = 0 THEN 60 * 1440 - 1 ELSE 60 * g) <= 60 * c
    BY DEF WithinHours, LocalEnd, Day
  <1>4. t - 1 = d * 1440 + h
    BY <1>1, <1>2
  <1> HIDE DEF s, t, d, e, f, g, h, o, c
  <1>5. g # 0 /\ g <= c
    BY <1>1, <1>2, <1>3
  <1>6. d * 1440 + o <= s /\ t <= d * 1440 + c
    <2>1. /\ f \in Int /\ g \in Int /\ h \in Int /\ o \in Int /\ c \in Int
          /\ 0 <= g /\ g <= 1439 /\ 0 <= h /\ h <= 1439
      BY <1>1, <1>2
    <2>2. e <= d
      BY <2>1, <1>1, <1>4, <1>5
    <2>3. d <= e
      BY <2>1, <1>1, <1>4
    <2>4. e = d
      BY <1>1, <2>2, <2>3
    <2> QED
      BY <2>1, <2>4, <1>1, <1>3, <1>5
  <1>7. d * Day - hours.offset + o <= start /\ end <= d * Day - hours.offset + c
    BY <1>1, <1>2, <1>6, HoursTyped DEF s, t, Day
  <1> QED
    BY <1>7 DEF d, o, c, EntirelyWithin

-----------------------------------------------------------------------------
(* A query that is past Lookup has a question the catalogue can answer.    *)
Places == {"cache", "lookup", "read", "loop", "store", "done", "failed"}

Placed == ask \in [Queries -> Questions] /\ qpc \in [Queries -> Places]

(* Answers to the question qn: a set of slots of its grid.                 *)
Fits(qn, answer) == ~UnknownService(qn) /\ answer \in SUBSET Grid(qn)

CacheInv ==
    /\ now \in Instants
    /\ Placed
    /\ DOMAIN slots = Queries
    /\ readAt \in [Queries -> Instants \cup {Never}]
    /\ doneAt \in [Queries -> Instants \cup {Never}]
    /\ DOMAIN cache = CacheKeys
    /\ deadline \in [CacheKeys -> Int]
    /\ \A q \in Queries :
          /\ qpc[q] = "read" => ~UnknownService(ask[q])
          /\ qpc[q] \in {"loop", "store", "done"} => Fits(ask[q], slots[q])
    /\ \A k \in CacheKeys : cache[k] # NoSlots => Fits(k, cache[k])

(* Every entry of the cache, and every answer, is a set of slots of the    *)
(* question it was computed for.                                           *)
LEMMA CacheInit == Init => CacheInv
  BY InstantsAssumption DEF Init, CacheInv, Placed, Places

LEMMA QueryStep ==
    ASSUME CacheInv, NEW q \in Queries, Step(q) \/ QueryError(q)
    PROVE  CacheInv'
  <1> USE DEF CacheInv, Placed, Places, Goto, Answer, CacheKey, Cached, redis,
              calendar
  <1>0. /\ ask[q] \in Questions /\ ask[q] \in CacheKeys
        /\ UNCHANGED <<now, ask>>
    BY DEF CacheKeys, Step, ReadCache, Lookup, ReadDay, DropPast, Store,
       QueryError
  <1>a. \A k : UnknownService(k)' <=> UnknownService(k)
    BY DEF UnknownService
  <1>b. \A k, answer : Fits(k, answer)' <=> Fits(k, answer)
    BY <1>a DEF Fits, Grid, Opening, Closing, Offset
  <1>1. CASE ReadCache(q)
    BY <1>0, <1>1, <1>a, <1>b DEF ReadCache
  <1>2. CASE Lookup(q)
    <2>1. ~UnknownService(ask[q]) => Fits(ask[q], {})
      BY DEF Fits
    <2> QED
      BY <1>0, <1>2, <2>1, <1>a, <1>b DEF Lookup
  <1>3. CASE ReadDay(q)
    <2>1. FreeSlots(ask[q]) \in SUBSET Grid(ask[q])
      BY DEF FreeSlots
    <2>2. Fits(ask[q], FreeSlots(ask[q]))
      BY <1>3, <2>1 DEF ReadDay, Fits
    <2> QED
      BY <1>0, <1>3, <2>2, <1>a, <1>b DEF ReadDay
  <1>4. CASE Store(q)
    <2>1. now + Ttl \in Int
      BY InstantsAssumption
    <2> QED
      BY <1>0, <1>4, <2>1, <1>a, <1>b DEF Store
  <1>6. CASE DropPast(q)
    <2>1. Fits(ask[q], {s \in slots[q] : s > now})
      BY <1>6 DEF DropPast, Fits
    <2> QED
      BY <1>0, <1>6, <2>1, <1>a, <1>b DEF DropPast
  <1>5. CASE QueryError(q)
    BY <1>0, <1>5, <1>a, <1>b DEF QueryError
  <1> QED
    BY <1>1, <1>2, <1>3, <1>4, <1>5, <1>6 DEF Step

LEMMA CacheStep == CacheInv /\ [Next]_vars => CacheInv'
  <1> SUFFICES ASSUME CacheInv, [Next]_vars PROVE CacheInv'
    OBVIOUS
  <1> USE DEF CacheInv, Placed, queries, redis, calendar
  <1>1. ASSUME NEW q \in Queries, Step(q) \/ QueryError(q)
        PROVE  CacheInv'
    BY <1>1, QueryStep
  <1>2. CASE CalendarStep \/ Tick \/ UNCHANGED vars
    BY <1>2 DEF CalendarStep, Tick, vars, Fits
  <1> QED
    BY <1>1, <1>2 DEF Next

LEMMA CacheInvariant == Spec => []CacheInv
  BY CacheInit, CacheStep, PTL DEF Spec

(* Places and questions are what they should be, and nobody is answered    *)
(* with an absent cache entry (check_availability, if cached).             *)
THEOREM AvailabilityTypeCorrect == Spec => []TypeOK
  <1>1. ASSUME CacheInv PROVE TypeOK
    <2>1. ASSUME NEW q \in Queries, qpc[q] = "done"
          PROVE  slots[q] # NoSlots
      <3>1. ask[q] \in Questions
        BY <1>1 DEF CacheInv, Placed
      <3>2. slots[q] \in SUBSET Grid(ask[q]) /\ ~UnknownService(ask[q])
        BY <1>1, <2>1 DEF CacheInv, Fits
      <3> QED
        BY <3>1, <3>2, NoSlotsAssumption
    <2> QED
      BY <1>1, <2>1 DEF CacheInv, Placed, Places, TypeOK
  <1> QED
    BY <1>1, CacheInvariant, PTL

(* Whatever the cache, its expiry and its errors did: an answer is about a *)
(* service the dealership has, and names slots of that service on that day *)
(* (check_availability, cache_key).                                        *)
THEOREM AnswerFitsQuestionAlways == Spec => []AnswerFitsQuestion
  <1>1. CacheInv => AnswerFitsQuestion
    BY DEF CacheInv, Fits, AnswerFitsQuestion
  <1> QED
    BY <1>1, CacheInvariant, PTL

-----------------------------------------------------------------------------
(* The slots of the grid, seen as a booking sees them.                     *)

(* What is confirmed is one of the rows that bookings write.               *)
RowsInv ==
    /\ DOMAIN state = Ids /\ DOMAIN slot = Ids
    /\ \A a \in Ids : state[a] = "CONFIRMED" => slot[a] \in Rows

LEMMA RowsInit == Init => RowsInv
  BY DEF Init, Ledger!Init, RowsInv

LEMMA RowsStep == RowsInv /\ [Next]_vars => RowsInv'
  <1> SUFFICES ASSUME RowsInv, [Next]_vars PROVE RowsInv'
    OBVIOUS
  <1> USE DEF RowsInv, queries, calendar
  <1>1. ASSUME NEW a \in Ids, Ledger!Book(a) \/ Ledger!Cancel(a)
        PROVE  RowsInv'
    BY <1>1 DEF Ledger!Book, Ledger!Cancel
  <1>2. ASSUME \/ \E q \in Queries : Step(q) \/ QueryError(q)
               \/ Tick
               \/ UNCHANGED vars
        PROVE  RowsInv'
    BY <1>2 DEF Step, ReadCache, Lookup, ReadDay, DropPast, Store, QueryError,
       Tick, vars
  <1> QED
    BY <1>1, <1>2 DEF Next, CalendarStep, Ledger!Next

LEMMA RowsInvariant == Spec => []RowsInv
  BY RowsInit, RowsStep, PTL DEF Spec

(* The i-th of the slots of length d that fit into n minutes.              *)
LEMMA SlotFits ==
    ASSUME NEW d \in Int, d > 0, NEW n \in Int, NEW i \in 0 .. (n \div d) - 1
    PROVE  /\ i * d \in Int /\ 0 <= i * d
           /\ i * d + d <= n
  <1> DEFINE k == n \div d
  <1>1. k \in Int /\ d * k <= n
    BY SMT
  <1>2. i \in Int /\ 0 <= i /\ 0 <= k - (i + 1)
    BY <1>1
  <1> HIDE DEF k
  <1>3. i * d \in Int /\ 0 <= i * d
    BY <1>2
  <1>4. 0 <= d * (k - (i + 1))
    BY <1>1, <1>2
  <1>5. d * (k - (i + 1)) = d * k - (i * d + d)
    BY <1>1, <1>2
  <1> QED
    BY <1>1, <1>3, <1>4, <1>5, <1>2

(* What a question the catalogue can answer is about.                      *)
LEMMA KnownQuestion ==
    ASSUME NEW qn \in Questions, ~UnknownService(qn)
    PROVE  /\ qn.date \in Int
           /\ Hours[qn.dealership] \in HoursType
           /\ Duration[qn.service] \in Int /\ Duration[qn.service] > 0
           /\ Offset(qn) \in Int
           /\ Opening(qn) \in Int /\ Closing(qn) \in Int
  <1>1. /\ qn.date \in Int /\ Hours[qn.dealership] \in HoursType
        /\ Duration[qn.service] \in Int /\ Duration[qn.service] > 0
    BY CatalogueAssumption, AvailabilityAssumption DEF UnknownService
  <1>2. PICK h \in HoursType : h = Hours[qn.dealership]
    BY <1>1
  <1>3. PICK o, c, x \in Int :
            /\ h.open = o /\ h.close = c /\ h.offset = x
            /\ 0 <= o /\ o < 1440 /\ 0 <= c /\ c < 1440
    BY HoursNamed
  <1>4. Offset(qn) \in Int
    BY <1>2, <1>3 DEF Offset
  <1>5. Opening(qn) \in Int /\ Closing(qn) \in Int
    BY <1>1, <1>2, <1>3, <1>4 DEF Opening, Closing, Day
  <1> QED
    BY <1>1, <1>4, <1>5

LEMMA GridInDay ==
    ASSUME NEW qn \in Questions, ~UnknownService(qn), NEW s \in Grid(qn)
    PROVE  /\ s \in Int /\ Opening(qn) <= s
           /\ s + Duration[qn.service] <= Closing(qn)
  <1> DEFINE d == Duration[qn.service]
             n == Closing(qn) - Opening(qn)
             o == Opening(qn)
             c == Closing(qn)
  <1>1. PICK i \in 0 .. (n \div d) - 1 : s = o + i * d
    BY DEF Grid
  <1>2. d \in Int /\ d > 0 /\ o \in Int /\ c \in Int /\ n \in Int
    BY KnownQuestion
  <1>3. n = c - o
    OBVIOUS
  <1> HIDE DEF d, n, o, c
  <1>4. i * d \in Int /\ 0 <= i * d /\ i * d + d <= n
    BY <1>1, <1>2, SlotFits
  <1>5. s \in Int /\ o <= s /\ s + d <= c
    BY <1>1, <1>2, <1>3, <1>4
  <1> QED
    BY <1>5 DEF d, o, c

(* No slot of the grid would be refused for the hours: not by the midnight *)
(* rule, and not where the zone's name does not resolve.                   *)
LEMMA GridWithinHours ==
    ASSUME NEW qn \in Questions, ~UnknownService(qn), NEW s \in Grid(qn)
    PROVE  WithinHours(s, s + Duration[qn.service], Hours[qn.dealership])
  <1>1. PICK h \in HoursType : h = Hours[qn.dealership]
    BY KnownQuestion
  <1>2. PICK o, c, x \in Int :
            /\ h.open = o /\ h.close = c /\ h.offset = x
            /\ 0 <= o /\ o < 1440 /\ 0 <= c /\ c < 1440
    BY HoursNamed
  <1>a. PICK d \in Int, u \in Int :
            d = Duration[qn.service] /\ d > 0 /\ u = qn.date
    BY KnownQuestion
  <1>3. CASE h.known
    <2>1. /\ s \in Int
          /\ u * 1440 + o - x <= s /\ s + d <= u * 1440 + c - x
      BY <1>1, <1>2, <1>a, <1>3, GridInDay DEF Opening, Closing, Offset, Day
    <2>2. PICK v, w \in Int :
              /\ v = LocalDayOf(s, h) /\ s + x = v * 1440 + w
              /\ 0 <= w /\ w < 1440
      <3> DEFINE v == LocalDayOf(s, h)
                 w == TimeOfDay(s, h)
      <3>1. v \in Int /\ w \in 0 .. 1439 /\ s + h.offset = v * 1440 + w
        BY <2>1, LocalTime
      <3> HIDE DEF v, w
      <3>2. w \in Int /\ 0 <= w /\ w < 1440
        BY <3>1
      <3> QED
        BY <1>2, <3>1, <3>2 DEF v
    <2>3. v < u + 1 /\ u < v + 1
      BY <1>2, <1>a, <2>1, <2>2
    <2>4. v = u
      BY <1>a, <2>2, <2>3
    <2>5. u * 1440 - x + o <= s /\ s + d <= u * 1440 - x + c
      BY <1>2, <1>a, <2>1
    <2>6. EntirelyWithin(s, s + d, h)
      BY <1>2, <1>a, <2>1, <2>2, <2>4, <2>5 DEF EntirelyWithin, Day
    <2>7. s + d \in Int /\ s < s + d
      BY <1>a, <2>1
    <2> QED
      BY <1>1, <1>a, <2>1, <2>6, <2>7, NoFalseRejection
  <1> QED
    BY <1>1, <1>3 DEF WithinHours

(* The day's appointments leave out no appointment that could keep a bay   *)
(* or a technician of the dealership busy in a slot, wherever it is booked *)
(* and however far it runs into the day or out of it.                      *)
LEMMA DayRowsSuffice ==
    ASSUME RowsInv, NEW qn \in Questions, ~UnknownService(qn),
           NEW s \in Grid(qn), NEW a \in Ids, state[a] = "CONFIRMED",
           Overlaps(slot[a].from, slot[a].to, s, s + Duration[qn.service]),
           \/ HomeOf[slot[a].bay] = qn.dealership
           \/ HomeOf[slot[a].tech] = qn.dealership
    PROVE  slot[a] \in Occupying(qn, s)
  <1> DEFINE f == slot[a].from
             t == slot[a].to
             o == Opening(qn)
             c == Closing(qn)
             e == s + Duration[qn.service]
  <1>1. /\ slot[a] \in Rows /\ f \in Int /\ t \in Int
        /\ HomeOf[slot[a].bay] = qn.dealership
    BY AvailabilityAssumption DEF RowsInv
  <1>2. /\ s \in Int /\ e \in Int /\ o \in Int /\ c \in Int
        /\ o <= s /\ e <= c /\ f < e /\ s < t
    BY GridInDay, KnownQuestion DEF Overlaps
  <1> HIDE DEF f, t, o, c, e
  <1>3. f < c /\ o < t
    BY <1>1, <1>2
  <1>4. Overlaps(f, t, o, c)
    BY <1>3 DEF Overlaps
  <1> QED
    BY <1>1, <1>4 DEF Occupying, DayRows, f, t, o, c

(* The day's appointments are confirmed ones.                              *)
LEMMA OccupyingBooked ==
    ASSUME NEW qn, NEW s, NEW x \in Occupying(qn, s)
    PROVE  /\ \E a \in Ids : state[a] = "CONFIRMED" /\ slot[a] = x
           /\ Overlaps(x.from, x.to, s, s + Duration[qn.service])
  BY DEF Occupying, DayRows

LEMMA FreeIsBookable ==
    ASSUME RowsInv, NEW qn \in Questions, ~UnknownService(qn)
    PROVE  FreeSlots(qn) = {s \in Grid(qn) : Bookable(qn, s)}
  <1> SUFFICES ASSUME NEW s \in Grid(qn)
               PROVE  /\ BaysOf(qn) \ {x.bay : x \in Occupying(qn, s)} # {}
                      /\ TechsOf(qn) \ {x.tech : x \in Occupying(qn, s)} # {}
                      <=> Bookable(qn, s)
    BY DEF FreeSlots
  <1> DEFINE e == s + Duration[qn.service]
             booked == {slot[a] : a \in {x \in Ids : state[x] = "CONFIRMED"}}
             Busy(x) == Overlaps(x.from, x.to, s, e)
  <1>1. WithinHours(s, e, Hours[qn.dealership])
    BY GridWithinHours
  <1>2. ASSUME NEW b \in Bays, UsableBay(b, qn)
        PROVE  b \in {x.bay : x \in Occupying(qn, s)}
                   <=> \E x \in booked : x.bay = b /\ Busy(x)
    <2>1. HomeOf[b] = qn.dealership
      BY <1>2 DEF UsableBay
    <2>2. \A x \in booked : x.bay = b /\ Busy(x) => x \in Occupying(qn, s)
      BY <2>1, DayRowsSuffice
    <2>3. \A x \in Occupying(qn, s) : x \in booked /\ Busy(x)
      BY OccupyingBooked
    <2> QED
      BY <2>2, <2>3
  <1>3. ASSUME NEW t \in Techs, Qualified(t, qn)
        PROVE  t \in {x.tech : x \in Occupying(qn, s)}
                   <=> \E x \in booked : x.tech = t /\ Busy(x)
    <2>1. HomeOf[t] = qn.dealership
      BY <1>3 DEF Qualified
    <2>2. \A x \in booked : x.tech = t /\ Busy(x) => x \in Occupying(qn, s)
      BY <2>1, DayRowsSuffice
    <2>3. \A x \in Occupying(qn, s) : x \in booked /\ Busy(x)
      BY OccupyingBooked
    <2> QED
      BY <2>2, <2>3
  <1>4. BaysOf(qn) \ {x.bay : x \in Occupying(qn, s)} # {}
            <=> \E b \in Bays : /\ UsableBay(b, qn)
                                /\ \A x \in booked : x.bay = b => ~Busy(x)
    BY <1>2 DEF BaysOf
  <1>5. TechsOf(qn) \ {x.tech : x \in Occupying(qn, s)} # {}
            <=> \E t \in Techs : /\ Qualified(t, qn)
                                 /\ \A x \in booked : x.tech = t => ~Busy(x)
    BY <1>3 DEF TechsOf
  <1> QED
    BY <1>1, <1>4, <1>5 DEF Bookable

(* What is offered is what a booking would get at the moment the day is    *)
(* read, for every shop, every service and every set of appointments: one  *)
(* query over the day and a loop over its slots agree with the hours test  *)
(* and the two SQL searches of a booking (check_availability).             *)
THEOREM OfferedIsBookableAlways == Spec => OfferedIsBookable
  <1>1. ASSUME CacheInv, RowsInv, [Next]_vars, NEW q \in Queries,
               qpc[q] = "read", qpc'[q] = "loop"
        PROVE  slots'[q] = {s \in Grid(ask[q]) : Bookable(ask[q], s)}
    <2>1. ReadDay(q)
      <3>1. ASSUME NEW p \in Queries, Step(p) \/ QueryError(p)
            PROVE  ReadDay(q)
        <4>1. p = q
          BY <1>1, <3>1 DEF CacheInv, Placed, Step, ReadCache, Lookup,
             ReadDay, DropPast, Store, QueryError, Goto, Answer
        <4> QED
          BY <1>1, <3>1, <4>1 DEF CacheInv, Placed, Step, ReadCache, Lookup,
             ReadDay, DropPast, Store, QueryError, Goto, Answer
      <3>2. ASSUME CalendarStep \/ Tick \/ UNCHANGED vars
            PROVE  FALSE
        BY <1>1, <3>2 DEF CalendarStep, Tick, queries, vars
      <3> QED
        BY <1>1, <3>1, <3>2 DEF Next
    <2>2. ask[q] \in Questions /\ ~UnknownService(ask[q])
      BY <1>1 DEF CacheInv, Placed
    <2>3. slots'[q] = FreeSlots(ask[q])
      BY <1>1, <2>1 DEF ReadDay, CacheInv
    <2> QED
      BY <1>1, <2>2, <2>3, FreeIsBookable
  <1>2. CacheInv /\ RowsInv /\ [Next]_vars =>
            [\A q \in Queries : qpc[q] = "read" /\ qpc'[q] = "loop" =>
                slots'[q] = {s \in Grid(ask[q]) : Bookable(ask[q], s)}]_vars
    BY <1>1
  <1> QED
    BY <1>2, CacheInvariant, RowsInvariant, PTL DEF Spec, OfferedIsBookable
-----------------------------------------------------------------------------
(* How old an answer is.                                                   *)

(* What a query that is over has found for a question.                     *)
Found(p, k, found) ==
    /\ qpc[p] = "done" /\ readAt[p] # Never
    /\ ask[p] = k /\ slots[p] = found
    /\ \A s \in found : readAt[p] < s

(* An entry is what the last query that stored it found, and its deadline  *)
(* counts from the end of that query.                                      *)
EntryFound ==
    \A k \in CacheKeys : cache[k] # NoSlots =>
        \E p \in Queries :
            Found(p, k, cache[k]) /\ deadline[k] = doneAt[p] + Ttl

Dated ==
    \A q \in Queries :
        /\ qpc[q] = "store" =>
              readAt[q] # Never /\ \A s \in slots[q] : readAt[q] < s
        /\ qpc[q] = "done" => doneAt[q] # Never /\ doneAt[q] <= now

RecentInv == Dated /\ EntryFound /\ AnswerIsRecent

LEMMA RecentInit == Init => RecentInv
  BY DEF Init, RecentInv, Dated, EntryFound, AnswerIsRecent

(* A query that is over stays as it is.                                    *)
LEMMA DoneStays ==
    ASSUME CacheInv, [Next]_vars, NEW p \in Queries, qpc[p] = "done"
    PROVE  /\ qpc'[p] = "done" /\ ask'[p] = ask[p] /\ slots'[p] = slots[p]
           /\ readAt'[p] = readAt[p] /\ doneAt'[p] = doneAt[p]
  BY DEF CacheInv, Placed, Next, Step, ReadCache, Lookup, ReadDay, DropPast,
         Store, QueryError, CalendarStep, Tick, Goto, Answer, queries, vars

LEMMA ClockAdvances ==
    ASSUME CacheInv, [Next]_vars
    PROVE  now \in Int /\ now' \in Int /\ now <= now'
  BY InstantsAssumption DEF CacheInv, Next, Step, ReadCache, Lookup, ReadDay,
     DropPast, Store, QueryError, CalendarStep, Tick, vars

LEMMA NextDated == CacheInv /\ Dated /\ [Next]_vars => Dated'
  <1> SUFFICES ASSUME CacheInv, Dated, [Next]_vars, NEW q \in Queries
               PROVE  /\ qpc'[q] = "store" =>
                            /\ readAt'[q] # Never
                            /\ \A s \in slots'[q] : readAt'[q] < s
                      /\ qpc'[q] = "done" =>
                            doneAt'[q] # Never /\ doneAt'[q] <= now'
    BY DEF Dated
  <1> USE DEF CacheInv, Placed
  <1>1. CASE DropPast(q)
    <2>1. now \in Int /\ now # Never
      BY InstantsAssumption
    <2> QED
      BY <1>1, <2>1 DEF DropPast, Goto
  <1>2. CASE Answer(q) /\ now' = now
    BY <1>2, InstantsAssumption DEF Answer, Goto
  <1>3. CASE qpc[q] = "done"
    <2>1. doneAt[q] # Never /\ doneAt[q] <= now /\ doneAt[q] \in Int
      BY <1>3, InstantsAssumption DEF Dated
    <2> QED
      BY <1>3, <2>1, DoneStays, ClockAdvances
  <1>4. CASE qpc'[q] = "store" /\ ~DropPast(q)
    <2>1. /\ qpc[q] = "store" /\ readAt'[q] = readAt[q]
          /\ slots'[q] = slots[q]
      BY <1>4 DEF Next, Step, ReadCache, Lookup, ReadDay, DropPast, Store,
         QueryError, CalendarStep, Tick, Goto, Answer, queries, vars
    <2> QED
      BY <1>4, <2>1 DEF Dated
  <1>5. CASE qpc[q] # "done" /\ qpc'[q] = "done" /\ ~(Answer(q) /\ now' = now)
    BY <1>5 DEF Next, Step, ReadCache, Lookup, ReadDay, DropPast, Store,
       QueryError, CalendarStep, Tick, Goto, Answer, queries, vars
  <1> QED
    BY <1>1, <1>2, <1>3, <1>4, <1>5

(* An entry changes only when a query stores what it found and ends.       *)
LEMMA NextEntry == CacheInv /\ Dated /\ EntryFound /\ [Next]_vars => EntryFound'
  <1> SUFFICES ASSUME CacheInv, Dated, EntryFound, [Next]_vars,
                      NEW k \in CacheKeys, cache'[k] # NoSlots
               PROVE  \E p \in Queries :
                          /\ Found(p, k, cache[k])'
                          /\ deadline'[k] = doneAt'[p] + Ttl
    BY DEF EntryFound
  <1>1. CASE cache'[k] = cache[k] /\ deadline'[k] = deadline[k]
    <2>1. PICK p \in Queries :
              Found(p, k, cache[k]) /\ deadline[k] = doneAt[p] + Ttl
      BY <1>1 DEF EntryFound
    <2>2. Found(p, k, cache[k])' /\ doneAt'[p] = doneAt[p]
      BY <1>1, <2>1, DoneStays DEF Found
    <2> QED
      BY <1>1, <2>1, <2>2
  <1>2. ASSUME NEW q \in Queries, Store(q), k = CacheKey(ask[q]),
               cache'[k] = slots[q], deadline'[k] = now + Ttl
        PROVE  \E p \in Queries :
                   /\ Found(p, k, cache[k])'
                   /\ deadline'[k] = doneAt'[p] + Ttl
    <2>1. /\ qpc'[q] = "done" /\ doneAt'[q] = now /\ slots' = slots
          /\ readAt' = readAt /\ ask' = ask /\ qpc[q] = "store"
      BY <1>2 DEF Store, Answer, Goto, CacheInv, Placed
    <2>2. readAt[q] # Never /\ \A s \in slots[q] : readAt[q] < s
      BY <2>1 DEF Dated
    <2>3. Found(q, k, cache[k])'
      BY <1>2, <2>1, <2>2 DEF Found, CacheKey
    <2> QED
      BY <1>2, <2>1, <2>3
  <1>3. \/ cache'[k] = cache[k] /\ deadline'[k] = deadline[k]
        \/ \E q \in Queries :
              /\ Store(q) /\ k = CacheKey(ask[q])
              /\ cache'[k] = slots[q] /\ deadline'[k] = now + Ttl
    BY DEF CacheInv, Next, Step, ReadCache, Lookup, ReadDay, DropPast, Store,
       QueryError, CalendarStep, Tick, redis, vars
  <1> QED
    BY <1>1, <1>2, <1>3

LEMMA NextRecent ==
    CacheInv /\ RecentInv /\ [Next]_vars => AnswerIsRecent'
  <1> SUFFICES ASSUME CacheInv, RecentInv, [Next]_vars, NEW q \in Queries,
                      qpc'[q] = "done", slots'[q] # {}
               PROVE  \E p \in Queries :
                          /\ Found(p, ask[q], slots[q])'
                          /\ doneAt'[p] <= doneAt'[q]
                          /\ doneAt'[q] - doneAt'[p] < Ttl
    BY DEF AnswerIsRecent, Found
  <1> USE DEF RecentInv
  <1>1. CASE qpc[q] = "done"
    <2>1. PICK p \in Queries :
              /\ Found(p, ask[q], slots[q])
              /\ doneAt[p] <= doneAt[q] /\ doneAt[q] - doneAt[p] < Ttl
      BY <1>1, DoneStays DEF AnswerIsRecent, Found
    <2>2. /\ ask'[q] = ask[q] /\ slots'[q] = slots[q]
          /\ doneAt'[q] = doneAt[q]
      BY <1>1, DoneStays
    <2>3. Found(p, ask[q], slots[q])' /\ doneAt'[p] = doneAt[p]
      BY <2>1, <2>2, DoneStays DEF Found
    <2> QED
      BY <2>1, <2>2, <2>3
  <1>2. CASE ReadCache(q)
    <2> DEFINE k == CacheKey(ask[q])
    <2>1. /\ now < deadline[k] /\ cache[k] # NoSlots /\ slots'[q] = cache[k]
          /\ doneAt'[q] = now /\ ask' = ask /\ k = ask[q] /\ k \in CacheKeys
      BY <1>2 DEF ReadCache, Cached, Answer, Goto, CacheInv, Placed, CacheKey,
         CacheKeys
    <2>2. PICK p \in Queries :
              Found(p, k, cache[k]) /\ deadline[k] = doneAt[p] + Ttl
      BY <2>1 DEF EntryFound
    <2>a. doneAt[p] # Never /\ doneAt[p] <= now
      BY <2>2 DEF Found, Dated
    <2>b. doneAt[p] \in Instants /\ now \in Instants
      BY <2>a DEF CacheInv
    <2>c. doneAt[p] \in Int /\ now \in Int
      BY <2>b, InstantsAssumption
    <2>3. doneAt[p] \in Int /\ doneAt[p] <= now /\ now \in Int /\ Ttl \in Int
      BY <2>a, <2>c, InstantsAssumption
    <2>4. Found(p, ask[q], slots[q])' /\ doneAt'[p] = doneAt[p]
      BY <2>1, <2>2, DoneStays DEF Found
    <2>5. doneAt[p] <= now /\ now - doneAt[p] < Ttl
      BY <2>1, <2>2, <2>3
    <2> QED
      BY <2>1, <2>4, <2>5
  <1>3. CASE Store(q)
    <2>1. /\ slots' = slots /\ readAt' = readAt /\ ask' = ask
          /\ qpc[q] = "store" /\ doneAt'[q] = now
      BY <1>3 DEF Store, Answer, Goto, CacheInv, Placed
    <2>2. Found(q, ask[q], slots[q])'
      BY <2>1 DEF Found, Dated
    <2>3. doneAt'[q] <= doneAt'[q] /\ doneAt'[q] - doneAt'[q] < Ttl
      BY <2>1, InstantsAssumption DEF CacheInv
    <2> QED
      BY <2>2, <2>3
  <1>4. qpc[q] = "done" \/ ReadCache(q) \/ Store(q)
    BY DEF CacheInv, Placed, Next, Step, ReadCache, Lookup, ReadDay, DropPast,
       Store, QueryError, CalendarStep, Tick, Goto, Answer, queries, vars
  <1> QED
    BY <1>1, <1>2, <1>3, <1>4

(* However often an answer is served from the cache, and whatever slow     *)
(* query stores over whatever fresher one: it was found, for the same      *)
(* question, by a query that ended less than a TTL before, and nothing in  *)
(* it had begun when that query read the clock (check_availability).       *)
THEOREM AnswerIsRecentAlways == Spec => []AnswerIsRecent
  <1>1. CacheInv /\ RecentInv /\ [Next]_vars => RecentInv'
    BY NextDated, NextEntry, NextRecent DEF RecentInv
  <1>2. RecentInv => AnswerIsRecent
    BY DEF RecentInv
  <1> QED
    BY <1>1, <1>2, RecentInit, CacheInvariant, PTL DEF Spec
=============================================================================
