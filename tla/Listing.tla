------------------------------ MODULE Listing ------------------------------
(***************************************************************************)
(* GET /appointments, page after page, while bookings and cancellations    *)
(* change the calendar (Calendar.tla, which Booking.tla is shown to        *)
(* implement).                                                             *)
(*                                                                         *)
(* A page is two statements, a count and the rows, in a READ COMMITTED     *)
(* transaction: each sees what is committed when it runs.  A walk is a     *)
(* client that asks for pages 1, 2, ... until it has seen the last one:    *)
(* that client is not in the repository.                                   *)
(***************************************************************************)
EXTENDS Integers, FiniteSets, SequencesExt

CONSTANTS
    Customers,
    Walks,      \* clients that walk through their appointments
    Wishes,     \* [customer, status, limit, until]: what a walk asks for
    AnyStatus,  \* no status filter
    Ids,        \* appointments that bookings may create
    BookedBy,   \* appointments.customer_id
    Rows,       \* the assignments they may have: [bay, tech, from, to]
    NoSlot      \* an id without an appointment

(* until: "short" asks on until a page has fewer rows than the limit,      *)
(* "total" until the pages cover the total of the last answer.             *)
ASSUME ListingAssumption ==
    /\ BookedBy \in [Ids -> Customers]
    /\ \A w \in Wishes : w.limit \in 1 .. 100 /\ w.until \in {"short", "total"}
    /\ IsFiniteSet(Ids)
    /\ \A x \in Rows : x.from \in Int

VARIABLES
    wish,        \* what each walk asks for
    wpc,         \* "count", "rows": the next statement; "done"
    page,        \* the page it is asking for
    total,       \* pagination.total of that page
    shown,       \* the appointments shown so far, in order
    before,      \* history: the calendar when the walk began
    state, slot  \* the committed appointments

walks == <<wish, wpc, page, total, shown, before>>
calendar == <<state, slot>>
vars == <<wish, wpc, page, total, shown, before, state, slot>>

Ledger == INSTANCE Calendar WITH Slots <- Rows

-----------------------------------------------------------------------------
(* The WHERE clause: the caller's rows, with the status asked for.         *)
Matches(a, st, w) ==
    /\ BookedBy[a] = w.customer
    /\ st # "none"
    /\ w.status \in {AnyStatus, st}

Matching(w) == {a \in Ids : Matches(a, state[a], w)}

(* Mutant: no ORDER BY.                                                    *)
Unordered(S) == SetToSeqs(S)

(* ORDER BY scheduled_start DESC: rows that start together come in any     *)
(* order, and not the same one each time.                                  *)
Ordered(S) ==
    {s \in SetToSeqs(S) :
        \A i, j \in DOMAIN s : i < j => slot[s[i]].from >= slot[s[j]].from}

(* Mutant: the first page is page 0.                                       *)
PageFromZero(s, n, limit) ==
    SubSeq(s, n * limit + 1,
           IF (n + 1) * limit < Len(s) THEN (n + 1) * limit ELSE Len(s))

(* OFFSET (page - 1) * limit LIMIT limit.                                  *)
PageOf(s, n, limit) ==
    SubSeq(s, (n - 1) * limit + 1,
           IF n * limit < Len(s) THEN n * limit ELSE Len(s))

-----------------------------------------------------------------------------
Init ==
    /\ wish \in [Walks -> Wishes]
    /\ wpc = [w \in Walks |-> "count"]
    /\ page = [w \in Walks |-> 1]
    /\ total = [w \in Walks |-> 0]
    /\ shown = [w \in Walks |-> <<>>]
    /\ Ledger!Init
    /\ before = [w \in Walks |-> state]

(* The count of the matching rows; a walk begins with the first.           *)
Count(w) ==
    /\ wpc[w] = "count"
    /\ total' = [total EXCEPT ![w] = Cardinality(Matching(wish[w]))]
    /\ before' = [before EXCEPT ![w] = IF page[w] = 1 THEN state ELSE @]
    /\ wpc' = [wpc EXCEPT ![w] = "rows"]
    /\ UNCHANGED <<wish, page, shown, calendar>>

(* The rows of the page; then the answer, and the client asks on or stops. *)
Stops(w, rows) ==
    IF wish[w].until = "short" THEN Len(rows) < wish[w].limit
    ELSE page[w] * wish[w].limit >= total[w]

Fetch(w) ==
    /\ wpc[w] = "rows"
    /\ \E s \in Ordered(Matching(wish[w])) :
          LET rows == PageOf(s, page[w], wish[w].limit)
          IN  /\ shown' = [shown EXCEPT ![w] = @ \o rows]
              /\ IF Stops(w, rows)
                 THEN wpc' = [wpc EXCEPT ![w] = "done"] /\ UNCHANGED page
                 ELSE /\ wpc' = [wpc EXCEPT ![w] = "count"]
                      /\ page' = [page EXCEPT ![w] = @ + 1]
    /\ UNCHANGED <<wish, total, before, calendar>>

CalendarStep == Ledger!Next /\ UNCHANGED walks

Next ==
    \/ \E w \in Walks : Count(w) \/ Fetch(w)
    \/ CalendarStep

Spec == Init /\ [][Next]_vars

-----------------------------------------------------------------------------
Own(w) == {a \in Ids : BookedBy[a] = wish[w].customer}

StartsDiffer(w) ==
    \A a, b \in Own(w) :
        a # b /\ state[a] # "none" /\ state[b] # "none"
            => slot[a].from # slot[b].from

(* When nothing of the customer's changes meanwhile and no two of his      *)
(* appointments start together, the pages together are the list: each      *)
(* appointment once, the latest first, and as many as the total says.      *)
QuietWalkIsExact ==
    \A w \in Walks :
        /\ wpc[w] = "done" /\ StartsDiffer(w)
        /\ \A a \in Own(w) : state[a] = before[w][a]
        => /\ shown[w] \in Ordered(Matching(wish[w]))
           /\ total[w] = Len(shown[w])

(* Bookings and cancellations in the middle of a walk may show a row       *)
(* twice, but hide none: rows are never deleted or moved, and a new one    *)
(* only pushes others to later pages.  Not so with a status filter, with   *)
(* equal starts, or for a client that trusts the total.                    *)
NoneMissed ==
    \A w \in Walks :
        /\ wpc[w] = "done" /\ StartsDiffer(w)
        /\ wish[w].status = AnyStatus /\ wish[w].until = "short"
        => \A a \in Own(w) : before[w][a] # "none" => a \in Range(shown[w])
=============================================================================
