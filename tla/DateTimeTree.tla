---------------------------- MODULE DateTimeTree ----------------------------
(***************************************************************************)
(* The tree of times of one database: years in a list, then months, days   *)
(* and hours by index, then the entries of an hour in a doubly linked list *)
(* meant to be sorted by minute (link_entry_to_date_time_tree and          *)
(* unlink_entry_from_date_time_tree, mode DATE_TOD).                       *)
(*                                                                         *)
(* dtt_month has days 0 to 30 and is indexed by tm_mday, 1 to 31: day 31   *)
(* lies over the start of the next month.  Its mark "in use" is the mark   *)
(* of that month, its hours lie in the unused day 0, hour 0 over the mark  *)
(* of day 0 (x86-64, little endian, the structures as gcc lays them out).  *)
(* Behind December comes obj_arr_index, its low byte where the mark of     *)
(* December's day 31 is looked for.                                        *)
(***************************************************************************)
EXTENDS Integers, Sequences, FiniteSets, SequencesExt

CONSTANTS
  MaxEntries,  \* bound of the model: slots for entries
  MaxDamage,   \* bound of the model: operations from the first damage on
  Cells,       \* the hours that occur, as <<year, month, day, hour>>
  Minutes      \* minutes that occur

ASSUME DateAssumption ==
  /\ MaxEntries \in Nat /\ MaxDamage \in Nat
  /\ Cells \subseteq Nat \X (1 .. 12) \X (1 .. 31) \X (0 .. 23)
  \* day 31 of month 12 lies over the object behind the year: not modelled
  /\ \A c \in Cells : c[2] = 12 => c[3] # 31
  \* nor are the times of the year of the one that timegm refuses
  /\ \A c \in Cells : c[1] # 1969
  /\ Minutes \subseteq 0 .. 59

Nil == 0
Entries == 1 .. MaxEntries
NoCell == <<>>   \* tod_hour is null, or tod_utc is the refused time
Years == {c[1] : c \in Cells}

\* The addresses of the marks "in use" of a month and of a day.
MonthMark(c) == <<c[1], c[2]>>
DayMark(c) == IF c[3] = 31 THEN <<c[1], c[2] + 1>> ELSE <<c[1], c[2], c[3]>>
Marks == UNION {{MonthMark(c), DayMark(c)} : c \in Cells}

VARIABLES
  live,     \* the entries in use, all with a time of addition
  tom,      \* those that also have a time of modification
  db,       \* the memory, see Memory
  outcome,  \* "endless" once a search goes round in a circle
  damage,   \* history: 0 until an operation does what the Damages operators
            \* say, then the operations from there on
  left      \* history: the marks of months that no entry needs any more, left
            \* behind as Kept says

vars == <<live, tom, db, outcome, damage, left>>

\* The entries that are linked, and the marks on the way down to them.
Linked == {e \in live : db.cell[e] # NoCell}
Needed == UNION {{MonthMark(db.cell[e]), DayMark(db.cell[e])} : e \in Linked}

Memory ==
  [cell   : [Entries -> Cells \cup {NoCell}],   \* tod_utc down to the hour
   minute : [Entries -> 0 .. 59],
   prev   : [Entries -> Entries \cup {Nil}],    \* tod_prev_sort_min
   next   : [Entries -> Entries \cup {Nil}],
   head   : [Cells -> Entries \cup {Nil}],      \* Nil: hour not in use
   marks  : SUBSET Marks,                       \* months and days in use
   years  : Seq(Years),                         \* the list of years
   low    : SUBSET Years]    \* those with a December and an index of a low
                             \* byte other than 0

-----------------------------------------------------------------------------
(* The tree operations, as functions of the memory                         *)

\* The entries of an hour by next, up to one more than there are entries.
Steps(d, c) ==
  LET at[k \in 0 .. MaxEntries] ==
        IF k = 0 THEN d.head[c]
        ELSE IF at[k - 1] = Nil THEN Nil ELSE d.next[at[k - 1]]
  IN  at

Path(d, c) ==
  LET at == Steps(d, c)
  IN  [k \in {j \in 1 .. MaxEntries + 1 : at[j - 1] # Nil} |-> at[k - 1]]

Cyclic(d, c) == Len(Path(d, c)) > MaxEntries

\* The places of the entries of a later minute; the first is looked for.
Later(d, c, m) ==
  LET p == Path(d, c) IN {i \in DOMAIN p : d.minute[p[i]] > m}

LinkEndless(d, c, m) == Cyclic(d, c) /\ Later(d, c, m) = {}

\* Year, month and day of an hour are marked, the year listed last if it is new:
\* then low says whether the low byte of the index it gets from the pool (that
\* all the trees of the database take from) is other than 0, which nothing looks
\* at in a year without a December.
Lows(c) == {FALSE, \E x \in Cells : x[1] = c[1] /\ x[2] = 12}

Mark(d, c, low) ==
  [d EXCEPT !.marks = @ \cup {MonthMark(c), DayMark(c)},
            !.years = IF c[1] \in Range(@) THEN @ ELSE Append(@, c[1]),
            !.low = IF low /\ c[1] \notin Range(d.years) THEN @ \cup {c[1]} ELSE @]

\* The entry goes between the first entry of a later minute and the one met
\* before it; when the head is of a later minute, that is the head again.
Insert(d, e, c) ==
  LET p == Path(d, c)
      later == Later(d, c, d.minute[e])
      i == CHOOSE x \in later : \A y \in later : x <= y
      before == p[IF i = 1 THEN 1 ELSE i - 1]
  IN  IF d.head[c] = Nil
      THEN [d EXCEPT !.head[c] = e, !.prev[e] = Nil, !.next[e] = Nil]
      ELSE IF later = {}
      THEN [d EXCEPT !.next = [@ EXCEPT ![Last(p)] = e, ![e] = Nil],
                     !.prev[e] = Last(p)]
      ELSE [d EXCEPT !.next = [@ EXCEPT ![before] = e, ![e] = p[i]],
                     !.prev = [@ EXCEPT ![e] = before, ![p[i]] = e]]

\* link_entry_to_date_time_tree, the time having been set.
Link(d, e, low) == Insert(Mark(d, d.cell[e], low), e, d.cell[e])

\* Plausible slip: the second entry of an hour is not told that it is the head.
MutTakeOut(d, e, c) ==
  LET p == d.prev[e]  n == d.next[e] IN
  CASE p = Nil /\ n = Nil -> [d EXCEPT !.head[c] = Nil]
    [] p = Nil /\ n # Nil -> [d EXCEPT !.head[c] = n, !.next[e] = Nil]
    [] p # Nil /\ n = Nil -> [d EXCEPT !.next[p] = Nil, !.prev[e] = Nil]
    [] OTHER -> d

\* An entry without neighbours empties the hour; head and tail are taken out;
\* one between two others stays where it is.
TakeOut(d, e, c) ==
  LET p == d.prev[e]  n == d.next[e] IN
  CASE p = Nil /\ n = Nil -> [d EXCEPT !.head[c] = Nil]
    [] p = Nil /\ n # Nil -> [d EXCEPT !.head[c] = n, !.prev[n] = Nil, !.next[e] = Nil]
    [] p # Nil /\ n = Nil -> [d EXCEPT !.next[p] = Nil, !.prev[e] = Nil]
    [] OTHER -> d

\* What is looked at to decide on a month, as the marks of its days 0 to 31: the
\* mark of day 0 is hour 0 of day 31 of the month before, that of day 31 the mark
\* of the month after, or the low byte of the year's index.
DaysOf(c) == {<<c[1], c[2], x>> : x \in 1 .. 30} \cup {<<c[1], c[2] + 1>>}
DayZero(c) == <<c[1], c[2] - 1, 31, 0>>
MonthsOf(y) == {<<y, m>> : m \in 1 .. 12}

Day(c) == <<c[1], c[2], c[3]>>

ClearDay(d, c) ==
  IF \A x \in Cells : Day(x) = Day(c) => d.head[x] = Nil
  THEN [d EXCEPT !.marks = @ \ {DayMark(c)}] ELSE d

\* Plausible slip: the loop starts with day 1, the first there is.
MutClearMonth(d, c) ==
  IF /\ DayMark(c) \notin d.marks /\ d.marks \cap DaysOf(c) = {}
     /\ c[2] = 12 => c[1] \notin d.low
  THEN [d EXCEPT !.marks = @ \ {MonthMark(c)}] ELSE d

ClearMonth(d, c) ==
  IF /\ DayMark(c) \notin d.marks /\ d.marks \cap DaysOf(c) = {}
     /\ DayZero(c) \in Cells => d.head[DayZero(c)] = Nil
     /\ c[2] = 12 => c[1] \notin d.low
  THEN [d EXCEPT !.marks = @ \ {MonthMark(c)}] ELSE d

Place(years, y) == CHOOSE i \in DOMAIN years : years[i] = y

\* The year goes, with all that is in it, when none of its months is in use.
ClearYear(d, c) ==
  IF d.marks \cap MonthsOf(c[1]) = {}
  THEN [d EXCEPT !.years = RemoveAt(@, Place(@, c[1])),
                 !.marks = {m \in @ : m[1] # c[1]},
                 !.low = @ \ {c[1]},
                 !.head = [x \in Cells |-> IF x[1] = c[1] THEN Nil ELSE @[x]]]
  ELSE d

\* unlink_entry_from_date_time_tree.  A year that is not listed or an hour not
\* in use is answered by LOGIC_ERROR, which the callers ignore.
Unlink(d, e) ==
  LET c == d.cell[e] IN
  IF c = NoCell \/ c[1] \notin Range(d.years) \/ d.head[c] = Nil THEN d
  ELSE LET d1 == TakeOut(d, e, c)
           d2 == IF d1.head[c] = Nil THEN ClearDay(d1, c) ELSE d1
           d3 == IF DayMark(c) \notin d2.marks THEN ClearMonth(d2, c) ELSE d2
       IN  IF MonthMark(c) \notin d3.marks THEN ClearYear(d3, c) ELSE d3

\* mem_wipe_sec of the slot of an entry.
Wipe(d, e) ==
  [d EXCEPT !.cell[e] = NoCell, !.minute[e] = 0, !.prev[e] = Nil, !.next[e] = Nil]

-----------------------------------------------------------------------------
(* What damages                                                            *)

\* Insertion before the head makes a circle.
LinkDamages(d, c, m) == d.head[c] # Nil /\ d.minute[d.head[c]] > m

\* Two hours, of a day 31 and of the month after: unlinking the last entry of
\* either month takes the mark they share, but not that of the later month as
\* long as hour 0 of the day 31 stands for its day 0.
Clash(c, x) ==
  \/ DayMark(c) = MonthMark(x)
  \/ MonthMark(c) = DayMark(x) /\ x # DayZero(c)

\* An entry between two others is not taken out; a second unlink of an entry
\* taken out of a longer list empties the hour; a mark may go that is shared.
UnlinkDamages(e, twice) ==
  LET c == db.cell[e] IN
  /\ c # NoCell
  /\ \/ db.prev[e] # Nil /\ db.next[e] # Nil
     \/ twice /\ (db.prev[e] # Nil \/ db.next[e] # Nil)
     \/ \E f \in live \ {e} : db.cell[f] # NoCell /\ Clash(c, db.cell[f])

\* The mark of a month outlasts its last entry e when something that is taken
\* for its day 0 or its day 31 is in use.
Kept(e) ==
  LET c == db.cell[e]
      others == {db.cell[f] : f \in Linked \ {e}}
      isKept == /\ c # NoCell
                /\ \A x \in others : MonthMark(x) # MonthMark(c)
                /\ \/ DayZero(c) \in others
                   \/ <<c[1], c[2] + 1>> \in db.marks \ {DayMark(c)}
                   \/ c[2] = 12 /\ c[1] \in db.low
  IN  IF isKept THEN {MonthMark(c)} ELSE {}

LeaveBehind(kept) == left' = {m \in left \cup kept : m \in db'.marks \ Needed'}

Count(damages) ==
  /\ damage' = IF damages \/ damage > 0 THEN damage + 1 ELSE 0
  /\ damage' <= MaxDamage

-----------------------------------------------------------------------------
(* Operations                                                              *)

Init ==
  /\ live = {} /\ tom = {}
  /\ db = [cell |-> [e \in Entries |-> NoCell],
           minute |-> [e \in Entries |-> 0],
           prev |-> [e \in Entries |-> Nil],
           next |-> [e \in Entries |-> Nil],
           head |-> [c \in Cells |-> Nil],
           marks |-> {}, years |-> <<>>, low |-> {}]
  /\ outcome = "ok"
  /\ damage = 0 /\ left = {}

\* The time of d's entry has been set to minute m of hour c: it is linked.
Enter(d, e, c, m, low) ==
  IF LinkEndless(d, c, m)
  THEN outcome' = "endless" /\ UNCHANGED <<live, tom, db>>
  ELSE /\ db' = Link([d EXCEPT !.cell[e] = c, !.minute[e] = m], e, low)
       /\ UNCHANGED outcome

\* The time of d's entry has been set to 23:59:59 of 31 December 1969: timegm
\* returns -1, which stands for a failure, and the entry is linked nowhere.
Refuse(d, e) == [d EXCEPT !.cell[e] = NoCell, !.minute[e] = 59]

\* An entry with a time of addition: made now (with a time of modification
\* too), copied with the time of its source, or loaded with the time on file.
Add(e, c, m, modified, low) ==
  /\ outcome = "ok"
  /\ e \notin live /\ \A f \in Entries \ live : e <= f
  /\ Enter(db, e, c, m, low)
  /\ outcome' = "ok" =>
       /\ live' = live \cup {e}
       /\ tom' = IF modified THEN tom \cup {e} ELSE tom
  /\ LeaveBehind({})
  /\ Count(LinkDamages(db, c, m))

\* The same with the refused time, which no caller notices.
AddRefused(e, modified) ==
  /\ outcome = "ok"
  /\ e \notin live /\ \A f \in Entries \ live : e <= f
  /\ db' = Refuse(db, e)
  /\ live' = live \cup {e}
  /\ tom' = IF modified THEN tom \cup {e} ELSE tom
  /\ UNCHANGED outcome
  /\ LeaveBehind({})
  /\ Count(FALSE)

\* Plausible slip: the slot's use by a time of modification is not forgotten.
MutDelete(e) ==
  LET d == Unlink(db, e) IN
  /\ outcome = "ok"
  /\ e \in live
  /\ db' = Wipe(IF e \in tom THEN Unlink(d, e) ELSE d, e)
  /\ live' = live \ {e}
  /\ UNCHANGED <<outcome, tom>>
  /\ LeaveBehind(Kept(e))
  /\ Count(UnlinkDamages(e, e \in tom))

\* del_entry: an entry with a time of modification is unlinked from the tree
\* of times of addition a second time.
Delete(e) ==
  LET d == Unlink(db, e) IN
  /\ outcome = "ok"
  /\ e \in live
  /\ db' = Wipe(IF e \in tom THEN Unlink(d, e) ELSE d, e)
  /\ live' = live \ {e} /\ tom' = tom \ {e}
  /\ UNCHANGED outcome
  /\ LeaveBehind(Kept(e))
  /\ Count(UnlinkDamages(e, e \in tom))

\* edit timeaddutc, timeaddloc: unlinked, changed, linked again.
Edit(e, c, m, low) ==
  LET d == Unlink(db, e)
      d1 == [d EXCEPT !.cell[e] = c, !.minute[e] = m]
  IN
  /\ outcome = "ok"
  /\ e \in live
  /\ Enter(d1, e, c, m, low)
  /\ UNCHANGED <<live, tom>>
  /\ LeaveBehind(Kept(e))
  /\ Count(UnlinkDamages(e, FALSE) \/ LinkDamages(d, c, m))

\* The same with the refused time: tod_hour goes on pointing to the old hour,
\* but the next unlink looks for the year 1969 and finds none.
EditRefused(e) ==
  /\ outcome = "ok"
  /\ e \in live
  /\ db' = Refuse(Unlink(db, e), e)
  /\ UNCHANGED <<live, tom, outcome>>
  /\ LeaveBehind(Kept(e))
  /\ Count(UnlinkDamages(e, FALSE))

Next ==
  \E e \in Entries :
    \/ \E c \in Cells, m \in Minutes : \E low \in Lows(c) :
         \/ \E modified \in BOOLEAN : Add(e, c, m, modified, low)
         \/ Edit(e, c, m, low)
    \/ \E modified \in BOOLEAN : AddRefused(e, modified)
    \/ EditRefused(e)
    \/ Delete(e)

Spec == Init /\ [][Next]_vars

-----------------------------------------------------------------------------
(* Properties                                                              *)

\* The memory holds what the C structures can hold.
TypeOK ==
  /\ live \in SUBSET Entries /\ tom \in SUBSET live
  /\ db \in Memory
  /\ outcome \in {"ok", "endless"}
  /\ damage \in 0 .. MaxDamage
  /\ left \in SUBSET {MonthMark(c) : c \in Cells}

\* Until the first damage every search comes to an end, and the list of an hour
\* (the result of lookup_date_time) holds the entries of that hour, each once,
\* sorted by minute, and the links back agree.
HoursExact ==
  damage = 0 => outcome = "ok" /\ \A c \in Cells :
    LET p == Path(db, c) IN
    /\ Range(p) = {e \in live : db.cell[e] = c}
    /\ IsInjective(p)
    /\ \A i \in 1 .. Len(p) :
         /\ db.prev[p[i]] = IF i = 1 THEN Nil ELSE p[i - 1]
         /\ i > 1 => db.minute[p[i - 1]] <= db.minute[p[i]]

\* Damaged or not, a year is listed, once, just as long as one of its months
\* is marked.  Until the first damage the marks are those that the entries need,
\* no way down missing, and those of the months that the loop over 32 days takes
\* for used after their last entry has gone: with them, and only with them, the
\* year is leaked.
WayDownExact ==
  /\ IsInjective(db.years)
  /\ \A y \in Years : y \in Range(db.years) <=> db.marks \cap MonthsOf(y) # {}
  /\ damage = 0 => db.marks = Needed \cup left
=============================================================================
