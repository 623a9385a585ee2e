----------------------------- MODULE CalendarQueue -----------------------------
(***************************************************************************)
(* The CalendarScheduler of common/scheduler.cc as operators on a record:  *)
(* a hash table on the time of an event, as on the pages of a calendar     *)
(* that is used again every year.                                          *)
(*                                                                         *)
(* Times are numbers, not doubles.  newwidth and the statistics that make  *)
(* deque adjust the width (head_search_, insert_search_, avg_gap_) are     *)
(* abstracted to any width of Widths at any time.  Delays are not          *)
(* negative, so insert never sets cal_clock_ back.                         *)
(***************************************************************************)
EXTENDS Integers, Sequences, SequencesExt

CONSTANTS
  Widths,             \* the widths that newwidth may come up with
  TopScale            \* bound: 1 in the code; makes buckets overflow sooner

ASSUME CalendarAssumption ==
  /\ Widths \subseteq Nat \ {0} /\ Widths # {}
  /\ TopScale \in Nat \ {0}

(* bucket  the lists, of [e |-> event, t |-> time]                         *)
(* count   count_ of each, the number of different times in it             *)
(* stat    stat_qsize_, the number of different times in all               *)
(* qsize   the number of events                                            *)
(* last    lastbucket_, of the last event taken out                        *)
(* clk     cal_clock_                                                      *)
CALENDARHASH(c, t) == (t \div c.width) % c.n

Reinit(nbuck, bwidth, start) ==
  LET c == [bucket |-> [i \in 0 .. nbuck - 1 |-> <<>>],
            count |-> [i \in 0 .. nbuck - 1 |-> 0],
            n |-> nbuck, width |-> bwidth, qsize |-> 0, stat |-> 0,
            last |-> 0, clk |-> start]
  IN  [c EXCEPT !.last = CALENDARHASH(c, start)]

TopThreshold(c) == (2 * c.n) \div TopScale
BotThreshold(c) == (c.n \div 2) - 2

(* What is in the queue.                                                   *)
Items(c) == UNION { ToSet(c.bucket[i]) : i \in 0 .. c.n - 1 }

(* x goes to the k-th place of its bucket.                                 *)
Link(c, x, k) ==
  LET i   == CALENDARHASH(c, x.t)
      new == IF \E y \in ToSet(c.bucket[i]) : y.t = x.t THEN 0 ELSE 1
  IN  [c EXCEPT !.bucket[i] = InsertAt(@, k, x), !.count[i] = @ + new,
                !.stat = @ + new, !.qsize = @ + 1]

(* The k-th event of bucket i goes; alone: no other one has its time.      *)
Unlink(c, i, k, alone) ==
  LET gone == IF alone THEN 1 ELSE 0
  IN  [c EXCEPT !.bucket[i] = RemoveAt(@, k), !.count[i] = @ - gone,
                !.stat = @ - gone, !.qsize = @ - 1]

(* Where insert puts an event of time t: it searches from the end of the   *)
(* list for one that is not later, and goes behind that.                   *)
PlaceBehind(q, t) ==
  CHOOSE k \in 1 .. Len(q) + 1 :
    /\ k > 1 => q[k - 1].t <= t
    /\ \A j \in k .. Len(q) : t < q[j].t

(* Where insert2 does: from the start, before the first that is not        *)
(* earlier.                                                                *)
PlaceBefore(q, t) ==
  CHOOSE k \in 1 .. Len(q) + 1 :
    /\ \A j \in 1 .. k - 1 : q[j].t < t
    /\ k <= Len(q) => t <= q[k].t

(* Wrong on purpose: insert2 goes behind the events of the same time, too. *)
Insert2Behind(c, x) ==
  Link(c, x, PlaceBehind(c.bucket[CALENDARHASH(c, x.t)], x.t))

Insert2(c, x) ==
  Link(c, x, PlaceBefore(c.bucket[CALENDARHASH(c, x.t)], x.t))

(* Everything of list q, from its end, moves into c.                       *)
Moved(q, c) ==
  LET after[k \in 0 .. Len(q)] ==
        IF k = 0 THEN c ELSE Insert2(after[k - 1], q[Len(q) + 1 - k])
  IN  after[Len(q)]

(* resize: all lists move into newsize buckets of width bwidth.            *)
Resize(c, newsize, bwidth) ==
  LET after[i \in 0 .. c.n] ==
        IF i = 0
        THEN Reinit(IF newsize < 4 THEN 4 ELSE newsize, bwidth, c.clk)
        ELSE Moved(c.bucket[i - 1], after[i - 1])
  IN  after[c.n]

(* What insert may leave: behind the events of the same time, and a larger *)
(* calendar if there are too many times in it.                             *)
Insert(c, x) ==
  LET more == Link(c, x, PlaceBehind(c.bucket[CALENDARHASH(c, x.t)], x.t))
  IN  IF more.stat > TopThreshold(more)
      THEN {Resize(more, 2 * more.n, w) : w \in Widths}
      ELSE {more}

(* head searches page by page from the current one on.                     *)
Page(c, k) == (c.last + k) % c.n
Used(c)    == { k \in 0 .. c.n - 1 : c.bucket[Page(c, k)] # <<>> }
Time(c, k) == c.bucket[Page(c, k)][1].t

(* The bucket to take from: the first whose event is due within the year;  *)
(* failing that, and for the last page, the one with the least time.       *)
Found(c) ==
  LET Limit(k) == CASE k = 0 -> (c.width * c.n) \div 2
                    [] k = 1 -> (c.width * c.n) \div 2 + c.width
                    [] OTHER -> c.width * c.n
      Due      == { k \in Used(c) \ {c.n - 1} : Time(c, k) - c.clk < Limit(k) }
  IN  Page(c, IF Due # {}
              THEN CHOOSE k \in Due : \A m \in Due : k <= m
              ELSE CHOOSE k \in Used(c) : \A m \in Used(c) : Time(c, k) <= Time(c, m))

Earliest(c) == c.bucket[Found(c)][1]

(* What deque may leave: head moves lastbucket_ and cal_clock_ on, the     *)
(* width may be adjusted, the first event of the current bucket goes, and  *)
(* the calendar shrinks if there are too few times left in it.             *)
Deque(c) ==
  LET moved    == [c EXCEPT !.last = Found(c), !.clk = Earliest(c).t]
      adjusted == {moved} \cup {Resize(moved, c.n, w) : w \in Widths}
      Cut(b)   == LET q == b.bucket[b.last]
                  IN  Unlink(b, b.last, 1, Len(q) = 1 \/ q[2].t # q[1].t)
      Fit(b)   == IF b.stat < BotThreshold(b)
                  THEN {Resize(b, b.n \div 2, w) : w \in Widths}
                  ELSE {b}
  IN  UNION { Fit(Cut(b)) : b \in adjusted }

(* The bucket of event e, and its place there.                             *)
Bucket(c, e) == CALENDARHASH(c, (CHOOSE x \in Items(c) : x.e = e).t)
Place(c, e)  == CHOOSE k \in DOMAIN c.bucket[Bucket(c, e)] :
                  c.bucket[Bucket(c, e)][k].e = e

(* Wrong on purpose: also the time of an event that is not alone goes.     *)
CancelTime(c, e) == Unlink(c, Bucket(c, e), Place(c, e), TRUE)

(* cancel of an event that is in the queue; the calendar does not shrink.  *)
Cancel(c, e) ==
  LET q == c.bucket[Bucket(c, e)]
      k == Place(c, e)
  IN  Unlink(c, Bucket(c, e), k,
             \A j \in {k - 1, k + 1} \cap DOMAIN q : q[j].t # q[k].t)
==============================================================================
