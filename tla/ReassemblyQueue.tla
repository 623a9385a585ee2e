--------------------------- MODULE ReassemblyQueue ---------------------------
(***************************************************************************)
(* The ReassemblyQueue of tcp/rq.cc as operators on a record.  A TCP       *)
(* receiver keeps the segments that came out of order in one (rq_), a SACK *)
(* sender what the receiver says it has (sq_, the scoreboard).             *)
(*                                                                         *)
(* The seginfo nodes are on two linked lists at once, so a node that is    *)
(* stretched changes on both and keeps its place on both.  TCP header      *)
(* flags, rqflags_ and cnt_ (which only dumplist prints) are left out.     *)
(***************************************************************************)
EXTENDS Integers, Sequences, SequencesExt

(* A node: the bytes s .. e-1.                                             *)
Block(s, e) == [s |-> s, e |-> e]

(* fifo   the nodes in the order of sequence numbers                       *)
(* lifo   the nodes, last inserted first                                   *)
(* total  total_, the number of bytes, kept by hand                        *)
(* nxt    rcv_nxt_, a reference to a variable of the owner                 *)
EmptyQueue(nxt) == [fifo |-> <<>>, lifo |-> <<>>, total |-> 0, nxt |-> nxt]

SumBytes(q) ==
  LET sum[n \in 0 .. Len(q)] ==
        IF n = 0 THEN 0 ELSE sum[n - 1] + (q[n].e - q[n].s)
  IN  sum[Len(q)]

Bytes(q) == UNION {b.s .. b.e - 1 : b \in ToSet(q)}

(* The nodes of a list that are not in B, or only those that are.          *)
Without(q, B) ==
  LET kept[n \in 0 .. Len(q)] ==
        IF n = 0 THEN <<>>
        ELSE IF q[n] \in B THEN kept[n - 1] ELSE Append(kept[n - 1], q[n])
  IN  kept[Len(q)]

Only(q, B) == Without(q, ToSet(q) \ B)

(* startseq_ and endseq_ of a node are assigned.                           *)
Change(r, b, c) ==
  [r EXCEPT !.fifo = ReplaceAll(@, b, c), !.lifo = ReplaceAll(@, b, c)]

(* fremove and sremove.                                                    *)
Unlink(r, B) ==
  [r EXCEPT !.fifo = Without(@, B), !.lifo = Without(@, B)]

(* The nodes of B are deleted.                                             *)
Drop(r, B) == [Unlink(r, B) EXCEPT !.total = @ - SumBytes(Only(r.fifo, B))]

(* A block that starts at or below rcv_nxt_ moves it to its end.           *)
Advance(r, b) == IF r.nxt >= b.s THEN [r EXCEPT !.nxt = b.e] ELSE r

(* Wrong on purpose: coalesce does not look at the block behind.           *)
InsertNoJoinNext(r, k, n) ==
  LET new   == [r EXCEPT !.fifo = InsertAt(@, k + 1, n),
                         !.lifo = <<n>> \o @,
                         !.total = @ + n.e - n.s]
      prev  == k > 0 /\ r.fifo[k].e = n.s
  IN  IF prev
      THEN LET p == r.fifo[k]
               c == Block(p.s, n.e)
           IN  Advance(Change(Unlink(new, {n}), p, c), c)
      ELSE Advance(new, n)

(* From endfast on: a new node behind the k-th one, first on the LIFO;     *)
(* coalesce joins it to the node before, to the node behind, or to both,   *)
(* of which the first survives.                                            *)
Insert(r, k, n) ==
  LET new    == [r EXCEPT !.fifo = InsertAt(@, k + 1, n),
                          !.lifo = <<n>> \o @,
                          !.total = @ + n.e - n.s]
      prev   == {p \in ToSet(r.fifo) : p.e = n.s}
      next   == {q \in ToSet(r.fifo) : q.s = n.e}
      joined == prev \union next \union {n}
      keep   == CHOOSE b \in joined :
                  b \in prev \/ (prev = {} /\ (b \in next \/ next = {}))
      merged == Block(CHOOSE s \in {b.s : b \in joined} :
                        \A b \in joined : s <= b.s,
                      CHOOSE e \in {b.e : b \in joined} :
                        \A b \in joined : e >= b.e)
  IN  Advance(Change(Unlink(new, joined \ {keep}), keep, merged), merged)

(* The search for the neighbours, once nothing is completely overlapped:   *)
(* the i-th node is the last that ends before the segment, the j-th the    *)
(* first that starts behind it, and at most two are in between.  The       *)
(* segment stretches them outwards; what is left of it, if anything, is    *)
(* the hole between them.                                                  *)
Fit(r, s, e) ==
  LET q     == r.fifo
      i     == Max({0} \union {k \in DOMAIN q : q[k].e <= s})
      j     == Min({Len(q) + 1} \union {k \in DOMAIN q : q[k].s >= e})
      left  == i + 1 < j /\ (i = 0 \/ q[i + 1].s < s)
      right == i + 1 < j /\ (j = Len(q) + 1 \/ q[j - 1].e > e)
      wide  == IF left /\ s < q[i + 1].s
               THEN [Change(r, q[i + 1], Block(s, q[i + 1].e))
                       EXCEPT !.total = @ + q[i + 1].s - s]
               ELSE r
      last  == wide.fifo[j - 1]
      wider == IF right /\ e > last.e
               THEN [Change(wide, last, Block(last.s, e))
                       EXCEPT !.total = @ + e - last.e]
               ELSE wide
      start == IF left THEN q[i + 1].e ELSE s
      end   == IF right THEN last.s ELSE e
  IN  IF end <= start
      THEN Advance(wider, Head(wider.fifo))
      ELSE Insert(wider, IF left THEN i + 1 ELSE i, Block(start, end))

(* The nodes the segment overlaps completely.                              *)
Covered(r, s, e) == {b \in ToSet(r.fifo) : s <= b.s /\ b.e <= e}

(* Wrong on purpose: overlapped nodes go without leaving total_.           *)
AddNoUncount(r, s, e) ==
  IF Block(s, e) \in ToSet(r.fifo) THEN r
  ELSE Fit(Unlink(r, Covered(r, s, e)), s, e)

(* ReassemblyQueue::add for start < end: an exact duplicate changes        *)
(* nothing, completely overlapped nodes go, the rest is fitted in.         *)
Add(r, s, e) ==
  IF Block(s, e) \in ToSet(r.fifo) THEN r
  ELSE Fit(Drop(r, Covered(r, s, e)), s, e)

(* ReassemblyQueue::clearto: drop what ends at or below seq, trim what     *)
(* contains it.                                                            *)
ClearTo(r, seq) ==
  LET rest == Drop(r, {b \in ToSet(r.fifo) : b.e <= seq})
      p    == Head(rest.fifo)
  IN  IF rest.fifo # <<>> /\ p.s <= seq
      THEN [Change(rest, p, Block(seq, p.e)) EXCEPT !.total = @ - (seq - p.s)]
      ELSE rest

(* Wrong on purpose: as many blocks as there are.                          *)
GenSackAll(r, m) == r.lifo

(* ReassemblyQueue::gensack: the first m blocks of the LIFO.               *)
GenSack(r, m) == SubSeq(r.lifo, 1, IF m < Len(r.lifo) THEN m ELSE Len(r.lifo))

(* Wrong on purpose: a sequence number at the end of a block is in a hole  *)
(* only if it is the first one.                                            *)
NextHoleStrict(r, seq) ==
  LET above == Only(r.fifo, {b \in ToSet(r.fifo) : b.s >= seq})
  IN  IF above = <<>> THEN [hole |-> -1, blks |-> -1, bytes |-> -1]
      ELSE [hole |-> seq, blks |-> Len(above), bytes |-> SumBytes(above)]

(* ReassemblyQueue::nexthole: the first hole at or above seq that a block  *)
(* above seq or around it delimits, with the number of blocks and bytes    *)
(* above the hole; -1 where the code leaves its outputs at -1.             *)
NextHole(r, seq) ==
  LET above      == Only(r.fifo, {b \in ToSet(r.fifo) : b.e >= seq})
      Hole(h, q) == [hole |-> h,
                     blks |-> IF q = <<>> THEN -1 ELSE Len(q),
                     bytes |-> IF q = <<>> THEN -1 ELSE SumBytes(q)]
  IN  IF above = <<>> THEN Hole(-1, <<>>)
      ELSE IF Head(above).s > seq THEN Hole(seq, above)
      ELSE Hole(Head(above).e, Tail(above))

(* What every owner of a queue relies on: sorted, disjoint and nowhere     *)
(* adjacent nodes, the same ones on both lists, and a total_ that counts   *)
(* them.                                                                   *)
WellFormed(r) ==
  /\ \A k \in DOMAIN r.fifo : r.fifo[k].s < r.fifo[k].e
  /\ \A k \in 1..Len(r.fifo) - 1 : r.fifo[k].e < r.fifo[k + 1].s
  /\ Len(r.lifo) = Len(r.fifo) /\ ToSet(r.lifo) = ToSet(r.fifo)
  /\ r.total = SumBytes(r.fifo)
==============================================================================
