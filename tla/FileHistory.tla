------------------------------ MODULE FileHistory ------------------------------
(***************************************************************************)
(* The pure algorithms behind a file's history: which autosaves are thinned *)
(* out (realtime/checkpoint.py, versions_to_prune), how a window's lines   *)
(* are shared among its authors (realtime/changes.py, split_stats) and the *)
(* edit that makes one text of another (realtime/rooms.py,                 *)
(* text_edit_update); and what each of them promises.                      *)
(***************************************************************************)
EXTENDS Integers, Sequences, FiniteSets, SequencesExt

CONSTANTS KEEP_ALL_FOR, KEEP_TEN_MINUTELY_FOR,
          SLOT, DAY     \* ten minutes and a day

ASSUME HistoryAssumption ==
    /\ KEEP_ALL_FOR \in Nat /\ KEEP_TEN_MINUTELY_FOR \in Nat
    /\ SLOT \in Nat \ {0} /\ DAY \in Nat \ {0}
    /\ \E k \in 1..DAY : DAY = k * SLOT
-----------------------------------------------------------------------------
(* versions_to_prune *)

Old(row, now) == now - row.at >= KEEP_ALL_FOR

\* The slot a version of that age stands for
Slot(row, now) == IF now - row.at < KEEP_TEN_MINUTELY_FOR
                  THEN <<"10m", row.at \div SLOT>> ELSE <<"day", row.at \div DAY>>

\* Kept, and it stands for its slot
Keeps(acc, slot) == [acc EXCEPT !.seen = @ \union {slot}]

\* One turn of the loop, over the rows from the newest; acc.first is i == 0
PruneStep(acc, row, now) ==
    LET slot == Slot(row, now)
        next == [acc EXCEPT !.first = FALSE]
    IN  IF ~Old(row, now) THEN next
        ELSE IF acc.first \/ row.save THEN Keeps(next, slot)
        ELSE IF slot \in acc.seen THEN [next EXCEPT !.prune = @ \union {row.n}]
        ELSE Keeps(next, slot)

\* The rows from the newest
Newest(rows) == CHOOSE s \in SetToSeqs(rows) : \A i, j \in DOMAIN s : i < j => s[i].n > s[j].n

versions_to_prune(rows, now) ==
    LET order == Newest(rows)
        acc[i \in 0..Len(order)] == IF i = 0 THEN [first |-> TRUE, seen |-> {}, prune |-> {}]
                                    ELSE PruneStep(acc[i - 1], order[i], now)
    IN  acc[Len(order)].prune

Pruned(rows, now) == {r \in rows : r.n \notin versions_to_prune(rows, now)}
-----------------------------------------------------------------------------
(* split_stats *)

SumOf(f) ==
    LET sum[i \in 0..Len(f)] == IF i = 0 THEN 0 ELSE sum[i - 1] + f[i]
    IN  sum[Len(f)]

\* The order of sorted(..., reverse=True), which is stable
Before(rest, i, j) == rest[i] > rest[j] \/ (rest[i] = rest[j] /\ i < j)

\* One more for each of the first leftover authors in that order
Extra(leftover, rest) ==
    [i \in DOMAIN rest |->
        IF Cardinality({j \in DOMAIN rest : Before(rest, j, i)}) < leftover THEN 1 ELSE 0]

\* _largest_remainder; authors are numbered, the exact shares are kept times whole
largest_remainder(weights, total) ==
    LET whole  == IF SumOf(weights) = 0 THEN 1 ELSE SumOf(weights)
        shares == [i \in DOMAIN weights |-> (total * weights[i]) \div whole]
        rest   == [i \in DOMAIN weights |-> (total * weights[i]) % whole]
        extra  == Extra(total - SumOf(shares), rest)
    IN  [i \in DOMAIN weights |-> shares[i] + extra[i]]

\* One author gets everything
split_stats(weights, total) ==
    IF Len(weights) = 1 THEN <<total>> ELSE largest_remainder(weights, total)
-----------------------------------------------------------------------------
(* text_edit_update *)

Common(a, b, n) == \A i \in 1..n : a[i] = b[i]

Longest(S) == CHOOSE n \in S : \A m \in S : m <= n

PrefixLen(a, b) == Longest({n \in 0..Len(a) : n <= Len(b) /\ Common(a, b, n)})

\* Mutant: the suffix may overlap the prefix
SuffixRoom_All(a, b, start) == Len(a)

\* How long the common suffix may be: it stops at start in both texts
SuffixRoom(a, b, start) == (IF Len(a) < Len(b) THEN Len(a) ELSE Len(b)) - start

\* del text[start:end_old], then insert new_text[start:end_new] at start
text_edit_update(old, new) ==
    LET start == PrefixLen(old, new)
        keep  == Longest({n \in 0..SuffixRoom(old, new, start) :
                            n <= Len(new) /\ Common(Reverse(old), Reverse(new), n)})
    IN  [at |-> start, delete |-> Len(old) - keep - start,
         insert |-> SubSeq(new, start + 1, Len(new) - keep)]

Apply(old, edit) ==
    SubSeq(old, 1, edit.at) \o edit.insert \o SubSeq(old, edit.at + edit.delete + 1, Len(old))
-----------------------------------------------------------------------------
(* What they promise *)

NewestOf(rows) == {r \in rows : \A q \in rows : q.n <= r.n}

\* "Always kept: the latest version, every Save and every version from the last
\* hour. Older autosaves keep the newest one per 10-minute slot for a day, then
\* the newest per day": the loop removes exactly what a newer old version of the
\* same slot stands for.
PruneIsExact(rows, now) ==
    Pruned(rows, now) =
        {r \in rows : \/ r \in NewestOf(rows) \/ r.save \/ ~Old(r, now)
                      \/ \A q \in rows : q.n > r.n /\ Old(q, now) => Slot(q, now) # Slot(r, now)}

\* What was the latest within the hour is kept.
LatestIsKept(rows, now, age) ==
    NewestOf({r \in rows : r.at <= now - age}) \subseteq Pruned(rows, now)

\* Every day that had a version still has its last one after two prunings.
DaysAreKept(rows, day, now, later) ==
    NewestOf({r \in rows : r.at \div DAY = day}) \subseteq Pruned(Pruned(rows, now), later)

\* "Totals are preserved exactly", and nobody is more than a line off their share.
SplitIsExact(weights, total) ==
    LET shares == split_stats(weights, total)
    IN  /\ SumOf(shares) = total
        /\ \A i \in DOMAIN weights :
              /\ shares[i] * SumOf(weights) > (total * weights[i]) - SumOf(weights)
              /\ shares[i] * SumOf(weights) < (total * weights[i]) + SumOf(weights)

\* The edit makes the new text of the old one, and touches only what differs:
\* what it deletes and inserts have neither first nor last character in common.
EditIsExact(old, new) ==
    LET edit == text_edit_update(old, new)
        gone == SubSeq(old, edit.at + 1, edit.at + edit.delete)
    IN  /\ edit.delete >= 0
        /\ Apply(old, edit) = new
        /\ gone # <<>> /\ edit.insert # <<>> =>
              gone[1] # edit.insert[1] /\ gone[Len(gone)] # edit.insert[Len(edit.insert)]
-----------------------------------------------------------------------------
(* The same, for every input within these bounds *)

MaxNow == 12

\* Histories of up to three versions, numbered in the order of their times
Histories ==
    UNION {{{[n |-> i, at |-> at[i], save |-> save[i]] : i \in 1..k} :
              at \in {a \in [1..k -> 0..7] : \A i \in 1..(k - 1) : a[i] <= a[i + 1]},
              save \in [1..k -> BOOLEAN]} : k \in 0..3}

PruneKeepsHistory ==
    \A rows \in Histories :
        /\ \A now \in {7, 9, MaxNow} : PruneIsExact(rows, now)
        /\ \A now \in 7..MaxNow, age \in 0..KEEP_ALL_FOR : LatestIsKept(rows, now, age)
        /\ \A day \in 0..(MaxNow \div DAY) : DaysAreKept(rows, day, 8, MaxNow)

SplitPreservesTotals ==
    \A k \in 1..3 : \A weights \in [1..k -> 1..4], total \in 0..5 : SplitIsExact(weights, total)

TextsOf == UNION {[1..k -> {"a", "b"}] : k \in 0..3}

TextEditIsExact == \A old, new \in TextsOf : EditIsExact(old, new)
=============================================================================
