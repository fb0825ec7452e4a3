------------------------------ MODULE Indexing ------------------------------
(***************************************************************************)
(* The indices of chares (include/charmlite/core/indexing.hpp, options.hpp *)
(* and the default mapper of locmgr.hpp).                                  *)
(*                                                                         *)
(* An index is an int or a tuple of ints: a sequence of integers here.  It *)
(* travels as a chare_index_t, into which a tuple is copied byte by byte,  *)
(* its last component lowest: a number to the base Word.                   *)
(*                                                                         *)
(* The constructor of a collection walks over the indices from start to    *)
(* end with index_range.                                                   *)
(***************************************************************************)
EXTENDS Converse, Sequences

CONSTANT Word      \* 2^32, or another number with its remainder by NumPes

ASSUME WordAssumption == Word \in Nat \ {0}

bcast_root == -1   \* chare_bcast_root_, the index no element has

encode(t) ==
    LET upto[i \in 0 .. Len(t)] ==
            IF i = 0 THEN 0 ELSE upto[i - 1] * Word + t[i]
    IN upto[Len(t)]

home_pe(idx) == idx % NumPes

-----------------------------------------------------------------------------
(* Options *)

Options(start, end, step) == [start |-> start, end |-> end, step |-> step]

Upto(end) ==
    Options([i \in DOMAIN end |-> 0], end, [i \in DOMAIN end |-> 1])

NoOptions == Options(<<0>>, <<0>>, <<0>>)

(* Options are given if any of the three is not all zeroes *)
Given(o) == encode(o.start) # 0 \/ encode(o.end) # 0 \/ encode(o.step) # 0

-----------------------------------------------------------------------------
(* index_range *)

is_less(s, t) == \A i \in DOMAIN s : s[i] < t[i]

(* Each component, the one before it carried over, before it wraps around *)
sums(o, curr) ==
    LET sum[i \in DOMAIN curr] ==
            IF i = 1 \/ sum[i - 1] >= o.end[i - 1]
            THEN curr[i] + o.step[i] ELSE curr[i]
    IN sum

next(o, curr) ==
    [i \in DOMAIN curr |->
        IF i = Len(curr) THEN sums(o, curr)[i]
        ELSE sums(o, curr)[i] % o.end[i]]

(* The product of the components of end: a range is never longer *)
volume(o) ==
    LET upto[i \in 0 .. Len(o.end)] ==
            IF i = 0 THEN 1 ELSE upto[i - 1] * o.end[i]
    IN upto[Len(o.end)]

(* The indices a collection made with options o walks over, in order *)
visited(o) ==
    LET curr[n \in 0 .. volume(o)] ==
            IF n = 0 THEN o.start ELSE next(o, curr[n - 1])
        has_next(n) == is_less(curr[n], o.end)
        count == CHOOSE n \in 0 .. volume(o) :
                    ~has_next(n) /\ \A k \in 0 .. (n - 1) : has_next(k)
    IN [n \in 1 .. count |-> curr[n - 1]]

(* What they should be *)
Grid(o) ==
    {t \in [DOMAIN o.end -> UNION {0 .. o.end[i] : i \in DOMAIN o.end}] :
        \A i \in DOMAIN t :
            /\ o.start[i] <= t[i] /\ t[i] < o.end[i]
            /\ (t[i] - o.start[i]) % o.step[i] = 0}

(* The walk wraps around to 0, not to start, and by the rest of the last   *)
(* step: it covers the grid if every component but the last starts at 0    *)
(* and its step divides its end.                                           *)
Regular(o) ==
    \A i \in DOMAIN o.end :
        i < Len(o.end) => o.start[i] = 0 /\ o.end[i] % o.step[i] = 0
=============================================================================
