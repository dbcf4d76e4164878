-------------------------------- MODULE KVLog --------------------------------
(* What the cache promises of the rows past the sink, without rings, counts or
   accumulators: each cell has a log of positions; attention is shown the mean
   of each completed run of Run rows that the last Window rows do not cover,
   then those last rows one by one. *)
EXTENDS Integers, Sequences

CONSTANTS Cells, Window, Run, First, Bound

VARIABLES log, shown

vars == <<log, shown>>

Entry(h, first, last) ==
    [lo |-> h[first], hi |-> h[last], rows |-> first .. last, div |-> last - first + 1]

Show(h) ==
    LET recent == IF Len(h) <= Window THEN Len(h) ELSE Window
        old    == Len(h) - recent
    IN  [i \in 1 .. old \div Run |-> Entry(h, (i - 1) * Run + 1, i * Run)]
        \o [i \in 1 .. recent |-> Entry(h, old + i, old + i)]

Init ==
    /\ log = [c \in Cells |-> <<>>]
    /\ shown = [c \in Cells |-> Show(<<>>)]

Add(c, pos) ==
    /\ log' = [log EXCEPT ![c] = Append(@, pos)]
    /\ shown' = [shown EXCEPT ![c] = Show(log'[c])]

Forget ==
    /\ log' = [c \in Cells |-> <<>>]
    /\ shown' = [c \in Cells |-> Show(<<>>)]

Next == (\E c \in Cells, pos \in First .. Bound - 1 : Add(c, pos)) \/ Forget
Spec == Init /\ [][Next]_vars
=============================================================================
