--------------------------- MODULE MCImageBinding ---------------------------
(***************************************************************************)
(* Four images.  Scans: every graph of imports among them in which A alone *)
(* imports itself and B does not import the kernel, with one thunk to each *)
(* descriptor.  Searches: the kernel has two thunks for one function of    *)
(* the HAL, whose export directory is missing, empty or has up to MaxNames *)
(* names; every name, hint and ordinal.                                    *)
(***************************************************************************)
EXTENDS ImageBinding

CONSTANTS A, B, MaxNames

MCImages == {Kernel, Hal, A, B}
Order == <<Kernel, Hal, A, B>>

Named(s, h) == [kind |-> "name", symbol |-> s, hint |-> h]
Numbered(n) == [kind |-> "ordinal", ordinal |-> n]

\* Names 2, 4, 6; their functions in reverse; the last is beyond the table.
Directory(n) ==
    [base |-> 1, names |-> [k \in 1 .. n |-> 2 * k],
     ordinals |-> [k \in 1 .. n |-> n - k], functions |-> n - 1]

Pick(set) == SelectSeq(Order, LAMBDA x : x \in set)

ImportsOf(set) ==
    [i \in DOMAIN Pick(set) |->
        [dll |-> Pick(set)[i], thunks |-> <<IF i = 2 THEN Numbered(1) ELSE Named(4, 0)>>]]

Graphs ==
    {g \in [MCImages -> SUBSET MCImages] :
        Kernel \notin g[B] /\ \A x \in MCImages : x \in g[x] <=> x = A}

Scans ==
    {[x \in MCImages |-> [imports |-> ImportsOf(edges[x]), exports |-> Directory(3)]] :
        edges \in Graphs}

Wanted == {Named(s, h) : s \in 1 .. (2 * MaxNames + 1), h \in 0 .. MaxNames}
             \cup {Numbered(n) : n \in 0 .. (MaxNames + 1)}

Searches ==
    {[x \in MCImages |->
        [imports |-> IF x = Kernel THEN <<[dll |-> Hal, thunks |-> <<wanted, wanted>>]>>
                     ELSE <<>>,
         exports |-> IF x = Hal THEN exports ELSE NoExports]] :
        wanted \in Wanted,
        exports \in {Directory(n) : n \in 1 .. MaxNames} \cup {NoExports,
                     [base |-> 0, names |-> <<>>, ordinals |-> <<>>, functions |-> 0]}}

MCDisks == Scans \cup Searches
=============================================================================
