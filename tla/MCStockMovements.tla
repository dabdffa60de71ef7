--------------------------- MODULE MCStockMovements ---------------------------
\* Two branches, two lots; the second expires a day later.
EXTENDS StockMovements, TLC

CONSTANTS b1, b2, c1, c2, t1, t2

MCExpiry == [l \in Batches |-> IF l = 1 THEN 0 ELSE 1]

MCSupply == <<[branch |-> b1, batch |-> 1, qty |-> 1],
              [branch |-> b1, batch |-> 2, qty |-> 2]>>

\* An adjustment over all lots, and waste of the second lot.
MCRemoval == <<[branch |-> b1, from |-> Batches, qty |-> 1],
               [branch |-> b1, from |-> {2}, qty |-> 1]>>

MCTransfer ==
    (t1 :> [from |-> b1, to |-> b2, qty |-> 2])
    @@ (t2 :> [from |-> b2, to |-> b1, qty |-> 1])

MCSymmetry == Permutations({c1, c2})
===============================================================================
