----------------------------- MODULE MCTxQueue -----------------------------
(* TxQueue for TLC: three threads on an array of four elements.             *)
EXTENDS TxQueue, TLC

CONSTANTS t1, t2, t3, m1, m2, noMsg

MCThread == {t1, t2, t3}
MCMsg == {m1, m2}

\* Threads are interchangeable, and so are messages: no action tells one from
\* another.
Symmetry == Permutations(MCThread) \cup Permutations(MCMsg)
============================================================================
