---------------------------- MODULE Subsequences -----------------------------
(* What is left of a sequence when some of its elements are removed: the    *)
(* effect of std::remove with erase, by which the code takes out of its     *)
(* vectors whatever it looks for.  The elements to keep are given by their  *)
(* indexes.  SelectSeq would do for TLC, but it is recursive, and nothing   *)
(* could be proved of it; so what is left is the member of a set of one.    *)
EXTENDS Integers, Sequences, FiniteSets

(* The members of I, a finite set of indexes, in their order.               *)
Enumerations(I) ==
    {h \in [1 .. Cardinality(I) -> I] :
        /\ \A n \in I : \E k \in DOMAIN h : h[k] = n
        /\ \A j, k \in DOMAIN h : j < k => h[j] < h[k]}

(* The elements of seq with an index in I, in their order.                  *)
Remainders(seq, I) == {[k \in DOMAIN h |-> seq[h[k]]] : h \in Enumerations(I)}
=============================================================================
