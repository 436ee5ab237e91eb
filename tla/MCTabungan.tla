----------------------------- MODULE MCTabungan -----------------------------
(* Values of the constants of Tabungan for TLC. *)
EXTENDS Tabungan, TLC

\* Requests are interchangeable, and so are customers.
Simetri == Permutations(Proses) \cup Permutations(Mitra)

=============================================================================
