---------------------------- MODULE MCPersediaan ----------------------------
(* Values of the constants of Persediaan for TLC. *)
EXTENDS Persediaan, TLC

CONSTANTS g1, g2, semen, paku

\* One unit of everything in the first warehouse, whose rows exist, and a row
\* of nails in the second; the row of cement in the second does not exist yet.
MCBarisAwal == {b \in Baris : b[1] = g1 \/ b[2] = paku}
MCStokAwal == [g \in Gudang |-> [q \in Produk |-> IF g = g1 THEN 1 ELSE 0]]
MCSelisih == {-1, 1}

Simetri == Permutations(Proses) \cup Permutations(Mutasi)

=============================================================================
