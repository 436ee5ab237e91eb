---------------------------- MODULE MCPenjualan ----------------------------
(* Values of the constants of Penjualan for TLC. *)
EXTENDS Penjualan, TLC

CONSTANTS f1, f2, g1, g2, semen, paku

\* Prices: a basket is worth 2 per unit of cement and 1 per unit of anything else.
MCNilai == [isi \in Isi |->
    MapThenSumSet(LAMBDA q : IF q = semen THEN 2 * isi[q] ELSE isi[q], Produk)]

\* Two units of everything in every warehouse.
MCStokAwal == [g \in Gudang |-> [q \in Produk |-> 2]]

\* f1 is older than f2.
MCUrutan == [f \in Faktur |-> IF f = f1 THEN 1 ELSE 2]

\* Requests are interchangeable.
Simetri == Permutations(Proses)

=============================================================================
