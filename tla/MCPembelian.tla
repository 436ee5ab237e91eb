---------------------------- MODULE MCPembelian ----------------------------
(* Values of the constants of Pembelian for TLC. *)
EXTENDS Pembelian, TLC

CONSTANTS b1, b2, g1, g2, semen

\* A unit costs two.
MCNilai == [isi \in Isi |-> MapThenSumSet(LAMBDA q : 2 * isi[q], Produk)]

\* One unit of everything in every warehouse.
MCStokAwal == [g \in Gudang |-> [q \in Produk |-> 1]]

\* Requests are interchangeable, and so are purchases.
Simetri == Permutations(Proses) \cup Permutations(Beli)

=============================================================================
