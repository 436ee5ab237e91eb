----------------------------- MODULE StokDasar -----------------------------
(***************************************************************************)
(* Stock per warehouse and product, and the calculations every document    *)
(* that moves goods makes on it.                                           *)
(***************************************************************************)
EXTENDS Integers, FiniteSets

CONSTANTS
    Gudang,       \* warehouses
    Produk,       \* products
    MaxQty,       \* bound: quantity of one product in one document
    StokAwal      \* stock before the first request

ASSUME StokAssumption ==
    /\ MaxQty \in Nat
    /\ Gudang # {}
    /\ StokAwal \in [Gudang -> [Produk -> Nat]]

\* Quantities per product in the base unit (qty_konversi).
Isi == [Produk -> 0..MaxQty]
IsiKosong == [q \in Produk |-> 0]
Keranjang == Isi \ {IsiKosong}

\* Stock after adding (stokRollback, upsert) or removing (stokDeduct) a basket.
Tambah(s, g, isi) == [s EXCEPT ![g] = [q \in Produk |-> s[g][q] + isi[q]]]
Kurangi(s, g, isi) == [s EXCEPT ![g] = [q \in Produk |-> s[g][q] - isi[q]]]

\* Faulty variant: there is stock, but perhaps not enough.
CukupAsalAda(s, g, isi) == \A q \in Produk : isi[q] > 0 => s[g][q] > 0

Cukup(s, g, isi) == \A q \in Produk : s[g][q] >= isi[q]

=============================================================================
