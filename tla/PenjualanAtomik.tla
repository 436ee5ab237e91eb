-------------------------- MODULE PenjualanAtomik --------------------------
(***************************************************************************)
(* What the sales services promise their callers: every request that       *)
(* succeeds takes effect in ONE step, checked against the rows as they are *)
(* at that moment.  Penjualan, where requests read first, wait for locks   *)
(* and commit later, is shown to implement this.                           *)
(*                                                                         *)
(* The rule "only while there is no payment" of an edit and a cancellation *)
(* is not part of the promise: the code checks it before it has the lock   *)
(* and does not keep it.                                                   *)
(***************************************************************************)
EXTENDS FakturDasar

VARIABLES
    faktur,       \* the invoice rows with their items
    dibayar,      \* sum of the payments of each invoice
    diretur,      \* quantities already returned of each invoice
    stok          \* stock per warehouse and product

vars == <<faktur, dibayar, diretur, stok>>

Ada(f) == faktur[f].status # "belum"
Sisa(f) == faktur[f].total - dibayar[f]
Berlaku(f) == Ada(f) /\ faktur[f].status # "dibatalkan"

Init ==
    /\ faktur = [f \in Faktur |-> BarisKosong]
    /\ dibayar = [f \in Faktur |-> 0]
    /\ diretur = [f \in Faktur |-> IsiKosong]
    /\ stok = StokAwal

\* A sale takes its goods out of stock that is there.
Jual(f, g, isi, st, d) ==
    /\ ~Ada(f)
    /\ Cukup(stok, g, isi)
    /\ faktur' = [faktur EXCEPT ![f] =
            [status |-> st, gudang |-> g, isi |-> isi, total |-> Total(isi, d), edisi |-> 0]]
    /\ stok' = Kurangi(stok, g, isi)
    /\ UNCHANGED <<dibayar, diretur>>

\* An edit puts the old goods back and takes the new ones out, of an invoice
\* that is valid and of which nothing was returned.
Koreksi(f, g, isi, st, d) ==
    LET lama == faktur[f]
        kembali == Tambah(stok, lama.gudang, lama.isi)
    IN
    /\ Berlaku(f)
    /\ diretur[f] = IsiKosong
    /\ lama.edisi < MaxEdisi
    /\ Cukup(kembali, g, isi)
    /\ stok' = Kurangi(kembali, g, isi)
    /\ faktur' = [faktur EXCEPT ![f] =
            [lama EXCEPT !.isi = isi, !.total = Total(isi, d), !.status = st,
                         !.edisi = lama.edisi + 1]]
    /\ UNCHANGED <<dibayar, diretur>>

\* A valid invoice is cancelled once and its goods go back.
Batal(f) ==
    /\ Berlaku(f)
    /\ stok' = Tambah(stok, faktur[f].gudang, faktur[f].isi)
    /\ faktur' = [faktur EXCEPT ![f].status = "dibatalkan"]
    /\ UNCHANGED <<dibayar, diretur>>

\* What a change of the sums of payments makes of the statuses.
StatusMenyusul(F) ==
    faktur' = [f \in Faktur |->
        IF f \notin F THEN faktur[f]
        ELSE [faktur[f] EXCEPT !.status = StatusHitung(faktur[f].total, dibayar'[f])]]

\* Payments, of one invoice or of several: never more than is outstanding, and
\* among the invoices S the batch was meant for the oldest first.
Bayar(S) ==
    LET bayar(f) == dibayar'[f] - dibayar[f]
        F == {f \in Faktur : bayar(f) # 0}
    IN
    /\ dibayar' \in [Faktur -> Int]
    /\ F \subseteq S
    /\ \A f \in F : Ada(f) /\ bayar(f) > 0 /\ bayar(f) <= Sisa(f)
    /\ \A f, g \in S : Urutan[f] < Urutan[g] /\ g \in F => bayar(f) >= Sisa(f)
    /\ StatusMenyusul(F)
    /\ UNCHANGED <<diretur, stok>>

\* A return none of whose lines is more than the invoice still holds: goods
\* back, value refunded.  The promise is made line by line: lines that name
\* one item of the invoice again (ulang) are not added to the first.
Retur(f, isi, ulang) ==
    LET nilai == Nilai[isi] + Nilai[ulang] IN
    /\ Berlaku(f)
    /\ \A q \in Produk : isi[q] > 0 => diretur[f][q] + isi[q] <= faktur[f].isi[q]
    /\ \A q \in Produk : ulang[q] <= isi[q]
    /\ diretur' = [diretur EXCEPT ![f] =
                      [q \in Produk |-> diretur[f][q] + isi[q] + ulang[q]]]
    /\ dibayar' = [dibayar EXCEPT ![f] = dibayar[f] - nilai]
    /\ StatusMenyusul(IF nilai = 0 THEN {} ELSE {f})
    /\ stok' = Tambah(Tambah(stok, faktur[f].gudang, isi), faktur[f].gudang, ulang)

Next ==
    \/ \E f \in Faktur, g \in Gudang, isi \in Keranjang, st \in StatusForm, d \in Diskon :
          Jual(f, g, isi, st, d) \/ Koreksi(f, g, isi, st, d)
    \/ \E f \in Faktur : Batal(f)
    \/ \E S \in SUBSET Faktur : Bayar(S)
    \/ \E f \in Faktur, isi \in Keranjang, ulang \in Isi : Retur(f, isi, ulang)

Spec == Init /\ [][Next]_vars

=============================================================================
