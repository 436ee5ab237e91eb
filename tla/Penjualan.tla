----------------------------- MODULE Penjualan -----------------------------
(***************************************************************************)
(* The life of a sales invoice (faktur penjualan): creation, edit,         *)
(* cancellation, payment, batch payment and return, as the Go services     *)
(* run them against PostgreSQL.                                            *)
(*                                                                         *)
(* A request is a process.  It first reads the database WITHOUT a lock     *)
(* (stage "baca": status, HasPembayaran, the open invoices, the items),    *)
(* then opens a transaction and locks the invoice row with SELECT .. FOR   *)
(* UPDATE (stage "tx"), and finally writes and commits in one step, since  *)
(* READ COMMITTED shows its writes to nobody before the commit.  Between   *)
(* two stages any other request may run, and a request may die at any      *)
(* stage (error, cancelled context, deadlock victim, crashed server).      *)
(*                                                                         *)
(* Stock rows are locked and written inside the same transaction and held  *)
(* until the commit, so the final step may read and write them at once.    *)
(* One customer (mitra) without a credit limit owns every invoice.         *)
(***************************************************************************)
EXTENDS FakturDasar, FiniteSetsExt

CONSTANTS
    Proses,       \* server requests that may run at the same time
    KunciBayar,   \* client_uuids a payment form may carry
    Operasi,      \* the operations the requests may ask for
    Jumlah,       \* amounts a payment form may carry
    Bebas         \* owner of a row nobody has locked

SemuaOperasi == {"buat", "ubah", "batal", "bayar", "cicil", "retur"}

ASSUME PenjualanAssumption ==
    /\ Operasi \subseteq SemuaOperasi
    /\ Jumlah \subseteq Nat \ {0}
    /\ Bebas \notin Proses

VARIABLES
    faktur,       \* the invoice rows with their items
    dibayar,      \* SUM(pembayaran.jumlah) of each invoice
    adaBayar,     \* EXISTS (SELECT 1 FROM pembayaran ..) of each invoice
    diretur,      \* quantities already returned of each invoice
    terpakai,     \* client_uuids present in pembayaran
    stok,         \* stok.qty per warehouse and product
    pemilik,      \* which transaction holds the FOR UPDATE lock of an invoice
    proses        \* what each request has asked for and read so far

vars == <<faktur, dibayar, adaBayar, diretur, terpakai, stok, pemilik, proses>>

-----------------------------------------------------------------------------
(* Requests *)

Tahap == {"baca", "tx"}

Diam == [op |-> "diam"]

PermintaanSimpan ==
    [op : {"buat", "ubah"}, tahap : Tahap, f : Faktur, gudang : Gudang,
     isi : Keranjang, status : StatusForm, total : Nat]
PermintaanBatal ==
    [op : {"batal"}, tahap : Tahap, f : Faktur]
PermintaanBayar ==
    [op : {"bayar"}, tahap : Tahap, f : Faktur, jumlah : Nat \ {0},
     kunci : KunciBayar, sisa : Int]
PermintaanCicil ==
    [op : {"cicil"}, tahap : Tahap, daftar : SUBSET Faktur, antri : SUBSET Faktur,
     sisa : Nat, alokasi : [Faktur -> Nat]]
PermintaanRetur ==
    [op : {"retur"}, tahap : Tahap, f : Faktur, isi : Keranjang, ulang : Isi,
     jual : Isi, edisi : 0..MaxEdisi]

Permintaan ==
    {Diam} \cup PermintaanSimpan \cup PermintaanBatal \cup PermintaanBayar
           \cup PermintaanCicil \cup PermintaanRetur

Ada(f) == faktur[f].status # "belum"
Sisa(f) == faktur[f].total - dibayar[f]

-----------------------------------------------------------------------------
(* Stages shared by the requests *)

Mulai(p, r) ==
    /\ proses[p] = Diam
    /\ r.op \in Operasi
    /\ proses' = [proses EXCEPT ![p] = r]

\* The end of a request, committed or not: its row locks are gone.
LepasKunci(p) ==
    pemilik' = [f \in Faktur |-> IF pemilik[f] = p THEN Bebas ELSE pemilik[f]]

Akhiri(p) ==
    /\ proses' = [proses EXCEPT ![p] = Diam]
    /\ LepasKunci(p)

\* Faulty variant: SELECT without FOR UPDATE.
KunciTanpaTunggu(p, f) == pemilik' = [pemilik EXCEPT ![f] = p]

Kunci(p, f) ==
    /\ pemilik[f] = Bebas
    /\ pemilik' = [pemilik EXCEPT ![f] = p]

Di(p, op, tahap) == proses[p].op = op /\ proses[p].tahap = tahap

\* Rollback: an error return, a cancelled context, a deadlock victim or a crash
\* of the server ends the request and nothing it did remains.
Gagal(p) ==
    /\ proses[p] # Diam
    /\ Akhiri(p)
    /\ UNCHANGED <<faktur, dibayar, adaBayar, diretur, terpakai, stok>>

-----------------------------------------------------------------------------
(* Faulty variants of some actions (and, further on, of some operators), each *)
(* a slip the code could have made.  They take no part in the specification:   *)
(* with one of them in the place of the definition it is named after, TLC     *)
(* finds the property it is meant for violated.                                *)

\* No unique index on client_uuid: the same form is stored twice.
SelesaiBuatTanpaUnik(p) ==
    LET r == proses[p] IN
    /\ Di(p, "buat", "baca")
    /\ Cukup(stok, r.gudang, r.isi)
    /\ faktur' = [faktur EXCEPT ![r.f] =
            [status |-> r.status, gudang |-> r.gudang, isi |-> r.isi,
             total |-> r.total, edisi |-> 0]]
    /\ stok' = Kurangi(stok, r.gudang, r.isi)
    /\ Akhiri(p)
    /\ UNCHANGED <<dibayar, adaBayar, diretur, terpakai>>

\* The status is not read again under the lock.
KunciKoreksiTanpaStatus(p) ==
    LET r == proses[p] IN
    /\ Di(p, "ubah", "baca") \/ Di(p, "batal", "baca")
    /\ Kunci(p, r.f)
    /\ proses' = [proses EXCEPT ![p].tahap = "tx"]
    /\ UNCHANGED <<faktur, dibayar, adaBayar, diretur, terpakai, stok>>

\* What was returned before is not subtracted.
KunciReturTanpaRiwayat(p) ==
    LET r == proses[p] IN
    /\ Di(p, "retur", "baca")
    /\ Kunci(p, r.f)
    /\ faktur[r.f].status # "dibatalkan"
    /\ \A baris \in {r.isi, r.ulang}, q \in Produk : baris[q] <= r.jual[q]
    /\ proses' = [proses EXCEPT ![p].tahap = "tx"]
    /\ UNCHANGED <<faktur, dibayar, adaBayar, diretur, terpakai, stok>>

-----------------------------------------------------------------------------
(* PenjualanService.Create *)

\* The reads before the transaction: no invoice has this client_uuid yet (an
\* existing one is returned as it is) and the stock looks sufficient.
MulaiBuat(p) ==
    \E f \in Faktur, g \in Gudang, isi \in Keranjang, st \in StatusForm, d \in Diskon :
        /\ ~Ada(f)
        /\ Cukup(stok, g, isi)
        /\ Mulai(p, [op |-> "buat", tahap |-> "baca", f |-> f, gudang |-> g,
                     isi |-> isi, status |-> st, total |-> Total(isi, d)])
        /\ UNCHANGED <<faktur, dibayar, adaBayar, diretur, terpakai, stok, pemilik>>

\* PenjualanRepo.Create: the unique index on client_uuid and the locked stock
\* rows decide; header, items and stock are committed together.
SelesaiBuat(p) ==
    LET r == proses[p] IN
    /\ Di(p, "buat", "baca")
    /\ ~Ada(r.f)
    /\ Cukup(stok, r.gudang, r.isi)
    /\ faktur' = [faktur EXCEPT ![r.f] =
            [status |-> r.status, gudang |-> r.gudang, isi |-> r.isi,
             total |-> r.total, edisi |-> 0]]
    /\ stok' = Kurangi(stok, r.gudang, r.isi)
    /\ Akhiri(p)
    /\ UNCHANGED <<dibayar, adaBayar, diretur, terpakai>>

-----------------------------------------------------------------------------
(* PenjualanService.Update and Cancel *)

\* Faulty variant: HasPembayaran is not asked.
BolehMeskiDibayar(f) ==
    /\ Ada(f)
    /\ faktur[f].status # "dibatalkan"

BolehDikoreksi(f) ==
    /\ Ada(f)
    /\ faktur[f].status # "dibatalkan"
    /\ ~adaBayar[f]

MulaiUbah(p) ==
    \E f \in Faktur, g \in Gudang, isi \in Keranjang, st \in StatusForm, d \in Diskon :
        /\ BolehDikoreksi(f)
        /\ Mulai(p, [op |-> "ubah", tahap |-> "baca", f |-> f, gudang |-> g,
                     isi |-> isi, status |-> st, total |-> Total(isi, d)])
        /\ UNCHANGED <<faktur, dibayar, adaBayar, diretur, terpakai, stok, pemilik>>

MulaiBatal(p) ==
    \E f \in Faktur :
        /\ BolehDikoreksi(f)
        /\ Mulai(p, [op |-> "batal", tahap |-> "baca", f |-> f])
        /\ UNCHANGED <<faktur, dibayar, adaBayar, diretur, terpakai, stok, pemilik>>

\* SELECT status_bayar .. FOR UPDATE: only the cancellation is checked again.
KunciKoreksi(p) ==
    LET r == proses[p] IN
    /\ Di(p, "ubah", "baca") \/ Di(p, "batal", "baca")
    /\ Kunci(p, r.f)
    /\ faktur[r.f].status # "dibatalkan"
    /\ proses' = [proses EXCEPT ![p].tahap = "tx"]
    /\ UNCHANGED <<faktur, dibayar, adaBayar, diretur, terpakai, stok>>

\* UpdateInTx: the old items go back to the warehouse of the header, are
\* deleted (the foreign key of retur_penjualan_item forbids it once one was
\* returned) and the new ones leave the warehouse of the FORM.  The header
\* keeps its old warehouse and takes the status of the form.
SelesaiUbah(p) ==
    LET r == proses[p]
        lama == faktur[r.f]
        kembali == Tambah(stok, lama.gudang, lama.isi)
    IN
    /\ Di(p, "ubah", "tx")
    /\ lama.edisi < MaxEdisi
    /\ diretur[r.f] = IsiKosong
    /\ Cukup(kembali, r.gudang, r.isi)
    /\ stok' = Kurangi(kembali, r.gudang, r.isi)
    /\ faktur' = [faktur EXCEPT ![r.f] =
            [lama EXCEPT !.isi = r.isi, !.total = r.total, !.status = r.status,
                         !.edisi = lama.edisi + 1]]
    /\ Akhiri(p)
    /\ UNCHANGED <<dibayar, adaBayar, diretur, terpakai>>

\* CancelInTx: every item goes back to the warehouse of the header.
SelesaiBatal(p) ==
    LET r == proses[p]
        lama == faktur[r.f]
    IN
    /\ Di(p, "batal", "tx")
    /\ stok' = Tambah(stok, lama.gudang, lama.isi)
    /\ faktur' = [faktur EXCEPT ![r.f].status = "dibatalkan"]
    /\ Akhiri(p)
    /\ UNCHANGED <<dibayar, adaBayar, diretur, terpakai>>

-----------------------------------------------------------------------------
(* PembayaranService.Record *)

MulaiBayar(p) ==
    \E f \in Faktur, j \in Jumlah, k \in KunciBayar :
        /\ Ada(f)
        /\ k \notin terpakai
        /\ Mulai(p, [op |-> "bayar", tahap |-> "baca", f |-> f, jumlah |-> j,
                     kunci |-> k, sisa |-> 0])
        /\ UNCHANGED <<faktur, dibayar, adaBayar, diretur, terpakai, stok, pemilik>>

\* SELECT total .. FOR UPDATE, then SUM(jumlah): the status is not looked at.
KunciBayarFaktur(p) ==
    LET r == proses[p] IN
    /\ Di(p, "bayar", "baca")
    /\ Kunci(p, r.f)
    /\ proses' = [proses EXCEPT ![p].tahap = "tx", ![p].sisa = Sisa(r.f)]
    /\ UNCHANGED <<faktur, dibayar, adaBayar, diretur, terpakai, stok>>

\* The row of the payment and what its trigger does to the invoice.
CatatBayar(bayar) ==
    /\ dibayar' = [f \in Faktur |-> dibayar[f] + bayar[f]]
    /\ adaBayar' = [f \in Faktur |-> adaBayar[f] \/ bayar[f] # 0]
    /\ faktur' = [f \in Faktur |->
            IF bayar[f] = 0 THEN faktur[f]
            ELSE [faktur[f] EXCEPT !.status =
                    StatusHitung(faktur[f].total, dibayar[f] + bayar[f])]]

SelesaiBayar(p) ==
    LET r == proses[p] IN
    /\ Di(p, "bayar", "tx")
    /\ r.jumlah <= r.sisa
    /\ r.kunci \notin terpakai
    /\ CatatBayar([f \in Faktur |-> IF f = r.f THEN r.jumlah ELSE 0])
    /\ terpakai' = terpakai \cup {r.kunci}
    /\ Akhiri(p)
    /\ UNCHANGED <<diretur, stok>>

-----------------------------------------------------------------------------
(* PembayaranService.RecordBatch *)

\* PiutangRepo.InvoicesByMitra: invoices on credit with something outstanding.
Terbuka(f) == faktur[f].status \in {"kredit", "sebagian"} /\ Sisa(f) > 0

MulaiCicil(p) ==
    \E j \in Jumlah :
        /\ Mulai(p, [op |-> "cicil", tahap |-> "baca",
                     daftar |-> {f \in Faktur : Terbuka(f)},
                     antri |-> {f \in Faktur : Terbuka(f)},
                     sisa |-> j, alokasi |-> [f \in Faktur |-> 0]])
        /\ UNCHANGED <<faktur, dibayar, adaBayar, diretur, terpakai, stok, pemilik>>

\* Faulty variant: open invoices listed newest first.
TertuaTerbalik(f, S) == f \in S /\ \A g \in S : Urutan[g] <= Urutan[f]

Tertua(f, S) == f \in S /\ \A g \in S : Urutan[f] <= Urutan[g]

\* Faulty variant: an invoice with nothing outstanding is not skipped.
KunciCicilTanpaLewat(p) ==
    LET r == proses[p] IN
    /\ r.op = "cicil"
    /\ r.sisa > 0
    /\ \E f \in Faktur :
        LET alok == IF Sisa(f) < r.sisa THEN Sisa(f) ELSE r.sisa IN
        /\ Tertua(f, r.antri)
        /\ Kunci(p, f)
        /\ proses' = [proses EXCEPT ![p] =
                [r EXCEPT !.tahap = "tx", !.antri = r.antri \ {f},
                          !.sisa = r.sisa - alok, !.alokasi[f] = alok]]
    /\ UNCHANGED <<faktur, dibayar, adaBayar, diretur, terpakai, stok>>

\* One turn of the loop: lock the next invoice of the list, recompute what is
\* outstanding under the lock and allocate the smaller of it and the rest.
KunciCicil(p) ==
    LET r == proses[p] IN
    /\ r.op = "cicil"
    /\ r.sisa > 0
    /\ \E f \in Faktur :
        LET alok == IF Sisa(f) <= 0 THEN 0
                    ELSE IF Sisa(f) < r.sisa THEN Sisa(f) ELSE r.sisa
        IN
        /\ Tertua(f, r.antri)
        /\ Kunci(p, f)
        /\ proses' = [proses EXCEPT ![p] =
                [r EXCEPT !.tahap = "tx", !.antri = r.antri \ {f},
                          !.sisa = r.sisa - alok, !.alokasi[f] = alok]]
    /\ UNCHANGED <<faktur, dibayar, adaBayar, diretur, terpakai, stok>>

\* The batch commits only when the whole amount found an invoice.
SelesaiCicil(p) ==
    LET r == proses[p] IN
    /\ Di(p, "cicil", "tx")
    /\ r.sisa = 0
    /\ CatatBayar(r.alokasi)
    /\ Akhiri(p)
    /\ UNCHANGED <<diretur, terpakai, stok>>

-----------------------------------------------------------------------------
(* ReturPenjualanService.Create *)

\* A form is a list of lines and may name an item of the invoice more than
\* once: isi holds the larger and ulang the smaller line of an item (a form of
\* the model names it twice at most, which bounds the 100 lines of the handler).
MulaiRetur(p) ==
    \E f \in Faktur, isi \in Keranjang, ulang \in Isi :
        /\ Ada(f)
        /\ faktur[f].status # "dibatalkan"
        /\ \A q \in Produk : isi[q] > 0 => faktur[f].isi[q] > 0
        /\ \A q \in Produk : ulang[q] <= isi[q]
        /\ Mulai(p, [op |-> "retur", tahap |-> "baca", f |-> f, isi |-> isi,
                     ulang |-> ulang, jual |-> faktur[f].isi, edisi |-> faktur[f].edisi])
        /\ UNCHANGED <<faktur, dibayar, adaBayar, diretur, terpakai, stok, pemilik>>

\* The quantity still available is what was sold, as read BEFORE the lock, less
\* what was returned, as read under it.  Each line is compared with it alone:
\* no row of the form is there yet, so a second line of an item sees the same.
KunciRetur(p) ==
    LET r == proses[p] IN
    /\ Di(p, "retur", "baca")
    /\ Kunci(p, r.f)
    /\ faktur[r.f].status # "dibatalkan"
    /\ \A baris \in {r.isi, r.ulang}, q \in Produk :
          baris[q] > 0 => baris[q] <= r.jual[q] - diretur[r.f][q]
    /\ proses' = [proses EXCEPT ![p].tahap = "tx"]
    /\ UNCHANGED <<faktur, dibayar, adaBayar, diretur, terpakai, stok>>

\* The value of the goods of a return at the prices of the invoice.
NilaiRetur(r) == Nilai[r.isi] + Nilai[r.ulang]

\* The rows of the return refer to the item rows read before the lock, which
\* must still exist (foreign key).  The goods come back to the warehouse of
\* the invoice and their gross value is booked as a negative payment.
SelesaiRetur(p) ==
    LET r == proses[p]
        g == faktur[r.f].gudang
    IN
    /\ Di(p, "retur", "tx")
    /\ r.edisi = faktur[r.f].edisi
    /\ diretur' = [diretur EXCEPT ![r.f] =
                      [q \in Produk |-> diretur[r.f][q] + r.isi[q] + r.ulang[q]]]
    /\ stok' = Tambah(Tambah(stok, g, r.isi), g, r.ulang)
    /\ CatatBayar([f \in Faktur |-> IF f = r.f THEN -NilaiRetur(r) ELSE 0])
    /\ Akhiri(p)
    /\ UNCHANGED terpakai

-----------------------------------------------------------------------------
Init ==
    /\ faktur = [f \in Faktur |-> BarisKosong]
    /\ dibayar = [f \in Faktur |-> 0]
    /\ adaBayar = [f \in Faktur |-> FALSE]
    /\ diretur = [f \in Faktur |-> IsiKosong]
    /\ terpakai = {}
    /\ stok = StokAwal
    /\ pemilik = [f \in Faktur |-> Bebas]
    /\ proses = [p \in Proses |-> Diam]

LangkahBuat(p) == MulaiBuat(p) \/ SelesaiBuat(p)
LangkahKoreksi(p) ==
    MulaiUbah(p) \/ MulaiBatal(p) \/ KunciKoreksi(p) \/ SelesaiUbah(p) \/ SelesaiBatal(p)
LangkahBayar(p) == MulaiBayar(p) \/ KunciBayarFaktur(p) \/ SelesaiBayar(p)
LangkahCicil(p) == MulaiCicil(p) \/ KunciCicil(p) \/ SelesaiCicil(p)
LangkahRetur(p) == MulaiRetur(p) \/ KunciRetur(p) \/ SelesaiRetur(p)

Next ==
    \E p \in Proses :
        \/ LangkahBuat(p)
        \/ LangkahKoreksi(p)
        \/ LangkahBayar(p)
        \/ LangkahCicil(p)
        \/ LangkahRetur(p)
        \/ Gagal(p)

Spec == Init /\ [][Next]_vars

-----------------------------------------------------------------------------
(* Properties *)

\* Every variable keeps its type: a total is never negative and every request
\* has read what its stage needs.
TypeOK ==
    /\ faktur \in [Faktur -> BarisFaktur]
    /\ dibayar \in [Faktur -> Int]
    /\ adaBayar \in [Faktur -> BOOLEAN]
    /\ diretur \in [Faktur -> [Produk -> Nat]]
    /\ terpakai \subseteq KunciBayar
    /\ stok \in [Gudang -> [Produk -> Int]]
    /\ pemilik \in [Faktur -> Proses \cup {Bebas}]
    /\ proses \in [Proses -> Permintaan]

\* No warehouse sells what it does not have: concurrent sales and edits that
\* all saw enough stock before their transactions never drive it below zero.
StokTidakNegatif ==
    \A g \in Gudang, q \in Produk : stok[g][q] >= 0

\* This step commits a return of f that names product q on two lines, the
\* larger of which fits what invoice and earlier returns leave of it.
ReturGanda(f, q) ==
    \E p \in Proses :
        LET r == proses[p] IN
        /\ Di(p, "retur", "tx") /\ proses'[p] = Diam
        /\ r.f = f /\ r.ulang[q] > 0
        /\ r.isi[q] <= faktur[f].isi[q] - diretur[f][q]
        /\ diretur'[f][q] = diretur[f][q] + r.isi[q] + r.ulang[q]

\* One way only leads to more returned of a product than its invoice holds: a
\* form that names the product on two lines, each of them within what is left.
\* A return that read the items before an edit replaced them, two returns that
\* each saw enough, or an edit to fewer goods after a return do not.
ReturLebihHanyaGanda ==
    [][\A f \in Faktur, q \in Produk :
          diretur'[f][q] > faktur'[f].isi[q] =>
              \/ diretur'[f][q] = diretur[f][q] /\ faktur'[f].isi[q] = faktur[f].isi[q]
              \/ ReturGanda(f, q)]_vars

\* A payment never carries the sum of payments over the total of the invoice,
\* whatever was recorded between the request and its commit (the comment on
\* Record promises exactly this of two parallel payments).
BayarTidakMelampaui ==
    [][\A f \in Faktur :
          dibayar'[f] > dibayar[f] => dibayar'[f] <= faktur'[f].total]_vars

\* A payment looks at no status and its trigger overwrites the one it finds, so
\* it can bring a cancelled invoice back; nothing else touches one, no edit,
\* cancellation or return that was checked before it was cancelled.
BatalHanyaDibayar ==
    [][\A f \in Faktur :
          faktur[f].status = "dibatalkan" /\ faktur'[f] # faktur[f] =>
              /\ dibayar'[f] > dibayar[f]
              /\ faktur'[f] = [faktur[f] EXCEPT !.status = faktur'[f].status]]_vars

\* A batch pays oldest first: when it has allocated something to an invoice of
\* the list it read, every earlier invoice of that list is paid off by it or
\* already was, also when other payments ran since the list was read.
UrutCicil(p) ==
    LET r == proses[p] IN
    r.op = "cicil" =>
        \A f, g \in r.daftar :
            Urutan[f] < Urutan[g] /\ r.alokasi[g] > 0 => Sisa(f) <= r.alokasi[f]

CicilDariTertua == \A p \in Proses : UrutCicil(p)

-----------------------------------------------------------------------------
(* The requests implement the atomic specification *)

Atomik == INSTANCE PenjualanAtomik

\* However requests interleave, what they leave in the tables is what the same
\* requests would leave one after the other, each checked against the rows at
\* the moment it commits.
SatuPerSatu == Atomik!Spec

-----------------------------------------------------------------------------
(* The inductive invariant the safety properties rest on *)

\* A request refers to invoices that exist, except the one it is to create.
RujukAda(p) ==
    LET r == proses[p] IN
    /\ r.op \in {"ubah", "batal", "bayar", "retur"} => Ada(r.f)
    /\ r.op = "cicil" => \A f \in r.daftar : Ada(f)

\* A request that has locked its invoice still holds the lock.
PegangKunci(p) ==
    LET r == proses[p] IN
    r.op \in {"ubah", "batal", "bayar", "retur"} /\ r.tahap = "tx" =>
        pemilik[r.f] = p

\* An invoice that was valid when the lock was taken still is.
BerlakuTerkini(p) ==
    LET r == proses[p] IN
    r.op \in {"ubah", "batal", "retur"} /\ r.tahap = "tx" =>
        faktur[r.f].status # "dibatalkan"

\* The total of a form is the one its items and a discount give.
SimpanTerkini(p) ==
    LET r == proses[p] IN
    r.op \in {"buat", "ubah"} => \E d \in Diskon : r.total = Total(r.isi, d)

\* What a payment read under the lock is still true when it commits.
BayarTerkini(p) ==
    LET r == proses[p] IN
    r.op = "bayar" /\ r.tahap = "tx" => r.sisa = Sisa(r.f)

\* A batch owns the invoices it has passed, takes no more of one than is
\* outstanding, and leaves one unpaid only when its amount is used up.
CicilTerkini(p) ==
    LET r == proses[p] IN
    r.op = "cicil" =>
        /\ r.antri \subseteq r.daftar
        /\ \A f \in Faktur : f \notin r.daftar \ r.antri => r.alokasi[f] = 0
        /\ \A f \in r.daftar \ r.antri :
             /\ pemilik[f] = p
             /\ r.alokasi[f] > 0 => r.alokasi[f] <= Sisa(f)
             /\ r.sisa > 0 => Sisa(f) <= r.alokasi[f]
             /\ \A g \in r.antri : Urutan[f] <= Urutan[g]

\* A return holds items of an edition of its invoice that existed, and once it
\* has the lock its quantities fit what is left of that edition.
ReturTerkini(p) ==
    LET r == proses[p] IN
    r.op = "retur" =>
        /\ r.edisi <= faktur[r.f].edisi
        /\ r.edisi = faktur[r.f].edisi => r.jual = faktur[r.f].isi
        /\ \A q \in Produk : r.ulang[q] <= r.isi[q]
        /\ r.tahap = "tx" =>
             \A q \in Produk :
                r.isi[q] > 0 => r.isi[q] <= r.jual[q] - diretur[r.f][q]

PermintaanTerkini(p) ==
    /\ RujukAda(p)
    /\ PegangKunci(p)
    /\ BerlakuTerkini(p)
    /\ SimpanTerkini(p)
    /\ BayarTerkini(p)
    /\ CicilTerkini(p)
    /\ UrutCicil(p)
    /\ ReturTerkini(p)

\* Nothing was returned of an invoice that does not exist.
BelumAdaRetur == \A f \in Faktur : ~Ada(f) => diretur[f] = IsiKosong

IInv ==
    /\ TypeOK
    /\ StokTidakNegatif
    /\ BelumAdaRetur
    /\ \A p \in Proses : PermintaanTerkini(p)

-----------------------------------------------------------------------------
(* Properties of some of the operations *)

Aktif(f) == faktur[f].status \notin {"belum", "dibatalkan"}

\* Goods of product q that invoice f has taken out of warehouse g.
Andil(f, g, q) ==
    IF Aktif(f) /\ faktur[f].gudang = g THEN faktur[f].isi[q] - diretur[f][q] ELSE 0

\* Goods of product q that invoices of warehouse g have taken out of it.
TerjualDari(g, q) == SumFunctionOnSet([f \in Faktur |-> Andil(f, g, q)], Faktur)

\* Nothing is lost and nothing appears: what a warehouse holds and what its
\* valid invoices have taken out of it add up to what it started with.
KonservasiStok ==
    \A g \in Gudang, q \in Produk :
        stok[g][q] + TerjualDari(g, q) = StokAwal[g][q]

\* No invoice has received more than its total.
TidakLebihBayar ==
    \A f \in Faktur : dibayar[f] <= faktur[f].total

-----------------------------------------------------------------------------
(* What all the operations together keep                                       *)

\* What every warehouse holds and what its valid invoices have taken out of it
\* keep their sum in this step.
BarangTetap ==
    \A g \in Gudang, q \in Produk :
        stok'[g][q] + TerjualDari(g, q)' = stok[g][q] + TerjualDari(g, q)

\* A payment brings a cancelled invoice back, whose goods are in the warehouse.
Dihidupkan(f) == faktur[f].status = "dibatalkan" /\ dibayar'[f] > dibayar[f]

\* An edit commits whose form names another warehouse than the header.
PindahGudang(f) ==
    \E p \in Proses :
        /\ Di(p, "ubah", "tx") /\ proses[p].f = f /\ proses'[p] = Diam
        /\ proses[p].gudang # faktur[f].gudang
        /\ faktur'[f].edisi = faktur[f].edisi + 1

\* A cancellation puts every item back, those a return brought back as well.
BatalSetelahRetur(f) ==
    /\ Aktif(f) /\ faktur'[f].status = "dibatalkan"
    /\ diretur[f] # IsiKosong

\* What a warehouse holds and what its valid invoices have taken out of it keep
\* their sum whatever requests interleave, except by the three steps named
\* above: no correction, return or payment that was checked before another one
\* committed gives goods back twice or takes them without an invoice.
StokIkutFaktur ==
    [][\/ BarangTetap
       \/ \E f \in Faktur :
             Dihidupkan(f) \/ PindahGudang(f) \/ BatalSetelahRetur(f)]_vars

\* An invoice with payments that nobody is correcting, its status the one the
\* payments imply.
Beku(f) ==
    /\ adaBayar[f]
    /\ faktur[f].status = StatusHitung(faktur[f].total, dibayar[f])
    /\ ~\E p \in Proses : proses[p].op \in {"ubah", "batal"} /\ proses[p].f = f

\* Such an invoice stays as it is: never edited, never cancelled, and its status
\* follows every payment, batch and return.  This is what is left of the rule
\* that a paid invoice cannot be edited or cancelled (HasPembayaran): it holds
\* once no correction that was checked before the payment is under way.
BayarMembekukan ==
    [][\A f \in Faktur : Beku(f) =>
          /\ Beku(f)'
          /\ faktur'[f] = [faktur[f] EXCEPT !.status = faktur'[f].status]]_vars

-----------------------------------------------------------------------------
(* The invariant the conservation of stock rests on *)

\* An edit cannot name another warehouse.
TanpaPindah == "ubah" \in Operasi => \A g, h \in Gudang : g = h

\* No payment and no return can meet a cancellation.
BatalSendiri == "batal" \in Operasi => Operasi \subseteq {"buat", "ubah", "batal"}

\* What cannot have happened when an operation is not offered.
HanyaOperasi ==
    /\ \A p \in Proses : proses[p].op \in Operasi \cup {"diam"}
    /\ "batal" \notin Operasi => \A f \in Faktur : faktur[f].status # "dibatalkan"
    /\ "retur" \notin Operasi => \A f \in Faktur : diretur[f] = IsiKosong

InvStok == IInv /\ HanyaOperasi /\ KonservasiStok

\* The invariant the payments of invoices rest on, when nobody edits or cancels
\* them.
TanpaKoreksi == Operasi \subseteq {"buat", "bayar", "cicil", "retur"}

\* An invoice that does not exist has no payments.
BelumAdaBayar ==
    \A f \in Faktur : ~Ada(f) => dibayar[f] = 0 /\ ~adaBayar[f]

InvTagihan ==
    IInv /\ HanyaOperasi /\ BelumAdaBayar /\ TidakLebihBayar

=============================================================================
