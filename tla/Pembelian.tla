----------------------------- MODULE Pembelian -----------------------------
(***************************************************************************)
(* Purchases (pembelian) and the payments to their suppliers: the goods a   *)
(* purchase brings into a warehouse, what edits and cancellations do to    *)
(* them, and the status that is computed from the payments.                *)
(*                                                                         *)
(* Create, UpdateInTx and CancelInTx are transactions that read nothing    *)
(* but what they have locked, so each is one step.  What happens outside   *)
(* of a transaction is a step of its own: the checks before an edit or a   *)
(* cancellation, and each of the four statements of RecordPayment.         *)
(***************************************************************************)
EXTENDS StokDasar, FiniteSetsExt

CONSTANTS
    Beli,         \* purchases
    Diskon,       \* discounts a form may carry, nothing bounds them
    Nilai,        \* value of a basket at the prices of the form
    Jumlah,       \* amounts a payment may have
    MaxBayar,     \* bound: sum of the payments of one purchase
    Proses        \* server requests that may run at the same time

StatusForm == {"lunas", "kredit", "sebagian"}
StatusBeli == StatusForm \cup {"dibatalkan"}

ASSUME PembelianAssumption ==
    /\ IsFiniteSet(Beli) /\ IsFiniteSet(Gudang)
    /\ Diskon \subseteq Int
    /\ Nilai \in [Isi -> Nat]
    /\ Jumlah \subseteq Nat \ {0}
    /\ MaxBayar \in Nat

VARIABLES
    beli,         \* pembelian with its items
    dibayar,      \* SUM(pembayaran_supplier.jumlah) per purchase
    stok,         \* stok.qty
    proses        \* what each request has asked for and read so far

vars == <<beli, dibayar, stok, proses>>

-----------------------------------------------------------------------------
(* Rows and requests *)

\* A header with its items; batal is canceled_at IS NOT NULL.
BarisBeli ==
    [status : StatusBeli \cup {"belum"}, gudang : Gudang, isi : Isi,
     total : Nat, batal : BOOLEAN]
BeliKosong ==
    [status |-> "belum", gudang |-> CHOOSE g \in Gudang : TRUE,
     isi |-> IsiKosong, total |-> 0, batal |-> FALSE]

Diam == [op |-> "diam"]

PermintaanUbah ==
    [op : {"ubah"}, b : Beli, gudang : Gudang, isi : Keranjang,
     total : Nat, status : StatusForm]
PermintaanBatal == [op : {"batal"}, b : Beli]
PermintaanBayar ==
    [op : {"bayar"}, tahap : {"header", "jumlah", "tulis"}, b : Beli,
     total : Nat, status : StatusBeli]

Permintaan == {Diam} \cup PermintaanUbah \cup PermintaanBatal \cup PermintaanBayar

Ada(b) == beli[b].status # "belum"

\* recomputeStatusBayar: the status the payments imply.
StatusHitung(total, bayar) ==
    CASE bayar >= total -> "lunas"
      [] bayar < total /\ bayar > 0 -> "sebagian"
      [] OTHER -> "kredit"

\* Faulty variant: no CHECK constraint.
TotalFormBebas(isi) == {Nilai[isi] - d : d \in Diskon}

\* The totals of a basket that the CHECK constraint on total lets through.
TotalForm(isi) == {Nilai[isi] - d : d \in Diskon} \cap Nat

Akhiri(p) == proses' = [proses EXCEPT ![p] = Diam]

\* An error return or a crash of the server.  What was committed stays.
Gagal(p) ==
    /\ proses[p] # Diam
    /\ Akhiri(p)
    /\ UNCHANGED <<beli, dibayar, stok>>

-----------------------------------------------------------------------------
(* Faulty variants of actions, slips the code could have made; none of them    *)
(* takes part in the specification.                                            *)

\* CancelInTx without the check of the status it has locked.
SelesaiBatalTanpaStatus(p) ==
    LET r == proses[p]
        lama == beli[r.b]
    IN
    /\ r.op = "batal"
    /\ stok' = Kurangi(stok, lama.gudang, lama.isi)
    /\ beli' = [beli EXCEPT ![r.b].status = "dibatalkan", ![r.b].batal = TRUE]
    /\ Akhiri(p)
    /\ UNCHANGED dibayar

\* UpdateInTx without it.
SelesaiUbahTanpaStatus(p) ==
    LET r == proses[p]
        lama == beli[r.b]
        tanpaLama == Kurangi(stok, lama.gudang, lama.isi)
    IN
    /\ r.op = "ubah"
    /\ stok' = Tambah(tanpaLama, lama.gudang, r.isi)
    /\ beli' = [beli EXCEPT ![r.b] =
            [lama EXCEPT !.gudang = r.gudang, !.isi = r.isi, !.total = r.total,
                         !.status = r.status]]
    /\ Akhiri(p)
    /\ UNCHANGED dibayar

-----------------------------------------------------------------------------
(* PembelianService.Create, Update and Cancel *)

\* Create: the trigger adds every item to the warehouse of the header.
BuatBeli ==
    \E b \in Beli, g \in Gudang, isi \in Keranjang, st \in StatusForm :
        \E t \in TotalForm(isi) :
            /\ ~Ada(b)
            /\ beli' = [beli EXCEPT ![b] =
                    [status |-> st, gudang |-> g, isi |-> isi, total |-> t, batal |-> FALSE]]
            /\ stok' = Tambah(stok, g, isi)
            /\ UNCHANGED <<dibayar, proses>>

\* The checks of Update and Cancel, before their transactions.
BolehDikoreksi(b) ==
    /\ Ada(b)
    /\ beli[b].status # "dibatalkan"
    /\ dibayar[b] = 0

MulaiUbah(p) ==
    \E b \in Beli, g \in Gudang, isi \in Keranjang, st \in StatusForm :
        \E t \in TotalForm(isi) :
            /\ proses[p] = Diam
            /\ BolehDikoreksi(b)
            /\ proses' = [proses EXCEPT ![p] =
                    [op |-> "ubah", b |-> b, gudang |-> g, isi |-> isi,
                     total |-> t, status |-> st]]
            /\ UNCHANGED <<beli, dibayar, stok>>

MulaiBatal(p) ==
    \E b \in Beli :
        /\ proses[p] = Diam
        /\ BolehDikoreksi(b)
        /\ proses' = [proses EXCEPT ![p] = [op |-> "batal", b |-> b]]
        /\ UNCHANGED <<beli, dibayar, stok>>

\* UpdateInTx: the old items leave the warehouse of the header, whether it still
\* has them or not.  The new items are inserted BEFORE the header is updated, so
\* the trigger puts them there too; then the header names the warehouse of the form.
SelesaiUbah(p) ==
    LET r == proses[p]
        lama == beli[r.b]
        tanpaLama == Kurangi(stok, lama.gudang, lama.isi)
    IN
    /\ r.op = "ubah"
    /\ lama.status # "dibatalkan"
    /\ stok' = Tambah(tanpaLama, lama.gudang, r.isi)
    /\ beli' = [beli EXCEPT ![r.b] =
            [lama EXCEPT !.gudang = r.gudang, !.isi = r.isi, !.total = r.total,
                         !.status = r.status]]
    /\ Akhiri(p)
    /\ UNCHANGED dibayar

\* CancelInTx: every item leaves the warehouse of the header.
SelesaiBatal(p) ==
    LET r == proses[p]
        lama == beli[r.b]
    IN
    /\ r.op = "batal"
    /\ lama.status # "dibatalkan"
    /\ stok' = Kurangi(stok, lama.gudang, lama.isi)
    /\ beli' = [beli EXCEPT ![r.b].status = "dibatalkan", ![r.b].batal = TRUE]
    /\ Akhiri(p)
    /\ UNCHANGED dibayar

-----------------------------------------------------------------------------
(* PembelianService.RecordPayment: no transaction, no lock, no look at the     *)
(* status or at what is outstanding.                                           *)

CatatBayar(p) ==
    \E b \in Beli, j \in Jumlah :
        /\ proses[p] = Diam
        /\ Ada(b)
        /\ dibayar[b] + j <= MaxBayar
        /\ dibayar' = [dibayar EXCEPT ![b] = dibayar[b] + j]
        /\ proses' = [proses EXCEPT ![p] =
                [op |-> "bayar", tahap |-> "header", b |-> b, total |-> 0,
                 status |-> "kredit"]]
        /\ UNCHANGED <<beli, stok>>

\* recomputeStatusBayar: the header ...
BacaHeader(p) ==
    LET r == proses[p] IN
    /\ r.op = "bayar" /\ r.tahap = "header"
    /\ proses' = [proses EXCEPT ![p] =
            [r EXCEPT !.tahap = "jumlah", !.total = beli[r.b].total,
                      !.status = beli[r.b].status]]
    /\ UNCHANGED <<beli, dibayar, stok>>

\* ... then the sum; when the status would not change this is the end ...
BacaJumlah(p) ==
    LET r == proses[p]
        baru == StatusHitung(r.total, dibayar[r.b])
    IN
    /\ r.op = "bayar" /\ r.tahap = "jumlah"
    /\ IF baru = r.status THEN Akhiri(p)
       ELSE proses' = [proses EXCEPT ![p] = [r EXCEPT !.tahap = "tulis", !.status = baru]]
    /\ UNCHANGED <<beli, dibayar, stok>>

\* ... and otherwise the header gets the status computed from what was read.
TulisStatus(p) ==
    LET r == proses[p] IN
    /\ r.op = "bayar" /\ r.tahap = "tulis"
    /\ beli' = [beli EXCEPT ![r.b].status = r.status]
    /\ Akhiri(p)
    /\ UNCHANGED <<dibayar, stok>>

-----------------------------------------------------------------------------
Init ==
    /\ beli = [b \in Beli |-> BeliKosong]
    /\ dibayar = [b \in Beli |-> 0]
    /\ stok = StokAwal
    /\ proses = [p \in Proses |-> Diam]

LangkahKoreksi(p) == MulaiUbah(p) \/ MulaiBatal(p) \/ SelesaiUbah(p) \/ SelesaiBatal(p)
LangkahBayar(p) == CatatBayar(p) \/ BacaHeader(p) \/ BacaJumlah(p) \/ TulisStatus(p)

Next ==
    \/ BuatBeli
    \/ \E p \in Proses : LangkahKoreksi(p) \/ LangkahBayar(p) \/ Gagal(p)

Spec == Init /\ [][Next]_vars

-----------------------------------------------------------------------------
(* Properties *)

\* Every variable keeps its type.
TypeOK ==
    /\ beli \in [Beli -> BarisBeli]
    /\ dibayar \in [Beli -> Nat]
    /\ stok \in [Gudang -> [Produk -> Int]]
    /\ proses \in [Proses -> Permintaan]

Aktif(b) == Ada(b) /\ ~beli[b].batal

\* No purchase that was cancelled has been paid for.
BatalTanpaBayar == \A b \in Beli : beli[b].batal => dibayar[b] = 0

\* Goods of product q that purchase b has brought in, and those of all together.
Andil(b, q) == IF Aktif(b) THEN beli[b].isi[q] ELSE 0
Dibeli(q) == SumFunctionOnSet([b \in Beli |-> Andil(b, q)], Beli)

\* What the stock of product q has grown by, over all warehouses.
Bertambah(q) == SumFunctionOnSet([g \in Gudang |-> stok[g][q] - StokAwal[g][q]], Gudang)

\* Over all warehouses the stock grows by exactly the goods of the purchases
\* that were not cancelled, through every race of edits and cancellations, as
\* long as nobody pays for a cancelled purchase (a payment brings its status
\* back, and it can then be cancelled a second time).
KonservasiBeli ==
    BatalTanpaBayar => \A q \in Produk : Bertambah(q) = Dibeli(q)

\* A cancelled purchase is never touched by an edit or a cancellation that was
\* checked before it was cancelled: only a payment can change it, and of it
\* only the status.
BatalHanyaDibayar ==
    [][\A b \in Beli :
          beli[b].status = "dibatalkan" =>
             /\ [beli[b] EXCEPT !.status = beli'[b].status] = beli'[b]
             /\ beli'[b].status = "dibatalkan" \/ dibayar[b] > 0]_vars

\* The inductive invariant BatalHanyaDibayar rests on: a request refers to a
\* purchase that exists, and a status is recomputed only after a payment.
RujukAda(p) ==
    LET r == proses[p] IN
    /\ r.op # "diam" => Ada(r.b)
    /\ r.op = "bayar" => dibayar[r.b] > 0

IInv == TypeOK /\ \A p \in Proses : RujukAda(p)

\* What KonservasiBeli rests on besides: a cancelled purchase keeps its status, and
\* with it stays out of reach of edits and cancellations, until it is paid for.
BatalTetap ==
    \A b \in Beli : beli[b].batal =>
        Ada(b) /\ (dibayar[b] = 0 => beli[b].status = "dibatalkan")

InvBeli == IInv /\ BatalTetap /\ KonservasiBeli

-----------------------------------------------------------------------------
(* What the comments and documents promise and the code does not keep *)

\* When no request is running, the status of a purchase that was paid for is
\* the one its payments imply (RecordPayment: insert and recompute).
StatusMengikutiBayar ==
    (\A p \in Proses : proses[p] = Diam) =>
        \A b \in Beli :
            dibayar[b] > 0 => beli[b].status = StatusHitung(beli[b].total, dibayar[b])

=============================================================================
