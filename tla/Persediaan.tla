----------------------------- MODULE Persediaan -----------------------------
(***************************************************************************)
(* The stock of the warehouses and the three documents that move it        *)
(* without a sale or a purchase: transfers between warehouses (mutasi),    *)
(* manual adjustments (penyesuaian) and stock counts (opname).             *)
(*                                                                         *)
(* A stock row may not exist yet: SELECT .. FOR UPDATE then locks nothing. *)
(* LockStokRow answers with INSERT .. ON CONFLICT DO NOTHING, which locks  *)
(* the row only when it was this transaction that inserted it.             *)
(*                                                                         *)
(* Submit of a transfer takes its row locks one by one, in the random      *)
(* order of a Go map.  Everything else locks and writes in the step that   *)
(* commits, which waits until nobody else holds a row it writes.           *)
(***************************************************************************)
EXTENDS StokDasar, FiniteSetsExt

CONSTANTS
    Mutasi,       \* transfers (finitely many), each named by the client_uuid of its form
    Opname,       \* stock counts
    Proses,       \* server requests that may run at the same time
    Operasi,      \* the operations the requests may ask for
    Selisih,      \* quantities an adjustment may add or remove
    MaxSesuai,    \* bound: net adjustment of one stock row
    BarisAwal,    \* stock rows that exist before the first request
    Bebas         \* owner of a row nobody has locked

Baris == Gudang \X Produk

SemuaOperasi == {"kirim", "terima", "batal", "hitung", "ajukan", "setujui", "sesuai"}

ASSUME PersediaanAssumption ==
    /\ Operasi \subseteq SemuaOperasi
    /\ Selisih \subseteq Int \ {0}
    /\ MaxSesuai \in Nat
    /\ IsFiniteSet(Mutasi)
    /\ BarisAwal \subseteq Baris
    /\ Bebas \notin Proses
    /\ \A g \in Gudang, q \in Produk : <<g, q>> \notin BarisAwal => StokAwal[g][q] = 0

VARIABLES
    stok,         \* stok.qty, 0 where there is no row
    ada,          \* committed rows of stok
    kunci,        \* which transaction holds the lock of a stock row
    mutasi,       \* transfers with their items
    penyesuaian,  \* SUM(stok_adjustment.qty_konversi) per stock row
    opname,       \* stock counts with their items
    proses        \* what each request has asked for and read so far

vars == <<stok, ada, kunci, mutasi, penyesuaian, opname, proses>>

-----------------------------------------------------------------------------
(* Documents and requests *)

StatusMutasi == {"draft", "dikirim", "diterima", "dibatalkan"}
StatusOpname == {"draft", "selesai", "approved"}

BarisMutasi ==
    [status : StatusMutasi \cup {"belum"}, asal : Gudang, tujuan : Gudang, isi : Isi]
MutasiKosong ==
    [status |-> "belum", asal |-> CHOOSE g \in Gudang : TRUE,
     tujuan |-> CHOOSE g \in Gudang : TRUE, isi |-> IsiKosong]

BarisOpname ==
    [status : StatusOpname \cup {"belum"}, gudang : Gudang, fisik : [Produk -> Int]]
OpnameKosong ==
    [status |-> "belum", gudang |-> CHOOSE g \in Gudang : TRUE, fisik |-> IsiKosong]

\* Faulty variant: goods that were received can still be cancelled.
BolehMutasiLonggar(lama, baru) ==
    \/ lama = "draft" /\ baru \in {"dikirim", "dibatalkan"}
    \/ lama \in {"dikirim", "diterima"} /\ baru \in {"diterima", "dibatalkan"}

\* CanTransitionTo of a transfer and of a count.
BolehMutasi(lama, baru) ==
    \/ lama = "draft" /\ baru \in {"dikirim", "dibatalkan"}
    \/ lama = "dikirim" /\ baru \in {"diterima", "dibatalkan"}

BolehOpname(lama, baru) ==
    \/ lama = "draft" /\ baru = "selesai"
    \/ lama = "selesai" /\ baru = "approved"

Diam == [op |-> "diam"]

\* Submit: products still to lock, products whose row was not found, and
\* whether the quantities were found sufficient.
PermintaanKirim ==
    [op : {"kirim"}, m : Mutasi, sisa : SUBSET Produk, hampa : SUBSET Produk, cukup : BOOLEAN]
PermintaanAlih ==
    [op : {"terima", "batal"}, m : Mutasi, dari : {"draft", "dikirim"}]
PermintaanHitung ==
    [op : {"hitung"}, o : Opname, q : Produk, n : 0..MaxQty]
PermintaanStatus ==
    [op : {"ajukan", "setujui"}, o : Opname]

Permintaan ==
    {Diam} \cup PermintaanKirim \cup PermintaanAlih \cup PermintaanHitung
           \cup PermintaanStatus

-----------------------------------------------------------------------------
(* Stages shared by the requests *)

Mulai(p, r) ==
    /\ proses[p] = Diam
    /\ r.op \in Operasi
    /\ proses' = [proses EXCEPT ![p] = r]
    /\ UNCHANGED <<stok, ada, kunci, mutasi, penyesuaian, opname>>

\* The end of a transaction, committed or not: its row locks are gone.
Akhiri(p) ==
    /\ proses' = [proses EXCEPT ![p] = Diam]
    /\ kunci' = [b \in Baris |-> IF kunci[b] = p THEN Bebas ELSE kunci[b]]

\* A statement that writes these rows goes through only when no other
\* transaction holds them.
BolehTulis(p, g, Q) == \A q \in Q : kunci[<<g, q>>] \in {Bebas, p}

\* Products of a basket.
Perlu(isi) == {q \in Produk : isi[q] > 0}

TambahBaris(g, Q) == ada' = ada \cup ({g} \X Q)

\* Rollback: an error return, a deadlock victim or a crash of the server.
Gagal(p) ==
    /\ proses[p] # Diam
    /\ Akhiri(p)
    /\ UNCHANGED <<stok, ada, mutasi, penyesuaian, opname>>

-----------------------------------------------------------------------------
(* Faulty variants of actions, slips the code could have made; none of them    *)
(* takes part in the specification.                                            *)

\* SELECT without FOR UPDATE.
KunciBarisTanpaLock(p) ==
    LET r == proses[p]
        g == mutasi[r.m].asal
    IN
    /\ r.op = "kirim" /\ r.hampa = {}
    /\ \E q \in r.sisa :
        /\ <<g, q>> \in ada
        /\ kunci[<<g, q>>] = Bebas
        /\ proses' = [proses EXCEPT ![p].sisa = r.sisa \ {q}]
    /\ UNCHANGED <<stok, ada, kunci, mutasi, penyesuaian, opname>>

\* UPDATE .. WHERE id without the status read before.
AlihTanpaSyarat(p, ke) ==
    LET r == proses[p] IN
    mutasi' = [mutasi EXCEPT ![r.m].status = ke]

\* The goods of a cancelled transfer come back whether or not they had left.
SelesaiBatalSelalu(p) ==
    LET r == proses[p]
        d == mutasi[r.m]
    IN
    /\ r.op = "batal"
    /\ d.status = r.dari
    /\ mutasi' = [mutasi EXCEPT ![r.m].status = "dibatalkan"]
    /\ BolehTulis(p, d.asal, Perlu(d.isi))
    /\ stok' = Tambah(stok, d.asal, d.isi)
    /\ TambahBaris(d.asal, Perlu(d.isi))
    /\ Akhiri(p)
    /\ UNCHANGED <<penyesuaian, opname>>

-----------------------------------------------------------------------------
(* MutasiService *)

\* Create: the unique index on client_uuid lets a form through once.
BuatMutasi ==
    \E m \in Mutasi, asal, tujuan \in Gudang, isi \in Keranjang :
        /\ mutasi[m].status = "belum"
        /\ asal # tujuan
        /\ mutasi' = [mutasi EXCEPT ![m] =
                [status |-> "draft", asal |-> asal, tujuan |-> tujuan, isi |-> isi]]
        /\ UNCHANGED <<stok, ada, kunci, penyesuaian, opname, proses>>

\* Submit, before its transaction: the status and the items are read.
MulaiKirim(p) ==
    \E m \in Mutasi :
        /\ BolehMutasi(mutasi[m].status, "dikirim")
        /\ Mulai(p, [op |-> "kirim", m |-> m, sisa |-> Perlu(mutasi[m].isi),
                     hampa |-> {}, cukup |-> FALSE])

\* LockStokRow of a row that exists.
KunciBaris(p) ==
    LET r == proses[p]
        g == mutasi[r.m].asal
    IN
    /\ r.op = "kirim" /\ r.hampa = {}
    /\ \E q \in r.sisa :
        /\ <<g, q>> \in ada
        /\ kunci[<<g, q>>] = Bebas
        /\ kunci' = [kunci EXCEPT ![<<g, q>>] = p]
        /\ proses' = [proses EXCEPT ![p].sisa = r.sisa \ {q}]
    /\ UNCHANGED <<stok, ada, mutasi, penyesuaian, opname>>

\* LockStokRow of a row that does not exist: the SELECT finds and locks nothing.
LihatHampa(p) ==
    LET r == proses[p]
        g == mutasi[r.m].asal
    IN
    /\ r.op = "kirim" /\ r.hampa = {}
    /\ \E q \in r.sisa :
        /\ <<g, q>> \notin ada
        /\ proses' = [proses EXCEPT ![p].sisa = r.sisa \ {q}, ![p].hampa = {q}]
    /\ UNCHANGED <<stok, ada, kunci, mutasi, penyesuaian, opname>>

\* The INSERT that follows waits for whoever is inserting the row.  Found
\* there by now, the row stays unlocked; otherwise it is this transaction's.
SisipBaris(p) ==
    LET r == proses[p]
        g == mutasi[r.m].asal
    IN
    /\ r.op = "kirim"
    /\ \E q \in r.hampa :
        /\ kunci[<<g, q>>] = Bebas \/ <<g, q>> \in ada
        /\ kunci' = IF <<g, q>> \in ada THEN kunci ELSE [kunci EXCEPT ![<<g, q>>] = p]
        /\ proses' = [proses EXCEPT ![p].hampa = {}]
    /\ UNCHANGED <<stok, ada, mutasi, penyesuaian, opname>>

\* The quantities, read without a lock of their own.
CekStok(p) ==
    LET r == proses[p] IN
    /\ r.op = "kirim" /\ r.sisa = {} /\ r.hampa = {} /\ ~r.cukup
    /\ Cukup(stok, mutasi[r.m].asal, mutasi[r.m].isi)
    /\ proses' = [proses EXCEPT ![p].cukup = TRUE]
    /\ UNCHANGED <<stok, ada, kunci, mutasi, penyesuaian, opname>>

\* UpdateStatusInTx: compare-and-set of the status.
Alih(p, ke) ==
    LET r == proses[p] IN
    /\ mutasi[r.m].status = IF r.op = "kirim" THEN "draft" ELSE r.dari
    /\ mutasi' = [mutasi EXCEPT ![r.m].status = ke]

\* The status changes and the trigger takes the goods out of the origin.
SelesaiKirim(p) ==
    LET r == proses[p]
        d == mutasi[r.m]
    IN
    /\ r.op = "kirim" /\ r.cukup
    /\ Alih(p, "dikirim")
    /\ BolehTulis(p, d.asal, Perlu(d.isi))
    /\ stok' = Kurangi(stok, d.asal, d.isi)
    /\ TambahBaris(d.asal, Perlu(d.isi))
    /\ Akhiri(p)
    /\ UNCHANGED <<penyesuaian, opname>>

\* Receive and Cancel, before their transactions.
MulaiTerima(p) ==
    \E m \in Mutasi :
        /\ BolehMutasi(mutasi[m].status, "diterima")
        /\ Mulai(p, [op |-> "terima", m |-> m, dari |-> mutasi[m].status])

MulaiBatalMutasi(p) ==
    \E m \in Mutasi :
        /\ BolehMutasi(mutasi[m].status, "dibatalkan")
        /\ Mulai(p, [op |-> "batal", m |-> m, dari |-> mutasi[m].status])

\* Receive: the trigger puts the goods into the destination.
SelesaiTerima(p) ==
    LET r == proses[p]
        d == mutasi[r.m]
    IN
    /\ r.op = "terima"
    /\ Alih(p, "diterima")
    /\ BolehTulis(p, d.tujuan, Perlu(d.isi))
    /\ stok' = Tambah(stok, d.tujuan, d.isi)
    /\ TambahBaris(d.tujuan, Perlu(d.isi))
    /\ Akhiri(p)
    /\ UNCHANGED <<penyesuaian, opname>>

\* Cancel: of a draft nothing moves, of goods on their way the trigger puts
\* them back into the origin.
SelesaiBatalMutasi(p) ==
    LET r == proses[p]
        d == mutasi[r.m]
    IN
    /\ r.op = "batal"
    /\ Alih(p, "dibatalkan")
    /\ IF r.dari = "draft"
       THEN UNCHANGED <<stok, ada>>
       ELSE /\ BolehTulis(p, d.asal, Perlu(d.isi))
            /\ stok' = Tambah(stok, d.asal, d.isi)
            /\ TambahBaris(d.asal, Perlu(d.isi))
    /\ Akhiri(p)
    /\ UNCHANGED <<penyesuaian, opname>>

-----------------------------------------------------------------------------
(* StokAdjustmentService.Create: one transaction that locks the row (if there  *)
(* is one), refuses to go below zero, and upserts.                            *)

Sesuaikan ==
    \E g \in Gudang, q \in Produk, n \in Selisih :
        /\ "sesuai" \in Operasi
        /\ kunci[<<g, q>>] = Bebas
        /\ n < 0 => <<g, q>> \in ada /\ stok[g][q] + n >= 0
        /\ penyesuaian[g][q] + n \in -MaxSesuai..MaxSesuai
        /\ stok' = [stok EXCEPT ![g][q] = stok[g][q] + n]
        /\ penyesuaian' = [penyesuaian EXCEPT ![g][q] = penyesuaian[g][q] + n]
        /\ TambahBaris(g, {q})
        /\ UNCHANGED <<kunci, mutasi, opname, proses>>

-----------------------------------------------------------------------------
(* StokOpnameService *)

\* Create: the items are the stock of the moment, counted as it is recorded.
BuatOpname ==
    \E o \in Opname, g \in Gudang :
        /\ opname[o].status = "belum"
        /\ opname' = [opname EXCEPT ![o] =
                [status |-> "draft", gudang |-> g, fisik |-> stok[g]]]
        /\ UNCHANGED <<stok, ada, kunci, mutasi, penyesuaian, proses>>

\* UpdateItem: the status is read, the item is written later without it.
MulaiHitung(p) ==
    \E o \in Opname, q \in Produk, n \in 0..MaxQty :
        /\ opname[o].status = "draft"
        /\ Mulai(p, [op |-> "hitung", o |-> o, q |-> q, n |-> n])

SelesaiHitung(p) ==
    LET r == proses[p] IN
    /\ r.op = "hitung"
    /\ opname' = [opname EXCEPT ![r.o].fisik[r.q] = r.n]
    /\ Akhiri(p)
    /\ UNCHANGED <<stok, ada, mutasi, penyesuaian>>

\* Submit and Approve: the status is read, and later overwritten without it.
MulaiAjukan(p) ==
    \E o \in Opname :
        /\ BolehOpname(opname[o].status, "selesai")
        /\ Mulai(p, [op |-> "ajukan", o |-> o])

SelesaiAjukan(p) ==
    LET r == proses[p] IN
    /\ r.op = "ajukan"
    /\ opname' = [opname EXCEPT ![r.o].status = "selesai"]
    /\ Akhiri(p)
    /\ UNCHANGED <<stok, ada, mutasi, penyesuaian>>

MulaiSetujui(p) ==
    \E o \in Opname :
        /\ BolehOpname(opname[o].status, "approved")
        /\ Mulai(p, [op |-> "setujui", o |-> o])

\* The trigger makes the counted quantities the stock of the warehouse, unless
\* the count was approved already.
SelesaiSetujui(p) ==
    LET r == proses[p]
        d == opname[r.o]
    IN
    /\ r.op = "setujui"
    /\ opname' = [opname EXCEPT ![r.o].status = "approved"]
    /\ IF d.status = "approved"
       THEN UNCHANGED <<stok, ada>>
       ELSE /\ BolehTulis(p, d.gudang, Produk)
            /\ stok' = [stok EXCEPT ![d.gudang] = d.fisik]
            /\ TambahBaris(d.gudang, Produk)
    /\ Akhiri(p)
    /\ UNCHANGED <<mutasi, penyesuaian>>

-----------------------------------------------------------------------------
Init ==
    /\ stok = StokAwal
    /\ ada = BarisAwal
    /\ kunci = [b \in Baris |-> Bebas]
    /\ mutasi = [m \in Mutasi |-> MutasiKosong]
    /\ penyesuaian = [g \in Gudang |-> IsiKosong]
    /\ opname = [o \in Opname |-> OpnameKosong]
    /\ proses = [p \in Proses |-> Diam]

LangkahKirim(p) ==
    MulaiKirim(p) \/ KunciBaris(p) \/ LihatHampa(p) \/ SisipBaris(p)
        \/ CekStok(p) \/ SelesaiKirim(p)
LangkahAlih(p) ==
    MulaiTerima(p) \/ MulaiBatalMutasi(p) \/ SelesaiTerima(p) \/ SelesaiBatalMutasi(p)
LangkahOpname(p) ==
    MulaiHitung(p) \/ SelesaiHitung(p) \/ MulaiAjukan(p) \/ SelesaiAjukan(p)
        \/ MulaiSetujui(p) \/ SelesaiSetujui(p)

Next ==
    \/ BuatMutasi
    \/ Sesuaikan
    \/ BuatOpname
    \/ \E p \in Proses :
        LangkahKirim(p) \/ LangkahAlih(p) \/ LangkahOpname(p) \/ Gagal(p)

Spec == Init /\ [][Next]_vars

-----------------------------------------------------------------------------
(* Properties *)

\* Every variable keeps its type: quantities may be negative, requests carry a
\* document's name whether or not the document was made (RujukAda says it was).
TypeOK ==
    /\ stok \in [Gudang -> [Produk -> Int]]
    /\ ada \subseteq Baris
    /\ kunci \in [Baris -> Proses \cup {Bebas}]
    /\ mutasi \in [Mutasi -> BarisMutasi]
    /\ penyesuaian \in [Gudang -> [Produk -> -MaxSesuai..MaxSesuai]]
    /\ opname \in [Opname -> BarisOpname]
    /\ proses \in [Proses -> Permintaan]

\* A stock row that was there from the start never goes below zero, however
\* transfers, adjustments and counts interleave: Submit reads the quantities
\* without a lock but holds the row since before it read them.
StokAmanBarisAwal ==
    \A b \in BarisAwal : stok[b[1]][b[2]] >= 0

\* Goods of a transfer that was received or cancelled stay where they are: it
\* is never received after it was cancelled, cancelled after it was received,
\* or done twice, although every request read the status long before.
MutasiTuntas ==
    [][\A m \in Mutasi :
          mutasi[m].status \in {"diterima", "dibatalkan"} => mutasi'[m] = mutasi[m]]_vars

\* What transfer m took out of warehouse g, and what it brought into it.
Berangkat(m, g, q) ==
    IF mutasi[m].asal = g /\ mutasi[m].status \in {"dikirim", "diterima"}
    THEN mutasi[m].isi[q] ELSE 0
Tiba(m, g, q) ==
    IF mutasi[m].tujuan = g /\ mutasi[m].status = "diterima" THEN mutasi[m].isi[q] ELSE 0

\* What left warehouse g for another one, and what arrived in it.
Keluar(g, q) == SumFunctionOnSet([m \in Mutasi |-> Berangkat(m, g, q)], Mutasi)
Masuk(g, q) == SumFunctionOnSet([m \in Mutasi |-> Tiba(m, g, q)], Mutasi)

\* The stock of g and q the documents account for, apart from counts.
Buku(g, q) == StokAwal[g][q] + penyesuaian[g][q] - Keluar(g, q) + Masuk(g, q)

\* Stock moves exactly as the documents do: a step changes a stock row by what
\* it changes the books of transfers and adjustments, or makes the stock of a
\* warehouse the quantities of a count it approves.
StokIkutDokumen ==
    [][\A g \in Gudang :
          \/ \A q \in Produk : stok'[g][q] - stok[g][q] = Buku(g, q)' - Buku(g, q)
          \/ \E o \in Opname :
                /\ opname[o].status # "approved" /\ opname'[o].status = "approved"
                /\ opname[o].gudang = g
                /\ stok'[g] = opname[o].fisik]_vars

-----------------------------------------------------------------------------
(* The inductive invariant StokAmanBarisAwal rests on *)

\* A request refers to a document that exists.
RujukAda(p) ==
    LET r == proses[p] IN
    /\ r.op \in {"kirim", "terima", "batal"} => mutasi[r.m].status # "belum"
    /\ r.op \in {"hitung", "ajukan", "setujui"} => opname[r.o].status # "belum"

\* Submit: of the products it has passed it holds the rows that were there from
\* the start (it cannot have missed one), and once it found the quantities
\* sufficient they still are in those rows.
KirimTerkini(p) ==
    LET r == proses[p]
        g == mutasi[r.m].asal
        isi == mutasi[r.m].isi
    IN
    r.op = "kirim" =>
        /\ \A q \in r.hampa : <<g, q>> \notin BarisAwal
        /\ \A q \in Perlu(isi) \ (r.sisa \cup r.hampa) :
              <<g, q>> \in BarisAwal => kunci[<<g, q>>] = p
        /\ r.cukup =>
              /\ r.sisa = {} /\ r.hampa = {}
              /\ \A q \in Perlu(isi) : <<g, q>> \in BarisAwal => stok[g][q] >= isi[q]

\* A count never holds a negative quantity of a row that was there from the start.
HitungTidakNegatif ==
    \A o \in Opname, q \in Produk :
        <<opname[o].gudang, q>> \in BarisAwal => opname[o].fisik[q] >= 0

IInv ==
    /\ TypeOK
    /\ BarisAwal \subseteq ada
    /\ StokAmanBarisAwal
    /\ HitungTidakNegatif
    /\ \A p \in Proses : RujukAda(p) /\ KirimTerkini(p)

\* Only a transfer on its way is being received; StokIkutDokumen rests on it.
TerimaDariJalan ==
    \A p \in Proses : proses[p].op = "terima" => proses[p].dari = "dikirim"

-----------------------------------------------------------------------------
(* What the comments promise and the code does not keep *)

\* Submit locks the rows it checks, creating the missing ones "supaya lock
\* tetap tegak" (LockStokRow), so no row at all goes below zero.
StokAman ==
    \A g \in Gudang, q \in Produk : stok[g][q] >= 0

=============================================================================
