-------------------------------- MODULE Impor --------------------------------
(***************************************************************************)
(* migrate-excel: the workbook of one branch and the workbook of transfers *)
(* are read into the database.  A run first makes sure of its user, the    *)
(* products and the customers, and then stores one sheet after the other,  *)
(* each in a transaction of its own; a dry run rolls these back.  A run    *)
(* may break off anywhere and be started again, also while another one is  *)
(* still at work.                                                          *)
(*                                                                         *)
(* What the sheets say is fixed (the tool is run again on the same files). *)
(* Every quantity is one unit.  A statement that meets a row another run   *)
(* has not committed waits for it, and nobody else writes these tables, so *)
(* the transaction of a sheet is one step.                                 *)
(***************************************************************************)
EXTENDS Integers, FiniteSets

CONSTANTS
    BarisLembar,  \* rows of the sheets (finitely many)
    Barang,       \* products, by normalised name
    Pihak,        \* customers, by normalised name
    Jalan,        \* runs that may be at work at the same time
    MaxJalan      \* bound: number of runs

ASSUME ImporAssumption == MaxJalan \in Nat /\ IsFiniteSet(BarisLembar)

VARIABLES
    lembar,       \* the sheet of each row
    milik,        \* its product and its customer
    bertanggal,   \* rows of the sheets with dates, whose date can be read
    seiring,      \* the transfers stand side by side in one row of their sheet
    jalan,        \* what each run is doing
    jalanKe,      \* runs so far
    migran,       \* the user "migrate" exists
    produkDB,     \* products in the database
    mitraDB,      \* customers in the database
    tersimpan,    \* how often each row is stored
    stokDB,       \* stock of the branch (sini) and of the others (sana)
    diimpor,      \* a run in mode import has been started
    ditimpa       \* products whose stock was imported after goods had moved

varsImpor == <<lembar, milik, bertanggal, seiring, jalan, jalanKe, migran, produkDB, mitraDB, tersimpan, stokDB, diimpor, ditimpa>>
buku == <<lembar, milik, bertanggal, seiring>>
hasil == <<tersimpan, stokDB, ditimpa>>

-----------------------------------------------------------------------------
\* The order in which processMitraFile and processAntarGudang go through them.
Urutan == <<"penjualan", "pembayaran", "piutang", "stok", "tabungan", "hutang", "mutasi">>
Lembar == {Urutan[n] : n \in 1..7}

Istirahat == [tahap |-> "istirahat"]
Persiapan == [tahap : {"user", "userbaru", "produk", "mitra"}, kering : BOOLEAN,
              produk : SUBSET Barang, mitra : SUBSET Pihak]
Bekerja == [tahap : {"siapproduk", "siapmitra", "lembar"}, kering : BOOLEAN,
            produk : SUBSET Barang, mitra : SUBSET Pihak, ke : 1..7]

Di(i, t) == jalan[i].tahap = t
BarisDari(j) == {r \in BarisLembar : lembar[r] = j}

\* scanProdukDariMain and scanMitraDariMain: only the sales name them, with or
\* without a date.
KandidatProduk == {milik[r].barang : r \in BarisDari("penjualan")}
KandidatMitra == {milik[r].pihak : r \in BarisDari("penjualan")}

\* The rows the parsers return: one without a date is noted as an anomaly, but the
\* stock and the receivables of the opening carry none.
BacaPenjualan == BarisDari("penjualan") \cap bertanggal
BacaPembayaran == BarisDari("pembayaran") \cap bertanggal
BacaPiutang == BarisDari("piutang")
BacaStok == BarisDari("stok")
BacaTabungan == BarisDari("tabungan") \cap bertanggal
BacaHutang == BarisDari("hutang") \cap bertanggal
BacaAntarGudang == BarisDari("mutasi") \cap bertanggal

\* Rows with the product and the customer the run knows; others are skipped.
DikenalProduk(i, S) == {r \in S : milik[r].barang \in jalan[i].produk}
DikenalMitra(i, S) == {r \in S : milik[r].pihak \in jalan[i].mitra}

\* deterministicUUID: file, sheet and row, so transfers side by side have one.
SeKunci(r, s) == r = s \/ (seiring /\ lembar[r] = "mutasi" /\ lembar[s] = "mutasi")
\* Faulty: the INSERT has no ON CONFLICT clause.
SemuaBaru(S) == {S}
\* ON CONFLICT DO NOTHING: of rows with one key, one is stored.
YangBaru(S) ==
    {T \in SUBSET S :
        /\ \A r \in T : \A s \in BarisLembar :
            SeKunci(r, s) /\ (s \in T \/ tersimpan[s] > 0) => s = r /\ tersimpan[s] = 0
        /\ \A r \in S : \E s \in BarisLembar : SeKunci(r, s) /\ (s \in T \/ tersimpan[s] > 0)}

Simpankan(T) == tersimpan' = [r \in BarisLembar |-> IF r \in T THEN tersimpan[r] + 1 ELSE tersimpan[r]]
Banyak(T, b) == Cardinality({r \in T : milik[r].barang = b})

\* The next sheet, or the end of the run.
Lewat(i) ==
    jalan' = [jalan EXCEPT ![i] = IF @.ke = 7 THEN Istirahat ELSE [@ EXCEPT !.ke = jalan[i].ke + 1]]
\* The transaction of a sheet: a dry run rolls it back.
Langkah(i, j) ==
    /\ Di(i, "lembar") /\ Urutan[jalan[i].ke] = j
    /\ Lewat(i)
    /\ UNCHANGED <<buku, jalanKe, migran, mitraDB, diimpor>>
Kering(i) == jalan[i].kering /\ UNCHANGED <<hasil, produkDB>>
Basah(i) == ~jalan[i].kering

-----------------------------------------------------------------------------
(* The user and the master data.  These are committed by a dry run too. *)

Mulai(i, kering) ==
    /\ Di(i, "istirahat") /\ jalanKe < MaxJalan
    /\ jalanKe' = jalanKe + 1
    /\ jalan' = [jalan EXCEPT ![i] = [tahap |-> "user", kering |-> kering, produk |-> {}, mitra |-> {}]]
    /\ diimpor' = (diimpor \/ ~kering)
    /\ UNCHANGED <<buku, migran, produkDB, mitraDB, hasil>>

\* ensureMigrateUser looks for the user, and creates it; the second of two runs
\* fails at the unique index.
CariPengguna(i) ==
    /\ Di(i, "user")
    /\ jalan' = [jalan EXCEPT ![i].tahap = IF migran THEN "produk" ELSE "userbaru"]
    /\ UNCHANGED <<buku, jalanKe, migran, produkDB, mitraDB, hasil, diimpor>>

BuatPengguna(i) ==
    /\ Di(i, "userbaru")
    /\ migran' = TRUE
    /\ jalan' = [jalan EXCEPT ![i] = IF migran THEN Istirahat ELSE [@ EXCEPT !.tahap = "produk"]]
    /\ UNCHANGED <<buku, jalanKe, produkDB, mitraDB, hasil, diimpor>>

\* BuildMasterProduk reads the names there are ...
BacaMasterProduk(i) ==
    /\ Di(i, "produk")
    /\ jalan' = [jalan EXCEPT ![i] =
            [tahap |-> "siapproduk", kering |-> @.kering, produk |-> produkDB, mitra |-> {}, ke |-> 1]]
    /\ UNCHANGED <<buku, jalanKe, migran, produkDB, mitraDB, hasil, diimpor>>

\* ... and inserts the rest under running numbers, which collide with those of a
\* run that has done so meanwhile.
TulisMasterProduk(i) ==
    LET baru == KandidatProduk \ jalan[i].produk IN
    /\ Di(i, "siapproduk")
    /\ IF baru \cap produkDB = {}
       THEN /\ produkDB' = produkDB \cup baru
            /\ jalan' = [jalan EXCEPT ![i] =
                    [tahap |-> "mitra", kering |-> @.kering, produk |-> @.produk \cup baru, mitra |-> {}]]
       ELSE jalan' = [jalan EXCEPT ![i] = Istirahat] /\ UNCHANGED produkDB
    /\ UNCHANGED <<buku, jalanKe, migran, mitraDB, hasil, diimpor>>

BacaMasterMitra(i) ==
    /\ Di(i, "mitra")
    /\ jalan' = [jalan EXCEPT ![i] =
            [tahap |-> "siapmitra", kering |-> @.kering, produk |-> @.produk, mitra |-> mitraDB, ke |-> 1]]
    /\ UNCHANGED <<buku, jalanKe, migran, produkDB, mitraDB, hasil, diimpor>>

TulisMasterMitra(i) ==
    LET baru == KandidatMitra \ jalan[i].mitra IN
    /\ Di(i, "siapmitra")
    /\ IF baru \cap mitraDB = {}
       THEN /\ mitraDB' = mitraDB \cup baru
            /\ jalan' = [jalan EXCEPT ![i].tahap = "lembar", ![i].mitra = @ \cup baru]
       ELSE jalan' = [jalan EXCEPT ![i] = Istirahat] /\ UNCHANGED mitraDB
    /\ UNCHANGED <<buku, jalanKe, migran, produkDB, hasil, diimpor>>

-----------------------------------------------------------------------------
(* The sheets *)

ImporPenjualan(i) ==
    \/ Kering(i)
    \/ /\ Basah(i)
       /\ \E T \in YangBaru(DikenalProduk(i, BacaPenjualan) \cap DikenalMitra(i, BacaPenjualan)) : Simpankan(T)
       /\ UNCHANGED <<stokDB, ditimpa, produkDB>>

ImporPembayaran(i) ==
    \/ Kering(i)
    \/ /\ Basah(i)
       /\ \E T \in YangBaru(DikenalMitra(i, BacaPembayaran)) : Simpankan(T)
       /\ UNCHANGED <<stokDB, ditimpa, produkDB>>

ImporPiutangOpening(i) ==
    \/ Kering(i)
    \/ /\ Basah(i)
       /\ \E T \in YangBaru(DikenalMitra(i, BacaPiutang)) : Simpankan(T)
       /\ UNCHANGED <<stokDB, ditimpa, produkDB>>

\* The quantity of the sheet replaces the one that is there.
ImporStok(i) ==
    LET S == DikenalProduk(i, BacaStok)
        B == {milik[r].barang : r \in S}
        sudah == {milik[r].barang : r \in {s \in BacaHutang \cup BacaAntarGudang : tersimpan[s] > 0}}
    IN
    \/ Kering(i)
    \/ /\ Basah(i)
       /\ Simpankan({r \in S : tersimpan[r] = 0})
       /\ stokDB' = [stokDB EXCEPT !.sini = [b \in Barang |-> IF b \in B THEN 1 ELSE @[b]]]
       /\ ditimpa' = ditimpa \cup (B \cap sudah)
       /\ UNCHANGED produkDB

\* No key: the rows are stored again by every run.
ImporTabungan(i) ==
    \/ Kering(i)
    \/ /\ Basah(i)
       /\ Simpankan(DikenalMitra(i, BacaTabungan))
       /\ UNCHANGED <<stokDB, ditimpa, produkDB>>

\* The trigger on pembelian_item adds the goods.
ImporPembelian(i) ==
    \/ Kering(i)
    \/ /\ Basah(i)
       /\ \E T \in YangBaru(DikenalProduk(i, BacaHutang)) :
            /\ Simpankan(T)
            /\ stokDB' = [stokDB EXCEPT !.sini = [b \in Barang |-> @[b] + Banyak(T, b)]]
       /\ UNCHANGED <<ditimpa, produkDB>>

\* Faulty: the item is inserted, and its trigger fires, also for a transfer that
\* was there already.
ImporMutasiItemSelalu(i) ==
    \/ Kering(i)
    \/ /\ Basah(i)
       /\ \E T \in YangBaru(BacaAntarGudang) : Simpankan(T)
       /\ stokDB' = [sini |-> [b \in Barang |-> stokDB.sini[b] - Banyak(BacaAntarGudang, b)],
                     sana |-> [b \in Barang |-> stokDB.sana[b] + Banyak(BacaAntarGudang, b)]]
       /\ produkDB' = produkDB \cup {milik[r].barang : r \in BacaAntarGudang}
       /\ UNCHANGED ditimpa

\* A transfer creates the product it does not know; its trigger moves the goods.
ImporMutasi(i) ==
    \/ Kering(i)
    \/ /\ Basah(i)
       /\ \E T \in YangBaru(BacaAntarGudang) :
            /\ Simpankan(T)
            /\ stokDB' = [sini |-> [b \in Barang |-> stokDB.sini[b] - Banyak(T, b)],
                          sana |-> [b \in Barang |-> stokDB.sana[b] + Banyak(T, b)]]
       /\ produkDB' = produkDB \cup {milik[r].barang : r \in BacaAntarGudang}
       /\ UNCHANGED ditimpa

ProsesPenjualan(i) == Langkah(i, "penjualan") /\ ImporPenjualan(i)
ProsesPembayaran(i) == Langkah(i, "pembayaran") /\ ImporPembayaran(i)
ProsesPiutang(i) == Langkah(i, "piutang") /\ ImporPiutangOpening(i)
ProsesStok(i) == Langkah(i, "stok") /\ ImporStok(i)
ProsesTabungan(i) == Langkah(i, "tabungan") /\ ImporTabungan(i)
ProsesHutang(i) == Langkah(i, "hutang") /\ ImporPembelian(i)
ProsesAntarGudang(i) == Langkah(i, "mutasi") /\ ImporMutasi(i)

\* A statement fails, or the run is stopped: the open transaction is gone.
Berakhir(i) ==
    /\ ~Di(i, "istirahat")
    /\ jalan' = [jalan EXCEPT ![i] = Istirahat]
    /\ UNCHANGED <<buku, jalanKe, migran, produkDB, mitraDB, hasil, diimpor>>

-----------------------------------------------------------------------------
InitImpor ==
    /\ lembar \in [BarisLembar -> Lembar]
    /\ milik \in [BarisLembar -> [barang : Barang, pihak : Pihak]]
    /\ bertanggal \in SUBSET {r \in BarisLembar : lembar[r] \notin {"piutang", "stok"}}
    /\ seiring \in {FALSE, Cardinality(BarisDari("mutasi")) > 1}
    /\ jalan = [i \in Jalan |-> Istirahat] /\ jalanKe = 0
    /\ migran = FALSE /\ produkDB = {} /\ mitraDB = {}
    /\ tersimpan = [r \in BarisLembar |-> 0]
    /\ stokDB = [sini |-> [b \in Barang |-> 0], sana |-> [b \in Barang |-> 0]]
    /\ diimpor = FALSE /\ ditimpa = {}

NextImpor ==
    \E i \in Jalan :
        \/ \E kering \in BOOLEAN : Mulai(i, kering)
        \/ CariPengguna(i) \/ BuatPengguna(i) \/ Berakhir(i)
        \/ BacaMasterProduk(i) \/ TulisMasterProduk(i)
        \/ BacaMasterMitra(i) \/ TulisMasterMitra(i)
        \/ ProsesPenjualan(i) \/ ProsesPembayaran(i) \/ ProsesPiutang(i)
        \/ ProsesStok(i) \/ ProsesTabungan(i) \/ ProsesHutang(i) \/ ProsesAntarGudang(i)

SpecImpor == InitImpor /\ [][NextImpor]_varsImpor

-----------------------------------------------------------------------------
(* Properties *)

TypeImpor ==
    /\ lembar \in [BarisLembar -> Lembar] /\ milik \in [BarisLembar -> [barang : Barang, pihak : Pihak]]
    /\ jalan \in [Jalan -> {Istirahat} \cup Persiapan \cup Bekerja] /\ jalanKe \in Nat
    /\ migran \in BOOLEAN /\ produkDB \subseteq Barang /\ mitraDB \subseteq Pihak
    /\ tersimpan \in [BarisLembar -> Nat]
    /\ stokDB \in [sini : [Barang -> Int], sana : [Barang -> Int]]
    /\ bertanggal \subseteq BarisLembar /\ seiring \in BOOLEAN /\ diimpor \in BOOLEAN /\ ditimpa \subseteq Barang

\* Wherever runs break off, are repeated or overlap: a row of a sheet with a key
\* is stored once at most, and not at all as long as there were only dry runs.
TransaksiSekali ==
    \A r \in BarisLembar :
        /\ lembar[r] # "tabungan" => tersimpan[r] <= 1
        /\ ~diimpor => tersimpan[r] = 0

\* The rows of a sheet about one product that are stored.
Tercatat(j, b) == {r \in BarisDari(j) : milik[r].barang = b /\ tersimpan[r] > 0}

\* The stock agrees with the rows that are stored, sheet by sheet, except for
\* products whose opening stock was imported once more over goods that had moved.
StokImpor ==
    \A b \in Barang :
        LET jumlah(j) == Cardinality(Tercatat(j, b))
            awal == IF Tercatat("stok", b) # {} THEN 1 ELSE 0
        IN
        /\ stokDB.sana[b] = jumlah("mutasi")
        /\ b \in ditimpa \/ stokDB.sini[b] = awal + jumlah("hutang") - jumlah("mutasi")

-----------------------------------------------------------------------------
(* The inductive invariant TransaksiSekali and StokImpor rest on *)

\* A run that writes is a run in mode import.
TulisBerarti == \A i \in Jalan : ~Di(i, "istirahat") /\ ~jalan[i].kering => diimpor

\* Purchases and transfers are stored with a date only; the stock sheet relies on
\* that when it looks for goods that have moved.
TercatatTerbaca ==
    \A r \in BarisLembar :
        lembar[r] \in {"hutang", "mutasi"} /\ tersimpan[r] > 0 => r \in bertanggal

InvImpor == TypeImpor /\ TulisBerarti /\ TercatatTerbaca /\ TransaksiSekali /\ StokImpor

=============================================================================
