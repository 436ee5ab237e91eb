------------------------------- MODULE Katalog -------------------------------
(***************************************************************************)
(* Master data and what is entered like it: products with their photos,    *)
(* customers, suppliers, warehouses, units, discounts, the cash book,      *)
(* prices and the customers' portal links.  A user opens a list, from the  *)
(* list a form, and sends the form; the screen a user looks at stays as it *)
(* is while others change the rows it shows.                               *)
(*                                                                         *)
(* Every kind has a handler, a service and a table of its own, and no      *)
(* request touches two of them: a behaviour follows one kind.  What a row  *)
(* says, is_active included, is the number of the write it comes from.     *)
(***************************************************************************)
EXTENDS Integers, FiniteSets

CONSTANTS
    Baris,        \* ids of rows
    Kode,         \* values of sku or kode
    Pemakai,      \* users
    Baru,         \* the id of a form for a new row
    MaxTulis      \* bound: number of writes

ASSUME KatalogAssumption == Baru \notin Baris /\ MaxTulis \in Nat

VARIABLES
    jenis,        \* the kind of row this behaviour is about
    tabel,        \* its table
    layar,        \* the screen of each user, or the request it waits for
    tulis,        \* writes so far: a form, a switch or a file takes the next number
    berkas,       \* files in the upload directory
    cacat         \* products an upload of which broke off halfway

varsKatalog == <<jenis, tabel, layar, tulis, berkas, cacat>>

-----------------------------------------------------------------------------
Jenis == {"produk", "mitra", "supplier", "gudang", "satuan", "diskon", "kas", "harga", "tautan"}
Berversi == {"produk", "mitra"}

\* A price for all warehouses has no key, its gudang_id being NULL; nor has a link,
\* whose token is random.
TanpaKode == Baru
KodeBoleh == Kode \cup {TanpaKode}

\* versi is at least 1, or the forms of the row would skip the comparison; foto is
\* the file foto_url names, 0 for NULL.  hapus is a soft delete, for a link its
\* revocation, and for an entry of the cash book that the row is gone.
Rekam == [kode : KodeBoleh, isi : Nat, versi : Nat \ {0}, hapus : BOOLEAN, foto : Nat]
Tiada == [hapus |-> TRUE]
Ada(b) == tabel[b] # Tiada
Hidup(b) == Ada(b) /\ ~tabel[b].hapus

Daftar == [tahap : {"daftar"}, ada : SUBSET Baris]
\* versi 0 is a form without the hidden field; lihat is the content it shows.
Form == [tahap : {"form"}, id : Baris \cup {Baru}, versi : Nat, lihat : Nat]
Kirim == [tahap : {"kirim"}, id : Baris \cup {Baru}, versi : Nat, lihat : Nat, kode : KodeBoleh]
Saklar == [tahap : {"saklar"}, id : Baris]
Gambar == [tahap : {"unggah", "pasang"}, id : Baris, lama : Nat, baru : Nat]
Tamu == [tahap : {"portal", "pdf"}, id : Baris]

Tampil(u, s) == layar' = [layar EXCEPT ![u] = s]
KeDaftar(u) == Tampil(u, [tahap |-> "daftar", ada |-> {}])
\* A refused form comes back with what it had, its version included.
KeForm(u) ==
    Tampil(u, [tahap |-> "form", id |-> layar[u].id, versi |-> layar[u].versi, lihat |-> layar[u].lihat])

FormBaru(u) == layar[u].tahap = "form" /\ layar[u].id = Baru
FormUbah(u) == layar[u].tahap = "form" /\ layar[u].id # Baru

\* UNIQUE (sku), UNIQUE (kode): rows that are deleted but still there count.
Berkunci(c) == IF jenis = "kas" THEN Hidup(c) ELSE Ada(c)
KodeBebas(k, b) == k # TanpaKode => \A c \in Baris \ {b} : Berkunci(c) => tabel[c].kode # k

\* The trigger bump_version fires on every UPDATE of a row, whatever it sets.  Only
\* products and customers have a version that somebody reads.
Ubah(b, r) ==
    tabel' = [tabel EXCEPT ![b] = IF jenis \in Berversi THEN [r EXCEPT !.versi = @ + 1] ELSE r]
\* New content.
Tulis(b, r) ==
    /\ tulis < MaxTulis /\ tulis' = tulis + 1
    /\ Ubah(b, [r EXCEPT !.isi = tulis + 1])

-----------------------------------------------------------------------------
(* What every kind does in the same way *)

\* A list; whatever form was open is left.
Lihat(u, j, S) ==
    /\ jenis = j /\ layar[u].tahap \in {"daftar", "form"}
    /\ Tampil(u, [tahap |-> "daftar", ada |-> S])
    /\ UNCHANGED <<jenis, tabel, tulis, berkas, cacat>>

Isi(u, j) ==
    /\ jenis = j /\ layar[u].tahap = "daftar"
    /\ Tampil(u, [tahap |-> "form", id |-> Baru, versi |-> 0, lihat |-> 0])
    /\ UNCHANGED <<jenis, tabel, tulis, berkas, cacat>>

\* A row of the list, which may be gone by now; v is the version the form carries.
Sunting(u, j, b, v) ==
    /\ jenis = j /\ layar[u].tahap = "daftar" /\ b \in layar[u].ada
    /\ IF Hidup(b)
       THEN Tampil(u, [tahap |-> "form", id |-> b, versi |-> v, lihat |-> tabel[b].isi])
       ELSE KeDaftar(u)
    /\ UNCHANGED <<jenis, tabel, tulis, berkas, cacat>>

\* The service has read what it checks; a failed check returns the form.
Lolos(u, j, k) ==
    /\ jenis = j /\ layar[u].tahap = "form"
    /\ Tampil(u, [tahap |-> "kirim", id |-> layar[u].id, versi |-> layar[u].versi,
                  lihat |-> layar[u].lihat, kode |-> k])
    /\ UNCHANGED <<jenis, tabel, tulis, berkas, cacat>>

\* Faulty: the INSERT takes the version of the form, which has none.
SisipVersiForm(b, k) ==
    /\ ~Ada(b) /\ tulis < MaxTulis
    /\ tabel' = [tabel EXCEPT ![b] =
            [kode |-> k, isi |-> tulis + 1, versi |-> 0, hapus |-> FALSE, foto |-> 0]]
    /\ tulis' = tulis + 1

Sisip(b, k) ==
    /\ ~Ada(b) /\ tulis < MaxTulis
    /\ tabel' = [tabel EXCEPT ![b] =
            [kode |-> k, isi |-> tulis + 1, versi |-> 1, hapus |-> FALSE, foto |-> 0]]
    /\ tulis' = tulis + 1

\* The INSERT, or its unique index.
Tambah(u, j) ==
    /\ jenis = j /\ layar[u].tahap = "kirim" /\ layar[u].id = Baru
    /\ IF KodeBebas(layar[u].kode, Baru)
       THEN KeDaftar(u) /\ \E b \in Baris : Sisip(b, layar[u].kode)
       ELSE KeForm(u) /\ UNCHANGED <<tabel, tulis>>
    /\ UNCHANGED <<jenis, berkas, cacat>>

\* The UPDATE: cocok says whether its WHERE finds the row, hilang whether a row
\* that is gone is answered with 404 instead of the form.
Simpan(u, j, cocok, hilang) ==
    LET f == layar[u] IN
    /\ jenis = j /\ f.tahap = "kirim" /\ f.id # Baru
    /\ IF cocok /\ KodeBebas(f.kode, f.id)
       THEN Tulis(f.id, [tabel[f.id] EXCEPT !.kode = f.kode]) /\ KeDaftar(u)
       ELSE /\ IF hilang /\ ~Hidup(f.id) THEN KeDaftar(u) ELSE KeForm(u)
            /\ UNCHANGED <<tabel, tulis>>
    /\ UNCHANGED <<jenis, berkas, cacat>>

\* Soft delete from the list.
Buang(u, j, b) ==
    /\ jenis = j /\ layar[u].tahap = "daftar" /\ b \in layar[u].ada
    /\ IF Hidup(b) THEN Ubah(b, [tabel[b] EXCEPT !.hapus = TRUE]) ELSE UNCHANGED tabel
    /\ KeDaftar(u)
    /\ UNCHANGED <<jenis, tulis, berkas, cacat>>

\* Toggle: the handler reads the row and asks for the opposite.
BacaSaklar(u, j, b) ==
    /\ jenis = j /\ layar[u].tahap = "daftar" /\ b \in layar[u].ada
    /\ Tampil(u, [tahap |-> "saklar", id |-> b])
    /\ UNCHANGED <<jenis, tabel, tulis, berkas, cacat>>

TulisSaklar(u, j) ==
    /\ jenis = j /\ layar[u].tahap = "saklar"
    /\ Tulis(layar[u].id, tabel[layar[u].id])
    /\ KeDaftar(u)
    /\ UNCHANGED <<jenis, berkas, cacat>>

-----------------------------------------------------------------------------
(* Products *)

DaftarProduk == {b \in Baris : Hidup(b)}
SkuDipakai(k) == {b \in DaftarProduk : tabel[b].kode = k}
\* Faulty: the version of the form is not compared.
CocokProdukTanpaVersi(b, v) == Hidup(b)
CocokProduk(b, v) == Hidup(b) /\ (v > 0 => tabel[b].versi = v)

IndexProduk(u) == Lihat(u, "produk", DaftarProduk)
BaruProduk(u) == Isi(u, "produk")
EditProduk(u, b) == Sunting(u, "produk", b, tabel[b].versi)
PeriksaTambahProduk(u, k) == FormBaru(u) /\ SkuDipakai(k) = {} /\ Lolos(u, "produk", k)
PeriksaUbahProduk(u, k) ==
    /\ FormUbah(u) /\ layar[u].id \in DaftarProduk /\ SkuDipakai(k) \subseteq {layar[u].id}
    /\ Lolos(u, "produk", k)
TambahProduk(u) == Tambah(u, "produk")
SimpanProduk(u) == Simpan(u, "produk", CocokProduk(layar[u].id, layar[u].versi), FALSE)
HapusProduk(u, b) == Buang(u, "produk", b)

\* Upload and Delete of the photo start on the form of the product: they read the
\* row, and Upload (f # 0) writes its file under a new name.
MulaiFoto(u, b, f) ==
    /\ jenis = "produk" /\ layar[u].tahap = "form" /\ layar[u].id = b
    /\ Hidup(b)
    /\ Tampil(u, [tahap |-> "unggah", id |-> b, lama |-> tabel[b].foto, baru |-> f])
    /\ UNCHANGED <<jenis, tabel, cacat>>

\* Faulty: the file is named after the product alone.
UnggahFotoSatuNama(u, b) ==
    /\ tulis < MaxTulis /\ tulis' = tulis + 1
    /\ MulaiFoto(u, b, 1)
    /\ berkas' = berkas \cup {1}

UnggahFoto(u, b) ==
    /\ tulis < MaxTulis /\ tulis' = tulis + 1
    /\ MulaiFoto(u, b, tulis + 1)
    /\ berkas' = berkas \cup {tulis + 1}

BuangFoto(u, b) ==
    /\ tulis < MaxTulis /\ tulis' = tulis + 1
    /\ MulaiFoto(u, b, 0) /\ UNCHANGED berkas

\* removeFile of the photo that was read.
HapusBerkas(u) ==
    /\ layar[u].tahap = "unggah"
    /\ berkas' = berkas \ {layar[u].lama}
    /\ Tampil(u, [layar[u] EXCEPT !.tahap = "pasang"])
    /\ UNCHANGED <<jenis, tabel, tulis, cacat>>

\* UpdateFotoURL; without a row the new file is removed again.
PasangFoto(u) ==
    LET g == layar[u] IN
    /\ g.tahap = "pasang"
    /\ IF Hidup(g.id)
       THEN Ubah(g.id, [tabel[g.id] EXCEPT !.foto = g.baru]) /\ UNCHANGED berkas
       ELSE berkas' = berkas \ {g.baru} /\ UNCHANGED tabel
    /\ KeDaftar(u)
    /\ UNCHANGED <<jenis, tulis, cacat>>

\* The client is gone or the database fails: nothing is stored, and the file of
\* the row is gone already.  A server that stops leaves the new file behind.
GagalFoto(u) ==
    LET g == layar[u] IN
    /\ g.tahap \in {"unggah", "pasang"}
    /\ berkas' \in {berkas, berkas \ {g.baru}}
    /\ cacat' = IF g.tahap = "pasang" THEN cacat \cup {g.id} ELSE cacat
    /\ KeDaftar(u)
    /\ UNCHANGED <<jenis, tabel, tulis>>

-----------------------------------------------------------------------------
(* Customers *)

DaftarMitra == {b \in Baris : Hidup(b)}
CocokMitra(b, v) == Hidup(b) /\ (v > 0 => tabel[b].versi = v)

IndexMitra(u) == Lihat(u, "mitra", DaftarMitra)
BaruMitra(u) == Isi(u, "mitra")
EditMitra(u, b) == Sunting(u, "mitra", b, tabel[b].versi)
PeriksaMitra(u, k) == Lolos(u, "mitra", k)
TambahMitra(u) == Tambah(u, "mitra")
SimpanMitra(u) == Simpan(u, "mitra", CocokMitra(layar[u].id, layar[u].versi), TRUE)
HapusMitra(u, b) == Buang(u, "mitra", b)

-----------------------------------------------------------------------------
(* Suppliers: the form carries no version *)

DaftarSupplier == {b \in Baris : Hidup(b)}
\* Faulty: a deleted row is found too.
CocokSupplierTerhapus(b) == Ada(b)
CocokSupplier(b) == Hidup(b)

IndexSupplier(u) == Lihat(u, "supplier", DaftarSupplier)
BaruSupplier(u) == Isi(u, "supplier")
EditSupplier(u, b) == Sunting(u, "supplier", b, 0)
PeriksaSupplier(u, k) == Lolos(u, "supplier", k)
TambahSupplier(u) == Tambah(u, "supplier")
SimpanSupplier(u) == Simpan(u, "supplier", CocokSupplier(layar[u].id), TRUE)
HapusSupplier(u, b) == Buang(u, "supplier", b)

-----------------------------------------------------------------------------
(* Warehouses: no version, no deletion, a toggle *)

DaftarGudang == {b \in Baris : Ada(b)}
GudangBerkode(k) == {b \in DaftarGudang : tabel[b].kode = k}

IndexGudang(u) == Lihat(u, "gudang", DaftarGudang)
BaruGudang(u) == Isi(u, "gudang")
EditGudang(u, b) == Sunting(u, "gudang", b, 0)
PeriksaTambahGudang(u, k) == FormBaru(u) /\ GudangBerkode(k) = {} /\ Lolos(u, "gudang", k)
PeriksaUbahGudang(u, k) ==
    /\ FormUbah(u) /\ layar[u].id \in DaftarGudang /\ GudangBerkode(k) \subseteq {layar[u].id}
    /\ Lolos(u, "gudang", k)
TambahGudang(u) == Tambah(u, "gudang")
SimpanGudang(u) == Simpan(u, "gudang", TRUE, FALSE)
ToggleGudang(u, b) == BacaSaklar(u, "gudang", b)
AktifkanGudang(u) == TulisSaklar(u, "gudang")

-----------------------------------------------------------------------------
(* Units: created, never changed *)

SatuanBerkode(k) == {b \in Baris : Ada(b) /\ tabel[b].kode = k}
BaruSatuan(u) == Isi(u, "satuan")
PeriksaSatuan(u, k) == SatuanBerkode(k) = {} /\ Lolos(u, "satuan", k)
TambahSatuan(u) == Tambah(u, "satuan")

-----------------------------------------------------------------------------
(* Discounts: no version; deleting one switches it off *)

DaftarDiskon == {b \in Baris : Ada(b)}
DiskonBerkode(k) == {b \in DaftarDiskon : tabel[b].kode = k}

IndexDiskon(u) == Lihat(u, "diskon", DaftarDiskon)
BaruDiskon(u) == Isi(u, "diskon")
EditDiskon(u, b) == Sunting(u, "diskon", b, 0)
PeriksaTambahDiskon(u, k) == FormBaru(u) /\ DiskonBerkode(k) = {} /\ Lolos(u, "diskon", k)
PeriksaUbahDiskon(u, k) ==
    /\ FormUbah(u) /\ layar[u].id \in DaftarDiskon /\ DiskonBerkode(k) \subseteq {layar[u].id}
    /\ Lolos(u, "diskon", k)
TambahDiskon(u) == Tambah(u, "diskon")
SimpanDiskon(u) == Simpan(u, "diskon", TRUE, FALSE)
ToggleDiskon(u, b) == BacaSaklar(u, "diskon", b)
AktifkanDiskon(u) == TulisSaklar(u, "diskon")
HapusDiskon(u, b) ==
    /\ jenis = "diskon" /\ layar[u].tahap = "daftar" /\ b \in layar[u].ada
    /\ Tulis(b, tabel[b])
    /\ KeDaftar(u)
    /\ UNCHANGED <<jenis, berkas, cacat>>

-----------------------------------------------------------------------------
(* Cash book: entries are made, shown and deleted *)

DaftarKas == {b \in Baris : Hidup(b)}
\* The highest number of the prefix plus one; any that no entry has here.
NextNomor(k) == KodeBebas(k, Baru)

IndexKas(u) == Lihat(u, "kas", DaftarKas)
BaruKas(u) == Isi(u, "kas")
PeriksaKas(u, k) == NextNomor(k) /\ Lolos(u, "kas", k)
TambahKas(u) == Tambah(u, "kas")
TampilKas(u, b) ==
    /\ layar[u].tahap = "daftar" /\ b \in layar[u].ada
    /\ Lihat(u, "kas", {b} \cap DaftarKas)
HapusKas(u, b) == Buang(u, "kas", b)

-----------------------------------------------------------------------------
(* Prices: the page lists the history of a product and takes the next price *)

IndexHarga(u) == Isi(u, "harga")
PeriksaHarga(u, k) == Lolos(u, "harga", k)
SetHarga(u) == Tambah(u, "harga")

-----------------------------------------------------------------------------
(* Portal links of a customer; a visitor is anybody who has one *)

CreateLink(u) ==
    /\ jenis = "tautan" /\ layar[u].tahap = "daftar"
    /\ \E b \in Baris : Sisip(b, TanpaKode)
    /\ UNCHANGED <<jenis, layar, berkas, cacat>>
ListLinks(u) == Lihat(u, "tautan", {b \in Baris : Ada(b)})
\* A link that is revoked already is revoked again.
RevokeLink(u, b) ==
    /\ jenis = "tautan" /\ layar[u].tahap = "daftar" /\ b \in layar[u].ada
    /\ Ubah(b, [tabel[b] EXCEPT !.hapus = TRUE])
    /\ UNCHANGED <<jenis, layar, tulis, berkas, cacat>>

\* GetByToken refuses a revoked link, and an expired one: any may have expired.
Tunjukkan(u, b, t) ==
    /\ jenis = "tautan" /\ Ada(b)
    /\ \/ Hidup(b) /\ Tampil(u, [tahap |-> t, id |-> b])
       \/ KeDaftar(u)
    /\ UNCHANGED <<jenis, tabel, tulis, berkas, cacat>>
ShowPortal(u, b) == layar[u].tahap \in {"daftar", "portal", "pdf"} /\ Tunjukkan(u, b, "portal")
\* An invoice of the page; cancelled ones are refused.
DownloadPDF(u) == layar[u].tahap = "portal" /\ Tunjukkan(u, layar[u].id, "pdf")

-----------------------------------------------------------------------------
InitKatalog ==
    /\ jenis \in Jenis
    /\ tabel = [b \in Baris |-> Tiada]
    /\ layar = [u \in Pemakai |-> [tahap |-> "daftar", ada |-> {}]]
    /\ tulis = 0 /\ berkas = {} /\ cacat = {}

Produk(u) ==
    \/ IndexProduk(u) \/ BaruProduk(u) \/ TambahProduk(u) \/ SimpanProduk(u)
    \/ HapusBerkas(u) \/ PasangFoto(u) \/ GagalFoto(u)
    \/ \E b \in Baris : EditProduk(u, b) \/ HapusProduk(u, b) \/ UnggahFoto(u, b) \/ BuangFoto(u, b)
    \/ \E k \in Kode : PeriksaTambahProduk(u, k) \/ PeriksaUbahProduk(u, k)

Mitra(u) ==
    \/ IndexMitra(u) \/ BaruMitra(u) \/ TambahMitra(u) \/ SimpanMitra(u)
    \/ \E b \in Baris : EditMitra(u, b) \/ HapusMitra(u, b)
    \/ \E k \in Kode : PeriksaMitra(u, k)

Supplier(u) ==
    \/ IndexSupplier(u) \/ BaruSupplier(u) \/ TambahSupplier(u) \/ SimpanSupplier(u)
    \/ \E b \in Baris : EditSupplier(u, b) \/ HapusSupplier(u, b)
    \/ \E k \in Kode : PeriksaSupplier(u, k)

Gudang(u) ==
    \/ IndexGudang(u) \/ BaruGudang(u) \/ TambahGudang(u) \/ SimpanGudang(u) \/ AktifkanGudang(u)
    \/ \E b \in Baris : EditGudang(u, b) \/ ToggleGudang(u, b)
    \/ \E k \in Kode : PeriksaTambahGudang(u, k) \/ PeriksaUbahGudang(u, k)

Satuan(u) ==
    BaruSatuan(u) \/ TambahSatuan(u) \/ \E k \in Kode : PeriksaSatuan(u, k)

Diskon(u) ==
    \/ IndexDiskon(u) \/ BaruDiskon(u) \/ TambahDiskon(u) \/ SimpanDiskon(u) \/ AktifkanDiskon(u)
    \/ \E b \in Baris : EditDiskon(u, b) \/ ToggleDiskon(u, b) \/ HapusDiskon(u, b)
    \/ \E k \in Kode : PeriksaTambahDiskon(u, k) \/ PeriksaUbahDiskon(u, k)

Kas(u) ==
    \/ IndexKas(u) \/ BaruKas(u) \/ TambahKas(u)
    \/ \E b \in Baris : TampilKas(u, b) \/ HapusKas(u, b)
    \/ \E k \in Kode : PeriksaKas(u, k)

Harga(u) ==
    IndexHarga(u) \/ SetHarga(u) \/ \E k \in KodeBoleh : PeriksaHarga(u, k)

Tautan(u) ==
    \/ CreateLink(u) \/ ListLinks(u) \/ DownloadPDF(u)
    \/ \E b \in Baris : RevokeLink(u, b) \/ ShowPortal(u, b)

NextKatalog ==
    \E u \in Pemakai :
        \/ Produk(u) \/ Mitra(u) \/ Supplier(u) \/ Gudang(u) \/ Satuan(u) \/ Diskon(u)
        \/ Kas(u) \/ Harga(u) \/ Tautan(u)

SpecKatalog == InitKatalog /\ [][NextKatalog]_varsKatalog

-----------------------------------------------------------------------------
(* Properties *)

TypeKatalog ==
    /\ jenis \in Jenis /\ tabel \in [Baris -> Rekam \cup {Tiada}]
    /\ layar \in [Pemakai -> Daftar \cup Form \cup Kirim \cup Saklar \cup Gambar \cup Tamu]
    /\ tulis \in Nat /\ berkas \subseteq Nat /\ cacat \subseteq Baris

\* An edit of a product or a customer replaces exactly the content its form
\* showed: a form that is out of date is refused, however long it was open and
\* whatever became of the row.
TanpaTimpa ==
    [][\A b \in Baris :
        jenis \in Berversi /\ Ada(b) /\ tabel'[b].isi # tabel[b].isi =>
            \E u \in Pemakai :
                layar[u].tahap = "kirim" /\ layar[u].id = b /\ layar[u].lihat = tabel[b].isi]_varsKatalog

\* A deleted row stays as it was deleted: no form, upload or list that was opened
\* before touches it any more.
HapusAkhir ==
    [][\A b \in Baris : Ada(b) /\ tabel[b].hapus => tabel'[b] = tabel[b]]_varsKatalog

\* The file a product's photo names is on disk, but for the requests that have
\* removed it and not stored their own yet, and for uploads that broke off there.
FotoAda ==
    \A b \in DaftarProduk :
        tabel[b].foto # 0 /\ tabel[b].foto \notin berkas =>
            \/ b \in cacat
            \/ \E u \in Pemakai :
                layar[u].tahap = "pasang" /\ layar[u].id = b /\ layar[u].lama = tabel[b].foto

-----------------------------------------------------------------------------
(* The invariant the proofs rest on *)

\* What a screen shows or a request carries is about rows that exist, and a form
\* has the version of its row only together with the content of its row.
Rujuk(u) ==
    LET t == layar[u] IN
    /\ t.tahap = "daftar" => \A b \in t.ada : Ada(b)
    /\ t.tahap \in {"saklar", "unggah", "pasang"} => Ada(t.id)
    /\ t.tahap \in {"form", "kirim"} /\ t.id # Baru =>
        /\ Ada(t.id)
        /\ jenis \in Berversi =>
            /\ t.versi > 0 /\ t.versi <= tabel[t.id].versi
            /\ t.versi = tabel[t.id].versi => t.lihat = tabel[t.id].isi

\* Warehouses and discounts have no deletion.
InvKatalog ==
    /\ TypeKatalog
    /\ jenis \in {"gudang", "diskon"} => \A b \in Baris : Ada(b) => ~tabel[b].hapus
    /\ \A u \in Pemakai : Rujuk(u)

\* A file belongs to one product, named by its row, by the request that is going
\* to store it there, or by those that are going to take it away.
Foto(b) == IF Ada(b) THEN tabel[b].foto ELSE 0
Menggambar(u) == layar[u].tahap \in {"unggah", "pasang"}
BerkasMilik(u) ==
    LET g == layar[u] IN
    /\ g.lama <= tulis /\ g.baru <= tulis
    /\ \A b \in Baris : g.lama # 0 /\ Foto(b) = g.lama => b = g.id
    /\ g.baru # 0 => g.baru \in berkas /\ \A b \in Baris : Foto(b) # g.baru
InvFoto ==
    /\ \A b \in Baris : Foto(b) <= tulis
    /\ \A b, c \in Baris : Foto(b) # 0 /\ Foto(b) = Foto(c) => b = c
    /\ \A u \in Pemakai : Menggambar(u) => BerkasMilik(u)
    /\ \A u, v \in Pemakai :
        Menggambar(u) /\ Menggambar(v) /\ layar[u].baru # 0 =>
            layar[u].baru # layar[v].lama /\ (u # v => layar[u].baru # layar[v].baru)
    /\ FotoAda

=============================================================================
