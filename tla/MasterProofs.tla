---------------------------- MODULE MasterProofs ----------------------------
(***************************************************************************)
(* Proofs about the parts an administrator works with, for any rows,       *)
(* users, requests, sheets and archives: no edit overwrites what its form  *)
(* did not show and a photo that is named is there (Katalog), one template *)
(* is the default and an upload counts the rows it stored (Pengaturan), a  *)
(* row of a sheet is stored once however often a run is repeated (Impor),  *)
(* restores never overlap (Cadangan).                                      *)
(***************************************************************************)
EXTENDS MCMaster, HitungProofs, TLAPS

-----------------------------------------------------------------------------
(* Katalog *)

Layar == Daftar \cup Form \cup Kirim \cup Saklar \cup Gambar \cup Tamu

\* A row is not the absence of one.
LEMMA RekamAda ==
  ASSUME NEW r \in Rekam
  PROVE  r # Tiada
<1>1. "kode" \in DOMAIN r
  BY DEF Rekam
<1>2. "kode" \notin DOMAIN Tiada
  BY DEF Tiada
<1> QED
  BY <1>1, <1>2

LEMMA AdaRekam ==
  ASSUME TypeKatalog, NEW b \in Baris
  PROVE  Ada(b) <=> tabel[b] \in Rekam
BY RekamAda DEF TypeKatalog, Ada

\* What a screen may look like, one clause per stage.
LEMMA BentukLayar ==
  ASSUME NEW t \in Layar
  PROVE  /\ t.tahap = "daftar" => t \in Daftar
         /\ t.tahap = "form" => t \in Form
         /\ t.tahap = "kirim" => t \in Kirim
         /\ t.tahap = "saklar" => t \in Saklar
         /\ t.tahap \in {"unggah", "pasang"} => t \in Gambar
         /\ t.tahap \in {"portal", "pdf"} => t \in Tamu
BY DEF Layar, Daftar, Form, Kirim, Saklar, Gambar, Tamu

-----------------------------------------------------------------------------
(* What a step does to the screens and to the table *)

\* A new screen for one user.
LEMMA LayarSatu ==
  ASSUME TypeKatalog, NEW u \in Pemakai, NEW s \in Layar, Tampil(u, s)
  PROVE  /\ layar' \in [Pemakai -> Layar]
         /\ layar'[u] = s
         /\ \A v \in Pemakai \ {u} : layar'[v] = layar[v]
BY DEF TypeKatalog, Layar, Tampil

\* The rows that exist go on existing, and a version grows with the content.
TabelMaju ==
    /\ jenis' = jenis
    /\ \A b \in Baris : Ada(b) =>
        /\ Ada(b)' /\ tabel'[b] \in Rekam
        /\ jenis \in Berversi =>
            /\ tabel'[b].versi >= tabel[b].versi
            /\ tabel'[b].isi # tabel[b].isi => tabel'[b].versi > tabel[b].versi

LEMMA TabelTetap ==
  ASSUME TypeKatalog, UNCHANGED <<jenis, tabel>>
  PROVE  TabelMaju
BY DEF TypeKatalog, TabelMaju, Ada, Rekam

\* An UPDATE.
LEMMA UbahMaju ==
  ASSUME TypeKatalog, UNCHANGED jenis, NEW b \in Baris, Ada(b),
         NEW r \in Rekam, r.versi = tabel[b].versi, Ubah(b, r)
  PROVE  /\ tabel' \in [Baris -> Rekam \cup {Tiada}]
         /\ \A c \in Baris \ {b} : tabel'[c] = tabel[c]
         /\ tabel'[b] \in Rekam
         /\ tabel'[b].kode = r.kode /\ tabel'[b].isi = r.isi
         /\ tabel'[b].hapus = r.hapus /\ tabel'[b].foto = r.foto
         /\ jenis \in Berversi => tabel'[b].versi = tabel[b].versi + 1
         /\ jenis \notin Berversi => tabel'[b] = r
<1> DEFINE s == IF jenis \in Berversi THEN [r EXCEPT !.versi = @ + 1] ELSE r
<1>1. s \in Rekam
  BY DEF Rekam
<1>2. tabel' = [tabel EXCEPT ![b] = s]
  BY DEF Ubah
<1>3. /\ s.kode = r.kode /\ s.isi = r.isi /\ s.hapus = r.hapus /\ s.foto = r.foto
      /\ jenis \in Berversi => s.versi = r.versi + 1
      /\ jenis \notin Berversi => s = r
  BY DEF Rekam
<1> HIDE DEF s
<1> QED
  BY <1>1, <1>2, <1>3 DEF TypeKatalog

LEMMA UbahMajuTabel ==
  ASSUME TypeKatalog, UNCHANGED jenis, NEW b \in Baris, Ada(b),
         NEW r \in Rekam, r.versi = tabel[b].versi, Ubah(b, r)
  PROVE  TabelMaju
<1>1. /\ \A c \in Baris \ {b} : tabel'[c] = tabel[c]
      /\ tabel'[b] \in Rekam
      /\ jenis \in Berversi => tabel'[b].versi = tabel[b].versi + 1
  BY UbahMaju
<1>2. \A c \in Baris : Ada(c) => tabel[c] \in Rekam /\ tabel[c].versi \in Int
  BY AdaRekam DEF Rekam
<1>3. Ada(b)'
  BY <1>1, RekamAda DEF Ada
<1> QED
  BY <1>1, <1>2, <1>3 DEF TabelMaju, Ada

\* An INSERT.
LEMMA SisipMaju ==
  ASSUME TypeKatalog, UNCHANGED jenis, NEW b \in Baris, NEW k \in KodeBoleh, Sisip(b, k)
  PROVE  /\ tabel' \in [Baris -> Rekam \cup {Tiada}]
         /\ ~Ada(b) /\ Ada(b)' /\ tulis' = tulis + 1
         /\ \A c \in Baris \ {b} : tabel'[c] = tabel[c]
         /\ tabel'[b].foto = 0 /\ ~tabel'[b].hapus
         /\ TabelMaju
<1> DEFINE r == [kode |-> k, isi |-> tulis + 1, versi |-> 1, hapus |-> FALSE, foto |-> 0]
<1>1. r \in Rekam
  BY DEF TypeKatalog, Rekam
<1>2. tabel' = [tabel EXCEPT ![b] = r]
  BY DEF Sisip
<1>3. r.foto = 0 /\ ~r.hapus
  OBVIOUS
<1> HIDE DEF r
<1>4. tabel'[b] = r /\ \A c \in Baris \ {b} : tabel'[c] = tabel[c]
  BY <1>2 DEF TypeKatalog
<1>5. ~Ada(b) /\ Ada(b)' /\ tulis' = tulis + 1
  BY <1>1, <1>4, RekamAda DEF Ada, Sisip
<1>6. tabel' \in [Baris -> Rekam \cup {Tiada}]
  BY <1>1, <1>2 DEF TypeKatalog
<1>7. \A c \in Baris : Ada(c) => tabel[c] \in Rekam /\ tabel[c].versi \in Int
  BY AdaRekam DEF Rekam
<1>8. TabelMaju
  BY <1>4, <1>5, <1>7 DEF TabelMaju, Ada
<1> QED
  BY <1>3, <1>4, <1>5, <1>6, <1>8

\* Who keeps the screen keeps what is true of it.
LEMMA RujukTetap ==
  ASSUME TypeKatalog, TabelMaju, NEW v \in Pemakai, layar'[v] = layar[v], Rujuk(v)
  PROVE  Rujuk(v)'
<1> DEFINE t == layar[v]
<1>1. t \in Layar
  BY DEF TypeKatalog, Layar
<1>2. t.tahap = "daftar" => t.ada \subseteq Baris /\ \A b \in t.ada : Ada(b)
  BY <1>1, BentukLayar DEF Daftar, Rujuk
<1>3. t.tahap \in {"saklar", "unggah", "pasang"} => t.id \in Baris /\ Ada(t.id)
  BY <1>1, BentukLayar DEF Saklar, Gambar, Rujuk
<1>4. t.tahap \in {"form", "kirim"} => t.id \in Baris \cup {Baru} /\ t.versi \in Int
  BY <1>1, BentukLayar DEF Form, Kirim
<1>5. \A b \in Baris : Ada(b) => Ada(b)'
  BY DEF TabelMaju
<1>6. \A b \in Baris : Ada(b) => tabel[b].versi \in Int
  BY AdaRekam DEF Rekam
<1>8. \A b \in Baris : Ada(b) => tabel'[b].versi \in Int
  BY DEF TabelMaju, Rekam
<1>7. ASSUME t.tahap \in {"form", "kirim"}, t.id # Baru, jenis \in Berversi
      PROVE  /\ t.versi > 0 /\ t.versi <= tabel'[t.id].versi
             /\ t.versi = tabel'[t.id].versi => t.lihat = tabel'[t.id].isi
  BY <1>4, <1>6, <1>7, <1>8 DEF TabelMaju, Rujuk
<1> QED
  BY <1>2, <1>3, <1>4, <1>5, <1>7 DEF Rujuk, TabelMaju

-----------------------------------------------------------------------------
(* The steps keep the invariant *)

\* What is left to show of a step: its new screen and its new rows.
LEMMA Gabung ==
  ASSUME InvKatalog, NEW u \in Pemakai, NEW s \in Layar, Tampil(u, s), TabelMaju,
         tabel' \in [Baris -> Rekam \cup {Tiada}],
         tulis' \in Nat, berkas' \subseteq Nat, cacat' \subseteq Baris,
         jenis \in {"gudang", "diskon"} => \A b \in Baris : Ada(b)' => ~tabel'[b].hapus,
         Rujuk(u)'
  PROVE  InvKatalog'
<1>1. /\ layar' \in [Pemakai -> Layar]
      /\ \A v \in Pemakai \ {u} : layar'[v] = layar[v]
  BY LayarSatu DEF InvKatalog
<1>2. \A v \in Pemakai : Rujuk(v)'
  BY <1>1, RujukTetap DEF InvKatalog
<1>3. TypeKatalog'
  BY <1>1 DEF InvKatalog, TypeKatalog, TabelMaju, Layar
<1> QED
  BY <1>2, <1>3 DEF InvKatalog, TabelMaju

\* A step that only changes a screen.
LEMMA LayarAman ==
  ASSUME InvKatalog, NEW u \in Pemakai, NEW s \in Layar, Tampil(u, s),
         UNCHANGED <<jenis, tabel>>, tulis' \in Nat, berkas' \subseteq Nat,
         cacat' \subseteq Baris, Rujuk(u)'
  PROVE  InvKatalog'
<1>1. TabelMaju
  BY TabelTetap DEF InvKatalog
<1>2. tabel' \in [Baris -> Rekam \cup {Tiada}]
  BY DEF InvKatalog, TypeKatalog
<1>3. jenis \in {"gudang", "diskon"} => \A b \in Baris : Ada(b)' => ~tabel'[b].hapus
  BY DEF InvKatalog, Ada
<1> QED
  BY <1>1, <1>2, <1>3, Gabung

\* A step that goes back to the list and writes one row.
LEMMA BarisAman ==
  ASSUME InvKatalog, NEW u \in Pemakai, KeDaftar(u), UNCHANGED <<jenis, berkas, cacat>>,
         tulis' \in Nat, NEW b \in Baris, Ada(b),
         NEW r \in Rekam, r.versi = tabel[b].versi, Ubah(b, r),
         jenis \in {"gudang", "diskon"} => ~r.hapus
  PROVE  InvKatalog'
<1> DEFINE s == [tahap |-> "daftar", ada |-> {}]
<1>1. s \in Layar /\ Tampil(u, s)
  BY DEF Layar, Daftar, KeDaftar
<1>2. layar'[u] = s
  BY <1>1, LayarSatu DEF InvKatalog
<1>3. Rujuk(u)'
  BY <1>2 DEF Rujuk
<1>4. /\ tabel' \in [Baris -> Rekam \cup {Tiada}]
      /\ \A c \in Baris \ {b} : tabel'[c] = tabel[c]
      /\ tabel'[b].hapus = r.hapus
      /\ TabelMaju
  BY UbahMaju, UbahMajuTabel DEF InvKatalog
<1>5. jenis \in {"gudang", "diskon"} => \A c \in Baris : Ada(c)' => ~tabel'[c].hapus
  BY <1>4 DEF InvKatalog, Ada
<1>6. berkas' \subseteq Nat /\ cacat' \subseteq Baris
  BY DEF InvKatalog, TypeKatalog
<1> HIDE DEF s
<1> QED
  BY <1>1, <1>3, <1>4, <1>5, <1>6, Gabung

LEMMA KeDaftarAman ==
  ASSUME InvKatalog, NEW u \in Pemakai, KeDaftar(u),
         UNCHANGED <<jenis, tabel, tulis>>, berkas' \subseteq Nat, cacat' \subseteq Baris
  PROVE  InvKatalog'
<1> DEFINE s == [tahap |-> "daftar", ada |-> {}]
<1>1. s \in Layar /\ Tampil(u, s)
  BY DEF Layar, Daftar, KeDaftar
<1>2. layar'[u] = s
  BY <1>1, LayarSatu DEF InvKatalog
<1>3. Rujuk(u)'
  BY <1>2 DEF Rujuk
<1>4. tulis' \in Nat
  BY DEF InvKatalog, TypeKatalog
<1> HIDE DEF s
<1> QED
  BY <1>1, <1>3, <1>4, LayarAman

LEMMA LihatAman ==
  ASSUME InvKatalog, NEW u \in Pemakai, NEW j, NEW S \in SUBSET Baris,
         \A b \in S : Ada(b), Lihat(u, j, S)
  PROVE  InvKatalog'
<1> DEFINE s == [tahap |-> "daftar", ada |-> S]
<1>1. s \in Layar /\ Tampil(u, s)
  BY DEF Layar, Daftar, Lihat
<1>2. layar'[u] = s
  BY <1>1, LayarSatu DEF InvKatalog
<1>3. Rujuk(u)'
  BY <1>2 DEF Rujuk, Lihat, Ada
<1>4. UNCHANGED <<jenis, tabel>> /\ tulis' \in Nat /\ berkas' \subseteq Nat /\ cacat' \subseteq Baris
  BY DEF InvKatalog, TypeKatalog, Lihat
<1> HIDE DEF s
<1> QED
  BY <1>1, <1>3, <1>4, LayarAman

LEMMA IsiAman ==
  ASSUME InvKatalog, NEW u \in Pemakai, NEW j, Isi(u, j)
  PROVE  InvKatalog'
<1> DEFINE s == [tahap |-> "form", id |-> Baru, versi |-> 0, lihat |-> 0]
<1>1. s \in Layar /\ Tampil(u, s)
  BY DEF Layar, Form, Isi
<1>2. layar'[u] = s
  BY <1>1, LayarSatu DEF InvKatalog
<1>3. Rujuk(u)'
  BY <1>2 DEF Rujuk
<1>4. UNCHANGED <<jenis, tabel>> /\ tulis' \in Nat /\ berkas' \subseteq Nat /\ cacat' \subseteq Baris
  BY DEF InvKatalog, TypeKatalog, Isi
<1> HIDE DEF s
<1> QED
  BY <1>1, <1>3, <1>4, LayarAman

LEMMA SuntingAman ==
  ASSUME InvKatalog, NEW u \in Pemakai, NEW j, NEW b \in Baris, NEW v, Sunting(u, j, b, v),
         Hidup(b) => v \in Nat /\ (jenis \in Berversi => v = tabel[b].versi)
  PROVE  InvKatalog'
<1>1. CASE Hidup(b)
  <2> DEFINE s == [tahap |-> "form", id |-> b, versi |-> v, lihat |-> tabel[b].isi]
  <2>1. tabel[b] \in Rekam /\ Ada(b)
    BY <1>1, AdaRekam DEF InvKatalog, Hidup
  <2>2. tabel[b].isi \in Nat /\ tabel[b].versi \in Nat \ {0}
    BY <2>1 DEF Rekam
  <2>3. s \in Layar /\ Tampil(u, s)
    BY <1>1, <2>2 DEF Layar, Form, Sunting
  <2>4. layar'[u] = s
    BY <2>3, LayarSatu DEF InvKatalog
  <2>5. tabel' = tabel /\ jenis' = jenis
    BY DEF Sunting
  <2>6. Rujuk(u)'
    BY <1>1, <2>1, <2>2, <2>4, <2>5 DEF Rujuk, Ada
  <2>7. UNCHANGED <<jenis, tabel>> /\ tulis' \in Nat /\ berkas' \subseteq Nat /\ cacat' \subseteq Baris
    BY DEF InvKatalog, TypeKatalog, Sunting
  <2> HIDE DEF s
  <2> QED
    BY <2>3, <2>6, <2>7, LayarAman
<1>2. CASE ~Hidup(b)
  <2>1. KeDaftar(u) /\ UNCHANGED <<jenis, tabel, tulis>> /\ berkas' \subseteq Nat /\ cacat' \subseteq Baris
    BY <1>2 DEF InvKatalog, TypeKatalog, Sunting
  <2> QED
    BY <2>1, KeDaftarAman
<1> QED
  BY <1>1, <1>2

LEMMA LolosAman ==
  ASSUME InvKatalog, NEW u \in Pemakai, NEW j, NEW k \in KodeBoleh, Lolos(u, j, k)
  PROVE  InvKatalog'
<1> DEFINE s == [tahap |-> "kirim", id |-> layar[u].id, versi |-> layar[u].versi,
                 lihat |-> layar[u].lihat, kode |-> k]
<1>1. layar[u] \in Form
  BY BentukLayar DEF InvKatalog, TypeKatalog, Layar, Lolos
<1>2. /\ layar[u].id \in Baris \cup {Baru} /\ layar[u].versi \in Nat /\ layar[u].lihat \in Nat
  BY <1>1 DEF Form
<1>3. s \in Layar /\ Tampil(u, s)
  BY <1>2 DEF Layar, Kirim, Lolos
<1>4. layar'[u] = s
  BY <1>3, LayarSatu DEF InvKatalog
<1>5. layar[u].tahap = "form" /\ Rujuk(u)
  BY DEF Lolos, InvKatalog
<1>6. tabel' = tabel /\ jenis' = jenis
  BY DEF Lolos
<1>7. /\ s.tahap = "kirim" /\ s.id = layar[u].id /\ s.versi = layar[u].versi
      /\ s.lihat = layar[u].lihat
  OBVIOUS
<1>8. UNCHANGED <<jenis, tabel>> /\ tulis' \in Nat /\ berkas' \subseteq Nat /\ cacat' \subseteq Baris
  BY DEF InvKatalog, TypeKatalog, Lolos
<1> HIDE DEF s
<1>9. Rujuk(u)'
  BY <1>4, <1>5, <1>6, <1>7 DEF Rujuk, Ada
<1> QED
  BY <1>3, <1>8, <1>9, LayarAman

\* A refused form is the form it came from.
LEMMA KeFormAman ==
  ASSUME InvKatalog, NEW u \in Pemakai, layar[u].tahap = "kirim", KeForm(u),
         UNCHANGED <<jenis, tabel, tulis, berkas, cacat>>
  PROVE  InvKatalog'
<1> DEFINE s == [tahap |-> "form", id |-> layar[u].id, versi |-> layar[u].versi,
                 lihat |-> layar[u].lihat]
<1>1. layar[u] \in Kirim
  BY BentukLayar DEF InvKatalog, TypeKatalog, Layar
<1>2. /\ layar[u].id \in Baris \cup {Baru} /\ layar[u].versi \in Nat /\ layar[u].lihat \in Nat
  BY <1>1 DEF Kirim
<1>3. s \in Layar /\ Tampil(u, s)
  BY <1>2 DEF Layar, Form, KeForm
<1>4. layar'[u] = s
  BY <1>3, LayarSatu DEF InvKatalog
<1>5. Rujuk(u)
  BY DEF InvKatalog
<1>6. tabel' = tabel /\ jenis' = jenis
  OBVIOUS
<1>7. /\ s.tahap = "form" /\ s.id = layar[u].id /\ s.versi = layar[u].versi
      /\ s.lihat = layar[u].lihat
  OBVIOUS
<1>8. UNCHANGED <<jenis, tabel>> /\ tulis' \in Nat /\ berkas' \subseteq Nat /\ cacat' \subseteq Baris
  BY DEF InvKatalog, TypeKatalog
<1> HIDE DEF s
<1>9. Rujuk(u)'
  BY <1>4, <1>5, <1>6, <1>7 DEF Rujuk, Ada
<1> QED
  BY <1>3, <1>8, <1>9, LayarAman

-----------------------------------------------------------------------------
(* What a step does to the rows there are *)

\* A deleted row is left alone, and new content of a product or a customer comes
\* from a form that showed the old.
BarisMaju ==
    \A b \in Baris : Ada(b) =>
        /\ tabel[b].hapus => tabel'[b] = tabel[b]
        /\ jenis \in Berversi /\ tabel'[b].isi # tabel[b].isi =>
            \E u \in Pemakai :
                layar[u].tahap = "kirim" /\ layar[u].id = b /\ layar[u].lihat = tabel[b].isi

LEMMA BarisTetap ==
  ASSUME UNCHANGED tabel
  PROVE  BarisMaju
BY DEF BarisMaju

LEMMA TambahAman ==
  ASSUME InvKatalog, NEW u \in Pemakai, NEW j, Tambah(u, j)
  PROVE  InvKatalog' /\ BarisMaju
<1>1. CASE KodeBebas(layar[u].kode, Baru)
  <2>1. PICK b \in Baris : Sisip(b, layar[u].kode)
    BY <1>1 DEF Tambah
  <2>2. layar[u] \in Kirim
    BY BentukLayar DEF InvKatalog, TypeKatalog, Layar, Tambah
  <2>3. layar[u].kode \in KodeBoleh
    BY <2>2 DEF Kirim
  <2>4. UNCHANGED <<jenis, berkas, cacat>> /\ KeDaftar(u)
    BY <1>1 DEF Tambah
  <2>5. /\ tabel' \in [Baris -> Rekam \cup {Tiada}]
        /\ ~Ada(b) /\ Ada(b)' /\ tulis' = tulis + 1
        /\ \A c \in Baris \ {b} : tabel'[c] = tabel[c]
        /\ ~tabel'[b].hapus
        /\ TabelMaju
    BY <2>1, <2>3, <2>4, SisipMaju DEF InvKatalog
  <2> DEFINE s == [tahap |-> "daftar", ada |-> {}]
  <2>6. s \in Layar /\ Tampil(u, s)
    BY <2>4 DEF Layar, Daftar, KeDaftar
  <2>7. layar'[u] = s
    BY <2>6, LayarSatu DEF InvKatalog
  <2>8. Rujuk(u)'
    BY <2>7 DEF Rujuk
  <2>9. jenis \in {"gudang", "diskon"} => \A c \in Baris : Ada(c)' => ~tabel'[c].hapus
    BY <2>5 DEF InvKatalog, Ada
  <2>10. tulis' \in Nat /\ berkas' \subseteq Nat /\ cacat' \subseteq Baris
    BY <2>4, <2>5 DEF InvKatalog, TypeKatalog
  <2>11. BarisMaju
    BY <2>5 DEF BarisMaju, Ada
  <2> HIDE DEF s
  <2> QED
    BY <2>5, <2>6, <2>8, <2>9, <2>10, <2>11, Gabung
<1>2. CASE ~KodeBebas(layar[u].kode, Baru)
  <2>1. /\ layar[u].tahap = "kirim" /\ KeForm(u)
        /\ UNCHANGED <<jenis, tabel, tulis, berkas, cacat>>
    BY <1>2 DEF Tambah
  <2> QED
    BY <2>1, KeFormAman, BarisTetap
<1> QED
  BY <1>1, <1>2

\* What an UPDATE with a form amounts to, whatever the kind.
Disimpan(u) ==
    LET f == layar[u] IN
    /\ f.tahap = "kirim" /\ f.id # Baru
    /\ UNCHANGED <<jenis, berkas, cacat>>
    /\ \/ /\ Hidup(f.id) /\ (jenis \in Berversi => tabel[f.id].versi = f.versi)
          /\ Tulis(f.id, [tabel[f.id] EXCEPT !.kode = f.kode])
          /\ KeDaftar(u)
       \/ (KeDaftar(u) \/ KeForm(u)) /\ UNCHANGED <<tabel, tulis>>

\* Every UPDATE with a form is one of these.
LEMMA SimpanDisimpan ==
  ASSUME InvKatalog, NEW u \in Pemakai,
         \/ SimpanProduk(u) \/ SimpanMitra(u) \/ SimpanSupplier(u)
         \/ SimpanGudang(u) \/ SimpanDiskon(u)
  PROVE  Disimpan(u)
<1>1. layar[u].tahap = "kirim" /\ layar[u].id # Baru
  BY DEF SimpanProduk, SimpanMitra, SimpanSupplier, SimpanGudang, SimpanDiskon, Simpan
<1>2. layar[u] \in Kirim
  BY <1>1, BentukLayar DEF InvKatalog, TypeKatalog, Layar
<1>3. layar[u].id \in Baris /\ Ada(layar[u].id) /\ (jenis \in Berversi => layar[u].versi > 0)
  BY <1>1, <1>2 DEF Kirim, InvKatalog, Rujuk
<1>4. CASE SimpanProduk(u)
  BY <1>1, <1>3, <1>4 DEF Disimpan, SimpanProduk, Simpan, CocokProduk, Berversi
<1>5. CASE SimpanMitra(u)
  BY <1>1, <1>3, <1>5 DEF Disimpan, SimpanMitra, Simpan, CocokMitra, Berversi
<1>6. CASE SimpanSupplier(u)
  BY <1>1, <1>6 DEF Disimpan, SimpanSupplier, Simpan, CocokSupplier, Berversi
<1>7. CASE SimpanGudang(u) \/ SimpanDiskon(u)
  <2>1. jenis \in {"gudang", "diskon"}
    BY <1>7 DEF SimpanGudang, SimpanDiskon, Simpan
  <2>2. Hidup(layar[u].id)
    BY <1>3, <2>1 DEF InvKatalog, Hidup
  <2> QED
    BY <1>1, <1>7, <2>1, <2>2 DEF Disimpan, SimpanGudang, SimpanDiskon, Simpan, Berversi
<1> QED
  BY <1>4, <1>5, <1>6, <1>7

\* New content for a row that is not deleted.
LEMMA TulisAman ==
  ASSUME InvKatalog, NEW u \in Pemakai, KeDaftar(u), UNCHANGED <<jenis, berkas, cacat>>,
         NEW b \in Baris, Hidup(b), NEW k \in KodeBoleh,
         Tulis(b, [tabel[b] EXCEPT !.kode = k])
  PROVE  /\ InvKatalog'
         /\ \A c \in Baris \ {b} : tabel'[c] = tabel[c]
<1> DEFINE r == [[tabel[b] EXCEPT !.kode = k] EXCEPT !.isi = tulis + 1]
<1>1. tabel[b] \in Rekam /\ Ada(b) /\ ~tabel[b].hapus
  BY AdaRekam DEF InvKatalog, Hidup
<1>2. tulis \in Nat /\ tulis' = tulis + 1 /\ Ubah(b, r)
  BY DEF InvKatalog, TypeKatalog, Tulis
<1>3. r \in Rekam /\ r.versi = tabel[b].versi /\ r.hapus = tabel[b].hapus
  <2> DEFINE q == tabel[b]
  <2>1. q \in Rekam /\ tulis + 1 \in Nat
    BY <1>1, <1>2
  <2> HIDE DEF q
  <2>2. /\ [[q EXCEPT !.kode = k] EXCEPT !.isi = tulis + 1] \in Rekam
        /\ [[q EXCEPT !.kode = k] EXCEPT !.isi = tulis + 1].versi = q.versi
        /\ [[q EXCEPT !.kode = k] EXCEPT !.isi = tulis + 1].hapus = q.hapus
    BY <2>1 DEF Rekam
  <2> QED
    BY <2>2 DEF q
<1>4. tulis' \in Nat
  BY <1>2
<1> HIDE DEF r
<1>5. InvKatalog'
  BY <1>1, <1>2, <1>3, <1>4, BarisAman
<1>6. \A c \in Baris \ {b} : tabel'[c] = tabel[c]
  BY <1>1, <1>2, <1>3, UbahMaju DEF InvKatalog
<1> QED
  BY <1>5, <1>6

LEMMA SimpanAman ==
  ASSUME InvKatalog, NEW u \in Pemakai, Disimpan(u)
  PROVE  InvKatalog' /\ BarisMaju
<1> DEFINE f == layar[u]
<1>1. f \in Kirim /\ f.tahap = "kirim" /\ f.id # Baru
  BY BentukLayar DEF InvKatalog, TypeKatalog, Layar, Disimpan
<1>2. f.id \in Baris /\ f.kode \in KodeBoleh /\ f.versi \in Nat
  BY <1>1 DEF Kirim
<1>3. CASE /\ Hidup(f.id) /\ (jenis \in Berversi => tabel[f.id].versi = f.versi)
           /\ Tulis(f.id, [tabel[f.id] EXCEPT !.kode = f.kode])
           /\ KeDaftar(u)
  <2>1. UNCHANGED <<jenis, berkas, cacat>>
    BY DEF Disimpan
  <2>2. InvKatalog' /\ \A c \in Baris \ {f.id} : tabel'[c] = tabel[c]
    BY <1>2, <1>3, <2>1, TulisAman
  <2>3. jenis \in Berversi => f.lihat = tabel[f.id].isi
    BY <1>1, <1>3 DEF InvKatalog, Rujuk
  <2>4. ~tabel[f.id].hapus
    BY <1>3 DEF Hidup
  <2>5. BarisMaju
    BY <1>1, <2>2, <2>3, <2>4 DEF BarisMaju
  <2> QED
    BY <2>2, <2>5
<1>4. CASE KeDaftar(u) /\ UNCHANGED <<tabel, tulis>>
  <2>1. /\ UNCHANGED <<jenis, tabel, tulis>>
        /\ berkas' \subseteq Nat /\ cacat' \subseteq Baris
    BY <1>4 DEF Disimpan, InvKatalog, TypeKatalog
  <2> QED
    BY <1>4, <2>1, KeDaftarAman, BarisTetap
<1>5. CASE KeForm(u) /\ UNCHANGED <<tabel, tulis>>
  <2>1. UNCHANGED <<jenis, tabel, tulis, berkas, cacat>>
    BY <1>5 DEF Disimpan
  <2> QED
    BY <1>1, <1>5, <2>1, KeFormAman, BarisTetap
<1> QED
  BY <1>3, <1>4, <1>5 DEF Disimpan

\* A list shows rows.
LEMMA DiDaftar ==
  ASSUME InvKatalog, NEW u \in Pemakai, layar[u].tahap = "daftar", NEW b \in layar[u].ada
  PROVE  b \in Baris /\ Ada(b)
<1>1. layar[u] \in Daftar
  BY BentukLayar DEF InvKatalog, TypeKatalog, Layar
<1> QED
  BY <1>1 DEF Daftar, InvKatalog, Rujuk

LEMMA BuangAman ==
  ASSUME InvKatalog, NEW u \in Pemakai, NEW j, j \notin {"gudang", "diskon"},
         NEW b \in Baris, Buang(u, j, b)
  PROVE  InvKatalog' /\ BarisMaju
<1>1. CASE Hidup(b)
  <2> DEFINE r == [tabel[b] EXCEPT !.hapus = TRUE]
  <2>1. tabel[b] \in Rekam /\ Ada(b) /\ ~tabel[b].hapus
    BY <1>1, AdaRekam DEF InvKatalog, Hidup
  <2>2. r \in Rekam /\ r.versi = tabel[b].versi /\ r.isi = tabel[b].isi
    BY <2>1 DEF Rekam
  <2>3. /\ Ubah(b, r) /\ KeDaftar(u) /\ UNCHANGED <<jenis, tulis, berkas, cacat>>
        /\ jenis \notin {"gudang", "diskon"}
    BY <1>1 DEF Buang
  <2>4. tulis' \in Nat
    BY <2>3 DEF InvKatalog, TypeKatalog
  <2> HIDE DEF r
  <2>5. InvKatalog'
    BY <2>1, <2>2, <2>3, <2>4, BarisAman
  <2>6. (\A c \in Baris \ {b} : tabel'[c] = tabel[c]) /\ tabel'[b].isi = r.isi
    BY <2>1, <2>2, <2>3, UbahMaju DEF InvKatalog
  <2>7. BarisMaju
    BY <2>1, <2>2, <2>6 DEF BarisMaju
  <2> QED
    BY <2>5, <2>7
<1>2. CASE ~Hidup(b)
  <2>1. /\ KeDaftar(u) /\ UNCHANGED <<jenis, tabel, tulis>>
        /\ berkas' \subseteq Nat /\ cacat' \subseteq Baris
    BY <1>2 DEF Buang, InvKatalog, TypeKatalog
  <2> QED
    BY <2>1, KeDaftarAman, BarisTetap
<1> QED
  BY <1>1, <1>2

LEMMA BacaSaklarAman ==
  ASSUME InvKatalog, NEW u \in Pemakai, NEW j, NEW b \in Baris, BacaSaklar(u, j, b)
  PROVE  InvKatalog' /\ BarisMaju
<1> DEFINE s == [tahap |-> "saklar", id |-> b]
<1>1. s \in Layar /\ Tampil(u, s)
  BY DEF Layar, Saklar, BacaSaklar
<1>2. layar'[u] = s
  BY <1>1, LayarSatu DEF InvKatalog
<1>3. /\ UNCHANGED <<jenis, tabel>> /\ tulis' \in Nat /\ berkas' \subseteq Nat
      /\ cacat' \subseteq Baris
  BY DEF InvKatalog, TypeKatalog, BacaSaklar
<1>4. Ada(b)
  BY DiDaftar DEF BacaSaklar
<1>5. Rujuk(u)'
  BY <1>2, <1>3, <1>4 DEF Rujuk, Ada
<1> HIDE DEF s
<1> QED
  BY <1>1, <1>3, <1>5, LayarAman, BarisTetap

\* A write of a kind that has no deletion and no version.
LEMMA TulisGudangAman ==
  ASSUME InvKatalog, NEW u \in Pemakai, KeDaftar(u), UNCHANGED <<jenis, berkas, cacat>>,
         jenis \in {"gudang", "diskon"},
         NEW b \in Baris, Ada(b), Tulis(b, tabel[b])
  PROVE  InvKatalog' /\ BarisMaju
<1> DEFINE r == [tabel[b] EXCEPT !.isi = tulis + 1]
<1>1. tabel[b] \in Rekam /\ ~tabel[b].hapus
  BY AdaRekam DEF InvKatalog
<1>2. tulis \in Nat /\ tulis' = tulis + 1 /\ Ubah(b, r)
  BY DEF InvKatalog, TypeKatalog, Tulis
<1>3. r \in Rekam /\ r.versi = tabel[b].versi /\ r.hapus = tabel[b].hapus
  BY <1>1, <1>2 DEF Rekam
<1>4. tulis' \in Nat
  BY <1>2
<1> HIDE DEF r
<1>5. InvKatalog'
  BY <1>1, <1>2, <1>3, <1>4, BarisAman
<1>6. \A c \in Baris \ {b} : tabel'[c] = tabel[c]
  BY <1>1, <1>2, <1>3, UbahMaju DEF InvKatalog
<1>7. BarisMaju
  BY <1>1, <1>6 DEF BarisMaju, Berversi
<1> QED
  BY <1>5, <1>7

LEMMA TulisSaklarAman ==
  ASSUME InvKatalog, NEW u \in Pemakai, NEW j \in {"gudang", "diskon"}, TulisSaklar(u, j)
  PROVE  InvKatalog' /\ BarisMaju
<1>1. layar[u] \in Saklar
  BY BentukLayar DEF InvKatalog, TypeKatalog, Layar, TulisSaklar
<1>2. layar[u].id \in Baris /\ Ada(layar[u].id)
  BY <1>1 DEF Saklar, InvKatalog, Rujuk, TulisSaklar
<1>3. /\ KeDaftar(u) /\ UNCHANGED <<jenis, berkas, cacat>> /\ jenis \in {"gudang", "diskon"}
      /\ Tulis(layar[u].id, tabel[layar[u].id])
  BY DEF TulisSaklar
<1> QED
  BY <1>2, <1>3, TulisGudangAman

LEMMA HapusDiskonAman ==
  ASSUME InvKatalog, NEW u \in Pemakai, NEW b \in Baris, HapusDiskon(u, b)
  PROVE  InvKatalog' /\ BarisMaju
<1>1. Ada(b)
  BY DiDaftar DEF HapusDiskon
<1>2. /\ KeDaftar(u) /\ UNCHANGED <<jenis, berkas, cacat>> /\ jenis \in {"gudang", "diskon"}
      /\ Tulis(b, tabel[b])
  BY DEF HapusDiskon
<1> QED
  BY <1>1, <1>2, TulisGudangAman

-----------------------------------------------------------------------------
(* Photos *)

\* The row is read, and the request carries what was read.
LEMMA MulaiFotoAman ==
  ASSUME InvKatalog, NEW u \in Pemakai, NEW b \in Baris, NEW f \in Nat, MulaiFoto(u, b, f),
         tulis' \in Nat, berkas' \subseteq Nat
  PROVE  InvKatalog' /\ BarisMaju
<1> DEFINE s == [tahap |-> "unggah", id |-> b, lama |-> tabel[b].foto, baru |-> f]
<1>1. Ada(b) /\ tabel[b] \in Rekam
  BY AdaRekam DEF InvKatalog, Hidup, MulaiFoto
<1>2. tabel[b].foto \in Nat
  BY <1>1 DEF Rekam
<1>3. s \in Layar /\ Tampil(u, s)
  BY <1>2 DEF Layar, Gambar, MulaiFoto
<1>4. layar'[u] = s
  BY <1>3, LayarSatu DEF InvKatalog
<1>5. UNCHANGED <<jenis, tabel>> /\ cacat' \subseteq Baris
  BY DEF InvKatalog, TypeKatalog, MulaiFoto
<1>6. Rujuk(u)'
  BY <1>1, <1>4, <1>5 DEF Rujuk, Ada
<1> HIDE DEF s
<1> QED
  BY <1>3, <1>5, <1>6, LayarAman, BarisTetap

LEMMA UnggahFotoAman ==
  ASSUME InvKatalog, NEW u \in Pemakai, NEW b \in Baris, UnggahFoto(u, b) \/ BuangFoto(u, b)
  PROVE  InvKatalog' /\ BarisMaju
<1>1. tulis \in Nat /\ berkas \subseteq Nat
  BY DEF InvKatalog, TypeKatalog
<1>2. CASE UnggahFoto(u, b)
  <2>1. MulaiFoto(u, b, tulis + 1) /\ tulis' = tulis + 1 /\ berkas' = berkas \cup {tulis + 1}
    BY <1>2 DEF UnggahFoto
  <2>2. tulis + 1 \in Nat /\ tulis' \in Nat /\ berkas' \subseteq Nat
    BY <1>1, <2>1
  <2> QED
    BY <2>1, <2>2, MulaiFotoAman
<1>3. CASE BuangFoto(u, b)
  <2>1. MulaiFoto(u, b, 0) /\ tulis' = tulis + 1 /\ berkas' = berkas
    BY <1>3 DEF BuangFoto
  <2>2. tulis' \in Nat /\ berkas' \subseteq Nat
    BY <1>1, <2>1
  <2> QED
    BY <2>1, <2>2, MulaiFotoAman
<1> QED
  BY <1>2, <1>3

LEMMA HapusBerkasAman ==
  ASSUME InvKatalog, NEW u \in Pemakai, HapusBerkas(u)
  PROVE  InvKatalog' /\ BarisMaju
<1> DEFINE s == [layar[u] EXCEPT !.tahap = "pasang"]
<1>1. layar[u] \in Gambar
  BY BentukLayar DEF InvKatalog, TypeKatalog, Layar, HapusBerkas
<1>2. s \in Gambar /\ s.tahap = "pasang" /\ s.id = layar[u].id
  BY <1>1 DEF Gambar
<1>3. Tampil(u, s)
  BY DEF HapusBerkas
<1> HIDE DEF s
<1>4. s \in Layar
  BY <1>2 DEF Layar
<1>5. layar'[u] = s
  BY <1>3, <1>4, LayarSatu DEF InvKatalog
<1>6. /\ UNCHANGED <<jenis, tabel>> /\ tulis' \in Nat /\ berkas' \subseteq Nat
      /\ cacat' \subseteq Baris
  BY DEF InvKatalog, TypeKatalog, HapusBerkas
<1>7. Ada(layar[u].id)
  BY DEF HapusBerkas, InvKatalog, Rujuk
<1>8. Rujuk(u)'
  BY <1>2, <1>5, <1>6, <1>7 DEF Rujuk, Ada
<1> QED
  BY <1>3, <1>4, <1>6, <1>8, LayarAman, BarisTetap

LEMMA PasangFotoAman ==
  ASSUME InvKatalog, NEW u \in Pemakai, PasangFoto(u)
  PROVE  InvKatalog' /\ BarisMaju
<1> DEFINE b == layar[u].id
<1>1. layar[u] \in Gambar
  BY BentukLayar DEF InvKatalog, TypeKatalog, Layar, PasangFoto
<1>2. b \in Baris /\ layar[u].baru \in Nat
  BY <1>1 DEF Gambar
<1>3. KeDaftar(u) /\ UNCHANGED <<jenis, tulis, cacat>> /\ tulis' \in Nat
  BY DEF PasangFoto, InvKatalog, TypeKatalog
<1>4. CASE Hidup(b)
  <2> DEFINE r == [tabel[b] EXCEPT !.foto = layar[u].baru]
  <2>1. tabel[b] \in Rekam /\ Ada(b) /\ ~tabel[b].hapus
    BY <1>2, <1>4, AdaRekam DEF InvKatalog, Hidup
  <2>2. /\ r \in Rekam /\ r.versi = tabel[b].versi /\ r.isi = tabel[b].isi
        /\ r.hapus = tabel[b].hapus
    BY <1>2, <2>1 DEF Rekam
  <2>3. Ubah(b, r) /\ UNCHANGED berkas
    BY <1>4 DEF PasangFoto
  <2> HIDE DEF r
  <2>4. InvKatalog'
    BY <1>2, <1>3, <2>1, <2>2, <2>3, BarisAman
  <2>5. (\A c \in Baris \ {b} : tabel'[c] = tabel[c]) /\ tabel'[b].isi = r.isi
    BY <1>2, <1>3, <2>1, <2>2, <2>3, UbahMaju DEF InvKatalog
  <2>6. BarisMaju
    BY <2>1, <2>2, <2>5 DEF BarisMaju
  <2> QED
    BY <2>4, <2>6
<1>5. CASE ~Hidup(b)
  <2>1. UNCHANGED <<jenis, tabel, tulis>> /\ berkas' \subseteq Nat /\ cacat' \subseteq Baris
    BY <1>5 DEF PasangFoto, InvKatalog, TypeKatalog
  <2> QED
    BY <1>3, <2>1, KeDaftarAman, BarisTetap
<1> QED
  BY <1>4, <1>5

LEMMA GagalFotoAman ==
  ASSUME InvKatalog, NEW u \in Pemakai, GagalFoto(u)
  PROVE  InvKatalog' /\ BarisMaju
<1>1. layar[u] \in Gambar
  BY BentukLayar DEF InvKatalog, TypeKatalog, Layar, GagalFoto
<1>2. layar[u].id \in Baris
  BY <1>1 DEF Gambar
<1>3. /\ KeDaftar(u) /\ UNCHANGED <<jenis, tabel, tulis>>
      /\ berkas' \subseteq Nat /\ cacat' \subseteq Baris
  BY <1>2 DEF GagalFoto, InvKatalog, TypeKatalog
<1> QED
  BY <1>3, KeDaftarAman, BarisTetap

-----------------------------------------------------------------------------
(* Portal links *)

LEMMA CreateLinkAman ==
  ASSUME InvKatalog, NEW u \in Pemakai, CreateLink(u)
  PROVE  InvKatalog' /\ BarisMaju
<1>1. PICK b \in Baris : Sisip(b, TanpaKode)
  BY DEF CreateLink
<1>2. UNCHANGED <<jenis, layar, berkas, cacat>> /\ jenis = "tautan"
  BY DEF CreateLink
<1>3. /\ tabel' \in [Baris -> Rekam \cup {Tiada}]
      /\ ~Ada(b) /\ tulis' = tulis + 1
      /\ \A c \in Baris \ {b} : tabel'[c] = tabel[c]
      /\ TabelMaju
  BY <1>1, <1>2, SisipMaju DEF InvKatalog, KodeBoleh
<1>4. \A v \in Pemakai : Rujuk(v)'
  BY <1>2, <1>3, RujukTetap DEF InvKatalog
<1>5. TypeKatalog'
  BY <1>2, <1>3 DEF InvKatalog, TypeKatalog
<1>6. BarisMaju
  BY <1>3 DEF BarisMaju, Ada
<1> QED
  BY <1>2, <1>4, <1>5, <1>6 DEF InvKatalog

LEMMA RevokeLinkAman ==
  ASSUME InvKatalog, NEW u \in Pemakai, NEW b \in Baris, RevokeLink(u, b)
  PROVE  InvKatalog' /\ BarisMaju
<1> DEFINE r == [tabel[b] EXCEPT !.hapus = TRUE]
<1>1. Ada(b)
  BY DiDaftar DEF RevokeLink
<1>2. tabel[b] \in Rekam
  BY <1>1, AdaRekam DEF InvKatalog
<1>3. r \in Rekam /\ r.versi = tabel[b].versi
  BY <1>2 DEF Rekam
<1>4. tabel[b].hapus => r = tabel[b]
  BY <1>2 DEF Rekam
<1>5. Ubah(b, r) /\ UNCHANGED <<jenis, layar, tulis, berkas, cacat>> /\ jenis = "tautan"
  BY DEF RevokeLink
<1> HIDE DEF r
<1>6. /\ tabel' \in [Baris -> Rekam \cup {Tiada}]
      /\ \A c \in Baris \ {b} : tabel'[c] = tabel[c]
      /\ tabel'[b] = r
  BY <1>1, <1>3, <1>5, UbahMaju DEF InvKatalog, Berversi
<1>7. TabelMaju
  BY <1>1, <1>3, <1>5, UbahMajuTabel DEF InvKatalog
<1>8. \A v \in Pemakai : Rujuk(v)'
  BY <1>5, <1>7, RujukTetap DEF InvKatalog
<1>9. TypeKatalog'
  BY <1>5, <1>6 DEF InvKatalog, TypeKatalog
<1>10. BarisMaju
  BY <1>4, <1>5, <1>6 DEF BarisMaju, Berversi
<1> QED
  BY <1>5, <1>8, <1>9, <1>10 DEF InvKatalog

LEMMA TunjukkanAman ==
  ASSUME InvKatalog, NEW u \in Pemakai, NEW b \in Baris, NEW t \in {"portal", "pdf"},
         Tunjukkan(u, b, t)
  PROVE  InvKatalog' /\ BarisMaju
<1> DEFINE s == [tahap |-> t, id |-> b]
<1>1. /\ UNCHANGED <<jenis, tabel, tulis>> /\ tulis' \in Nat
      /\ berkas' \subseteq Nat /\ cacat' \subseteq Baris
  BY DEF InvKatalog, TypeKatalog, Tunjukkan
<1>2. CASE KeDaftar(u)
  BY <1>1, <1>2, KeDaftarAman, BarisTetap
<1>3. CASE Tampil(u, s)
  <2>1. s \in Layar
    BY DEF Layar, Tamu
  <2>2. layar'[u] = s
    BY <1>3, <2>1, LayarSatu DEF InvKatalog
  <2>3. Rujuk(u)'
    BY <2>2 DEF Rujuk
  <2> HIDE DEF s
  <2> QED
    BY <1>1, <1>3, <2>1, <2>3, LayarAman, BarisTetap
<1> QED
  BY <1>2, <1>3 DEF Tunjukkan

-----------------------------------------------------------------------------
(* Every kind keeps the invariant *)

LEMMA ProdukAman ==
  ASSUME InvKatalog, NEW u \in Pemakai, Produk(u)
  PROVE  InvKatalog' /\ BarisMaju
<1>1. CASE IndexProduk(u)
  <2>1. DaftarProduk \in SUBSET Baris /\ \A b \in DaftarProduk : Ada(b)
    BY DEF DaftarProduk, Hidup
  <2>2. UNCHANGED tabel
    BY <1>1 DEF IndexProduk, Lihat
  <2> QED
    BY <1>1, <2>1, <2>2, LihatAman, BarisTetap DEF IndexProduk
<1>2. CASE BaruProduk(u)
  <2>1. UNCHANGED tabel
    BY <1>2 DEF BaruProduk, Isi
  <2> QED
    BY <1>2, <2>1, IsiAman, BarisTetap DEF BaruProduk
<1>3. CASE TambahProduk(u)
  BY <1>3, TambahAman DEF TambahProduk
<1>4. CASE SimpanProduk(u)
  BY <1>4, SimpanDisimpan, SimpanAman
<1>5. CASE HapusBerkas(u) \/ PasangFoto(u) \/ GagalFoto(u)
  BY <1>5, HapusBerkasAman, PasangFotoAman, GagalFotoAman
<1>6. ASSUME NEW b \in Baris, EditProduk(u, b)
      PROVE  InvKatalog' /\ BarisMaju
  <2>1. Hidup(b) => tabel[b].versi \in Nat
    BY AdaRekam DEF InvKatalog, Hidup, Rekam
  <2>2. UNCHANGED tabel
    BY <1>6 DEF EditProduk, Sunting
  <2> QED
    BY <1>6, <2>1, <2>2, SuntingAman, BarisTetap DEF EditProduk
<1>7. ASSUME NEW b \in Baris, HapusProduk(u, b)
      PROVE  InvKatalog' /\ BarisMaju
  BY <1>7, BuangAman DEF HapusProduk
<1>8. ASSUME NEW b \in Baris, UnggahFoto(u, b) \/ BuangFoto(u, b)
      PROVE  InvKatalog' /\ BarisMaju
  BY <1>8, UnggahFotoAman
<1>9. ASSUME NEW k \in Kode, PeriksaTambahProduk(u, k) \/ PeriksaUbahProduk(u, k)
      PROVE  InvKatalog' /\ BarisMaju
  <2>1. Lolos(u, "produk", k) /\ k \in KodeBoleh
    BY <1>9 DEF PeriksaTambahProduk, PeriksaUbahProduk, KodeBoleh
  <2>2. UNCHANGED tabel
    BY <2>1 DEF Lolos
  <2> QED
    BY <2>1, <2>2, LolosAman, BarisTetap
<1> QED
  BY <1>1, <1>2, <1>3, <1>4, <1>5, <1>6, <1>7, <1>8, <1>9 DEF Produk

\* The steps the other kinds share.
LEMMA LihatSemua ==
  ASSUME InvKatalog, NEW u \in Pemakai, NEW j, NEW S \in SUBSET Baris,
         \A b \in S : Ada(b), Lihat(u, j, S)
  PROVE  InvKatalog' /\ BarisMaju
<1>1. UNCHANGED tabel
  BY DEF Lihat
<1> QED
  BY <1>1, LihatAman, BarisTetap

LEMMA IsiSemua ==
  ASSUME InvKatalog, NEW u \in Pemakai, NEW j, Isi(u, j)
  PROVE  InvKatalog' /\ BarisMaju
<1>1. UNCHANGED tabel
  BY DEF Isi
<1> QED
  BY <1>1, IsiAman, BarisTetap

LEMMA LolosSemua ==
  ASSUME InvKatalog, NEW u \in Pemakai, NEW j, NEW k \in KodeBoleh, Lolos(u, j, k)
  PROVE  InvKatalog' /\ BarisMaju
<1>1. UNCHANGED tabel
  BY DEF Lolos
<1> QED
  BY <1>1, LolosAman, BarisTetap

\* A form without a version, for a kind that has none.
LEMMA SuntingTanpaVersi ==
  ASSUME InvKatalog, NEW u \in Pemakai, NEW j, j \notin Berversi, NEW b \in Baris,
         Sunting(u, j, b, 0)
  PROVE  InvKatalog' /\ BarisMaju
<1>1. UNCHANGED tabel /\ jenis \notin Berversi
  BY DEF Sunting
<1> QED
  BY <1>1, SuntingAman, BarisTetap

LEMMA MitraAman ==
  ASSUME InvKatalog, NEW u \in Pemakai, Mitra(u)
  PROVE  InvKatalog' /\ BarisMaju
<1>1. CASE IndexMitra(u)
  <2>1. DaftarMitra \in SUBSET Baris /\ \A b \in DaftarMitra : Ada(b)
    BY DEF DaftarMitra, Hidup
  <2> QED
    BY <1>1, <2>1, LihatSemua DEF IndexMitra
<1>2. CASE BaruMitra(u)
  BY <1>2, IsiSemua DEF BaruMitra
<1>3. CASE TambahMitra(u)
  BY <1>3, TambahAman DEF TambahMitra
<1>4. CASE SimpanMitra(u)
  BY <1>4, SimpanDisimpan, SimpanAman
<1>5. ASSUME NEW b \in Baris, EditMitra(u, b)
      PROVE  InvKatalog' /\ BarisMaju
  <2>1. Hidup(b) => tabel[b].versi \in Nat
    BY AdaRekam DEF InvKatalog, Hidup, Rekam
  <2>2. UNCHANGED tabel
    BY <1>5 DEF EditMitra, Sunting
  <2> QED
    BY <1>5, <2>1, <2>2, SuntingAman, BarisTetap DEF EditMitra
<1>6. ASSUME NEW b \in Baris, HapusMitra(u, b)
      PROVE  InvKatalog' /\ BarisMaju
  BY <1>6, BuangAman DEF HapusMitra
<1>7. ASSUME NEW k \in Kode, PeriksaMitra(u, k)
      PROVE  InvKatalog' /\ BarisMaju
  BY <1>7, LolosSemua DEF PeriksaMitra, KodeBoleh
<1> QED
  BY <1>1, <1>2, <1>3, <1>4, <1>5, <1>6, <1>7 DEF Mitra

LEMMA SupplierAman ==
  ASSUME InvKatalog, NEW u \in Pemakai, Supplier(u)
  PROVE  InvKatalog' /\ BarisMaju
<1>1. CASE IndexSupplier(u)
  <2>1. DaftarSupplier \in SUBSET Baris /\ \A b \in DaftarSupplier : Ada(b)
    BY DEF DaftarSupplier, Hidup
  <2> QED
    BY <1>1, <2>1, LihatSemua DEF IndexSupplier
<1>2. CASE BaruSupplier(u)
  BY <1>2, IsiSemua DEF BaruSupplier
<1>3. CASE TambahSupplier(u)
  BY <1>3, TambahAman DEF TambahSupplier
<1>4. CASE SimpanSupplier(u)
  BY <1>4, SimpanDisimpan, SimpanAman
<1>5. ASSUME NEW b \in Baris, EditSupplier(u, b)
      PROVE  InvKatalog' /\ BarisMaju
  BY <1>5, SuntingTanpaVersi DEF EditSupplier, Berversi
<1>6. ASSUME NEW b \in Baris, HapusSupplier(u, b)
      PROVE  InvKatalog' /\ BarisMaju
  BY <1>6, BuangAman DEF HapusSupplier
<1>7. ASSUME NEW k \in Kode, PeriksaSupplier(u, k)
      PROVE  InvKatalog' /\ BarisMaju
  BY <1>7, LolosSemua DEF PeriksaSupplier, KodeBoleh
<1> QED
  BY <1>1, <1>2, <1>3, <1>4, <1>5, <1>6, <1>7 DEF Supplier

LEMMA GudangAman ==
  ASSUME InvKatalog, NEW u \in Pemakai, Gudang(u)
  PROVE  InvKatalog' /\ BarisMaju
<1>1. CASE IndexGudang(u)
  <2>1. DaftarGudang \in SUBSET Baris /\ \A b \in DaftarGudang : Ada(b)
    BY DEF DaftarGudang
  <2> QED
    BY <1>1, <2>1, LihatSemua DEF IndexGudang
<1>2. CASE BaruGudang(u)
  BY <1>2, IsiSemua DEF BaruGudang
<1>3. CASE TambahGudang(u)
  BY <1>3, TambahAman DEF TambahGudang
<1>4. CASE SimpanGudang(u)
  BY <1>4, SimpanDisimpan, SimpanAman
<1>5. CASE AktifkanGudang(u)
  BY <1>5, TulisSaklarAman DEF AktifkanGudang
<1>6. ASSUME NEW b \in Baris, EditGudang(u, b)
      PROVE  InvKatalog' /\ BarisMaju
  BY <1>6, SuntingTanpaVersi DEF EditGudang, Berversi
<1>7. ASSUME NEW b \in Baris, ToggleGudang(u, b)
      PROVE  InvKatalog' /\ BarisMaju
  BY <1>7, BacaSaklarAman DEF ToggleGudang
<1>8. ASSUME NEW k \in Kode, PeriksaTambahGudang(u, k) \/ PeriksaUbahGudang(u, k)
      PROVE  InvKatalog' /\ BarisMaju
  BY <1>8, LolosSemua DEF PeriksaTambahGudang, PeriksaUbahGudang, KodeBoleh
<1> QED
  BY <1>1, <1>2, <1>3, <1>4, <1>5, <1>6, <1>7, <1>8 DEF Gudang

LEMMA SatuanAman ==
  ASSUME InvKatalog, NEW u \in Pemakai, Satuan(u)
  PROVE  InvKatalog' /\ BarisMaju
<1>1. CASE BaruSatuan(u)
  BY <1>1, IsiSemua DEF BaruSatuan
<1>2. CASE TambahSatuan(u)
  BY <1>2, TambahAman DEF TambahSatuan
<1>3. ASSUME NEW k \in Kode, PeriksaSatuan(u, k)
      PROVE  InvKatalog' /\ BarisMaju
  BY <1>3, LolosSemua DEF PeriksaSatuan, KodeBoleh
<1> QED
  BY <1>1, <1>2, <1>3 DEF Satuan

LEMMA DiskonAman ==
  ASSUME InvKatalog, NEW u \in Pemakai, Diskon(u)
  PROVE  InvKatalog' /\ BarisMaju
<1>1. CASE IndexDiskon(u)
  <2>1. DaftarDiskon \in SUBSET Baris /\ \A b \in DaftarDiskon : Ada(b)
    BY DEF DaftarDiskon
  <2> QED
    BY <1>1, <2>1, LihatSemua DEF IndexDiskon
<1>2. CASE BaruDiskon(u)
  BY <1>2, IsiSemua DEF BaruDiskon
<1>3. CASE TambahDiskon(u)
  BY <1>3, TambahAman DEF TambahDiskon
<1>4. CASE SimpanDiskon(u)
  BY <1>4, SimpanDisimpan, SimpanAman
<1>5. CASE AktifkanDiskon(u)
  BY <1>5, TulisSaklarAman DEF AktifkanDiskon
<1>6. ASSUME NEW b \in Baris, EditDiskon(u, b)
      PROVE  InvKatalog' /\ BarisMaju
  BY <1>6, SuntingTanpaVersi DEF EditDiskon, Berversi
<1>7. ASSUME NEW b \in Baris, ToggleDiskon(u, b)
      PROVE  InvKatalog' /\ BarisMaju
  BY <1>7, BacaSaklarAman DEF ToggleDiskon
<1>8. ASSUME NEW b \in Baris, HapusDiskon(u, b)
      PROVE  InvKatalog' /\ BarisMaju
  BY <1>8, HapusDiskonAman
<1>9. ASSUME NEW k \in Kode, PeriksaTambahDiskon(u, k) \/ PeriksaUbahDiskon(u, k)
      PROVE  InvKatalog' /\ BarisMaju
  BY <1>9, LolosSemua DEF PeriksaTambahDiskon, PeriksaUbahDiskon, KodeBoleh
<1> QED
  BY <1>1, <1>2, <1>3, <1>4, <1>5, <1>6, <1>7, <1>8, <1>9 DEF Diskon

LEMMA KasAman ==
  ASSUME InvKatalog, NEW u \in Pemakai, Kas(u)
  PROVE  InvKatalog' /\ BarisMaju
<1>1. DaftarKas \in SUBSET Baris /\ \A b \in DaftarKas : Ada(b)
  BY DEF DaftarKas, Hidup
<1>2. CASE IndexKas(u)
  BY <1>1, <1>2, LihatSemua DEF IndexKas
<1>3. CASE BaruKas(u)
  BY <1>3, IsiSemua DEF BaruKas
<1>4. CASE TambahKas(u)
  BY <1>4, TambahAman DEF TambahKas
<1>5. ASSUME NEW b \in Baris, TampilKas(u, b)
      PROVE  InvKatalog' /\ BarisMaju
  <2>1. {b} \cap DaftarKas \in SUBSET Baris /\ \A c \in {b} \cap DaftarKas : Ada(c)
    BY <1>1
  <2> QED
    BY <1>5, <2>1, LihatSemua DEF TampilKas
<1>6. ASSUME NEW b \in Baris, HapusKas(u, b)
      PROVE  InvKatalog' /\ BarisMaju
  BY <1>6, BuangAman DEF HapusKas
<1>7. ASSUME NEW k \in Kode, PeriksaKas(u, k)
      PROVE  InvKatalog' /\ BarisMaju
  BY <1>7, LolosSemua DEF PeriksaKas, KodeBoleh
<1> QED
  BY <1>2, <1>3, <1>4, <1>5, <1>6, <1>7 DEF Kas

LEMMA HargaAman ==
  ASSUME InvKatalog, NEW u \in Pemakai, Harga(u)
  PROVE  InvKatalog' /\ BarisMaju
<1>1. CASE IndexHarga(u)
  BY <1>1, IsiSemua DEF IndexHarga
<1>2. CASE SetHarga(u)
  BY <1>2, TambahAman DEF SetHarga
<1>3. ASSUME NEW k \in KodeBoleh, PeriksaHarga(u, k)
      PROVE  InvKatalog' /\ BarisMaju
  BY <1>3, LolosSemua DEF PeriksaHarga
<1> QED
  BY <1>1, <1>2, <1>3 DEF Harga

LEMMA TautanAman ==
  ASSUME InvKatalog, NEW u \in Pemakai, Tautan(u)
  PROVE  InvKatalog' /\ BarisMaju
<1>1. CASE CreateLink(u)
  BY <1>1, CreateLinkAman
<1>2. CASE ListLinks(u)
  <2> DEFINE S == {b \in Baris : Ada(b)}
  <2>1. S \in SUBSET Baris /\ \A b \in S : Ada(b)
    OBVIOUS
  <2>2. Lihat(u, "tautan", S)
    BY <1>2 DEF ListLinks
  <2> HIDE DEF S
  <2> QED
    BY <2>1, <2>2, LihatSemua
<1>3. CASE DownloadPDF(u)
  <2>1. layar[u] \in Tamu
    BY <1>3, BentukLayar DEF InvKatalog, TypeKatalog, Layar, DownloadPDF
  <2>2. layar[u].id \in Baris /\ Tunjukkan(u, layar[u].id, "pdf")
    BY <1>3, <2>1 DEF Tamu, DownloadPDF
  <2> QED
    BY <2>2, TunjukkanAman
<1>4. ASSUME NEW b \in Baris, RevokeLink(u, b)
      PROVE  InvKatalog' /\ BarisMaju
  BY <1>4, RevokeLinkAman
<1>5. ASSUME NEW b \in Baris, ShowPortal(u, b)
      PROVE  InvKatalog' /\ BarisMaju
  BY <1>5, TunjukkanAman DEF ShowPortal
<1> QED
  BY <1>1, <1>2, <1>3, <1>4, <1>5 DEF Tautan

-----------------------------------------------------------------------------
LEMMA KatalogAwal ==
  ASSUME InitKatalog
  PROVE  InvKatalog
<1>1. TypeKatalog
  BY DEF InitKatalog, TypeKatalog, Daftar
<1>2. \A b \in Baris : ~Ada(b)
  BY DEF InitKatalog, Ada
<1>3. \A u \in Pemakai : Rujuk(u)
  BY DEF InitKatalog, Rujuk
<1> QED
  BY <1>1, <1>2, <1>3 DEF InvKatalog

LEMMA KatalogLangkah ==
  ASSUME InvKatalog, [NextKatalog]_varsKatalog
  PROVE  InvKatalog' /\ BarisMaju
<1>1. CASE NextKatalog
  BY <1>1, ProdukAman, MitraAman, SupplierAman, GudangAman, SatuanAman, DiskonAman, KasAman,
     HargaAman, TautanAman DEF NextKatalog
<1>2. CASE UNCHANGED varsKatalog
  BY <1>2, BarisTetap DEF varsKatalog, InvKatalog, TypeKatalog, Rujuk, Ada
<1> QED
  BY <1>1, <1>2

LEMMA KatalogInvarian == SpecKatalog => []InvKatalog
BY KatalogAwal, KatalogLangkah, PTL DEF SpecKatalog

\* Every row and every screen has its shape: the versions stay positive, so that
\* no form of a product or a customer skips the comparison.
THEOREM KatalogTipe == SpecKatalog => []TypeKatalog
<1>1. InvKatalog => TypeKatalog
  BY DEF InvKatalog
<1> QED
  BY <1>1, KatalogInvarian, PTL

\* An edit of a product or a customer replaces exactly what its form showed.
THEOREM KatalogTanpaTimpa == SpecKatalog => TanpaTimpa
<1> DEFINE A == \A b \in Baris :
        jenis \in Berversi /\ Ada(b) /\ tabel'[b].isi # tabel[b].isi =>
            \E u \in Pemakai :
                layar[u].tahap = "kirim" /\ layar[u].id = b /\ layar[u].lihat = tabel[b].isi
<1>1. BarisMaju => A
  BY DEF BarisMaju
<1>2. InvKatalog /\ [NextKatalog]_varsKatalog => [A]_varsKatalog
  BY <1>1, KatalogLangkah
<1> QED
  BY <1>2, KatalogInvarian, PTL DEF SpecKatalog, TanpaTimpa

\* A deleted row stays as it was deleted.
THEOREM KatalogHapusAkhir == SpecKatalog => HapusAkhir
<1> DEFINE A == \A b \in Baris : Ada(b) /\ tabel[b].hapus => tabel'[b] = tabel[b]
<1>1. BarisMaju => A
  BY DEF BarisMaju
<1>2. InvKatalog /\ [NextKatalog]_varsKatalog => [A]_varsKatalog
  BY <1>1, KatalogLangkah
<1> QED
  BY <1>2, KatalogInvarian, PTL DEF SpecKatalog, HapusAkhir

-----------------------------------------------------------------------------
(* Photos: the steps that leave the files alone *)

LEMMA FotoTipe ==
  ASSUME TypeKatalog, NEW b \in Baris
  PROVE  Foto(b) \in Nat /\ (Ada(b) => Foto(b) = tabel[b].foto)
<1>1. Ada(b) => tabel[b].foto \in Nat
  BY AdaRekam DEF Rekam
<1> QED
  BY <1>1 DEF Foto

LEMMA GambarTipe ==
  ASSUME TypeKatalog, NEW u \in Pemakai, Menggambar(u)
  PROVE  layar[u].id \in Baris /\ layar[u].lama \in Nat /\ layar[u].baru \in Nat
<1>1. layar[u] \in Gambar
  BY BentukLayar DEF TypeKatalog, Layar, Menggambar
<1> QED
  BY <1>1 DEF Gambar

\* No photo, no file and no request about one changes.
FotoTetap ==
    /\ \A b \in Baris : Foto(b)' = Foto(b) /\ (Hidup(b)' => Hidup(b) \/ Foto(b) = 0)
    /\ UNCHANGED <<berkas, cacat>> /\ tulis' \in Nat /\ tulis' >= tulis
    /\ \A v \in Pemakai : Menggambar(v) \/ Menggambar(v)' => layar'[v] = layar[v]

LEMMA FotoTetapAman ==
  ASSUME TypeKatalog, TypeKatalog', InvFoto, FotoTetap
  PROVE  InvFoto'
<1>1. /\ tulis \in Nat /\ tulis' \in Nat /\ tulis <= tulis'
      /\ \A b \in Baris : Foto(b) \in Nat
  BY FotoTipe DEF TypeKatalog, FotoTetap
<1>2. \A b \in Baris : Foto(b)' <= tulis'
  BY <1>1 DEF InvFoto, FotoTetap
<1>3. \A b, c \in Baris : Foto(b)' # 0 /\ Foto(b)' = Foto(c)' => b = c
  BY DEF InvFoto, FotoTetap
<1>4. ASSUME NEW u \in Pemakai, Menggambar(u)'
      PROVE  BerkasMilik(u)'
  <2>1. layar'[u] = layar[u] /\ Menggambar(u)
    BY <1>4 DEF FotoTetap, Menggambar
  <2>2. layar[u].lama \in Nat /\ layar[u].baru \in Nat
    BY <2>1, GambarTipe
  <2>3. BerkasMilik(u)
    BY <2>1 DEF InvFoto
  <2> QED
    BY <1>1, <2>1, <2>2, <2>3 DEF BerkasMilik, FotoTetap
<1>5. \A u, v \in Pemakai :
        Menggambar(u)' /\ Menggambar(v)' /\ layar'[u].baru # 0 =>
            layar'[u].baru # layar'[v].lama /\ (u # v => layar'[u].baru # layar'[v].baru)
  BY DEF InvFoto, FotoTetap, Menggambar
<1>6. ASSUME NEW b \in DaftarProduk', tabel'[b].foto # 0, tabel'[b].foto \notin berkas'
      PROVE  \/ b \in cacat'
             \/ \E u \in Pemakai :
                  layar'[u].tahap = "pasang" /\ layar'[u].id = b /\ layar'[u].lama = tabel'[b].foto
  <2>1. b \in Baris /\ Hidup(b)' /\ Ada(b)'
    BY <1>6 DEF DaftarProduk, Hidup
  <2>2. Foto(b)' = tabel'[b].foto
    BY <2>1 DEF Foto
  <2>3. Foto(b) = tabel'[b].foto /\ Hidup(b)
    BY <1>6, <2>1, <2>2 DEF FotoTetap
  <2>4. b \in DaftarProduk /\ tabel[b].foto = tabel'[b].foto
    BY <2>1, <2>3 DEF DaftarProduk, Hidup, Foto
  <2>5. \/ b \in cacat
        \/ \E u \in Pemakai :
             layar[u].tahap = "pasang" /\ layar[u].id = b /\ layar[u].lama = tabel[b].foto
    BY <1>6, <2>4 DEF InvFoto, FotoAda, FotoTetap
  <2>6. \A u \in Pemakai : layar[u].tahap = "pasang" => layar'[u] = layar[u]
    BY DEF FotoTetap, Menggambar
  <2> QED
    BY <2>4, <2>5, <2>6 DEF FotoTetap
<1> QED
  BY <1>2, <1>3, <1>4, <1>5, <1>6 DEF InvFoto, FotoAda

\* The stages that have nothing to do with a photo.
TanpaFoto(u) == layar[u].tahap \notin {"unggah", "pasang"}

LEMMA LayarFoto ==
  ASSUME TypeKatalog, NEW u \in Pemakai, TanpaFoto(u), NEW s, Tampil(u, s),
         s.tahap \notin {"unggah", "pasang"}
  PROVE  \A v \in Pemakai : Menggambar(v) \/ Menggambar(v)' => layar'[v] = layar[v]
BY DEF TypeKatalog, TanpaFoto, Tampil, Menggambar

\* A step that only changes such a screen.
LEMMA LayarFotoTetap ==
  ASSUME TypeKatalog, NEW u \in Pemakai, TanpaFoto(u), NEW s, Tampil(u, s),
         s.tahap \notin {"unggah", "pasang"}, UNCHANGED <<tabel, tulis, berkas, cacat>>
  PROVE  FotoTetap
<1>1. \A v \in Pemakai : Menggambar(v) \/ Menggambar(v)' => layar'[v] = layar[v]
  BY LayarFoto
<1>2. \A b \in Baris : Foto(b)' = Foto(b) /\ (Hidup(b)' => Hidup(b))
  BY DEF Foto, Hidup, Ada
<1>3. tulis \in Nat
  BY DEF TypeKatalog
<1> QED
  BY <1>1, <1>2, <1>3 DEF FotoTetap

LEMMA KeDaftarFoto ==
  ASSUME TypeKatalog, NEW u \in Pemakai, TanpaFoto(u), KeDaftar(u),
         UNCHANGED <<tabel, tulis, berkas, cacat>>
  PROVE  FotoTetap
<1> DEFINE s == [tahap |-> "daftar", ada |-> {}]
<1>1. Tampil(u, s) /\ s.tahap = "daftar"
  BY DEF KeDaftar
<1> HIDE DEF s
<1> QED
  BY <1>1, LayarFotoTetap

LEMMA KeFormFoto ==
  ASSUME TypeKatalog, NEW u \in Pemakai, TanpaFoto(u), KeForm(u),
         UNCHANGED <<tabel, tulis, berkas, cacat>>
  PROVE  FotoTetap
<1> DEFINE s == [tahap |-> "form", id |-> layar[u].id, versi |-> layar[u].versi,
                 lihat |-> layar[u].lihat]
<1>1. Tampil(u, s) /\ s.tahap = "form"
  BY DEF KeForm
<1> HIDE DEF s
<1> QED
  BY <1>1, LayarFotoTetap

\* A step that goes back to the list and writes a row, its photo excepted.
LEMMA UbahFoto ==
  ASSUME TypeKatalog, UNCHANGED jenis, NEW b \in Baris, Ada(b),
         NEW r \in Rekam, r.versi = tabel[b].versi, r.foto = tabel[b].foto,
         tabel[b].hapus => r.hapus, Ubah(b, r)
  PROVE  \A c \in Baris : Foto(c)' = Foto(c) /\ (Hidup(c)' => Hidup(c))
<1>1. /\ \A c \in Baris \ {b} : tabel'[c] = tabel[c]
      /\ tabel'[b] \in Rekam /\ tabel'[b].foto = tabel[b].foto
      /\ tabel[b].hapus => tabel'[b].hapus
  BY UbahMaju
<1>2. tabel'[b] # Tiada
  BY <1>1, RekamAda
<1> QED
  BY <1>1, <1>2 DEF Foto, Ada, Hidup

LEMMA BarisFoto ==
  ASSUME TypeKatalog, NEW u \in Pemakai, TanpaFoto(u), KeDaftar(u),
         UNCHANGED <<jenis, berkas, cacat>>, tulis' \in Nat, tulis' >= tulis,
         \A c \in Baris : Foto(c)' = Foto(c) /\ (Hidup(c)' => Hidup(c) \/ Foto(c) = 0)
  PROVE  FotoTetap
<1> DEFINE s == [tahap |-> "daftar", ada |-> {}]
<1>1. Tampil(u, s) /\ s.tahap = "daftar"
  BY DEF KeDaftar
<1> HIDE DEF s
<1>2. \A v \in Pemakai : Menggambar(v) \/ Menggambar(v)' => layar'[v] = layar[v]
  BY <1>1, LayarFoto
<1> QED
  BY <1>2 DEF FotoTetap

LEMMA SisipFoto ==
  ASSUME TypeKatalog, UNCHANGED jenis, NEW b \in Baris, NEW k \in KodeBoleh, Sisip(b, k)
  PROVE  /\ \A c \in Baris : Foto(c)' = Foto(c) /\ (Hidup(c)' => Hidup(c) \/ Foto(c) = 0)
         /\ tulis' \in Nat /\ tulis' >= tulis
<1>1. /\ ~Ada(b) /\ tulis' = tulis + 1 /\ tabel'[b].foto = 0
      /\ \A c \in Baris \ {b} : tabel'[c] = tabel[c]
  BY SisipMaju
<1>2. tulis \in Nat
  BY DEF TypeKatalog
<1> QED
  BY <1>1, <1>2 DEF Foto, Ada, Hidup

-----------------------------------------------------------------------------
(* Which steps those are *)

LEMMA LihatFoto ==
  ASSUME TypeKatalog, NEW u \in Pemakai, NEW j, NEW S, Lihat(u, j, S)
  PROVE  FotoTetap
<1> DEFINE s == [tahap |-> "daftar", ada |-> S]
<1>1. Tampil(u, s) /\ s.tahap = "daftar" /\ TanpaFoto(u) /\ UNCHANGED <<tabel, tulis, berkas, cacat>>
  BY DEF Lihat, TanpaFoto
<1> HIDE DEF s
<1> QED
  BY <1>1, LayarFotoTetap

LEMMA IsiFoto ==
  ASSUME TypeKatalog, NEW u \in Pemakai, NEW j, Isi(u, j)
  PROVE  FotoTetap
<1> DEFINE s == [tahap |-> "form", id |-> Baru, versi |-> 0, lihat |-> 0]
<1>1. Tampil(u, s) /\ s.tahap = "form" /\ TanpaFoto(u) /\ UNCHANGED <<tabel, tulis, berkas, cacat>>
  BY DEF Isi, TanpaFoto
<1> HIDE DEF s
<1> QED
  BY <1>1, LayarFotoTetap

LEMMA SuntingFoto ==
  ASSUME TypeKatalog, NEW u \in Pemakai, NEW j, NEW b, NEW v, Sunting(u, j, b, v)
  PROVE  FotoTetap
<1> DEFINE s == [tahap |-> "form", id |-> b, versi |-> v, lihat |-> tabel[b].isi]
<1>1. TanpaFoto(u) /\ UNCHANGED <<tabel, tulis, berkas, cacat>> /\ s.tahap = "form"
  BY DEF Sunting, TanpaFoto
<1>2. Tampil(u, s) \/ KeDaftar(u)
  BY DEF Sunting
<1> HIDE DEF s
<1> QED
  BY <1>1, <1>2, LayarFotoTetap, KeDaftarFoto

LEMMA LolosFoto ==
  ASSUME TypeKatalog, NEW u \in Pemakai, NEW j, NEW k, Lolos(u, j, k)
  PROVE  FotoTetap
<1> DEFINE s == [tahap |-> "kirim", id |-> layar[u].id, versi |-> layar[u].versi,
                 lihat |-> layar[u].lihat, kode |-> k]
<1>1. Tampil(u, s) /\ s.tahap = "kirim" /\ TanpaFoto(u) /\ UNCHANGED <<tabel, tulis, berkas, cacat>>
  BY DEF Lolos, TanpaFoto
<1> HIDE DEF s
<1> QED
  BY <1>1, LayarFotoTetap

LEMMA TambahFoto ==
  ASSUME TypeKatalog, NEW u \in Pemakai, NEW j, Tambah(u, j)
  PROVE  FotoTetap
<1>1. TanpaFoto(u)
  BY DEF Tambah, TanpaFoto
<1>2. CASE KodeBebas(layar[u].kode, Baru)
  <2>1. PICK b \in Baris : Sisip(b, layar[u].kode)
    BY <1>2 DEF Tambah
  <2>2. layar[u] \in Kirim
    BY BentukLayar DEF TypeKatalog, Layar, Tambah
  <2>3. layar[u].kode \in KodeBoleh
    BY <2>2 DEF Kirim
  <2>4. KeDaftar(u) /\ UNCHANGED <<jenis, berkas, cacat>>
    BY <1>2 DEF Tambah
  <2> QED
    BY <1>1, <2>1, <2>3, <2>4, SisipFoto, BarisFoto
<1>3. CASE ~KodeBebas(layar[u].kode, Baru)
  <2>1. KeForm(u) /\ UNCHANGED <<tabel, tulis, berkas, cacat>>
    BY <1>3 DEF Tambah
  <2> QED
    BY <1>1, <2>1, KeFormFoto
<1> QED
  BY <1>2, <1>3

\* A row gets new content, and perhaps a new key.
LEMMA TulisFoto ==
  ASSUME TypeKatalog, NEW u \in Pemakai, TanpaFoto(u), KeDaftar(u),
         UNCHANGED <<jenis, berkas, cacat>>, NEW b \in Baris, Ada(b),
         NEW q \in Rekam, q.versi = tabel[b].versi, q.foto = tabel[b].foto,
         q.hapus = tabel[b].hapus, Tulis(b, q)
  PROVE  FotoTetap
<1> DEFINE r == [q EXCEPT !.isi = tulis + 1]
<1>1. tulis \in Nat /\ tulis' = tulis + 1 /\ Ubah(b, r)
  BY DEF TypeKatalog, Tulis
<1>2. /\ r \in Rekam /\ r.versi = tabel[b].versi
      /\ r.foto = tabel[b].foto /\ r.hapus = tabel[b].hapus
  BY <1>1 DEF Rekam
<1> HIDE DEF r
<1>3. \A c \in Baris : Foto(c)' = Foto(c) /\ (Hidup(c)' => Hidup(c))
  BY <1>1, <1>2, UbahFoto
<1>4. tulis' \in Nat /\ tulis' >= tulis
  BY <1>1
<1> QED
  BY <1>3, <1>4, BarisFoto

LEMMA SimpanFoto ==
  ASSUME InvKatalog, NEW u \in Pemakai, Disimpan(u)
  PROVE  FotoTetap
<1> DEFINE f == layar[u]
           q == [tabel[f.id] EXCEPT !.kode = f.kode]
<1>1. f \in Kirim /\ f.tahap = "kirim" /\ f.id # Baru /\ TanpaFoto(u) /\ TypeKatalog
  BY BentukLayar DEF InvKatalog, TypeKatalog, Layar, Disimpan, TanpaFoto
<1>2. f.id \in Baris /\ f.kode \in KodeBoleh
  BY <1>1 DEF Kirim
<1>3. CASE Hidup(f.id) /\ Tulis(f.id, q) /\ KeDaftar(u)
  <2>1. tabel[f.id] \in Rekam /\ Ada(f.id)
    BY <1>1, <1>2, <1>3, AdaRekam DEF Hidup
  <2>2. /\ q \in Rekam /\ q.versi = tabel[f.id].versi
        /\ q.foto = tabel[f.id].foto /\ q.hapus = tabel[f.id].hapus
    BY <1>2, <2>1 DEF Rekam
  <2>3. UNCHANGED <<jenis, berkas, cacat>>
    BY DEF Disimpan
  <2>4. Tulis(f.id, q) /\ KeDaftar(u)
    BY <1>3
  <2> HIDE DEF q
  <2> QED
    BY <1>1, <1>2, <2>1, <2>2, <2>3, <2>4, TulisFoto
<1>4. CASE (KeDaftar(u) \/ KeForm(u)) /\ UNCHANGED <<tabel, tulis>>
  <2>1. UNCHANGED <<tabel, tulis, berkas, cacat>>
    BY <1>4 DEF Disimpan
  <2> QED
    BY <1>1, <1>4, <2>1, KeDaftarFoto, KeFormFoto
<1> QED
  BY <1>3, <1>4 DEF Disimpan

LEMMA BuangFotoTetap ==
  ASSUME TypeKatalog, NEW u \in Pemakai, NEW j, NEW b \in Baris, Buang(u, j, b)
  PROVE  FotoTetap
<1>1. TanpaFoto(u) /\ KeDaftar(u) /\ UNCHANGED <<jenis, tulis, berkas, cacat>>
  BY DEF Buang, TanpaFoto
<1>2. CASE Hidup(b)
  <2> DEFINE r == [tabel[b] EXCEPT !.hapus = TRUE]
  <2>1. tabel[b] \in Rekam /\ Ada(b)
    BY <1>2, AdaRekam DEF Hidup
  <2>2. r \in Rekam /\ r.versi = tabel[b].versi /\ r.foto = tabel[b].foto /\ r.hapus
    BY <2>1 DEF Rekam
  <2>3. Ubah(b, r)
    BY <1>2 DEF Buang
  <2> HIDE DEF r
  <2>4. \A c \in Baris : Foto(c)' = Foto(c) /\ (Hidup(c)' => Hidup(c))
    BY <1>1, <2>1, <2>2, <2>3, UbahFoto
  <2>5. tulis' \in Nat /\ tulis' >= tulis
    BY <1>1 DEF TypeKatalog
  <2> QED
    BY <1>1, <2>4, <2>5, BarisFoto
<1>3. CASE ~Hidup(b)
  <2>1. UNCHANGED <<tabel, tulis, berkas, cacat>>
    BY <1>3 DEF Buang
  <2> QED
    BY <1>1, <2>1, KeDaftarFoto
<1> QED
  BY <1>2, <1>3

LEMMA BacaSaklarFoto ==
  ASSUME TypeKatalog, NEW u \in Pemakai, NEW j, NEW b, BacaSaklar(u, j, b)
  PROVE  FotoTetap
<1> DEFINE s == [tahap |-> "saklar", id |-> b]
<1>1. /\ Tampil(u, s) /\ s.tahap = "saklar" /\ TanpaFoto(u)
      /\ UNCHANGED <<tabel, tulis, berkas, cacat>>
  BY DEF BacaSaklar, TanpaFoto
<1> HIDE DEF s
<1> QED
  BY <1>1, LayarFotoTetap

LEMMA TulisSaklarFoto ==
  ASSUME InvKatalog, NEW u \in Pemakai, NEW j, TulisSaklar(u, j)
  PROVE  FotoTetap
<1>1. layar[u] \in Saklar /\ TanpaFoto(u) /\ TypeKatalog
  BY BentukLayar DEF InvKatalog, TypeKatalog, Layar, TulisSaklar, TanpaFoto
<1>2. layar[u].id \in Baris /\ Ada(layar[u].id)
  BY <1>1 DEF Saklar, InvKatalog, Rujuk, TulisSaklar
<1>3. /\ KeDaftar(u) /\ UNCHANGED <<jenis, berkas, cacat>>
      /\ Tulis(layar[u].id, tabel[layar[u].id])
  BY DEF TulisSaklar
<1>4. tabel[layar[u].id] \in Rekam
  BY <1>1, <1>2, AdaRekam
<1> QED
  BY <1>1, <1>2, <1>3, <1>4, TulisFoto

LEMMA HapusDiskonFoto ==
  ASSUME InvKatalog, NEW u \in Pemakai, NEW b \in Baris, HapusDiskon(u, b)
  PROVE  FotoTetap
<1>1. Ada(b) /\ TypeKatalog
  BY DiDaftar DEF HapusDiskon, InvKatalog
<1>2. /\ KeDaftar(u) /\ UNCHANGED <<jenis, berkas, cacat>> /\ TanpaFoto(u)
      /\ Tulis(b, tabel[b])
  BY DEF HapusDiskon, TanpaFoto
<1>3. tabel[b] \in Rekam
  BY <1>1, AdaRekam
<1> QED
  BY <1>1, <1>2, <1>3, TulisFoto

LEMMA CreateLinkFoto ==
  ASSUME TypeKatalog, NEW u \in Pemakai, CreateLink(u)
  PROVE  FotoTetap
<1>1. PICK b \in Baris : Sisip(b, TanpaKode)
  BY DEF CreateLink
<1>2. UNCHANGED <<jenis, layar, berkas, cacat>>
  BY DEF CreateLink
<1> QED
  BY <1>1, <1>2, SisipFoto DEF FotoTetap, KodeBoleh

LEMMA RevokeLinkFoto ==
  ASSUME InvKatalog, NEW u \in Pemakai, NEW b \in Baris, RevokeLink(u, b)
  PROVE  FotoTetap
<1> DEFINE r == [tabel[b] EXCEPT !.hapus = TRUE]
<1>1. Ada(b) /\ TypeKatalog
  BY DiDaftar DEF RevokeLink, InvKatalog
<1>2. tabel[b] \in Rekam
  BY <1>1, AdaRekam
<1>3. r \in Rekam /\ r.versi = tabel[b].versi /\ r.foto = tabel[b].foto /\ r.hapus
  BY <1>2 DEF Rekam
<1>4. Ubah(b, r) /\ UNCHANGED <<jenis, layar, tulis, berkas, cacat>>
  BY DEF RevokeLink
<1> HIDE DEF r
<1>5. \A c \in Baris : Foto(c)' = Foto(c) /\ (Hidup(c)' => Hidup(c))
  BY <1>1, <1>3, <1>4, UbahFoto
<1> QED
  BY <1>1, <1>4, <1>5 DEF FotoTetap, TypeKatalog

LEMMA TunjukkanFoto ==
  ASSUME TypeKatalog, NEW u \in Pemakai, TanpaFoto(u), NEW b, NEW t \in {"portal", "pdf"},
         Tunjukkan(u, b, t)
  PROVE  FotoTetap
<1> DEFINE s == [tahap |-> t, id |-> b]
<1>1. (Tampil(u, s) \/ KeDaftar(u)) /\ UNCHANGED <<tabel, tulis, berkas, cacat>>
  BY DEF Tunjukkan
<1>2. s.tahap \notin {"unggah", "pasang"}
  OBVIOUS
<1> HIDE DEF s
<1> QED
  BY <1>1, <1>2, LayarFotoTetap, KeDaftarFoto

LEMMA SelainProdukFoto ==
  ASSUME InvKatalog, NEW u \in Pemakai,
         \/ Mitra(u) \/ Supplier(u) \/ Gudang(u) \/ Satuan(u)
         \/ Diskon(u) \/ Kas(u) \/ Harga(u) \/ Tautan(u)
  PROVE  FotoTetap
<1>1. TypeKatalog
  BY DEF InvKatalog
<1>2. CASE Mitra(u)
  BY <1>1, <1>2, LihatFoto, IsiFoto, TambahFoto, SimpanDisimpan, SimpanFoto, SuntingFoto,
     BuangFotoTetap, LolosFoto
     DEF Mitra, IndexMitra, BaruMitra, TambahMitra, EditMitra, HapusMitra, PeriksaMitra
<1>3. CASE Supplier(u)
  BY <1>1, <1>3, LihatFoto, IsiFoto, TambahFoto, SimpanDisimpan, SimpanFoto, SuntingFoto,
     BuangFotoTetap, LolosFoto
     DEF Supplier, IndexSupplier, BaruSupplier, TambahSupplier, EditSupplier, HapusSupplier,
         PeriksaSupplier
<1>4. CASE Gudang(u)
  BY <1>1, <1>4, LihatFoto, IsiFoto, TambahFoto, SimpanDisimpan, SimpanFoto, SuntingFoto,
     BacaSaklarFoto, TulisSaklarFoto, LolosFoto
     DEF Gudang, IndexGudang, BaruGudang, TambahGudang, EditGudang, ToggleGudang,
         AktifkanGudang, PeriksaTambahGudang, PeriksaUbahGudang
<1>5. CASE Satuan(u)
  BY <1>1, <1>5, IsiFoto, TambahFoto, LolosFoto DEF Satuan, BaruSatuan, TambahSatuan, PeriksaSatuan
<1>6. CASE Diskon(u)
  BY <1>1, <1>6, LihatFoto, IsiFoto, TambahFoto, SimpanDisimpan, SimpanFoto, SuntingFoto,
     BacaSaklarFoto, TulisSaklarFoto, HapusDiskonFoto, LolosFoto
     DEF Diskon, IndexDiskon, BaruDiskon, TambahDiskon, EditDiskon, ToggleDiskon,
         AktifkanDiskon, PeriksaTambahDiskon, PeriksaUbahDiskon
<1>7. CASE Kas(u)
  BY <1>1, <1>7, LihatFoto, IsiFoto, TambahFoto, BuangFotoTetap, LolosFoto
     DEF Kas, IndexKas, BaruKas, TambahKas, TampilKas, HapusKas, PeriksaKas
<1>8. CASE Harga(u)
  BY <1>1, <1>8, IsiFoto, TambahFoto, LolosFoto DEF Harga, IndexHarga, SetHarga, PeriksaHarga
<1>9. CASE Tautan(u)
  <2>1. CASE CreateLink(u) \/ ListLinks(u) \/ \E b \in Baris : RevokeLink(u, b)
    BY <1>1, <2>1, CreateLinkFoto, LihatFoto, RevokeLinkFoto DEF ListLinks
  <2>2. ASSUME NEW b, ShowPortal(u, b)
        PROVE  FotoTetap
    BY <1>1, <2>2, TunjukkanFoto DEF ShowPortal, TanpaFoto
  <2>3. CASE DownloadPDF(u)
    BY <1>1, <2>3, TunjukkanFoto DEF DownloadPDF, TanpaFoto
  <2> QED
    BY <1>9, <2>1, <2>2, <2>3 DEF Tautan
<1> QED
  BY <1>2, <1>3, <1>4, <1>5, <1>6, <1>7, <1>8, <1>9

-----------------------------------------------------------------------------
(* Photos: the steps that are about them *)

\* Upload: a file of a new name; or the request to take the photo away.
LEMMA UnggahInv ==
  ASSUME InvKatalog, InvKatalog', InvFoto, NEW u \in Pemakai, NEW b \in Baris,
         UnggahFoto(u, b) \/ BuangFoto(u, b)
  PROVE  InvFoto'
<1> DEFINE baru == layar'[u].baru
<1>1. TypeKatalog /\ TypeKatalog' /\ tulis \in Nat /\ tulis' = tulis + 1
  BY DEF InvKatalog, TypeKatalog, UnggahFoto, BuangFoto
<1>2. /\ Hidup(b) /\ Ada(b) /\ UNCHANGED <<jenis, tabel, cacat>> /\ ~Menggambar(u)
      /\ layar[u].tahap = "form"
  BY DEF UnggahFoto, BuangFoto, MulaiFoto, Hidup, Menggambar
<1>3. /\ layar'[u].tahap = "unggah" /\ layar'[u].id = b /\ layar'[u].lama = tabel[b].foto
      /\ (baru = tulis + 1 /\ berkas' = berkas \cup {tulis + 1}) \/ (baru = 0 /\ berkas' = berkas)
      /\ \A v \in Pemakai \ {u} : layar'[v] = layar[v]
  BY <1>1 DEF UnggahFoto, BuangFoto, MulaiFoto, Tampil, TypeKatalog
<1>4. \A c \in Baris : Foto(c)' = Foto(c) /\ Foto(c) \in Nat /\ Foto(c) <= tulis
  BY <1>1, <1>2, FotoTipe DEF Foto, Ada, InvFoto
<1>5. layar'[u].lama = Foto(b)
  BY <1>2, <1>3 DEF Foto
<1>6. \A v \in Pemakai : Menggambar(v) =>
        /\ BerkasMilik(v) /\ v # u /\ layar'[v] = layar[v]
        /\ layar[v].lama \in Nat /\ layar[v].baru \in Nat
        /\ layar[v].lama <= tulis /\ layar[v].baru <= tulis
  BY <1>1, <1>2, <1>3, GambarTipe DEF InvFoto, BerkasMilik
<1>7. ASSUME NEW v \in Pemakai, Menggambar(v)'
      PROVE  BerkasMilik(v)'
  <2>1. CASE v = u
    <3>1. layar'[u].lama <= tulis' /\ baru <= tulis'
      BY <1>1, <1>3, <1>4, <1>5
    <3>2. \A c \in Baris : layar'[u].lama # 0 /\ Foto(c)' = layar'[u].lama => c = layar'[u].id
      BY <1>3, <1>4, <1>5 DEF InvFoto
    <3>3. baru # 0 => baru \in berkas' /\ \A c \in Baris : Foto(c)' # baru
      BY <1>1, <1>3, <1>4
    <3> QED
      BY <2>1, <3>1, <3>2, <3>3 DEF BerkasMilik
  <2>2. CASE v # u
    <3>1. Menggambar(v) /\ layar'[v] = layar[v]
      BY <1>3, <1>7, <2>2 DEF Menggambar
    <3>2. layar[v].lama <= tulis' /\ layar[v].baru <= tulis'
      BY <1>1, <1>6, <3>1
    <3> QED
      BY <1>3, <1>4, <1>6, <3>1, <3>2 DEF BerkasMilik
  <2> QED
    BY <2>1, <2>2
<1>8. ASSUME NEW v \in Pemakai, NEW w \in Pemakai, Menggambar(v)', Menggambar(w)',
             layar'[v].baru # 0
      PROVE  layar'[v].baru # layar'[w].lama /\ (v # w => layar'[v].baru # layar'[w].baru)
  <2>1. \A x \in Pemakai \ {u} : Menggambar(x)' => Menggambar(x)
    BY <1>3 DEF Menggambar
  <2>2. CASE v = u
    BY <1>1, <1>3, <1>4, <1>5, <1>6, <1>8, <2>1, <2>2
  <2>3. CASE v # u /\ w = u
    BY <1>1, <1>3, <1>4, <1>5, <1>6, <1>8, <2>1, <2>3 DEF BerkasMilik
  <2>4. CASE v # u /\ w # u
    BY <1>6, <1>8, <2>1, <2>4 DEF InvFoto
  <2> QED
    BY <2>2, <2>3, <2>4
<1>9. FotoAda'
  <2>1. DaftarProduk' = DaftarProduk /\ berkas \subseteq berkas'
    BY <1>2, <1>3 DEF DaftarProduk, Hidup, Ada
  <2>2. \A v \in Pemakai : layar[v].tahap = "pasang" => layar'[v] = layar[v]
    BY <1>2, <1>3
  <2> QED
    BY <1>2, <2>1, <2>2 DEF InvFoto, FotoAda
<1> QED
  BY <1>1, <1>4, <1>7, <1>8, <1>9 DEF InvFoto

\* The old file is taken away: nobody else's photo, and no file that waits.
LEMMA HapusBerkasInv ==
  ASSUME InvKatalog, InvFoto, NEW u \in Pemakai, HapusBerkas(u)
  PROVE  InvFoto'
<1>1. TypeKatalog /\ Menggambar(u) /\ layar[u].tahap = "unggah"
  BY DEF InvKatalog, HapusBerkas, Menggambar
<1>2. layar[u] \in Gambar
  BY <1>1, BentukLayar DEF TypeKatalog, Layar
<1>3. /\ layar'[u].tahap = "pasang" /\ layar'[u].id = layar[u].id
      /\ layar'[u].lama = layar[u].lama /\ layar'[u].baru = layar[u].baru
      /\ \A v \in Pemakai \ {u} : layar'[v] = layar[v]
  BY <1>1, <1>2 DEF HapusBerkas, Tampil, TypeKatalog, Gambar
<1>4. berkas' = berkas \ {layar[u].lama} /\ UNCHANGED <<jenis, tabel, tulis, cacat>>
  BY DEF HapusBerkas
<1>5. \A c \in Baris : Foto(c)' = Foto(c)
  BY <1>4 DEF Foto, Ada
<1>6. \A v \in Pemakai : /\ Menggambar(v)' => Menggambar(v)
                         /\ Menggambar(v) => /\ layar'[v].id = layar[v].id
                                             /\ layar'[v].lama = layar[v].lama
                                             /\ layar'[v].baru = layar[v].baru
  BY <1>1, <1>3 DEF Menggambar
<1>7. ASSUME NEW v \in Pemakai, Menggambar(v)'
      PROVE  BerkasMilik(v)'
  <2>1. BerkasMilik(v) /\ Menggambar(v)
    BY <1>6, <1>7 DEF InvFoto
  <2>2. layar[v].baru # 0 => layar[v].baru # layar[u].lama
    BY <1>1, <2>1 DEF InvFoto
  <2> QED
    BY <1>4, <1>5, <1>6, <2>1, <2>2 DEF BerkasMilik
<1>8. FotoAda'
  <2> SUFFICES ASSUME NEW b \in DaftarProduk', tabel'[b].foto # 0, tabel'[b].foto \notin berkas'
               PROVE  \/ b \in cacat'
                      \/ \E v \in Pemakai : /\ layar'[v].tahap = "pasang" /\ layar'[v].id = b
                                            /\ layar'[v].lama = tabel'[b].foto
    BY DEF FotoAda
  <2>1. b \in DaftarProduk /\ b \in Baris /\ Ada(b) /\ tabel[b].foto # 0
    BY <1>4 DEF DaftarProduk, Hidup, Ada
  <2>2. Foto(b) = tabel[b].foto
    BY <2>1 DEF Foto
  <2>3. CASE tabel[b].foto = layar[u].lama
    BY <1>1, <1>3, <1>4, <2>1, <2>2, <2>3 DEF InvFoto, BerkasMilik
  <2>4. CASE tabel[b].foto # layar[u].lama
    <3>1. tabel[b].foto \notin berkas
      BY <1>4, <2>4
    <3>2. \A v \in Pemakai : layar[v].tahap = "pasang" => layar'[v] = layar[v]
      BY <1>1, <1>3
    <3> QED
      BY <1>4, <2>1, <3>1, <3>2 DEF InvFoto, FotoAda
  <2> QED
    BY <2>3, <2>4
<1> QED
  BY <1>4, <1>5, <1>6, <1>7, <1>8 DEF InvFoto

\* The request ends, whatever it has done to its row and its new file.
LEMMA SelesaiFoto ==
  ASSUME TypeKatalog, NEW u \in Pemakai, Menggambar(u), KeDaftar(u)
  PROVE  /\ ~Menggambar(u)'
         /\ \A v \in Pemakai \ {u} : layar'[v] = layar[v] /\ (Menggambar(v)' => Menggambar(v))
BY DEF TypeKatalog, KeDaftar, Tampil, Menggambar

LEMMA PasangInv ==
  ASSUME InvKatalog, InvFoto, NEW u \in Pemakai, PasangFoto(u)
  PROVE  InvFoto'
<1> DEFINE g == layar[u]
<1>1. TypeKatalog /\ Menggambar(u) /\ g.tahap = "pasang" /\ KeDaftar(u)
  BY DEF InvKatalog, PasangFoto, Menggambar
<1>2. g.id \in Baris /\ g.lama \in Nat /\ g.baru \in Nat /\ BerkasMilik(u)
  BY <1>1, GambarTipe DEF InvFoto
<1>3. UNCHANGED <<jenis, tulis, cacat>>
  BY DEF PasangFoto
<1>4. /\ ~Menggambar(u)'
      /\ \A v \in Pemakai \ {u} : layar'[v] = layar[v] /\ (Menggambar(v)' => Menggambar(v))
  BY <1>1, SelesaiFoto
<1>5. \A v, w \in Pemakai : Menggambar(v)' /\ Menggambar(w)' /\ layar'[v].baru # 0 =>
        layar'[v].baru # layar'[w].lama /\ (v # w => layar'[v].baru # layar'[w].baru)
  BY <1>4 DEF InvFoto
<1>6. CASE Hidup(g.id)
  <2> DEFINE r == [tabel[g.id] EXCEPT !.foto = g.baru]
  <2>1. tabel[g.id] \in Rekam /\ Ada(g.id)
    BY <1>1, <1>2, <1>6, AdaRekam DEF Hidup
  <2>2. r \in Rekam /\ r.versi = tabel[g.id].versi /\ r.foto = g.baru /\ r.hapus = tabel[g.id].hapus
    BY <1>2, <2>1 DEF Rekam
  <2>3. Ubah(g.id, r) /\ berkas' = berkas
    BY <1>6 DEF PasangFoto
  <2> HIDE DEF r
  <2>4. /\ \A c \in Baris \ {g.id} : tabel'[c] = tabel[c]
        /\ tabel'[g.id].foto = g.baru /\ tabel'[g.id] \in Rekam
    BY <1>1, <1>2, <1>3, <2>1, <2>2, <2>3, UbahMaju
  <2>5. \A c \in Baris : Foto(c)' = IF c = g.id THEN g.baru ELSE Foto(c)
    BY <2>4, RekamAda DEF Foto, Ada
  <2> HIDE DEF g
  <2>6. \A c \in Baris : Foto(c)' <= tulis'
    BY <1>2, <1>3, <2>5 DEF InvFoto, BerkasMilik, g
  <2>7. \A b, c \in Baris : Foto(b)' # 0 /\ Foto(b)' = Foto(c)' => b = c
    BY <1>2, <2>5 DEF InvFoto, BerkasMilik, g
  <2>8. ASSUME NEW v \in Pemakai, Menggambar(v)'
        PROVE  BerkasMilik(v)'
    <3>1. v # u /\ Menggambar(v) /\ layar'[v] = layar[v] /\ BerkasMilik(v)
      BY <1>4, <2>8 DEF InvFoto
    <3>2. /\ g.baru # 0 => g.baru # layar[v].lama /\ g.baru # layar[v].baru
          /\ layar[v].baru # 0 => layar[v].baru # g.baru
      BY <1>1, <3>1 DEF InvFoto, g
    <3> QED
      BY <1>2, <1>3, <2>3, <2>5, <3>1, <3>2 DEF BerkasMilik
  <2>9. FotoAda'
    <3> SUFFICES ASSUME NEW b \in DaftarProduk', tabel'[b].foto # 0, tabel'[b].foto \notin berkas'
                 PROVE  \/ b \in cacat'
                        \/ \E v \in Pemakai : /\ layar'[v].tahap = "pasang" /\ layar'[v].id = b
                                              /\ layar'[v].lama = tabel'[b].foto
      BY DEF FotoAda
    <3>1. b \in Baris /\ b # g.id
      BY <1>2, <2>3, <2>4 DEF DaftarProduk, BerkasMilik, g
    <3>2. tabel'[b] = tabel[b] /\ b \in DaftarProduk
      BY <2>4, <3>1 DEF DaftarProduk, Hidup, Ada
    <3>3. \A v \in Pemakai : layar[v].id = b => v # u
      BY <3>1 DEF g
    <3> QED
      BY <1>3, <1>4, <2>3, <3>2, <3>3 DEF InvFoto, FotoAda
  <2> QED
    BY <1>5, <2>6, <2>7, <2>8, <2>9 DEF InvFoto
<1>7. CASE ~Hidup(g.id)
  <2>1. berkas' = berkas \ {g.baru} /\ tabel' = tabel
    BY <1>7 DEF PasangFoto
  <2>2. \A c \in Baris : Foto(c)' = Foto(c)
    BY <2>1 DEF Foto, Ada
  <2> HIDE DEF g
  <2>3. ASSUME NEW v \in Pemakai, Menggambar(v)'
        PROVE  BerkasMilik(v)'
    <3>1. v # u /\ Menggambar(v) /\ layar'[v] = layar[v] /\ BerkasMilik(v)
      BY <1>4, <2>3 DEF InvFoto
    <3>2. layar[v].baru # 0 => layar[v].baru # g.baru
      BY <1>1, <3>1 DEF InvFoto, g
    <3> QED
      BY <1>3, <2>1, <2>2, <3>1, <3>2 DEF BerkasMilik
  <2>4. FotoAda'
    <3> SUFFICES ASSUME NEW b \in DaftarProduk', tabel'[b].foto # 0, tabel'[b].foto \notin berkas'
                 PROVE  \/ b \in cacat'
                        \/ \E v \in Pemakai : /\ layar'[v].tahap = "pasang" /\ layar'[v].id = b
                                              /\ layar'[v].lama = tabel'[b].foto
      BY DEF FotoAda
    <3>1. b \in Baris /\ Hidup(b) /\ b \in DaftarProduk /\ Ada(b) /\ tabel[b].foto # 0
      BY <2>1 DEF DaftarProduk, Hidup, Ada
    <3>2. tabel[b].foto # g.baru
      BY <1>2, <3>1 DEF BerkasMilik, Foto, g
    <3>3. tabel[b].foto \notin berkas
      BY <2>1, <3>2
    <3>4. \A v \in Pemakai : layar[v].id = b => v # u
      BY <1>7, <3>1 DEF g
    <3> QED
      BY <1>3, <1>4, <2>1, <3>1, <3>3, <3>4 DEF InvFoto, FotoAda
  <2> QED
    BY <1>3, <1>5, <2>2, <2>3, <2>4 DEF InvFoto
<1> QED
  BY <1>6, <1>7

LEMMA GagalInv ==
  ASSUME InvKatalog, InvFoto, NEW u \in Pemakai, GagalFoto(u)
  PROVE  InvFoto'
<1> DEFINE g == layar[u]
<1>1. TypeKatalog /\ Menggambar(u) /\ KeDaftar(u)
  BY DEF InvKatalog, GagalFoto, Menggambar
<1>2. BerkasMilik(u)
  BY <1>1 DEF InvFoto
<1>3. /\ UNCHANGED <<jenis, tabel, tulis>> /\ (berkas' = berkas \/ berkas' = berkas \ {g.baru})
      /\ cacat \subseteq cacat' /\ (g.tahap = "pasang" => g.id \in cacat')
  BY DEF GagalFoto
<1>4. /\ ~Menggambar(u)'
      /\ \A v \in Pemakai \ {u} : layar'[v] = layar[v] /\ (Menggambar(v)' => Menggambar(v))
  BY <1>1, SelesaiFoto
<1>5. \A v, w \in Pemakai : Menggambar(v)' /\ Menggambar(w)' /\ layar'[v].baru # 0 =>
        layar'[v].baru # layar'[w].lama /\ (v # w => layar'[v].baru # layar'[w].baru)
  BY <1>4 DEF InvFoto
<1>6. \A c \in Baris : Foto(c)' = Foto(c)
  BY <1>3 DEF Foto, Ada
<1>7. ASSUME NEW v \in Pemakai, Menggambar(v)'
      PROVE  BerkasMilik(v)'
  <2>1. v # u /\ Menggambar(v) /\ layar'[v] = layar[v] /\ BerkasMilik(v)
    BY <1>4, <1>7 DEF InvFoto
  <2>2. layar[v].baru # 0 => layar[v].baru # g.baru
    BY <1>1, <2>1 DEF InvFoto
  <2> QED
    BY <1>3, <1>6, <2>1, <2>2 DEF BerkasMilik
<1>8. FotoAda'
  <2> SUFFICES ASSUME NEW b \in DaftarProduk', tabel'[b].foto # 0, tabel'[b].foto \notin berkas'
               PROVE  \/ b \in cacat'
                      \/ \E v \in Pemakai : /\ layar'[v].tahap = "pasang" /\ layar'[v].id = b
                                            /\ layar'[v].lama = tabel'[b].foto
    BY DEF FotoAda
  <2>1. b \in Baris /\ b \in DaftarProduk /\ Ada(b) /\ tabel[b].foto # 0
    BY <1>3 DEF DaftarProduk, Hidup, Ada
  <2>2. tabel[b].foto # g.baru
    BY <1>2, <2>1 DEF BerkasMilik, Foto
  <2>3. tabel[b].foto \notin berkas
    BY <1>3, <2>2
  <2> QED
    BY <1>3, <1>4, <2>1, <2>3 DEF InvFoto, FotoAda
<1> QED
  BY <1>3, <1>5, <1>6, <1>7, <1>8 DEF InvFoto

-----------------------------------------------------------------------------
LEMMA ProdukFoto ==
  ASSUME InvKatalog, InvKatalog', InvFoto, NEW u \in Pemakai, Produk(u)
  PROVE  InvFoto'
<1>1. TypeKatalog /\ TypeKatalog'
  BY DEF InvKatalog
<1>2. CASE IndexProduk(u) \/ BaruProduk(u) \/ TambahProduk(u) \/ SimpanProduk(u)
  <2>1. FotoTetap
    BY <1>1, <1>2, LihatFoto, IsiFoto, TambahFoto, SimpanDisimpan, SimpanFoto
       DEF IndexProduk, BaruProduk, TambahProduk
  <2> QED
    BY <1>1, <2>1, FotoTetapAman
<1>3. CASE HapusBerkas(u) \/ PasangFoto(u) \/ GagalFoto(u)
  BY <1>3, HapusBerkasInv, PasangInv, GagalInv
<1>4. ASSUME NEW b \in Baris, EditProduk(u, b) \/ HapusProduk(u, b)
      PROVE  InvFoto'
  <2>1. FotoTetap
    BY <1>1, <1>4, SuntingFoto, BuangFotoTetap DEF EditProduk, HapusProduk
  <2> QED
    BY <1>1, <2>1, FotoTetapAman
<1>5. ASSUME NEW b \in Baris, UnggahFoto(u, b) \/ BuangFoto(u, b)
      PROVE  InvFoto'
  BY <1>5, UnggahInv
<1>6. ASSUME NEW k \in Kode, PeriksaTambahProduk(u, k) \/ PeriksaUbahProduk(u, k)
      PROVE  InvFoto'
  <2>1. FotoTetap
    BY <1>1, <1>6, LolosFoto DEF PeriksaTambahProduk, PeriksaUbahProduk
  <2> QED
    BY <1>1, <2>1, FotoTetapAman
<1> QED
  BY <1>2, <1>3, <1>4, <1>5, <1>6 DEF Produk

LEMMA FotoLangkah ==
  ASSUME InvKatalog, InvFoto, [NextKatalog]_varsKatalog
  PROVE  InvFoto'
<1>1. InvKatalog'
  BY KatalogLangkah
<1>2. TypeKatalog /\ TypeKatalog'
  BY <1>1 DEF InvKatalog
<1>3. CASE UNCHANGED varsKatalog
  <2>1. FotoTetap
    BY <1>2, <1>3 DEF varsKatalog, FotoTetap, Foto, Ada, Hidup, TypeKatalog
  <2> QED
    BY <1>2, <2>1, FotoTetapAman
<1>4. CASE NextKatalog
  <2>1. ASSUME NEW u \in Pemakai, Produk(u)
        PROVE  InvFoto'
    BY <1>1, <2>1, ProdukFoto
  <2>2. ASSUME NEW u \in Pemakai,
               \/ Mitra(u) \/ Supplier(u) \/ Gudang(u) \/ Satuan(u)
               \/ Diskon(u) \/ Kas(u) \/ Harga(u) \/ Tautan(u)
        PROVE  InvFoto'
    <3>1. FotoTetap
      BY <2>2, SelainProdukFoto
    <3> QED
      BY <1>2, <3>1, FotoTetapAman
  <2> QED
    BY <1>4, <2>1, <2>2 DEF NextKatalog
<1> QED
  BY <1>3, <1>4

\* The file a product's photo names is there, but for a request that has removed
\* it and not stored its own yet, and for an upload that broke off there.
THEOREM KatalogFotoAda == SpecKatalog => []FotoAda
<1>1. InitKatalog => InvFoto
  BY DEF InitKatalog, InvFoto, Foto, Ada, Menggambar, FotoAda, DaftarProduk, Hidup
<1>2. InvKatalog /\ InvFoto /\ [NextKatalog]_varsKatalog => InvFoto'
  BY FotoLangkah
<1>3. InvFoto => FotoAda
  BY DEF InvFoto
<1> QED
  BY <1>1, <1>2, <1>3, KatalogInvarian, PTL DEF SpecKatalog

-----------------------------------------------------------------------------
(* Pengaturan *)

Permohonan ==
  {Senggang} \cup MohonTulis \cup MohonGrup \cup MohonBersih \cup MohonCSV \cup MohonLoop

\* What a request may look like, one clause per step.
LEMMA BentukMohon ==
  ASSUME NEW m \in Permohonan
  PROVE  /\ m.langkah = "tulis" => m \in MohonTulis
         /\ m.langkah = "cari" => m \in MohonGrup
         /\ m.langkah = "bersih" => m \in MohonBersih
         /\ m.langkah \in {"cek", "sisip"} => m \in MohonCSV
         /\ m.langkah \in {"gudang", "kasir"} => m \in MohonLoop
BY DEF Permohonan, Senggang, MohonTulis, MohonGrup, MohonBersih, MohonCSV, MohonLoop

\* A row is not the absence of one.
LEMMA TemplatAda ==
  ASSUME NEW r \in BarisTemplat
  PROVE  r # TanpaTemplat
<1>1. "grup" \in DOMAIN r
  BY DEF BarisTemplat
<1>2. "grup" \notin DOMAIN TanpaTemplat
  BY DEF TanpaTemplat
<1> QED
  BY <1>1, <1>2

LEMMA AdaTemplatBaris ==
  ASSUME TypePengaturan, NEW t \in Templat
  PROVE  AdaTemplat(t) <=> templat[t] \in BarisTemplat
BY TemplatAda DEF TypePengaturan, AdaTemplat

\* One request goes on to a new step, the others stay where they are.
LEMMA MohonSatu ==
  ASSUME TypePengaturan, NEW p \in Slot, NEW m \in Permohonan, Jadi(p, m)
  PROVE  /\ mohon' \in [Slot -> Permohonan]
         /\ mohon'[p] = m
         /\ \A q \in Slot \ {p} : mohon'[q] = mohon[q]
BY DEF TypePengaturan, Permohonan, Jadi

LEMMA SenggangBoleh == Senggang \in Permohonan /\ Senggang.langkah = "senggang"
BY DEF Senggang, Permohonan

\* One request goes on from m to n, neither in the middle of SetDefault.
Maju1(p) ==
  /\ mohon' \in [Slot -> Permohonan]
  /\ \A q \in Slot \ {p} : mohon'[q] = mohon[q]

\* What the wizard relies on, when one request goes on and no warehouse is lost.
LEMMA WizardMaju ==
  ASSUME InvPengaturan, NEW p \in Slot, Maju1(p), cabang.ada \subseteq cabang'.ada,
         mohon'[p].langkah \in {"gudang", "kasir"} => mohon'[p].sisa \subseteq cabang'.ada,
         mohon'[p].langkah = "sisip" => mohon'[p].ke <= MaxBaris
  PROVE  WizardUtuh'
<1> SUFFICES ASSUME NEW q \in Slot
             PROVE  /\ mohon'[q].langkah \in {"gudang", "kasir"} => mohon'[q].sisa \subseteq cabang'.ada
                    /\ mohon'[q].langkah = "sisip" => mohon'[q].ke <= MaxBaris
  BY DEF WizardUtuh
<1>1. CASE q = p
  BY <1>1
<1>2. CASE q # p
  BY <1>2 DEF InvPengaturan, WizardUtuh, Maju1
<1> QED
  BY <1>1, <1>2

\* A step that leaves the templates alone and is not about a SetDefault.
LEMMA TemplatDiam ==
  ASSUME InvPengaturan, UNCHANGED varsTemplat, NEW p \in Slot, Maju1(p),
         mohon[p].langkah \notin {"cari", "bersih"}, mohon'[p].langkah # "bersih"
  PROVE  KunciTemplat' /\ BersihLengkap' /\ DefaultTunggal'
<1>1. \A q \in Slot : mohon'[q].langkah = "bersih" => mohon'[q] = mohon[q]
  BY DEF Maju1
<1>2. \A q \in Slot : mohon[q].langkah \in {"cari", "bersih"} => mohon'[q] = mohon[q]
  BY DEF Maju1
<1>3. KunciTemplat'
  BY <1>1 DEF InvPengaturan, KunciTemplat, varsTemplat, AdaTemplat
<1>4. BersihLengkap'
  BY <1>1 DEF InvPengaturan, BersihLengkap, varsTemplat, AdaTemplat
<1>5. DefaultTunggal'
  BY <1>2 DEF InvPengaturan, DefaultTunggal, varsTemplat, Bawaan, AdaTemplat
<1> QED
  BY <1>3, <1>4, <1>5

\* A step of the wizard or of a form that saves nothing yet.
LEMMA LangkahLain ==
  ASSUME InvPengaturan, UNCHANGED varsTemplat, TypePengaturan', NEW p \in Slot, Maju1(p),
         mohon[p].langkah \notin {"cari", "bersih"}, mohon'[p].langkah # "bersih",
         cabang.ada \subseteq cabang'.ada,
         mohon'[p].langkah \in {"gudang", "kasir"} => mohon'[p].sisa \subseteq cabang'.ada,
         mohon'[p].langkah = "sisip" => mohon'[p].ke <= MaxBaris
  PROVE  InvPengaturan'
BY WizardMaju, TemplatDiam DEF InvPengaturan

-----------------------------------------------------------------------------
(* The wizard *)

\* A new request, and the steps that write a setting.
LEMMA LangkahSetelan ==
  ASSUME InvPengaturan, NEW p \in Slot,
         SimpanToko(p) \/ SimpanPajak(p) \/ SimpanSMTP(p) \/ SelesaiWizard(p)
  PROVE  InvPengaturan'
<1>1. /\ mohon' = mohon /\ UNCHANGED <<bagian, varsTemplat, cabang, barang, kasir, dilaporkan, luput>>
      /\ mohonKe' = mohonKe + 1 /\ mohon[p] = Senggang
  BY DEF SimpanToko, SimpanPajak, SimpanSMTP, SelesaiWizard, SimpanSetelan, Datang
<1>2. setelan' \in [KunciSetelan \cup {"onboarding_done"} -> Nat]
  <2>1. mohonKe + 1 \in Nat /\ 1 \in Nat
    BY DEF InvPengaturan, TypePengaturan
  <2>2. PICK k \in KunciSetelan \cup {"onboarding_done"}, n \in Nat :
          setelan' = [setelan EXCEPT ![k] = n]
    BY <2>1 DEF SimpanToko, SimpanPajak, SimpanSMTP, SelesaiWizard, SimpanSetelan, Atur,
       KunciSetelan
  <2> QED
    BY <2>2 DEF InvPengaturan, TypePengaturan
<1>3. TypePengaturan'
  BY <1>1, <1>2 DEF InvPengaturan, TypePengaturan, varsTemplat
<1>4. Maju1(p)
  BY <1>1 DEF InvPengaturan, TypePengaturan, Maju1, Permohonan
<1>5. mohon[p].langkah = "senggang" /\ mohon'[p].langkah = "senggang"
  BY <1>1, SenggangBoleh
<1> QED
  BY <1>1, <1>3, <1>4, <1>5, LangkahLain

\* Steps of the wizard that only begin or go on with a request.
LEMMA LangkahBaca ==
  ASSUME InvPengaturan, NEW p \in Slot, NEW m \in Permohonan, Jadi(p, m),
         UNCHANGED <<bagian, varsTemplat, varsWizard>>, mohonKe' \in Nat,
         mohon[p].langkah \notin {"cari", "bersih"}, m.langkah # "bersih",
         m.langkah \in {"gudang", "kasir"} => m.sisa \subseteq cabang.ada,
         m.langkah = "sisip" => m.ke <= MaxBaris
  PROVE  InvPengaturan'
<1>1. Maju1(p) /\ mohon'[p] = m
  BY MohonSatu DEF InvPengaturan, Maju1
<1>2. TypePengaturan'
  BY <1>1 DEF InvPengaturan, TypePengaturan, varsTemplat, varsWizard, Maju1, Permohonan
<1>3. UNCHANGED varsTemplat /\ cabang' = cabang
  BY DEF varsWizard
<1> QED
  BY <1>1, <1>2, <1>3, LangkahLain

LEMMA LangkahMulaiCabang ==
  ASSUME InvPengaturan, NEW p \in Slot, MulaiCabang(p)
  PROVE  InvPengaturan'
<1> DEFINE m == [langkah |-> "gudang", sisa |-> cabang.ada, dibuat |-> {}]
<1>1. m \in Permohonan
  BY DEF InvPengaturan, TypePengaturan, Permohonan, MohonLoop
<1>2. mohon[p].langkah = "senggang" /\ mohonKe' \in Nat
  BY SenggangBoleh DEF MulaiCabang, Datang, InvPengaturan, TypePengaturan
<1> QED
  BY <1>1, <1>2, LangkahBaca DEF MulaiCabang, Datang

LEMMA LangkahMulaiKasir ==
  ASSUME InvPengaturan, NEW p \in Slot, MulaiKasir(p)
  PROVE  InvPengaturan'
<1> DEFINE m == [langkah |-> "kasir", sisa |-> cabang.buka, dibuat |-> {}]
<1>1. m \in Permohonan /\ m.sisa \subseteq cabang.ada
  BY DEF InvPengaturan, TypePengaturan, Permohonan, MohonLoop
<1>2. mohon[p].langkah = "senggang" /\ mohonKe' \in Nat
  BY SenggangBoleh DEF MulaiKasir, Datang, InvPengaturan, TypePengaturan
<1> QED
  BY <1>1, <1>2, LangkahBaca DEF MulaiKasir, Datang

LEMMA LangkahMulaiCSV ==
  ASSUME InvPengaturan, NEW p \in Slot, NEW teks \in [1..MaxBaris -> Sku], MulaiCSV(p, teks)
  PROVE  InvPengaturan'
<1> DEFINE m == [langkah |-> "cek", teks |-> teks, ke |-> 1, masuk |-> 0]
<1>1. m \in Permohonan
  BY PengaturanAssumption DEF Permohonan, MohonCSV
<1>2. mohon[p].langkah = "senggang" /\ mohonKe' \in Nat
  BY SenggangBoleh DEF MulaiCSV, Datang, InvPengaturan, TypePengaturan
<1> QED
  BY <1>1, <1>2, LangkahBaca DEF MulaiCSV, Datang

\* The shape of a request that reads a text, and of one that goes through warehouses.
LEMMA BentukCSV ==
  ASSUME InvPengaturan, NEW p \in Slot, mohon[p].langkah \in {"cek", "sisip"}
  PROVE  mohon[p] \in MohonCSV
BY BentukMohon DEF InvPengaturan, TypePengaturan, Permohonan

LEMMA BentukLoop ==
  ASSUME InvPengaturan, NEW p \in Slot, mohon[p].langkah \in {"gudang", "kasir"}
  PROVE  mohon[p] \in MohonLoop /\ mohon[p].sisa \subseteq cabang.ada
BY BentukMohon DEF InvPengaturan, TypePengaturan, Permohonan, WizardUtuh

LEMMA LangkahCekBaris ==
  ASSUME InvPengaturan, NEW p \in Slot, CekBaris(p)
  PROVE  InvPengaturan'
<1> DEFINE m == mohon[p]
           a == [m EXCEPT !.ke = @ + 1]
           b == [m EXCEPT !.langkah = "sisip"]
<1>1. m \in MohonCSV /\ m.langkah = "cek" /\ m.ke <= MaxBaris
  BY BentukCSV DEF CekBaris
<1>2. a \in MohonCSV /\ b \in MohonCSV
  BY <1>1, PengaturanAssumption DEF MohonCSV
<1>3. a.langkah = "cek" /\ b.langkah = "sisip" /\ b.ke = m.ke
  BY <1>1 DEF MohonCSV
<1>4. a \in Permohonan /\ b \in Permohonan
  BY <1>2 DEF Permohonan
<1>5. mohonKe' \in Nat /\ UNCHANGED <<bagian, varsTemplat, varsWizard>>
  BY DEF CekBaris, Lanjutan, InvPengaturan, TypePengaturan
<1>6. Jadi(p, a) \/ Jadi(p, b)
  BY DEF CekBaris
<1> HIDE DEF a, b
<1> QED
  BY <1>1, <1>3, <1>4, <1>5, <1>6, LangkahBaca

LEMMA LangkahSisipBarisCSV ==
  ASSUME InvPengaturan, NEW p \in Slot, SisipBaris(p)
  PROVE  InvPengaturan'
<1> DEFINE m == mohon[p]
<1>1. m \in MohonCSV /\ m.langkah = "sisip" /\ m.ke <= MaxBaris
  BY BentukCSV DEF SisipBaris, InvPengaturan, WizardUtuh
<1>2. PICK n \in {0, 1} : BarisBerikut(p, n)
  BY DEF SisipBaris
<1> DEFINE a == [m EXCEPT !.langkah = "cek", !.ke = @ + 1, !.masuk = @ + n]
           k == m.ke + 1
           j == m.masuk + n
<1>3. j \in Nat /\ k \in 1..(MaxBaris + 1) /\ m.teks \in [1..MaxBaris -> Sku]
  BY <1>1, <1>2, PengaturanAssumption DEF MohonCSV
<1>4. a = [langkah |-> "cek", teks |-> m.teks, ke |-> k, masuk |-> j]
  <2>1. m = [langkah |-> m.langkah, teks |-> m.teks, ke |-> m.ke, masuk |-> m.masuk]
    BY <1>1 DEF MohonCSV
  <2>2. a = [m EXCEPT !.langkah = "cek", !.ke = k, !.masuk = j]
    OBVIOUS
  <2> HIDE DEF a, j, k
  <2> QED
    BY <2>1, <2>2, Zenon
<1> HIDE DEF j, k
<1>5. a \in MohonCSV
  BY <1>3, <1>4 DEF MohonCSV
<1>6. a.langkah = "cek" /\ a \in Permohonan
  BY <1>1, <1>5 DEF MohonCSV, Permohonan
<1>7. Jadi(p, a)
  BY <1>2 DEF BarisBerikut
<1> HIDE DEF a
<1>8. Maju1(p) /\ mohon'[p] = a
  BY <1>6, <1>7, MohonSatu DEF InvPengaturan, Maju1
<1>9. barang' \subseteq Sku /\ luput' \in Nat
  BY <1>1, PengaturanAssumption DEF SisipBaris, InvPengaturan, TypePengaturan, MohonCSV
<1>10. TypePengaturan'
  BY <1>8, <1>9 DEF SisipBaris, Lanjutan, InvPengaturan, TypePengaturan, varsTemplat, Maju1, Permohonan
<1>11. UNCHANGED varsTemplat /\ cabang' = cabang
  BY DEF SisipBaris
<1> QED
  BY <1>1, <1>6, <1>8, <1>10, <1>11, LangkahLain

LEMMA LangkahLaporCSV ==
  ASSUME InvPengaturan, NEW p \in Slot, LaporCSV(p) \/ PutusCSV(p)
  PROVE  InvPengaturan'
<1>1. mohon[p] \in MohonCSV /\ mohon[p].langkah \in {"cek", "sisip"}
  BY BentukCSV DEF LaporCSV, PutusCSV
<1>2. Maju1(p) /\ mohon'[p] = Senggang
  BY MohonSatu, SenggangBoleh DEF LaporCSV, PutusCSV, Usai, InvPengaturan, Maju1
<1>3. dilaporkan' \in Nat /\ luput' \in Nat
  BY <1>1 DEF LaporCSV, PutusCSV, InvPengaturan, TypePengaturan, MohonCSV
<1>4. TypePengaturan'
  BY <1>2, <1>3
  DEF LaporCSV, PutusCSV, Lanjutan, InvPengaturan, TypePengaturan, varsTemplat, Maju1, Permohonan
<1>5. UNCHANGED varsTemplat /\ cabang' = cabang
  BY DEF LaporCSV, PutusCSV
<1> QED
  BY <1>1, <1>2, <1>4, <1>5, SenggangBoleh, LangkahLain

LEMMA LangkahUbahCabang ==
  ASSUME InvPengaturan, NEW p \in Slot, UbahCabang(p)
  PROVE  InvPengaturan'
<1> DEFINE m == mohon[p]
<1>1. m \in MohonLoop /\ m.sisa \subseteq cabang.ada /\ m.langkah = "gudang"
  BY BentukLoop DEF UbahCabang
<1>2. PICK c \in m.sisa :
        /\ cabang' \in {[cabang EXCEPT !.buka = @ \cup {c}], [cabang EXCEPT !.buka = @ \ {c}]}
        /\ Jadi(p, [m EXCEPT !.sisa = @ \ {c}])
  BY DEF UbahCabang
<1> DEFINE a == [m EXCEPT !.sisa = @ \ {c}]
<1>3. a \in MohonLoop /\ a.sisa \subseteq cabang.ada /\ a.langkah = "gudang"
  BY <1>1 DEF MohonLoop
<1>4. a \in Permohonan
  BY <1>3 DEF Permohonan
<1>5. cabang' \in [ada : SUBSET Cabang, buka : SUBSET Cabang] /\ cabang'.ada = cabang.ada
      /\ cabang'.buka \subseteq cabang'.ada
  BY <1>1, <1>2 DEF InvPengaturan, TypePengaturan
<1> HIDE DEF a
<1>6. Maju1(p) /\ mohon'[p] = a
  BY <1>2, <1>4, MohonSatu DEF InvPengaturan, Maju1, a
<1>7. TypePengaturan'
  BY <1>5, <1>6 DEF UbahCabang, Lanjutan, InvPengaturan, TypePengaturan, varsTemplat, Maju1, Permohonan
<1>8. UNCHANGED varsTemplat
  BY DEF UbahCabang
<1> QED
  BY <1>1, <1>3, <1>5, <1>6, <1>7, <1>8, LangkahLain

LEMMA LangkahTambahCabang ==
  ASSUME InvPengaturan, NEW p \in Slot, TambahCabang(p)
  PROVE  InvPengaturan'
<1>1. mohon[p].langkah = "gudang"
  BY DEF TambahCabang
<1>2. Maju1(p) /\ mohon'[p] = Senggang
  BY MohonSatu, SenggangBoleh DEF TambahCabang, Usai, InvPengaturan, Maju1
<1>3. cabang' \in [ada : SUBSET Cabang, buka : SUBSET Cabang] /\ cabang.ada \subseteq cabang'.ada
      /\ cabang'.buka \subseteq cabang'.ada
  BY DEF TambahCabang, InvPengaturan, TypePengaturan
<1>4. TypePengaturan'
  BY <1>2, <1>3 DEF TambahCabang, Lanjutan, InvPengaturan, TypePengaturan, varsTemplat, Maju1, Permohonan
<1>5. UNCHANGED varsTemplat
  BY DEF TambahCabang
<1> QED
  BY <1>1, <1>2, <1>3, <1>4, <1>5, SenggangBoleh, LangkahLain

LEMMA LangkahBuatKasir ==
  ASSUME InvPengaturan, NEW p \in Slot, BuatKasir(p)
  PROVE  InvPengaturan'
<1> DEFINE m == mohon[p]
<1>1. m \in MohonLoop /\ m.sisa \subseteq cabang.ada /\ m.langkah = "kasir"
  BY BentukLoop DEF BuatKasir
<1>2. PICK c \in m.sisa :
        \/ kasir' = kasir \cup {c} /\ Jadi(p, [m EXCEPT !.sisa = @ \ {c}, !.dibuat = @ \cup {c}])
        \/ kasir' = kasir /\ Jadi(p, [m EXCEPT !.sisa = @ \ {c}])
  BY DEF BuatKasir
<1> DEFINE b == [m EXCEPT !.sisa = @ \ {c}, !.dibuat = @ \cup {c}]
           d == [m EXCEPT !.sisa = @ \ {c}]
<1>9. PICK a \in {b, d} : Jadi(p, a)
  BY <1>2
<1>10. c \in Cabang
  BY <1>1, <1>2 DEF MohonLoop
<1>3. a \in MohonLoop /\ a.sisa \subseteq cabang.ada /\ a.langkah = "kasir"
  <2>1. b \in MohonLoop /\ b.sisa = m.sisa \ {c} /\ b.langkah = "kasir"
    BY <1>1, <1>10 DEF MohonLoop
  <2>2. d \in MohonLoop /\ d.sisa = m.sisa \ {c} /\ d.langkah = "kasir"
    BY <1>1 DEF MohonLoop
  <2> QED
    BY <1>1, <1>9, <2>1, <2>2
<1>4. a \in Permohonan
  BY <1>3 DEF Permohonan
<1>5. kasir' \subseteq cabang.ada
  BY <1>1, <1>2 DEF InvPengaturan, TypePengaturan
<1>6. Maju1(p) /\ mohon'[p] = a
  BY <1>4, <1>9, MohonSatu DEF InvPengaturan, Maju1
<1>7. TypePengaturan'
  BY <1>5, <1>6 DEF BuatKasir, Lanjutan, InvPengaturan, TypePengaturan, varsTemplat, Maju1, Permohonan
<1>8. UNCHANGED varsTemplat /\ cabang' = cabang
  BY DEF BuatKasir
<1> QED
  BY <1>1, <1>3, <1>6, <1>7, <1>8, LangkahLain

LEMMA LangkahAkhirKasir ==
  ASSUME InvPengaturan, NEW p \in Slot, AkhirKasir(p)
  PROVE  InvPengaturan'
<1>1. mohon[p].langkah = "kasir"
  BY DEF AkhirKasir
<1>2. Maju1(p) /\ mohon'[p] = Senggang
  BY MohonSatu, SenggangBoleh DEF AkhirKasir, Usai, InvPengaturan, Maju1
<1>3. setelan' \in [KunciSetelan \cup {"onboarding_done"} -> Nat]
  BY DEF AkhirKasir, InvPengaturan, TypePengaturan
<1>4. TypePengaturan'
  BY <1>2, <1>3 DEF AkhirKasir, Lanjutan, InvPengaturan, TypePengaturan, varsTemplat, Maju1, Permohonan
<1>5. UNCHANGED varsTemplat /\ cabang' = cabang
  BY DEF AkhirKasir
<1> QED
  BY <1>1, <1>2, <1>4, <1>5, SenggangBoleh, LangkahLain

LEMMA LangkahWizard ==
  ASSUME InvPengaturan, NEW p \in Slot, Wizard(p)
  PROVE  InvPengaturan'
BY LangkahSetelan, LangkahMulaiCabang, LangkahMulaiKasir, LangkahMulaiCSV, LangkahCekBaris,
   LangkahSisipBarisCSV, LangkahLaporCSV, LangkahUbahCabang, LangkahTambahCabang,
   LangkahBuatKasir, LangkahAkhirKasir DEF Wizard

-----------------------------------------------------------------------------
(* The printer templates *)

\* The shape of a request about a template.
LEMMA BentukTemplat ==
  ASSUME InvPengaturan, NEW p \in Slot
  PROVE  /\ mohon[p].langkah = "tulis" => mohon[p] \in MohonTulis
         /\ mohon[p].langkah = "cari" => mohon[p] \in MohonGrup
         /\ mohon[p].langkah = "bersih" => mohon[p] \in MohonBersih
BY BentukMohon DEF InvPengaturan, TypePengaturan, Permohonan

LEMMA LangkahBuatTemplat ==
  ASSUME InvPengaturan, NEW p \in Slot, NEW g \in Grup, NEW n \in Nama, NEW b \in BOOLEAN,
         BuatTemplat(p, g, n, b) \/ \E t \in Templat : UbahTemplat(p, t, g, n, b)
  PROVE  InvPengaturan'
<1>1. PICK t \in Templat \cup {BaruT} :
        /\ Datang(p, "templat")
        /\ Jadi(p, [langkah |-> "tulis", id |-> t, grup |-> g, nama |-> n, bawaan |-> b])
        /\ UNCHANGED <<varsTemplat, varsWizard>>
  BY DEF BuatTemplat, UbahTemplat
<1> DEFINE m == [langkah |-> "tulis", id |-> t, grup |-> g, nama |-> n, bawaan |-> b]
<1>2. m \in Permohonan
  BY DEF Permohonan, MohonTulis
<1>3. mohon[p].langkah = "senggang" /\ mohonKe' \in Nat /\ bagian' = bagian
  BY <1>1, SenggangBoleh DEF Datang, InvPengaturan, TypePengaturan
<1> QED
  BY <1>1, <1>2, <1>3, LangkahBaca

\* A save that finds its name taken or its row gone.
LEMMA LangkahBatalTulis ==
  ASSUME InvPengaturan, NEW p \in Slot, mohon[p].langkah = "tulis", Usai(p), Lanjutan,
         UNCHANGED <<varsTemplat, varsWizard>>
  PROVE  InvPengaturan'
<1>1. mohonKe' \in Nat /\ bagian' = bagian
  BY DEF Lanjutan, InvPengaturan, TypePengaturan
<1> QED
  BY <1>1, SenggangBoleh, LangkahBaca DEF Usai

\* Another request that is about group g is noticed.
LEMMA Ketahuan ==
  ASSUME InvPengaturan, NEW p \in Slot, NEW q \in Slot \ {p}, mohon[q].langkah = "bersih"
  PROVE  Bersamaan(p, mohon[q].grup)
<1>1. mohon[q] # Senggang
  BY SenggangBoleh
<1> QED
  BY <1>1 DEF Bersamaan

\* The INSERT or UPDATE of a template nobody has locked.
LEMMA TemplatDisimpan ==
  ASSUME InvPengaturan, NEW p \in Slot, mohon[p].langkah = "tulis",
         NEW r \in Templat, ~TerkunciT(r),
         templat' = [templat EXCEPT ![r] =
            [grup |-> mohon[p].grup, nama |-> mohon[p].nama, bawaan |-> mohon[p].bawaan]],
         Tandai(IF Bersamaan(p, mohon[p].grup) THEN {mohon[p].grup} ELSE {}),
         IF mohon[p].bawaan
         THEN Jadi(p, [langkah |-> "cari", id |-> r, grup |-> mohon[p].grup]) ELSE Usai(p),
         Lanjutan, UNCHANGED varsWizard
  PROVE  InvPengaturan'
<1> DEFINE m == mohon[p]
           baris == [grup |-> m.grup, nama |-> m.nama, bawaan |-> m.bawaan]
           cari == [langkah |-> "cari", id |-> r, grup |-> m.grup]
<1>1. m \in MohonTulis /\ baris \in BarisTemplat
  BY BentukTemplat DEF MohonTulis, BarisTemplat
<1>2. cari \in Permohonan /\ Senggang \in Permohonan
  BY <1>1 DEF Permohonan, MohonGrup, MohonTulis
<1>3. /\ Maju1(p)
      /\ mohon'[p] = IF m.bawaan THEN cari ELSE Senggang
  BY <1>2, MohonSatu DEF InvPengaturan, Maju1, Usai
<1>4. /\ templat' \in [Templat -> BarisTemplat \cup {TanpaTemplat}]
      /\ templat'[r] = baris
      /\ \A t \in Templat \ {r} : templat'[t] = templat[t]
  BY <1>1 DEF InvPengaturan, TypePengaturan
<1>5. terganggu' \subseteq Grup /\ terganggu \subseteq terganggu'
  BY <1>1 DEF Tandai, InvPengaturan, TypePengaturan, MohonTulis
<1>6. TypePengaturan'
  BY <1>3, <1>4, <1>5 DEF InvPengaturan, TypePengaturan, Lanjutan, varsWizard, Maju1, Permohonan
<1>7. mohon'[p].langkah \in {"cari", "senggang"} /\ cabang' = cabang
  BY <1>3 DEF Senggang, varsWizard
<1>8. WizardUtuh'
  BY <1>3, <1>7, WizardMaju
<1>9. KunciTemplat'
  <2> SUFFICES ASSUME NEW q \in Slot, mohon'[q].langkah = "bersih", NEW t \in mohon'[q].terkunci
               PROVE  AdaTemplat(t)' /\ templat'[t].grup = mohon'[q].grup
    BY DEF KunciTemplat
  <2>1. q # p /\ mohon'[q] = mohon[q]
    BY <1>3, <1>7 DEF Maju1
  <2>2. t # r /\ t \in Templat
    BY <2>1, BentukTemplat DEF TerkunciT, MohonBersih
  <2> QED
    BY <1>4, <2>1, <2>2 DEF InvPengaturan, KunciTemplat, AdaTemplat
<1>10. BersihLengkap'
  <2> SUFFICES ASSUME NEW q \in Slot, mohon'[q].langkah = "bersih",
                      mohon'[q].grup \notin terganggu',
                      NEW t \in Templat \ {mohon'[q].id},
                      AdaTemplat(t)', templat'[t].grup = mohon'[q].grup
               PROVE  t \in mohon'[q].sisa \cup mohon'[q].terkunci
    BY DEF BersihLengkap
  <2>1. q # p /\ mohon'[q] = mohon[q]
    BY <1>3, <1>7 DEF Maju1
  <2>2. mohon[q].grup # m.grup
    BY <2>1, Ketahuan DEF Tandai
  <2>3. t # r
    BY <1>4, <2>1, <2>2
  <2> QED
    BY <1>4, <1>5, <2>1, <2>3 DEF InvPengaturan, BersihLengkap, AdaTemplat
<1>11. DefaultTunggal'
  <2> SUFFICES ASSUME NEW s \in Templat, NEW t \in Templat, s # t, Bawaan(s)', Bawaan(t)',
                      templat'[s].grup = templat'[t].grup
               PROVE  \/ templat'[s].grup \in terganggu'
                      \/ \E q \in Slot : mohon'[q].langkah \in {"cari", "bersih"}
                                         /\ mohon'[q].id \in {s, t}
    BY DEF DefaultTunggal
  <2>1. CASE r \in {s, t}
    <3>1. m.bawaan
      BY <1>1, <1>4, <2>1 DEF Bawaan
    <3>2. mohon'[p] = cari
      BY <1>3, <3>1
    <3> QED
      BY <2>1, <3>2
  <2>2. CASE r \notin {s, t}
    <3>1. Bawaan(s) /\ Bawaan(t) /\ templat[s].grup = templat[t].grup
      BY <1>4, <2>2 DEF Bawaan, AdaTemplat
    <3>2. CASE templat[s].grup \in terganggu
      BY <1>4, <1>5, <2>2, <3>2
    <3>3. CASE templat[s].grup \notin terganggu
      <4>1. PICK q \in Slot : mohon[q].langkah \in {"cari", "bersih"} /\ mohon[q].id \in {s, t}
        BY <3>1, <3>3 DEF InvPengaturan, DefaultTunggal
      <4>2. mohon'[q] = mohon[q]
        BY <1>3, <4>1 DEF Maju1
      <4> QED
        BY <4>1, <4>2
    <3> QED
      BY <3>2, <3>3
  <2> QED
    BY <2>1, <2>2
<1> QED
  BY <1>6, <1>8, <1>9, <1>10, <1>11 DEF InvPengaturan

LEMMA LangkahTulisTemplat ==
  ASSUME InvPengaturan, NEW p \in Slot, SisipTemplat(p) \/ TimpaTemplat(p)
  PROVE  InvPengaturan'
<1>1. CASE SisipTemplat(p)
  <2>1. CASE NamaDipakai(mohon[p].grup, mohon[p].nama, BaruT)
    BY <1>1, <2>1, LangkahBatalTulis DEF SisipTemplat
  <2>2. CASE ~NamaDipakai(mohon[p].grup, mohon[p].nama, BaruT)
    <3>1. PICK t \in Templat :
            /\ ~AdaTemplat(t)
            /\ templat' = [templat EXCEPT ![t] =
                  [grup |-> mohon[p].grup, nama |-> mohon[p].nama, bawaan |-> mohon[p].bawaan]]
            /\ Tandai(IF Bersamaan(p, mohon[p].grup) THEN {mohon[p].grup} ELSE {})
            /\ IF mohon[p].bawaan
               THEN Jadi(p, [langkah |-> "cari", id |-> t, grup |-> mohon[p].grup]) ELSE Usai(p)
      BY <1>1, <2>2 DEF SisipTemplat
    <3>2. ~TerkunciT(t)
      BY <3>1 DEF InvPengaturan, KunciTemplat, TerkunciT
    <3> QED
      BY <1>1, <3>1, <3>2, TemplatDisimpan DEF SisipTemplat
  <2> QED
    BY <2>1, <2>2
<1>2. CASE TimpaTemplat(p)
  <2>1. mohon[p].langkah = "tulis" /\ mohon[p] \in MohonTulis /\ mohon[p].id \in Templat
    BY <1>2, BentukTemplat DEF TimpaTemplat, MohonTulis
  <2>2. PICK t \in Templat : t = mohon[p].id
    BY <2>1
  <2>3. CASE ~AdaTemplat(t) \/ NamaDipakai(mohon[p].grup, mohon[p].nama, t)
    BY <1>2, <2>1, <2>2, <2>3, LangkahBatalTulis DEF TimpaTemplat
  <2>4. CASE ~(~AdaTemplat(t) \/ NamaDipakai(mohon[p].grup, mohon[p].nama, t))
    BY <1>2, <2>1, <2>2, <2>4, TemplatDisimpan DEF TimpaTemplat
  <2> QED
    BY <2>3, <2>4
<1> QED
  BY <1>1, <1>2

\* A step of SetDefault that only reads: the rows it goes through are all there.
LEMMA LangkahSetDefaultBaca ==
  ASSUME InvPengaturan, NEW p \in Slot, mohon[p].langkah \in {"cari", "bersih"},
         NEW m \in MohonBersih, Jadi(p, m), m.id = mohon[p].id,
         Lanjutan, UNCHANGED <<varsTemplat, varsWizard>>,
         \A t \in m.terkunci : AdaTemplat(t) /\ templat[t].grup = m.grup,
         m.grup \in terganggu \/
           \A t \in Templat \ {m.id} : AdaTemplat(t) /\ templat[t].grup = m.grup =>
              t \in m.sisa \cup m.terkunci
  PROVE  InvPengaturan'
<1>1. m \in Permohonan /\ m.langkah = "bersih"
  BY DEF Permohonan, MohonBersih
<1>2. Maju1(p) /\ mohon'[p] = m
  BY <1>1, MohonSatu DEF InvPengaturan, Maju1
<1>3. TypePengaturan'
  BY <1>2 DEF InvPengaturan, TypePengaturan, Lanjutan, varsTemplat, varsWizard, Maju1, Permohonan
<1>4. WizardUtuh'
  BY <1>1, <1>2, WizardMaju DEF varsWizard
<1>5. \A t \in Templat : (AdaTemplat(t)' <=> AdaTemplat(t)) /\ templat'[t] = templat[t]
  BY DEF AdaTemplat, varsTemplat
<1>6. KunciTemplat'
  <2> SUFFICES ASSUME NEW q \in Slot, mohon'[q].langkah = "bersih", NEW t \in mohon'[q].terkunci
               PROVE  AdaTemplat(t)' /\ templat'[t].grup = mohon'[q].grup
    BY DEF KunciTemplat
  <2>1. t \in Templat
    <3>1. mohon'[q] \in MohonBersih
      BY <1>2, BentukTemplat DEF Maju1
    <3> QED
      BY <3>1 DEF MohonBersih
  <2>2. CASE q = p
    BY <1>2, <1>5, <2>1, <2>2
  <2>3. CASE q # p
    BY <1>2, <1>5, <2>1, <2>3 DEF InvPengaturan, KunciTemplat, Maju1
  <2> QED
    BY <2>2, <2>3
<1>7. BersihLengkap'
  <2> SUFFICES ASSUME NEW q \in Slot, mohon'[q].langkah = "bersih",
                      mohon'[q].grup \notin terganggu,
                      NEW t \in Templat \ {mohon'[q].id},
                      AdaTemplat(t), templat[t].grup = mohon'[q].grup
               PROVE  t \in mohon'[q].sisa \cup mohon'[q].terkunci
    BY <1>5 DEF BersihLengkap, varsTemplat
  <2>1. CASE q = p
    BY <1>2, <2>1
  <2>2. CASE q # p
    BY <1>2, <2>2 DEF InvPengaturan, BersihLengkap, Maju1
  <2> QED
    BY <2>1, <2>2
<1>8. DefaultTunggal'
  <2> SUFFICES ASSUME NEW s \in Templat, NEW t \in Templat, s # t, Bawaan(s), Bawaan(t),
                      templat[s].grup = templat[t].grup, templat[s].grup \notin terganggu
               PROVE  \E q \in Slot : mohon'[q].langkah \in {"cari", "bersih"}
                                      /\ mohon'[q].id \in {s, t}
    BY <1>5 DEF DefaultTunggal, Bawaan, varsTemplat
  <2>1. PICK q \in Slot : mohon[q].langkah \in {"cari", "bersih"} /\ mohon[q].id \in {s, t}
    BY DEF InvPengaturan, DefaultTunggal
  <2>2. mohon'[q].langkah \in {"cari", "bersih"} /\ mohon'[q].id = mohon[q].id
    BY <1>1, <1>2, <2>1 DEF Maju1
  <2> QED
    BY <2>1, <2>2
<1> QED
  BY <1>3, <1>4, <1>6, <1>7, <1>8 DEF InvPengaturan

\* A request about a template ends; the pairs it answered for are marked or gone.
LEMMA LangkahUsaiTemplat ==
  ASSUME InvPengaturan, NEW p \in Slot, Usai(p), Lanjutan, UNCHANGED <<templat, varsWizard>>,
         terganggu' \subseteq Grup, terganggu \subseteq terganggu',
         mohon[p].langkah \in {"cari", "bersih"} =>
            ~AdaTemplat(mohon[p].id) \/ templat[mohon[p].id].grup \in terganggu'
  PROVE  InvPengaturan'
<1>1. Maju1(p) /\ mohon'[p] = Senggang
  BY SenggangBoleh, MohonSatu DEF InvPengaturan, Maju1, Usai
<1>2. TypePengaturan'
  BY <1>1 DEF InvPengaturan, TypePengaturan, Lanjutan, varsWizard, Maju1, Permohonan
<1>3. WizardUtuh'
  BY <1>1, SenggangBoleh, WizardMaju DEF varsWizard
<1>4. \A q \in Slot : mohon'[q].langkah = "bersih" => q # p /\ mohon'[q] = mohon[q]
  BY <1>1, SenggangBoleh DEF Maju1
<1>5. KunciTemplat'
  BY <1>4 DEF InvPengaturan, KunciTemplat, AdaTemplat
<1>6. BersihLengkap'
  <2> SUFFICES ASSUME NEW q \in Slot, mohon'[q].langkah = "bersih",
                      mohon'[q].grup \notin terganggu',
                      NEW t \in Templat \ {mohon'[q].id},
                      AdaTemplat(t), templat[t].grup = mohon'[q].grup
               PROVE  t \in mohon'[q].sisa \cup mohon'[q].terkunci
    BY DEF BersihLengkap, AdaTemplat
  <2> QED
    BY <1>4 DEF InvPengaturan, BersihLengkap
<1>7. DefaultTunggal'
  <2> SUFFICES ASSUME NEW s \in Templat, NEW t \in Templat, s # t, Bawaan(s), Bawaan(t),
                      templat[s].grup = templat[t].grup, templat[s].grup \notin terganggu'
               PROVE  \E q \in Slot : mohon'[q].langkah \in {"cari", "bersih"}
                                      /\ mohon'[q].id \in {s, t}
    BY DEF DefaultTunggal, Bawaan, AdaTemplat
  <2>1. PICK q \in Slot : mohon[q].langkah \in {"cari", "bersih"} /\ mohon[q].id \in {s, t}
    BY DEF InvPengaturan, DefaultTunggal
  <2>2. q # p
    BY <2>1 DEF Bawaan
  <2> QED
    BY <1>1, <2>1, <2>2 DEF Maju1
<1> QED
  BY <1>2, <1>3, <1>5, <1>6, <1>7 DEF InvPengaturan

LEMMA LangkahCariGrup ==
  ASSUME InvPengaturan, NEW p \in Slot, CariGrup(p)
  PROVE  InvPengaturan'
<1> DEFINE l == mohon[p]
<1>1. l.langkah = "cari" /\ l \in MohonGrup /\ l.id \in Templat
  BY BentukTemplat DEF CariGrup, MohonGrup
<1>2. PICK t0 \in Templat : t0 = l.id
  BY <1>1
<1>3. CASE AdaTemplat(t0)
  <2> DEFINE g == templat[t0].grup
             m == [langkah |-> "bersih", id |-> t0, grup |-> g,
                   sisa |-> {t \in Templat \ {t0} : AdaTemplat(t) /\ templat[t].grup = g},
                   terkunci |-> {}]
  <2>1. g \in Grup
    BY <1>3, AdaTemplatBaris DEF BarisTemplat, InvPengaturan
  <2>2. m \in MohonBersih
    BY <2>1 DEF MohonBersih
  <2>3. Jadi(p, m) /\ Lanjutan /\ UNCHANGED <<varsTemplat, varsWizard>>
    BY <1>2, <1>3 DEF CariGrup
  <2>4. \A t \in Templat \ {m.id} : AdaTemplat(t) /\ templat[t].grup = m.grup => t \in m.sisa \cup m.terkunci
    OBVIOUS
  <2>5. m.id = l.id /\ m.terkunci = {}
    BY <1>2
  <2> HIDE DEF m
  <2> QED
    BY <1>1, <2>2, <2>3, <2>4, <2>5, LangkahSetDefaultBaca
<1>4. CASE ~AdaTemplat(t0)
  <2>1. Usai(p) /\ Lanjutan /\ UNCHANGED <<varsTemplat, varsWizard>>
    BY <1>2, <1>4 DEF CariGrup
  <2>2. terganggu' = terganggu /\ terganggu \subseteq Grup
    BY <2>1 DEF varsTemplat, InvPengaturan, TypePengaturan
  <2> QED
    BY <1>2, <1>4, <2>1, <2>2, LangkahUsaiTemplat DEF varsTemplat
<1> QED
  BY <1>3, <1>4

LEMMA LangkahBersihkanSatu ==
  ASSUME InvPengaturan, NEW p \in Slot, BersihkanSatu(p)
  PROVE  InvPengaturan'
<1> DEFINE l == mohon[p]
<1>1. l.langkah = "bersih" /\ l \in MohonBersih
  BY BentukTemplat DEF BersihkanSatu
<1>2. PICK r \in l.sisa :
        Jadi(p, [l EXCEPT !.sisa = @ \ {r},
                 !.terkunci = IF AdaTemplat(r) /\ templat[r].grup = l.grup THEN @ \cup {r} ELSE @])
  BY DEF BersihkanSatu
<1> DEFINE k == IF AdaTemplat(r) /\ templat[r].grup = l.grup THEN l.terkunci \cup {r} ELSE l.terkunci
           m == [l EXCEPT !.sisa = l.sisa \ {r}, !.terkunci = k]
<1>3. Jadi(p, m)
  BY <1>2
<1>4. r \in Templat /\ k \subseteq Templat
  BY <1>1 DEF MohonBersih
<1>5. \A t \in k : AdaTemplat(t) /\ templat[t].grup = l.grup
  <2>1. \A t \in l.terkunci : AdaTemplat(t) /\ templat[t].grup = l.grup
    BY <1>1 DEF InvPengaturan, KunciTemplat
  <2> QED
    BY <2>1
<1>6. \/ l.grup \in terganggu
      \/ \A t \in Templat \ {l.id} : AdaTemplat(t) /\ templat[t].grup = l.grup =>
            t \in (l.sisa \ {r}) \cup k
  <2>1. \/ l.grup \in terganggu
        \/ \A t \in Templat \ {l.id} : AdaTemplat(t) /\ templat[t].grup = l.grup =>
              t \in l.sisa \cup l.terkunci
    BY <1>1 DEF InvPengaturan, BersihLengkap
  <2> QED
    BY <2>1
<1> HIDE DEF k
<1>7. /\ m \in MohonBersih /\ m.id = l.id /\ m.grup = l.grup
      /\ m.sisa = l.sisa \ {r} /\ m.terkunci = k
  BY <1>1, <1>4 DEF MohonBersih
<1> HIDE DEF m
<1>8. Lanjutan /\ UNCHANGED <<varsTemplat, varsWizard>>
  BY DEF BersihkanSatu
<1> QED
  BY <1>1, <1>3, <1>5, <1>6, <1>7, <1>8, LangkahSetDefaultBaca

LEMMA LangkahPutusTemplat ==
  ASSUME InvPengaturan, NEW p \in Slot, PutusTemplat(p)
  PROVE  InvPengaturan'
<1>1. mohon[p].langkah = "tulis" => terganggu' = terganggu
  BY DEF PutusTemplat, Tandai
<1>2. mohon[p].langkah \in {"cari", "bersih"} =>
        /\ mohon[p].grup \in Grup /\ mohon[p].id \in Templat
        /\ terganggu' = terganggu \cup {mohon[p].grup} \cup
              (IF AdaTemplat(mohon[p].id) THEN {templat[mohon[p].id].grup} ELSE {})
  BY BentukTemplat DEF PutusTemplat, Tandai, MohonGrup, MohonBersih
<1>3. \A t \in Templat : AdaTemplat(t) => templat[t].grup \in Grup
  BY AdaTemplatBaris DEF BarisTemplat, InvPengaturan
<1>4. terganggu' \subseteq Grup /\ terganggu \subseteq terganggu'
  BY <1>1, <1>2, <1>3 DEF PutusTemplat, InvPengaturan, TypePengaturan
<1> QED
  BY <1>2, <1>4, LangkahUsaiTemplat DEF PutusTemplat

LEMMA LangkahHapusTemplat ==
  ASSUME InvPengaturan, NEW r \in Templat, HapusTemplat(r)
  PROVE  InvPengaturan'
<1>1. /\ templat' \in [Templat -> BarisTemplat \cup {TanpaTemplat}]
      /\ templat'[r] = TanpaTemplat
      /\ \A t \in Templat \ {r} : templat'[t] = templat[t]
  BY DEF InvPengaturan, TypePengaturan, HapusTemplat
<1>2. TypePengaturan' /\ WizardUtuh'
  BY <1>1 DEF InvPengaturan, TypePengaturan, WizardUtuh, HapusTemplat, varsWizard
<1>3. mohon' = mohon /\ terganggu' = terganggu /\ ~AdaTemplat(r)'
  BY <1>1 DEF HapusTemplat, AdaTemplat
<1>4. \A t \in Templat : AdaTemplat(t)' => t # r /\ AdaTemplat(t) /\ templat'[t] = templat[t]
  BY <1>1, <1>3 DEF AdaTemplat
<1>5. KunciTemplat'
  <2> SUFFICES ASSUME NEW q \in Slot, mohon[q].langkah = "bersih", NEW t \in mohon[q].terkunci
               PROVE  AdaTemplat(t)' /\ templat'[t].grup = mohon[q].grup
    BY <1>3 DEF KunciTemplat
  <2>1. t \in Templat /\ t # r
    BY BentukTemplat DEF HapusTemplat, TerkunciT, MohonBersih
  <2> QED
    BY <1>1, <2>1 DEF InvPengaturan, KunciTemplat, AdaTemplat
<1>6. BersihLengkap'
  BY <1>3, <1>4 DEF InvPengaturan, BersihLengkap
<1>7. DefaultTunggal'
  BY <1>3, <1>4 DEF InvPengaturan, DefaultTunggal, Bawaan
<1> QED
  BY <1>2, <1>5, <1>6, <1>7 DEF InvPengaturan

\* The commit of SetDefault: it has cleared every other row of an undisturbed group.
LEMMA LangkahJadikanBawaan ==
  ASSUME InvPengaturan, NEW p \in Slot, JadikanBawaan(p)
  PROVE  InvPengaturan'
<1> DEFINE l == mohon[p]
<1>1. l.langkah = "bersih" /\ l \in MohonBersih /\ l.id \in Templat /\ l.sisa = {} /\ l.grup \in Grup
  BY BentukTemplat DEF JadikanBawaan, MohonBersih
<1>2. PICK r \in Templat : r = l.id
  BY <1>1
<1>3. r \notin l.terkunci
  BY <1>1, <1>2 DEF JadikanBawaan, TerkunciT
<1>4. Maju1(p) /\ mohon'[p] = Senggang
  BY SenggangBoleh, MohonSatu DEF JadikanBawaan, InvPengaturan, Maju1, Usai
<1>5. ASSUME NEW t \in Templat
      PROVE  templat'[t] = IF t \in l.terkunci THEN [templat[t] EXCEPT !.bawaan = FALSE]
                           ELSE IF t = r /\ AdaTemplat(r) THEN [templat[t] EXCEPT !.bawaan = TRUE]
                           ELSE templat[t]
  <2>1. templat'[t] = CASE t \in l.terkunci -> [templat[t] EXCEPT !.bawaan = FALSE]
                        [] t = l.id /\ AdaTemplat(l.id) -> [templat[t] EXCEPT !.bawaan = TRUE]
                        [] OTHER -> templat[t]
    BY DEF JadikanBawaan
  <2>2. AdaTemplat(l.id) <=> AdaTemplat(r)
    BY <1>2
  <2>3. CASE t \in l.terkunci
    BY <1>2, <1>3, <2>1, <2>3
  <2>4. CASE t \notin l.terkunci /\ t = r /\ AdaTemplat(r)
    BY <1>2, <2>1, <2>2, <2>4
  <2>5. CASE t \notin l.terkunci /\ ~(t = r /\ AdaTemplat(r))
    BY <1>2, <2>1, <2>2, <2>5
  <2> QED
    BY <2>3, <2>4, <2>5
<1>6. ASSUME NEW t \in Templat, AdaTemplat(t)
      PROVE  /\ templat'[t] \in BarisTemplat /\ templat'[t].grup = templat[t].grup
             /\ templat'[t].nama = templat[t].nama
             /\ templat'[t].bawaan = IF t \in l.terkunci THEN FALSE
                                     ELSE IF t = r THEN TRUE ELSE templat[t].bawaan
  <2>1. templat[t] \in BarisTemplat
    BY <1>6, AdaTemplatBaris DEF InvPengaturan
  <2> QED
    BY <1>5, <1>6, <2>1 DEF BarisTemplat
<1>7. ASSUME NEW t \in Templat, ~AdaTemplat(t)
      PROVE  templat'[t] = TanpaTemplat
  <2>1. t \notin l.terkunci
    BY <1>1, <1>7 DEF InvPengaturan, KunciTemplat
  <2> QED
    BY <1>5, <1>7, <2>1 DEF AdaTemplat
<1>8. \A t \in Templat : AdaTemplat(t)' <=> AdaTemplat(t)
  BY <1>6, <1>7, TemplatAda DEF AdaTemplat
<1>9. templat' \in [Templat -> BarisTemplat \cup {TanpaTemplat}]
  <2>1. \A t \in Templat : templat'[t] \in BarisTemplat \cup {TanpaTemplat}
    BY <1>6, <1>7
  <2>2. templat' = [t \in Templat |-> templat'[t]]
    BY DEF JadikanBawaan
  <2> QED
    BY <2>1, <2>2
<1>10. /\ terganggu' \subseteq Grup /\ terganggu \subseteq terganggu'
       /\ Bersamaan(p, l.grup) => l.grup \in terganggu'
       /\ AdaTemplat(r) => templat[r].grup \in terganggu' \cup {l.grup}
  <2>1. AdaTemplat(r) => templat[r].grup \in Grup
    BY AdaTemplatBaris DEF BarisTemplat, InvPengaturan
  <2> QED
    BY <1>1, <1>2, <2>1 DEF JadikanBawaan, Tandai, InvPengaturan, TypePengaturan
<1>11. TypePengaturan'
  BY <1>4, <1>9, <1>10
  DEF JadikanBawaan, InvPengaturan, TypePengaturan, Lanjutan, varsWizard, Maju1, Permohonan
<1>12. WizardUtuh'
  BY <1>4, SenggangBoleh, WizardMaju DEF JadikanBawaan, varsWizard
<1>13. \A q \in Slot : mohon'[q].langkah = "bersih" => q # p /\ mohon'[q] = mohon[q]
  BY <1>4, SenggangBoleh DEF Maju1
<1>14. KunciTemplat'
  <2> SUFFICES ASSUME NEW q \in Slot, mohon'[q].langkah = "bersih", NEW t \in mohon'[q].terkunci
               PROVE  AdaTemplat(t)' /\ templat'[t].grup = mohon'[q].grup
    BY DEF KunciTemplat
  <2>1. mohon'[q] = mohon[q]
    BY <1>13
  <2>2. t \in Templat /\ AdaTemplat(t) /\ templat[t].grup = mohon[q].grup
    BY <2>1, BentukTemplat DEF InvPengaturan, KunciTemplat, MohonBersih
  <2> QED
    BY <1>6, <1>8, <2>1, <2>2
<1>15. BersihLengkap'
  <2> SUFFICES ASSUME NEW q \in Slot, mohon'[q].langkah = "bersih",
                      mohon'[q].grup \notin terganggu',
                      NEW t \in Templat \ {mohon'[q].id},
                      AdaTemplat(t)', templat'[t].grup = mohon'[q].grup
               PROVE  t \in mohon'[q].sisa \cup mohon'[q].terkunci
    BY DEF BersihLengkap
  <2>1. mohon'[q] = mohon[q] /\ AdaTemplat(t) /\ templat[t].grup = mohon[q].grup
    BY <1>6, <1>8, <1>13
  <2> QED
    BY <1>10, <2>1 DEF InvPengaturan, BersihLengkap
<1>16. DefaultTunggal'
  <2> SUFFICES ASSUME NEW s \in Templat, NEW t \in Templat, s # t, Bawaan(s)', Bawaan(t)',
                      templat'[s].grup = templat'[t].grup, templat'[s].grup \notin terganggu'
               PROVE  \E q \in Slot : mohon'[q].langkah \in {"cari", "bersih"}
                                      /\ mohon'[q].id \in {s, t}
    BY DEF DefaultTunggal
  <2>1. /\ AdaTemplat(s) /\ templat'[s].grup = templat[s].grup /\ s \notin l.terkunci
        /\ AdaTemplat(t) /\ templat'[t].grup = templat[t].grup /\ t \notin l.terkunci
    BY <1>6, <1>8 DEF Bawaan
  <2>2. CASE r \in {s, t}
    <3>1. templat[s].grup = l.grup /\ templat[t].grup = l.grup
      BY <1>10, <2>1, <2>2
    <3>2. l.grup \notin terganggu
      BY <1>10, <2>1, <3>1
    <3>3. s \in l.sisa \cup l.terkunci \/ t \in l.sisa \cup l.terkunci
      BY <1>1, <1>2, <2>1, <2>2, <3>1, <3>2 DEF InvPengaturan, BersihLengkap
    <3> QED
      BY <1>1, <2>1, <3>3
  <2>3. CASE r \notin {s, t}
    <3>1. Bawaan(s) /\ Bawaan(t) /\ templat[s].grup = templat[t].grup
      BY <1>6, <2>1, <2>3 DEF Bawaan
    <3>2. templat[s].grup \notin terganggu
      BY <1>10, <2>1
    <3>3. PICK q \in Slot : mohon[q].langkah \in {"cari", "bersih"} /\ mohon[q].id \in {s, t}
      BY <3>1, <3>2 DEF InvPengaturan, DefaultTunggal
    <3>4. q # p
      BY <1>2, <2>3, <3>3
    <3> QED
      BY <1>4, <3>3, <3>4 DEF Maju1
  <2> QED
    BY <2>2, <2>3
<1> QED
  BY <1>11, <1>12, <1>14, <1>15, <1>16 DEF InvPengaturan

-----------------------------------------------------------------------------
(* Theorems about the settings *)

LEMMA PengaturanAwal == InitPengaturan => InvPengaturan
<1> SUFFICES ASSUME InitPengaturan
             PROVE  InvPengaturan
  OBVIOUS
<1>1. \A p \in Slot : mohon[p].langkah = "senggang"
  BY SenggangBoleh DEF InitPengaturan
<1>2. \A t \in Templat : ~AdaTemplat(t)
  BY DEF InitPengaturan, AdaTemplat
<1>3. TypePengaturan
  BY DEF InitPengaturan, TypePengaturan
<1>4. WizardUtuh /\ KunciTemplat /\ BersihLengkap
  BY <1>1 DEF WizardUtuh, KunciTemplat, BersihLengkap
<1>5. DefaultTunggal
  BY <1>2 DEF DefaultTunggal, Bawaan
<1> QED
  BY <1>3, <1>4, <1>5 DEF InvPengaturan

LEMMA PengaturanLangkah == InvPengaturan /\ [NextPengaturan]_varsPengaturan => InvPengaturan'
<1> SUFFICES ASSUME InvPengaturan, [NextPengaturan]_varsPengaturan
             PROVE  InvPengaturan'
  OBVIOUS
<1>1. CASE TemplatPrinter
  BY <1>1, LangkahBuatTemplat, LangkahTulisTemplat, LangkahCariGrup, LangkahBersihkanSatu,
     LangkahJadikanBawaan, LangkahPutusTemplat, LangkahHapusTemplat DEF TemplatPrinter, SetDefault
<1>2. ASSUME NEW p \in Slot, Wizard(p)
      PROVE  InvPengaturan'
  BY <1>2, LangkahWizard
<1>3. CASE UNCHANGED varsPengaturan
  BY <1>3 DEF varsPengaturan, InvPengaturan, TypePengaturan, WizardUtuh, KunciTemplat,
     BersihLengkap, DefaultTunggal, Bawaan, AdaTemplat
<1> QED
  BY <1>1, <1>2, <1>3 DEF NextPengaturan

LEMMA PengaturanInvarian == SpecPengaturan => []InvPengaturan
BY PengaturanAwal, PengaturanLangkah, PTL DEF SpecPengaturan

\* Requests, templates and settings stay what the handlers know.
THEOREM PengaturanTipe == SpecPengaturan => []TypePengaturan
<1>1. InvPengaturan => TypePengaturan
  BY DEF InvPengaturan
<1> QED
  BY <1>1, PengaturanInvarian, PTL

\* A group in which no two saves overlapped and none broke off has one default at most.
THEOREM DefaultSatu == SpecPengaturan => []DefaultTunggal
<1>1. InvPengaturan => DefaultTunggal
  BY DEF InvPengaturan
<1> QED
  BY <1>1, PengaturanInvarian, PTL

-----------------------------------------------------------------------------
(* The rows the wizard reports *)

LEMMA JadiSatu ==
  ASSUME TypePengaturan, NEW p \in Slot, NEW m, Jadi(p, m)
  PROVE  mohon'[p] = m /\ \A q \in Slot \ {p} : mohon'[q] = mohon[q]
BY DEF TypePengaturan, Jadi

\* No request has inserted a row or reported one.
LEMMA HitunganTetap ==
  ASSUME HitunganCSV, UNCHANGED <<barang, dilaporkan, luput>>,
         \A q \in Slot : BelumDilaporkan(q)' = BelumDilaporkan(q)
  PROVE  HitunganCSV'
<1>1. [q \in Slot |-> BelumDilaporkan(q)'] = [q \in Slot |-> BelumDilaporkan(q)]
  OBVIOUS
<1> QED
  BY <1>1 DEF HitunganCSV

LEMMA HitunganLain ==
  ASSUME TypePengaturan, HitunganCSV, UNCHANGED <<barang, dilaporkan, luput>>,
         NEW p \in Slot, NEW m, Jadi(p, m), mohon[p].langkah \notin {"cek", "sisip"},
         m.langkah \in {"cek", "sisip"} => m.masuk = 0
  PROVE  HitunganCSV'
<1>1. \A q \in Slot : BelumDilaporkan(q)' = BelumDilaporkan(q)
  BY JadiSatu DEF BelumDilaporkan
<1> QED
  BY <1>1, HitunganTetap

\* A step that ends or begins a request and has nothing to do with a text.
LEMMA HitunganTemplat ==
  ASSUME InvPengaturan, HitunganCSV, NEW p \in Slot,
         \/ \E g \in Grup, n \in Nama, b \in BOOLEAN :
              BuatTemplat(p, g, n, b) \/ \E t \in Templat : UbahTemplat(p, t, g, n, b)
         \/ SisipTemplat(p) \/ TimpaTemplat(p) \/ SetDefault(p) \/ PutusTemplat(p)
  PROVE  HitunganCSV'
<1>1. UNCHANGED <<barang, dilaporkan, luput>>
  BY DEF BuatTemplat, UbahTemplat, SisipTemplat, TimpaTemplat, SetDefault, CariGrup,
     BersihkanSatu, JadikanBawaan, PutusTemplat, varsWizard
<1>2. mohon[p].langkah \notin {"cek", "sisip"}
  BY SenggangBoleh DEF BuatTemplat, UbahTemplat, Datang, SisipTemplat, TimpaTemplat, SetDefault,
     CariGrup, BersihkanSatu, JadikanBawaan, PutusTemplat
<1>3. \E m : Jadi(p, m) /\ m.langkah \notin {"cek", "sisip"}
  <2>1. CASE \E g \in Grup, n \in Nama, b \in BOOLEAN :
               BuatTemplat(p, g, n, b) \/ \E t \in Templat : UbahTemplat(p, t, g, n, b)
    <3>1. PICK g \in Grup, n \in Nama, b \in BOOLEAN, t \in Templat \cup {BaruT} :
            Jadi(p, [langkah |-> "tulis", id |-> t, grup |-> g, nama |-> n, bawaan |-> b])
      BY <2>1 DEF BuatTemplat, UbahTemplat
    <3> DEFINE m == [langkah |-> "tulis", id |-> t, grup |-> g, nama |-> n, bawaan |-> b]
    <3>2. m.langkah = "tulis"
      OBVIOUS
    <3>3. Jadi(p, m)
      BY <3>1
    <3> HIDE DEF m
    <3> QED
      BY <3>2, <3>3
  <2>2. CASE SisipTemplat(p) \/ TimpaTemplat(p) \/ JadikanBawaan(p) \/ PutusTemplat(p)
    <3>1. Jadi(p, Senggang) \/ \E t : Jadi(p, [langkah |-> "cari", id |-> t, grup |-> mohon[p].grup])
      BY <2>2 DEF SisipTemplat, TimpaTemplat, JadikanBawaan, PutusTemplat, Usai
    <3>2. ASSUME NEW t, Jadi(p, [langkah |-> "cari", id |-> t, grup |-> mohon[p].grup])
          PROVE  \E m : Jadi(p, m) /\ m.langkah \notin {"cek", "sisip"}
      <4> DEFINE m == [langkah |-> "cari", id |-> t, grup |-> mohon[p].grup]
      <4>1. Jadi(p, m) /\ m.langkah = "cari"
        BY <3>2
      <4> HIDE DEF m
      <4> QED
        BY <4>1
    <3> QED
      BY <3>1, <3>2, SenggangBoleh
  <2>3. CASE CariGrup(p)
    BY <2>3, SenggangBoleh DEF CariGrup, Usai
  <2>4. CASE BersihkanSatu(p)
    <3>1. mohon[p] \in MohonBersih /\ mohon[p].langkah = "bersih"
      BY <2>4, BentukTemplat DEF BersihkanSatu
    <3>2. PICK r \in mohon[p].sisa :
            Jadi(p, [mohon[p] EXCEPT !.sisa = @ \ {r},
                     !.terkunci = IF AdaTemplat(r) /\ templat[r].grup = mohon[p].grup
                                  THEN @ \cup {r} ELSE @])
      BY <2>4 DEF BersihkanSatu
    <3> DEFINE m == [mohon[p] EXCEPT !.sisa = @ \ {r},
                     !.terkunci = IF AdaTemplat(r) /\ templat[r].grup = mohon[p].grup
                                  THEN @ \cup {r} ELSE @]
    <3>3. Jadi(p, m) /\ m.langkah = "bersih"
      BY <3>1, <3>2 DEF MohonBersih
    <3> HIDE DEF m
    <3> QED
      BY <3>3
  <2> QED
    BY <2>1, <2>2, <2>3, <2>4 DEF SetDefault
<1> QED
  BY <1>1, <1>2, <1>3, HitunganLain DEF InvPengaturan

LEMMA HitunganWizard ==
  ASSUME InvPengaturan, HitunganCSV, NEW p \in Slot,
         \/ MulaiCabang(p) \/ UbahCabang(p) \/ TambahCabang(p)
         \/ MulaiKasir(p) \/ BuatKasir(p) \/ AkhirKasir(p)
         \/ \E teks \in [1..MaxBaris -> Sku] : MulaiCSV(p, teks)
  PROVE  HitunganCSV'
<1>1. UNCHANGED <<barang, dilaporkan, luput>>
  BY DEF MulaiCabang, UbahCabang, TambahCabang, MulaiKasir, BuatKasir, AkhirKasir, MulaiCSV,
     varsWizard
<1>2. mohon[p].langkah \notin {"cek", "sisip"}
  BY SenggangBoleh DEF MulaiCabang, UbahCabang, TambahCabang, MulaiKasir, BuatKasir, AkhirKasir,
     MulaiCSV, Datang
<1>3. \E m : Jadi(p, m) /\ (m.langkah \in {"cek", "sisip"} => m.masuk = 0)
  <2>1. CASE MulaiCabang(p)
    BY <2>1 DEF MulaiCabang
  <2>2. CASE MulaiKasir(p)
    BY <2>2 DEF MulaiKasir
  <2>3. CASE TambahCabang(p) \/ AkhirKasir(p)
    BY <2>3, SenggangBoleh DEF TambahCabang, AkhirKasir, Usai
  <2>4. CASE UbahCabang(p)
    <3>1. mohon[p] \in MohonLoop /\ mohon[p].langkah = "gudang"
      BY <2>4, BentukLoop DEF UbahCabang
    <3>2. PICK c : Jadi(p, [mohon[p] EXCEPT !.sisa = @ \ {c}])
      BY <2>4 DEF UbahCabang
    <3> QED
      BY <3>1, <3>2 DEF MohonLoop
  <2>5. CASE BuatKasir(p)
    <3>1. mohon[p] \in MohonLoop /\ mohon[p].langkah = "kasir"
      BY <2>5, BentukLoop DEF BuatKasir
    <3>2. PICK c : \/ Jadi(p, [mohon[p] EXCEPT !.sisa = @ \ {c}, !.dibuat = @ \cup {c}])
                   \/ Jadi(p, [mohon[p] EXCEPT !.sisa = @ \ {c}])
      BY <2>5 DEF BuatKasir
    <3> DEFINE b == [mohon[p] EXCEPT !.sisa = @ \ {c}, !.dibuat = @ \cup {c}]
               d == [mohon[p] EXCEPT !.sisa = @ \ {c}]
    <3>3. b.langkah = "kasir" /\ d.langkah = "kasir"
      BY <3>1 DEF MohonLoop
    <3>4. Jadi(p, b) \/ Jadi(p, d)
      BY <3>2
    <3> HIDE DEF b, d
    <3> QED
      BY <3>3, <3>4
  <2>6. CASE \E teks \in [1..MaxBaris -> Sku] : MulaiCSV(p, teks)
    BY <2>6 DEF MulaiCSV
  <2> QED
    BY <2>1, <2>2, <2>3, <2>4, <2>5, <2>6
<1> QED
  BY <1>1, <1>2, <1>3, HitunganLain DEF InvPengaturan

LEMMA HitunganCek ==
  ASSUME InvPengaturan, HitunganCSV, NEW p \in Slot, CekBaris(p)
  PROVE  HitunganCSV'
<1>1. mohon[p] \in MohonCSV /\ mohon[p].langkah = "cek"
  BY BentukCSV DEF CekBaris
<1>2. PICK m : Jadi(p, m) /\ m \in {[mohon[p] EXCEPT !.ke = @ + 1], [mohon[p] EXCEPT !.langkah = "sisip"]}
  BY DEF CekBaris
<1>3. m.langkah \in {"cek", "sisip"} /\ m.masuk = mohon[p].masuk
  BY <1>1, <1>2 DEF MohonCSV
<1>4. \A q \in Slot : BelumDilaporkan(q)' = BelumDilaporkan(q)
  BY <1>1, <1>2, <1>3, JadiSatu DEF BelumDilaporkan, InvPengaturan
<1> QED
  BY <1>4, HitunganTetap DEF CekBaris, varsWizard

\* What is not yet reported, when one request's share changes.
LEMMA SisaSatu ==
  ASSUME TypePengaturan, NEW p \in Slot, NEW m, Jadi(p, m),
         NEW n \in Int, n = BelumDilaporkan(p)'
  PROVE  /\ SumFunctionOnSet([q \in Slot |-> BelumDilaporkan(q)'], Slot) =
              SumFunctionOnSet([q \in Slot |-> BelumDilaporkan(q)], Slot) + (n - BelumDilaporkan(p))
         /\ SumFunctionOnSet([q \in Slot |-> BelumDilaporkan(q)], Slot) \in Int
<1> DEFINE f == [q \in Slot |-> BelumDilaporkan(q)]
           g == [q \in Slot |-> BelumDilaporkan(q)']
<1>1. \A q \in Slot : BelumDilaporkan(q) \in Int
  <2> SUFFICES ASSUME NEW q \in Slot, mohon[q].langkah \in {"cek", "sisip"}
               PROVE  mohon[q].masuk \in Int
    BY DEF BelumDilaporkan
  <2>1. mohon[q] \in MohonCSV
    BY BentukMohon DEF TypePengaturan, Permohonan
  <2> QED
    BY <2>1 DEF MohonCSV
<1>2. \A q \in Slot \ {p} : BelumDilaporkan(q)' = BelumDilaporkan(q)
  BY JadiSatu DEF BelumDilaporkan
<1>3. IsFiniteSet(Slot) /\ Slot \in SUBSET Slot
  BY PengaturanAssumption
<1>4. Geser(f, g, Slot, p) /\ f[p] = BelumDilaporkan(p) /\ g[p] = n
  BY <1>1, <1>2 DEF Geser
<1>5. \A q \in Slot : f[q] \in Int
  BY <1>1
<1> HIDE DEF f, g
<1>6. SumFunctionOnSet(g, Slot) = SumFunctionOnSet(f, Slot) + (g[p] - f[p])
  BY <1>3, <1>4, JumlahGeser
<1>7. SumFunctionOnSet(f, Slot) \in Int
  BY <1>3, <1>5, JumlahTipe
<1> QED
  BY <1>4, <1>6, <1>7 DEF f, g

LEMMA HitunganSisip ==
  ASSUME InvPengaturan, IsFiniteSet(barang), HitunganCSV, NEW p \in Slot, SisipBaris(p)
  PROVE  HitunganCSV'
<1> DEFINE x == mohon[p].teks[mohon[p].ke]
<1>1. mohon[p] \in MohonCSV /\ mohon[p].langkah = "sisip"
  BY BentukCSV DEF SisipBaris
<1>2. PICK n \in {0, 1} :
        /\ BarisBerikut(p, n) /\ dilaporkan' = dilaporkan
        /\ \/ n = 0 /\ UNCHANGED <<barang, luput>>
           \/ x \notin barang /\ barang' = barang \cup {x} /\ luput' = luput + (1 - n)
  <2>1. CASE BarisBerikut(p, 0) /\ UNCHANGED <<barang, luput>>
    BY <2>1 DEF SisipBaris
  <2>2. CASE /\ x \notin barang /\ barang' = barang \cup {x}
             /\ BarisBerikut(p, 1) /\ luput' = luput
    <3>1. luput' = luput + (1 - 1)
      BY <2>2 DEF InvPengaturan, TypePengaturan
    <3> QED
      BY <2>2, <3>1 DEF SisipBaris
  <2>3. CASE /\ x \notin barang /\ barang' = barang \cup {x}
             /\ BarisBerikut(p, 0) /\ luput' = luput + 1
    <3>1. luput' = luput + (1 - 0)
      BY <2>3
    <3> QED
      BY <2>3, <3>1 DEF SisipBaris
  <2> QED
    BY <2>1, <2>2, <2>3 DEF SisipBaris
<1> DEFINE m == [mohon[p] EXCEPT !.langkah = "cek", !.ke = @ + 1, !.masuk = @ + n]
           j == mohon[p].masuk + n
<1>3. m.langkah = "cek" /\ m.masuk = j /\ mohon[p].masuk \in Nat /\ j \in Int
  BY <1>1, <1>2 DEF MohonCSV
<1>4. Jadi(p, m)
  BY <1>2 DEF BarisBerikut
<1> HIDE DEF m
<1>5. BelumDilaporkan(p) = mohon[p].masuk /\ BelumDilaporkan(p)' = j
  BY <1>1, <1>3, <1>4, JadiSatu DEF BelumDilaporkan, InvPengaturan
<1> DEFINE J == SumFunctionOnSet([q \in Slot |-> BelumDilaporkan(q)], Slot)
           K == SumFunctionOnSet([q \in Slot |-> BelumDilaporkan(q)'], Slot)
<1>6. K = J + (j - mohon[p].masuk) /\ J \in Int
  BY <1>3, <1>4, <1>5, SisaSatu DEF InvPengaturan
<1>7. x \notin barang => Cardinality(barang \cup {x}) = Cardinality(barang) + 1
  BY FS_AddElement
<1>8. dilaporkan + luput + J = Cardinality(barang) /\ dilaporkan \in Int /\ luput \in Int
      /\ Cardinality(barang) \in Int
  BY FS_CardinalityType DEF HitunganCSV, InvPengaturan, TypePengaturan
<1>9. HitunganCSV' <=> dilaporkan' + luput' + K = Cardinality(barang')
  BY DEF HitunganCSV
<1>10. K = J + n
  BY <1>2, <1>3, <1>6
<1> HIDE DEF J, K, j, x
<1>11. CASE n = 0 /\ UNCHANGED <<barang, luput>>
  BY <1>2, <1>6, <1>8, <1>9, <1>10, <1>11
<1>12. CASE x \notin barang /\ barang' = barang \cup {x} /\ luput' = luput + (1 - n)
  BY <1>2, <1>6, <1>7, <1>8, <1>9, <1>10, <1>12
<1> QED
  BY <1>2, <1>11, <1>12

LEMMA HitunganLapor ==
  ASSUME InvPengaturan, IsFiniteSet(barang), HitunganCSV, NEW p \in Slot,
         LaporCSV(p) \/ PutusCSV(p)
  PROVE  HitunganCSV'
<1>1. mohon[p] \in MohonCSV /\ mohon[p].langkah \in {"cek", "sisip"}
  BY BentukCSV DEF LaporCSV, PutusCSV
<1>2. /\ Jadi(p, Senggang) /\ barang' = barang
      /\ \/ dilaporkan' = dilaporkan + mohon[p].masuk /\ luput' = luput
         \/ dilaporkan' = dilaporkan /\ luput' = luput + mohon[p].masuk
  BY DEF LaporCSV, PutusCSV, Usai
<1>3. BelumDilaporkan(p) = mohon[p].masuk /\ BelumDilaporkan(p)' = 0 /\ mohon[p].masuk \in Nat
  BY <1>1, <1>2, SenggangBoleh, JadiSatu DEF BelumDilaporkan, InvPengaturan, MohonCSV
<1> DEFINE J == SumFunctionOnSet([q \in Slot |-> BelumDilaporkan(q)], Slot)
           K == SumFunctionOnSet([q \in Slot |-> BelumDilaporkan(q)'], Slot)
<1>4. 0 \in Int
  OBVIOUS
<1>5. K = J + (0 - mohon[p].masuk) /\ J \in Int
  BY <1>2, <1>3, <1>4, SisaSatu DEF InvPengaturan
<1>6. dilaporkan + luput + J = Cardinality(barang) /\ dilaporkan \in Int /\ luput \in Int
  BY DEF HitunganCSV, InvPengaturan, TypePengaturan
<1>7. HitunganCSV' <=> dilaporkan' + luput' + K = Cardinality(barang')
  BY DEF HitunganCSV
<1> HIDE DEF J, K
<1> QED
  BY <1>2, <1>3, <1>5, <1>6, <1>7

LEMMA BarangHingga ==
  ASSUME IsFiniteSet(barang), [NextPengaturan]_varsPengaturan
  PROVE  IsFiniteSet(barang')
<1>1. barang' = barang \/ \E x : barang' = barang \cup {x}
  <2>1. CASE TemplatPrinter
    BY <2>1 DEF TemplatPrinter, BuatTemplat, UbahTemplat, SisipTemplat, TimpaTemplat, SetDefault,
       CariGrup, BersihkanSatu, JadikanBawaan, PutusTemplat, HapusTemplat, varsWizard
  <2>2. ASSUME NEW p \in Slot, Wizard(p), ~SisipBaris(p)
        PROVE  barang' = barang
    BY <2>2 DEF Wizard, SimpanToko, SimpanPajak, SimpanSMTP, SimpanSetelan, MulaiCabang,
       UbahCabang, TambahCabang, CekBaris, LaporCSV, PutusCSV, MulaiCSV, MulaiKasir, BuatKasir,
       AkhirKasir, SelesaiWizard, varsWizard
  <2>3. ASSUME NEW p \in Slot, SisipBaris(p)
        PROVE  barang' = barang \/ \E x : barang' = barang \cup {x}
    BY <2>3 DEF SisipBaris
  <2> QED
    BY <2>1, <2>2, <2>3 DEF NextPengaturan, varsPengaturan
<1> QED
  BY <1>1, FS_AddElement

\* The numbers of imported rows the wizard reports add up to the products that came
\* to exist, but for rows whose INSERT lost its answer or whose page nobody got.
THEOREM HitunganPas == SpecPengaturan => []HitunganCSV
<1> DEFINE I == IsFiniteSet(barang) /\ HitunganCSV
<1>1. InitPengaturan => I
  <2> SUFFICES ASSUME InitPengaturan
               PROVE  I
    OBVIOUS
  <2> DEFINE f == [q \in Slot |-> BelumDilaporkan(q)]
  <2>1. \A q \in Slot : f[q] = 0
    BY SenggangBoleh DEF InitPengaturan, BelumDilaporkan
  <2>2. IsFiniteSet(Slot) /\ {} \in SUBSET Slot
    BY PengaturanAssumption
  <2>3. HitunganCSV <=> dilaporkan + luput + SumFunctionOnSet(f, Slot) = Cardinality(barang)
    BY DEF HitunganCSV
  <2> HIDE DEF f
  <2>4. SumFunctionOnSet(f, Slot) = SumFunctionOnSet(f, {})
    BY <2>1, <2>2, JumlahNol
  <2> QED
    BY <2>3, <2>4, JumlahKosong, FS_EmptySet DEF InitPengaturan
<1>2. InvPengaturan /\ I /\ [NextPengaturan]_varsPengaturan => I'
  <2> SUFFICES ASSUME InvPengaturan, I, [NextPengaturan]_varsPengaturan
               PROVE  HitunganCSV'
    BY BarangHingga
  <2>1. CASE UNCHANGED varsPengaturan \/ \E t \in Templat : HapusTemplat(t)
    BY <2>1, HitunganTetap DEF varsPengaturan, HapusTemplat, varsWizard, BelumDilaporkan
  <2>2. ASSUME NEW p \in Slot,
               SimpanToko(p) \/ SimpanPajak(p) \/ SimpanSMTP(p) \/ SelesaiWizard(p)
        PROVE  HitunganCSV'
    BY <2>2, HitunganTetap DEF SimpanToko, SimpanPajak, SimpanSMTP, SelesaiWizard, SimpanSetelan,
       BelumDilaporkan
  <2> QED
    BY <2>1, <2>2, HitunganTemplat, HitunganWizard, HitunganCek, HitunganSisip, HitunganLapor
    DEF NextPengaturan, TemplatPrinter, Wizard
<1> QED
  BY <1>1, <1>2, PengaturanInvarian, PTL DEF SpecPengaturan

-----------------------------------------------------------------------------
(* Impor *)

KerjaImpor == {Istirahat} \cup Persiapan \cup Bekerja

\* What a run may look like, one clause per stage.
LEMMA BentukJalan ==
  ASSUME NEW l \in KerjaImpor
  PROVE  /\ l.tahap \in {"user", "userbaru", "produk", "mitra"} => l \in Persiapan
         /\ l.tahap \in {"siapproduk", "siapmitra", "lembar"} => l \in Bekerja
         /\ l.tahap \notin {"user", "userbaru", "produk", "mitra", "siapproduk", "siapmitra", "lembar"}
              => l = Istirahat
BY DEF KerjaImpor, Istirahat, Persiapan, Bekerja

\* One run goes on, and it never turns from a dry run into another one.
JalanMaju(i) ==
  /\ jalan' \in [Jalan -> KerjaImpor]
  /\ \A k \in Jalan \ {i} : jalan'[k] = jalan[k]
  /\ jalan'[i] = Istirahat \/ (~Di(i, "istirahat") /\ jalan'[i].kering = jalan[i].kering)

LEMMA MajuBerarti ==
  ASSUME TypeImpor, TulisBerarti, NEW i \in Jalan, JalanMaju(i), diimpor' = diimpor
  PROVE  TulisBerarti'
<1> SUFFICES ASSUME NEW k \in Jalan, jalan'[k].tahap # "istirahat", ~jalan'[k].kering
             PROVE  diimpor
  BY DEF TulisBerarti, Di
<1>1. CASE k # i
  BY <1>1 DEF JalanMaju, TulisBerarti, Di
<1>2. CASE k = i
  BY <1>2 DEF JalanMaju, TulisBerarti, Di, Istirahat
<1> QED
  BY <1>1, <1>2

\* A step that stores nothing.
LEMMA HasilTetap ==
  ASSUME InvImpor, UNCHANGED <<buku, hasil>>, diimpor => diimpor'
  PROVE  TercatatTerbaca' /\ TransaksiSekali' /\ StokImpor'
<1>1. UNCHANGED <<lembar, milik, bertanggal, tersimpan, stokDB, ditimpa>>
  BY DEF buku, hasil
<1>2. TercatatTerbaca'
  BY <1>1 DEF InvImpor, TercatatTerbaca
<1>3. TransaksiSekali'
  BY <1>1 DEF InvImpor, TransaksiSekali
<1>4. StokImpor'
  BY <1>1 DEF InvImpor, StokImpor, Tercatat, BarisDari
<1> QED
  BY <1>2, <1>3, <1>4

\* A run goes on without storing anything.
LEMMA LangkahPersiapan ==
  ASSUME InvImpor, NEW i \in Jalan, JalanMaju(i), UNCHANGED <<buku, hasil, diimpor>>,
         jalanKe' \in Nat, migran' \in BOOLEAN, produkDB' \subseteq Barang, mitraDB' \subseteq Pihak
  PROVE  InvImpor'
<1>1. TypeImpor'
  BY DEF InvImpor, TypeImpor, JalanMaju, KerjaImpor, buku, hasil
<1>2. TulisBerarti'
  BY MajuBerarti DEF InvImpor
<1> QED
  BY <1>1, <1>2, HasilTetap DEF InvImpor

\* What the sales name exists in the sheets.
LEMMA KandidatAda ==
  ASSUME TypeImpor
  PROVE  KandidatProduk \subseteq Barang /\ KandidatMitra \subseteq Pihak
BY DEF TypeImpor, KandidatProduk, KandidatMitra, BarisDari

LEMMA JalanSatu ==
  ASSUME TypeImpor, NEW i \in Jalan, NEW l \in KerjaImpor, jalan' = [jalan EXCEPT ![i] = l],
         l = Istirahat \/ (~Di(i, "istirahat") /\ l.kering = jalan[i].kering)
  PROVE  JalanMaju(i)
BY DEF TypeImpor, JalanMaju, KerjaImpor

LEMMA LangkahMulaiImpor ==
  ASSUME InvImpor, NEW i \in Jalan, NEW kering \in BOOLEAN, Mulai(i, kering)
  PROVE  InvImpor'
<1> DEFINE l == [tahap |-> "user", kering |-> kering, produk |-> {}, mitra |-> {}]
<1>1. l \in KerjaImpor
  BY DEF KerjaImpor, Persiapan
<1>2. /\ jalan' \in [Jalan -> KerjaImpor] /\ jalan'[i] = l
      /\ \A k \in Jalan \ {i} : jalan'[k] = jalan[k]
  BY <1>1 DEF Mulai, InvImpor, TypeImpor, KerjaImpor
<1>3. /\ UNCHANGED <<buku, migran, produkDB, mitraDB, hasil>>
      /\ diimpor' = (diimpor \/ ~kering) /\ jalanKe' = jalanKe + 1
  BY DEF Mulai
<1>4. TypeImpor'
  BY <1>2, <1>3 DEF InvImpor, TypeImpor, KerjaImpor, buku, hasil
<1>5. TulisBerarti'
  <2> SUFFICES ASSUME NEW k \in Jalan, jalan'[k].tahap # "istirahat", ~jalan'[k].kering
               PROVE  diimpor'
    BY DEF TulisBerarti, Di
  <2>1. CASE k = i
    <3>1. ~kering
      BY <1>2, <2>1
    <3> QED
      BY <1>3, <3>1
  <2>2. CASE k # i
    BY <1>2, <1>3, <2>2 DEF InvImpor, TulisBerarti, Di
  <2> QED
    BY <2>1, <2>2
<1> QED
  BY <1>3, <1>4, <1>5, HasilTetap DEF InvImpor

LEMMA LangkahPengguna ==
  ASSUME InvImpor, NEW i \in Jalan, CariPengguna(i) \/ BuatPengguna(i)
  PROVE  InvImpor'
<1>1. jalan[i] \in Persiapan /\ ~Di(i, "istirahat")
  BY BentukJalan DEF CariPengguna, BuatPengguna, Di, InvImpor, TypeImpor, KerjaImpor
<1>2. ASSUME NEW t \in {"produk", "userbaru"}
      PROVE  /\ [jalan[i] EXCEPT !.tahap = t] \in KerjaImpor
             /\ [jalan[i] EXCEPT !.tahap = t].kering = jalan[i].kering
  BY <1>1 DEF Persiapan, KerjaImpor
<1>3. PICK l \in KerjaImpor :
        /\ jalan' = [jalan EXCEPT ![i] = l]
        /\ l = Istirahat \/ l.kering = jalan[i].kering
  <2>1. CASE CariPengguna(i)
    BY <1>2, <2>1 DEF CariPengguna
  <2>2. CASE BuatPengguna(i)
    <3>1. Istirahat \in KerjaImpor
      BY DEF KerjaImpor
    <3> QED
      BY <1>2, <2>2, <3>1 DEF BuatPengguna
  <2> QED
    BY <2>1, <2>2
<1>4. JalanMaju(i)
  BY <1>1, <1>3, JalanSatu DEF InvImpor
<1> QED
  BY <1>4, LangkahPersiapan DEF CariPengguna, BuatPengguna, InvImpor, TypeImpor

LEMMA LangkahBacaMaster ==
  ASSUME InvImpor, NEW i \in Jalan, BacaMasterProduk(i) \/ BacaMasterMitra(i)
  PROVE  InvImpor'
<1>1. jalan[i] \in Persiapan /\ ~Di(i, "istirahat")
  BY BentukJalan DEF BacaMasterProduk, BacaMasterMitra, Di, InvImpor, TypeImpor, KerjaImpor
<1> DEFINE a == [tahap |-> "siapproduk", kering |-> jalan[i].kering, produk |-> produkDB,
                 mitra |-> {}, ke |-> 1]
           b == [tahap |-> "siapmitra", kering |-> jalan[i].kering, produk |-> jalan[i].produk,
                 mitra |-> mitraDB, ke |-> 1]
<1>2. a \in KerjaImpor /\ b \in KerjaImpor
  <2>1. produkDB \subseteq Barang /\ mitraDB \subseteq Pihak
    BY DEF InvImpor, TypeImpor
  <2> QED
    BY <1>1, <2>1 DEF Persiapan, Bekerja, KerjaImpor
<1>3. a.kering = jalan[i].kering /\ b.kering = jalan[i].kering
  OBVIOUS
<1>4. jalan' = [jalan EXCEPT ![i] = a] \/ jalan' = [jalan EXCEPT ![i] = b]
  BY DEF BacaMasterProduk, BacaMasterMitra
<1> HIDE DEF a, b
<1>5. JalanMaju(i)
  BY <1>1, <1>2, <1>3, <1>4, JalanSatu DEF InvImpor
<1> QED
  BY <1>5, LangkahPersiapan DEF BacaMasterProduk, BacaMasterMitra, InvImpor, TypeImpor

LEMMA LangkahTulisProduk ==
  ASSUME InvImpor, NEW i \in Jalan, TulisMasterProduk(i)
  PROVE  InvImpor'
<1>1. jalan[i] \in Bekerja /\ ~Di(i, "istirahat")
  BY BentukJalan DEF TulisMasterProduk, Di, InvImpor, TypeImpor, KerjaImpor
<1> DEFINE baru == KandidatProduk \ jalan[i].produk
           a == [tahap |-> "mitra", kering |-> jalan[i].kering, produk |-> jalan[i].produk \cup baru,
                 mitra |-> {}]
<1>2. baru \subseteq Barang
  BY KandidatAda DEF InvImpor
<1>3. a \in KerjaImpor /\ Istirahat \in KerjaImpor /\ a.kering = jalan[i].kering
  BY <1>1, <1>2 DEF Persiapan, Bekerja, KerjaImpor
<1>4. jalan' = [jalan EXCEPT ![i] = a] \/ jalan' = [jalan EXCEPT ![i] = Istirahat]
  BY DEF TulisMasterProduk
<1>5. produkDB' \subseteq Barang
  BY <1>2 DEF TulisMasterProduk, InvImpor, TypeImpor
<1> HIDE DEF a, baru
<1>6. JalanMaju(i)
  BY <1>1, <1>3, <1>4, JalanSatu DEF InvImpor
<1> QED
  BY <1>5, <1>6, LangkahPersiapan DEF TulisMasterProduk, InvImpor, TypeImpor

LEMMA LangkahTulisMitra ==
  ASSUME InvImpor, NEW i \in Jalan, TulisMasterMitra(i)
  PROVE  InvImpor'
<1>1. jalan[i] \in Bekerja /\ ~Di(i, "istirahat")
  BY BentukJalan DEF TulisMasterMitra, Di, InvImpor, TypeImpor, KerjaImpor
<1> DEFINE baru == KandidatMitra \ jalan[i].mitra
           a == [jalan[i] EXCEPT !.tahap = "lembar", !.mitra = jalan[i].mitra \cup baru]
<1>2. baru \subseteq Pihak
  BY KandidatAda DEF InvImpor
<1>3. a \in KerjaImpor /\ Istirahat \in KerjaImpor /\ a.kering = jalan[i].kering
  BY <1>1, <1>2 DEF Bekerja, KerjaImpor
<1>4. jalan' = [jalan EXCEPT ![i] = a] \/ jalan' = [jalan EXCEPT ![i] = Istirahat]
  BY DEF TulisMasterMitra, InvImpor, TypeImpor
<1>5. mitraDB' \subseteq Pihak
  BY <1>2 DEF TulisMasterMitra, InvImpor, TypeImpor
<1> HIDE DEF a, baru
<1>6. JalanMaju(i)
  BY <1>1, <1>3, <1>4, JalanSatu DEF InvImpor
<1> QED
  BY <1>5, <1>6, LangkahPersiapan DEF TulisMasterMitra, InvImpor, TypeImpor

LEMMA LangkahBerakhir ==
  ASSUME InvImpor, NEW i \in Jalan, Berakhir(i)
  PROVE  InvImpor'
<1>1. Istirahat \in KerjaImpor
  BY DEF KerjaImpor
<1>2. JalanMaju(i)
  BY <1>1, JalanSatu DEF Berakhir, InvImpor
<1> QED
  BY <1>2, LangkahPersiapan DEF Berakhir, InvImpor, TypeImpor

-----------------------------------------------------------------------------
(* The sheets *)

\* The transaction of a sheet moves its run on, whatever it stores.
LEMMA LewatMaju ==
  ASSUME InvImpor, NEW i \in Jalan, NEW j, Langkah(i, j)
  PROVE  /\ JalanMaju(i) /\ jalan[i] \in Bekerja /\ jalan[i].tahap = "lembar"
         /\ UNCHANGED <<buku, jalanKe, migran, mitraDB, diimpor>>
<1>1. jalan[i] \in Bekerja /\ ~Di(i, "istirahat") /\ jalan[i].tahap = "lembar"
  BY BentukJalan DEF Langkah, Di, InvImpor, TypeImpor, KerjaImpor
<1>2. Lewat(i)
  BY DEF Langkah
<1>3. PICK l \in KerjaImpor :
        /\ jalan' = [jalan EXCEPT ![i] = l]
        /\ l = Istirahat \/ l.kering = jalan[i].kering
  <2>1. CASE jalan[i].ke = 7
    <3>1. Istirahat \in KerjaImpor
      BY DEF KerjaImpor
    <3> QED
      BY <1>2, <2>1, <3>1 DEF Lewat
  <2>2. CASE jalan[i].ke # 7
    <3>1. /\ [jalan[i] EXCEPT !.ke = jalan[i].ke + 1] \in KerjaImpor
          /\ [jalan[i] EXCEPT !.ke = jalan[i].ke + 1].kering = jalan[i].kering
      <4>1. jalan[i].ke \in 1..7 /\ jalan[i].ke + 1 \in 1..7
        BY <1>1, <2>2 DEF Bekerja
      <4>2. \A n \in 1..7 : [jalan[i] EXCEPT !.ke = n] \in Bekerja
        BY <1>1 DEF Bekerja
      <4>3. \A n \in 1..7 : [jalan[i] EXCEPT !.ke = n].kering = jalan[i].kering
        BY <1>1 DEF Bekerja
      <4> QED
        BY <4>1, <4>2, <4>3 DEF KerjaImpor
    <3>2. jalan' = [jalan EXCEPT ![i] = [jalan[i] EXCEPT !.ke = jalan[i].ke + 1]]
      BY <1>2, <2>2 DEF Lewat
    <3> QED
      BY <3>1, <3>2
  <2> QED
    BY <2>1, <2>2
<1>5. JalanMaju(i)
  BY <1>1, <1>3, JalanSatu DEF InvImpor
<1> QED
  BY <1>1, <1>5 DEF Langkah

\* A dry run stores nothing.
LEMMA LangkahKering ==
  ASSUME InvImpor, NEW i \in Jalan, NEW j, Langkah(i, j), Kering(i)
  PROVE  InvImpor'
<1>1. UNCHANGED <<buku, hasil, diimpor, jalanKe, migran, mitraDB, produkDB>>
  BY LewatMaju DEF Kering
<1> QED
  BY <1>1, LewatMaju, LangkahPersiapan DEF InvImpor, TypeImpor

\* What the unique key lets through was not stored before.
LEMMA BaruBelumAda ==
  ASSUME NEW S \in SUBSET BarisLembar, NEW T \in YangBaru(S)
  PROVE  T \subseteq S /\ \A r \in T : tersimpan[r] = 0
BY DEF YangBaru, SeKunci

\* The rows of a product that are counted.
LEMMA CatatanHingga ==
  ASSUME NEW j, NEW b
  PROVE  /\ IsFiniteSet(Tercatat(j, b)) /\ Cardinality(Tercatat(j, b)) \in Nat
<1>1. Tercatat(j, b) \in SUBSET BarisLembar
  BY DEF Tercatat, BarisDari
<1> QED
  BY <1>1, ImporAssumption, FS_Subset, FS_CardinalityType

LEMMA BanyakNat ==
  ASSUME NEW T \in SUBSET BarisLembar, NEW b
  PROVE  Banyak(T, b) \in Nat /\ IsFiniteSet({r \in T : milik[r].barang = b})
<1>1. {r \in T : milik[r].barang = b} \in SUBSET BarisLembar
  OBVIOUS
<1> QED
  BY <1>1, ImporAssumption, FS_Subset, FS_CardinalityType DEF Banyak

\* Rows of one sheet are stored: the records of the others stay as they were.
LEMMA CatatanLain ==
  ASSUME TypeImpor, UNCHANGED buku, NEW j, NEW T \in SUBSET BarisDari(j), Simpankan(T),
         NEW k, k # j, NEW b
  PROVE  Tercatat(k, b)' = Tercatat(k, b)
<1>1. \A r \in BarisDari(k) : tersimpan'[r] = tersimpan[r]
  BY DEF Simpankan, BarisDari
<1>2. BarisDari(k)' = BarisDari(k) /\ milik' = milik
  BY DEF buku, BarisDari
<1> QED
  BY <1>1, <1>2 DEF Tercatat

\* New rows of one sheet are stored: they are added to its records.
LEMMA CatatanBaru ==
  ASSUME TypeImpor, UNCHANGED buku, NEW j, NEW T \in SUBSET BarisDari(j), Simpankan(T),
         \A r \in T : tersimpan[r] = 0, NEW b
  PROVE  /\ Tercatat(j, b)' = Tercatat(j, b) \cup {r \in T : milik[r].barang = b}
         /\ Cardinality(Tercatat(j, b)') = Cardinality(Tercatat(j, b)) + Banyak(T, b)
<1> DEFINE C == Tercatat(j, b)
           D == {r \in T : milik[r].barang = b}
<1>1. \A r \in BarisLembar : tersimpan[r] \in Nat
  BY DEF TypeImpor
<1>2. BarisDari(j) \subseteq BarisLembar
  BY DEF BarisDari
<1>3. Tercatat(j, b)' = C \cup D
  <2>1. BarisDari(j)' = BarisDari(j) /\ milik' = milik
    BY DEF buku, BarisDari
  <2>2. \A r \in BarisDari(j) : tersimpan'[r] = IF r \in T THEN tersimpan[r] + 1 ELSE tersimpan[r]
    BY <1>2 DEF Simpankan
  <2>3. \A r \in BarisDari(j) : tersimpan'[r] > 0 <=> r \in T \/ tersimpan[r] > 0
    BY <1>1, <1>2, <2>2
  <2> QED
    BY <2>1, <2>3 DEF Tercatat
<1>4. C \cap D = {}
  BY DEF Tercatat
<1>5. IsFiniteSet(C) /\ IsFiniteSet(D) /\ Cardinality(C) \in Nat /\ Cardinality(D) \in Nat
  BY <1>2, CatatanHingga, BanyakNat DEF Banyak
<1>6. Cardinality(D) = Banyak(T, b)
  BY DEF Banyak
<1>7. Cardinality(C \cap D) = 0
  BY <1>4, FS_EmptySet
<1> HIDE DEF C, D
<1>8. Cardinality(C \cup D) = Cardinality(C) + Cardinality(D) - Cardinality(C \cap D)
  BY <1>5, FS_Union
<1>9. Cardinality(C \cup D) = Cardinality(C) + Banyak(T, b)
  BY <1>5, <1>6, <1>7, <1>8
<1> QED
  BY <1>3, <1>9 DEF C, D

\* Rows are stored by a run in mode import, once each where they have a key.
LEMMA SimpanSekali ==
  ASSUME InvImpor, NEW i \in Jalan, Basah(i), jalan[i].tahap = "lembar", UNCHANGED <<buku, diimpor>>,
         NEW j \in Lembar, NEW T \in SUBSET BarisDari(j), Simpankan(T),
         j # "tabungan" => \A r \in T : tersimpan[r] = 0,
         j \in {"hutang", "mutasi"} => T \subseteq bertanggal
  PROVE  TercatatTerbaca' /\ TransaksiSekali' /\ tersimpan' \in [BarisLembar -> Nat]
<1>1. diimpor /\ diimpor'
  BY DEF Basah, Di, InvImpor, TulisBerarti
<1>2. /\ lembar' = lembar /\ bertanggal' = bertanggal
      /\ \A r \in BarisLembar : tersimpan[r] \in Nat
      /\ \A r \in BarisLembar : tersimpan'[r] = IF r \in T THEN tersimpan[r] + 1 ELSE tersimpan[r]
      /\ \A r \in T : r \in BarisLembar /\ lembar[r] = j
  BY DEF Simpankan, buku, BarisDari, InvImpor, TypeImpor
<1>3. TercatatTerbaca'
  BY <1>2 DEF InvImpor, TercatatTerbaca
<1>4. TransaksiSekali'
  BY <1>1, <1>2 DEF InvImpor, TransaksiSekali
<1>5. tersimpan' \in [BarisLembar -> Nat]
  BY DEF Simpankan, InvImpor, TypeImpor
<1> QED
  BY <1>3, <1>4, <1>5

\* The end of a sheet's transaction.
LEMMA LangkahSimpan ==
  ASSUME InvImpor, NEW i \in Jalan, NEW j \in Lembar, Langkah(i, j), Basah(i),
         NEW T \in SUBSET BarisDari(j), Simpankan(T),
         j # "tabungan" => \A r \in T : tersimpan[r] = 0,
         j \in {"hutang", "mutasi"} => T \subseteq bertanggal,
         stokDB' \in [sini : [Barang -> Int], sana : [Barang -> Int]],
         ditimpa' \subseteq Barang, produkDB' \subseteq Barang, StokImpor'
  PROVE  InvImpor'
<1>1. UNCHANGED <<buku, jalanKe, migran, mitraDB, diimpor>> /\ JalanMaju(i)
      /\ jalan[i].tahap = "lembar"
  BY LewatMaju
<1>2. TercatatTerbaca' /\ TransaksiSekali' /\ tersimpan' \in [BarisLembar -> Nat]
  BY <1>1, SimpanSekali
<1>3. TypeImpor'
  BY <1>1, <1>2 DEF InvImpor, TypeImpor, JalanMaju, KerjaImpor, buku
<1>4. TulisBerarti'
  BY <1>1, MajuBerarti DEF InvImpor
<1> QED
  BY <1>2, <1>3, <1>4 DEF InvImpor

\* Sheets without goods.
LEMMA LangkahTanpaBarang ==
  ASSUME InvImpor, NEW i \in Jalan, NEW j \in Lembar \ {"stok", "hutang", "mutasi"},
         Langkah(i, j), Basah(i), NEW T \in SUBSET BarisDari(j), Simpankan(T),
         j # "tabungan" => \A r \in T : tersimpan[r] = 0,
         UNCHANGED <<stokDB, ditimpa, produkDB>>
  PROVE  InvImpor'
<1>1. UNCHANGED buku
  BY LewatMaju
<1>2. \A b : /\ Tercatat("stok", b)' = Tercatat("stok", b)
             /\ Tercatat("hutang", b)' = Tercatat("hutang", b)
             /\ Tercatat("mutasi", b)' = Tercatat("mutasi", b)
  BY <1>1, CatatanLain DEF InvImpor
<1>3. StokImpor'
  BY <1>2 DEF InvImpor, StokImpor
<1>4. /\ stokDB' \in [sini : [Barang -> Int], sana : [Barang -> Int]]
      /\ ditimpa' \subseteq Barang /\ produkDB' \subseteq Barang
  BY DEF InvImpor, TypeImpor
<1> QED
  BY <1>3, <1>4, LangkahSimpan

\* The quantities in the database, one by one.
LEMMA StokSatu ==
  ASSUME TypeImpor, NEW b \in Barang
  PROVE  stokDB.sini[b] \in Int /\ stokDB.sana[b] \in Int
BY DEF TypeImpor

\* The sheet of purchases: its trigger adds the goods of the new rows.
LEMMA LangkahHutang ==
  ASSUME InvImpor, NEW i \in Jalan, Langkah(i, "hutang"), Basah(i),
         NEW T \in YangBaru(DikenalProduk(i, BacaHutang)), Simpankan(T),
         stokDB' = [stokDB EXCEPT !.sini = [b \in Barang |-> stokDB.sini[b] + Banyak(T, b)]],
         UNCHANGED <<ditimpa, produkDB>>
  PROVE  InvImpor'
<1>1. UNCHANGED buku /\ "hutang" \in Lembar
  BY LewatMaju DEF Lembar, Urutan
<1>2. DikenalProduk(i, BacaHutang) \in SUBSET BarisLembar
  BY DEF DikenalProduk, BacaHutang, BarisDari
<1>3. /\ T \in SUBSET BarisDari("hutang") /\ T \subseteq bertanggal
      /\ \A r \in T : tersimpan[r] = 0
  BY <1>2, BaruBelumAda DEF DikenalProduk, BacaHutang
<1>4. T \in SUBSET BarisLembar
  BY <1>3 DEF BarisDari
<1>5. ASSUME NEW b \in Barang
      PROVE  /\ Tercatat("stok", b)' = Tercatat("stok", b)
             /\ Tercatat("mutasi", b)' = Tercatat("mutasi", b)
             /\ Cardinality(Tercatat("hutang", b)') = Cardinality(Tercatat("hutang", b)) + Banyak(T, b)
  BY <1>1, <1>3, CatatanLain, CatatanBaru DEF InvImpor
<1>6. \A b \in Barang : stokDB.sini[b] + Banyak(T, b) \in Int
  <2>1. ASSUME NEW b \in Barang
        PROVE  stokDB.sini[b] \in Int /\ stokDB.sana[b] \in Int /\ Banyak(T, b) \in Nat
    <3>1. Banyak(T, b) \in Nat
      BY <1>4, BanyakNat
    <3> QED
      BY <3>1, StokSatu DEF InvImpor
  <2> QED
    BY <2>1
<1>7. /\ stokDB' \in [sini : [Barang -> Int], sana : [Barang -> Int]]
      /\ stokDB'.sana = stokDB.sana
      /\ \A b \in Barang : stokDB'.sini[b] = stokDB.sini[b] + Banyak(T, b)
  BY <1>6 DEF InvImpor, TypeImpor
<1>8. StokImpor'
  <2> SUFFICES ASSUME NEW b \in Barang
               PROVE  /\ stokDB'.sana[b] = Cardinality(Tercatat("mutasi", b)')
                      /\ b \in ditimpa' \/ stokDB'.sini[b] =
                            (IF Tercatat("stok", b)' # {} THEN 1 ELSE 0)
                              + Cardinality(Tercatat("hutang", b)') - Cardinality(Tercatat("mutasi", b)')
    BY DEF StokImpor
  <2>1. /\ stokDB.sana[b] = Cardinality(Tercatat("mutasi", b))
        /\ b \in ditimpa \/ stokDB.sini[b] =
              (IF Tercatat("stok", b) # {} THEN 1 ELSE 0)
                + Cardinality(Tercatat("hutang", b)) - Cardinality(Tercatat("mutasi", b))
    BY DEF InvImpor, StokImpor
  <2>2. /\ Cardinality(Tercatat("hutang", b)) \in Nat /\ Cardinality(Tercatat("mutasi", b)) \in Nat
        /\ Banyak(T, b) \in Nat
    BY <1>4, CatatanHingga, BanyakNat
  <2> QED
    BY <1>5, <1>7, <2>1, <2>2
<1>9. ditimpa' \subseteq Barang /\ produkDB' \subseteq Barang
  BY DEF InvImpor, TypeImpor
<1> QED
  BY <1>1, <1>3, <1>7, <1>8, <1>9, LangkahSimpan

\* The sheet of transfers: the goods of the new rows move to the other branch.
LEMMA LangkahMutasi ==
  ASSUME InvImpor, NEW i \in Jalan, Langkah(i, "mutasi"), Basah(i),
         NEW T \in YangBaru(BacaAntarGudang), Simpankan(T),
         stokDB' = [sini |-> [b \in Barang |-> stokDB.sini[b] - Banyak(T, b)],
                    sana |-> [b \in Barang |-> stokDB.sana[b] + Banyak(T, b)]],
         produkDB' = produkDB \cup {milik[r].barang : r \in BacaAntarGudang},
         UNCHANGED ditimpa
  PROVE  InvImpor'
<1>1. UNCHANGED buku /\ "mutasi" \in Lembar
  BY LewatMaju DEF Lembar, Urutan
<1>2. BacaAntarGudang \in SUBSET BarisLembar
  BY DEF BacaAntarGudang, BarisDari
<1>3. /\ T \in SUBSET BarisDari("mutasi") /\ T \subseteq bertanggal
      /\ \A r \in T : tersimpan[r] = 0
  BY <1>2, BaruBelumAda DEF BacaAntarGudang
<1>4. T \in SUBSET BarisLembar
  BY <1>3 DEF BarisDari
<1>5. ASSUME NEW b \in Barang
      PROVE  /\ Tercatat("stok", b)' = Tercatat("stok", b)
             /\ Tercatat("hutang", b)' = Tercatat("hutang", b)
             /\ Cardinality(Tercatat("mutasi", b)') = Cardinality(Tercatat("mutasi", b)) + Banyak(T, b)
  BY <1>1, <1>3, CatatanLain, CatatanBaru DEF InvImpor
<1>6. \A b \in Barang : /\ stokDB.sini[b] - Banyak(T, b) \in Int
                        /\ stokDB.sana[b] + Banyak(T, b) \in Int
  <2>1. ASSUME NEW b \in Barang
        PROVE  stokDB.sini[b] \in Int /\ stokDB.sana[b] \in Int /\ Banyak(T, b) \in Nat
    <3>1. Banyak(T, b) \in Nat
      BY <1>4, BanyakNat
    <3> QED
      BY <3>1, StokSatu DEF InvImpor
  <2> QED
    BY <2>1
<1>7. /\ stokDB' \in [sini : [Barang -> Int], sana : [Barang -> Int]]
      /\ \A b \in Barang : /\ stokDB'.sini[b] = stokDB.sini[b] - Banyak(T, b)
                           /\ stokDB'.sana[b] = stokDB.sana[b] + Banyak(T, b)
  BY <1>6
<1>8. StokImpor'
  <2> SUFFICES ASSUME NEW b \in Barang
               PROVE  /\ stokDB'.sana[b] = Cardinality(Tercatat("mutasi", b)')
                      /\ b \in ditimpa' \/ stokDB'.sini[b] =
                            (IF Tercatat("stok", b)' # {} THEN 1 ELSE 0)
                              + Cardinality(Tercatat("hutang", b)') - Cardinality(Tercatat("mutasi", b)')
    BY DEF StokImpor
  <2>1. /\ stokDB.sana[b] = Cardinality(Tercatat("mutasi", b))
        /\ b \in ditimpa \/ stokDB.sini[b] =
              (IF Tercatat("stok", b) # {} THEN 1 ELSE 0)
                + Cardinality(Tercatat("hutang", b)) - Cardinality(Tercatat("mutasi", b))
    BY DEF InvImpor, StokImpor
  <2>2. /\ Cardinality(Tercatat("hutang", b)) \in Nat /\ Cardinality(Tercatat("mutasi", b)) \in Nat
        /\ Banyak(T, b) \in Nat
    BY <1>4, CatatanHingga, BanyakNat
  <2> QED
    BY <1>5, <1>7, <2>1, <2>2
<1>9. ditimpa' \subseteq Barang /\ produkDB' \subseteq Barang
  BY <1>2 DEF InvImpor, TypeImpor
<1> QED
  BY <1>1, <1>3, <1>7, <1>8, <1>9, LangkahSimpan

\* The stock sheet: where nothing has moved the quantity it sets is the one the
\* records account for, elsewhere the product is noted.
LEMMA LangkahStok ==
  ASSUME InvImpor, NEW i \in Jalan, Langkah(i, "stok"), ImporStok(i), Basah(i)
  PROVE  InvImpor'
<1> DEFINE S == DikenalProduk(i, BacaStok)
           T == {r \in S : tersimpan[r] = 0}
           B == {milik[r].barang : r \in S}
           G == {s \in BacaHutang \cup BacaAntarGudang : tersimpan[s] > 0}
           sudah == {milik[r].barang : r \in G}
<1>1. UNCHANGED buku /\ "stok" \in Lembar
  BY LewatMaju DEF Lembar, Urutan
<1>2. /\ Simpankan(T)
      /\ stokDB' = [stokDB EXCEPT !.sini = [b \in Barang |-> IF b \in B THEN 1 ELSE stokDB.sini[b]]]
      /\ ditimpa' = ditimpa \cup (B \cap sudah)
      /\ produkDB' = produkDB
  BY DEF ImporStok, Basah, Kering
<1>3. S \subseteq BarisDari("stok") /\ T \in SUBSET BarisDari("stok") /\ S \subseteq BarisLembar
      /\ \A r \in T : tersimpan[r] = 0
  BY DEF DikenalProduk, BacaStok, BarisDari
<1>4. B \subseteq Barang
  BY <1>3 DEF InvImpor, TypeImpor
<1>5. ASSUME NEW b \in Barang
      PROVE  /\ Tercatat("hutang", b)' = Tercatat("hutang", b)
             /\ Tercatat("mutasi", b)' = Tercatat("mutasi", b)
             /\ Tercatat("stok", b)' = Tercatat("stok", b) \cup {r \in T : milik[r].barang = b}
  BY <1>1, <1>2, <1>3, CatatanLain, CatatanBaru DEF InvImpor
<1>6. /\ stokDB' \in [sini : [Barang -> Int], sana : [Barang -> Int]]
      /\ stokDB'.sana = stokDB.sana
      /\ \A b \in Barang : stokDB'.sini[b] = IF b \in B THEN 1 ELSE stokDB.sini[b]
  <2>1. \A b \in Barang : (IF b \in B THEN 1 ELSE stokDB.sini[b]) \in Int
    BY StokSatu DEF InvImpor
  <2> HIDE DEF B
  <2> QED
    BY <1>2, <2>1 DEF InvImpor, TypeImpor
<1>7. StokImpor'
  <2> SUFFICES ASSUME NEW b \in Barang
               PROVE  /\ stokDB'.sana[b] = Cardinality(Tercatat("mutasi", b)')
                      /\ b \in ditimpa' \/ stokDB'.sini[b] =
                            (IF Tercatat("stok", b)' # {} THEN 1 ELSE 0)
                              + Cardinality(Tercatat("hutang", b)') - Cardinality(Tercatat("mutasi", b)')
    BY DEF StokImpor
  <2>1. /\ stokDB.sana[b] = Cardinality(Tercatat("mutasi", b))
        /\ b \in ditimpa \/ stokDB.sini[b] =
              (IF Tercatat("stok", b) # {} THEN 1 ELSE 0)
                + Cardinality(Tercatat("hutang", b)) - Cardinality(Tercatat("mutasi", b))
    BY DEF InvImpor, StokImpor
  <2>2. CASE b \in B
    <3>1. Tercatat("stok", b)' # {}
      <4>1. PICK r \in S : milik[r].barang = b
        BY <2>2
      <4>2. tersimpan[r] \in Nat /\ r \in BarisDari("stok")
        BY <1>3 DEF InvImpor, TypeImpor
      <4>3. r \in T \/ r \in Tercatat("stok", b)
        BY <4>1, <4>2 DEF Tercatat
      <4> QED
        BY <1>5, <4>1, <4>3
    <3>2. ASSUME b \notin sudah, NEW j \in {"hutang", "mutasi"}, NEW r \in Tercatat(j, b)
          PROVE  FALSE
      <4>1. /\ r \in BarisLembar /\ lembar[r] = j /\ r \in BarisDari(j) /\ milik[r].barang = b
            /\ tersimpan[r] > 0
        BY <3>2 DEF Tercatat, BarisDari
      <4>2. r \in bertanggal
        BY <4>1 DEF InvImpor, TercatatTerbaca
      <4>3. r \in G
        BY <4>1, <4>2 DEF BacaHutang, BacaAntarGudang
      <4> QED
        BY <3>2, <4>1, <4>3
    <3>3. b \notin sudah => Tercatat("hutang", b) = {} /\ Tercatat("mutasi", b) = {}
      BY <3>2
    <3>4. b \in sudah => b \in ditimpa'
      BY <1>2, <2>2
    <3> HIDE DEF B, sudah
    <3>5. CASE b \in sudah
      BY <1>5, <1>6, <2>1, <3>4, <3>5
    <3>6. CASE b \notin sudah
      BY <1>5, <1>6, <2>1, <2>2, <3>1, <3>3, <3>6, FS_EmptySet
    <3> QED
      BY <3>5, <3>6
  <2>3. CASE b \notin B
    <3>1. {r \in T : milik[r].barang = b} = {}
      BY <2>3
    <3>2. Tercatat("stok", b)' = Tercatat("stok", b)
      BY <1>5, <3>1
    <3>3. b \in ditimpa => b \in ditimpa'
      BY <1>2
    <3> HIDE DEF B, sudah
    <3> QED
      BY <1>5, <1>6, <2>1, <2>3, <3>2, <3>3
  <2> QED
    BY <2>2, <2>3
<1>8. ditimpa' \subseteq Barang /\ produkDB' \subseteq Barang
  BY <1>2, <1>4 DEF InvImpor, TypeImpor
<1> HIDE DEF B, T
<1> QED
  BY <1>1, <1>2, <1>3, <1>6, <1>7, <1>8, LangkahSimpan

\* The other sheets.
LEMMA LangkahLembarLain ==
  ASSUME InvImpor, NEW i \in Jalan,
         ProsesPenjualan(i) \/ ProsesPembayaran(i) \/ ProsesPiutang(i) \/ ProsesTabungan(i)
  PROVE  InvImpor'
<1>1. ASSUME NEW j \in {"penjualan", "pembayaran", "piutang"}, NEW S \in SUBSET BarisDari(j),
             Langkah(i, j),
             \/ Kering(i)
             \/ /\ Basah(i)
                /\ \E T \in YangBaru(S) : Simpankan(T)
                /\ UNCHANGED <<stokDB, ditimpa, produkDB>>
      PROVE  InvImpor'
  <2>1. CASE Kering(i)
    BY <1>1, <2>1, LangkahKering
  <2>2. CASE Basah(i) /\ UNCHANGED <<stokDB, ditimpa, produkDB>> /\ \E T \in YangBaru(S) : Simpankan(T)
    <3>1. PICK T \in YangBaru(S) : Simpankan(T)
      BY <2>2
    <3>2. S \in SUBSET BarisLembar
      BY <1>1 DEF BarisDari
    <3>3. T \in SUBSET BarisDari(j) /\ \A r \in T : tersimpan[r] = 0
      BY <1>1, <3>2, BaruBelumAda
    <3>4. j \in Lembar \ {"stok", "hutang", "mutasi"}
      BY <1>1 DEF Lembar, Urutan
    <3> QED
      BY <1>1, <2>2, <3>1, <3>3, <3>4, LangkahTanpaBarang
  <2> QED
    BY <1>1, <2>1, <2>2
<1>2. CASE ProsesPenjualan(i)
  <2>1. DikenalProduk(i, BacaPenjualan) \cap DikenalMitra(i, BacaPenjualan) \in SUBSET BarisDari("penjualan")
    BY DEF DikenalProduk, DikenalMitra, BacaPenjualan
  <2> QED
    BY <1>1, <1>2, <2>1 DEF ProsesPenjualan, ImporPenjualan
<1>3. CASE ProsesPembayaran(i)
  <2>1. DikenalMitra(i, BacaPembayaran) \in SUBSET BarisDari("pembayaran")
    BY DEF DikenalMitra, BacaPembayaran
  <2> QED
    BY <1>1, <1>3, <2>1 DEF ProsesPembayaran, ImporPembayaran
<1>4. CASE ProsesPiutang(i)
  <2>1. DikenalMitra(i, BacaPiutang) \in SUBSET BarisDari("piutang")
    BY DEF DikenalMitra, BacaPiutang
  <2> QED
    BY <1>1, <1>4, <2>1 DEF ProsesPiutang, ImporPiutangOpening
<1>5. CASE ProsesTabungan(i)
  <2>1. DikenalMitra(i, BacaTabungan) \in SUBSET BarisDari("tabungan")
    BY DEF DikenalMitra, BacaTabungan
  <2>2. "tabungan" \in Lembar \ {"stok", "hutang", "mutasi"}
    BY DEF Lembar, Urutan
  <2> QED
    BY <1>5, <2>1, <2>2, LangkahKering, LangkahTanpaBarang DEF ProsesTabungan, ImporTabungan
<1> QED
  BY <1>2, <1>3, <1>4, <1>5

LEMMA LangkahBarang ==
  ASSUME InvImpor, NEW i \in Jalan, ProsesStok(i) \/ ProsesHutang(i) \/ ProsesAntarGudang(i)
  PROVE  InvImpor'
<1>1. CASE ProsesStok(i)
  BY <1>1, LangkahKering, LangkahStok DEF ProsesStok, ImporStok
<1>2. CASE ProsesHutang(i)
  BY <1>2, LangkahKering, LangkahHutang DEF ProsesHutang, ImporPembelian
<1>3. CASE ProsesAntarGudang(i)
  BY <1>3, LangkahKering, LangkahMutasi DEF ProsesAntarGudang, ImporMutasi
<1> QED
  BY <1>1, <1>2, <1>3

-----------------------------------------------------------------------------
(* Theorems about the import *)

LEMMA ImporAwal == InitImpor => InvImpor
<1> SUFFICES ASSUME InitImpor
             PROVE  InvImpor
  OBVIOUS
<1>1. TypeImpor
  <2>1. /\ jalan \in [Jalan -> {Istirahat} \cup Persiapan \cup Bekerja]
        /\ tersimpan \in [BarisLembar -> Nat] /\ jalanKe \in Nat
        /\ bertanggal \subseteq BarisLembar
    BY DEF InitImpor
  <2>2. stokDB \in [sini : [Barang -> Int], sana : [Barang -> Int]]
    BY DEF InitImpor
  <2>3. seiring \in BOOLEAN
    <3>1. (Cardinality(BarisDari("mutasi")) > 1) \in BOOLEAN
      OBVIOUS
    <3> QED
      BY <3>1 DEF InitImpor
  <2> QED
    BY <2>1, <2>2, <2>3 DEF InitImpor, TypeImpor
<1>2. TulisBerarti
  BY DEF InitImpor, TulisBerarti, Di, Istirahat
<1>3. TercatatTerbaca /\ TransaksiSekali
  BY DEF InitImpor, TercatatTerbaca, TransaksiSekali
<1>4. \A j, b : Tercatat(j, b) = {}
  BY DEF InitImpor, Tercatat, BarisDari
<1>5. \A j, b : Cardinality(Tercatat(j, b)) = 0
  <2>1. Cardinality({}) = 0
    BY FS_EmptySet
  <2> QED
    BY <1>4, <2>1
<1>6. \A b \in Barang : stokDB.sini[b] = 0 /\ stokDB.sana[b] = 0
  BY DEF InitImpor
<1>7. StokImpor
  BY <1>4, <1>5, <1>6 DEF StokImpor
<1> QED
  BY <1>1, <1>2, <1>3, <1>7 DEF InvImpor

LEMMA ImporLangkah == InvImpor /\ [NextImpor]_varsImpor => InvImpor'
<1> SUFFICES ASSUME InvImpor, [NextImpor]_varsImpor
             PROVE  InvImpor'
  OBVIOUS
<1>1. CASE UNCHANGED varsImpor
  BY <1>1 DEF varsImpor, InvImpor, TypeImpor, TulisBerarti, Di, TercatatTerbaca, TransaksiSekali,
     StokImpor, Tercatat, BarisDari
<1> QED
  BY <1>1, LangkahMulaiImpor, LangkahPengguna, LangkahBerakhir, LangkahBacaMaster,
     LangkahTulisProduk, LangkahTulisMitra, LangkahLembarLain, LangkahBarang DEF NextImpor

LEMMA ImporInvarian == SpecImpor => []InvImpor
BY ImporAwal, ImporLangkah, PTL DEF SpecImpor

\* Runs, sheets and what they stored stay what the tool knows.
THEOREM ImporTipe == SpecImpor => []TypeImpor
<1>1. InvImpor => TypeImpor
  BY DEF InvImpor
<1> QED
  BY <1>1, ImporInvarian, PTL

\* A row with a key is stored once at most, and never by dry runs.
THEOREM ImporSekali == SpecImpor => []TransaksiSekali
<1>1. InvImpor => TransaksiSekali
  BY DEF InvImpor
<1> QED
  BY <1>1, ImporInvarian, PTL

\* The stock agrees with the rows that are stored.
THEOREM ImporStokCocok == SpecImpor => []StokImpor
<1>1. InvImpor => StokImpor
  BY DEF InvImpor
<1> QED
  BY <1>1, ImporInvarian, PTL

-----------------------------------------------------------------------------
(* Cadangan *)

\* A set with at most one element counts at most one.
LEMMA PalingSatu ==
  ASSUME NEW S, \A x, y \in S : x = y
  PROVE  /\ IsFiniteSet(S) /\ Cardinality(S) \in {0, 1}
         /\ Cardinality(S) = 0 <=> S = {}
<1>1. CASE S = {}
  BY <1>1, FS_EmptySet
<1>2. CASE S # {}
  <2>1. PICK x : S = {x}
    BY <1>2
  <2> QED
    BY <2>1, FS_Singleton, FS_EmptySet
<1> QED
  BY <1>1, <1>2

LEMMA CadanganAwal == InitCadangan => InvCadangan
<1> SUFFICES ASSUME InitCadangan
             PROVE  InvCadangan
  OBVIOUS
<1>1. \A p \in Minta : pinta[p].tahap = "senggang" /\ pinta[p].arsip = TanpaArsip
  BY DEF InitCadangan, Diam
<1>2. TypeCadangan
  BY <1>1 DEF InitCadangan, TypeCadangan, Diam, Tahap
<1> QED
  BY <1>1, <1>2 DEF InitCadangan, InvCadangan, Bergembok, Pemegang

LEMMA CadanganCukup == InvCadangan => PulihSatu
<1> SUFFICES ASSUME InvCadangan
             PROVE  Cardinality(skrip) + yatim =< 1
  BY DEF PulihSatu
<1>1. \A p, q \in skrip : p = q
  BY DEF InvCadangan, TypeCadangan, Bergembok
<1>2. Cardinality(skrip) \in {0, 1} /\ (skrip = {} => Cardinality(skrip) = 0)
  BY <1>1, PalingSatu
<1> QED
  BY <1>2 DEF InvCadangan

LEMMA CadanganLangkah == InvCadangan /\ [NextCadangan]_varsCadangan => InvCadangan'
<1> SUFFICES ASSUME InvCadangan, [NextCadangan]_varsCadangan
             PROVE  InvCadangan'
  OBVIOUS
<1> USE DEF InvCadangan, TypeCadangan, Bergembok, Pemegang, Tahap, Kembali, Maju, Diam
<1>1. ASSUME NEW p \in Minta, NEW f \in Arsip, MulaiCadang(p, f)
      PROVE  InvCadangan'
  BY <1>1, CadanganAssumption DEF MulaiCadang
<1>2. ASSUME NEW p \in Minta, SelesaiCadang(p)
      PROVE  InvCadangan'
  BY <1>2 DEF SelesaiCadang
<1>3. ASSUME NEW p \in Minta, NEW f \in Arsip, SahkanPulih(p, f)
      PROVE  InvCadangan'
  BY <1>3, CadanganAssumption DEF SahkanPulih
<1>4. ASSUME NEW p \in Minta, Gembok(p)
      PROVE  InvCadangan'
  BY <1>4 DEF Gembok
<1>5. ASSUME NEW p \in Minta, CekKunci(p)
      PROVE  InvCadangan'
  BY <1>5 DEF CekKunci
<1>6. ASSUME NEW p \in Minta, BuatKunci(p)
      PROVE  InvCadangan'
  <2>1. CASE ~kunci /\ Maju(p, "kunci") /\ kunci' = TRUE
    <3>1. \A q \in Minta : q # p => pinta'[q] = pinta[q] /\ pinta[q].tahap \notin Pemegang
      BY <1>6, <2>1 DEF BuatKunci
    <3>2. skrip = {} /\ yatim = 0
      BY <2>1
    <3>3. TypeCadangan'
      BY <1>6, <2>1 DEF BuatKunci
    <3> QED
      BY <1>6, <2>1, <3>1, <3>2, <3>3 DEF BuatKunci
  <2>2. CASE Kembali(p) /\ UNCHANGED kunci
    BY <1>6, <2>2 DEF BuatKunci
  <2> QED
    BY <1>6, <2>1, <2>2 DEF BuatKunci
<1>7. ASSUME NEW p \in Minta, MulaiSkrip(p)
      PROVE  InvCadangan'
  BY <1>7 DEF MulaiSkrip
<1>8. ASSUME NEW p \in Minta, SkripBerakhir(p)
      PROVE  InvCadangan'
  BY <1>8 DEF SkripBerakhir
<1>9. ASSUME NEW p \in Minta, HapusKunci(p)
      PROVE  InvCadangan'
  <2>1. yatim = 0 /\ skrip = {}
    BY <1>9 DEF HapusKunci
  <2>2. \A q \in Minta : pinta'[q].tahap \notin Pemegang
    BY <1>9 DEF HapusKunci
  <2>3. TypeCadangan'
    <3>1. pinta' = [pinta EXCEPT ![p].tahap = "lepas"] /\ pinta[p].tahap # "senggang"
      BY <1>9 DEF HapusKunci
    <3>2. \A q \in Minta : /\ pinta'[q].arsip = pinta[q].arsip
                           /\ pinta'[q].tahap = IF q = p THEN "lepas" ELSE pinta[q].tahap
      BY <3>1
    <3>3. pinta' \in [Minta -> [tahap : Tahap, arsip : Arsip \cup {TanpaArsip}]]
      BY <3>1
    <3>4. \A q \in Minta : pinta'[q].tahap = "senggang" <=> pinta'[q].arsip = TanpaArsip
      BY <3>1, <3>2
    <3>5. /\ arsip' \subseteq Arsip /\ kunci' \in BOOLEAN /\ skrip' \subseteq Minta
          /\ yatim' \in Nat /\ tertinggal' \in BOOLEAN
      BY <1>9 DEF HapusKunci
    <3> QED
      BY <3>3, <3>4, <3>5
  <2>4. \A q, r \in Minta :
          pinta'[q].tahap \in Bergembok /\ pinta'[r].tahap \in Bergembok => q = r
    BY <1>9 DEF HapusKunci
  <2>5. skrip' = {} /\ yatim' = 0
    BY <1>9, <2>1 DEF HapusKunci
  <2> QED
    BY <2>2, <2>3, <2>4, <2>5
<1>10. ASSUME NEW p \in Minta, BukaGembok(p)
       PROVE  InvCadangan'
  BY <1>10 DEF BukaGembok
<1>11. CASE YatimBerakhir
  BY <1>11 DEF YatimBerakhir
<1>12. CASE Mati
  <2>1. \A S \in SUBSET skrip : \A p, q \in S : p = q
    OBVIOUS
  <2>2. PICK S \in SUBSET skrip : yatim' = yatim + Cardinality(S)
    BY <1>12 DEF Mati
  <2>3. Cardinality(S) \in {0, 1} /\ (Cardinality(S) = 0 <=> S = {})
    BY <2>1, PalingSatu
  <2>4. yatim' \in {0, 1} /\ (yatim' = 1 => kunci)
    BY <2>2, <2>3
  <2> QED
    BY <1>12, <2>4 DEF Mati
<1>13. CASE UNCHANGED varsCadangan
  BY <1>13 DEF varsCadangan
<1> QED
  BY <1>1, <1>2, <1>3, <1>4, <1>5, <1>6, <1>7, <1>8, <1>9, <1>10, <1>11, <1>12, <1>13
  DEF NextCadangan

\* The owner of the lock file stays its owner until it removes it or the server stops.
LEMMA KunciLangkah ==
  ASSUME InvCadangan, KunciTakTertinggal, [NextCadangan]_varsCadangan
  PROVE  KunciTakTertinggal'
<1> USE DEF KunciTakTertinggal, InvCadangan, TypeCadangan, Kembali, Maju, Diam, Pemegang
<1>1. CASE Mati
  BY <1>1 DEF Mati
<1>2. CASE YatimBerakhir \/ UNCHANGED varsCadangan
  BY <1>2 DEF YatimBerakhir, varsCadangan
<1>3. ASSUME NEW p \in Minta, HapusKunci(p)
      PROVE  KunciTakTertinggal'
  BY <1>3 DEF HapusKunci
<1>4. ASSUME NEW p \in Minta,
             \/ SelesaiCadang(p) \/ Gembok(p) \/ CekKunci(p) \/ MulaiSkrip(p)
             \/ SkripBerakhir(p) \/ BukaGembok(p)
             \/ \E f \in Arsip : MulaiCadang(p, f) \/ SahkanPulih(p, f)
      PROVE  KunciTakTertinggal'
  <2>1. kunci' = kunci /\ tertinggal' = tertinggal
    BY <1>4 DEF SelesaiCadang, Gembok, CekKunci, MulaiSkrip, SkripBerakhir, BukaGembok,
       MulaiCadang, SahkanPulih
  <2>2. \A q \in Minta : pinta[q].tahap \in Pemegang => pinta'[q].tahap \in Pemegang
    BY <1>4 DEF SelesaiCadang, Gembok, CekKunci, MulaiSkrip, SkripBerakhir, BukaGembok,
       MulaiCadang, SahkanPulih
  <2> QED
    BY <2>1, <2>2
<1>5. ASSUME NEW p \in Minta, BuatKunci(p)
      PROVE  KunciTakTertinggal'
  BY <1>5 DEF BuatKunci
<1> QED
  BY <1>1, <1>2, <1>3, <1>4, <1>5 DEF NextCadangan

\* The invariant of the proofs holds in every reachable state.
LEMMA CadanganInvarian == SpecCadangan => []InvCadangan
BY CadanganAwal, CadanganLangkah, PTL DEF SpecCadangan

\* Requests, files and scripts stay what the handlers know, whatever happens.
THEOREM CadanganTipe == SpecCadangan => []TypeCadangan
<1>1. InvCadangan => TypeCadangan
  BY DEF InvCadangan
<1> QED
  BY <1>1, CadanganInvarian, PTL

\* Restore scripts never overlap, whatever the number of requests and wherever the
\* server stops.
THEOREM PulihSatuAman == SpecCadangan => []PulihSatu
BY CadanganInvarian, CadanganCukup, PTL

\* A lock file without an owner comes from a stop of the server and from nothing
\* else.
THEOREM KunciAman == SpecCadangan => []KunciTakTertinggal
<1>1. InitCadangan => KunciTakTertinggal
  BY DEF InitCadangan, KunciTakTertinggal
<1>2. InvCadangan /\ KunciTakTertinggal /\ [NextCadangan]_varsCadangan => KunciTakTertinggal'
  BY KunciLangkah
<1> QED
  BY <1>1, <1>2, CadanganInvarian, PTL DEF SpecCadangan

-----------------------------------------------------------------------------
(* The parts together *)

\* Seen through one part alone, the administrator's program is that part: it starts
\* in one of its initial states, and a step of another part leaves it alone.
THEOREM MasterBagian == SpecMaster => SpecKatalog /\ SpecPengaturan /\ SpecImpor /\ SpecCadangan
<1>1. InitMaster => InitKatalog /\ InitPengaturan /\ InitImpor /\ InitCadangan
  BY DEF InitMaster, DiamKatalog, DiamPengaturan, DiamImpor
<1>2. [NextMaster]_varsMaster => /\ [NextKatalog]_varsKatalog /\ [NextPengaturan]_varsPengaturan
                                 /\ [NextImpor]_varsImpor /\ [NextCadangan]_varsCadangan
  BY DEF NextMaster, varsMaster
<1> QED
  BY <1>1, <1>2, PTL DEF SpecMaster, SpecKatalog, SpecPengaturan, SpecImpor, SpecCadangan

\* Whichever part moves, no form, request or run is in a state its handler does not
\* know.
THEOREM MasterTipe == SpecMaster => []TypeMaster
<1>1. TypeKatalog /\ TypePengaturan /\ TypeImpor /\ TypeCadangan => TypeMaster
  BY DEF TypeMaster
<1> QED
  BY <1>1, MasterBagian, KatalogTipe, PengaturanTipe, ImporTipe, CadanganTipe, PTL

=============================================================================
