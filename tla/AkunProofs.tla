----------------------------- MODULE AkunProofs -----------------------------
(***************************************************************************)
(* Proofs about Akun: for any accounts, roles, requests and limits, a lock *)
(* bounds the passwords that are tried, a session is one of the current    *)
(* password or is about to be deleted, and nobody gives himself a role.    *)
(***************************************************************************)
EXTENDS Akun, FiniteSetTheorems, TLAPS

UrusPribadi == [tahap : {"tulis", "bersih"}, urusan : Pribadi, kue : Nat, target : Akun, baca : Bacaan]
UrusKelola == [tahap : {"tulis"}, urusan : Kelola, target : Akun, baca : Bacaan]
Kerja == {Kosong} \cup Login \cup Urus

\* What a request may look like, one clause per step.
LEMMA BentukMinta ==
  ASSUME NEW m \in Kerja
  PROVE  /\ m.tahap \in {"verif", "sesi"} => m \in Login
         /\ m.tahap = "bersih" => m \in UrusPribadi
         /\ m.tahap = "tulis" /\ m.urusan \in Pribadi => m \in UrusPribadi
         /\ m.tahap = "tulis" /\ m.urusan \in Kelola => m \in UrusKelola
         /\ m.tahap \notin {"verif", "sesi", "tulis", "bersih"} => m = Kosong
BY DEF Kerja, Login, Urus, UrusPribadi, UrusKelola, Pribadi, Kelola, Kosong

LEMMA KosongSah == Kosong \in Kerja /\ Kosong.tahap = "kosong" /\ Sah(Kosong) /\ Sah(Kosong)'
BY DEF Kerja, Kosong, Sah

\* An account that is there is a row, and a row is there.
LEMMA BarisAda ==
  ASSUME TypeOK
  PROVE  /\ Tiada \notin Baris
         /\ \A a \in Akun : Ada(a) <=> pengguna[a] \in Baris
<1>1. Tiada \notin Baris
  <2> SUFFICES ASSUME Tiada \in Baris
               PROVE  FALSE
    OBVIOUS
  <2>1. "aktif" \in DOMAIN Tiada
    BY DEF Baris
  <2>2. "aktif" \notin DOMAIN Tiada
    BY DEF Tiada
  <2> QED
    BY <2>1, <2>2
<1> QED
  BY <1>1 DEF TypeOK, Ada

-----------------------------------------------------------------------------
(* The statements on a row *)

LEMMA BarisGagal ==
  ASSUME NEW u \in Baris
  PROVE  /\ NaikkanGagal(u) \in Baris
         /\ NaikkanGagal(u).peran = u.peran /\ NaikkanGagal(u).sandi = u.sandi
         /\ u.gagal + 1 >= MaxGagal => NaikkanGagal(u).kunci = LamaKunci
         /\ u.gagal + 1 < MaxGagal => NaikkanGagal(u).kunci = u.kunci
<1> DEFINE n == IF u.gagal < MaxGagal THEN u.gagal + 1 ELSE MaxGagal
           k == IF n >= MaxGagal THEN LamaKunci ELSE u.kunci
<1>1. u.gagal \in 0..MaxGagal /\ u.kunci \in 0..LamaKunci
  BY DEF Baris
<1>2. n \in 0..MaxGagal /\ (n >= MaxGagal <=> u.gagal + 1 >= MaxGagal)
  BY <1>1, AkunAssumption
<1>3. k \in 0..LamaKunci
  BY <1>1, <1>2, AkunAssumption
<1>4. NaikkanGagal(u) = [u EXCEPT !.gagal = n, !.kunci = k]
  BY DEF NaikkanGagal
<1>5. /\ u.gagal + 1 >= MaxGagal => k = LamaKunci
      /\ u.gagal + 1 < MaxGagal => k = u.kunci
  BY <1>1, <1>2, AkunAssumption
<1> HIDE DEF n, k
<1> QED
  BY <1>2, <1>3, <1>4, <1>5 DEF Baris

LEMMA BarisNol ==
  ASSUME NEW u \in Baris
  PROVE  /\ NolkanGagal(u) \in Baris
         /\ NolkanGagal(u).peran = u.peran /\ NolkanGagal(u).sandi = u.sandi
         /\ NolkanGagal(u).kunci = 0
<1>1. 0 \in 0..MaxGagal /\ 0 \in 0..LamaKunci
  BY AkunAssumption
<1> QED
  BY <1>1 DEF NolkanGagal, Baris

LEMMA BarisSandi ==
  ASSUME NEW u \in Baris
  PROVE  /\ SandiBaru(u) \in Baris /\ SandiBaru(u).peran = u.peran
         /\ SandiBaru(u).kunci = 0 /\ SandiBaru(u).sandi \in Nat
<1> DEFINE v == NolkanGagal(u)
<1>1. v \in Baris /\ v.peran = u.peran /\ v.kunci = 0
  BY BarisNol
<1>2. SandiBaru(u) = [v EXCEPT !.sandi = v.sandi + 1]
  BY DEF SandiBaru
<1> HIDE DEF v
<1> QED
  BY <1>1, <1>2 DEF Baris

LEMMA BarisTimpa ==
  ASSUME NEW u \in Baris, NEW r \in Peran, NEW b \in BOOLEAN
  PROVE  /\ Timpa(u, r, b) \in Baris /\ Timpa(u, r, b).peran = r
         /\ Timpa(u, r, b).sandi = u.sandi /\ Timpa(u, r, b).kunci = u.kunci
BY DEF Timpa, Baris

LEMMA BarisAktif ==
  ASSUME NEW u \in Baris, NEW b \in BOOLEAN
  PROVE  /\ [u EXCEPT !.aktif = b] \in Baris /\ [u EXCEPT !.aktif = b].peran = u.peran
         /\ [u EXCEPT !.aktif = b].sandi = u.sandi /\ [u EXCEPT !.aktif = b].kunci = u.kunci
BY DEF Baris

-----------------------------------------------------------------------------
(* What the steps have in common *)

\* One request goes on as n.
Jadi(p, n) ==
  /\ n \in Kerja /\ minta' \in [Minta -> Kerja] /\ minta'[p] = n
  /\ \A q \in Minta \ {p} : minta'[q] = minta[q]

LEMMA SatuJadi ==
  ASSUME TypeOK, NEW p \in Minta, NEW n \in Kerja, minta' = [minta EXCEPT ![p] = n]
  PROVE  Jadi(p, n)
BY DEF TypeOK, Jadi, Kerja

LEMMA SelesaiJadi ==
  ASSUME TypeOK, NEW p \in Minta, Selesai(p)
  PROVE  Jadi(p, Kosong)
BY KosongSah, SatuJadi DEF Selesai

\* No account goes and no role is taken back; sessions end only.
Lanjut ==
  /\ \A a \in Akun : Ada(a) => Ada(a)'
  /\ \A a \in Akun : diberi[a] \subseteq diberi'[a]
  /\ nomor' = nomor
  /\ \A t \in sesi' : \E s \in sesi : s.id = t.id /\ s.akun = t.akun

\* What a request knows stays so.
LEMMA SahTetap ==
  ASSUME TypeOK, NEW m \in Kerja, Sah(m), Lanjut
  PROVE  Sah(m)'
<1>1. m.tahap \in {"verif", "sesi"} => m.akun \in Akun
  BY BentukMinta DEF Login
<1>2. m.tahap \in {"tulis", "bersih"} => m.target \in Akun
  BY DEF Kerja, Login, Urus, Kosong
<1> QED
  BY <1>1, <1>2 DEF Sah, Lanjut

LEMMA SahLangkah ==
  ASSUME TypeOK, PermintaanSah, SesiMilik, Lanjut, NEW p \in Minta, NEW n, Jadi(p, n), Sah(n)'
  PROVE  PermintaanSah' /\ SesiMilik'
<1>1. PermintaanSah'
  <2> SUFFICES ASSUME NEW q \in Minta
               PROVE  Sah(minta[q])'
    BY DEF PermintaanSah
  <2>1. CASE q = p
    BY <2>1 DEF Jadi, Sah, Ada
  <2>2. CASE q # p
    <3>1. PICK m \in Kerja : m = minta[q]
      BY DEF TypeOK, Kerja
    <3>2. minta'[q] = m
      BY <2>2, <3>1 DEF Jadi
    <3>3. Sah(m)'
      BY <3>1, SahTetap DEF PermintaanSah
    <3> QED
      BY <3>2, <3>3
  <2> QED
    BY <2>1, <2>2
<1>2. SesiMilik'
  <2>1. \A s \in sesi : s.akun \in Akun
    BY DEF TypeOK, Sesi
  <2> QED
    BY <2>1 DEF SesiMilik, Lanjut
<1> QED
  BY <1>1, <1>2

\* A step that keeps a count, or ends it, and lets nobody else try.
GagalTurun ==
  \A a \in Akun : \/ tebak'[a] = 0
                  \/ tebak'[a] = tebak[a] /\ (Terkunci(a) => Terkunci(a)')

LEMMA MencobaSebagian ==
  ASSUME NEW a
  PROVE  /\ IsFiniteSet(Mencoba(a)) /\ Cardinality(Mencoba(a)) \in Nat
         /\ Cardinality(Minta) \in Nat
         /\ Cardinality(Mencoba(a)) <= Cardinality(Minta)
<1>1. Mencoba(a) \subseteq Minta
  BY DEF Mencoba
<1> QED
  BY <1>1, AkunAssumption, FS_Subset, FS_CardinalityType

LEMMA MencobaSebagianNanti ==
  ASSUME NEW a
  PROVE  /\ IsFiniteSet(Mencoba(a)') /\ Cardinality(Mencoba(a)') \in Nat
         /\ Cardinality(Mencoba(a)') <= Cardinality(Minta)
<1>1. Mencoba(a)' \subseteq Minta
  BY DEF Mencoba
<1> QED
  BY <1>1, AkunAssumption, FS_Subset, FS_CardinalityType

LEMMA GagalLangkah ==
  ASSUME TypeOK, GagalDibatasi, GagalTurun, \A a \in Akun : Mencoba(a)' \subseteq Mencoba(a)
  PROVE  GagalDibatasi'
<1> SUFFICES ASSUME NEW a \in Akun
             PROVE  /\ ~Terkunci(a)' => tebak'[a] = 0
                    /\ tebak'[a] + Cardinality(Mencoba(a)') <= Cardinality(Minta)
  BY DEF GagalDibatasi
<1>1. Cardinality(Mencoba(a)') <= Cardinality(Mencoba(a))
  BY MencobaSebagian, FS_Subset
<1>2. tebak[a] \in Nat
  BY DEF TypeOK
<1>3. /\ ~Terkunci(a) => tebak[a] = 0
      /\ tebak[a] + Cardinality(Mencoba(a)) <= Cardinality(Minta)
  BY DEF GagalDibatasi
<1>4. CASE tebak'[a] = 0
  BY <1>4, MencobaSebagianNanti, MencobaSebagian
<1>5. CASE tebak'[a] = tebak[a] /\ (Terkunci(a) => Terkunci(a)')
  BY <1>1, <1>2, <1>3, <1>5, MencobaSebagianNanti, MencobaSebagian
<1> QED
  BY <1>4, <1>5 DEF GagalTurun

\* Nobody is past the check of the lock who was not before.
LEMMA MencobaLain ==
  ASSUME NEW p \in Minta, NEW n, Jadi(p, n), n.tahap # "verif", NEW a
  PROVE  Mencoba(a)' \subseteq Mencoba(a)
BY DEF Mencoba, Jadi

\* A password that changes is a reason, and so is a deletion that is given up;
\* sessions end only.
UsangTetap(p) ==
  /\ sesi' \subseteq sesi /\ sebab \subseteq sebab'
  /\ \A a \in Akun : Ada(a) => pengguna'[a].sandi = pengguna[a].sandi \/ a \in sebab'
  /\ \A q \in Minta \ {p} : minta'[q] = minta[q]
  /\ minta[p].tahap = "bersih" => minta[p].target \in sebab'

LEMMA UsangLangkah ==
  ASSUME TypeOK, SesiUsang, SesiMilik, NEW p \in Minta, UsangTetap(p)
  PROVE  SesiUsang'
<1> SUFFICES ASSUME NEW s \in sesi
             PROVE  \/ s.sandi = pengguna'[s.akun].sandi
                    \/ \E q \in Minta : /\ minta'[q].tahap = "bersih" /\ minta'[q].target = s.akun
                                        /\ minta'[q].kue # s.id
                    \/ s.akun \in sebab'
  BY DEF SesiUsang, UsangTetap
<1>1. s.akun \in Akun /\ Ada(s.akun)
  BY DEF TypeOK, Sesi, SesiMilik
<1>2. CASE s.sandi = pengguna[s.akun].sandi
  BY <1>1, <1>2 DEF UsangTetap
<1>3. CASE \E q \in Minta : minta[q].tahap = "bersih" /\ minta[q].target = s.akun /\ minta[q].kue # s.id
  <2>1. PICK q \in Minta : minta[q].tahap = "bersih" /\ minta[q].target = s.akun /\ minta[q].kue # s.id
    BY <1>3
  <2>2. CASE q = p
    BY <2>1, <2>2 DEF UsangTetap
  <2>3. CASE q # p
    BY <2>1, <2>3 DEF UsangTetap
  <2> QED
    BY <2>2, <2>3
<1>4. CASE s.akun \in sebab
  BY <1>4 DEF UsangTetap
<1> QED
  BY <1>2, <1>3, <1>4 DEF SesiUsang

\* A request reads, and nothing else happens.
LEMMA LangkahBaca ==
  ASSUME InvAkun, NEW p \in Minta, NEW n, Jadi(p, n), Sah(n), n.tahap # "verif",
         minta[p].tahap # "bersih", UNCHANGED <<pengguna, sesi, nomor, catatan>>
  PROVE  InvAkun'
<1>1. UNCHANGED <<pengguna, sesi, nomor, tebak, diberi, sebab>>
  BY DEF catatan
<1>2. TypeOK'
  BY <1>1 DEF InvAkun, TypeOK, Jadi, Kerja
<1>3. HakDiberi'
  BY <1>1 DEF InvAkun, HakDiberi, Ada
<1>4. Lanjut
  BY <1>1 DEF Lanjut, Ada, InvAkun, TypeOK
<1>5. PermintaanSah' /\ SesiMilik'
  <2>1. Sah(n)'
    BY <1>1 DEF Sah, Ada
  <2> QED
    BY <1>4, <2>1, SahLangkah DEF InvAkun
<1>6. SesiUsang'
  <2>1. UsangTetap(p)
    BY <1>1 DEF UsangTetap, Jadi
  <2> QED
    BY <2>1, UsangLangkah DEF InvAkun
<1>7. GagalDibatasi'
  <2>1. GagalTurun
    BY <1>1 DEF GagalTurun, Terkunci, Ada
  <2> QED
    BY <2>1, GagalLangkah, MencobaLain DEF InvAkun
<1> QED
  BY <1>2, <1>3, <1>5, <1>6, <1>7 DEF InvAkun

\* A request writes the row u of account t.
TulisBaris(t, u) ==
  /\ pengguna' = [pengguna EXCEPT ![t] = u] /\ u \in Baris
  /\ Ada(t) => u.sandi = pengguna[t].sandi \/ t \in sebab'
  /\ sebab \subseteq sebab' /\ sebab' \subseteq Akun
  /\ diberi' \in [Akun -> SUBSET Peran] /\ u.peran \in diberi'[t]
  /\ \A a \in Akun : diberi[a] \subseteq diberi'[a]
  /\ tebak' \in [Akun -> Nat]
  /\ UNCHANGED <<sesi, nomor>>

LEMMA TulisLangkah ==
  ASSUME InvAkun, NEW p \in Minta, NEW n, Jadi(p, n), Sah(n)', minta[p].tahap # "bersih",
         NEW t \in Akun, NEW u, TulisBaris(t, u)
  PROVE  TypeOK' /\ PermintaanSah' /\ SesiMilik' /\ SesiUsang' /\ HakDiberi'
<1>1. pengguna'[t] = u /\ \A a \in Akun \ {t} : pengguna'[a] = pengguna[a]
  BY DEF TulisBaris, InvAkun, TypeOK
<1>2. u # Tiada
  BY BarisAda DEF TulisBaris, InvAkun
<1>3. \A a \in Akun : Ada(a) => Ada(a)'
  BY <1>1, <1>2 DEF Ada
<1>4. TypeOK'
  <2>1. pengguna' \in [Akun -> Baris \cup {Tiada}]
    BY DEF TulisBaris, InvAkun, TypeOK
  <2> QED
    BY <2>1 DEF TulisBaris, Jadi, Kerja, InvAkun, TypeOK
<1>5. HakDiberi'
  <2> SUFFICES ASSUME NEW a \in Akun, Ada(a)'
               PROVE  pengguna'[a].peran \in diberi'[a]
    BY DEF HakDiberi
  <2>1. CASE a = t
    BY <1>1, <2>1 DEF TulisBaris
  <2>2. CASE a # t
    BY <1>1, <2>2 DEF TulisBaris, InvAkun, HakDiberi, Ada
  <2> QED
    BY <2>1, <2>2
<1>6. PermintaanSah' /\ SesiMilik'
  <2>1. Lanjut
    BY <1>3 DEF Lanjut, TulisBaris
  <2> QED
    BY <2>1, SahLangkah DEF InvAkun
<1>7. SesiUsang'
  <2>1. \A a \in Akun : Ada(a) => pengguna'[a].sandi = pengguna[a].sandi \/ a \in sebab'
    BY <1>1 DEF TulisBaris
  <2>2. UsangTetap(p)
    BY <2>1 DEF UsangTetap, Jadi, TulisBaris
  <2> QED
    BY <2>2, UsangLangkah DEF InvAkun
<1> QED
  BY <1>4, <1>5, <1>6, <1>7

\* ... and does not touch the lock, or ends it.
LEMMA TulisTetapTerkunci ==
  ASSUME InvAkun, NEW p \in Minta, NEW n, Jadi(p, n), n.tahap # "verif",
         NEW t \in Akun, NEW u, TulisBaris(t, u),
         \/ tebak' = tebak /\ (Ada(t) => u.kunci = pengguna[t].kunci)
         \/ tebak' = [tebak EXCEPT ![t] = 0]
  PROVE  GagalDibatasi'
<1>1. pengguna'[t] = u /\ \A a \in Akun \ {t} : pengguna'[a] = pengguna[a]
  BY DEF TulisBaris, InvAkun, TypeOK
<1>2. u # Tiada
  BY BarisAda DEF TulisBaris, InvAkun
<1>3. ASSUME NEW a \in Akun
      PROVE  \/ tebak'[a] = 0
             \/ tebak'[a] = tebak[a] /\ (Terkunci(a) => Terkunci(a)')
  <2>1. CASE a # t
    <3>1. Terkunci(a) => Terkunci(a)'
      BY <1>1, <2>1 DEF Terkunci, Ada
    <3>2. tebak'[a] = tebak[a]
      BY <2>1 DEF InvAkun, TypeOK
    <3> QED
      BY <3>1, <3>2
  <2>2. CASE a = t /\ tebak' = tebak /\ (Ada(t) => u.kunci = pengguna[t].kunci)
    BY <1>1, <1>2, <2>2 DEF Terkunci, Ada
  <2>3. CASE a = t /\ tebak' = [tebak EXCEPT ![t] = 0]
    BY <2>3 DEF InvAkun, TypeOK
  <2> QED
    BY <2>1, <2>2, <2>3
<1>4. GagalTurun
  BY <1>3 DEF GagalTurun
<1> QED
  BY <1>4, GagalLangkah, MencobaLain DEF InvAkun

-----------------------------------------------------------------------------
(* The steps *)

\* The row a request works on.
LEMMA SasaranAda ==
  ASSUME InvAkun, NEW p \in Minta
  PROVE  /\ minta[p] \in Kerja /\ Sah(minta[p])
         /\ minta[p].tahap \in {"verif", "sesi"} =>
              minta[p].akun \in Akun /\ pengguna[minta[p].akun] \in Baris
         /\ minta[p].tahap \in {"tulis", "bersih"} =>
              /\ minta[p].target \in Akun
              /\ minta[p].urusan # "buat" => pengguna[minta[p].target] \in Baris
<1>1. minta[p] \in Kerja /\ Sah(minta[p])
  BY DEF InvAkun, TypeOK, Kerja, PermintaanSah
<1>2. minta[p].tahap \in {"verif", "sesi"} => minta[p].akun \in Akun
  BY <1>1, BentukMinta DEF Login
<1>3. minta[p].tahap \in {"tulis", "bersih"} => minta[p].target \in Akun
  BY <1>1 DEF Kerja, Login, Urus, Kosong
<1> QED
  BY <1>1, <1>2, <1>3, BarisAda DEF InvAkun, Sah

LEMMA LangkahCobaLogin ==
  ASSUME InvAkun, NEW p \in Minta, NEW a \in Akun, NEW cocok \in BOOLEAN, CobaLogin(p, a, cocok)
  PROVE  InvAkun'
<1> DEFINE n == [tahap |-> "verif", akun |-> a, sandi |-> pengguna[a].sandi, cocok |-> cocok]
<1>1. n \in Kerja /\ n.tahap = "verif" /\ n.akun = a
  BY BarisAda DEF CobaLogin, InvAkun, Baris, Login, Kerja
<1>2. UNCHANGED <<pengguna, sesi, nomor, tebak, diberi, sebab>>
  BY DEF CobaLogin, catatan
<1>3. minta' = [minta EXCEPT ![p] = n] /\ Ada(a) /\ ~Terkunci(a) /\ minta[p] = Kosong
  BY DEF CobaLogin
<1> HIDE DEF n
<1>4. PICK m \in Kerja : m = n
  BY <1>1
<1>5. Jadi(p, m)
  BY <1>3, <1>4, SatuJadi DEF InvAkun
<1>6. TypeOK'
  BY <1>2, <1>5 DEF InvAkun, TypeOK, Jadi, Kerja
<1>7. HakDiberi'
  BY <1>2 DEF InvAkun, HakDiberi, Ada
<1>8. PermintaanSah' /\ SesiMilik'
  <2>1. Lanjut
    BY <1>2 DEF Lanjut, Ada, InvAkun, TypeOK
  <2>2. Sah(m)'
    BY <1>1, <1>2, <1>3, <1>4 DEF Sah, Ada
  <2> QED
    BY <1>5, <2>1, <2>2, SahLangkah DEF InvAkun
<1>9. SesiUsang'
  <2>1. UsangTetap(p)
    BY <1>2, <1>3, <1>5 DEF UsangTetap, Jadi, Kosong
  <2> QED
    BY <2>1, UsangLangkah DEF InvAkun
<1>10. GagalDibatasi'
  <2> SUFFICES ASSUME NEW b \in Akun
               PROVE  /\ ~Terkunci(b) => tebak[b] = 0
                      /\ tebak[b] + Cardinality(Mencoba(b)') <= Cardinality(Minta)
    BY <1>2 DEF GagalDibatasi, Terkunci, Ada
  <2>1. tebak[b] \in Nat /\ (~Terkunci(b) => tebak[b] = 0)
        /\ tebak[b] + Cardinality(Mencoba(b)) <= Cardinality(Minta)
    BY DEF InvAkun, TypeOK, GagalDibatasi
  <2>2. CASE b = a
    BY <1>3, <2>1, <2>2, MencobaSebagianNanti, MencobaSebagian
  <2>3. CASE b # a
    <3>1. Mencoba(b)' \subseteq Mencoba(b)
      BY <1>1, <1>4, <1>5, <2>3 DEF Mencoba, Jadi
    <3>2. Cardinality(Mencoba(b)') <= Cardinality(Mencoba(b))
      BY <3>1, MencobaSebagian, FS_Subset
    <3> QED
      BY <2>1, <3>2, MencobaSebagian, MencobaSebagianNanti
  <2> QED
    BY <2>2, <2>3
<1> QED
  BY <1>6, <1>7, <1>8, <1>9, <1>10 DEF InvAkun

\* The counter and the lock of the account whose password failed.
LEMMA GagalDicatat ==
  ASSUME InvAkun, NEW p \in Minta, Jadi(p, Kosong), NEW t \in Akun, NEW u \in Baris,
         minta[p].tahap = "verif", minta[p].akun = t, pengguna[t] \in Baris,
         u = NaikkanGagal(pengguna[t]), pengguna' = [pengguna EXCEPT ![t] = u],
         tebak' = [tebak EXCEPT ![t] = IF pengguna[t].gagal + 1 >= MaxGagal THEN tebak[t] + 1 ELSE 0]
  PROVE  GagalDibatasi'
<1>1. pengguna'[t] = u /\ \A a \in Akun \ {t} : pengguna'[a] = pengguna[a]
  BY DEF InvAkun, TypeOK
<1>2. \A a \in Akun : tebak[a] \in Nat
  BY DEF InvAkun, TypeOK
<1>3. pengguna[t].gagal \in Nat
  BY AkunAssumption DEF Baris
<1> SUFFICES ASSUME NEW a \in Akun
             PROVE  /\ ~Terkunci(a)' => tebak'[a] = 0
                    /\ tebak'[a] + Cardinality(Mencoba(a)') <= Cardinality(Minta)
  BY DEF GagalDibatasi
<1>4. /\ ~Terkunci(a) => tebak[a] = 0
      /\ tebak[a] + Cardinality(Mencoba(a)) <= Cardinality(Minta)
  BY DEF InvAkun, GagalDibatasi
<1>5. CASE a # t
  <2>1. Mencoba(a)' = Mencoba(a)
    BY <1>5, KosongSah DEF Mencoba, Jadi
  <2>2. tebak'[a] = tebak[a]
    BY <1>5 DEF InvAkun, TypeOK
  <2>3. Terkunci(a) => Terkunci(a)'
    BY <1>1, <1>5 DEF Terkunci, Ada
  <2> QED
    BY <1>4, <2>1, <2>2, <2>3
<1>6. CASE a = t
  <2>1. p \in Mencoba(a) /\ Mencoba(a)' = Mencoba(a) \ {p}
    BY <1>6, KosongSah DEF Mencoba, Jadi
  <2>2. Cardinality(Mencoba(a)') = Cardinality(Mencoba(a)) - 1
    BY <2>1, MencobaSebagian, FS_RemoveElement
  <2>3. CASE pengguna[t].gagal + 1 >= MaxGagal
    <3>1. tebak'[a] = tebak[a] + 1
      BY <1>6, <2>3 DEF InvAkun, TypeOK
    <3>2. Terkunci(a)'
      <4>1. u.kunci = LamaKunci /\ u # Tiada
        BY <2>3, BarisGagal, BarisAda DEF InvAkun
      <4> QED
        BY <1>1, <1>6, <4>1, AkunAssumption DEF Terkunci, Ada
    <3> QED
      BY <1>2, <1>4, <2>2, <3>1, <3>2, MencobaSebagian
  <2>4. CASE ~(pengguna[t].gagal + 1 >= MaxGagal)
    <3>1. tebak'[a] = 0
      BY <1>6, <2>4 DEF InvAkun, TypeOK
    <3> QED
      BY <3>1, MencobaSebagianNanti, MencobaSebagian
  <2> QED
    BY <2>3, <2>4
<1> QED
  BY <1>5, <1>6

LEMMA LangkahVerifikasi ==
  ASSUME InvAkun, NEW p \in Minta, Verifikasi(p)
  PROVE  InvAkun'
<1>1. minta[p].tahap = "verif" /\ minta[p] \in Login
  BY SasaranAda, BentukMinta DEF Verifikasi
<1>2. PICK t \in Akun : t = minta[p].akun
  BY <1>1, SasaranAda
<1>3. pengguna[t] \in Baris /\ pengguna[t].peran \in diberi[t] /\ Ada(t)
  BY <1>1, <1>2, SasaranAda, BarisAda DEF InvAkun, HakDiberi
<1>4. UNCHANGED <<sesi, nomor, diberi, sebab>>
  BY DEF Verifikasi
<1>5. tebak \in [Akun -> Nat] /\ diberi \in [Akun -> SUBSET Peran] /\ sebab \subseteq Akun
  BY DEF InvAkun, TypeOK
<1>6. CASE minta[p].cocok
  <2>1. PICK u \in Baris : u = NolkanGagal(pengguna[t])
    BY <1>3, BarisNol
  <2>2. u.peran = pengguna[t].peran /\ u.sandi = pengguna[t].sandi
    BY <1>3, <2>1, BarisNol
  <2>3. pengguna' = [pengguna EXCEPT ![t] = u] /\ tebak' = [tebak EXCEPT ![t] = 0]
    BY <1>2, <1>6, <2>1 DEF Verifikasi
  <2>4. PICK n \in Kerja : n = [minta[p] EXCEPT !.tahap = "sesi"]
    BY <1>1 DEF Kerja, Login
  <2>5. n.tahap = "sesi" /\ n.akun = t
    BY <1>1, <1>2, <2>4 DEF Login
  <2>6. Jadi(p, n)
    BY <1>6, <2>4, SatuJadi DEF Verifikasi, InvAkun
  <2>7. TulisBaris(t, u)
    BY <1>3, <1>4, <1>5, <2>2, <2>3 DEF TulisBaris
  <2>8. Sah(n)'
    <3>1. Ada(t)'
      BY <2>3, BarisAda DEF Ada, InvAkun, TypeOK
    <3> QED
      BY <2>5, <3>1 DEF Sah
  <2> QED
    BY <1>1, <2>3, <2>5, <2>6, <2>7, <2>8, TulisLangkah, TulisTetapTerkunci DEF InvAkun
<1>7. CASE ~minta[p].cocok
  <2>1. PICK u \in Baris : u = NaikkanGagal(pengguna[t])
    BY <1>3, BarisGagal
  <2>2. u.peran = pengguna[t].peran /\ u.sandi = pengguna[t].sandi
    BY <1>3, <2>1, BarisGagal
  <2>3. /\ pengguna' = [pengguna EXCEPT ![t] = u]
        /\ tebak' = [tebak EXCEPT ![t] = IF pengguna[t].gagal + 1 >= MaxGagal THEN tebak[t] + 1 ELSE 0]
    BY <1>2, <1>7, <2>1 DEF Verifikasi
  <2>4. Jadi(p, Kosong)
    BY <1>7, KosongSah, SatuJadi DEF Verifikasi, InvAkun
  <2>5. TulisBaris(t, u)
    BY <1>3, <1>4, <1>5, <2>2, <2>3 DEF TulisBaris
  <2> QED
    BY <1>1, <1>2, <1>3, <2>1, <2>3, <2>4, <2>5, KosongSah, TulisLangkah, GagalDicatat DEF InvAkun
<1> QED
  BY <1>6, <1>7

LEMMA LangkahBuatSesi ==
  ASSUME InvAkun, NEW p \in Minta, BuatSesi(p)
  PROVE  InvAkun'
<1>1. minta[p].tahap = "sesi" /\ minta[p] \in Login /\ minta[p] \in Kerja
  BY SasaranAda, BentukMinta DEF BuatSesi
<1>2. PICK t \in Akun : t = minta[p].akun
  BY <1>1, SasaranAda
<1>3. PICK x \in Sesi : x = [id |-> nomor + 1, akun |-> t, sandi |-> minta[p].sandi]
  <2>1. minta[p].sandi \in Nat /\ nomor + 1 \in Nat
    BY <1>1 DEF Login, InvAkun, TypeOK
  <2>2. [id |-> nomor + 1, akun |-> t, sandi |-> minta[p].sandi] \in Sesi
    BY <2>1 DEF Sesi
  <2> QED
    BY <2>2
<1>4. x.id = nomor + 1 /\ x.akun = t /\ x.sandi = minta[p].sandi /\ nomor \in Nat
  BY <1>3 DEF InvAkun, TypeOK
<1>5. sesi' = sesi \cup {x} /\ nomor' = nomor + 1
  BY <1>2, <1>3 DEF BuatSesi
<1>6. sebab' = IF x.sandi = pengguna[t].sandi THEN sebab ELSE sebab \cup {t}
  BY <1>2, <1>4 DEF BuatSesi
<1>7. UNCHANGED <<pengguna, tebak, diberi>> /\ Jadi(p, Kosong)
  BY KosongSah, SatuJadi DEF BuatSesi, InvAkun
<1>8. Ada(t)
  BY <1>1, <1>2, SasaranAda, BarisAda DEF InvAkun
<1>9. TypeOK'
  BY <1>4, <1>5, <1>6, <1>7 DEF InvAkun, TypeOK, Jadi, Kerja
<1>10. HakDiberi'
  BY <1>7 DEF InvAkun, HakDiberi, Ada
<1>11. \A s \in sesi : s.id \in Nat /\ s.akun \in Akun /\ Ada(s.akun) /\ s.id <= nomor
  BY DEF InvAkun, TypeOK, Sesi, SesiMilik
<1>12. SesiMilik'
  <2> SUFFICES ASSUME NEW s \in sesi', NEW r \in sesi'
               PROVE  Ada(s.akun) /\ s.id <= nomor' /\ (r.id = s.id => r.akun = s.akun)
    BY <1>7 DEF SesiMilik, Ada
  <2>1. Ada(s.akun) /\ s.id <= nomor'
    BY <1>4, <1>5, <1>8, <1>11
  <2>2. r.id = s.id => r.akun = s.akun
    BY <1>4, <1>5, <1>11 DEF InvAkun, SesiMilik
  <2> QED
    BY <2>1, <2>2
<1>13. PermintaanSah'
  <2> SUFFICES ASSUME NEW q \in Minta
               PROVE  Sah(minta[q])'
    BY DEF PermintaanSah
  <2>1. CASE q = p
    BY <1>7, <2>1, KosongSah DEF Jadi, Sah
  <2>2. CASE q # p
    <3>1. PICK m \in Kerja : m = minta[q] /\ Sah(m)
      BY DEF InvAkun, TypeOK, Kerja, PermintaanSah
    <3>2. minta'[q] = m
      BY <1>7, <2>2, <3>1 DEF Jadi
    <3>3. m.tahap \in {"tulis", "bersih"} /\ m.urusan \in Pribadi => m.kue \in Nat
      BY BentukMinta DEF UrusPribadi
    <3>4. Sah(m)'
      BY <1>4, <1>5, <1>7, <3>1, <3>3 DEF Sah, Ada
    <3> QED
      BY <3>2, <3>4 DEF Sah, Ada
  <2> QED
    BY <2>1, <2>2
<1>14. SesiUsang'
  <2> SUFFICES ASSUME NEW s \in sesi'
               PROVE  \/ s.sandi = pengguna[s.akun].sandi
                      \/ \E q \in Minta : /\ minta'[q].tahap = "bersih" /\ minta'[q].target = s.akun
                                          /\ minta'[q].kue # s.id
                      \/ s.akun \in sebab'
    BY <1>7 DEF SesiUsang
  <2>1. CASE s = x
    BY <1>4, <1>6, <2>1
  <2>2. CASE s \in sesi
    <3>1. \A q \in Minta : minta[q].tahap = "bersih" => minta'[q] = minta[q]
      BY <1>1, <1>7 DEF Jadi
    <3>2. sebab \subseteq sebab'
      BY <1>6
    <3> QED
      BY <2>2, <3>1, <3>2 DEF InvAkun, SesiUsang
  <2> QED
    BY <1>5, <2>1, <2>2
<1>15. GagalDibatasi'
  <2>1. GagalTurun
    BY <1>7 DEF GagalTurun, Terkunci, Ada
  <2> QED
    BY <1>7, <2>1, KosongSah, GagalLangkah, MencobaLain DEF InvAkun
<1> QED
  BY <1>9, <1>10, <1>12, <1>13, <1>14, <1>15 DEF InvAkun

\* Sessions end, and nothing else happens.
LEMMA LangkahSesiHilang ==
  ASSUME InvAkun, sesi' \subseteq sesi, UNCHANGED <<pengguna, minta, nomor, catatan>>
  PROVE  InvAkun'
<1>1. UNCHANGED <<pengguna, minta, nomor, tebak, diberi, sebab>>
  BY DEF catatan
<1>2. TypeOK' /\ HakDiberi' /\ SesiMilik'
  BY <1>1 DEF InvAkun, TypeOK, HakDiberi, SesiMilik, Ada
<1>3. PermintaanSah'
  BY <1>1 DEF InvAkun, PermintaanSah, Sah, Ada
<1>4. SesiUsang'
  BY <1>1 DEF InvAkun, SesiUsang
<1>5. GagalDibatasi'
  BY <1>1 DEF InvAkun, GagalDibatasi, Mencoba, Terkunci, Ada
<1> QED
  BY <1>2, <1>3, <1>4, <1>5 DEF InvAkun

LEMMA LangkahBacaPribadi ==
  ASSUME InvAkun, NEW p \in Minta, NEW s \in sesi, NEW urusan \in Pribadi, BacaPribadi(p, s, urusan)
  PROVE  InvAkun'
<1> DEFINE r == IF urusan = "profil" THEN Hak(s.akun) ELSE <<>>
           n == [tahap |-> "tulis", urusan |-> urusan, kue |-> s.id, target |-> s.akun, baca |-> r]
<1>1. s.id \in Nat /\ s.akun \in Akun /\ Ada(s.akun) /\ s.id <= nomor
  BY DEF InvAkun, TypeOK, Sesi, SesiMilik
<1>2. pengguna[s.akun] \in Baris /\ pengguna[s.akun].peran \in diberi[s.akun]
  BY <1>1, BarisAda DEF InvAkun, HakDiberi
<1>3. Hak(s.akun) \in Peran \X BOOLEAN /\ Hak(s.akun)[1] \in diberi[s.akun] /\ Hak(s.akun) # <<>>
  BY <1>1, <1>2 DEF Hak, Baris
<1>4. r \in Bacaan /\ (urusan = "profil" => r # <<>> /\ r[1] \in diberi[s.akun])
  BY <1>3 DEF Bacaan
<1>5. minta' = [minta EXCEPT ![p] = n] /\ minta[p] = Kosong
  BY DEF BacaPribadi
<1> HIDE DEF r
<1>6. /\ n \in Kerja /\ n.tahap = "tulis" /\ n.urusan = urusan /\ n.kue = s.id
      /\ n.target = s.akun /\ n.baca = r
  BY <1>1, <1>4 DEF Kerja, Urus
<1> HIDE DEF n
<1>7. Sah(n)
  <2>1. \A t \in sesi : t.id = s.id => t.akun = s.akun
    BY DEF InvAkun, SesiMilik
  <2>2. urusan \notin {"toggle", "buat"}
    BY DEF Pribadi
  <2> QED
    BY <1>1, <1>4, <1>6, <2>1, <2>2 DEF Sah
<1>8. PICK m \in Kerja : m = n
  BY <1>6
<1>9. Jadi(p, m)
  BY <1>5, <1>8, SatuJadi DEF InvAkun
<1> QED
  BY <1>5, <1>6, <1>7, <1>8, <1>9, KosongSah, LangkahBaca DEF BacaPribadi

LEMMA LangkahBacaKelola ==
  ASSUME InvAkun, NEW p \in Minta, NEW s \in sesi, NEW urusan \in Kelola, NEW t \in Dikelola,
         BacaKelola(p, s, urusan, t)
  PROVE  InvAkun'
<1> DEFINE r == IF urusan = "toggle" THEN Hak(t) ELSE <<>>
           n == [tahap |-> "tulis", urusan |-> urusan, target |-> t, baca |-> r]
<1>1. t \in Akun /\ (urusan = "buat" <=> ~Ada(t))
  BY AkunAssumption DEF BacaKelola
<1>2. Ada(t) => Hak(t) \in Peran \X BOOLEAN /\ Hak(t) # <<>>
  BY <1>1, BarisAda DEF InvAkun, Hak, Baris
<1>3. r \in Bacaan /\ (urusan = "toggle" => r # <<>>)
  BY <1>1, <1>2 DEF Bacaan
<1>4. minta' = [minta EXCEPT ![p] = n] /\ minta[p] = Kosong
  BY DEF BacaKelola
<1> HIDE DEF r
<1>5. /\ n \in Kerja /\ n.tahap = "tulis" /\ n.urusan = urusan
      /\ n.target = t /\ n.baca = r
  BY <1>1, <1>3 DEF Kerja, Urus
<1> HIDE DEF n
<1>6. Sah(n)
  BY <1>1, <1>3, <1>5 DEF Sah, Kelola, Pribadi
<1>7. PICK m \in Kerja : m = n
  BY <1>5
<1>8. Jadi(p, m)
  BY <1>4, <1>7, SatuJadi DEF InvAkun
<1> QED
  BY <1>4, <1>5, <1>6, <1>7, <1>8, KosongSah, LangkahBaca DEF BacaKelola

\* The writes that end a request: a row, and the roles given.
LEMMA LangkahTulis ==
  ASSUME InvAkun, NEW p \in Minta, minta[p].tahap = "tulis", Selesai(p),
         NEW t \in Akun, NEW u, TulisBaris(t, u),
         \/ tebak' = tebak /\ (Ada(t) => u.kunci = pengguna[t].kunci)
         \/ tebak' = [tebak EXCEPT ![t] = 0]
  PROVE  InvAkun'
<1>1. Jadi(p, Kosong)
  BY SelesaiJadi DEF InvAkun
<1>2. GagalDibatasi'
  BY <1>1, KosongSah, TulisTetapTerkunci
<1>3. TypeOK' /\ PermintaanSah' /\ SesiMilik' /\ SesiUsang' /\ HakDiberi'
  BY <1>1, KosongSah, TulisLangkah
<1> QED
  BY <1>2, <1>3 DEF InvAkun

LEMMA DiberiTambah ==
  ASSUME TypeOK, NEW t \in Akun, NEW u, u.peran \in Peran, Beri(t, u)
  PROVE  /\ diberi' \in [Akun -> SUBSET Peran] /\ u.peran \in diberi'[t]
         /\ \A a \in Akun : diberi[a] \subseteq diberi'[a]
BY DEF TypeOK, Beri

LEMMA LangkahProfil ==
  ASSUME InvAkun, NEW p \in Minta, TulisProfil(p)
  PROVE  InvAkun'
<1>1. minta[p].tahap = "tulis" /\ minta[p].urusan = "profil" /\ Selesai(p)
  BY DEF TulisProfil, Siap
<1>2. PICK t \in Akun : t = minta[p].target
  BY <1>1, SasaranAda
<1>3. pengguna[t] \in Baris
  BY <1>1, <1>2, SasaranAda
<1>4. /\ minta[p].baca[1] \in Peran /\ minta[p].baca[2] \in BOOLEAN
      /\ minta[p].baca[1] \in diberi[t]
  <2>1. minta[p] \in UrusPribadi /\ Sah(minta[p])
    BY <1>1, SasaranAda, BentukMinta DEF Pribadi
  <2> QED
    BY <1>1, <1>2, <2>1 DEF Sah, UrusPribadi, Bacaan
<1>5. PICK u \in Baris : u = Timpa(pengguna[t], minta[p].baca[1], minta[p].baca[2])
  BY <1>3, <1>4, BarisTimpa
<1>6. u.peran = minta[p].baca[1] /\ u.sandi = pengguna[t].sandi /\ u.kunci = pengguna[t].kunci
  BY <1>3, <1>4, <1>5, BarisTimpa
<1>7. pengguna' = [pengguna EXCEPT ![t] = u] /\ UNCHANGED <<sesi, nomor, tebak, diberi, sebab>>
  BY <1>2, <1>5 DEF TulisProfil, catatan
<1>8. TulisBaris(t, u)
  BY <1>4, <1>6, <1>7 DEF TulisBaris, InvAkun, TypeOK
<1> QED
  BY <1>1, <1>6, <1>7, <1>8, LangkahTulis

LEMMA LangkahUbah ==
  ASSUME InvAkun, NEW p \in Minta, TulisUbah(p)
  PROVE  InvAkun'
<1>1. minta[p].tahap = "tulis" /\ minta[p].urusan = "ubah" /\ Selesai(p)
  BY DEF TulisUbah, Siap
<1>2. PICK t \in Akun : t = minta[p].target
  BY <1>1, SasaranAda
<1>3. pengguna[t] \in Baris
  BY <1>1, <1>2, SasaranAda
<1>4. PICK r \in Peran, b \in BOOLEAN :
        /\ pengguna' = [pengguna EXCEPT ![t] = Timpa(pengguna[t], r, b)]
        /\ Beri(t, Timpa(pengguna[t], r, b))
  BY <1>2 DEF TulisUbah
<1>5. PICK u \in Baris : u = Timpa(pengguna[t], r, b)
  BY <1>3, BarisTimpa
<1>6. u.peran = r /\ u.sandi = pengguna[t].sandi /\ u.kunci = pengguna[t].kunci
  BY <1>3, <1>5, BarisTimpa
<1>7. Beri(t, u)
  BY <1>4, <1>5
<1>8. UNCHANGED <<sesi, nomor, tebak, sebab>>
  BY DEF TulisUbah
<1>9. TulisBaris(t, u)
  BY <1>4, <1>5, <1>6, <1>7, <1>8, DiberiTambah DEF TulisBaris, InvAkun, TypeOK
<1> QED
  BY <1>1, <1>6, <1>8, <1>9, LangkahTulis

LEMMA LangkahToggle ==
  ASSUME InvAkun, NEW p \in Minta, TulisToggle(p)
  PROVE  InvAkun'
<1>1. minta[p].tahap = "tulis" /\ minta[p].urusan = "toggle" /\ Selesai(p)
  BY DEF TulisToggle, Siap
<1>2. PICK t \in Akun : t = minta[p].target
  BY <1>1, SasaranAda
<1>3. pengguna[t] \in Baris
  BY <1>1, <1>2, SasaranAda
<1>4. PICK b \in BOOLEAN : b = ~minta[p].baca[2]
  OBVIOUS
<1>5. PICK u \in Baris : u = [pengguna[t] EXCEPT !.aktif = b]
  BY <1>3, BarisAktif
<1>6. u.peran = pengguna[t].peran /\ u.sandi = pengguna[t].sandi /\ u.kunci = pengguna[t].kunci
  BY <1>3, <1>5, BarisAktif
<1>7. pengguna' = [pengguna EXCEPT ![t] = u] /\ Beri(t, u)
  BY <1>2, <1>4, <1>5 DEF TulisToggle
<1>8. UNCHANGED <<sesi, nomor, tebak, sebab>>
  BY DEF TulisToggle
<1>9. u.peran \in Peran
  BY DEF Baris
<1>10. TulisBaris(t, u)
  BY <1>6, <1>7, <1>8, <1>9, DiberiTambah DEF TulisBaris, InvAkun, TypeOK
<1> QED
  BY <1>1, <1>6, <1>8, <1>10, LangkahTulis

LEMMA LangkahBuat ==
  ASSUME InvAkun, NEW p \in Minta, TulisBuat(p)
  PROVE  InvAkun'
<1>1. minta[p].tahap = "tulis" /\ minta[p].urusan = "buat" /\ Selesai(p)
  BY DEF TulisBuat, Siap
<1>2. PICK t \in Akun : t = minta[p].target
  BY <1>1, SasaranAda
<1>3. UNCHANGED <<sesi, nomor, tebak, sebab>>
  BY DEF TulisBuat
<1>4. CASE ~Ada(t)
  <2>1. PICK r \in Peran, b \in BOOLEAN :
          LET u == [peran |-> r, aktif |-> b, sandi |-> 1, gagal |-> 0, kunci |-> 0] IN
          pengguna' = [pengguna EXCEPT ![t] = u] /\ Beri(t, u)
    BY <1>2, <1>4 DEF TulisBuat
  <2>2. 0 \in 0..MaxGagal /\ 0 \in 0..LamaKunci
    BY AkunAssumption
  <2>3. PICK u \in Baris : u = [peran |-> r, aktif |-> b, sandi |-> 1, gagal |-> 0, kunci |-> 0]
    BY <2>2 DEF Baris
  <2>4. u.peran \in Peran
    BY DEF Baris
  <2>5. pengguna' = [pengguna EXCEPT ![t] = u] /\ Beri(t, u)
    BY <2>1, <2>3
  <2>6. TulisBaris(t, u)
    BY <1>3, <1>4, <2>4, <2>5, DiberiTambah DEF TulisBaris, InvAkun, TypeOK
  <2> QED
    BY <1>1, <1>3, <1>4, <2>6, LangkahTulis
<1>5. CASE Ada(t)
  <2>1. UNCHANGED <<pengguna, sesi, nomor, catatan>>
    BY <1>2, <1>3, <1>5 DEF TulisBuat, catatan
  <2> QED
    BY <1>1, <2>1, KosongSah, SelesaiJadi, LangkahBaca DEF InvAkun
<1> QED
  BY <1>4, <1>5

LEMMA LangkahReset ==
  ASSUME InvAkun, NEW p \in Minta, TulisReset(p)
  PROVE  InvAkun'
<1>1. minta[p].tahap = "tulis" /\ minta[p].urusan = "reset" /\ Selesai(p)
  BY DEF TulisReset, Siap
<1>2. PICK t \in Akun : t = minta[p].target
  BY <1>1, SasaranAda
<1>3. pengguna[t] \in Baris /\ pengguna[t].peran \in diberi[t]
  BY <1>1, <1>2, SasaranAda, BarisAda DEF InvAkun, HakDiberi
<1>4. PICK u \in Baris : u = SandiBaru(pengguna[t])
  BY <1>3, BarisSandi
<1>5. u.peran = pengguna[t].peran
  BY <1>3, <1>4, BarisSandi
<1>6. /\ pengguna' = [pengguna EXCEPT ![t] = u] /\ tebak' = [tebak EXCEPT ![t] = 0]
      /\ sebab' = sebab \cup {t} /\ UNCHANGED <<sesi, nomor, diberi>>
  BY <1>2, <1>4 DEF TulisReset
<1>7. TulisBaris(t, u)
  BY <1>3, <1>5, <1>6 DEF TulisBaris, InvAkun, TypeOK
<1> QED
  BY <1>1, <1>6, <1>7, LangkahTulis

\* The password changes: its session becomes one of the new password, and the request
\* has the others still to delete.
LEMMA LangkahSandi ==
  ASSUME InvAkun, NEW p \in Minta, TulisSandi(p)
  PROVE  InvAkun'
<1>1. minta[p].tahap = "tulis" /\ minta[p].urusan = "sandi" /\ minta[p] \in UrusPribadi
  BY SasaranAda, BentukMinta DEF TulisSandi, Siap, Pribadi
<1>2. PICK t \in Akun : t = minta[p].target
  BY <1>1, SasaranAda
<1>3. pengguna[t] \in Baris /\ Ada(t) /\ pengguna[t].peran \in diberi[t]
  BY <1>1, <1>2, SasaranAda, BarisAda DEF InvAkun, HakDiberi
<1>4. PICK u \in Baris : u = SandiBaru(pengguna[t])
  BY <1>3, BarisSandi
<1>5. u.peran = pengguna[t].peran /\ u.kunci = 0 /\ u.sandi \in Nat /\ u # Tiada
  BY <1>3, <1>4, BarisSandi, BarisAda DEF InvAkun
<1>6. /\ pengguna' = [pengguna EXCEPT ![t] = u] /\ tebak' = [tebak EXCEPT ![t] = 0]
      /\ UNCHANGED <<nomor, diberi, sebab>>
  BY <1>2, <1>4 DEF TulisSandi
<1>7. pengguna'[t] = u /\ \A a \in Akun \ {t} : pengguna'[a] = pengguna[a]
  BY <1>6 DEF InvAkun, TypeOK
<1>8. PICK n \in Kerja : n = [minta[p] EXCEPT !.tahap = "bersih"]
  BY <1>1 DEF Kerja, Urus, UrusPribadi
<1>9. n.tahap = "bersih" /\ n.urusan = "sandi" /\ n.target = t /\ n.kue = minta[p].kue /\ n.kue \in Nat
  BY <1>1, <1>2, <1>8 DEF UrusPribadi
<1>10. Jadi(p, n)
  BY <1>8, SatuJadi DEF TulisSandi, InvAkun
<1>11. sesi' = {IF s.id = n.kue THEN [s EXCEPT !.sandi = u.sandi] ELSE s : s \in sesi}
  BY <1>2, <1>7, <1>9 DEF TulisSandi
<1>12. n.kue <= nomor /\ \A s \in sesi : s.id = n.kue => s.akun = t
  BY <1>1, <1>2, <1>9, SasaranAda DEF Sah, Pribadi
<1>13. \A s \in sesi : /\ s \in Sesi /\ [s EXCEPT !.sandi = u.sandi] \in Sesi
                       /\ [s EXCEPT !.sandi = u.sandi].id = s.id
                       /\ [s EXCEPT !.sandi = u.sandi].akun = s.akun
                       /\ [s EXCEPT !.sandi = u.sandi].sandi = u.sandi
  BY <1>5 DEF InvAkun, TypeOK, Sesi
<1>14. \A a \in Akun : Ada(a) => Ada(a)'
  BY <1>5, <1>7 DEF Ada
<1>15. \A r \in sesi' : \E s \in sesi :
          /\ s.id = r.id /\ s.akun = r.akun /\ r \in Sesi
          /\ r.id = n.kue => r.sandi = u.sandi
          /\ r.id # n.kue => r = s
  BY <1>11, <1>13
<1>16. TypeOK'
  <2>1. pengguna' \in [Akun -> Baris \cup {Tiada}] /\ tebak' \in [Akun -> Nat]
    BY <1>6 DEF InvAkun, TypeOK
  <2>2. sesi' \subseteq Sesi
    BY <1>15
  <2> QED
    BY <1>6, <1>10, <2>1, <2>2 DEF InvAkun, TypeOK, Jadi, Kerja
<1>17. HakDiberi'
  BY <1>3, <1>5, <1>6, <1>7 DEF InvAkun, HakDiberi, Ada
<1>18. Lanjut
  BY <1>6, <1>14, <1>15 DEF Lanjut
<1>19. PermintaanSah' /\ SesiMilik'
  <2>1. Sah(n)'
    BY <1>3, <1>6, <1>9, <1>12, <1>14, <1>15 DEF Sah
  <2> QED
    BY <1>10, <1>18, <2>1, SahLangkah DEF InvAkun
<1>20. SesiUsang'
  <2> SUFFICES ASSUME NEW r \in sesi'
               PROVE  \/ r.sandi = pengguna'[r.akun].sandi
                      \/ \E q \in Minta : /\ minta'[q].tahap = "bersih" /\ minta'[q].target = r.akun
                                          /\ minta'[q].kue # r.id
                      \/ r.akun \in sebab'
    BY DEF SesiUsang
  <2>1. PICK s \in sesi : /\ s.id = r.id /\ s.akun = r.akun
                          /\ r.id = n.kue => r.sandi = u.sandi
                          /\ r.id # n.kue => r = s
    BY <1>15
  <2>2. CASE r.id = n.kue
    BY <1>7, <1>12, <2>1, <2>2
  <2>3. CASE r.id # n.kue /\ r.akun = t
    BY <1>9, <1>10, <2>3 DEF Jadi
  <2>4. CASE r.id # n.kue /\ r.akun # t
    <3>1. r = s /\ s.akun \in Akun
      BY <2>1, <2>4, <1>13 DEF Sesi
    <3>2. pengguna'[r.akun] = pengguna[r.akun]
      BY <1>7, <2>4, <3>1
    <3>3. \A q \in Minta : minta[q].tahap = "bersih" => minta'[q] = minta[q]
      BY <1>1, <1>10 DEF Jadi
    <3> QED
      BY <1>6, <3>1, <3>2, <3>3 DEF InvAkun, SesiUsang
  <2> QED
    BY <2>2, <2>3, <2>4
<1>21. GagalDibatasi'
  <2>1. GagalTurun
    <3> SUFFICES ASSUME NEW a \in Akun
                 PROVE  \/ tebak'[a] = 0
                        \/ tebak'[a] = tebak[a] /\ (Terkunci(a) => Terkunci(a)')
      BY DEF GagalTurun
    <3>1. CASE a = t
      BY <1>6, <3>1 DEF InvAkun, TypeOK
    <3>2. CASE a # t
      BY <1>6, <1>7, <3>2 DEF InvAkun, TypeOK, Terkunci, Ada
    <3> QED
      BY <3>1, <3>2
  <2> QED
    BY <1>9, <1>10, <2>1, GagalLangkah, MencobaLain DEF InvAkun
<1> QED
  BY <1>16, <1>17, <1>19, <1>20, <1>21 DEF InvAkun

\* Whatever survives the deletion is a session of somebody else or the one that
\* changed the password; one that is out of date is deleted by another request.
LEMMA LangkahBersihkan ==
  ASSUME InvAkun, NEW p \in Minta, Bersihkan(p)
  PROVE  InvAkun'
<1>1. minta[p].tahap = "bersih" /\ Jadi(p, Kosong)
  BY SelesaiJadi DEF Bersihkan, InvAkun
<1>2. UNCHANGED <<pengguna, nomor, tebak, diberi, sebab>>
  BY DEF Bersihkan, catatan
<1>3. sesi' = {s \in sesi : s.akun # minta[p].target \/ s.id = minta[p].kue}
  BY DEF Bersihkan, HapusKecuali
<1>4. TypeOK' /\ HakDiberi'
  BY <1>1, <1>2, <1>3 DEF InvAkun, TypeOK, Jadi, Kerja, HakDiberi, Ada
<1>5. PermintaanSah' /\ SesiMilik'
  <2>1. Lanjut
    BY <1>2, <1>3 DEF Lanjut, Ada, InvAkun, TypeOK
  <2> QED
    BY <1>1, <2>1, KosongSah, SahLangkah DEF InvAkun
<1>6. SesiUsang'
  <2> SUFFICES ASSUME NEW s \in sesi, s.akun # minta[p].target \/ s.id = minta[p].kue
               PROVE  \/ s.sandi = pengguna[s.akun].sandi
                      \/ \E q \in Minta : /\ minta'[q].tahap = "bersih" /\ minta'[q].target = s.akun
                                          /\ minta'[q].kue # s.id
                      \/ s.akun \in sebab
    BY <1>2, <1>3 DEF SesiUsang
  <2>1. CASE \E q \in Minta : minta[q].tahap = "bersih" /\ minta[q].target = s.akun /\ minta[q].kue # s.id
    <3>1. PICK q \in Minta : minta[q].tahap = "bersih" /\ minta[q].target = s.akun /\ minta[q].kue # s.id
      BY <2>1
    <3>2. q # p
      BY <3>1
    <3>3. minta'[q] = minta[q]
      BY <1>1, <3>2 DEF Jadi
    <3> QED
      BY <3>1, <3>3
  <2> QED
    BY <2>1 DEF InvAkun, SesiUsang
<1>7. GagalDibatasi'
  <2>1. GagalTurun
    BY <1>2 DEF GagalTurun, Terkunci, Ada
  <2> QED
    BY <1>1, <2>1, KosongSah, GagalLangkah, MencobaLain DEF InvAkun
<1> QED
  BY <1>4, <1>5, <1>6, <1>7 DEF InvAkun

LEMMA LangkahBerhenti ==
  ASSUME InvAkun, NEW p \in Minta, Berhenti(p)
  PROVE  InvAkun'
<1>1. Jadi(p, Kosong) /\ UNCHANGED <<pengguna, sesi, nomor, tebak, diberi>>
  BY SelesaiJadi DEF Berhenti, InvAkun
<1>2. /\ sebab \subseteq sebab' /\ sebab' \subseteq Akun
      /\ minta[p].tahap = "bersih" => minta[p].target \in sebab'
  BY SasaranAda DEF Berhenti, InvAkun, TypeOK
<1>3. TypeOK' /\ HakDiberi'
  BY <1>1, <1>2 DEF InvAkun, TypeOK, Jadi, Kerja, HakDiberi, Ada
<1>4. PermintaanSah' /\ SesiMilik'
  <2>1. Lanjut
    BY <1>1 DEF Lanjut, Ada, InvAkun, TypeOK
  <2> QED
    BY <1>1, <2>1, KosongSah, SahLangkah DEF InvAkun
<1>5. SesiUsang'
  <2>1. UsangTetap(p)
    BY <1>1, <1>2 DEF UsangTetap, Jadi
  <2> QED
    BY <2>1, UsangLangkah DEF InvAkun
<1>6. GagalDibatasi'
  <2>1. GagalTurun
    BY <1>1 DEF GagalTurun, Terkunci, Ada
  <2> QED
    BY <1>1, <2>1, KosongSah, GagalLangkah, MencobaLain DEF InvAkun
<1> QED
  BY <1>3, <1>4, <1>5, <1>6 DEF InvAkun

LEMMA LangkahDetik ==
  ASSUME InvAkun, Detik
  PROVE  InvAkun'
<1>1. UNCHANGED <<sesi, minta, nomor, diberi, sebab>>
  BY DEF Detik
<1>2. \A a \in Akun : pengguna'[a] = IF Terkunci(a) THEN [pengguna[a] EXCEPT !.kunci = pengguna[a].kunci - 1]
                                    ELSE pengguna[a]
  BY DEF Detik
<1>3. ASSUME NEW a \in Akun, Terkunci(a)
      PROVE  /\ [pengguna[a] EXCEPT !.kunci = pengguna[a].kunci - 1] \in Baris
             /\ [pengguna[a] EXCEPT !.kunci = pengguna[a].kunci - 1].peran = pengguna[a].peran
             /\ [pengguna[a] EXCEPT !.kunci = pengguna[a].kunci - 1].sandi = pengguna[a].sandi
  <2>1. pengguna[a] \in Baris /\ pengguna[a].kunci > 0
    BY <1>3, BarisAda DEF Terkunci, InvAkun
  <2>2. pengguna[a].kunci - 1 \in 0..LamaKunci
    BY <2>1, AkunAssumption DEF Baris
  <2> QED
    BY <2>1, <2>2 DEF Baris
<1>4. ASSUME NEW a \in Akun
      PROVE  /\ pengguna'[a] \in Baris \cup {Tiada}
             /\ Ada(a)' <=> Ada(a)
             /\ Ada(a) => pengguna'[a].peran = pengguna[a].peran /\ pengguna'[a].sandi = pengguna[a].sandi
  <2>1. CASE Terkunci(a)
    BY <1>2, <1>3, <2>1, BarisAda DEF Terkunci, Ada, InvAkun
  <2>2. CASE ~Terkunci(a)
    BY <1>2, <2>2 DEF InvAkun, TypeOK, Ada
  <2> QED
    BY <2>1, <2>2
<1>5. TypeOK'
  <2>1. pengguna' \in [Akun -> Baris \cup {Tiada}]
    BY <1>4 DEF Detik
  <2>2. tebak' \in [Akun -> Nat]
    BY DEF Detik, InvAkun, TypeOK
  <2> QED
    BY <1>1, <2>1, <2>2 DEF InvAkun, TypeOK
<1>6. HakDiberi'
  BY <1>1, <1>4 DEF InvAkun, HakDiberi
<1>7. Lanjut
  BY <1>1, <1>4 DEF Lanjut, InvAkun, TypeOK
<1>8. PermintaanSah'
  <2> SUFFICES ASSUME NEW q \in Minta
               PROVE  Sah(minta[q])'
    BY DEF PermintaanSah
  <2>1. PICK m \in Kerja : m = minta[q] /\ Sah(m)
    BY SasaranAda
  <2>2. Sah(m)'
    BY <1>7, <2>1, SahTetap DEF InvAkun
  <2> QED
    BY <1>1, <2>1, <2>2 DEF Sah, Ada
<1>9. SesiMilik'
  <2>1. \A s \in sesi : s.akun \in Akun
    BY DEF InvAkun, TypeOK, Sesi
  <2> QED
    BY <1>1, <1>4, <2>1 DEF InvAkun, SesiMilik
<1>10. SesiUsang'
  <2>1. \A s \in sesi : pengguna'[s.akun].sandi = pengguna[s.akun].sandi
    BY <1>4 DEF InvAkun, TypeOK, Sesi, SesiMilik
  <2> QED
    BY <1>1, <2>1 DEF InvAkun, SesiUsang
<1>11. GagalDibatasi'
  <2>1. \A a \in Akun : tebak'[a] = IF Terkunci(a)' THEN tebak[a] ELSE 0
    BY DEF Detik
  <2>2. GagalTurun
    BY <2>1 DEF GagalTurun
  <2>3. \A a : Mencoba(a)' \subseteq Mencoba(a)
    BY <1>1 DEF Mencoba
  <2> QED
    BY <2>2, <2>3, GagalLangkah DEF InvAkun
<1> QED
  BY <1>5, <1>6, <1>8, <1>9, <1>10, <1>11 DEF InvAkun

-----------------------------------------------------------------------------
(* Theorems *)

LEMMA AkunAwal == Init => InvAkun
<1> SUFFICES ASSUME Init
             PROVE  InvAkun
  OBVIOUS
<1> DEFINE u == [peran |-> "owner", aktif |-> TRUE, sandi |-> 1, gagal |-> 0, kunci |-> 0]
<1>1. u \in Baris /\ u.kunci = 0 /\ u.peran = "owner"
  <2>1. 0 \in 0..MaxGagal /\ 0 \in 0..LamaKunci
    BY AkunAssumption
  <2> QED
    BY <2>1, AkunAssumption DEF Baris
<1>2. pengguna = [a \in Akun |-> IF a = Pendiri THEN u ELSE Tiada]
  BY DEF Init
<1> HIDE DEF u
<1>3. TypeOK
  <2>1. pengguna \in [Akun -> Baris \cup {Tiada}]
    BY <1>1, <1>2
  <2>2. diberi \in [Akun -> SUBSET Peran]
    BY AkunAssumption DEF Init
  <2> QED
    BY <2>1, <2>2 DEF Init, TypeOK
<1>4. \A p \in Minta : minta[p] = Kosong
  BY DEF Init
<1>5. PermintaanSah
  BY <1>4, KosongSah DEF PermintaanSah
<1>6. SesiMilik /\ SesiUsang
  BY DEF Init, SesiMilik, SesiUsang
<1>7. HakDiberi
  BY <1>1, <1>2 DEF Init, HakDiberi, Ada
<1>8. GagalDibatasi
  <2>1. \A a : Mencoba(a) = {}
    BY <1>4, KosongSah DEF Mencoba
  <2>2. \A a \in Akun : tebak[a] = 0
    BY DEF Init
  <2> QED
    BY <2>1, <2>2, FS_EmptySet, MencobaSebagian DEF GagalDibatasi
<1> QED
  BY <1>3, <1>5, <1>6, <1>7, <1>8 DEF InvAkun

LEMMA AkunLangkah == InvAkun /\ [Next]_vars => InvAkun'
<1> SUFFICES ASSUME InvAkun, [Next]_vars
             PROVE  InvAkun'
  OBVIOUS
<1>1. ASSUME NEW p \in Minta, Permintaan(p)
      PROVE  InvAkun'
  <2>1. CASE \E a \in Akun, cocok \in BOOLEAN : CobaLogin(p, a, cocok)
    BY <2>1, LangkahCobaLogin
  <2>2. CASE Verifikasi(p) \/ BuatSesi(p) \/ Bersihkan(p) \/ Berhenti(p)
    BY <2>2, LangkahVerifikasi, LangkahBuatSesi, LangkahBersihkan, LangkahBerhenti
  <2>3. CASE \E s \in sesi : Ditolak(p, s)
    BY <2>3, LangkahSesiHilang DEF Ditolak
  <2>4. CASE \E s \in sesi : \E o \in Pribadi : BacaPribadi(p, s, o)
    BY <2>4, LangkahBacaPribadi
  <2>5. CASE \E s \in sesi : \E o \in Kelola, t \in Dikelola : BacaKelola(p, s, o, t)
    BY <2>5, LangkahBacaKelola
  <2>6. CASE TulisProfil(p) \/ TulisUbah(p) \/ TulisToggle(p)
    BY <2>6, LangkahProfil, LangkahUbah, LangkahToggle
  <2>7. CASE TulisBuat(p) \/ TulisReset(p) \/ TulisSandi(p)
    BY <2>7, LangkahBuat, LangkahReset, LangkahSandi
  <2> QED
    BY <1>1, <2>1, <2>2, <2>3, <2>4, <2>5, <2>6, <2>7 DEF Permintaan
<1>2. CASE \E s \in sesi : Keluar(s)
  BY <1>2, LangkahSesiHilang DEF Keluar
<1>3. CASE Detik
  BY <1>3, LangkahDetik
<1>4. CASE UNCHANGED vars
  <2>1. sesi' \subseteq sesi /\ UNCHANGED <<pengguna, minta, nomor, catatan>>
    BY <1>4 DEF vars, catatan
  <2> QED
    BY <2>1, LangkahSesiHilang
<1> QED
  BY <1>1, <1>2, <1>3, <1>4 DEF Next

LEMMA AkunInvarian == Spec => []InvAkun
BY AkunAwal, AkunLangkah, PTL DEF Spec

\* Accounts, sessions and requests are always of their types.
THEOREM AkunTipe == Spec => []TypeOK
<1>1. InvAkun => TypeOK
  BY DEF InvAkun
<1> QED
  BY <1>1, AkunInvarian, PTL

\* However many logins run side by side, a lock leaves no more passwords to try than
\* there are requests.
THEOREM AkunTebakan == Spec => []TebakanTerbatas
<1>1. InvAkun => TebakanTerbatas
  <2> SUFFICES ASSUME InvAkun, NEW a \in Akun
               PROVE  tebak[a] <= Cardinality(Minta)
    BY DEF TebakanTerbatas
  <2>1. tebak[a] \in Nat /\ tebak[a] + Cardinality(Mencoba(a)) <= Cardinality(Minta)
    BY DEF InvAkun, TypeOK, GagalDibatasi
  <2> QED
    BY <2>1, MencobaSebagian
<1> QED
  BY <1>1, AkunInvarian, PTL

\* A session is one of the current password, except where a deletion is still to come
\* or there is a reason why it was not deleted.
THEOREM AkunSesi == Spec => []SesiSandi
<1>1. InvAkun => SesiSandi
  BY DEF InvAkun, SesiUsang, SesiSandi
<1> QED
  BY <1>1, AkunInvarian, PTL

\* A user has only a role the management gave to the account, also when the own
\* profile is written over a change of the management.
THEOREM AkunHak == Spec => []HakDiberi
<1>1. InvAkun => HakDiberi
  BY DEF InvAkun
<1> QED
  BY <1>1, AkunInvarian, PTL

=============================================================================
