-------------------------- MODULE PenjualanProofs --------------------------
(***************************************************************************)
(* Proofs about Penjualan for any number of invoices, warehouses, products *)
(* and requests.                                                           *)
(*                                                                         *)
(* The argument is the one the code relies on: a request that has locked   *)
(* an invoice row sees the row, its payments and its returns unchanged     *)
(* until it commits, because every other writer of them needs the same     *)
(* lock.  DataUtuh(p) and PermintaanUtuh(p) say what a step of request p   *)
(* leaves alone, lemma Stabil that it therefore keeps what every OTHER     *)
(* request knows, and one lemma per action that the step is such a step    *)
(* and leaves its own request in order.                                    *)
(***************************************************************************)
EXTENDS Penjualan, HitungProofs, TLAPS

\* The rows after a step are typed, keep the promises about stock and returns,
\* and no request but p may notice: no invoice is removed, items are replaced
\* only with a new edition, and payments, returns and the row itself change only where
\* p holds the lock.
DataUtuh(p) ==
    /\ faktur' \in [Faktur -> BarisFaktur]
    /\ dibayar' \in [Faktur -> Int]
    /\ adaBayar' \in [Faktur -> BOOLEAN]
    /\ diretur' \in [Faktur -> [Produk -> Nat]]
    /\ terpakai' \subseteq KunciBayar
    /\ stok' \in [Gudang -> [Produk -> Int]]
    /\ StokTidakNegatif'
    /\ BelumAdaRetur'
    /\ \A f \in Faktur : Ada(f) =>
          /\ Ada(f)'
          /\ faktur'[f].edisi >= faktur[f].edisi
          /\ faktur'[f].edisi = faktur[f].edisi => faktur'[f].isi = faktur[f].isi
    /\ \A f \in Faktur : Ada(f) /\ pemilik[f] # p =>
          /\ faktur'[f] = faktur[f]
          /\ diretur'[f] = diretur[f]
          /\ Sisa(f)' = Sisa(f)

\* A step of request p changes no other request and takes no lock from one.
PermintaanUtuh(p) ==
    /\ pemilik' \in [Faktur -> Proses \cup {Bebas}]
    /\ proses' \in [Proses -> Permintaan]
    /\ \A q \in Proses \ {p} : proses'[q] = proses[q]
    /\ \A f \in Faktur, q \in Proses \ {p} : pemilik[f] = q => pemilik'[f] = q

-----------------------------------------------------------------------------
(* Types *)

\* A request is a record of one of the five forms, told apart by its op.
LEMMA BentukPermintaan ==
    ASSUME NEW r \in Permintaan
    PROVE  /\ r.op \in {"buat", "ubah"} => r \in PermintaanSimpan
           /\ r.op = "batal" => r \in PermintaanBatal
           /\ r.op = "bayar" => r \in PermintaanBayar
           /\ r.op = "cicil" => r \in PermintaanCicil
           /\ r.op = "retur" => r \in PermintaanRetur
BY DEF Permintaan, Diam, PermintaanSimpan, PermintaanBatal, PermintaanBayar,
       PermintaanCicil, PermintaanRetur

-----------------------------------------------------------------------------
(* What one request knows survives a step of another *)

LEMMA Stabil ==
    ASSUME NEW p \in Proses, NEW q \in Proses \ {p}, TypeOK,
           PermintaanTerkini(q), DataUtuh(p), PermintaanUtuh(p)
    PROVE  PermintaanTerkini(q)'
<1> DEFINE r == proses[q]
<1>1. proses'[q] = r
  BY DEF DataUtuh, PermintaanUtuh
<1>2. r \in Permintaan
  BY DEF TypeOK
<1>3. RujukAda(q)'
  <2>1. r.op \in {"ubah", "batal", "bayar", "retur"} => r.f \in Faktur
    BY <1>2, BentukPermintaan DEF PermintaanSimpan, PermintaanBatal, PermintaanBayar,
       PermintaanRetur
  <2>2. r.op = "cicil" => r.daftar \subseteq Faktur
    BY <1>2, BentukPermintaan DEF PermintaanCicil
  <2> QED
    BY <1>1, <2>1, <2>2 DEF RujukAda, PermintaanTerkini, DataUtuh, PermintaanUtuh
<1>4. PegangKunci(q)'
  <2>1. r.op \in {"ubah", "batal", "bayar", "retur"} => r.f \in Faktur
    BY <1>2, BentukPermintaan DEF PermintaanSimpan, PermintaanBatal, PermintaanBayar,
       PermintaanRetur
  <2> QED
    BY <1>1, <2>1 DEF PegangKunci, PermintaanTerkini, PermintaanUtuh
<1>5. BerlakuTerkini(q)'
  <2> SUFFICES ASSUME r.op \in {"ubah", "batal", "retur"}, r.tahap = "tx"
               PROVE  faktur'[r.f].status # "dibatalkan"
    BY <1>1 DEF BerlakuTerkini
  <2>1. r.f \in Faktur
    BY <1>2, BentukPermintaan DEF PermintaanSimpan, PermintaanBatal, PermintaanRetur
  <2>2. Ada(r.f) /\ pemilik[r.f] = q /\ faktur[r.f].status # "dibatalkan"
    BY DEF PermintaanTerkini, RujukAda, PegangKunci, BerlakuTerkini
  <2> QED
    BY <2>1, <2>2 DEF DataUtuh
<1>6. SimpanTerkini(q)'
  BY <1>1 DEF PermintaanTerkini, SimpanTerkini
<1>7. BayarTerkini(q)'
  <2> SUFFICES ASSUME r.op = "bayar", r.tahap = "tx" PROVE r.sisa = Sisa(r.f)'
    BY <1>1 DEF BayarTerkini
  <2>1. r.f \in Faktur /\ Ada(r.f) /\ pemilik[r.f] = q /\ r.sisa = Sisa(r.f)
    BY <1>2, BentukPermintaan
    DEF PermintaanBayar, PermintaanTerkini, RujukAda, PegangKunci, BerlakuTerkini,
     SimpanTerkini, BayarTerkini
  <2> QED
    BY <2>1 DEF DataUtuh, PermintaanUtuh
<1>8. CicilTerkini(q)' /\ UrutCicil(q)'
  <2> SUFFICES ASSUME r.op = "cicil"
               PROVE  CicilTerkini(q)' /\ UrutCicil(q)'
    BY <1>1 DEF CicilTerkini, UrutCicil
  <2>1. r.daftar \subseteq Faktur /\ \A f \in r.daftar : Ada(f)
    BY <1>2, BentukPermintaan DEF PermintaanCicil, PermintaanTerkini, RujukAda
  <2>2. \A f \in r.daftar \ r.antri : pemilik[f] = q
    BY DEF PermintaanTerkini, CicilTerkini
  <2>3. \A f \in r.daftar \ r.antri : Sisa(f)' = Sisa(f) /\ pemilik'[f] = q
    BY <2>1, <2>2 DEF DataUtuh, PermintaanUtuh
  <2>4. CicilTerkini(q)'
    BY <1>1, <2>2, <2>3 DEF PermintaanTerkini, CicilTerkini
  <2>5. ASSUME NEW f \in r.daftar, NEW g \in r.daftar,
               Urutan[f] < Urutan[g], r.alokasi[g] > 0
        PROVE  Sisa(f)' <= r.alokasi[f]
    <3>1. g \in Faktur /\ f \in Faktur
      BY <2>1
    <3>2. g \notin r.antri
      BY <2>5, <3>1 DEF PermintaanTerkini, CicilTerkini
    <3>3. Urutan[f] \in Nat /\ Urutan[g] \in Nat
      BY <3>1, FakturAssumption
    <3>4. f \notin r.antri
      BY <2>5, <3>2, <3>3 DEF PermintaanTerkini, CicilTerkini
    <3>5. Sisa(f) <= r.alokasi[f]
      BY <2>5 DEF PermintaanTerkini, UrutCicil
    <3> QED
      BY <2>3, <3>4, <3>5
  <2> QED
    BY <1>1, <2>4, <2>5 DEF UrutCicil
<1>9. ReturTerkini(q)'
  <2> SUFFICES ASSUME r.op = "retur" PROVE ReturTerkini(q)'
    BY <1>1 DEF ReturTerkini
  <2>1. r.f \in Faktur /\ Ada(r.f) /\ r.edisi \in Nat /\ r.edisi <= faktur[r.f].edisi
    BY <1>2, BentukPermintaan, StokAssumption
    DEF PermintaanRetur, PermintaanTerkini, RujukAda, ReturTerkini
  <2>2. faktur[r.f].edisi \in Nat
    BY <2>1, StokAssumption DEF TypeOK, BarisFaktur
  <2>3. faktur'[r.f].edisi \in Nat
    BY <2>1, StokAssumption DEF DataUtuh, BarisFaktur
  <2>4. /\ faktur'[r.f].edisi >= faktur[r.f].edisi
        /\ faktur'[r.f].edisi = faktur[r.f].edisi => faktur'[r.f].isi = faktur[r.f].isi
    BY <2>1 DEF DataUtuh, PermintaanUtuh
  <2>5. r.tahap = "tx" => diretur'[r.f] = diretur[r.f]
    BY <2>1 DEF DataUtuh, PermintaanUtuh, PermintaanTerkini, PegangKunci
  <2>6. /\ r.edisi = faktur[r.f].edisi => r.jual = faktur[r.f].isi
        /\ r.tahap = "tx" => \A k \in Produk :
              r.isi[k] > 0 => r.isi[k] <= r.jual[k] - diretur[r.f][k]
        /\ \A k \in Produk : r.ulang[k] <= r.isi[k]
    BY DEF PermintaanTerkini, ReturTerkini
  <2> QED
    <3>1. /\ r.edisi <= faktur'[r.f].edisi
          /\ r.edisi = faktur'[r.f].edisi => r.jual = faktur'[r.f].isi
      <4>1. CASE faktur'[r.f].edisi = faktur[r.f].edisi
        BY <4>1, <2>1, <2>4, <2>6
      <4>2. CASE faktur'[r.f].edisi # faktur[r.f].edisi
        BY <4>2, <2>1, <2>2, <2>4, <2>3
      <4> QED BY <4>1, <4>2
    <3> QED
      BY <1>1, <2>5, <2>6, <3>1 DEF ReturTerkini
<1> QED
  BY <1>3, <1>4, <1>7, <1>8, <1>9, <1>5, <1>6 DEF PermintaanTerkini


\* The invariant holds after a step that leaves rows and requests intact and
\* its own request in order.
LEMMA Gabung ==
    ASSUME NEW p \in Proses, IInv, DataUtuh(p), PermintaanUtuh(p),
           PermintaanTerkini(p)'
    PROVE  IInv'
<1>1. TypeOK'
  BY DEF DataUtuh, PermintaanUtuh, TypeOK
<1>2. \A q \in Proses : PermintaanTerkini(q)'
  <2> TAKE q \in Proses
  <2>1. CASE q = p
    BY <2>1
  <2>2. CASE q # p
    BY <2>2, Stabil DEF IInv
  <2> QED BY <2>1, <2>2
<1> QED
  BY <1>1, <1>2 DEF IInv, DataUtuh

\* Rows nobody writes stay intact.
LEMMA DataTetap ==
    ASSUME NEW p \in Proses, IInv,
           UNCHANGED <<faktur, dibayar, adaBayar, diretur, terpakai, stok>>
    PROVE  DataUtuh(p)
<1>1. \A f \in Faktur : faktur[f].edisi \in Nat
  BY StokAssumption DEF IInv, TypeOK, BarisFaktur
<1> QED
  BY <1>1 DEF IInv, TypeOK, DataUtuh, StokTidakNegatif, BelumAdaRetur, Ada, Sisa

\* The end of a request: its locks go, those of the others stay, and it knows
\* nothing any more.
LEMMA SetelahAkhiri ==
    ASSUME NEW p \in Proses, TypeOK, Akhiri(p)
    PROVE  PermintaanUtuh(p) /\ PermintaanTerkini(p)'
<1>1. proses'[p] = Diam /\ proses' \in [Proses -> Permintaan]
  BY DEF TypeOK, Akhiri, Permintaan
<1>2. Diam.op = "diam"
  BY DEF Diam
<1>3. PermintaanTerkini(p)'
  BY <1>1, <1>2 DEF PermintaanTerkini, RujukAda, PegangKunci, BerlakuTerkini,
     SimpanTerkini, BayarTerkini, CicilTerkini,
     UrutCicil, ReturTerkini
<1>4. PermintaanUtuh(p)
  BY <1>1, PenjualanAssumption DEF PermintaanUtuh, Akhiri, LepasKunci, TypeOK
<1> QED BY <1>3, <1>4

\* The start of a request leaves locks and the other requests alone.
LEMMA SetelahMulai ==
    ASSUME NEW p \in Proses, NEW r \in Permintaan, TypeOK, Mulai(p, r),
           UNCHANGED pemilik
    PROVE  PermintaanUtuh(p) /\ proses'[p] = r
BY DEF Mulai, PermintaanUtuh, TypeOK

\* So does locking an invoice nobody had locked.
LEMMA SetelahKunci ==
    ASSUME NEW p \in Proses, NEW f \in Faktur, NEW r \in Permintaan, TypeOK,
           Kunci(p, f), proses' = [proses EXCEPT ![p] = r]
    PROVE  PermintaanUtuh(p) /\ proses'[p] = r /\ pemilik'[f] = p
BY PenjualanAssumption DEF Kunci, PermintaanUtuh, TypeOK

-----------------------------------------------------------------------------
(* One lemma per action *)

LEMMA MulaiBuatAman ==
    ASSUME NEW p \in Proses, IInv, MulaiBuat(p) PROVE IInv'
<1>1. DataUtuh(p)
  BY DataTetap DEF MulaiBuat
<1>2. PICK f \in Faktur, g \in Gudang, isi \in Keranjang, st \in StatusForm, d \in Diskon :
        /\ Mulai(p, [op |-> "buat", tahap |-> "baca", f |-> f, gudang |-> g,
                     isi |-> isi, status |-> st, total |-> Total(isi, d)])
        /\ UNCHANGED pemilik
  BY DEF MulaiBuat
<1> DEFINE r == [op |-> "buat", tahap |-> "baca", f |-> f, gudang |-> g,
                 isi |-> isi, status |-> st, total |-> Total(isi, d)]
<1>3. Total(isi, d) \in Nat
  BY FakturAssumption DEF Total, Keranjang
<1>4. r \in Permintaan
  BY <1>3 DEF Permintaan, PermintaanSimpan, Tahap
<1>5. PermintaanUtuh(p) /\ proses'[p] = r
  BY <1>2, <1>4, SetelahMulai DEF IInv
<1>6. PermintaanTerkini(p)'
  BY <1>5 DEF PermintaanTerkini, RujukAda, PegangKunci, BerlakuTerkini,
     SimpanTerkini, BayarTerkini, CicilTerkini,
     UrutCicil, ReturTerkini
<1> QED BY <1>1, <1>5, <1>6, Gabung


LEMMA MulaiUbahAman ==
    ASSUME NEW p \in Proses, IInv, MulaiUbah(p) PROVE IInv'
<1>1. DataUtuh(p)
  BY DataTetap DEF MulaiUbah
<1>2. PICK f \in Faktur, g \in Gudang, isi \in Keranjang, st \in StatusForm, d \in Diskon :
        /\ BolehDikoreksi(f)
        /\ Mulai(p, [op |-> "ubah", tahap |-> "baca", f |-> f, gudang |-> g,
                     isi |-> isi, status |-> st, total |-> Total(isi, d)])
        /\ UNCHANGED <<faktur, pemilik>>
  BY DEF MulaiUbah
<1> DEFINE r == [op |-> "ubah", tahap |-> "baca", f |-> f, gudang |-> g,
                 isi |-> isi, status |-> st, total |-> Total(isi, d)]
<1>3. Total(isi, d) \in Nat
  BY FakturAssumption DEF Total, Keranjang
<1>4. r \in Permintaan
  BY <1>3 DEF Permintaan, PermintaanSimpan, Tahap
<1>5. PermintaanUtuh(p) /\ proses'[p] = r
  BY <1>2, <1>4, SetelahMulai DEF IInv
<1>6. PermintaanTerkini(p)'
  BY <1>2, <1>5 DEF PermintaanTerkini, RujukAda, PegangKunci, BerlakuTerkini,
     SimpanTerkini, BayarTerkini, CicilTerkini,
     UrutCicil, ReturTerkini, BolehDikoreksi, Ada
<1> QED BY <1>1, <1>5, <1>6, Gabung

LEMMA MulaiBatalAman ==
    ASSUME NEW p \in Proses, IInv, MulaiBatal(p) PROVE IInv'
<1>1. DataUtuh(p)
  BY DataTetap DEF MulaiBatal
<1>2. PICK f \in Faktur :
        /\ BolehDikoreksi(f)
        /\ Mulai(p, [op |-> "batal", tahap |-> "baca", f |-> f])
        /\ UNCHANGED <<faktur, pemilik>>
  BY DEF MulaiBatal
<1> DEFINE r == [op |-> "batal", tahap |-> "baca", f |-> f]
<1>3. r \in Permintaan
  BY DEF Permintaan, PermintaanBatal, Tahap
<1>4. PermintaanUtuh(p) /\ proses'[p] = r
  BY <1>2, <1>3, SetelahMulai DEF IInv
<1>5. PermintaanTerkini(p)'
  BY <1>2, <1>4 DEF PermintaanTerkini, RujukAda, PegangKunci, BerlakuTerkini,
     SimpanTerkini, BayarTerkini, CicilTerkini,
     UrutCicil, ReturTerkini, BolehDikoreksi, Ada
<1> QED BY <1>1, <1>4, <1>5, Gabung

LEMMA MulaiBayarAman ==
    ASSUME NEW p \in Proses, IInv, MulaiBayar(p) PROVE IInv'
<1>1. DataUtuh(p)
  BY DataTetap DEF MulaiBayar
<1>2. PICK f \in Faktur, j \in Jumlah, k \in KunciBayar :
        /\ Ada(f)
        /\ Mulai(p, [op |-> "bayar", tahap |-> "baca", f |-> f, jumlah |-> j,
                     kunci |-> k, sisa |-> 0])
        /\ UNCHANGED <<faktur, pemilik>>
  BY DEF MulaiBayar
<1> DEFINE r == [op |-> "bayar", tahap |-> "baca", f |-> f, jumlah |-> j,
                 kunci |-> k, sisa |-> 0]
<1>3. r \in Permintaan
  BY PenjualanAssumption DEF Permintaan, PermintaanBayar, Tahap
<1>4. PermintaanUtuh(p) /\ proses'[p] = r
  BY <1>2, <1>3, SetelahMulai DEF IInv
<1>5. PermintaanTerkini(p)'
  BY <1>2, <1>4 DEF PermintaanTerkini, RujukAda, PegangKunci, BerlakuTerkini,
     SimpanTerkini, BayarTerkini, CicilTerkini,
     UrutCicil, ReturTerkini, Ada
<1> QED BY <1>1, <1>4, <1>5, Gabung

LEMMA MulaiCicilAman ==
    ASSUME NEW p \in Proses, IInv, MulaiCicil(p) PROVE IInv'
<1>1. DataUtuh(p)
  BY DataTetap DEF MulaiCicil
<1> DEFINE S == {f \in Faktur : Terbuka(f)}
           r(j) == [op |-> "cicil", tahap |-> "baca", daftar |-> S, antri |-> S,
                    sisa |-> j, alokasi |-> [f \in Faktur |-> 0]]
<1>2. PICK j \in Jumlah : Mulai(p, r(j)) /\ UNCHANGED <<faktur, pemilik>>
  BY DEF MulaiCicil
<1>3. r(j) \in Permintaan
  BY PenjualanAssumption DEF Permintaan, PermintaanCicil, Tahap
<1>4. PermintaanUtuh(p) /\ proses'[p] = r(j)
  BY <1>2, <1>3, SetelahMulai DEF IInv
<1>5. \A f \in S : Ada(f)'
  BY <1>2 DEF Terbuka, Ada
<1>6. PermintaanTerkini(p)'
  BY <1>4, <1>5 DEF PermintaanTerkini, RujukAda, PegangKunci, BerlakuTerkini,
     SimpanTerkini, BayarTerkini, CicilTerkini,
     UrutCicil, ReturTerkini
<1> QED BY <1>1, <1>4, <1>6, Gabung

LEMMA MulaiReturAman ==
    ASSUME NEW p \in Proses, IInv, MulaiRetur(p) PROVE IInv'
<1>1. DataUtuh(p)
  BY DataTetap DEF MulaiRetur
<1>2. PICK f \in Faktur, isi \in Keranjang, ulang \in Isi :
        /\ Ada(f)
        /\ \A q \in Produk : ulang[q] <= isi[q]
        /\ Mulai(p, [op |-> "retur", tahap |-> "baca", f |-> f, isi |-> isi,
                     ulang |-> ulang, jual |-> faktur[f].isi, edisi |-> faktur[f].edisi])
        /\ UNCHANGED <<faktur, pemilik>>
  BY DEF MulaiRetur
<1> DEFINE r == [op |-> "retur", tahap |-> "baca", f |-> f, isi |-> isi,
                 ulang |-> ulang, jual |-> faktur[f].isi, edisi |-> faktur[f].edisi]
<1>3. faktur[f].isi \in Isi /\ faktur[f].edisi \in 0..MaxEdisi
  BY DEF IInv, TypeOK, BarisFaktur
<1>4. r \in Permintaan
  BY <1>3 DEF Permintaan, PermintaanRetur, Tahap
<1>5. PermintaanUtuh(p) /\ proses'[p] = r
  BY <1>2, <1>4, SetelahMulai DEF IInv
<1>6. PermintaanTerkini(p)'
  BY <1>2, <1>3, <1>5, StokAssumption
  DEF PermintaanTerkini, RujukAda, PegangKunci, BerlakuTerkini,
     SimpanTerkini, BayarTerkini, CicilTerkini,
      UrutCicil, ReturTerkini, Ada
<1> QED BY <1>1, <1>5, <1>6, Gabung

LEMMA GagalAman ==
    ASSUME NEW p \in Proses, IInv, Gagal(p) PROVE IInv'
BY SetelahAkhiri, DataTetap, Gabung DEF Gagal, IInv

LEMMA KunciKoreksiAman ==
    ASSUME NEW p \in Proses, IInv, KunciKoreksi(p) PROVE IInv'
<1>1. DataUtuh(p)
  BY DataTetap DEF KunciKoreksi
<1> DEFINE r == proses[p]
           s == [r EXCEPT !.tahap = "tx"]
<1>2. r \in PermintaanSimpan \cup PermintaanBatal /\ r.op \in {"ubah", "batal"}
  BY BentukPermintaan DEF KunciKoreksi, Di, IInv, TypeOK
<1>3. /\ s \in Permintaan /\ s.op = r.op /\ s.f = r.f /\ r.f \in Faktur
      /\ r.op = "ubah" => s.isi = r.isi /\ s.total = r.total
  <2>1. CASE r \in PermintaanSimpan
    <3>1. s \in PermintaanSimpan
      BY <2>1 DEF PermintaanSimpan, Tahap
    <3> QED
      BY <2>1, <3>1 DEF Permintaan, PermintaanSimpan
  <2>2. CASE r \in PermintaanBatal
    <3>1. s \in PermintaanBatal
      BY <2>2 DEF PermintaanBatal, Tahap
    <3> QED
      BY <2>2, <3>1 DEF Permintaan, PermintaanBatal
  <2> QED BY <1>2, <2>1, <2>2
<1>4. PermintaanUtuh(p) /\ proses'[p] = s /\ pemilik'[r.f] = p
  BY <1>3, SetelahKunci DEF KunciKoreksi, IInv
<1>5. Ada(r.f)
  BY <1>2, <1>3 DEF IInv, PermintaanTerkini, RujukAda
<1>6. faktur[r.f].status # "dibatalkan" /\ faktur' = faktur
  BY DEF KunciKoreksi
<1>7. r.op = "ubah" => \E d \in Diskon : r.total = Total(r.isi, d)
  BY DEF IInv, PermintaanTerkini, SimpanTerkini
<1> HIDE DEF r, s
<1>8. PermintaanTerkini(p)'
  BY <1>2, <1>3, <1>4, <1>5, <1>6, <1>7 DEF PermintaanTerkini, RujukAda, PegangKunci,
     BerlakuTerkini, SimpanTerkini, BayarTerkini, CicilTerkini, UrutCicil, ReturTerkini,
     Ada
<1> QED BY <1>1, <1>4, <1>8, Gabung

LEMMA KunciBayarFakturAman ==
    ASSUME NEW p \in Proses, IInv, KunciBayarFaktur(p) PROVE IInv'
<1>1. DataUtuh(p)
  BY DataTetap DEF KunciBayarFaktur
<1> DEFINE r == proses[p]
           s == [r EXCEPT !.tahap = "tx", !.sisa = Sisa(r.f)]
<1>2. r \in PermintaanBayar
  BY BentukPermintaan DEF KunciBayarFaktur, Di, IInv, TypeOK
<1>3. Sisa(r.f) \in Int
  BY <1>2 DEF PermintaanBayar, Sisa, IInv, TypeOK, BarisFaktur
<1>4. s \in PermintaanBayar /\ s.f = r.f /\ s.op = "bayar" /\ s.sisa = Sisa(r.f)
  BY <1>2, <1>3 DEF PermintaanBayar, Tahap
<1>5. s \in Permintaan /\ r.f \in Faktur
  BY <1>2, <1>4 DEF Permintaan, PermintaanBayar
<1>6. Kunci(p, r.f) /\ proses' = [proses EXCEPT ![p] = s]
  BY DEF KunciBayarFaktur, IInv, TypeOK
<1>7. PermintaanUtuh(p) /\ proses'[p] = s /\ pemilik'[r.f] = p
  <2> HIDE DEF r, s
  <2> QED BY <1>5, <1>6, SetelahKunci DEF IInv
<1>8. Ada(r.f) /\ faktur' = faktur /\ dibayar' = dibayar
  BY <1>2 DEF IInv, PermintaanTerkini, RujukAda, KunciBayarFaktur, PermintaanBayar
<1>9. PermintaanTerkini(p)'
  BY <1>4, <1>7, <1>8 DEF PermintaanTerkini, RujukAda, PegangKunci,
     BerlakuTerkini, SimpanTerkini, BayarTerkini, CicilTerkini, UrutCicil, ReturTerkini, Ada, Sisa
<1> QED BY <1>1, <1>7, <1>9, Gabung

LEMMA KunciReturAman ==
    ASSUME NEW p \in Proses, IInv, KunciRetur(p) PROVE IInv'
<1>1. DataUtuh(p)
  BY DataTetap DEF KunciRetur
<1> DEFINE r == proses[p]
           s == [r EXCEPT !.tahap = "tx"]
<1>2. r \in PermintaanRetur
  BY BentukPermintaan DEF KunciRetur, Di, IInv, TypeOK
<1>3. /\ s \in PermintaanRetur /\ r.f \in Faktur /\ s.op = "retur"
      /\ s.f = r.f /\ s.isi = r.isi /\ s.ulang = r.ulang
      /\ s.jual = r.jual /\ s.edisi = r.edisi
  BY <1>2 DEF PermintaanRetur, Tahap
<1>4. s \in Permintaan
  BY <1>3 DEF Permintaan
<1>5. PermintaanUtuh(p) /\ proses'[p] = s /\ pemilik'[r.f] = p
  BY <1>3, <1>4, SetelahKunci DEF KunciRetur, IInv
<1>6. /\ Ada(r.f)
      /\ r.edisi <= faktur[r.f].edisi
      /\ r.edisi = faktur[r.f].edisi => r.jual = faktur[r.f].isi
      /\ \A q \in Produk : r.ulang[q] <= r.isi[q]
  BY <1>2 DEF IInv, PermintaanTerkini, RujukAda, ReturTerkini, PermintaanRetur
<1>7. \A q \in Produk : r.isi[q] > 0 => r.isi[q] <= r.jual[q] - diretur[r.f][q]
  BY DEF KunciRetur
<1>8. faktur' = faktur /\ diretur' = diretur /\ faktur[r.f].status # "dibatalkan"
  BY DEF KunciRetur
<1>9. PermintaanTerkini(p)'
  BY <1>3, <1>5, <1>6, <1>7, <1>8 DEF PermintaanTerkini, RujukAda, PegangKunci,
     BerlakuTerkini, SimpanTerkini, BayarTerkini, CicilTerkini, UrutCicil, ReturTerkini, Ada
<1> QED BY <1>1, <1>5, <1>9, Gabung

LEMMA KunciCicilAman ==
    ASSUME NEW p \in Proses, IInv, KunciCicil(p) PROVE IInv'
<1>1. DataUtuh(p)
  BY DataTetap DEF KunciCicil
<1> DEFINE r == proses[p]
           alok(f) == IF Sisa(f) <= 0 THEN 0
                      ELSE IF Sisa(f) < r.sisa THEN Sisa(f) ELSE r.sisa
           s(f) == [r EXCEPT !.tahap = "tx", !.antri = r.antri \ {f},
                             !.sisa = r.sisa - alok(f), !.alokasi[f] = alok(f)]
<1>2. r \in PermintaanCicil /\ r.op = "cicil" /\ r.sisa > 0
  BY BentukPermintaan DEF KunciCicil, IInv, TypeOK
<1>3. PICK f \in Faktur : Tertua(f, r.antri) /\ Kunci(p, f)
                          /\ proses' = [proses EXCEPT ![p] = s(f)]
  BY DEF KunciCicil
<1>4. \A g \in Faktur : Sisa(g) \in Int /\ Sisa(g)' = Sisa(g)
  BY DEF Sisa, IInv, TypeOK, BarisFaktur, KunciCicil
<1>5. /\ alok(f) \in Nat /\ alok(f) <= r.sisa
      /\ alok(f) > 0 => alok(f) <= Sisa(f)
      /\ r.sisa - alok(f) > 0 => Sisa(f) <= alok(f)
  BY <1>2, <1>4 DEF PermintaanCicil
<1>6. /\ s(f).op = "cicil" /\ s(f).daftar = r.daftar /\ s(f).antri = r.antri \ {f}
      /\ s(f).sisa = r.sisa - alok(f)
      /\ s(f).alokasi = [r.alokasi EXCEPT ![f] = alok(f)]
      /\ s(f) \in PermintaanCicil
  <2>1. r.sisa - alok(f) \in Nat
    BY <1>2, <1>5 DEF PermintaanCicil
  <2> HIDE DEF alok
  <2>2. [r.alokasi EXCEPT ![f] = alok(f)] \in [Faktur -> Nat]
    BY <1>2, <1>5 DEF PermintaanCicil
  <2>3. r.antri \ {f} \in SUBSET Faktur
    BY <1>2 DEF PermintaanCicil
  <2>4. /\ s(f).op = "cicil" /\ s(f).daftar = r.daftar /\ s(f).antri = r.antri \ {f}
        /\ s(f).sisa = r.sisa - alok(f)
        /\ s(f).alokasi = [r.alokasi EXCEPT ![f] = alok(f)]
    BY <1>2 DEF PermintaanCicil
  <2>5. s(f) \in PermintaanCicil
    BY <1>2, <2>1, <2>2, <2>3 DEF PermintaanCicil, Tahap
  <2> QED BY <2>4, <2>5
<1>7. s(f) \in Permintaan
  BY <1>6 DEF Permintaan
<1>8. PermintaanUtuh(p) /\ proses'[p] = s(f) /\ pemilik'[f] = p
  <2> HIDE DEF s
  <2> QED BY <1>3, <1>7, SetelahKunci DEF IInv
<1>9. /\ r.antri \subseteq r.daftar
      /\ r.daftar \subseteq Faktur
      /\ r.alokasi \in [Faktur -> Nat] /\ r.sisa \in Nat
      /\ \A g \in r.daftar : Ada(g)
      /\ \A g \in Faktur : g \notin r.daftar \ r.antri => r.alokasi[g] = 0
      /\ \A g \in r.daftar \ r.antri :
           /\ pemilik[g] = p
           /\ r.alokasi[g] > 0 => r.alokasi[g] <= Sisa(g)
           /\ Sisa(g) <= r.alokasi[g]
           /\ \A h \in r.antri : Urutan[g] <= Urutan[h]
  BY <1>2 DEF PermintaanCicil, IInv, PermintaanTerkini, RujukAda, CicilTerkini
<1>10. f \in r.antri /\ \A g \in r.antri : Urutan[f] <= Urutan[g]
  BY <1>3 DEF Tertua
<1>11. \A g \in r.daftar \ s(f).antri :
           /\ pemilik'[g] = p
           /\ s(f).alokasi[g] > 0 => s(f).alokasi[g] <= Sisa(g)'
           /\ s(f).sisa > 0 => Sisa(g)' <= s(f).alokasi[g]
           /\ \A h \in s(f).antri : Urutan[g] <= Urutan[h]
  <2> TAKE g \in r.daftar \ s(f).antri
  <2>1. CASE g = f
    BY <2>1, <1>4, <1>5, <1>6, <1>8, <1>9, <1>10
  <2>2. CASE g # f
    <3>1. g \in r.daftar \ r.antri /\ s(f).alokasi[g] = r.alokasi[g]
      BY <2>2, <1>6, <1>9
    <3>2. pemilik'[g] = p
      BY <2>2, <3>1, <1>3, <1>9 DEF Kunci, IInv, TypeOK
    <3> QED
      BY <3>1, <3>2, <1>4, <1>6, <1>9
  <2> QED BY <2>1, <2>2
<1>12. CicilTerkini(p)'
  BY <1>6, <1>8, <1>9, <1>10, <1>11 DEF CicilTerkini
<1>13. UrutCicil(p)'
  <2> SUFFICES ASSUME NEW g \in r.daftar, NEW h \in r.daftar,
                      Urutan[g] < Urutan[h], s(f).alokasi[h] > 0
               PROVE  Sisa(g)' <= s(f).alokasi[g]
    BY <1>6, <1>8 DEF UrutCicil
  <2>1. Urutan[g] \in Nat /\ Urutan[h] \in Nat /\ Urutan[f] \in Nat
    BY <1>9, FakturAssumption
  <2>2. h \notin s(f).antri
    BY <1>6, <1>9, <1>10
  <2>3. g \notin r.antri
    <3>1. CASE h = f
      BY <3>1, <2>1, <1>10
    <3>2. CASE h # f
      BY <3>2, <2>1, <2>2, <1>6, <1>9
    <3> QED BY <3>1, <3>2
  <2>4. g # f
    BY <2>3, <1>10
  <2> QED
    BY <2>3, <2>4, <1>4, <1>6, <1>9
<1>14. RujukAda(p)'
  BY <1>6, <1>8, <1>9 DEF RujukAda, KunciCicil, Ada
<1>15. PermintaanTerkini(p)'
  BY <1>6, <1>8, <1>12, <1>13, <1>14
  DEF PermintaanTerkini, PegangKunci, BerlakuTerkini, SimpanTerkini, BayarTerkini,
     ReturTerkini
<1> QED BY <1>1, <1>8, <1>15, Gabung

-----------------------------------------------------------------------------
(* The committing actions *)

\* Taking out of a stocked warehouse no more than it holds, or putting
\* something back, leaves no stock negative.
LEMMA StokKurang ==
    ASSUME NEW s \in [Gudang -> [Produk -> Int]], NEW g \in Gudang, NEW isi \in Isi,
           \A h \in Gudang, q \in Produk : s[h][q] >= 0, Cukup(s, g, isi)
    PROVE  /\ Kurangi(s, g, isi) \in [Gudang -> [Produk -> Int]]
           /\ \A h \in Gudang, q \in Produk : Kurangi(s, g, isi)[h][q] >= 0
<1>1. \A q \in Produk : isi[q] \in Nat
  BY StokAssumption DEF Isi
<1>2. [q \in Produk |-> s[g][q] - isi[q]] \in [Produk -> Int]
  BY <1>1
<1>3. \A q \in Produk : s[g][q] - isi[q] >= 0
  BY <1>1 DEF Cukup
<1> QED BY <1>2, <1>3 DEF Kurangi

LEMMA StokTambah ==
    ASSUME NEW s \in [Gudang -> [Produk -> Int]], NEW g \in Gudang, NEW isi \in Isi,
           \A h \in Gudang, q \in Produk : s[h][q] >= 0
    PROVE  /\ Tambah(s, g, isi) \in [Gudang -> [Produk -> Int]]
           /\ \A h \in Gudang, q \in Produk : Tambah(s, g, isi)[h][q] >= 0
<1>1. \A q \in Produk : isi[q] \in Nat
  BY StokAssumption DEF Isi
<1>2. [q \in Produk |-> s[g][q] + isi[q]] \in [Produk -> Int]
  BY <1>1
<1>3. \A q \in Produk : s[g][q] + isi[q] >= 0
  BY <1>1
<1> QED BY <1>2, <1>3 DEF Tambah

\* A basket never holds a negative quantity, so an invoice without returns
\* keeps the promise about returns whatever it is edited to.
LEMMA KosongCukup ==
    ASSUME NEW isi \in Isi
    PROVE  IsiKosong \in Isi /\ \A q \in Produk : IsiKosong[q] <= isi[q]
BY StokAssumption DEF Isi, IsiKosong

LEMMA SelesaiBuatAman ==
    ASSUME NEW p \in Proses, IInv, SelesaiBuat(p) PROVE IInv'
<1> DEFINE r == proses[p]
           baru == [status |-> r.status, gudang |-> r.gudang, isi |-> r.isi,
                    total |-> r.total, edisi |-> 0]
<1>1. r \in PermintaanSimpan /\ r.f \in Faktur /\ r.gudang \in Gudang /\ r.isi \in Isi
  BY BentukPermintaan DEF SelesaiBuat, Di, IInv, TypeOK, PermintaanSimpan, Keranjang
<1>2. baru \in BarisFaktur /\ baru.status # "belum" /\ baru.isi = r.isi
  BY <1>1, FakturAssumption DEF PermintaanSimpan, BarisFaktur, StatusForm, StatusBayar
<1>3. faktur' = [faktur EXCEPT ![r.f] = baru] /\ faktur \in [Faktur -> BarisFaktur]
  BY DEF SelesaiBuat, IInv, TypeOK
<1>4. stok' \in [Gudang -> [Produk -> Int]] /\ StokTidakNegatif'
  BY <1>1, StokKurang DEF SelesaiBuat, IInv, TypeOK, StokTidakNegatif
<1>5. PermintaanUtuh(p) /\ PermintaanTerkini(p)'
  BY SetelahAkhiri DEF SelesaiBuat, IInv
<1>6. UNCHANGED <<dibayar, adaBayar, diretur, terpakai>> /\ ~Ada(r.f)
  BY DEF SelesaiBuat
<1>7. /\ dibayar \in [Faktur -> Int] /\ adaBayar \in [Faktur -> BOOLEAN]
      /\ diretur \in [Faktur -> [Produk -> Nat]] /\ terpakai \subseteq KunciBayar
      /\ BelumAdaRetur
  BY DEF IInv, TypeOK
<1>8. \A f \in Faktur : faktur[f].edisi \in Nat
  BY StokAssumption DEF IInv, TypeOK, BarisFaktur
<1> HIDE DEF r, baru
<1>9. BelumAdaRetur'
  <2>1. diretur[r.f] = IsiKosong
    BY <1>1, <1>6, <1>7 DEF BelumAdaRetur
  <2>2. \A f \in Faktur : f # r.f => faktur'[f] = faktur[f]
    BY <1>3
  <2>3. faktur'[r.f].isi = r.isi /\ faktur'[r.f].status # "belum"
    BY <1>1, <1>2, <1>3
  <2> QED
    BY <1>1, <1>6, <1>7, <2>1, <2>2, <2>3, KosongCukup
    DEF BelumAdaRetur, Ada
<1>10. \A f \in Faktur : Ada(f) => faktur'[f] = faktur[f]
  BY <1>3, <1>6
<1>11. DataUtuh(p)
  <2>1. faktur' \in [Faktur -> BarisFaktur]
    BY <1>2, <1>3
  <2>2. \A f \in Faktur : Ada(f) =>
          /\ Ada(f)'
          /\ faktur'[f].edisi >= faktur[f].edisi
          /\ faktur'[f].edisi = faktur[f].edisi => faktur'[f].isi = faktur[f].isi
    BY <1>8, <1>10 DEF Ada
  <2>3. \A f \in Faktur : Ada(f) /\ pemilik[f] # p =>
          /\ faktur'[f] = faktur[f]
          /\ diretur'[f] = diretur[f]
          /\ Sisa(f)' = Sisa(f)
    BY <1>6, <1>10 DEF Sisa
  <2> QED
    BY <2>1, <2>2, <2>3, <1>4, <1>6, <1>7, <1>9 DEF DataUtuh
<1> QED BY <1>5, <1>11, Gabung

LEMMA SelesaiUbahAman ==
    ASSUME NEW p \in Proses, IInv, SelesaiUbah(p) PROVE IInv'
<1> DEFINE r == proses[p]
           lama == faktur[r.f]
           kembali == Tambah(stok, lama.gudang, lama.isi)
           baru == [lama EXCEPT !.isi = r.isi, !.total = r.total, !.status = r.status,
                                !.edisi = lama.edisi + 1]
<1>1. r \in PermintaanSimpan /\ r.f \in Faktur /\ r.gudang \in Gudang /\ r.isi \in Isi
      /\ r.op = "ubah" /\ r.tahap = "tx"
  BY BentukPermintaan DEF SelesaiUbah, Di, IInv, TypeOK, PermintaanSimpan, Keranjang
<1>2. lama \in BarisFaktur /\ lama.edisi < MaxEdisi
  BY <1>1 DEF SelesaiUbah, IInv, TypeOK
<1>3. baru \in BarisFaktur /\ baru.status # "belum" /\ baru.isi = r.isi
      /\ baru.edisi = lama.edisi + 1 /\ lama.edisi \in Nat
  <2>1. lama.edisi \in Nat /\ lama.edisi + 1 \in 0..MaxEdisi
    BY <1>2, FakturAssumption DEF BarisFaktur
  <2>2. r.isi \in Isi /\ r.total \in Nat /\ r.status \in StatusForm
    BY <1>1 DEF PermintaanSimpan
  <2>3. baru.status = r.status /\ baru.isi = r.isi /\ baru.edisi = lama.edisi + 1
    BY <1>2 DEF BarisFaktur
  <2>4. baru \in BarisFaktur
    BY <1>2, <2>1, <2>2 DEF BarisFaktur, StatusBayar
  <2>5. r.status # "belum"
    BY <2>2 DEF StatusForm
  <2> QED BY <2>1, <2>3, <2>4, <2>5
<1>4. faktur' = [faktur EXCEPT ![r.f] = baru] /\ faktur \in [Faktur -> BarisFaktur]
  BY DEF SelesaiUbah, IInv, TypeOK
<1>5. stok' \in [Gudang -> [Produk -> Int]] /\ StokTidakNegatif'
  <2>1. lama.gudang \in Gudang /\ lama.isi \in Isi
    BY <1>2 DEF BarisFaktur
  <2>2. /\ kembali \in [Gudang -> [Produk -> Int]]
        /\ \A h \in Gudang, q \in Produk : kembali[h][q] >= 0
    BY <2>1, StokTambah DEF IInv, TypeOK, StokTidakNegatif
  <2>3. Cukup(kembali, r.gudang, r.isi) /\ stok' = Kurangi(kembali, r.gudang, r.isi)
    BY DEF SelesaiUbah
  <2> HIDE DEF kembali, r
  <2> QED
    BY <1>1, <2>2, <2>3, StokKurang DEF StokTidakNegatif
<1>6. PermintaanUtuh(p) /\ PermintaanTerkini(p)'
  BY SetelahAkhiri DEF SelesaiUbah, IInv
<1>7. UNCHANGED <<dibayar, adaBayar, diretur, terpakai>> /\ diretur[r.f] = IsiKosong
  BY DEF SelesaiUbah
<1>8. /\ dibayar \in [Faktur -> Int] /\ adaBayar \in [Faktur -> BOOLEAN]
      /\ diretur \in [Faktur -> [Produk -> Nat]] /\ terpakai \subseteq KunciBayar
      /\ BelumAdaRetur
  BY DEF IInv, TypeOK
<1>9. \A f \in Faktur : faktur[f].edisi \in Nat
  BY StokAssumption DEF IInv, TypeOK, BarisFaktur
<1>10. pemilik[r.f] = p
  BY <1>1 DEF IInv, PermintaanTerkini, PegangKunci
<1> HIDE DEF r, baru
<1>11. \A f \in Faktur : f # r.f => faktur'[f] = faktur[f]
  BY <1>4
<1>12. faktur'[r.f] = baru
  BY <1>1, <1>4
<1>13. BelumAdaRetur'
  BY <1>1, <1>3, <1>7, <1>8, <1>11, <1>12, KosongCukup
  DEF BelumAdaRetur, Ada
<1>14. DataUtuh(p)
  <2>1. faktur' \in [Faktur -> BarisFaktur]
    BY <1>3, <1>4
  <2>2. \A f \in Faktur : Ada(f) =>
          /\ Ada(f)'
          /\ faktur'[f].edisi >= faktur[f].edisi
          /\ faktur'[f].edisi = faktur[f].edisi => faktur'[f].isi = faktur[f].isi
    BY <1>3, <1>9, <1>11, <1>12 DEF Ada
  <2>3. \A f \in Faktur : Ada(f) /\ pemilik[f] # p =>
          /\ faktur'[f] = faktur[f]
          /\ diretur'[f] = diretur[f]
          /\ Sisa(f)' = Sisa(f)
    BY <1>7, <1>10, <1>11 DEF Sisa
  <2> QED
    BY <2>1, <2>2, <2>3, <1>5, <1>7, <1>8, <1>13 DEF DataUtuh
<1> QED BY <1>6, <1>14, Gabung

LEMMA SelesaiBatalAman ==
    ASSUME NEW p \in Proses, IInv, SelesaiBatal(p) PROVE IInv'
<1> DEFINE r == proses[p]
           lama == faktur[r.f]
           baru == [lama EXCEPT !.status = "dibatalkan"]
<1>1. r \in PermintaanBatal /\ r.f \in Faktur /\ r.op = "batal" /\ r.tahap = "tx"
  BY BentukPermintaan DEF SelesaiBatal, Di, IInv, TypeOK, PermintaanBatal
<1>2. lama \in BarisFaktur /\ Ada(r.f)
  BY <1>1 DEF IInv, TypeOK, PermintaanTerkini, RujukAda
<1>3. /\ baru \in BarisFaktur /\ baru.status # "belum" /\ baru.isi = lama.isi
      /\ baru.edisi = lama.edisi /\ baru.total = lama.total
  BY <1>2 DEF BarisFaktur, StatusBayar
<1>4. faktur' = [faktur EXCEPT ![r.f] = baru] /\ faktur \in [Faktur -> BarisFaktur]
  BY <1>1 DEF SelesaiBatal, IInv, TypeOK
<1>5. stok' \in [Gudang -> [Produk -> Int]] /\ StokTidakNegatif'
  <2>1. lama.gudang \in Gudang /\ lama.isi \in Isi
    BY <1>2 DEF BarisFaktur
  <2> QED
    BY <2>1, StokTambah DEF SelesaiBatal, IInv, TypeOK, StokTidakNegatif
<1>6. PermintaanUtuh(p) /\ PermintaanTerkini(p)'
  BY SetelahAkhiri DEF SelesaiBatal, IInv
<1>7. UNCHANGED <<dibayar, adaBayar, diretur, terpakai>>
  BY DEF SelesaiBatal
<1>8. /\ dibayar \in [Faktur -> Int] /\ adaBayar \in [Faktur -> BOOLEAN]
      /\ diretur \in [Faktur -> [Produk -> Nat]] /\ terpakai \subseteq KunciBayar
      /\ BelumAdaRetur
  BY DEF IInv, TypeOK
<1>9. \A f \in Faktur : faktur[f].edisi \in Nat
  BY StokAssumption DEF IInv, TypeOK, BarisFaktur
<1>10. pemilik[r.f] = p
  BY <1>1 DEF IInv, PermintaanTerkini, PegangKunci
<1> HIDE DEF baru
<1>11. \A f \in Faktur : /\ faktur'[f].isi = faktur[f].isi
                         /\ faktur'[f].edisi = faktur[f].edisi
                         /\ faktur'[f].total = faktur[f].total
                         /\ Ada(f) <=> faktur'[f].status # "belum"
  BY <1>1, <1>2, <1>3, <1>4 DEF Ada
<1>12. BelumAdaRetur'
  BY <1>7, <1>8, <1>11 DEF BelumAdaRetur, Ada
<1>13. DataUtuh(p)
  <2>1. faktur' \in [Faktur -> BarisFaktur]
    BY <1>3, <1>4
  <2>2. \A f \in Faktur : Ada(f) =>
          /\ Ada(f)'
          /\ faktur'[f].edisi >= faktur[f].edisi
          /\ faktur'[f].edisi = faktur[f].edisi => faktur'[f].isi = faktur[f].isi
    BY <1>9, <1>11 DEF Ada
  <2>3. \A f \in Faktur : Ada(f) /\ pemilik[f] # p =>
          /\ faktur'[f] = faktur[f]
          /\ diretur'[f] = diretur[f]
          /\ Sisa(f)' = Sisa(f)
    BY <1>1, <1>4, <1>7, <1>11, <1>10 DEF Sisa
  <2> QED
    BY <2>1, <2>2, <2>3, <1>5, <1>7, <1>8, <1>12 DEF DataUtuh
<1> QED BY <1>6, <1>13, Gabung

\* A payment row and its trigger change the sum and the status of the invoices
\* paid and nothing else, and no invoice disappears.
LEMMA HasilCatat ==
    ASSUME TypeOK, NEW bayar \in [Faktur -> Int], CatatBayar(bayar)
    PROVE  /\ faktur' \in [Faktur -> BarisFaktur]
           /\ dibayar' \in [Faktur -> Int]
           /\ adaBayar' \in [Faktur -> BOOLEAN]
           /\ \A f \in Faktur :
                /\ dibayar'[f] = dibayar[f] + bayar[f]
                /\ faktur'[f].isi = faktur[f].isi
                /\ faktur'[f].edisi = faktur[f].edisi
                /\ faktur'[f].total = faktur[f].total
                /\ Ada(f) => Ada(f)'
                /\ bayar[f] = 0 => faktur'[f] = faktur[f] /\ Sisa(f)' = Sisa(f)
<1> DEFINE st(f) == StatusHitung(faktur[f].total, dibayar[f] + bayar[f])
           ganti(f) == [faktur[f] EXCEPT !.status = st(f)]
<1>1. \A f \in Faktur : st(f) \in {"lunas", "sebagian", "kredit"}
  BY DEF TypeOK, BarisFaktur, StatusHitung
<1>2. \A f \in Faktur : /\ faktur[f] \in BarisFaktur
                        /\ dibayar[f] \in Int /\ bayar[f] \in Int
                        /\ faktur[f].total \in Int
  BY DEF TypeOK, BarisFaktur
<1>3. faktur' = [f \in Faktur |-> IF bayar[f] = 0 THEN faktur[f] ELSE ganti(f)]
  BY DEF CatatBayar
<1> HIDE DEF st
<1>4. \A f \in Faktur : /\ ganti(f) \in BarisFaktur
                        /\ ganti(f).isi = faktur[f].isi
                        /\ ganti(f).edisi = faktur[f].edisi
                        /\ ganti(f).total = faktur[f].total
                        /\ ganti(f).status = st(f)
  BY <1>1, <1>2 DEF BarisFaktur, StatusBayar, StatusForm
<1> HIDE DEF ganti
<1>5. faktur' \in [Faktur -> BarisFaktur]
  BY <1>2, <1>3, <1>4
<1>6. dibayar' = [f \in Faktur |-> dibayar[f] + bayar[f]]
  BY DEF CatatBayar
<1>7. dibayar' \in [Faktur -> Int]
  BY <1>2, <1>6
<1>8. adaBayar' \in [Faktur -> BOOLEAN]
  BY DEF CatatBayar, TypeOK
<1>9. ASSUME NEW f \in Faktur
      PROVE  /\ dibayar'[f] = dibayar[f] + bayar[f]
             /\ faktur'[f].isi = faktur[f].isi
             /\ faktur'[f].edisi = faktur[f].edisi
             /\ faktur'[f].total = faktur[f].total
             /\ Ada(f) => Ada(f)'
             /\ bayar[f] = 0 => faktur'[f] = faktur[f] /\ Sisa(f)' = Sisa(f)
  <2>1. CASE bayar[f] = 0
    BY <2>1, <1>2, <1>3, <1>6 DEF Ada, Sisa
  <2>2. CASE bayar[f] # 0
    BY <2>2, <1>1, <1>3, <1>4, <1>6 DEF Ada
  <2> QED BY <2>1, <2>2
<1> QED BY <1>5, <1>7, <1>8, <1>9

\* Recording payments on invoices the request has locked leaves the rows intact,
\* when returns and stock stay as they are.
LEMMA BayarUtuh ==
    ASSUME NEW p \in Proses, IInv, NEW bayar \in [Faktur -> Int], CatatBayar(bayar),
           \A f \in Faktur : bayar[f] # 0 => pemilik[f] = p,
           UNCHANGED <<diretur, stok>>, terpakai' \subseteq KunciBayar
    PROVE  DataUtuh(p)
<1>1. TypeOK
  BY DEF IInv
<1>2. \A f \in Faktur : faktur[f].edisi \in Nat
  BY <1>1, StokAssumption DEF TypeOK, BarisFaktur
<1>3. StokTidakNegatif' /\ stok' \in [Gudang -> [Produk -> Int]]
      /\ diretur' \in [Faktur -> [Produk -> Nat]]
  BY DEF IInv, TypeOK, StokTidakNegatif
<1>4. BelumAdaRetur'
  BY <1>1, HasilCatat DEF IInv, BelumAdaRetur
<1> QED
  BY <1>1, <1>2, <1>3, <1>4, HasilCatat DEF DataUtuh

LEMMA SelesaiBayarAman ==
    ASSUME NEW p \in Proses, IInv, SelesaiBayar(p) PROVE IInv'
<1> DEFINE r == proses[p]
           bayar == [f \in Faktur |-> IF f = r.f THEN r.jumlah ELSE 0]
<1>1. r \in PermintaanBayar /\ r.op = "bayar" /\ r.tahap = "tx"
  BY BentukPermintaan DEF SelesaiBayar, Di, IInv, TypeOK
<1>2. bayar \in [Faktur -> Int] /\ pemilik[r.f] = p
  BY <1>1 DEF PermintaanBayar, IInv, PermintaanTerkini, PegangKunci
<1>3. CatatBayar(bayar) /\ UNCHANGED <<diretur, stok>>
  BY DEF SelesaiBayar
<1>4. terpakai' \subseteq KunciBayar
  BY <1>1 DEF SelesaiBayar, IInv, TypeOK, PermintaanBayar
<1>5. \A f \in Faktur : bayar[f] # 0 => pemilik[f] = p
  BY <1>2
<1> HIDE DEF bayar
<1>6. DataUtuh(p)
  BY <1>2, <1>3, <1>4, <1>5, BayarUtuh
<1>7. PermintaanUtuh(p) /\ PermintaanTerkini(p)'
  BY SetelahAkhiri DEF SelesaiBayar, IInv
<1> QED BY <1>6, <1>7, Gabung

LEMMA SelesaiCicilAman ==
    ASSUME NEW p \in Proses, IInv, SelesaiCicil(p) PROVE IInv'
<1> DEFINE r == proses[p]
<1>1. r \in PermintaanCicil /\ r.op = "cicil"
  BY BentukPermintaan DEF SelesaiCicil, Di, IInv, TypeOK
<1>2. r.alokasi \in [Faktur -> Int]
  BY <1>1 DEF PermintaanCicil
<1>3. \A f \in Faktur : r.alokasi[f] # 0 => pemilik[f] = p
  BY <1>1 DEF IInv, PermintaanTerkini, CicilTerkini
<1>4. CatatBayar(r.alokasi) /\ UNCHANGED <<diretur, stok, terpakai>>
  BY DEF SelesaiCicil
<1>5. DataUtuh(p)
  BY <1>2, <1>3, <1>4, BayarUtuh DEF IInv, TypeOK
<1>6. PermintaanUtuh(p) /\ PermintaanTerkini(p)'
  BY SetelahAkhiri DEF SelesaiCicil, IInv
<1> QED BY <1>5, <1>6, Gabung

LEMMA SelesaiReturAman ==
    ASSUME NEW p \in Proses, IInv, SelesaiRetur(p) PROVE IInv'
<1> DEFINE r == proses[p]
           g == faktur[r.f].gudang
           bayar == [f \in Faktur |-> IF f = r.f THEN -NilaiRetur(r) ELSE 0]
           balik == [q \in Produk |-> diretur[r.f][q] + r.isi[q] + r.ulang[q]]
<1>1. /\ r \in PermintaanRetur /\ r.op = "retur" /\ r.tahap = "tx"
      /\ r.f \in Faktur /\ r.isi \in Isi /\ r.ulang \in Isi
  BY BentukPermintaan DEF SelesaiRetur, Di, IInv, TypeOK, PermintaanRetur, Keranjang
<1>2. bayar \in [Faktur -> Int]
  BY <1>1, FakturAssumption DEF NilaiRetur
<1>3. Ada(r.f) /\ pemilik[r.f] = p
  BY <1>1 DEF IInv, PermintaanTerkini, RujukAda, PegangKunci
<1>5. diretur[r.f] \in [Produk -> Nat] /\ g \in Gudang
  BY <1>1 DEF IInv, TypeOK, BarisFaktur
<1>6. balik \in [Produk -> Nat]
  BY <1>1, <1>5, StokAssumption DEF Isi
<1>7. /\ diretur' = [diretur EXCEPT ![r.f] = balik]
      /\ stok' = Tambah(Tambah(stok, g, r.isi), g, r.ulang)
      /\ CatatBayar(bayar) /\ terpakai' = terpakai
  BY DEF SelesaiRetur
<1>8. stok' \in [Gudang -> [Produk -> Int]] /\ StokTidakNegatif'
  <2>1. /\ Tambah(stok, g, r.isi) \in [Gudang -> [Produk -> Int]]
        /\ \A h \in Gudang, q \in Produk : Tambah(stok, g, r.isi)[h][q] >= 0
    BY <1>1, <1>5, StokTambah DEF IInv, TypeOK, StokTidakNegatif
  <2> HIDE DEF r, g
  <2> QED
    BY <2>1, <1>1, <1>5, <1>7, StokTambah DEF StokTidakNegatif
<1>9. \A f \in Faktur : bayar[f] # 0 => f = r.f
  OBVIOUS
<1> HIDE DEF bayar, balik, r
<1>10. /\ \A f \in Faktur : f # r.f => diretur'[f] = diretur[f]
       /\ diretur'[r.f] = balik /\ diretur' \in [Faktur -> [Produk -> Nat]]
  BY <1>1, <1>6, <1>7 DEF IInv, TypeOK
<1>11. TypeOK /\ BelumAdaRetur
  BY DEF IInv
<1>12. \A f \in Faktur : faktur[f].edisi \in Nat
  BY <1>11, StokAssumption DEF TypeOK, BarisFaktur
<1>13. /\ faktur' \in [Faktur -> BarisFaktur]
       /\ dibayar' \in [Faktur -> Int]
       /\ adaBayar' \in [Faktur -> BOOLEAN]
       /\ \A f \in Faktur :
            /\ faktur'[f].isi = faktur[f].isi
            /\ faktur'[f].edisi = faktur[f].edisi
            /\ Ada(f) => Ada(f)'
            /\ bayar[f] = 0 => faktur'[f] = faktur[f] /\ Sisa(f)' = Sisa(f)
  BY <1>2, <1>7, <1>11, HasilCatat
<1>15. BelumAdaRetur'
  BY <1>3, <1>10, <1>11, <1>13 DEF BelumAdaRetur
<1>16. DataUtuh(p)
  <2>1. terpakai' \subseteq KunciBayar
    BY <1>7, <1>11 DEF TypeOK
  <2>2. \A f \in Faktur : pemilik[f] # p => f # r.f
    BY <1>3
  <2> QED
    BY <2>1, <2>2, <1>8, <1>9, <1>10, <1>12, <1>13, <1>15 DEF DataUtuh
<1>17. PermintaanUtuh(p) /\ PermintaanTerkini(p)'
  BY SetelahAkhiri DEF SelesaiRetur, IInv
<1> QED BY <1>16, <1>17, Gabung

-----------------------------------------------------------------------------
(* The theorems *)

LEMMA AwalAman == Init => IInv
<1> SUFFICES ASSUME Init PROVE IInv
  OBVIOUS
<1>1. (CHOOSE g \in Gudang : TRUE) \in Gudang
  BY StokAssumption
<1>2. IsiKosong \in Isi /\ \A q \in Produk : IsiKosong[q] = 0
  BY StokAssumption DEF IsiKosong, Isi
<1>3. TypeOK
  <2>1. faktur \in [Faktur -> BarisFaktur]
    BY <1>1, <1>2, FakturAssumption DEF Init, BarisFaktur, BarisKosong
  <2>2. diretur \in [Faktur -> [Produk -> Nat]]
    BY DEF Init, IsiKosong
  <2> QED
    BY <2>1, <2>2, <1>2, StokAssumption DEF Init, TypeOK, Permintaan
<1>4. StokTidakNegatif
  BY StokAssumption DEF Init, StokTidakNegatif
<1>5. BelumAdaRetur
  BY <1>2 DEF Init, BarisKosong, BelumAdaRetur
<1>6. \A p \in Proses : PermintaanTerkini(p)
  BY DEF Init, Diam, PermintaanTerkini, RujukAda, PegangKunci, BerlakuTerkini,
     SimpanTerkini, BayarTerkini,
     CicilTerkini, UrutCicil, ReturTerkini
<1> QED BY <1>3, <1>4, <1>5, <1>6 DEF IInv

LEMMA DiamAman == IInv /\ UNCHANGED vars => IInv'
BY DEF vars, IInv, TypeOK, StokTidakNegatif, BelumAdaRetur,
   PermintaanTerkini, RujukAda, PegangKunci, BerlakuTerkini,
     SimpanTerkini, BayarTerkini, CicilTerkini, UrutCicil,
   ReturTerkini, Ada, Sisa

LEMMA LangkahAman ==
    ASSUME IInv, Next PROVE IInv'
<1>1. PICK p \in Proses :
        \/ LangkahBuat(p) \/ LangkahKoreksi(p) \/ LangkahBayar(p)
        \/ LangkahCicil(p) \/ LangkahRetur(p) \/ Gagal(p)
  BY DEF Next
<1>2. CASE LangkahBuat(p)
  BY <1>2, MulaiBuatAman, SelesaiBuatAman DEF LangkahBuat
<1>3. CASE LangkahKoreksi(p)
  BY <1>3, MulaiUbahAman, MulaiBatalAman, KunciKoreksiAman, SelesaiUbahAman,
     SelesaiBatalAman DEF LangkahKoreksi
<1>4. CASE LangkahBayar(p)
  BY <1>4, MulaiBayarAman, KunciBayarFakturAman, SelesaiBayarAman DEF LangkahBayar
<1>5. CASE LangkahCicil(p)
  BY <1>5, MulaiCicilAman, KunciCicilAman, SelesaiCicilAman DEF LangkahCicil
<1>6. CASE LangkahRetur(p)
  BY <1>6, MulaiReturAman, KunciReturAman, SelesaiReturAman DEF LangkahRetur
<1>7. CASE Gagal(p)
  BY <1>7, GagalAman
<1> QED BY <1>1, <1>2, <1>3, <1>4, <1>5, <1>6, <1>7

\* The inductive invariant: locked rows are current for the request that locked
\* them, in every interleaving of any number of requests.
THEOREM Invarian == Spec => []IInv
<1>1. IInv /\ [Next]_vars => IInv'
  BY LangkahAman, DiamAman
<1> QED BY AwalAman, <1>1, PTL DEF Spec

\* Every variable keeps its type.
THEOREM Tipe == Spec => []TypeOK
<1>1. IInv => TypeOK
  BY DEF IInv
<1> QED BY Invarian, <1>1, PTL

\* Concurrent sales, edits, cancellations and returns never make stock negative.
THEOREM StokAman == Spec => []StokTidakNegatif
<1>1. IInv => StokTidakNegatif
  BY DEF IInv
<1> QED BY Invarian, <1>1, PTL

\* A batch payment pays the oldest invoice of its list first.
THEOREM CicilAman == Spec => []CicilDariTertua
<1>1. IInv => CicilDariTertua
  BY DEF IInv, PermintaanTerkini, CicilDariTertua
<1> QED BY Invarian, <1>1, PTL

\* A step records no more for an invoice than its total still leaves open.
LEMMA BayarLangkah ==
    ASSUME IInv, Next, NEW f \in Faktur, dibayar'[f] > dibayar[f]
    PROVE  dibayar'[f] <= faktur'[f].total
<1>1. PICK p \in Proses :
        \/ LangkahBuat(p) \/ LangkahKoreksi(p) \/ LangkahBayar(p)
        \/ LangkahCicil(p) \/ LangkahRetur(p) \/ Gagal(p)
  BY DEF Next
<1> DEFINE r == proses[p]
<1>2. dibayar[f] \in Int /\ faktur[f].total \in Int /\ TypeOK
  BY DEF IInv, TypeOK, BarisFaktur
<1>3. dibayar' # dibayar
  BY <1>2
<1>4. SelesaiBayar(p) \/ SelesaiCicil(p) \/ SelesaiRetur(p)
  BY <1>1, <1>3
  DEF LangkahBuat, LangkahKoreksi, LangkahBayar, LangkahCicil, LangkahRetur, Gagal,
      MulaiBuat, SelesaiBuat, MulaiUbah, MulaiBatal, KunciKoreksi, SelesaiUbah,
      SelesaiBatal, MulaiBayar, KunciBayarFaktur, MulaiCicil, KunciCicil, MulaiRetur,
      KunciRetur
<1>5. CASE SelesaiBayar(p)
  <2> DEFINE bayar == [g \in Faktur |-> IF g = r.f THEN r.jumlah ELSE 0]
  <2>1. r \in PermintaanBayar /\ r.op = "bayar" /\ r.tahap = "tx"
    BY <1>5, BentukPermintaan DEF SelesaiBayar, Di, IInv, TypeOK
  <2>2. bayar \in [Faktur -> Int]
    BY <2>1 DEF PermintaanBayar
  <2>3. CatatBayar(bayar)
    BY <1>5 DEF SelesaiBayar
  <2>4. dibayar'[f] = dibayar[f] + bayar[f] /\ faktur'[f].total = faktur[f].total
    <3> HIDE DEF bayar
    <3> QED BY <1>2, <2>2, <2>3, HasilCatat
  <2>5. f = r.f /\ bayar[f] = r.jumlah
    BY <1>2, <2>4
  <2>6. r.jumlah <= Sisa(f) /\ r.jumlah \in Int
    BY <1>5, <2>1, <2>5 DEF PermintaanBayar, SelesaiBayar, IInv, PermintaanTerkini,
       BayarTerkini
  <2> QED BY <1>2, <2>4, <2>5, <2>6 DEF Sisa
<1>6. CASE SelesaiCicil(p)
  <2>1. r \in PermintaanCicil /\ r.op = "cicil"
    BY <1>6, BentukPermintaan DEF SelesaiCicil, Di, IInv, TypeOK
  <2>2. r.alokasi \in [Faktur -> Int] /\ r.alokasi[f] \in Int
    BY <2>1 DEF PermintaanCicil
  <2>3. CatatBayar(r.alokasi)
    BY <1>6 DEF SelesaiCicil
  <2>4. dibayar'[f] = dibayar[f] + r.alokasi[f] /\ faktur'[f].total = faktur[f].total
    BY <1>2, <2>2, <2>3, HasilCatat
  <2>5. r.alokasi[f] > 0
    BY <1>2, <2>2, <2>4
  <2>6. r.alokasi[f] <= Sisa(f)
    BY <2>1, <2>5 DEF IInv, PermintaanTerkini, CicilTerkini
  <2> QED BY <1>2, <2>2, <2>4, <2>6 DEF Sisa
<1>7. CASE SelesaiRetur(p)
  <2> DEFINE bayar == [g \in Faktur |-> IF g = r.f THEN -NilaiRetur(r) ELSE 0]
  <2>1. r \in PermintaanRetur
    BY <1>7, BentukPermintaan DEF SelesaiRetur, Di, IInv, TypeOK
  <2>2. NilaiRetur(r) \in Nat
    BY <2>1, FakturAssumption DEF PermintaanRetur, Keranjang, NilaiRetur
  <2>3. bayar \in [Faktur -> Int] /\ bayar[f] <= 0
    BY <2>2
  <2>4. CatatBayar(bayar)
    BY <1>7 DEF SelesaiRetur
  <2>5. dibayar'[f] = dibayar[f] + bayar[f]
    <3> HIDE DEF bayar
    <3> QED BY <1>2, <2>3, <2>4, HasilCatat
  <2> QED
    <3>1. bayar[f] \in Int
      BY <2>3
    <3> HIDE DEF bayar
    <3> QED BY <1>2, <2>3, <2>5, <3>1
<1> QED BY <1>4, <1>5, <1>6, <1>7

\* No payment carries an invoice over its total, however payments, batches and
\* returns interleave.
THEOREM BayarAman == Spec => BayarTidakMelampaui
<1>1. IInv /\ [Next]_vars =>
        [\A f \in Faktur : dibayar'[f] > dibayar[f] =>
                             dibayar'[f] <= faktur'[f].total]_vars
  BY BayarLangkah
<1> QED BY Invarian, <1>1, PTL DEF Spec, BayarTidakMelampaui

-----------------------------------------------------------------------------
(* The requests implement PenjualanAtomik *)

\* Both modules calculate with the same definitions of FakturDasar.
LEMMA DasarSama ==
    /\ Atomik!IsiKosong = IsiKosong
    /\ Atomik!Isi = Isi
    /\ Atomik!Keranjang = Keranjang
    /\ Atomik!StatusForm = StatusForm
    /\ Atomik!BarisKosong = BarisKosong
    /\ \A isi, d : Atomik!Total(isi, d) = Total(isi, d)
    /\ \A total, bayar : Atomik!StatusHitung(total, bayar) = StatusHitung(total, bayar)
    /\ \A s, g, isi : Atomik!Tambah(s, g, isi) = Tambah(s, g, isi)
    /\ \A s, g, isi : Atomik!Kurangi(s, g, isi) = Kurangi(s, g, isi)
    /\ \A s, g, isi : Atomik!Cukup(s, g, isi) <=> Cukup(s, g, isi)
<1>1. Atomik!IsiKosong = IsiKosong
  BY DEF Atomik!IsiKosong, IsiKosong
<1>2. Atomik!Isi = Isi /\ Atomik!Keranjang = Keranjang
  BY <1>1 DEF Atomik!Keranjang, Keranjang, Atomik!Isi, Isi
<1>3. Atomik!StatusForm = StatusForm
  BY DEF Atomik!StatusForm, StatusForm
<1>4. Atomik!BarisKosong = BarisKosong
  BY <1>1 DEF Atomik!BarisKosong, BarisKosong
<1>5. \A isi, d : Atomik!Total(isi, d) = Total(isi, d)
  BY DEF Atomik!Total, Total
<1>6. \A total, bayar : Atomik!StatusHitung(total, bayar) = StatusHitung(total, bayar)
  BY DEF Atomik!StatusHitung, StatusHitung
<1>7. /\ \A s, g, isi : Atomik!Tambah(s, g, isi) = Tambah(s, g, isi)
      /\ \A s, g, isi : Atomik!Kurangi(s, g, isi) = Kurangi(s, g, isi)
      /\ \A s, g, isi : Atomik!Cukup(s, g, isi) <=> Cukup(s, g, isi)
  BY DEF Atomik!Tambah, Tambah, Atomik!Kurangi, Kurangi, Atomik!Cukup, Cukup
<1> QED BY <1>1, <1>2, <1>3, <1>4, <1>5, <1>6, <1>7

\* Selling: the form still fits the rows when it commits.
LEMMA BuatAtomik ==
    ASSUME NEW p \in Proses, IInv, SelesaiBuat(p) PROVE Atomik!Next
<1> DEFINE r == proses[p]
<1>1. r \in PermintaanSimpan /\ r.op = "buat"
  BY BentukPermintaan DEF SelesaiBuat, Di, IInv, TypeOK
<1>2. PICK d \in Diskon : r.total = Total(r.isi, d)
  BY <1>1 DEF IInv, PermintaanTerkini, SimpanTerkini
<1>3. Atomik!Jual(r.f, r.gudang, r.isi, r.status, d)
  BY <1>2, DasarSama DEF SelesaiBuat, Ada, Atomik!Jual, Atomik!Ada
<1> QED
  BY <1>1, <1>3, DasarSama DEF PermintaanSimpan, Atomik!Next

\* Editing: the invoice was valid when the lock was taken, and so it is now.
LEMMA UbahAtomik ==
    ASSUME NEW p \in Proses, IInv, SelesaiUbah(p) PROVE Atomik!Next
<1> DEFINE r == proses[p]
<1>1. r \in PermintaanSimpan /\ r.op = "ubah" /\ r.tahap = "tx"
  BY BentukPermintaan DEF SelesaiUbah, Di, IInv, TypeOK
<1>2. PICK d \in Diskon : r.total = Total(r.isi, d)
  BY <1>1 DEF IInv, PermintaanTerkini, SimpanTerkini
<1>3. r.f \in Faktur /\ faktur \in [Faktur -> BarisFaktur]
  BY <1>1 DEF PermintaanSimpan, IInv, TypeOK
<1>4. Atomik!Berlaku(r.f)
  BY <1>1 DEF IInv, PermintaanTerkini, RujukAda, BerlakuTerkini, Ada,
     Atomik!Berlaku, Atomik!Ada
<1>5. Atomik!Koreksi(r.f, r.gudang, r.isi, r.status, d)
  BY <1>2, <1>4, DasarSama DEF SelesaiUbah, Atomik!Koreksi
<1> QED
  BY <1>1, <1>5, DasarSama DEF PermintaanSimpan, Atomik!Next

LEMMA BatalAtomik ==
    ASSUME NEW p \in Proses, IInv, SelesaiBatal(p) PROVE Atomik!Next
<1> DEFINE r == proses[p]
<1>1. r \in PermintaanBatal /\ r.op = "batal" /\ r.tahap = "tx"
  BY BentukPermintaan DEF SelesaiBatal, Di, IInv, TypeOK
<1>2. Atomik!Berlaku(r.f)
  BY <1>1 DEF IInv, PermintaanTerkini, RujukAda, BerlakuTerkini, Ada,
     Atomik!Berlaku, Atomik!Ada
<1>3. Atomik!Batal(r.f)
  BY <1>2, DasarSama DEF SelesaiBatal, Atomik!Batal
<1> QED
  BY <1>1, <1>3 DEF PermintaanBatal, Atomik!Next

\* A recorded payment is one the atomic specification allows when it fits what
\* is outstanding and pays the invoices S in order.
LEMMA CatatAtomik ==
    ASSUME IInv, NEW bayar \in [Faktur -> Nat], NEW S \in SUBSET Faktur,
           CatatBayar(bayar), UNCHANGED <<diretur, stok>>,
           \A f \in Faktur : bayar[f] # 0 =>
               f \in S /\ Ada(f) /\ bayar[f] <= Sisa(f),
           \A f, g \in S : Urutan[f] < Urutan[g] /\ bayar[g] # 0 => Sisa(f) <= bayar[f]
    PROVE  Atomik!Next
<1> DEFINE beda(f) == dibayar'[f] - dibayar[f]
           F == {f \in Faktur : beda(f) # 0}
<1>1. \A f \in Faktur : dibayar[f] \in Int /\ bayar[f] \in Int /\ Sisa(f) \in Int
  BY DEF IInv, TypeOK, Sisa, BarisFaktur
<1>2. /\ dibayar' \in [Faktur -> Int]
      /\ \A f \in Faktur : dibayar'[f] = dibayar[f] + bayar[f]
  BY HasilCatat DEF IInv
<1>3. \A f \in Faktur : beda(f) = bayar[f]
  BY <1>1, <1>2
<1>4. faktur' = [f \in Faktur |->
          IF f \notin F THEN faktur[f]
          ELSE [faktur[f] EXCEPT !.status = StatusHitung(faktur[f].total, dibayar'[f])]]
  BY <1>2, <1>3 DEF CatatBayar
<1> HIDE DEF beda
<1>5. /\ F \subseteq S
      /\ \A f \in F : Ada(f) /\ beda(f) > 0 /\ beda(f) <= Sisa(f)
  BY <1>1, <1>3
<1>6. \A f, g \in S : Urutan[f] < Urutan[g] /\ g \in F => beda(f) >= Sisa(f)
  BY <1>1, <1>3
<1>7. Atomik!Bayar(S)
  BY <1>2, <1>4, <1>5, <1>6, DasarSama
  DEF beda, Atomik!Bayar, Atomik!StatusMenyusul, Atomik!Ada, Atomik!Sisa, Ada, Sisa
<1> QED BY <1>7 DEF Atomik!Next

LEMMA BayarAtomik ==
    ASSUME NEW p \in Proses, IInv, SelesaiBayar(p) PROVE Atomik!Next
<1> DEFINE r == proses[p]
           bayar == [f \in Faktur |-> IF f = r.f THEN r.jumlah ELSE 0]
<1>1. r \in PermintaanBayar /\ r.op = "bayar" /\ r.tahap = "tx"
  BY BentukPermintaan DEF SelesaiBayar, Di, IInv, TypeOK
<1>2. r.f \in Faktur /\ Ada(r.f) /\ r.jumlah <= Sisa(r.f)
  BY <1>1 DEF PermintaanBayar, IInv, PermintaanTerkini, RujukAda, BayarTerkini, SelesaiBayar
<1>3. bayar \in [Faktur -> Nat] /\ {r.f} \in SUBSET Faktur
  BY <1>1, <1>2 DEF PermintaanBayar
<1>4. CatatBayar(bayar) /\ UNCHANGED <<diretur, stok>>
  BY DEF SelesaiBayar
<1>5. \A f \in Faktur : bayar[f] # 0 => f \in {r.f} /\ Ada(f) /\ bayar[f] <= Sisa(f)
  BY <1>2
<1>6. \A f, g \in {r.f} : ~(Urutan[f] < Urutan[g])
  BY <1>2, FakturAssumption
<1> HIDE DEF bayar, r
<1> QED BY <1>3, <1>4, <1>5, <1>6, CatatAtomik

LEMMA CicilAtomik ==
    ASSUME NEW p \in Proses, IInv, SelesaiCicil(p) PROVE Atomik!Next
<1> DEFINE r == proses[p]
<1>1. r \in PermintaanCicil /\ r.op = "cicil"
  BY BentukPermintaan DEF SelesaiCicil, Di, IInv, TypeOK
<1>2. r.alokasi \in [Faktur -> Nat] /\ r.daftar \in SUBSET Faktur
  BY <1>1 DEF PermintaanCicil
<1>3. CatatBayar(r.alokasi) /\ UNCHANGED <<diretur, stok>>
  BY DEF SelesaiCicil
<1>4. \A f \in Faktur : r.alokasi[f] # 0 =>
          f \in r.daftar /\ Ada(f) /\ r.alokasi[f] <= Sisa(f)
  BY <1>1, <1>2 DEF IInv, PermintaanTerkini, RujukAda, CicilTerkini
<1>5. \A f, g \in r.daftar :
          Urutan[f] < Urutan[g] /\ r.alokasi[g] # 0 => Sisa(f) <= r.alokasi[f]
  BY <1>1, <1>2 DEF IInv, PermintaanTerkini, UrutCicil
<1> HIDE DEF r
<1> QED BY <1>2, <1>3, <1>4, <1>5, CatatAtomik

LEMMA ReturAtomik ==
    ASSUME NEW p \in Proses, IInv, SelesaiRetur(p) PROVE Atomik!Next
<1> DEFINE r == proses[p]
           nilai == NilaiRetur(r)
           g == faktur[r.f].gudang
           bayar == [f \in Faktur |-> IF f = r.f THEN -nilai ELSE 0]
           F == IF nilai = 0 THEN {} ELSE {r.f}
<1>1. /\ r \in PermintaanRetur /\ r.op = "retur" /\ r.tahap = "tx"
      /\ r.f \in Faktur /\ r.isi \in Keranjang /\ r.isi \in Isi /\ r.ulang \in Isi
  BY BentukPermintaan DEF SelesaiRetur, Di, IInv, TypeOK, PermintaanRetur, Keranjang
<1>2. nilai \in Nat /\ bayar \in [Faktur -> Int] /\ dibayar \in [Faktur -> Int]
  BY <1>1, FakturAssumption DEF IInv, TypeOK, NilaiRetur
<1>3. Atomik!Berlaku(r.f)
  BY <1>1 DEF IInv, PermintaanTerkini, RujukAda, BerlakuTerkini, Ada,
     Atomik!Berlaku, Atomik!Ada
<1>4. /\ \A q \in Produk : r.isi[q] > 0 => diretur[r.f][q] + r.isi[q] <= faktur[r.f].isi[q]
      /\ \A q \in Produk : r.ulang[q] <= r.isi[q]
  <2>1. \A q \in Produk :
          faktur[r.f].isi[q] \in Int /\ diretur[r.f][q] \in Int /\ r.isi[q] \in Nat
    BY <1>1, StokAssumption DEF Isi, BarisFaktur, IInv, TypeOK
  <2>2. /\ \A q \in Produk : r.isi[q] > 0 => r.isi[q] <= faktur[r.f].isi[q] - diretur[r.f][q]
        /\ \A q \in Produk : r.ulang[q] <= r.isi[q]
    BY <1>1 DEF IInv, PermintaanTerkini, ReturTerkini, SelesaiRetur
  <2> QED BY <2>1, <2>2
<1>5. /\ diretur' = [diretur EXCEPT ![r.f] =
                        [q \in Produk |-> diretur[r.f][q] + r.isi[q] + r.ulang[q]]]
      /\ stok' = Tambah(Tambah(stok, g, r.isi), g, r.ulang)
      /\ CatatBayar(bayar)
  BY DEF SelesaiRetur
<1>6. dibayar' = [dibayar EXCEPT ![r.f] = dibayar[r.f] - nilai]
  <2>1. dibayar' = [f \in Faktur |-> dibayar[f] + bayar[f]]
    BY <1>5 DEF CatatBayar
  <2>2. \A f \in Faktur : dibayar[f] + bayar[f] =
            IF f = r.f THEN dibayar[r.f] - nilai ELSE dibayar[f]
    BY <1>1, <1>2
  <2> HIDE DEF bayar, r, nilai
  <2> QED BY <1>1, <1>2, <2>1, <2>2
<1>7. Atomik!StatusMenyusul(F)
  <2>1. \A f \in Faktur : f \notin F <=> bayar[f] = 0
    BY <1>2
  <2>2. \A f \in Faktur : dibayar'[f] = dibayar[f] + bayar[f]
    BY <1>2, <1>5, HasilCatat DEF IInv
  <2> HIDE DEF bayar, F, nilai
  <2> QED
    BY <1>5, <2>1, <2>2, DasarSama DEF CatatBayar, Atomik!StatusMenyusul
<1>8. Atomik!Retur(r.f, r.isi, r.ulang)
  BY <1>3, <1>4, <1>5, <1>6, <1>7, DasarSama DEF Atomik!Retur, NilaiRetur
<1> HIDE DEF r
<1> QED BY <1>1, <1>8, DasarSama DEF Atomik!Next

\* Every step of the requests is a step of the atomic specification or changes
\* none of its tables.
LEMMA LangkahAtomik ==
    ASSUME IInv, [Next]_vars PROVE [Atomik!Next]_(Atomik!vars)
<1>1. CASE UNCHANGED vars
  BY <1>1 DEF vars, Atomik!vars
<1>2. CASE Next
  <2>1. PICK p \in Proses :
          \/ LangkahBuat(p) \/ LangkahKoreksi(p) \/ LangkahBayar(p)
          \/ LangkahCicil(p) \/ LangkahRetur(p) \/ Gagal(p)
    BY <1>2 DEF Next
  <2>2. CASE \/ SelesaiBuat(p) \/ SelesaiUbah(p) \/ SelesaiBatal(p) \/ SelesaiBayar(p)
             \/ SelesaiCicil(p) \/ SelesaiRetur(p)
    BY <2>2, BuatAtomik, UbahAtomik, BatalAtomik, BayarAtomik, CicilAtomik, ReturAtomik
  <2>3. CASE \/ MulaiBuat(p) \/ MulaiUbah(p) \/ MulaiBatal(p) \/ KunciKoreksi(p)
             \/ MulaiBayar(p) \/ KunciBayarFaktur(p) \/ MulaiCicil(p) \/ KunciCicil(p)
             \/ MulaiRetur(p) \/ KunciRetur(p) \/ Gagal(p)
    BY <2>3
    DEF Gagal, MulaiBuat, MulaiUbah, MulaiBatal, KunciKoreksi, MulaiBayar,
        KunciBayarFaktur, MulaiCicil, KunciCicil, MulaiRetur, KunciRetur, Atomik!vars
  <2> QED
    BY <2>1, <2>2, <2>3
    DEF LangkahBuat, LangkahKoreksi, LangkahBayar, LangkahCicil, LangkahRetur
<1> QED BY <1>1, <1>2

\* Requests that interleave have the effect of the same requests one by one.
THEOREM Implementasi == Spec => SatuPerSatu
<1>1. Init => Atomik!Init
  BY DasarSama DEF Init, Atomik!Init
<1>2. IInv /\ [Next]_vars => [Atomik!Next]_(Atomik!vars)
  BY LangkahAtomik
<1> QED BY Invarian, <1>1, <1>2, PTL DEF Spec, SatuPerSatu, Atomik!Spec

-----------------------------------------------------------------------------
(* Only six actions write invoices, payments, returns or stock *)

Menulis(p) ==
    \/ SelesaiBuat(p) \/ SelesaiUbah(p) \/ SelesaiBatal(p)
    \/ SelesaiBayar(p) \/ SelesaiCicil(p) \/ SelesaiRetur(p)
    \/ UNCHANGED <<faktur, dibayar, adaBayar, diretur, stok>>

LEMMA SiapaMenulis ==
    ASSUME Next
    PROVE  \E p \in Proses : Menulis(p)
BY DEF Next, Menulis,
      LangkahBuat, LangkahKoreksi, LangkahBayar, LangkahCicil, LangkahRetur, Gagal,
      MulaiBuat, MulaiUbah, MulaiBatal, KunciKoreksi, MulaiBayar, KunciBayarFaktur,
      MulaiCicil, KunciCicil, MulaiRetur, KunciRetur

-----------------------------------------------------------------------------
(* Who records a payment, and of what *)

\* A recorded payment is of an invoice that exists; it is no more than what is
\* open, and a negative one, a return, is of an invoice that is valid.
PembayaranSah(bayar) ==
    /\ bayar \in [Faktur -> Int]
    /\ CatatBayar(bayar)
    /\ \A f \in Faktur :
          /\ bayar[f] # 0 => Ada(f)
          /\ bayar[f] > 0 => bayar[f] <= Sisa(f)
          /\ bayar[f] < 0 => faktur[f].status # "dibatalkan"

LEMMA BayarSah ==
    ASSUME NEW p \in Proses, IInv, SelesaiBayar(p)
    PROVE  \E bayar : PembayaranSah(bayar)
<1> DEFINE r == proses[p]
           bayar == [f \in Faktur |-> IF f = r.f THEN r.jumlah ELSE 0]
<1>1. r \in PermintaanBayar /\ r.op = "bayar" /\ r.tahap = "tx"
  BY BentukPermintaan DEF SelesaiBayar, Di, IInv, TypeOK
<1>2. r.f \in Faktur /\ r.jumlah \in Nat \ {0}
  BY <1>1 DEF PermintaanBayar
<1>3. Ada(r.f) /\ r.jumlah <= Sisa(r.f)
  BY <1>1 DEF SelesaiBayar, IInv, PermintaanTerkini, RujukAda, BayarTerkini
<1>4. CatatBayar(bayar)
  BY DEF SelesaiBayar
<1>5. bayar \in [Faktur -> Int]
  BY <1>2
<1>6. \A f \in Faktur :
          /\ bayar[f] # 0 => Ada(f)
          /\ bayar[f] > 0 => bayar[f] <= Sisa(f)
          /\ bayar[f] < 0 => faktur[f].status # "dibatalkan"
  BY <1>2, <1>3
<1> HIDE DEF bayar
<1> QED BY <1>4, <1>5, <1>6 DEF PembayaranSah

LEMMA CicilSah ==
    ASSUME NEW p \in Proses, IInv, SelesaiCicil(p)
    PROVE  \E bayar : PembayaranSah(bayar)
<1> DEFINE r == proses[p]
<1>1. r \in PermintaanCicil /\ r.op = "cicil"
  BY BentukPermintaan DEF SelesaiCicil, Di, IInv, TypeOK
<1>2. r.alokasi \in [Faktur -> Nat]
  BY <1>1 DEF PermintaanCicil
<1>3. CatatBayar(r.alokasi)
  BY DEF SelesaiCicil
<1>4. ASSUME NEW f \in Faktur, r.alokasi[f] # 0
      PROVE  Ada(f) /\ r.alokasi[f] <= Sisa(f) /\ r.alokasi[f] > 0
  <2>1. r.alokasi[f] > 0
    BY <1>2, <1>4
  <2>2. f \in r.daftar \ r.antri
    BY <1>1, <1>4 DEF IInv, PermintaanTerkini, CicilTerkini
  <2>3. r.alokasi[f] <= Sisa(f) /\ Ada(f)
    BY <1>1, <2>1, <2>2 DEF IInv, PermintaanTerkini, CicilTerkini, RujukAda
  <2> QED BY <2>1, <2>3
<1>5. \A f \in Faktur :
          /\ r.alokasi[f] # 0 => Ada(f)
          /\ r.alokasi[f] > 0 => r.alokasi[f] <= Sisa(f)
          /\ r.alokasi[f] < 0 => faktur[f].status # "dibatalkan"
  BY <1>2, <1>4
<1>6. r.alokasi \in [Faktur -> Int]
  BY <1>2
<1> QED BY <1>3, <1>5, <1>6 DEF PembayaranSah

\* What a return finds when it commits.
LEMMA ReturBerlaku ==
    ASSUME NEW p \in Proses, IInv, SelesaiRetur(p)
    PROVE  LET r == proses[p] IN
           /\ r.f \in Faktur /\ r.isi \in Isi /\ r.ulang \in Isi /\ NilaiRetur(r) \in Nat
           /\ Ada(r.f) /\ faktur[r.f].status # "dibatalkan"
           /\ r.op = "retur" /\ r.jual = faktur[r.f].isi
           /\ \A q \in Produk :
                /\ r.ulang[q] <= r.isi[q]
                /\ r.isi[q] > 0 => r.isi[q] <= faktur[r.f].isi[q] - diretur[r.f][q]
<1> DEFINE r == proses[p]
<1>1. r \in PermintaanRetur /\ r.op = "retur" /\ r.tahap = "tx"
  BY BentukPermintaan DEF SelesaiRetur, Di, IInv, TypeOK
<1>2. r.f \in Faktur /\ r.isi \in Isi /\ r.ulang \in Isi
  BY <1>1 DEF PermintaanRetur, Keranjang
<1>3. Ada(r.f) /\ faktur[r.f].status # "dibatalkan"
  BY <1>1 DEF IInv, PermintaanTerkini, RujukAda, BerlakuTerkini
<1>4. NilaiRetur(r) \in Nat
  BY <1>2, FakturAssumption DEF NilaiRetur
<1>5. /\ r.jual = faktur[r.f].isi
      /\ \A q \in Produk :
           /\ r.ulang[q] <= r.isi[q]
           /\ r.isi[q] > 0 => r.isi[q] <= faktur[r.f].isi[q] - diretur[r.f][q]
  BY <1>1 DEF IInv, PermintaanTerkini, ReturTerkini, SelesaiRetur
<1> QED BY <1>1, <1>2, <1>3, <1>4, <1>5

LEMMA ReturSah ==
    ASSUME NEW p \in Proses, IInv, SelesaiRetur(p)
    PROVE  \E bayar : /\ PembayaranSah(bayar)
                      /\ \A f \in Faktur : bayar[f] <= 0 /\ (bayar[f] # 0 => f = proses[p].f)
<1> DEFINE r == proses[p]
           bayar == [f \in Faktur |-> IF f = r.f THEN -NilaiRetur(r) ELSE 0]
<1>1. /\ r.f \in Faktur /\ NilaiRetur(r) \in Nat
      /\ Ada(r.f) /\ faktur[r.f].status # "dibatalkan"
  BY ReturBerlaku
<1>2. CatatBayar(bayar)
  BY DEF SelesaiRetur
<1>3. bayar \in [Faktur -> Int] /\ \A f \in Faktur : bayar[f] <= 0 /\ (bayar[f] # 0 => f = r.f)
  BY <1>1
<1> HIDE DEF bayar, r
<1>4. \A f \in Faktur :
          /\ bayar[f] # 0 => Ada(f)
          /\ bayar[f] > 0 => bayar[f] <= Sisa(f)
          /\ bayar[f] < 0 => faktur[f].status # "dibatalkan"
  BY <1>1, <1>3
<1> QED BY <1>2, <1>3, <1>4 DEF PembayaranSah, r

\* A payment touches no column of an invoice but its status, which is then the
\* one the payments imply.
LEMMA IsiCatat ==
    ASSUME TypeOK, NEW bayar \in [Faktur -> Int], CatatBayar(bayar), NEW f \in Faktur
    PROVE  /\ faktur'[f].gudang = faktur[f].gudang
           /\ adaBayar'[f] = (adaBayar[f] \/ bayar[f] # 0)
           /\ bayar[f] # 0 =>
                /\ faktur'[f].status = StatusHitung(faktur[f].total, dibayar'[f])
                /\ faktur'[f].status \in StatusForm
                /\ faktur'[f] = [faktur[f] EXCEPT !.status = faktur'[f].status]
<1> DEFINE st == StatusHitung(faktur[f].total, dibayar[f] + bayar[f])
<1>1. st \in StatusForm
  BY DEF TypeOK, BarisFaktur, StatusHitung, StatusForm
<1>2. faktur[f] \in BarisFaktur
  BY DEF TypeOK
<1>3. dibayar'[f] = dibayar[f] + bayar[f] /\ adaBayar'[f] = (adaBayar[f] \/ bayar[f] # 0)
  BY DEF CatatBayar
<1>4. faktur'[f] = IF bayar[f] = 0 THEN faktur[f] ELSE [faktur[f] EXCEPT !.status = st]
  BY DEF CatatBayar
<1> HIDE DEF st
<1>5. ASSUME bayar[f] # 0
      PROVE  faktur'[f].status = st /\ faktur'[f].gudang = faktur[f].gudang
  BY <1>2, <1>4, <1>5 DEF BarisFaktur
<1>6. bayar[f] # 0 => st = StatusHitung(faktur[f].total, dibayar'[f])
  BY <1>3 DEF st
<1> QED BY <1>1, <1>3, <1>4, <1>5, <1>6

-----------------------------------------------------------------------------
(* A cancelled invoice *)

LEMMA BatalLangkah ==
    ASSUME IInv, Next, NEW f \in Faktur,
           faktur[f].status = "dibatalkan", faktur'[f] # faktur[f]
    PROVE  /\ dibayar'[f] > dibayar[f]
           /\ faktur'[f] = [faktur[f] EXCEPT !.status = faktur'[f].status]
<1>1. PICK p \in Proses : Menulis(p)
  BY SiapaMenulis
<1> DEFINE r == proses[p]
<1>2. TypeOK
  BY DEF IInv
<1>3. \/ SelesaiBuat(p) \/ SelesaiUbah(p) \/ SelesaiBatal(p)
      \/ SelesaiBayar(p) \/ SelesaiCicil(p) \/ SelesaiRetur(p)
  BY <1>1 DEF Menulis
<1>4. CASE SelesaiBuat(p)
  BY <1>2, <1>4 DEF SelesaiBuat, Ada, TypeOK
<1>5. CASE SelesaiUbah(p)
  <2>1. r.op = "ubah" /\ r.tahap = "tx"
    BY <1>5 DEF SelesaiUbah, Di
  <2>2. faktur[r.f].status # "dibatalkan"
    BY <2>1 DEF IInv, PermintaanTerkini, BerlakuTerkini
  <2> QED BY <1>2, <1>5, <2>2 DEF SelesaiUbah, TypeOK
<1>6. CASE SelesaiBatal(p)
  <2>1. r.op = "batal" /\ r.tahap = "tx"
    BY <1>6 DEF SelesaiBatal, Di
  <2>2. faktur[r.f].status # "dibatalkan"
    BY <2>1 DEF IInv, PermintaanTerkini, BerlakuTerkini
  <2> QED BY <1>2, <1>6, <2>2 DEF SelesaiBatal, TypeOK
<1>7. CASE SelesaiBayar(p) \/ SelesaiCicil(p) \/ SelesaiRetur(p)
  <2>1. PICK bayar : PembayaranSah(bayar)
    BY <1>7, BayarSah, CicilSah, ReturSah
  <2>2. /\ bayar \in [Faktur -> Int] /\ bayar[f] \in Int /\ CatatBayar(bayar)
        /\ bayar[f] < 0 => faktur[f].status # "dibatalkan"
    BY <2>1 DEF PembayaranSah
  <2>3. dibayar'[f] = dibayar[f] + bayar[f] /\ dibayar[f] \in Int
        /\ (bayar[f] = 0 => faktur'[f] = faktur[f])
    BY <1>2, <2>2, HasilCatat DEF TypeOK
  <2>4. bayar[f] > 0
    BY <2>2, <2>3
  <2> QED BY <1>2, <2>2, <2>3, <2>4, IsiCatat
<1> QED BY <1>3, <1>4, <1>5, <1>6, <1>7

\* Nothing but a payment ever touches a cancelled invoice, and a payment only its
\* status: no edit, cancellation or return that was checked before.
THEOREM BatalAman == Spec => BatalHanyaDibayar
<1>1. IInv /\ [Next]_vars =>
        [\A f \in Faktur :
          faktur[f].status = "dibatalkan" /\ faktur'[f] # faktur[f] =>
              /\ dibayar'[f] > dibayar[f]
              /\ faktur'[f] = [faktur[f] EXCEPT !.status = faktur'[f].status]]_vars
  BY BatalLangkah
<1> QED BY Invarian, <1>1, PTL DEF Spec, BatalHanyaDibayar

-----------------------------------------------------------------------------
(* What was returned *)

\* A step after which more was returned of a product than its invoice holds
\* changed neither, or is the commit of a form with two lines of that product.
LEMMA ReturLangkah ==
    ASSUME IInv, Next, NEW f \in Faktur, NEW q \in Produk,
           diretur'[f][q] > faktur'[f].isi[q]
    PROVE  \/ diretur'[f][q] = diretur[f][q] /\ faktur'[f].isi[q] = faktur[f].isi[q]
           \/ ReturGanda(f, q)
<1>1. TypeOK /\ TypeOK'
  BY LangkahAman DEF IInv
<1>2. PICK p \in Proses : Menulis(p)
  BY SiapaMenulis
<1> DEFINE r == proses[p]
<1>3. faktur'[f].isi[q] \in Nat /\ faktur[f].isi[q] \in Nat /\ diretur[f][q] \in Nat
  BY <1>1, StokAssumption DEF TypeOK, BarisFaktur, Isi
<1>4. CASE SelesaiBuat(p)
  <2>1. diretur' = diretur /\ ~Ada(r.f) /\ (f # r.f => faktur'[f] = faktur[f])
    BY <1>1, <1>4 DEF SelesaiBuat, TypeOK
  <2>2. f = r.f => diretur[f] = IsiKosong
    BY <2>1 DEF IInv, BelumAdaRetur
  <2> QED BY <1>3, <2>1, <2>2 DEF IsiKosong
<1>5. CASE SelesaiUbah(p)
  <2>1. /\ diretur' = diretur /\ diretur[r.f] = IsiKosong
        /\ f # r.f => faktur'[f] = faktur[f]
    BY <1>1, <1>5 DEF SelesaiUbah, TypeOK
  <2> QED BY <1>3, <2>1 DEF IsiKosong
<1>6. CASE SelesaiBatal(p)
  <2>1. diretur' = diretur /\ faktur'[f].isi = faktur[f].isi
    BY <1>1, <1>6 DEF SelesaiBatal, TypeOK, BarisFaktur
  <2> QED BY <2>1
<1>7. CASE SelesaiBayar(p) \/ SelesaiCicil(p)
  <2>1. PICK bayar : PembayaranSah(bayar)
    BY <1>7, BayarSah, CicilSah
  <2>2. faktur'[f].isi = faktur[f].isi
    BY <1>1, <2>1, HasilCatat DEF PembayaranSah
  <2>3. diretur' = diretur
    BY <1>7 DEF SelesaiBayar, SelesaiCicil
  <2> QED BY <2>2, <2>3
<1>8. CASE SelesaiRetur(p)
  <2>1. PICK bayar : PembayaranSah(bayar)
    BY <1>8, ReturSah
  <2>2. faktur'[f].isi = faktur[f].isi
    BY <1>1, <2>1, HasilCatat DEF PembayaranSah
  <2>3. /\ r.f \in Faktur /\ r.isi[q] \in Nat /\ r.ulang[q] \in Nat
        /\ r.ulang[q] <= r.isi[q]
        /\ r.isi[q] > 0 => r.isi[q] <= faktur[r.f].isi[q] - diretur[r.f][q]
    BY <1>8, ReturBerlaku, StokAssumption DEF Isi
  <2>4. CASE f # r.f
    BY <1>1, <1>8, <2>2, <2>4 DEF SelesaiRetur, TypeOK
  <2>5. CASE f = r.f
    <3>1. diretur'[f][q] = diretur[f][q] + r.isi[q] + r.ulang[q]
      BY <1>1, <1>8, <2>5 DEF SelesaiRetur, TypeOK
    <3>2. Di(p, "retur", "tx") /\ proses'[p] = Diam
      BY <1>1, <1>8 DEF SelesaiRetur, Akhiri, TypeOK
    <3>3. CASE r.isi[q] = 0
      BY <1>3, <2>2, <2>3, <3>1, <3>3
    <3>4. CASE r.isi[q] > 0
      <4>1. r.isi[q] <= faktur[f].isi[q] - diretur[f][q]
        BY <2>3, <2>5, <3>4
      <4>2. r.ulang[q] > 0
        BY <1>3, <2>2, <2>3, <3>1, <4>1
      <4> QED BY <2>5, <3>1, <3>2, <4>1, <4>2 DEF ReturGanda
    <3> QED BY <2>3, <3>3, <3>4
  <2> QED BY <2>4, <2>5
<1>9. CASE UNCHANGED <<faktur, dibayar, adaBayar, diretur, stok>>
  BY <1>9
<1> QED BY <1>2, <1>4, <1>5, <1>6, <1>7, <1>8, <1>9 DEF Menulis

\* More is never returned of a product than its invoice holds, except by a form
\* that names the product twice, although a return compares with items it read
\* before it had the lock.
THEOREM ReturAman == Spec => ReturLebihHanyaGanda
<1>1. IInv /\ [Next]_vars =>
        [\A f \in Faktur, q \in Produk :
          diretur'[f][q] > faktur'[f].isi[q] =>
              \/ diretur'[f][q] = diretur[f][q] /\ faktur'[f].isi[q] = faktur[f].isi[q]
              \/ ReturGanda(f, q)]_vars
  BY ReturLangkah
<1> QED BY Invarian, <1>1, PTL DEF Spec, ReturLebihHanyaGanda

-----------------------------------------------------------------------------
(* An invoice with payments that nobody is correcting *)

\* Request q is correcting invoice f.
Mengoreksi(q, f) == proses[q].op \in {"ubah", "batal"} /\ proses[q].f = f

\* Nobody begins to correct an invoice that has payments.
LEMMA KoreksiMulai ==
    ASSUME TypeOK, Next, NEW f \in Faktur, adaBayar[f], NEW q \in Proses, Mengoreksi(q, f)'
    PROVE  Mengoreksi(q, f)
<1>1. PICK p \in Proses :
        \/ LangkahBuat(p) \/ LangkahKoreksi(p) \/ LangkahBayar(p)
        \/ LangkahCicil(p) \/ LangkahRetur(p) \/ Gagal(p)
  BY DEF Next
<1> DEFINE r == proses[p]
<1>2. r \in Permintaan /\ proses \in [Proses -> Permintaan]
  BY DEF TypeOK
<1>3. CASE MulaiUbah(p) \/ MulaiBatal(p)
  BY <1>2, <1>3 DEF MulaiUbah, MulaiBatal, Mulai, BolehDikoreksi, Mengoreksi
<1>4. CASE MulaiBuat(p) \/ MulaiBayar(p) \/ MulaiCicil(p) \/ MulaiRetur(p)
  BY <1>2, <1>4 DEF MulaiBuat, MulaiBayar, MulaiCicil, MulaiRetur, Mulai, Mengoreksi
<1>5. CASE KunciKoreksi(p)
  <2>1. r \in PermintaanSimpan \cup PermintaanBatal
    BY <1>2, <1>5, BentukPermintaan DEF KunciKoreksi, Di
  <2> DEFINE s == [r EXCEPT !.tahap = "tx"]
  <2>2. s.op = r.op /\ s.f = r.f
    BY <2>1 DEF PermintaanSimpan, PermintaanBatal
  <2>3. proses' = [proses EXCEPT ![p] = s]
    BY <1>5 DEF KunciKoreksi
  <2> HIDE DEF s
  <2> QED BY <1>2, <2>2, <2>3 DEF Mengoreksi
<1>6. CASE KunciBayarFaktur(p)
  <2>1. r \in PermintaanBayar
    BY <1>2, <1>6, BentukPermintaan DEF KunciBayarFaktur, Di
  <2> DEFINE s == [r EXCEPT !.tahap = "tx", !.sisa = Sisa(r.f)]
  <2>2. s.op = "bayar"
    BY <2>1 DEF PermintaanBayar
  <2>3. proses' = [proses EXCEPT ![p] = s]
    BY <1>6 DEF KunciBayarFaktur
  <2> HIDE DEF s
  <2> QED BY <1>2, <2>2, <2>3 DEF Mengoreksi
<1>7. CASE KunciCicil(p)
  <2>1. r \in PermintaanCicil
    BY <1>2, <1>7, BentukPermintaan DEF KunciCicil
  <2> DEFINE Giliran(h, a) == [r EXCEPT !.tahap = "tx", !.antri = r.antri \ {h},
                                       !.sisa = r.sisa - a, !.alokasi[h] = a]
  <2>2. \E h, a : proses' = [proses EXCEPT ![p] = Giliran(h, a)]
    BY <1>7 DEF KunciCicil
  <2>3. \A h, a : Giliran(h, a).op = "cicil"
    BY <2>1 DEF PermintaanCicil
  <2> HIDE DEF Giliran
  <2> QED BY <1>2, <2>2, <2>3 DEF Mengoreksi
<1>8. CASE KunciRetur(p)
  <2>1. r \in PermintaanRetur
    BY <1>2, <1>8, BentukPermintaan DEF KunciRetur, Di
  <2>2. [r EXCEPT !.tahap = "tx"].op = "retur"
    BY <2>1 DEF PermintaanRetur
  <2> QED BY <1>2, <1>8, <2>2 DEF KunciRetur, Mengoreksi
<1>9. CASE \/ SelesaiBuat(p) \/ SelesaiUbah(p) \/ SelesaiBatal(p) \/ SelesaiBayar(p)
           \/ SelesaiCicil(p) \/ SelesaiRetur(p) \/ Gagal(p)
  <2>1. proses' = [proses EXCEPT ![p] = Diam]
    BY <1>9 DEF SelesaiBuat, SelesaiUbah, SelesaiBatal, SelesaiBayar, SelesaiCicil,
       SelesaiRetur, Gagal, Akhiri
  <2> QED BY <1>2, <2>1 DEF Mengoreksi, Diam
<1> QED BY <1>1, <1>3, <1>4, <1>5, <1>6, <1>7, <1>8, <1>9
   DEF LangkahBuat, LangkahKoreksi, LangkahBayar, LangkahCicil, LangkahRetur

LEMMA BekuLangkah ==
    ASSUME IInv, Next, NEW f \in Faktur, Beku(f)
    PROVE  /\ Beku(f)'
           /\ faktur'[f] = [faktur[f] EXCEPT !.status = faktur'[f].status]
<1>1. TypeOK /\ TypeOK'
  BY LangkahAman DEF IInv
<1>2. PICK p \in Proses : Menulis(p)
  BY SiapaMenulis
<1> DEFINE r == proses[p]
<1>3. /\ adaBayar[f] /\ faktur[f].status = StatusHitung(faktur[f].total, dibayar[f])
      /\ \A q \in Proses : ~Mengoreksi(q, f)
  BY DEF Beku, Mengoreksi
<1>4. \A q \in Proses : ~Mengoreksi(q, f)'
  BY <1>1, <1>3, KoreksiMulai
<1>5. Ada(f) /\ faktur[f] \in BarisFaktur /\ dibayar[f] \in Int
  BY <1>1, <1>3 DEF Ada, StatusHitung, TypeOK, BarisFaktur
<1>6. CASE /\ faktur'[f] = faktur[f] /\ dibayar'[f] = dibayar[f] /\ adaBayar'[f] = adaBayar[f]
  <2>1. faktur'[f] = [faktur[f] EXCEPT !.status = faktur'[f].status]
    BY <1>5, <1>6 DEF BarisFaktur
  <2> QED BY <1>3, <1>4, <1>6, <2>1 DEF Beku, Mengoreksi
<1>7. CASE SelesaiBuat(p)
  <2>1. f # r.f
    BY <1>5, <1>7 DEF SelesaiBuat
  <2> QED BY <1>1, <1>6, <1>7, <2>1 DEF SelesaiBuat, TypeOK
<1>8. CASE SelesaiUbah(p) \/ SelesaiBatal(p)
  <2>1. f # r.f
    BY <1>3, <1>8 DEF SelesaiUbah, SelesaiBatal, Di, Mengoreksi
  <2> QED BY <1>1, <1>6, <1>8, <2>1 DEF SelesaiUbah, SelesaiBatal, TypeOK
<1>9. CASE SelesaiBayar(p) \/ SelesaiCicil(p) \/ SelesaiRetur(p)
  <2>1. PICK bayar : PembayaranSah(bayar)
    BY <1>9, BayarSah, CicilSah, ReturSah
  <2>2. bayar \in [Faktur -> Int] /\ CatatBayar(bayar) /\ bayar[f] \in Int
    BY <2>1 DEF PembayaranSah
  <2>3. /\ dibayar'[f] = dibayar[f] + bayar[f]
        /\ faktur'[f].total = faktur[f].total
        /\ bayar[f] = 0 => faktur'[f] = faktur[f]
    BY <1>1, <2>2, HasilCatat
  <2>4. /\ adaBayar'[f] = (adaBayar[f] \/ bayar[f] # 0)
        /\ bayar[f] # 0 =>
             /\ faktur'[f].status = StatusHitung(faktur[f].total, dibayar'[f])
             /\ faktur'[f] = [faktur[f] EXCEPT !.status = faktur'[f].status]
    BY <1>1, <2>2, IsiCatat
  <2>5. adaBayar'[f]
    BY <1>3, <2>4
  <2>6. CASE bayar[f] = 0
    <3>1. faktur'[f] = faktur[f] /\ dibayar'[f] = dibayar[f]
      BY <1>5, <2>3, <2>6
    <3>2. adaBayar'[f] = adaBayar[f]
      BY <1>3, <2>5, <1>1 DEF TypeOK
    <3> QED BY <1>6, <3>1, <3>2
  <2>7. CASE bayar[f] # 0
    BY <1>4, <2>3, <2>4, <2>5, <2>7 DEF Beku, Mengoreksi
  <2> QED BY <2>6, <2>7
<1>10. CASE UNCHANGED <<faktur, dibayar, adaBayar, diretur, stok>>
  BY <1>6, <1>10
<1> QED BY <1>2, <1>7, <1>8, <1>9, <1>10 DEF Menulis

\* An invoice with payments is never edited or cancelled, and its status follows
\* its payments, once no correction checked before the first of them is left.
THEOREM BekuAman == Spec => BayarMembekukan
<1>1. IInv /\ [Next]_vars =>
        [\A f \in Faktur : Beku(f) =>
          /\ Beku(f)'
          /\ faktur'[f] = [faktur[f] EXCEPT !.status = faktur'[f].status]]_vars
  BY BekuLangkah
<1> QED BY Invarian, <1>1, PTL DEF Spec, BayarMembekukan

-----------------------------------------------------------------------------
(* Nothing is lost: stock and what invoices have taken *)

\* The share of every invoice is a number, before and after.
LEMMA AndilBilangan ==
    ASSUME TypeOK, TypeOK', NEW g, NEW q \in Produk, NEW f \in Faktur
    PROVE  Andil(f, g, q) \in Int /\ Andil(f, g, q)' \in Int
<1>1. /\ faktur[f].isi \in Isi /\ diretur[f] \in [Produk -> Nat]
      /\ faktur'[f].isi \in Isi /\ diretur'[f] \in [Produk -> Nat]
  BY DEF TypeOK, BarisFaktur
<1>2. /\ faktur[f].isi[q] \in Int /\ diretur[f][q] \in Int
      /\ faktur'[f].isi[q] \in Int /\ diretur'[f][q] \in Int
  BY <1>1, StokAssumption DEF Isi
<1> QED BY <1>2 DEF Andil

\* What leaves the share of one invoice comes back to the shelf, so all goods are
\* still accounted for.
LEMMA SatuAndil ==
    ASSUME TypeOK, TypeOK', NEW f \in Faktur,
           \A g \in Gudang, q \in Produk :
              /\ \A h \in Faktur \ {f} : Andil(h, g, q)' = Andil(h, g, q)
              /\ stok'[g][q] + Andil(f, g, q)' = stok[g][q] + Andil(f, g, q)
    PROVE  BarangTetap
<1> SUFFICES ASSUME NEW g \in Gudang, NEW q \in Produk
             PROVE  stok'[g][q] + TerjualDari(g, q)' = stok[g][q] + TerjualDari(g, q)
  BY DEF BarangTetap
<1> DEFINE a == [h \in Faktur |-> Andil(h, g, q)]
           b == [h \in Faktur |-> Andil(h, g, q)']
<1>1. \A h \in Faktur : a[h] \in Int /\ b[h] \in Int
  BY AndilBilangan
<1>2. \A h \in Faktur \ {f} : a[h] = b[h]
  OBVIOUS
<1>3. a[f] = Andil(f, g, q) /\ b[f] = Andil(f, g, q)' /\ a[f] \in Int /\ b[f] \in Int
  BY <1>1
<1>4. TerjualDari(g, q) = SumFunctionOnSet(a, Faktur)
  BY DEF TerjualDari
<1>5. TerjualDari(g, q)' = SumFunctionOnSet(b, Faktur)
  BY DEF TerjualDari
<1> HIDE DEF a, b
<1>6. SumFunctionOnSet(b, Faktur) = SumFunctionOnSet(a, Faktur) + (b[f] - a[f])
  <2>1. IsFiniteSet(Faktur)
    BY FakturAssumption
  <2> QED BY <1>1, <1>2, <2>1, JumlahUbah
<1>7. SumFunctionOnSet(a, Faktur) \in Int
  BY <1>1, FakturAssumption, JumlahTipe
<1>8. stok[g][q] \in Int /\ stok'[g][q] \in Int
  BY DEF TypeOK
<1>9. stok'[g][q] + b[f] = stok[g][q] + a[f]
  BY <1>3
<1> QED BY <1>3, <1>4, <1>5, <1>6, <1>7, <1>8, <1>9

LEMMA AndilTetap ==
    ASSUME stok' = stok,
           \A g \in Gudang, q \in Produk, h \in Faktur : Andil(h, g, q)' = Andil(h, g, q)
    PROVE  BarangTetap
<1> SUFFICES ASSUME NEW g \in Gudang, NEW q \in Produk
             PROVE  TerjualDari(g, q)' = TerjualDari(g, q)
  BY DEF BarangTetap
<1>1. [h \in Faktur |-> Andil(h, g, q)'] = [h \in Faktur |-> Andil(h, g, q)]
  OBVIOUS
<1> QED BY <1>1 DEF TerjualDari

\* A payment does not change what an invoice has taken, as long as no cancelled
\* invoice gets one.
LEMMA AndilBayar ==
    ASSUME TypeOK, NEW bayar, PembayaranSah(bayar), NEW f \in Faktur,
           faktur[f].status = "dibatalkan" => bayar[f] = 0, diretur'[f] = diretur[f]
    PROVE  \A g, q : Andil(f, g, q)' = Andil(f, g, q)
<1>1. bayar \in [Faktur -> Int] /\ CatatBayar(bayar) /\ (bayar[f] # 0 => Ada(f))
  BY DEF PembayaranSah
<1>2. /\ faktur'[f].isi = faktur[f].isi /\ faktur'[f].gudang = faktur[f].gudang
      /\ bayar[f] = 0 => faktur'[f] = faktur[f]
      /\ bayar[f] # 0 => faktur'[f].status \in StatusForm
  BY <1>1, HasilCatat, IsiCatat
<1>3. Aktif(f)' = Aktif(f)
  BY <1>1, <1>2 DEF Aktif, Ada, StatusForm
<1> QED BY <1>2, <1>3 DEF Andil

LEMMA BuatKekal ==
    ASSUME NEW p \in Proses, IInv, IInv', SelesaiBuat(p)
    PROVE  BarangTetap
<1> DEFINE r == proses[p]
<1>1. r \in PermintaanSimpan
  BY BentukPermintaan DEF SelesaiBuat, Di, IInv, TypeOK
<1>2. r.f \in Faktur /\ r.gudang \in Gudang /\ r.isi \in Isi /\ r.status \in StatusForm
  BY <1>1 DEF PermintaanSimpan, Keranjang
<1>f. PICK f \in Faktur : f = r.f
  BY <1>2
<1>3. TypeOK /\ TypeOK'
  BY <1>f DEF IInv
<1>4. /\ ~Ada(f) /\ diretur' = diretur /\ diretur[f] = IsiKosong
      /\ stok' = Kurangi(stok, r.gudang, r.isi)
      /\ \A h \in Faktur \ {f} : faktur'[h] = faktur[h]
  BY <1>f, <1>2, <1>3 DEF SelesaiBuat, IInv, BelumAdaRetur, TypeOK
<1>5. faktur'[f].status = r.status /\ faktur'[f].gudang = r.gudang /\ faktur'[f].isi = r.isi
  BY <1>f, <1>2, <1>3 DEF SelesaiBuat, TypeOK
<1> HIDE DEF r
<1>6. ASSUME NEW g \in Gudang, NEW q \in Produk
      PROVE  /\ \A h \in Faktur \ {f} : Andil(h, g, q)' = Andil(h, g, q)
             /\ stok'[g][q] + Andil(f, g, q)' = stok[g][q] + Andil(f, g, q)
  <2>1. Andil(f, g, q) = 0
    BY <1>4 DEF Andil, Aktif, Ada
  <2>2. stok[g][q] \in Int /\ r.isi[q] \in Int /\ IsiKosong[q] = 0
    BY <1>2, <1>3, StokAssumption DEF TypeOK, Isi, IsiKosong
  <2>3. Andil(f, g, q)' = IF g = r.gudang THEN r.isi[q] ELSE 0
    <3>1. Aktif(f)'
      BY <1>2, <1>5 DEF Aktif, StatusForm
    <3> QED BY <3>1, <1>4, <1>5, <2>2 DEF Andil
  <2>4. stok'[g][q] = IF g = r.gudang THEN stok[g][q] - r.isi[q] ELSE stok[g][q]
    BY <1>2, <1>3, <1>4 DEF Kurangi, TypeOK
  <2> QED BY <1>4, <2>1, <2>2, <2>3, <2>4 DEF Andil, Aktif
<1> QED BY <1>2, <1>3, <1>6, SatuAndil

LEMMA GantiIsi ==
    ASSUME NEW s \in [Gudang -> [Produk -> Int]], NEW g \in Gudang,
           NEW lama \in Isi, NEW baru \in Isi, NEW q \in Produk
    PROVE  Kurangi(Tambah(s, g, lama), g, baru)[g][q] = s[g][q] + lama[q] - baru[q]
<1> DEFINE t == Tambah(s, g, lama)
<1>1. t[g][q] = s[g][q] + lama[q] /\ DOMAIN t = Gudang
  BY DEF Tambah
<1>2. Kurangi(t, g, baru)[g][q] = t[g][q] - baru[q]
  <2> HIDE DEF t
  <2> QED BY <1>1 DEF Kurangi
<1>3. s[g][q] \in Int /\ lama[q] \in Int /\ baru[q] \in Int
  BY StokAssumption DEF Isi
<1> QED BY <1>1, <1>2, <1>3

\* An edit takes the old items back and the new ones out, of the same warehouse
\* when the form names the one of the header.
LEMMA UbahKekal ==
    ASSUME NEW p \in Proses, IInv, IInv', SelesaiUbah(p),
           proses[p].gudang = faktur[proses[p].f].gudang
    PROVE  BarangTetap
<1> DEFINE r == proses[p]
<1>1. r \in PermintaanSimpan /\ r.op = "ubah" /\ r.tahap = "tx"
  BY BentukPermintaan DEF SelesaiUbah, Di, IInv, TypeOK
<1>2. r.f \in Faktur /\ r.gudang \in Gudang /\ r.isi \in Isi /\ r.status \in StatusForm
  BY <1>1 DEF PermintaanSimpan, Keranjang
<1>f. PICK f \in Faktur : f = r.f
  BY <1>2
<1> DEFINE lama == faktur[f]
<1>3. TypeOK /\ TypeOK' /\ lama \in BarisFaktur
  BY <1>f, <1>2 DEF IInv, TypeOK
<1>4. lama.gudang \in Gudang /\ lama.isi \in Isi /\ lama.gudang = r.gudang
  BY <1>f, <1>2, <1>3 DEF BarisFaktur
<1>5. /\ diretur' = diretur /\ diretur[f] = IsiKosong
      /\ stok' = Kurangi(Tambah(stok, r.gudang, lama.isi), r.gudang, r.isi)
      /\ \A h \in Faktur \ {f} : faktur'[h] = faktur[h]
  BY <1>f, <1>2, <1>3, <1>4 DEF SelesaiUbah, TypeOK
<1>6. Aktif(f)
  BY <1>f, <1>1 DEF IInv, PermintaanTerkini, RujukAda, BerlakuTerkini, Aktif, Ada
<1>7. /\ faktur'[f].status = r.status /\ faktur'[f].gudang = r.gudang
      /\ faktur'[f].isi = r.isi
  <2>1. faktur'[f] = [lama EXCEPT !.isi = r.isi, !.total = r.total, !.status = r.status,
                         !.edisi = lama.edisi + 1]
    BY <1>f, <1>2, <1>3 DEF SelesaiUbah, TypeOK
  <2> HIDE DEF lama, r
  <2> QED BY <1>3, <1>4, <2>1 DEF BarisFaktur
<1>8. ASSUME NEW g \in Gudang, NEW q \in Produk
      PROVE  /\ \A h \in Faktur \ {f} : Andil(h, g, q)' = Andil(h, g, q)
             /\ stok'[g][q] + Andil(f, g, q)' = stok[g][q] + Andil(f, g, q)
  <2>1. stok \in [Gudang -> [Produk -> Int]]
    BY <1>3 DEF TypeOK
  <2>2. stok[g][q] \in Int /\ r.isi[q] \in Int /\ lama.isi[q] \in Int /\ IsiKosong[q] = 0
    BY <1>2, <1>3, <1>4, StokAssumption DEF TypeOK, Isi, IsiKosong
  <2>3. Andil(f, g, q) = IF g = r.gudang THEN lama.isi[q] ELSE 0
    BY <1>4, <1>5, <1>6, <2>2 DEF Andil
  <2>4. Andil(f, g, q)' = IF g = r.gudang THEN r.isi[q] ELSE 0
    <3>1. Aktif(f)'
      BY <1>2, <1>7 DEF Aktif, StatusForm
    <3> QED BY <3>1, <1>5, <1>7, <2>2 DEF Andil
  <2>5. stok'[g][q] = IF g = r.gudang THEN stok[g][q] + lama.isi[q] - r.isi[q]
                                      ELSE stok[g][q]
    <3>1. CASE g = r.gudang
      BY <1>2, <1>4, <1>5, <2>1, <3>1, GantiIsi
    <3>2. CASE g # r.gudang
      BY <1>5, <2>1, <3>2 DEF Tambah, Kurangi
    <3> QED BY <3>1, <3>2
  <2> QED BY <1>5, <2>2, <2>3, <2>4, <2>5 DEF Andil, Aktif
<1> QED BY <1>2, <1>3, <1>8, SatuAndil

\* A cancellation brings every item back, when none was returned before.
LEMMA BatalKekal ==
    ASSUME NEW p \in Proses, IInv, IInv', SelesaiBatal(p),
           diretur[proses[p].f] = IsiKosong
    PROVE  BarangTetap
<1> DEFINE r == proses[p]
<1>1. r \in PermintaanBatal /\ r.op = "batal" /\ r.tahap = "tx"
  BY BentukPermintaan DEF SelesaiBatal, Di, IInv, TypeOK
<1>2. r.f \in Faktur
  BY <1>1 DEF PermintaanBatal
<1>f. PICK f \in Faktur : f = r.f
  BY <1>2
<1> DEFINE lama == faktur[f]
<1>3. TypeOK /\ TypeOK' /\ lama \in BarisFaktur
  BY <1>f, <1>2 DEF IInv, TypeOK
<1>4. lama.gudang \in Gudang /\ lama.isi \in Isi
  BY <1>f, <1>3 DEF BarisFaktur
<1>5. /\ diretur' = diretur /\ diretur[f] = IsiKosong
      /\ stok' = Tambah(stok, lama.gudang, lama.isi)
      /\ \A h \in Faktur \ {f} : faktur'[h] = faktur[h]
  BY <1>f, <1>2, <1>3 DEF SelesaiBatal, TypeOK
<1>6. Aktif(f)
  BY <1>f, <1>1 DEF IInv, PermintaanTerkini, RujukAda, BerlakuTerkini, Aktif, Ada
<1>7. faktur'[f].status = "dibatalkan"
  BY <1>f, <1>2, <1>3 DEF SelesaiBatal, TypeOK, BarisFaktur
<1>8. ASSUME NEW g \in Gudang, NEW q \in Produk
      PROVE  /\ \A h \in Faktur \ {f} : Andil(h, g, q)' = Andil(h, g, q)
             /\ stok'[g][q] + Andil(f, g, q)' = stok[g][q] + Andil(f, g, q)
  <2>1. stok[g][q] \in Int /\ lama.isi[q] \in Int /\ IsiKosong[q] = 0
    BY <1>3, <1>4, StokAssumption DEF TypeOK, Isi, IsiKosong
  <2>2. Andil(f, g, q) = IF lama.gudang = g THEN lama.isi[q] ELSE 0
    BY <1>5, <1>6, <2>1 DEF Andil
  <2>3. Andil(f, g, q)' = 0
    BY <1>7 DEF Andil, Aktif
  <2>4. stok'[g][q] = IF lama.gudang = g THEN stok[g][q] + lama.isi[q] ELSE stok[g][q]
    BY <1>3, <1>4, <1>5 DEF Tambah, TypeOK
  <2> QED BY <1>5, <2>1, <2>2, <2>3, <2>4 DEF Andil, Aktif
<1> QED BY <1>2, <1>3, <1>8, SatuAndil

\* A return brings back what it takes off the invoice.
LEMMA ReturKekal ==
    ASSUME NEW p \in Proses, IInv, IInv', SelesaiRetur(p)
    PROVE  BarangTetap
<1> DEFINE r == proses[p]
<1>1. /\ r.f \in Faktur /\ r.isi \in Isi /\ r.ulang \in Isi
      /\ Ada(r.f) /\ faktur[r.f].status # "dibatalkan"
  BY ReturBerlaku
<1>f. PICK f \in Faktur : f = r.f
  BY <1>1
<1>2. PICK bayar : PembayaranSah(bayar) /\ \A h \in Faktur : bayar[h] # 0 => h = f
  BY <1>f, ReturSah
<1>3. TypeOK /\ TypeOK' /\ bayar \in [Faktur -> Int] /\ CatatBayar(bayar)
  BY <1>f, <1>2 DEF IInv, PembayaranSah
<1>4. /\ diretur' = [diretur EXCEPT ![f] =
                        [q \in Produk |-> diretur[f][q] + r.isi[q] + r.ulang[q]]]
      /\ stok' = Tambah(Tambah(stok, faktur[f].gudang, r.isi), faktur[f].gudang, r.ulang)
  <2>1. /\ diretur' = [diretur EXCEPT ![r.f] =
                          [q \in Produk |-> diretur[r.f][q] + r.isi[q] + r.ulang[q]]]
        /\ stok' = Tambah(Tambah(stok, faktur[r.f].gudang, r.isi), faktur[r.f].gudang, r.ulang)
    BY DEF SelesaiRetur
  <2> HIDE DEF r
  <2> QED BY <1>f, <2>1
<1> HIDE DEF r
<1>5. \A h \in Faktur \ {f} : faktur'[h] = faktur[h] /\ diretur'[h] = diretur[h]
  <2>1. \A h \in Faktur \ {f} : bayar[h] = 0
    BY <1>2
  <2>2. \A h \in Faktur : bayar[h] = 0 => faktur'[h] = faktur[h]
    BY <1>3, HasilCatat
  <2>3. \A h \in Faktur \ {f} : diretur'[h] = diretur[h]
    BY <1>3, <1>4 DEF TypeOK
  <2> QED BY <2>1, <2>2, <2>3
<1>6. /\ faktur'[f].gudang = faktur[f].gudang /\ faktur'[f].isi = faktur[f].isi
      /\ bayar[f] = 0 => faktur'[f] = faktur[f]
      /\ bayar[f] # 0 => faktur'[f].status \in StatusForm
  BY <1>f, <1>1, <1>3, HasilCatat, IsiCatat
<1>7. Aktif(f) /\ Aktif(f)'
  BY <1>f, <1>1, <1>6 DEF Aktif, Ada, StatusForm
<1> DEFINE jual == faktur[f].isi
           g0 == faktur[f].gudang
<1>8. jual \in Isi /\ g0 \in Gudang /\ diretur[f] \in [Produk -> Nat]
  BY <1>f, <1>1, <1>3 DEF TypeOK, BarisFaktur
<1>9. ASSUME NEW g \in Gudang, NEW q \in Produk
      PROVE  /\ \A h \in Faktur \ {f} : Andil(h, g, q)' = Andil(h, g, q)
             /\ stok'[g][q] + Andil(f, g, q)' = stok[g][q] + Andil(f, g, q)
  <2>1. /\ stok[g][q] \in Int /\ jual[q] \in Int /\ r.isi[q] \in Int /\ r.ulang[q] \in Int
        /\ diretur[f][q] \in Int
    BY <1>1, <1>3, <1>8, StokAssumption DEF TypeOK, Isi
  <2>2. Andil(f, g, q) = IF g0 = g THEN jual[q] - diretur[f][q] ELSE 0
    BY <1>7 DEF Andil
  <2>3. diretur'[f][q] = diretur[f][q] + r.isi[q] + r.ulang[q]
    BY <1>1, <1>3, <1>4 DEF TypeOK
  <2>4. Andil(f, g, q)' = IF g0 = g THEN jual[q] - diretur'[f][q] ELSE 0
    BY <1>6, <1>7 DEF Andil
  <2>5. stok'[g][q] = IF g0 = g THEN stok[g][q] + r.isi[q] + r.ulang[q] ELSE stok[g][q]
    <3>1. stok \in [Gudang -> [Produk -> Int]]
      BY <1>3 DEF TypeOK
    <3> HIDE DEF g0
    <3>2. Tambah(stok, g0, r.isi)[g][q] = IF g0 = g THEN stok[g][q] + r.isi[q] ELSE stok[g][q]
      BY <3>1, <1>8 DEF Tambah
    <3>3. DOMAIN Tambah(stok, g0, r.isi) = Gudang
      BY <3>1 DEF Tambah
    <3> DEFINE t == Tambah(stok, g0, r.isi)
    <3>4. stok' = Tambah(t, g0, r.ulang)
      BY <1>4 DEF g0
    <3> HIDE DEF t
    <3>5. t[g][q] = IF g0 = g THEN stok[g][q] + r.isi[q] ELSE stok[g][q]
      BY <3>2 DEF t
    <3>6. DOMAIN t = Gudang
      BY <3>3 DEF t
    <3>7. stok'[g][q] = IF g0 = g THEN t[g][q] + r.ulang[q] ELSE t[g][q]
      BY <3>4, <3>6, <1>8 DEF Tambah
    <3> QED BY <3>5, <3>7
  <2>6. \A h \in Faktur \ {f} : Andil(h, g, q)' = Andil(h, g, q)
    BY <1>5 DEF Andil, Aktif
  <2> HIDE DEF jual, g0
  <2> QED BY <2>1, <2>2, <2>3, <2>4, <2>5, <2>6
<1> QED BY <1>1, <1>3, <1>9, SatuAndil

-----------------------------------------------------------------------------
(* What an operation that is not offered cannot have done *)

\* A request keeps its operation until it ends.
OpTetap(p) ==
    \E r : /\ proses' = [proses EXCEPT ![p] = r]
           /\ r.op \in Operasi \cup {"diam", proses[p].op}

LEMMA OpMulai ==
    ASSUME NEW p \in Proses, NEW r, Mulai(p, r)
    PROVE  OpTetap(p)
BY DEF Mulai, OpTetap

LEMMA OpAkhiri ==
    ASSUME NEW p \in Proses, Akhiri(p)
    PROVE  OpTetap(p)
<1>1. Diam.op = "diam"
  BY DEF Diam
<1>2. proses' = [proses EXCEPT ![p] = Diam]
  BY DEF Akhiri
<1> QED BY <1>1, <1>2 DEF OpTetap

LEMMA OpKunci ==
    ASSUME NEW p \in Proses, TypeOK,
           KunciKoreksi(p) \/ KunciBayarFaktur(p) \/ KunciCicil(p) \/ KunciRetur(p)
    PROVE  OpTetap(p)
<1> DEFINE r == proses[p]
<1>1. r \in Permintaan
  BY DEF TypeOK
<1>2. CASE KunciKoreksi(p)
  <2>1. r \in PermintaanSimpan \cup PermintaanBatal
    BY <1>1, <1>2, BentukPermintaan DEF KunciKoreksi, Di
  <2>2. [r EXCEPT !.tahap = "tx"].op = r.op
    BY <2>1 DEF PermintaanSimpan, PermintaanBatal
  <2> QED BY <1>2, <2>2 DEF KunciKoreksi, OpTetap
<1>3. CASE KunciBayarFaktur(p)
  <2>1. r \in PermintaanBayar
    BY <1>1, <1>3, BentukPermintaan DEF KunciBayarFaktur, Di
  <2> DEFINE s == [r EXCEPT !.tahap = "tx", !.sisa = Sisa(r.f)]
  <2>2. s.op = r.op
    BY <2>1 DEF PermintaanBayar
  <2>3. proses' = [proses EXCEPT ![p] = s]
    BY <1>3 DEF KunciBayarFaktur
  <2> HIDE DEF s
  <2> QED BY <2>2, <2>3 DEF OpTetap
<1>4. CASE KunciCicil(p)
  <2>1. r \in PermintaanCicil
    BY <1>1, <1>4, BentukPermintaan DEF KunciCicil
  <2> DEFINE Giliran(f, a) == [r EXCEPT !.tahap = "tx", !.antri = r.antri \ {f},
                                       !.sisa = r.sisa - a, !.alokasi[f] = a]
  <2>2. \E f, a : proses' = [proses EXCEPT ![p] = Giliran(f, a)]
    BY <1>4 DEF KunciCicil
  <2>3. \A f, a : Giliran(f, a).op = r.op
    BY <2>1 DEF PermintaanCicil
  <2> HIDE DEF Giliran
  <2> QED BY <2>2, <2>3 DEF OpTetap
<1>5. CASE KunciRetur(p)
  <2>1. r \in PermintaanRetur
    BY <1>1, <1>5, BentukPermintaan DEF KunciRetur, Di
  <2>2. [r EXCEPT !.tahap = "tx"].op = r.op
    BY <2>1 DEF PermintaanRetur
  <2> QED BY <1>5, <2>2 DEF KunciRetur, OpTetap
<1> QED BY <1>2, <1>3, <1>4, <1>5

LEMMA OpLangkah ==
    ASSUME TypeOK, Next
    PROVE  \E p \in Proses : OpTetap(p)
<1>1. PICK p \in Proses :
        \/ LangkahBuat(p) \/ LangkahKoreksi(p) \/ LangkahBayar(p)
        \/ LangkahCicil(p) \/ LangkahRetur(p) \/ Gagal(p)
  BY DEF Next
<1>2. CASE \/ KunciKoreksi(p) \/ KunciBayarFaktur(p) \/ KunciCicil(p) \/ KunciRetur(p)
  BY <1>2, OpKunci
<1>3. CASE \/ SelesaiBuat(p) \/ SelesaiUbah(p) \/ SelesaiBatal(p) \/ SelesaiBayar(p)
           \/ SelesaiCicil(p) \/ SelesaiRetur(p) \/ Gagal(p)
  BY <1>3, OpAkhiri DEF SelesaiBuat, SelesaiUbah, SelesaiBatal, SelesaiBayar, SelesaiCicil,
     SelesaiRetur, Gagal
<1>4. CASE \/ MulaiBuat(p) \/ MulaiUbah(p) \/ MulaiBatal(p) \/ MulaiBayar(p)
           \/ MulaiCicil(p) \/ MulaiRetur(p)
  BY <1>4, OpMulai DEF MulaiBuat, MulaiUbah, MulaiBatal, MulaiBayar, MulaiCicil, MulaiRetur
<1> QED BY <1>1, <1>2, <1>3, <1>4
   DEF LangkahBuat, LangkahKoreksi, LangkahBayar, LangkahCicil, LangkahRetur

LEMMA HanyaOperasiLangkah ==
    ASSUME IInv, HanyaOperasi, Next
    PROVE  HanyaOperasi'
<1>1. TypeOK
  BY DEF IInv
<1>2. \A q \in Proses : proses'[q].op \in Operasi \cup {"diam"}
  <2>1. PICK p \in Proses : OpTetap(p)
    BY <1>1, OpLangkah
  <2>2. PICK r : /\ proses' = [proses EXCEPT ![p] = r]
                 /\ r.op \in Operasi \cup {"diam", proses[p].op}
    BY <2>1 DEF OpTetap
  <2>3. \A q \in Proses : proses[q].op \in Operasi \cup {"diam"}
    BY DEF HanyaOperasi
  <2> QED BY <1>1, <2>2, <2>3 DEF TypeOK
<1>3. PICK p \in Proses : Menulis(p)
  BY SiapaMenulis
<1> DEFINE r == proses[p]
<1>4. r \in Permintaan /\ r.op \in Operasi \cup {"diam"}
  BY <1>1 DEF TypeOK, HanyaOperasi
<1>5. ASSUME "batal" \notin Operasi, NEW f \in Faktur
      PROVE  faktur'[f].status # "dibatalkan"
  <2>1. faktur[f].status # "dibatalkan"
    BY <1>5 DEF HanyaOperasi
  <2>2. CASE SelesaiBuat(p)
    <3>1. r \in PermintaanSimpan
      BY <1>4, <2>2, BentukPermintaan DEF SelesaiBuat, Di
    <3>2. r.status # "dibatalkan"
      BY <3>1 DEF PermintaanSimpan, StatusForm
    <3> QED BY <1>1, <2>1, <2>2, <3>2 DEF SelesaiBuat, TypeOK
  <2>3. CASE SelesaiUbah(p)
    <3>1. r \in PermintaanSimpan
      BY <1>4, <2>3, BentukPermintaan DEF SelesaiUbah, Di
    <3>2. r.status # "dibatalkan" /\ r.f \in Faktur
      BY <3>1 DEF PermintaanSimpan, StatusForm
    <3>3. faktur'[r.f].status = r.status
      <4>1. faktur[r.f] \in BarisFaktur
        BY <1>1, <3>2 DEF TypeOK
      <4>2. faktur'[r.f] = [faktur[r.f] EXCEPT !.isi = r.isi, !.total = r.total,
                              !.status = r.status, !.edisi = faktur[r.f].edisi + 1]
        BY <1>1, <2>3, <3>2 DEF SelesaiUbah, TypeOK
      <4> HIDE DEF r
      <4> QED BY <4>1, <4>2 DEF BarisFaktur
    <3>4. f # r.f => faktur'[f] = faktur[f]
      BY <1>1, <2>3 DEF SelesaiUbah, TypeOK
    <3> QED BY <2>1, <3>2, <3>3, <3>4
  <2>4. CASE SelesaiBatal(p)
    BY <1>4, <1>5, <2>4 DEF SelesaiBatal, Di
  <2>5. CASE SelesaiBayar(p) \/ SelesaiCicil(p) \/ SelesaiRetur(p)
    <3>1. PICK bayar : PembayaranSah(bayar)
      BY <2>5, BayarSah, CicilSah, ReturSah
    <3>2. bayar \in [Faktur -> Int] /\ CatatBayar(bayar)
      BY <3>1 DEF PembayaranSah
    <3>3. /\ bayar[f] = 0 => faktur'[f] = faktur[f]
          /\ bayar[f] # 0 => faktur'[f].status \in StatusForm
      BY <1>1, <3>2, HasilCatat, IsiCatat
    <3> QED BY <2>1, <3>3 DEF StatusForm
  <2>6. CASE UNCHANGED <<faktur, dibayar, adaBayar, diretur, stok>>
    BY <2>1, <2>6
  <2> QED BY <1>3, <2>2, <2>3, <2>4, <2>5, <2>6 DEF Menulis
<1>6. ASSUME "retur" \notin Operasi
      PROVE  diretur' = diretur
  <2>1. ~SelesaiRetur(p)
    BY <1>4, <1>6 DEF SelesaiRetur, Di
  <2> QED BY <1>3, <2>1 DEF Menulis, SelesaiBuat, SelesaiUbah, SelesaiBatal, SelesaiBayar,
                SelesaiCicil
<1> QED BY <1>2, <1>5, <1>6 DEF HanyaOperasi

-----------------------------------------------------------------------------
(* The conservation of stock *)

\* An invoice of which something was returned is valid when it is cancelled.
LEMMA BatalAktif ==
    ASSUME NEW p \in Proses, IInv, SelesaiBatal(p)
    PROVE  LET f == proses[p].f IN
           f \in Faktur /\ Aktif(f) /\ faktur'[f].status = "dibatalkan"
<1> DEFINE r == proses[p]
<1>1. r \in PermintaanBatal /\ r.op = "batal" /\ r.tahap = "tx"
  BY BentukPermintaan DEF SelesaiBatal, Di, IInv, TypeOK
<1>2. r.f \in Faktur
  BY <1>1 DEF PermintaanBatal
<1>3. Aktif(r.f)
  BY <1>1 DEF IInv, PermintaanTerkini, RujukAda, BerlakuTerkini, Aktif, Ada
<1>4. faktur'[r.f].status = "dibatalkan"
  BY <1>2 DEF SelesaiBatal, IInv, TypeOK, BarisFaktur
<1> QED BY <1>2, <1>3, <1>4

\* An edit that names another warehouse is the step PindahGudang speaks of.
LEMMA UbahPindah ==
    ASSUME NEW p \in Proses, IInv, SelesaiUbah(p),
           proses[p].gudang # faktur[proses[p].f].gudang
    PROVE  \E f \in Faktur : PindahGudang(f)
<1> DEFINE r == proses[p]
           lama == faktur[r.f]
<1>1. r \in PermintaanSimpan
  BY BentukPermintaan DEF SelesaiUbah, Di, IInv, TypeOK
<1>2. r.f \in Faktur /\ lama \in BarisFaktur
  BY <1>1 DEF PermintaanSimpan, IInv, TypeOK
<1>3. faktur'[r.f] = [lama EXCEPT !.isi = r.isi, !.total = r.total, !.status = r.status,
                         !.edisi = lama.edisi + 1]
  BY <1>2 DEF SelesaiUbah, IInv, TypeOK
<1>4. proses'[p] = Diam /\ Di(p, "ubah", "tx")
  BY DEF SelesaiUbah, Akhiri, IInv, TypeOK
<1>5. faktur'[r.f].edisi = lama.edisi + 1
  <2> HIDE DEF lama, r
  <2> QED BY <1>2, <1>3 DEF BarisFaktur
<1> QED BY <1>2, <1>4, <1>5 DEF PindahGudang

LEMMA BarangLangkah ==
    ASSUME IInv, Next
    PROVE  BarangTetap \/ \E f \in Faktur :
              Dihidupkan(f) \/ PindahGudang(f) \/ BatalSetelahRetur(f)
<1>1. IInv /\ IInv' /\ TypeOK /\ TypeOK'
  BY LangkahAman DEF IInv
<1>2. PICK p \in Proses : Menulis(p)
  BY SiapaMenulis
<1>4. CASE SelesaiBuat(p)
  BY <1>1, <1>4, BuatKekal
<1>5. CASE SelesaiUbah(p)
  BY <1>1, <1>5, UbahKekal, UbahPindah
<1>6. CASE SelesaiBatal(p)
  BY <1>1, <1>6, BatalKekal, BatalAktif DEF BatalSetelahRetur
<1>7. CASE SelesaiBayar(p) \/ SelesaiCicil(p)
  <2>1. PICK bayar : PembayaranSah(bayar)
    BY <1>1, <1>7, BayarSah, CicilSah
  <2>2. stok' = stok /\ diretur' = diretur
    BY <1>7 DEF SelesaiBayar, SelesaiCicil
  <2>3. CASE \A f \in Faktur : faktur[f].status = "dibatalkan" => bayar[f] = 0
    <3>1. \A g \in Gudang, q \in Produk, h \in Faktur : Andil(h, g, q)' = Andil(h, g, q)
      BY <1>1, <2>1, <2>2, <2>3, AndilBayar
    <3> QED BY <2>2, <3>1, AndilTetap
  <2>4. ASSUME NEW f \in Faktur, faktur[f].status = "dibatalkan", bayar[f] # 0
        PROVE  Dihidupkan(f)
    <3>1. /\ bayar \in [Faktur -> Int] /\ CatatBayar(bayar) /\ bayar[f] \in Int
          /\ ~(bayar[f] < 0)
      BY <2>1, <2>4 DEF PembayaranSah
    <3>2. dibayar'[f] = dibayar[f] + bayar[f] /\ dibayar[f] \in Int
      BY <1>1, <3>1, HasilCatat DEF TypeOK
    <3> QED BY <2>4, <3>1, <3>2 DEF Dihidupkan
  <2> QED BY <2>3, <2>4
<1>8. CASE SelesaiRetur(p)
  BY <1>1, <1>8, ReturKekal
<1>9. CASE UNCHANGED <<faktur, dibayar, adaBayar, diretur, stok>>
  BY <1>1, <1>9, AndilTetap DEF Andil, Aktif
<1> QED BY <1>2, <1>4, <1>5, <1>6, <1>7, <1>8, <1>9 DEF Menulis

\* Whatever interleaves, a warehouse and its valid invoices keep the sum of their
\* goods, but when a payment brings a cancelled invoice back, an edit names
\* another warehouse, or a cancellation meets a return.
THEOREM StokIkut == Spec => StokIkutFaktur
<1>1. IInv /\ [Next]_vars =>
        [BarangTetap \/ \E f \in Faktur :
            Dihidupkan(f) \/ PindahGudang(f) \/ BatalSetelahRetur(f)]_vars
  BY BarangLangkah
<1> QED BY Invarian, <1>1, PTL DEF Spec, StokIkutFaktur

\* None of the three can happen where the hypotheses of StokKekal hold.
LEMMA KekalLangkah ==
    ASSUME TanpaPindah, BatalSendiri, InvStok, Next
    PROVE  KonservasiStok'
<1>1. IInv /\ IInv' /\ TypeOK /\ TypeOK' /\ KonservasiStok /\ HanyaOperasi
  BY LangkahAman DEF InvStok, IInv
<1>2. PICK p \in Proses : Menulis(p)
  BY SiapaMenulis
<1>3. \A q \in Proses : proses[q].op \in Operasi \cup {"diam"}
  BY <1>1 DEF HanyaOperasi
<1>4. ASSUME NEW f \in Faktur PROVE ~PindahGudang(f)
  <2> SUFFICES ASSUME NEW q \in Proses, Di(q, "ubah", "tx"), proses[q].f = f,
                      proses[q].gudang # faktur[f].gudang
               PROVE  FALSE
    BY DEF PindahGudang
  <2>1. proses[q] \in PermintaanSimpan
    BY <1>1, BentukPermintaan DEF Di, TypeOK
  <2>2. proses[q].gudang \in Gudang /\ faktur[f].gudang \in Gudang
    BY <1>1, <2>1 DEF PermintaanSimpan, TypeOK, BarisFaktur
  <2>3. "ubah" \in Operasi
    BY <1>3 DEF Di
  <2> QED BY <2>2, <2>3 DEF TanpaPindah
<1>5. ASSUME NEW f \in Faktur PROVE ~BatalSetelahRetur(f)
  <2> SUFFICES ASSUME faktur'[f].status = "dibatalkan", diretur[f] # IsiKosong
               PROVE  FALSE
    BY DEF BatalSetelahRetur
  <2>1. HanyaOperasi'
    BY <1>1, HanyaOperasiLangkah
  <2> QED BY <1>1, <2>1 DEF HanyaOperasi, BatalSendiri
<1>6. ASSUME NEW f \in Faktur PROVE ~Dihidupkan(f)
  <2> SUFFICES ASSUME faktur[f].status = "dibatalkan", dibayar'[f] > dibayar[f]
               PROVE  FALSE
    BY DEF Dihidupkan
  <2>1. dibayar[f] \in Int
    BY <1>1 DEF TypeOK
  <2>2. SelesaiBayar(p) \/ SelesaiCicil(p) \/ SelesaiRetur(p)
    BY <1>2, <2>1 DEF Menulis, SelesaiBuat, SelesaiUbah, SelesaiBatal
  <2>3. proses[p].op \in {"bayar", "cicil", "retur"}
    BY <2>2 DEF SelesaiBayar, SelesaiCicil, SelesaiRetur, Di
  <2>4. "batal" \in Operasi
    BY <1>1 DEF HanyaOperasi
  <2> QED BY <1>3, <2>3, <2>4 DEF BatalSendiri
<1>7. BarangTetap
  BY <1>1, <1>4, <1>5, <1>6, BarangLangkah
<1> QED BY <1>1, <1>7 DEF BarangTetap, KonservasiStok

LEMMA KekalAwal == Init => InvStok
<1> SUFFICES ASSUME Init PROVE InvStok
  OBVIOUS
<1>1. HanyaOperasi
  BY DEF Init, HanyaOperasi, Diam, BarisKosong
<1>2. ASSUME NEW g \in Gudang, NEW q \in Produk
      PROVE  stok[g][q] + TerjualDari(g, q) = StokAwal[g][q]
  <2> DEFINE a == [f \in Faktur |-> Andil(f, g, q)]
  <2>1. \A f \in Faktur : a[f] = 0
    BY DEF Init, Andil, Aktif, BarisKosong
  <2>2. stok[g][q] = StokAwal[g][q] /\ stok[g][q] \in Int
    BY StokAssumption DEF Init
  <2>3. TerjualDari(g, q) = SumFunctionOnSet(a, Faktur)
    BY DEF TerjualDari
  <2> HIDE DEF a
  <2>4. SumFunctionOnSet(a, Faktur) = SumFunctionOnSet(a, {})
    <3>1. IsFiniteSet(Faktur)
      BY FakturAssumption
    <3>2. {} \in SUBSET Faktur /\ \A f \in Faktur : a[f] \in Int
      BY <2>1
    <3> QED BY <2>1, <3>1, <3>2, JumlahNol
  <2> QED BY <2>2, <2>3, <2>4, JumlahKosong
<1> QED BY AwalAman, <1>1, <1>2 DEF InvStok, KonservasiStok

LEMMA KekalDiam ==
    ASSUME HanyaOperasi, KonservasiStok, UNCHANGED vars
    PROVE  HanyaOperasi' /\ KonservasiStok'
<1>1. HanyaOperasi'
  BY DEF HanyaOperasi, vars
<1>2. \A g \in Gudang, q \in Produk, h \in Faktur : Andil(h, g, q)' = Andil(h, g, q)
  BY DEF Andil, Aktif, vars
<1>3. BarangTetap
  BY <1>2, AndilTetap DEF vars
<1> QED BY <1>1, <1>3 DEF BarangTetap, KonservasiStok

\* Where an edit cannot move an invoice to another warehouse and no payment or
\* return can meet a cancellation, stock and what valid invoices have taken add
\* up to what there was, however sales, edits, cancellations, payments and
\* returns interleave.
THEOREM StokKekal ==
    ASSUME TanpaPindah, BatalSendiri
    PROVE  Spec => []KonservasiStok
<1>1. InvStok /\ [Next]_vars => InvStok'
  BY KekalLangkah, KekalDiam, HanyaOperasiLangkah, LangkahAman, DiamAman DEF InvStok
<1>2. InvStok => KonservasiStok
  BY DEF InvStok
<1> QED BY KekalAwal, <1>1, <1>2, PTL DEF Spec

-----------------------------------------------------------------------------
(* Payments where nobody edits or cancels *)

LEMMA TagihanLangkah ==
    ASSUME TanpaKoreksi, InvTagihan, Next, NEW f \in Faktur
    PROVE  /\ ~Ada(f)' => dibayar'[f] = 0 /\ ~adaBayar'[f]
           /\ dibayar'[f] <= faktur'[f].total
<1>1. /\ IInv /\ TypeOK /\ HanyaOperasi
      /\ ~Ada(f) => dibayar[f] = 0 /\ ~adaBayar[f]
      /\ dibayar[f] <= faktur[f].total
  BY DEF InvTagihan, IInv, BelumAdaBayar, TidakLebihBayar
<1>2. PICK p \in Proses : Menulis(p)
  BY SiapaMenulis
<1> DEFINE r == proses[p]
<1>3. r \in Permintaan /\ r.op \notin {"ubah", "batal"}
  BY <1>1 DEF TypeOK, HanyaOperasi, TanpaKoreksi
<1>4. dibayar[f] \in Int /\ faktur[f].total \in Int
  BY <1>1 DEF TypeOK, BarisFaktur
<1>5. CASE SelesaiBuat(p)
  <2>1. r \in PermintaanSimpan
    BY <1>3, <1>5, BentukPermintaan DEF SelesaiBuat, Di
  <2>2. r.status # "belum" /\ r.total \in Nat
    BY <2>1 DEF PermintaanSimpan, StatusForm
  <2>3. dibayar' = dibayar /\ adaBayar' = adaBayar /\ ~Ada(r.f)
    BY <1>5 DEF SelesaiBuat
  <2>4. CASE f = r.f
    <3>1. faktur'[f].status = r.status /\ faktur'[f].total = r.total
      BY <1>1, <1>5, <2>4 DEF SelesaiBuat, TypeOK
    <3> QED BY <1>1, <2>2, <2>3, <2>4, <3>1 DEF Ada
  <2>5. CASE f # r.f
    <3>1. faktur'[f] = faktur[f]
      BY <1>1, <1>5, <2>5 DEF SelesaiBuat, TypeOK
    <3> QED BY <1>1, <2>3, <3>1 DEF Ada
  <2> QED BY <2>4, <2>5
<1>6. CASE SelesaiUbah(p) \/ SelesaiBatal(p)
  BY <1>3, <1>6 DEF SelesaiUbah, SelesaiBatal, Di
<1>7. CASE SelesaiBayar(p) \/ SelesaiCicil(p) \/ SelesaiRetur(p)
  <2>1. PICK bayar : PembayaranSah(bayar)
    BY <1>1, <1>7, BayarSah, CicilSah, ReturSah
  <2>2. /\ bayar \in [Faktur -> Int] /\ CatatBayar(bayar) /\ bayar[f] \in Int
        /\ bayar[f] # 0 => Ada(f)
        /\ bayar[f] > 0 => bayar[f] <= Sisa(f)
    BY <2>1 DEF PembayaranSah
  <2>3. /\ dibayar'[f] = dibayar[f] + bayar[f]
        /\ faktur'[f].total = faktur[f].total
        /\ Ada(f) => Ada(f)'
        /\ bayar[f] = 0 => faktur'[f] = faktur[f]
    BY <1>1, <2>2, HasilCatat
  <2>4. adaBayar'[f] = (adaBayar[f] \/ bayar[f] # 0)
    BY <1>1, <2>2, IsiCatat
  <2>5. CASE bayar[f] = 0
    <3>1. dibayar'[f] = dibayar[f] /\ adaBayar'[f] = adaBayar[f] /\ faktur'[f] = faktur[f]
      <4>1. dibayar'[f] = dibayar[f] /\ faktur'[f] = faktur[f]
        BY <1>4, <2>3, <2>5
      <4>2. adaBayar[f] \in BOOLEAN
        BY <1>1 DEF TypeOK
      <4> QED BY <4>1, <4>2, <2>4, <2>5
    <3> QED BY <1>1, <3>1 DEF Ada
  <2>6. CASE bayar[f] # 0
    BY <1>1, <1>4, <2>2, <2>3, <2>4, <2>6 DEF Sisa
  <2> QED BY <2>5, <2>6
<1>8. CASE UNCHANGED <<faktur, dibayar, adaBayar, diretur, stok>>
  BY <1>1, <1>8 DEF Ada
<1> QED BY <1>2, <1>5, <1>6, <1>7, <1>8 DEF Menulis

LEMMA TagihanAwal == Init => InvTagihan
<1> SUFFICES ASSUME Init PROVE InvTagihan
  OBVIOUS
<1>1. HanyaOperasi
  BY DEF Init, HanyaOperasi, Diam, BarisKosong
<1> QED BY AwalAman, <1>1 DEF Init, InvTagihan, BelumAdaBayar, TidakLebihBayar,
           BarisKosong

LEMMA TagihanInvarian ==
    ASSUME TanpaKoreksi
    PROVE  Spec => []InvTagihan
<1>1. ASSUME InvTagihan, Next PROVE InvTagihan'
  <2>1. IInv' /\ HanyaOperasi'
    BY <1>1, LangkahAman, HanyaOperasiLangkah DEF InvTagihan
  <2> QED BY <1>1, <2>1, TagihanLangkah
          DEF InvTagihan, BelumAdaBayar, TidakLebihBayar
<1>2. ASSUME InvTagihan, UNCHANGED vars PROVE InvTagihan'
  <2>1. IInv'
    BY <1>2, DiamAman DEF InvTagihan
  <2> QED BY <1>2, <2>1 DEF InvTagihan, HanyaOperasi, BelumAdaBayar, TidakLebihBayar,
             Ada, vars
<1> QED BY TagihanAwal, <1>1, <1>2, PTL DEF Spec

\* Where nobody edits or cancels, no invoice ever holds more than its total.
THEOREM LebihAman ==
    ASSUME TanpaKoreksi
    PROVE  Spec => []TidakLebihBayar
<1>1. InvTagihan => TidakLebihBayar
  BY DEF InvTagihan
<1> QED BY TagihanInvarian, <1>1, PTL

=============================================================================
