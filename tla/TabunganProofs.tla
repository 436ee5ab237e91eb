--------------------------- MODULE TabunganProofs ---------------------------
(***************************************************************************)
(* Proofs about Tabungan: for any customers, dates, amounts and number of  *)
(* requests, money is lost or paid out twice only by a fork of the ledger  *)
(* or by an entry dated back.                                              *)
(***************************************************************************)
EXTENDS Tabungan, TLAPS

\* What a request may look like, one clause per stage.
LEMMA BentukPermintaan ==
  ASSUME NEW r \in Permintaan
  PROVE  /\ r.tahap \in {"diam", "baca", "sisip"}
         /\ r.tahap = "diam" => r = Diam
         /\ r.tahap = "baca" => r \in PermintaanBaca
         /\ r.tahap = "sisip" => r.baris \in BarisTabungan
BY DEF Permintaan, Diam, PermintaanBaca, PermintaanSisip

\* The order of the entries is total and has no cycles.
LEMMA UrutanLebih ==
  ASSUME NEW r \in BarisTabungan, NEW s \in BarisTabungan, NEW t \in BarisTabungan
  PROVE  /\ ~(Lebih(r, s) /\ Lebih(s, r))
         /\ Lebih(r, s) /\ Lebih(s, t) => Lebih(r, t)
<1>1. Tanggal \subseteq Int
  BY TabunganAssumption
<1>2. \A x \in BarisTabungan : x.tanggal \in Tanggal /\ x.id \in Nat
  BY DEF BarisTabungan
<1>3. \A x \in BarisTabungan : x.tanggal \in Int
  BY <1>1, <1>2, Zenon
<1>4. \A x \in BarisTabungan : x.id \in Int
  BY <1>2
<1> QED
  BY <1>3, <1>4 DEF Lebih

\* There is at most one last entry, and it is the one whose balance is shown.
LEMMA AkhirTunggal ==
  ASSUME TypeOK, NEW m \in Mitra, NEW r \in Akhir(m)
  PROVE  /\ \A s \in Akhir(m) : s = r
         /\ Saldo(m) = r.saldo
<1>1. r \in Buku(m) /\ Buku(m) \subseteq BarisTabungan
  BY DEF Akhir, Buku, TypeOK
<1>2. \A s \in Akhir(m) : s = r
  <2> SUFFICES ASSUME NEW s \in Akhir(m), s # r
               PROVE  FALSE
    OBVIOUS
  <2>1. s \in Buku(m) /\ Lebih(r, s) /\ Lebih(s, r)
    BY <1>1 DEF Akhir
  <2> QED
    BY <1>1, <2>1, UrutanLebih
<1>3. (CHOOSE s \in Akhir(m) : TRUE) = r
  BY <1>2
<1> QED
  BY <1>1, <1>2, <1>3 DEF Saldo

\* The invariant says what the balance is.
LEMMA InvarianCukup == IInv => SaldoSetia
<1> SUFFICES ASSUME IInv, NEW m \in Mitra, Rukun(m)
             PROVE  uang[m] = Saldo(m)
  BY DEF SaldoSetia
<1>1. CASE Buku(m) = {}
  BY <1>1 DEF IInv, AkhirAda, Saldo
<1>2. CASE Buku(m) # {}
  <2>1. PICK r \in Akhir(m) : uang[m] = r.saldo
    BY <1>2 DEF IInv, AkhirAda
  <2> QED
    BY <2>1, AkhirTunggal DEF IInv
<1> QED
  BY <1>1, <1>2

-----------------------------------------------------------------------------
(* The steps *)

LEMMA AwalInvarian == Init => IInv
<1> SUFFICES ASSUME Init
             PROVE  IInv
  OBVIOUS
<1>1. TypeOK
  BY DEF Init, TypeOK, Permintaan
<1>2. \A m \in Mitra : Buku(m) = {}
  BY DEF Init, Buku
<1>3. NomorUrut
  BY <1>2 DEF Init, NomorUrut
<1>4. \A p \in Proses : RujukDasar(p)
  BY DEF Init, RujukDasar, Diam
<1>5. \A m \in Mitra : UjungSetia(m) /\ AkhirAda(m)
  BY <1>2 DEF UjungSetia, AkhirAda, Init
<1> QED
  BY <1>1, <1>3, <1>4, <1>5 DEF IInv

\* A step that leaves the ledger, the ids and the money alone keeps the parts of
\* the invariant that speak of them.
LEMMA BukuTetap ==
  ASSUME IInv, UNCHANGED <<buku, uang>>, urut' \in Nat, urut' >= urut
  PROVE  /\ NomorUrut'
         /\ \A m \in Mitra : UjungSetia(m)' /\ AkhirAda(m)'
         /\ \A m \in Mitra : Buku(m)' = Buku(m)
<1>1. \A m \in Mitra : Buku(m)' = Buku(m)
  BY DEF Buku
<1>2. NomorUrut'
  <2>1. \A r \in buku : r.id \in Int /\ r.id <= urut /\ urut \in Int
    BY DEF IInv, TypeOK, NomorUrut, BarisTabungan
  <2>2. \A r \in buku : r.id <= urut'
    BY <2>1
  <2> QED
    BY <1>1, <2>2 DEF IInv, NomorUrut
<1>3. \A m \in Mitra : UjungSetia(m)' /\ AkhirAda(m)'
  <2>1. \A m \in Mitra : Rukun(m)' = Rukun(m) /\ Akhir(m)' = Akhir(m)
    BY DEF Rukun, Akhir, Buku
  <2> QED
    BY <1>1, <2>1 DEF IInv, UjungSetia, AkhirAda
<1> QED
  BY <1>1, <1>2, <1>3

\* What a request knows stays true while it waits: rows are only added, each of
\* them by the request that had its id, and new ids are larger than all others.
LEMMA RujukTetap ==
  ASSUME IInv, NEW q \in Proses, proses'[q] = proses[q],
         buku \subseteq buku', urut' \in Nat, urut' >= urut,
         \A x \in buku' \ buku :
            \E s \in Proses \ {q} : proses[s].tahap = "sisip" /\ x = proses[s].baris,
         \A s \in Proses \ {q} : proses'[s].tahap = "sisip" =>
            (proses'[s] = proses[s] \/ proses'[s].baris.id > urut)
  PROVE  RujukDasar(q)'
<1> DEFINE r == proses[q]
           b == r.baris
<1>1. r \in Permintaan /\ RujukDasar(q) /\ urut \in Nat
  BY DEF IInv, TypeOK
<1>2. \A m \in Mitra : Buku(m) \subseteq Buku(m)'
  BY DEF Buku
<1>3. CASE r.tahap = "baca"
  <2>1. r.mitra \in Mitra /\ Dasar(r.mitra, r.dasar, r.saldo)
    BY <1>1, <1>3, BentukPermintaan DEF PermintaanBaca, RujukDasar
  <2>2. \/ r.dasar = 0 /\ r.saldo = 0
        \/ \E x \in buku' : x.mitra = r.mitra /\ x.id = r.dasar /\ x.saldo = r.saldo
    BY <2>1 DEF Dasar, Buku
  <2> QED
    BY <1>3, <2>2 DEF RujukDasar, Dasar, Buku
<1>4. CASE r.tahap = "sisip"
  <2>1. b \in BarisTabungan
    BY <1>1, <1>4, BentukPermintaan
  <2>2. /\ Dasar(b.mitra, b.dasar, b.saldo - b.jumlah)
        /\ b.dasar < b.id /\ b.id <= urut
        /\ \A x \in buku : x.id # b.id
        /\ \A s \in Proses \ {q} : proses[s].tahap = "sisip" => proses[s].baris.id # b.id
    BY <1>1, <1>4 DEF RujukDasar
  <2>3. b.id \in Int /\ b.id <= urut'
    BY <1>1, <2>1, <2>2 DEF BarisTabungan
  <2>4. \A x \in buku' : x.id # b.id
    BY <2>2
  <2>5. \A s \in Proses \ {q} : proses'[s].tahap = "sisip" => proses'[s].baris.id # b.id
    <3> SUFFICES ASSUME NEW s \in Proses \ {q}, proses'[s].tahap = "sisip"
                 PROVE  proses'[s].baris.id # b.id
      OBVIOUS
    <3>1. CASE proses'[s] = proses[s]
      BY <2>2, <3>1
    <3>2. CASE proses'[s].baris.id > urut
      BY <1>1, <2>2, <2>3, <3>2
    <3> QED
      BY <3>1, <3>2
  <2>6. \/ b.dasar = 0 /\ b.saldo - b.jumlah = 0
        \/ \E x \in buku' : x.mitra = b.mitra /\ x.id = b.dasar /\ x.saldo = b.saldo - b.jumlah
    BY <2>2 DEF Dasar, Buku
  <2> QED
    BY <1>4, <2>2, <2>3, <2>4, <2>5, <2>6 DEF RujukDasar, Dasar, Buku
<1>5. CASE r.tahap = "diam"
  BY <1>5 DEF RujukDasar
<1> QED
  BY <1>1, <1>3, <1>4, <1>5, BentukPermintaan

\* A step that commits nothing.
LEMMA LangkahProses ==
  ASSUME IInv, NEW p \in Proses, NEW r \in Permintaan,
         UNCHANGED <<buku, uang>>, urut' \in Nat, urut' >= urut,
         proses' = [proses EXCEPT ![p] = r],
         r.tahap = "sisip" => r.baris.id > urut,
         RujukDasar(p)'
  PROVE  IInv'
<1>1. /\ proses' \in [Proses -> Permintaan] /\ proses'[p] = r
      /\ \A q \in Proses \ {p} : proses'[q] = proses[q]
  BY DEF IInv, TypeOK
<1>2. TypeOK'
  BY <1>1 DEF IInv, TypeOK
<1>3. \A q \in Proses : RujukDasar(q)'
  <2> SUFFICES ASSUME NEW q \in Proses, q # p
               PROVE  RujukDasar(q)'
    OBVIOUS
  <2>1. \A s \in Proses \ {q} : proses'[s].tahap = "sisip" =>
           (proses'[s] = proses[s] \/ proses'[s].baris.id > urut)
    BY <1>1
  <2>2. buku \subseteq buku' /\ buku' \ buku = {}
    OBVIOUS
  <2> QED
    BY <1>1, <2>1, <2>2, RujukTetap
<1> QED
  BY <1>2, <1>3, BukuTetap DEF IInv

\* Setor and Tarik: what is read is an entry of the customer.
LEMMA LangkahBaca ==
  ASSUME IInv, NEW p \in Proses, NEW m \in Mitra, NEW t \in Tanggal, NEW j \in Int \ {0},
         Baca(p, m, t, j)
  PROVE  IInv'
<1> DEFINE r(d, n) == [tahap |-> "baca", mitra |-> m, tanggal |-> t, jumlah |-> j,
                       dasar |-> d, saldo |-> n]
<1>1. \A s \in Akhir(m) : s \in Buku(m) /\ s.id \in Nat /\ s.saldo \in Nat
  BY DEF Akhir, Buku, IInv, TypeOK, BarisTabungan
<1>2. \E d \in Nat, n \in Nat :
        /\ Dasar(m, d, n)
        /\ proses' = [proses EXCEPT ![p] = r(d, n)]
  BY <1>1 DEF Baca, Dasar
<1>3. PICK d \in Nat, n \in Nat :
        /\ Dasar(m, d, n)
        /\ proses' = [proses EXCEPT ![p] = r(d, n)]
  BY <1>2
<1>4. r(d, n) \in Permintaan /\ r(d, n).tahap = "baca"
  BY DEF Permintaan, PermintaanBaca
<1>5. UNCHANGED <<buku, uang>> /\ urut' \in Nat /\ urut' >= urut
  BY DEF Baca, IInv, TypeOK
<1>6. proses'[p] = r(d, n)
  BY <1>3 DEF IInv, TypeOK
<1>7. (d = 0 /\ n = 0) \/ (\E s \in buku' : s.mitra = m /\ s.id = d /\ s.saldo = n)
  BY <1>3, <1>5 DEF Dasar, Buku
<1>8. RujukDasar(p)'
  BY <1>6, <1>7 DEF RujukDasar, Dasar, Buku
<1> QED
  BY <1>3, <1>4, <1>5, <1>8, LangkahProses

LEMMA LangkahSisip ==
  ASSUME IInv, NEW p \in Proses, Sisip(p)
  PROVE  IInv'
<1> DEFINE r == proses[p]
           b == [id |-> urut + 1, mitra |-> r.mitra, tanggal |-> r.tanggal,
                 jumlah |-> r.jumlah, saldo |-> r.saldo + r.jumlah, dasar |-> r.dasar]
           baru == [tahap |-> "sisip", baris |-> b]
<1>1. /\ r.tahap = "baca" /\ r.saldo + r.jumlah >= 0
      /\ urut' = urut + 1 /\ proses' = [proses EXCEPT ![p] = baru]
      /\ UNCHANGED <<buku, uang>>
  BY DEF Sisip
<1>2. r \in PermintaanBaca /\ urut \in Nat /\ RujukDasar(p)
  BY <1>1, BentukPermintaan DEF IInv, TypeOK
<1>3. b \in BarisTabungan
  BY <1>1, <1>2 DEF PermintaanBaca, BarisTabungan
<1>4. baru \in Permintaan /\ baru.tahap = "sisip" /\ baru.baris = b /\ b.id > urut
  BY <1>2, <1>3 DEF Permintaan, PermintaanSisip
<1>5. /\ proses'[p] = baru
      /\ \A q \in Proses \ {p} : proses'[q] = proses[q]
  BY <1>1 DEF IInv, TypeOK
<1>6. \A x \in buku : x.id \in Int /\ x.id <= urut
  BY DEF IInv, TypeOK, NomorUrut, BarisTabungan
<1>7. \/ b.dasar = 0 /\ b.saldo - b.jumlah = 0
      \/ \E x \in buku' : x.mitra = b.mitra /\ x.id = b.dasar /\ x.saldo = b.saldo - b.jumlah
  <2>1. Dasar(r.mitra, r.dasar, r.saldo)
    BY <1>1, <1>2 DEF RujukDasar
  <2>2. b.saldo - b.jumlah = r.saldo
    BY <1>2 DEF PermintaanBaca
  <2> QED
    BY <1>1, <2>1, <2>2 DEF Dasar, Buku
<1>8. b.dasar < b.id
  BY <1>1, <1>2, <1>6, <1>7
<1>9. \A q \in Proses \ {p} : proses'[q].tahap = "sisip" => proses'[q].baris.id # b.id
  <2> SUFFICES ASSUME NEW q \in Proses \ {p}, proses[q].tahap = "sisip"
               PROVE  proses[q].baris.id # b.id
    BY <1>5
  <2>1. proses[q].baris.id <= urut /\ proses[q].baris.id \in Int
    BY BentukPermintaan DEF IInv, TypeOK, RujukDasar, BarisTabungan
  <2> QED
    BY <1>2, <2>1
<1>10. \A x \in buku' : x.id # b.id
  BY <1>1, <1>2, <1>6
<1>11. RujukDasar(p)'
  BY <1>1, <1>2, <1>4, <1>5, <1>7, <1>8, <1>9, <1>10 DEF RujukDasar, Dasar, Buku
<1>12. urut' \in Nat /\ urut' >= urut
  BY <1>1, <1>2
<1> QED
  BY <1>1, <1>4, <1>11, <1>12, LangkahProses

LEMMA LangkahGagal ==
  ASSUME IInv, NEW p \in Proses, Gagal(p)
  PROVE  IInv'
<1>1. Diam \in Permintaan /\ Diam.tahap = "diam"
  BY DEF Permintaan, Diam
<1>2. /\ proses' = [proses EXCEPT ![p] = Diam] /\ UNCHANGED <<buku, uang>>
      /\ urut' \in Nat /\ urut' >= urut
  BY DEF Gagal, IInv, TypeOK
<1>3. proses'[p] = Diam
  BY <1>2 DEF IInv, TypeOK
<1>4. RujukDasar(p)'
  BY <1>1, <1>3 DEF RujukDasar
<1> QED
  BY <1>1, <1>2, <1>4, LangkahProses

-----------------------------------------------------------------------------
(* The commit *)

\* The commit of an entry b, seen by the ledger of its customer: when the entries
\* are still in order, b continues the last one.
LEMMA BukuBertambah ==
  ASSUME IInv, TypeOK', NEW b \in BarisTabungan, NEW m \in Mitra, b.mitra = m,
         buku' = buku \cup {b},
         uang'[m] = uang[m] + b.jumlah,
         Dasar(m, b.dasar, b.saldo - b.jumlah),
         b.dasar < b.id, \A r \in buku : r.id # b.id
  PROVE  UjungSetia(m)' /\ AkhirAda(m)'
<1>1. Buku(m)' = Buku(m) \cup {b} /\ b \notin Buku(m) /\ b \in Buku(m)'
  BY DEF Buku
<1>2. Buku(m) \subseteq BarisTabungan
  BY DEF IInv, TypeOK, Buku
<1>3. SUFFICES ASSUME Rukun(m)'
               PROVE  /\ b \in Akhir(m)' /\ uang'[m] = b.saldo
                      /\ \A r \in Buku(m) : \E s \in Buku(m)' : s.dasar = r.id
  BY <1>1 DEF UjungSetia, AkhirAda
<1>4. /\ \A r, s \in Buku(m) \cup {b} : r.dasar = s.dasar => r = s
      /\ \A r, s \in Buku(m) \cup {b} : r.dasar = s.id => r.tanggal >= s.tanggal
  BY <1>1, <1>3 DEF Rukun
<1>5. Rukun(m) /\ UjungSetia(m) /\ AkhirAda(m)
  BY <1>4 DEF Rukun, IInv
<1>6. b.saldo \in Int /\ b.jumlah \in Int /\ uang[m] \in Int
  BY DEF BarisTabungan, IInv, TypeOK
<1>7. CASE b.dasar = 0 /\ b.saldo - b.jumlah = 0 /\ Buku(m) = {}
  <2>1. uang[m] = 0
    BY <1>5, <1>7 DEF AkhirAda
  <2>2. b \in Akhir(m)'
    BY <1>1, <1>7 DEF Akhir
  <2> QED
    BY <1>6, <1>7, <2>1, <2>2
<1>8. CASE b.dasar = 0 /\ Buku(m) # {}
  <2>1. PICK r \in Buku(m) : r.dasar = 0
    BY <1>8 DEF IInv, NomorUrut
  <2> QED
    BY <1>1, <1>4, <1>8, <2>1
<1>9. ASSUME NEW r \in Buku(m), r.id = b.dasar, r.saldo = b.saldo - b.jumlah
      PROVE  /\ b \in Akhir(m)' /\ uang'[m] = b.saldo
             /\ \A x \in Buku(m) : \E s \in Buku(m)' : s.dasar = x.id
  <2>1. \A s \in Buku(m) : s.dasar # r.id
    BY <1>1, <1>4, <1>9
  <2>2. r \in Akhir(m) /\ uang[m] = r.saldo
    BY <1>5, <2>1 DEF UjungSetia
  <2>3. Lebih(b, r)
    <3>1. b.tanggal >= r.tanggal /\ b.id > r.id
      BY <1>4, <1>9
    <3>2. \A x \in BarisTabungan : x.tanggal \in Tanggal
      BY DEF BarisTabungan
    <3>3. b.tanggal \in Int /\ r.tanggal \in Int
      BY <1>2, <3>2, TabunganAssumption
    <3> QED
      BY <3>1, <3>3 DEF Lebih
  <2>4. \A s \in Buku(m) \ {r} : Lebih(b, s)
    BY <1>2, <2>2, <2>3, UrutanLebih DEF Akhir
  <2>5. b \in Akhir(m)'
    BY <1>1, <2>3, <2>4 DEF Akhir, Lebih
  <2>6. uang'[m] = b.saldo
    BY <1>6, <1>9, <2>2
  <2>7. ASSUME NEW x \in Buku(m)
        PROVE  \E s \in Buku(m)' : s.dasar = x.id
    <3>1. CASE x = r
      BY <1>1, <1>9, <3>1
    <3>2. CASE \E s \in Buku(m) : s.dasar = x.id
      BY <1>1, <3>2
    <3>3. CASE x # r /\ \A s \in Buku(m) : s.dasar # x.id
      <4>1. x \in Akhir(m)
        BY <1>5, <3>3 DEF UjungSetia
      <4> QED
        BY <2>2, <3>3, <4>1, AkhirTunggal DEF IInv
    <3> QED
      BY <3>1, <3>2, <3>3
  <2> QED
    BY <2>5, <2>6, <2>7
<1>10. \/ b.dasar = 0 /\ b.saldo - b.jumlah = 0
       \/ \E r \in Buku(m) : r.id = b.dasar /\ r.saldo = b.saldo - b.jumlah
  BY DEF Dasar
<1> QED
  BY <1>7, <1>8, <1>9, <1>10

LEMMA LangkahSelesai ==
  ASSUME IInv, NEW p \in Proses, Selesai(p)
  PROVE  IInv'
<1>1. PICK b : b = proses[p].baris
  OBVIOUS
<1>2. /\ proses[p].tahap = "sisip" /\ buku' = buku \cup {b}
      /\ uang' = [uang EXCEPT ![b.mitra] = uang[b.mitra] + b.jumlah]
      /\ proses' = [proses EXCEPT ![p] = Diam] /\ urut' = urut
  BY <1>1 DEF Selesai
<1>3. b \in BarisTabungan /\ RujukDasar(p)
  BY <1>1, <1>2, BentukPermintaan DEF IInv, TypeOK
<1>4. /\ b.mitra \in Mitra /\ b.id \in Nat \ {0} /\ b.dasar \in Nat
      /\ b.jumlah \in Int
  BY <1>3 DEF BarisTabungan
<1>5. /\ Dasar(b.mitra, b.dasar, b.saldo - b.jumlah)
      /\ b.dasar < b.id /\ b.id <= urut
      /\ \A r \in buku : r.id # b.id
  BY <1>1, <1>2, <1>3 DEF RujukDasar
<1>6. TypeOK'
  <2>1. uang' \in [Mitra -> Int]
    BY <1>2, <1>4 DEF IInv, TypeOK
  <2>2. proses' \in [Proses -> Permintaan] /\ urut' \in Nat
    BY <1>2 DEF IInv, TypeOK, Permintaan
  <2>3. buku' \subseteq BarisTabungan
    BY <1>2, <1>3 DEF IInv, TypeOK
  <2> QED
    BY <2>1, <2>2, <2>3 DEF TypeOK
<1>7. NomorUrut'
  <2>1. \A r, s \in buku' : r.id = s.id => r = s
    BY <1>2, <1>5 DEF IInv, NomorUrut
  <2>2. \A r \in buku' : r.id <= urut' /\ r.dasar < r.id
    BY <1>2, <1>5 DEF IInv, NomorUrut
  <2>3. ASSUME NEW m \in Mitra, Buku(m)' # {}
        PROVE  \E r \in Buku(m)' : r.dasar = 0
    <3>1. CASE Buku(m) # {}
      BY <1>2, <3>1 DEF IInv, NomorUrut, Buku
    <3>2. CASE Buku(m) = {}
      <4>1. b.mitra = m
        BY <1>2, <2>3, <3>2 DEF Buku
      <4>2. b.dasar = 0
        BY <1>5, <3>2, <4>1 DEF Dasar
      <4> QED
        BY <1>2, <4>1, <4>2 DEF Buku
    <3> QED
      BY <3>1, <3>2
  <2> QED
    BY <2>1, <2>2, <2>3 DEF NomorUrut
<1>8. \A q \in Proses : RujukDasar(q)'
  <2>1. /\ proses'[p] = Diam
        /\ \A q \in Proses \ {p} : proses'[q] = proses[q]
    BY <1>2 DEF IInv, TypeOK
  <2>2. RujukDasar(p)'
    BY <2>1 DEF RujukDasar, Diam
  <2>3. ASSUME NEW q \in Proses \ {p}
        PROVE  RujukDasar(q)'
    <3>1. \A x \in buku' \ buku :
            \E s \in Proses \ {q} : proses[s].tahap = "sisip" /\ x = proses[s].baris
      BY <1>1, <1>2
    <3>2. \A s \in Proses \ {q} : proses'[s].tahap = "sisip" =>
            (proses'[s] = proses[s] \/ proses'[s].baris.id > urut)
      BY <2>1 DEF Diam
    <3>3. buku \subseteq buku' /\ urut' \in Nat /\ urut' >= urut /\ proses'[q] = proses[q]
      BY <1>2, <2>1 DEF IInv, TypeOK
    <3> QED
      BY <3>1, <3>2, <3>3, RujukTetap
  <2> QED
    BY <2>2, <2>3
<1>9. ASSUME NEW m \in Mitra
      PROVE  UjungSetia(m)' /\ AkhirAda(m)'
  <2>1. CASE m = b.mitra
    <3>1. uang'[m] = uang[m] + b.jumlah
      BY <1>2, <2>1 DEF IInv, TypeOK
    <3> QED
      BY <1>2, <1>3, <1>5, <1>6, <2>1, <3>1, BukuBertambah
  <2>2. CASE m # b.mitra
    <3>1. Buku(m)' = Buku(m) /\ uang'[m] = uang[m]
      BY <1>2, <1>4, <2>2 DEF Buku, IInv, TypeOK
    <3>2. Rukun(m)' = Rukun(m) /\ Akhir(m)' = Akhir(m)
      BY <3>1 DEF Rukun, Akhir, Lebih
    <3> QED
      BY <3>1, <3>2 DEF IInv, UjungSetia, AkhirAda
  <2> QED
    BY <2>1, <2>2
<1> QED
  BY <1>6, <1>7, <1>8, <1>9 DEF IInv

LEMMA LangkahInvarian == IInv /\ [Next]_vars => IInv'
<1> SUFFICES ASSUME IInv, [Next]_vars
             PROVE  IInv'
  OBVIOUS
<1>1. ASSUME NEW p \in Proses, Setor(p)
      PROVE  IInv'
  <2>1. PICK m \in Mitra, t \in Tanggal, j \in Jumlah : Baca(p, m, t, j)
    BY <1>1 DEF Setor
  <2>2. j \in Int \ {0}
    BY TabunganAssumption
  <2> QED
    BY <2>1, <2>2, LangkahBaca
<1>2. ASSUME NEW p \in Proses, Tarik(p)
      PROVE  IInv'
  <2>1. PICK m \in Mitra, t \in Tanggal, j \in Jumlah : Baca(p, m, t, -j)
    BY <1>2 DEF Tarik
  <2>2. -j \in Int \ {0}
    BY TabunganAssumption
  <2> QED
    BY <2>1, <2>2, LangkahBaca
<1>3. CASE UNCHANGED vars
  <2>1. UNCHANGED <<buku, uang>> /\ UNCHANGED proses /\ UNCHANGED urut
    BY <1>3 DEF vars
  <2>2. urut' \in Nat /\ urut' >= urut
    BY <2>1 DEF IInv, TypeOK
  <2>3. TypeOK'
    BY <2>1 DEF IInv, TypeOK
  <2>4. \A p \in Proses : RujukDasar(p)'
    BY <2>1 DEF IInv, RujukDasar, Dasar, Buku
  <2> QED
    BY <2>1, <2>2, <2>3, <2>4, BukuTetap DEF IInv
<1> QED
  BY <1>1, <1>2, <1>3, LangkahSisip, LangkahSelesai, LangkahGagal DEF Next

-----------------------------------------------------------------------------
(* The theorems *)

\* The inductive invariant holds in every reachable state.
THEOREM Invarian == Spec => []IInv
BY AwalInvarian, LangkahInvarian, PTL DEF Spec

\* Type correctness; no balance in the ledger is ever negative.
THEOREM Tipe == Spec => []TypeOK
<1>1. IInv => TypeOK
  BY DEF IInv
<1> QED
  BY <1>1, Invarian, PTL

\* While the entries of a customer are in order the balance the shop shows is
\* the money it holds for him: forks and entries dated back are the only faults.
THEOREM Setia == Spec => []SaldoSetia
BY InvarianCukup, Invarian, PTL

=============================================================================
