-------------------------- MODULE PersediaanProofs --------------------------
(***************************************************************************)
(* Proofs about Persediaan: for any warehouses, products, transfers,       *)
(* counts and requests, a stock row that was there from the start never    *)
(* goes below zero, a transfer that is over stays over, and the stock      *)
(* moves as the documents do.                                              *)
(***************************************************************************)
EXTENDS Persediaan, HitungProofs, TLAPS

\* What a request may look like, one clause per operation.
LEMMA BentukPermintaan ==
  ASSUME NEW r \in Permintaan
  PROVE  /\ r.op \in SemuaOperasi \cup {"diam"}
         /\ r.op = "kirim" => r \in PermintaanKirim
         /\ r.op \in {"terima", "batal"} => r \in PermintaanAlih
         /\ r.op = "hitung" => r \in PermintaanHitung
         /\ r.op \in {"ajukan", "setujui"} => r \in PermintaanStatus
BY DEF Permintaan, Diam, PermintaanKirim, PermintaanAlih, PermintaanHitung,
       PermintaanStatus, SemuaOperasi

\* Baskets are quantities, and what is not in the basket is not needed.
LEMMA IsiNat ==
  ASSUME NEW isi \in Isi, NEW q \in Produk
  PROVE  /\ isi[q] \in Int
         /\ isi[q] >= 0
         /\ q \notin Perlu(isi) => isi[q] = 0
BY StokAssumption DEF Isi, Perlu

\* Adding or removing a basket keeps the stock well typed and touches only the
\* products of the basket in its warehouse.
LEMMA StokBaru ==
  ASSUME NEW s \in [Gudang -> [Produk -> Int]], NEW g \in Gudang, NEW isi \in Isi
  PROVE  /\ Tambah(s, g, isi) \in [Gudang -> [Produk -> Int]]
         /\ Kurangi(s, g, isi) \in [Gudang -> [Produk -> Int]]
         /\ \A h \in Gudang, q \in Produk :
              /\ Tambah(s, g, isi)[h][q] >= s[h][q]
              /\ h # g \/ q \notin Perlu(isi) =>
                    /\ Tambah(s, g, isi)[h][q] = s[h][q]
                    /\ Kurangi(s, g, isi)[h][q] = s[h][q]
              /\ Kurangi(s, g, isi)[g][q] = s[g][q] - isi[q]
<1>1. \A q \in Produk : s[g][q] + isi[q] \in Int /\ s[g][q] - isi[q] \in Int
  BY IsiNat
<1>2. \A h \in Gudang, q \in Produk : s[h][q] \in Int
  OBVIOUS
<1>3. Tambah(s, g, isi) \in [Gudang -> [Produk -> Int]]
  BY <1>1 DEF Tambah
<1>4. Kurangi(s, g, isi) \in [Gudang -> [Produk -> Int]]
  BY <1>1 DEF Kurangi
<1>5. ASSUME NEW h \in Gudang, NEW q \in Produk
      PROVE  /\ Tambah(s, g, isi)[h][q] = IF h = g THEN s[h][q] + isi[q] ELSE s[h][q]
             /\ Kurangi(s, g, isi)[h][q] = IF h = g THEN s[h][q] - isi[q] ELSE s[h][q]
  BY DEF Tambah, Kurangi
<1> QED
  BY <1>2, <1>3, <1>4, <1>5, IsiNat

\* The lock table after a transaction ended: its own locks are gone, those of
\* the others are as they were.
LEMMA KunciLepas ==
  ASSUME TypeOK, NEW p \in Proses, Akhiri(p)
  PROVE  /\ kunci' \in [Baris -> Proses \cup {Bebas}]
         /\ proses' \in [Proses -> Permintaan]
         /\ proses'[p] = Diam
         /\ \A r \in Proses \ {p} :
              /\ proses'[r] = proses[r]
              /\ \A b \in Baris : kunci[b] = r => kunci'[b] = r
BY DEF TypeOK, Akhiri, Permintaan

\* The documents after a step: a transfer keeps its warehouses and items and a
\* count its warehouse once they exist, and neither ceases to exist.
DokumenUtuh ==
    /\ \A m \in Mutasi : mutasi[m].status # "belum" =>
          /\ mutasi'[m].status # "belum"
          /\ mutasi'[m].asal = mutasi[m].asal
          /\ mutasi'[m].isi = mutasi[m].isi
    /\ \A o \in Opname : opname[o].status # "belum" => opname'[o].status # "belum"

\* A step leaves a request alone: its record, its locks and the rows it holds.
Dibiarkan(p) ==
    /\ proses'[p] = proses[p]
    /\ \A g \in Gudang, q \in Produk : kunci[<<g, q>>] = p =>
          kunci'[<<g, q>>] = p /\ stok'[g][q] = stok[g][q]

\* What a request knows stays true when a step leaves it alone.
LEMMA TetapTerkini ==
  ASSUME TypeOK, DokumenUtuh, NEW p \in Proses, RujukAda(p), KirimTerkini(p), Dibiarkan(p)
  PROVE  RujukAda(p)' /\ KirimTerkini(p)'
<1> DEFINE r == proses[p]
<1>1. r \in Permintaan
  BY DEF TypeOK
<1>2. RujukAda(p)'
  <2>1. r.op \in {"kirim", "terima", "batal"} => r.m \in Mutasi
    BY <1>1, BentukPermintaan DEF PermintaanKirim, PermintaanAlih
  <2>2. r.op \in {"hitung", "ajukan", "setujui"} => r.o \in Opname
    BY <1>1, BentukPermintaan DEF PermintaanHitung, PermintaanStatus
  <2> QED
    BY <2>1, <2>2 DEF RujukAda, DokumenUtuh, Dibiarkan
<1>3. ASSUME r.op = "kirim"
      PROVE  KirimTerkini(p)'
  <2>1. r.m \in Mutasi
    BY <1>1, <1>3, BentukPermintaan DEF PermintaanKirim
  <2>2. /\ mutasi'[r.m].asal = mutasi[r.m].asal
        /\ mutasi'[r.m].isi = mutasi[r.m].isi
        /\ mutasi[r.m].asal \in Gudang
    BY <2>1, <1>3 DEF DokumenUtuh, RujukAda, TypeOK, BarisMutasi
  <2>3. \A q \in Perlu(mutasi[r.m].isi) : q \in Produk
    BY DEF Perlu
  <2> QED
    BY <1>3, <2>2, <2>3 DEF KirimTerkini, Dibiarkan
<1>4. CASE r.op # "kirim"
  BY <1>2, <1>4 DEF KirimTerkini, Dibiarkan
<1> QED
  BY <1>2, <1>3, <1>4

\* The common part of every step: apart from the requests in S it only has to
\* keep the rows and documents the others rely on.
LEMMA Pelihara ==
  ASSUME IInv, TypeOK', NEW S \in SUBSET Proses,
         ada \subseteq ada', DokumenUtuh,
         \A p \in Proses \ S : Dibiarkan(p),
         \A p \in S : RujukAda(p)' /\ KirimTerkini(p)',
         StokAmanBarisAwal', HitungTidakNegatif'
  PROVE  IInv'
<1>1. \A p \in Proses : RujukAda(p)' /\ KirimTerkini(p)'
  <2>1. TAKE p \in Proses
  <2>2. CASE p \in S
    BY <2>2
  <2>3. CASE p \notin S
    BY <2>3, TetapTerkini DEF IInv
  <2> QED
    BY <2>2, <2>3
<1>2. BarisAwal \subseteq ada'
  BY DEF IInv
<1> QED
  BY <1>1, <1>2 DEF IInv

\* A request that is over knows nothing.
LEMMA DiamTerkini ==
  ASSUME NEW p \in Proses, proses'[p] = Diam
  PROVE  RujukAda(p)' /\ KirimTerkini(p)'
BY DEF RujukAda, KirimTerkini, Diam

\* A request that ends leaves the others alone when it wrote no row they hold.
LEMMA AkhiriMembiarkan ==
  ASSUME TypeOK, NEW p \in Proses, Akhiri(p),
         \A g \in Gudang, q \in Produk :
            kunci[<<g, q>>] \notin {Bebas, p} => stok'[g][q] = stok[g][q]
  PROVE  \A r \in Proses \ {p} : Dibiarkan(r)
<1> SUFFICES ASSUME NEW r \in Proses \ {p}
             PROVE  Dibiarkan(r)
  OBVIOUS
<1>1. \A g \in Gudang, q \in Produk : <<g, q>> \in Baris
  BY DEF Baris
<1>2. r # Bebas
  BY PersediaanAssumption
<1> QED
  BY <1>1, <1>2, KunciLepas DEF Dibiarkan

-----------------------------------------------------------------------------
(* The steps that begin a request *)

LEMMA LangkahMulai ==
  ASSUME IInv, NEW p \in Proses, NEW r \in Permintaan, Mulai(p, r),
         r.op \in {"kirim", "terima", "batal"} => mutasi[r.m].status # "belum",
         r.op \in {"hitung", "ajukan", "setujui"} => opname[r.o].status # "belum",
         r.op = "kirim" => r.sisa = Perlu(mutasi[r.m].isi) /\ ~r.cukup /\ r.hampa = {}
  PROVE  IInv'
<1>1. proses' \in [Proses -> Permintaan] /\ proses'[p] = r
  BY DEF IInv, TypeOK, Mulai
<1>2. TypeOK'
  BY <1>1 DEF IInv, TypeOK, Mulai
<1>3. DokumenUtuh
  BY DEF DokumenUtuh, Mulai
<1>4. \A s \in Proses \ {p} : Dibiarkan(s)
  BY DEF IInv, TypeOK, Mulai, Dibiarkan
<1>5. RujukAda(p)' /\ KirimTerkini(p)'
  BY <1>1 DEF Mulai, RujukAda, KirimTerkini
<1>6. StokAmanBarisAwal' /\ HitungTidakNegatif' /\ ada \subseteq ada'
  BY DEF IInv, Mulai, StokAmanBarisAwal, HitungTidakNegatif
<1>7. {p} \in SUBSET Proses
  OBVIOUS
<1>8. \A s \in {p} : RujukAda(s)' /\ KirimTerkini(s)'
  BY <1>5
<1> QED
  BY <1>2, <1>3, <1>4, <1>6, <1>7, <1>8, Pelihara

LEMMA LangkahMulaiKirim ==
  ASSUME IInv, NEW p \in Proses, MulaiKirim(p)
  PROVE  IInv'
<1>1. PICK m \in Mutasi :
        /\ BolehMutasi(mutasi[m].status, "dikirim")
        /\ Mulai(p, [op |-> "kirim", m |-> m, sisa |-> Perlu(mutasi[m].isi),
                     hampa |-> {}, cukup |-> FALSE])
  BY DEF MulaiKirim
<1> DEFINE r == [op |-> "kirim", m |-> m, sisa |-> Perlu(mutasi[m].isi),
                 hampa |-> {}, cukup |-> FALSE]
<1>2. r \in Permintaan
  BY DEF Permintaan, PermintaanKirim, Perlu
<1>3. mutasi[r.m].status # "belum"
  BY <1>1 DEF BolehMutasi
<1> QED
  BY <1>1, <1>2, <1>3, LangkahMulai

LEMMA LangkahMulaiAlih ==
  ASSUME IInv, NEW p \in Proses, MulaiTerima(p) \/ MulaiBatalMutasi(p)
  PROVE  IInv'
<1>1. PICK m \in Mutasi, op \in {"terima", "batal"} :
        /\ mutasi[m].status \in {"draft", "dikirim"}
        /\ Mulai(p, [op |-> op, m |-> m, dari |-> mutasi[m].status])
  BY DEF MulaiTerima, MulaiBatalMutasi, BolehMutasi
<1> DEFINE r == [op |-> op, m |-> m, dari |-> mutasi[m].status]
<1>2. r \in Permintaan
  BY <1>1 DEF Permintaan, PermintaanAlih
<1>3. mutasi[r.m].status # "belum" /\ r.op \in {"terima", "batal"}
  BY <1>1
<1> QED
  BY <1>1, <1>2, <1>3, LangkahMulai

LEMMA LangkahMulaiOpname ==
  ASSUME IInv, NEW p \in Proses, MulaiHitung(p) \/ MulaiAjukan(p) \/ MulaiSetujui(p)
  PROVE  IInv'
<1>1. CASE MulaiHitung(p)
  <2>1. PICK o \in Opname, q \in Produk, n \in 0..MaxQty :
          /\ opname[o].status = "draft"
          /\ Mulai(p, [op |-> "hitung", o |-> o, q |-> q, n |-> n])
    BY <1>1 DEF MulaiHitung
  <2> DEFINE r == [op |-> "hitung", o |-> o, q |-> q, n |-> n]
  <2>2. r \in Permintaan
    BY DEF Permintaan, PermintaanHitung
  <2> QED
    BY <2>1, <2>2, LangkahMulai
<1>2. CASE MulaiAjukan(p) \/ MulaiSetujui(p)
  <2>1. PICK o \in Opname, op \in {"ajukan", "setujui"} :
          /\ opname[o].status \in {"draft", "selesai"}
          /\ Mulai(p, [op |-> op, o |-> o])
    BY <1>2 DEF MulaiAjukan, MulaiSetujui, BolehOpname
  <2> DEFINE r == [op |-> op, o |-> o]
  <2>2. r \in Permintaan
    BY DEF Permintaan, PermintaanStatus
  <2>3. opname[r.o].status # "belum" /\ r.op \in {"ajukan", "setujui"}
    BY <2>1
  <2> QED
    BY <2>1, <2>2, <2>3, LangkahMulai
<1> QED
  BY <1>1, <1>2

-----------------------------------------------------------------------------
(* The steps of Submit before its last one *)

\* The shape of a request to send, and of its transfer.
LEMMA BentukKirim ==
  ASSUME IInv, NEW p \in Proses, proses[p].op = "kirim"
  PROVE  /\ proses[p] \in PermintaanKirim
         /\ mutasi[proses[p].m] \in BarisMutasi
         /\ mutasi[proses[p].m].status # "belum"
BY BentukPermintaan DEF IInv, TypeOK, RujukAda, PermintaanKirim

\* A step of Submit that changes only what it knows and may lock a free row.
LEMMA LangkahKirimAntara ==
  ASSUME IInv, NEW p \in Proses, proses[p].op = "kirim",
         NEW r \in PermintaanKirim, r.m = proses[p].m,
         proses' = [proses EXCEPT ![p] = r],
         kunci' \in [Baris -> Proses \cup {Bebas}],
         \A b \in Baris : kunci[b] \in Proses => kunci'[b] = kunci[b],
         UNCHANGED <<stok, ada, mutasi, penyesuaian, opname>>,
         KirimTerkini(p)'
  PROVE  IInv'
<1>1. r \in Permintaan /\ r.op = "kirim"
  BY DEF Permintaan, PermintaanKirim
<1>2. proses' \in [Proses -> Permintaan] /\ proses'[p] = r
  BY <1>1 DEF IInv, TypeOK
<1>3. TypeOK'
  BY <1>2 DEF IInv, TypeOK
<1>4. DokumenUtuh
  BY DEF DokumenUtuh
<1>5. \A s \in Proses \ {p} : Dibiarkan(s)
  BY DEF IInv, TypeOK, Dibiarkan, Baris
<1>6. RujukAda(p)'
  BY <1>1, <1>2, BentukKirim DEF RujukAda
<1>7. StokAmanBarisAwal' /\ HitungTidakNegatif' /\ ada \subseteq ada'
  BY DEF IInv, StokAmanBarisAwal, HitungTidakNegatif
<1>8. {p} \in SUBSET Proses /\ \A s \in {p} : RujukAda(s)' /\ KirimTerkini(s)'
  BY <1>6
<1> QED
  BY <1>3, <1>4, <1>5, <1>7, <1>8, Pelihara

\* A row that is there is locked: from now on nobody else writes it.
LEMMA LangkahKunciBaris ==
  ASSUME IInv, NEW p \in Proses, KunciBaris(p)
  PROVE  IInv'
<1> DEFINE l == proses[p]
           g == mutasi[l.m].asal
<1>1. l \in PermintaanKirim /\ g \in Gudang
  BY BentukKirim DEF KunciBaris, BarisMutasi
<1>2. PICK q \in l.sisa :
        /\ kunci[<<g, q>>] = Bebas
        /\ kunci' = [kunci EXCEPT ![<<g, q>>] = p]
        /\ proses' = [proses EXCEPT ![p].sisa = l.sisa \ {q}]
  BY DEF KunciBaris
<1> DEFINE r == [l EXCEPT !.sisa = l.sisa \ {q}]
<1>3. /\ r \in PermintaanKirim /\ r.m = l.m
      /\ r.sisa = l.sisa \ {q} /\ r.hampa = l.hampa /\ r.cukup = l.cukup
      /\ proses' = [proses EXCEPT ![p] = r]
  BY <1>1, <1>2 DEF PermintaanKirim
<1>4. proses'[p] = r
  BY <1>3 DEF IInv, TypeOK
<1>5. <<g, q>> \in Baris /\ q \in Produk
  BY <1>1 DEF Baris, PermintaanKirim
<1>6. kunci' \in [Baris -> Proses \cup {Bebas}]
  BY <1>2 DEF IInv, TypeOK
<1>7. \A b \in Baris : kunci'[b] = IF b = <<g, q>> THEN p ELSE kunci[b]
  BY <1>2, <1>5 DEF IInv, TypeOK
<1>8. \A b \in Baris : kunci[b] \in Proses => kunci'[b] = kunci[b]
  BY <1>2, <1>7, PersediaanAssumption
<1>9. KirimTerkini(p)'
  <2>1. l.op = "kirim" /\ KirimTerkini(p) /\ ~l.cukup
    BY <1>2 DEF KunciBaris, IInv, KirimTerkini
  <2>2. \A q2 \in Perlu(mutasi[l.m].isi) : <<g, q2>> \in Baris
    BY <1>1 DEF Perlu, Baris
  <2>3. \A q2 \in Perlu(mutasi[l.m].isi) \ (r.sisa \cup r.hampa) :
          <<g, q2>> \in BarisAwal => kunci'[<<g, q2>>] = p
    BY <1>3, <1>7, <2>1, <2>2 DEF KirimTerkini
  <2> QED
    BY <1>3, <1>4, <2>1, <2>3 DEF KirimTerkini, KunciBaris
<1>10. UNCHANGED <<stok, ada, mutasi, penyesuaian, opname>> /\ proses[p].op = "kirim"
  BY DEF KunciBaris
<1> QED
  BY <1>3, <1>6, <1>8, <1>9, <1>10, LangkahKirimAntara

\* A row that is not there cannot be one that was there from the start.
LEMMA LangkahLihatHampa ==
  ASSUME IInv, NEW p \in Proses, LihatHampa(p)
  PROVE  IInv'
<1> DEFINE l == proses[p]
           g == mutasi[l.m].asal
<1>1. l \in PermintaanKirim
  BY BentukKirim DEF LihatHampa
<1>2. PICK q \in l.sisa :
        /\ <<g, q>> \notin ada
        /\ proses' = [proses EXCEPT ![p].sisa = l.sisa \ {q}, ![p].hampa = {q}]
  BY DEF LihatHampa
<1> DEFINE r == [l EXCEPT !.sisa = l.sisa \ {q}, !.hampa = {q}]
<1>3. /\ r \in PermintaanKirim /\ r.m = l.m
      /\ r.sisa = l.sisa \ {q} /\ r.hampa = {q} /\ r.cukup = l.cukup
      /\ proses' = [proses EXCEPT ![p] = r]
  BY <1>1, <1>2 DEF PermintaanKirim, IInv, TypeOK
<1>4. proses'[p] = r
  BY <1>3 DEF IInv, TypeOK
<1>5. KirimTerkini(p)'
  <2>1. l.op = "kirim" /\ KirimTerkini(p) /\ ~l.cukup /\ l.hampa = {}
    BY <1>2 DEF LihatHampa, IInv, KirimTerkini
  <2>2. <<g, q>> \notin BarisAwal
    BY <1>2 DEF IInv
  <2> QED
    BY <1>3, <1>4, <2>1, <2>2 DEF KirimTerkini, LihatHampa
<1>6. /\ UNCHANGED <<stok, ada, mutasi, penyesuaian, opname>> /\ proses[p].op = "kirim"
      /\ kunci' = kunci
  BY DEF LihatHampa
<1>7. kunci' \in [Baris -> Proses \cup {Bebas}]
  BY <1>6 DEF IInv, TypeOK
<1> QED
  BY <1>3, <1>5, <1>6, <1>7, LangkahKirimAntara

\* The insert locks the row or finds it there; neither concerns the old rows.
LEMMA LangkahSisipBaris ==
  ASSUME IInv, NEW p \in Proses, SisipBaris(p)
  PROVE  IInv'
<1> DEFINE l == proses[p]
           g == mutasi[l.m].asal
<1>1. l \in PermintaanKirim /\ g \in Gudang
  BY BentukKirim DEF SisipBaris, BarisMutasi
<1>2. PICK q \in l.hampa :
        /\ kunci[<<g, q>>] = Bebas \/ <<g, q>> \in ada
        /\ kunci' = IF <<g, q>> \in ada THEN kunci ELSE [kunci EXCEPT ![<<g, q>>] = p]
        /\ proses' = [proses EXCEPT ![p].hampa = {}]
  BY DEF SisipBaris
<1> DEFINE r == [l EXCEPT !.hampa = {}]
<1>3. /\ r \in PermintaanKirim /\ r.m = l.m
      /\ r.sisa = l.sisa /\ r.hampa = {} /\ r.cukup = l.cukup
      /\ proses' = [proses EXCEPT ![p] = r]
  BY <1>1, <1>2 DEF PermintaanKirim, IInv, TypeOK
<1>4. proses'[p] = r
  BY <1>3 DEF IInv, TypeOK
<1>5. <<g, q>> \in Baris
  BY <1>1 DEF Baris, PermintaanKirim
<1>6. kunci' \in [Baris -> Proses \cup {Bebas}]
  BY <1>2 DEF IInv, TypeOK
<1>7. \A b \in Baris : kunci'[b] = kunci[b] \/ (kunci[b] = Bebas /\ kunci'[b] = p)
  <2>1. CASE <<g, q>> \in ada
    BY <1>2, <2>1
  <2>2. CASE <<g, q>> \notin ada
    <3>1. kunci[<<g, q>>] = Bebas /\ kunci' = [kunci EXCEPT ![<<g, q>>] = p]
      BY <1>2, <2>2
    <3> QED
      BY <1>5, <3>1 DEF IInv, TypeOK
  <2> QED
    BY <2>1, <2>2
<1>8. \A b \in Baris : kunci[b] \in Proses => kunci'[b] = kunci[b]
  BY <1>7, PersediaanAssumption
<1>9. KirimTerkini(p)'
  <2>1. l.op = "kirim" /\ KirimTerkini(p) /\ ~l.cukup
    BY <1>2 DEF SisipBaris, IInv, KirimTerkini
  <2>2. \A q2 \in Perlu(mutasi[l.m].isi) : <<g, q2>> \in Baris
    BY <1>1 DEF Perlu, Baris
  <2>3. \A q2 \in l.hampa : <<g, q2>> \notin BarisAwal
    BY <2>1 DEF KirimTerkini
  <2>4. \A q2 \in Perlu(mutasi[l.m].isi) \ (r.sisa \cup r.hampa) :
          <<g, q2>> \in BarisAwal => kunci'[<<g, q2>>] = p
    BY <1>3, <1>7, <2>1, <2>2, <2>3 DEF KirimTerkini
  <2> QED
    BY <1>3, <1>4, <2>1, <2>4 DEF KirimTerkini, SisipBaris
<1>10. UNCHANGED <<stok, ada, mutasi, penyesuaian, opname>> /\ proses[p].op = "kirim"
  BY DEF SisipBaris
<1> QED
  BY <1>3, <1>6, <1>8, <1>9, <1>10, LangkahKirimAntara

\* What the check saw in the rows it holds is there until it writes.
LEMMA LangkahCekStok ==
  ASSUME IInv, NEW p \in Proses, CekStok(p)
  PROVE  IInv'
<1> DEFINE l == proses[p]
           r == [l EXCEPT !.cukup = TRUE]
<1>1. l \in PermintaanKirim
  BY BentukKirim DEF CekStok
<1>2. /\ r \in PermintaanKirim /\ r.m = l.m
      /\ r.sisa = l.sisa /\ r.hampa = l.hampa /\ r.cukup
      /\ proses' = [proses EXCEPT ![p] = r]
  BY <1>1 DEF PermintaanKirim, IInv, TypeOK, CekStok
<1>3. proses'[p] = r
  BY <1>2 DEF IInv, TypeOK
<1>4. KirimTerkini(p)'
  <2>1. KirimTerkini(p)
    BY DEF IInv
  <2>2. \A q \in Perlu(mutasi[l.m].isi) :
          stok[mutasi[l.m].asal][q] >= mutasi[l.m].isi[q]
    BY DEF CekStok, Cukup, Perlu
  <2> QED
    BY <1>2, <1>3, <2>1, <2>2 DEF KirimTerkini, CekStok
<1>5. /\ UNCHANGED <<stok, ada, mutasi, penyesuaian, opname>> /\ proses[p].op = "kirim"
      /\ kunci' = kunci
  BY DEF CekStok
<1>6. kunci' \in [Baris -> Proses \cup {Bebas}]
  BY <1>5 DEF IInv, TypeOK
<1> QED
  BY <1>2, <1>4, <1>5, <1>6, LangkahKirimAntara

-----------------------------------------------------------------------------
(* The steps that end a request *)

\* A request that ends and leaves well-typed data, no old row below zero and
\* the rows others hold as they were, keeps the invariant.
LEMMA LangkahAkhir ==
  ASSUME IInv, NEW p \in Proses, Akhiri(p),
         stok' \in [Gudang -> [Produk -> Int]],
         ada \subseteq ada', ada' \subseteq Baris,
         mutasi' \in [Mutasi -> BarisMutasi],
         opname' \in [Opname -> BarisOpname],
         UNCHANGED penyesuaian,
         DokumenUtuh, StokAmanBarisAwal', HitungTidakNegatif',
         \A g \in Gudang, q \in Produk :
            kunci[<<g, q>>] \notin {Bebas, p} => stok'[g][q] = stok[g][q]
  PROVE  IInv'
<1>1. TypeOK /\ TypeOK'
  BY KunciLepas DEF IInv, TypeOK
<1>2. \A s \in Proses \ {p} : Dibiarkan(s)
  BY <1>1, AkhiriMembiarkan
<1>3. proses'[p] = Diam
  BY <1>1, KunciLepas
<1>4. {p} \in SUBSET Proses /\ \A s \in {p} : RujukAda(s)' /\ KirimTerkini(s)'
  BY <1>3, DiamTerkini
<1> QED
  BY <1>1, <1>2, <1>4, Pelihara

LEMMA LangkahGagal ==
  ASSUME IInv, NEW p \in Proses, Gagal(p)
  PROVE  IInv'
<1>1. Akhiri(p) /\ UNCHANGED <<stok, ada, mutasi, penyesuaian, opname>>
  BY DEF Gagal
<1>2. DokumenUtuh
  BY <1>1 DEF DokumenUtuh
<1>3. StokAmanBarisAwal' /\ HitungTidakNegatif'
  BY <1>1 DEF IInv, StokAmanBarisAwal, HitungTidakNegatif
<1>4. /\ stok' \in [Gudang -> [Produk -> Int]] /\ ada' \subseteq Baris
      /\ mutasi' \in [Mutasi -> BarisMutasi] /\ opname' \in [Opname -> BarisOpname]
  BY <1>1 DEF IInv, TypeOK
<1> QED
  BY <1>1, <1>2, <1>3, <1>4, LangkahAkhir

\* A change of the status of a transfer keeps the transfers typed and whole.
LEMMA AlihUtuh ==
  ASSUME TypeOK, NEW p \in Proses, NEW ke \in StatusMutasi,
         proses[p].m \in Mutasi, Alih(p, ke), UNCHANGED opname
  PROVE  mutasi' \in [Mutasi -> BarisMutasi] /\ DokumenUtuh
<1> DEFINE m == proses[p].m
<1>1. mutasi' = [mutasi EXCEPT ![m].status = ke]
  BY DEF Alih
<1>2. /\ mutasi' \in [Mutasi -> BarisMutasi]
      /\ \A n \in Mutasi :
           /\ mutasi'[n].asal = mutasi[n].asal
           /\ mutasi'[n].isi = mutasi[n].isi
           /\ mutasi'[n].status = mutasi[n].status \/ mutasi'[n].status = ke
  BY <1>1 DEF TypeOK, BarisMutasi
<1>3. ke # "belum"
  BY DEF StatusMutasi
<1> QED
  BY <1>2, <1>3 DEF DokumenUtuh

\* Goods that come into a warehouse whose rows nobody else holds.
LEMMA TulisTambah ==
  ASSUME IInv, NEW p \in Proses, NEW g \in Gudang, NEW isi \in Isi,
         BolehTulis(p, g, Perlu(isi)), stok' = Tambah(stok, g, isi),
         TambahBaris(g, Perlu(isi))
  PROVE  /\ stok' \in [Gudang -> [Produk -> Int]]
         /\ ada \subseteq ada' /\ ada' \subseteq Baris
         /\ StokAmanBarisAwal'
         /\ \A h \in Gudang, q \in Produk :
              kunci[<<h, q>>] \notin {Bebas, p} => stok'[h][q] = stok[h][q]
<1>1. stok \in [Gudang -> [Produk -> Int]] /\ ada \subseteq Baris
  BY DEF IInv, TypeOK
<1>2. /\ stok' \in [Gudang -> [Produk -> Int]]
      /\ \A h \in Gudang, q \in Produk :
           /\ stok'[h][q] >= stok[h][q]
           /\ h # g \/ q \notin Perlu(isi) => stok'[h][q] = stok[h][q]
  BY <1>1, StokBaru
<1>3. ada \subseteq ada' /\ ada' \subseteq Baris
  BY <1>1 DEF TambahBaris, Perlu, Baris
<1>4. \A b \in BarisAwal : b[1] \in Gudang /\ b[2] \in Produk
  BY PersediaanAssumption DEF Baris
<1>5. StokAmanBarisAwal'
  <2> SUFFICES ASSUME NEW b \in BarisAwal
               PROVE  stok'[b[1]][b[2]] >= 0
    BY DEF StokAmanBarisAwal
  <2>1. stok[b[1]][b[2]] >= 0 /\ stok[b[1]][b[2]] \in Int
    BY <1>1, <1>4 DEF IInv, StokAmanBarisAwal
  <2>2. stok'[b[1]][b[2]] >= stok[b[1]][b[2]] /\ stok'[b[1]][b[2]] \in Int
    BY <1>2, <1>4
  <2> QED
    BY <2>1, <2>2
<1>6. ASSUME NEW h \in Gudang, NEW q \in Produk, kunci[<<h, q>>] \notin {Bebas, p}
      PROVE  stok'[h][q] = stok[h][q]
  BY <1>2, <1>6 DEF BolehTulis
<1> QED
  BY <1>2, <1>3, <1>5, <1>6

LEMMA LangkahSelesaiKirim ==
  ASSUME IInv, NEW p \in Proses, SelesaiKirim(p)
  PROVE  IInv'
<1> DEFINE l == proses[p]
           d == mutasi[l.m]
           g == d.asal
<1>1. l.op = "kirim" /\ l.cukup /\ Akhiri(p) /\ Alih(p, "dikirim")
      /\ UNCHANGED <<penyesuaian, opname>>
  BY DEF SelesaiKirim
<1>2. l \in PermintaanKirim /\ d \in BarisMutasi /\ l.m \in Mutasi
  BY <1>1, BentukKirim DEF PermintaanKirim
<1>3. g \in Gudang /\ d.isi \in Isi
  BY <1>2 DEF BarisMutasi
<1>4. mutasi' \in [Mutasi -> BarisMutasi] /\ DokumenUtuh
  BY <1>1, <1>2, AlihUtuh DEF IInv, StatusMutasi
<1>5. stok \in [Gudang -> [Produk -> Int]] /\ stok' = Kurangi(stok, g, d.isi)
  BY DEF IInv, TypeOK, SelesaiKirim
<1>6. /\ stok' \in [Gudang -> [Produk -> Int]]
      /\ \A h \in Gudang, q \in Produk :
           /\ h # g \/ q \notin Perlu(d.isi) => stok'[h][q] = stok[h][q]
           /\ stok'[g][q] = stok[g][q] - d.isi[q]
  BY <1>3, <1>5, StokBaru, SMTT(30)
<1>7. ada \subseteq ada' /\ ada' \subseteq Baris
  BY <1>3 DEF SelesaiKirim, TambahBaris, IInv, TypeOK, Baris, Perlu
<1>8. StokAmanBarisAwal'
  <2> SUFFICES ASSUME NEW b \in BarisAwal
               PROVE  stok'[b[1]][b[2]] >= 0
    BY DEF StokAmanBarisAwal
  <2>1. b[1] \in Gudang /\ b[2] \in Produk /\ b = <<b[1], b[2]>>
    BY PersediaanAssumption DEF Baris
  <2>2. stok[b[1]][b[2]] >= 0
    BY DEF IInv, StokAmanBarisAwal
  <2>3. CASE b[1] = g /\ b[2] \in Perlu(d.isi)
    <3>1. stok[g][b[2]] >= d.isi[b[2]]
      BY <1>1, <2>1, <2>3 DEF IInv, KirimTerkini
    <3>2. stok'[g][b[2]] = stok[g][b[2]] - d.isi[b[2]]
      BY <1>3, <1>6, <2>1
    <3>3. stok[g][b[2]] \in Int /\ d.isi[b[2]] \in Int
      BY <1>3, <1>5, <2>1, IsiNat
    <3> QED
      BY <2>3, <3>1, <3>2, <3>3
  <2>4. CASE b[1] # g \/ b[2] \notin Perlu(d.isi)
    BY <1>6, <2>1, <2>2, <2>4
  <2> QED
    BY <2>3, <2>4
<1>9. HitungTidakNegatif' /\ opname' \in [Opname -> BarisOpname]
  BY <1>1 DEF IInv, TypeOK, HitungTidakNegatif
<1>10. ASSUME NEW h \in Gudang, NEW q \in Produk, kunci[<<h, q>>] \notin {Bebas, p}
       PROVE  stok'[h][q] = stok[h][q]
  BY <1>6, <1>10 DEF SelesaiKirim, BolehTulis
<1> QED
  BY <1>1, <1>4, <1>6, <1>7, <1>8, <1>9, <1>10, LangkahAkhir

\* The shape of a request to receive or cancel, and of its transfer.
LEMMA BentukAlih ==
  ASSUME IInv, NEW p \in Proses, proses[p].op \in {"terima", "batal"}
  PROVE  /\ proses[p] \in PermintaanAlih
         /\ proses[p].m \in Mutasi
         /\ mutasi[proses[p].m] \in BarisMutasi
BY BentukPermintaan DEF IInv, TypeOK, PermintaanAlih

LEMMA LangkahSelesaiTerima ==
  ASSUME IInv, NEW p \in Proses, SelesaiTerima(p)
  PROVE  IInv'
<1> DEFINE l == proses[p]
           d == mutasi[l.m]
<1>1. /\ l.op = "terima" /\ Akhiri(p) /\ Alih(p, "diterima")
      /\ UNCHANGED <<penyesuaian, opname>>
      /\ BolehTulis(p, d.tujuan, Perlu(d.isi))
      /\ stok' = Tambah(stok, d.tujuan, d.isi)
      /\ TambahBaris(d.tujuan, Perlu(d.isi))
  BY DEF SelesaiTerima
<1>2. l.m \in Mutasi /\ d.tujuan \in Gudang /\ d.isi \in Isi
  BY <1>1, BentukAlih DEF BarisMutasi
<1>3. mutasi' \in [Mutasi -> BarisMutasi] /\ DokumenUtuh
  BY <1>1, <1>2, AlihUtuh DEF IInv, StatusMutasi
<1>4. HitungTidakNegatif' /\ opname' \in [Opname -> BarisOpname]
  BY <1>1 DEF IInv, TypeOK, HitungTidakNegatif
<1> QED
  BY <1>1, <1>2, <1>3, <1>4, TulisTambah, LangkahAkhir

LEMMA LangkahSelesaiBatal ==
  ASSUME IInv, NEW p \in Proses, SelesaiBatalMutasi(p)
  PROVE  IInv'
<1> DEFINE l == proses[p]
           d == mutasi[l.m]
<1>1. /\ l.op = "batal" /\ Akhiri(p) /\ Alih(p, "dibatalkan")
      /\ UNCHANGED <<penyesuaian, opname>>
  BY DEF SelesaiBatalMutasi
<1>2. l.m \in Mutasi /\ d.asal \in Gudang /\ d.isi \in Isi
  BY <1>1, BentukAlih DEF BarisMutasi
<1>3. mutasi' \in [Mutasi -> BarisMutasi] /\ DokumenUtuh
  BY <1>1, <1>2, AlihUtuh DEF IInv, StatusMutasi
<1>4. HitungTidakNegatif' /\ opname' \in [Opname -> BarisOpname]
  BY <1>1 DEF IInv, TypeOK, HitungTidakNegatif
<1>5. CASE l.dari = "draft"
  <2>1. UNCHANGED <<stok, ada>>
    BY <1>5 DEF SelesaiBatalMutasi
  <2>2. StokAmanBarisAwal' /\ stok' \in [Gudang -> [Produk -> Int]] /\ ada' \subseteq Baris
    BY <2>1 DEF IInv, TypeOK, StokAmanBarisAwal
  <2> QED
    BY <1>1, <1>3, <1>4, <2>1, <2>2, LangkahAkhir
<1>6. CASE l.dari # "draft"
  <2>1. /\ BolehTulis(p, d.asal, Perlu(d.isi))
        /\ stok' = Tambah(stok, d.asal, d.isi)
        /\ TambahBaris(d.asal, Perlu(d.isi))
    BY <1>6 DEF SelesaiBatalMutasi
  <2> QED
    BY <1>1, <1>2, <1>3, <1>4, <2>1, TulisTambah, LangkahAkhir
<1> QED
  BY <1>5, <1>6

\* The shape of a request about a count, and of its count.
LEMMA BentukOpname ==
  ASSUME IInv, NEW p \in Proses, proses[p].op \in {"hitung", "ajukan", "setujui"}
  PROVE  /\ proses[p].o \in Opname
         /\ opname[proses[p].o] \in BarisOpname
         /\ opname[proses[p].o].status # "belum"
         /\ proses[p].op = "hitung" => proses[p].q \in Produk /\ proses[p].n \in 0..MaxQty
BY BentukPermintaan DEF IInv, TypeOK, RujukAda, PermintaanHitung, PermintaanStatus

LEMMA LangkahSelesaiHitung ==
  ASSUME IInv, NEW p \in Proses, SelesaiHitung(p)
  PROVE  IInv'
<1> DEFINE l == proses[p]
<1>1. /\ l.op = "hitung" /\ Akhiri(p)
      /\ UNCHANGED <<stok, ada, mutasi, penyesuaian>>
      /\ opname' = [opname EXCEPT ![l.o].fisik[l.q] = l.n]
  BY DEF SelesaiHitung
<1>2. l.o \in Opname /\ l.q \in Produk /\ l.n \in Int /\ l.n >= 0
  BY <1>1, BentukOpname, StokAssumption
<1>3. opname \in [Opname -> BarisOpname]
  BY DEF IInv, TypeOK
<1>4. opname' \in [Opname -> BarisOpname]
  BY <1>1, <1>2, <1>3 DEF BarisOpname
<1>5. \A o \in Opname :
        /\ opname'[o].gudang = opname[o].gudang
        /\ opname'[o].status = opname[o].status
        /\ \A q \in Produk :
             opname'[o].fisik[q] = opname[o].fisik[q] \/ opname'[o].fisik[q] = l.n
  BY <1>1, <1>2, <1>3 DEF BarisOpname
<1>6. DokumenUtuh
  BY <1>1, <1>5 DEF DokumenUtuh
<1>7. HitungTidakNegatif'
  BY <1>2, <1>5 DEF HitungTidakNegatif, IInv
<1>8. /\ StokAmanBarisAwal' /\ stok' \in [Gudang -> [Produk -> Int]]
      /\ ada' \subseteq Baris /\ mutasi' \in [Mutasi -> BarisMutasi]
  BY <1>1 DEF IInv, TypeOK, StokAmanBarisAwal
<1> QED
  BY <1>1, <1>4, <1>6, <1>7, <1>8, LangkahAkhir

\* A change of the status of a count keeps the counts typed, whole and valid.
LEMMA StatusOpnameUtuh ==
  ASSUME IInv, NEW o \in Opname, NEW ke \in StatusOpname,
         opname' = [opname EXCEPT ![o].status = ke], UNCHANGED mutasi
  PROVE  /\ opname' \in [Opname -> BarisOpname]
         /\ mutasi' \in [Mutasi -> BarisMutasi]
         /\ DokumenUtuh
         /\ HitungTidakNegatif'
<1>1. opname \in [Opname -> BarisOpname] /\ mutasi \in [Mutasi -> BarisMutasi]
  BY DEF IInv, TypeOK
<1>2. ke # "belum"
  BY DEF StatusOpname
<1>3. opname' \in [Opname -> BarisOpname]
  BY <1>1 DEF BarisOpname
<1>4. \A n \in Opname :
        /\ opname'[n].gudang = opname[n].gudang
        /\ opname'[n].fisik = opname[n].fisik
        /\ opname'[n].status = opname[n].status \/ opname'[n].status = ke
  BY <1>1 DEF BarisOpname
<1>5. DokumenUtuh
  BY <1>2, <1>4 DEF DokumenUtuh
<1>6. HitungTidakNegatif'
  BY <1>4 DEF HitungTidakNegatif, IInv
<1> QED
  BY <1>1, <1>3, <1>5, <1>6

LEMMA LangkahSelesaiAjukan ==
  ASSUME IInv, NEW p \in Proses, SelesaiAjukan(p)
  PROVE  IInv'
<1>1. /\ proses[p].op = "ajukan" /\ Akhiri(p)
      /\ UNCHANGED <<stok, ada, mutasi, penyesuaian>>
      /\ opname' = [opname EXCEPT ![proses[p].o].status = "selesai"]
  BY DEF SelesaiAjukan
<1>2. proses[p].o \in Opname /\ "selesai" \in StatusOpname
  BY <1>1, BentukOpname DEF StatusOpname
<1>3. /\ StokAmanBarisAwal' /\ stok' \in [Gudang -> [Produk -> Int]]
      /\ ada' \subseteq Baris
  BY <1>1 DEF IInv, TypeOK, StokAmanBarisAwal
<1> QED
  BY <1>1, <1>2, <1>3, StatusOpnameUtuh, LangkahAkhir

LEMMA LangkahSelesaiSetujui ==
  ASSUME IInv, NEW p \in Proses, SelesaiSetujui(p)
  PROVE  IInv'
<1> DEFINE d == opname[proses[p].o]
<1>1. /\ proses[p].op = "setujui" /\ Akhiri(p)
      /\ UNCHANGED <<mutasi, penyesuaian>>
      /\ opname' = [opname EXCEPT ![proses[p].o].status = "approved"]
  BY DEF SelesaiSetujui
<1>2. proses[p].o \in Opname /\ "approved" \in StatusOpname /\ d \in BarisOpname
  BY <1>1, BentukOpname DEF StatusOpname
<1>3. CASE d.status = "approved"
  <2>1. UNCHANGED <<stok, ada>>
    BY <1>3 DEF SelesaiSetujui
  <2>2. /\ StokAmanBarisAwal' /\ stok' \in [Gudang -> [Produk -> Int]]
        /\ ada' \subseteq Baris
    BY <2>1 DEF IInv, TypeOK, StokAmanBarisAwal
  <2> QED
    BY <1>1, <1>2, <2>1, <2>2, StatusOpnameUtuh, LangkahAkhir
<1>4. CASE d.status # "approved"
  <2>1. /\ BolehTulis(p, d.gudang, Produk)
        /\ stok' = [stok EXCEPT ![d.gudang] = d.fisik]
        /\ TambahBaris(d.gudang, Produk)
    BY <1>4 DEF SelesaiSetujui
  <2>2. d.gudang \in Gudang /\ d.fisik \in [Produk -> Int]
    BY <1>2 DEF BarisOpname
  <2>3. stok' \in [Gudang -> [Produk -> Int]]
        /\ \A h \in Gudang : stok'[h] = IF h = d.gudang THEN d.fisik ELSE stok[h]
    BY <2>1, <2>2 DEF IInv, TypeOK
  <2>4. ada \subseteq ada' /\ ada' \subseteq Baris
    BY <2>1, <2>2 DEF TambahBaris, IInv, TypeOK, Baris
  <2>5. StokAmanBarisAwal'
    <3> SUFFICES ASSUME NEW b \in BarisAwal
                 PROVE  stok'[b[1]][b[2]] >= 0
      BY DEF StokAmanBarisAwal
    <3>1. b[1] \in Gudang /\ b[2] \in Produk /\ b = <<b[1], b[2]>>
      BY PersediaanAssumption DEF Baris
    <3>2. stok[b[1]][b[2]] >= 0
      BY DEF IInv, StokAmanBarisAwal
    <3>3. b[1] = d.gudang => d.fisik[b[2]] >= 0
      BY <1>2, <3>1 DEF IInv, HitungTidakNegatif
    <3> QED
      BY <2>3, <3>1, <3>2, <3>3
  <2>6. ASSUME NEW h \in Gudang, NEW q \in Produk, kunci[<<h, q>>] \notin {Bebas, p}
        PROVE  stok'[h][q] = stok[h][q]
    BY <2>1, <2>3, <2>6 DEF BolehTulis
  <2> QED
    BY <1>1, <1>2, <2>3, <2>4, <2>5, <2>6, StatusOpnameUtuh, LangkahAkhir
<1> QED
  BY <1>3, <1>4

-----------------------------------------------------------------------------
(* The steps without a request, and the theorems *)

LEMMA LangkahBuatMutasi ==
  ASSUME IInv, BuatMutasi
  PROVE  IInv'
<1>1. PICK m \in Mutasi, asal, tujuan \in Gudang, isi \in Keranjang :
        /\ mutasi[m].status = "belum"
        /\ mutasi' = [mutasi EXCEPT ![m] =
              [status |-> "draft", asal |-> asal, tujuan |-> tujuan, isi |-> isi]]
        /\ UNCHANGED <<stok, ada, kunci, penyesuaian, opname, proses>>
  BY DEF BuatMutasi
<1>2. [status |-> "draft", asal |-> asal, tujuan |-> tujuan, isi |-> isi] \in BarisMutasi
  BY DEF BarisMutasi, StatusMutasi, Keranjang
<1>3. TypeOK'
  BY <1>1, <1>2 DEF IInv, TypeOK
<1>4. \A n \in Mutasi : mutasi[n].status # "belum" => mutasi'[n] = mutasi[n]
  BY <1>1 DEF IInv, TypeOK
<1>5. DokumenUtuh
  BY <1>1, <1>4 DEF DokumenUtuh
<1>6. \A p \in Proses : Dibiarkan(p)
  BY <1>1 DEF Dibiarkan
<1>7. StokAmanBarisAwal' /\ HitungTidakNegatif' /\ ada \subseteq ada'
  BY <1>1 DEF IInv, StokAmanBarisAwal, HitungTidakNegatif
<1>8. {} \in SUBSET Proses /\ \A p \in {} : RujukAda(p)' /\ KirimTerkini(p)'
  OBVIOUS
<1> QED
  BY <1>3, <1>5, <1>6, <1>7, <1>8, Pelihara

LEMMA LangkahSesuaikan ==
  ASSUME IInv, Sesuaikan
  PROVE  IInv'
<1>1. PICK g \in Gudang, q \in Produk, n \in Selisih :
        /\ kunci[<<g, q>>] = Bebas
        /\ n < 0 => <<g, q>> \in ada /\ stok[g][q] + n >= 0
        /\ penyesuaian[g][q] + n \in -MaxSesuai..MaxSesuai
        /\ stok' = [stok EXCEPT ![g][q] = stok[g][q] + n]
        /\ penyesuaian' = [penyesuaian EXCEPT ![g][q] = penyesuaian[g][q] + n]
        /\ TambahBaris(g, {q})
        /\ UNCHANGED <<kunci, mutasi, opname, proses>>
  BY DEF Sesuaikan
<1>2. n \in Int /\ stok \in [Gudang -> [Produk -> Int]]
  BY PersediaanAssumption DEF IInv, TypeOK
<1>3. /\ stok' \in [Gudang -> [Produk -> Int]]
      /\ \A h \in Gudang, r \in Produk :
           stok'[h][r] = IF h = g /\ r = q THEN stok[g][q] + n ELSE stok[h][r]
  BY <1>1, <1>2
<1>4. penyesuaian' \in [Gudang -> [Produk -> -MaxSesuai..MaxSesuai]]
  BY <1>1 DEF IInv, TypeOK
<1>5. ada \subseteq ada' /\ ada' \subseteq Baris
  BY <1>1 DEF IInv, TypeOK, TambahBaris, Baris
<1>6. TypeOK'
  BY <1>1, <1>3, <1>4, <1>5 DEF IInv, TypeOK
<1>7. DokumenUtuh
  BY <1>1 DEF DokumenUtuh
<1>8. \A p \in Proses : Dibiarkan(p)
  BY <1>1, <1>3, PersediaanAssumption DEF Dibiarkan
<1>9. StokAmanBarisAwal'
  <2> SUFFICES ASSUME NEW b \in BarisAwal
               PROVE  stok'[b[1]][b[2]] >= 0
    BY DEF StokAmanBarisAwal
  <2>1. b[1] \in Gudang /\ b[2] \in Produk
    BY PersediaanAssumption DEF Baris
  <2>2. stok[b[1]][b[2]] >= 0 /\ stok[b[1]][b[2]] \in Int
    BY <1>2, <2>1 DEF IInv, StokAmanBarisAwal
  <2> QED
    BY <1>1, <1>2, <1>3, <2>1, <2>2
<1>10. HitungTidakNegatif'
  BY <1>1 DEF IInv, HitungTidakNegatif
<1>11. {} \in SUBSET Proses /\ \A p \in {} : RujukAda(p)' /\ KirimTerkini(p)'
  OBVIOUS
<1> QED
  BY <1>5, <1>6, <1>7, <1>8, <1>9, <1>10, <1>11, Pelihara

LEMMA LangkahBuatOpname ==
  ASSUME IInv, BuatOpname
  PROVE  IInv'
<1>1. PICK o \in Opname, g \in Gudang :
        /\ opname[o].status = "belum"
        /\ opname' = [opname EXCEPT ![o] =
              [status |-> "draft", gudang |-> g, fisik |-> stok[g]]]
        /\ UNCHANGED <<stok, ada, kunci, mutasi, penyesuaian, proses>>
  BY DEF BuatOpname
<1>2. [status |-> "draft", gudang |-> g, fisik |-> stok[g]] \in BarisOpname
  BY DEF IInv, TypeOK, BarisOpname, StatusOpname
<1>3. TypeOK'
  BY <1>1, <1>2 DEF IInv, TypeOK
<1>4. \A n \in Opname : opname'[n] = opname[n] \/
                        (n = o /\ opname'[n].gudang = g /\ opname'[n].fisik = stok[g])
  BY <1>1 DEF IInv, TypeOK
<1>5. \A n \in Opname : opname[n].status # "belum" => opname'[n] = opname[n]
  BY <1>1 DEF IInv, TypeOK
<1>6. DokumenUtuh
  BY <1>1, <1>5 DEF DokumenUtuh
<1>7. \A p \in Proses : Dibiarkan(p)
  BY <1>1 DEF Dibiarkan
<1>8. HitungTidakNegatif'
  <2>1. \A q \in Produk : <<g, q>> \in BarisAwal => stok[g][q] >= 0
    BY DEF IInv, StokAmanBarisAwal
  <2> QED
    BY <1>4, <2>1 DEF IInv, HitungTidakNegatif
<1>9. StokAmanBarisAwal' /\ ada \subseteq ada'
  BY <1>1 DEF IInv, StokAmanBarisAwal
<1>10. {} \in SUBSET Proses /\ \A p \in {} : RujukAda(p)' /\ KirimTerkini(p)'
  OBVIOUS
<1> QED
  BY <1>3, <1>6, <1>7, <1>8, <1>9, <1>10, Pelihara

\* The invariant holds at the start.
LEMMA AwalInvarian == Init => IInv
<1> SUFFICES ASSUME Init
             PROVE  IInv
  OBVIOUS
<1>1. MutasiKosong \in BarisMutasi /\ OpnameKosong \in BarisOpname
  BY StokAssumption DEF MutasiKosong, OpnameKosong, BarisMutasi, BarisOpname, Isi, IsiKosong
<1>2. IsiKosong \in [Produk -> -MaxSesuai..MaxSesuai]
  BY PersediaanAssumption DEF IsiKosong
<1>3. stok \in [Gudang -> [Produk -> Int]]
  BY StokAssumption DEF Init
<1>4. TypeOK
  BY <1>1, <1>2, <1>3, PersediaanAssumption DEF Init, TypeOK, Permintaan
<1>5. StokAmanBarisAwal
  <2> SUFFICES ASSUME NEW b \in BarisAwal
               PROVE  stok[b[1]][b[2]] >= 0
    BY DEF StokAmanBarisAwal
  <2>1. b[1] \in Gudang /\ b[2] \in Produk
    BY PersediaanAssumption DEF Baris
  <2> QED
    BY <2>1, StokAssumption DEF Init
<1>6. HitungTidakNegatif
  BY DEF Init, OpnameKosong, IsiKosong, HitungTidakNegatif
<1>7. \A p \in Proses : RujukAda(p) /\ KirimTerkini(p)
  BY DEF Init, Diam, RujukAda, KirimTerkini
<1> QED
  BY <1>4, <1>5, <1>6, <1>7 DEF IInv, Init

\* Every step of the specification keeps the invariant.
LEMMA LangkahInvarian == IInv /\ [Next]_vars => IInv'
<1> SUFFICES ASSUME IInv, [Next]_vars
             PROVE  IInv'
  OBVIOUS
<1>1. CASE BuatMutasi
  BY <1>1, LangkahBuatMutasi
<1>2. CASE Sesuaikan
  BY <1>2, LangkahSesuaikan
<1>3. CASE BuatOpname
  BY <1>3, LangkahBuatOpname
<1>4. ASSUME NEW p \in Proses, LangkahKirim(p)
      PROVE  IInv'
  BY <1>4, LangkahMulaiKirim, LangkahKunciBaris, LangkahLihatHampa, LangkahSisipBaris,
     LangkahCekStok, LangkahSelesaiKirim DEF LangkahKirim
<1>5. ASSUME NEW p \in Proses, LangkahAlih(p)
      PROVE  IInv'
  BY <1>5, LangkahMulaiAlih, LangkahSelesaiTerima, LangkahSelesaiBatal DEF LangkahAlih
<1>6. ASSUME NEW p \in Proses, LangkahOpname(p)
      PROVE  IInv'
  BY <1>6, LangkahMulaiOpname, LangkahSelesaiHitung, LangkahSelesaiAjukan,
     LangkahSelesaiSetujui DEF LangkahOpname
<1>7. ASSUME NEW p \in Proses, Gagal(p)
      PROVE  IInv'
  BY <1>7, LangkahGagal
<1>8. CASE UNCHANGED vars
  BY <1>8 DEF vars, IInv, TypeOK, StokAmanBarisAwal, HitungTidakNegatif, RujukAda, KirimTerkini
<1> QED
  BY <1>1, <1>2, <1>3, <1>4, <1>5, <1>6, <1>7, <1>8 DEF Next

\* The inductive invariant holds in every reachable state.
THEOREM Invarian == Spec => []IInv
BY AwalInvarian, LangkahInvarian, PTL DEF Spec

\* Type correctness, for any warehouses, products, documents and requests.
THEOREM Tipe == Spec => []TypeOK
<1>1. IInv => TypeOK
  BY DEF IInv
<1> QED
  BY <1>1, Invarian, PTL

\* A stock row that was there from the start never goes below zero.
THEOREM StokAwalAman == Spec => []StokAmanBarisAwal
<1>1. IInv => StokAmanBarisAwal
  BY DEF IInv
<1> QED
  BY <1>1, Invarian, PTL

\* A transfer that was received or cancelled never changes again.
THEOREM MutasiSelesaiTuntas == Spec => MutasiTuntas
<1> DEFINE Tuntas == \A m \in Mutasi :
      mutasi[m].status \in {"diterima", "dibatalkan"} => mutasi'[m] = mutasi[m]
<1>1. IInv /\ [Next]_vars => [Tuntas]_vars
  <2> SUFFICES ASSUME IInv, Next
               PROVE  Tuntas
    BY DEF vars
  <2>1. CASE UNCHANGED mutasi
    BY <2>1
  <2>2. CASE BuatMutasi
    BY <2>2 DEF BuatMutasi, IInv, TypeOK
  <2>3. ASSUME NEW p \in Proses, NEW ke \in StatusMutasi, Alih(p, ke),
               proses[p].op \in {"kirim", "terima", "batal"}
        PROVE  Tuntas
    <3>1. mutasi[proses[p].m].status \in {"draft", "dikirim"}
      BY <2>3, BentukAlih DEF Alih, PermintaanAlih
    <3>2. \A m \in Mutasi : m # proses[p].m => mutasi'[m] = mutasi[m]
      BY <2>3 DEF Alih, IInv, TypeOK
    <3> QED
      BY <3>1, <3>2
  <2>4. ASSUME NEW p \in Proses, LangkahKirim(p) \/ LangkahAlih(p)
        PROVE  Tuntas
    <3>1. CASE SelesaiKirim(p)
      BY <2>3, <3>1 DEF SelesaiKirim, StatusMutasi
    <3>2. CASE SelesaiTerima(p)
      BY <2>3, <3>2 DEF SelesaiTerima, StatusMutasi
    <3>3. CASE SelesaiBatalMutasi(p)
      BY <2>3, <3>3 DEF SelesaiBatalMutasi, StatusMutasi
    <3> QED
      BY <2>1, <2>4, <3>1, <3>2, <3>3 DEF LangkahKirim, LangkahAlih, MulaiKirim, KunciBaris,
         LihatHampa, SisipBaris, CekStok, MulaiTerima, MulaiBatalMutasi, Mulai
  <2>5. ASSUME NEW p \in Proses, LangkahOpname(p) \/ Gagal(p)
        PROVE  UNCHANGED mutasi
    BY <2>5 DEF LangkahOpname, MulaiHitung, MulaiAjukan, MulaiSetujui, SelesaiHitung,
       SelesaiAjukan, SelesaiSetujui, Gagal, Mulai
  <2> QED
    BY <2>1, <2>2, <2>4, <2>5 DEF Next, Sesuaikan, BuatOpname
<1> QED
  BY <1>1, Invarian, PTL DEF Spec, MutasiTuntas

-----------------------------------------------------------------------------
(* The books: a step changes what one transfer has moved, or nothing *)

\* A transfer's share of what left and what arrived is an integer.
LEMMA AndilInt ==
  ASSUME mutasi \in [Mutasi -> BarisMutasi], NEW m \in Mutasi, NEW g \in Gudang, NEW q \in Produk
  PROVE  Berangkat(m, g, q) \in Int /\ Tiba(m, g, q) \in Int
<1>1. mutasi[m].isi[q] \in Int
  BY IsiNat DEF BarisMutasi
<1> QED
  BY <1>1 DEF Berangkat, Tiba

\* What left and what arrived, when one transfer changes.
LEMMA BukuSatu ==
  ASSUME TypeOK, TypeOK', NEW x \in Mutasi, \A m \in Mutasi \ {x} : mutasi'[m] = mutasi[m],
         penyesuaian' = penyesuaian, NEW g \in Gudang, NEW q \in Produk
  PROVE  Buku(g, q)' - Buku(g, q) =
            (Tiba(x, g, q)' - Tiba(x, g, q)) - (Berangkat(x, g, q)' - Berangkat(x, g, q))
<1> DEFINE K == [m \in Mutasi |-> Berangkat(m, g, q)]
           L == [m \in Mutasi |-> Berangkat(m, g, q)']
           M == [m \in Mutasi |-> Tiba(m, g, q)]
           N == [m \in Mutasi |-> Tiba(m, g, q)']
<1>1. \A m \in Mutasi : /\ K[m] \in Int /\ M[m] \in Int
                        /\ L[m] \in Int /\ N[m] \in Int
  <2>1. mutasi \in [Mutasi -> BarisMutasi] /\ mutasi' \in [Mutasi -> BarisMutasi]
    BY DEF TypeOK
  <2>2. \A m \in Mutasi : /\ Berangkat(m, g, q) \in Int /\ Tiba(m, g, q) \in Int
    BY <2>1, AndilInt
  <2>3. \A m \in Mutasi : /\ Berangkat(m, g, q)' \in Int /\ Tiba(m, g, q)' \in Int
    <3>1. TAKE m \in Mutasi
    <3>2. mutasi'[m].isi[q] \in Int
      BY <2>1, IsiNat DEF BarisMutasi
    <3> QED
      BY <3>2 DEF Berangkat, Tiba
  <2> QED
    BY <2>2, <2>3
<1>2. \A m \in Mutasi \ {x} : L[m] = K[m] /\ N[m] = M[m]
  BY DEF Berangkat, Tiba
<1>3. IsFiniteSet(Mutasi)
  BY PersediaanAssumption
<1>4. /\ K[x] = Berangkat(x, g, q) /\ L[x] = Berangkat(x, g, q)'
      /\ M[x] = Tiba(x, g, q) /\ N[x] = Tiba(x, g, q)'
  OBVIOUS
<1>5. /\ Keluar(g, q) = SumFunctionOnSet(K, Mutasi) /\ Keluar(g, q)' = SumFunctionOnSet(L, Mutasi)
      /\ Masuk(g, q) = SumFunctionOnSet(M, Mutasi) /\ Masuk(g, q)' = SumFunctionOnSet(N, Mutasi)
  BY DEF Keluar, Masuk
<1> HIDE DEF K, L, M, N
<1>6. Keluar(g, q)' = Keluar(g, q) + (L[x] - K[x])
  <2>1. Geser(K, L, Mutasi, x)
    BY <1>1, <1>2 DEF Geser
  <2> QED
    BY <1>3, <1>5, <2>1, JumlahGeser
<1>7. Masuk(g, q)' = Masuk(g, q) + (N[x] - M[x])
  <2>1. Geser(M, N, Mutasi, x)
    BY <1>1, <1>2 DEF Geser
  <2> QED
    BY <1>3, <1>5, <2>1, JumlahGeser
<1>8. Keluar(g, q) \in Int /\ Masuk(g, q) \in Int
  <2>1. Mutasi \in SUBSET Mutasi
    OBVIOUS
  <2> QED
    BY <1>1, <1>3, <1>5, <2>1, JumlahTipe
<1>9. StokAwal[g][q] \in Int /\ penyesuaian[g][q] \in Int
  BY StokAssumption, PersediaanAssumption DEF TypeOK
<1> QED
  BY <1>1, <1>4, <1>6, <1>7, <1>8, <1>9 DEF Buku

\* What left and what arrived, when no transfer changes its share.
LEMMA BukuTetap ==
  ASSUME TypeOK, TypeOK', mutasi' = mutasi, NEW g \in Gudang, NEW q \in Produk
  PROVE  Buku(g, q)' - Buku(g, q) = penyesuaian'[g][q] - penyesuaian[g][q]
<1>1. /\ Keluar(g, q)' = Keluar(g, q) /\ Masuk(g, q)' = Masuk(g, q)
  BY DEF Keluar, Masuk, Berangkat, Tiba
<1>2. Keluar(g, q) \in Int /\ Masuk(g, q) \in Int
  <2> DEFINE K == [m \in Mutasi |-> Berangkat(m, g, q)]
             M == [m \in Mutasi |-> Tiba(m, g, q)]
  <2>1. \A m \in Mutasi : K[m] \in Int /\ M[m] \in Int
    BY AndilInt DEF TypeOK
  <2>2. Keluar(g, q) = SumFunctionOnSet(K, Mutasi) /\ Masuk(g, q) = SumFunctionOnSet(M, Mutasi)
    BY DEF Keluar, Masuk
  <2>3. IsFiniteSet(Mutasi) /\ Mutasi \in SUBSET Mutasi
    BY PersediaanAssumption
  <2> HIDE DEF K, M
  <2> QED
    BY <2>1, <2>2, <2>3, JumlahTipe
<1>3. StokAwal[g][q] \in Int /\ penyesuaian[g][q] \in Int /\ penyesuaian'[g][q] \in Int
  BY StokAssumption, PersediaanAssumption DEF TypeOK
<1> QED
  BY <1>1, <1>2, <1>3 DEF Buku

\* The stock and the books of a warehouse move by the same amount.
Seiring(g) == \A q \in Produk : stok'[g][q] - stok[g][q] = Buku(g, q)' - Buku(g, q)

\* A step that touches no stock, transfer or adjustment.
LEMMA SeiringDiam ==
  ASSUME TypeOK, TypeOK', UNCHANGED <<stok, mutasi, penyesuaian>>, NEW g \in Gudang
  PROVE  Seiring(g)
<1> SUFFICES ASSUME NEW q \in Produk
             PROVE  stok'[g][q] - stok[g][q] = Buku(g, q)' - Buku(g, q)
  BY DEF Seiring
<1>1. Buku(g, q)' - Buku(g, q) = penyesuaian'[g][q] - penyesuaian[g][q]
  BY BukuTetap
<1>2. stok[g][q] \in Int /\ penyesuaian[g][q] \in Int
  BY PersediaanAssumption DEF TypeOK
<1> QED
  BY <1>1, <1>2

\* An adjustment is booked as it is made.
LEMMA SeiringSesuaikan ==
  ASSUME TypeOK, TypeOK', Sesuaikan, NEW g \in Gudang
  PROVE  Seiring(g)
<1> SUFFICES ASSUME NEW q \in Produk
             PROVE  stok'[g][q] - stok[g][q] = Buku(g, q)' - Buku(g, q)
  BY DEF Seiring
<1>1. PICK h \in Gudang, r \in Produk, n \in Selisih :
        /\ "sesuai" \in Operasi
        /\ kunci[<<h, r>>] = Bebas
        /\ n < 0 => <<h, r>> \in ada /\ stok[h][r] + n >= 0
        /\ penyesuaian[h][r] + n \in -MaxSesuai..MaxSesuai
        /\ stok' = [stok EXCEPT ![h][r] = stok[h][r] + n]
        /\ penyesuaian' = [penyesuaian EXCEPT ![h][r] = penyesuaian[h][r] + n]
        /\ TambahBaris(h, {r})
        /\ UNCHANGED <<kunci, mutasi, opname, proses>>
  BY DEF Sesuaikan
<1>2. Buku(g, q)' - Buku(g, q) = penyesuaian'[g][q] - penyesuaian[g][q]
  BY BukuTetap DEF Sesuaikan
<1>3. stok[g][q] \in Int /\ penyesuaian[g][q] \in Int /\ n \in Int
  BY PersediaanAssumption DEF TypeOK
<1>4. stok'[g][q] = IF g = h /\ q = r THEN stok[g][q] + n ELSE stok[g][q]
  BY <1>1 DEF TypeOK
<1>5. penyesuaian'[g][q] = IF g = h /\ q = r THEN penyesuaian[g][q] + n ELSE penyesuaian[g][q]
  BY <1>1 DEF TypeOK
<1> QED
  BY <1>2, <1>3, <1>4, <1>5

\* A new draft has moved nothing.
LEMMA SeiringBuatMutasi ==
  ASSUME TypeOK, TypeOK', BuatMutasi, NEW g \in Gudang
  PROVE  Seiring(g)
<1> SUFFICES ASSUME NEW q \in Produk
             PROVE  stok'[g][q] - stok[g][q] = Buku(g, q)' - Buku(g, q)
  BY DEF Seiring
<1>1. PICK x \in Mutasi :
        /\ mutasi[x].status = "belum" /\ mutasi'[x].status = "draft"
        /\ \A m \in Mutasi \ {x} : mutasi'[m] = mutasi[m]
  BY DEF BuatMutasi, TypeOK
<1>2. /\ Tiba(x, g, q) = 0 /\ Tiba(x, g, q)' = 0
      /\ Berangkat(x, g, q) = 0 /\ Berangkat(x, g, q)' = 0
  BY <1>1 DEF Tiba, Berangkat
<1>3. Buku(g, q)' - Buku(g, q) = 0
  <2>1. Buku(g, q)' - Buku(g, q) =
          (Tiba(x, g, q)' - Tiba(x, g, q)) - (Berangkat(x, g, q)' - Berangkat(x, g, q))
    BY <1>1, BukuSatu DEF BuatMutasi
  <2> QED
    BY <1>2, <2>1
<1>4. stok[g][q] \in Int /\ stok'[g][q] = stok[g][q]
  BY DEF TypeOK, BuatMutasi
<1>5. stok'[g][q] - stok[g][q] = 0
  BY <1>4
<1> QED
  BY <1>3, <1>5

\* A transfer of basket isi changes status by a compare-and-set: the record.
LEMMA AlihSatu ==
  ASSUME TypeOK, NEW p \in Proses, NEW x \in Mutasi, x = proses[p].m,
         NEW ke \in StatusMutasi, Alih(p, ke)
  PROVE  /\ \A m \in Mutasi \ {x} : mutasi'[m] = mutasi[m]
         /\ mutasi'[x].status = ke
         /\ mutasi'[x].asal = mutasi[x].asal
         /\ mutasi'[x].tujuan = mutasi[x].tujuan
         /\ mutasi'[x].isi = mutasi[x].isi
<1>1. mutasi[x] \in BarisMutasi
  BY DEF TypeOK
<1>2. mutasi' = [mutasi EXCEPT ![x].status = ke]
  BY DEF Alih
<1> QED
  BY <1>1, <1>2 DEF TypeOK, BarisMutasi

\* Goods leave the origin as the transfer is sent.
LEMMA SeiringKirim ==
  ASSUME IInv, TypeOK', NEW p \in Proses, SelesaiKirim(p), NEW g \in Gudang
  PROVE  Seiring(g)
<1> SUFFICES ASSUME NEW q \in Produk
             PROVE  stok'[g][q] - stok[g][q] = Buku(g, q)' - Buku(g, q)
  BY DEF Seiring
<1>1. proses[p].op = "kirim" /\ proses[p].m \in Mutasi
  BY BentukKirim DEF SelesaiKirim, PermintaanKirim
<1>2. PICK x \in Mutasi : x = proses[p].m
  BY <1>1
<1>3. /\ mutasi[x].status = "draft" /\ Alih(p, "dikirim")
      /\ stok' = Kurangi(stok, mutasi[x].asal, mutasi[x].isi)
      /\ penyesuaian' = penyesuaian
  BY <1>1, <1>2 DEF SelesaiKirim, Alih
<1>4. /\ \A m \in Mutasi \ {x} : mutasi'[m] = mutasi[m]
      /\ mutasi'[x].status = "dikirim" /\ mutasi'[x].asal = mutasi[x].asal
      /\ mutasi'[x].isi = mutasi[x].isi
  BY <1>2, <1>3, AlihSatu DEF IInv, StatusMutasi
<1>5. Tiba(x, g, q) = 0 /\ Tiba(x, g, q)' = 0 /\ Berangkat(x, g, q) = 0
  BY <1>3, <1>4 DEF Tiba, Berangkat
<1>6. Berangkat(x, g, q)' = IF mutasi[x].asal = g THEN mutasi[x].isi[q] ELSE 0
  BY <1>4 DEF Berangkat
<1>7. mutasi[x].isi[q] \in Int /\ stok[g][q] \in Int /\ mutasi[x].asal \in Gudang
  BY IsiNat DEF IInv, TypeOK, BarisMutasi
<1>8. stok'[g][q] = IF mutasi[x].asal = g THEN stok[g][q] - mutasi[x].isi[q] ELSE stok[g][q]
  BY <1>3, <1>7 DEF Kurangi, IInv, TypeOK
<1>9. Buku(g, q)' - Buku(g, q) = -(Berangkat(x, g, q)')
  BY <1>3, <1>4, <1>5, <1>6, <1>7, BukuSatu DEF IInv
<1> QED
  BY <1>6, <1>7, <1>8, <1>9

\* Only a transfer on its way is being received.
LEMMA HanyaDariJalan == Spec => []TerimaDariJalan
<1>1. Init => TerimaDariJalan
  BY DEF Init, TerimaDariJalan, Diam
<1>2. TypeOK /\ TerimaDariJalan /\ [Next]_vars => TerimaDariJalan'
  <2> SUFFICES ASSUME TypeOK, TerimaDariJalan, [Next]_vars, NEW p \in Proses,
                      proses'[p].op = "terima"
               PROVE  proses'[p].dari = "dikirim"
    BY DEF TerimaDariJalan
  <2>1. CASE proses'[p] = proses[p]
    BY <2>1 DEF TerimaDariJalan
  <2>2. ASSUME NEW r \in Proses, NEW baru, proses' = [proses EXCEPT ![r] = baru],
               baru.op # "terima"
        PROVE  proses'[p].dari = "dikirim"
    BY <2>1, <2>2 DEF TypeOK
  <2>3. ASSUME NEW r \in Proses, Akhiri(r)
        PROVE  proses'[p].dari = "dikirim"
    <3>1. Diam.op # "terima"
      BY DEF Diam
    <3>2. proses' = [proses EXCEPT ![r] = Diam]
      BY <2>3 DEF Akhiri
    <3> QED
      BY <2>2, <3>1, <3>2
  <2>4. ASSUME NEW r \in Proses, MulaiTerima(r)
        PROVE  proses'[p].dari = "dikirim"
    <3>1. PICK m \in Mutasi :
            /\ mutasi[m].status = "dikirim"
            /\ proses' = [proses EXCEPT ![r] = [op |-> "terima", m |-> m, dari |-> "dikirim"]]
      BY <2>4 DEF MulaiTerima, BolehMutasi, Mulai
    <3> QED
      BY <2>1, <3>1 DEF TypeOK
  <2>5. ASSUME NEW r \in Proses,
               MulaiKirim(r) \/ MulaiBatalMutasi(r) \/ MulaiHitung(r) \/ MulaiAjukan(r)
                 \/ MulaiSetujui(r)
        PROVE  proses'[p].dari = "dikirim"
    <3>1. PICK baru : baru.op # "terima" /\ proses' = [proses EXCEPT ![r] = baru]
      BY <2>5 DEF MulaiKirim, MulaiBatalMutasi, MulaiHitung, MulaiAjukan, MulaiSetujui, Mulai
    <3> QED
      BY <2>2, <3>1
  <2>6. ASSUME NEW r \in Proses,
               KunciBaris(r) \/ LihatHampa(r) \/ SisipBaris(r) \/ CekStok(r)
        PROVE  proses'[p].dari = "dikirim"
    <3>1. proses[r].op = "kirim"
      BY <2>6 DEF KunciBaris, LihatHampa, SisipBaris, CekStok
    <3>2. proses[r] \in PermintaanKirim
      BY <3>1, BentukPermintaan DEF TypeOK
    <3>3. PICK baru \in PermintaanKirim : proses' = [proses EXCEPT ![r] = baru]
      <4>1. ASSUME NEW q \in proses[r].sisa
            PROVE  /\ [proses[r] EXCEPT !.sisa = proses[r].sisa \ {q}] \in PermintaanKirim
                   /\ [proses[r] EXCEPT !.sisa = proses[r].sisa \ {q}, !.hampa = {q}]
                        \in PermintaanKirim
        BY <3>2 DEF PermintaanKirim
      <4>2. /\ [proses[r] EXCEPT !.hampa = {}] \in PermintaanKirim
            /\ [proses[r] EXCEPT !.cukup = TRUE] \in PermintaanKirim
        BY <3>2 DEF PermintaanKirim
      <4>3. CASE KunciBaris(r)
        BY <4>1, <4>3 DEF KunciBaris
      <4>4. CASE LihatHampa(r)
        BY <4>1, <4>4 DEF LihatHampa, TypeOK
      <4>5. CASE SisipBaris(r)
        BY <4>2, <4>5 DEF SisipBaris
      <4>6. CASE CekStok(r)
        BY <4>2, <4>6 DEF CekStok
      <4> QED
        BY <2>6, <4>3, <4>4, <4>5, <4>6
    <3>4. baru.op # "terima"
      BY <3>3 DEF PermintaanKirim
    <3> QED
      BY <2>2, <3>3, <3>4
  <2>7. ASSUME NEW r \in Proses, LangkahKirim(r) \/ LangkahAlih(r) \/ LangkahOpname(r) \/ Gagal(r)
        PROVE  proses'[p].dari = "dikirim"
    BY <2>3, <2>4, <2>5, <2>6, <2>7 DEF LangkahKirim, LangkahAlih, LangkahOpname, Gagal,
       SelesaiKirim, SelesaiTerima, SelesaiBatalMutasi, SelesaiHitung, SelesaiAjukan,
       SelesaiSetujui
  <2>8. CASE BuatMutasi \/ Sesuaikan \/ BuatOpname \/ UNCHANGED vars
    BY <2>1, <2>8 DEF BuatMutasi, Sesuaikan, BuatOpname, vars
  <2> QED
    BY <2>7, <2>8 DEF Next
<1> QED
  BY <1>1, <1>2, Tipe, PTL DEF Spec

\* Goods reach the destination as the transfer is received.
LEMMA SeiringTerima ==
  ASSUME IInv, TerimaDariJalan, TypeOK', NEW p \in Proses, SelesaiTerima(p), NEW g \in Gudang
  PROVE  Seiring(g)
<1> SUFFICES ASSUME NEW q \in Produk
             PROVE  stok'[g][q] - stok[g][q] = Buku(g, q)' - Buku(g, q)
  BY DEF Seiring
<1>1. proses[p].op = "terima" /\ proses[p].m \in Mutasi /\ proses[p].dari = "dikirim"
  BY BentukAlih DEF SelesaiTerima, TerimaDariJalan
<1>2. PICK x \in Mutasi : x = proses[p].m
  BY <1>1
<1>3. /\ mutasi[x].status = "dikirim" /\ Alih(p, "diterima")
      /\ stok' = Tambah(stok, mutasi[x].tujuan, mutasi[x].isi)
      /\ penyesuaian' = penyesuaian
  BY <1>1, <1>2 DEF SelesaiTerima, Alih
<1>4. /\ \A m \in Mutasi \ {x} : mutasi'[m] = mutasi[m]
      /\ mutasi'[x].status = "diterima" /\ mutasi'[x].asal = mutasi[x].asal
      /\ mutasi'[x].tujuan = mutasi[x].tujuan /\ mutasi'[x].isi = mutasi[x].isi
  BY <1>2, <1>3, AlihSatu DEF IInv, StatusMutasi
<1>5. Tiba(x, g, q) = 0 /\ Berangkat(x, g, q)' = Berangkat(x, g, q)
  BY <1>3, <1>4 DEF Tiba, Berangkat
<1>6. Tiba(x, g, q)' = IF mutasi[x].tujuan = g THEN mutasi[x].isi[q] ELSE 0
  BY <1>4 DEF Tiba
<1>7. mutasi[x].isi[q] \in Int /\ stok[g][q] \in Int /\ mutasi[x].tujuan \in Gudang
  BY IsiNat DEF IInv, TypeOK, BarisMutasi
<1>8. stok'[g][q] = IF mutasi[x].tujuan = g THEN stok[g][q] + mutasi[x].isi[q] ELSE stok[g][q]
  BY <1>3, <1>7 DEF Tambah, IInv, TypeOK
<1>9. Berangkat(x, g, q) \in Int
  BY AndilInt DEF IInv, TypeOK
<1>10. Buku(g, q)' - Buku(g, q) = Tiba(x, g, q)'
  <2>1. Buku(g, q)' - Buku(g, q) =
          (Tiba(x, g, q)' - Tiba(x, g, q)) - (Berangkat(x, g, q)' - Berangkat(x, g, q))
    BY <1>3, <1>4, BukuSatu DEF IInv
  <2> QED
    BY <1>5, <1>6, <1>7, <1>9, <2>1
<1> QED
  BY <1>6, <1>7, <1>8, <1>10

\* Goods come back to the origin when a transfer on its way is cancelled, and
\* nothing moves when a draft is.
LEMMA SeiringBatal ==
  ASSUME IInv, TypeOK', NEW p \in Proses, SelesaiBatalMutasi(p), NEW g \in Gudang
  PROVE  Seiring(g)
<1> SUFFICES ASSUME NEW q \in Produk
             PROVE  stok'[g][q] - stok[g][q] = Buku(g, q)' - Buku(g, q)
  BY DEF Seiring
<1>1. proses[p].op = "batal" /\ proses[p].m \in Mutasi /\ proses[p].dari \in {"draft", "dikirim"}
  BY BentukAlih DEF SelesaiBatalMutasi, PermintaanAlih
<1>2. PICK x \in Mutasi : x = proses[p].m
  BY <1>1
<1>3. /\ mutasi[x].status = proses[p].dari /\ Alih(p, "dibatalkan")
      /\ penyesuaian' = penyesuaian
  BY <1>1, <1>2 DEF SelesaiBatalMutasi, Alih
<1>4. /\ \A m \in Mutasi \ {x} : mutasi'[m] = mutasi[m]
      /\ mutasi'[x].status = "dibatalkan"
  BY <1>2, <1>3, AlihSatu DEF IInv, StatusMutasi
<1>5. Tiba(x, g, q) = 0 /\ Tiba(x, g, q)' = 0 /\ Berangkat(x, g, q)' = 0
  BY <1>1, <1>3, <1>4 DEF Tiba, Berangkat
<1>6. mutasi[x].isi[q] \in Int /\ stok[g][q] \in Int /\ mutasi[x].asal \in Gudang
  BY IsiNat DEF IInv, TypeOK, BarisMutasi
<1>7. Berangkat(x, g, q) \in Int
  BY AndilInt DEF IInv, TypeOK
<1>8. Buku(g, q)' - Buku(g, q) = Berangkat(x, g, q)
  <2>1. Buku(g, q)' - Buku(g, q) =
          (Tiba(x, g, q)' - Tiba(x, g, q)) - (Berangkat(x, g, q)' - Berangkat(x, g, q))
    BY <1>3, <1>4, BukuSatu DEF IInv
  <2> QED
    BY <1>5, <1>7, <2>1
<1>9. CASE proses[p].dari = "draft"
  <2>1. Berangkat(x, g, q) = 0 /\ stok'[g][q] = stok[g][q]
    BY <1>3, <1>9 DEF Berangkat, SelesaiBatalMutasi
  <2> QED
    BY <1>6, <1>8, <2>1
<1>10. CASE proses[p].dari = "dikirim"
  <2>1. Berangkat(x, g, q) = IF mutasi[x].asal = g THEN mutasi[x].isi[q] ELSE 0
    BY <1>3, <1>10 DEF Berangkat
  <2>2. stok' = Tambah(stok, mutasi[x].asal, mutasi[x].isi)
    BY <1>2, <1>10 DEF SelesaiBatalMutasi
  <2>3. stok'[g][q] = IF mutasi[x].asal = g THEN stok[g][q] + mutasi[x].isi[q] ELSE stok[g][q]
    BY <1>6, <2>2 DEF Tambah, IInv, TypeOK
  <2> QED
    BY <1>6, <1>8, <2>1, <2>3
<1> QED
  BY <1>1, <1>9, <1>10

\* An approved count makes the stock of its warehouse what was counted, and the
\* stock of the others stays.
LEMMA SeiringSetujui ==
  ASSUME IInv, TypeOK', NEW p \in Proses, SelesaiSetujui(p), NEW g \in Gudang
  PROVE  \/ Seiring(g)
         \/ \E o \in Opname :
              /\ opname[o].status # "approved" /\ opname'[o].status = "approved"
              /\ opname[o].gudang = g
              /\ stok'[g] = opname[o].fisik
<1>1. proses[p].op = "setujui" /\ proses[p].o \in Opname
  BY BentukOpname DEF SelesaiSetujui
<1>2. PICK x \in Opname : x = proses[p].o
  BY <1>1
<1>3. /\ opname' = [opname EXCEPT ![x].status = "approved"]
      /\ UNCHANGED <<mutasi, penyesuaian>>
      /\ IF opname[x].status = "approved"
         THEN UNCHANGED stok
         ELSE stok' = [stok EXCEPT ![opname[x].gudang] = opname[x].fisik]
  BY <1>2 DEF SelesaiSetujui
<1>4. CASE opname[x].status = "approved"
  BY <1>3, <1>4, SeiringDiam DEF IInv
<1>5. CASE opname[x].status # "approved" /\ opname[x].gudang = g
  <2>1. opname[x] \in BarisOpname
    BY DEF IInv, TypeOK
  <2>2. opname'[x].status = "approved"
    BY <1>3, <2>1 DEF IInv, TypeOK, BarisOpname
  <2>3. stok'[g] = opname[x].fisik
    BY <1>3, <1>5 DEF IInv, TypeOK
  <2> QED
    BY <1>5, <2>2, <2>3
<1>6. CASE opname[x].status # "approved" /\ opname[x].gudang # g
  <2>1. stok'[g] = stok[g]
    BY <1>3, <1>6 DEF IInv, TypeOK
  <2>2. ASSUME NEW q \in Produk
        PROVE  stok'[g][q] - stok[g][q] = Buku(g, q)' - Buku(g, q)
    <3>1. Buku(g, q)' - Buku(g, q) = penyesuaian'[g][q] - penyesuaian[g][q]
      BY <1>3, BukuTetap DEF IInv
    <3>2. stok[g][q] \in Int /\ penyesuaian[g][q] \in Int
      BY PersediaanAssumption DEF IInv, TypeOK
    <3> QED
      BY <1>3, <2>1, <3>1, <3>2
  <2> QED
    BY <2>2 DEF Seiring
<1> QED
  BY <1>4, <1>5, <1>6

\* Stock moves exactly as the documents do.
THEOREM StokIkut == Spec => StokIkutDokumen
<1> DEFINE Ikut == \A g \in Gudang :
      \/ \A q \in Produk : stok'[g][q] - stok[g][q] = Buku(g, q)' - Buku(g, q)
      \/ \E o \in Opname :
            /\ opname[o].status # "approved" /\ opname'[o].status = "approved"
            /\ opname[o].gudang = g
            /\ stok'[g] = opname[o].fisik
<1>1. IInv /\ IInv' /\ TerimaDariJalan /\ [Next]_vars => [Ikut]_vars
  <2> SUFFICES ASSUME IInv, TypeOK', TerimaDariJalan, Next, NEW g \in Gudang
               PROVE  \/ Seiring(g)
                      \/ \E o \in Opname :
                            /\ opname[o].status # "approved" /\ opname'[o].status = "approved"
                            /\ opname[o].gudang = g
                            /\ stok'[g] = opname[o].fisik
    BY DEF vars, Seiring, IInv
  <2>1. CASE UNCHANGED <<stok, mutasi, penyesuaian>>
    BY <2>1, SeiringDiam DEF IInv
  <2>2. ASSUME NEW p \in Proses,
               SelesaiKirim(p) \/ SelesaiTerima(p) \/ SelesaiBatalMutasi(p)
        PROVE  Seiring(g)
    BY <2>2, SeiringKirim, SeiringTerima, SeiringBatal
  <2>3. ASSUME NEW p \in Proses, LangkahKirim(p) \/ LangkahAlih(p) \/ Gagal(p)
        PROVE  Seiring(g)
    <3>1. CASE SelesaiKirim(p) \/ SelesaiTerima(p) \/ SelesaiBatalMutasi(p)
      BY <2>2, <3>1
    <3>2. CASE ~(SelesaiKirim(p) \/ SelesaiTerima(p) \/ SelesaiBatalMutasi(p))
      <4>1. UNCHANGED <<stok, mutasi, penyesuaian>>
        BY <2>3, <3>2 DEF LangkahKirim, LangkahAlih, MulaiKirim, KunciBaris, LihatHampa,
           SisipBaris, CekStok, MulaiTerima, MulaiBatalMutasi, Gagal, Mulai
      <4> QED
        BY <4>1, SeiringDiam DEF IInv
    <3> QED
      BY <3>1, <3>2
  <2>4. ASSUME NEW p \in Proses, LangkahOpname(p), ~SelesaiSetujui(p)
        PROVE  UNCHANGED <<stok, mutasi, penyesuaian>>
    BY <2>4 DEF LangkahOpname, MulaiHitung, MulaiAjukan, MulaiSetujui, SelesaiHitung,
       SelesaiAjukan, Mulai
  <2>5. CASE BuatMutasi
    BY <2>5, SeiringBuatMutasi DEF IInv
  <2>6. CASE Sesuaikan
    BY <2>6, SeiringSesuaikan DEF IInv
  <2>7. CASE BuatOpname
    BY <2>1, <2>7 DEF BuatOpname
  <2> QED
    BY <2>1, <2>3, <2>4, <2>5, <2>6, <2>7, SeiringSetujui DEF Next
<1> QED
  BY <1>1, Invarian, HanyaDariJalan, PTL DEF Spec, StokIkutDokumen

=============================================================================
