-------------------------- MODULE PembelianProofs --------------------------
(***************************************************************************)
(* Proofs about Pembelian: for any purchases, warehouses, prices, payments *)
(* and requests, a cancelled purchase is touched by nothing but a payment, *)
(* and as long as it is not paid for the stock of all warehouses together  *)
(* grows by exactly the purchases that stand.                              *)
(***************************************************************************)
EXTENDS Pembelian, HitungProofs, TLAPS

\* What a request may look like, one clause per operation.
LEMMA BentukPermintaan ==
  ASSUME NEW r \in Permintaan
  PROVE  /\ r.op \in {"diam", "ubah", "batal", "bayar"}
         /\ r.op = "diam" => r = Diam
         /\ r.op = "ubah" => r \in PermintaanUbah
         /\ r.op = "batal" => r \in PermintaanBatal
         /\ r.op = "bayar" => r \in PermintaanBayar
BY DEF Permintaan, Diam, PermintaanUbah, PermintaanBatal, PermintaanBayar

\* The total of a form is a number the database takes.
LEMMA TotalNat == \A isi \in Isi : TotalForm(isi) \subseteq Nat
BY DEF TotalForm

\* Adding or removing a basket keeps the stock well typed.
LEMMA StokBaru ==
  ASSUME NEW s \in [Gudang -> [Produk -> Int]], NEW g \in Gudang, NEW isi \in Isi
  PROVE  /\ Tambah(s, g, isi) \in [Gudang -> [Produk -> Int]]
         /\ Kurangi(s, g, isi) \in [Gudang -> [Produk -> Int]]
<1>1. \A q \in Produk : isi[q] \in Int
  BY StokAssumption DEF Isi
<1>2. \A q \in Produk : s[g][q] + isi[q] \in Int /\ s[g][q] - isi[q] \in Int
  BY <1>1
<1> QED
  BY <1>2 DEF Tambah, Kurangi

\* The status payments imply is never that of a cancelled purchase.
LEMMA StatusHitungForm ==
  ASSUME NEW total \in Nat, NEW bayar \in Nat
  PROVE  StatusHitung(total, bayar) \in StatusForm
BY DEF StatusHitung, StatusForm

\* What requests know survives a step that loses no purchase and no payment.
LEMMA Pelihara ==
  ASSUME IInv, TypeOK', NEW p \in Proses,
         \A b \in Beli : Ada(b) => Ada(b)',
         \A b \in Beli : dibayar[b] > 0 => dibayar'[b] > 0,
         \A s \in Proses \ {p} : proses'[s] = proses[s],
         RujukAda(p)'
  PROVE  IInv'
<1>1. ASSUME NEW s \in Proses \ {p}
      PROVE  RujukAda(s)'
  <2> DEFINE r == proses[s]
  <2>1. r \in Permintaan /\ RujukAda(s) /\ proses'[s] = r
    BY DEF IInv, TypeOK
  <2>2. r.op # "diam" => r.b \in Beli
    BY <2>1, BentukPermintaan DEF PermintaanUbah, PermintaanBatal, PermintaanBayar
  <2>3. r.op = "bayar" => r.op # "diam"
    OBVIOUS
  <2>4. RujukAda(s)' = /\ r.op # "diam" => Ada(r.b)'
                       /\ r.op = "bayar" => dibayar'[r.b] > 0
    BY <2>1 DEF RujukAda, Ada
  <2> QED
    BY <2>1, <2>2, <2>3, <2>4 DEF RujukAda
<1> QED
  BY <1>1 DEF IInv

-----------------------------------------------------------------------------
(* The steps *)

LEMMA AwalInvarian == Init => IInv
<1> SUFFICES ASSUME Init
             PROVE  IInv
  OBVIOUS
<1>1. (CHOOSE g \in Gudang : TRUE) \in Gudang /\ IsiKosong \in Isi
  BY StokAssumption DEF IsiKosong, Isi
<1>2. BeliKosong \in BarisBeli
  BY <1>1 DEF BeliKosong, BarisBeli
<1>3. stok \in [Gudang -> [Produk -> Int]]
  BY StokAssumption DEF Init
<1>4. TypeOK
  BY <1>2, <1>3 DEF Init, TypeOK, Permintaan
<1>5. \A p \in Proses : RujukAda(p)
  BY DEF Init, RujukAda, Diam
<1> QED
  BY <1>4, <1>5 DEF IInv

LEMMA LangkahBuat ==
  ASSUME IInv, BuatBeli
  PROVE  IInv'
<1>1. PICK b \in Beli, g \in Gudang, isi \in Keranjang, st \in StatusForm, t \in Nat :
        /\ ~Ada(b)
        /\ beli' = [beli EXCEPT ![b] =
              [status |-> st, gudang |-> g, isi |-> isi, total |-> t, batal |-> FALSE]]
        /\ stok' = Tambah(stok, g, isi)
        /\ UNCHANGED <<dibayar, proses>>
  BY TotalNat DEF BuatBeli, Keranjang
<1> DEFINE baru == [status |-> st, gudang |-> g, isi |-> isi, total |-> t, batal |-> FALSE]
<1>2. isi \in Isi /\ t \in Nat
  BY DEF Keranjang
<1>3. baru \in BarisBeli /\ baru.status # "belum"
  BY <1>2 DEF BarisBeli, StatusBeli, StatusForm
<1>4. stok' \in [Gudang -> [Produk -> Int]]
  BY <1>1, <1>2, StokBaru DEF IInv, TypeOK
<1>5. TypeOK'
  BY <1>1, <1>3, <1>4 DEF IInv, TypeOK
<1>6. \A c \in Beli : Ada(c) => Ada(c)'
  BY <1>1, <1>3 DEF IInv, TypeOK, Ada
<1>7. ASSUME NEW p \in Proses
      PROVE  RujukAda(p)'
  <2>1. proses[p] \in Permintaan /\ RujukAda(p)
    BY DEF IInv, TypeOK
  <2>2. proses[p].op # "diam" => proses[p].b \in Beli
    BY <2>1, BentukPermintaan DEF PermintaanUbah, PermintaanBatal, PermintaanBayar
  <2>3. /\ proses[p].op # "diam" => Ada(proses[p].b)'
        /\ proses[p].op = "bayar" => dibayar[proses[p].b] > 0
    BY <1>1, <1>6, <2>1, <2>2 DEF RujukAda, Ada
  <2> QED
    BY <1>1, <2>3 DEF RujukAda
<1> QED
  BY <1>5, <1>7 DEF IInv

\* A request that begins, or goes on, with a record that fits.
LEMMA LangkahCatat ==
  ASSUME IInv, NEW p \in Proses, NEW r \in Permintaan,
         proses' = [proses EXCEPT ![p] = r], UNCHANGED <<beli, stok>>,
         dibayar' \in [Beli -> Nat],
         \A b \in Beli : dibayar'[b] >= dibayar[b],
         r.op # "diam" => Ada(r.b),
         r.op = "bayar" => dibayar'[r.b] > 0
  PROVE  IInv'
<1>1. proses' \in [Proses -> Permintaan] /\ proses'[p] = r
  BY DEF IInv, TypeOK
<1>2. TypeOK'
  BY <1>1 DEF IInv, TypeOK
<1>3. \A b \in Beli : dibayar[b] > 0 => dibayar'[b] > 0
  BY DEF IInv, TypeOK
<1>4. \A b \in Beli : Ada(b) => Ada(b)'
  BY DEF Ada
<1>5. \A s \in Proses \ {p} : proses'[s] = proses[s]
  BY DEF IInv, TypeOK
<1>6. RujukAda(p)'
  BY <1>1 DEF RujukAda, Ada
<1> QED
  BY <1>2, <1>3, <1>4, <1>5, <1>6, Pelihara

\* A request that ends with a purchase and a stock that fit.
LEMMA LangkahTutup ==
  ASSUME IInv, NEW p \in Proses, Akhiri(p), UNCHANGED dibayar,
         beli' \in [Beli -> BarisBeli],
         stok' \in [Gudang -> [Produk -> Int]],
         \A b \in Beli : Ada(b) => Ada(b)'
  PROVE  IInv'
<1>1. proses' \in [Proses -> Permintaan] /\ proses'[p] = Diam
  BY DEF IInv, TypeOK, Akhiri, Permintaan
<1>2. TypeOK'
  BY <1>1 DEF IInv, TypeOK
<1>3. \A s \in Proses \ {p} : proses'[s] = proses[s]
  BY DEF IInv, TypeOK, Akhiri
<1>4. RujukAda(p)'
  BY <1>1 DEF RujukAda, Diam
<1> QED
  BY <1>2, <1>3, <1>4, Pelihara

LEMMA LangkahMulaiKoreksi ==
  ASSUME IInv, NEW p \in Proses, MulaiUbah(p) \/ MulaiBatal(p)
  PROVE  IInv'
<1>0. dibayar \in [Beli -> Nat]
  BY DEF IInv, TypeOK
<1>1. CASE MulaiUbah(p)
  <2>1. PICK b \in Beli, g \in Gudang, isi \in Keranjang, st \in StatusForm, t \in Nat :
          /\ BolehDikoreksi(b)
          /\ proses' = [proses EXCEPT ![p] =
                [op |-> "ubah", b |-> b, gudang |-> g, isi |-> isi, total |-> t, status |-> st]]
          /\ UNCHANGED <<beli, dibayar, stok>>
    BY <1>1, TotalNat DEF MulaiUbah, Keranjang
  <2> DEFINE r == [op |-> "ubah", b |-> b, gudang |-> g, isi |-> isi, total |-> t, status |-> st]
  <2>2. r \in Permintaan
    BY DEF Permintaan, PermintaanUbah
  <2>3. r.op \notin {"diam", "bayar"} /\ r.b = b /\ Ada(b)
    BY <2>1 DEF BolehDikoreksi
  <2> HIDE DEF r
  <2>4. proses' = [proses EXCEPT ![p] = r]
    BY <2>1 DEF r
  <2>5. /\ dibayar' \in [Beli -> Nat]
        /\ \A c \in Beli : dibayar'[c] >= dibayar[c]
    BY <1>0, <2>1
  <2> QED
    BY <2>1, <2>2, <2>3, <2>4, <2>5, LangkahCatat
<1>2. CASE MulaiBatal(p)
  <2>1. PICK b \in Beli :
          /\ BolehDikoreksi(b)
          /\ proses' = [proses EXCEPT ![p] = [op |-> "batal", b |-> b]]
          /\ UNCHANGED <<beli, dibayar, stok>>
    BY <1>2 DEF MulaiBatal
  <2> DEFINE r == [op |-> "batal", b |-> b]
  <2>2. r \in Permintaan
    BY DEF Permintaan, PermintaanBatal
  <2>3. r.op \notin {"diam", "bayar"} /\ r.b = b /\ Ada(b)
    BY <2>1 DEF BolehDikoreksi
  <2> HIDE DEF r
  <2>4. proses' = [proses EXCEPT ![p] = r]
    BY <2>1 DEF r
  <2>5. /\ dibayar' \in [Beli -> Nat]
        /\ \A c \in Beli : dibayar'[c] >= dibayar[c]
    BY <1>0, <2>1
  <2> QED
    BY <2>1, <2>2, <2>3, <2>4, <2>5, LangkahCatat
<1> QED
  BY <1>1, <1>2

LEMMA LangkahSelesaiKoreksi ==
  ASSUME IInv, NEW p \in Proses, SelesaiUbah(p) \/ SelesaiBatal(p)
  PROVE  IInv'
<1> DEFINE r == proses[p]
           lama == beli[r.b]
<1>1. r \in Permintaan /\ RujukAda(p)
  BY DEF IInv, TypeOK
<1>2. r.op \in {"ubah", "batal"} => r.b \in Beli /\ Ada(r.b)
  BY <1>1, BentukPermintaan DEF PermintaanUbah, PermintaanBatal, RujukAda
<1>3. r.b \in Beli => lama \in BarisBeli /\ lama.gudang \in Gudang /\ lama.isi \in Isi
  BY DEF IInv, TypeOK, BarisBeli
<1>4. CASE SelesaiUbah(p)
  <2> DEFINE baru == [lama EXCEPT !.gudang = r.gudang, !.isi = r.isi, !.total = r.total,
                                  !.status = r.status]
             tanpaLama == Kurangi(stok, lama.gudang, lama.isi)
  <2>1. /\ r.op = "ubah" /\ beli' = [beli EXCEPT ![r.b] = baru]
        /\ stok' = Tambah(tanpaLama, lama.gudang, r.isi)
        /\ Akhiri(p) /\ UNCHANGED dibayar
    BY <1>4 DEF SelesaiUbah
  <2>2. r \in PermintaanUbah /\ r.isi \in Isi
    BY <1>1, <2>1, BentukPermintaan DEF PermintaanUbah, Keranjang
  <2>3. baru \in BarisBeli /\ baru.status # "belum"
    BY <1>2, <1>3, <2>1, <2>2 DEF BarisBeli, PermintaanUbah, StatusBeli, StatusForm
  <2>4. beli' \in [Beli -> BarisBeli] /\ \A b \in Beli : Ada(b) => Ada(b)'
    BY <1>2, <2>1, <2>3 DEF IInv, TypeOK, Ada
  <2>5. tanpaLama \in [Gudang -> [Produk -> Int]]
    BY <1>2, <1>3, <2>1, StokBaru DEF IInv, TypeOK
  <2>6. stok' \in [Gudang -> [Produk -> Int]]
    BY <1>2, <1>3, <2>1, <2>2, <2>5, StokBaru
  <2> QED
    BY <2>1, <2>4, <2>6, LangkahTutup
<1>5. CASE SelesaiBatal(p)
  <2> DEFINE baru == [lama EXCEPT !.status = "dibatalkan", !.batal = TRUE]
  <2>1. /\ r.op = "batal"
        /\ stok' = Kurangi(stok, lama.gudang, lama.isi)
        /\ beli' = [beli EXCEPT ![r.b].status = "dibatalkan", ![r.b].batal = TRUE]
        /\ Akhiri(p) /\ UNCHANGED dibayar
    BY <1>5 DEF SelesaiBatal
  <2>2. beli' = [beli EXCEPT ![r.b] = baru]
    BY <1>2, <2>1 DEF IInv, TypeOK
  <2>3. baru \in BarisBeli /\ baru.status # "belum"
    BY <1>2, <1>3, <2>1 DEF BarisBeli, StatusBeli
  <2>4. beli' \in [Beli -> BarisBeli] /\ \A b \in Beli : Ada(b) => Ada(b)'
    BY <1>2, <2>1, <2>2, <2>3 DEF IInv, TypeOK, Ada
  <2>5. stok' \in [Gudang -> [Produk -> Int]]
    BY <1>2, <1>3, <2>1, StokBaru DEF IInv, TypeOK
  <2> QED
    BY <2>1, <2>4, <2>5, LangkahTutup
<1> QED
  BY <1>4, <1>5

LEMMA LangkahCatatBayar ==
  ASSUME IInv, NEW p \in Proses, CatatBayar(p)
  PROVE  IInv'
<1>1. PICK b \in Beli, j \in Jumlah :
        /\ Ada(b)
        /\ dibayar' = [dibayar EXCEPT ![b] = dibayar[b] + j]
        /\ proses' = [proses EXCEPT ![p] =
              [op |-> "bayar", tahap |-> "header", b |-> b, total |-> 0, status |-> "kredit"]]
        /\ UNCHANGED <<beli, stok>>
  BY DEF CatatBayar
<1> DEFINE r == [op |-> "bayar", tahap |-> "header", b |-> b, total |-> 0, status |-> "kredit"]
<1>2. j \in Nat /\ j > 0 /\ dibayar \in [Beli -> Nat]
  BY PembelianAssumption DEF IInv, TypeOK
<1>3. /\ dibayar' \in [Beli -> Nat]
      /\ \A c \in Beli : dibayar'[c] >= dibayar[c]
      /\ dibayar'[b] > 0
  BY <1>1, <1>2
<1>4. r \in Permintaan
  BY DEF Permintaan, PermintaanBayar, StatusBeli, StatusForm
<1> QED
  BY <1>1, <1>3, <1>4, LangkahCatat

LEMMA LangkahHitungUlang ==
  ASSUME IInv, NEW p \in Proses, BacaHeader(p) \/ BacaJumlah(p)
  PROVE  IInv'
<1> DEFINE r == proses[p]
<1>0. dibayar \in [Beli -> Nat] /\ UNCHANGED <<beli, dibayar, stok>> /\ r.op = "bayar"
  BY DEF IInv, TypeOK, BacaHeader, BacaJumlah
<1>1. r \in PermintaanBayar /\ RujukAda(p)
  BY <1>0, BentukPermintaan DEF IInv, TypeOK
<1>2. r.b \in Beli /\ Ada(r.b) /\ dibayar[r.b] > 0 /\ r.total \in Nat
  BY <1>0, <1>1 DEF PermintaanBayar, RujukAda
<1>3. /\ beli[r.b] \in BarisBeli
      /\ dibayar' \in [Beli -> Nat]
      /\ \A b \in Beli : dibayar'[b] >= dibayar[b]
      /\ dibayar'[r.b] > 0
  BY <1>0, <1>2 DEF IInv, TypeOK
<1>4. CASE BacaHeader(p)
  <2> DEFINE baru == [r EXCEPT !.tahap = "jumlah", !.total = beli[r.b].total,
                               !.status = beli[r.b].status]
  <2>1. baru \in PermintaanBayar /\ baru.op = "bayar" /\ baru.b = r.b
    BY <1>0, <1>1, <1>2, <1>3 DEF PermintaanBayar, BarisBeli, Ada
  <2>2. proses' = [proses EXCEPT ![p] = baru]
    BY <1>4 DEF BacaHeader
  <2>3. baru \in Permintaan
    BY <2>1 DEF Permintaan
  <2> QED
    BY <1>0, <1>2, <1>3, <2>1, <2>2, <2>3, LangkahCatat
<1>5. CASE BacaJumlah(p)
  <2> DEFINE st == StatusHitung(r.total, dibayar[r.b])
             baru == [r EXCEPT !.tahap = "tulis", !.status = st]
  <2>1. CASE st = r.status
    <3>1. Akhiri(p)
      BY <1>5, <2>1 DEF BacaJumlah
    <3> QED
      <4>1. /\ beli' \in [Beli -> BarisBeli]
            /\ stok' \in [Gudang -> [Produk -> Int]]
            /\ \A b \in Beli : Ada(b) => Ada(b)'
        BY <1>0 DEF IInv, TypeOK, Ada
      <4> QED
        BY <1>0, <3>1, <4>1, LangkahTutup
  <2>2. CASE st # r.status
    <3>1. proses' = [proses EXCEPT ![p] = baru]
      BY <1>5, <2>2 DEF BacaJumlah
    <3>2. st \in StatusBeli
      BY <1>0, <1>2, StatusHitungForm DEF StatusBeli
    <3>3. baru \in PermintaanBayar /\ baru.op = "bayar" /\ baru.b = r.b
      BY <1>0, <1>1, <3>2 DEF PermintaanBayar
    <3>4. baru \in Permintaan
      BY <3>3 DEF Permintaan
    <3> QED
      BY <1>0, <1>2, <1>3, <3>1, <3>3, <3>4, LangkahCatat
  <2> QED
    BY <2>1, <2>2
<1> QED
  BY <1>4, <1>5

LEMMA LangkahTulisStatus ==
  ASSUME IInv, NEW p \in Proses, TulisStatus(p)
  PROVE  IInv'
<1> DEFINE r == proses[p]
           baru == [beli[r.b] EXCEPT !.status = r.status]
<1>1. r \in PermintaanBayar
  BY BentukPermintaan DEF IInv, TypeOK, TulisStatus
<1>2. r.b \in Beli /\ r.status \in StatusBeli
  BY <1>1 DEF PermintaanBayar
<1>3. baru \in BarisBeli /\ baru.status # "belum"
  <2>1. beli[r.b] \in BarisBeli
    BY <1>2 DEF IInv, TypeOK
  <2> QED
    BY <1>2, <2>1 DEF BarisBeli, StatusBeli, StatusForm
<1>4. beli' = [beli EXCEPT ![r.b] = baru]
  BY DEF TulisStatus
<1>5. beli' \in [Beli -> BarisBeli] /\ \A b \in Beli : Ada(b) => Ada(b)'
  BY <1>2, <1>3, <1>4 DEF IInv, TypeOK, Ada
<1>6. stok' \in [Gudang -> [Produk -> Int]]
  BY DEF TulisStatus, IInv, TypeOK
<1> QED
  BY <1>5, <1>6, LangkahTutup DEF TulisStatus

LEMMA LangkahGagal ==
  ASSUME IInv, NEW p \in Proses, Gagal(p)
  PROVE  IInv'
BY LangkahTutup DEF Gagal, IInv, TypeOK, Ada

LEMMA LangkahInvarian == IInv /\ [Next]_vars => IInv'
<1> SUFFICES ASSUME IInv, [Next]_vars
             PROVE  IInv'
  OBVIOUS
<1>1. CASE BuatBeli
  BY <1>1, LangkahBuat
<1>2. ASSUME NEW p \in Proses, LangkahKoreksi(p)
      PROVE  IInv'
  BY <1>2, LangkahMulaiKoreksi, LangkahSelesaiKoreksi DEF LangkahKoreksi
<1>3. ASSUME NEW p \in Proses, LangkahBayar(p)
      PROVE  IInv'
  BY <1>3, LangkahCatatBayar, LangkahHitungUlang, LangkahTulisStatus DEF LangkahBayar
<1>4. ASSUME NEW p \in Proses, Gagal(p)
      PROVE  IInv'
  BY <1>4, LangkahGagal
<1>5. CASE UNCHANGED vars
  BY <1>5 DEF vars, IInv, TypeOK, RujukAda, Ada
<1> QED
  BY <1>1, <1>2, <1>3, <1>4, <1>5 DEF Next

-----------------------------------------------------------------------------
(* The theorems *)

\* The inductive invariant holds in every reachable state.
THEOREM Invarian == Spec => []IInv
BY AwalInvarian, LangkahInvarian, PTL DEF Spec

\* Type correctness, for any purchases, warehouses, prices and requests.
THEOREM Tipe == Spec => []TypeOK
<1>1. IInv => TypeOK
  BY DEF IInv
<1> QED
  BY <1>1, Invarian, PTL

\* A cancelled purchase is never edited or cancelled again by a request that was
\* checked before: the status UpdateInTx and CancelInTx read under the lock
\* decides.  Only a payment brings back its status, and it touches nothing else.
THEOREM BatalTuntas == Spec => BatalHanyaDibayar
<1> DEFINE Tuntas == \A b \in Beli :
      beli[b].status = "dibatalkan" =>
         /\ [beli[b] EXCEPT !.status = beli'[b].status] = beli'[b]
         /\ beli'[b].status = "dibatalkan" \/ dibayar[b] > 0
<1>1. IInv /\ [Next]_vars => [Tuntas]_vars
  <2> SUFFICES ASSUME IInv, Next
               PROVE  Tuntas
    BY DEF vars
  <2>1. beli \in [Beli -> BarisBeli]
    BY DEF IInv, TypeOK
  <2>2. \A b \in Beli : beli'[b] = beli[b] =>
          [beli[b] EXCEPT !.status = beli'[b].status] = beli'[b]
    BY <2>1 DEF BarisBeli
  <2>3. CASE UNCHANGED beli
    BY <2>2, <2>3
  <2>4. CASE BuatBeli
    BY <2>1, <2>2, <2>4 DEF BuatBeli, Ada
  <2>5. ASSUME NEW p \in Proses, SelesaiUbah(p) \/ SelesaiBatal(p)
        PROVE  Tuntas
    <3>1. /\ beli[proses[p].b].status # "dibatalkan"
          /\ \A b \in Beli : b # proses[p].b => beli'[b] = beli[b]
      BY <2>1, <2>5 DEF SelesaiUbah, SelesaiBatal
    <3> QED
      BY <2>2, <3>1
  <2>6. ASSUME NEW p \in Proses, TulisStatus(p)
        PROVE  Tuntas
    <3> DEFINE r == proses[p]
    <3>1. r \in PermintaanBayar /\ r.op = "bayar" /\ RujukAda(p)
      BY <2>6, BentukPermintaan DEF TulisStatus, IInv, TypeOK
    <3>2. r.b \in Beli /\ dibayar[r.b] > 0
      BY <3>1 DEF RujukAda, PermintaanBayar
    <3>3. /\ \A b \in Beli : b # r.b => beli'[b] = beli[b]
          /\ beli'[r.b] = [beli[r.b] EXCEPT !.status = r.status]
      BY <2>1, <2>6, <3>2 DEF TulisStatus
    <3>4. [beli[r.b] EXCEPT !.status = beli'[r.b].status] = beli'[r.b]
      BY <2>1, <3>2, <3>3 DEF BarisBeli
    <3> QED
      BY <2>2, <3>2, <3>3, <3>4
  <2>7. ASSUME NEW p \in Proses, Gagal(p) \/ MulaiUbah(p) \/ MulaiBatal(p)
                                 \/ CatatBayar(p) \/ BacaHeader(p) \/ BacaJumlah(p)
        PROVE  UNCHANGED beli
    BY <2>7 DEF Gagal, MulaiUbah, MulaiBatal, CatatBayar, BacaHeader, BacaJumlah
  <2> QED
    BY <2>3, <2>4, <2>5, <2>6, <2>7 DEF Next, LangkahKoreksi, LangkahBayar
<1> QED
  BY <1>1, Invarian, PTL DEF Spec, BatalHanyaDibayar

-----------------------------------------------------------------------------
(* Goods are neither lost nor invented *)

\* A purchase that reached a warehouse changes the sums by the same amount.
LEMMA SatuBeli ==
  ASSUME TypeOK, TypeOK', NEW b \in Beli, NEW g \in Gudang, NEW q \in Produk,
         Bertambah(q) = Dibeli(q),
         \A c \in Beli \ {b} : Andil(c, q)' = Andil(c, q),
         \A h \in Gudang \ {g} : stok'[h][q] = stok[h][q],
         stok'[g][q] - stok[g][q] = Andil(b, q)' - Andil(b, q)
  PROVE  Bertambah(q)' = Dibeli(q)'
<1> DEFINE a == [c \in Beli |-> Andil(c, q)]
           a2 == [c \in Beli |-> Andil(c, q)']
           n == [h \in Gudang |-> stok[h][q] - StokAwal[h][q]]
           n2 == [h \in Gudang |-> stok'[h][q] - StokAwal[h][q]]
<1>1. IsFiniteSet(Beli) /\ IsFiniteSet(Gudang)
  BY PembelianAssumption
<1>2. \A c \in Beli : a[c] \in Int /\ a2[c] \in Int
  <2> SUFFICES ASSUME NEW c \in Beli
               PROVE  Andil(c, q) \in Int /\ Andil(c, q)' \in Int
    OBVIOUS
  <2>1. beli[c].isi \in Isi /\ beli'[c].isi \in Isi
    BY DEF TypeOK, BarisBeli
  <2>2. beli[c].isi[q] \in Int /\ beli'[c].isi[q] \in Int
    BY <2>1, StokAssumption DEF Isi
  <2> QED
    BY <2>2 DEF Andil
<1>3. \A h \in Gudang : n[h] \in Int /\ n2[h] \in Int
  BY StokAssumption DEF TypeOK
<1>4. /\ \A c \in Beli \ {b} : a[c] = a2[c]
      /\ \A h \in Gudang \ {g} : n[h] = n2[h]
  OBVIOUS
<1>5. n2[g] - n[g] = a2[b] - a[b]
  <2>1. stok[g][q] \in Int /\ stok'[g][q] \in Int /\ StokAwal[g][q] \in Int
    BY StokAssumption DEF TypeOK
  <2> QED
    BY <2>1
<1>6. Dibeli(q) = SumFunctionOnSet(a, Beli) /\ Bertambah(q) = SumFunctionOnSet(n, Gudang)
  BY DEF Dibeli, Bertambah
<1>7. Dibeli(q)' = SumFunctionOnSet(a2, Beli) /\ Bertambah(q)' = SumFunctionOnSet(n2, Gudang)
  BY DEF Dibeli, Bertambah
<1> HIDE DEF a, a2, n, n2
<1>8. Geser(a, a2, Beli, b) /\ Geser(n, n2, Gudang, g)
  BY <1>2, <1>3, <1>4 DEF Geser
<1>9. SumFunctionOnSet(a, Beli) = SumFunctionOnSet(n, Gudang)
  BY <1>6
<1>10. SumFunctionOnSet(a2, Beli) = SumFunctionOnSet(n2, Gudang)
  <2>1. a2[b] - a[b] = n2[g] - n[g]
    BY <1>5
  <2>2. IsFiniteSet(Beli) /\ IsFiniteSet(Gudang)
    BY <1>1
  <2> QED
    BY <1>8, <1>9, <2>1, <2>2, JumlahSeiring
<1> QED
  BY <1>7, <1>10

LEMMA BeliTetap ==
  ASSUME NEW q, Bertambah(q) = Dibeli(q), stok' = stok,
         \A c \in Beli : Andil(c, q)' = Andil(c, q)
  PROVE  Bertambah(q)' = Dibeli(q)'
<1>1. [c \in Beli |-> Andil(c, q)'] = [c \in Beli |-> Andil(c, q)]
  OBVIOUS
<1>2. Dibeli(q)' = Dibeli(q)
  BY <1>1 DEF Dibeli
<1>3. Bertambah(q)' = Bertambah(q)
  BY DEF Bertambah
<1> QED
  BY <1>2, <1>3

LEMMA BuatKekal ==
  ASSUME IInv, IInv', BuatBeli, NEW q \in Produk, Bertambah(q) = Dibeli(q)
  PROVE  Bertambah(q)' = Dibeli(q)'
<1>1. PICK b \in Beli, g \in Gudang, isi \in Keranjang, st \in StatusForm, t \in Nat :
        /\ ~Ada(b)
        /\ beli' = [beli EXCEPT ![b] =
              [status |-> st, gudang |-> g, isi |-> isi, total |-> t, batal |-> FALSE]]
        /\ stok' = Tambah(stok, g, isi)
  BY TotalNat DEF BuatBeli, Keranjang
<1>2. TypeOK /\ TypeOK'
  BY DEF IInv
<1>3. isi[q] \in Int /\ stok[g][q] \in Int
  BY <1>2, StokAssumption DEF Keranjang, Isi, TypeOK
<1>4. Andil(b, q) = 0
  BY <1>1 DEF Andil, Aktif
<1>5. Andil(b, q)' = isi[q]
  <2>1. /\ beli'[b].status = st /\ beli'[b].isi = isi /\ beli'[b].batal = FALSE
        /\ st # "belum"
    BY <1>1, <1>2 DEF TypeOK, StatusForm
  <2> QED
    BY <2>1 DEF Andil, Aktif, Ada
<1>6. \A c \in Beli \ {b} : Andil(c, q)' = Andil(c, q)
  BY <1>1, <1>2 DEF Andil, Aktif, Ada, TypeOK
<1>7. /\ stok'[g][q] = stok[g][q] + isi[q]
      /\ \A h \in Gudang \ {g} : stok'[h][q] = stok[h][q]
  BY <1>1, <1>2 DEF Tambah, TypeOK
<1> QED
  BY <1>2, <1>3, <1>4, <1>5, <1>6, <1>7, SatuBeli

\* An edit swaps the goods in the warehouse the purchase had, whatever warehouse
\* it then names; a cancellation takes them out of it.
LEMMA KoreksiKekal ==
  ASSUME IInv, IInv', NEW p \in Proses, SelesaiUbah(p) \/ SelesaiBatal(p),
         NEW q \in Produk, Bertambah(q) = Dibeli(q), ~beli[proses[p].b].batal
  PROVE  Bertambah(q)' = Dibeli(q)'
<1> DEFINE r == proses[p]
<1>1. r \in Permintaan /\ r.op \in {"ubah", "batal"} /\ RujukAda(p) /\ TypeOK /\ TypeOK'
  BY DEF IInv, TypeOK, SelesaiUbah, SelesaiBatal
<1>2. r.b \in Beli /\ Ada(r.b)
  BY <1>1, BentukPermintaan DEF PermintaanUbah, PermintaanBatal, RujukAda
<1>3. PICK b \in Beli : b = r.b
  BY <1>2
<1> DEFINE lama == beli[b]
<1>4. lama \in BarisBeli /\ lama.gudang \in Gudang /\ lama.isi \in Isi
  BY <1>1 DEF TypeOK, BarisBeli
<1>5. PICK g \in Gudang : g = lama.gudang
  BY <1>4
<1>6. lama.isi[q] \in Int /\ stok[g][q] \in Int
  BY <1>1, <1>4, StokAssumption DEF Isi, TypeOK
<1>7. Andil(b, q) = lama.isi[q]
  BY <1>2, <1>3 DEF Andil, Aktif
<1>8. \A c \in Beli \ {b} : Andil(c, q)' = Andil(c, q)
  <2>1. \A c \in Beli \ {b} : beli'[c] = beli[c]
    BY <1>1, <1>3 DEF TypeOK, SelesaiUbah, SelesaiBatal
  <2> QED
    BY <2>1 DEF Andil, Aktif, Ada
<1>9. CASE SelesaiUbah(p)
  <2>1. r \in PermintaanUbah
    BY <1>1, <1>9, BentukPermintaan DEF SelesaiUbah
  <2>2. r.isi \in Isi /\ r.status # "belum" /\ r.isi[q] \in Int
    BY <2>1, StokAssumption DEF PermintaanUbah, Keranjang, Isi, StatusForm
  <2>3. beli'[b] = [lama EXCEPT !.gudang = r.gudang, !.isi = r.isi, !.total = r.total,
                                !.status = r.status]
    BY <1>1, <1>3, <1>9 DEF SelesaiUbah, TypeOK
  <2>4. beli'[b].isi = r.isi /\ beli'[b].batal = lama.batal /\ beli'[b].status = r.status
    <3> HIDE DEF lama, r
    <3> QED
      BY <1>4, <2>3 DEF BarisBeli
  <2>5. Andil(b, q)' = r.isi[q]
    BY <1>3, <2>2, <2>4 DEF Andil, Aktif, Ada
  <2> DEFINE s == Kurangi(stok, g, lama.isi)
  <2>6. s[g][q] = stok[g][q] - lama.isi[q] /\ DOMAIN s = Gudang
        /\ \A h \in Gudang \ {g} : s[h][q] = stok[h][q]
    BY <1>1 DEF Kurangi, TypeOK
  <2>7. stok' = Tambah(s, g, r.isi)
    BY <1>3, <1>5, <1>9 DEF SelesaiUbah
  <2> HIDE DEF s, r
  <2>8. stok'[g][q] = s[g][q] + r.isi[q] /\ \A h \in Gudang \ {g} : stok'[h][q] = s[h][q]
    BY <2>6, <2>7 DEF Tambah
  <2>9. /\ stok'[g][q] - stok[g][q] = r.isi[q] - lama.isi[q]
        /\ \A h \in Gudang \ {g} : stok'[h][q] = stok[h][q]
    <3> HIDE DEF lama
    <3> QED
      BY <1>6, <2>2, <2>6, <2>8
  <2> QED
    BY <1>1, <1>7, <1>8, <2>5, <2>9, SatuBeli
<1>10. CASE SelesaiBatal(p)
  <2>1. beli'[b].batal = TRUE
    BY <1>1, <1>3, <1>4, <1>10 DEF SelesaiBatal, TypeOK, BarisBeli
  <2>2. Andil(b, q)' = 0
    BY <2>1 DEF Andil, Aktif
  <2>3. stok' = Kurangi(stok, g, lama.isi)
    BY <1>3, <1>5, <1>10 DEF SelesaiBatal
  <2>4. stok'[g][q] = stok[g][q] - lama.isi[q]
        /\ \A h \in Gudang \ {g} : stok'[h][q] = stok[h][q]
    BY <1>1, <2>3 DEF Kurangi, TypeOK
  <2>5. stok'[g][q] - stok[g][q] = 0 - lama.isi[q]
    BY <1>6, <2>4
  <2> QED
    BY <1>1, <1>7, <1>8, <2>2, <2>4, <2>5, SatuBeli
<1> QED
  BY <1>9, <1>10

\* Nothing else touches goods.
LEMMA LainKekal ==
  ASSUME IInv, NEW p \in Proses,
         Gagal(p) \/ MulaiUbah(p) \/ MulaiBatal(p) \/ LangkahBayar(p)
  PROVE  /\ stok' = stok
         /\ \A b \in Beli, q \in Produk : Andil(b, q)' = Andil(b, q)
<1>1. CASE TulisStatus(p)
  <2> DEFINE r == proses[p]
  <2>1. r \in PermintaanBayar /\ RujukAda(p) /\ TypeOK
    BY <1>1, BentukPermintaan DEF IInv, TypeOK, TulisStatus
  <2>2. r.b \in Beli /\ r.status # "belum" /\ Ada(r.b)
    BY <2>1 DEF PermintaanBayar, RujukAda, StatusBeli, StatusForm
  <2>3. PICK b \in Beli : b = r.b
    BY <2>2
  <2>4. /\ beli'[b].status # "belum" /\ beli[b].status # "belum"
        /\ beli'[b].batal = beli[b].batal /\ beli'[b].isi = beli[b].isi
        /\ \A c \in Beli \ {b} : beli'[c] = beli[c]
    BY <1>1, <2>1, <2>2, <2>3 DEF TulisStatus, TypeOK, BarisBeli, Ada
  <2>5. \A c \in Beli : Aktif(c)' = Aktif(c) /\ beli'[c].isi = beli[c].isi
    BY <2>4 DEF Aktif, Ada
  <2> QED
    BY <1>1, <2>5 DEF TulisStatus, Andil
<1>2. CASE ~TulisStatus(p)
  <2>1. beli' = beli /\ stok' = stok
    BY <1>2 DEF Gagal, MulaiUbah, MulaiBatal, LangkahBayar, CatatBayar, BacaHeader, BacaJumlah
  <2> QED
    BY <2>1 DEF Andil, Aktif, Ada
<1> QED
  BY <1>1, <1>2

LEMMA AdaTetap ==
  ASSUME IInv, Next
  PROVE  \A b \in Beli : Ada(b) => Ada(b)'
<1> SUFFICES ASSUME NEW b \in Beli, Ada(b), beli'[b] # beli[b]
             PROVE  beli'[b].status # "belum"
  BY DEF Ada
<1>1. TypeOK
  BY DEF IInv
<1>2. CASE BuatBeli
  BY <1>1, <1>2 DEF BuatBeli, TypeOK, Ada
<1>3. ASSUME NEW p \in Proses, SelesaiUbah(p)
      PROVE  beli'[b].status # "belum"
  <2> DEFINE r == proses[p]
  <2>1. r \in PermintaanUbah
    BY <1>1, <1>3, BentukPermintaan DEF TypeOK, SelesaiUbah
  <2>2. r.b = b /\ r.status # "belum"
    BY <1>1, <1>3, <2>1 DEF TypeOK, SelesaiUbah, PermintaanUbah, StatusForm
  <2>3. beli'[b] = [beli[b] EXCEPT !.gudang = r.gudang, !.isi = r.isi, !.total = r.total,
                                   !.status = r.status]
    BY <1>1, <1>3, <2>2 DEF TypeOK, SelesaiUbah
  <2> HIDE DEF r
  <2> QED
    BY <1>1, <2>2, <2>3 DEF TypeOK, BarisBeli
<1>4. ASSUME NEW p \in Proses, SelesaiBatal(p)
      PROVE  beli'[b].status # "belum"
  BY <1>1, <1>4 DEF TypeOK, BarisBeli, SelesaiBatal
<1>5. ASSUME NEW p \in Proses, TulisStatus(p)
      PROVE  beli'[b].status # "belum"
  <2>1. proses[p] \in PermintaanBayar
    BY <1>1, <1>5, BentukPermintaan DEF TypeOK, TulisStatus
  <2>2. proses[p].status # "belum"
    BY <2>1 DEF PermintaanBayar, StatusBeli, StatusForm
  <2> QED
    BY <1>1, <1>5, <2>2 DEF TypeOK, BarisBeli, TulisStatus
<1>6. ASSUME NEW p \in Proses, Gagal(p) \/ MulaiUbah(p) \/ MulaiBatal(p)
                               \/ CatatBayar(p) \/ BacaHeader(p) \/ BacaJumlah(p)
      PROVE  FALSE
  BY <1>6 DEF Gagal, MulaiUbah, MulaiBatal, CatatBayar, BacaHeader, BacaJumlah
<1> QED
  BY <1>2, <1>3, <1>4, <1>5, <1>6 DEF Next, LangkahKoreksi, LangkahBayar

\* A payment is never taken back and neither is a cancellation.
LEMMA BatalMaju ==
  ASSUME IInv, BatalTetap, Next
  PROVE  BatalTetap' /\ (BatalTanpaBayar' => BatalTanpaBayar)
<1>1. TypeOK
  BY DEF IInv
<1>2. SUFFICES ASSUME NEW b \in Beli
               PROVE  /\ beli'[b].batal => Ada(b)' /\ (dibayar'[b] = 0 => beli'[b].status = "dibatalkan")
                      /\ beli[b].batal /\ dibayar[b] # 0 => beli'[b].batal /\ dibayar'[b] # 0
  BY DEF BatalTetap, BatalTanpaBayar
<1>3. /\ beli[b] \in BarisBeli /\ dibayar[b] \in Nat
      /\ beli[b].batal => Ada(b) /\ (dibayar[b] = 0 => beli[b].status = "dibatalkan")
  BY <1>1 DEF TypeOK, BatalTetap
<1>0. Ada(b) => Ada(b)'
  BY AdaTetap
<1>4. CASE BuatBeli
  <2>1. PICK c \in Beli, g \in Gudang, isi \in Keranjang, st \in StatusForm, t \in Nat :
          /\ ~Ada(c) /\ dibayar' = dibayar
          /\ beli' = [beli EXCEPT ![c] =
                [status |-> st, gudang |-> g, isi |-> isi, total |-> t, batal |-> FALSE]]
    BY <1>4, TotalNat DEF BuatBeli, Keranjang
  <2>2. CASE b # c
    BY <1>0, <1>1, <1>3, <2>1, <2>2 DEF TypeOK
  <2>3. CASE b = c
    <3>1. ~Ada(b) /\ beli'[b].batal = FALSE
      BY <1>1, <2>1, <2>3 DEF TypeOK
    <3> QED
      BY <1>0, <1>3, <2>1, <3>1 DEF Ada
  <2> QED
    BY <2>2, <2>3
<1>5. ASSUME NEW p \in Proses, SelesaiUbah(p) \/ SelesaiBatal(p)
      PROVE  /\ beli'[b].batal => Ada(b)' /\ (dibayar'[b] = 0 => beli'[b].status = "dibatalkan")
             /\ beli[b].batal /\ dibayar[b] # 0 => beli'[b].batal /\ dibayar'[b] # 0
  <2> DEFINE r == proses[p]
  <2>1. beli[r.b].status # "dibatalkan" /\ dibayar' = dibayar
    BY <1>5 DEF SelesaiUbah, SelesaiBatal
  <2>2. CASE b # r.b
    <3>1. beli'[b] = beli[b]
      BY <1>1, <1>5, <2>2 DEF SelesaiUbah, SelesaiBatal, TypeOK
    <3> QED
      BY <1>0, <1>3, <2>1, <3>1
  <2>3. CASE b = r.b /\ SelesaiUbah(p)
    <3>1. beli'[b] = [beli[b] EXCEPT !.gudang = r.gudang, !.isi = r.isi, !.total = r.total,
                                     !.status = r.status]
      BY <1>1, <2>3 DEF SelesaiUbah, TypeOK
    <3> HIDE DEF r
    <3>2. beli'[b].batal = beli[b].batal
      BY <1>0, <1>3, <3>1 DEF BarisBeli
    <3> QED
      BY <1>0, <1>3, <2>1, <2>3, <3>2
  <2>4. CASE b = r.b /\ SelesaiBatal(p)
    <3>1. beli'[b].batal = TRUE /\ beli'[b].status = "dibatalkan"
      BY <1>1, <1>3, <2>4 DEF SelesaiBatal, TypeOK, BarisBeli
    <3>2. Ada(b)
      BY <2>4 DEF SelesaiBatal, IInv, RujukAda
    <3> QED
      BY <1>0, <2>1, <3>1, <3>2
  <2> QED
    BY <1>5, <2>2, <2>3, <2>4
<1>6. ASSUME NEW p \in Proses, TulisStatus(p)
      PROVE  /\ beli'[b].batal => Ada(b)' /\ (dibayar'[b] = 0 => beli'[b].status = "dibatalkan")
             /\ beli[b].batal /\ dibayar[b] # 0 => beli'[b].batal /\ dibayar'[b] # 0
  <2> DEFINE r == proses[p]
  <2>1. r.op = "bayar" /\ RujukAda(p) /\ dibayar' = dibayar
    BY <1>6 DEF TulisStatus, IInv
  <2>2. dibayar[r.b] > 0
    BY <2>1 DEF RujukAda
  <2>3. beli'[b].batal = beli[b].batal /\ (b # r.b => beli'[b] = beli[b])
    BY <1>1, <1>3, <1>6 DEF TulisStatus, TypeOK, BarisBeli
  <2> QED
    BY <1>0, <1>3, <2>1, <2>2, <2>3
<1>7. ASSUME NEW p \in Proses, CatatBayar(p)
      PROVE  /\ beli'[b].batal => Ada(b)' /\ (dibayar'[b] = 0 => beli'[b].status = "dibatalkan")
             /\ beli[b].batal /\ dibayar[b] # 0 => beli'[b].batal /\ dibayar'[b] # 0
  <2>1. PICK c \in Beli, j \in Jumlah : dibayar' = [dibayar EXCEPT ![c] = dibayar[c] + j]
                                        /\ beli' = beli
    BY <1>7 DEF CatatBayar
  <2>2. j \in Nat \ {0}
    BY PembelianAssumption
  <2> QED
    BY <1>0, <1>1, <1>3, <2>1, <2>2 DEF TypeOK
<1>8. ASSUME UNCHANGED <<beli, dibayar>>
      PROVE  /\ beli'[b].batal => Ada(b)' /\ (dibayar'[b] = 0 => beli'[b].status = "dibatalkan")
             /\ beli[b].batal /\ dibayar[b] # 0 => beli'[b].batal /\ dibayar'[b] # 0
  BY <1>0, <1>3, <1>8
<1>9. ASSUME NEW p \in Proses, Gagal(p) \/ MulaiUbah(p) \/ MulaiBatal(p)
                               \/ BacaHeader(p) \/ BacaJumlah(p)
      PROVE  UNCHANGED <<beli, dibayar>>
  BY <1>9 DEF Gagal, MulaiUbah, MulaiBatal, BacaHeader, BacaJumlah
<1> QED
  BY <1>4, <1>5, <1>6, <1>7, <1>8, <1>9 DEF Next, LangkahKoreksi, LangkahBayar

LEMMA BeliLangkah ==
  ASSUME InvBeli, Next
  PROVE  KonservasiBeli'
<1>1. IInv /\ IInv' /\ BatalTetap /\ KonservasiBeli
  BY LangkahInvarian DEF InvBeli
<1>2. SUFFICES ASSUME BatalTanpaBayar', NEW q \in Produk
               PROVE  Bertambah(q)' = Dibeli(q)'
  BY DEF KonservasiBeli
<1>3. BatalTanpaBayar
  BY <1>1, <1>2, BatalMaju
<1>4. Bertambah(q) = Dibeli(q)
  BY <1>1, <1>3 DEF KonservasiBeli
<1>5. CASE BuatBeli
  BY <1>1, <1>4, <1>5, BuatKekal
<1>6. ASSUME NEW p \in Proses, SelesaiUbah(p) \/ SelesaiBatal(p)
      PROVE  Bertambah(q)' = Dibeli(q)'
  <2>1. /\ proses[p] \in Permintaan /\ proses[p].op \in {"ubah", "batal"}
        /\ beli[proses[p].b].status # "dibatalkan"
    BY <1>1, <1>6 DEF IInv, TypeOK, SelesaiUbah, SelesaiBatal
  <2>2. proses[p].b \in Beli
    BY <2>1, BentukPermintaan DEF PermintaanUbah, PermintaanBatal
  <2>3. ~beli[proses[p].b].batal
    BY <1>1, <1>3, <2>1, <2>2 DEF BatalTetap, BatalTanpaBayar
  <2> QED
    BY <1>1, <1>4, <1>6, <2>3, KoreksiKekal
<1>7. ASSUME NEW p \in Proses, Gagal(p) \/ MulaiUbah(p) \/ MulaiBatal(p) \/ LangkahBayar(p)
      PROVE  Bertambah(q)' = Dibeli(q)'
  BY <1>1, <1>4, <1>7, LainKekal, BeliTetap
<1> QED
  BY <1>5, <1>6, <1>7 DEF Next, LangkahKoreksi

LEMMA BeliAwal == Init => InvBeli
<1> SUFFICES ASSUME Init
             PROVE  InvBeli
  OBVIOUS
<1>1. BatalTetap
  BY DEF Init, BatalTetap, BeliKosong
<1>2. ASSUME NEW q \in Produk
      PROVE  Bertambah(q) = Dibeli(q)
  <2> DEFINE a == [c \in Beli |-> Andil(c, q)]
             n == [h \in Gudang |-> stok[h][q] - StokAwal[h][q]]
  <2>1. \A c \in Beli : a[c] = 0
    BY DEF Init, Andil, Aktif, Ada, BeliKosong
  <2>2. \A h \in Gudang : n[h] = 0
    BY StokAssumption DEF Init
  <2>3. Dibeli(q) = SumFunctionOnSet(a, Beli) /\ Bertambah(q) = SumFunctionOnSet(n, Gudang)
    BY DEF Dibeli, Bertambah
  <2> HIDE DEF a, n
  <2>4. SumFunctionOnSet(a, Beli) = SumFunctionOnSet(a, {})
    <3>1. IsFiniteSet(Beli) /\ {} \in SUBSET Beli /\ \A c \in Beli : a[c] \in Int
      BY <2>1, PembelianAssumption
    <3> QED
      BY <2>1, <3>1, JumlahNol
  <2>5. SumFunctionOnSet(n, Gudang) = SumFunctionOnSet(n, {})
    <3>1. IsFiniteSet(Gudang) /\ {} \in SUBSET Gudang /\ \A h \in Gudang : n[h] \in Int
      BY <2>2, PembelianAssumption
    <3> QED
      BY <2>2, <3>1, JumlahNol
  <2> QED
    BY <2>3, <2>4, <2>5, JumlahKosong
<1> QED
  BY AwalInvarian, <1>1, <1>2 DEF InvBeli, KonservasiBeli

LEMMA BeliDiam ==
  ASSUME InvBeli, UNCHANGED vars
  PROVE  BatalTetap' /\ KonservasiBeli'
<1>1. \A c \in Beli, q \in Produk : Andil(c, q)' = Andil(c, q)
  BY DEF Andil, Aktif, Ada, vars
<1>2. stok' = stok
  BY DEF vars
<1>3. BatalTetap' /\ (BatalTanpaBayar' => BatalTanpaBayar)
  BY DEF InvBeli, BatalTetap, BatalTanpaBayar, Ada, vars
<1> QED
  BY <1>1, <1>2, <1>3, BeliTetap DEF InvBeli, KonservasiBeli

\* Over all warehouses stock grows by exactly the goods of the purchases that
\* stand, while none that was cancelled is paid for, in every race of edits,
\* cancellations and payments.
THEOREM BeliKekal == Spec => []KonservasiBeli
<1>1. InvBeli /\ [Next]_vars => InvBeli'
  BY LangkahInvarian, BeliLangkah, BatalMaju, BeliDiam DEF InvBeli
<1>2. InvBeli => KonservasiBeli
  BY DEF InvBeli
<1> QED
  BY BeliAwal, <1>1, <1>2, PTL DEF Spec

=============================================================================
