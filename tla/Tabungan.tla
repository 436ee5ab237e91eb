------------------------------ MODULE Tabungan ------------------------------
(***************************************************************************)
(* The savings customers leave with the shop: a ledger in which every      *)
(* entry carries the balance after it.                                     *)
(*                                                                         *)
(* Insert reads the last entry of the customer FOR UPDATE, adds the amount *)
(* and inserts the next one.  The SELECT picks its row from a snapshot: a  *)
(* transaction that has to wait for the lock still gets that row, although *)
(* the one it waited for has inserted a later entry.  Picking the row is   *)
(* therefore one step, the lock, the check and the INSERT are the next,    *)
(* and the commit is the last.                                             *)
(***************************************************************************)
EXTENDS Integers, FiniteSets

CONSTANTS
    Mitra,        \* customers
    Tanggal,      \* dates a form may carry
    Jumlah,       \* amounts of a deposit or a withdrawal
    MaxBaris,     \* bound: number of ids the sequence hands out
    Proses        \* server requests that may run at the same time

ASSUME TabunganAssumption ==
    /\ Tanggal \subseteq Int
    /\ Jumlah \subseteq Nat \ {0}
    /\ MaxBaris \in Nat

VARIABLES
    buku,         \* committed rows of tabungan_mitra
    urut,         \* last id the sequence has handed out
    uang,         \* money each customer has handed in and not taken back
    proses        \* what each request wants and has read

vars == <<buku, urut, uang, proses>>

-----------------------------------------------------------------------------
(* Rows and requests *)

\* jumlah is debit - kredit.  dasar is not a column: it is the id of the row
\* whose balance this one continues, 0 if the customer had none.
BarisTabungan ==
    [id : Nat \ {0}, mitra : Mitra, tanggal : Tanggal, jumlah : Int \ {0},
     saldo : Nat, dasar : Nat]

Diam == [tahap |-> "diam"]
PermintaanBaca ==
    [tahap : {"baca"}, mitra : Mitra, tanggal : Tanggal, jumlah : Int \ {0},
     dasar : Nat, saldo : Nat]
PermintaanSisip == [tahap : {"sisip"}, baris : BarisTabungan]
Permintaan == {Diam} \cup PermintaanBaca \cup PermintaanSisip

Buku(m) == {r \in buku : r.mitra = m}

\* ORDER BY tanggal DESC, id DESC LIMIT 1.
Lebih(r, s) == r.tanggal > s.tanggal \/ (r.tanggal = s.tanggal /\ r.id > s.id)
Akhir(m) == {r \in Buku(m) : \A s \in Buku(m) \ {r} : Lebih(r, s)}

\* The row lock of an entry is held by whoever has inserted the entry after it
\* and not yet committed.
Terkunci(id) ==
    \E q \in Proses : proses[q].tahap = "sisip" /\ proses[q].baris.dasar = id

\* GetSaldo: the balance the shop shows.
Saldo(m) == IF Buku(m) = {} THEN 0 ELSE (CHOOSE r \in Akhir(m) : TRUE).saldo

-----------------------------------------------------------------------------
(* Faulty variants of actions, slips the code could have made; none of them    *)
(* takes part in the specification.                                            *)

\* The balance is not checked.
SisipTanpaCek(p) ==
    LET r == proses[p] IN
    /\ r.tahap = "baca"
    /\ urut < MaxBaris
    /\ r.dasar # 0 => ~Terkunci(r.dasar)
    /\ urut' = urut + 1
    /\ proses' = [proses EXCEPT ![p] = [tahap |-> "sisip", baris |->
            [id |-> urut + 1, mitra |-> r.mitra, tanggal |-> r.tanggal,
             jumlah |-> r.jumlah, saldo |-> r.saldo + r.jumlah, dasar |-> r.dasar]]]
    /\ UNCHANGED <<buku, uang>>

\* The last entry of any customer, WHERE mitra_id left out.
BacaSiapaPun(p, m, t, j) ==
    /\ proses[p] = Diam
    /\ \/ /\ buku = {}
          /\ proses' = [proses EXCEPT ![p] =
                [tahap |-> "baca", mitra |-> m, tanggal |-> t, jumlah |-> j,
                 dasar |-> 0, saldo |-> 0]]
       \/ \E r \in buku :
            /\ \A s \in buku \ {r} : Lebih(r, s)
            /\ proses' = [proses EXCEPT ![p] =
                  [tahap |-> "baca", mitra |-> m, tanggal |-> t, jumlah |-> j,
                   dasar |-> r.id, saldo |-> r.saldo]]
    /\ UNCHANGED <<buku, urut, uang>>

-----------------------------------------------------------------------------
(* TabunganService.Setor, Tarik and TabunganMitraRepo.Insert *)

\* The row the SELECT picks in its snapshot.  Rows never change, so its balance
\* is the same when the lock is granted.
Baca(p, m, t, j) ==
    /\ proses[p] = Diam
    /\ \/ /\ Buku(m) = {}
          /\ proses' = [proses EXCEPT ![p] =
                [tahap |-> "baca", mitra |-> m, tanggal |-> t, jumlah |-> j,
                 dasar |-> 0, saldo |-> 0]]
       \/ \E r \in Akhir(m) :
            proses' = [proses EXCEPT ![p] =
                [tahap |-> "baca", mitra |-> m, tanggal |-> t, jumlah |-> j,
                 dasar |-> r.id, saldo |-> r.saldo]]
    /\ UNCHANGED <<buku, urut, uang>>

Setor(p) == \E m \in Mitra, t \in Tanggal, j \in Jumlah : Baca(p, m, t, j)
Tarik(p) == \E m \in Mitra, t \in Tanggal, j \in Jumlah : Baca(p, m, t, -j)

\* The lock (nothing is locked when there was no row), the check of the new
\* balance and the INSERT, which takes the next id.
Sisip(p) ==
    LET r == proses[p] IN
    /\ r.tahap = "baca"
    /\ urut < MaxBaris
    /\ r.dasar # 0 => ~Terkunci(r.dasar)
    /\ r.saldo + r.jumlah >= 0
    /\ urut' = urut + 1
    /\ proses' = [proses EXCEPT ![p] = [tahap |-> "sisip", baris |->
            [id |-> urut + 1, mitra |-> r.mitra, tanggal |-> r.tanggal,
             jumlah |-> r.jumlah, saldo |-> r.saldo + r.jumlah, dasar |-> r.dasar]]]
    /\ UNCHANGED <<buku, uang>>

\* The commit; then the money changes hands.
Selesai(p) ==
    LET b == proses[p].baris IN
    /\ proses[p].tahap = "sisip"
    /\ buku' = buku \cup {b}
    /\ uang' = [uang EXCEPT ![b.mitra] = uang[b.mitra] + b.jumlah]
    /\ proses' = [proses EXCEPT ![p] = Diam]
    /\ UNCHANGED urut

\* ErrTabunganSaldoKurang, any other error or a crash.  The id is not handed
\* back.
Gagal(p) ==
    /\ proses[p] # Diam
    /\ proses' = [proses EXCEPT ![p] = Diam]
    /\ UNCHANGED <<buku, urut, uang>>

-----------------------------------------------------------------------------
Init ==
    /\ buku = {}
    /\ urut = 0
    /\ uang = [m \in Mitra |-> 0]
    /\ proses = [p \in Proses |-> Diam]

Next == \E p \in Proses : Setor(p) \/ Tarik(p) \/ Sisip(p) \/ Selesai(p) \/ Gagal(p)

Spec == Init /\ [][Next]_vars

-----------------------------------------------------------------------------
(* Properties *)

\* Every variable keeps its type; in particular no balance is negative.
TypeOK ==
    /\ buku \subseteq BarisTabungan
    /\ urut \in Nat
    /\ uang \in [Mitra -> Int]
    /\ proses \in [Proses -> Permintaan]

\* The entries of a customer are in order: no two of them continue the same
\* entry, and none has an earlier date than the one it continues.
Rukun(m) ==
    \A r, s \in Buku(m) :
        /\ r.dasar = s.dasar => r = s
        /\ r.dasar = s.id => r.tanggal >= s.tanggal

\* As long as the entries of a customer are in order the balance shown is the
\* money the shop holds for him, whatever happens to other customers, and
\* requests that failed: forks and entries dated back are the only ways in
\* which money gets lost or is paid out twice.
SaldoSetia == \A m \in Mitra : Rukun(m) => uang[m] = Saldo(m)

-----------------------------------------------------------------------------
(* The inductive invariant behind SaldoSetia *)

\* d is 0, or the id of an entry of m with balance n.
Dasar(m, d, n) ==
    \/ d = 0 /\ n = 0
    \/ \E r \in Buku(m) : r.id = d /\ r.saldo = n

\* What a request has read is an entry of its customer, and the entry it has
\* inserted has an id of its own.
RujukDasar(p) ==
    /\ proses[p].tahap = "baca" =>
          Dasar(proses[p].mitra, proses[p].dasar, proses[p].saldo)
    /\ proses[p].tahap = "sisip" =>
          LET b == proses[p].baris IN
          /\ Dasar(b.mitra, b.dasar, b.saldo - b.jumlah)
          /\ b.dasar < b.id /\ b.id <= urut
          /\ \A r \in buku : r.id # b.id
          /\ \A q \in Proses \ {p} :
                proses[q].tahap = "sisip" => proses[q].baris.id # b.id

\* Ids are unique and handed out in order, and a ledger has a first entry.
NomorUrut ==
    /\ \A r, s \in buku : r.id = s.id => r = s
    /\ \A r \in buku : r.id <= urut /\ r.dasar < r.id
    /\ \A m \in Mitra : Buku(m) # {} => \E r \in Buku(m) : r.dasar = 0

\* An entry nothing continues is the last one, and its balance is the money.
UjungSetia(m) ==
    Rukun(m) => \A r \in Buku(m) :
        (\A s \in Buku(m) : s.dasar # r.id) => r \in Akhir(m) /\ uang[m] = r.saldo

\* There is a last entry, and without entries there is no money.
AkhirAda(m) ==
    /\ Buku(m) = {} => uang[m] = 0
    /\ Rukun(m) /\ Buku(m) # {} => \E r \in Akhir(m) : uang[m] = r.saldo

IInv ==
    /\ TypeOK
    /\ NomorUrut
    /\ \A p \in Proses : RujukDasar(p)
    /\ \A m \in Mitra : UjungSetia(m) /\ AkhirAda(m)

=============================================================================
