----------------------------- MODULE Pengaturan -----------------------------
(***************************************************************************)
(* The settings of the shop: the wizard an owner goes through first, the   *)
(* key-value settings, and the printer templates with one default for each *)
(* warehouse and kind of paper.                                            *)
(*                                                                         *)
(* The wizard and the templates share nothing, so a behaviour follows one  *)
(* of the two.  Statements outside a transaction take effect one by one;   *)
(* SetDefault is a transaction of its own after the statement that saved   *)
(* the row, and what it changes appears when it commits.                   *)
(***************************************************************************)
EXTENDS Integers, FiniteSets, FiniteSetsExt

CONSTANTS
    Templat,      \* ids of printer templates
    Grup,         \* pairs of a warehouse and a kind of paper
    Nama,         \* names of templates
    Cabang,       \* codes of warehouses
    Sku,          \* codes of products in a CSV text
    MaxBaris,     \* bound: rows of a CSV text
    Slot,         \* requests that may run at the same time (finitely many)
    BaruT,        \* the id of a template that is not saved yet
    MaxMohon      \* bound: number of requests

ASSUME PengaturanAssumption ==
    /\ BaruT \notin Templat /\ Cabang # {}
    /\ MaxBaris \in Nat \ {0} /\ MaxMohon \in Nat /\ IsFiniteSet(Slot)

VARIABLES
    bagian,       \* what this behaviour is about
    mohon,        \* what each request is doing
    mohonKe,      \* requests so far
    templat,      \* table printer_template
    terganggu,    \* groups in which saves overlapped or one broke off
    setelan,      \* table app_setting
    cabang,       \* table gudang: the warehouses, and those that are active
    barang,       \* table produk: codes that came from the wizard
    kasir,        \* table user: warehouses that got a cashier
    dilaporkan,   \* rows counted as imported on the result pages so far
    luput         \* rows that came to exist and no page counts

varsPengaturan ==
    <<bagian, mohon, mohonKe, templat, terganggu, setelan, cabang, barang, kasir, dilaporkan, luput>>
varsTemplat == <<templat, terganggu>>
varsWizard == <<setelan, cabang, barang, kasir, dilaporkan, luput>>

-----------------------------------------------------------------------------
KunciSetelan == {"toko_info", "pajak_config", "smtp_config"}
BarisTemplat == [grup : Grup, nama : Nama, bawaan : BOOLEAN]
TanpaTemplat == [nama |-> BaruT]
AdaTemplat(t) == templat[t] # TanpaTemplat
Bawaan(t) == AdaTemplat(t) /\ templat[t].bawaan

Senggang == [langkah |-> "senggang"]
MohonTulis == [langkah : {"tulis"}, id : Templat \cup {BaruT}, grup : Grup, nama : Nama, bawaan : BOOLEAN]
MohonGrup == [langkah : {"cari"}, id : Templat, grup : Grup]
MohonBersih ==
    [langkah : {"bersih"}, id : Templat, grup : Grup, sisa : SUBSET Templat, terkunci : SUBSET Templat]
MohonCSV ==
    [langkah : {"cek", "sisip"}, teks : [1..MaxBaris -> Sku], ke : 1..(MaxBaris + 1), masuk : Nat]
MohonLoop == [langkah : {"gudang", "kasir"}, sisa : SUBSET Cabang, dibuat : SUBSET Cabang]

Jadi(p, m) == mohon' = [mohon EXCEPT ![p] = m]
Usai(p) == Jadi(p, Senggang)
\* A new request.
Datang(p, b) ==
    /\ bagian = b /\ mohon[p] = Senggang /\ mohonKe < MaxMohon
    /\ mohonKe' = mohonKe + 1 /\ UNCHANGED bagian
Lanjutan == UNCHANGED <<bagian, mohonKe>>

-----------------------------------------------------------------------------
(* Printer templates *)

\* ExistsByName, and UNIQUE (gudang_id, jenis, nama).
NamaDipakai(g, n, kecuali) ==
    \E t \in Templat \ {kecuali} :
        AdaTemplat(t) /\ templat[t].grup = g /\ templat[t].nama = n

\* Rows a SetDefault has updated are locked until it ends.
TerkunciT(t) == \E p \in Slot : mohon[p].langkah = "bersih" /\ t \in mohon[p].terkunci

\* Another request saves, or is about to save, a template of the group.
Bersamaan(p, g) == \E q \in Slot \ {p} : mohon[q] # Senggang /\ mohon[q].grup = g
Tandai(S) == terganggu' = terganggu \cup S

\* Create: the form is valid and the name is free.
BuatTemplat(p, g, n, b) ==
    /\ Datang(p, "templat")
    /\ ~NamaDipakai(g, n, BaruT)
    /\ Jadi(p, [langkah |-> "tulis", id |-> BaruT, grup |-> g, nama |-> n, bawaan |-> b])
    /\ UNCHANGED <<varsTemplat, varsWizard>>

\* Update: GetByID finds the row; every field comes from the form.
UbahTemplat(p, t, g, n, b) ==
    /\ Datang(p, "templat")
    /\ AdaTemplat(t) /\ ~NamaDipakai(g, n, t)
    /\ Jadi(p, [langkah |-> "tulis", id |-> t, grup |-> g, nama |-> n, bawaan |-> b])
    /\ UNCHANGED <<varsTemplat, varsWizard>>

\* The INSERT or UPDATE.  A default goes on to SetDefault.
SisipTemplat(p) ==
    LET m == mohon[p] IN
    /\ m.langkah = "tulis" /\ m.id = BaruT
    /\ IF NamaDipakai(m.grup, m.nama, BaruT)
       THEN Usai(p) /\ UNCHANGED varsTemplat
       ELSE \E t \in Templat :
                /\ ~AdaTemplat(t)
                /\ templat' = [templat EXCEPT ![t] =
                        [grup |-> m.grup, nama |-> m.nama, bawaan |-> m.bawaan]]
                /\ Tandai(IF Bersamaan(p, m.grup) THEN {m.grup} ELSE {})
                /\ IF m.bawaan THEN Jadi(p, [langkah |-> "cari", id |-> t, grup |-> m.grup]) ELSE Usai(p)
    /\ Lanjutan /\ UNCHANGED varsWizard

TimpaTemplat(p) ==
    LET m == mohon[p] IN
    /\ m.langkah = "tulis" /\ m.id # BaruT
    /\ ~TerkunciT(m.id)
    /\ IF ~AdaTemplat(m.id) \/ NamaDipakai(m.grup, m.nama, m.id)
       THEN Usai(p) /\ UNCHANGED varsTemplat
       ELSE /\ templat' = [templat EXCEPT ![m.id] =
                    [grup |-> m.grup, nama |-> m.nama, bawaan |-> m.bawaan]]
            /\ Tandai(IF Bersamaan(p, m.grup) THEN {m.grup} ELSE {})
            /\ IF m.bawaan THEN Jadi(p, [langkah |-> "cari", id |-> m.id, grup |-> m.grup]) ELSE Usai(p)
    /\ Lanjutan /\ UNCHANGED varsWizard

\* Faulty: the clearing UPDATE finds no row of the group.
CariGrupKosong(p) ==
    LET m == mohon[p] IN
    /\ m.langkah = "cari"
    /\ Jadi(p, [langkah |-> "bersih", id |-> m.id, grup |-> m.grup, sisa |-> {}, terkunci |-> {}])
    /\ Lanjutan /\ UNCHANGED <<varsTemplat, varsWizard>>

\* SetDefault: the group of the row, and the rows the clearing UPDATE sees.
CariGrup(p) ==
    LET m == mohon[p]
        g == templat[m.id].grup
    IN
    /\ m.langkah = "cari"
    /\ IF AdaTemplat(m.id)
       THEN Jadi(p, [langkah |-> "bersih", id |-> m.id, grup |-> g,
                     sisa |-> {t \in Templat \ {m.id} : AdaTemplat(t) /\ templat[t].grup = g},
                     terkunci |-> {}])
       ELSE Usai(p)
    /\ Lanjutan /\ UNCHANGED <<varsTemplat, varsWizard>>

\* The next row of the clearing UPDATE, once nobody else holds it; a row that was
\* moved or deleted meanwhile is left out.
BersihkanSatu(p) ==
    LET m == mohon[p] IN
    /\ m.langkah = "bersih"
    /\ \E t \in m.sisa :
        /\ ~TerkunciT(t)
        /\ Jadi(p, [m EXCEPT !.sisa = @ \ {t},
                    !.terkunci = IF AdaTemplat(t) /\ templat[t].grup = m.grup
                                 THEN @ \cup {t} ELSE @])
    /\ Lanjutan /\ UNCHANGED <<varsTemplat, varsWizard>>

\* The row itself, if it is still there, and the commit.
JadikanBawaan(p) ==
    LET m == mohon[p]
        ada == AdaTemplat(m.id)
    IN
    /\ m.langkah = "bersih" /\ m.sisa = {} /\ ~TerkunciT(m.id)
    /\ templat' = [t \in Templat |->
            CASE t \in m.terkunci -> [templat[t] EXCEPT !.bawaan = FALSE]
              [] t = m.id /\ ada -> [templat[t] EXCEPT !.bawaan = TRUE]
              [] OTHER -> templat[t]]
    /\ Tandai((IF Bersamaan(p, m.grup) THEN {m.grup} ELSE {})
              \cup (IF ada THEN {templat[m.id].grup} \ {m.grup} ELSE {}))
    /\ Usai(p)
    /\ Lanjutan /\ UNCHANGED varsWizard

HapusTemplat(t) ==
    /\ bagian = "templat"
    /\ AdaTemplat(t) /\ ~TerkunciT(t)
    /\ templat' = [templat EXCEPT ![t] = TanpaTemplat]
    /\ UNCHANGED <<bagian, mohon, mohonKe, terganggu, varsWizard>>

\* The client goes away, the server stops, or PostgreSQL ends a deadlock: the
\* transaction of SetDefault is rolled back, the row stays as it was saved.
PutusTemplat(p) ==
    LET m == mohon[p] IN
    /\ m.langkah \in {"tulis", "cari", "bersih"}
    /\ Tandai(IF m.langkah = "tulis" THEN {} ELSE
              {m.grup} \cup (IF AdaTemplat(m.id) THEN {templat[m.id].grup} ELSE {}))
    /\ Usai(p)
    /\ Lanjutan /\ UNCHANGED <<templat, varsWizard>>

-----------------------------------------------------------------------------
(* The wizard and the settings.  guardDone writes its redirect and returns nil, *)
(* so every step works as before when the wizard is done.                       *)

Atur(k) == setelan' = [setelan EXCEPT ![k] = mohonKe + 1]

\* Step 1, /setting/pajak and /setting/smtp: a setting is written as a whole.
SimpanSetelan(p, k) ==
    /\ Datang(p, "wizard")
    /\ Atur(k)
    /\ UNCHANGED <<mohon, varsTemplat, cabang, barang, kasir, dilaporkan, luput>>
SimpanToko(p) == SimpanSetelan(p, "toko_info")
SimpanPajak(p) == SimpanSetelan(p, "pajak_config")
SimpanSMTP(p) == SimpanSetelan(p, "smtp_config")

\* Step 2 reads every warehouse and writes them one after the other.
MulaiCabang(p) ==
    /\ Datang(p, "wizard")
    /\ Jadi(p, [langkah |-> "gudang", sisa |-> cabang.ada, dibuat |-> {}])
    /\ UNCHANGED <<varsTemplat, varsWizard>>

UbahCabang(p) ==
    LET m == mohon[p] IN
    /\ m.langkah = "gudang"
    /\ \E c \in m.sisa :
        /\ cabang' \in {[cabang EXCEPT !.buka = @ \cup {c}], [cabang EXCEPT !.buka = @ \ {c}]}
        /\ Jadi(p, [m EXCEPT !.sisa = @ \ {c}])
    /\ Lanjutan /\ UNCHANGED <<varsTemplat, setelan, barang, kasir, dilaporkan, luput>>

\* At last a new one, if its code is free.
TambahCabang(p) ==
    LET m == mohon[p] IN
    /\ m.langkah = "gudang" /\ m.sisa = {}
    /\ \/ UNCHANGED cabang
       \/ \E c \in Cabang \ cabang.ada :
            cabang' = [ada |-> cabang.ada \cup {c}, buka |-> cabang.buka \cup {c}]
    /\ Usai(p)
    /\ Lanjutan /\ UNCHANGED <<varsTemplat, setelan, barang, kasir, dilaporkan, luput>>

\* Step 3: a CSV text, row by row.
MulaiCSV(p, teks) ==
    /\ Datang(p, "wizard")
    /\ Jadi(p, [langkah |-> "cek", teks |-> teks, ke |-> 1, masuk |-> 0])
    /\ UNCHANGED <<varsTemplat, varsWizard>>

\* assertSKUUnique: a row that fails is counted as failed, and the next follows.
CekBaris(p) ==
    LET m == mohon[p] IN
    /\ m.langkah = "cek" /\ m.ke <= MaxBaris
    /\ IF m.teks[m.ke] \in barang THEN Jadi(p, [m EXCEPT !.ke = @ + 1])
       ELSE Jadi(p, [m EXCEPT !.langkah = "sisip"])
    /\ Lanjutan /\ UNCHANGED <<varsTemplat, varsWizard>>

BarisBerikut(p, n) ==
    Jadi(p, [mohon[p] EXCEPT !.langkah = "cek", !.ke = @ + 1, !.masuk = @ + n])

\* Faulty: a row is counted whatever Create says.
SisipBarisTanpaCek(p) ==
    /\ mohon[p].langkah = "sisip"
    /\ barang' = barang \cup {mohon[p].teks[mohon[p].ke]}
    /\ BarisBerikut(p, 1)
    /\ Lanjutan /\ UNCHANGED <<varsTemplat, setelan, cabang, kasir, dilaporkan, luput>>

\* The INSERT.  The unique index or another error refuses it; or its answer is lost
\* after it took effect, which counts as failed too.
SisipBaris(p) ==
    LET sku == mohon[p].teks[mohon[p].ke] IN
    /\ mohon[p].langkah = "sisip"
    /\ \/ BarisBerikut(p, 0) /\ UNCHANGED <<barang, luput>>
       \/ /\ sku \notin barang /\ barang' = barang \cup {sku}
          /\ \/ BarisBerikut(p, 1) /\ UNCHANGED luput
             \/ BarisBerikut(p, 0) /\ luput' = luput + 1
    /\ Lanjutan /\ UNCHANGED <<varsTemplat, setelan, cabang, kasir, dilaporkan>>

\* The result page, at the end of the text.
LaporCSV(p) ==
    LET m == mohon[p] IN
    /\ m.langkah = "cek"
    /\ dilaporkan' = dilaporkan + m.masuk
    /\ Usai(p)
    /\ Lanjutan /\ UNCHANGED <<varsTemplat, setelan, cabang, barang, kasir, luput>>

\* The server stops, or nobody waits for the page: the rows stay.
PutusCSV(p) ==
    LET m == mohon[p] IN
    /\ m.langkah \in {"cek", "sisip"}
    /\ luput' = luput + m.masuk
    /\ Usai(p)
    /\ Lanjutan /\ UNCHANGED <<varsTemplat, setelan, cabang, barang, kasir, dilaporkan>>

\* Step 4: a cashier for each active warehouse the form names.
MulaiKasir(p) ==
    /\ Datang(p, "wizard")
    /\ Jadi(p, [langkah |-> "kasir", sisa |-> cabang.buka, dibuat |-> {}])
    /\ UNCHANGED <<varsTemplat, varsWizard>>

BuatKasir(p) ==
    LET m == mohon[p] IN
    /\ m.langkah = "kasir"
    /\ \E c \in m.sisa :
        \/ c \notin kasir /\ kasir' = kasir \cup {c}
           /\ Jadi(p, [m EXCEPT !.sisa = @ \ {c}, !.dibuat = @ \cup {c}])
        \/ UNCHANGED kasir /\ Jadi(p, [m EXCEPT !.sisa = @ \ {c}])
    /\ Lanjutan /\ UNCHANGED <<varsTemplat, setelan, cabang, barang, dilaporkan, luput>>

\* Their passwords are shown; without a new cashier the wizard is done.
AkhirKasir(p) ==
    LET m == mohon[p] IN
    /\ m.langkah = "kasir" /\ m.sisa = {}
    /\ setelan' = IF m.dibuat = {} THEN [setelan EXCEPT !["onboarding_done"] = 1] ELSE setelan
    /\ Usai(p)
    /\ Lanjutan /\ UNCHANGED <<varsTemplat, cabang, barang, kasir, dilaporkan, luput>>

\* finalize, from step 4 or from its skip button.
SelesaiWizard(p) ==
    /\ Datang(p, "wizard")
    /\ setelan' = [setelan EXCEPT !["onboarding_done"] = 1]
    /\ UNCHANGED <<mohon, varsTemplat, cabang, barang, kasir, dilaporkan, luput>>

-----------------------------------------------------------------------------
InitPengaturan ==
    /\ bagian \in {"templat", "wizard"}
    /\ mohon = [p \in Slot |-> Senggang] /\ mohonKe = 0
    /\ templat = [t \in Templat |-> TanpaTemplat] /\ terganggu = {}
    /\ setelan = [k \in KunciSetelan \cup {"onboarding_done"} |-> 0]
    /\ \E c \in Cabang : cabang = [ada |-> {c}, buka |-> {c}]
    /\ barang = {} /\ kasir = {} /\ dilaporkan = 0 /\ luput = 0

SetDefault(p) == CariGrup(p) \/ BersihkanSatu(p) \/ JadikanBawaan(p)
TemplatPrinter ==
    \/ \E p \in Slot :
        \/ \E g \in Grup, n \in Nama, b \in BOOLEAN :
            BuatTemplat(p, g, n, b) \/ \E t \in Templat : UbahTemplat(p, t, g, n, b)
        \/ SisipTemplat(p) \/ TimpaTemplat(p) \/ SetDefault(p) \/ PutusTemplat(p)
    \/ \E t \in Templat : HapusTemplat(t)

Wizard(p) ==
    \/ SimpanToko(p) \/ SimpanPajak(p) \/ SimpanSMTP(p)
    \/ MulaiCabang(p) \/ UbahCabang(p) \/ TambahCabang(p)
    \/ CekBaris(p) \/ SisipBaris(p) \/ LaporCSV(p) \/ PutusCSV(p)
    \/ \E teks \in [1..MaxBaris -> Sku] : MulaiCSV(p, teks)
    \/ MulaiKasir(p) \/ BuatKasir(p) \/ AkhirKasir(p) \/ SelesaiWizard(p)

NextPengaturan == TemplatPrinter \/ \E p \in Slot : Wizard(p)

SpecPengaturan == InitPengaturan /\ [][NextPengaturan]_varsPengaturan

-----------------------------------------------------------------------------
(* Properties *)

TypePengaturan ==
    /\ bagian \in {"templat", "wizard"} /\ mohonKe \in Nat
    /\ mohon \in [Slot -> {Senggang} \cup MohonTulis \cup MohonGrup \cup MohonBersih \cup MohonCSV \cup MohonLoop]
    /\ templat \in [Templat -> BarisTemplat \cup {TanpaTemplat}] /\ terganggu \subseteq Grup
    /\ setelan \in [KunciSetelan \cup {"onboarding_done"} -> Nat]
    /\ cabang \in [ada : SUBSET Cabang, buka : SUBSET Cabang] /\ cabang.buka \subseteq cabang.ada
    /\ barang \subseteq Sku /\ kasir \subseteq cabang.ada /\ dilaporkan \in Nat /\ luput \in Nat

\* However templates are created, renamed, moved between groups and deleted: a
\* group in which no two saves overlapped and none broke off has one default at
\* most, but for the moment between the save of a row and its SetDefault.
DefaultTunggal ==
    \A s, t \in Templat :
        Bawaan(s) /\ Bawaan(t) /\ templat[s].grup = templat[t].grup /\ s # t =>
            \/ templat[s].grup \in terganggu
            \/ \E p \in Slot : mohon[p].langkah \in {"cari", "bersih"} /\ mohon[p].id \in {s, t}

\* The rows a request has inserted and not yet reported.
BelumDilaporkan(p) == IF mohon[p].langkah \in {"cek", "sisip"} THEN mohon[p].masuk ELSE 0

\* The numbers of imported rows the wizard reports add up to the products that
\* came to exist, also when one text is sent by two tabs or names a code twice: all
\* that is missing are rows whose INSERT lost its answer or whose page nobody got.
HitunganCSV ==
    dilaporkan + luput + SumFunctionOnSet([p \in Slot |-> BelumDilaporkan(p)], Slot) = Cardinality(barang)

-----------------------------------------------------------------------------
(* The inductive invariant TypePengaturan and DefaultTunggal rest on *)

\* The wizard works on warehouses that exist and on a row of the text.
WizardUtuh ==
    \A p \in Slot :
        /\ mohon[p].langkah \in {"gudang", "kasir"} => mohon[p].sisa \subseteq cabang.ada
        /\ mohon[p].langkah = "sisip" => mohon[p].ke <= MaxBaris

\* Rows a SetDefault has updated stay in its group: nobody moves or deletes them.
KunciTemplat ==
    \A p \in Slot : mohon[p].langkah = "bersih" =>
        \A t \in mohon[p].terkunci : AdaTemplat(t) /\ templat[t].grup = mohon[p].grup

\* A SetDefault has seen every other row of its group, unless it was disturbed.
BersihLengkap ==
    \A p \in Slot : mohon[p].langkah = "bersih" =>
        \/ mohon[p].grup \in terganggu
        \/ \A t \in Templat \ {mohon[p].id} :
              AdaTemplat(t) /\ templat[t].grup = mohon[p].grup =>
                  t \in mohon[p].sisa \cup mohon[p].terkunci

InvPengaturan == TypePengaturan /\ WizardUtuh /\ KunciTemplat /\ BersihLengkap /\ DefaultTunggal

=============================================================================
