---------------------------- MODULE SinkronProofs ----------------------------
(***************************************************************************)
(* Proofs about Sinkron: for any forms, tabs and bounds, a form is stored  *)
(* once, one that is kept is lost for a reason only, and every step is one *)
(* SinkronJanji allows.                                                    *)
(***************************************************************************)
EXTENDS Sinkron, HitungProofs, TLAPS

KerjaTab == {Diam} \cup Putar \cup Kirim \cup Jawab

\* What a tab may look like, one clause per stage.
LEMMA BentukTab ==
  ASSUME NEW x \in KerjaTab
  PROVE  /\ x.tahap = "putar" => x \in Putar
         /\ x.tahap \in {"kirim", "cek"} => x \in Kirim
         /\ x.tahap = "jawab" => x \in Jawab
         /\ x.tahap \notin {"putar", "kirim", "cek", "jawab"} => x = Diam
BY DEF KerjaTab, Putar, Kirim, Jawab, Diam

LEMMA DiamTab == Diam \in KerjaTab /\ Diam.tahap = "diam"
BY DEF KerjaTab, Diam

\* What goes into and out of a tab.
LEMMA IsiTab ==
  ASSUME TypeOK, NEW t \in Tab
  PROVE  /\ tab[t] \in KerjaTab
         /\ tab[t].tahap \in {"putar", "kirim", "cek", "jawab"} => tab[t].sisa \in SUBSET Rekaman
         /\ tab[t].tahap \in {"kirim", "cek", "jawab"} =>
              tab[t].kini \in Rekaman /\ tab[t].kini.isi \in Form \cup {Kosong}
<1>1. tab[t] \in KerjaTab
  BY DEF TypeOK, KerjaTab
<1> QED
  BY <1>1, BentukTab DEF Putar, Kirim, Jawab, Rekaman

\* Of the records that are left, one comes first.
LEMMA TerdepanAda ==
  ASSUME NEW S \in SUBSET Rekaman, S # {}
  PROVE  Terdepan(S) \in S
<1> DEFINE N == {r.id : r \in S}
<1>1. N \in SUBSET Nat /\ N # {}
  BY DEF Rekaman
<1>2. PICK m \in N : \A n \in N : m <= n
  BY <1>1, Terkecil
<1>3. \E r \in S : \A s \in S : r.id <= s.id
  BY <1>2
<1> QED
  BY <1>3 DEF Terdepan

-----------------------------------------------------------------------------
(* What the steps have in common *)

\* One tab goes on as x.
Jadi(t, x) ==
  /\ x \in KerjaTab /\ tab' \in [Tab -> KerjaTab] /\ tab'[t] = x
  /\ \A u \in Tab \ {t} : tab'[u] = tab[u]

LEMMA SatuJadi ==
  ASSUME TypeOK, NEW t \in Tab, NEW x \in KerjaTab, tab' = [tab EXCEPT ![t] = x]
  PROVE  Jadi(t, x)
BY DEF TypeOK, Jadi, KerjaTab

\* What the server and the reasons hold only grows.
Tumbuh ==
  /\ \A f \in Form : nota[f] <= nota'[f]
  /\ \A f \in Form : sebab[f] \subseteq sebab'[f]

LEMMA TerjawabTetap ==
  ASSUME TypeOK, TypeOK', Tumbuh, NEW f \in Form \cup {Kosong}, Terjawab(f)
  PROVE  Terjawab(f)'
<1>1. CASE f = Kosong
  BY <1>1 DEF Terjawab
<1>2. CASE f \in Form
  BY <1>2 DEF TypeOK, Tumbuh, Terjawab
<1> QED
  BY <1>1, <1>2

\* The tabs other than the one that goes on have the answers they had.
LEMMA JawabLangkah ==
  ASSUME TypeOK, TypeOK', Tumbuh, JawabBeralasan, NEW t \in Tab, NEW x, Jadi(t, x),
         x.tahap = "jawab" /\ x.hasil \in {"ok", "drop"} => Terjawab(x.kini.isi)'
  PROVE  JawabBeralasan'
<1> SUFFICES ASSUME NEW u \in Tab, tab'[u].tahap = "jawab", tab'[u].hasil \in {"ok", "drop"}
             PROVE  Terjawab(tab[u].kini.isi)'
  BY DEF JawabBeralasan
<1>1. CASE u = t
  BY <1>1 DEF Jadi, Terjawab
<1>2. CASE u # t
  <2>1. tab'[u] = tab[u]
    BY <1>2 DEF Jadi
  <2>2. PICK f \in Form \cup {Kosong} : f = tab[u].kini.isi
    BY <2>1, IsiTab
  <2>3. Terjawab(f)
    BY <2>1, <2>2 DEF JawabBeralasan
  <2>4. Terjawab(f)'
    BY <2>3, TerjawabTetap
  <2> QED
    BY <2>1, <2>2, <2>4 DEF Terjawab
<1> QED
  BY <1>1, <1>2

LEMMA JawabSama ==
  ASSUME TypeOK, TypeOK', Tumbuh, JawabBeralasan, tab' = tab
  PROVE  JawabBeralasan'
<1> SUFFICES ASSUME NEW u \in Tab, tab[u].tahap = "jawab", tab[u].hasil \in {"ok", "drop"}
             PROVE  Terjawab(tab[u].kini.isi)'
  BY DEF JawabBeralasan
<1>1. PICK f \in Form \cup {Kosong} : f = tab[u].kini.isi
  BY IsiTab
<1>2. Terjawab(f)
  BY <1>1 DEF JawabBeralasan
<1>3. Terjawab(f)'
  BY <1>2, TerjawabTetap
<1> QED
  BY <1>1, <1>3 DEF Terjawab

\* What is kept stays in the queue, or leaves it with an answer.
LEMMA TitipLangkah ==
  ASSUME TypeOK, TypeOK', Tumbuh, TitipTersimpan,
         \A f \in Form : DiAntrean(f) => DiAntrean(f)' \/ Terjawab(f)',
         \A f \in titip' : f \in titip \/ Terjawab(f)' \/ DiAntrean(f)'
  PROVE  TitipTersimpan'
<1> SUFFICES ASSUME NEW f \in titip'
             PROVE  Terjawab(f)' \/ DiAntrean(f)'
  BY DEF TitipTersimpan
<1>1. f \in Form
  BY DEF TypeOK
<1> QED
  BY <1>1, TerjawabTetap DEF TitipTersimpan

\* A step of a tab that leaves the queue, the server and the user alone.
LEMMA LangkahTab ==
  ASSUME InvSinkron, NEW t \in Tab, NEW x, Jadi(t, x),
         sambung' \in BOOLEAN, gangguan' \in Nat, lepas' \subseteq Form, lembar' \in [Form -> Nat],
         UNCHANGED <<sw, antrean, urut, nota, titip, sebab>>,
         x.tahap = "jawab" /\ x.hasil \in {"ok", "drop"} => Terjawab(x.kini.isi)
  PROVE  InvSinkron'
<1>1. TypeOK'
  BY DEF InvSinkron, TypeOK, Jadi, KerjaTab
<1>2. NotaSekali'
  BY DEF InvSinkron, NotaSekali
<1>3. Tumbuh
  BY DEF InvSinkron, TypeOK, Tumbuh
<1>4. JawabBeralasan'
  <2>1. x.tahap = "jawab" /\ x.hasil \in {"ok", "drop"} => Terjawab(x.kini.isi)'
    BY DEF Terjawab
  <2> QED
    BY <1>1, <1>3, <2>1, JawabLangkah DEF InvSinkron
<1>5. TitipTersimpan'
  <2>1. \A f \in Form : DiAntrean(f) => DiAntrean(f)'
    BY DEF DiAntrean
  <2> QED
    BY <1>1, <1>3, <2>1, TitipLangkah DEF InvSinkron
<1> QED
  BY <1>1, <1>2, <1>4, <1>5 DEF InvSinkron

-----------------------------------------------------------------------------
(* The steps *)

LEMMA LangkahTitip ==
  ASSUME InvSinkron, NEW f \in Form, Titip(f)
  PROVE  InvSinkron'
<1> DEFINE r == [id |-> urut + 1, isi |-> f]
<1>1. r \in Rekaman /\ r.isi = f /\ urut + 1 \in Nat
  BY DEF InvSinkron, TypeOK, Rekaman
<1>2. /\ antrean' = antrean \cup {r} /\ urut' = urut + 1 /\ titip' = titip \cup {f}
      /\ lembar' = [lembar EXCEPT ![f] = 0]
      /\ UNCHANGED <<sambung, sw, tab, lepas, nota, sebab, gangguan>>
  BY DEF Titip
<1> HIDE DEF r
<1>3. TypeOK'
  BY <1>1, <1>2 DEF InvSinkron, TypeOK
<1>4. Tumbuh
  BY <1>2 DEF InvSinkron, TypeOK, Tumbuh
<1>5. NotaSekali' /\ JawabBeralasan'
  BY <1>2, <1>3, <1>4, JawabSama DEF InvSinkron, NotaSekali
<1>6. TitipTersimpan'
  BY <1>1, <1>2, <1>3, <1>4, TitipLangkah DEF InvSinkron, DiAntrean
<1> QED
  BY <1>3, <1>5, <1>6 DEF InvSinkron

LEMMA LangkahSubmit ==
  ASSUME InvSinkron, NEW t \in Tab, NEW f \in Form, Submit(t, f)
  PROVE  InvSinkron'
<1>1. PICK x \in KerjaTab : x = [tahap |-> "kirim", sisa |-> {}, kini |-> Langsung(f)]
  <2>1. Langsung(f) \in Rekaman
    BY DEF Langsung, Rekaman
  <2> QED
    BY <2>1 DEF KerjaTab, Kirim
<1>2. x.tahap = "kirim"
  BY <1>1
<1>3. Jadi(t, x)
  BY <1>1, SatuJadi DEF Submit, InvSinkron
<1>4. lembar' \in [Form -> Nat]
  BY DEF Submit, InvSinkron, TypeOK
<1> QED
  BY <1>2, <1>3, <1>4, LangkahTab DEF Submit, InvSinkron, TypeOK

LEMMA LangkahMulaiFlush ==
  ASSUME InvSinkron, NEW t \in Tab, MulaiFlush(t)
  PROVE  InvSinkron'
<1>1. PICK x \in KerjaTab : x = [tahap |-> "putar", sisa |-> antrean]
  BY DEF KerjaTab, Putar, InvSinkron, TypeOK
<1>2. Jadi(t, x) /\ x.tahap = "putar"
  BY <1>1, SatuJadi DEF MulaiFlush, InvSinkron
<1> QED
  BY <1>2, LangkahTab DEF MulaiFlush, catatan, InvSinkron, TypeOK

LEMMA LangkahLanjut ==
  ASSUME InvSinkron, NEW t \in Tab, Lanjut(t)
  PROVE  InvSinkron'
<1>1. tab[t].sisa \in SUBSET Rekaman
  BY IsiTab DEF Lanjut, InvSinkron
<1>2. PICK x \in KerjaTab : x.tahap # "jawab" /\ tab' = [tab EXCEPT ![t] = x]
  <2>1. CASE tab[t].sisa = {} /\ tab' = [tab EXCEPT ![t] = Diam]
    BY <2>1, DiamTab
  <2>2. CASE /\ tab[t].sisa # {}
             /\ LET r == Terdepan(tab[t].sisa) IN
                tab' = [tab EXCEPT ![t] = [tahap |-> "kirim", sisa |-> tab[t].sisa \ {r}, kini |-> r]]
    <3>1. PICK r \in Rekaman : r = Terdepan(tab[t].sisa)
      BY <1>1, <2>2, TerdepanAda
    <3>2. PICK x \in Kirim : x = [tahap |-> "kirim", sisa |-> tab[t].sisa \ {r}, kini |-> r]
      BY <1>1 DEF Kirim
    <3>3. x.tahap # "jawab" /\ x \in KerjaTab
      BY <3>2 DEF KerjaTab
    <3> QED
      BY <2>2, <3>1, <3>2, <3>3
  <2> QED
    BY <2>1, <2>2 DEF Lanjut
<1>3. Jadi(t, x)
  BY <1>2, SatuJadi DEF InvSinkron
<1> QED
  BY <1>2, <1>3, LangkahTab DEF Lanjut, catatan, InvSinkron, TypeOK

\* The answer a tab was given.
LEMMA DijawabJadi ==
  ASSUME TypeOK, NEW t \in Tab, tab[t].tahap \in {"kirim", "cek"}, NEW h \in Hasil, Dijawab(t, h)
  PROVE  \E x \in KerjaTab : /\ Jadi(t, x) /\ x.tahap = "jawab" /\ x.hasil = h
                             /\ x.kini = tab[t].kini /\ x.sisa = tab[t].sisa
<1>1. PICK x \in Jawab : x = [tahap |-> "jawab", sisa |-> tab[t].sisa, kini |-> tab[t].kini, hasil |-> h]
  BY IsiTab DEF Jawab
<1>2. Jadi(t, x)
  BY <1>1, SatuJadi DEF Dijawab, KerjaTab
<1>3. x.tahap = "jawab" /\ x.hasil = h /\ x.kini = tab[t].kini /\ x.sisa = tab[t].sisa
  BY <1>1
<1> QED
  BY <1>2, <1>3 DEF KerjaTab

LEMMA LangkahTerima ==
  ASSUME InvSinkron, NEW t \in Tab, Terima(t)
  PROVE  InvSinkron'
<1>1. PICK x \in KerjaTab : x.tahap # "jawab" /\ tab' = [tab EXCEPT ![t] = x]
  <2>1. PICK y \in KerjaTab : y = [tahap |-> "putar", sisa |-> tab[t].sisa]
    BY IsiTab DEF Terima, InvSinkron, KerjaTab, Putar
  <2>2. tab' = [tab EXCEPT ![t] = IF tab[t].hasil = "network" THEN Diam ELSE y]
    BY <2>1 DEF Terima
  <2>3. y.tahap # "jawab"
    BY <2>1
  <2> QED
    BY <2>2, <2>3, DiamTab
<1>2. Jadi(t, x)
  BY <1>1, SatuJadi DEF InvSinkron
<1>3. UNCHANGED <<sambung, sw, urut, lepas, nota, lembar, titip, sebab, gangguan>>
  BY DEF Terima, catatan
<1>4. antrean' = IF tab[t].hasil \in {"ok", "drop"} THEN antrean \ {tab[t].kini} ELSE antrean
  BY DEF Terima
<1>5. TypeOK'
  BY <1>2, <1>3, <1>4 DEF InvSinkron, TypeOK, Jadi, KerjaTab
<1>6. Tumbuh /\ NotaSekali'
  BY <1>3 DEF InvSinkron, TypeOK, Tumbuh, NotaSekali
<1>7. JawabBeralasan'
  BY <1>1, <1>2, <1>5, <1>6, JawabLangkah DEF InvSinkron
<1>8. TitipTersimpan'
  <2>1. ASSUME NEW f \in Form, DiAntrean(f)
        PROVE  DiAntrean(f)' \/ Terjawab(f)'
    <3>1. PICK r \in antrean : r.isi = f
      BY <2>1 DEF DiAntrean
    <3>2. CASE r \in antrean'
      BY <3>1, <3>2 DEF DiAntrean
    <3>3. CASE r \notin antrean'
      <4>1. r = tab[t].kini /\ tab[t].hasil \in {"ok", "drop"} /\ tab[t].tahap = "jawab"
        BY <1>4, <3>3 DEF Terima
      <4>2. Terjawab(tab[t].kini.isi)
        BY <4>1 DEF InvSinkron, JawabBeralasan
      <4>3. Terjawab(f)
        BY <3>1, <4>1, <4>2
      <4> QED
        BY <1>3, <4>3 DEF Terjawab
    <3> QED
      BY <3>2, <3>3
  <2> QED
    BY <1>3, <1>5, <1>6, <2>1, TitipLangkah DEF InvSinkron
<1> QED
  BY <1>5, <1>6, <1>7, <1>8 DEF InvSinkron

LEMMA LangkahCekNota ==
  ASSUME InvSinkron, NEW t \in Tab, CekNota(t)
  PROVE  InvSinkron'
<1>1. tab[t].tahap = "kirim" /\ tab[t] \in Kirim
  BY IsiTab, BentukTab DEF CekNota, InvSinkron
<1>2. CASE nota[tab[t].kini.isi] > 0
  <2>1. Terjawab(tab[t].kini.isi)
    BY <1>2 DEF Terjawab
  <2>2. Dijawab(t, "ok") /\ "ok" \in Hasil
    BY <1>2 DEF CekNota, Hasil
  <2>3. PICK x \in KerjaTab : Jadi(t, x) /\ x.kini = tab[t].kini
    BY <1>1, <2>2, DijawabJadi DEF InvSinkron
  <2> QED
    BY <2>1, <2>3, LangkahTab DEF CekNota, catatan, InvSinkron, TypeOK
<1>3. CASE ~(nota[tab[t].kini.isi] > 0)
  <2>1. PICK x \in Kirim : x = [tab[t] EXCEPT !.tahap = "cek"]
    BY <1>1 DEF Kirim
  <2>2. x.tahap = "cek" /\ x \in KerjaTab
    BY <1>1, <2>1 DEF Kirim, KerjaTab
  <2>3. Jadi(t, x)
    BY <1>3, <2>1, <2>2, SatuJadi DEF CekNota, InvSinkron
  <2> QED
    BY <2>2, <2>3, LangkahTab DEF CekNota, catatan, InvSinkron, TypeOK
<1> QED
  BY <1>2, <1>3

\* A step of a tab that is answered with h, where the server stores or refuses.
LEMMA LangkahDijawab ==
  ASSUME InvSinkron, NEW t \in Tab, tab[t].tahap \in {"kirim", "cek"}, NEW h \in Hasil, Dijawab(t, h),
         nota' \in [Form -> Nat], NotaSekali', Tumbuh,
         sebab' \in [Form -> SUBSET {"ditolak", "kosong", "keluar"}],
         antrean \subseteq antrean', antrean' \subseteq Rekaman, urut' \in Nat,
         titip' \subseteq Form, \A g \in titip' \ titip : Terjawab(g)',
         gangguan' \in Nat, lepas' \subseteq Form,
         UNCHANGED <<sambung, sw, lembar>>,
         NEW f \in Form \cup {Kosong}, f = tab[t].kini.isi,
         h \in {"ok", "drop"} => Terjawab(f)'
  PROVE  InvSinkron'
<1>1. PICK x \in KerjaTab : Jadi(t, x) /\ x.tahap = "jawab" /\ x.hasil = h /\ x.kini = tab[t].kini
  BY DijawabJadi DEF InvSinkron
<1>2. TypeOK'
  BY <1>1 DEF InvSinkron, TypeOK, Jadi, KerjaTab
<1>3. JawabBeralasan'
  <2>1. x.tahap = "jawab" /\ x.hasil \in {"ok", "drop"} => Terjawab(x.kini.isi)'
    BY <1>1 DEF Terjawab
  <2> QED
    BY <1>1, <1>2, <2>1, JawabLangkah DEF InvSinkron
<1>4. TitipTersimpan'
  <2>1. \A g \in Form : DiAntrean(g) => DiAntrean(g)'
    BY DEF DiAntrean
  <2> QED
    BY <1>2, <2>1, TitipLangkah DEF InvSinkron
<1> QED
  BY <1>2, <1>3, <1>4 DEF InvSinkron

LEMMA LangkahSimpan ==
  ASSUME InvSinkron, NEW t \in Tab, Simpan(t)
  PROVE  InvSinkron'
<1>1. PICK f \in Form \cup {Kosong} : f = tab[t].kini.isi
  BY IsiTab DEF Simpan, InvSinkron
<1>2. UNCHANGED <<sambung, sw, antrean, urut, lepas, lembar, titip, sebab, gangguan>>
  BY DEF Simpan, catatan
<1>3. CASE nota[f] = 0
  <2>1. Dijawab(t, "ok") /\ nota' = [nota EXCEPT ![f] = 1] /\ "ok" \in Hasil
    BY <1>1, <1>3 DEF Simpan, Hasil
  <2>2. nota' \in [Form -> Nat] /\ NotaSekali'
    <3>1. nota \in [Form -> Nat] /\ \A g \in Form : nota[g] <= 1
      BY DEF InvSinkron, TypeOK, NotaSekali
    <3>2. nota' \in [Form -> Nat]
      BY <2>1, <3>1
    <3>3. \A g \in Form : nota'[g] = 1 \/ nota'[g] = nota[g]
      BY <2>1, <3>1
    <3> QED
      BY <3>1, <3>2, <3>3 DEF NotaSekali
  <2>3. Tumbuh
    <3>1. \A g \in Form : nota[g] \in Nat
      BY DEF InvSinkron, TypeOK
    <3>2. \A g \in Form : nota'[g] = IF g = f THEN 1 ELSE nota[g]
      BY <2>1 DEF InvSinkron, TypeOK
    <3> QED
      BY <1>2, <1>3, <3>1, <3>2 DEF Tumbuh
  <2>4. Terjawab(f)'
    BY <2>1 DEF InvSinkron, TypeOK, Terjawab
  <2> QED
    BY <1>1, <2>4, <1>2, <2>1, <2>2, <2>3, LangkahDijawab DEF Simpan, InvSinkron, TypeOK
<1>4. CASE nota[f] # 0
  <2>1. Dijawab(t, "drop") /\ nota' = nota /\ "drop" \in Hasil
    BY <1>1, <1>4 DEF Simpan, Hasil
  <2>2. NotaSekali' /\ Tumbuh
    BY <1>2, <2>1 DEF InvSinkron, TypeOK, NotaSekali, Tumbuh
  <2>3. Terjawab(f)'
    BY <1>4, <2>1 DEF InvSinkron, TypeOK, Terjawab
  <2> QED
    BY <1>1, <1>2, <2>1, <2>2, <2>3, LangkahDijawab DEF Simpan, InvSinkron, TypeOK
<1> QED
  BY <1>3, <1>4

\* A reason that is added to the form a tab sends.
LEMMA SebabTambah ==
  ASSUME TypeOK, NEW f \in Form \cup {Kosong}, NEW a \in {"ditolak", "kosong", "keluar"}, nota' = nota,
         sebab' = [g \in Form |-> IF g = f THEN sebab[g] \cup {a} ELSE sebab[g]]
  PROVE  /\ sebab' \in [Form -> SUBSET {"ditolak", "kosong", "keluar"}]
         /\ Tumbuh /\ Terjawab(f)'
<1>1. sebab' \in [Form -> SUBSET {"ditolak", "kosong", "keluar"}]
  BY DEF TypeOK
<1>2. Tumbuh
  BY DEF TypeOK, Tumbuh
<1>3. Terjawab(f)'
  BY DEF Terjawab
<1> QED
  BY <1>1, <1>2, <1>3

LEMMA LangkahTolak ==
  ASSUME InvSinkron, NEW t \in Tab, Tolak(t)
  PROVE  InvSinkron'
<1>1. PICK f \in Form \cup {Kosong} : f = tab[t].kini.isi
  BY IsiTab DEF Tolak, InvSinkron
<1>2. /\ Dijawab(t, "drop") /\ "drop" \in Hasil
      /\ UNCHANGED <<sambung, sw, antrean, urut, lepas, nota, lembar, titip, gangguan>>
      /\ sebab' = [g \in Form |-> IF g = f THEN sebab[g] \cup {"ditolak"} ELSE sebab[g]]
  BY <1>1 DEF Tolak, Hasil
<1>3. /\ sebab' \in [Form -> SUBSET {"ditolak", "kosong", "keluar"}]
      /\ Tumbuh /\ Terjawab(f)'
  BY <1>2, SebabTambah DEF InvSinkron
<1>4. NotaSekali'
  BY <1>2 DEF InvSinkron, NotaSekali
<1> QED
  BY <1>1, <1>2, <1>3, <1>4, LangkahDijawab DEF Tolak, InvSinkron, TypeOK

LEMMA LangkahGalat ==
  ASSUME InvSinkron, NEW t \in Tab, Galat(t)
  PROVE  InvSinkron'
<1>1. /\ Dijawab(t, "retry") /\ "retry" \in Hasil /\ gangguan' = gangguan + 1
      /\ UNCHANGED <<sambung, sw, antrean, urut, lepas, nota, lembar, titip, sebab>>
  BY DEF Galat, Hasil, catatan
<1>2. NotaSekali' /\ Tumbuh
  BY <1>1 DEF InvSinkron, TypeOK, NotaSekali, Tumbuh
<1>3. PICK f \in Form \cup {Kosong} : f = tab[t].kini.isi
  BY IsiTab DEF Galat, InvSinkron
<1> QED
  BY <1>1, <1>2, <1>3, LangkahDijawab DEF Galat, InvSinkron, TypeOK

LEMMA LepasForm ==
  ASSUME TypeOK, NEW f \in Form \cup {Kosong}, Lepaskan(f)
  PROVE  lepas' \subseteq Form /\ lepas' \subseteq lepas \cup {f}
BY DEF TypeOK, Lepaskan

LEMMA LangkahPutus ==
  ASSUME InvSinkron, NEW t \in Tab, Putus(t)
  PROVE  InvSinkron'
<1>1. PICK f \in Form \cup {Kosong} : f = tab[t].kini.isi
  BY IsiTab DEF Putus, InvSinkron
<1>2. lepas' \subseteq Form
  BY <1>1, LepasForm DEF Putus, InvSinkron
<1>3. UNCHANGED <<sambung, sw, nota, lembar>> /\ tab[t].tahap \in {"kirim", "cek"}
  BY DEF Putus
<1>4. gangguan' \in Nat
  BY DEF Putus, InvSinkron, TypeOK
<1>5. CASE Antrekan(t)
  <2> DEFINE r == [id |-> urut + 1, isi |-> Kosong]
  <2>1. r \in Rekaman /\ urut + 1 \in Nat
    BY DEF InvSinkron, TypeOK, Rekaman
  <2>2. /\ antrean' = antrean \cup {r} /\ urut' = urut + 1 /\ titip' = titip \cup ({f} \ {Kosong})
        /\ sebab' = [g \in Form |-> IF g = f THEN sebab[g] \cup {"kosong"} ELSE sebab[g]]
        /\ Dijawab(t, "ok") /\ "ok" \in Hasil
    BY <1>1, <1>5 DEF Antrekan, Hasil
  <2> HIDE DEF r
  <2>3. /\ sebab' \in [Form -> SUBSET {"ditolak", "kosong", "keluar"}]
        /\ Tumbuh /\ Terjawab(f)'
    BY <1>3, <2>2, SebabTambah DEF InvSinkron
  <2>4. NotaSekali'
    BY <1>3 DEF InvSinkron, NotaSekali
  <2>5. titip' \subseteq Form /\ \A g \in titip' \ titip : Terjawab(g)'
    BY <2>2, <2>3 DEF InvSinkron, TypeOK
  <2>6. nota' \in [Form -> Nat] /\ antrean' \subseteq Rekaman
    BY <1>3, <2>1, <2>2 DEF InvSinkron, TypeOK
  <2> QED
    BY <1>1, <1>2, <1>3, <1>4, <2>1, <2>2, <2>3, <2>4, <2>5, <2>6, LangkahDijawab
<1>6. CASE Dijawab(t, "network") /\ UNCHANGED <<antrean, urut, titip, sebab>>
  <2>1. NotaSekali' /\ Tumbuh
    BY <1>3, <1>6 DEF InvSinkron, TypeOK, NotaSekali, Tumbuh
  <2>2. "network" \in Hasil
    BY DEF Hasil
  <2> QED
    BY <1>1, <1>2, <1>3, <1>4, <1>6, <2>1, <2>2, LangkahDijawab DEF InvSinkron, TypeOK
<1> QED
  BY <1>5, <1>6 DEF Putus

LEMMA LangkahTutupTab ==
  ASSUME InvSinkron, NEW t \in Tab, TutupTab(t)
  PROVE  InvSinkron'
<1>1. Jadi(t, Diam)
  BY DiamTab, SatuJadi DEF TutupTab, InvSinkron
<1>2. lepas' \subseteq Form
  <2>1. CASE tab[t].tahap \in {"kirim", "cek"}
    <3>1. PICK f \in Form \cup {Kosong} : f = tab[t].kini.isi
      BY <2>1, IsiTab DEF InvSinkron
    <3> QED
      BY <2>1, <3>1, LepasForm DEF TutupTab, InvSinkron
  <2>2. CASE tab[t].tahap \notin {"kirim", "cek"}
    BY <2>2 DEF TutupTab, InvSinkron, TypeOK
  <2> QED
    BY <2>1, <2>2
<1> QED
  BY <1>1, <1>2, DiamTab, LangkahTab DEF TutupTab, catatan, InvSinkron, TypeOK

LEMMA LangkahMenyusul ==
  ASSUME InvSinkron, NEW f \in Form, Menyusul(f)
  PROVE  InvSinkron'
<1>1. UNCHANGED <<sambung, sw, antrean, urut, tab, lembar, titip, gangguan>> /\ lepas' = lepas \ {f}
  BY DEF Menyusul
<1>2. \/ nota' = [nota EXCEPT ![f] = 1] /\ sebab' = sebab
      \/ nota' = nota /\ sebab' = [sebab EXCEPT ![f] = sebab[f] \cup {"ditolak"}]
  BY DEF Menyusul
<1>3. TypeOK' /\ NotaSekali'
  BY <1>1, <1>2 DEF InvSinkron, TypeOK, NotaSekali
<1>4. Tumbuh
  <2>1. \A g \in Form : nota[g] \in Nat /\ nota[g] <= 1
    BY DEF InvSinkron, TypeOK, NotaSekali
  <2> QED
    BY <1>2, <2>1 DEF InvSinkron, TypeOK, Tumbuh
<1>5. JawabBeralasan'
  BY <1>1, <1>3, <1>4, JawabSama DEF InvSinkron
<1>6. TitipTersimpan'
  <2>1. \A g \in Form : DiAntrean(g) => DiAntrean(g)'
    BY <1>1 DEF DiAntrean
  <2> QED
    BY <1>1, <1>3, <1>4, <2>1, TitipLangkah DEF InvSinkron
<1> QED
  BY <1>3, <1>5, <1>6 DEF InvSinkron

LEMMA LangkahKeluar ==
  ASSUME InvSinkron, Keluar
  PROVE  InvSinkron'
<1>1. UNCHANGED <<sambung, sw, urut, tab, lepas, nota, lembar, titip, gangguan>> /\ antrean' = {}
  BY DEF Keluar
<1>2. sebab' = [f \in Form |-> IF DiAntrean(f) THEN sebab[f] \cup {"keluar"} ELSE sebab[f]]
  BY DEF Keluar
<1>3. TypeOK' /\ NotaSekali'
  BY <1>1, <1>2 DEF InvSinkron, TypeOK, NotaSekali
<1>4. Tumbuh
  BY <1>1, <1>2 DEF InvSinkron, TypeOK, Tumbuh
<1>5. JawabBeralasan'
  BY <1>1, <1>3, <1>4, JawabSama DEF InvSinkron
<1>6. TitipTersimpan'
  <2>1. \A f \in Form : DiAntrean(f) => Terjawab(f)'
    BY <1>2 DEF Terjawab
  <2> QED
    BY <1>1, <1>3, <1>4, <2>1, TitipLangkah DEF InvSinkron
<1> QED
  BY <1>3, <1>5, <1>6 DEF InvSinkron

\* The connection comes and goes, or nothing happens.
LEMMA LangkahSambungan ==
  ASSUME InvSinkron, sambung' \in BOOLEAN, gangguan' \in Nat,
         UNCHANGED <<sw, antrean, urut, tab, lepas, nota, lembar, titip, sebab>>
  PROVE  InvSinkron'
<1>1. TypeOK'
  BY DEF InvSinkron, TypeOK
<1>2. NotaSekali' /\ JawabBeralasan' /\ TitipTersimpan'
  BY DEF InvSinkron, NotaSekali, JawabBeralasan, TitipTersimpan, Terjawab, DiAntrean
<1> QED
  BY <1>1, <1>2 DEF InvSinkron

-----------------------------------------------------------------------------
(* Theorems *)

LEMMA SinkronAwal == Init => InvSinkron
<1> SUFFICES ASSUME Init
             PROVE  InvSinkron
  OBVIOUS
<1>1. TypeOK
  BY SinkronAssumption DEF Init, TypeOK
<1>2. \A t \in Tab : tab[t].tahap = "diam"
  BY DiamTab DEF Init
<1> QED
  BY <1>1, <1>2 DEF Init, InvSinkron, NotaSekali, JawabBeralasan, TitipTersimpan

LEMMA SinkronLangkah == InvSinkron /\ [Next]_vars => InvSinkron'
<1> SUFFICES ASSUME InvSinkron, [Next]_vars
             PROVE  InvSinkron'
  OBVIOUS
<1>1. ASSUME NEW t \in Tab, Halaman(t) \/ Server(t) \/ Galat(t) \/ Putus(t) \/ TutupTab(t)
      PROVE  InvSinkron'
  <2>1. CASE Halaman(t)
    BY <2>1, LangkahMulaiFlush, LangkahLanjut, LangkahTerima DEF Halaman
  <2>2. CASE Server(t)
    BY <2>2, LangkahCekNota, LangkahSimpan, LangkahTolak DEF Server
  <2>3. CASE Galat(t) \/ Putus(t) \/ TutupTab(t)
    BY <2>3, LangkahGalat, LangkahPutus, LangkahTutupTab
  <2> QED
    BY <1>1, <2>1, <2>2, <2>3
<1>2. ASSUME NEW f \in Form, Titip(f) \/ Menyusul(f) \/ \E t \in Tab : Submit(t, f)
      PROVE  InvSinkron'
  BY <1>2, LangkahTitip, LangkahMenyusul, LangkahSubmit
<1>3. CASE Terputus \/ Tersambung \/ UNCHANGED vars
  <2>1. /\ sambung' = FALSE \/ sambung' = TRUE \/ sambung' = sambung
        /\ gangguan' = gangguan + 1 \/ gangguan' = gangguan
    BY <1>3 DEF Terputus, Tersambung, vars
  <2>2. sambung' \in BOOLEAN /\ gangguan' \in Nat
    <3>1. sambung \in BOOLEAN /\ gangguan \in Nat
      BY DEF InvSinkron, TypeOK
    <3>2. sambung' \in BOOLEAN
      BY <2>1, <3>1, Zenon
    <3>3. gangguan' \in Nat
      BY <2>1, <3>1
    <3> QED
      BY <3>2, <3>3
  <2>3. UNCHANGED <<sw, antrean, urut, tab, lepas, nota, lembar, titip, sebab>>
    BY <1>3 DEF Terputus, Tersambung, vars, catatan
  <2> QED
    BY <2>2, <2>3, LangkahSambungan
<1>4. CASE Keluar
  BY <1>4, LangkahKeluar
<1> QED
  BY <1>1, <1>2, <1>3, <1>4 DEF Next

LEMMA SinkronInvarian == Spec => []InvSinkron
BY SinkronAwal, SinkronLangkah, PTL DEF Spec

\* The queue, the tabs and the server are always of their types.
THEOREM SinkronTipe == Spec => []TypeOK
<1>1. InvSinkron => TypeOK
  BY DEF InvSinkron
<1> QED
  BY <1>1, SinkronInvarian, PTL

\* However many tabs flush the queue and however often a form is submitted again, the
\* server stores it once.
THEOREM SinkronNotaSekali == Spec => []NotaSekali
<1>1. InvSinkron => NotaSekali
  BY DEF InvSinkron
<1> QED
  BY <1>1, SinkronInvarian, PTL

\* A form the cashier was told is kept is lost only for one of the reasons.
THEOREM SinkronHilang == Spec => []HilangBeralasan
<1>1. InvSinkron => HilangBeralasan
  <2> SUFFICES ASSUME InvSinkron, NEW f \in Form, Hilang(f)
               PROVE  sebab[f] # {}
    BY DEF HilangBeralasan
  <2>1. f \in titip /\ nota[f] = 0 /\ ~DiAntrean(f)
    BY DEF Hilang, Dipegang
  <2>2. Terjawab(f)
    BY <2>1 DEF InvSinkron, TitipTersimpan
  <2> QED
    BY <2>1, <2>2, SinkronAssumption DEF Terjawab
<1> QED
  BY <1>1, SinkronInvarian, PTL

-----------------------------------------------------------------------------
(* Every step is one the promise allows *)

\* Where a form is, by who holds it.
Letak(n, dititip, dipegang) ==
  IF n > 0 THEN "tersimpan"
  ELSE IF ~dititip THEN "baru" ELSE IF dipegang THEN "dititip" ELSE "hilang"

LEMMA StatusLetak ==
  ASSUME TypeOK, NEW f \in Form
  PROVE  Status(f) = Letak(nota[f], f \in titip, Dipegang(f))
<1>1. nota[f] \in Nat
  BY DEF TypeOK
<1> QED
  BY <1>1 DEF Status, Letak, Hilang

LEMMA StatusLetakNanti ==
  ASSUME TypeOK', NEW f \in Form
  PROVE  Status(f)' = Letak(nota'[f], f \in titip', Dipegang(f)')
<1>1. nota'[f] \in Nat
  BY DEF TypeOK
<1> QED
  BY <1>1 DEF Status, Letak, Hilang

\* Holders let go of forms: those that were kept may be lost, all at once.
LEMMA JanjiKosongkan ==
  ASSUME TypeOK, TypeOK', nota' = nota, titip' = titip,
         \A f \in Form : Dipegang(f)' => Dipegang(f)
  PROVE  Janji!Next
<1> DEFINE F == {f \in Form : Status(f) = "dititip" /\ Status(f)' = "hilang"}
<1>1. \A f \in Form : f \in F \/ Status(f)' = Status(f)
  BY StatusLetak, StatusLetakNanti DEF Letak
<1>2. [f \in Form |-> Status(f)]' = [f \in Form |-> IF f \in F THEN "hilang" ELSE Status(f)]
  BY <1>1
<1>3. F \in SUBSET {f \in Form : [g \in Form |-> Status(g)][f] = "dititip"}
  OBVIOUS
<1> HIDE DEF F
<1>4. Janji!Kosongkan
  BY <1>2, <1>3 DEF Janji!Kosongkan
<1> QED
  BY <1>4 DEF Janji!Next

\* One form goes on, and none that is stored.
LEMMA JanjiSatu ==
  ASSUME TypeOK, TypeOK', NEW f \in Form, \A g \in Form \ {f} : Status(g)' = Status(g),
         nota[f] > 0 => nota'[f] > 0,
         Status(f)' = Status(f) \/ nota'[f] > 0 \/ f \in titip'
  PROVE  [Janji!Next]_[g \in Form |-> Status(g)]
<1> DEFINE s == [g \in Form |-> Status(g)]
<1>1. Status(f) = "tersimpan" <=> nota[f] > 0
  BY StatusLetak DEF Letak
<1>2. Status(f)' = "tersimpan" <=> nota'[f] > 0
  BY StatusLetakNanti DEF Letak
<1>3. Status(f) \in {"tersimpan", "baru", "dititip", "hilang"}
  BY StatusLetak DEF Letak
<1>4. f \in titip' => Status(f)' \in {"tersimpan", "dititip", "hilang"}
  BY StatusLetakNanti DEF Letak
<1>5. PICK x : x = Status(f)'
  OBVIOUS
<1>6. s' = [s EXCEPT ![f] = x] /\ s[f] = Status(f)
  BY <1>5
<1> HIDE DEF s
<1>7. CASE x = s[f]
  BY <1>6, <1>7 DEF s
<1>8. CASE x = "tersimpan" /\ s[f] # "tersimpan"
  <2>1. Janji!Simpan(f)
    BY <1>6, <1>8 DEF Janji!Simpan, s
  <2> QED
    BY <2>1 DEF Janji!Next
<1>9. CASE x = "hilang" /\ s[f] # "tersimpan"
  <2>1. Janji!Hilangkan(f)
    BY <1>6, <1>9 DEF Janji!Hilangkan, s
  <2> QED
    BY <2>1 DEF Janji!Next
<1>10. CASE x = "dititip" /\ s[f] \in {"baru", "hilang"}
  <2>1. Janji!Titip(f)
    BY <1>6, <1>10 DEF Janji!Titip, s
  <2> QED
    BY <2>1 DEF Janji!Next
<1> QED
  BY <1>1, <1>2, <1>3, <1>4, <1>5, <1>6, <1>7, <1>8, <1>9, <1>10

\* What the content x of a tab holds.
Memegang(x, f) ==
  \/ x.tahap # "diam" /\ \E r \in x.sisa : r.isi = f
  \/ x.tahap \in {"kirim", "cek"} /\ x.kini.isi = f
  \/ x.tahap = "jawab" /\ x.hasil \in {"retry", "network"} /\ x.kini.id # 0 /\ x.kini.isi = f

LEMMA TabMemegang ==
  ASSUME NEW t \in Tab, NEW f
  PROVE  /\ DiTab(t, f) <=> Memegang(tab[t], f)
         /\ DiTab(t, f)' <=> Memegang(tab'[t], f)
BY DEF DiTab, Memegang

LEMMA PegangTurun ==
  ASSUME NEW t \in Tab, NEW x, Jadi(t, x), NEW f \in Form,
         Memegang(x, f) => Dipegang(f), DiAntrean(f)' => Dipegang(f), f \in lepas' => Dipegang(f)
  PROVE  Dipegang(f)' => Dipegang(f)
<1> SUFFICES ASSUME NEW u \in Tab, DiTab(u, f)'
             PROVE  Dipegang(f)
  BY DEF Dipegang
<1>1. CASE u = t
  BY <1>1, TabMemegang DEF Jadi
<1>2. CASE u # t
  <2>1. tab'[u] = tab[u]
    BY <1>2 DEF Jadi
  <2>2. DiTab(u, f)
    BY <2>1, TabMemegang
  <2> QED
    BY <2>2 DEF Dipegang
<1> QED
  BY <1>1, <1>2

LEMMA PegangLain ==
  ASSUME NEW t \in Tab, NEW x, Jadi(t, x), NEW f \in Form,
         Memegang(x, f) <=> Memegang(tab[t], f),
         DiAntrean(f)' <=> DiAntrean(f), f \in lepas' <=> f \in lepas
  PROVE  Dipegang(f)' <=> Dipegang(f)
<1>1. \A u \in Tab : DiTab(u, f)' <=> DiTab(u, f)
  <2> SUFFICES ASSUME NEW u \in Tab
               PROVE  DiTab(u, f)' <=> DiTab(u, f)
    OBVIOUS
  <2>1. CASE u = t
    BY <2>1, TabMemegang DEF Jadi
  <2>2. CASE u # t
    <3>1. tab'[u] = tab[u]
      BY <2>2 DEF Jadi
    <3> QED
      BY <3>1, TabMemegang
  <2> QED
    BY <2>1, <2>2
<1> QED
  BY <1>1 DEF Dipegang

\* A step after which a tab holds x, of a form that is not the one it is about.
LEMMA StatusLain ==
  ASSUME TypeOK, TypeOK', NEW t \in Tab, NEW x, Jadi(t, x), NEW g \in Form,
         Memegang(x, g) <=> Memegang(tab[t], g),
         DiAntrean(g)' <=> DiAntrean(g), g \in lepas' <=> g \in lepas,
         nota'[g] = nota[g], g \in titip' <=> g \in titip
  PROVE  Status(g)' = Status(g)
<1>1. Dipegang(g)' <=> Dipegang(g)
  BY PegangLain
<1>2. Status(g) = Letak(nota[g], g \in titip, Dipegang(g))
  BY StatusLetak
<1>3. Status(g)' = Letak(nota'[g], g \in titip', Dipegang(g)')
  BY StatusLetakNanti
<1> QED
  BY <1>1, <1>2, <1>3 DEF Letak

JanjiMaju == [Janji!Next]_[f \in Form |-> Status(f)]

LEMMA JanjiTitip ==
  ASSUME InvSinkron, InvSinkron', NEW f \in Form, Titip(f)
  PROVE  JanjiMaju
<1>1. UNCHANGED <<tab, lepas, nota>> /\ titip' = titip \cup {f}
  BY DEF Titip
<1>2. ASSUME NEW g \in Form \ {f}
      PROVE  Status(g)' = Status(g)
  <2>1. DiAntrean(g)' <=> DiAntrean(g)
    BY DEF Titip, DiAntrean
  <2>2. Dipegang(g)' <=> Dipegang(g)
    BY <1>1, <2>1 DEF Dipegang, DiTab
  <2>3. Status(g) = Letak(nota[g], g \in titip, Dipegang(g))
    BY StatusLetak DEF InvSinkron
  <2>4. Status(g)' = Letak(nota'[g], g \in titip', Dipegang(g)')
    BY StatusLetakNanti DEF InvSinkron
  <2> QED
    BY <1>1, <2>2, <2>3, <2>4 DEF Letak
<1> QED
  BY <1>1, <1>2, JanjiSatu DEF JanjiMaju, InvSinkron

LEMMA JanjiSubmit ==
  ASSUME InvSinkron, InvSinkron', NEW t \in Tab, NEW f \in Form, Submit(t, f)
  PROVE  JanjiMaju
<1>1. PICK x \in KerjaTab : x = [tahap |-> "kirim", sisa |-> {}, kini |-> Langsung(f)]
  <2>1. Langsung(f) \in Rekaman
    BY DEF Langsung, Rekaman
  <2> QED
    BY <2>1 DEF KerjaTab, Kirim
<1>2. Jadi(t, x) /\ tab[t] = Diam
  BY <1>1, SatuJadi DEF Submit, InvSinkron
<1>3. UNCHANGED <<antrean, lepas, nota, titip>>
  BY DEF Submit
<1>4. x.tahap = "kirim" /\ x.sisa = {} /\ x.kini.isi = f
  BY <1>1 DEF Langsung
<1>5. ASSUME NEW g \in Form \ {f}
      PROVE  Status(g)' = Status(g)
  <2>1. Memegang(x, g) <=> Memegang(tab[t], g)
    BY <1>2, <1>4, DiamTab DEF Memegang
  <2>2. DiAntrean(g)' <=> DiAntrean(g)
    BY <1>3 DEF DiAntrean
  <2> QED
    BY <1>2, <1>3, <2>1, <2>2, StatusLain DEF InvSinkron
<1>6. Status(f)' = Status(f) \/ f \in titip'
  <2>1. Status(f) = Letak(nota[f], f \in titip, Dipegang(f))
    BY StatusLetak DEF InvSinkron
  <2>2. Status(f)' = Letak(nota'[f], f \in titip', Dipegang(f)')
    BY StatusLetakNanti DEF InvSinkron
  <2> QED
    BY <1>3, <2>1, <2>2 DEF Letak
<1> QED
  BY <1>3, <1>5, <1>6, JanjiSatu DEF JanjiMaju, InvSinkron

\* A tab that lets go of forms, or takes what the queue or nobody but itself holds.
LEMMA JanjiTurun ==
  ASSUME InvSinkron, InvSinkron', NEW t \in Tab, NEW x, Jadi(t, x), nota' = nota, titip' = titip,
         \A f \in Form : Memegang(x, f) => Dipegang(f),
         \A f \in Form : DiAntrean(f)' => DiAntrean(f),
         \A f \in Form : f \in lepas' => Dipegang(f)
  PROVE  JanjiMaju
<1>1. ASSUME NEW f \in Form
      PROVE  Dipegang(f)' => Dipegang(f)
  <2>1. DiAntrean(f)' => Dipegang(f)
    BY DEF Dipegang
  <2> QED
    BY <2>1, PegangTurun
<1> QED
  BY <1>1, JanjiKosongkan DEF JanjiMaju, InvSinkron

LEMMA TabDipegang ==
  ASSUME NEW t \in Tab, NEW f, Memegang(tab[t], f)
  PROVE  Dipegang(f)
BY TabMemegang DEF Dipegang

LEMMA JanjiMulaiFlush ==
  ASSUME InvSinkron, InvSinkron', NEW t \in Tab, MulaiFlush(t)
  PROVE  JanjiMaju
<1>1. PICK x \in KerjaTab : x = [tahap |-> "putar", sisa |-> antrean]
  BY DEF KerjaTab, Putar, MulaiFlush, InvSinkron, TypeOK
<1>2. Jadi(t, x) /\ x.tahap = "putar" /\ x.sisa = antrean
  BY <1>1, SatuJadi DEF MulaiFlush, InvSinkron
<1>3. UNCHANGED <<antrean, lepas, nota, titip>>
  BY DEF MulaiFlush, catatan
<1>4. \A f : Memegang(x, f) => Dipegang(f)
  BY <1>2 DEF Memegang, Dipegang, DiAntrean
<1>5. \A f \in Form : (DiAntrean(f)' => DiAntrean(f)) /\ (f \in lepas' => Dipegang(f))
  BY <1>3 DEF DiAntrean, Dipegang
<1> QED
  BY <1>2, <1>3, <1>4, <1>5, JanjiTurun

LEMMA JanjiLanjut ==
  ASSUME InvSinkron, InvSinkron', NEW t \in Tab, Lanjut(t)
  PROVE  JanjiMaju
<1>1. tab[t].sisa \in SUBSET Rekaman /\ tab[t].tahap = "putar"
  BY IsiTab DEF Lanjut, InvSinkron
<1>2. PICK x \in KerjaTab : /\ tab' = [tab EXCEPT ![t] = x]
                            /\ \A f : Memegang(x, f) => Memegang(tab[t], f)
  <2>1. CASE tab[t].sisa = {} /\ tab' = [tab EXCEPT ![t] = Diam]
    BY <2>1, DiamTab DEF Memegang
  <2>2. CASE /\ tab[t].sisa # {}
             /\ LET r == Terdepan(tab[t].sisa) IN
                tab' = [tab EXCEPT ![t] = [tahap |-> "kirim", sisa |-> tab[t].sisa \ {r}, kini |-> r]]
    <3>1. PICK r \in Rekaman : r = Terdepan(tab[t].sisa) /\ r \in tab[t].sisa
      BY <1>1, <2>2, TerdepanAda
    <3>2. PICK x \in Kirim : x = [tahap |-> "kirim", sisa |-> tab[t].sisa \ {r}, kini |-> r]
      BY <1>1 DEF Kirim
    <3>3. x.tahap = "kirim" /\ x.sisa \subseteq tab[t].sisa /\ x.kini \in tab[t].sisa /\ x \in KerjaTab
      BY <3>1, <3>2 DEF KerjaTab
    <3>4. \A f : Memegang(x, f) => Memegang(tab[t], f)
      BY <1>1, <3>3 DEF Memegang
    <3> QED
      BY <2>2, <3>1, <3>2, <3>3, <3>4
  <2> QED
    BY <2>1, <2>2 DEF Lanjut
<1>3. Jadi(t, x) /\ \A f : Memegang(x, f) => Dipegang(f)
  BY <1>2, SatuJadi, TabDipegang DEF InvSinkron
<1>4. UNCHANGED <<antrean, lepas, nota, titip>>
  BY DEF Lanjut, catatan
<1>5. \A f \in Form : (DiAntrean(f)' => DiAntrean(f)) /\ (f \in lepas' => Dipegang(f))
  BY <1>4 DEF DiAntrean, Dipegang
<1> QED
  BY <1>3, <1>4, <1>5, JanjiTurun

LEMMA JanjiTerima ==
  ASSUME InvSinkron, InvSinkron', NEW t \in Tab, Terima(t)
  PROVE  JanjiMaju
<1>1. PICK y \in KerjaTab : y = [tahap |-> "putar", sisa |-> tab[t].sisa]
  BY IsiTab DEF Terima, InvSinkron, KerjaTab, Putar
<1>2. y.tahap = "putar" /\ y.sisa = tab[t].sisa /\ tab[t].tahap = "jawab"
  BY <1>1 DEF Terima
<1>3. PICK x \in {Diam, y} : tab' = [tab EXCEPT ![t] = x]
  BY <1>1 DEF Terima
<1>4. Jadi(t, x)
  BY <1>1, <1>3, DiamTab, SatuJadi DEF InvSinkron
<1>5. \A f : Memegang(x, f) => Memegang(tab[t], f)
  BY <1>2, <1>3, DiamTab DEF Memegang
<1>6. antrean' \subseteq antrean /\ UNCHANGED <<lepas, nota, titip>>
  BY DEF Terima, catatan
<1>7. \A f \in Form : (DiAntrean(f)' => DiAntrean(f)) /\ (f \in lepas' => Dipegang(f))
  BY <1>6 DEF DiAntrean, Dipegang
<1> QED
  BY <1>4, <1>5, <1>6, <1>7, TabDipegang, JanjiTurun

\* An answer, whichever it is, gives a tab nothing to hold.
LEMMA DijawabPegang ==
  ASSUME NEW t \in Tab, tab[t].tahap \in {"kirim", "cek"}, NEW x, x.tahap = "jawab",
         x.kini = tab[t].kini, x.sisa = tab[t].sisa, NEW g
  PROVE  /\ Memegang(x, g) => Memegang(tab[t], g)
         /\ g # tab[t].kini.isi => (Memegang(x, g) <=> Memegang(tab[t], g))
BY DEF Memegang

LEMMA JanjiDijawab ==
  ASSUME InvSinkron, InvSinkron', NEW t \in Tab, tab[t].tahap \in {"kirim", "cek"},
         NEW h \in Hasil, Dijawab(t, h), nota' = nota, titip' = titip,
         \A f \in Form : DiAntrean(f)' => DiAntrean(f),
         lepas' = lepas \/ lepas' = lepas \cup {tab[t].kini.isi}
  PROVE  JanjiMaju
<1>1. PICK x \in KerjaTab : /\ Jadi(t, x) /\ x.tahap = "jawab" /\ x.hasil = h
                            /\ x.kini = tab[t].kini /\ x.sisa = tab[t].sisa
  BY DijawabJadi DEF InvSinkron
<1>2. \A f : Memegang(x, f) => Dipegang(f)
  BY <1>1, DijawabPegang, TabDipegang
<1>3. Memegang(tab[t], tab[t].kini.isi)
  BY DEF Memegang
<1>4. \A f \in Form : f \in lepas' => Dipegang(f)
  BY <1>3, TabDipegang DEF Dipegang
<1> QED
  BY <1>1, <1>2, <1>4, JanjiTurun

LEMMA JanjiServer ==
  ASSUME InvSinkron, InvSinkron', NEW t \in Tab, CekNota(t) \/ Tolak(t) \/ Galat(t)
  PROVE  JanjiMaju
<1>1. UNCHANGED <<antrean, lepas, nota, titip>> /\ tab[t].tahap \in {"kirim", "cek"}
  BY DEF CekNota, Tolak, Galat, catatan
<1>2. \A f \in Form : DiAntrean(f)' => DiAntrean(f)
  BY <1>1 DEF DiAntrean
<1>3. CASE \E h \in Hasil : Dijawab(t, h)
  BY <1>1, <1>2, <1>3, JanjiDijawab
<1>4. CASE tab' = [tab EXCEPT ![t].tahap = "cek"] /\ tab[t].tahap = "kirim"
  <2>1. tab[t] \in Kirim
    BY <1>4, IsiTab, BentukTab DEF InvSinkron
  <2>2. PICK x \in Kirim : x = [tab[t] EXCEPT !.tahap = "cek"]
    BY <2>1 DEF Kirim
  <2>3. x.tahap = "cek" /\ x.kini = tab[t].kini /\ x.sisa = tab[t].sisa /\ x \in KerjaTab
    BY <2>1, <2>2 DEF Kirim, KerjaTab
  <2>4. Jadi(t, x)
    BY <1>4, <2>2, <2>3, SatuJadi DEF InvSinkron
  <2>5. \A f : Memegang(x, f) => Dipegang(f)
    <3>1. \A f : Memegang(x, f) => Memegang(tab[t], f)
      BY <1>4, <2>3 DEF Memegang
    <3> QED
      BY <3>1, TabDipegang
  <2>6. \A f \in Form : f \in lepas' => Dipegang(f)
    BY <1>1 DEF Dipegang
  <2> QED
    BY <1>1, <1>2, <2>4, <2>5, <2>6, JanjiTurun
<1> QED
  BY <1>3, <1>4 DEF CekNota, Tolak, Galat, Hasil

\* The server stores one form.
LEMMA JanjiSimpan ==
  ASSUME InvSinkron, InvSinkron', NEW t \in Tab, Simpan(t)
  PROVE  JanjiMaju
<1>1. PICK f \in Form \cup {Kosong} : f = tab[t].kini.isi
  BY IsiTab DEF Simpan, InvSinkron
<1>2. UNCHANGED <<antrean, lepas, titip>> /\ tab[t].tahap \in {"kirim", "cek"}
  BY DEF Simpan, catatan
<1>3. \A g \in Form : DiAntrean(g)' <=> DiAntrean(g)
  BY <1>2 DEF DiAntrean
<1>4. nota \in [Form -> Nat]
  BY DEF InvSinkron, TypeOK
<1>5. CASE nota' = nota
  <2>1. \E h \in Hasil : Dijawab(t, h)
    BY DEF Simpan, Hasil
  <2> QED
    BY <1>2, <1>3, <1>5, <2>1, JanjiDijawab
<1>6. CASE f \in Form /\ nota' = [nota EXCEPT ![f] = 1] /\ Dijawab(t, "ok")
  <2>1. "ok" \in Hasil
    BY DEF Hasil
  <2>2. PICK x \in KerjaTab : /\ Jadi(t, x) /\ x.tahap = "jawab"
                              /\ x.kini = tab[t].kini /\ x.sisa = tab[t].sisa
    BY <1>2, <1>6, <2>1, DijawabJadi DEF InvSinkron
  <2>3. ASSUME NEW g \in Form \ {f}
        PROVE  Status(g)' = Status(g)
    <3>1. Memegang(x, g) <=> Memegang(tab[t], g)
      BY <1>1, <1>2, <2>2, DijawabPegang
    <3>2. nota'[g] = nota[g]
      BY <1>4, <1>6
    <3> QED
      BY <1>2, <1>3, <2>2, <3>1, <3>2, StatusLain DEF InvSinkron
  <2>4. nota'[f] > 0
    BY <1>4, <1>6
  <2> QED
    BY <1>6, <2>3, <2>4, JanjiSatu DEF JanjiMaju, InvSinkron
<1>7. f = Kosong => [nota EXCEPT ![f] = 1] = nota
  BY <1>4, SinkronAssumption
<1> QED
  BY <1>1, <1>5, <1>6, <1>7 DEF Simpan

LEMMA JanjiPutus ==
  ASSUME InvSinkron, InvSinkron', NEW t \in Tab, Putus(t)
  PROVE  JanjiMaju
<1>1. PICK f \in Form \cup {Kosong} : f = tab[t].kini.isi
  BY IsiTab DEF Putus, InvSinkron
<1>2. nota' = nota /\ tab[t].tahap \in {"kirim", "cek"}
  BY DEF Putus
<1>3. lepas' = lepas \/ lepas' = lepas \cup {tab[t].kini.isi}
  BY DEF Putus, Lepaskan
<1>4. CASE Dijawab(t, "network") /\ UNCHANGED <<antrean, urut, titip, sebab>>
  <2>1. "network" \in Hasil /\ \A g \in Form : DiAntrean(g)' => DiAntrean(g)
    BY <1>4 DEF Hasil, DiAntrean
  <2> QED
    BY <1>2, <1>3, <1>4, <2>1, JanjiDijawab
<1>5. CASE Antrekan(t)
  <2>1. Dijawab(t, "ok") /\ "ok" \in Hasil /\ titip' = titip \cup ({f} \ {Kosong})
    BY <1>1, <1>5 DEF Antrekan, Hasil
  <2>2. \A g \in Form : DiAntrean(g)' <=> DiAntrean(g)
    BY <1>5, SinkronAssumption DEF Antrekan, DiAntrean
  <2>3. CASE f = Kosong
    <3>1. titip' = titip
      BY <2>1, <2>3
    <3> QED
      BY <1>2, <1>3, <2>1, <2>2, <3>1, JanjiDijawab
  <2>4. CASE f # Kosong
    <3>1. f \in Form /\ f \in titip'
      BY <2>1, <2>4
    <3>2. PICK x \in KerjaTab : /\ Jadi(t, x) /\ x.tahap = "jawab"
                                /\ x.kini = tab[t].kini /\ x.sisa = tab[t].sisa
      BY <1>2, <2>1, DijawabJadi DEF InvSinkron
    <3>3. ASSUME NEW g \in Form \ {f}
          PROVE  Status(g)' = Status(g)
      <4>1. Memegang(x, g) <=> Memegang(tab[t], g)
        BY <1>1, <1>2, <3>2, DijawabPegang
      <4>2. g \in lepas' <=> g \in lepas
        BY <1>1, <1>3
      <4> QED
        BY <1>2, <2>1, <2>2, <3>2, <4>1, <4>2, StatusLain DEF InvSinkron
    <3> QED
      BY <1>2, <3>1, <3>3, JanjiSatu DEF JanjiMaju, InvSinkron
  <2> QED
    BY <2>3, <2>4
<1> QED
  BY <1>4, <1>5 DEF Putus

LEMMA JanjiTutupTab ==
  ASSUME InvSinkron, InvSinkron', NEW t \in Tab, TutupTab(t)
  PROVE  JanjiMaju
<1>1. Jadi(t, Diam) /\ UNCHANGED <<antrean, nota, titip>>
  BY DiamTab, SatuJadi DEF TutupTab, catatan, InvSinkron
<1>2. \A f : ~Memegang(Diam, f)
  BY DiamTab DEF Memegang
<1>3. \A f \in Form : f \in lepas' => Dipegang(f)
  <2>1. CASE lepas' = lepas
    BY <2>1 DEF Dipegang
  <2>2. CASE tab[t].tahap \in {"kirim", "cek"} /\ lepas' = lepas \cup {tab[t].kini.isi}
    <3>1. Memegang(tab[t], tab[t].kini.isi)
      BY <2>2 DEF Memegang
    <3> QED
      BY <2>2, <3>1, TabDipegang DEF Dipegang
  <2> QED
    BY <2>1, <2>2 DEF TutupTab, Lepaskan
<1>4. \A f \in Form : DiAntrean(f)' => DiAntrean(f)
  BY <1>1 DEF DiAntrean
<1> QED
  BY <1>1, <1>2, <1>3, <1>4, JanjiTurun

LEMMA JanjiMenyusul ==
  ASSUME InvSinkron, InvSinkron', NEW f \in Form, Menyusul(f)
  PROVE  JanjiMaju
<1>1. UNCHANGED <<antrean, tab, titip>> /\ lepas' = lepas \ {f}
  BY DEF Menyusul
<1>2. nota \in [Form -> Nat]
  BY DEF InvSinkron, TypeOK
<1>3. CASE nota' = nota
  <2>1. \A g \in Form : Dipegang(g)' => Dipegang(g)
    BY <1>1 DEF Dipegang, DiTab, DiAntrean
  <2> QED
    BY <1>1, <1>3, <2>1, JanjiKosongkan DEF JanjiMaju, InvSinkron
<1>4. CASE nota' = [nota EXCEPT ![f] = 1]
  <2>1. ASSUME NEW g \in Form \ {f}
        PROVE  Status(g)' = Status(g)
    <3>1. nota'[g] = nota[g]
      BY <1>2, <1>4
    <3>2. Dipegang(g)' <=> Dipegang(g)
      BY <1>1 DEF Dipegang, DiTab, DiAntrean
    <3>3. Status(g) = Letak(nota[g], g \in titip, Dipegang(g))
      BY StatusLetak DEF InvSinkron
    <3>4. Status(g)' = Letak(nota'[g], g \in titip', Dipegang(g)')
      BY StatusLetakNanti DEF InvSinkron
    <3> QED
      BY <1>1, <3>1, <3>2, <3>3, <3>4 DEF Letak
  <2>2. nota'[f] > 0
    BY <1>2, <1>4
  <2> QED
    BY <2>1, <2>2, JanjiSatu DEF JanjiMaju, InvSinkron
<1> QED
  BY <1>3, <1>4 DEF Menyusul

LEMMA JanjiKeluar ==
  ASSUME InvSinkron, InvSinkron', Keluar
  PROVE  JanjiMaju
<1>1. \A f \in Form : Dipegang(f)' => Dipegang(f)
  BY DEF Keluar, Dipegang, DiTab, DiAntrean
<1> QED
  BY <1>1, JanjiKosongkan DEF JanjiMaju, InvSinkron, Keluar

LEMMA JanjiLangkah == InvSinkron /\ InvSinkron' /\ [Next]_vars => JanjiMaju
<1> SUFFICES ASSUME InvSinkron, InvSinkron', [Next]_vars
             PROVE  JanjiMaju
  OBVIOUS
<1>1. ASSUME NEW t \in Tab, Halaman(t) \/ Server(t) \/ Galat(t) \/ Putus(t) \/ TutupTab(t)
      PROVE  JanjiMaju
  <2>1. CASE Halaman(t)
    BY <2>1, JanjiMulaiFlush, JanjiLanjut, JanjiTerima DEF Halaman
  <2>2. CASE Server(t)
    BY <2>2, JanjiServer, JanjiSimpan DEF Server
  <2>3. CASE Galat(t) \/ Putus(t) \/ TutupTab(t)
    BY <2>3, JanjiServer, JanjiPutus, JanjiTutupTab
  <2> QED
    BY <1>1, <2>1, <2>2, <2>3
<1>2. ASSUME NEW f \in Form, Titip(f) \/ Menyusul(f) \/ \E t \in Tab : Submit(t, f)
      PROVE  JanjiMaju
  BY <1>2, JanjiTitip, JanjiMenyusul, JanjiSubmit
<1>3. CASE Terputus \/ Tersambung \/ UNCHANGED vars
  <2>1. UNCHANGED <<antrean, tab, lepas, nota, titip>>
    BY <1>3 DEF Terputus, Tersambung, vars, catatan
  <2>2. \A f \in Form : Dipegang(f)' => Dipegang(f)
    BY <2>1 DEF Dipegang, DiTab, DiAntrean
  <2> QED
    BY <2>1, <2>2, JanjiKosongkan DEF JanjiMaju, InvSinkron
<1>4. CASE Keluar
  BY <1>4, JanjiKeluar
<1> QED
  BY <1>1, <1>2, <1>3, <1>4 DEF Next

\* Seen from the cashier, the queue, the tabs and the server do what SinkronJanji allows:
\* the safety part of MemenuhiJanji.
THEOREM SinkronMemenuhiJanji == Spec => Janji!Aman
<1>1. Init => Janji!Init
  <2> SUFFICES ASSUME Init
               PROVE  [f \in Form |-> Status(f)] = [f \in Form |-> "baru"]
    BY DEF Janji!Init
  <2>1. TypeOK
    BY SinkronAwal DEF InvSinkron
  <2>2. \A f \in Form : Status(f) = "baru"
    BY <2>1, StatusLetak DEF Init, Letak
  <2> QED
    BY <2>2
<1>2. InvSinkron /\ InvSinkron' /\ [Next]_vars => [Janji!Next]_[f \in Form |-> Status(f)]
  BY JanjiLangkah DEF JanjiMaju
<1> QED
  BY <1>1, <1>2, SinkronInvarian, PTL DEF Spec, Janji!Aman

=============================================================================
