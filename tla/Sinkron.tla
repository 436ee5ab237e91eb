------------------------------ MODULE Sinkron ------------------------------
(***************************************************************************)
(* Sales entered without a connection: the queue in the browser            *)
(* (IndexedDB), the tabs that flush it, the service worker between them    *)
(* and the server, and the client_uuid the server recognises a form by.    *)
(*                                                                         *)
(* Every tab has a flush of its own: it reads the whole queue, sends one   *)
(* record after the other and deletes a record once it has an answer.      *)
(* Between any two of these steps another tab, the user, the connection or *)
(* the server may do something.                                            *)
(***************************************************************************)
EXTENDS Integers, FiniteSets

CONSTANTS
    Form,         \* client_uuids of sales forms
    Tab,          \* tabs of the browser
    Kosong,       \* the body of a record whose form was not read
    MaxKirim,     \* bound: how often a form is submitted to the server
    MaxAntre,     \* bound: number of records the queue ever holds
    MaxGangguan   \* bound: lost connections, failed fetches, closed tabs, 5xx

ASSUME SinkronAssumption ==
    /\ Kosong \notin Form
    /\ MaxKirim \in Nat /\ MaxAntre \in Nat /\ MaxGangguan \in Nat

VARIABLES
    sambung,      \* navigator.onLine
    sw,           \* a service worker controls the pages
    antrean,      \* object store "pending"
    urut,         \* last id of its key generator
    tab,          \* what each tab is doing
    lepas,        \* forms in requests nobody waits for any more
    nota,         \* how often the server has stored each form
    lembar,       \* how often each form may still be submitted
    titip,        \* forms the cashier was told are kept
    sebab,        \* what happened to a form that explains its loss
    gangguan      \* disturbances so far

vars == <<sambung, sw, antrean, urut, tab, lepas, nota, lembar, titip, sebab, gangguan>>
catatan == <<lembar, titip, sebab>>

-----------------------------------------------------------------------------
Rekaman == [id : Nat, isi : Form \cup {Kosong}]
Hasil == {"ok", "drop", "retry", "network"}

Diam == [tahap |-> "diam"]
Putar == [tahap : {"putar"}, sisa : SUBSET Rekaman]
Kirim == [tahap : {"kirim", "cek"}, sisa : SUBSET Rekaman, kini : Rekaman]
Jawab == [tahap : {"jawab"}, sisa : SUBSET Rekaman, kini : Rekaman, hasil : Hasil]

\* Records are sent in the order of their ids (getAll); a form submitted by the
\* page itself travels as a record with id 0, which is in no queue.
Terdepan(S) == CHOOSE r \in S : \A s \in S : r.id <= s.id
Langsung(f) == [id |-> 0, isi |-> f]

DiAntrean(f) == \E r \in antrean : r.isi = f
DiTab(t, f) ==
    \/ tab[t].tahap # "diam" /\ \E r \in tab[t].sisa : r.isi = f
    \/ tab[t].tahap \in {"kirim", "cek"} /\ tab[t].kini.isi = f
    \/ /\ tab[t].tahap = "jawab" /\ tab[t].hasil \in {"retry", "network"}
       /\ tab[t].kini.id # 0 /\ tab[t].kini.isi = f

\* Somebody can still deliver the form.
Dipegang(f) == DiAntrean(f) \/ f \in lepas \/ \E t \in Tab : DiTab(t, f)
Hilang(f) == f \in titip /\ nota[f] = 0 /\ ~Dipegang(f)

-----------------------------------------------------------------------------
(* Faulty variants of actions, slips the code could have made; none of them    *)
(* takes part in the specification.                                            *)

\* A record is deleted whatever the answer was.
TerimaHapusSelalu(t) ==
    /\ tab[t].tahap = "jawab"
    /\ antrean' = antrean \ {tab[t].kini}
    /\ tab' = [tab EXCEPT ![t] =
            IF tab[t].hasil = "network" THEN Diam
            ELSE [tahap |-> "putar", sisa |-> tab[t].sisa]]
    /\ UNCHANGED <<sambung, sw, urut, lepas, nota, catatan, gangguan>>

\* _running stays set after the loop is left.
TerimaTanpaFinally(t) ==
    /\ tab[t].tahap = "jawab"
    /\ tab[t].hasil # "network"
    /\ antrean' = IF tab[t].hasil \in {"ok", "drop"} THEN antrean \ {tab[t].kini} ELSE antrean
    /\ tab' = [tab EXCEPT ![t] = [tahap |-> "putar", sisa |-> tab[t].sisa]]
    /\ UNCHANGED <<sambung, sw, urut, lepas, nota, catatan, gangguan>>

\* The INSERT meets no unique index on client_uuid.
SimpanTanpaUnik(t) ==
    /\ tab[t].tahap = "cek"
    /\ nota' = [nota EXCEPT ![tab[t].kini.isi] = @ + 1]
    /\ tab' = [tab EXCEPT ![t] = [tahap |-> "jawab", sisa |-> tab[t].sisa,
                                  kini |-> tab[t].kini, hasil |-> "ok"]]
    /\ UNCHANGED <<sambung, sw, antrean, urut, lepas, catatan, gangguan>>

\* A form may be submitted more often than the page lets it.
SubmitTerus(t, f) ==
    /\ sambung /\ tab[t] = Diam
    /\ lembar' = [lembar EXCEPT ![f] = @ - 1]
    /\ tab' = [tab EXCEPT ![t] = [tahap |-> "kirim", sisa |-> {}, kini |-> Langsung(f)]]
    /\ UNCHANGED <<sambung, sw, antrean, urut, lepas, nota, titip, sebab, gangguan>>

-----------------------------------------------------------------------------
(* The page: offlineSubmit, the submit of the browser, SyncEngine.flush *)

\* offlineSubmit: the form goes into the queue and gets a new client_uuid.
Titip(f) ==
    /\ ~sambung
    /\ lembar[f] > 0 /\ urut < MaxAntre
    /\ urut' = urut + 1
    /\ antrean' = antrean \cup {[id |-> urut + 1, isi |-> f]}
    /\ lembar' = [lembar EXCEPT ![f] = 0]
    /\ titip' = titip \cup {f}
    /\ UNCHANGED <<sambung, sw, tab, lepas, nota, sebab, gangguan>>

\* Online the browser submits the form itself; with Back it can do so again.
Submit(t, f) ==
    /\ sambung /\ tab[t] = Diam
    /\ lembar[f] > 0
    /\ lembar' = [lembar EXCEPT ![f] = @ - 1]
    /\ tab' = [tab EXCEPT ![t] = [tahap |-> "kirim", sisa |-> {}, kini |-> Langsung(f)]]
    /\ UNCHANGED <<sambung, sw, antrean, urut, lepas, nota, titip, sebab, gangguan>>

\* flush: nothing while a flush of this tab runs or the browser is offline.
MulaiFlush(t) ==
    /\ sambung /\ tab[t] = Diam /\ antrean # {}
    /\ tab' = [tab EXCEPT ![t] = [tahap |-> "putar", sisa |-> antrean]]
    /\ UNCHANGED <<sambung, sw, antrean, urut, lepas, nota, catatan, gangguan>>

\* One turn of the loop, or its end.
Lanjut(t) ==
    /\ tab[t].tahap = "putar"
    /\ \/ /\ tab[t].sisa = {}
          /\ tab' = [tab EXCEPT ![t] = Diam]
       \/ /\ tab[t].sisa # {}
          /\ LET r == Terdepan(tab[t].sisa) IN
             tab' = [tab EXCEPT ![t] = [tahap |-> "kirim", sisa |-> tab[t].sisa \ {r}, kini |-> r]]
    /\ UNCHANGED <<sambung, sw, antrean, urut, lepas, nota, catatan, gangguan>>

\* The answer: 2xx, 409 and every other 4xx delete the record, 5xx keeps it, a
\* failed fetch ends the loop.
Terima(t) ==
    /\ tab[t].tahap = "jawab"
    /\ antrean' = IF tab[t].hasil \in {"ok", "drop"} THEN antrean \ {tab[t].kini} ELSE antrean
    /\ tab' = [tab EXCEPT ![t] =
            IF tab[t].hasil = "network" THEN Diam
            ELSE [tahap |-> "putar", sisa |-> tab[t].sisa]]
    /\ UNCHANGED <<sambung, sw, urut, lepas, nota, catatan, gangguan>>

-----------------------------------------------------------------------------
(* The server: PenjualanHandler.Create behind RequireAuth and CSRF *)

Dijawab(t, h) ==
    tab' = [tab EXCEPT ![t] = [tahap |-> "jawab", sisa |-> tab[t].sisa,
                               kini |-> tab[t].kini, hasil |-> h]]

\* GetByClientUUID: a known form is answered with the invoice it became.
CekNota(t) ==
    LET f == tab[t].kini.isi IN
    /\ tab[t].tahap = "kirim" /\ sambung /\ f # Kosong
    /\ IF nota[f] > 0 THEN Dijawab(t, "ok")
       ELSE tab' = [tab EXCEPT ![t].tahap = "cek"]
    /\ UNCHANGED <<sambung, sw, antrean, urut, lepas, nota, catatan, gangguan>>

\* The INSERT, or its unique index: every error of Create is answered with 422.
Simpan(t) ==
    LET f == tab[t].kini.isi IN
    /\ tab[t].tahap = "cek"
    /\ IF nota[f] = 0
       THEN nota' = [nota EXCEPT ![f] = 1] /\ Dijawab(t, "ok")
       ELSE Dijawab(t, "drop") /\ UNCHANGED nota
    /\ UNCHANGED <<sambung, sw, antrean, urut, lepas, catatan, gangguan>>

\* 4xx: session or CSRF token gone, too many requests, form refused; a body
\* that is empty is always refused.
Tolak(t) ==
    /\ tab[t].tahap \in {"kirim", "cek"} /\ sambung
    /\ Dijawab(t, "drop")
    /\ sebab' = [f \in Form |->
            IF f = tab[t].kini.isi THEN sebab[f] \cup {"ditolak"} ELSE sebab[f]]
    /\ UNCHANGED <<sambung, sw, antrean, urut, lepas, nota, lembar, titip, gangguan>>

\* 5xx: the database is away.
Galat(t) ==
    /\ tab[t].tahap = "kirim" /\ sambung /\ gangguan < MaxGangguan
    /\ Dijawab(t, "retry")
    /\ gangguan' = gangguan + 1
    /\ UNCHANGED <<sambung, sw, antrean, urut, lepas, nota, catatan>>

\* A request nobody waits for reaches the server, or is refused there.
Menyusul(f) ==
    /\ f \in lepas
    /\ lepas' = lepas \ {f}
    /\ \/ nota' = [nota EXCEPT ![f] = 1] /\ UNCHANGED sebab
       \/ UNCHANGED nota /\ sebab' = [sebab EXCEPT ![f] = @ \cup {"ditolak"}]
    /\ UNCHANGED <<sambung, sw, antrean, urut, tab, lembar, titip, gangguan>>

-----------------------------------------------------------------------------
(* The connection, the service worker and the user *)

\* The form of a request whose connection breaks may still reach the server.
Lepaskan(f) ==
    \/ UNCHANGED lepas
    \/ f # Kosong /\ lepas' = lepas \cup {f}

\* handlePenjualanPost: fetch has consumed the body when it fails, so what the
\* service worker queues is empty, and the page gets 202.
Antrekan(t) ==
    LET f == tab[t].kini.isi IN
    /\ sw /\ urut < MaxAntre
    /\ urut' = urut + 1
    /\ antrean' = antrean \cup {[id |-> urut + 1, isi |-> Kosong]}
    /\ titip' = titip \cup ({f} \ {Kosong})
    /\ sebab' = [g \in Form |-> IF g = f THEN sebab[g] \cup {"kosong"} ELSE sebab[g]]
    /\ Dijawab(t, "ok")

\* fetch fails.
Putus(t) ==
    /\ tab[t].tahap \in {"kirim", "cek"}
    /\ gangguan' = IF sambung THEN gangguan + 1 ELSE gangguan
    /\ sambung => gangguan < MaxGangguan
    /\ Lepaskan(tab[t].kini.isi)
    /\ \/ Antrekan(t)
       \/ ~sw /\ Dijawab(t, "network") /\ UNCHANGED <<antrean, urut, titip, sebab>>
    /\ UNCHANGED <<sambung, sw, nota, lembar>>

\* The tab is closed or another page loaded, whatever it was doing.
TutupTab(t) ==
    /\ tab[t] # Diam /\ gangguan < MaxGangguan
    /\ gangguan' = gangguan + 1
    /\ tab' = [tab EXCEPT ![t] = Diam]
    /\ IF tab[t].tahap \in {"kirim", "cek"} THEN Lepaskan(tab[t].kini.isi) ELSE UNCHANGED lepas
    /\ UNCHANGED <<sambung, sw, antrean, urut, nota, catatan>>

Terputus ==
    /\ sambung /\ gangguan < MaxGangguan
    /\ sambung' = FALSE /\ gangguan' = gangguan + 1
    /\ UNCHANGED <<sw, antrean, urut, tab, lepas, nota, catatan>>

Tersambung ==
    /\ ~sambung /\ sambung' = TRUE
    /\ UNCHANGED <<sw, antrean, urut, tab, lepas, nota, catatan, gangguan>>

\* Logout: Clear-Site-Data "storage" erases the object store.
Keluar ==
    /\ sambung /\ antrean # {}
    /\ antrean' = {}
    /\ sebab' = [f \in Form |-> IF DiAntrean(f) THEN sebab[f] \cup {"keluar"} ELSE sebab[f]]
    /\ UNCHANGED <<sambung, sw, urut, tab, lepas, nota, lembar, titip, gangguan>>

-----------------------------------------------------------------------------
Init ==
    /\ sambung = TRUE
    /\ sw \in BOOLEAN
    /\ antrean = {} /\ urut = 0
    /\ tab = [t \in Tab |-> Diam]
    /\ lepas = {}
    /\ nota = [f \in Form |-> 0]
    /\ lembar = [f \in Form |-> MaxKirim]
    /\ titip = {}
    /\ sebab = [f \in Form |-> {}]
    /\ gangguan = 0

Halaman(t) == MulaiFlush(t) \/ Lanjut(t) \/ Terima(t)
Server(t) == CekNota(t) \/ Simpan(t) \/ Tolak(t)
Next ==
    \/ \E t \in Tab : Halaman(t) \/ Server(t) \/ Galat(t) \/ Putus(t) \/ TutupTab(t)
    \/ \E f \in Form : Titip(f) \/ Menyusul(f) \/ \E t \in Tab : Submit(t, f)
    \/ Terputus \/ Tersambung \/ Keluar

\* Timers fire, requests are answered and the connection comes back; users owe
\* nothing.
Fairness ==
    /\ \A t \in Tab : WF_vars(Halaman(t)) /\ WF_vars(Server(t) \/ Putus(t))
    /\ \A f \in Form : WF_vars(Menyusul(f))
    /\ WF_vars(Tersambung)

Spec == Init /\ [][Next]_vars /\ Fairness

-----------------------------------------------------------------------------
(* Properties *)

TypeOK ==
    /\ sambung \in BOOLEAN /\ sw \in BOOLEAN
    /\ antrean \subseteq Rekaman /\ urut \in Nat
    /\ tab \in [Tab -> {Diam} \cup Putar \cup Kirim \cup Jawab]
    /\ lepas \subseteq Form
    /\ nota \in [Form -> Nat]
    /\ lembar \in [Form -> Nat] /\ titip \subseteq Form
    /\ sebab \in [Form -> SUBSET {"ditolak", "kosong", "keluar"}]
    /\ gangguan \in Nat

\* However many tabs flush the queue, however often an answer is lost and a form
\* submitted again, the server stores a form once.
NotaSekali == \A f \in Form : nota[f] <= 1

\* A form the cashier was told is kept is lost only if the server refused it,
\* the service worker queued it without its body, or a logout erased the queue:
\* overlapping flushes, closed tabs, lost answers and 5xx lose nothing.
HilangBeralasan == \A f \in Form : Hilang(f) => sebab[f] # {}

\* A form that is kept and not disturbed in one of these ways reaches the
\* server.
Tersampaikan ==
    \A f \in Form : f \in titip ~> (nota[f] > 0 \/ sebab[f] # {})

\* Where the form is for the cashier: the refinement mapping.
Status(f) ==
    CASE nota[f] > 0 -> "tersimpan"
      [] nota[f] = 0 /\ Hilang(f) -> "hilang"
      [] nota[f] = 0 /\ f \in titip /\ ~Hilang(f) -> "dititip"
      [] OTHER -> "baru"

Janji == INSTANCE SinkronJanji WITH status <- [f \in Form |-> Status(f)]
MemenuhiJanji == Janji!Spec

-----------------------------------------------------------------------------
(* What the documents promise and the code does not keep *)

\* A sale whose fetch fails is kept: the service worker stores the body, a flush
\* keeps its record (docs/10-offline-mode.md).  So only a refusal or a logout can
\* lose a form.
PutusTidakMenghilangkan ==
    \A f \in Form : Hilang(f) => sebab[f] \cap {"ditolak", "keluar"} # {}

-----------------------------------------------------------------------------
(* The inductive invariant HilangBeralasan rests on *)

Terjawab(f) == f = Kosong \/ nota[f] > 0 \/ sebab[f] # {}

\* An answer that deletes a record: the form is stored, or there is a reason.
JawabBeralasan ==
    \A t \in Tab :
        tab[t].tahap = "jawab" /\ tab[t].hasil \in {"ok", "drop"} => Terjawab(tab[t].kini.isi)

\* Whatever the tabs do with their copies: a form the cashier was told is kept
\* stays in the queue until then.
TitipTersimpan == \A f \in titip : Terjawab(f) \/ DiAntrean(f)

InvSinkron == TypeOK /\ NotaSekali /\ JawabBeralasan /\ TitipTersimpan

=============================================================================
