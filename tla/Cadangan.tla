------------------------------ MODULE Cadangan ------------------------------
(***************************************************************************)
(* Backup and restore from the owner's page.  A backup is a file a script  *)
(* writes; a restore is a script that overwrites the whole database, and   *)
(* two of them at once would leave a mixture of both.  A mutex of the      *)
(* process and a lock file stand between them.  The server may stop at any *)
(* point; the scripts it started may go on without it.                     *)
(***************************************************************************)
EXTENDS Integers, FiniteSets

CONSTANTS
    Minta,        \* requests that may run at the same time
    Arsip,        \* names of backup files
    TanpaArsip    \* a request that is about no file

ASSUME CadanganAssumption == TanpaArsip \notin Arsip

VARIABLES
    pinta,        \* requests: how far each is and its file
    arsip,        \* files in the backup directory
    kunci,        \* whether the file restoreLockFile exists
    skrip,        \* requests whose restore script is running
    yatim,        \* restore scripts that outlived the server that started them
    tertinggal    \* whether a stopped server or a failed removal left the lock file

varsCadangan == <<pinta, arsip, kunci, skrip, yatim, tertinggal>>

-----------------------------------------------------------------------------
Diam == [tahap |-> "senggang", arsip |-> TanpaArsip]
Maju(p, t) == pinta' = [pinta EXCEPT ![p].tahap = t]
Kembali(p) == pinta' = [pinta EXCEPT ![p] = Diam]

\* The stages between TryLock and the deferred Unlock, and those in which the lock
\* file is the request's own.
Bergembok == {"gembok", "bebas", "kunci", "skrip", "lepas"}
Pemegang == {"kunci", "skrip"}

Tahap == {"senggang", "cadang", "sah"} \cup Bergembok

-----------------------------------------------------------------------------
(* Backups *)

\* Trigger: the script writes a file named after the second it starts in.
MulaiCadang(p, f) ==
    /\ pinta[p] = Diam
    /\ pinta' = [pinta EXCEPT ![p] = [tahap |-> "cadang", arsip |-> f]]
    /\ arsip' = arsip \cup {f}
    /\ UNCHANGED <<kunci, skrip, yatim, tertinggal>>

\* The script ends, or fails with its file left as it is; at the end of a good one
\* old files go.
SelesaiCadang(p) ==
    /\ pinta[p].tahap = "cadang"
    /\ arsip' \in {arsip} \cup {arsip \ {f} : f \in Arsip \ {pinta[p].arsip}}
    /\ Kembali(p)
    /\ UNCHANGED <<kunci, skrip, yatim, tertinggal>>

-----------------------------------------------------------------------------
(* Restore *)

\* The file is there, the phrase and the password are right.
SahkanPulih(p, f) ==
    /\ pinta[p] = Diam /\ f \in arsip
    /\ pinta' = [pinta EXCEPT ![p] = [tahap |-> "sah", arsip |-> f]]
    /\ UNCHANGED <<arsip, kunci, skrip, yatim, tertinggal>>

\* TryLock.
Gembok(p) ==
    /\ pinta[p].tahap = "sah"
    /\ IF \E q \in Minta : pinta[q].tahap \in Bergembok THEN Kembali(p) ELSE Maju(p, "gembok")
    /\ UNCHANGED <<arsip, kunci, skrip, yatim, tertinggal>>

\* Faulty: the removal of the lock file is deferred before it is looked for.
CekKunciMenghapus(p) ==
    /\ pinta[p].tahap = "gembok"
    /\ IF kunci THEN Kembali(p) /\ kunci' = FALSE ELSE Maju(p, "bebas") /\ UNCHANGED kunci
    /\ UNCHANGED <<arsip, skrip, yatim, tertinggal>>

\* Stat of the lock file.
CekKunci(p) ==
    /\ pinta[p].tahap = "gembok"
    /\ IF kunci THEN Kembali(p) ELSE Maju(p, "bebas")
    /\ UNCHANGED <<arsip, kunci, skrip, yatim, tertinggal>>

\* OpenFile with O_EXCL; it or MkdirAll may fail for other reasons too.
BuatKunci(p) ==
    /\ pinta[p].tahap = "bebas"
    /\ \/ ~kunci /\ Maju(p, "kunci") /\ kunci' = TRUE
       \/ Kembali(p) /\ UNCHANGED kunci
    /\ UNCHANGED <<arsip, skrip, yatim, tertinggal>>

MulaiSkrip(p) ==
    /\ pinta[p].tahap = "kunci"
    /\ Maju(p, "skrip")
    /\ skrip' = skrip \cup {p}
    /\ UNCHANGED <<arsip, kunci, yatim, tertinggal>>

\* The script's last process ends: done, failed, or after the timeout or the end of
\* the request killed the shell.
SkripBerakhir(p) ==
    /\ p \in skrip /\ skrip' = skrip \ {p}
    /\ UNCHANGED <<pinta, arsip, kunci, yatim, tertinggal>>

YatimBerakhir ==
    /\ yatim > 0 /\ yatim' = yatim - 1
    /\ UNCHANGED <<pinta, arsip, kunci, skrip, tertinggal>>

\* Faulty: only a script that ran is cleaned up after.
HapusKunciBilaJalan(p) ==
    /\ pinta[p].tahap \in Pemegang /\ p \notin skrip
    /\ kunci' = (kunci /\ pinta[p].tahap = "kunci")
    /\ Maju(p, "lepas")
    /\ UNCHANGED <<arsip, skrip, yatim, tertinggal>>

\* CombinedOutput waits for every process that holds the pipe; a request that is
\* over before the script starts comes here at once.  The lock file goes first; the
\* error of os.Remove is discarded, so it may be there still.
HapusKunci(p) ==
    /\ pinta[p].tahap \in Pemegang /\ p \notin skrip
    /\ kunci' \in BOOLEAN /\ tertinggal' = kunci'
    /\ Maju(p, "lepas")
    /\ UNCHANGED <<arsip, skrip, yatim>>

\* Unlock, and the answer.
BukaGembok(p) ==
    /\ pinta[p].tahap = "lepas"
    /\ Kembali(p)
    /\ UNCHANGED <<arsip, kunci, skrip, yatim, tertinggal>>

-----------------------------------------------------------------------------
\* The server stops and starts again: the mutex is free, the lock file stays, and
\* each script stops with it or goes on.
Mati ==
    /\ pinta' = [p \in Minta |-> Diam]
    /\ \E S \in SUBSET skrip : yatim' = yatim + Cardinality(S)
    /\ skrip' = {}
    /\ tertinggal' = kunci
    /\ UNCHANGED <<arsip, kunci>>

InitCadangan ==
    /\ pinta = [p \in Minta |-> Diam]
    /\ arsip = {} /\ kunci = FALSE /\ skrip = {} /\ yatim = 0 /\ tertinggal = FALSE

NextCadangan ==
    \/ Mati \/ YatimBerakhir
    \/ \E p \in Minta :
        \/ SelesaiCadang(p) \/ Gembok(p) \/ CekKunci(p) \/ BuatKunci(p)
        \/ MulaiSkrip(p) \/ SkripBerakhir(p) \/ HapusKunci(p) \/ BukaGembok(p)
        \/ \E f \in Arsip : MulaiCadang(p, f) \/ SahkanPulih(p, f)

SpecCadangan == InitCadangan /\ [][NextCadangan]_varsCadangan

-----------------------------------------------------------------------------
(* Properties *)

\* Types: a request names a file exactly while it is about one.
TypeCadangan ==
    /\ pinta \in [Minta -> [tahap : Tahap, arsip : Arsip \cup {TanpaArsip}]]
    /\ \A p \in Minta : pinta[p].tahap = "senggang" <=> pinta[p].arsip = TanpaArsip
    /\ arsip \subseteq Arsip /\ kunci \in BOOLEAN /\ skrip \subseteq Minta
    /\ yatim \in Nat /\ tertinggal \in BOOLEAN

\* Two restore scripts never run at the same time, not even when one of them
\* outlives the server that started it.
PulihSatu == Cardinality(skrip) + yatim =< 1

\* The lock file stays behind only when the server stopped while it was there or it
\* could not be removed: a restore that ends in any other way, its script never
\* started, killed or failed, leaves the next one free.
KunciTakTertinggal ==
    kunci => tertinggal \/ \E p \in Minta : pinta[p].tahap \in Pemegang

-----------------------------------------------------------------------------
(* The invariant the proofs rest on *)

\* Who is behind the mutex is alone there, and owns the lock file from the moment
\* it was created; a script belongs to such a request or to a server that is gone,
\* and then the lock file keeps everybody else away.
InvCadangan ==
    /\ TypeCadangan
    /\ \A p, q \in Minta :
        pinta[p].tahap \in Bergembok /\ pinta[q].tahap \in Bergembok => p = q
    /\ \A p \in Minta : pinta[p].tahap \in Pemegang => kunci /\ yatim = 0
    /\ \A p \in skrip : pinta[p].tahap = "skrip"
    /\ yatim \in {0, 1} /\ (yatim = 1 => kunci /\ skrip = {})

=============================================================================
