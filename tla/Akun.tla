-------------------------------- MODULE Akun --------------------------------
(***************************************************************************)
(* Accounts and sessions: login with its counter of failures and its lock, *)
(* RequireAuth in front of every page, a user's own profile and password,  *)
(* and the management of users.                                            *)
(*                                                                         *)
(* No handler of this part opens a transaction: it reads a row, computes   *)
(* (Argon2 takes long), and writes in a later statement.  What a request   *)
(* reads before its first write is one step, every write another.          *)
(*                                                                         *)
(* Time passes by Detik, which brings the end of every lock nearer.  How   *)
(* long a session lasts is left open: it may expire at any time.           *)
(***************************************************************************)
EXTENDS Integers, FiniteSets

CONSTANTS
    Akun,          \* accounts, by username
    Peran,         \* roles that are given to users
    Pendiri,       \* the account the installation starts with
    Dikelola,      \* bound: accounts the management creates, edits and resets
    Minta,         \* requests that may run at the same time (finitely many)
    MaxGagal,      \* MaxFailedLogins
    LamaKunci,     \* LockoutDuration
    MaxSesi,       \* bound: number of sessions ever created
    MaxSandi       \* bound: number of passwords of an account

ASSUME AkunAssumption ==
    /\ Pendiri \in Akun /\ Dikelola \subseteq Akun
    /\ "owner" \in Peran /\ Peran \subseteq {"owner", "admin", "kasir", "gudang"}
    /\ MaxGagal \in Nat \ {0} /\ LamaKunci \in Nat \ {0}
    /\ MaxSesi \in Nat /\ MaxSandi \in Nat /\ IsFiniteSet(Minta)

VARIABLES
    pengguna,      \* table "user"
    sesi,          \* table session
    minta,         \* what each request is doing
    nomor,         \* sessions created so far
    tebak,         \* failures an account counted since it was last locked
    diberi,        \* roles the management gave each account
    sebab          \* accounts a session of which may have outlived its password

vars == <<pengguna, sesi, minta, nomor, tebak, diberi, sebab>>
catatan == <<tebak, diberi, sebab>>

-----------------------------------------------------------------------------
Pengelola == {"owner", "admin"}

\* A row of "user": gagal stops counting at MaxGagal, where one more failure has
\* the same effect; kunci is the time until locked_until, 0 for NULL or past.
Baris == [peran : Peran, aktif : BOOLEAN, sandi : Nat, gagal : 0..MaxGagal, kunci : 0..LamaKunci]
Tiada == [peran |-> "tiada"]
Ada(a) == pengguna[a] # Tiada

\* A row of session that has not expired; sandi is the password its login or its
\* change was made with.
Sesi == [id : Nat, akun : Akun, sandi : Nat]

Kosong == [tahap |-> "kosong"]
Login == [tahap : {"verif", "sesi"}, akun : Akun, sandi : Nat, cocok : BOOLEAN]
\* A request in a handler that has read and is going to write: kue is its session,
\* baca the role and activity it read where the write uses them.
Pribadi == {"profil", "sandi"}
Kelola == {"ubah", "reset", "toggle", "buat"}
Bacaan == {<<>>} \cup (Peran \X BOOLEAN)
Urus ==
    [tahap : {"tulis", "bersih"}, urusan : Pribadi, kue : Nat, target : Akun, baca : Bacaan]
    \cup [tahap : {"tulis"}, urusan : Kelola, target : Akun, baca : Bacaan]
Hak(a) == IF Ada(a) THEN <<pengguna[a].peran, pengguna[a].aktif>> ELSE <<>>
Terkunci(a) == Ada(a) /\ pengguna[a].kunci > 0

-----------------------------------------------------------------------------
(* The statements of auth/store.go and repo/user_account.go *)

\* Faulty: a failure lengthens the lock that is running.
NaikkanGagalTambah(u) ==
    LET n == IF u.gagal < MaxGagal THEN u.gagal + 1 ELSE MaxGagal IN
    [u EXCEPT !.gagal = n, !.kunci = IF n >= MaxGagal THEN @ + LamaKunci ELSE @]

NaikkanGagal(u) ==
    LET n == IF u.gagal < MaxGagal THEN u.gagal + 1 ELSE MaxGagal IN
    [u EXCEPT !.gagal = n, !.kunci = IF n >= MaxGagal THEN LamaKunci ELSE @]

NolkanGagal(u) == [u EXCEPT !.gagal = 0, !.kunci = 0]

SandiBaru(u) == [NolkanGagal(u) EXCEPT !.sandi = @ + 1]

\* UPDATE of role, warehouse, activity and names.
Timpa(u, peran, aktif) == [u EXCEPT !.peran = peran, !.aktif = aktif]

HapusKecuali(S, a, id) == {s \in S : s.akun # a \/ s.id = id}

Beri(a, u) == diberi' = [diberi EXCEPT ![a] = @ \cup {u.peran}]

-----------------------------------------------------------------------------
(* Faulty variants of actions, slips the code could have made; none of them    *)
(* takes part in the specification.                                            *)

\* The check of locked_until is missing.
CobaLoginTanpaKunci(p, a, cocok) ==
    /\ minta[p] = Kosong
    /\ Ada(a) /\ pengguna[a].aktif
    /\ minta' = [minta EXCEPT ![p] =
            [tahap |-> "verif", akun |-> a, sandi |-> pengguna[a].sandi, cocok |-> cocok]]
    /\ UNCHANGED <<pengguna, sesi, nomor, catatan>>

\* The profile takes the role and the activity from the form.
TulisProfilSemua(p) ==
    LET m == minta[p] IN
    /\ m.tahap = "tulis" /\ m.urusan = "profil"
    /\ \E r \in Peran, b \in BOOLEAN :
            pengguna' = [pengguna EXCEPT ![m.target] = Timpa(@, r, b)]
    /\ minta' = [minta EXCEPT ![p] = Kosong]
    /\ UNCHANGED <<sesi, nomor, catatan>>

\* Every session of the account stays.
BersihkanTidakSemua(p) ==
    /\ minta[p].tahap = "bersih"
    /\ minta' = [minta EXCEPT ![p] = Kosong]
    /\ UNCHANGED <<pengguna, sesi, nomor, catatan>>

-----------------------------------------------------------------------------
(* Login: AuthHandler.Login and Store.Authenticate *)

\* GetUserByUsername, is_active and locked_until; whether the password entered is
\* the one of the hash that was read.
CobaLogin(p, a, cocok) ==
    /\ minta[p] = Kosong
    /\ Ada(a) /\ pengguna[a].aktif /\ ~Terkunci(a)
    /\ minta' = [minta EXCEPT ![p] =
            [tahap |-> "verif", akun |-> a, sandi |-> pengguna[a].sandi, cocok |-> cocok]]
    /\ UNCHANGED <<pengguna, sesi, nomor, catatan>>

\* The hash that was read decides; the counter is written afterwards.
Verifikasi(p) ==
    LET m == minta[p] IN
    /\ m.tahap = "verif"
    /\ IF m.cocok
       THEN /\ pengguna' = [pengguna EXCEPT ![m.akun] = NolkanGagal(@)]
            /\ tebak' = [tebak EXCEPT ![m.akun] = 0]
            /\ minta' = [minta EXCEPT ![p].tahap = "sesi"]
       ELSE /\ pengguna' = [pengguna EXCEPT ![m.akun] = NaikkanGagal(@)]
            /\ tebak' = [tebak EXCEPT ![m.akun] =
                    IF pengguna[m.akun].gagal + 1 >= MaxGagal THEN @ + 1 ELSE 0]
            /\ minta' = [minta EXCEPT ![p] = Kosong]
    /\ UNCHANGED <<sesi, nomor, diberi, sebab>>

\* CreateSession, for the password that was checked.
BuatSesi(p) ==
    LET m == minta[p] IN
    /\ m.tahap = "sesi" /\ nomor < MaxSesi
    /\ nomor' = nomor + 1
    /\ sesi' = sesi \cup
            {[id |-> nomor + 1, akun |-> m.akun, sandi |-> m.sandi]}
    /\ sebab' = IF m.sandi = pengguna[m.akun].sandi THEN sebab
                ELSE sebab \cup {m.akun}
    /\ minta' = [minta EXCEPT ![p] = Kosong]
    /\ UNCHANGED <<pengguna, tebak, diberi>>

\* Logout deletes the session of the cookie; or the session expires.
Keluar(s) ==
    /\ s \in sesi
    /\ sesi' = sesi \ {s}
    /\ UNCHANGED <<pengguna, minta, nomor, catatan>>

-----------------------------------------------------------------------------
(* RequireAuth and RequireRole, and the reads of the handlers behind them *)

\* GetSession and GetUserByID: an inactive user loses the session.
Ditolak(p, s) ==
    /\ minta[p] = Kosong /\ s \in sesi
    /\ ~pengguna[s.akun].aktif
    /\ sesi' = sesi \ {s}
    /\ UNCHANGED <<pengguna, minta, nomor, catatan>>

\* Everybody may see to the own account: GetByID or GetPasswordHash.
BacaPribadi(p, s, urusan) ==
    /\ minta[p] = Kosong /\ s \in sesi
    /\ pengguna[s.akun].aktif
    /\ minta' = [minta EXCEPT ![p] =
            [tahap |-> "tulis", urusan |-> urusan, kue |-> s.id, target |-> s.akun,
             baca |-> IF urusan = "profil" THEN Hak(s.akun) ELSE <<>>]]
    /\ UNCHANGED <<pengguna, sesi, nomor, catatan>>

\* RequireRole: owner and admin see to the others.  GetByID or, for a new user,
\* GetByUsername; nobody switches himself off with the toggle.
BacaKelola(p, s, urusan, t) ==
    /\ minta[p] = Kosong /\ s \in sesi
    /\ pengguna[s.akun].aktif /\ pengguna[s.akun].peran \in Pengelola
    /\ urusan = "buat" <=> ~Ada(t)
    /\ ~(urusan = "toggle" /\ s.akun = t /\ pengguna[t].aktif)
    /\ minta' = [minta EXCEPT ![p] =
            [tahap |-> "tulis", urusan |-> urusan, target |-> t,
             baca |-> IF urusan = "toggle" THEN Hak(t) ELSE <<>>]]
    /\ UNCHANGED <<pengguna, sesi, nomor, catatan>>

-----------------------------------------------------------------------------
(* The writes of the handlers *)

Siap(p, urusan) == minta[p].tahap = "tulis" /\ minta[p].urusan = urusan
Selesai(p) == minta' = [minta EXCEPT ![p] = Kosong]

\* ProfileHandler.Update: names come from the form, the rest from the row read.
TulisProfil(p) ==
    LET m == minta[p] IN
    /\ Siap(p, "profil")
    /\ pengguna' = [pengguna EXCEPT ![m.target] = Timpa(@, m.baca[1], m.baca[2])]
    /\ Selesai(p)
    /\ UNCHANGED <<sesi, nomor, catatan>>

\* UserAccountService.Update: role and activity come from the form.
TulisUbah(p) ==
    LET m == minta[p] IN
    /\ Siap(p, "ubah")
    /\ \E r \in Peran, b \in BOOLEAN :
            LET u == Timpa(pengguna[m.target], r, b) IN
            pengguna' = [pengguna EXCEPT ![m.target] = u] /\ Beri(m.target, u)
    /\ Selesai(p)
    /\ UNCHANGED <<sesi, nomor, tebak, sebab>>

\* ToggleActive and SetActive: the opposite of what was read.
TulisToggle(p) ==
    LET m == minta[p]
        u == [pengguna[m.target] EXCEPT !.aktif = ~m.baca[2]]
    IN
    /\ Siap(p, "toggle")
    /\ pengguna' = [pengguna EXCEPT ![m.target] = u] /\ Beri(m.target, u)
    /\ Selesai(p)
    /\ UNCHANGED <<sesi, nomor, tebak, sebab>>

\* UserAccountService.Create: username is unique.
TulisBuat(p) ==
    LET m == minta[p] IN
    /\ Siap(p, "buat")
    /\ \/ /\ ~Ada(m.target)
          /\ \E r \in Peran, b \in BOOLEAN :
                LET u == [peran |-> r, aktif |-> b, sandi |-> 1, gagal |-> 0, kunci |-> 0] IN
                pengguna' = [pengguna EXCEPT ![m.target] = u] /\ Beri(m.target, u)
       \/ Ada(m.target) /\ UNCHANGED <<pengguna, diberi>>
    /\ Selesai(p)
    /\ UNCHANGED <<sesi, nomor, tebak, sebab>>

\* ResetPassword: a new password; the sessions of the account stay.
TulisReset(p) ==
    LET m == minta[p] IN
    /\ Siap(p, "reset") /\ pengguna[m.target].sandi < MaxSandi
    /\ pengguna' = [pengguna EXCEPT ![m.target] = SandiBaru(@)]
    /\ tebak' = [tebak EXCEPT ![m.target] = 0]
    /\ sebab' = sebab \cup {m.target}
    /\ Selesai(p)
    /\ UNCHANGED <<sesi, nomor, diberi>>

\* ChangePassword: the old password, compared with the hash that was read, and
\* the UPDATE.  From now on the session is one of the new password.
TulisSandi(p) ==
    LET m == minta[p] IN
    /\ Siap(p, "sandi") /\ pengguna[m.target].sandi < MaxSandi
    /\ pengguna' = [pengguna EXCEPT ![m.target] = SandiBaru(@)]
    /\ tebak' = [tebak EXCEPT ![m.target] = 0]
    /\ sesi' = {IF s.id = m.kue THEN [s EXCEPT !.sandi = pengguna'[m.target].sandi] ELSE s : s \in sesi}
    /\ minta' = [minta EXCEPT ![p].tahap = "bersih"]
    /\ UNCHANGED <<nomor, diberi, sebab>>

\* DeleteSessionsByUserExcept.
Bersihkan(p) ==
    LET m == minta[p] IN
    /\ m.tahap = "bersih"
    /\ sesi' = HapusKecuali(sesi, m.target, m.kue)
    /\ Selesai(p)
    /\ UNCHANGED <<pengguna, nomor, catatan>>

\* A password, form or statement is refused, the client goes away or the server
\* stops: what was written stays, the rest never happens.
Berhenti(p) ==
    /\ minta[p] # Kosong
    /\ sebab' = IF minta[p].tahap = "bersih" THEN sebab \cup {minta[p].target} ELSE sebab
    /\ Selesai(p)
    /\ UNCHANGED <<pengguna, sesi, nomor, tebak, diberi>>

-----------------------------------------------------------------------------
Detik ==
    /\ \E a \in Akun : Terkunci(a)
    /\ pengguna' = [a \in Akun |->
            IF Terkunci(a) THEN [pengguna[a] EXCEPT !.kunci = @ - 1] ELSE pengguna[a]]
    /\ tebak' = [a \in Akun |-> IF Terkunci(a)' THEN tebak[a] ELSE 0]
    /\ UNCHANGED <<sesi, minta, nomor, diberi, sebab>>

Init ==
    /\ pengguna = [a \in Akun |->
            IF a = Pendiri
            THEN [peran |-> "owner", aktif |-> TRUE, sandi |-> 1, gagal |-> 0, kunci |-> 0]
            ELSE Tiada]
    /\ sesi = {} /\ nomor = 0
    /\ minta = [p \in Minta |-> Kosong]
    /\ tebak = [a \in Akun |-> 0]
    /\ diberi = [a \in Akun |-> IF a = Pendiri THEN {"owner"} ELSE {}]
    /\ sebab = {}

Permintaan(p) ==
    \/ \E a \in Akun, cocok \in BOOLEAN : CobaLogin(p, a, cocok)
    \/ Verifikasi(p) \/ BuatSesi(p)
    \/ \E s \in sesi : \/ Ditolak(p, s)
                       \/ \E o \in Pribadi : BacaPribadi(p, s, o)
                       \/ \E o \in Kelola, t \in Dikelola : BacaKelola(p, s, o, t)
    \/ Bersihkan(p) \/ Berhenti(p)
    \/ TulisProfil(p) \/ TulisUbah(p) \/ TulisToggle(p)
    \/ TulisBuat(p) \/ TulisReset(p) \/ TulisSandi(p)

Next ==
    \/ \E p \in Minta : Permintaan(p)
    \/ \E s \in sesi : Keluar(s)
    \/ Detik

Spec == Init /\ [][Next]_vars

-----------------------------------------------------------------------------
(* Properties *)

TypeOK ==
    /\ pengguna \in [Akun -> Baris \cup {Tiada}]
    /\ sesi \subseteq Sesi
    /\ minta \in [Minta -> {Kosong} \cup Login \cup Urus]
    /\ nomor \in Nat /\ tebak \in [Akun -> Nat]
    /\ diberi \in [Akun -> SUBSET Peran]
    /\ sebab \subseteq Akun

\* From the failure that locks an account until the lock ends, no more passwords
\* are tried than requests were already past the check: logins that run side by
\* side do not get round the lock, also when the counter stands at its limit from
\* an earlier one.
TebakanTerbatas == \A a \in Akun : tebak[a] <= Cardinality(Minta)

\* The sessions left after a password change are those of the new password,
\* except where the deletion still has to come or was cut off, the password was
\* reset by the management, or a login that had checked the old password came
\* after it.
SesiSandi ==
    \A s \in sesi :
        \/ s.sandi = pengguna[s.akun].sandi
        \/ \E p \in Minta : minta[p].tahap = "bersih" /\ minta[p].target = s.akun
        \/ s.akun \in sebab

\* Whatever a user writes into the own profile, and however it overlaps with the
\* management: a user has only a role the management gave to this account.
HakDiberi ==
    \A a \in Akun : Ada(a) => pengguna[a].peran \in diberi[a]

-----------------------------------------------------------------------------
(* The inductive invariant these rest on *)

\* An unlocked account has no failures in the count, and whoever is past the check
\* of the lock is one of the requests.
Mencoba(a) == {p \in Minta : minta[p].tahap = "verif" /\ minta[p].akun = a}
GagalDibatasi ==
    \A a \in Akun : /\ ~Terkunci(a) => tebak[a] = 0
                    /\ tebak[a] + Cardinality(Mencoba(a)) <= Cardinality(Minta)

\* A request knows an account that is there, and what it read stays permitted: the
\* role is one the management gave, the session is one of the account.
Sah(m) ==
    /\ m.tahap \in {"verif", "sesi"} => Ada(m.akun)
    /\ m.tahap \in {"tulis", "bersih"} =>
        /\ m.urusan # "buat" => Ada(m.target)
        /\ m.urusan \in Pribadi =>
            m.kue <= nomor /\ \A s \in sesi : s.id = m.kue => s.akun = m.target
    /\ m.tahap = "tulis" =>
        /\ m.urusan \in {"profil", "toggle"} => m.baca # <<>>
        /\ m.urusan = "profil" => m.baca[1] \in diberi[m.target]
PermintaanSah == \A p \in Minta : Sah(minta[p])

\* The key of a session is used once.
SesiMilik ==
    \A s \in sesi : /\ Ada(s.akun) /\ s.id <= nomor
                    /\ \A t \in sesi : t.id = s.id => t.akun = s.akun

\* A session of an old password is one that a deletion still to come deletes: not
\* the one that changed the password.
SesiUsang ==
    \A s \in sesi :
        \/ s.sandi = pengguna[s.akun].sandi
        \/ \E p \in Minta :
            minta[p].tahap = "bersih" /\ minta[p].target = s.akun /\ minta[p].kue # s.id
        \/ s.akun \in sebab

InvAkun == TypeOK /\ GagalDibatasi /\ PermintaanSah /\ SesiMilik /\ SesiUsang /\ HakDiberi

=============================================================================
