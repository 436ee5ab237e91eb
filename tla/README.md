# tokobangunan: a verification development

`tokobangunan` is the back office of a chain of building-material shops: sales,
purchases, stock of several warehouses, receivables and payments. It is one Go
server (echo, pgx) in front of one PostgreSQL database, with a small offline
queue in the browser. This directory holds TLA+ models of it, the TLC
configurations that check them on small instances and proofs, checked by TLAPS,
that hold for every instance.

Names in the models are the names of the source (mostly Indonesian): *faktur*
invoice, *gudang* warehouse, *stok* stock, *dibayar* paid, *retur* return,
*cicil* instalments, *mutasi* transfer, *opname* stock count, *penyesuaian*
adjustment, *antrean* queue, *sesi* session, *sandi* password, *tulis* write,
*hapus* delete, *kunci* lock or key, *lembar* sheet, *jalan* a run. In the
modules of documents, actions are called `Mulai…` (the part of a request before
its transaction), `Kunci…` (what it locks and reads under the lock) and
`Selesai…` (the writes, and the commit).

## 1. Inventory

| part | state | operations | what must hold |
|---|---|---|---|
| sales (`service/penjualan.go`, `repo/penjualan.go`) | `penjualan`, `penjualan_item` | Create, Update, Cancel | stock never negative; goods neither lost nor counted twice; one form stored once; no correction of a paid invoice |
| customer payments (`service/pembayaran.go`, migration 0017) | `pembayaran`, `status_bayar` of the invoice | Record, RecordBatch, status trigger | no payment beyond the total; the status follows the payments; batches pay the oldest first and all or nothing |
| returns (`service/retur_penjualan.go`) | `retur_penjualan(_item)`, negative payments | Create | never more of an item returned than sold; a fully returned invoice is settled |
| receivables (`repo/piutang.go`) | – | list, summary, aging | what is listed is what is owed |
| stock (`repo/stok.go`, migrations 0014, 0024) | `stok` | written by all documents | changes exactly as the documents say |
| transfers (`service/mutasi.go`) | `mutasi_gudang`, `mutasi_item` | Create, Submit, Receive, Cancel | goods leave once, arrive once or come back once |
| adjustments (`service/stok_adjustment.go`) | `stok_adjustment` | Create | never below zero |
| stock counts (`service/stok_opname.go`, migration 0016) | `stok_opname`, `stok_opname_item` | Create, UpdateItem, Submit, Approve | an approved count is final |
| purchases (`service/pembelian.go`) | `pembelian`, `pembayaran_supplier` | Create, Update, Cancel, RecordPayment | stock and header agree; status follows the payments |
| savings (`repo/tabungan_mitra.go`) | ledger with running balance | Setor, Tarik | balance is the sum of the entries; no overdraft |
| offline queue (`web/static/js/sync.js`, `sw.js`, `handler/penjualan.go`) | IndexedDB store `pending`, a flush per tab, `client_uuid` | enqueue, flush, service worker, logout | no sale lost silently, none stored twice, every one delivered in the end |
| accounts, sessions (`internal/auth`, `handler/auth.go`, `handler/profile.go`, `service/user_account.go`) | `"user"`, `session` | login, logout, profile, password, management of users | lockout holds against parallel guesses; sessions end with their password; nobody gives himself rights |
| master data with versions (`handler/`, `repo/` of produk, mitra, supplier, gudang, satuan, diskon; migration 0022; `produk_foto.go`) | one table each, `version`, photo files | list, form, create, edit, delete, toggle, photo | no lost update; deleted rows stay deleted; the photo named exists |
| prices, cash book, portal links (`harga_produk`, `cashflow`, `mitra_token`) | one table each | single-row writes | as above |
| settings, printer templates, onboarding wizard (`handler/setting_pajak.go`, `setting_smtp.go`, `repo/printer_template.go`, `handler/onboarding*.go`) | `app_setting`, `printer_template`, and what the wizard creates | save, SetDefault, the four steps | one default per group; the reported number of imported rows is true |
| Excel import (`importer/excel`, `cmd/migrate-excel`) | all tables of documents | dry run, import, repeated import | a row of a sheet is stored once; stock agrees with the rows |
| backup and restore (`handler/backup.go`) | backup files, a mutex, a lock file, scripts | Trigger, Restore | one restore at a time; the lock file does not stay behind |
| reports, audit log, printing, e-mail, views, number words | none, or rows nobody reads | queries, conversions | see section 7 |

How they interact: the requests share nothing but the database. A request reads
what it needs with separate statements, validates, opens a transaction, locks
rows with `SELECT … FOR UPDATE`, writes and commits; triggers run inside the
writing statement. Accounts, wizard, printer templates, purchase payments and
most master data run without a transaction: their statements take effect one by
one. PostgreSQL runs at READ COMMITTED, so everything read before a lock may be
stale when it is used. There are no background jobs in the server, no messages
between servers and no retry of a failed request except the browser's own queue.

What is hard here is therefore: the reads before the transaction, the order of
row locks, the rows that do not exist yet and cannot be locked, four writers of
one status column, edits and returns that replace what others read, a failure
between two statements without a transaction, answers that are lost and forms
that are sent again, screens that are older than the rows they show, and a stop
of the server while a script it started goes on. `PROJECT.json` lists these
hazards at their lines, each with the properties that are about it.

## 2. Modules

| module | models | composition |
|---|---|---|
| `StokDasar` | stock, baskets of goods and the arithmetic on them | used by sales, stock and purchases |
| `FakturDasar` | invoice rows, totals, the status computed from payments | extends `StokDasar` |
| `PenjualanAtomik` | what sales, payments and returns promise: each takes effect in one step | abstract specification |
| `Penjualan` | the requests as the code runs them: reads, locks, writes | implements `PenjualanAtomik` (`SatuPerSatu`) |
| `MCPenjualan`, `PenjualanProofs` | values for TLC, theorems | extend `Penjualan` |
| `Persediaan` | transfers, adjustments and counts over one stock table | extends `StokDasar` |
| `MCPersediaan`, `PersediaanProofs` | values for TLC, theorems | extend `Persediaan` |
| `Pembelian` | purchases, their corrections and the payments to suppliers | extends `StokDasar` |
| `MCPembelian`, `PembelianProofs` | values for TLC, theorems | extend `Pembelian` |
| `Tabungan` | the savings ledger and its running balance | – |
| `MCTabungan`, `TabunganProofs` | values for TLC, theorems | extend `Tabungan` |
| `SinkronJanji` | what the offline mode promises the cashier about a form | abstract specification |
| `Sinkron` | queue, tabs, service worker, connection and server | implements `SinkronJanji` (`MemenuhiJanji`), liveness included |
| `MCSinkron`, `SinkronProofs` | values for TLC, theorems | extend `Sinkron` |
| `Akun` | login, lockout, sessions, passwords, management of users | – |
| `MCAkun`, `AkunProofs` | values for TLC, theorems | extend `Akun` |
| `Katalog` | nine kinds of rows behind lists and forms | – |
| `Pengaturan` | settings, printer templates, the wizard | – |
| `Impor` | the Excel import | – |
| `Cadangan` | backup and restore | – |
| `MCMaster` | the parts an administrator works with, in one specification | composes `Katalog`, `Pengaturan`, `Impor`, `Cadangan` |
| `MasterProofs` | theorems about each of these parts and about their composition | extends `MCMaster` |
| `HitungProofs` | lemmas about sums over finite sets and least elements | used by the other modules of theorems |

Operators marked *Faulty* in the modules are slips the code could have made.
They take part in no specification; they are there to show that each property
would notice.

### Penjualan

State: `faktur` is `penjualan` with its items, `dibayar` and `adaBayar` the sum
and the presence of rows of `pembayaran`, `diretur` what was returned,
`terpakai` the client_uuids of payments, `stok` the stock, `pemilik` the row
lock of each invoice, `proses` what every running request has read so far. An
invoice is named by the client_uuid of its form, so "a second request with the
same form" is a second request for the same invoice.

| action | code |
|---|---|
| `MulaiBuat`, `SelesaiBuat` | `PenjualanService.Create` up to and in `PenjualanRepo.Create` |
| `MulaiUbah`, `MulaiBatal` | checks of `Update` and `Cancel` before the transaction |
| `KunciKoreksi`, `SelesaiUbah`, `SelesaiBatal` | `UpdateInTx`, `CancelInTx` |
| `MulaiBayar`, `KunciBayarFaktur`, `SelesaiBayar` | `PembayaranService.Record` and the trigger |
| `MulaiCicil`, `KunciCicil`, `SelesaiCicil` | `RecordBatch`: the list, one turn of the loop, the commit |
| `MulaiRetur`, `KunciRetur`, `SelesaiRetur` | `ReturPenjualanService.Create` |
| `Gagal` | any error, deadlock victim or crash: rollback |

Abstractions. Stock rows are locked and written in the step that commits: a
sale reads the quantities there under the lock, so an earlier lock only delays
others. The two reads `Update` and `Cancel` make before their transaction
(status, payments) are one step: every lost race between them is also lost
between that step and the lock. One line per product and invoice; prices and
discounts are a value of the basket (`Nilai`, `Diskon`). The form of a return
may name an item on two lines, `isi` the larger and `ulang` the smaller: the
code compares each of up to a hundred lines alone with what was returned before
(`service/retur_penjualan.go:202`), and two lines are the fewest that bring back
more than was sold. A batch lists every open invoice (the code: the first
hundred). Not modelled: invoice numbers,
credit limits, PPN, payments without an invoice, the answer to a form that is
stored already (it changes nothing).

`BatalHanyaDibayar` of this module says how a cancelled invoice can come back:
`Record` does not look at the status of the invoice it locks
(`service/pembayaran.go:128`), and the trigger then computes a new one. Only
that step may do it. Three more properties of the run with every operation say
in the same form what the checks before the lock are worth:

- `ReturLebihHanyaGanda`: a return brings back more than the invoice holds only
  by a form that names an item twice, never through items read before an edit.
- `StokIkutFaktur`: a step changes the stock of a warehouse by as much as it
  changes what its valid invoices hold and returned, except a payment that
  revives a cancelled invoice (`Dihidupkan`), an edit that names another
  warehouse (`PindahGudang`) and a cancellation of an invoice with returns
  (`BatalSetelahRetur`).
- `BayarMembekukan`: an invoice that has payments, and of which no correction is
  under way, is never edited or cancelled, and its status follows its payments
  from then on (`Beku`). A correction that checked before the payment committed
  does change it: that race is the only way.

### Persediaan

State: `stok` and `ada`, the quantities and the rows that exist; `kunci`, the
row locks; the documents `mutasi`, `opname` and the sum `penyesuaian`; `proses`
as above. `Submit` of a transfer is modelled statement by statement
(`MulaiKirim`, `KunciBaris` or `LihatHampa` and `SisipBaris`, `CekStok`,
`SelesaiKirim`), because its safety rests on locks taken before the quantities
are read, in the random order of a Go map. A row inserted and not yet committed
is locked but not in `ada`. Everything else (`SelesaiTerima`,
`SelesaiBatalMutasi`, `Sesuaikan`, `SelesaiSetujui`) writes in the step that
commits and is enabled only when nobody else holds a row it writes. `BuatOpname`
merges the reading of the stock with the insert of the count: nobody can see
the count in between, and it may be stale at any later moment anyway.

### Pembelian

State: `beli` is `pembelian` with its items, `dibayar` the sum of
`pembayaran_supplier` per purchase, `stok` the stock, `proses` what a request
has asked for or read. `BuatBeli` is `Create`; `MulaiUbah` and `MulaiBatal` are
the checks before the transactions of `UpdateInTx` (`SelesaiUbah`) and
`CancelInTx` (`SelesaiBatal`). These transactions use nothing they have not
locked, so each is one step. `SelesaiUbah` puts the new goods into the warehouse
the header had BEFORE the edit, because the items are inserted before the header
is updated and the trigger reads the header. `RecordPayment` runs without a
transaction and is four steps: `CatatBayar`, `BacaHeader`, `BacaJumlah`,
`TulisStatus`; `Gagal` may end it after any of them and what it wrote stays.

Nothing in the code stops a payment for a purchase that was cancelled, and the
recomputation then gives it a valid status again, so that a cancellation checked
earlier may take the goods out a second time. `KonservasiBeli` therefore speaks
of the states in which no cancelled purchase was paid for, and
`BatalHanyaDibayar` says that a payment is the only thing that can do this.
Not modelled: payments without a purchase, numbers, names, units.

### Tabungan

State: `buku`, the committed rows of `tabungan_mitra`; `urut`, the sequence of
their ids; `uang`, the money that really changed hands; `proses`. `Setor` and
`Tarik` are one `Baca`: the row `ORDER BY tanggal DESC, id DESC LIMIT 1` picks
from the snapshot of the statement. The lock on that row, the check of the
balance and the INSERT use nothing else, so they are one step, `Sisip`; the
commit, `Selesai`, is another because ids are handed out before commits and
decide the order of entries of one day. `FOR UPDATE` re-reads a row only if it
was changed, and entries are never changed: a request that waited for the lock
goes on with the row it had picked, whatever was inserted after it. That and
the missing lock on an empty ledger let a ledger fork; an entry dated back is
never the last one. `SaldoSetia` says that nothing else can make the balance
wrong. Requests that name an unknown customer change nothing and are left out.

### SinkronJanji and Sinkron

`SinkronJanji` is the cashier's view: a form is `"baru"` (new), `"dititip"`
(the page said it is kept), `"tersimpan"` (stored by the server) or `"hilang"`
(nobody holds it any more). What is stored stays stored, and a form that is kept
does not stay so for ever.

`Sinkron` is the code. State: `antrean`, the records of the object store, and
`urut`, its last key; `tab`, what the flush (or the page itself) of each tab is
doing, with the snapshot of the queue it is working through; `sambung` and `sw`,
the connection and whether a service worker controls the pages; `nota`, how
often the server stored a form; `lepas`, requests nobody waits for any more and
that may still arrive. `titip` and `sebab` record what the cashier was told and
why a form may be lost; `lembar` and `gangguan` are bounds.

| action | code |
|---|---|
| `Titip` | `sync.js` offlineSubmit: enqueue, new client_uuid |
| `Submit` | the browser's own submit of the form, online |
| `MulaiFlush`, `Lanjut`, `Terima` | `SyncEngine.flush`: getAll, one turn of the loop, the answer |
| `CekNota`, `Simpan`, `Tolak` | `PenjualanHandler.Create`: GetByClientUUID, the INSERT and its unique index, 4xx of the middleware or of the form |
| `Galat`, `Menyusul` | 5xx; a request that arrives after its tab stopped waiting |
| `Putus`, `Antrekan` | fetch fails, without and with `sw.js` handlePenjualanPost |
| `TutupTab`, `Terputus`, `Tersambung`, `Keluar` | a closed tab, the connection, logout with `Clear-Site-Data` |

The refinement is `Janji == INSTANCE SinkronJanji WITH status <- [f \in Form |->
Status(f)]`, and the property is `Janji!Spec`, its fairness part included. The
service worker queues a body it can no longer read, which is why `"kosong"` is
one of the reasons for a loss; the promise in the documents that it does not
lose the form is the counterexample `temuan_sinkron`.

### Akun

State: `pengguna`, the rows of `"user"` with role, activity, password (its
number), failures and the time left of a lock; `sesi`, the sessions, each with
the password it was opened with; `minta`, what each request has read; `diberi`,
`tebak` and `sebab` are history: the roles the management gave, the failures
counted from the one that locks the account until the lock ends, and accounts a
session of which may have outlived its password for one of the named reasons.

No handler opens a transaction. What a request reads before its first write is
one step (`CobaLogin`, `BacaPribadi`, `BacaKelola`), and every write another:
`Verifikasi`, `BuatSesi`, `TulisProfil`, `TulisUbah`, `TulisToggle`,
`TulisBuat`, `TulisReset`, `TulisSandi`, `Bersihkan`. `Berhenti` may end a
request between any two. `RequireAuth` and `RequireRole` are the guards of the
reads, `Ditolak` the session of a user who was switched off. Time passes by
`Detik`. How long a session lasts is left open, so it may expire at any time
(`Keluar`). The counter stops at `MaxGagal`, where one more failure has the same
effect.

What the code does and the properties allow, by name: `ResetPassword` by the
management leaves the sessions of the account alive; a login that checked the
old password creates its session after the change; a deletion of sessions that
was cut off is never made up for; and a profile saved from an old read puts back
a role or an activity the management has changed since. `HakDiberi` therefore
says that the role is one the management gave this account at some time, not
that it is the last one.

### Katalog

One module for nine kinds of rows that are worked on in the same way, a list,
a form, a request: products, customers, suppliers, warehouses, units,
discounts, the cash book, prices and portal links. Every kind has a handler, a
service and a table of its own and no request touches two of them, so `jenis`
is chosen at the start. State: `tabel`; `layar`, the screen of each user, which
stays as it is while others change the rows; `berkas`, the photo files; `tulis`
numbers the writes, so that the content of a row is the number of the write it
comes from, activity included; `cacat` remembers uploads that broke off.

The actions of a kind are the handlers (`IndexProduk`, `EditProduk`,
`PeriksaUbahProduk`, …); what they share (`Lihat`, `Sunting`, `Lolos`,
`Tambah`, `Simpan`) is an operator with the differences as arguments: which
rows a list shows, whether the form carries the version, what the WHERE of the
UPDATE compares, whether deleted rows count for a unique index. The version is
counted only where somebody reads it (products, customers). An entry of the cash
book is really deleted and its number free again; its number is modelled as any
free one, more than the highest plus one of the code. A price for all warehouses
has a NULL in its key and escapes the unique index. A portal link is revoked by
an UPDATE and may have expired at any time.

### Pengaturan

State: `setelan` (`app_setting`), `templat` (`printer_template`), `cabang`,
`barang`, `kasir` (what the wizard creates), `mohon` (what each request is
doing). Saving a printer template as default is two things: the statement that
saves the row (`SisipTemplat`, `TimpaTemplat`) and the transaction `SetDefault`
with its two UPDATEs and the rows they lock one by one (`CariGrup`,
`BersihkanSatu`, `JadikanBawaan`). The wizard's CSV step is a loop of a check
and an INSERT per row (`CekBaris`, `SisipBaris`), the warehouse and cashier
steps loops over forms. `luput` counts the rows that came to exist and that no
page counts: the answer of the INSERT was lost, so the row counts as failed, or
the request was cut off (`PutusCSV`) and the page with its numbers never came. The guard in front of the wizard lets every step pass in
any order, as in the code. That an SMTP form without a password writes back the
one read earlier is left out.

### Impor

State: the workbook (`lembar`, `milik`, `bertanggal`, `seiring`), which is
fixed, the tool being run again on the same files; `jalan`, where each run is;
`migran`, `produkDB`, `mitraDB`, `tersimpan`, `stokDB`, what is in the database.
A run makes sure of its user (`CariPengguna`, `BuatPengguna`), of products and
customers (a read, then the INSERTs) and then takes the seven sheets in their
order, each one transaction and one step: what meets an uncommitted row of
another run waits for it, and nobody else writes these tables. A dry run rolls
back. `Berakhir` breaks a run off anywhere. Every quantity is one unit, dates
are readable or not; rows of the savings sheet have no key and are stored again
by every run, which `TransaksiSekali` says.

### Cadangan

State: `pinta`, how far each request is; `kunci`, the lock file; `skrip`, the
restore scripts that run, `yatim` those whose server is gone. `Restore` is
TryLock, Stat, OpenFile with O_EXCL, the script, the removal of the lock file
and Unlock (`Gembok`, `CekKunci`, `BuatKunci`, `MulaiSkrip`, `HapusKunci`,
`BukaGembok`). `HapusKunci` waits until the last process that holds the pipe of
`CombinedOutput` is gone. `Mati` stops and restarts the server at any step; a
script it had started may go on. A lock file left by such a stop refuses every
further restore until somebody removes it by hand: that is what the code does,
and `PulihSatu` needs it. The file is therefore taken to survive the restart,
as it does when the process is started again in its container; a container
created anew would come up without it (`tmp/restore.lock`), and without the
promise. The removal itself may fail unnoticed (`handler/backup.go:179` drops
its error), which `tertinggal` records like a stop of the server. Not modelled:
what a dump contains, a backup taken while a restore runs.

### MCMaster

The four modules above share no row and no request, so `giliran` chooses which
of them moves and the others rest in one of their initial states. The values of
their constants are shared model values, and one set of permutations serves all
of them. `TypeMaster` is the conjunction of their type invariants.

## 3. Runs

| run | question | bounds |
|---|---|---|
| `penjualan_semua` | all six kinds of request at once on one invoice: returns, payments, what brings a cancelled invoice back, what a payment protects, what moves stock, refinement of `PenjualanAtomik` | 1 invoice, 2 warehouses with 2 units, 2 requests, 1 edit, amounts 1 and 3, 1 payment key |
| `penjualan_tagihan` | payments and returns: overpayment, oldest first, stock conservation | 2 invoices, 1 warehouse, baskets of at most 1, discounts 0 and 1, amounts 1 and 3, no corrections |
| `penjualan_koreksi` | chains of creations, edits and cancellations: no negative stock, conservation of goods | 2 invoices, 1 warehouse, 2 units, 1 edit each |
| `persediaan` | transfers, adjustments and a count at once | 2 warehouses (one unit, in the first; the second has no row), 2 transfers, 1 count, net adjustment at most 1, 2 requests |
| `pembelian` | purchases, edits, cancellations and payments at once: goods enter once, a cancelled purchase stays as it is until it is paid for | 2 purchases worth 2, 2 warehouses, 2 requests, payments of 1 and 2 up to 2 per purchase, discounts 0 and 3 (3 makes the total negative) |
| `tabungan` | deposits and withdrawals at once: balance and money agree in every ledger that neither forked nor was dated back | 2 customers, 2 dates, amounts 1 and 2, 3 ids, 2 requests |
| `sinkron` | a form through queue, tabs, service worker and server: stored once, lost only for a named reason, delivered in the end, as `SinkronJanji` says | 1 form, 2 tabs, submitted at most twice, 3 records, 3 disturbances, with and without a service worker |
| `akun` | logins, password changes, profiles and management at once: lockout, sessions, rights | 2 accounts, 2 roles, 2 requests, lock after 2 failures for 1 tick, 2 sessions, 2 passwords |
| `master` | the administrator's parts: lost updates, deleted rows, photos, one default, the wizard's count, every small workbook imported with runs that break off, overlap and are repeated, restores with the server stopping | 2 rows, 2 codes, 2 users, 3 writes; 2 templates, 2 groups, 2 names, 4 requests, CSV of 2 rows; 3 rows of sheets, 1 product, 1 customer, 2 runs; 2 restores or backups, 2 files |
| `temuan_stok_baris_baru` | a transfer drives a new stock row negative | counterexample |
| `temuan_status_beli` | a purchase keeps a status its payments do not have | counterexample |
| `temuan_sinkron` | the service worker queues an empty form and reports it as kept | counterexample |

Why the bounds are enough. Every hazard of the list needs two requests that
overlap and at most one that ran before; a third running request adds no new
pair of a stale read and a write. Two units of stock and baskets of one and two
make "enough for one, not for both" happen; amounts 1 and 3 against totals of
1, 2 and 4 make partial, exact and excessive payments happen; two invoices make
the order of a batch visible and one amount cover more than one invoice. Three
entries of a ledger are the fewest with a first one, one after it and a rival of
either; two customers show that they do not disturb each other.

Forms meet in `Sinkron` only in the order of the queue and in a logout, so one
form with three records (its own and the empty ones the service worker adds)
shows every way of losing or doubling it; two tabs are needed for two flushes of
one queue, two submissions for a form that was sent with Back or whose answer
was lost, three disturbances for a lost answer followed by a closed tab and a
5xx. In `Akun` two roles are one that may manage users and one that may not, two
failures separate "the first" from "the one that locks", and one tick separates
locked from unlocked. In `Katalog` the third write is the one that meets a
screen older than the second; in `Impor` three rows of sheets can be a sale that
names a product, a row of stock and a transfer of it, and one product and one
customer are the case in which rows meet. The lists have a search box and pages,
which only leave out rows a user might have looked at.

Requests, users and rows are interchangeable where a symmetry set is used; the
properties of these runs are safety properties that do not mention a particular
one. The run that checks liveness, `sinkron`, uses none. What the bounds cut off
is covered, for the properties of section 6, by the proofs.

Deadlock checking is off: a model stops when every document is in its last state
and the bounds of edits, payments, writes, runs and disturbances are used up,
and so does the shop when nobody asks for anything. A request that waits for a
lock is never stuck: `Gagal`, `Berhenti`, `Berakhir` and `PutusTemplat` end it,
as PostgreSQL's deadlock detection and the request's context guarantee.

## 4. Fairness

Only `Sinkron` states fairness, since only the queue owes anybody progress: the
server promises no request that it will succeed. Weak fairness is assumed of

- `Halaman(t)`: the page of a tab goes on with its flush and starts one while
  the queue is not empty: `sync.js` flushes on load, on `online`, on a timer and
  on a message of the service worker;
- `Server(t) \/ Putus(t)`: a request is answered, or its fetch fails;
- `Menyusul(f)`: what is on its way arrives or is refused;
- `Tersambung`: the connection comes back.

No fairness is assumed of what users do (`Titip`, `Submit`, `TutupTab`,
`Keluar`) nor of faults (`Galat`, `Terputus`), whose number is bounded:
`Tersampaikan` says that after them the form reaches the server unless it was
refused, emptied or erased by a logout. Without the bound a tab that is closed
before every answer would never deliver anything, in the model as in the shop.

## 5. Disagreements with the documents

Three have a run and are listed as findings in `PROJECT.json`. These were met as
well; the models do what the code does, and the properties hold with them:

- An edit of a sale that names another warehouse takes the new goods out of it
  (`repo/penjualan.go:654`), while the UPDATE of the header (`:681`) writes every
  column but the warehouse; a later cancellation returns the goods to the old
  one. `docs/tutorial/05-edit-cancel-kwitansi.md:7` says a cancellation brings
  the stock back to its warehouse. `StokIkutFaktur` excuses that edit by name
  (`PindahGudang`); `KonservasiStok` is checked with one warehouse.
- A return that names an item on two lines brings back more than was sold: each
  line is compared with the returns stored before the form
  (`service/retur_penjualan.go:202`), and `domain/retur_penjualan.go:12` calls
  that quantity more than what can be returned (`ErrReturQtyMelebihi`).
- A cancellation that was checked before a return committed puts every item
  back, the returned ones a second time (`repo/penjualan.go:695`).
- An edit of a purchase that names another warehouse puts the new goods into the
  old one: the trigger on the items reads the header, which is updated after
  them (`repo/pembelian.go:458`).
- A paid invoice that is returned in full is a receivable again: the negative
  payment (`service/retur_penjualan.go:250`) lowers what was paid while the total
  stays.
- Two first deposits of a customer at once both start from zero
  (`repo/tabungan_mitra.go:69`), against the comment at line 56.
- A payment that commits between the check of `Cancel` or `Update` and its lock
  leaves a paid invoice cancelled or rewritten, which
  `docs/tutorial/05-edit-cancel-kwitansi.md:5` rules out; a payment of a cancelled invoice revives it
  (`service/pembayaran.go:128`).
- A `Submit` of a stock count that was delayed reopens an approved one
  (`repo/stok_opname.go:219`).
- The credit limit is compared with receivables read without a lock
  (`service/penjualan.go:178`), and invoice numbers are the highest plus one
  (`repo/penjualan.go:445`): the first lets two sales exceed the limit together,
  the second makes one of two requests fail on the unique index. Neither limit
  nor number is in the model.
- The audit row's before-image is read outside the transaction
  (`middleware/audit.go:130`) and may be older than the write it is stored with.
- A lock file left by a stopped server blocks restores until it is removed.

## 6. Proofs

Every invariant the passing runs check is a theorem, and every action property;
what is left to TLC is named at the end of this section. The inductive
invariants are defined in the module of the component, at its end, and were
checked by TLC on the component's run before they were proved.

`PenjualanProofs`. `IInv` is `TypeOK`, `StokTidakNegatif`, "nothing is returned
of an invoice that does not exist" and, for every request, what it read that is still true: a locked
invoice is its own (`PegangKunci`) and still valid (`BerlakuTerkini`), the
outstanding amount a payment read is current (`BayarTerkini`), a batch owns the
invoices it has passed, took no more than they owe and left none of them unpaid
while it had money (`CicilTerkini`, `UrutCicil`), and the items a return read
are the invoice's as long as the edition is (`ReturTerkini`). The safety
properties alone are not inductive: each of them rests on a value read some
steps earlier. Proved for every value of the constants: `Invarian`, `Tipe`,
`StokAman`, `CicilAman`, the action properties `BayarAman`, `BatalAman`,
`ReturAman`, `BekuAman` and `StokIkut`, which need no hypothesis about the shop,
and `Implementasi`: the requests with their reads and locks
implement `PenjualanAtomik` (`Mulai…`, `Kunci…` and `Gagal` are stutters,
`Selesai…` is the atomic step).

Two of the invariants hold only in a shop that does not offer every operation,
and the theorems say so as a hypothesis about the constants; section 5 names
what goes wrong without it, and each hypothesis is true in the runs that check
the property.

| theorem | hypothesis | without it |
|---|---|---|
| `StokKekal` | `TanpaPindah`: if edits are offered there is one warehouse | an edit that names another warehouse takes the goods there and returns them here |
| | `BatalSendiri`: if cancellations are offered, payments and returns are not | a payment revives a cancelled invoice, whose goods are back already |
| `LebihAman` | `TanpaKoreksi`: no edits, no cancellations | an edit lowers the total under what was paid meanwhile |

`StokKekal` (`InvStok`) adds to `IInv` what cannot have happened when an
operation is not offered (`HanyaOperasi`) and the conservation itself: a step
changes the stock of one warehouse and the share (`Andil`) of one invoice by the
same amount. `LebihAman` rests on `InvTagihan`, which adds that an invoice that
does not exist has no payments.

`PersediaanProofs`. `IInv` adds to the safety property that a `Submit` holds
the row of every product it has passed that existed from the start, and that
once it found the quantities sufficient they still are (`KirimTerkini`). Proved:
`Invarian`, `Tipe`, `StokAwalAman` (rows that exist from the start never go
negative; rows made meanwhile may, as `temuan_stok_baris_baru` shows) and the
action properties `MutasiSelesaiTuntas` and `StokIkut`. The last says that a step moves the stock by as much as it moves the
documents; it needs that only a transfer on its way is being received
(`TerimaDariJalan`), which is inductive by itself.

`PembelianProofs`. `IInv` adds to the types that a request refers to a purchase
that exists and recomputes a status only after a payment (`RujukAda`); without
the second part the last write of `RecordPayment` could revive a cancelled
purchase nobody paid for. `InvBeli` adds that a cancelled purchase keeps its
status until it is paid for (`BatalTetap`): that is what keeps a second
cancellation from taking the goods out again. Proved: `Invarian`, `Tipe`,
`BatalTuntas` (the action property `BatalHanyaDibayar`) and `BeliKekal`.

`TabunganProofs`. `IInv` says that what a request read is an entry of its
customer (`RujukDasar`), that ids are unique, grow along the chain and that a
ledger has a first entry (`NomorUrut`), and that in an orderly ledger the entry
nothing continues is the last one and carries the money (`UjungSetia`,
`AkhirAda`). `SaldoSetia` alone is not inductive: a new entry keeps it only if
the entry it continues was the end of the chain. Proved: `Invarian`, `Tipe`
(no balance is negative) and `Setia`.

`SinkronProofs`. `HilangBeralasan` speaks of tabs, late requests and the queue;
its invariant is simpler. `InvSinkron` says that a form the cashier was told is
kept stays in the queue until it is stored or there is a reason for its loss
(`TitipTersimpan`), so the copies of the tabs never matter, and that a tab holds
an answer that deletes a record only in one of these two cases
(`JawabBeralasan`). Proved: `SinkronTipe`, `SinkronNotaSekali`, `SinkronHilang`
and `SinkronMemenuhiJanji`, that every step of queue, tabs and server is a step
of `SinkronJanji` or a stutter. The refinement needs one fact more, about steps:
no step takes back a form nobody holds any more.

`AkunProofs`. `InvAkun` counts: the guesses past the lock (`tebak`) and the
requests that are already past its check (`Mencoba`) are together at most the
requests there are (`GagalDibatasi`), and only a locked account has guesses
counted. For sessions it says which request is still going to delete an old one,
and that this is not the request's own (`SesiUsang`, with `SesiMilik`: the key of
a session is used once); for roles, that the one a profile request has read is
one the management gave (`Sah`). Proved: `AkunTipe`, `AkunTebakan`, `AkunSesi`,
`AkunHak`.

`MasterProofs`. `MasterBagian` says that `SpecMaster`, which the run checks,
implies the specification of each of its four parts, so the theorems about a
part hold in the composition; `MasterTipe` puts the types together.

- `Katalog`: a form has the version of its row only together with the content of
  its row (`Rujuk`); from this `KatalogTanpaTimpa` and `KatalogHapusAkhir`.
  `KatalogFotoAda` needs that the name of a file is used for one product and by
  one upload (`InvFoto`).
- `Pengaturan`: `DefaultSatu` rests on what a `SetDefault` knows while it takes
  its row locks: rows it has updated stay in its group (`KunciTemplat`), and it
  has seen every other row of the group or was disturbed (`BersihLengkap`).
  `HitunganPas` is a sum over the requests; it is inductive together with the
  types.
- `Impor`: `ImporSekali` and `ImporStokCocok` rest on runs that write being
  imports (`TulisBerarti`) and on purchases and transfers being stored with a date
  (`TercatatTerbaca`), on which the stock sheet relies when it looks for goods
  that have moved.
- `Cadangan`: `PulihSatuAman` and `KunciAman` rest on one request behind the
  mutex, the lock file being there from its creation to its removal, and a script
  without a server keeping the lock file (`InvCadangan`).

`HitungProofs` holds what these proofs share: a sum over a finite set changes
with one summand by as much as the summand does, and is zero if all are
(`SumFunctionOnSet` of the community modules). Its proofs go by the least set
for which a statement fails, ordered by size, with the well-foundedness of the
natural numbers: the library's induction theorems themselves cannot be used here.

Assumptions: only those named in the modules (`StokAssumption`,
`FakturAssumption`, `PenjualanAssumption`, …): quantities and prices are natural
numbers, the initial stock is not negative, invoices are totally ordered, and
what is summed or counted over is finite: invoices, purchases and their
warehouses, transfers, the rows of a workbook, and the requests of `Akun` and
`Pengaturan`. A database and a server have finitely many of each. TLC evaluates
the assumptions in every run.

Only model-checked: liveness under fairness, which is out of the prover's reach
(`Tersampaikan`, and of `MemenuhiJanji` the fairness part; its safety part is
`SinkronMemenuhiJanji`). The three `temuan_…` runs are counterexamples.


## 7. Not modelled

- Reports, dashboard, forecast, search, piutang summaries and aging: queries
  that change nothing and that no other part reads.
- The audit log: rows written after the fact, best effort, read by nobody but
  its page.
- Printing, views, number words, money format: conversions and layout.
- E-mail, secrets, CSRF, rate limits, the router: input and output, or guards
  in front of a handler; where they decide whether a request happens at all they
  are a choice in the models (`Tolak` in `Sinkron`).
- Signed links to one invoice (`penjualan_share`): a signature and an expiry
  computed from the row, without state.
- Discounts applied to a sale, PPN, credit limits, invoice numbers: data of a
  form or of a header; the disagreements above name what that leaves out.
- A batch over more than one hundred invoices (`service/pembayaran.go:189`):
  needs more invoices than TLC can hold.
- The seed (once, on an empty database), migrations, cron jobs and the dump
  scripts: outside the running program.

## 8. Plan

Every component that keeps state another part depends on is modelled, and every
safety and action property of the passing runs is proved. What is left:

1. `Penjualan`: which step may lift the payments of an invoice above its total
   when edits are offered, in the form of `BayarMembekukan`.
2. `PenjualanAtomik`: the properties that follow from the abstract
   specification alone, proved there.
3. `Tabungan`: that a ledger forks only by a race on the same entry.
4. `Persediaan`: a run with two products, whose rows are locked in either order.
