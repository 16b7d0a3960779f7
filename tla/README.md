# A verification project for block-dn

block-dn is a server that serves Bitcoin block headers, compact filters, custom
filters and Silent Payments tweak data to light clients. It follows a bitcoind
node, keeps the blocks near the tip in memory, and *seals* older ranges into
files that are served with a year-long cache header. A sealed file is meant to
be immutable and on the best chain; nearly everything that is hard in the code
serves this promise: several producer goroutines follow a chain that reorganizes
under them, share one cache of block hashes with each other and with the request
handlers, and are restarted from the names of the files on disk.

This directory models that core in TLA+, checks it with TLC on small instances
and proves the most important parts with TLAPS for every value of the constants.

## Inventory of the system

| Part | State | Operations | Hard because |
|---|---|---|---|
| bitcoind (external) | block tree, best tip | getblockcount, getblockhash, getblock..., getblockfilter | reorgs between any two calls |
| `heightToHashCache` | `heightToHash`, `bestHeight`, an RWMutex | `getBlockHash`, `invalidate`, `loadFromHeaders` | a miss gives up its lock between fetch and insert; handlers call it with the lock held |
| `producerBase` | `currentHeight`, `lastSealedHeight`, `startupComplete` | `updateFiles`, `updateCacheAndFiles`, `sealReadyFiles`, `tipReorged`, `handleReorg`, `findCommonAncestor`, `rollback` | only the tip is compared with bitcoind; heights polled earlier are used later |
| header producer | headers, filter headers, `.header`/`.cfheader` files | `ingest`, `verifyHeaders`, `writeSealedFile`, `pruneLocked`, `cachedHash` | two files per batch, the resume file first |
| filter producer | filters, `.cfilter` files | the same, `verifyFilters` | anchors come from the shared cache |
| SP tweak producer | tweaks, files per dust level | the same, no verification; idles without Taproot | four files per batch, sealed unverified |
| custom filter producer | filters, filter headers, two file sizes | the same; `prevFilterHeaders`, `resumeFilterHeaders`, `rebuildFilterHeaders` | header chain rebuilt from files after a restart |
| prefetcher | pending fetches per height, one channel each | `fetchBlock`, `scheduleAhead` | results for a hash that was reorged away; fetches nobody asks for any more |
| server | `quit`, error queue, wait group | `start`, `stop`; `main` selects on signal and error | any goroutine's error ends all, the others being in a lookup, behind a lock or about to report one too |
| HTTP handlers | none of their own | range, import, status, single filter, proxies to bitcoind | heights, directory, cache and memory are read one after the other while producers seal, prune and roll back; 64-bit heights are checked as 32-bit ones |
| `verify` command | none | check and, with `--fix`, regenerate files | runs beside the server, cascades |

Producers and handlers interact through the cache (values and lock), through the
producers' in-memory maps and atomic heights, and through the files. The
producers never talk to each other directly; `quit` and the error queue tie them
to the process. The properties that make each part correct are listed with the
hazards they answer in `PROJECT.json`.

## Modules

| Module | What it models |
|---|---|
| `Backend` | bitcoind: a finite block tree (`Block`, `Height`, `Anc`), the tip `best`, `ChainMoves` (extend or reorganize, at most `MaxReorg` blocks disconnected, height never falls). External. |
| `H2HCache` | the contents of the cache and the operators its callers' actions are made of |
| `FileProducer` | producers, server process and concurrent callers of `getBlockHash`; all safety and liveness properties about sealed data |
| `SealedLog` | the abstract promise of a producer: an append-only log of buried best-chain blocks |
| `CacheLocks` | the RWMutex of the cache and the order in which everyone takes it |
| `SealedFiles` | the files of one batch, created and filled one after the other; crashes, write errors, resume, serving |
| `CustomHeaders` | the filter header chains of the custom filter producer: two file sizes, roll back, restart |
| `Serving` | the range and import handlers, step by step, beside a producer that seals, prunes and rolls back |
| `Prefetcher` | `blockPrefetcher` inside the `ingest` hook of the SP tweak producer |
| `Lifecycle` | `start`, `stop`, `main`, the error queue and the wait group; extends `CacheLocks`, whose goroutines it launches and waits for |
| `Verify` | the `verify` command, its cache and `--fix`, beside a running server |
| `MCFileProducer`, `MCCacheLocks`, `MCLifecycle`, `MCCustomHeaders`, `MCVerify` | instances for TLC; `SealedFiles`, `Serving` and `Prefetcher` are checked directly |
| `IntervalLemmas` | least and greatest elements of sets of numbers, multiples of a file size, division |
| `FileProducerProofs`, `SealedFilesProofs`, `CustomHeadersProofs`, `ServingProofs`, `PrefetcherProofs`, `LifecycleProofs`, `VerifyProofs` | the theorems; `LifecycleProofs` has those about `CacheLocks`, too |

`FileProducer` composes `Backend` and `H2HCache` and is shown to implement
`SealedLog`; `Lifecycle` composes the process with the lock protocol of
`CacheLocks`. The other modules each take one question apart and treat what they
need of the rest as arbitrary: `Serving` and `Prefetcher` let the chain reorganize
to any height above the sealed ones, and `Prefetcher` lets two lookups of one
height answer differently, as `FileProducer` shows they may.

The definitions named as *mutants* in comments are deliberately wrong variants of
the definition below them. They are used by no specification; each shows that a
property notices the mistake (`PROJECT.json`, "mutants").

### FileProducer

A block stands for everything made from it (header, filter, tweaks), since all of
that is fetched by hash. `mem[p][h]` is the producer's in-memory entry,
`disk[p][h]` the entry in a sealed file. `pc[p]` names the place in the goroutine:

| `pc` | code |
|---|---|
| `ingest` | the loop of `updateCacheAndFiles`, before and in `getBlockHash` |
| `store` | the rest of the `ingest` hook |
| `seal` | `sealReadyFiles` |
| `startAnchor`, `endAnchor` | the two lookups in `verifyFilters` |
| `verify`, `write`, `promote` | the hook `writeSealedFile`, then prune and promotion under the lock |
| `poll`, `tipCheck`, `reorg`, `walk`, `invalidate` | the poll loop, `tipReorged`, `handleReorg`, `findCommonAncestor`, `rollback` |
| `rpcError`, `deepReorg`, `refused`, `shutdown` | the goroutine has returned |

`ingest` writes its maps under the producer's lock and advances `currentHeight`
after it (`src/file-producer.go:197`, `:201`). `Store` does both at once: nobody but
the producer looks at its memory in this module, the producer itself does nothing in
between, and a process that ends there loses both. `Serving` has the reader's view.
Go's `select` may prefer its timer to a closed `quit`, so `Poll` does not ask for it.

Every request to bitcoind by height and every access to the shared cache is a
step of its own, so that a reorg, another producer or a request can come in
between. `getBlockHash` is a hit, or a fetch followed by an insert. `got[a]` holds
the fetched hash meanwhile. RPC errors, signals, crashes and restarts can happen
at every point where the code meets them. `verifyHeaders` compares links and asks
bitcoind for the last hash. `verifyFilters` closes a chain between two filter
headers; since a filter header commits to the whole chain below it, it closes
exactly if memory and start anchor are the end anchor's ancestors.

Left out on purpose: locks (they are in `CacheLocks`; here every lock is
available in the end), the difference between the kinds of entries, Taproot
activation, `afterCatchUp`, and the parts of a file (in `SealedFiles`).

### CacheLocks

`sync.RWMutex` is modelled from its documentation: `wlock` is the writer that has
been admitted or is waiting for the readers to leave, `parked` the goroutines
whose `RLock` waits for that writer. `Worker`s call `getBlockHash` and
`invalidate` with no lock held, `Holder`s are the status, range and import
handlers, which hold the read lock around the call. Of the map only the set of
cached heights is kept. `loadFromHeaders` runs before the web server and the
producers exist, so it never contends and appears as the initial contents.

### SealedFiles

Kinds are numbered in write order. `Create` truncates (`os.Create`), `Close`
completes, `Promote` moves `lastSealedHeight`, `Start` resumes from the names of
the resume files. `WriteFails` and `Stop` can hit at any point, also while a file is
open; what has been written then stays under its final name. So a resume file may be
a part and still count as sealed, and a header batch may lack its `.cfheader`: the
properties say what holds nevertheless. What is written before the resume file is
complete in everything that counts as sealed (`RestOfBatchWhole`), a running producer
promotes only what it has finished (`PromotedBatchWhole`), and what was finished once
is not touched again (`WholeBatchKept`). The first says nothing of the header
producer, whose resume file is written first.

### Serving

One request at a time, `/headers`, `/filters`, `/sp/tweaks` and the like
(`route = "range"`) or an import, and the producer it is served from. The producer
is reduced to what a handler sees of it: `Ingest`, `Rollback`, a file that appears
(`WriteFile`) and, in a later step, `Promote`, which prunes the memory. `pc` is the
handler's next look at shared state:

| `pc` | code |
|---|---|
| `stat`, `hash`, `size`, `serialize` | `heightBasedRequestHandler`: does the file exist; `getBlockHash` and the end height; the length; the entries from memory |
| `tier`, `files`, `tailHash`, `tail` | `serveHeightBasedImport`: the cache tier from `lastSealedHeight`; file after file; `getBlockHash` and the entries behind the files |
| `answered` | the response is complete or broken off |

`kind` is how the length is found: by multiplication (`fixed`, headers) or by adding
up entries (`sized`, filters and tweaks). Heights are asked for as wide integers and
narrowed by `Int32` wherever the code writes `int32(height)`, and only there: the
name of a file uses the wide one. What goes beyond a `Content-Length` is not
written, as in `net/http`. `failed` marks a response in which reading a file failed
or into which an error text was written. `getBlockHash` fails for a negative height
and may fail for any other. Files appear whole (`SealedFiles` takes that apart).

### Prefetcher

`ingest` records the hash and an empty entry for its height before the block is
there; `fetchBlock` then schedules the fetches ahead of it, takes its own pending
entry, waits for its channel, and fetches directly if the result failed or is for
another hash. Every lookup of a hash in `scheduleAhead`, every receive, every end
of a background fetch is a step. `Rollback` does not touch `pending`, as in the
code. Blocks are told apart by hash; a block in `Barren` has no tweaks, and then
nothing is stored over the empty entry. A producer that stops with an error keeps
its state until `Restart`, which may happen at any time and keeps only the files.

### Lifecycle

`toLaunch` is the order in which `start` launches the producers the flags ask for
(none in light mode). A producer can fail or see `quit` only between two calls into
the cache; each failure is reported through the `fn.ConcurrentQueue`, which is
modelled from its use: `ChanIn` is taken by the queue's goroutine, which fills the
buffer of `ChanOut` and keeps the rest. `main` receives one error or a signal and
calls `stop`: `quit` is closed, `Shutdown` returns when no request is active
(`Active`), `Wait` when all goroutines have ended, the queue is stopped, and one
more error is taken from it. A request calls the cache as in `CacheLocks`, nested
locks included.

### CustomHeaders

A filter is the block it is built from, and a filter header of height `h`, being a
hash over everything below, is a function on `0..h`. Hash collisions are thereby
excluded, and a header says exactly which filters it commits to. `filterHeaders`
keeps stale entries after a `Rollback`, as `pruneLocked` does, and loses them in
`Stop`; `Ingest` contains the look-up in memory and the whole way of
`resumeFilterHeaders` through the last header file and the filter files behind it.
The block found at a height and the height of a roll back are arbitrary, so nothing
depends on `FileProducer`'s view of reorgs. Every file is a step of its own, header
files first and the resume file last. `pc = "failed"` is any of the errors for a
missing entry or file.

### Verify

The stored entries come from best-chain or stale blocks; the header producer stores
the filter header that bitcoind has for the block it ingested, so a stale block
leaves a stale header and a stale filter header, independently of the filter
producer's entry. Up to `MaxCut` of the files on disk are cut off at first. Each
look for a file, each check, each regeneration and each second check is a step, since a request can fail at each of them: a failed request
inside a check counts as a failed check (`answered`), elsewhere it ends the command
(`Fails`). `cache` is the range of filter headers loaded last, with the part of it
that was there. `NoHeaderFile` finds no next file, and a later
step fetches what is above the files: if that range has been sealed meanwhile
the answer is the new file and ends with it (`MemoryEnd`). `safe` is the height the
memory was anchored at. Meanwhile the server ingests and seals; its producers are
taken to be at the same height. It seals header files that link up to bitcoind's
block and filter files of one chain, which may be a stale one (`stale_anchors` is
how), and stops at anything else. The best chain does not change during a run:
sealed heights are beyond the safe depth. `Rerun` starts the command again on what
was left.

`OkMeansAuthentic` says what "all sealed files verified OK" can be relied on for,
with or without `--fix`: every file is whole, every sealed header is bitcoind's, and
so are the last filter header of each file, the filters, and the filter header
stored for the end of each filter file. Three things it cannot say, because they are
not so: that the filter headers inside the range of a filter file are right, that
filters passed before `--fix` replaced a filter header file are, and that filters
are which were sealed after the memory had been checked, in a range whose header
file is not there yet.

## Runs

Passing:

| Run | Instance | Shows |
|---|---|---|
| `headers` | header producer, one request, 2 branches, heights 0..5, files of 2, depth 2, reorgs up to 2 | sealed headers are and stay on the best chain; every height up to `currentHeight` is on disk or in memory and nothing else is; memory lies above the sealed range; no cache entry escapes `invalidate`; the header files implement `SealedLog` |
| `filters` | header and filter producer, heights 0..4, reorgs of 2 at depth 1 | a filter file never mixes branches, although memory does and stale files are sealed, and nothing is ever rewritten; both anchors are looked up, the second file being the one that the branches differ in |
| `shallow_reorgs` | header and SP tweak producer, heights 0..3, three branches, reorgs of 1 at depth 2, fairness | a producer gives up with `errDeepReorg` only if its lowest unsealed entry had been stale, and stays so; both producers reach the tip of a chain that rests; an error ends the process |
| `lifecycle` | light mode or header and filter producer, a status handler, an error queue with a buffer of two, fairness | no concurrent map access, locks balanced, lookups return and an error or a signal ends the process once the handlers are out of the lock; no error is lost, nothing runs on after `stop`. Deadlock is not checked, since the handler can deadlock (`status_hit`) |
| `serving` | heights 0..6, files of 2, depth 1, entries of 1 or 2 bytes, integers of 16 values and requests up to 24 | no response has a gap or a height twice; what gets the disk tier is exactly what was asked for and what is on disk; a header response from memory that lacks a height is shorter than announced |
| `prefetch` | heights 0..6, Taproot at 1, window of 2, files of 2, depth 2, two hashes per height, one block without tweaks, fairness | tweaks held and sealed belong to the recorded block; no background fetch is forgotten; `ingest` returns |
| `sp_files` | batches of three files, resume file last, up to three batches, errors and crashes anywhere | whatever is left in the middle of a write, what counts as sealed lacks nothing that is written before the resume file, only finished batches are promoted, and finished batches are never written again |
| `custom_headers` | two configurations, filter files of 2, header files of 4, heights 0..9, two branches at five heights | header files commit to exactly the sealed filters, and nothing needed is ever missing |
| `verify` | one header file, two filter files, memory up to 5, growing to 8; entries of two stale branches at heights 1, 2, 3, 5; any one file cut off | with and without `--fix`, what "all sealed files verified OK" can be relied on for (above); no filter or filter header file is rewritten after a diagnosis unless it is at fault |

Runs that show a disagreement between the code and what it says of itself; the
quotations are in `PROJECT.json`, "findings":

| Run | Shows |
|---|---|
| `status_hit` | a handler that takes the read lock twice and a producer that wants the write lock in between block each other, and the cache with them |
| `stale_anchors` | a stale filter file passes `verifyFilters`, because its anchors come from the same stale cache |
| `serve_files` | a file is served, for the disk tier, while it is being written |

Seen while modelling, and without a run of their own.

Cache and files:

- On a miss a handler that holds the read lock needs no producer to block: it
  waits for its own lock (`src/handlers.go:217`). In light mode nothing fills the
  cache, so the first `/status` request does this.
- The header producer writes its resume file `.header` first
  (`src/header-files.go:116`), the others last ("its file must only appear on disk
  once all other files of the batch are durable",
  `src/silent-payments-files.go:275-277`). A crash between `.header` and `.cfheader`
  leaves a batch that counts as sealed after the restart and is never completed.
  "Both files are now durably on disk" (`src/file-producer.go:242`) holds where it is
  written (`PromotedBatchWhole`), and not of what a restart resumes from:
  `RestOfBatchWhole` is empty for this producer.
- Every producer fills its files in place under their final names
  (`src/custom-filter-files.go:737`), so an error or a crash in the middle of a
  resume file leaves a part that counts as sealed, is never written again, and is
  served with the disk tier's cache header. `DiskTierServesWholeFiles` is violated
  this way, too, although TLC's trace in `serve_files` is the shorter one of a request
  during the write. "Its file's presence on disk implies the whole batch is durable"
  (`src/custom-filter-files.go:46-47`) is true of the other files of the batch only.
- The cache may disagree with a sealed header for good: a request that fetched a
  hash before a reorg inserts it after the new block was ingested. `/filters/single`
  then answers a stale filter with the disk tier, although "Sealed heights are safe
  to cache at the disk tier" (`src/handlers.go:463-466`). In light mode nobody ever
  invalidates the cache.
- A roll back of two blocks or more leaves fetches above the new window, so more
  than `prefetchDepth` can be pending; `src/block-prevouts_test.go:246-248` says the
  window "never exceeds" it. `NoFetchForgotten` is what does hold.
- Of more than two errors at once only one or two are logged; `NoErrorLost` asks
  for one.
- `verify --fix` may end with "all sealed files verified OK" (`src/verify.go:162`)
  although a filter file is stale: it was passed because it agreed with a stale
  filter header, which was corrected later for the sake of the next filter file
  (`src/verify.go:561`), and it is not looked at again.
- `verify` compares stored filter headers with bitcoind's only at the end of each
  filter header file (`src/verify.go:298`) and uses them only at the ends of filter
  files (`src/verify.go:573-605`). The entries between are compared with nothing, so
  they are not "covered by the filter chain closure" (`src/verify.go:279-280`,
  `src/verify.go:169-171`): the model reaches an approval with a stale one among them.
- A filter file that the server seals from stale anchors after `verify` has checked
  the memory, in a range without a header file, is compared with filter headers that
  were stale when they were fetched, and may be approved.
- When bitcoind does not answer, `verify --fix` regenerates a header file or a filter
  header file that nothing is wrong with (`src/verify.go:239`, `src/verify.go:295`):
  only filter ranges are diagnosed first.
- Without `--fix`, `running` stays where it was when a header file is corrupt
  (`src/verify.go:248`), so every later file, and the memory, is reported too.
- The SP tweak and custom filter producers seal what is in memory unverified
  (`src/silent-payments-files.go:279`, `src/custom-filter-files.go:546`), so a
  reorg in the middle of a round can put stale heights into their files.
- A reorg that ends exactly at the last sealed block is refused with
  `errDeepReorg` (`src/file-producer.go:312`), although no sealed block is
  affected and it is no deeper than the safe depth (`src/header-files.go:21`).
- `errDeepReorg` does not need a reorg "deeper than --reorg-safe-depth"
  (`src/header-files.go:21`): a producer that took a stale hash from the shared cache
  for its lowest unsealed height goes on under a fresh tip, and a reorg of one block
  at that tip then walks past the stale entry and finds the ancestor in the sealed
  file. It takes three branches, which is how an attempt to prove that shallow reorgs
  never end a producer failed. `DeepReorgOnlyIfStale` is what holds.
- After a reorg deeper than the safe depth that the tip-only check misses, a new
  header file need not link to the file before it: the link of a file's first
  header is not checked (`src/header-files.go:146-149`).

Responses:

- The length is announced "to let clients detect truncation"
  (`src/handlers.go:633-636`), but `filtersSize` and its like announce none when an
  entry is already missing, and the response then ends as a complete chunked one.
  `TruncationShows` is therefore about entries of a fixed size only.
- Length and entries are read in two critical sections: after a roll back between
  them, entries of other lengths are written, and cut at the announced length.
  A response from memory may also mix two branches.
- A file of an import that fails to be read ends a response with status 200 and,
  where the disk tier was chosen, a year-long cache header (`src/handlers.go:802`);
  a hash that is not found appends "invalid height" to the headers already written.
  `DiskTierExact` excepts such responses (`failed`).
- An import whose end height is not a multiple of the file size and is sealed while
  files are streamed answers more headers than were asked for; the same request a
  moment later is refused.
- Heights beyond 32 bits wrap, pass the checks and are answered with status 200,
  from memory and never with the disk tier.
- `/headers/import/latest` "always serves at the memory tier"
  (`src/handlers.go:301-302`) unless the safe depth is 0 and the tip ends a file, or
  enough is sealed between its two reads.
- After a roll back, the empty entry of an ingest in progress
  (`src/silent-payments-files.go:245`) can be served as a block without tweaks.
- Without Taproot `/sp/tweaks` answers with the header of a file and no entry.

### Bounds

Files of two heights are the smallest with an inner link; heights 0..5 with depth
2 allow two sealed files and a live window, so boundaries between files, resume
behind a file and the walk back to a sealed height all occur. The second branch
forks inside the first file (height 1) or where the second one starts (height 2),
and the chain may change branches as often as it likes. In `shallow_reorgs` a third
branch forks one block higher, so that one shallow reorg can follow another above
it. One caller suffices for
the race on the cache: it can hold a hash over any number of steps of the others.
Crashes, errors and restarts are not bounded. `MaxHeight`, `MaxReorg`,
`MaxFiles` and, in `Verify`, `FirstTop` and `MaxCut` are the only bounds, and none is a bound of
the code. In `custom_headers` heights 0..9 cover two header files, so that a restart
anchors at the first one and rebuilds behind it; the branches differ around the
boundaries of both kinds of files. In `serving` heights 0..6 with files of 2 and depth 1 give three sealed files and a
tail: an import spans several files, a request can see a file appear, its heights
leave the memory, and a roll back in between. Requests up to three times `Half`
cover every value that wraps to a negative height and every one that wraps to a
served height. In `prefetch` two of three unsealed heights can be rolled back at
once, so that fetches both inside and above the new window survive, two to a window.
In `lifecycle` two producers, the web server and a request are enough for two errors at once,
one of them while `stop` is waiting, and for a goroutine to be behind the lock of
another one when `quit` is closed. In `sp_files` three batches allow one to be whole,
one to be left in pieces and one to come after it; there can be any number of errors,
crashes and restarts. In `verify` the stale heights are the ends, the
inside and the beginning of filter files, on disk and in the server's memory, and
between heights 5 and 8 the server seals one filter file and one header file more,
before, during and after each part of the walk. The proofs have no bound on what is
stale or cut off.

### Fairness

Liveness assumes that goroutines run (weak fairness of `Step`, of a caller's
insert, of main's reaction to an error and of the exit), that `tipReorged`'s
request does not fail for ever (strong fairness of `TipReorged`, against the
comment "Network blip; let the next tick try again"), that a producer which polls
again and again with `quit` closed gets to see it (strong fairness of `Shutdown`: the
timer of each `select` is new, so nothing but `quit` is ready when it is entered),
and, for the lock, that the
mutex writers queue on is starvation free, as Go's is. In `Lifecycle` a producer
looks at `quit` before every block and while it sleeps, however often it goes into
the cache in between, hence strong fairness of `ProducerQuits`; main, reports and
the queue are weakly fair. `ServerEnds` is conditional on the handlers' leaving the
lock they nest, without which `status_hit` would refute it. In `Prefetcher` the
steps of `ingest` and the end of every background fetch are weakly fair: the HTTP
client has a time-out. No failure, signal, request or roll back has to happen.
Nothing obliges bitcoind
to mine, a client to ask, or an operator to restart. `ProducersCatchUp` is
conditional: the chain must come to rest and the process must stay up. It says
that neither stale cache entries nor the tip-only check leaves a producer behind.

## Proofs

Checked by TLAPS, for every block tree, every set of producers and callers, every
file size and depth that the named assumptions (`BlockAssumption`,
`GenesisAssumption`, `ChainAssumption`, `ProducerAssumption`, `AgentAssumption`,
`FilesAssumption`, `AbsentAssumption`, `LifeAssumption`, `ServingAssumption`,
`PrefetchAssumption`, `SizeAssumption`) admit. Every safety property of a
passing run is the statement of a theorem.

FileProducer:

- `TypeCorrect`, `CacheBounded`: from the inductive invariant `IndInv`. Types
  alone are not inductive: that a looked-up height exists needs `HeightsKnown`
  (a producer's heights never exceed bitcoind's, as the height does not fall),
  the seal and walk loops need `LoopsInRange`, and resuming from disk needs
  `FilesBuried`.
- `MemoryAboveSealed`, `NoGapNoLeftover`, `FilesWrittenOnce`: from `IndInv` and
  `StoreInv`. `DataInv` says what memory and files hold, told from a producer's
  heights and from where it is: a file that has been written but not promoted, the
  height being ingested, what an ended goroutine leaves behind. `HashInv` and
  `CacheInPlace` say that a hash, however stale, is one of its height. They assume
  files of more than one entry, since `lastFile` answers 0 both for "none" and for a
  file that ends at height 0.
- `SealedHeadersOnBestChain`, assuming `MaxReorg <= ReOrgSafeDepth`: from
  `IndInv` and `HeaderInv`. The cache may be arbitrarily stale. The argument is
  local to `Verify`: linked headers that end in bitcoind's block are that block's
  ancestors (`LinkedHeaders`), they are `ReOrgSafeDepth` deep, so no reorg removes
  them before or after they are written.
- `HeaderFilesImplementLog`, the refinement of `SealedLog`, from all of these: the
  step that writes a file is the log's append (the file starts where the log ends,
  is whole, buried, and on the best chain), every other step leaves the log alone.
- `FilterFileOfOneChain`, for any depth of reorgs: from `StoreInv` and `FilterInv`.
  The anchors may be stale, but the chain only closes if all filters between are
  ancestors of the end anchor, and memory does not change before it is written.
- `GivesUpOnlyIfStale`, assuming `MaxReorg < ReOrgSafeDepth`: from `StoreInv` and
  `WalkInv`. A walk that passes the lowest unsealed height has found its entry off
  the best chain; that height is buried too deep for a reorg to bring it back.

Files and responses:

- `FilesTypeCorrect`, `WholeBeforeResume`, `PromotesWholeBatches`,
  `WholeBatchesKept`: from `BatchInv`, for any number of files per batch and any place
  of the resume file among them, with writes cut off anywhere. Its parts: what the
  stage of a write implies (`StageInv`); a resume file has a name only if what is
  written before it is complete, what is written after it exists only if it does, and
  the named batches have no gap (`OrderInv`). Hence a batch that is whole is named, and
  a named one is behind where the producer resumes.
- `HeadersTypeCorrect`, `HeadersCommitToFilters`, `SealingLacksNothing`: from
  `IndInv` of `CustomHeaders`. The header files commit to the sealed filters
  (`FilesInv`, where a crash may leave one span above the sealed files that is
  written again); headers in memory below `next` are over the filters as they are,
  those at `next` or above may be left over from a roll back and are never read
  before they are overwritten (`MemoryInv`); once a header of the unwritten span is
  in memory all of them are (`HeadersInv`). `AbsentAssumption` says that the value
  for an absent entry is none of the entries.
- `ServedTypes`, `ServedWithoutGaps`, `DiskTierIsExact`, `TruncationAlwaysShows`:
  from `ServingInv`. Its parts: memory and files share the heights up to `current`
  between them (`ProducerInv`); what a request knows from where it is
  (`RequestInv`); and the files streamed so far are exactly the heights below `at`
  as they are on disk (`ImportInv`). The disk tier is exact because an import that
  is sealed when the tier is chosen is a whole number of files, all of which exist
  and never go away, so that the loop ends at `asked` and neither memory nor a
  narrowed height is turned to. That a wide height never finds a file follows from
  `MaxHeight + 1 < Half`.
- `VerifyTypeCorrect`, `OkIsAuthentic`, `RewritesOnlyTheCorrupt`: from `IndInv` of
  `Verify`. `WalkInv` is what a walk that has nothing to report, with or without
  `--fix`, has established so far: headers below the walk are bitcoind's, because they
  link up to one that is (`LinkedDown`), in files and up to `safe` in memory
  (`MemoryAnchored`); and, unless a filter header file was regenerated
  (`FHeadersAsFound`), the filters below the walk are those that the stored filter
  header at the end of each filter file commits to. That this filter header is
  bitcoind's is known at the ends of header files, and in memory up to `safe`, where a
  filter header is made from the block next to it (`StoreInv`). `NothingFoundIsAuthentic` puts the
  two together for every height that is `Covered`: a filter header that is bitcoind's
  commits to all filters below it, and a header file ends where a filter file ends
  (`HeadersPerFile % FiltersPerFile = 0`). A header file that the server seals
  behind the walk has bitcoind's headers, hence its last filter header is bitcoind's,
  too (`ServerAdvancesKeeps`). What was blamed
  stays at fault until it is rewritten (`BlameInv`), as the cache holds what is stored.

Process and fetches:

- `NoConcurrentMapAccess`, `LocksReleased`: from `LockInv`, which computes the
  number of read locks a goroutine holds from where it is.
- `ErrorsAlwaysLogged`, `NothingOutlivesStop`, `LifecycleTypes`, and once more the
  two about the lock (`LocksHoldInServer`): from `LifeInv`, which extends
  `LockInv`. An error that was sent is received or can be (`QueueInv`: the queue
  holds nothing back while its channel is empty); only running producers and, until
  `Shutdown` has returned, requests are inside the cache (`WhoCalls`).
- `PrefetcherTypes`, `TweaksAlwaysMatch`, `FetchesNeverForgotten`: from
  `PrefetchInv`. While a height is ingested its empty entry is there and nothing has
  been stored over it, and the block at hand is the one wanted; what the lookups
  answer is not restricted in any way.

Model-checked only: liveness (`ProducersCatchUp`, `ErrorEndsProcess`,
`LookupsReturn`, `ServerEnds`, `IngestReturns`), which needs fairness and `ENABLED`,
and these the prover does not handle.

## Not modelled, and the plan

Not to be modelled: flag parsing and logging, JSON structs, the pure proxies to
bitcoind (transactions, raw blocks, fee estimates, output proofs), HTTP itself,
elliptic-curve arithmetic and filter construction, the fetch of blocks over RPC
(`start` requires REST when a producer needs blocks), a failing
`signal.Intercept`. The data race on `spTweakFiles` and `customFilterFiles`
(`src/server.go:254`) has no ordered outcome to state a property about.

Left of the plan: algorithms against a reference (`parseSpentTxOuts`, which dust
levels an entry belongs to, script classes of the custom filters).

Theorems to add: action properties of the producers (a height is promoted only after
its file has been written and verified, a roll back leaves exactly the common
ancestor), the exact bound on the fetches pending after roll backs, and a refinement
of an abstract server by `Lifecycle`.
