# A specification of db_scratch

db_scratch is a small relational database: a daemon serves clients over a Unix
socket, worker threads run one statement each, rows live on slotted heap pages
behind a buffer pool, inserts are logged before they are answered, and scans lock
the rows they return. This directory holds TLA+ models of its core, the TLC
configurations that check them on small instances, and theorems about them proved
with TLAPS. Paths below are relative to the repository; `storage_manager/...`,
`transaction_manager/...` and `wal/...` are under `src/`.

The commit is in the middle of a change: `buffer_pool_lock` has become a private
queue of `BPLock`s (`buffer_manager.hpp:35`, the mutex it replaces is commented out
at `:42`), while every caller still takes it as a mutex (`insert.cpp:12`,
`access_methods.cpp:24`, `wal.cpp:97`). The models follow the callers.

## Inventory

| Component | State | Operations | Talks to | What makes it hard | What makes it correct |
|---|---|---|---|---|---|
| Row lock manager (`lock_manager.*`) | id counter, row -> id table, id -> rows table | get_transaction_id, Acquire, Release | scan (acquires), worker (ids, release) | condition wait, unlock before notify_all, 8-bit ids | exclusive rows, tables agree, nothing left locked, no lost wakeup, no deadlock while scans wait in order |
| Buffer pool (`buffer_manager.*`, `disk_operator.hpp`) | frames (page, pins, dirty bit, data), page table, replacement queue, files | page_access, un_pin, replacement, get_last_pid, dp_write_page, final_write | insert, scan, index, log | work on pages outside the lock, failing statements, eviction of changed pages | one frame per page, exact pins, valid pointers, no lost change |
| Log (`wal.*`, `write_to_wal`) | `wal.bin` (header, records), LSN | constructor, CommitTransaction, ReplayTransaction | insert, pool | two-step append, crash at any write, 16-bit page lsn | an answered insert survives; lsns never go back; replay catches up |
| Insert, heap pages (`insert.cpp`, `heap_writer.cpp`) | slot array, free_size, data of a page | create_entry, heap_write, delete_slot | pool, log | a slot is counted, sized and placed in steps others see; two inserts in one page; a page with bytes left that no row fits in | an answered row has a slot and bytes of its own and keeps them |
| Heap scan (`access_methods.cpp:17-88`) | current page and slot | scan | pool, lock manager | reads pages others write, copies a slot before its row and locks the row after both | each row answered before it began, once, in order; rows locked in one order, so that scans do not wait for each other |
| B+tree (`access_methods.cpp:90-278`, `index_writer.cpp`) | nodes on index pages, root | index_insert, leaf/internal insert and split, bptree_scan | pool | splits, duplicates | search finds what was inserted |
| Worker pool (`transaction_manager.cpp`, `worker_state.hpp`, `worker_function.hpp`) | worker table, state, assigned client, shutdown flag | IterateOrAddWorker, Worker loop, destructor | daemon, everything below | hand-over between threads, shutdown while busy | each client served once, every worker stops |
| BPLock queue (`buffer_manager.cpp:8-35`) | queue of waiters | Acquire/Process/UnlockBufferPoolLock | daemon loop | unfinished | readers shared, writers alone |
| Daemon (`daemon.cpp`) | poll table | accept, receive, hand over | worker pool, clients | swap-remove while iterating, blocking receive | each ready client handled once |
| Catalog (`catalog_manager`) | schemas and tables | create, find, (de)serialize | planner, parser | names repeat; looked up several times in one statement while others create | a table keeps its columns once found |
| Planner, lexer, parser (`query_manager`) | none between statements | tokens, trees, plans, operators | catalog, storage | column lists in any order, rows that fail half-way through a statement | what a statement does and answers is what its text means |
| Client and TUI, generated protobuf | terminal, sockets | | daemon | I/O | |

## Modules

**`RowLocks`** is the abstract lock service: an owner for each row, taken only when
free, given back all at once.

**`LockManager`** models `lock_manager.{hpp,cpp}` with the two places that drive
it. The variables are the class members, plus where each worker is (`pc`), its
transaction id, the row it asked for last and, as history, the rows it was handed.
A critical section of `lock_table_mutex` is one action: `Acquire` and `Block` are
the two outcomes of the first look-up, `AcquireAfterWait` and `WaitAgain` those of a
look-up after a wakeup; `Release` and `NotifyAll` are the two sides of the
`unlock()` in front of `notify_all()`; `SpuriousWakeup` is what a condition variable
may always do. Ids are a counter modulo `TidSpace`. A transaction asks for its rows in
any order: most scans ask in the order rows lie in (`Statements` has why), one that meets
a slot not yet placed does not, and its wait may close a cycle. So
`BlockedScanResumes` is promised to behaviours in which every wait is in order.

**`PageStore`** is the abstract page store: a content per page, a file, and stops
after which each page is what it was or what the file held.

**`BufferPool`** models `buffer_manager.cpp` and the way threads use it. `Hit`,
`LoadFree`, `LoadEvict` and `Refuse` are the outcomes of `page_access`, with the
replacement in `LoadEvict` (queue rotation, write-back, remapping). The life of a
page in a thread's hands is in `pc`: `Modify`, `MarkDirty`, then for a heap page the
commit in two steps (`CommitWrite`, `CommitClear`, between which others change the
page), for an index page `FetchPageWrite` or nothing, then `UnPin`. `Fail` is a
statement that throws with the page pinned. A page's content is the number of
changes it has seen. `page_access` is one step also where its caller holds no lock
(index code, `get_last_pid`), and a thread that came through `get_last_pid` may do
more with the page than the code would.

**`MCBufferPool`** and **`MCWAL`** add the symmetry sets.

**`WAL`** models `wal.cpp`, `write_to_wal` and the insert around them. A heap page
is a slot count, a row per slot and an lsn (rows have one size, so a slot is an
offset). `AppendRecord` and `UpdateHeader` are the two fsyncs of `write_to_wal`;
`FlushPage` stamps and writes the page; `Ack` is the answer to the client. `Crash`
can fall between any two actions and can leave the record being appended whole,
without its row, or in pieces; `Restart` is the constructor. `BeginReplay` to
`EndReplay` are the loop of `ReplayTransaction`, which crashes may interrupt. Behind a
torn record the loop goes on: `RedoTornRecord` takes the next record's first bytes for the
missing row and leaves the offset among the bytes of a later record (`stray`);
`RedoNoRecord` takes what stands there, or a fragment with what follows it, for a record.
Zeroes pass the checks and are skipped; the last bytes of a row are whatever its client
inserted, so they may also pass and name any page, place and lsn (`MisreadRecord`, counted
in `misreads`). From there on the code promises nothing for that page: `AckedRowsSurvive`,
`PageLsnNotAhead` and the page half of `LsnsNeverGoBack` have the condition
`misreads = 0`, and TLC violates each of them without it. Of the ways such bytes can
break off the loop, a negative pid throws out of `ReplayTransaction` and is a `Crash`
here. This is how `tests/wal_test.cpp` uses the classes; the daemon of this
commit truncates all its files when it starts (`daemon.cpp:43`) and calls
`ReplayTransaction` nowhere, so after a restart it has nothing left to recover.
`heap_write` is one step (its steps are in `Statements`); which page an
insert goes to is left open.

**`BPlusTree`** models `index_writer.cpp` and the tree half of `access_methods.cpp`
as operators on a sequence of nodes: `insert_below` is the recursion of
`index_insert`, `GrowRoot` its new root; a node's keys and children are sequences, so
the shifting loops become `Place` and `InsertAt`. An insertion is one step. The
recursion is a function on its calls: `Walk` is where they go down to,
`returned` what they hand up, from the leaf on; a search and the leftmost path are walks too. Pages
fetched for a split that does not come stay in the file, as they do in the code.
`create_entry` passes the key 0 always (`insert.cpp:24`); the model, like the tests,
takes any key.

**`WorkerPool`** models the loop of `daemon.cpp`, `IterateOrAddWorker`, the worker
threads and `~TransactionManager`. `Poll` to `ForgetClient` are the loop's body, an
entry at a time; `HandOver`, `PassOver` and `AddWorker` are one look at a worker under
its mutex. `Sleep`, `TakeRequest` and `Exit` are the outcomes of `wait_for_request`,
`Send`, `Close` and `GoIdle` the rest of the worker's loop; the statement itself is
in the other modules. `RequestShutdown` and `NotifyShutdown` are the two sides of
`request_shutdown`'s unlock. Clients are outside: they connect, send whole requests or
parts, stay silent and leave when they like. The loop of this commit never ends, so
`BeginShutdown` is the use the class is written for, not one the daemon makes.

**`Lexer`**, **`Parser`** and **`Catalog`** are the operators of `lexer.cpp`,
`parser.cpp` and `schema_manager.cpp`. A text is a sequence of words, separators and
blanks; `LexStep` keeps the word being read and the run of separators, as the code
does, and so takes a keyword for one only when a blank or the end follows. The
parser's iterator becomes `need`, what is about to be read. The catalog is the
vector of schemas; look-ups take the first entry of a name, and nothing stops a second.
Values are codes ordered as the texts they stand for; `Literals` says which column
types a text is a value of.

**`HeapPage`** is the layout: `slot_count`, `free_size`, slots of size and offset,
and a payload of cells into which rows are written one column at a time, low offsets
last as in `heap_writer.cpp`. A string fills its column up with zeroes and is read to the
first of them (`access_methods.cpp:51`); one of exactly `StringMaxSize` bytes
(`LongStrings`) leaves none, and its read runs on into the next column or row
(`heap_writer.cpp:63-65`). What the read then gives, or one that meets cells of different
rows, is `Torn`. So properties compare bytes (`HoldsRow`), and what is read only of
values whose end can be told (`Delimited`).

**`Statements`** composes them into what a worker does with a statement: `Receive`,
`Parse`, then `Create`, or the insert (`PlanInsert`, `NextRow`, `InsertDone`) or the
scan, and `Reply`. `heap_write` is four steps on a page that others see between them:
`CountSlot` (`slot_count++`), `TakeSpace`, `PlaceSlot` (each finds the slot again as
the last one) and `FillData`; `Commit` is `CommitTransaction`, one step here. The scan is
`ScanSlot` (copies the slot), `ScanRow` (reads its row), `LockRow` (waits for the lock)
and `EndOfPage`, with Filter and Projection where it returns a row. Pages are what
`PageStore` promises, locks what `RowLocks` does; a change of the catalog is one step.
Each request carries, next to its text, what its client means by it (`means`); only
properties look at that, so the text, the parser and the plan are checked against it
(`ParsedAsMeant` on its own, the others by way of what the pages hold and a scan returns).
**`MCStatements`** gives the statements and the page.

`BufferPool` implements `PageStore` (`ImplementsPageStore`), and `WAL` uses its pages
only as `PageStore` allows (`UsesPageStore`); `LockManager` implements `RowLocks`, whose
`Lock` and `UnlockAll` are the locks of `Statements`: that is how the modules fit together.
What `LockManager` needs of its callers for `BlockedScanResumes`, waiting in order, is what
`ScanLocksInOrder` says of the scans in `Statements`, for slots that have been placed.

## Runs

| Run | Instance | Shows |
|---|---|---|
| `lock_manager` | 3 workers, 2 rows, 4 transactions, 4 ids | two waiters behind one owner, a scan that holds one row and waits for the next or for the one before, a worker that runs twice |
| `lock_tid_wrap` | 2 ids instead of 256 | **violated**: a transaction that outlives one round of the counter shares its locks |
| `buffer_pool` | 2 threads, 2 heap pages and 1 index page in 2 frames, 2 changes per page, 1 leaked pin per page | hits, evictions clean and dirty, refusals, commits with changes by the other thread in between, crashes, shutdowns |
| `abandoned_lock` | 2 threads, 2 pages, 1 frame | **violated**: the lock stays taken after "All pages are pinned" |
| `wal` | 2 threads, 2 pages of 2 slots, 4 inserts, lsns up to 3, 2 stops, 1 misread record | commits of rows on one page, lsn exhaustion, orphaned and torn records, replays that are interrupted and repeated, that go on behind a torn record and misread one |
| `wal_before_data` | 2 threads, 1 page | **violated**: one insert's commit writes another's unlogged row |
| `bplustree` | 2 keys a node, 6 keys, 7 insertions | leaf splits, root splits, internal splits (from the fifth insertion on), duplicates |
| `worker_pool` | 4 clients (2 of them silent), 2 connection slots, 4 descriptors, 2 workers | a full table, entries moved by the swap, numbers given out again, workers reused and added, clients that leave at any step, shutdown at any round |
| `bplustree_scan` | 2 keys a node, 7 keys | **violated**: after an internal split a key is found no more |
| `statements` | 2 workers, one of which inserts; up to 6 of 12 statements, which create schemas and tables (also twice), insert one row, two (one with a string as long as its column), by column list, with a wrong value and with an unrecognised VALUES, and select; a page for 2 rows | texts parsed as meant; rows answered under scans and refusals, half-failed statements, repeated names, phantom slots; placed rows locked in order |
| `insert_race` | the same, both workers insert | **violated**: an answered row is overwritten, or no slot leads to it |
| `scan_deadlock` | as `statements` | **violated**: two scans wait for each other |

The bounds are the smallest at which every action and every disjunct of the
next-state relations fires and the hazards in question can meet: more rows than a
transaction needs to hold one and wait for one, more pages than frames, more inserts
than lsns, a stop to tear a record and one for what a replay of it leaves.
Symmetry is over threads (and heap pages in `wal`), which nothing tells apart; it is
used with safety properties only. Deadlock is checked everywhere except in the three
runs of `Statements`, where statements run out and scans may really wait for ever;
`AllServed` and `Done` mark the ends that only the bounds cause.

The page of `statements` is the real one scaled down: 4015 bytes are odd and row sizes
are multiples of four, so some bytes stay that no row fits in, and `get_last_pid` goes on
offering the page because of them. Thirteen cells hold two rows of six and leave one. A
third row therefore meets a refusal, which is all a row can meet at any page size, and
the three slots leave room for the slots refusals leave behind. Six statements
are a schema, two tables, an insert that fills the page, and a scan against one more
statement. That only one worker inserts in `statements` is the condition under which
`AckedRowsIntact` holds at all: `insert_race` drops it.

A violated run scales a constant down (2 ids for 256, 2 keys a node for 3) or shows a schedule the tests
do not contain; PROJECT.json quotes the sentence each contradicts.

### Fairness

`lock_manager` and `worker_pool` check liveness. In `lock_manager` fairness is weak and per worker:
a runnable thread runs, and a statement ends because a scan reads one page of at most
ten slots. Nothing is assumed about new requests, and nothing makes a condition
variable wake without a notify, so `BlockedScanResumes` rests on `NotifyAll`. It has the
condition that scans wait in order; out of order they may wait for each other
(`scan_deadlock`), and nothing in the code notices.

In `worker_pool` the main thread and each worker are weakly fair as a whole, which is
what the scheduler gives a thread. `Send` contains the whole statement, so this assumes
that every statement ends. That is not always so: two scans may wait for each other
(`scan_deadlock`), and a statement may wait for a pool lock that a failed one has kept
(`abandoned_lock`). A worker in such a statement neither serves its client nor lets the
join of the shutdown end; `ReadRequestIsServed` and `ShutdownEnds` are about the
hand-over and the wakeups, given statements that end.
Clients owe nothing, so a request is promised an answer only once the loop has read it,
and neither property needs a spurious wakeup. Both end where the process may die: a
`Send` to a client that has left raises SIGPIPE (`server_helpers.cpp:8` sets no
`MSG_NOSIGNAL` and nothing ignores the signal), and `Send` makes `alive` false.

## Proofs

`LockManager_proofs` proves, for every number of workers, rows, ids and
transactions, type correctness (`TypeCorrect`) and, under the assumption
`NoWrap == MaxTx <= TidSpace` that ids do not repeat (`lock_tid_wrap` shows it is
needed), `ExclusiveRows`, `TablesMirror`, `NoOrphanLock`, `NoLostWakeup`,
`NoDeadlock` and that `LockManager` implements `RowLocks`. `NoDeadlock` is about a set of
workers of which each waits for a row another of them holds: one of them waits for a row
before one it holds. It is what the lock manager can promise, since it detects no cycle.

The inductive invariant `IInv` is needed because none of the properties is inductive:
exclusion follows from "a held row's reverse entry is its holder's id" and "live
workers have different ids", the latter from "every id in use was given out"; that
the rows held are exactly the id's lock set ties history to tables and gives
`NoOrphanLock`. A worker that waits does not hold the row it waits for
(`WaitsForOthers`), so if all waits of a cycle were in order the row waited for that comes
last (`GreatestNumber`) would be held by a worker waiting for a later one.

`BufferPool_proofs` proves, for every finite set of threads, any number of frames
(at least one), any pages and any bounds, every property the run `buffer_pool` checks:
type correctness, `TableMatchesFrames` and `QueueHoldsOccupied` (together
`BookkeepingAgrees`), `PinsAreExact`, `PointersStayValid`,
`EvictableIsPersisted`, `RefusedOnlyWhenAllPinned`,
`ShutdownKeepsChanges` and that `BufferPool` implements `PageStore`. It assumes only
`BufferPoolAssumption`: finiteness, and that `NoPage` is no page.

Its invariant leans on four facts the properties do not say. `PinsByPage` counts pins
by page, which is how threads come and go; a pointer in use leads to the thread's page
(`PointersHold`), so a frame without pins has no users and may be reused; a page with
leaked pins is in a frame (`LeaksAreLoaded`), so a page loaded anew starts with one pin.
`ChangesAreSaved` carries persistence: a page that differs from the file while its dirty
bit is reset, *or about to be by a commit under way*, has a thread that is still to
save its change, or had one that failed. The clause on commits is what makes it
inductive: a commit may reset the bit another insert has just set, and it is that
insert's own commit that saves the page. `CommitsAreHeap` keeps index pages, which
nobody saves after marking them, out of its reach. The replacement queue needs no more than
types: `QueueAfterEviction` shows that an eviction permutes it. The refinement maps
`Modify` to `Write`, `FetchPageWrite`, `CommitWrite` and the write-back of a dirty victim to
`Persist`, `Shutdown` to the `Stop` that saves the dirty pages, `Crash` to the one
that saves none, and everything else to a stutter; evicting a clean page stutters
because of `EvictableIsPersisted`.

`WAL_proofs` proves every property the run `wal` checks, for any number of threads,
pages, slots, lsns, inserts and stops, assuming no more than the module does (the three conditions `misreads = 0` are in the
properties): type correctness, `AckedRowsSurvive`, `AckedRowsLogged`, `PageLsnNotAhead`,
`LsnsNeverGoBack`, `ReplayCatchesUp` and `UsesPageStore`. That a row survives replay does
not follow from the row being in its slot: records of crashed inserts name slots that
later inserts were given again, under the same lsn. The invariant is `Settled`: the row is
on the page and in the file, *and no record of its slot, whatever row it carries and
however torn, has an lsn above the page's*. A replay that walks behind torn records keeps
it as long as it redoes none of what it finds there. A commit establishes it, since no record is
ahead of the counter it stamps the page with (`Numbering`, which also has the counter
equal to what the next start would restore); a later record can be about
the slot only if its insert is, and two inserts at work have different slots since
each finds its own row in its own (`Placement`). Page and file have one lsn always
(`PageNumbering`): only commits and replay set it, and both write through. `ReplayCatchesUp`
has its own condition, a log of whole records: its walk is then never astray
(`Replayed`). `UsesPageStore` holds with misread records too: they change one page,
through to the file, and never its slot count.

`HeapPage_proofs` is about the page alone, for any size of page and any list of column
types. `WrittenIsRead`: the bytes of a row written at the offset of the newest slot are
there, and a read at that slot gives its values, but for strings as long as their column.
`OtherRowsKept`: a row that ends where the written one begins, or begins where it ends,
keeps its bytes. Row sizes, column offsets and the cells of a row are
recursive functions over the columns; `SetInduction` derives the induction they need from
the least element of a set of numbers, since the library's theorem takes an operator.

`Statements_proofs` proves, for any workers, statements, literals and page sizes, that
the catalog keeps its shape (`CatalogShape`) and `LookupsStable`, and that an INSERT,
whatever its text and whatever the catalog, is parsed to rows of values with codes
(`ParsedRows`): the lexer's identifiers are words of the text (`LexedTokens`), the parser
takes values from identifiers only, and what it fills a row up with is the empty string. They rest
on `StatementsAssumption`, which says of the constants what they are: texts of words,
separators and blanks, an entry of `Literals` for every word, INSERTs that mean at least one row of
literal values. For the catalog the argument is that the catalog only grows (`Grown`): its steps append
schemas and append tables to schemas, keeping every earlier entry in its place
(`CatalogStep`), and a look-up, which takes the least index that passes
(`LeastIndex`), cannot be changed by what comes later.

`StatementRows_proofs` uses both for what an INSERT promises. `StatementTypesOK` is type
correctness, with no condition: `TypeInv` adds where the cursor may be, that a worker on a
page has an initialised page with a slot counted, and that plans and catalog hold tables.
`AckedRowsStay` is `AckedRowsIntact` where one worker inserts (`OneWriter`; `insert_race`
shows it is needed; the other workers scan and create). Its invariant `RowsInv` follows
the row being inserted: from `TakeSpace` on the newest slot is its own, ends within the
page, and has the size of the columns it is planned with; from `PlaceSlot` on it begins at
`free_size`, which is what `FillData` then writes at (`NewestOK`). Every acknowledged row
has a slot that is not the one being inserted, lies behind the free bytes and has the bytes its
client meant (`AckedRow`), so the next row, placed before `free_size`, ends before it,
and `OtherRowsKept` does the rest. A row that is refused takes no space and leaves only a
slot. `InsertsInOrder` is `InsertIsAllOrPrefix`, for any number of inserting workers:
the rows acknowledged for a request are exactly the first `row_no` its client listed, and
a request has one worker (`PrefixInv`).

`LocksInOrder` is `ScanLocksInOrder` for any number of inserting and scanning workers, with no
condition. Its invariant is about the page and the scan together: offsets fall from slot to
slot and end at the free bytes (`SlotsFall`), inserts only take free bytes and place the
newest slot there (`PageFalls`), and what a scan still has before it lies before all
it holds (`ScanOK`), also once it has copied a slot that is placed anew meanwhile.
From it, `PlacedRowsBringNoDeadlock`: whatever scans wait for each other, one waits for a
slot that was counted and not placed, by the row that lies first among those waited for.
So `scan_deadlock` shows the only kind of deadlock scans have.

`AckedRowsStay` and `InsertsInOrder` have the hypothesis `[]ParsedAsMeant`, which the run `statements` checks. It is about
the input: an INSERT that leaves out a number column is parsed to a row wider than its
table (`parser.cpp:234`), and two clients may mean different columns by the same
words. What the server adds to it, from the parsed rows to the page, is what is proved.

`WorkerPool_proofs` proves every invariant the run `worker_pool` checks, for any clients,
descriptors, workers and size of the table: type correctness, `DescriptorsOwnedOnce`,
`RepliesReachTheirClient`, `NoLostHandOver` and `DrainedBeforeExit`. A descriptor
belongs to the entry of the table that has it or to the worker that `Holds` it, that is,
from the hand-over to its `close`; only between `HandOver` and `ForgetClient` to both,
and then the worker may even have closed it already (`TableIsOpen`, `WorkersOwn`,
`NothingLeaks`). That the number `accept` gives out is free, and neither in the table nor
with a worker, follows from these and needs no fact about when the kernel reuses it.
`SwapRemoveKeeps` shows what the loop relies on when it removes entries while it walks
the table: the others stay, each once. `Match` ties what a thread does to its
entry of `Worker_Table`: a sleeping thread is idle, and asked to stop only while
`request_shutdown` has yet to notify it, whence `NoLostHandOver`; a worker that has ended
is idle, whence, with `Joined` and `NothingLeaks`, `DrainedBeforeExit`.

`BPlusTree_proofs` proves, for every capacity of a node, set of keys and number of
insertions, duplicates included, that the pages stay well formed (`TreeTypesOK`), that the chain of
leaves ends and holds every entry once (`ChainKept`), and that the tree stays a tree with all
leaves equally deep (`TreeBalanced`). The invariant `IInv` says of the state only that there is a
`Tree` whose leaves hold the entries; the parts of `Tree` are what the splits keep and the
properties do not say:
- `Ranked`: every page has a height, 0 for leaves and one more than each child's; `Balanced`, and
  that every descent ends, follow.
- `OneParent`: no page hangs below two nodes, or twice below one, and `tops` below none. `tops` is
  the root and, between two calls of `index_insert`, the node split off and not yet taken in.
- `Linked`: an order of the leaves, from page 1 on, in which each leads to the next. It has every leaf that
  hangs in the tree, so also the one an insertion reaches, and not the
  empty pages fetched for splits that did not come.
- `Leftmost`: the left edge ends in page 1. A split moves the right half to a new page, and nothing
  is ever put before the first child, so the edge is never cut.
- `Holds`: the leaves of the order have the entries between them, each once.

One call of the recursion hands up either the old tree or that tree and a node of the same height
beside it, with the new entry in it (`HandedUp`): `LeafHandsUp` starts this at the leaf,
`InternalHandsUp` carries it over a node that takes in a split, whether it splits itself or
not, `InsertBelow` is the induction over the calls, and `IndexInsert` adds the new
root. None of it needs the keys to be in order, which is why it holds although
internal splits put keys where a search does not find them (`bplustree_scan`).

`OrderedWhileShallow` needs the order, and `IInv` does not have it. It is proved from `IInv` and
`InOrderWhileShallow`: if the root's children are leaves and no key came twice, the leaves are a row
parted by separators, each key of a leaf fits the place of its leaf (`Row`, `KeysFit`), and the
separators are the root's keys (`RootRow`). The steps of the argument are:
- `InsertChildFits`, `ScanChildFits`: the two rules for choosing a child, which differ on an equal key,
  both lead to the leaf the key fits, and `FitsOnce`: there is only one.
- `LeafSplitKeys`, `RowSplit`: the key a leaf split promotes parts its halves, and `PlaceBetween`: the
  root takes it in at the place of the leaf that split, so the row stays a row.
- `StaysShallow`: an insertion that leaves the tree shallow found it shallow and did not split an
  internal root, so the one kind of split that loses keys is never behind such a tree.
- `RowIsSorted`, `ScanIsRight`: in such a row the chain is sorted, the scan stops in the one leaf, and
  finds the row if there is one.

What only TLC checks: the liveness properties (fairness and ENABLED are out of the
prover's reach); `ParsedAsMeant`, which compares a text with a meaning and so depends on the
statements; and `SelectSeesAckedRows`, which is stated with `SelectSeq`, for which the library
has no usable facts, and which rests on what SELECTs mean and on an odd payload with even
rows (no insert ever leaves the first page) as well.

With duplicates, TLC also shows a key that is not found without any internal split:
a promoted key goes behind an equal key of its parent (insert 1 1 1 2 1 1 with three
keys a node). The tree's search properties therefore speak of distinct keys.

## Not modelled

- Failing reads, writes and system calls, and torn writes of heap pages: the code
  has no handling to model beyond what PROJECT.json lists as hazards.
- Data races inside containers: `page_access` and `un_pin` without the lock
  (`insert.cpp:10`, `access_methods.cpp:73`), and the catalog's vectors, which
  workers change and search unsynchronised. They are undefined; the models
  take each such call as one step, and what they show holds under that condition.
- `delete_slot` and `bptree_scan`'s pins, which no caller outside tests uses, and the
  index branch of `create_entry`, which the planner switches off.
- The `BPLock` queue (`buffer_manager.cpp:8-35`): nothing fills it.
- The catalog's file: the daemon deletes it when it starts, and `DB_Pipeline`'s
  `first_load` creates an empty one; nothing reads back what was appended.
- Inputs on which the parser or heap writer reads or writes out of bounds: a row with more
  values than columns, a string over 500 bytes (`heap_writer.cpp:63-65`; one of exactly 500
  is modelled), and an INSERT that leaves out a number column (`parser.cpp:234`: 500 bytes are
  written where 4 were reserved). A single such INSERT breaks `ParsedAsMeant` and
  `AckedRowsIntact`; the requests have none, so that the rest can be checked.
  For an operator the planner does not know, any comparison may happen.
- Words of the query language character by character; terminal and protobuf code.
- The repository's only JavaScript, a minified note-taking plugin under
  `docs/DB Scratch/.obsidian`: third-party, no part of the database.

A SELECT returns rows of every table, as all share the heap file (`docs` note it);
`SelectSeesAckedRows` is about the rows of its own table among them.

## Plan

1. `LockManager`, `BufferPool`, `WAL` with their runs; proofs about `LockManager` and
   `BufferPool`. (done)
2. `BPlusTree`, `WorkerPool`. (done)
3. `Lexer`, `Parser`, `Catalog`, `HeapPage` and `Statements`, which composes them with
   `PageStore` and `RowLocks`; proofs about the catalog. (done)
4. Proofs about `WAL`. (done)
5. Proofs about `WorkerPool`: descriptors, hand-over, drain. (done)
6. Lemmas about `HeapPage` (free space, offsets) and, from them, `AckedRowsIntact`
   for one inserting worker; types of `Statements`, `InsertIsAllOrPrefix`, the order of
   row locks. (done)
7. `BPlusTree` with recursive functions in place of RECURSIVE operators, and proofs of its
   shape and entries. (done)
   The part of `SelectSeesAckedRows` that index sets can state.
8. `BPLock`, once it has callers.
