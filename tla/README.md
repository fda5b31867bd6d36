# Verification of SimpleDB (C++)

This directory holds TLA+ specifications of `src/simpledb`, a small relational
database in C++ (a port of the SimpleDB of E. Sciore's *Database Design and
Implementation*), the TLC configurations that check them on small instances
and the TLAPS proofs about them. Paths below are relative to `src/simpledb/`
unless they say otherwise. The other directories of the repository (`nl2sql`,
`oracle`, `postgres-app`) are course material with no engine code.

## The system

One process holds one database: a directory with a log file, data files and a
catalog. The engine is a stack; each layer calls the one below it.

| component | state | operations | correct when |
|---|---|---|---|
| file manager (`file/`) | open files, `mIsNew` | `read`, `write`, `append`, `length` | a block read is the block last written |
| log manager (`log/`) | page being filled, current block, latest and last saved LSN | `append`, `flush(lsn)`, `iterator` | the records come back in order, each once; what `flush` promised survives a crash |
| buffer manager (`buffer/`, `tx/bufferlist`) | pool of buffers (block, page, pins, modifying transaction, LSN), number available; per transaction its buffers and pins | `pin`, `unpin`, `flush_all`, `unpin_all` | one buffer per block, pinned ones stay, no change is lost, the counters are right, waiters get an answer |
| concurrency manager (`tx/concurrency/`) | static lock table: one number per block; per transaction its locks | `slock`, `xlock`, `release` | strict two-phase locking; every request is answered |
| transactions and recovery (`tx/`) | transaction number; the records in the log | `commit`, `rollback`, `recover`, `pin`, `get_*`, `set_*`, `size`, `append` | atomic, isolated, durable |
| start-up (`server/simpledb.cpp`) | - | creation or recovery, then the catalog | a database is usable after any crash |
| records (`record/`) | slots of a block in use or empty | `insert`, `next`, `delete_record`, fields | a scan sees each record once, with its own fields |
| metadata (`metadata/`) | catalog tables, cached statistics | create and look up tables, views, indexes | catalog and data agree |
| indexes (`index/`) | B-tree, 100 hash buckets | `before_first`, `next`, `insert`, `remove` | the index has exactly the records of its table |
| scans (`query/`, `materialize/`, `multibuffer/`) | cursor of each operator | `before_first`, `next`, fields | the rows of the relational operation |
| planners (`plan/`, `opt/`), parser (`parse/`) | heuristic planner: its set of table planners | `create_plan`, `execute_update` | the plan computes the query |
| embedded JDBC (`jdbc/`) | the connection's current transaction | statements, commit, rollback | each update is a transaction |

How they interact: a transaction owns a `recovery_manager`, a
`concurrency_manager` and a `buffer_list`; all transactions share the buffer
pool, the log manager and the (static) lock table. `set_int` locks, logs the
old value, changes the page and marks the buffer; `buffer::flush` has the log
saved before the page is written; commit and rollback flush the transaction's
buffers, write and force a record, give back the locks one by one, then the
pins. Recovery is undo-only: the start-up transaction reads the log backwards
and restores old values of unfinished transactions up to a checkpoint.

What is hard here: threads (no application of the repository starts one, but
lock table, pool, log and transaction numbers have mutexes and condition
variables, and `simpledb::new_tx()` hands out transactions that share them);
timeouts that are the only way out of a deadlock; crashes between any two file
operations; numbers that start again in each process; exceptions thrown in the
middle of a call; and `log_manager::iterator()`, which writes the log page
without the log manager's mutex. `PROJECT.json` lists these hazards line by
line, with the properties that cover them.

## Modules

| module | models |
|---|---|
| `LockSpec` | strict two-phase locking with shared and exclusive modes, as a promise |
| `LockTable` | `lock_table` and `concurrency_manager` |
| `LockTableProofs` | theorems about `LockTable` for all constants |
| `BufferManager` | the pool, `buffer::flush`/`assign_to_block`, `buffer_list` |
| `BufferManagerProofs` | theorems about `BufferManager` for all constants |
| `LogSpec` | a growing sequence with a durable prefix, as a promise |
| `LogManager` | `log_manager` down to the order of its file operations |
| `SequenceLemmas` | theorems about sequences that the library does not have: prefixes, `FlattenSeq`, `Reverse`; induction over a set of numbers, least numbers |
| `LogManagerProofs` | theorems about `LogManager` for all constants |
| `TxSpec` | atomic, durable transactions, as a promise |
| `TxSystem` | transactions and recovery over locks, pool and log, with crashes |
| `TxSystemProofs` | theorems about the pool and the threads of `TxSystem` for all constants |
| `TxRecoveryProofs` | theorems about recovery, isolation and atomicity of `TxSystem` for all constants |
| `RecordSpec` | records that several transactions change, commit and roll back, as a promise |
| `TableScan` | `table_scan` and `record_page`, and the files of `transaction` that grow |
| `TableScanProofs` | theorems about scans, their pins and passes over a table, and that `TableScan` implements `RecordSpec`, for all constants |
| `Parser` | `lexer` and `parser`: tokens to statements, and a query back to text |
| `BTree` | one index: its two files, pages, leaves, overflow blocks, directory, splits |
| `Engine` | start-up, catalog, the update planners and the connection, over `BTree` and `Parser` |
| `EngineProofs` | theorems about what the statements make of the tables for all constants |
| `Scans` | the scans of `query/`, `index/query/`, `materialize/` and `multibuffer/`, temporary tables, predicates |
| `Query` | both query planners, views, the opening of a plan and the reading of its rows |
| `MC*` | the instances TLC checks |

**LockTable.** `lockVal` is `lock_table::mLocks` (0 for an absent entry),
`held` is each manager's `mLocks`. An action is one critical section of the
table's mutex or one step of the thread that owns a manager, so `xlock` is a
shared request, then an upgrade, and `release` is one `unlock` per block in map
order, then the clearing of the map. A `wait_for` is the states `asleep` and
`woken`; time is `under`, at the `limit`, or `over` the 10 seconds, because the
test is `>` on whole milliseconds. `unlock` wakes sleepers only when the last
lock of the block goes: an upgrade that waits for the last *other* sharer is
not woken and only goes on when its `wait_for` times out (so there is no
counterpart of `SharedWaiterBlocked` for upgrades).

**BufferManager.** `block`, `contents`, `pins`, `modifyingTx` are the buffers,
`numAvailable` the counter, `myBuffers` and `myPins` the `buffer_list` of each
transaction. A block's data is the block it belongs to and a bit that flips at
each modification, so that stale or foreign data shows. `pin` is tried once
and then sleeps; as in the code, its loop never tries again.
`set_modified` may be called on a block that no other transaction has changed:
that is what two-phase locking guarantees the buffer manager.

**LogManager.** The page and the file are sequences of records with the
boundary in bytes. When a page is full, `append` is split at every file
operation and every assignment that a thread in the unlocked `iterator()` can
see; a crash leaves the file and nothing else. A block of zeros (the state
between the two writes of `append_new_block`) makes iterators throw
(`it_threw`). `Undisturbed` says that nobody else uses the log manager while a
thread iterates. The code does not see to it, and without it the log manager
does not implement `LogSpec`; `UndisturbedSpec` is the specification with it.

**TxSystem.** Composes what the other three promise: a log of which a prefix
is saved (`LogSpec`), locks granted when compatible (`LockSpec`), and a pool as
in `BufferManager` with what was left out there: LSNs and the log flush before
a page write. Writing a page is two steps under the buffer manager's mutex
(`bm`), `StartWrite` (log) and `EndWrite` (page), used by eviction, by undo and
by `flush_all`. Commit, rollback and recovery share the steps `flush` -
`record` - `force` - `release` - `unpin_all`; rollback and recovery first go
through `iterator`, `Iterate` and `undo`. `iterator()` is two steps, because it
takes no mutex: the page is written (`saved`), then mLastSavedLSN is moved to
the latest LSN (`promised`), by which a later `flush(lsn)` judges whether it has
to do anything. `Undisturbed` is what `LogManager` needs to implement `LogSpec`,
said of the threads of `TxSystem`: inside an `iterator()` nobody else appends,
saves or iterates. `UndisturbedSpec` is `Spec` with this as an assumption about
the connections. The thread `Sys` is the start-up transaction.
A lock or buffer request that is refused is not granted in the model either;
the client that gave up waiting is one that calls `rollback`. A pin in undo
that throws leads to `failed`, from where only another rollback or the death
of the process leads on (`app/server.cpp` catches `sql::SQLException` only, so
there the process ends). `base`, `writes` and `commitAt` are ghosts that say
what should be in the database.

**TableScan.** Transactions use scans on one table file. A block is a
function from slots to a flag and a value (all fields of the record). The
loops of `next` and `insert` are cut where they ask for a lock: `search` (the
shared lock of `search_after`), `flag` (the exclusive lock of `set_flag`),
`last` (`at_last_block`, the shared lock on the end of the file) and `append`
(the exclusive one; the file grows and stays so). `call` says where each
thread is. A refused lock waits or throws (`GiveUp`), a pin may throw when no
other scan has the block pinned, and what follows an exception is a rollback,
as in `EmbeddedStatement`, one log record at a time. Locks are granted as
`LockSpec` promises. The ghost `pass` is what the caller of `next` knows: the
records returned since `before_first`. `base` of `RecordSpec` is the file with
every logged change of the open transactions taken back. The rid given to
`move_to_rid` is that of a record in use, as indexes return them, and a closed
scan is not used again.

**Parser.** A text is a sequence of tokens `[type, val]`, as `stream_tokenizer`
cuts it: `word`, `number`, `string` and `delim`. A method of `parser` is an
operator that takes the tokens left and returns its value with those it leaves
(`Parsed`), or throws (`bad_syntax`); `Then` is "one call after the other".
What the code does not check is not checked here: text after a statement, as
many values as fields, a table named twice (`table_list` is a set). `view_def`
is `query_data::to_string`: the text of a view, in which a string has no quotes
any more. `Query` and `Engine` hand every statement over as text.

**BTree.** Operators on one index: the record `Index` has the file of the
leaves, the file of the directory and the layout, whose slot size decides how
many records a page holds. A page is a flag, a number of records and the fields
of all its slots, also those beyond the last record, because `insert` and
`remove` copy field by field and `transfer_recs` reads slots that `remove` has
just shifted. A write outside the page throws (`Writable`), as `page::set_int`
does. `index_insert` and `index_remove` return the index and how the call ended:
`ok`, `throws`, `dies` (of the null value that `make_new_root` is given) or
`hangs` (a leaf whose flag is 0 names block 0, itself, as its overflow block).
A level above the root's leaves is never made: the condition in front of
`make_new_root` is inverted, so the first split of a leaf with several keys
ends the process. `Undone` says what a rollback leaves: the new blocks stay,
unlogged formats stay or, after a crash, are those that reached the file.

**Engine.** One connection. `disk` is what the transactions so far have
committed, `work` what the current one sees, `trail` its states, for a rollback
that stops half-way. That a transaction commits or is undone as a whole is what
`TxSystem` shows. A statement is parsed, looks up the catalog, and then goes
row by row: `next_row` is `next` of the select_scan, and the steps of a row
(`set_field`, `enter`, `take_out`, `delete_row`) are actions of their own,
between which `throw` and `crash` may come. `failed` is why the last statement
threw. `rollback` is that of the connection; `rollback_throws` leaves the
connection with a transaction that is half undone, in which its next statement
runs and which that statement commits (`spoilt`). A crash may hit the first
start-up as well: then there are files and no catalog, and `mIsNew` is false. From
then on the constructor throws in every start (`simpledb_throws`):
`stat_manager` scans `tblcat` with a slot size of -1
(`metadata/statmanager.cpp:57`, `record/recordpage.cpp:88`). No statement is
ever executed on such a directory.
`stmt` is what the parser made of the statement and `means` what the client
means by it; `expected`, what the tables should contain, follows from `means`
alone. `missed` are the indexes that the code itself keeps from a row.

**Scans.** A scan is a value, a tree of records, and an operator for each
function of its class says what it does: `Next`, `BeforeFirst`, `Val` and `Has`
stand for the virtual functions. An exception is a result (`Threw`, `Error`),
and so is the death of the process (`Died`). The odd cases of the code are
kept: a product or index join does not look at the result of the first `next`
of its left side; a `table_scan` asked after its end starts again in its last
block; a scan at no row throws when a field is asked for;
`product_scan::has_field` wants both sides to have the field; a `sort_scan`
over one run calls a function of a null pointer, one over no run reads past a
vector. Locks and buffers are those of `TableScan` and are left out, and so are
the exceptions for want of them. An index is complete: it lists the records of
its table with a key. `Engine` says when the code guarantees that, so the run
says what queries do if it does. `With` is there for TLC only: it evaluates the
scan below once, not at every use. `Scans` and `Query` have RECURSIVE operators,
so nothing is proved about them; the loops of `Parser` and `BTree` are recursive
functions, which the modules above them can be proved about with.

**Query.** A query is text, parsed in `create_query_plan`. `create_plan` of the
heuristic planner is an action per table planner it takes out of
`mTablePlanners`, the member that outlives the call. Where the code compares
`records_output()` any choice is possible, because the statistics may be old;
so the run covers every order of the joins and every choice among indexes.
`create_plan_throws` leaves table planners behind; a query planned with one of
them (`dangling`) refers to a transaction that is gone, and its `open` leads to
`undefined`. The basic planner plans a view as the query its text says; the
heuristic planner does not look for views and throws. `program_plans` is a
program that makes a `sort_plan` or a `group_by_plan` itself, as no planner
does. `out` is what the client has read. The meaning of a query is given on its
own: `Answer`, the combinations of rows, one of each table or view, that satisfy
the predicate.

## Runs

| run | instance | what it shows |
|---|---|---|
| `lock_table` | 2 transactions, 2 blocks | types, `TableMatchesHolders`, `Exclusion`, `SharedWaiterBlocked`, refinement of `LockSpec` (`StrictTwoPhase`), `AbortHasRival`; liveness `RequestReturns`, `ReleaseEnds` |
| `buffer_pool` | 2 transactions, 3 blocks, 2 buffers | types, counters, one buffer per block, pins accounted for, pinned buffers stay, contents coherent; flushing and replacing buffers changes nothing that is seen (`NoLostModification`) |
| `buffer_live` | 2 transactions, 2 blocks, 1 buffer, reads may throw | every pin returns, every `unpin_all` ends |
| `buffer_starved` | the same, reads do not throw | *violation*: a pin aborts although a buffer is free |
| `log` | 2 threads, both also iterating, undisturbed; 5 records of 4 or 12 bytes, blocks of 20, 2 crashes anywhere | LSN promise, order, completeness of iterations, refinement of `LogSpec` |
| `log_torn` | 1 thread, 3 records, 1 crash | *violation*: the log cannot be read after a crash between the two writes that add a block |
| `recovery` | 2 clients, 2 blocks, 1 buffer, 6 log records, 1 crash, log undisturbed | recoverability at every step, isolation, no unlocked change outside the files |
| `restarts` | 1 client, 2 blocks, 1 buffer, 8 log records, 2 crashes | refinement of `TxSpec` (`AtomicAndDurable`); every commit, rollback and start-up ends, unless an undo finds no buffer (`CallsEnd`) |
| `table_scan` | 2 transactions, 2 scans, up to 2 blocks of 2 slots, 2 values, 2 logged changes, 2 transactions begun | scans are exact and see no phantoms (`PassExact`), pins (`PinsMatchScans`), refinement of `RecordSpec` (`ImplementsRecords`) |
| `query` | 2 queries of 8, up to 3 tables of up to 4 blocks and 2 views, or a sort (of up to 5 runs) or grouping; 4 sets of indexes, both planners, 1 record in a temporary block, 4 buffers | a query returns the rows its SQL means, each as often as it should, sorts come in order, groups once with their maximum (`RowsExact`); it throws or dies only for the reasons `ErrorsExplained` names, and ends (`QueryReturns`) |
| `engine` | 4 statements of 15, 1 table, 3 indexes of which one is on a missing field, 2 rows and 3 string keys in a block, both update planners, 1 exception, 1 crash | every statement changes its table wholly or not at all (`TablesExact`), indexes agree with their tables (`IndexExact`), statements fail only for the reasons `FailuresExplained` names |
| `btree_split` | the same, without exceptions and crashes | *violation*: after the split of a leaf with one key its records are not in the overflow block |

`Recoverable` is stated on every state, not after a crash: undoing what
`do_recover` would find in the saved part of the log must give the committed
database. So atomicity over several blocks is checked by `recovery` at every
point where the process might die. `AtomicAndDurable` maps the database of
`TxSpec` to this recovered value, so only the step that saves a commit record
may change it. In `restarts` the log reaches from a transaction of the first
process, undone by recovery, to the commit or the rollback of one with the same
number in the next. With one client the log is never disturbed there, and an undo
that finds no buffer (`failed`) is one whose client has pinned the only buffer for
the other block; in `recovery` it may also be the other client that has it. With one
buffer and two connections the page written beside an `iterator()` is always that of
the latest record, which `flush` saves in any case, so `recovery` passes under `Spec`
too. With `NumBuffs = 2` and `Spec` in its configuration TLC
finds `Recoverable` violated: one connection's `iterator()` writes the log page, the
other one logs changes of two blocks, the first moves `mLastSavedLSN` past them,
and `flush_all` writes the first page without its record.

**Bounds.** Two transactions suffice for every case of the lock table (one or
two sharers, an owner, an upgrade against another sharer, circular waits over
two blocks); the theorems below lift the number. Three blocks in two buffers
are the least that let all buffers be pinned while another block is asked for;
a block is evicted already with one. Two small records fill a block of
20 bytes and a large one fills it alone, so blocks of one and two records and
both ways of running out of space occur; five records need up to five blocks.
With one buffer every access to a second block evicts the first, dirty or not.
In `restarts` the first process works with one of the two blocks
(`OneBlockAtFirst`, a bound of the state space); it may die at once, so the second
does with both blocks what it can before the next crash. `MaxLog` stops new
transactions and writes, never a commit or a rollback;
`AtBounds` is the end of a behaviour at this bound, so deadlocks would still be
found. Deadlock is checked in all runs. For `table_scan` the table is at first
empty and without a block, one half full block (so the second insertion
appends), or an empty block and a half full one (so a scan goes past a block
without a record and an insertion fills a gap). `MaxLog` is shared by the
transactions: two logged changes make one insertion and its update, an
insertion beside a removal, or one change by each transaction. `MaxTxs` counts
the transactions that begin, side by side or one after the other, on one
connection or on both. For `query` the tables hold up to four rows, with
equal rows, empty blocks and empty tables among them, and one of seven rows
that a sort cuts into five runs, so that runs are merged twice and the odd one is
carried over; one record in a block of
a temporary table and two buffers for a chunk (`Available` less two) give
products of one and of two chunks, the last one shorter. The second query is
there for what the first leaves in the planner. For `engine` a leaf of the
string index holds three records, of which it keeps one slot free, so the third
row of one key splits it; four statements are enough for an index, two rows and
a change, or for three rows and a query, and to go on after a failure. There is
one exception and one crash, at any step, in one behaviour; the database is new,
so that the first start can be cut off, or has a table with two indexes.
Transactions and scans are symmetric; the symmetry is used
for safety only.

**Fairness.** A thread that can take a step inside a call takes it eventually
(operating system scheduling, mutexes released after finitely many steps), the
clock advances, and a timed wait ends. Clients may stop asking at any time and
spurious wake-ups are possible but never promised. `TxSystem` asks for weak
fairness of a thread's next step only, which does not promise a mutex to a
thread that others overtake again and again (nor does `std::mutex`). `CallsEnd`
is checked with one connection, so it says nothing of waiting for the mutex of
others: what it has to get past is crashes, recoveries cut short and buffers that
are pinned or have to be written first. In `Query` the
client goes on calling `next` until it gets false or an exception, as the
loops of `app/` do.

## Proofs

`LockTableProofs` proves, for any finite set of transactions and any set of
blocks: `TypeCorrect`, `MutualExclusion`, `TableCorrect`,
`SharedWaitersBlocked`, `AbortsHaveRivals` and `ImplementsTwoPhaseLocking`.
The inductive invariant is `IInv == TypeOK /\ CallOK /\ Exclusion /\
TableMatchesHolders`. `Exclusion` alone is not inductive: the table grants by
its number, so that number must be known to agree with the holders
(`TableMatchesHolders`), and what the upgrade finds depends on the thread
already holding the shared lock (`CallOK`). The counting is done by lemmas on
cardinalities (`AddShared`, `AddExclusive`, `RemoveLock`); the refinement maps
`Grant`, `unlock`, `StartRelease` and `EndRelease` to steps of `LockSpec` and
everything else to stuttering.

`BufferManagerProofs` proves, for any finite sets of transactions and blocks,
any pool size and any bound on pins, with and without reads that throw:
`TypeCorrect`, `CountCorrect`, `NoDuplicateBlock`, `NoPinLeaks`,
`PinnedIsSafe`, `DataCoherent` and `ModificationsSurvive` (the last two say
something only if reads do not throw). The safety properties need each other, so
`IInv` is their conjunction with `TypeOK` and `ListsOK`: a buffer is only given to
another block when its pin count is zero, which says something of the transactions
only if the pins are accounted for (`ListedIsPinned`); a second pin of a block
goes to the buffer already in the list only because no block is in two buffers
(`PinnedForWanted`); `unpin` never goes below zero because a list that names a
buffer counts a pin of it (`ListsOK`, which fails inside `unpin_all` and is
restored at its end). `AddPin` and `DropPin` count the references in the lists,
`FewerFree` and `MoreFree` the unpinned buffers. For `DataCoherent`, `Coherent` is
strengthened by `DiskLabelled`, that the file holds for each block data of that
block.

`LogManagerProofs` proves, for any number of threads, any sizes of records and
blocks, any number of records and crashes: `TypeCorrect`, and, if
`iterator()` is not disturbed (`[][Undisturbed]_vars`), `SavedIsSafe`,
`FileKeepsOrder`, `IterationIsComplete` and `LogIsImplemented` (the refinement
of `LogSpec`). `Undisturbed` says that from the start of an iteration to its end
no other thread uses the log manager: `iterator()` writes the page without the
mutex. It holds of recovery at start-up and of any number of threads that
iterate only while the others are idle; without it the theorems are false, as
TLC shows with two threads. `TypeInv == Types /\ OneInMutex /\ Positions` is
inductive without the hypothesis: it says what page, file and block number are
at each program location of `append` and of the iterator. The safety invariant is
`IInv == TypeInv /\ Contents /\ SavedIsOnFile /\ IterTypes /\ Iterations`.
`FileIsPrefix` is not inductive alone: an append moves a record from the page
to the file in several writes, so `Contents` says at each location how file and
page together make up the history; and that an iteration is complete depends
on what it has still to read (`Iterations`), which an append into the same
block must not change. The refinement maps the assignment of the latest LSN to
`AppendRecord`, page writes to `Write`, the assignments of the last saved LSN
to `Promise`, `Crash` to `Crash` and everything else to stuttering.
`SequenceLemmas` has the facts these proofs rest on. `FlattenSeq` of the
community modules is a recursive function, and no library theorem about such
definitions can be used here; that its value for longer sequences is what its
definition says (`FlattenAppend`) is proved from the well-foundedness of `<`,
with a set in place of the predicate (`SetInduction`).

`TxSystemProofs` proves, for any finite set of connections and any number of
blocks, buffers, transactions and crashes: `PoolInvariant`, `TypeCorrect` and
`ChangesLocked`. `PoolInv` is the inductive invariant. `ChangesAreLocked` alone
is not inductive: a dirty buffer is only written and forgotten by an eviction
if no transaction counts on it, so the pins of each buffer are counted
(`Pins`: they are the clients that have the block pinned and the threads that
are about to restore it); the page between `StartWrite` and `EndWrite` must not
be changed (`Writing`); a release comes after the flush of all that the
transaction has changed (`Unforgotten`); and the number in a buffer must name
one transaction only (`Numbers`).

`TxRecoveryProofs` proves from it `TxInvariant`, `AlwaysRecoverable`
(`Recoverable`), `Isolation` (`ReadsCommittedOrOwn`) and `ImplementsTxSpec`, the
refinement of `TxSpec`. All four are theorems of `UndisturbedSpec`: of any number
of connections, provided that while one of them is inside `iterator()` the others
neither append nor save nor iterate. That holds of one connection, and of recovery
at start-up; of several connections it is an assumption that no code enforces, and
without it the theorems are false, as TLC shows (see Runs). The proof uses
it in one place, `HonestStep`: what the log manager takes to be saved is saved
(`Honest`, a conjunct of `LogInv`), because the records that `iterator()` declares
saved are those it has written. `PoolInvariant`, `TypeCorrect` and `ChangesLocked`
above do not depend on it. The invariant `TxInv` speaks of `Changes(s)`, the
records of the changes a thread answers for: the client's until its release,
and those that recovery finds until its checkpoint is on the file. `LogInv`
says that the changes recovery would find in the log are those that some
thread answers for (`Accounted`, `Unended`), that a thread's last record comes
after its changes and is saved before its locks go (`Finishing`), and that an
undo knows all it has to undo (`UndoKnown`). `LocksHeld` gives each changed
block one owner. `ValuesInv` says that the oldest value logged for a block is
its committed one (`OldIsCommitted`), that a change is on the disk only if its
log record is saved (`DirtyChanged`, `DiskCommitted`: write-ahead logging), that
a transaction finds what it wrote until it undoes it (`WritesThere`), and how far
an undo has come (`Undone`, `AllUndone`). From these, what `do_recover` makes of
a block is its owner's committed value, or, once the owner's commit record is
saved, what the owner wrote (`RecoverIs`, `TxInvRecoverable`). Most steps change
neither the log nor the value of any block; they are treated together (`Quiet`,
`QuietSteps`), the eight others one by one, and `CrashStep` uses that recovery
is right at every moment to establish the invariant of the next process. The
refinement maps `set_int` to `Write`, a step that saves commit records to the
`Commit` of these transactions together, the release after a rollback to
`Abort`, `Crash` to `Crash`, and everything else to stuttering. Both
invariants were also put to TLC on the instances of `recovery` and `restarts`.

`TableScanProofs` proves, for any finite sets of transactions and scans, any
number of slots, blocks, logged changes and transactions, and any table to start
with: `TableInvariant`, `TypeCorrect`, `PassesAreExact` (`PassExact`) and
`PinsAreOfScans` (`PinsMatchScans`). The inductive invariant is `IInv == Types
/\ Exclusion /\ Logs /\ Calls /\ Positions /\ Passes /\ PinsMatchScans`.
`PassExact` alone is not inductive: that nobody else inserts, removes or undoes
a record behind a scan needs the locks on the blocks it has left (`Passes`), that
no block is appended behind one that has come to the end needs the lock on the
end of the file, kept from the answer "last block" on (`Passes`), and an undo is
harmless to the passes of others only because every logged change lies in a
block its transaction holds exclusively (`Logs`, `Exclusion`). A call is cut at
its lock requests, so `Calls` says what the thread has found out before and may
still rely on: the empty slot that `search_after` found stays empty until
`set_flag` has its exclusive lock, a table found without a block stays so until
the first `append`, and two calls do not work on one scan. `Positions` keeps
scans on blocks of the file. `PinsMatchScans` counts scans, so `CountOne` and the
lemmas on pins say how one scan more or less at a block changes the number. Most
steps disturb the conjuncts of one scan or one transaction only: `ScanFrame`,
`OthersPasses`, `OthersCalls`, `OthersPins` and `OthersLogs` treat all the others
together. `IInv` was also put to TLC on the instance of `table_scan`.

The last part of `TableScanProofs` proves from it `RecordsAreImplemented`, the
refinement of `RecordSpec`. `set_flag`, `set_val` and `remove` are mapped to
`Change`, an undo to `Restore` if it takes back the first change of its record
and to `Change`
otherwise, `commit` to `Commit`, the beginning and the end of a rollback to
`StartAbort` and `EndAbort`, and everything else to stuttering, `append`
included: a new block has no record. The committed value of a record is the
first old value that a log holds for it, a `CHOOSE` and a minimum over logs. The
main lemma, `OldStays`, says that a change logged with the value it replaces,
and its undo, leave this as it is; it needs that no two transactions have the
same record in their logs (`Separate`), which follows from `Logs` and
`Exclusion`. The same fact makes a commit change no record but its own
(`EndsLog`).

`EngineProofs` proves, for any tables and indexes, any statements and databases
made of them, any size of blocks, with either update planner and any number of
exceptions and crashes: `EngineInvariant`, `TypeCorrect` and `TablesAreExact`
(`TablesExact`). The inductive invariant is `IInv == Worlds /\ AtLeast(work,
disk) /\ Place /\ Committed /\ Progress`. `Committed`, which is `TablesExact`,
is not inductive: a commit makes `work` the database, so it must be known that
by then the statement has done all it should and nothing else. `Progress` says
so slot by slot: a delete or an update has left the slots behind its scan as
the statement means them and those ahead as they were, an insert has taken a
slot that no row had, and every field of the new row is set or among the steps
left; at the commit this is the table the statement means (`FinishedRows`). At a
row the order of the steps counts: a delete gives up the slot in its last step,
an update sets the field in its first one, so that a slot is old or new whatever
index steps are left. Those steps leave the tables alone whatever the B-tree
makes of them, and only make the file of the leaves longer (`IndexInsertGrows`,
`IndexRemoveGrows`). A rollback keeps blocks that were appended, so that it
restores the rows (`UndoneRows`) needs that no file is shorter than the
committed one (`AtLeast`). `insert_rows`, which fills the catalog, is a
recursive function whose rows are found by induction over a set of numbers
(`InsertRows`). `IInv` was also put to TLC on the instance of `engine`.

Assumptions are those of the modules: `LockAssumption` (finitely many
transactions, blocks are numbers, as `release` unlocks in order),
`BufferAssumption`, `LogAssumption` (a record fits in an empty block),
`TxAssumption` (finitely many connections, since pins are counted),
`TableAssumption` (finitely many connections and scans, for the same reason; the
blank value of `format` is a value; the table fits on the disk at first),
`EngineAssumption` (a table is not named like one of the catalog, a block holds a
record, indexes are on tables) and `StatementsAssumption`. The last says that
a text which the parser accepts is parsed to what the client means: that is a
property of the parser and of each text, so TLC evaluates it, with the parser,
on every statement of the instance; for the parser in general it is not proved.
Texts the parser rejects are not excluded: they end in a failed statement.

Only model-checked, and why:

- all liveness properties: TLAPS proves nothing under fairness here;
- `IndexExact` and `FailuresExplained` of `Engine`: they say what the search in a
  chain of leaf blocks and the lookup in the catalog find, for every length of
  the chain and the list, which is induction over data. The second also depends
  on the sizes of the instance: with a key that is longer than a block, an
  insert throws without any failure before it;
- `TypeOK`, `RowsExact` and `ErrorsExplained` of `Query`: the scans and the plans
  are trees, and the operators on them RECURSIVE;
- the three properties that the code violates.

## Assumptions of the models

- A crash is the death of the process; what has been written stays, and the
  write of one block is atomic.
- Sizes, paths and byte layouts are left out, except the boundary of log pages.
  A log record fits in an empty block (`LogAssumption`); `append` does not
  check it.
- In `LogManager` and `TxSystem`, what is said of the log and of recovery from it
  assumes `Undisturbed`: `iterator()` flushes without the mutex, and a thread that
  uses the log manager in the meantime spoils `SavedIsOnFile`, `FileIsPrefix`,
  `Recoverable` and the refinements. The applications of the repository are
  single-threaded, and recovery runs before there is a connection; nothing in the
  library itself keeps several connections apart.
- `RowsExact` and `ErrorsExplained` except plans in which the left side of a
  product or a join has no row (`LeftEmpty`): the code returns wrong rows or
  throws there (`query/productscan.cpp:6`, `index/query/indexjoinscan.cpp:12`).
  `ErrorsExplained` also excepts the basic planner with three tables, whose
  nested product has no field (`query/productscan.cpp:52`); the engine is built
  with the heuristic planner, which makes no such plan.
- `RowsExact` and `ErrorsExplained` except views that compare with a string
  (`LosesQuotes`, `query/constant.cpp:79`), `ErrorsExplained` also sorts of rows
  that are in order already (`materialize/sortscan.cpp:27`).
- `IndexExact` excepts indexes that the code does not fill (`missed`) and those
  whose formatting was undone or whose leaf has split (`Sound`).
- The undo of a statement that throws is taken back to what `disk` holds;
  rollbacks that stop half-way stop at one of the states in `trail`.
- Clients create a thing once, insert as many values as fields, of the right
  types, and define views of at most 100 characters; the code checks none of it.
- Reads that throw (`ReadsMayFail`) break `Coherent`: the label of a buffer is
  set before its read. The counters and pins stay right, which is proved.
- `lru_buffer_manager` repeats `vanilla_buffer_manager` line by line, so it has
  no module of its own; some definitions of `BufferManager` name its lines.

## Not modelled, and why

- `stream_tokenizer`: characters to tokens, octal escapes and comments. The
  properties tell statements apart, not spellings.
- `stat_manager` and all estimates: `Query` lets the planner choose freely. The
  mutex that `get_stat_info` keeps while it waits for locks is a listed hazard
  without a property; the wait ends when the lock request times out.
- `merge_join_plan` dies in its constructor (`mP2` is used before it is set,
  `materialize/mergejoinplan.cpp:19`), so no merge join ever runs.
- `hash_index`: nothing creates one (`metadata/indexmanager.cpp:36`).
- Directory levels above the root, which the code cannot build (see `BTree`).
- Pins that `bt_page` keeps after `append_new`, `close` of a connection, column
  metadata, and the JDBC adapters, whose functions all throw "operation not
  implemented".

Out of scope: byte layouts, logging, the third-party headers and
the other course material.
