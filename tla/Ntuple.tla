------------------------------- MODULE Ntuple -------------------------------
(***************************************************************************)
(* hep_hpc::hdf5::Ntuple (src/hep_hpc/hdf5/Ntuple.hpp): a table whose rows *)
(* are inserted by several threads, buffered column by column in memory    *)
(* and appended to one extensible dataset per column.                      *)
(*                                                                         *)
(* A row is the name of the thread that inserts it, `Fill' the value HDF5  *)
(* gives to rows that were allocated and never written.  The steps of a    *)
(* call are those between which another thread, or a failure of HDF5, can  *)
(* make a difference: a lock, the capacity check, one column at a time.    *)
(* `accepted' is a history: the rows whose insert() has filled all columns.*)
(*                                                                         *)
(* One Ntuple is followed, through moves to other objects, until it is     *)
(* destroyed or assigned over.  What a move leaves behind is a shell: it   *)
(* has no mutex, and its destructor locks it all the same.                 *)
(***************************************************************************)
EXTENDS Naturals, Sequences

CONSTANTS
  Threads,
  ExceptionThreads, \* threads in ErrorMode::EXCEPTION (mode_ is thread_local)
  NCols,            \* nColumns()
  StringColumns,    \* those of std::string and of std::array<char>
  BufSize,          \* bufsize, in rows
  Failures,         \* what may go wrong: a subset of FailureKinds
  MaxFailures,      \* bound on how often it does
  MaxShells,        \* bound on the moved-from objects that exist at a time
  MaxRows,          \* bound on the rows accepted
  NoThread,
  Fill

ASSUME ThreadsAssumption ==
  ExceptionThreads \subseteq Threads /\ NoThread \notin Threads /\ Fill \notin Threads
ASSUME ColumnsAssumption  == NCols \in Nat \ {0}
ASSUME StringsAssumption  == StringColumns \subseteq 1..NCols
ASSUME BufSizeAssumption  == BufSize \in Nat
ASSUME BoundsAssumption ==
  MaxFailures \in Nat /\ MaxRows \in Nat /\ MaxShells \in Nat

Columns == 1..NCols

(* A write fails before or after H5Dset_extent has extended the dataset,   *)
(* or at H5Sget_simple_extent_dims(), which is not called through          *)
(* ErrorController; there is no memory for the pointers that a column of   *)
(* strings is written from; a value of a row cannot be stored              *)
(* (std::bad_alloc, or an exception of the conversion to the element's     *)
(* type); closing the members fails.                                       *)
WriteFailures == {"query", "before", "after"}
FailureKinds  == WriteFailures \cup {"memory", "alloc", "close"}

(* How rows are lost, or taken apart: part of a row was inserted; the last *)
(* flush or close failed; the Ntuple was assigned over; the process ended, *)
(* also in a shell or for want of memory.                                  *)
Losses == {"torn", "flush", "close", "assign", "crash", "shell", "memory"}

VARIABLES
  stored,   \* the datasets in the file
  buffer,   \* buffers_
  mutex,    \* mutex_: who holds it, and how many times
  pc,       \* where each thread is
  op,       \* the call it is in
  col,      \* the column it has come to
  rc,       \* has a column failed in this flush_()?
  alive,    \* before ~Ntuple()
  shells,   \* moved-from objects that have not been destroyed
  accepted, \* history
  failures, \* history: failures so far
  lost      \* history: the losses so far

vars == <<stored, buffer, mutex, pc, op, col, rc, alive, shells, accepted, failures, lost>>
table   == <<stored, buffer, shells, accepted, failures, lost>>

PCs == {"idle", "lock", "check", "flushlock", "flush", "insert", "close", "gone"}
Ops == {"none", "insert", "flush", "destroy"}

Unlocked == [owner |-> NoThread, depth |-> 0]

Init ==
  /\ stored = [c \in Columns |-> << >>]
  /\ buffer = [c \in Columns |-> << >>]
  /\ mutex = Unlocked
  /\ pc = [t \in Threads |-> "idle"]
  /\ op = [t \in Threads |-> "none"]
  /\ col = [t \in Threads |-> 1]
  /\ rc = [t \in Threads |-> FALSE]
  /\ alive = TRUE
  /\ shells = 0
  /\ accepted = << >>
  /\ failures = 0
  /\ lost = {}

GoTo(t, place) == pc' = [pc EXCEPT ![t] = place]

-----------------------------------------------------------------------------
(* std::recursive_mutex *)
NoMutexBug(t) == mutex' = [owner |-> t, depth |-> 1]

PlainMutexBug(t) ==
  /\ mutex.owner = NoThread
  /\ mutex' = [owner |-> t, depth |-> 1]

Lock(t) ==
  /\ mutex.owner \in {NoThread, t}
  /\ mutex' = [owner |-> t, depth |-> mutex.depth + 1]

(* flush_() returns to insert(), which still holds the mutex. *)
UnlockInner == mutex' = [owner |-> mutex.owner, depth |-> mutex.depth - 1]

(* The call ends, by return or by exception. *)
Return(t) ==
  /\ GoTo(t, "idle")
  /\ op' = [op EXCEPT ![t] = "none"]
  /\ col' = [col EXCEPT ![t] = 1]
  /\ rc' = [rc EXCEPT ![t] = FALSE]

(* Its lock_guards are gone with it. *)
OneUnlockMissingBug(t) ==
  /\ mutex' = [mutex EXCEPT !.depth = @ - 1]
  /\ Return(t)

Leave(t) ==
  /\ mutex' = Unlocked
  /\ Return(t)

(* std::terminate(), or a signal: no thread goes on. *)
Crash(cause) ==
  /\ pc' = [u \in Threads |-> "gone"]
  /\ op' = [u \in Threads |-> "none"]
  /\ col' = [u \in Threads |-> 1]
  /\ rc' = [u \in Threads |-> FALSE]
  /\ mutex' = Unlocked
  /\ alive' = FALSE
  /\ lost' = lost \cup {"crash", cause}

-----------------------------------------------------------------------------
(* A call of the program.  Only the owner of the Ntuple destroys it, when  *)
(* no thread uses it any more.                                             *)
Call(t, name, place) ==
  /\ alive /\ pc[t] = "idle"
  /\ op' = [op EXCEPT ![t] = name]
  /\ GoTo(t, place)
  /\ UNCHANGED <<table, mutex, col, rc>>

CallInsert(t) ==
  /\ Len(accepted) < MaxRows
  /\ Call(t, "insert", "lock")
  /\ UNCHANGED alive

CallFlush(t) ==
  /\ Call(t, "flush", "flushlock")
  /\ UNCHANGED alive

CallDestroy(t) ==
  /\ \A u \in Threads : pc[u] = "idle"
  /\ Call(t, "destroy", "flushlock")
  /\ alive' = FALSE

LockForInsert(t) ==
  /\ pc[t] = "lock"
  /\ Lock(t)
  /\ GoTo(t, "check")
  /\ UNCHANGED <<table, op, col, rc, alive>>

(* insert() looks at the first column's buffer only. *)
OneTooManyBug == Len(buffer[1]) > BufSize

BufferFull == Len(buffer[1]) >= BufSize

CheckCapacity(t) ==
  /\ pc[t] = "check"
  /\ GoTo(t, IF BufferFull THEN "flushlock" ELSE "insert")
  /\ col' = [col EXCEPT ![t] = 1]
  /\ UNCHANGED <<table, mutex, op, rc, alive>>

LockForFlush(t) ==
  /\ pc[t] = "flushlock"
  /\ Lock(t)
  /\ GoTo(t, "flush")
  /\ col' = [col EXCEPT ![t] = 1]
  /\ rc' = [rc EXCEPT ![t] = FALSE]
  /\ UNCHANGED <<table, op, alive>>

(* flush_one(): the dataset is extended by the rows in the buffer, these   *)
(* are written, and the buffer is cleared when that has succeeded.         *)
OffsetZeroBug(c) ==
  /\ stored' = [stored EXCEPT ![c] =
        buffer[c] \o SubSeq(@ \o [i \in 1..Len(buffer[c]) |-> Fill],
                           Len(buffer[c]) + 1, Len(@) + Len(buffer[c]))]
  /\ buffer' = [buffer EXCEPT ![c] = << >>]

NotClearedBug(c) ==
  /\ stored' = [stored EXCEPT ![c] = @ \o buffer[c]]
  /\ UNCHANGED buffer

WriteColumn(c) ==
  /\ stored' = [stored EXCEPT ![c] = @ \o buffer[c]]
  /\ buffer' = [buffer EXCEPT ![c] = << >>]

FlushColumn(t) ==
  /\ pc[t] = "flush" /\ col[t] \in Columns
  /\ WriteColumn(col[t])
  /\ col' = [col EXCEPT ![t] = @ + 1]
  /\ UNCHANGED <<mutex, pc, op, rc, alive, shells, accepted, failures, lost>>

(* Up to H5Dset_extent nothing has changed; from then on the new rows are  *)
(* in the dataset, unwritten, and also still in the buffer.                *)
ClearedOnFailureBug(c, how) ==
  /\ buffer' = [buffer EXCEPT ![c] = << >>]
  /\ UNCHANGED stored

FailColumn(c, how) ==
  /\ stored' = IF how # "after" THEN stored
               ELSE [stored EXCEPT ![c] = @ \o [i \in 1..Len(buffer[c]) |-> Fill]]
  /\ UNCHANGED buffer

(* In mode EXCEPTION a failing HDF5 call throws: the columns that follow   *)
(* are not tried.  ~Ntuple() flushes in mode HDF5_DEFAULT.                 *)
ThrowsInDestructorBug(t, how) == how # "query" /\ t \in ExceptionThreads

Throws(t, how) == how # "query" /\ t \in ExceptionThreads /\ op[t] # "destroy"

(* ~Ntuple() is noexcept. *)
Throw(t, cause) ==
  IF op[t] = "destroy" THEN Crash(cause) ELSE Leave(t) /\ UNCHANGED <<alive, lost>>

Fails(kind) ==
  /\ kind \in Failures
  /\ failures < MaxFailures
  /\ failures' = failures + 1

FlushColumnFails(t, how) ==
  /\ pc[t] = "flush" /\ col[t] \in Columns
  /\ Fails(how)
  /\ FailColumn(col[t], how)
  /\ \/ Throws(t, how) /\ Throw(t, "flush")
     \/ /\ ~ Throws(t, how)
        /\ col' = [col EXCEPT ![t] = @ + 1]
        /\ rc' = [rc EXCEPT ![t] = TRUE]
        /\ UNCHANGED <<mutex, pc, op, alive, lost>>
  /\ UNCHANGED <<shells, accepted>>

(* The values of a string column are written from a vector of pointers     *)
(* that flush_one() makes for them (none for no rows): std::bad_alloc is   *)
(* thrown in any error mode, before the file is touched.                   *)
FlushColumnStarved(t) ==
  /\ pc[t] = "flush" /\ col[t] \in StringColumns
  /\ buffer[col[t]] # << >>
  /\ Fails("memory")
  /\ Throw(t, "memory")
  /\ UNCHANGED <<stored, buffer, shells, accepted>>

(* flush_() returns.  flush() throws when a column has failed, ~Ntuple()   *)
(* only says so and goes on to its members; insert() goes on to add its    *)
(* row.                                                                    *)
GoesOnToInsert(t) == op[t] = "insert" /\ ~ rc[t]

EndFlush(t) ==
  /\ pc[t] = "flush" /\ col[t] \notin Columns
  /\ \/ /\ GoesOnToInsert(t)
        /\ UnlockInner
        /\ GoTo(t, "insert")
        /\ col' = [col EXCEPT ![t] = 1]
        /\ UNCHANGED <<op, rc>>
     \/ /\ op[t] = "destroy"
        /\ mutex' = Unlocked
        /\ GoTo(t, "close")
        /\ UNCHANGED <<op, col, rc>>
     \/ op[t] # "destroy" /\ ~ GoesOnToInsert(t) /\ Leave(t)
  /\ lost' = IF op[t] = "destroy" /\ rc[t] THEN lost \cup {"flush"} ELSE lost
  /\ UNCHANGED <<stored, buffer, alive, shells, accepted, failures>>

(* The members of the Ntuple are destroyed after the body of ~Ntuple(),    *)
(* and its ScopedErrorHandler with it: the datasets, the group and perhaps *)
(* the file are closed in the mode of the thread.  An exception can leave  *)
(* ~SimpleRAII(), but not ~Ntuple(); without one nobody hears of it.       *)
CloseMembers(t) ==
  /\ pc[t] = "close"
  /\ Return(t)
  /\ UNCHANGED <<table, mutex, alive>>

CloseMembersFails(t) ==
  /\ pc[t] = "close"
  /\ Fails("close")
  /\ \/ t \in ExceptionThreads /\ Crash("close")
     \/ /\ t \notin ExceptionThreads
        /\ Return(t)
        /\ lost' = lost \cup {"close"}
        /\ UNCHANGED <<mutex, alive>>
  /\ UNCHANGED <<stored, buffer, shells, accepted>>

(* NtupleDetail::insert<I>(), for every column in turn. *)
InsertColumn(t) ==
  /\ pc[t] = "insert" /\ col[t] \in Columns
  /\ buffer' = [buffer EXCEPT ![col[t]] = Append(@, t)]
  /\ accepted' = IF col[t] = NCols THEN Append(accepted, t) ELSE accepted
  /\ col' = [col EXCEPT ![t] = @ + 1]
  /\ UNCHANGED <<stored, mutex, pc, op, rc, alive, shells, failures, lost>>

(* The argument of column I is converted and stored when the columns       *)
(* before it have theirs already: an exception leaves them one row longer. *)
InsertColumnFails(t) ==
  /\ pc[t] = "insert" /\ col[t] \in Columns
  /\ Fails("alloc")
  /\ lost' = IF col[t] > 1 THEN lost \cup {"torn"} ELSE lost
  /\ Leave(t)
  /\ UNCHANGED <<stored, buffer, alive, shells, accepted>>

EndInsert(t) ==
  /\ pc[t] = "insert" /\ col[t] \notin Columns
  /\ Leave(t)
  /\ UNCHANGED <<table, alive>>

-----------------------------------------------------------------------------
(* Ntuple(Ntuple &&) and operator=(Ntuple &&), both defaulted.             *)

(* The Ntuple goes on as another object.  The program moves it as it       *)
(* destroys it: when no thread uses it.                                    *)
Move ==
  /\ alive /\ \A u \in Threads : pc[u] = "idle"
  /\ shells < MaxShells
  /\ shells' = shells + 1
  /\ UNCHANGED <<stored, buffer, mutex, pc, op, col, rc, alive, accepted, failures, lost>>

(* Another one is assigned to it: its buffers are freed without a flush,   *)
(* its datasets are swapped into what is then the shell of the other.      *)
AssignOver ==
  /\ alive /\ \A u \in Threads : pc[u] = "idle"
  /\ shells < MaxShells
  /\ shells' = shells + 1
  /\ alive' = FALSE
  /\ lost' = IF \E c \in Columns : buffer[c] # << >> THEN lost \cup {"assign"} ELSE lost
  /\ buffer' = [c \in Columns |-> << >>]
  /\ UNCHANGED <<stored, mutex, pc, op, col, rc, accepted, failures>>

(* The destructor of a shell locks a mutex through a null pointer, which   *)
(* is undefined: a build without threads does not look at it, and then     *)
(* has nothing to flush; others end here.                                  *)
DestroyShell(t) ==
  /\ pc[t] = "idle"
  /\ shells > 0
  /\ shells' = shells - 1
  /\ \/ Crash("shell")
     \/ UNCHANGED <<mutex, pc, op, col, rc, alive, lost>>
  /\ UNCHANGED <<stored, buffer, accepted, failures>>

(* What a thread does inside a call. *)
Proceed(t) ==
  \/ LockForInsert(t)
  \/ CheckCapacity(t)
  \/ LockForFlush(t)
  \/ FlushColumn(t)
  \/ \E how \in WriteFailures : FlushColumnFails(t, how)
  \/ FlushColumnStarved(t)
  \/ EndFlush(t)
  \/ CloseMembers(t)
  \/ CloseMembersFails(t)
  \/ InsertColumn(t)
  \/ InsertColumnFails(t)
  \/ EndInsert(t)

Next ==
  \/ \E t \in Threads :
       \/ CallInsert(t)
       \/ CallFlush(t)
       \/ CallDestroy(t)
       \/ DestroyShell(t)
       \/ Proceed(t)
  \/ Move
  \/ AssignOver

(* A thread that can run is run; nothing is said about who gets the mutex. *)
Fairness == \A t \in Threads : WF_vars(Proceed(t))

Spec == Init /\ [][Next]_vars /\ Fairness

-----------------------------------------------------------------------------
Rows == Seq(Threads)

TypeOK ==
  /\ stored \in [Columns -> Seq(Threads \cup {Fill})]
  /\ buffer \in [Columns -> Rows]
  /\ mutex \in [owner : Threads \cup {NoThread}, depth : 0..2]
  /\ mutex.owner = NoThread <=> mutex.depth = 0
  /\ pc \in [Threads -> PCs]
  /\ op \in [Threads -> Ops]
  /\ col \in [Threads -> 1..(NCols + 1)]
  /\ rc \in [Threads -> BOOLEAN]
  /\ alive \in BOOLEAN
  /\ shells \in Nat
  /\ accepted \in Rows
  /\ failures \in Nat
  /\ lost \subseteq Losses

(* No failed write has left rows in the file that nobody wrote, and no     *)
(* failed insert() has left a row in some of the columns only.             *)
NoHoles == \A c \in Columns : \A i \in 1..Len(stored[c]) : stored[c][i] # Fill

Whole == NoHoles /\ "torn" \notin lost

(* What was in memory is not gone. *)
Kept == lost \cap {"assign", "crash"} = {}

(* Ntuple.hpp:112, "Insertion is row-wise; storage is column-wise":        *)
(* while no call is under way every column holds, in the file and in       *)
(* memory together, exactly the accepted rows in the order of acceptance.  *)
(* A call that threw has added no row to one column and not to another.    *)
Aligned ==
  Whole /\ Kept /\ mutex.owner = NoThread =>
    \A c \in Columns : stored[c] \o buffer[c] = accepted

(* The rows among the first `i' of a dataset, for each `i'. *)
RowsUpTo(dataset) ==
  LET rows[i \in 0..Len(dataset)] ==
        IF i = 0 THEN << >>
        ELSE IF dataset[i] = Fill THEN rows[i - 1]
        ELSE Append(rows[i - 1], dataset[i])
  IN  rows

RowsOf(dataset) == RowsUpTo(dataset)[Len(dataset)]

(* What has been written of column `c', without the holes. *)
Written(c) == RowsOf(stored[c])

(* A hole shifts the rows behind it and loses none: apart from holes every *)
(* column has all accepted rows, in order, whatever flushes failed when.   *)
HolesOnlyShift ==
  "torn" \notin lost /\ Kept /\ mutex.owner = NoThread =>
    \A c \in Columns : Written(c) \o buffer[c] = accepted

(* Two rows of the file that have the same number were inserted together,  *)
(* at any moment, also one in which a flush is half done or has failed,    *)
(* the process has ended or the Ntuple was assigned over.                  *)
FilePrefix ==
  \A c \in Columns :
    /\ Len(stored[c]) <= Len(accepted)
    /\ \A i \in 1..Len(stored[c]) : stored[c][i] = accepted[i]

FileConsistent == Whole => FilePrefix

Destroyed == ~ alive /\ \A t \in Threads : pc[t] = "idle"

(* Ntuple.hpp:117-118, "all existing buffered data have been flushed": if  *)
(* the last flush and close succeed the file has every accepted row,       *)
(* whatever flushes have failed before, and however often the Ntuple was   *)
(* moved.  Only a row torn apart and an assignment over a filled Ntuple    *)
(* lose rows otherwise.                                                    *)
NothingLeftBehind ==
  NoHoles /\ Destroyed /\ lost = {} => \A c \in Columns : stored[c] = accepted

(* Ntuple.hpp:109-110, "Buffer size controls how many rows are cached in   *)
(* memory before being flushed" (a size of 0 caches one row all the same). *)
(* insert() looks at the first buffer only, so that this is certain only   *)
(* until a flush or an insertion has failed.                               *)
Capacity == IF BufSize = 0 THEN 1 ELSE BufSize

CapacityUntilFailure ==
  failures = 0 => \A c \in Columns : Len(buffer[c]) <= Capacity

(* Ntuple.hpp:115, "~Ntuple() noexcept": a call of HDF5 that fails in the  *)
(* flush of ~Ntuple() is reported and survived, in a thread of any error   *)
(* mode.  What can end the process is a shell, a failing close in mode     *)
(* EXCEPTION, and memory that is missing as a string column is flushed.    *)
FlushSurvived ==
  [][ "crash" \in lost' \ lost =>
        \/ shells > 0
        \/ \E t \in ExceptionThreads : pc[t] = "close"
        \/ /\ "memory" \in lost'
           /\ \E t \in Threads : pc[t] = "flush" /\ col[t] \in StringColumns ]_vars

(* The rows of the file that are complete are those that every column has, *)
(* apart from holes.                                                       *)
WrittenOf == {Len(Written(c)) : c \in Columns}

Fewest == CHOOSE n \in WrittenOf : \A m \in WrittenOf : n <= m

Complete == SubSeq(Written(1), 1, Fewest)

Table == INSTANCE NtupleTable
  WITH Row <- Threads, rows <- accepted, file <- Complete,
       closed <- Destroyed /\ lost = {}, broken <- lost \cap {"torn", "crash"} # {}

(* The steps of the threads and the columns add up to a table that is      *)
(* appended to row by row and persisted in that order.                     *)
ImplementsTable == Table!TableSpec

-----------------------------------------------------------------------------
(* The inductive invariant.                                                *)

(* The mutex is held by the thread that is in the critical section, twice  *)
(* by one that flushes in insert().                                        *)
Locking ==
  \A t \in Threads :
    /\ pc[t] \in {"check", "flush", "insert"} => mutex.owner = t
    /\ pc[t] = "flushlock" /\ op[t] = "insert" => mutex.owner = t
    /\ pc[t] \in {"lock", "check", "insert"} => op[t] = "insert"
    /\ pc[t] = "close" => op[t] = "destroy"
    /\ mutex.owner = t =>
         /\ pc[t] \in {"check", "flushlock", "flush", "insert"}
         /\ pc[t] = "flushlock" => op[t] = "insert"
         /\ mutex.depth = IF pc[t] = "flush" /\ op[t] = "insert" THEN 2 ELSE 1

Untorn == "torn" \notin lost

(* The row that is being inserted is in the columns before the current one. *)
InProgress(t, c) == pc[t] = "insert" /\ c < col[t] /\ col[t] <= NCols

ColumnsComplete ==
  \A c \in Columns :
    /\ \A t \in Threads :
         InProgress(t, c) => Written(c) \o buffer[c] = Append(accepted, t)
    /\ (\A t \in Threads : ~ InProgress(t, c)) => Written(c) \o buffer[c] = accepted

(* The rows that have been written are the first that were accepted. *)
WrittenPrefix ==
  \A c \in Columns :
    /\ Len(Written(c)) <= Len(accepted)
    /\ \A i \in 1..Len(Written(c)) : Written(c)[i] = accepted[i]

Resting(t) == pc[t] \in {"idle", "gone"}

(* ~Ntuple() runs alone, and empties one buffer after the other.  When the *)
(* Ntuple is gone in another way nothing runs.                             *)
Destruction ==
  /\ alive => \A t \in Threads : op[t] # "destroy" /\ pc[t] # "gone"
  /\ ~ alive => \A t \in Threads : ~ Resting(t) =>
       /\ op[t] = "destroy" /\ pc[t] \in {"flushlock", "flush", "close"}
       /\ \A u \in Threads : ~ Resting(u) => u = t
  /\ ~ alive => \A t \in Threads : \A c \in Columns :
       /\ pc[t] = "flush" /\ ~ rc[t] /\ c < col[t] => buffer[c] = << >>
       /\ pc[t] = "close" /\ "flush" \notin lost => buffer[c] = << >>
  /\ ~ Kept => ~ alive /\ \A t \in Threads : Resting(t)
  /\ Destroyed /\ lost = {} => \A c \in Columns : buffer[c] = << >>

(* Without failures the buffers are equally long, up to the column that a  *)
(* thread has come to in inserting or flushing.                            *)
ComeTo(c, place) == \E t \in Threads : pc[t] = place /\ c < col[t]

LevelAt(m) ==
  /\ (\E t \in Threads : pc[t] = "insert") => m < Capacity
  /\ \A c \in Columns :
       Len(buffer[c]) = IF ComeTo(c, "insert") THEN m + 1
                        ELSE IF ComeTo(c, "flush") THEN 0 ELSE m

Level == failures = 0 /\ Kept => \E m \in 0..Capacity : LevelAt(m)

IInv ==
  /\ TypeOK /\ Locking /\ Destruction
  /\ Untorn /\ Kept => ColumnsComplete
  /\ Untorn => WrittenPrefix

-----------------------------------------------------------------------------
(* Whoever holds the mutex gives it up: insert() calls flush(), which locks *)
(* again, and every way out of either unlocks.                             *)
MutexReleased ==
  \A t \in Threads : mutex.owner = t ~> mutex.owner = NoThread

(* ~Ntuple() ends, whatever has failed before and fails in it: it waits    *)
(* for nobody, as no call has left the mutex locked, and tries each column *)
(* once.                                                                   *)
DestructorEnds == ~ alive ~> \A t \in Threads : Resting(t)
=============================================================================
