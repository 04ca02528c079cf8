---------------------------- MODULE OfflineCache ----------------------------
(***************************************************************************)
(* OfflineCacheManager: the cache_entries table in SQLite, its updates and *)
(* the eviction that keeps the files within the storage quota.             *)
(*                                                                         *)
(* mu_ lets one operation run at a time, but every statement commits on    *)
(* its own: an operation of several statements can fail in the middle, and *)
(* the process can end between two of them and leave the rest undone.      *)
(* The rows' paths, progress and added_at are left out: nothing here       *)
(* depends on them.  TorrentLifecycle models the torrents table.           *)
(***************************************************************************)
EXTENDS Integers, FiniteSets, Sequences, FiniteSetsExt, SequencesExt

CONSTANTS Torrents,
          NFiles,    \* files of a torrent
          Size,      \* [Torrents \X 1..NFiles -> bytes]
          Quotas,    \* values of max_storage_bytes to try; 0 is unlimited
          Times      \* bound: what now_epoch() can return; it may go back

Keys == Torrents \X (1..NFiles)

ASSUME CacheAssumption == /\ NFiles \in Nat \ {0}
                          /\ Size \in [Keys -> Nat]
                          /\ Quotas \subseteq Nat
                          /\ Times \subseteq Int

VARIABLES
    rows,      \* the table: [keys in it -> offline_ready and last_access]
    usable,    \* there is a manager, and init_db could open its database
    quota,     \* its config_.max_storage_bytes
    op,        \* the operation that holds mu_
    completed  \* history: keys on_file_completed was called for

vars == <<rows, usable, quota, op, completed>>

\* failed: the keys a statement of the operation has failed for.
Idle == [at |-> "idle", todo |-> << >>, now |-> 0, failed |-> {}]
Free == usable /\ op.at = "idle"

Init == /\ rows = << >>
        /\ usable = FALSE
        /\ quota = 0
        /\ op = Idle
        /\ completed = {}

-----------------------------------------------------------------------------
\* The constructor.  If the database does not open or the table cannot be made,
\* every operation returns at its first statement.
Open(q, ok) ==
    /\ ~usable
    /\ usable' = ok
    /\ quota' = q
    /\ UNCHANGED <<rows, op, completed>>

\* The destructor, or the process ends, in the middle of an operation too.
Close ==
    /\ usable
    /\ usable' = FALSE
    /\ op' = Idle
    /\ UNCHANGED <<rows, quota, completed>>

Begin(place, todo, now) ==
    op' = [at |-> place, todo |-> todo, now |-> now, failed |-> {}]

\* One statement of the loop is done, or has failed, and the loop goes on.
Advance(ok) ==
    op' = IF Len(op.todo) = 1 THEN Idle
          ELSE [op EXCEPT !.todo = Tail(@),
                          !.failed = IF ok THEN @ ELSE @ \cup {Head(op.todo)}]

\* on_torrent_added(t, files): one INSERT per file, all with the same time.
TorrentAdded(t, now) ==
    /\ Free
    /\ Begin("adding", [i \in 1..NFiles |-> <<t, i>>], now)
    /\ UNCHANGED <<rows, usable, quota, completed>>

\* Slip: last_access is not bound.
RowUnstamped(now) == [ready |-> FALSE, access |-> 0]

Row(now) == [ready |-> FALSE, access |-> now]

\* Slip: INSERT OR REPLACE.
InsertOrReplace(k, now) ==
    rows' = [l \in DOMAIN rows \cup {k} |-> IF l = k THEN Row(now) ELSE rows[l]]

InsertOrIgnore(k, now) ==
    rows' = [l \in DOMAIN rows \cup {k} |-> IF l \in DOMAIN rows THEN rows[l] ELSE Row(now)]

InsertNext(ok) ==
    /\ op.at = "adding"
    /\ IF ok THEN InsertOrIgnore(Head(op.todo), op.now) ELSE UNCHANGED rows
    /\ Advance(ok)
    /\ UNCHANGED <<usable, quota, completed>>

\* UPDATE ... WHERE torrent_id = ? AND file_index = ?: a key that has no row, or a
\* statement that fails, changes nothing.
Update(k, row) == rows' = IF k \in DOMAIN rows THEN [rows EXCEPT ![k] = row] ELSE rows

\* on_progress_update and on_access, as far as they touch what is modelled.
Touch(k, now) ==
    /\ Free
    /\ k \in DOMAIN rows
    /\ Update(k, [rows[k] EXCEPT !.access = now])
    /\ UNCHANGED <<usable, quota, op, completed>>

\* Slip: WHERE torrent_id = ? only.
FileCompletedForAll(k, now) ==
    /\ Free
    /\ completed' = completed \cup {k}
    /\ rows' = [l \in DOMAIN rows |-> IF l[1] = k[1] THEN [ready |-> TRUE, access |-> now]
                                     ELSE rows[l]]
    /\ UNCHANGED <<usable, quota, op>>

FileCompleted(k, now) ==
    /\ Free
    /\ completed' = completed \cup {k}
    /\ Update(k, [ready |-> TRUE, access |-> now]) \/ UNCHANGED rows
    /\ UNCHANGED <<usable, quota, op>>

-----------------------------------------------------------------------------
(* enforce_quota                                                           *)

Total(S) == MapThenSumSet(LAMBDA k : Size[k], S)

\* Slip: ORDER BY last_access DESC.
MruOrders ==
    {s \in SetToSeqs(DOMAIN rows) :
        \A i, j \in DOMAIN s : i < j => rows[s[i]].access >= rows[s[j]].access}

\* SELECT ... ORDER BY last_access ASC; rows of the same second come in any order.
LruOrders ==
    {s \in SetToSeqs(DOMAIN rows) :
        \A i, j \in DOMAIN s : i < j => rows[s[i]].access <= rows[s[j]].access}

\* The rows that are left when the first m of s are deleted.
Left(s, m) == DOMAIN rows \ {s[i] : i \in 1..m}

\* Slip: the row that takes the total below the quota is kept.
EnoughIfOneMore(s, n) ==
    /\ n < Len(s) /\ Total(Left(s, n + 1)) <= quota
    /\ \A m \in 0..n : Total(Left(s, m)) > quota

\* to_delete is the first n of s: the loop ends as soon as total, from which it
\* takes every size, is within the quota.
Enough(s, n) ==
    /\ Total(Left(s, n)) <= quota
    /\ \A m \in 0..(n - 1) : Total(Left(s, m)) > quota

EnforceQuota ==
    /\ Free
    /\ quota > 0 /\ Total(DOMAIN rows) > quota
    /\ \E s \in LruOrders : \E n \in DOMAIN s :
          Enough(s, n) /\ Begin("evicting", SubSeq(s, 1, n), 0)
    /\ UNCHANGED <<rows, usable, quota, completed>>

EvictNext(ok) ==
    /\ op.at = "evicting"
    /\ rows' = [k \in DOMAIN rows \ (IF ok THEN {Head(op.todo)} ELSE {}) |-> rows[k]]
    /\ Advance(ok)
    /\ UNCHANGED <<usable, quota, completed>>

-----------------------------------------------------------------------------
Next == \/ \E q \in Quotas, ok \in BOOLEAN : Open(q, ok)
        \/ Close
        \/ \E t \in Torrents, now \in Times : TorrentAdded(t, now)
        \/ \E k \in Keys, now \in Times : Touch(k, now) \/ FileCompleted(k, now)
        \/ EnforceQuota
        \/ \E ok \in BOOLEAN : InsertNext(ok) \/ EvictNext(ok)

Spec == Init /\ [][Next]_vars

-----------------------------------------------------------------------------
RowType == [ready : BOOLEAN, access : Times]

\* Every variable stays in its type; the table has rows of known keys only, and an
\* operation in progress has something left to do.
TypeOK ==
    /\ DOMAIN rows \subseteq Keys /\ rows \in [DOMAIN rows -> RowType]
    /\ usable \in BOOLEAN /\ (~usable => op = Idle)
    /\ quota \in Quotas \cup {0}
    /\ op \in [at : {"idle", "adding", "evicting"}, todo : Seq(Keys),
               now : Times \cup {0}, failed : SUBSET Keys]
    /\ op.at # "idle" => Len(op.todo) > 0
    /\ op.at = "adding" => op.now \in Times
    /\ completed \subseteq Keys

\* is_offline_ready never answers yes for a file that was not reported complete,
\* whatever was added again, evicted, half inserted or restarted in between.
ReadyIsEarned == \A k \in DOMAIN rows : rows[k].ready => k \in completed

\* A row that is offline-ready stays so as long as it is in the table: adding the
\* torrent again after a restart, progress and accesses do not take it back.
ReadySticks ==
    [][\A k \in DOMAIN rows \cap DOMAIN rows' : rows[k].ready => rows'[k].ready]_vars

\* The rows in the table, but for those an eviction under way could not delete.
Deletable == DOMAIN rows \ op.failed

\* A row is deleted only while the files are above the quota, not counting those that
\* could not be deleted, and only if nobody has accessed it since any other row that
\* stays: a statement that fails costs its own row, it does not make the loop delete a
\* wrong one, and an eviction that is cut short has still removed the right files.
EvictsOldestWhileOver ==
    [][\A k \in DOMAIN rows \ DOMAIN rows' :
          /\ Total(Deletable) > quota
          /\ \A l \in DOMAIN rows' \ op.failed : rows[k].access <= rows[l].access]_vars

\* When the loop of enforce_quota has come to its end, the files left are within the
\* quota, but for those whose own deletion failed (the last one's perhaps too).
EvictionReachesQuota ==
    [][op.at = "evicting" /\ op'.at = "idle" /\ usable'
          => Total((DOMAIN rows' \ op.failed) \ {Head(op.todo)}) <= quota]_vars
=============================================================================
