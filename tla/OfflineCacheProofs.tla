------------------------- MODULE OfflineCacheProofs -------------------------
(***************************************************************************)
(* Proofs about OfflineCache for any torrents, sizes, quotas and times.    *)
(*                                                                         *)
(* The sum of the sizes is never computed: that an eviction stops as soon  *)
(* as it may, and not before, is a statement about which rows are left     *)
(* when it has deleted the first m of its victims, and deleting the head   *)
(* only shifts that.                                                       *)
(***************************************************************************)
EXTENDS OfflineCache, FiniteSetTheorems, SequenceTheorems, TLAPS

Finite == IsFiniteSet(DOMAIN rows)

\* Where an eviction stands, the rows it could not delete aside: its victims are rows,
\* each once, in the order of their last access; no row that stays is older; and the
\* quota is reached with the last of them and not before.
Still(s, m) == Deletable \ {s[i] : i \in 1..m}

VictimsAreRows ==
    op.at = "evicting" =>
        /\ \A i \in DOMAIN op.todo : op.todo[i] \in Deletable
        /\ \A i, j \in DOMAIN op.todo : op.todo[i] = op.todo[j] => i = j

VictimsAreOldest ==
    op.at = "evicting" =>
        /\ \A i, j \in DOMAIN op.todo :
              i <= j => rows[op.todo[i]].access <= rows[op.todo[j]].access
        /\ \A k \in Still(op.todo, Len(op.todo)), i \in DOMAIN op.todo :
              rows[op.todo[i]].access <= rows[k].access

VictimsAreEnough ==
    op.at = "evicting" =>
        /\ Total(Still(op.todo, Len(op.todo))) <= quota
        /\ \A m \in 0..(Len(op.todo) - 1) : Total(Still(op.todo, m)) > quota

EvictionInv == VictimsAreRows /\ VictimsAreOldest /\ VictimsAreEnough

-----------------------------------------------------------------------------
\* The rest of what an operation has to do.
LEMMA RestOf ==
    ASSUME TypeOK, op.at # "idle"
    PROVE  /\ op.todo \in Seq(Keys) /\ Len(op.todo) \in Nat \ {0}
           /\ Head(op.todo) \in Keys /\ Head(op.todo) = op.todo[1]
           /\ Tail(op.todo) \in Seq(Keys)
           /\ Len(Tail(op.todo)) = Len(op.todo) - 1
           /\ \A i \in 1..(Len(op.todo) - 1) : Tail(op.todo)[i] = op.todo[i + 1]
<1>1. op.todo \in Seq(Keys) /\ Len(op.todo) \in Nat \ {0} BY DEF TypeOK
<1>2. op.todo # << >> BY <1>1
<1>3. Head(op.todo) = op.todo[1] BY <1>1
<1>. QED BY <1>1, <1>2, <1>3, HeadTailProperties

\* An operation that goes on keeps its type.
LEMMA AdvanceType ==
    ASSUME TypeOK, op.at # "idle", NEW ok \in BOOLEAN, Advance(ok)
    PROVE  /\ op' \in [at : {"idle", "adding", "evicting"}, todo : Seq(Keys),
                       now : Times \cup {0}, failed : SUBSET Keys]
           /\ op'.at # "idle" => Len(op'.todo) > 0
           /\ op'.at # "idle" => op'.at = op.at /\ op'.now = op.now
<1>1. Len(op.todo) \in Nat \ {0} /\ op.todo \in Seq(Keys) BY DEF TypeOK
<1>2. CASE Len(op.todo) = 1 BY <1>2 DEF Advance, Idle, TypeOK
<1>3. CASE Len(op.todo) # 1
  <2>1. Tail(op.todo) \in Seq(Keys) /\ Len(Tail(op.todo)) = Len(op.todo) - 1 BY RestOf
  <2>2. \A n \in Nat \ {0} : n # 1 => n - 1 > 0 OBVIOUS
  <2>3. Len(op.todo) - 1 > 0 BY <1>1, <1>3, <2>2
  <2>4. Len(Tail(op.todo)) > 0 BY <2>1, <2>3, Zenon
  <2>5. PICK F : /\ op' = [op EXCEPT !.todo = Tail(op.todo), !.failed = F]
                 /\ F \in {op.failed, op.failed \cup {Head(op.todo)}}
        BY <1>3 DEF Advance
  <2>6. F \in SUBSET Keys BY <2>5, RestOf DEF TypeOK
  <2>. QED BY <2>1, <2>4, <2>5, <2>6 DEF TypeOK
<1>. QED BY <1>2, <1>3

LEMMA FilesAreKeys ==
    ASSUME NEW t \in Torrents
    PROVE  /\ [i \in 1..NFiles |-> <<t, i>>] \in Seq(Keys)
           /\ Len([i \in 1..NFiles |-> <<t, i>>]) > 0
<1>. DEFINE f == [i \in 1..NFiles |-> <<t, i>>]
<1>1. f \in [1..NFiles -> Keys] BY DEF Keys
<1>2. NFiles \in Nat /\ NFiles > 0 BY CacheAssumption
<1>. QED BY <1>1, <1>2

\* The orders the SELECT may give are sequences of rows without repetition.
LEMMA OrdersAreSequences ==
    ASSUME Finite, TypeOK, NEW s \in LruOrders
    PROVE  /\ s \in Seq(DOMAIN rows) /\ s \in Seq(Keys)
           /\ \A i, j \in DOMAIN s : s[i] = s[j] => i = j
           /\ \A i, j \in DOMAIN s : i <= j => rows[s[i]].access <= rows[s[j]].access
           /\ \A k \in DOMAIN rows : \E i \in DOMAIN s : s[i] = k
<1>1. Cardinality(DOMAIN rows) \in Nat BY FS_CardinalityType DEF Finite
<1>2. s \in [1..Cardinality(DOMAIN rows) -> DOMAIN rows] BY DEF LruOrders, SetToSeqs
<1>3. s \in Seq(DOMAIN rows) /\ s \in Seq(Keys) BY <1>1, <1>2 DEF TypeOK
<1>4. \A i, j \in DOMAIN s : i # j => s[i] # s[j] BY <1>2 DEF LruOrders, SetToSeqs
<1>5. \A i, j \in DOMAIN s : i <= j => rows[s[i]].access <= rows[s[j]].access
  <2>. SUFFICES ASSUME NEW i \in DOMAIN s, NEW j \in DOMAIN s, i <= j
                PROVE  rows[s[i]].access <= rows[s[j]].access
       OBVIOUS
  <2>1. i \in Int /\ j \in Int BY <1>1, <1>2
  <2>2. rows[s[i]].access \in Int
        BY <1>2, CacheAssumption DEF TypeOK, RowType
  <2>. QED BY <2>1, <2>2 DEF LruOrders
<1>6. \A k \in DOMAIN rows : \E i \in DOMAIN s : s[i] = k
  <2>. DEFINE D == DOMAIN rows
              n == Cardinality(D)
  <2>1. s \in Injection(1..n, D) BY <1>2, <1>4 DEF Injection, IsInjective
  <2>2. Cardinality(1..n) = n BY <1>1, FS_Interval
  <2>3. s \in Surjection(1..n, D) BY <2>1, <2>2, FS_Injection DEF Finite
  <2>. QED BY <1>2, <2>3 DEF Surjection
<1>. QED BY <1>3, <1>4, <1>5, <1>6

-----------------------------------------------------------------------------
(* Types                                                                   *)

\* The table after a statement.
LEMMA InsertType ==
    ASSUME TypeOK, Finite, NEW k \in Keys, NEW now \in Times, InsertOrIgnore(k, now)
    PROVE  DOMAIN rows' \subseteq Keys /\ rows' \in [DOMAIN rows' -> RowType] /\ Finite'
<1>1. Row(now) \in RowType BY DEF Row, RowType
<1>2. DOMAIN rows' = DOMAIN rows \cup {k} BY DEF InsertOrIgnore
<1>3. IsFiniteSet(DOMAIN rows \cup {k}) BY FS_AddElement DEF Finite
<1>4. rows' \in [DOMAIN rows \cup {k} -> RowType] BY <1>1 DEF InsertOrIgnore, TypeOK
<1>. QED BY <1>2, <1>3, <1>4 DEF TypeOK, Finite

LEMMA UpdateType ==
    ASSUME TypeOK, Finite, NEW k, NEW row \in RowType, Update(k, row)
    PROVE  DOMAIN rows' = DOMAIN rows /\ rows' \in [DOMAIN rows' -> RowType]
BY DEF TypeOK, Update

LEMMA DeleteType ==
    ASSUME TypeOK, Finite, NEW S, rows' = [k \in DOMAIN rows \ S |-> rows[k]]
    PROVE  DOMAIN rows' \subseteq Keys /\ rows' \in [DOMAIN rows' -> RowType] /\ Finite'
<1>1. DOMAIN rows' = DOMAIN rows \ S OBVIOUS
<1>2. IsFiniteSet(DOMAIN rows \ S) BY FS_Subset, DOMAIN rows \ S \in SUBSET DOMAIN rows DEF Finite
<1>. QED BY <1>1, <1>2 DEF TypeOK, Finite

LEMMA TypeInit == Init => TypeOK /\ Finite
<1>. SUFFICES ASSUME Init PROVE TypeOK /\ Finite OBVIOUS
<1>1. DOMAIN rows = {} BY DEF Init
<1>2. rows \in [DOMAIN rows -> RowType] BY <1>1 DEF Init
<1>3. Idle \in [at : {"idle", "adding", "evicting"}, todo : Seq(Keys),
                 now : Times \cup {0}, failed : SUBSET Keys]
      BY DEF Idle
<1>. QED BY <1>1, <1>2, <1>3, FS_EmptySet DEF Init, TypeOK, Finite, Idle

LEMMA TypeStep == TypeOK /\ Finite /\ [Next]_vars => TypeOK' /\ Finite'
<1>. SUFFICES ASSUME TypeOK, Finite, [Next]_vars PROVE TypeOK' /\ Finite' OBVIOUS
<1>0. /\ "idle" \in {"idle", "adding", "evicting"}
      /\ Idle \in [at : {"idle", "adding", "evicting"}, todo : Seq(Keys),
                   now : Times \cup {0}, failed : SUBSET Keys]
      BY DEF Idle
<1>1. CASE UNCHANGED vars BY <1>1 DEF vars, TypeOK, Finite
<1>2. ASSUME NEW q \in Quotas, NEW ok \in BOOLEAN, Open(q, ok) PROVE TypeOK' /\ Finite'
      BY <1>2 DEF Open, TypeOK, Finite
<1>3. CASE Close BY <1>3, <1>0 DEF Close, TypeOK, Finite, Idle
<1>4. ASSUME NEW t \in Torrents, NEW now \in Times, TorrentAdded(t, now)
      PROVE  TypeOK' /\ Finite'
      BY <1>4, FilesAreKeys DEF TorrentAdded, Begin, Free, TypeOK, Finite
<1>5. ASSUME NEW k \in Keys, NEW now \in Times, Touch(k, now) PROVE TypeOK' /\ Finite'
  <2>1. [rows[k] EXCEPT !.access = now] \in RowType BY <1>5 DEF Touch, TypeOK, RowType
  <2>. QED BY <1>5, <2>1, UpdateType DEF Touch, TypeOK, Finite
<1>6. ASSUME NEW k \in Keys, NEW now \in Times, FileCompleted(k, now)
      PROVE  TypeOK' /\ Finite'
  <2>1. [ready |-> TRUE, access |-> now] \in RowType BY DEF RowType
  <2>2. DOMAIN rows' = DOMAIN rows /\ rows' \in [DOMAIN rows' -> RowType]
        BY <1>6, <2>1, UpdateType DEF FileCompleted, TypeOK
  <2>. QED BY <1>6, <2>2 DEF FileCompleted, TypeOK, Finite
<1>7. CASE EnforceQuota
  <2>0. PICK s \in LruOrders : \E n \in DOMAIN s :
              Enough(s, n) /\ Begin("evicting", SubSeq(s, 1, n), 0)
        BY <1>7 DEF EnforceQuota
  <2>1. PICK n \in DOMAIN s : Begin("evicting", SubSeq(s, 1, n), 0) BY <2>0
  <2>2. s \in Seq(Keys) BY OrdersAreSequences
  <2>3. n \in 1..Len(s) /\ \A i \in 1..n : s[i] \in Keys BY <2>2
  <2>4. SubSeq(s, 1, n) \in Seq(Keys) /\ Len(SubSeq(s, 1, n)) > 0
        BY <2>3, SubSeqProperties
  <2>. QED BY <1>7, <2>1, <2>4 DEF EnforceQuota, Begin, Free, TypeOK, Finite
<1>8. ASSUME NEW ok \in BOOLEAN, InsertNext(ok) PROVE TypeOK' /\ Finite'
  <2>1. op.at = "adding" /\ Advance(ok) BY <1>8 DEF InsertNext
  <2>2. op.now \in Times /\ Head(op.todo) \in Keys /\ usable
        BY <2>1, RestOf DEF TypeOK, Idle
  <2>3. DOMAIN rows' \subseteq Keys /\ rows' \in [DOMAIN rows' -> RowType] /\ Finite'
    <3>1. CASE ok BY <1>8, <2>2, <3>1, InsertType DEF InsertNext
    <3>2. CASE ~ok BY <1>8, <3>2 DEF InsertNext, TypeOK, Finite
    <3>. QED BY <3>1, <3>2
  <2>. QED BY <1>8, <2>1, <2>2, <2>3, AdvanceType DEF InsertNext, TypeOK
<1>9. ASSUME NEW ok \in BOOLEAN, EvictNext(ok) PROVE TypeOK' /\ Finite'
  <2>1. op.at = "evicting" /\ Advance(ok) BY <1>9 DEF EvictNext
  <2>2. DOMAIN rows' \subseteq Keys /\ rows' \in [DOMAIN rows' -> RowType] /\ Finite'
        BY <1>9, DeleteType DEF EvictNext
  <2>3. usable BY <2>1 DEF TypeOK, Idle
  <2>. QED BY <1>9, <2>1, <2>2, <2>3, AdvanceType DEF EvictNext, TypeOK
<1>. QED BY <1>1, <1>2, <1>3, <1>4, <1>5, <1>6, <1>7, <1>8, <1>9 DEF Next

\* THEOREM: the table, the running operation and the configuration keep their types.
THEOREM TypeCorrect == Spec => []TypeOK
<1>1. TypeOK /\ Finite /\ [Next]_vars => TypeOK' /\ Finite' BY TypeStep
<1>. QED BY TypeInit, <1>1, PTL DEF Spec

-----------------------------------------------------------------------------
(* Readiness                                                               *)

LEMMA ReadyStep == TypeOK /\ ReadyIsEarned /\ [Next]_vars => ReadyIsEarned'
<1>. SUFFICES ASSUME TypeOK, ReadyIsEarned, [Next]_vars PROVE ReadyIsEarned' OBVIOUS
<1>1. CASE UNCHANGED vars BY <1>1 DEF vars, ReadyIsEarned
<1>2. ASSUME NEW q \in Quotas, NEW ok \in BOOLEAN, Open(q, ok) PROVE ReadyIsEarned'
      BY <1>2 DEF Open, ReadyIsEarned
<1>3. CASE Close BY <1>3 DEF Close, ReadyIsEarned
<1>4. ASSUME NEW t \in Torrents, NEW now \in Times, TorrentAdded(t, now)
      PROVE  ReadyIsEarned'
      BY <1>4 DEF TorrentAdded, ReadyIsEarned
<1>5. ASSUME NEW k \in Keys, NEW now \in Times, Touch(k, now) PROVE ReadyIsEarned'
  <2>1. rows' = [rows EXCEPT ![k].access = now] /\ completed' = completed
        BY <1>5 DEF Touch, Update
  <2>2. \A l \in DOMAIN rows' : l \in DOMAIN rows /\ rows'[l].ready = rows[l].ready
        BY <2>1 DEF TypeOK, RowType
  <2>. QED BY <2>1, <2>2 DEF ReadyIsEarned
<1>6. ASSUME NEW k \in Keys, NEW now \in Times, FileCompleted(k, now)
      PROVE  ReadyIsEarned'
  <2>1. DOMAIN rows' = DOMAIN rows /\ completed' = completed \cup {k}
        BY <1>6 DEF FileCompleted, Update, TypeOK
  <2>2. \A l \in DOMAIN rows : l # k => rows'[l] = rows[l]
        BY <1>6 DEF FileCompleted, Update, TypeOK
  <2>. QED BY <2>1, <2>2 DEF ReadyIsEarned
<1>7. CASE EnforceQuota BY <1>7 DEF EnforceQuota, ReadyIsEarned
<1>8. ASSUME NEW ok \in BOOLEAN, InsertNext(ok) PROVE ReadyIsEarned'
      BY <1>8 DEF InsertNext, InsertOrIgnore, Row, ReadyIsEarned
<1>9. ASSUME NEW ok \in BOOLEAN, EvictNext(ok) PROVE ReadyIsEarned'
      BY <1>9 DEF EvictNext, ReadyIsEarned
<1>. QED BY <1>1, <1>2, <1>3, <1>4, <1>5, <1>6, <1>7, <1>8, <1>9 DEF Next

\* THEOREM: is_offline_ready answers yes only for files reported complete.
THEOREM OnlyCompleteFilesAreReady == Spec => []ReadyIsEarned
<1>1. Init => ReadyIsEarned BY DEF Init, ReadyIsEarned
<1>. QED BY <1>1, ReadyStep, TypeCorrect, PTL DEF Spec

Sticky == \A k \in DOMAIN rows \cap DOMAIN rows' : rows[k].ready => rows'[k].ready

LEMMA StickyStep == TypeOK /\ Next => Sticky
<1>. SUFFICES ASSUME TypeOK, Next PROVE Sticky OBVIOUS
<1>1. CASE UNCHANGED rows BY <1>1 DEF Sticky
<1>2. ASSUME NEW k \in Keys, NEW now \in Times, Touch(k, now) PROVE Sticky
  <2>1. rows' = [rows EXCEPT ![k].access = now] BY <1>2 DEF Touch, Update
  <2>. QED BY <2>1 DEF Sticky, TypeOK, RowType
<1>3. ASSUME NEW k \in Keys, NEW now \in Times, FileCompleted(k, now) PROVE Sticky
      BY <1>3 DEF FileCompleted, Update, Sticky, TypeOK, RowType
<1>4. ASSUME NEW ok \in BOOLEAN, InsertNext(ok) PROVE Sticky
      BY <1>4 DEF InsertNext, InsertOrIgnore, Sticky
<1>5. ASSUME NEW ok \in BOOLEAN, EvictNext(ok) PROVE Sticky
      BY <1>5 DEF EvictNext, Sticky
<1>. QED BY <1>1, <1>2, <1>3, <1>4, <1>5 DEF Next, Open, Close, TorrentAdded, EnforceQuota

\* THEOREM: nothing but eviction takes an offline-ready file from the table.
THEOREM ReadyFilesStayReady == Spec => ReadySticks
<1>1. TypeOK /\ [Next]_vars => [Sticky]_vars BY StickyStep
<1>2. Spec => [][Sticky]_vars BY <1>1, TypeCorrect, PTL DEF Spec
<1>. QED BY <1>2 DEF Sticky, ReadySticks

-----------------------------------------------------------------------------
(* Eviction                                                                *)

\* Nothing else touches the rows while an eviction is under way, so the invariant is
\* disturbed by its beginning and by its deletions only.
LEMMA EvictionBegins == TypeOK /\ Finite /\ EnforceQuota => EvictionInv'
<1>. SUFFICES ASSUME TypeOK, Finite, EnforceQuota PROVE EvictionInv' OBVIOUS
<1>1. PICK s \in LruOrders : \E n \in DOMAIN s :
          Enough(s, n) /\ Begin("evicting", SubSeq(s, 1, n), 0)
      BY DEF EnforceQuota
<1>2. PICK n \in DOMAIN s : Enough(s, n) /\ Begin("evicting", SubSeq(s, 1, n), 0) BY <1>1
<1>v. PICK v : v = SubSeq(s, 1, n) OBVIOUS
<1>3. /\ s \in Seq(DOMAIN rows) /\ n \in 1..Len(s)
      /\ \A i, j \in DOMAIN s : s[i] = s[j] => i = j
      /\ \A i, j \in DOMAIN s : i <= j => rows[s[i]].access <= rows[s[j]].access
      BY OrdersAreSequences
<1>4. /\ v \in Seq(DOMAIN rows) /\ Len(v) = n /\ DOMAIN v = 1..n
      /\ \A i \in 1..n : v[i] = s[i] /\ i \in DOMAIN s
  <2>1. \A i \in 1..n : s[i] \in DOMAIN rows /\ i \in DOMAIN s BY <1>3
  <2>. QED BY <2>1, <1>3, <1>v, SubSeqProperties
<1>5. /\ op' = [at |-> "evicting", todo |-> v, now |-> 0, failed |-> {}]
      /\ rows' = rows /\ quota' = quota /\ Deletable' = DOMAIN rows
      BY <1>2, <1>v DEF EnforceQuota, Begin, Deletable
<1>6. op'.todo = v /\ op'.at = "evicting" BY <1>5
<1>7. VictimsAreRows' BY <1>3, <1>4, <1>5, <1>6 DEF VictimsAreRows
<1>8. VictimsAreOldest'
  <2>1. \A i, j \in DOMAIN v : i <= j => rows[v[i]].access <= rows[v[j]].access
        BY <1>3, <1>4
  <2>2. ASSUME NEW k \in Left(v, Len(v)), NEW i \in DOMAIN v
        PROVE  rows[v[i]].access <= rows[k].access
    <3>1. PICK j \in DOMAIN s : s[j] = k BY <2>2, OrdersAreSequences DEF Left
    <3>2. j \notin 1..n BY <1>4, <2>2, <3>1 DEF Left
    <3>3. i <= j BY <1>3, <1>4, <3>2
    <3>. QED BY <1>3, <1>4, <3>1, <3>3
  <2>. QED BY <1>5, <1>6, <2>1, <2>2 DEF VictimsAreOldest, Still, Left
<1>9. VictimsAreEnough'
  <2>1. \A m \in 0..n : Left(v, m) = Left(s, m) BY <1>3, <1>4 DEF Left
  <2>2. \A m \in 0..n : Still(v, m)' = Left(s, m) BY <1>5, <2>1 DEF Still, Left
  <2>3. n \in 0..n /\ 0..(n - 1) \subseteq 0..n BY <1>3
  <2>4. Len(op'.todo) = n BY <1>4, <1>6
  <2>. QED BY <1>2, <1>5, <1>6, <2>2, <2>3, <2>4 DEF VictimsAreEnough, Enough
<1>. QED BY <1>7, <1>8, <1>9 DEF EvictionInv

\* A deletion shifts the victims by one.
LEMMA EvictionGoesOn ==
    ASSUME TypeOK, EvictionInv, NEW ok \in BOOLEAN, EvictNext(ok)
    PROVE  EvictionInv'
<1>1. op.at = "evicting" /\ Advance(ok) BY DEF EvictNext
<1>2. CASE Len(op.todo) = 1
  <2>1. op'.at = "idle" BY <1>1, <1>2 DEF Advance, Idle
  <2>. QED BY <2>1 DEF EvictionInv, VictimsAreRows, VictimsAreOldest, VictimsAreEnough
<1>3. CASE Len(op.todo) # 1
  <2>1. PICK q, r, n : /\ q = op.todo /\ r = Tail(op.todo) /\ n = Len(op.todo) - 1 OBVIOUS
  <2>2. /\ q \in Seq(Keys) /\ r \in Seq(Keys) /\ n \in Nat \ {0}
        /\ Len(q) = n + 1 /\ Len(r) = n /\ Head(op.todo) = q[1]
        /\ \A i \in 1..n : r[i] = q[i + 1]
        BY <1>1, <1>3, <2>1, RestOf
  <2>3. DOMAIN q = 1..(n + 1) /\ DOMAIN r = 1..n BY <2>2
  <2>4. op'.at = "evicting" /\ op'.todo = r /\ quota' = quota
        BY <1>1, <1>3, <2>1 DEF Advance, EvictNext, TypeOK
  <2>5. /\ Deletable' = Deletable \ {q[1]}
        /\ \A k \in DOMAIN rows' : rows'[k] = rows[k]
        /\ Deletable' \subseteq DOMAIN rows'
    <3>1. op'.failed = IF ok THEN op.failed ELSE op.failed \cup {q[1]}
          BY <1>1, <1>3, <2>2 DEF Advance, TypeOK
    <3>2. /\ DOMAIN rows' = DOMAIN rows \ (IF ok THEN {q[1]} ELSE {})
          /\ \A k \in DOMAIN rows' : rows'[k] = rows[k]
          BY <2>2 DEF EvictNext
    <3>. QED BY <3>1, <3>2 DEF Deletable
  <2>6. VictimsAreRows'
    <3>1. /\ \A i \in 1..(n + 1) : q[i] \in Deletable
          /\ \A i, j \in 1..(n + 1) : q[i] = q[j] => i = j
          BY <1>1, <2>1, <2>3 DEF EvictionInv, VictimsAreRows
    <3>2. \A i, j \in 1..n : r[i] = r[j] => i = j BY <2>2, <3>1
    <3>3. \A i \in 1..n : r[i] \in Deletable /\ r[i] # q[1] BY <2>2, <3>1
    <3>. QED BY <2>3, <2>4, <2>5, <3>2, <3>3 DEF VictimsAreRows
  <2>7. ASSUME NEW m \in 0..n
        PROVE  Deletable' \ {r[i] : i \in 1..m} = Still(q, m + 1)
    <3>2. {q[i] : i \in 1..(m + 1)} = {q[1]} \cup {r[i] : i \in 1..m}
      <4>1. ASSUME NEW i \in 1..(m + 1) PROVE q[i] \in {q[1]} \cup {r[j] : j \in 1..m}
        <5>1. CASE i = 1 BY <5>1
        <5>2. CASE i # 1
          <6>1. i - 1 \in 1..m /\ i - 1 \in 1..n BY <2>2, <5>2
          <6>2. r[i - 1] = q[i] BY <2>2, <6>1
          <6>. QED BY <6>1, <6>2
        <5>. QED BY <5>1, <5>2
      <4>2. ASSUME NEW i \in 1..m PROVE r[i] \in {q[j] : j \in 1..(m + 1)}
        <5>1. i \in 1..n /\ i + 1 \in 1..(m + 1) BY <2>2
        <5>. QED BY <2>2, <5>1
      <4>3. q[1] \in {q[j] : j \in 1..(m + 1)} BY <2>2
      <4>. QED BY <4>1, <4>2, <4>3
    <3>. QED BY <2>5, <3>2 DEF Still
  <2>8. VictimsAreOldest'
    <3>. SUFFICES /\ \A i, j \in 1..n : i <= j => rows'[r[i]].access <= rows'[r[j]].access
                  /\ \A k \in Deletable' \ {r[i] : i \in 1..n}, i \in 1..n :
                        rows'[r[i]].access <= rows'[k].access
         BY <2>2, <2>3, <2>4 DEF VictimsAreOldest, Still
    <3>1. /\ \A i, j \in 1..(n + 1) : i <= j => rows[q[i]].access <= rows[q[j]].access
          /\ \A k \in Still(q, n + 1), i \in 1..(n + 1) : rows[q[i]].access <= rows[k].access
          BY <1>1, <2>1, <2>2, <2>3 DEF EvictionInv, VictimsAreOldest
    <3>2. \A i \in 1..n : /\ i + 1 \in 1..(n + 1) /\ r[i] = q[i + 1]
                          /\ rows'[r[i]] = rows[q[i + 1]]
      <4>1. \A i \in 1..n : r[i] \in DOMAIN rows'
            BY <2>3, <2>4, <2>5, <2>6 DEF VictimsAreRows
      <4>2. \A i \in 1..n : rows'[r[i]] = rows[r[i]] BY <2>5, <4>1
      <4>3. \A i \in 1..n : i + 1 \in 1..(n + 1) BY <2>2
      <4>. QED BY <2>2, <4>2, <4>3
    <3>3. \A i, j \in 1..n : i <= j => i + 1 <= j + 1 OBVIOUS
    <3>4. Deletable' \ {r[i] : i \in 1..n} = Still(q, n + 1) BY <2>2, <2>7
    <3>. QED BY <2>5, <3>1, <3>2, <3>3, <3>4
  <2>9. VictimsAreEnough'
    <3>. SUFFICES /\ Total(Deletable' \ {r[i] : i \in 1..n}) <= quota
                  /\ \A m \in 0..(n - 1) : Total(Deletable' \ {r[i] : i \in 1..m}) > quota
      <4>1. \A m : Still(op.todo, m)' = Deletable' \ {r[i] : i \in 1..m} BY <2>4 DEF Still
      <4>2. Len(op'.todo) = n BY <2>2, <2>4
      <4>. QED BY <2>4, <4>1, <4>2 DEF VictimsAreEnough
    <3>1. /\ Total(Still(q, n + 1)) <= quota
          /\ \A m \in 0..((n + 1) - 1) : Total(Still(q, m)) > quota
          BY <1>1, <2>1, <2>2 DEF EvictionInv, VictimsAreEnough
    <3>2. \A m \in 0..(n - 1) : m + 1 \in 0..((n + 1) - 1) /\ m \in 0..n BY <2>2
    <3>3. n \in 0..n BY <2>2
    <3>. QED BY <2>7, <3>1, <3>2, <3>3
  <2>. QED BY <2>6, <2>8, <2>9 DEF EvictionInv
<1>. QED BY <1>2, <1>3

LEMMA EvictionStep == TypeOK /\ Finite /\ EvictionInv /\ [Next]_vars => EvictionInv'
<1>. SUFFICES ASSUME TypeOK, Finite, EvictionInv, [Next]_vars PROVE EvictionInv' OBVIOUS
<1>1. ASSUME op'.at # "evicting" PROVE EvictionInv'
      BY <1>1 DEF EvictionInv, VictimsAreRows, VictimsAreOldest, VictimsAreEnough
<1>2. CASE UNCHANGED vars
  <2>1. Deletable' = Deletable BY <1>2 DEF vars, Deletable
  <2>2. VictimsAreRows' BY <1>2, <2>1 DEF vars, EvictionInv, VictimsAreRows
  <2>3. VictimsAreOldest' BY <1>2, <2>1 DEF vars, EvictionInv, VictimsAreOldest, Still
  <2>4. VictimsAreEnough'
    <3>1. \A m : Still(op.todo, m)' = Still(op.todo, m) BY <1>2 DEF vars, Still, Deletable
    <3>. QED BY <1>2, <3>1 DEF vars, EvictionInv, VictimsAreEnough
  <2>. QED BY <2>2, <2>3, <2>4 DEF EvictionInv
<1>3. CASE EnforceQuota BY <1>3, EvictionBegins
<1>4. ASSUME NEW ok \in BOOLEAN, EvictNext(ok) PROVE EvictionInv' BY <1>4, EvictionGoesOn
<1>5. ASSUME NEW ok \in BOOLEAN, InsertNext(ok) PROVE op'.at # "evicting"
      BY <1>5, AdvanceType DEF InsertNext
<1>6. ASSUME NEW q \in Quotas, NEW ok \in BOOLEAN, Open(q, ok) PROVE op'.at # "evicting"
      BY <1>6 DEF Open, TypeOK, Idle
<1>7. CASE Close BY <1>1, <1>7 DEF Close, Idle
<1>8. ASSUME NEW t \in Torrents, NEW now \in Times, TorrentAdded(t, now)
      PROVE  op'.at # "evicting"
      BY <1>8 DEF TorrentAdded, Begin
<1>9. ASSUME NEW k \in Keys, NEW now \in Times, Touch(k, now) \/ FileCompleted(k, now)
      PROVE  op'.at # "evicting"
      BY <1>9 DEF Touch, FileCompleted, Free
<1>. QED BY <1>1, <1>2, <1>3, <1>4, <1>5, <1>6, <1>7, <1>8, <1>9 DEF Next

\* THEOREM: of an eviction under way, the victims still to be deleted are the right
\* ones, at every deletion.
THEOREM VictimsAreRight == Spec => [](TypeOK /\ Finite /\ EvictionInv)
<1>1. Init => EvictionInv
      BY DEF Init, Idle, EvictionInv, VictimsAreRows, VictimsAreOldest, VictimsAreEnough
<1>2. TypeOK /\ Finite /\ [Next]_vars => TypeOK' /\ Finite' BY TypeStep
<1>. QED BY TypeInit, <1>1, <1>2, EvictionStep, PTL DEF Spec

\* What one deletion does, by the invariant.
LEMMA OneDeletion ==
    ASSUME TypeOK, EvictionInv, NEW ok \in BOOLEAN, EvictNext(ok)
    PROVE  /\ Total(Deletable) > quota
           /\ \A k \in DOMAIN rows \ DOMAIN rows', l \in DOMAIN rows' \ op.failed :
                 rows[k].access <= rows[l].access
           /\ op'.at = "idle" =>
                 Total((DOMAIN rows' \ op.failed) \ {Head(op.todo)}) <= quota
<1>2. op.at = "evicting" /\ Advance(ok) BY DEF EvictNext
<1>3. PICK q, n : q = op.todo /\ n = Len(op.todo) OBVIOUS
<1>4. q \in Seq(Keys) /\ n \in Nat \ {0} /\ DOMAIN q = 1..n /\ Head(op.todo) = q[1]
      BY <1>2, <1>3, RestOf
<1>5. DOMAIN rows' = DOMAIN rows \ (IF ok THEN {q[1]} ELSE {}) BY <1>4 DEF EvictNext
<1>6. /\ Total(Still(q, n)) <= quota
      /\ \A m \in 0..(n - 1) : Total(Still(q, m)) > quota
      BY <1>2, <1>3 DEF EvictionInv, VictimsAreEnough
<1>7. Total(Deletable) > quota
  <2>1. 0 \in 0..(n - 1) /\ 1..0 = {} BY <1>4
  <2>2. Still(q, 0) = Deletable BY <2>1 DEF Still
  <2>. QED BY <1>6, <2>1, <2>2
<1>8. ASSUME NEW k \in DOMAIN rows \ DOMAIN rows', NEW l \in DOMAIN rows' \ op.failed
      PROVE  rows[k].access <= rows[l].access
  <2>0. k = q[1] /\ l \in Deletable BY <1>5, <1>8 DEF Deletable
  <2>1. /\ \A i, j \in 1..n : i <= j => rows[q[i]].access <= rows[q[j]].access
        /\ \A m \in Still(q, n), i \in 1..n : rows[q[i]].access <= rows[m].access
        BY <1>2, <1>3, <1>4 DEF EvictionInv, VictimsAreOldest
  <2>2. 1 \in 1..n BY <1>4
  <2>3. CASE l \in Still(q, n) BY <2>0, <2>1, <2>2, <2>3
  <2>4. CASE l \notin Still(q, n)
    <3>1. PICK i \in 1..n : q[i] = l BY <2>0, <2>4 DEF Still
    <3>2. 1 <= i OBVIOUS
    <3>. QED BY <2>0, <2>1, <2>2, <3>1, <3>2
  <2>. QED BY <2>3, <2>4
<1>9. ASSUME op'.at = "idle"
      PROVE  Total((DOMAIN rows' \ op.failed) \ {Head(op.todo)}) <= quota
  <2>1. n = 1 BY <1>2, <1>3, <1>9 DEF Advance, TypeOK
  <2>2. {q[i] : i \in 1..1} = {q[1]} OBVIOUS
  <2>3. Still(q, 1) = (DOMAIN rows' \ op.failed) \ {q[1]}
        BY <1>5, <2>2 DEF Still, Deletable
  <2>. QED BY <1>4, <1>6, <2>1, <2>3
<1>. QED BY <1>7, <1>8, <1>9

\* Rows are deleted, and evictions end, by EvictNext only, unless the process ends.
LEMMA OnlyEvictions ==
    ASSUME TypeOK, Next,
           \/ DOMAIN rows \ DOMAIN rows' # {}
           \/ op.at = "evicting" /\ op'.at = "idle" /\ usable'
    PROVE  \E ok \in BOOLEAN : EvictNext(ok)
<1>1. ASSUME NEW l \in Keys, NEW now \in Times, Touch(l, now) \/ FileCompleted(l, now)
      PROVE  FALSE
      BY <1>1 DEF Touch, FileCompleted, Update, Free
<1>2. ASSUME NEW ok \in BOOLEAN, InsertNext(ok) PROVE FALSE
      BY <1>2 DEF InsertNext, InsertOrIgnore
<1>3. ASSUME NEW q \in Quotas, NEW ok \in BOOLEAN, Open(q, ok) PROVE FALSE
      BY <1>3 DEF Open
<1>4. CASE Close BY <1>4 DEF Close
<1>5. ASSUME NEW t \in Torrents, NEW now \in Times, TorrentAdded(t, now) PROVE FALSE
      BY <1>5 DEF TorrentAdded, Free
<1>6. CASE EnforceQuota BY <1>6 DEF EnforceQuota, Free
<1>. QED BY <1>1, <1>2, <1>3, <1>4, <1>5, <1>6 DEF Next

EvictsOldest == \A k \in DOMAIN rows \ DOMAIN rows' :
                   /\ Total(Deletable) > quota
                   /\ \A l \in DOMAIN rows' \ op.failed : rows[k].access <= rows[l].access

\* THEOREM: an eviction deletes in the order of last access, and nothing once the
\* quota is reached, also when it is cut short or a deletion fails.
THEOREM OnlyTheOldestAreEvicted == Spec => EvictsOldestWhileOver
<1>1. TypeOK /\ EvictionInv /\ [Next]_vars => [EvictsOldest]_vars
  <2>. SUFFICES ASSUME TypeOK, EvictionInv, Next, NEW k \in DOMAIN rows \ DOMAIN rows'
                PROVE  /\ Total(Deletable) > quota
                       /\ \A l \in DOMAIN rows' \ op.failed :
                             rows[k].access <= rows[l].access
       BY DEF EvictsOldest
  <2>1. PICK ok \in BOOLEAN : EvictNext(ok) BY OnlyEvictions
  <2>. QED BY <2>1, OneDeletion
<1>2. Spec => [][EvictsOldest]_vars BY <1>1, VictimsAreRight, PTL DEF Spec
<1>. QED BY <1>2 DEF EvictsOldest, EvictsOldestWhileOver

Reached == op.at = "evicting" /\ op'.at = "idle" /\ usable'
              => Total((DOMAIN rows' \ op.failed) \ {Head(op.todo)}) <= quota

\* THEOREM: an eviction that ends leaves the files within the quota, but for those it
\* could not delete.
THEOREM QuotaIsReached == Spec => EvictionReachesQuota
<1>1. TypeOK /\ EvictionInv /\ [Next]_vars => [Reached]_vars
  <2>. SUFFICES ASSUME TypeOK, EvictionInv, Next,
                       op.at = "evicting" /\ op'.at = "idle" /\ usable'
                PROVE  Total((DOMAIN rows' \ op.failed) \ {Head(op.todo)}) <= quota
       BY DEF Reached
  <2>1. PICK ok \in BOOLEAN : EvictNext(ok) BY OnlyEvictions
  <2>. QED BY <2>1, OneDeletion
<1>2. Spec => [][Reached]_vars BY <1>1, VictimsAreRight, PTL DEF Spec
<1>. QED BY <1>2 DEF Reached, EvictionReachesQuota
=============================================================================
