----------------------------- MODULE KeyStoreProofs -----------------------------
(***************************************************************************)
(* For every set of invocations and keys, whatever the order of their      *)
(* steps: what the table holds, what a lookup finds and what an export     *)
(* leaves behind.                                                          *)
(***************************************************************************)
EXTENDS KeyStore, FiniteSetTheorems, TLAPS

Contents == Versions \cup {"v0"}
Columns == {"id", "fingerprint", "suffix", "public", "private", "scores", "vanity"}

Plain(v) == [of |-> v, layers |-> 0]
Sealed(v) == [of |-> v, layers |-> 1]

(* A row of key k, all of one version.                                     *)
Whole(k, row) ==
  /\ DOMAIN row = Columns
  /\ \E case \in Cases : row.fingerprint = Digits(k, case)
  /\ row.suffix \in {Blank, Digits(k, "lower")}
  /\ row.suffix = Blank => k \in LegacyKeys
  /\ \E v \in Contents : /\ row.public = Plain(v) /\ row.private = Sealed(v)
                         /\ row.scores = v /\ row.vanity = v

(* The table: ids are given once, in increasing order.                     *)
Table ==
  /\ DOMAIN table \subseteq Keys
  /\ nextId \in Nat \ {0}
  /\ \A k \in DOMAIN table :
       /\ Whole(k, table[k])
       /\ table[k].id \in Nat /\ table[k].id < nextId
       /\ \A j \in DOMAIN table : table[j].id = table[k].id => j = k

Shape ==
  /\ DOMAIN pc = Procs /\ DOMAIN query = Procs /\ DOMAIN keyInfo = Procs
  /\ DOMAIN files = Procs /\ DOMAIN known = Procs /\ DOMAIN present = Procs
  /\ \A p \in Procs : DOMAIN files[p] = {"key", "public", "private"}

(* What is known of a lookup: the keys it counts on stay in the table, once*)
(* it has migrated them they have a suffix, and when it has found none, the*)
(* key that was typed is not one of those it had to find.                  *)
LookupOf(p) ==
  /\ known[p] \subseteq DOMAIN table /\ present[p] \subseteq DOMAIN table
  /\ pc[p] \notin {"off", "migrate", "backfill"}
       => \A k \in known[p] : table[k].suffix # Blank
  /\ pc[p] \in {"fallback", "missing"}
       => query[p].digits \notin known[p] /\ query[p].case = "lower"
  /\ pc[p] = "missing" =>
       \A k \in present[p] : query[p].digits = k =>
         dialect # "sqlite" /\ table[k].fingerprint.case # "lower"
  /\ pc[p] \notin {"public", "private", "exported", "failed"} => keyInfo[p] = NoRow
  /\ keyInfo[p] # NoRow => Names(query[p], keyInfo[p].key)

(* What is known of an export: it holds a whole row, and writes its public *)
(* half first.                                                             *)
ExportOf(p) ==
  /\ pc[p] \in {"public", "private", "exported"}
       => \E v \in Contents : keyInfo[p].public = Plain(v) /\ keyInfo[p].private = Sealed(v)
  /\ files[p].private # NoFile => files[p].public # NoFile
  /\ pc[p] \in {"private", "exported"} => files[p].public = keyInfo[p].public
  /\ pc[p] = "exported" =>
       files[p].private \in {keyInfo[p].private, Seal(keyInfo[p].private)}

Processes == \A p \in Procs : LookupOf(p) /\ ExportOf(p)

IInv == Shape /\ Table /\ Processes

(* What no step takes from a row that is there.                            *)
Kept ==
  \A k \in DOMAIN table :
    /\ k \in DOMAIN table'
    /\ table'[k].id = table[k].id
    /\ table'[k].fingerprint = table[k].fingerprint
    /\ table[k].suffix # Blank => table'[k].suffix # Blank

-------------------------------------------------------------------------------
(* A nonempty set of numbers has a least one.                              *)
LEMMA Least ==
  ASSUME NEW T \in SUBSET Nat, T # {}
  PROVE  \E x \in T : \A y \in T : x <= y
  <1> DEFINE U == {0 .. n : n \in T}
  <1>1. U \subseteq FiniteSubsetsOf(Nat)
    <2>1. \A n \in T : 0 .. n \subseteq Nat /\ IsFiniteSet(0 .. n)
      BY FS_Interval
    <2> QED
      BY <2>1 DEF FiniteSubsetsOf
  <1>2. U # {}
    OBVIOUS
  <1>3. \E X \in U : \A Y \in U : <<Y, X>> \notin StrictSubsetOrdering(Nat)
    <2> HIDE DEF U
    <2> QED
      BY <1>1, <1>2, FS_StrictSubsetOrderingWellFounded, WFMin
  <1>4. PICK x \in T : \A y \in T : <<0 .. y, 0 .. x>> \notin StrictSubsetOrdering(Nat)
    BY <1>3
  <1>5. ASSUME NEW y \in T, ~(x <= y)
        PROVE  FALSE
    <2>1. 0 .. y \subseteq 0 .. x /\ x \in 0 .. x /\ x \notin 0 .. y
      BY <1>5
    <2>2. <<0 .. y, 0 .. x>> \in StrictSubsetOrdering(Nat)
      BY <2>1 DEF StrictSubsetOrdering
    <2> QED
      BY <1>4, <2>2
  <1> QED
    BY <1>5

(* First returns one of the hits.                                          *)
LEMMA FirstIsHit ==
  ASSUME Table, NEW hits, hits \subseteq DOMAIN table, hits # {}
  PROVE  First(hits) \in hits
  <1> DEFINE ids == {table[k].id : k \in hits}
  <1>1. ids \in SUBSET Nat /\ ids # {}
    BY DEF Table
  <1>2. PICK id \in ids : \A other \in ids : id <= other
    <2> HIDE DEF ids
    <2> QED
      BY <1>1, Least
  <1>3. \E k \in hits : \A j \in hits : table[k].id <= table[j].id
    BY <1>2
  <1> QED
    BY <1>3 DEF First

(* "No digits" are not those of a key, and torn or sealed files are files. *)
LEMMA Different ==
  /\ Torn # NoFile
  /\ \A v \in Contents : Plain(v) # NoFile
  /\ \A k \in Keys, case \in Cases : Digits(k, case) # Blank
  <1>1. "none" \notin Contents /\ "none" \notin Keys
    BY StoreAssumption DEF Contents
  <1> QED
    BY <1>1 DEF Torn, NoFile, Plain, Digits, Blank

(* A row as it is inserted.                                                *)
LEMMA RecordWhole ==
  ASSUME NEW k \in Keys, NEW case \in Cases, NEW suffix \in {Blank, Digits(k, "lower")},
         suffix = Blank => k \in LegacyKeys, NEW v \in Contents, NEW id
  PROVE  /\ Whole(k, WithId(Record(k, case, suffix, v), id))
         /\ WithId(Record(k, case, suffix, v), id).id = id
  <1> DEFINE row == WithId(Record(k, case, suffix, v), id)
  <1>1. /\ DOMAIN row = Columns /\ row.id = id
        /\ row.fingerprint = Digits(k, case) /\ row.suffix = suffix
        /\ row.public = Plain(v) /\ row.private = Sealed(v)
        /\ row.scores = v /\ row.vanity = v
    BY DEF WithId, Record, Columns, Plain, Sealed
  <1> HIDE DEF row
  <1> QED
    BY <1>1 DEF Whole, row

(* The rows of a statement get consecutive ids.                            *)
LEMMA Inserting ==
  ASSUME Table, NEW n \in Nat \ {0}, NEW keys \in [1 .. n -> Keys], NEW records,
         \A i, j \in 1 .. n : keys[i] = keys[j] => i = j,
         \A i \in 1 .. n : keys[i] \notin DOMAIN table,
         \A i \in 1 .. n, id \in Nat :
           Whole(keys[i], WithId(records[keys[i]], id)) /\ WithId(records[keys[i]], id).id = id,
         Insert(keys, records)
  PROVE  Table' /\ Kept
  <1> DEFINE added == {keys[i] : i \in DOMAIN keys}
             place(k) == CHOOSE i \in DOMAIN keys : keys[i] = k
  <1>1. Cardinality(added) = n
    <2>1. keys \in Surjection(1 .. n, added) /\ keys \in Injection(1 .. n, added)
      BY DEF Surjection, Injection, IsInjective
    <2>2. IsFiniteSet(1 .. n) /\ Cardinality(1 .. n) = n
      BY FS_Interval
    <2> HIDE DEF added
    <2> QED
      BY <2>1, <2>2, FS_Surjection
  <1>2. \A i \in 1 .. n : place(keys[i]) = i
    OBVIOUS
  <1>3. /\ table' = [k \in DOMAIN table \cup added |->
                       IF k \in added THEN WithId(records[k], nextId + place(k) - 1)
                                      ELSE table[k]]
        /\ nextId' = nextId + n
    BY <1>1 DEF Insert
  <1>4. /\ DOMAIN table' = DOMAIN table \cup added
        /\ \A k \in DOMAIN table : table'[k] = table[k]
        /\ \A i \in 1 .. n : table'[keys[i]] = WithId(records[keys[i]], nextId + i - 1)
    BY <1>2, <1>3
  <1>5. nextId \in Nat \ {0} /\ nextId' \in Nat \ {0}
    BY <1>3 DEF Table
  <1>6. \A i \in 1 .. n : /\ Whole(keys[i], table'[keys[i]])
                          /\ table'[keys[i]].id = nextId + i - 1
    BY <1>4, <1>5
  <1>7. ASSUME NEW k \in DOMAIN table'
        PROVE  \/ k \in DOMAIN table /\ table'[k] = table[k]
               \/ \E i \in 1 .. n : k = keys[i]
    BY <1>4
  <1> HIDE DEF added, place
  <1>8. \A k \in DOMAIN table' :
          Whole(k, table'[k]) /\ table'[k].id \in Nat /\ table'[k].id < nextId'
    <2> TAKE k \in DOMAIN table'
    <2>1. CASE k \in DOMAIN table /\ table'[k] = table[k]
      <3>1. Whole(k, table[k]) /\ table[k].id \in Nat /\ table[k].id < nextId
        BY <2>1 DEF Table
      <3>2. nextId' = nextId + n
        BY <1>3
      <3> QED
        BY <1>5, <2>1, <3>1, <3>2
    <2>2. CASE \E i \in 1 .. n : k = keys[i]
      <3>1. PICK i \in 1 .. n : k = keys[i]
        BY <2>2
      <3>2. nextId' = nextId + n
        BY <1>3
      <3> QED
        BY <1>5, <1>6, <3>1, <3>2
    <2> QED
      BY <1>7, <2>1, <2>2
  <1>9. \A j, k \in DOMAIN table' : table'[j].id = table'[k].id => j = k
    BY <1>5, <1>6, <1>7 DEF Table
  <1>10. DOMAIN table' \subseteq Keys
    BY <1>7 DEF Table
  <1> QED
    BY <1>4, <1>5, <1>8, <1>9, <1>10 DEF Table, Kept

-------------------------------------------------------------------------------
LEMMA InitIInv == Init => IInv
  <1> SUFFICES ASSUME Init PROVE IInv
    OBVIOUS
  <1>1. Shape
    BY DEF Init, Shape, NoFiles
  <1>2. Table
    BY DEF Init, Table
  <1>3. Processes
    BY DEF Init, Processes, LookupOf, ExportOf, NoFiles
  <1> QED
    BY <1>1, <1>2, <1>3 DEF IInv

(* Whatever another process does to the table, what is known of a process  *)
(* remains true.                                                           *)
LEMMA Undisturbed ==
  ASSUME IInv, Kept, dialect' = dialect, NEW q \in Procs,
         pc'[q] = pc[q], query'[q] = query[q], keyInfo'[q] = keyInfo[q],
         files'[q] = files[q], known'[q] = known[q], present'[q] = present[q]
  PROVE  LookupOf(q)' /\ ExportOf(q)'
  <1>1. LookupOf(q) /\ ExportOf(q)
    BY DEF IInv, Processes
  <1>2. LookupOf(q)'
    BY <1>1 DEF LookupOf, Kept
  <1>3. ExportOf(q)'
    BY <1>1 DEF ExportOf
  <1> QED
    BY <1>2, <1>3

(* A step that only writes the table.                                      *)
LEMMA Untouched ==
  ASSUME IInv, Kept, Table', UNCHANGED <<dialect, pc, locals, files, observed>>
  PROVE  IInv'
  <1>1. Shape'
    BY DEF IInv, Shape, locals, observed
  <1>2. Processes'
    BY Undisturbed DEF Processes, locals, observed
  <1> QED
    BY <1>1, <1>2 DEF IInv

(* A step in which one process goes on, and only its own state changes     *)
(* besides the table.                                                      *)
LEMMA OneProcess ==
  ASSUME IInv, Kept, Table', dialect' = dialect, NEW p \in Procs,
         Shape', LookupOf(p)', ExportOf(p)',
         \A q \in Procs \ {p} :
           /\ pc'[q] = pc[q] /\ query'[q] = query[q] /\ keyInfo'[q] = keyInfo[q]
           /\ files'[q] = files[q] /\ known'[q] = known[q] /\ present'[q] = present[q]
  PROVE  IInv'
  <1>1. ASSUME NEW q \in Procs
        PROVE  LookupOf(q)' /\ ExportOf(q)'
    <2>1. CASE q = p
      BY <2>1
    <2>2. CASE q # p
      BY <2>2, Undisturbed
    <2> QED
      BY <2>1, <2>2
  <1> QED
    BY <1>1 DEF IInv, Processes

(* A table that stays is kept.                                             *)
LEMMA SameTable ==
  ASSUME IInv, UNCHANGED database
  PROVE  Kept /\ Table' /\ dialect' = dialect
  BY DEF IInv, Kept, Table, database

(* A program of an earlier version inserts a row.                          *)
LEMMA LegacyInsertStep ==
  ASSUME IInv, NEW k \in LegacyKeys, NEW case \in Cases, LegacyInsert(k, case)
  PROVE  IInv' /\ Kept
  <1> DEFINE keys == <<k>>
             records == [j \in {k} |-> Record(j, case, Blank, "v0")]
  <1>1. keys \in [1 .. 1 -> Keys] /\ keys[1] = k /\ k \in Keys /\ k \notin DOMAIN table
    BY DEF LegacyInsert, Keys
  <1>2. \A id \in Nat : Whole(k, WithId(records[k], id)) /\ WithId(records[k], id).id = id
    BY <1>1, RecordWhole DEF Contents
  <1>3. Insert(keys, records)
    BY DEF LegacyInsert
  <1> HIDE DEF keys, records
  <1> DEFINE n == 1
  <1>4. n \in Nat \ {0} /\ keys \in [1 .. n -> Keys]
    BY <1>1
  <1>5. /\ \A i \in 1 .. n : keys[i] = k
        /\ \A i, j \in 1 .. n : keys[i] = keys[j] => i = j
    BY <1>1
  <1> HIDE DEF n
  <1>7. /\ \A i \in 1 .. n : keys[i] \notin DOMAIN table
        /\ \A i \in 1 .. n, id \in Nat :
             Whole(keys[i], WithId(records[keys[i]], id)) /\ WithId(records[keys[i]], id).id = id
    BY <1>1, <1>2, <1>5
  <1>6. Table' /\ Kept
    BY <1>3, <1>4, <1>5, <1>7, Inserting DEF IInv
  <1> QED
    BY <1>6, Untouched DEF LegacyInsert

(* The rows of the keys of this version.                                   *)
LEMMA SavedWhole ==
  ASSUME NEW k \in NewKeys, NEW v \in Contents, NEW id
  PROVE  Whole(k, WithId(Saved(v)[k], id)) /\ WithId(Saved(v)[k], id).id = id
  <1>1. Saved(v)[k] = Record(k, "lower", Digits(k, "lower"), v) /\ k \in Keys
    BY DEF Saved, Keys
  <1>2. Digits(k, "lower") # Blank /\ "lower" \in Cases
    BY <1>1, Different DEF Cases
  <1> QED
    BY <1>1, <1>2, RecordWhole

(* A batch, or the first save of a key.                                    *)
LEMMA BatchInserted ==
  ASSUME Table, NEW n \in Nat \ {0}, NEW keys \in [1 .. n -> NewKeys], NEW v \in Contents,
         \A i, j \in 1 .. n : keys[i] = keys[j] => i = j,
         \A i \in 1 .. n : keys[i] \notin DOMAIN table,
         Insert(keys, Saved(v))
  PROVE  Table' /\ Kept
  <1> DEFINE records == Saved(v)
  <1>1. \A i \in 1 .. n, id \in Nat :
          Whole(keys[i], WithId(records[keys[i]], id)) /\ WithId(records[keys[i]], id).id = id
    BY SavedWhole
  <1>2. keys \in [1 .. n -> Keys]
    BY DEF Keys
  <1>3. Insert(keys, records)
    OBVIOUS
  <1> HIDE DEF records
  <1> QED
    BY <1>1, <1>2, <1>3, Inserting

-------------------------------------------------------------------------------
(* The steps of an invocation.  Connecting:                                *)
LEMMA ConnectStep ==
  ASSUME IInv, NEW p \in Procs, Open(p) \/ AutoMigrate(p) \/ Setup(p) \/ Stop(p)
  PROVE  IInv' /\ Kept
  <1>1. Kept /\ Table' /\ dialect' = dialect
    BY SameTable DEF Open, AutoMigrate, Setup, Stop
  <1>2. UNCHANGED <<database, files>>
    BY DEF Open, AutoMigrate, Setup, Stop
  <1>3. Shape'
    BY DEF IInv, Shape, Open, AutoMigrate, Setup, Stop, Goto, locals, observed
  <1>4. LookupOf(p) /\ ExportOf(p)
    BY DEF IInv, Processes
  <1>5. LookupOf(p)'
    <2>1. CASE Open(p)
      BY <1>4, <2>1 DEF IInv, Shape, LookupOf, Open, Goto, locals, database
    <2>2. CASE AutoMigrate(p) \/ Setup(p)
      BY <1>4, <2>2 DEF IInv, Shape, LookupOf, AutoMigrate, Setup, Goto, locals, observed, database
    <2>3. CASE Stop(p)
      BY <2>3 DEF IInv, Shape, LookupOf, Stop, Goto
    <2> QED
      BY <2>1, <2>2, <2>3
  <1>6. ExportOf(p)'
    <2>1. pc'[p] \in {"off", "migrate", "backfill", "ready"}
      BY DEF IInv, Shape, Open, AutoMigrate, Setup, Stop, Goto
    <2> QED
      BY <1>2, <1>4, <2>1 DEF ExportOf
  <1>7. \A q \in Procs \ {p} :
          /\ pc'[q] = pc[q] /\ query'[q] = query[q] /\ keyInfo'[q] = keyInfo[q]
          /\ files'[q] = files[q] /\ known'[q] = known[q] /\ present'[q] = present[q]
    BY DEF IInv, Shape, Open, AutoMigrate, Setup, Stop, Goto, locals, observed
  <1> QED
    BY <1>1, <1>3, <1>5, <1>6, <1>7, OneProcess

(* The migration fills in the suffix of the rows that have none.           *)
LEMMA BackfillStep ==
  ASSUME IInv, NEW p \in Procs, Backfill(p)
  PROVE  IInv' /\ Kept
  <1>1. /\ pc[p] = "backfill" /\ pc' = [pc EXCEPT ![p] = "setup"]
        /\ DOMAIN table' = DOMAIN table
        /\ \A k \in DOMAIN table : table'[k] = [table[k] EXCEPT !.suffix = Backfilled(table[k])]
        /\ UNCHANGED <<dialect, nextId, locals, files, observed>>
    BY DEF Backfill, Goto
  <1>2. ASSUME NEW k \in DOMAIN table
        PROVE  /\ Whole(k, table'[k]) /\ table'[k].id = table[k].id
               /\ table'[k].fingerprint = table[k].fingerprint
               /\ table'[k].suffix # Blank
    <2>1. Whole(k, table[k]) /\ k \in Keys
      BY DEF IInv, Table
    <2>2. Backfilled(table[k]) = Digits(k, "lower")
      BY <2>1 DEF Whole, Backfilled, Lower, Digits
    <2>3. Digits(k, "lower") # Blank
      BY <2>1, Different DEF Cases
    <2>4. /\ DOMAIN table'[k] = DOMAIN table[k] /\ table'[k].suffix = Digits(k, "lower")
          /\ \A c \in Columns \ {"suffix"} : table'[k][c] = table[k][c]
      BY <1>1, <2>1, <2>2 DEF Whole, Columns
    <2>5. /\ table'[k].id = table[k].id /\ table'[k].fingerprint = table[k].fingerprint
          /\ table'[k].public = table[k].public /\ table'[k].private = table[k].private
          /\ table'[k].scores = table[k].scores /\ table'[k].vanity = table[k].vanity
      BY <2>4 DEF Columns
    <2> QED
      BY <2>1, <2>3, <2>4, <2>5 DEF Whole
  <1>3. Table' /\ Kept
    BY <1>1, <1>2 DEF IInv, Table, Kept
  <1>4. Shape'
    BY <1>1 DEF IInv, Shape, locals, observed
  <1>5. LookupOf(p) /\ ExportOf(p)
    BY DEF IInv, Processes
  <1>6. LookupOf(p)'
    BY <1>1, <1>2, <1>5 DEF IInv, Shape, LookupOf, locals, observed
  <1>7. ExportOf(p)'
    BY <1>1, <1>5 DEF IInv, Shape, ExportOf, locals
  <1>8. \A q \in Procs \ {p} :
          /\ pc'[q] = pc[q] /\ query'[q] = query[q] /\ keyInfo'[q] = keyInfo[q]
          /\ files'[q] = files[q] /\ known'[q] = known[q] /\ present'[q] = present[q]
    BY <1>1 DEF IInv, Shape, locals, observed
  <1> QED
    BY <1>1, <1>3, <1>4, <1>6, <1>7, <1>8, OneProcess

(* A batch is inserted, or a found key is inserted or updated.             *)
LEMMA WriteStep ==
  ASSUME IInv, NEW p \in Procs, BatchCreate(p) \/ Upsert(p)
  PROVE  IInv' /\ Kept
  <1>1. /\ pc[p] \in {"ready", "generate"}
        /\ \E label \in {"generate", "saved"} : pc' = [pc EXCEPT ![p] = label]
        /\ UNCHANGED <<dialect, locals, files, observed>>
    BY DEF BatchCreate, Upsert, Goto
  <1>2. Table' /\ Kept
    <2>1. CASE BatchCreate(p)
      <3>1. PICK keys \in Batches(NewKeys) :
              /\ \A i \in DOMAIN keys : keys[i] \notin DOMAIN table
              /\ Insert(keys, Saved("v0"))
        BY <2>1 DEF BatchCreate
      <3>2. PICK n \in 1 .. Cardinality(NewKeys) : keys \in [1 .. n -> NewKeys]
        BY DEF Batches
      <3>3. n \in Nat \ {0} /\ \A i, j \in 1 .. n : keys[i] = keys[j] => i = j
        <4>1. Cardinality(NewKeys) \in Nat
          BY StoreAssumption, FS_Subset, FS_CardinalityType DEF Keys
        <4> QED
          BY <3>2, <4>1 DEF Batches
      <3>4. "v0" \in Contents
        BY DEF Contents
      <3> QED
        BY <3>1, <3>2, <3>3, <3>4, BatchInserted DEF IInv
    <2>2. CASE Upsert(p)
      <3>1. PICK k \in NewKeys, v \in Versions :
              IF k \in DOMAIN table
              THEN /\ table' = [table EXCEPT ![k] = Merged(@, Saved(v)[k])]
                   /\ UNCHANGED nextId
              ELSE Insert(<<k>>, Saved(v))
        BY <2>2 DEF Upsert
      <3>2. CASE k \notin DOMAIN table
        <4> DEFINE keys == <<k>>
                   n == 1
        <4>1. /\ n \in Nat \ {0} /\ keys \in [1 .. n -> NewKeys]
              /\ \A i, j \in 1 .. n : keys[i] = keys[j] => i = j
              /\ \A i \in 1 .. n : keys[i] \notin DOMAIN table
          BY <3>2
        <4>2. Insert(keys, Saved(v)) /\ v \in Contents
          BY <3>1, <3>2 DEF Contents
        <4> HIDE DEF keys, n
        <4> QED
          BY <4>1, <4>2, BatchInserted DEF IInv
      <3>3. CASE k \in DOMAIN table
        <4>1. Whole(k, table[k]) /\ k \in Keys /\ v \in Contents
          BY <3>3 DEF IInv, Table, Contents
        <4> DEFINE row == Merged(table[k], Saved(v)[k])
        <4>2. /\ DOMAIN row = Columns /\ row.id = table[k].id
              /\ row.fingerprint = table[k].fingerprint
              /\ row.suffix = Digits(k, "lower")
              /\ row.public = Plain(v) /\ row.private = Sealed(v)
              /\ row.scores = v /\ row.vanity = v
          BY <4>1 DEF Merged, UpsertColumns, Saved, Record, Whole, Columns, Plain, Sealed
        <4> HIDE DEF row
        <4>3. Digits(k, "lower") # Blank
          BY <4>1, Different DEF Cases
        <4>4. Whole(k, row)
          BY <4>1, <4>2, <4>3 DEF Whole
        <4>5. /\ DOMAIN table' = DOMAIN table /\ table'[k] = row
              /\ \A j \in DOMAIN table \ {k} : table'[j] = table[j]
              /\ nextId' = nextId
          BY <3>1, <3>3 DEF row
        <4> QED
          BY <4>2, <4>3, <4>4, <4>5 DEF IInv, Table, Kept
      <3> QED
        BY <3>2, <3>3
    <2> QED
      BY <2>1, <2>2
  <1>3. Shape'
    BY <1>1 DEF IInv, Shape, locals, observed
  <1>4. LookupOf(p) /\ ExportOf(p)
    BY DEF IInv, Processes
  <1>5. LookupOf(p)'
    BY <1>1, <1>2, <1>4 DEF IInv, Shape, LookupOf, Kept, locals, observed
  <1>6. ExportOf(p)'
    BY <1>1, <1>4 DEF IInv, Shape, ExportOf, locals
  <1>7. \A q \in Procs \ {p} :
          /\ pc'[q] = pc[q] /\ query'[q] = query[q] /\ keyInfo'[q] = keyInfo[q]
          /\ files'[q] = files[q] /\ known'[q] = known[q] /\ present'[q] = present[q]
    BY <1>1 DEF IInv, Shape, locals, observed
  <1> QED
    BY <1>1, <1>2, <1>3, <1>5, <1>6, <1>7, OneProcess

(* What a lookup reads is a row, and the files of its key.                 *)
LEMMA Reading ==
  ASSUME IInv, NEW p \in Procs, NEW k \in DOMAIN table, Read(p, k)
  PROVE  /\ DOMAIN keyInfo' = Procs /\ DOMAIN files' = Procs
         /\ keyInfo'[p].key = k
         /\ \E v \in Contents : keyInfo'[p].public = Plain(v) /\ keyInfo'[p].private = Sealed(v)
         /\ DOMAIN files'[p] = {"key", "public", "private"}
         /\ files'[p].private # NoFile => files'[p].public # NoFile
         /\ \A q \in Procs \ {p} : keyInfo'[q] = keyInfo[q] /\ files'[q] = files[q]
  <1>1. /\ keyInfo'[p] = [key |-> k, public |-> table[k].public, private |-> table[k].private]
        /\ files'[p] = IF files[p].key = k THEN files[p] ELSE NoFiles(k)
        /\ DOMAIN keyInfo' = Procs /\ DOMAIN files' = Procs
        /\ \A q \in Procs \ {p} : keyInfo'[q] = keyInfo[q] /\ files'[q] = files[q]
    BY DEF IInv, Shape, Read
  <1>2. PICK v \in Contents : table[k].public = Plain(v) /\ table[k].private = Sealed(v)
    BY DEF IInv, Table, Whole
  <1>3. /\ DOMAIN files'[p] = {"key", "public", "private"}
        /\ files'[p].private # NoFile => files'[p].public # NoFile
    BY <1>1 DEF IInv, Shape, Processes, ExportOf, NoFiles
  <1> QED
    BY <1>1, <1>2, <1>3

(* The first query finds a key by its suffix, or the command goes on to the*)
(* second with none of the migrated keys left to find.                     *)
LEMMA LookupStep ==
  ASSUME IInv, NEW p \in Procs, Lookup(p)
  PROVE  IInv'
  <1>1. PICK q \in Queries :
          LET hits == {k \in DOMAIN table : table[k].suffix = Suffix(q)} IN
          /\ query' = [query EXCEPT ![p] = Suffix(q)]
          /\ IF hits = {}
             THEN /\ Goto(p, "fallback")
                  /\ present' = [present EXCEPT ![p] = DOMAIN table]
                  /\ UNCHANGED <<keyInfo, files, known>>
             ELSE /\ Goto(p, "public") /\ Read(p, First(hits))
                  /\ known' = [known EXCEPT ![p] = {}] /\ UNCHANGED present
    BY DEF Lookup
  <1> DEFINE hits == {k \in DOMAIN table : table[k].suffix = Suffix(q)}
  <1>2. Kept /\ Table' /\ dialect' = dialect /\ table' = table /\ pc[p] = "ready"
    BY SameTable DEF Lookup, database
  <1>3. Suffix(q) = Digits(q.digits, "lower") /\ q.digits \in Keys \cup Tails
    BY DEF Queries, Suffix, Lower, Digits
  <1>4. LookupOf(p) /\ ExportOf(p)
    BY DEF IInv, Processes
  <1>5. query'[p] = Suffix(q) /\ query'[p].digits = q.digits /\ query'[p].case = "lower"
    BY <1>1, <1>3 DEF IInv, Shape, Digits
  <1>6. \A k \in DOMAIN table : table[k].suffix # Blank => table[k].suffix = Digits(k, "lower")
    BY DEF IInv, Table, Whole
  <1>7. CASE hits = {}
    <2>1. /\ pc' = [pc EXCEPT ![p] = "fallback"] /\ query' = [query EXCEPT ![p] = Suffix(q)]
          /\ present' = [present EXCEPT ![p] = DOMAIN table]
          /\ UNCHANGED <<keyInfo, files, known>>
      BY <1>1, <1>7 DEF Goto
    <2>2. q.digits \notin known[p]
      BY <1>2, <1>3, <1>4, <1>6, <1>7 DEF LookupOf
    <2>3. Shape'
      BY <2>1 DEF IInv, Shape
    <2>4. LookupOf(p)'
      BY <1>2, <1>4, <1>5, <2>1, <2>2 DEF IInv, Shape, LookupOf
    <2>5. ExportOf(p)'
      BY <1>2, <1>4, <2>1 DEF IInv, Shape, ExportOf
    <2> QED
      BY <1>2, <2>1, <2>3, <2>4, <2>5, OneProcess DEF IInv, Shape
  <1>8. CASE hits # {}
    <2> DEFINE k == First(hits)
    <2>1. /\ pc' = [pc EXCEPT ![p] = "public"] /\ query' = [query EXCEPT ![p] = Suffix(q)]
          /\ known' = [known EXCEPT ![p] = {}] /\ UNCHANGED present
          /\ Read(p, k)
      BY <1>1, <1>8 DEF Goto
    <2>2. k \in hits
      <3> HIDE DEF hits
      <3>1. hits \subseteq DOMAIN table
        BY DEF hits
      <3> QED
        BY <1>8, <3>1, FirstIsHit DEF IInv
    <2>3. k \in DOMAIN table /\ table[k].suffix = Suffix(q)
      BY <2>2
    <2> HIDE DEF hits, k
    <2>4. k = q.digits
      <3>1. Suffix(q) # Blank
        <4>1. q.digits # "none"
          BY <1>3, StoreAssumption
        <4> QED
          BY <1>3, <4>1 DEF Digits, Blank
      <3>2. Digits(k, "lower") = Digits(q.digits, "lower")
        BY <1>3, <1>6, <2>3, <3>1
      <3> QED
        BY <3>2 DEF Digits
    <2>5. /\ DOMAIN keyInfo' = Procs /\ DOMAIN files' = Procs
          /\ keyInfo'[p].key = k
          /\ \E v \in Contents : keyInfo'[p].public = Plain(v) /\ keyInfo'[p].private = Sealed(v)
          /\ DOMAIN files'[p] = {"key", "public", "private"}
          /\ files'[p].private # NoFile => files'[p].public # NoFile
          /\ \A r \in Procs \ {p} : keyInfo'[r] = keyInfo[r] /\ files'[r] = files[r]
      BY <2>1, <2>3, Reading
    <2>6. Shape'
      BY <2>1, <2>5 DEF IInv, Shape
    <2>7. pc'[p] = "public" /\ known'[p] = {} /\ present'[p] = present[p]
      BY <2>1 DEF IInv, Shape
    <2>8. LookupOf(p)'
      BY <1>2, <1>4, <1>5, <2>4, <2>5, <2>7 DEF LookupOf, Names
    <2>9. ExportOf(p)'
      BY <2>5, <2>7 DEF ExportOf
    <2> QED
      BY <1>2, <2>1, <2>5, <2>6, <2>8, <2>9, OneProcess DEF IInv, Shape
  <1> QED
    BY <1>7, <1>8

(* The second query finds a key whose fingerprint ends with what was typed,*)
(* or no key that the database compares with it does.                      *)
LEMMA FallbackStep ==
  ASSUME IInv, NEW p \in Procs, Fallback(p)
  PROVE  IInv'
  <1> DEFINE hits == {k \in DOMAIN table : Like(table[k].fingerprint, query[p])}
  <1>1. Kept /\ Table' /\ dialect' = dialect /\ table' = table /\ pc[p] = "fallback"
    BY SameTable DEF Fallback, database
  <1>2. UNCHANGED <<query, observed>>
    BY DEF Fallback
  <1>3. LookupOf(p) /\ ExportOf(p)
    BY DEF IInv, Processes
  <1>4. ASSUME NEW k \in DOMAIN table
        PROVE  table[k].fingerprint.digits = k
    <2>1. PICK case \in Cases : table[k].fingerprint = Digits(k, case)
      BY DEF IInv, Table, Whole
    <2> QED
      BY <2>1 DEF Digits
  <1>5. CASE hits = {}
    <2>1. pc' = [pc EXCEPT ![p] = "missing"] /\ UNCHANGED <<keyInfo, files>>
      BY <1>5 DEF Fallback, Goto
    <2>2. ASSUME NEW k \in present[p], query[p].digits = k
          PROVE  dialect # "sqlite" /\ table[k].fingerprint.case # "lower"
      <3>1. k \in DOMAIN table /\ query[p].case = "lower"
        BY <1>1, <1>3 DEF LookupOf
      <3>2. table[k].fingerprint.digits = k
        BY <1>4, <3>1
      <3>3. ~Like(table[k].fingerprint, query[p])
        BY <1>5, <3>1
      <3> QED
        BY <2>2, <3>1, <3>2, <3>3 DEF Like
    <2>3. Shape'
      BY <1>2, <2>1 DEF IInv, Shape, observed
    <2>4. LookupOf(p)'
      BY <1>1, <1>2, <1>3, <2>1, <2>2 DEF IInv, Shape, LookupOf, observed
    <2>5. ExportOf(p)'
      BY <1>3, <2>1 DEF IInv, Shape, ExportOf
    <2> QED
      BY <1>1, <1>2, <2>1, <2>3, <2>4, <2>5, OneProcess DEF IInv, Shape, observed
  <1>6. CASE hits # {}
    <2> DEFINE k == First(hits)
    <2>1. pc' = [pc EXCEPT ![p] = "public"] /\ Read(p, k)
      BY <1>6 DEF Fallback, Goto
    <2>2. k \in hits
      <3> HIDE DEF hits
      <3>1. hits \subseteq DOMAIN table
        BY DEF hits
      <3> QED
        BY <1>6, <3>1, FirstIsHit DEF IInv
    <2>3. k \in DOMAIN table /\ Like(table[k].fingerprint, query[p])
      BY <2>2
    <2> HIDE DEF hits, k
    <2>4. Names(query[p], k)
      BY <1>4, <2>3 DEF Like, Names
    <2>5. /\ DOMAIN keyInfo' = Procs /\ DOMAIN files' = Procs
          /\ keyInfo'[p].key = k
          /\ \E v \in Contents : keyInfo'[p].public = Plain(v) /\ keyInfo'[p].private = Sealed(v)
          /\ DOMAIN files'[p] = {"key", "public", "private"}
          /\ files'[p].private # NoFile => files'[p].public # NoFile
          /\ \A r \in Procs \ {p} : keyInfo'[r] = keyInfo[r] /\ files'[r] = files[r]
      BY <2>1, <2>3, Reading
    <2>6. Shape'
      BY <1>2, <2>1, <2>5 DEF IInv, Shape, observed
    <2>7. pc'[p] = "public" /\ known' = known /\ present' = present /\ query' = query
      BY <1>2, <2>1 DEF IInv, Shape, observed
    <2>8. LookupOf(p)'
      BY <1>1, <1>3, <2>4, <2>5, <2>7 DEF LookupOf
    <2>9. ExportOf(p)'
      BY <2>5, <2>7 DEF ExportOf
    <2> QED
      BY <1>1, <2>1, <2>5, <2>6, <2>7, <2>8, <2>9, OneProcess DEF IInv, Shape
  <1> QED
    BY <1>5, <1>6

(* The two files of an export.                                             *)
LEMMA WriteFileStep ==
  ASSUME IInv, NEW p \in Procs, WritePublic(p) \/ WritePrivate(p)
  PROVE  IInv'
  <1>1. Kept /\ Table' /\ dialect' = dialect /\ table' = table
    BY SameTable DEF WritePublic, WritePrivate, database
  <1>2. UNCHANGED <<query, keyInfo, known, present>>
    BY DEF WritePublic, WritePrivate, locals, observed
  <1>3. LookupOf(p) /\ ExportOf(p)
    BY DEF IInv, Processes
  <1>4. pc[p] \in {"public", "private"}
    BY DEF WritePublic, WritePrivate
  <1>5. PICK v \in Contents : keyInfo[p].public = Plain(v) /\ keyInfo[p].private = Sealed(v)
    BY <1>3, <1>4 DEF ExportOf
  <1>6. \E content : \E name \in {"public", "private"},
                         label \in {"private", "exported", "failed"} :
          /\ files' = [files EXCEPT ![p][name] = content]
          /\ pc' = [pc EXCEPT ![p] = label]
    <2>1. ASSUME NEW name \in {"public", "private"}, NEW content,
                 NEW label \in {"private", "exported", "failed"},
                 Write(p, name, content), Goto(p, label)
          PROVE  \E c : \E n \in {"public", "private"}, l \in {"private", "exported", "failed"} :
                   /\ files' = [files EXCEPT ![p][n] = c]
                   /\ pc' = [pc EXCEPT ![p] = l]
      BY <2>1 DEF Write, Goto
    <2> QED
      BY <2>1 DEF WritePublic, WritePrivate
  <1>7. Shape'
    BY <1>2, <1>6 DEF IInv, Shape
  <1>8. pc'[p] \in {"private", "exported", "failed"}
    BY <1>6 DEF IInv, Shape
  <1>9. LookupOf(p)'
    BY <1>1, <1>2, <1>3, <1>4, <1>8 DEF LookupOf
  <1>10. ExportOf(p)'
    <2>1. CASE WritePublic(p)
      <3>1. /\ \/ files'[p].public = keyInfo[p].public /\ pc'[p] = "private"
               \/ files'[p].public = Torn /\ pc'[p] = "failed"
            /\ files'[p].private = files[p].private
        BY <2>1 DEF IInv, Shape, WritePublic, Write, Goto
      <3>2. files'[p].public # NoFile
        BY <1>5, <3>1, Different
      <3> QED
        BY <1>2, <1>5, <3>1, <3>2 DEF ExportOf
    <2>2. CASE WritePrivate(p)
      <3>1. /\ pc[p] = "private"
            /\ \/ /\ files'[p].private \in {keyInfo[p].private, Seal(keyInfo[p].private)}
                  /\ pc'[p] = "exported"
               \/ files'[p].private = Torn /\ pc'[p] = "failed"
            /\ files'[p].public = files[p].public
        BY <2>2 DEF IInv, Shape, WritePrivate, Write, Goto
      <3>2. files[p].public = keyInfo[p].public
        BY <1>3, <3>1 DEF ExportOf
      <3>3. files'[p].public # NoFile
        BY <1>5, <3>1, <3>2, Different
      <3> QED
        BY <1>2, <1>5, <3>1, <3>2, <3>3 DEF ExportOf
    <2> QED
      BY <2>1, <2>2
  <1>11. \A q \in Procs \ {p} : pc'[q] = pc[q] /\ files'[q] = files[q]
    BY <1>6 DEF IInv, Shape
  <1> QED
    BY <1>1, <1>2, <1>7, <1>9, <1>10, <1>11, OneProcess

LEMMA NextIInv ==
  ASSUME IInv, [Next]_vars
  PROVE  IInv' /\ Kept
  <1>1. CASE UNCHANGED vars
    BY <1>1, Untouched, SameTable DEF vars, database
  <1>2. ASSUME NEW k \in LegacyKeys, NEW case \in Cases, LegacyInsert(k, case)
        PROVE  IInv' /\ Kept
    BY <1>2, LegacyInsertStep
  <1>3. ASSUME NEW p \in Procs, Invocation(p)
        PROVE  IInv' /\ Kept
    <2>1. CASE Open(p) \/ AutoMigrate(p) \/ Setup(p) \/ Stop(p)
      BY <2>1, ConnectStep
    <2>2. CASE Backfill(p)
      BY <2>2, BackfillStep
    <2>3. CASE BatchCreate(p) \/ Upsert(p)
      BY <2>3, WriteStep
    <2>4. CASE Lookup(p) \/ Fallback(p) \/ WritePublic(p) \/ WritePrivate(p)
      <3>1. Kept
        BY <2>4, SameTable DEF Lookup, Fallback, WritePublic, WritePrivate
      <3> QED
        BY <2>4, <3>1, LookupStep, FallbackStep, WriteFileStep
    <2> QED
      BY <1>3, <2>1, <2>2, <2>3, <2>4 DEF Invocation
  <1> QED
    BY <1>1, <1>2, <1>3 DEF Next

-------------------------------------------------------------------------------
(* The strengthened invariant holds of every interleaving of invocations.  *)
THEOREM Invariant == Spec => []IInv
  <1>1. IInv /\ [Next]_vars => IInv'
    BY NextIInv
  <1> QED
    BY <1>1, InitIInv, PTL DEF Spec

(* A row is the work of one save, and its id and suffix are its own.       *)
THEOREM RowWholeAlways == Spec => []RowWhole
  <1>1. ASSUME IInv, NEW k \in DOMAIN table
        PROVE  LET row == table[k] IN
               /\ {row.private.of, row.scores, row.vanity} = {row.public.of}
               /\ row.suffix \in {Blank, Digits(k, "lower")}
               /\ row.suffix = Blank => k \in LegacyKeys
               /\ \A j \in DOMAIN table : table[j].id = row.id => j = k
    <2>1. Whole(k, table[k]) /\ \A j \in DOMAIN table : table[j].id = table[k].id => j = k
      BY <1>1 DEF IInv, Table
    <2>2. PICK v \in Contents : /\ table[k].public = Plain(v) /\ table[k].private = Sealed(v)
                                /\ table[k].scores = v /\ table[k].vanity = v
      BY <2>1 DEF Whole
    <2>3. table[k].public.of = v /\ table[k].private.of = v
      BY <2>2 DEF Plain, Sealed
    <2> QED
      BY <2>1, <2>2, <2>3 DEF Whole
  <1>2. IInv => RowWhole
    BY <1>1 DEF RowWhole
  <1> QED
    BY <1>2, Invariant, PTL

(* A stored key stays stored under the same id and fingerprint.            *)
THEOREM RowsKeptAlways == Spec => RowsKept
  <1>1. IInv /\ [Next]_vars =>
          [\A k \in DOMAIN table :
             /\ k \in DOMAIN table'
             /\ table'[k].id = table[k].id
             /\ table'[k].fingerprint = table[k].fingerprint]_vars
    BY NextIInv DEF Kept
  <1> QED
    BY <1>1, Invariant, PTL DEF Spec, RowsKept

(* A lookup finds the key that was typed, or one that ends with the digits,*)
(* and reports none only if there was none it had to find.                 *)
THEOREM LookupRightAlways == Spec => []LookupRight
  <1>1. ASSUME IInv, NEW p \in Procs
        PROVE  /\ keyInfo[p] # NoRow => Names(query[p], keyInfo[p].key)
               /\ pc[p] = "missing" => Sought(p) = {}
    BY <1>1 DEF IInv, Processes, LookupOf, Sought
  <1>2. IInv => LookupRight
    BY <1>1 DEF LookupRight
  <1> QED
    BY <1>2, Invariant, PTL

(* An export leaves no private key file without its public one, and one    *)
(* that succeeded has left both, of one save and encrypted.                *)
THEOREM ExportWholeAlways == Spec => []ExportWhole
  <1>1. ASSUME IInv, NEW p \in Procs, pc[p] = "exported"
        PROVE  /\ files[p].public = keyInfo[p].public
               /\ files[p].private.of = files[p].public.of
               /\ files[p].private.layers >= 1
    <2>1. ExportOf(p)
      BY <1>1 DEF IInv, Processes
    <2>2. PICK v \in Contents : keyInfo[p].public = Plain(v) /\ keyInfo[p].private = Sealed(v)
      BY <1>1, <2>1 DEF ExportOf
    <2>3. /\ keyInfo[p].public.of = v
          /\ keyInfo[p].private.of = v /\ keyInfo[p].private.layers = 1
          /\ Seal(keyInfo[p].private).of = v /\ Seal(keyInfo[p].private).layers = 2
      BY <2>2 DEF Plain, Sealed, Seal
    <2> QED
      BY <1>1, <2>1, <2>3 DEF ExportOf
  <1>2. IInv => ExportWhole
    BY <1>1 DEF IInv, Processes, ExportOf, ExportWhole
  <1> QED
    BY <1>2, Invariant, PTL

-------------------------------------------------------------------------------
(* `analyze`: the sums of one SELECT.  The library adds up the rows in some*)
(* order; a sum is told from what one more row adds to it.                 *)

(* Induction over the subsets of a finite set, stated of a set of them. *)
LEMMA ElementByElement ==
  ASSUME NEW S, IsFiniteSet(S), NEW T, {} \in T,
         \A s \in SUBSET S : s # {} /\ (\A a \in s : s \ {a} \in T) => s \in T
  PROVE  \A s \in SUBSET S : s \in T
  <1> DEFINE U == {s \in SUBSET S : s \notin T}
  <1>1. SUFFICES ASSUME U # {} PROVE FALSE
    OBVIOUS
  <1>2. U \subseteq FiniteSubsetsOf(S)
    BY FS_Subset DEF FiniteSubsetsOf
  <1>3. PICK s \in U : \A r \in U : <<r, s>> \notin StrictSubsetOrdering(S)
    <2> HIDE DEF U
    <2>. QED  BY <1>1, <1>2, FS_StrictSubsetOrderingWellFounded, WFMin
  <1>4. ASSUME NEW a \in s PROVE s \ {a} \in T
    <2>1. s \ {a} \in SUBSET S /\ <<s \ {a}, s>> \in StrictSubsetOrdering(S)
      BY DEF StrictSubsetOrdering
    <2>. QED  BY <1>3, <2>1
  <1>. QED  BY <1>3, <1>4

(* The sum of the values of f over each subset of S, in whatever order. *)
Totals(t, f, S) ==
  /\ t \in [SUBSET S -> Int] /\ t[{}] = 0
  /\ \A s \in SUBSET S : \A a \in s : t[s] = f[a] + t[s \ {a}]

(* What a fold over S computes: the elements are taken in some order. *)
AddsUp(h, f, S) ==
  /\ h[{}] = 0
  /\ \A s \in SUBSET S : s # {} => \E a \in s : h[s] = f[a] + h[s \ {a}]

(* There is such a table of sums, of every finite set. *)
LEMMA TotalsExist ==
  ASSUME NEW S, IsFiniteSet(S), NEW f, \A a \in S : f[a] \in Int
  PROVE  \E t : Totals(t, f, S)
  <1> DEFINE T == {s \in SUBSET S : \E t : Totals(t, f, s)}
  <1>1. {} \in T
    <2>1. Totals([s \in SUBSET {} |-> 0], f, {})
      BY DEF Totals
    <2>. QED  BY <2>1
  <1>2. ASSUME NEW s \in SUBSET S, s # {}, \A a \in s : s \ {a} \in T
        PROVE  s \in T
    <2>1. PICK a \in s : TRUE
      BY <1>2
    <2>2. PICK t : Totals(t, f, s \ {a})
      BY <1>2
    <2> DEFINE u == [r \in SUBSET s |-> IF a \in r THEN f[a] + t[r \ {a}] ELSE t[r]]
    <2>3. /\ \A r \in SUBSET s : r \ {a} \in SUBSET (s \ {a})
          /\ \A r \in SUBSET s : a \notin r => r \in SUBSET (s \ {a})
      OBVIOUS
    <2>4. /\ t \in [SUBSET (s \ {a}) -> Int] /\ t[{}] = 0
          /\ \A r \in SUBSET (s \ {a}) : \A b \in r : t[r] = f[b] + t[r \ {b}]
      BY <2>2 DEF Totals
    <2>5. u \in [SUBSET s -> Int]
      <3>1. \A r \in SUBSET s : u[r] \in Int
        BY <2>3, <2>4
      <3>. QED  BY <3>1
    <2>6. u[{}] = 0
      BY <2>4
    <2>7. ASSUME NEW r \in SUBSET s, NEW b \in r PROVE u[r] = f[b] + u[r \ {b}]
      <3>1. r \ {b} \in SUBSET s /\ f[a] \in Int /\ f[b] \in Int
        OBVIOUS
      <3>2. CASE b = a
        BY <3>1, <3>2
      <3>3. CASE b # a /\ a \in r
        <4> DEFINE q == r \ {a}
        <4>1. q \in SUBSET (s \ {a}) /\ b \in q /\ q \ {b} \in SUBSET (s \ {a})
          BY <3>3
        <4>2. t[q] = f[b] + t[q \ {b}] /\ t[q] \in Int /\ t[q \ {b}] \in Int
          BY <2>4, <4>1
        <4>3. (r \ {b}) \ {a} = q \ {b}
          OBVIOUS
        <4>4. u[r] = f[a] + t[q] /\ u[r \ {b}] = f[a] + t[q \ {b}]
          BY <3>1, <3>3, <4>3
        <4> HIDE DEF u, q
        <4>. QED  BY <3>1, <4>2, <4>4
      <3>4. CASE a \notin r
        <4>1. r \in SUBSET (s \ {a})
          BY <3>4
        <4>2. t[r] = f[b] + t[r \ {b}]
          BY <2>4, <4>1
        <4>. QED  BY <3>1, <3>4, <4>2
      <3>. QED  BY <3>2, <3>3, <3>4
    <2>8. Totals(u, f, s)
      <3> HIDE DEF u
      <3>. QED  BY <2>5, <2>6, <2>7 DEF Totals
    <2> HIDE DEF u
    <2>. QED  BY <2>8
  <1>3. \A s \in SUBSET S : s \in T
    <2> HIDE DEF T
    <2>. QED  BY <1>1, <1>2, ElementByElement
  <1>. QED  BY <1>3

(* Every order comes to the same sum. *)
LEMMA FoldsTotal ==
  ASSUME NEW S, IsFiniteSet(S), NEW f, \A a \in S : f[a] \in Int, NEW t, Totals(t, f, S),
         NEW h, AddsUp(h, f, S)
  PROVE  h[S] = t[S]
  <1> DEFINE T == {s \in SUBSET S : h[s] = t[s]}
  <1>1. {} \in T
    BY DEF Totals, AddsUp
  <1>2. ASSUME NEW s \in SUBSET S, s # {}, \A a \in s : s \ {a} \in T
        PROVE  s \in T
    <2>1. PICK a \in s : h[s] = f[a] + h[s \ {a}]
      BY <1>2 DEF AddsUp
    <2>2. t[s] = f[a] + t[s \ {a}]
      BY DEF Totals
    <2>. QED  BY <1>2, <2>1, <2>2
  <1>3. \A s \in SUBSET S : s \in T
    <2> HIDE DEF T
    <2>. QED  BY <1>1, <1>2, ElementByElement
  <1>. QED  BY <1>3

(* A sum with one more element. *)
LEMMA TotalsUnion ==
  ASSUME NEW S, NEW f, NEW t, Totals(t, f, S), NEW s \in SUBSET S, NEW a \in S, a \notin s
  PROVE  t[s \cup {a}] = f[a] + t[s]
  <1>1. s \cup {a} \in SUBSET S /\ a \in s \cup {a} /\ (s \cup {a}) \ {a} = s
    OBVIOUS
  <1>. QED  BY <1>1 DEF Totals

(* The element the library takes first. *)
Any(s) == CHOOSE a \in s : TRUE

(* SumFunctionOnSet is one of those folds. *)
LEMMA Summed ==
  ASSUME NEW S, IsFiniteSet(S), NEW x, \A a \in S : x[a] \in Int,
         NEW t, Totals(t, x, S)
  PROVE  SumFunctionOnSet(x, S) = t[S]
  <1>1. t = [s \in SUBSET S |-> IF s = {} THEN 0 ELSE x[Any(s)] + t[s \ {Any(s)}]]
    <2>1. ASSUME NEW s \in SUBSET S
          PROVE  t[s] = IF s = {} THEN 0 ELSE x[Any(s)] + t[s \ {Any(s)}]
      <3>1. CASE s = {}
        BY <3>1 DEF Totals
      <3>2. CASE s # {}
        <4>1. Any(s) \in S /\ t[s] = x[Any(s)] + t[s \ {Any(s)}]
          BY <3>2 DEF Totals, Any
        <4>. QED  BY <3>2, <4>1
      <3>. QED  BY <3>1, <3>2
    <2>2. t \in [SUBSET S -> Int]
      BY DEF Totals
    <2>. QED  BY <2>1, <2>2
  <1>2. \E h : /\ h = [s \in SUBSET S |-> IF s = {} THEN 0 ELSE x[Any(s)] + h[s \ {Any(s)}]]
              /\ SumFunctionOnSet(x, S) = h[S]
    BY <1>1 DEF SumFunctionOnSet, FoldFunctionOnSet, MapThenFoldSet, Any
  <1>3. PICK h : /\ h = [s \in SUBSET S |-> IF s = {} THEN 0 ELSE x[Any(s)] + h[s \ {Any(s)}]]
                 /\ SumFunctionOnSet(x, S) = h[S]
    BY <1>2
  <1>4. h[{}] = 0
    <2>1. {} \in SUBSET S
      OBVIOUS
    <2>. QED  BY <1>3, <2>1
  <1>5. ASSUME NEW s \in SUBSET S, s # {} PROVE h[s] = x[Any(s)] + h[s \ {Any(s)}]
    <2>1. h[s] = x[Any(s)] + h[s \ {Any(s)}]
      BY <1>3, <1>5
    <2>2. Any(s) \in S
      BY <1>5 DEF Any
    <2>. QED  BY <2>1, <2>2
  <1>6. ASSUME NEW s \in SUBSET S, s # {} PROVE \E a \in s : h[s] = x[a] + h[s \ {a}]
    <2>1. Any(s) \in s
      BY <1>6 DEF Any
    <2>. QED  BY <1>5, <1>6, <2>1
  <1>7. AddsUp(h, x, S)
    BY <1>4, <1>6 DEF AddsUp
  <1>. QED  BY <1>3, <1>7, FoldsTotal

(* SumFunctionOnSet adds up the values, one element more at a time. *)
LEMMA SumEmpty ==
  ASSUME NEW f
  PROVE  SumFunctionOnSet(f, {}) = 0
  <1>1. IsFiniteSet({})
    BY FS_EmptySet
  <1>2. PICK t : Totals(t, f, {})
    BY <1>1, TotalsExist
  <1>3. SumFunctionOnSet(f, {}) = t[{}]
    BY <1>1, <1>2, Summed
  <1>. QED  BY <1>2, <1>3 DEF Totals

LEMMA SumAdds ==
  ASSUME NEW S, IsFiniteSet(S), NEW a, a \notin S,
         NEW f, \A b \in S \cup {a} : f[b] \in Int
  PROVE  /\ SumFunctionOnSet(f, S) \in Int
         /\ SumFunctionOnSet(f, S \cup {a}) = f[a] + SumFunctionOnSet(f, S)
  <1> DEFINE R == S \cup {a}
  <1>1. IsFiniteSet(R)
    BY FS_AddElement
  <1>2. PICK t : Totals(t, f, R)
    BY <1>1, TotalsExist
  <1>3. SumFunctionOnSet(f, R) = t[R]
    BY <1>1, <1>2, Summed
  <1>4. t[R] = f[a] + t[S] /\ t[S] \in Int
    BY <1>2, TotalsUnion DEF Totals
  <1>5. \E u : Totals(u, f, S) /\ u[S] = t[S]
    <2> DEFINE u == [s \in SUBSET S |-> t[s]]
    <2>1. Totals(u, f, S) /\ u[S] = t[S]
      <3>1. \A s \in SUBSET S : s \in SUBSET R /\ u[s] = t[s] /\ \A b \in s : s \ {b} \in SUBSET S
        OBVIOUS
      <3>2. t \in [SUBSET R -> Int] /\ t[{}] = 0
            /\ \A s \in SUBSET R : \A b \in s : t[s] = f[b] + t[s \ {b}]
        BY <1>2 DEF Totals
      <3>3. u \in [SUBSET S -> Int]
        BY <3>1, <3>2
      <3> HIDE DEF u, R
      <3>4. {} \in SUBSET S /\ S \in SUBSET S
        OBVIOUS
      <3>. QED  BY <3>1, <3>2, <3>3, <3>4 DEF Totals
    <2>. QED  BY <2>1
  <1>6. SumFunctionOnSet(f, S) = t[S]
    BY <1>5, Summed
  <1>. QED  BY <1>3, <1>4, <1>6

(* A sum of integers is one. *)
LEMMA SumIsInt ==
  ASSUME NEW S, IsFiniteSet(S), NEW f, \A a \in S : f[a] \in Int
  PROVE  SumFunctionOnSet(f, S) \in Int
  <1>1. PICK t : Totals(t, f, S)
    BY TotalsExist
  <1>2. SumFunctionOnSet(f, S) = t[S]
    BY <1>1, Summed
  <1>3. S \in SUBSET S
    OBVIOUS
  <1>. QED  BY <1>1, <1>2, <1>3 DEF Totals

(* Of two integers, by their squares. *)
LEMMA Bigger ==
  ASSUME NEW u \in Int, NEW v \in Int, 0 <= u, v * v <= u * u
  PROVE  v <= u
  <1>1. SUFFICES ASSUME u < v PROVE FALSE
    OBVIOUS
  <1>2. u * u <= u * v /\ u * v < v * v
    BY <1>1
  <1>. QED  BY <1>2

(* The inequality of Cauchy and Schwarz, with one more term. *)
LEMMA CauchyStep ==
  ASSUME NEW A \in Int, NEW B \in Int, NEW C \in Int, NEW u \in Int, NEW v \in Int,
         0 <= A, 0 <= B, C * C <= A * B
  PROVE  /\ 0 <= u * u + A
         /\ (u * v + C) * (u * v + C) <= (u * u + A) * (v * v + B)
  <1> DEFINE w == A * (v * v) + B * (u * u)
             c == 2 * (C * (u * v))
  <1>0. 0 <= u * u /\ 0 <= v * v
    OBVIOUS
  <1>1. 0 <= w /\ w \in Int /\ c \in Int
    <2>1. 0 <= A * (v * v) /\ 0 <= B * (u * u)
      BY <1>0
    <2>. QED  BY <2>1
  <1>2. c * c <= w * w
    <2> DEFINE p == A * (v * v)
               q == B * (u * u)
               m == (u * v) * (u * v)
    <2>1. p \in Int /\ q \in Int /\ m \in Int /\ 0 <= m
      OBVIOUS
    <2>2. c * c = 4 * ((C * C) * m)
      OBVIOUS
    <2>3. (C * C) * m <= (A * B) * m
      <3> HIDE DEF m
      <3>1. (C * C) \in Int /\ (A * B) \in Int
        OBVIOUS
      <3>2. \A x, y \in Int : x <= y => x * m <= y * m
        BY <2>1
      <3>. QED  BY <3>1, <3>2
    <2>4. (A * B) * m = p * q
      OBVIOUS
    <2>5. 4 * (p * q) <= (p + q) * (p + q)
      <3> HIDE DEF p, q
      <3>1. 0 <= (p - q) * (p - q)
        BY <2>1
      <3>2. (p - q) * (p - q) = (p + q) * (p + q) - 4 * (p * q)
        BY <2>1
      <3>. QED  BY <2>1, <3>1, <3>2
    <2>6. w * w = (p + q) * (p + q)
      OBVIOUS
    <2>7. c * c \in Int /\ (C * C) * m \in Int /\ p * q \in Int /\ w * w \in Int
      OBVIOUS
    <2> HIDE DEF p, q, m, c, w
    <2>. QED  BY <2>1, <2>2, <2>3, <2>4, <2>5, <2>6, <2>7
  <1>3. c <= w
    <2> HIDE DEF c, w
    <2>. QED  BY <1>1, <1>2, Bigger
  <1>4. (u * v + C) * (u * v + C) = (u * v) * (u * v) + c + C * C
    OBVIOUS
  <1>5. (u * u + A) * (v * v + B) = (u * v) * (u * v) + w + A * B
    OBVIOUS
  <1>6. (u * v) * (u * v) \in Int /\ C * C \in Int /\ A * B \in Int
    OBVIOUS
  <1>7. 0 <= u * u + A
    BY <1>0
  <1> HIDE DEF c, w
  <1>. QED  BY <1>1, <1>3, <1>4, <1>5, <1>6, <1>7

(* The identity of Lagrange, with one more row: the terms the row adds. *)
LEMMA LagrangeStep ==
  ASSUME NEW n \in Int, NEW F \in Int, NEW G \in Int, NEW H \in Int,
         NEW f \in Int, NEW g \in Int
  PROVE  (n + 1) * (f * g + H) - (f + F) * (g + G)
           = (n * H - F * G) + (n * (f * g) - f * G - g * F + H)
  OBVIOUS

(* What one more pair adds to them. *)
LEMMA NewPairStep ==
  ASSUME NEW n \in Int, NEW F \in Int, NEW G \in Int, NEW H \in Int,
         NEW f \in Int, NEW g \in Int, NEW b \in Int, NEW c \in Int
  PROVE  (f - b) * (g - c) + (n * (f * g) - f * G - g * F + H)
           = (n + 1) * (f * g) - f * (c + G) - g * (b + F) + (b * c + H)
  OBVIOUS

(* The inequality of Cauchy and Schwarz. *)
LEMMA Cauchy ==
  ASSUME NEW S, IsFiniteSet(S), NEW u \in [S -> Int], NEW v \in [S -> Int],
         NEW uu, NEW vv, NEW uv,
         \A a \in S : uu[a] = u[a] * u[a] /\ vv[a] = v[a] * v[a] /\ uv[a] = u[a] * v[a]
  PROVE  /\ 0 <= SumFunctionOnSet(uu, S) /\ 0 <= SumFunctionOnSet(vv, S)
         /\ SumFunctionOnSet(uv, S) * SumFunctionOnSet(uv, S)
              <= SumFunctionOnSet(uu, S) * SumFunctionOnSet(vv, S)
  <1> DEFINE A(s) == SumFunctionOnSet(uu, s)
             B(s) == SumFunctionOnSet(vv, s)
             C(s) == SumFunctionOnSet(uv, s)
             Bounded(s) == /\ A(s) \in Int /\ B(s) \in Int /\ C(s) \in Int
                           /\ 0 <= A(s) /\ 0 <= B(s) /\ C(s) * C(s) <= A(s) * B(s)
             T == {s \in SUBSET S : Bounded(s)}
  <1>1. {} \in T
    <2>1. A({}) = 0 /\ B({}) = 0 /\ C({}) = 0
      BY SumEmpty
    <2> HIDE DEF A, B, C
    <2>. QED  BY <2>1
  <1>2. ASSUME NEW s \in SUBSET S, s # {}, \A a \in s : s \ {a} \in T
        PROVE  s \in T
    <2>1. PICK a \in s : TRUE
      BY <1>2
    <2> DEFINE r == s \ {a}
    <2>2. Bounded(r)
      BY <1>2
    <2>3. IsFiniteSet(r)
      BY FS_Subset
    <2>4. r \cup {a} = s /\ a \notin r /\ r \subseteq S
      OBVIOUS
    <2>5. u[a] \in Int /\ v[a] \in Int
          /\ uu[a] = u[a] * u[a] /\ vv[a] = v[a] * v[a] /\ uv[a] = u[a] * v[a]
      OBVIOUS
    <2>6. /\ \A b \in r \cup {a} : uu[b] \in Int
          /\ \A b \in r \cup {a} : vv[b] \in Int
          /\ \A b \in r \cup {a} : uv[b] \in Int
      <3> HIDE DEF r
      <3>1. ASSUME NEW b \in r \cup {a} PROVE uu[b] \in Int /\ vv[b] \in Int /\ uv[b] \in Int
        <4>1. b \in S /\ u[b] \in Int /\ v[b] \in Int
          BY <2>4
        <4>. QED  BY <4>1
      <3>. QED  BY <3>1
    <2> HIDE DEF r
    <2>7. A(s) = uu[a] + A(r)
      BY <2>3, <2>4, <2>6, SumAdds
    <2>8. B(s) = vv[a] + B(r)
      BY <2>3, <2>4, <2>6, SumAdds
    <2>9. C(s) = uv[a] + C(r)
      BY <2>3, <2>4, <2>6, SumAdds
    <2> HIDE DEF A, B, C
    <2>10. /\ 0 <= u[a] * u[a] + A(r)
           /\ (u[a] * v[a] + C(r)) * (u[a] * v[a] + C(r))
                <= (u[a] * u[a] + A(r)) * (v[a] * v[a] + B(r))
      BY <2>2, <2>5, CauchyStep
    <2>11. 0 <= v[a] * v[a] + B(r)
      <3>1. 0 <= v[a] * v[a]
        BY <2>5
      <3>. QED  BY <2>2, <2>5, <3>1
    <2>12. A(s) \in Int /\ B(s) \in Int /\ C(s) \in Int
      BY <2>2, <2>5, <2>7, <2>8, <2>9
    <2>13. Bounded(s)
      BY <2>5, <2>7, <2>8, <2>9, <2>10, <2>11, <2>12
    <2>. QED  BY <2>13
  <1>3. \A s \in SUBSET S : s \in T
    <2> HIDE DEF T
    <2>. QED  BY <1>1, <1>2, ElementByElement
  <1>. QED  BY <1>3

(* The sets of two of the elements of r. *)
PairsOf(r) == {p \in SUBSET r : Cardinality(p) = 2}

(* It does not matter which of a pair is taken from which. *)
LEMMA PairDifference ==
  ASSUME NEW a, NEW b, a # b, NEW f, NEW g,
         f[a] \in Int, f[b] \in Int, g[a] \in Int, g[b] \in Int
  PROVE  Difference(f, {a, b}) * Difference(g, {a, b}) = (f[a] - f[b]) * (g[a] - g[b])
  <1> DEFINE k == CHOOSE k \in {a, b} : TRUE
             j == CHOOSE j \in {a, b} : j # k
  <1>1. k \in {a, b}
    OBVIOUS
  <1> HIDE DEF k
  <1>2. j \in {a, b} /\ j # k
    <2>1. \E i \in {a, b} : i # k
      OBVIOUS
    <2>. QED  BY <2>1
  <1> HIDE DEF j
  <1>3. Difference(f, {a, b}) = f[k] - f[j] /\ Difference(g, {a, b}) = g[k] - g[j]
    BY DEF Difference, k, j
  <1>4. (k = a /\ j = b) \/ (k = b /\ j = a)
    BY <1>1, <1>2
  <1>5. CASE k = a /\ j = b
    BY <1>3, <1>5
  <1>6. CASE k = b /\ j = a
    <2>1. (f[b] - f[a]) * (g[b] - g[a]) = (f[a] - f[b]) * (g[a] - g[b])
      OBVIOUS
    <2>. QED  BY <1>3, <1>6, <2>1
  <1>. QED  BY <1>4, <1>5, <1>6

(* The pairs with a given element. *)
LEMMA Two ==
  ASSUME NEW p, IsFiniteSet(p), NEW a \in p
  PROVE  Cardinality(p) = 2 <=> \E b : b # a /\ p = {a, b}
  <1>1. IsFiniteSet(p \ {a}) /\ Cardinality(p \ {a}) = Cardinality(p) - 1 /\ Cardinality(p) \in Nat
    BY FS_RemoveElement, FS_CardinalityType
  <1>2. Cardinality(p \ {a}) = 1 <=> \E b : p \ {a} = {b}
    BY <1>1, FS_Singleton
  <1>3. ASSUME NEW b, p \ {a} = {b} PROVE b # a /\ p = {a, b}
    BY <1>3
  <1>4. ASSUME NEW b, b # a, p = {a, b} PROVE p \ {a} = {b}
    BY <1>4
  <1>5. Cardinality(p) = 2 <=> Cardinality(p \ {a}) = 1
    BY <1>1
  <1>6. (\E b : p \ {a} = {b}) <=> \E b : b # a /\ p = {a, b}
    BY <1>3, <1>4
  <1>. QED  BY <1>2, <1>5, <1>6

(* The pairs of a set with one more element. *)
LEMMA PairsWith ==
  ASSUME NEW r, IsFiniteSet(r), NEW a, a \notin r
  PROVE  PairsOf(r \cup {a}) = PairsOf(r) \cup {{a, b} : b \in r}
  <1>0. IsFiniteSet(r \cup {a})
    BY FS_AddElement
  <1>1. ASSUME NEW p \in PairsOf(r \cup {a}), a \in p PROVE p \in {{a, b} : b \in r}
    <2>1. p \subseteq r \cup {a} /\ Cardinality(p) = 2
      BY DEF PairsOf
    <2>2. IsFiniteSet(p)
      BY <1>0, <2>1, FS_Subset
    <2>3. \E b : b # a /\ p = {a, b}
      <3>1. Cardinality(p) = 2 <=> \E b : b # a /\ p = {a, b}
        BY <1>1, <2>2, Two
      <3>. QED  BY <2>1, <3>1
    <2>4. PICK b : b # a /\ p = {a, b}
      BY <2>3
    <2>. QED  BY <2>1, <2>4
  <1>2. ASSUME NEW p \in PairsOf(r \cup {a}), a \notin p PROVE p \in PairsOf(r)
    BY <1>2 DEF PairsOf
  <1>3. ASSUME NEW p \in PairsOf(r) PROVE p \in PairsOf(r \cup {a})
    BY DEF PairsOf
  <1>4. ASSUME NEW b \in r PROVE {a, b} \in PairsOf(r \cup {a})
    <2>1. {a, b} \subseteq r \cup {a} /\ b # a
      OBVIOUS
    <2>2. IsFiniteSet({a, b})
      BY <1>0, <2>1, FS_Subset
    <2>3. Cardinality({a, b}) = 2
      BY <2>1, <2>2, Two
    <2>. QED  BY <2>1, <2>3 DEF PairsOf
  <1>. QED  BY <1>1, <1>2, <1>3, <1>4

(* What the pairs of a new element add to the sum over pairs. *)
LEMMA NewPairs ==
  ASSUME NEW K, IsFiniteSet(K),
         NEW f, \A a \in K : f[a] \in Int, NEW g, \A a \in K : g[a] \in Int,
         NEW h, \A a \in K : h[a] = f[a] * g[a],
         NEW P, \A p \in PairsOf(K) : P[p] = Difference(f, p) * Difference(g, p),
         \A p \in PairsOf(K) : P[p] \in Int,
         NEW a \in K, NEW r \in SUBSET K, a \notin r
  PROVE  SumFunctionOnSet(P, PairsOf(r \cup {a}))
           = (Cardinality(r) * (f[a] * g[a]) - f[a] * SumFunctionOnSet(g, r)
                - g[a] * SumFunctionOnSet(f, r) + SumFunctionOnSet(h, r))
             + SumFunctionOnSet(P, PairsOf(r))
  <1> DEFINE F(q) == SumFunctionOnSet(f, q)
             G(q) == SumFunctionOnSet(g, q)
             H(q) == SumFunctionOnSet(h, q)
             With(q) == PairsOf(r) \cup {{a, b} : b \in q}
             S(q) == SumFunctionOnSet(P, With(q))
             Z == SumFunctionOnSet(P, PairsOf(r))
             Fits(q) == /\ F(q) \in Int /\ G(q) \in Int /\ H(q) \in Int
                        /\ S(q) = (Cardinality(q) * (f[a] * g[a]) - f[a] * G(q) - g[a] * F(q) + H(q)) + Z
             T == {q \in SUBSET r : Fits(q)}
  <1>1. IsFiniteSet(r) /\ f[a] \in Int /\ g[a] \in Int
    BY FS_Subset
  <1>2. PairsOf(r) \subseteq PairsOf(K) /\ IsFiniteSet(PairsOf(K))
    <2>1. IsFiniteSet(SUBSET K) /\ PairsOf(K) \subseteq SUBSET K
      BY FS_SUBSET DEF PairsOf
    <2>. QED  BY <2>1, FS_Subset DEF PairsOf
  <1>3. Z \in Int
    <2>1. IsFiniteSet(PairsOf(r)) /\ \A p \in PairsOf(r) : P[p] \in Int
      BY <1>2, FS_Subset
    <2>. QED  BY <2>1, SumIsInt
  <1>4. {} \in T
    <2>1. F({}) = 0 /\ G({}) = 0 /\ H({}) = 0
      BY SumEmpty
    <2>2. S({}) = Z
      <3>1. With({}) = PairsOf(r)
        OBVIOUS
      <3>. QED  BY <3>1
    <2>3. Cardinality({}) = 0
      BY FS_EmptySet
    <2> HIDE DEF F, G, H, S, Z
    <2>4. S({}) = (Cardinality({}) * (f[a] * g[a]) - f[a] * G({}) - g[a] * F({}) + H({})) + Z
      BY <1>1, <1>3, <2>1, <2>2, <2>3
    <2>. QED  BY <2>1, <2>4
  <1>5. ASSUME NEW s \in SUBSET r, s # {}, \A b \in s : s \ {b} \in T
        PROVE  s \in T
    <2>1. PICK b \in s : TRUE
      BY <1>5
    <2> DEFINE q == s \ {b}
    <2>2. Fits(q)
      BY <1>5
    <2>3. IsFiniteSet(q) /\ q \cup {b} = s /\ b \notin q /\ q \subseteq r
      BY <1>1, FS_Subset
    <2> HIDE DEF q
    <2>4. b \in r /\ b # a /\ f[b] \in Int /\ g[b] \in Int /\ h[b] = f[b] * g[b]
      OBVIOUS
    <2>5. \A c \in q \cup {b} : f[c] \in Int /\ g[c] \in Int /\ h[c] \in Int
      <3>1. ASSUME NEW c \in q \cup {b} PROVE f[c] \in Int /\ g[c] \in Int /\ h[c] \in Int
        <4>1. c \in K /\ f[c] \in Int /\ g[c] \in Int
          BY <2>3
        <4>. QED  BY <4>1
      <3>. QED  BY <3>1
    <2>6. F(s) = f[b] + F(q)
      BY <2>3, <2>5, SumAdds
    <2>7. G(s) = g[b] + G(q)
      BY <2>3, <2>5, SumAdds
    <2>8. H(s) = h[b] + H(q)
      BY <2>3, <2>5, SumAdds
    <2>9. Cardinality(s) = Cardinality(q) + 1 /\ Cardinality(q) \in Int
      <3>0. Cardinality(s) = Cardinality(q \cup {b})
        BY <2>3
      <3>1. Cardinality(q \cup {b}) = Cardinality(q) + 1
        BY <2>3, FS_AddElement
      <3>2. Cardinality(q) \in Nat
        BY <2>3, FS_CardinalityType
      <3>. QED  BY <3>0, <3>1, <3>2
    <2>10. {a, b} \notin With(q)
      <3>1. {a, b} \notin PairsOf(r)
        BY DEF PairsOf
      <3>2. ASSUME NEW c \in q, {a, c} = {a, b} PROVE FALSE
        BY <2>3, <2>4, <3>2
      <3>. QED  BY <3>1, <3>2
    <2>11. With(s) = With(q) \cup {{a, b}}
      BY <2>3
    <2>12. With(s) \subseteq PairsOf(K)
      <3>1. IsFiniteSet(r) /\ With(s) \subseteq PairsOf(r) \cup {{a, c} : c \in r}
        BY <1>1
      <3>2. With(s) \subseteq PairsOf(r \cup {a})
        <4> HIDE DEF With
        <4>. QED  BY <3>1, PairsWith
      <3>3. PairsOf(r \cup {a}) \subseteq PairsOf(K)
        BY DEF PairsOf
      <3>. QED  BY <3>2, <3>3
    <2> HIDE DEF With
    <2>13. IsFiniteSet(With(q)) /\ \A p \in With(q) \cup {{a, b}} : P[p] \in Int
      BY <1>2, <2>11, <2>12, FS_Subset
    <2>14. S(s) = P[{a, b}] + S(q)
      <3> DEFINE W == With(q)
                 e == {a, b}
      <3>1. IsFiniteSet(W) /\ e \notin W /\ \A p \in W \cup {e} : P[p] \in Int
        BY <2>10, <2>13
      <3> HIDE DEF W, e
      <3>2. SumFunctionOnSet(P, W \cup {e}) = P[e] + SumFunctionOnSet(P, W)
        BY <3>1, SumAdds
      <3>. QED  BY <2>11, <3>2 DEF W, e
    <2>15. P[{a, b}] = (f[a] - f[b]) * (g[a] - g[b])
      <3>1. {a, b} \in PairsOf(K)
        BY <2>11, <2>12
      <3>. QED  BY <1>1, <2>4, <3>1, PairDifference
    <2> HIDE DEF F, G, H, S, Z
    <2> DEFINE n == Cardinality(q)
               fa == f[a]
               ga == g[a]
               fb == f[b]
               gb == g[b]
               x == F(q)
               y == G(q)
               z == H(q)
    <2>16. F(s) \in Int /\ G(s) \in Int /\ H(s) \in Int
      BY <2>2, <2>4, <2>6, <2>7, <2>8
    <2>17. (fa - fb) * (ga - gb) + (n * (fa * ga) - fa * y - ga * x + z)
             = (n + 1) * (fa * ga) - fa * (gb + y) - ga * (fb + x) + (fb * gb + z)
      <3>1. n \in Int /\ fa \in Int /\ ga \in Int /\ fb \in Int /\ gb \in Int /\ x \in Int /\ y \in Int /\ z \in Int
        BY <1>1, <2>2, <2>4, <2>9
      <3> HIDE DEF n, fa, ga, fb, gb, x, y, z
      <3>. QED  BY ONLY <3>1, NewPairStep
    <2>18. (n * (fa * ga) - fa * y - ga * x + z) \in Int /\ (fa - fb) * (ga - gb) \in Int
      <3>1. n \in Int /\ fa \in Int /\ ga \in Int /\ fb \in Int /\ gb \in Int /\ x \in Int /\ y \in Int /\ z \in Int
        BY <1>1, <2>2, <2>4, <2>9
      <3> HIDE DEF n, fa, ga, fb, gb, x, y, z
      <3>. QED  BY <3>1
    <2>19. S(s) = (fa - fb) * (ga - gb) + ((n * (fa * ga) - fa * y - ga * x + z) + Z)
      BY <2>2, <2>14, <2>15
    <2>20. S(s) = (Cardinality(s) * (fa * ga) - fa * G(s) - ga * F(s) + H(s)) + Z
      <3>1. G(s) = gb + y /\ F(s) = fb + x /\ H(s) = fb * gb + z /\ Cardinality(s) = n + 1
        BY <2>4, <2>6, <2>7, <2>8, <2>9
      <3> DEFINE u == (fa - fb) * (ga - gb)
                 v == (n * (fa * ga) - fa * y - ga * x + z)
      <3>2. u \in Int /\ v \in Int /\ S(s) = u + (v + Z)
        BY <2>18, <2>19
      <3>3. u + v = Cardinality(s) * (fa * ga) - fa * G(s) - ga * F(s) + H(s)
        BY <2>17, <3>1
      <3> HIDE DEF u, v
      <3>4. S(s) = (u + v) + Z
        BY <1>3, <3>2
      <3>. QED  BY <3>3, <3>4
    <2>21. Fits(s)
      BY <2>16, <2>20
    <2>. QED  BY <2>21
  <1>6. \A s \in SUBSET r : s \in T
    <2> HIDE DEF T
    <2>. QED  BY <1>1, <1>4, <1>5, ElementByElement
  <1>7. With(r) = PairsOf(r \cup {a})
    BY <1>1, PairsWith
  <1>8. r \in T
    BY <1>6
  <1>. QED  BY <1>7, <1>8

(* Lagrange: what n times the sum of products exceeds the product of sums by. *)
LEMMA Lagrange ==
  ASSUME NEW K, IsFiniteSet(K),
         NEW f, \A a \in K : f[a] \in Int, NEW g, \A a \in K : g[a] \in Int,
         NEW h, \A a \in K : h[a] = f[a] * g[a],
         NEW P, \A p \in PairsOf(K) : P[p] = Difference(f, p) * Difference(g, p),
         \A p \in PairsOf(K) : P[p] \in Int
  PROVE  /\ SumFunctionOnSet(P, PairsOf(K)) \in Int
         /\ Cardinality(K) * SumFunctionOnSet(h, K)
               - SumFunctionOnSet(f, K) * SumFunctionOnSet(g, K)
               = SumFunctionOnSet(P, PairsOf(K))
  <1> DEFINE F(q) == SumFunctionOnSet(f, q)
             G(q) == SumFunctionOnSet(g, q)
             H(q) == SumFunctionOnSet(h, q)
             S(q) == SumFunctionOnSet(P, PairsOf(q))
             Fits(q) == /\ F(q) \in Int /\ G(q) \in Int /\ H(q) \in Int /\ S(q) \in Int
                        /\ Cardinality(q) * H(q) - F(q) * G(q) = S(q)
             T == {q \in SUBSET K : Fits(q)}
  <1>1. {} \in T
    <2>1. F({}) = 0 /\ G({}) = 0 /\ H({}) = 0
      BY SumEmpty
    <2>2. PairsOf({}) = {} /\ Cardinality({}) = 0
      <3>1. Cardinality({}) = 0
        BY FS_EmptySet
      <3>2. ASSUME NEW p \in PairsOf({}) PROVE FALSE
        <4>1. p = {} /\ Cardinality(p) = 2
          BY DEF PairsOf
        <4>. QED  BY <3>1, <4>1
      <3>. QED  BY <3>1, <3>2
    <2>3. S({}) = 0
      BY <2>2, SumEmpty
    <2> HIDE DEF F, G, H, S
    <2>. QED  BY <2>1, <2>2, <2>3
  <1>2. ASSUME NEW s \in SUBSET K, s # {}, \A a \in s : s \ {a} \in T
        PROVE  s \in T
    <2>1. PICK a \in s : TRUE
      BY <1>2
    <2> DEFINE r == s \ {a}
    <2>2. Fits(r)
      BY <1>2
    <2>3. IsFiniteSet(r) /\ r \cup {a} = s /\ a \notin r /\ r \in SUBSET K /\ a \in K
      BY FS_Subset
    <2> HIDE DEF r
    <2>4. /\ f[a] \in Int /\ g[a] \in Int /\ h[a] = f[a] * g[a]
          /\ \A b \in r \cup {a} : f[b] \in Int
          /\ \A b \in r \cup {a} : g[b] \in Int
          /\ \A b \in r \cup {a} : h[b] \in Int
      <3>1. ASSUME NEW b \in K PROVE f[b] \in Int /\ g[b] \in Int /\ h[b] \in Int
        OBVIOUS
      <3>. QED  BY <2>3, <3>1
    <2>5. F(s) = f[a] + F(r)
      BY <2>3, <2>4, SumAdds
    <2>6. G(s) = g[a] + G(r)
      BY <2>3, <2>4, SumAdds
    <2>7. H(s) = h[a] + H(r)
      BY <2>3, <2>4, SumAdds
    <2>8. Cardinality(s) = Cardinality(r) + 1 /\ Cardinality(r) \in Int
      <3>0. Cardinality(s) = Cardinality(r \cup {a})
        BY <2>3
      <3>1. Cardinality(r \cup {a}) = Cardinality(r) + 1
        BY <2>3, FS_AddElement
      <3>2. Cardinality(r) \in Nat
        BY <2>3, FS_CardinalityType
      <3>. QED  BY <3>0, <3>1, <3>2
    <2>9. S(s) = (Cardinality(r) * (f[a] * g[a]) - f[a] * G(r) - g[a] * F(r) + H(r)) + S(r)
      <3>1. SumFunctionOnSet(P, PairsOf(r \cup {a}))
             = (Cardinality(r) * (f[a] * g[a]) - f[a] * SumFunctionOnSet(g, r)
                  - g[a] * SumFunctionOnSet(f, r) + SumFunctionOnSet(h, r))
               + SumFunctionOnSet(P, PairsOf(r))
        BY <2>3, NewPairs
      <3>. QED  BY <2>3, <3>1
    <2> HIDE DEF F, G, H, S
    <2>10. \E n, x, y, z, w, c, d \in Int :
             /\ n = Cardinality(r) /\ x = F(r) /\ y = G(r) /\ z = H(r) /\ w = S(r)
             /\ c = f[a] /\ d = g[a]
      BY <2>2, <2>4, <2>8
    <2>11. PICK n \in Int, x \in Int, y \in Int, z \in Int, w \in Int, c \in Int, d \in Int :
             /\ n = Cardinality(r) /\ x = F(r) /\ y = G(r) /\ z = H(r) /\ w = S(r)
             /\ c = f[a] /\ d = g[a]
      BY <2>10
    <2>12. F(s) = c + x /\ G(s) = d + y /\ H(s) = c * d + z /\ Cardinality(s) = n + 1
           /\ S(s) = (n * (c * d) - c * y - d * x + z) + w /\ n * z - x * y = w
      BY <2>2, <2>4, <2>5, <2>6, <2>7, <2>8, <2>9, <2>11
    <2>13. (n + 1) * (c * d + z) - (c + x) * (d + y)
             = (n * z - x * y) + (n * (c * d) - c * y - d * x + z)
      BY LagrangeStep
    <2>14. (n * (c * d) - c * y - d * x + z) \in Int /\ c * d \in Int
      OBVIOUS
    <2>15. F(s) \in Int /\ G(s) \in Int /\ H(s) \in Int /\ S(s) \in Int
      BY <2>12, <2>14
    <2>16. Cardinality(s) * H(s) - F(s) * G(s) = S(s)
      BY <2>12, <2>13, <2>14
    <2>17. Fits(s)
      BY <2>15, <2>16
    <2>. QED  BY <2>17
  <1>3. \A s \in SUBSET K : s \in T
    <2> HIDE DEF T
    <2>. QED  BY <1>1, <1>2, ElementByElement
  <1>4. K \in T
    BY <1>3
  <1>. QED  BY <1>4

(* A difference of integers is one. *)
LEMMA DifferenceIsInt ==
  ASSUME NEW f, \A k \in DOMAIN table : f[k] \in Int, NEW s \in Pairs,
         IsFiniteSet(DOMAIN table)
  PROVE  Difference(f, s) \in Int
  <1> DEFINE k == CHOOSE k \in s : TRUE
             j == CHOOSE j \in s : j # k
  <1>1. s \subseteq DOMAIN table /\ Cardinality(s) = 2 /\ IsFiniteSet(s)
    BY FS_Subset DEF Pairs
  <1>2. s # {}
    BY <1>1, FS_EmptySet
  <1>3. k \in s
    BY <1>2
  <1> HIDE DEF k
  <1>4. \E b : b # k /\ s = {k, b}
    <2>1. ASSUME NEW a \in s PROVE \E b : b # a /\ s = {a, b}
      <3>1. Cardinality(s) = 2 <=> \E b : b # a /\ s = {a, b}
        BY ONLY <1>1, <2>1, Two
      <3>. QED  BY <1>1, <3>1
    <2>. QED  BY <1>3, <2>1
  <1>5. j \in s
    <2>1. \E i \in s : i # k
      BY <1>4
    <2>. QED  BY <2>1
  <1> HIDE DEF j
  <1>6. Difference(f, s) = f[k] - f[j]
    BY DEF Difference, k, j
  <1>. QED  BY <1>1, <1>3, <1>5, <1>6

(* The sums of a SELECT, as sums over pairs of rows. *)
LEMMA Variance ==
  ASSUME IsFiniteSet(DOMAIN table),
         NEW f, \A k \in DOMAIN table : f[k] \in Int,
         NEW g, \A k \in DOMAIN table : g[k] \in Int
  PROVE  /\ PairSum(f, g) \in Int
         /\ Cardinality(DOMAIN table) * SumOfProduct(f, g) - SumOf(f) * SumOf(g)
              = PairSum(f, g)
  <1> DEFINE K == DOMAIN table
             h == [k \in K |-> f[k] * g[k]]
             P == [s \in Pairs |-> Difference(f, s) * Difference(g, s)]
  <1>1. Pairs = PairsOf(K)
    BY DEF Pairs, PairsOf
  <1>2. ASSUME NEW s \in Pairs
        PROVE  Difference(f, s) \in Int /\ Difference(g, s) \in Int
    BY DifferenceIsInt
  <1>3. SumOf(f) = SumFunctionOnSet(f, K) /\ SumOf(g) = SumFunctionOnSet(g, K)
    BY DEF SumOf
  <1>4. SumOfProduct(f, g) = SumFunctionOnSet(h, K)
    BY DEF SumOfProduct, SumFunction
  <1>5. PairSum(f, g) = SumFunctionOnSet(P, PairsOf(K))
    <2>1. DOMAIN P = PairsOf(K)
      BY <1>1
    <2>. QED  BY <2>1 DEF PairSum, SumFunction
  <1>6. \A p \in PairsOf(K) : P[p] = Difference(f, p) * Difference(g, p)
    BY <1>1
  <1>7. \A p \in PairsOf(K) : P[p] \in Int
    BY <1>1, <1>2
  <1>8. \A k \in K : h[k] = f[k] * g[k]
    OBVIOUS
  <1>9. IsFiniteSet(K) /\ (\A k \in K : f[k] \in Int) /\ (\A k \in K : g[k] \in Int)
    OBVIOUS
  <1> HIDE DEF K, h, P
  <1>10. /\ SumFunctionOnSet(P, PairsOf(K)) \in Int
         /\ Cardinality(K) * SumFunctionOnSet(h, K)
                 - SumFunctionOnSet(f, K) * SumFunctionOnSet(g, K)
                 = SumFunctionOnSet(P, PairsOf(K))
    BY <1>6, <1>7, <1>8, <1>9, Lagrange
  <1>. QED  BY <1>3, <1>4, <1>5, <1>10 DEF K

(* A table with a pair of rows has a row. *)
LEMMA Positive ==
  ASSUME NEW K, IsFiniteSet(K), PairsOf(K) # {}
  PROVE  Cardinality(K) > 0
  <1>1. Cardinality(K) \in Nat /\ (Cardinality(K) = 0 <=> K = {})
    BY FS_CardinalityType, FS_EmptySet
  <1>2. ASSUME K = {} PROVE FALSE
    <2>1. PICK p \in PairsOf(K) : TRUE
      OBVIOUS
    <2>2. p = {} /\ Cardinality(p) = 2
      BY <1>2 DEF PairsOf
    <2>3. Cardinality({}) = 0
      BY FS_EmptySet
    <2>. QED  BY <2>2, <2>3
  <1>. QED  BY <1>1, <1>2

(* The coefficient of a table of finitely many rows. *)
LEMMA CorrelationOfTable ==
  ASSUME DOMAIN table \subseteq Keys
  PROVE  CorrelationRight
  <1> DEFINE K == DOMAIN table
             A == PairSum(ScoreOf, ScoreOf)
             B == PairSum(LettersOf, LettersOf)
             C == PairSum(ScoreOf, LettersOf)
             n == Cardinality(K)
  <1>1. IsFiniteSet(K)
    BY StoreAssumption, FS_Subset
  <1>2. (\A k \in DOMAIN table : ScoreOf[k] \in Int) /\ (\A k \in DOMAIN table : LettersOf[k] \in Int)
    <2>1. ASSUME NEW k \in DOMAIN table PROVE ScoreOf[k] \in Int /\ LettersOf[k] \in Int
      <3>1. k \in Keys
        OBVIOUS
      <3>2. ScoreOf[k] \in Int /\ LettersOf[k] \in Nat
        BY <3>1, StoreAssumption
      <3>. QED  BY <3>2
    <2>. QED  BY <2>1
  <1>3. A \in Int /\ n * SumOfProduct(ScoreOf, ScoreOf) - SumOf(ScoreOf) * SumOf(ScoreOf) = A
    BY <1>1, <1>2, Variance
  <1>4. B \in Int /\ n * SumOfProduct(LettersOf, LettersOf) - SumOf(LettersOf) * SumOf(LettersOf) = B
    BY <1>1, <1>2, Variance
  <1>5. C \in Int /\ n * SumOfProduct(ScoreOf, LettersOf) - SumOf(ScoreOf) * SumOf(LettersOf) = C
    BY <1>1, <1>2, Variance
  <1>6. 0 <= A /\ 0 <= B /\ C * C <= A * B
    <2> DEFINE u == [s \in Pairs |-> Difference(ScoreOf, s)]
               v == [s \in Pairs |-> Difference(LettersOf, s)]
               uu == [s \in Pairs |-> Difference(ScoreOf, s) * Difference(ScoreOf, s)]
               vv == [s \in Pairs |-> Difference(LettersOf, s) * Difference(LettersOf, s)]
               uv == [s \in Pairs |-> Difference(ScoreOf, s) * Difference(LettersOf, s)]
    <2>1. IsFiniteSet(Pairs)
      <3>1. IsFiniteSet(SUBSET K) /\ Pairs \subseteq SUBSET K
        BY <1>1, FS_SUBSET DEF Pairs
      <3>. QED  BY <3>1, FS_Subset
    <2>2. u \in [Pairs -> Int] /\ v \in [Pairs -> Int]
      <3>1. ASSUME NEW s \in Pairs
            PROVE  Difference(ScoreOf, s) \in Int /\ Difference(LettersOf, s) \in Int
        BY <1>1, <1>2, DifferenceIsInt
      <3>. QED  BY <3>1
    <2>3. \A s \in Pairs : uu[s] = u[s] * u[s] /\ vv[s] = v[s] * v[s] /\ uv[s] = u[s] * v[s]
      OBVIOUS
    <2>4. /\ A = SumFunctionOnSet(uu, Pairs) /\ B = SumFunctionOnSet(vv, Pairs)
          /\ C = SumFunctionOnSet(uv, Pairs)
      BY DEF PairSum, SumFunction
    <2> HIDE DEF u, v, uu, vv, uv, A, B, C
    <2>5. /\ 0 <= SumFunctionOnSet(uu, Pairs) /\ 0 <= SumFunctionOnSet(vv, Pairs)
          /\ SumFunctionOnSet(uv, Pairs) * SumFunctionOnSet(uv, Pairs)
                <= SumFunctionOnSet(uu, Pairs) * SumFunctionOnSet(vv, Pairs)
      BY <2>1, <2>2, <2>3, Cauchy
    <2>. QED  BY <2>4, <2>5
  <1>7. A * B # 0 => n > 0
    <2>1. ASSUME Pairs = {} PROVE A = 0
      <3> DEFINE uu == [s \in Pairs |-> Difference(ScoreOf, s) * Difference(ScoreOf, s)]
      <3>1. A = SumFunctionOnSet(uu, {})
        BY <2>1 DEF PairSum, SumFunction
      <3>. QED  BY <3>1, SumEmpty
    <2>2. Pairs = PairsOf(K)
      BY DEF Pairs, PairsOf
    <2>3. PairsOf(K) # {} => n > 0
      <3> HIDE DEF K
      <3>. QED  BY <1>1, Positive
    <2> HIDE DEF A, B, n, K
    <2>4. A = 0 => A * B = 0
      BY <1>4
    <2>. QED  BY <2>1, <2>2, <2>3, <2>4
  <1>8. A * B \in Int /\ 0 <= A * B /\ C * C \in Int
    <2> HIDE DEF A, B, C
    <2>. QED  BY <1>3, <1>4, <1>5, <1>6
  <1>9. Correlation = IF n > 0 /\ A * B > 0 THEN <<C, A * B>> ELSE <<0, 1>>
    BY <1>3, <1>4, <1>5 DEF Correlation, Numerator
  <1> HIDE DEF A, B, C, n, K
  <1>10. Correlation = IF A * B = 0 THEN <<0, 1>> ELSE <<C, A * B>>
    <2>1. n > 0 /\ A * B > 0 <=> A * B # 0
      BY <1>7, <1>8
    <2>. QED  BY <1>9, <2>1
  <1>11. Correlation[1] * Correlation[1] <= Correlation[2]
    BY <1>6, <1>8, <1>10
  <1>. QED  BY <1>10, <1>11 DEF CorrelationRight, A, B, C

(* repository.go:167-176: what analyze reports is, up to rounding, Pearson's *)
(* coefficient by its definition over pairs of rows, for scores of either   *)
(* sign; the sums never make it a division by zero or more than 1.          *)
THEOREM CorrelationRightAlways == Spec => []CorrelationRight
  <1>1. IInv => CorrelationRight
    BY CorrelationOfTable DEF IInv, Table
  <1> QED
    BY <1>1, Invariant, PTL
================================================================================
