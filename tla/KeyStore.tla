-------------------------------- MODULE KeyStore --------------------------------
(***************************************************************************)
(* The key_infos table and the invocations of gpgenie that share it:       *)
(* database.Connect with its migration, the repository's writes and the    *)
(* two queries of a lookup, the export of a key to two files, and the      *)
(* aggregates of `analyze`.  An invocation may stop at any step; programs  *)
(* of an earlier version, which know no fingerprint_suffix, go on writing. *)
(*                                                                         *)
(* A key stands for its last sixteen digits, letters among them, and each  *)
(* digit string carries the case of its letters.  The content of a column  *)
(* is the version of the save that wrote it.                               *)
(***************************************************************************)
EXTENDS Integers, FiniteSets, Functions

CONSTANTS
  Writers,              (* slots for `generate` and `vanity` invocations     *)
  Exporters,            (* slots for `export`, each to its own directory     *)
  LegacyKeys, NewKeys,  (* written by the earlier version, by this one       *)
  Tail,                 (* fewer than sixteen digits a key ends with         *)
  Versions,             (* artifacts a vanity key is saved with              *)
  Dialects,             (* database types: "sqlite", "postgres"              *)
  ScoreOf, LettersOf    (* score, the sum of four of which the last may be   *)
                        (* negative, and unique_letters_count of a key       *)

Procs == Writers \cup Exporters
Keys == LegacyKeys \cup NewKeys
Tails == {Tail[k] : k \in Keys}

ASSUME StoreAssumption ==
  /\ Writers \cap Exporters = {}
  /\ LegacyKeys \cap NewKeys = {}     \* no key is generated twice
  /\ IsFiniteSet(Keys)
  /\ Keys \cap Tails = {} /\ "none" \notin Keys \cup Tails \cup Versions
  /\ Dialects \subseteq {"sqlite", "postgres"}
  /\ ScoreOf \in [Keys -> Int] /\ LettersOf \in [Keys -> Nat]

VARIABLES
  dialect,   (* cfg.Type                                                     *)
  table,     (* key_infos: the rows by key, fingerprint is a unique index    *)
  nextId,    (* the next primary key                                         *)
  pc,        (* control point of each invocation                             *)
  query,     (* `suffix`, what an export looks for                           *)
  keyInfo,   (* the row a lookup read                                        *)
  files,     (* the pair of files of the key exported last to a directory    *)
  known,     (* observer: keys stored when the invocation began to connect   *)
  present    (* observer: keys stored when its lookup began, as long as it   *)
             (* has found none                                               *)

database == <<dialect, table, nextId>>
locals   == <<query, keyInfo>>
observed == <<known, present>>
vars     == <<database, pc, locals, files, observed>>

Cases == {"lower", "upper"}
Digits(d, case) == [digits |-> d, case |-> case]
Blank == Digits("none", "lower")     \* NULL or ''
Lower(string) == [string EXCEPT !.case = "lower"]

NoFile == [of |-> "none", layers |-> 0]
Torn   == [of |-> "torn", layers |-> 0]
Seal(content) == [content EXCEPT !.layers = @ + 1]

NoRow == [key |-> "none"]
NoFiles(k) == [key |-> k, public |-> NoFile, private |-> NoFile]

Goto(p, label) == pc' = [pc EXCEPT ![p] = label]

-------------------------------------------------------------------------------
(* Rows. *)

(* What one save writes in the columns of a key; the private key is stored
   encrypted, under one layer.                                             *)
Record(k, case, suffix, v) ==
  [fingerprint |-> Digits(k, case), suffix |-> suffix,
   public |-> [of |-> v, layers |-> 0], private |-> [of |-> v, layers |-> 1],
   scores |-> v, vanity |-> v]

(* This version writes the fingerprint in lower case, and its suffix. *)
Saved(v) == [k \in NewKeys |-> Record(k, "lower", Digits(k, "lower"), v)]

WithId(record, id) ==
  [c \in DOMAIN record \cup {"id"} |-> IF c = "id" THEN id ELSE record[c]]

(* INSERT of the records of a sequence of keys, in its order. *)
Insert(keys, records) ==
  LET added == {keys[i] : i \in DOMAIN keys}
      place(k) == CHOOSE i \in DOMAIN keys : keys[i] = k
  IN  /\ table' = [k \in DOMAIN table \cup added |->
                     IF k \in added THEN WithId(records[k], nextId + place(k) - 1)
                                    ELSE table[k]]
      /\ nextId' = nextId + Cardinality(added)

(* INSERT by a program of an earlier version, in either case. *)
LegacyInsert(k, case) ==
  /\ k \in LegacyKeys \ DOMAIN table
  /\ Insert(<<k>>, [j \in {k} |-> Record(j, case, Blank, "v0")])
  /\ UNCHANGED <<dialect, pc, locals, files, observed>>

-------------------------------------------------------------------------------
(* database.Connect, a statement at a time. *)

(* gorm.Open *)
Open(p) ==
  /\ pc[p] = "off"
  /\ Goto(p, "migrate")
  /\ known' = [known EXCEPT ![p] = IF p \in Exporters THEN DOMAIN table ELSE {}]
  /\ UNCHANGED <<database, locals, files, present>>

(* AutoMigrate adds the columns; those of existing rows stay NULL. *)
AutoMigrate(p) ==
  /\ pc[p] = "migrate"
  /\ Goto(p, "backfill")
  /\ UNCHANGED <<database, locals, files, observed>>

(* Mutant: the suffix keeps the case of the fingerprint. *)
BackfilledAsIs(row) == IF row.suffix = Blank THEN row.fingerprint ELSE row.suffix

(* RIGHT(LOWER(fingerprint), 16) WHERE fingerprint_suffix IS NULL OR ... *)
Backfilled(row) == IF row.suffix = Blank THEN Lower(row.fingerprint) ELSE row.suffix

Backfill(p) ==
  /\ pc[p] = "backfill"
  /\ table' = [k \in DOMAIN table |->
                 [table[k] EXCEPT !.suffix = Backfilled(table[k])]]
  /\ Goto(p, "setup")
  /\ UNCHANGED <<dialect, nextId, locals, files, observed>>

(* The pragmas, the pool and the ping. *)
Setup(p) ==
  /\ pc[p] = "setup"
  /\ Goto(p, "ready")
  /\ UNCHANGED <<database, locals, files, observed>>

-------------------------------------------------------------------------------
(* The repository's writes; an error ends the command. *)

Batches(S) ==
  {s \in UNION {[1 .. n -> S] : n \in 1 .. Cardinality(S)} :
     \A i, j \in DOMAIN s : s[i] = s[j] => i = j}

(* `generate`: one INSERT of a whole batch, refused if a fingerprint is there
   already, until the pipeline has no more.                                *)
BatchCreate(p) ==
  /\ pc[p] \in {"ready", "generate"}
  /\ \E keys \in Batches(NewKeys) :
       /\ \A i \in DOMAIN keys : keys[i] \notin DOMAIN table
       /\ Insert(keys, Saved("v0"))
  /\ Goto(p, "generate")
  /\ UNCHANGED <<dialect, locals, files, observed>>

(* Mutant: private_key is missing from the list. *)
UpsertColumnsNoPrivate == {"suffix", "public", "scores", "vanity"}

(* DoUpdates: id, created_at and the fingerprint itself are not in the list. *)
UpsertColumns == {"suffix", "public", "private", "scores", "vanity"}

(* Mutant: INSERT OR REPLACE. *)
MergedAnew(old, new) == WithId(new, nextId)

Merged(old, new) ==
  [c \in DOMAIN old |-> IF c \in UpsertColumns THEN new[c] ELSE old[c]]

(* `vanity`, saving finalized artifacts. *)
Upsert(p) ==
  /\ pc[p] = "ready"
  /\ \E k \in NewKeys, v \in Versions :
       IF k \in DOMAIN table
       THEN /\ table' = [table EXCEPT ![k] = Merged(@, Saved(v)[k])]
            /\ UNCHANGED nextId
       ELSE Insert(<<k>>, Saved(v))
  /\ Goto(p, "saved")
  /\ UNCHANGED <<dialect, locals, files, observed>>

-------------------------------------------------------------------------------
(* `export`: GetByFingerprint and ExportKey. *)

Queries == {Digits(d, case) : d \in Keys \cup Tails, case \in Cases}

(* strings.ToLower, and the last sixteen of what was typed. *)
Suffix(q) == Lower(q)

(* First: ORDER BY id LIMIT 1. *)
First(hits) == CHOOSE k \in hits : \A j \in hits : table[k].id <= table[j].id

(* The row, and the files that earlier exports of its key have left: those of
   another key have other names and are not touched.                       *)
Read(p, k) ==
  /\ keyInfo' = [keyInfo EXCEPT ![p] =
                   [key |-> k, public |-> table[k].public,
                    private |-> table[k].private]]
  /\ files' = [files EXCEPT ![p] = IF @.key = k THEN @ ELSE NoFiles(k)]

(* fingerprint_suffix = ? *)
Lookup(p) ==
  /\ pc[p] = "ready"
  /\ \E q \in Queries :
       LET hits == {k \in DOMAIN table : table[k].suffix = Suffix(q)} IN
       /\ query' = [query EXCEPT ![p] = Suffix(q)]
       /\ IF hits = {}
          THEN /\ Goto(p, "fallback")
               /\ present' = [present EXCEPT ![p] = DOMAIN table]
               /\ UNCHANGED <<keyInfo, files, known>>
          ELSE /\ Goto(p, "public") /\ Read(p, First(hits))
               /\ known' = [known EXCEPT ![p] = {}] /\ UNCHANGED present
  /\ UNCHANGED database

(* SQLite compares letters without their case, PostgreSQL with it. *)
Like(fingerprint, q) ==
  /\ q.digits \in {fingerprint.digits, Tail[fingerprint.digits]}
  /\ dialect = "sqlite" \/ fingerprint.case = q.case

(* fingerprint LIKE '%...' *)
Fallback(p) ==
  /\ pc[p] = "fallback"
  /\ LET hits == {k \in DOMAIN table : Like(table[k].fingerprint, query[p])} IN
       IF hits = {} THEN Goto(p, "missing") /\ UNCHANGED <<keyInfo, files>>
                    ELSE Goto(p, "public") /\ Read(p, First(hits))
  /\ UNCHANGED <<database, query, observed>>

(* os.WriteFile truncates first: a write that fails leaves a torn file. *)
Write(p, name, content) ==
  files' = [files EXCEPT ![p][name] = content]

(* Mutant: the error of the first write is dropped. *)
WritePublicAnyway(p) ==
  /\ pc[p] = "public"
  /\ Goto(p, "private")
  /\ Write(p, "public", keyInfo[p].public) \/ Write(p, "public", Torn)
  /\ UNCHANGED <<database, locals, observed>>

WritePublic(p) ==
  /\ pc[p] = "public"
  /\ \/ Write(p, "public", keyInfo[p].public) /\ Goto(p, "private")
     \/ Write(p, "public", Torn) /\ Goto(p, "failed")
  /\ UNCHANGED <<database, locals, observed>>

(* With --armor=false what is stored is encrypted once more. *)
WritePrivate(p) ==
  /\ pc[p] = "private"
  /\ \/ /\ Goto(p, "exported")
        /\ \/ Write(p, "private", keyInfo[p].private)
           \/ Write(p, "private", Seal(keyInfo[p].private))
     \/ Write(p, "private", Torn) /\ Goto(p, "failed")
  /\ UNCHANGED <<database, locals, observed>>

(* The invocation ends: its command is done, a statement or a call before a
   write failed, or the process was killed.                                *)
Stop(p) ==
  /\ pc[p] # "off"
  /\ Goto(p, "off")
  /\ query' = [query EXCEPT ![p] = Blank]
  /\ keyInfo' = [keyInfo EXCEPT ![p] = NoRow]
  /\ known' = [known EXCEPT ![p] = {}] /\ present' = [present EXCEPT ![p] = {}]
  /\ UNCHANGED <<database, files>>

-------------------------------------------------------------------------------
(* `analyze`: one SELECT, so a function of the table. *)

(* Mutant: SUM(score * unique) is not multiplied by the number of rows. *)
NumeratorUnscaled(n, sumXY, sumX, sumY) == sumXY - sumX * sumY

Numerator(n, sumXY, sumX, sumY) == n * sumXY - sumX * sumY

(* SUM of a column, and of the product of two. *)
SumOf(f) == SumFunctionOnSet(f, DOMAIN table)
SumOfProduct(f, g) == SumFunction([k \in DOMAIN table |-> f[k] * g[k]])

(* GetAnalysisStats: the correlation as a fraction, its square root taken
   of the denominator; <<0, 1>> when there is none.  Where the code rounds, in
   the sums and in the root, this is exact.                                *)
Correlation ==
  LET n == Cardinality(DOMAIN table)
      X == SumOf(ScoreOf)       Y == SumOf(LettersOf)
      squared == (n * SumOfProduct(ScoreOf, ScoreOf) - X * X)
                   * (n * SumOfProduct(LettersOf, LettersOf) - Y * Y)
  IN  IF n > 0 /\ squared > 0
      THEN <<Numerator(n, SumOfProduct(ScoreOf, LettersOf), X, Y), squared>>
      ELSE <<0, 1>>

-------------------------------------------------------------------------------
Init ==
  /\ dialect \in Dialects
  /\ table = [k \in {} |-> NoRow] /\ nextId = 1
  /\ pc = [p \in Procs |-> "off"]
  /\ query = [p \in Procs |-> Blank]
  /\ keyInfo = [p \in Procs |-> NoRow]
  /\ files = [p \in Procs |-> NoFiles("none")]
  /\ known = [p \in Procs |-> {}] /\ present = [p \in Procs |-> {}]

Invocation(p) ==
  \/ Open(p) \/ AutoMigrate(p) \/ Backfill(p) \/ Setup(p) \/ Stop(p)
  \/ p \in Writers /\ (BatchCreate(p) \/ Upsert(p))
  \/ p \in Exporters /\ \/ Lookup(p) \/ Fallback(p)
                        \/ WritePublic(p) \/ WritePrivate(p)

Next ==
  \/ \E p \in Procs : Invocation(p)
  \/ \E k \in LegacyKeys, case \in Cases : LegacyInsert(k, case)

Spec == Init /\ [][Next]_vars

-------------------------------------------------------------------------------
(* Properties. *)

Names(q, k) == q.digits \in {k, Tail[k]}

(* The keys a lookup has to find: stored when it began, and migrated before or
   written so that the fallback matches them.                              *)
Sought(p) ==
  {k \in present[p] :
     /\ query[p].digits = k
     /\ \/ k \in known[p]
        \/ dialect = "sqlite" \/ table[k].fingerprint.case = "lower"}

(* repository.go:106-122, db.go:62-71: typed in either case, the digits of a
   key find that key whenever it was stored before the command connected,
   whatever version stored it and even if another command migrates the table
   between the two queries.  Without the migration the fallback still finds
   it, unless PostgreSQL compares an upper case fingerprint.  Only a key
   that ends with the digits is ever found.                                *)
LookupRight ==
  \A p \in Procs :
    /\ keyInfo[p] # NoRow => Names(query[p], keyInfo[p].key)
    /\ pc[p] = "missing" => Sought(p) = {}

(* repository.go:72-82: a row is the work of a single save, whichever save
   came first: its public key, encrypted private key, scores and vanity
   columns never mix two of them, and its id and its suffix are its own.   *)
RowWhole ==
  \A k \in DOMAIN table :
    LET row == table[k] IN
    /\ {row.private.of, row.scores, row.vanity} = {row.public.of}
    /\ row.suffix \in {Blank, Digits(k, "lower")}
    /\ row.suffix = Blank => k \in LegacyKeys
    /\ \A j \in DOMAIN table : table[j].id = row.id => j = k

(* A key that was stored stays stored under the same id and fingerprint: no
   later save, batch or migration replaces its row.                        *)
RowsKept ==
  [][\A k \in DOMAIN table :
       /\ k \in DOMAIN table'
       /\ table'[k].id = table[k].id
       /\ table'[k].fingerprint = table[k].fingerprint]_vars

(* key.go:95-129: a private key file never appears without its public one,
   and an export that reports success has left both, complete, of the same
   save and encrypted, whatever an earlier export left in the directory.   *)
ExportWhole ==
  \A p \in Procs :
    /\ files[p].private # NoFile => files[p].public # NoFile
    /\ pc[p] = "exported" =>
         /\ files[p].public = keyInfo[p].public
         /\ files[p].private.of = files[p].public.of
         /\ files[p].private.layers >= 1

Pairs == {s \in SUBSET DOMAIN table : Cardinality(s) = 2}

Difference(f, s) ==
  LET k == CHOOSE k \in s : TRUE
      j == CHOOSE j \in s : j # k
  IN  f[k] - f[j]

(* Summed over pairs of rows: how f and g differ together. *)
PairSum(f, g) == SumFunction([s \in Pairs |-> Difference(f, s) * Difference(g, s)])

(* repository.go:167-176: up to rounding, what analyze reports is Pearson's
   coefficient by its definition over pairs of rows, for scores of either
   sign; the five sums never make it a division by zero or more than 1.    *)
CorrelationRight ==
  LET squared == PairSum(ScoreOf, ScoreOf) * PairSum(LettersOf, LettersOf) IN
  /\ Correlation = IF squared = 0 THEN <<0, 1>>
                   ELSE <<PairSum(ScoreOf, LettersOf), squared>>
  /\ Correlation[1] * Correlation[1] <= Correlation[2]
================================================================================
