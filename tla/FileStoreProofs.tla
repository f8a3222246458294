---------------------------- MODULE FileStoreProofs ----------------------------
(***************************************************************************)
(* For every number of files, edits, calls and faults: versions of a file  *)
(* never share a number, no Save and no latest version is ever pruned,     *)
(* each edit is credited once, and what a snapshot restore replaces is in  *)
(* its safety snapshot or in a version.                                    *)
(*                                                                         *)
(* The argument: whoever holds checkpoint._lock is alone with the open     *)
(* transaction, and it stages a file once; so a staged version has a       *)
(* number above every committed one and a version marked as a Save is the  *)
(* latest.  Pruning runs without the lock: what it has read stays below    *)
(* the latest version and is never marked.                                 *)
(*                                                                         *)
(* At the end, the pure functions of FileHistory: for every history, every *)
(* division of lines and every two texts they return what they promise.    *)
(* A function given by recursion is taken step by step, by the least       *)
(* number at which a claim about it could fail.                            *)
(***************************************************************************)
EXTENDS FileStore, FiniteSetTheorems, TLAPS

Version == [n : Nat \ {0}, doc : Docs, save : BOOLEAN]

Tx == [rows : SUBSET (Files \X Version), marks : SUBSET (Files \X Nat), shares : SUBSET (Files \X Nat)]

Loop == [todo : SUBSET Files, file : Files \union {"none"}, pc : {"idle", "read", "stage", "commit"}]

Api == [op : {"idle", "save", "version", "snapshot"}, file : Files \union {"none"}, text : -1..MaxEdits,
        pc : {"idle", "next", "replace", "lock", "stage", "commit"}, todo : SUBSET Files,
        since : [Files -> Nat], from : [Files -> Nat]]

\* TypeOK, and the types of what it leaves open
Types ==
    /\ exists \subseteq Files
    /\ room \in [Files -> {"none", "cold", "live"}]
    /\ doc \in [Files -> Docs] /\ payload \in Docs
    /\ made \in [Files -> 0..MaxEdits]
    /\ window \in [Files -> SUBSET Nat] /\ pending \in [Files -> SUBSET Nat]
    /\ credited \in [Files -> SUBSET Nat]
    /\ versions \in [Files -> SUBSET Version]
    /\ snapshot \in [DOMAIN snapshot -> Docs] /\ DOMAIN snapshot \subseteq exists
    /\ DOMAIN safety \subseteq Files
    /\ lock \in {"free", "loop", "api"}
    /\ tx \in Tx /\ loop \in Loop /\ api \in Api
    /\ prune \subseteq Files \X Nat
    /\ calls \in 0..MaxCalls /\ faults \in 0..MaxFaults

\* The file that a call or the loop is at
Busy ==
    /\ loop.pc = "stage" => loop.file \in Files /\ loop.file \notin loop.todo
    /\ api.pc \in {"replace", "lock", "stage", "commit"} => api.file \in Files
    /\ api.op = "idle" => api.pc = "idle"

\* checkpoint._lock, and the transaction of its holder
LockInv ==
    /\ loop.pc # "idle" <=> lock = "loop"
    /\ api.pc \in {"stage", "commit"} <=> lock = "api"
    /\ lock = "free" \/ api.pc = "stage" => tx = NoTx

\* The loop has not staged the files it has not come to.
Unstaged ==
    \A r \in tx.rows : /\ lock = "loop" => r[1] \notin loop.todo
                       /\ loop.pc = "stage" => r[1] # loop.file

\* A file has a version with the largest number, if it has one at all.
HasLatest ==
    \A f \in Files : versions[f] # {} => \E v \in versions[f] : \A w \in versions[f] : w.n <= v.n

\* A staged version is the file's only one, and later than all the committed ones.
RowsAreNew ==
    /\ \A r, q \in tx.rows : r[1] = q[1] => r = q
    /\ \A r \in tx.rows : \A v \in versions[r[1]] : v.n < r[2].n

\* What is about to become a Save is the latest version.
MarksAreLatest == \A m \in tx.marks : \A v \in versions[m[1]] : v.n <= m[2]

\* What is about to be pruned is neither the latest version nor a Save.
PruneIsOld ==
    \A p \in prune : /\ \E v \in versions[p[1]] : p[2] < v.n
                     /\ \A v \in versions[p[1]] : v.n = p[2] => ~v.save

\* Edits are numbered as they are made.
Edits == \A f \in Files : window[f] \union pending[f] \union Staged(f) \union credited[f] \subseteq 1..made[f]

\* Versions, committed, staged and about to be pruned
History == HasLatest /\ VersionsAreNumbered /\ RowsAreNew /\ MarksAreLatest /\ PruneIsOld

Credit == Edits /\ CreditedOnce

\* The inductive invariant
IInv == Types /\ Busy /\ LockInv /\ Unstaged /\ History /\ Credit
-----------------------------------------------------------------------------
(* Versions *)

LEMMA LatestIsLargest ==
    ASSUME HasLatest, NEW f \in Files, versions[f] # {}
    PROVE  Latest(f) \in versions[f] /\ \A w \in versions[f] : w.n <= Latest(f).n
BY DEF HasLatest, Latest

LEMMA DocsTyped ==
    ASSUME NEW e \in 0..MaxEdits, NEW t \in -1..MaxEdits
    PROVE  Empty \in Docs /\ Unread \in Docs /\ [edit |-> e, text |-> t] \in Docs
BY FileStoreAssumption DEF Docs, Empty, Unread

LEMMA LatestDocTyped ==
    ASSUME Types, HasLatest, NEW f \in Files
    PROVE  LatestDoc(f) \in Docs
<1>1. Empty \in Docs
  BY FileStoreAssumption DEF Docs, Empty
<1>2. CASE versions[f] # {}
  <2>1. Latest(f) \in Version
    BY <1>2, LatestIsLargest DEF Types
  <2> QED BY <1>2, <2>1 DEF LatestDoc, Version
<1> QED BY <1>1, <1>2 DEF LatestDoc

\* Staging a file: at most one new version, numbered after the latest; at most one
\* mark, of the latest.
LEMMA StagedRows ==
    ASSUME Types, HasLatest, NEW f \in Files, NEW saving \in BOOLEAN
    PROVE  /\ NewRows(f, saving) \subseteq Files \X Version
           /\ \A r, q \in NewRows(f, saving) : r = q
           /\ \A r \in NewRows(f, saving) : r[1] = f /\ \A v \in versions[f] : v.n < r[2].n
           /\ Marks(f, saving) \subseteq Files \X Nat
           /\ \A m \in Marks(f, saving) : m[1] = f /\ \A v \in versions[f] : v.n <= m[2]
<1>1. CASE versions[f] = {}
  <2>1. Marks(f, saving) = {}
    BY <1>1 DEF Marks
  <2>2. NewRows(f, saving) = {<<f, [n |-> 1, doc |-> payload, save |-> saving]>>}
    BY <1>1 DEF NewRows
  <2>3. [n |-> 1, doc |-> payload, save |-> saving] \in Version
    BY DEF Types, Version
  <2> QED BY <1>1, <2>1, <2>2, <2>3
<1>2. CASE versions[f] # {}
  <2>1. Latest(f) \in versions[f] /\ \A w \in versions[f] : w.n <= Latest(f).n
    BY <1>2, LatestIsLargest
  <2>2. Latest(f).n \in Nat /\ \A v \in versions[f] : v.n \in Nat
    BY <2>1 DEF Types, Version
  <2> DEFINE row == [n |-> Latest(f).n + 1, doc |-> payload, save |-> saving]
  <2>3. row \in Version /\ row.n = Latest(f).n + 1
    BY <2>2 DEF Types, Version
  <2> HIDE DEF row
  <2>4. NewRows(f, saving) \subseteq {<<f, row>>}
    BY <1>2 DEF NewRows, row
  <2>5. Marks(f, saving) \subseteq {<<f, Latest(f).n>>}
    BY DEF Marks
  <2>6. \A v \in versions[f] : v.n < row.n
    BY <2>1, <2>2, <2>3
  <2> QED BY <2>1, <2>2, <2>3, <2>4, <2>5, <2>6
<1> QED BY <1>1, <1>2

\* _checkpoint_room, on a file that the transaction does not touch yet
LEMMA StageHistory ==
    ASSUME Types, History, NEW f \in Files, NEW saving \in BOOLEAN, NEW closed \in BOOLEAN,
           StageRoom(f, saving, closed), UNCHANGED <<versions, prune>>,
           \A r \in tx.rows : r[1] # f
    PROVE  History' /\ tx' \in Tx /\ \A r \in tx'.rows : r \in tx.rows \/ r[1] = f
<1>1. tx'.rows = tx.rows \union NewRows(f, saving) /\ tx'.marks = tx.marks \union Marks(f, saving)
  BY DEF StageRoom
<1>2. HasLatest
  BY DEF History
<1>3. RowsAreNew'
  BY <1>1, <1>2, StagedRows DEF History, RowsAreNew
<1>4. MarksAreLatest'
  BY <1>1, <1>2, StagedRows DEF History, MarksAreLatest
<1>5. HasLatest' /\ VersionsAreNumbered' /\ PruneIsOld'
  BY DEF History, HasLatest, VersionsAreNumbered, PruneIsOld
<1>6. tx' \in Tx
  <2>1. pending[f] \union window[f] \subseteq Nat
    BY DEF Types
  <2>2. {f} \X (pending[f] \union window[f]) \subseteq Files \X Nat
    BY <2>1
  <2>3. /\ tx.rows \subseteq Files \X Version /\ tx.marks \subseteq Files \X Nat
        /\ tx.shares \subseteq Files \X Nat
    BY DEF Types, Tx
  <2>4. /\ tx.rows \union NewRows(f, saving) \subseteq Files \X Version
        /\ tx.marks \union Marks(f, saving) \subseteq Files \X Nat
        /\ tx.shares \union (IF closed THEN {f} \X (pending[f] \union window[f]) ELSE {}) \subseteq Files \X Nat
    BY <1>2, <2>2, <2>3, StagedRows
  <2> QED BY <2>4 DEF StageRoom, Tx
<1>7. \A r \in tx'.rows : r \in tx.rows \/ r[1] = f
  BY <1>1, <1>2, StagedRows
<1> QED BY <1>3, <1>4, <1>5, <1>6, <1>7 DEF History

\* A version after a commit
Marked(f, v) == IF <<f, v.n>> \in tx.marks THEN [v EXCEPT !.save = TRUE] ELSE v

LEMMA MarkedIs ==
    ASSUME Types, NEW f \in Files, NEW v \in Version
    PROVE  /\ Marked(f, v) \in Version /\ Marked(f, v).n = v.n /\ Marked(f, v).doc = v.doc
           /\ v.save => Marked(f, v).save
           /\ Marked(f, v).save => v.save \/ <<f, v.n>> \in tx.marks
<1>1. v.n \in Nat /\ v.doc \in Docs /\ v.save \in BOOLEAN /\ v = [n |-> v.n, doc |-> v.doc, save |-> v.save]
  BY DEF Version
<1> DEFINE w == [v EXCEPT !.save = TRUE]
<1>2. w \in Version /\ w.n = v.n /\ w.doc = v.doc /\ w.save
  BY DEF Version
<1> HIDE DEF w
<1> QED BY <1>2 DEF Marked, w

LEMMA CommittedIs ==
    ASSUME Types, NEW f \in Files
    PROVE  /\ \A v \in versions[f] : Marked(f, v) \in Committed(f)
           /\ \A r \in tx.rows : r[1] = f => r[2] \in Committed(f)
           /\ \A w \in Committed(f) : \/ \E v \in versions[f] : w = Marked(f, v)
                                      \/ <<f, w>> \in tx.rows
           /\ Committed(f) \subseteq Version
<1>1. Committed(f) = {Marked(f, v) : v \in versions[f]} \union {r[2] : r \in {q \in tx.rows : q[1] = f}}
  BY DEF Committed, Marked
<1>2. \A r \in tx.rows : r = <<r[1], r[2]>> /\ r[2] \in Version
  BY DEF Types, Tx
<1>3. \A v \in versions[f] : Marked(f, v) \in Version
  BY MarkedIs DEF Types
<1> QED BY <1>1, <1>2, <1>3

\* What a commit keeps of every version: a part of SavesAreKept
LEMMA CommitKeeps ==
    ASSUME Types, NEW ok \in BOOLEAN, EndTx(ok), NEW f \in Files, NEW v \in versions[f]
    PROVE  \E w \in versions'[f] : w.n = v.n /\ w.doc = v.doc /\ (v.save => w.save)
<1>1. v \in Version
  BY DEF Types
<1>2. CASE ok
  <2>1. versions'[f] = Committed(f)
    BY <1>2 DEF EndTx
  <2> QED BY <1>1, <2>1, CommittedIs, MarkedIs
<1>3. CASE ~ok
  BY <1>3 DEF EndTx
<1> QED BY <1>2, <1>3

LEMMA EndTxHistory ==
    ASSUME Types, History, NEW ok \in BOOLEAN, EndTx(ok), prune' = prune
    PROVE  History' /\ versions' \in [Files -> SUBSET Version] /\ tx' = NoTx
<1>0. tx' = NoTx /\ NoTx.rows = {} /\ NoTx.marks = {}
  BY DEF EndTx, NoTx
<1>1. RowsAreNew' /\ MarksAreLatest'
  BY <1>0 DEF RowsAreNew, MarksAreLatest
<1>2. CASE ~ok
  <2>1. versions' = versions
    BY <1>2 DEF EndTx
  <2> QED BY <1>0, <1>1, <2>1 DEF History, HasLatest, VersionsAreNumbered, PruneIsOld, Types
<1>3. CASE ok
  <2>0. \A f \in Files : versions'[f] = Committed(f)
    BY <1>3 DEF EndTx
  <2>1. versions' \in [Files -> SUBSET Version]
    <3>1. versions' = [f \in Files |-> Committed(f)]
      BY <1>3 DEF EndTx
    <3> QED BY <3>1, CommittedIs
  <2>2. ASSUME NEW f \in Files PROVE \A v \in versions[f] : v \in Version /\ v.n \in Nat
    BY DEF Types, Version
  <2>3. ASSUME NEW r \in tx.rows PROVE r = <<r[1], r[2]>> /\ r[1] \in Files /\ r[2] \in Version /\ r[2].n \in Nat
    BY DEF Types, Tx, Version
  <2>4. HasLatest'
    <3> SUFFICES ASSUME NEW f \in Files, Committed(f) # {}
                 PROVE  \E w \in Committed(f) : \A u \in Committed(f) : u.n <= w.n
      BY <2>0 DEF HasLatest
    <3>1. CASE \E r \in tx.rows : r[1] = f
      <4>1. PICK r \in tx.rows : r[1] = f
        BY <3>1
      <4>2. r[2] \in Committed(f) /\ r[2].n \in Nat
        BY <4>1, <2>3, CommittedIs
      <4>3. ASSUME NEW u \in Committed(f) PROVE u.n <= r[2].n
        <5>1. CASE \E v \in versions[f] : u = Marked(f, v)
          <6>1. PICK v \in versions[f] : u = Marked(f, v)
            BY <5>1
          <6>2. v.n < r[2].n /\ u.n = v.n /\ v.n \in Nat
            BY <2>2, <4>1, <6>1, MarkedIs DEF History, RowsAreNew
          <6> QED BY <4>2, <6>2
        <5>2. CASE <<f, u>> \in tx.rows
          <6>1. <<f, u>> = r
            BY <4>1, <5>2 DEF History, RowsAreNew
          <6>2. u = r[2]
            BY <6>1
          <6> QED BY <4>2, <6>2
        <5> QED BY <5>1, <5>2, CommittedIs
      <4> QED BY <4>2, <4>3
    <3>2. CASE \A r \in tx.rows : r[1] # f
      <4>1. \A u \in Committed(f) : \E v \in versions[f] : u = Marked(f, v)
        <5>1. \A u : <<f, u>> \notin tx.rows
          BY <3>2
        <5> QED BY <5>1, CommittedIs
      <4>2. PICK v \in versions[f] : \A x \in versions[f] : x.n <= v.n
        BY <4>1 DEF History, HasLatest
      <4>3. Marked(f, v) \in Committed(f)
        BY CommittedIs
      <4>4. ASSUME NEW u \in Committed(f) PROVE u.n <= Marked(f, v).n
        <5>1. PICK x \in versions[f] : u = Marked(f, x)
          BY <4>1
        <5> QED BY <2>2, <4>2, <5>1, MarkedIs
      <4> QED BY <4>3, <4>4
    <3> QED BY <3>1, <3>2
  <2>5. VersionsAreNumbered'
    <3> SUFFICES ASSUME NEW f \in Files, NEW u \in Committed(f), NEW w \in Committed(f), u.n = w.n
                 PROVE  u = w
      BY <2>0 DEF VersionsAreNumbered
    <3>1. CASE <<f, u>> \in tx.rows /\ <<f, w>> \in tx.rows
      <4>1. <<f, u>> = <<f, w>>
        BY <3>1 DEF History, RowsAreNew
      <4> QED BY <4>1
    <3>2. ASSUME NEW a \in Committed(f), NEW b \in Committed(f), <<f, a>> \in tx.rows,
                 NEW v \in versions[f], b = Marked(f, v), a.n = b.n
          PROVE  FALSE
      <4>1. v.n < a.n /\ b.n = v.n /\ v.n \in Nat
        BY <2>2, <3>2, MarkedIs DEF History, RowsAreNew
      <4> QED BY <3>2, <4>1
    <3>3. CASE (\E v \in versions[f] : u = Marked(f, v)) /\ (\E v \in versions[f] : w = Marked(f, v))
      <4>1. PICK x \in versions[f] : u = Marked(f, x)
        BY <3>3
      <4>2. PICK y \in versions[f] : w = Marked(f, y)
        BY <3>3
      <4>3. x.n = y.n
        BY <2>2, <4>1, <4>2, MarkedIs
      <4>4. x = y
        BY <4>3 DEF History, VersionsAreNumbered
      <4> QED BY <4>1, <4>2, <4>4
    <3> QED BY <3>1, <3>2, <3>3, CommittedIs
  <2>6. PruneIsOld'
    <3> SUFFICES ASSUME NEW p \in prune
                 PROVE  /\ \E w \in versions'[p[1]] : p[2] < w.n
                        /\ \A w \in versions'[p[1]] : w.n = p[2] => ~w.save
      BY DEF PruneIsOld
    <3> DEFINE f == p[1]
    <3>1. f \in Files /\ p[2] \in Nat
      BY DEF Types
    <3>2. PICK v \in versions[f] : p[2] < v.n
      BY DEF History, PruneIsOld
    <3>3. \E w \in Committed(f) : p[2] < w.n
      BY <2>2, <3>1, <3>2, CommittedIs, MarkedIs
    <3>4. ASSUME NEW w \in Committed(f), w.n = p[2] PROVE ~w.save
      <4>1. CASE <<f, w>> \in tx.rows
        <5>1. v.n < w.n /\ v.n \in Nat
          BY <2>2, <3>1, <4>1 DEF History, RowsAreNew
        <5> QED BY <3>1, <3>2, <3>4, <5>1
      <4>2. CASE \E x \in versions[f] : w = Marked(f, x)
        <5>1. PICK x \in versions[f] : w = Marked(f, x)
          BY <4>2
        <5>2. x.n = p[2] /\ ~x.save /\ x \in Version
          BY <2>2, <3>1, <3>4, <5>1, MarkedIs DEF History, PruneIsOld
        <5>3. <<f, x.n>> \notin tx.marks
          <6> SUFFICES ASSUME <<f, x.n>> \in tx.marks PROVE FALSE
            OBVIOUS
          <6>1. v.n <= x.n
            BY <3>2 DEF History, MarksAreLatest
          <6> QED BY <2>2, <3>1, <3>2, <5>2, <6>1
        <5> QED BY <3>1, <5>1, <5>2, <5>3, MarkedIs
      <4> QED BY <3>1, <4>1, <4>2, CommittedIs
    <3> QED BY <2>0, <3>1, <3>3, <3>4
  <2> QED BY <1>0, <1>1, <2>1, <2>4, <2>5, <2>6 DEF History
<1> QED BY <1>2, <1>3

LEMMA PruneReadHistory ==
    ASSUME Types, History, PruneRead
    PROVE  History' /\ prune' \subseteq Files \X Nat
<1>0. versions' = versions /\ tx' = tx
  BY DEF PruneRead, rowVars, txVars
<1>1. PICK f \in Files : prune' = {f} \X {v.n : v \in Prunable(f)}
  BY DEF PruneRead
<1>2. \A v \in versions[f] : v.n \in Nat
  BY DEF Types, Version
<1>3. prune' \subseteq Files \X Nat
  BY <1>1, <1>2 DEF Prunable
<1>4. ASSUME NEW p \in prune' PROVE /\ \E v \in versions[p[1]] : p[2] < v.n
                                    /\ \A v \in versions[p[1]] : v.n = p[2] => ~v.save
  <2>1. p[1] = f
    BY <1>1
  <2>2. PICK v \in Prunable(f) : p[2] = v.n
    BY <1>1
  <2>3. v \in versions[f] /\ ~v.save /\ v # Latest(f)
    BY DEF Prunable
  <2>4. Latest(f) \in versions[f] /\ v.n <= Latest(f).n
    BY <2>3, LatestIsLargest DEF History
  <2>5. v.n # Latest(f).n
    BY <2>3, <2>4 DEF History, VersionsAreNumbered
  <2>6. v.n < Latest(f).n
    BY <1>2, <2>3, <2>4, <2>5
  <2>7. \A w \in versions[f] : w.n = v.n => w = v
    BY <2>3 DEF History, VersionsAreNumbered
  <2> QED BY <2>1, <2>2, <2>3, <2>4, <2>6, <2>7
<1>5. PruneIsOld'
  BY <1>0, <1>4 DEF PruneIsOld
<1> QED BY <1>0, <1>3, <1>5 DEF History, HasLatest, VersionsAreNumbered, RowsAreNew, MarksAreLatest

\* What pruning keeps: a Save and the latest version, the other part of SavesAreKept
LEMMA PruneKeeps ==
    ASSUME Types, History, PruneDelete, NEW f \in Files, NEW v \in versions[f],
           v.save \/ v = Latest(f)
    PROVE  v \in versions'[f]
<1>1. versions'[f] = {w \in versions[f] : <<f, w.n>> \notin prune}
  BY DEF PruneDelete
<1>2. \A w \in versions[f] : w.n \in Nat
  BY DEF Types, Version
<1>3. ASSUME <<f, v.n>> \in prune PROVE FALSE
  <2>1. (\E w \in versions[f] : v.n < w.n) /\ ~v.save
    BY <1>3 DEF History, PruneIsOld
  <2>2. v = Latest(f)
    BY <2>1
  <2>3. \A w \in versions[f] : w.n <= v.n
    BY <2>2, LatestIsLargest DEF History
  <2> QED BY <1>2, <2>1, <2>3
<1> QED BY <1>1, <1>3

LEMMA PruneDeleteHistory ==
    ASSUME Types, History, PruneDelete
    PROVE  History' /\ versions' \in [Files -> SUBSET Version]
<1>0. prune' = {} /\ tx' = tx
      /\ versions' = [f \in Files |-> {v \in versions[f] : <<f, v.n>> \notin prune}]
  BY DEF PruneDelete, txVars
<1>1. \A f \in Files : versions'[f] \subseteq versions[f]
  BY <1>0
<1>2. HasLatest'
  <2> SUFFICES ASSUME NEW f \in Files, versions'[f] # {}
               PROVE  \E v \in versions'[f] : \A w \in versions'[f] : w.n <= v.n
    BY DEF HasLatest
  <2>1. Latest(f) \in versions[f] /\ \A w \in versions[f] : w.n <= Latest(f).n
    BY <1>1, LatestIsLargest DEF History
  <2>2. Latest(f) \in versions'[f]
    BY <2>1, PruneKeeps
  <2> QED BY <1>1, <2>1, <2>2
<1>3. \A r \in tx.rows \union tx.marks : r[1] \in Files
  BY DEF Types, Tx
<1>4. VersionsAreNumbered' /\ RowsAreNew' /\ MarksAreLatest' /\ PruneIsOld'
  BY <1>0, <1>1, <1>3 DEF History, VersionsAreNumbered, RowsAreNew, MarksAreLatest, PruneIsOld
<1>5. versions' \in [Files -> SUBSET Version]
  BY <1>0, <1>1 DEF Types
<1> QED BY <1>2, <1>4, <1>5 DEF History
-----------------------------------------------------------------------------
(* Credit *)

LEMMA StagedIs ==
    ASSUME tx \in Tx, NEW f, NEW x
    PROVE  x \in Staged(f) <=> <<f, x>> \in tx.shares
<1>1. \A s \in tx.shares : s = <<s[1], s[2]>>
  BY DEF Tx
<1> QED BY <1>1 DEF Staged

\* A step that moves no edit; a fault only weakens what is claimed
LEMMA SameCredit ==
    ASSUME Types, Credit, UNCHANGED <<window, pending, credited, made>>, tx'.shares = tx.shares,
           faults' = faults \/ faults' # 0, exists' \subseteq exists
    PROVE  Credit'
<1>1. \A f : Staged(f)' = Staged(f)
  BY DEF Staged
<1>2. exists' = Files => exists = Files
  BY DEF Types
<1>3. Edits'
  BY <1>1 DEF Credit, Edits
<1>4. CreditedOnce'
  BY <1>1, <1>2 DEF Credit, CreditedOnce
<1> QED BY <1>3, <1>4 DEF Credit

\* apply_edit: the new edit is in the window and nowhere else.
LEMMA EditCredit ==
    ASSUME Types, Credit, NEW g \in Files, NEW text, ApplyEdit(g, text),
           UNCHANGED <<pending, credited, tx, exists, faults>>
    PROVE  Credit' /\ made' \in [Files -> 0..MaxEdits] /\ window' \in [Files -> SUBSET Nat]
<1>0. made[g] \in Nat /\ MaxEdits \in Nat /\ made[g] < MaxEdits
  BY FileStoreAssumption DEF Types, ApplyEdit
<1>1. \A f \in Files : /\ made'[f] = (IF f = g THEN made[g] + 1 ELSE made[f])
                       /\ window'[f] = (IF f = g THEN window[g] \union {made[g] + 1} ELSE window[f])
  BY DEF Types, ApplyEdit
<1>2. \A f : Staged(f)' = Staged(f)
  BY DEF Staged
<1>3. 1..(made[g] + 1) = (1..made[g]) \union {made[g] + 1} /\ made[g] + 1 \notin 1..made[g]
  BY <1>0
<1>4. Edits'
  BY <1>1, <1>2, <1>3 DEF Credit, Edits
<1>5. CreditedOnce'
  <2> SUFFICES ASSUME NEW f \in Files
               PROVE  /\ window'[f] \cap pending[f] = {}
                      /\ (window'[f] \union pending[f]) \cap (Staged(f) \union credited[f]) = {}
                      /\ Staged(f) \cap credited[f] = {}
                      /\ faults = 0 /\ exists = Files =>
                           1..made'[f] = window'[f] \union pending[f] \union Staged(f) \union credited[f]
    BY <1>2 DEF CreditedOnce
  <2>1. CASE f # g
    BY <1>1, <2>1 DEF Credit, CreditedOnce
  <2>2. CASE f = g
    <3>1. made[g] + 1 \notin pending[g] \union Staged(g) \union credited[g]
      BY <1>3 DEF Credit, Edits
    <3>2. window'[g] = window[g] \union {made[g] + 1} /\ 1..made'[g] = (1..made[g]) \union {made[g] + 1}
      BY <1>1, <1>3
    <3>3. faults = 0 /\ exists = Files =>
            1..made'[g] = window'[g] \union pending[g] \union Staged(g) \union credited[g]
      <4> SUFFICES ASSUME faults = 0 /\ exists = Files
                   PROVE  1..made'[g] = window'[g] \union pending[g] \union Staged(g) \union credited[g]
        OBVIOUS
      <4>1. 1..made[g] = window[g] \union pending[g] \union Staged(g) \union credited[g]
        BY DEF Credit, CreditedOnce
      <4> QED BY <3>2, <4>1
    <3> QED BY <2>2, <3>1, <3>2, <3>3 DEF Credit, CreditedOnce
  <2> QED BY <2>1, <2>2
<1>6. made' \in [Files -> 0..MaxEdits]
  BY <1>0 DEF Types, ApplyEdit
<1>7. window' \in [Files -> SUBSET Nat]
  BY <1>0 DEF Types, ApplyEdit
<1> QED BY <1>4, <1>5, <1>6, <1>7 DEF Credit

\* close_window moves edits from the window to what is pending.
LEMMA SwitchCredit ==
    ASSUME Types, Credit, NEW g \in Files, SwitchAuthor(g)
    PROVE  Credit' /\ pending' \in [Files -> SUBSET Nat] /\ window' \in [Files -> SUBSET Nat]
<1>1. \A f \in Files : /\ pending'[f] = (IF f = g THEN pending[g] \union window[g] ELSE pending[f])
                       /\ window'[f] = (IF f = g THEN {} ELSE window[f])
  BY DEF Types, SwitchAuthor
<1>2. \A f : Staged(f)' = Staged(f)
  BY DEF Staged, SwitchAuthor, txVars
<1>3. UNCHANGED <<made, credited, exists, faults>>
  BY DEF SwitchAuthor, rowVars, NoFault
<1>4. Edits'
  BY <1>1, <1>2, <1>3 DEF Credit, Edits
<1>5. CreditedOnce'
  <2> SUFFICES ASSUME NEW f \in Files
               PROVE  /\ window'[f] \cap pending'[f] = {}
                      /\ (window'[f] \union pending'[f]) \cap (Staged(f) \union credited[f]) = {}
                      /\ Staged(f) \cap credited[f] = {}
                      /\ faults = 0 /\ exists = Files =>
                           1..made[f] = window'[f] \union pending'[f] \union Staged(f) \union credited[f]
    BY <1>2, <1>3 DEF CreditedOnce
  <2>1. window'[f] \union pending'[f] = window[f] \union pending[f] /\ window'[f] \cap pending'[f] = {}
    BY <1>1 DEF Credit, CreditedOnce
  <2> QED BY <2>1 DEF Credit, CreditedOnce
<1>6. pending' \in [Files -> SUBSET Nat] /\ window' \in [Files -> SUBSET Nat]
  BY DEF Types, SwitchAuthor
<1> QED BY <1>4, <1>5, <1>6 DEF Credit

\* take_pending moves them on into the transaction.
LEMMA StageCredit ==
    ASSUME Types, Credit, NEW g \in Files, NEW saving \in BOOLEAN, NEW closed \in BOOLEAN,
           StageRoom(g, saving, closed), tx' \in Tx, UNCHANGED <<made, credited, exists, faults>>
    PROVE  Credit' /\ pending' \in [Files -> SUBSET Nat] /\ window' \in [Files -> SUBSET Nat]
<1>0. pending' \in [Files -> SUBSET Nat] /\ window' \in [Files -> SUBSET Nat]
  BY DEF Types, StageRoom, StillPending
<1>1. CASE ~closed
  <2>1. pending' = pending /\ window' = window
    BY <1>1 DEF Types, StageRoom, StillPending
  <2>2. tx'.shares = tx.shares
    BY <1>1 DEF StageRoom
  <2> QED BY <1>0, <2>1, <2>2, SameCredit
<1>2. CASE closed
  <2>1. \A f \in Files : /\ pending'[f] = (IF f = g THEN {} ELSE pending[f])
                         /\ window'[f] = (IF f = g THEN {} ELSE window[f])
    BY <1>2 DEF Types, StageRoom, StillPending
  <2>2. tx'.shares = tx.shares \union ({g} \X (pending[g] \union window[g]))
    BY <1>2 DEF StageRoom
  <2>3. \A f \in Files : \A x : x \in Staged(f)' <=> x \in Staged(f) \/ (f = g /\ x \in pending[g] \union window[g])
    <3> SUFFICES ASSUME NEW f \in Files, NEW x
                 PROVE  x \in Staged(f)' <=> x \in Staged(f) \/ (f = g /\ x \in pending[g] \union window[g])
      OBVIOUS
    <3>1. x \in Staged(f) <=> <<f, x>> \in tx.shares
      BY StagedIs DEF Types
    <3>2. \A s \in tx'.shares : s = <<s[1], s[2]>>
      BY DEF Tx
    <3>3. x \in Staged(f)' <=> <<f, x>> \in tx'.shares
      BY <3>2 DEF Staged
    <3> QED BY <2>2, <3>1, <3>3
  <2>4. Edits'
    BY <2>1, <2>3 DEF Credit, Edits
  <2>5. CreditedOnce'
    <3> SUFFICES ASSUME NEW f \in Files
                 PROVE  /\ window'[f] \cap pending'[f] = {}
                        /\ (window'[f] \union pending'[f]) \cap (Staged(f)' \union credited[f]) = {}
                        /\ Staged(f)' \cap credited[f] = {}
                        /\ faults = 0 /\ exists = Files =>
                             1..made[f] = window'[f] \union pending'[f] \union Staged(f)' \union credited[f]
      BY DEF CreditedOnce
    <3>1. CASE f # g
      <4>1. Staged(f)' = Staged(f)
        BY <2>3, <3>1
      <4> QED BY <2>1, <3>1, <4>1 DEF Credit, CreditedOnce
    <3>2. CASE f = g
      <4>1. Staged(f)' = Staged(f) \union pending[f] \union window[f] /\ pending'[f] = {} /\ window'[f] = {}
        BY <2>1, <2>3, <3>2
      <4> QED BY <4>1 DEF Credit, CreditedOnce
    <3> QED BY <3>1, <3>2
  <2> QED BY <1>0, <2>4, <2>5 DEF Credit
<1> QED BY <1>1, <1>2

\* A commit credits what is staged; without a fault and a deleted file it succeeds.
LEMMA EndTxCredit ==
    ASSUME Types, Credit, NEW ok \in BOOLEAN, EndTx(ok), UNCHANGED <<window, pending, made>>,
           faults' = faults \/ faults' # 0, ok \/ ~TxValid \/ faults' # 0
    PROVE  Credit' /\ credited' \in [Files -> SUBSET Nat]
<1>0. exists' = exists /\ tx' = NoTx
  BY DEF EndTx
<1>1. \A f : Staged(f)' = {}
  BY <1>0 DEF Staged, NoTx
<1>s. \A f \in Files : Staged(f) \subseteq Nat
  <2>1. \A s \in tx.shares : s[2] \in Nat
    BY DEF Types, Tx
  <2> QED BY <2>1 DEF Staged
<1>2. CASE ok
  <2>1. \A f \in Files : credited'[f] = credited[f] \union Staged(f)
    BY <1>2 DEF EndTx, Staged
  <2>2. Edits'
    BY <1>1, <2>1 DEF Credit, Edits
  <2>3. CreditedOnce'
    BY <1>0, <1>1, <2>1 DEF Credit, CreditedOnce
  <2>4. credited' \in [Files -> SUBSET Nat]
    <3>1. credited' = [f \in Files |-> credited[f] \union Staged(f)]
      BY <1>2 DEF EndTx, Staged
    <3>2. \A f \in Files : credited[f] \subseteq Nat
      BY DEF Types
    <3> QED BY <1>s, <3>1, <3>2
  <2> QED BY <2>2, <2>3, <2>4 DEF Credit
<1>3. CASE ~ok
  <2>1. credited' = credited
    BY <1>3 DEF EndTx
  <2>2. ~(faults' = 0 /\ exists' = Files)
    <3>1. \A r \in tx.rows \union tx.shares : r[1] \in Files
      BY DEF Types, Tx
    <3> QED BY <1>0, <1>3, <3>1 DEF TxValid
  <2>3. Edits'
    BY <1>1, <2>1 DEF Credit, Edits
  <2>4. CreditedOnce'
    BY <1>1, <2>1, <2>2 DEF Credit, CreditedOnce
  <2> QED BY <2>1, <2>3, <2>4 DEF Credit, Types
<1> QED BY <1>2, <1>3

\* A room is dropped, or all of them: a fault, after which edits may be missing.
LEMMA DroppedCredit ==
    ASSUME Types, Credit, faults' # 0, UNCHANGED <<made, credited>>, tx' = tx \/ tx' = NoTx,
           \A f \in Files : window'[f] \subseteq window[f] /\ pending'[f] \subseteq pending[f]
    PROVE  Credit'
<1>1. \A f : Staged(f)' \subseteq Staged(f)
  BY DEF Staged, NoTx
<1>2. Edits'
  BY <1>1 DEF Credit, Edits
<1>3. CreditedOnce'
  <2> SUFFICES ASSUME NEW f \in Files
               PROVE  /\ window'[f] \cap pending'[f] = {}
                      /\ (window'[f] \union pending'[f]) \cap (Staged(f)' \union credited[f]) = {}
                      /\ Staged(f)' \cap credited[f] = {}
    BY DEF CreditedOnce
  <2> QED BY <1>1 DEF Credit, CreditedOnce
<1> QED BY <1>2, <1>3 DEF Credit
-----------------------------------------------------------------------------
(* Steps *)

\* Who is at which file, and who has the lock
Places == Busy /\ LockInv /\ Unstaged

LEMMA IdleTyped == IdleApi \in Api /\ IdleLoop \in Loop /\ NoTx \in Tx /\ DOMAIN None = {}
                   /\ Empty \in Docs /\ Unread \in Docs
<1>1. [f \in Files |-> 0] \in [Files -> Nat] /\ 0 \in -1..MaxEdits
  BY FileStoreAssumption
<1>2. IdleApi \in Api
  BY <1>1 DEF IdleApi, Api
<1>3. IdleLoop \in Loop /\ NoTx \in Tx /\ DOMAIN None = {}
  BY DEF IdleLoop, Loop, NoTx, Tx, None
<1>4. Empty \in Docs /\ Unread \in Docs
  BY FileStoreAssumption DEF Docs, Empty, Unread
<1> QED BY <1>2, <1>3, <1>4

LEMMA SameHistory ==
    ASSUME History, UNCHANGED <<versions, tx, prune>>
    PROVE  History'
BY DEF History, HasLatest, VersionsAreNumbered, RowsAreNew, MarksAreLatest, PruneIsOld

LEMMA SamePlaces ==
    ASSUME Places, UNCHANGED <<loop, api, lock, tx>>
    PROVE  Places'
BY DEF Places, Busy, LockInv, Unstaged

LEMMA FaultTyped ==
    ASSUME Types, Fault
    PROVE  faults' \in 0..MaxFaults /\ faults' # 0
BY FileStoreAssumption DEF Types, Fault

LEMMA CallTyped ==
    ASSUME Types, NewCall
    PROVE  calls' \in 0..MaxCalls
BY FileStoreAssumption DEF Types, NewCall

LEMMA RegisterTyped ==
    ASSUME Types, NEW f \in Files, Register(f)
    PROVE  room' \in [Files -> {"none", "cold", "live"}]
BY DEF Types, Register

LEMMA InitInv == Init => IInv
<1> SUFFICES ASSUME Init PROVE IInv
  OBVIOUS
<1> USE FileStoreAssumption DEF Init
<1>1. Types
  <2>1. 0 \in 0..MaxCalls /\ 0 \in 0..MaxFaults /\ 0 \in 0..MaxEdits
    OBVIOUS
  <2>2. snapshot \in [DOMAIN snapshot -> Docs] /\ DOMAIN snapshot = {}
    BY IdleTyped DEF None
  <2>3. window \in [Files -> SUBSET Nat] /\ pending \in [Files -> SUBSET Nat] /\ credited \in [Files -> SUBSET Nat]
        /\ versions \in [Files -> SUBSET Version]
    OBVIOUS
  <2> QED BY <2>1, <2>2, <2>3, IdleTyped DEF Types
<1>2. Busy /\ LockInv /\ Unstaged
  BY DEF Busy, LockInv, Unstaged, IdleLoop, IdleApi, NoTx
<1>3. History
  BY DEF History, HasLatest, VersionsAreNumbered, RowsAreNew, MarksAreLatest, PruneIsOld, NoTx
<1>4. Credit
  <2>1. \A f : Staged(f) = {}
    BY DEF Staged, NoTx
  <2>2. 1..0 = {}
    OBVIOUS
  <2> QED BY <2>1, <2>2 DEF Credit, Edits, CreditedOnce
<1> QED BY <1>1, <1>2, <1>3, <1>4 DEF IInv

\* Rooms are opened, loaded, edited and dropped; nobody's place changes.
LEMMA RoomStep ==
    ASSUME Types, Places, History, Credit, NEW f \in Files,
           OpenFile(f) \/ Hydrate(f) \/ Type(f) \/ SwitchAuthor(f) \/ Evict(f)
    PROVE  Types' /\ Places' /\ History' /\ Credit'
<1>0. UNCHANGED <<exists, credited, versions, snapshot, safety, lock, payload, tx, loop, api, calls, prune>>
  BY DEF OpenFile, Hydrate, Type, SwitchAuthor, Evict, rowVars, txVars
<1>1. History' /\ Places'
  BY <1>0, SameHistory, SamePlaces
<1>2. CASE OpenFile(f)
  <2>1. UNCHANGED <<doc, made, window, pending, faults>>
    BY <1>2 DEF OpenFile, NoFault
  <2>2. Types'
    BY <1>0, <1>2, <2>1, RegisterTyped DEF OpenFile, Types
  <2> QED BY <1>0, <1>1, <2>1, <2>2, SameCredit
<1>3. CASE Hydrate(f)
  <2>1. UNCHANGED <<made, window, pending, faults>>
    BY <1>3 DEF Hydrate, NoFault
  <2>2. room' \in [Files -> {"none", "cold", "live"}]
    BY <1>3 DEF Hydrate, Types
  <2>3. doc' \in [Files -> Docs]
    BY <1>3, LatestDocTyped DEF Hydrate, Types, History
  <2>4. Types'
    BY <1>0, <2>1, <2>2, <2>3 DEF Types
  <2> QED BY <1>0, <1>1, <2>1, <2>4, SameCredit
<1>4. CASE Type(f)
  <2>1. UNCHANGED <<room, pending, faults>> /\ ApplyEdit(f, made[f] + 1)
    BY <1>4 DEF Type, NoFault
  <2>2. made[f] + 1 \in 0..MaxEdits
    BY <2>1, FileStoreAssumption DEF ApplyEdit, Types
  <2>3. [edit |-> made[f] + 1, text |-> made[f] + 1] \in Docs
    BY <2>2 DEF Docs
  <2>4. doc' \in [Files -> Docs]
    BY <2>1, <2>3 DEF ApplyEdit, Types
  <2>5. Credit' /\ made' \in [Files -> 0..MaxEdits] /\ window' \in [Files -> SUBSET Nat]
    BY <1>0, <2>1, EditCredit
  <2>6. Types'
    BY <1>0, <2>1, <2>4, <2>5 DEF Types
  <2> QED BY <1>1, <2>5, <2>6
<1>5. CASE SwitchAuthor(f)
  <2>1. UNCHANGED <<room, doc, made, faults>>
    BY <1>5 DEF SwitchAuthor, NoFault
  <2>2. Credit' /\ pending' \in [Files -> SUBSET Nat] /\ window' \in [Files -> SUBSET Nat]
    BY <1>5, SwitchCredit
  <2>3. Types'
    BY <1>0, <2>1, <2>2 DEF Types
  <2> QED BY <1>1, <2>2, <2>3
<1>6. CASE Evict(f)
  <2>1. faults' \in 0..MaxFaults /\ faults' # 0 /\ made' = made
    BY <1>6, FaultTyped DEF Evict
  <2>2. room' \in [Files -> {"none", "cold", "live"}] /\ doc' \in [Files -> Docs]
    BY <1>6, IdleTyped DEF Evict, Types
  <2>3. window' \in [Files -> SUBSET Nat] /\ pending' \in [Files -> SUBSET Nat]
    BY <1>6 DEF Evict, Types
  <2>4. \A g \in Files : window'[g] \subseteq window[g] /\ pending'[g] \subseteq pending[g]
    BY <1>6 DEF Evict, Types
  <2>5. Types'
    BY <1>0, <2>1, <2>2, <2>3 DEF Types
  <2> QED BY <1>0, <1>1, <2>1, <2>4, <2>5, DroppedCredit
<1> QED BY <1>2, <1>3, <1>4, <1>5, <1>6

\* Requests that do not write versions; the caller's place changes.
LEMMA CallStep ==
    ASSUME Types, Places, History, Credit,
           \/ \E f \in Files : save_file(f) \/ RestoreNext(f)
           \/ \E f \in Files : \E v \in versions[f] : restore_version(f, v)
           \/ restore_snapshot \/ RestoreEnds
    PROVE  Types' /\ Places' /\ History' /\ Credit'
<1>0. UNCHANGED <<doc, made, window, pending, exists, credited, versions, snapshot, lock, payload, tx,
                  loop, prune, faults>>
  BY DEF save_file, RestoreNext, restore_version, restore_snapshot, RestoreEnds, roomVars, rowVars, txVars, NoFault
<1>1. History' /\ Credit'
  BY <1>0, SameHistory, SameCredit
<1>a. api.op = "idle" => api.pc = "idle"
  BY DEF Places, Busy
<1>2. ASSUME NEW f \in Files, save_file(f) PROVE Types' /\ api.op = "idle" /\ api'.pc = "lock" /\ api'.file \in Files /\ api'.op = "save"
  <2>1. api' \in Api /\ api'.pc = "lock" /\ api'.file = f /\ api'.op = "save"
    BY <1>2, IdleTyped DEF save_file, Api
  <2> QED BY <1>0, <1>2, <2>1, CallTyped DEF save_file, NewCall, Types, roomVars
<1>3. ASSUME NEW f \in Files, NEW v \in versions[f], restore_version(f, v)
      PROVE  Types' /\ api.op = "idle" /\ api'.pc = "replace" /\ api'.file \in Files /\ api'.op = "version"
  <2>1. v.doc.text \in -1..MaxEdits
    BY DEF Types, Version, Docs
  <2>2. api' \in Api /\ api'.pc = "replace" /\ api'.file = f /\ api'.op = "version"
    BY <1>3, <2>1, IdleTyped DEF restore_version, Api
  <2>3. room' \in [Files -> {"none", "cold", "live"}]
    BY <1>3, RegisterTyped DEF restore_version
  <2> QED BY <1>0, <1>3, <2>2, <2>3, CallTyped DEF restore_version, NewCall, Types
<1>4. ASSUME NEW f \in Files, RestoreNext(f)
      PROVE  Types' /\ api.pc = "next" /\ api'.pc = "replace" /\ api'.file \in Files /\ api'.op = api.op
  <2>1. (IF f \in DOMAIN snapshot THEN snapshot[f].text ELSE 0) \in -1..MaxEdits
    BY FileStoreAssumption DEF Types, Docs
  <2>2. api' \in Api /\ api'.pc = "replace" /\ api'.file = f /\ api'.op = api.op
    BY <1>4, <2>1 DEF RestoreNext, Api, Types
  <2>3. room' \in [Files -> {"none", "cold", "live"}]
    BY <1>4, RegisterTyped DEF RestoreNext
  <2> QED BY <1>0, <1>4, <2>2, <2>3 DEF RestoreNext, Types
<1>5. ASSUME restore_snapshot PROVE Types' /\ api.op = "idle" /\ api'.pc = "next" /\ api'.op = "snapshot"
  <2>1. DOMAIN snapshot \subseteq Files /\ made \in [Files -> Nat]
    BY DEF Types
  <2>a. [f \in Files |-> LatestNumber(f)] \in [Files -> Nat]
    <3>1. \A f \in Files : versions[f] # {} => Latest(f) \in Version
      BY LatestIsLargest DEF History, Types
    <3> QED BY <3>1 DEF LatestNumber, Version
  <2>2. api' \in Api /\ api'.pc = "next" /\ api'.op = "snapshot"
    BY <1>5, <2>1, <2>a, IdleTyped DEF restore_snapshot, Api
  <2>3. DOMAIN safety' \subseteq Files
    BY <1>5 DEF restore_snapshot, TakeSnapshot, Types
  <2> QED BY <1>0, <1>5, <2>2, <2>3, CallTyped DEF restore_snapshot, NewCall, Types, roomVars
<1>6. ASSUME RestoreEnds PROVE Types' /\ api.pc = "next" /\ api'.pc = "idle"
  <2>1. api' \in Api /\ api'.pc = "idle" /\ DOMAIN safety' = {}
    BY <1>6, IdleTyped DEF RestoreEnds, IdleApi
  <2> QED BY <1>0, <1>6, <2>1 DEF RestoreEnds, Types, roomVars
<1>7. Types' /\ api'.pc \notin {"stage", "commit"} /\ api.pc \notin {"stage", "commit"}
      /\ (api'.pc \in {"replace", "lock"} => api'.file \in Files)
      /\ (api'.op = "idle" => api'.pc = "idle")
  <2>1. IdleApi.op = "idle" /\ IdleApi.pc = "idle" /\ (api.pc = "next" => api.op # "idle")
    BY <1>a DEF IdleApi
  <2> QED BY <1>a, <1>2, <1>3, <1>4, <1>5, <1>6, <2>1
<1>8. Places'
  BY <1>0, <1>7 DEF Places, Busy, LockInv, Unstaged
<1> QED BY <1>1, <1>7, <1>8

\* replace_text, as an edit of the room
LEMMA ReplaceStep ==
    ASSUME Types, Places, History, Credit, Replace
    PROVE  Types' /\ Places' /\ History' /\ Credit'
<1>0. UNCHANGED <<room, pending, exists, credited, versions, snapshot, safety, lock, payload, tx, loop, calls,
                  prune, faults>> /\ api.pc = "replace"
  BY DEF Replace, rowVars, txVars, NoFault
<1>1. api.file \in Files /\ api.op # "idle" /\ api.text \in -1..MaxEdits /\ History'
  BY <1>0, SameHistory DEF Places, Busy, Types, Api
<1>2. api' \in Api /\ api'.pc \in {"lock", "next"} /\ api'.file = api.file /\ api'.op = api.op
  BY DEF Replace, AfterReplace, Types, Api
<1>3. Places'
  BY <1>0, <1>1, <1>2 DEF Places, Busy, LockInv, Unstaged
<1>4. CASE ApplyEdit(api.file, api.text)
  <2>1. made[api.file] + 1 \in 0..MaxEdits
    BY <1>1, <1>4, FileStoreAssumption DEF ApplyEdit, Types
  <2>2. [edit |-> made[api.file] + 1, text |-> api.text] \in Docs
    BY <1>1, <2>1 DEF Docs
  <2>3. doc' \in [Files -> Docs]
    BY <1>4, <2>2 DEF ApplyEdit, Types
  <2>4. Credit' /\ made' \in [Files -> 0..MaxEdits] /\ window' \in [Files -> SUBSET Nat]
    BY <1>0, <1>1, <1>4, EditCredit
  <2>5. Types'
    BY <1>0, <1>2, <2>3, <2>4 DEF Types
  <2> QED BY <1>1, <1>3, <2>4, <2>5
<1>5. CASE UNCHANGED <<doc, made, window>>
  <2>1. Types'
    BY <1>0, <1>2, <1>5 DEF Types
  <2> QED BY <1>0, <1>1, <1>3, <1>5, <2>1, SameCredit
<1> QED BY <1>4, <1>5 DEF Replace

LEMMA RowStep ==
    ASSUME Types, Places, History, Credit, create_snapshot \/ delete_folder
    PROVE  Types' /\ Places' /\ History' /\ Credit'
<1>0. UNCHANGED <<room, doc, made, window, pending, credited, versions, safety, lock, payload, tx, loop, api,
                  prune, faults>>
  BY DEF create_snapshot, delete_folder, roomVars, txVars, NoFault
<1>1. History' /\ Places'
  BY <1>0, SameHistory, SamePlaces
<1>2. CASE create_snapshot
  <2>1. snapshot' \in [DOMAIN snapshot' -> Docs] /\ DOMAIN snapshot' = exists /\ exists' = exists
    <3>1. \A f \in Files : Content(f) \in Docs
      BY LatestDocTyped DEF Content, Types, History
    <3>2. snapshot' = [f \in exists |-> Content(f)] /\ exists \subseteq Files
      BY <1>2 DEF create_snapshot, TakeSnapshot, Types
    <3> QED BY <1>2, <3>1, <3>2 DEF create_snapshot
  <2>2. Types'
    BY <1>0, <1>2, <2>1, CallTyped DEF create_snapshot, Types
  <2> QED BY <1>0, <1>1, <2>1, <2>2, SameCredit
<1>3. CASE delete_folder
  <2>1. /\ exists' \subseteq exists /\ exists' = exists \ InFolder
        /\ snapshot' = [f \in DOMAIN snapshot \ InFolder |-> snapshot[f]]
        /\ calls' = calls
    BY <1>3 DEF delete_folder
  <2>2. snapshot' \in [DOMAIN snapshot' -> Docs] /\ DOMAIN snapshot' \subseteq exists'
    BY <2>1 DEF Types
  <2>3. Types'
    BY <1>0, <2>1, <2>2 DEF Types
  <2> QED BY <1>0, <1>1, <2>1, <2>3, SameCredit
<1> QED BY <1>2, <1>3

\* The loop and a save take the lock and read; what they will stage is not staged yet.
LEMMA ReadStep ==
    ASSUME Types, Places, History, Credit, LoopStart \/ (\E f \in Files : LoopRead(f)) \/ SaveRead
    PROVE  Types' /\ Places' /\ History' /\ Credit'
<1>0. UNCHANGED <<room, doc, made, window, pending, exists, credited, versions, snapshot, safety, tx, calls,
                  prune, faults>>
  BY DEF LoopStart, LoopRead, SaveRead, roomVars, rowVars, NoFault
<1>1. History' /\ Credit'
  BY <1>0, SameHistory, SameCredit
<1>2. CASE LoopStart
  <2>1. loop' \in Loop /\ loop'.pc = "read" /\ lock' = "loop" /\ UNCHANGED <<api, payload>>
    BY <1>2, IdleTyped DEF LoopStart, Loop
  <2>2. lock = "free" /\ tx = NoTx /\ NoTx.rows = {} /\ api.pc \notin {"stage", "commit"}
    BY <1>2 DEF LoopStart, LockFree, Places, LockInv, NoTx
  <2>3. Places'
    BY <1>0, <2>1, <2>2 DEF Places, Busy, LockInv, Unstaged
  <2> QED BY <1>0, <1>1, <2>1, <2>3 DEF Types
<1>3. ASSUME NEW f \in Files, LoopRead(f) PROVE Types' /\ Places'
  <2>1. /\ loop' \in Loop /\ loop'.pc = "stage" /\ loop'.file = f /\ loop'.todo = loop.todo \ {f}
        /\ UNCHANGED <<api, lock>> /\ payload' \in Docs
    BY <1>3 DEF LoopRead, ReadRoom, Loop, Types
  <2>2. loop.pc = "read" /\ f \in loop.todo /\ lock = "loop"
    BY <1>3 DEF LoopRead, Places, LockInv
  <2>3. Places'
    BY <1>0, <2>1, <2>2 DEF Places, Busy, LockInv, Unstaged
  <2> QED BY <1>0, <2>1, <2>3 DEF Types
<1>4. CASE SaveRead
  <2>1. /\ api' \in Api /\ api'.pc = "stage" /\ api'.file = api.file /\ api'.op = api.op
        /\ lock' = "api" /\ loop' = loop
    BY <1>4 DEF SaveRead, Types, Api
  <2>2. lock = "free" /\ tx = NoTx /\ NoTx.rows = {} /\ loop.pc = "idle" /\ api.pc = "lock" /\ api.file \in Files
        /\ api.op # "idle"
    BY <1>4 DEF SaveRead, LockFree, Places, Busy, LockInv, NoTx
  <2>3. Places'
    BY <1>0, <2>1, <2>2 DEF Places, Busy, LockInv, Unstaged
  <2>4. payload' \in Docs
    BY <1>4, <2>2 DEF SaveRead, ReadRoom, Types
  <2> QED BY <1>0, <1>1, <2>1, <2>3, <2>4 DEF Types
<1> QED BY <1>1, <1>2, <1>3, <1>4

LEMMA StageStep ==
    ASSUME Types, Places, History, Credit, NEW closed \in BOOLEAN, LoopStage(closed) \/ SaveStage
    PROVE  Types' /\ Places' /\ History' /\ Credit'
<1>0. UNCHANGED <<room, doc, made, exists, credited, versions, snapshot, safety, lock, calls, prune, faults>>
  BY DEF LoopStage, SaveStage, rowVars, NoFault
<1>1. CASE LoopStage(closed)
  <2>1. loop.pc = "stage" /\ loop.file \in Files /\ lock = "loop" /\ StageRoom(loop.file, FALSE, closed) /\ api' = api
        /\ \A r \in tx.rows : r[1] # loop.file /\ r[1] \notin loop.todo
    BY <1>1 DEF LoopStage, Places, Busy, LockInv, Unstaged
  <2>2. History' /\ tx' \in Tx /\ \A r \in tx'.rows : r \in tx.rows \/ r[1] = loop.file
    BY <1>0, <2>1, StageHistory
  <2>3. Credit' /\ pending' \in [Files -> SUBSET Nat] /\ window' \in [Files -> SUBSET Nat]
    BY <1>0, <2>1, <2>2, StageCredit
  <2>4. loop' \in Loop /\ loop'.todo = loop.todo /\ loop'.pc \in {"read", "commit"}
    BY <1>1 DEF LoopStage, Types, Loop
  <2>5. Types'
    BY <1>0, <2>1, <2>2, <2>3, <2>4, IdleTyped DEF Types, StageRoom
  <2>6. Places'
    BY <1>0, <2>1, <2>2, <2>4 DEF Places, Busy, LockInv, Unstaged
  <2> QED BY <2>2, <2>3, <2>5, <2>6
<1>2. CASE SaveStage
  <2>1. api.pc = "stage" /\ api.file \in Files /\ lock = "api" /\ StageRoom(api.file, TRUE, TRUE) /\ loop' = loop
        /\ loop.pc = "idle" /\ api.op # "idle" /\ tx.rows = {}
    <3>1. api.pc = "stage" /\ StageRoom(api.file, TRUE, TRUE) /\ loop' = loop
      BY <1>2 DEF SaveStage
    <3>2. tx = NoTx /\ NoTx.rows = {}
      BY <3>1 DEF Places, LockInv, NoTx
    <3>3. lock = "api" /\ loop.pc = "idle"
      BY <3>1 DEF Places, LockInv
    <3> QED BY <3>1, <3>2, <3>3 DEF Places, Busy
  <2>2. History' /\ tx' \in Tx
    BY <1>0, <2>1, StageHistory
  <2>3. Credit' /\ pending' \in [Files -> SUBSET Nat] /\ window' \in [Files -> SUBSET Nat]
    BY <1>0, <2>1, <2>2, StageCredit
  <2>4. api' \in Api /\ api'.pc = "commit" /\ api'.file = api.file /\ api'.op = api.op
    BY <1>2 DEF SaveStage, Types, Api
  <2>5. Types'
    BY <1>0, <2>1, <2>2, <2>3, <2>4, IdleTyped DEF Types, StageRoom
  <2>6. Places'
    BY <1>0, <2>1, <2>2, <2>4 DEF Places, Busy, LockInv, Unstaged
  <2> QED BY <2>2, <2>3, <2>5, <2>6
<1> QED BY <1>1, <1>2

LEMMA CommitStep ==
    ASSUME Types, Places, History, Credit, LoopCommit \/ SaveCommit
    PROVE  Types' /\ Places' /\ History' /\ Credit' /\ \E ok \in BOOLEAN : EndTx(ok)
<1>0. UNCHANGED <<room, doc, made, window, pending, calls, prune>>
  BY DEF LoopCommit, SaveCommit, roomVars
<1>1. PICK ok \in BOOLEAN : /\ EndTx(ok)
                            /\ faults' = faults \/ Fault
                            /\ ok \/ ~TxValid \/ Fault
  BY DEF LoopCommit, SaveCommit, NoFault
<1>2. faults' \in 0..MaxFaults /\ (faults' = faults \/ faults' # 0) /\ (ok \/ ~TxValid \/ faults' # 0)
  BY <1>1, FaultTyped DEF Types
<1>3. History' /\ versions' \in [Files -> SUBSET Version] /\ tx' = NoTx
  BY <1>0, <1>1, EndTxHistory
<1>4. Credit' /\ credited' \in [Files -> SUBSET Nat]
  BY <1>0, <1>1, <1>2, EndTxCredit
<1>5. UNCHANGED <<exists, snapshot>> /\ lock' = "free" /\ payload' = Unread /\ NoTx.rows = {}
  BY <1>1 DEF EndTx, NoTx
<1>6. CASE LoopCommit
  <2>1. loop' = IdleLoop /\ UNCHANGED <<safety, api>> /\ api.pc \notin {"stage", "commit"}
    BY <1>6 DEF LoopCommit, Places, LockInv
  <2>2. Types'
    BY <1>0, <1>2, <1>3, <1>4, <1>5, <2>1, IdleTyped DEF Types
  <2>3. Places'
    BY <1>3, <1>5, <2>1 DEF Places, Busy, LockInv, Unstaged, IdleLoop
  <2> QED BY <1>1, <1>3, <1>4, <2>2, <2>3
<1>7. CASE SaveCommit
  <2>1. loop' = loop /\ loop.pc = "idle" /\ api.pc = "commit" /\ api.op # "idle"
    BY <1>7 DEF SaveCommit, Places, Busy, LockInv
  <2>2. api' \in Api /\ api'.pc \in {"idle", "next"} /\ (api'.op = "idle" => api'.pc = "idle")
    <3>1. [api EXCEPT !.file = "none", !.pc = "next"] \in Api
      BY DEF Types, Api
    <3>2. [api EXCEPT !.file = "none", !.pc = "next"].pc = "next" /\ [api EXCEPT !.file = "none", !.pc = "next"].op = api.op
      BY DEF Types, Api
    <3>3. api' = IdleApi \/ api' = [api EXCEPT !.file = "none", !.pc = "next"]
      BY <1>7 DEF SaveCommit
    <3>4. IdleApi.pc = "idle"
      BY DEF IdleApi
    <3> QED BY <2>1, <3>1, <3>2, <3>3, <3>4, IdleTyped
  <2>3. DOMAIN safety' \subseteq Files
    BY <1>7, IdleTyped DEF SaveCommit, Types
  <2>4. Types'
    BY <1>0, <1>2, <1>3, <1>4, <1>5, <2>1, <2>2, <2>3, IdleTyped DEF Types
  <2>5. Places'
    BY <1>3, <1>5, <2>1, <2>2 DEF Places, Busy, LockInv, Unstaged
  <2> QED BY <1>1, <1>3, <1>4, <2>4, <2>5
<1> QED BY <1>6, <1>7

LEMMA PruningStep ==
    ASSUME Types, Places, History, Credit, PruneRead \/ PruneDelete
    PROVE  Types' /\ Places' /\ History' /\ Credit'
<1>0. UNCHANGED <<room, doc, made, window, pending, exists, credited, snapshot, safety, lock, payload, tx, loop, api,
                  calls, faults>>
  BY DEF PruneRead, PruneDelete, roomVars, rowVars, txVars, NoFault
<1>1. Places' /\ Credit'
  BY <1>0, SamePlaces, SameCredit
<1>2. CASE PruneRead
  <2>1. versions' = versions
    BY <1>2 DEF PruneRead, rowVars
  <2>2. Types'
    BY <1>0, <1>2, <2>1, PruneReadHistory DEF Types
  <2> QED BY <1>1, <1>2, <2>2, PruneReadHistory
<1>3. CASE PruneDelete
  <2>1. prune' = {}
    BY <1>3 DEF PruneDelete
  <2>2. Types'
    BY <1>0, <1>3, <2>1, PruneDeleteHistory DEF Types
  <2> QED BY <1>1, <1>3, <2>2, PruneDeleteHistory
<1> QED BY <1>2, <1>3

LEMMA CrashStep ==
    ASSUME Types, Places, History, Credit, Crash
    PROVE  Types' /\ Places' /\ History' /\ Credit'
<1>0. UNCHANGED <<made, exists, credited, versions, snapshot, calls>> /\ faults' \in 0..MaxFaults /\ faults' # 0
      /\ lock' = "free" /\ tx' = NoTx /\ loop' = IdleLoop /\ api' = IdleApi /\ prune' = {}
      /\ payload' = Unread /\ safety' = None
  BY FaultTyped DEF Crash, rowVars
<1>1. \A f \in Files : window'[f] = {} /\ pending'[f] = {}
  BY DEF Crash
<1>2. Credit'
  BY <1>0, <1>1, DroppedCredit
<1>3. NoTx.rows = {} /\ NoTx.marks = {}
  BY DEF NoTx
<1>4. History'
  BY <1>0, <1>3 DEF History, HasLatest, VersionsAreNumbered, RowsAreNew, MarksAreLatest, PruneIsOld
<1>5. Places'
  BY <1>0, <1>3 DEF Places, Busy, LockInv, Unstaged, IdleLoop, IdleApi
<1>6. /\ room' \in [Files -> {"none", "cold", "live"}] /\ doc' \in [Files -> Docs]
      /\ window' \in [Files -> SUBSET Nat] /\ pending' \in [Files -> SUBSET Nat]
  BY IdleTyped DEF Crash
<1>7. Types'
  BY <1>0, <1>6, IdleTyped DEF Types
<1> QED BY <1>2, <1>4, <1>5, <1>7

LEMMA InvStep == IInv /\ [Next]_vars => IInv'
<1> SUFFICES ASSUME IInv, [Next]_vars PROVE IInv'
  OBVIOUS
<1>0. Types /\ Places /\ History /\ Credit
  BY DEF IInv, Places
<1>1. CASE Next
  <2>1. Types' /\ Places' /\ History' /\ Credit'
    BY <1>0, <1>1, RoomStep, CallStep, ReplaceStep, RowStep, ReadStep, StageStep, CommitStep, PruningStep, CrashStep
       DEF Next, LoopStep, ApiStep
  <2> QED BY <2>1 DEF IInv, Places
<1>2. CASE UNCHANGED vars
  <2>1. History' /\ Places' /\ Credit'
    BY <1>0, <1>2, SameHistory, SamePlaces, SameCredit DEF vars
  <2>2. Types'
    BY <1>0, <1>2 DEF vars, Types
  <2> QED BY <2>1, <2>2 DEF IInv, Places
<1> QED BY <1>1, <1>2

\* The lock of checkpoint.py: the loop and Save never give two versions of a file
\* the same number.
THEOREM VersionsHold == Spec => []VersionsAreNumbered
<1>1. IInv => VersionsAreNumbered
  BY DEF IInv, History
<1> QED BY <1>1, InitInv, InvStep, PTL DEF Spec

\* close_window, take_pending and the commit: an edit is credited once, and none
\* is forgotten without a fault.
THEOREM CreditHolds == Spec => []CreditedOnce
<1>1. IInv => CreditedOnce
  BY DEF IInv, Credit
<1> QED BY <1>1, InitInv, InvStep, PTL DEF Spec

\* One step keeps every Save and every latest version.
LEMMA KeepsStep ==
    ASSUME IInv, [Next]_vars, NEW f \in exists', NEW v \in versions[f], v.save \/ v = Latest(f)
    PROVE  \E w \in versions'[f] : w.n = v.n /\ w.doc = v.doc /\ (v.save => w.save)
<1>0. Types /\ Places /\ History /\ Credit
  BY DEF IInv, Places
<1>1. f \in Files
  BY InvStep DEF IInv, Types
<1>2. CASE LoopCommit \/ SaveCommit
  BY <1>0, <1>1, <1>2, CommitStep, CommitKeeps
<1>3. CASE PruneDelete
  BY <1>0, <1>1, <1>3, PruneKeeps
<1>4. CASE ~(LoopCommit \/ SaveCommit \/ PruneDelete)
  <2>1. versions' = versions
    BY <1>4 DEF Next, LoopStep, ApiStep, vars, OpenFile, Hydrate, Type, SwitchAuthor, Evict, save_file,
                restore_version, create_snapshot, restore_snapshot, delete_folder, LoopStart, LoopRead, LoopStage,
                RestoreNext, Replace, SaveRead, SaveStage, RestoreEnds, PruneRead, Crash, rowVars
  <2> QED BY <2>1
<1> QED BY <1>2, <1>3, <1>4

\* "Always kept: the latest version, every Save", although prune_versions reads and
\* deletes without the lock.
THEOREM SavesHold == Spec => SavesAreKept
<1>1. IInv /\ [Next]_vars
        => [\A f \in exists' : \A v \in versions[f] :
              v.save \/ v = Latest(f) => \E w \in versions'[f] : w.n = v.n /\ w.doc = v.doc /\ (v.save => w.save)]_vars
  BY KeepsStep
<1> QED BY <1>1, InitInv, InvStep, PTL DEF Spec, SavesAreKept

\* The types of FileStore, of every reachable state
THEOREM TypeCorrect == Spec => []TypeOK
<1>1. ASSUME IInv PROVE TypeOK
  <2>1. \A f \in Files : window[f] \union pending[f] \union credited[f] \subseteq 1..made[f]
    BY <1>1 DEF IInv, Credit, Edits
  <2> QED BY <1>1, <2>1 DEF IInv, Types, TypeOK, Version, Loop, Api
<1> QED BY <1>1, InitInv, InvStep, PTL DEF Spec
-----------------------------------------------------------------------------
(* Restores *)

\* What RestoreCanBeUndone asks of the document of f; the version is one that was
\* the latest since the restore began, and is not pruned.
Undoable(f) ==
    \/ doc[f].text = safety[f].text
    \/ \E v \in versions[f] : v.n >= api.from[f] /\ v.doc.text = doc[f].text
    \/ doc[f].edit > api.since[f]
    \/ doc[f] = Empty

Restore ==
    /\ \A f \in Files : room[f] # "live" => doc[f] = Empty
    /\ api.op = "snapshot" =>
         /\ api.todo \subseteq DOMAIN safety
         /\ api.pc = "replace" => api.file \in DOMAIN safety
         /\ \A f \in Files : api.since[f] <= made[f]
         /\ \A p \in prune : p[2] < api.from[p[1]]
         /\ \A f \in Files : api.from[f] = 0 \/ \E v \in versions[f] : v.n >= api.from[f]
         /\ \A f \in DOMAIN safety : Undoable(f)

LEMMA InitRestore == Init => Restore
BY DEF Init, Restore, IdleApi

\* A step of a call that goes on with its restore, or does none
SameCall ==
    api'.op = "snapshot" =>
        /\ api.op = "snapshot" /\ api'.since = api.since /\ api'.from = api.from /\ safety' = safety
        /\ api'.todo \subseteq api.todo
        /\ api'.pc = "replace" => api'.file \in DOMAIN safety

\* A step that changes no document and keeps the versions a restore relies on
LEMMA KeptRestore ==
    ASSUME Types, Restore, SameCall, UNCHANGED <<doc, made>>,
           \A f \in Files : room'[f] # "live" => room[f] # "live",
           api'.op = "snapshot" => \A p \in prune' : p[2] < api.from[p[1]],
           \A f \in Files : \A v \in versions[f] :
             (api.op = "snapshot" => v.n >= api.from[f]) => \E w \in versions'[f] : w.n = v.n /\ w.doc = v.doc
    PROVE  Restore'
<1>1. \A f \in Files : room'[f] # "live" => doc'[f] = Empty
  BY DEF Restore
<1>2. ASSUME api'.op = "snapshot"
      PROVE  /\ api'.todo \subseteq DOMAIN safety'
             /\ api'.pc = "replace" => api'.file \in DOMAIN safety'
             /\ \A f \in Files : api'.since[f] <= made'[f]
             /\ \A p \in prune' : p[2] < api'.from[p[1]]
             /\ \A f \in Files : api'.from[f] = 0 \/ \E v \in versions'[f] : v.n >= api'.from[f]
             /\ \A f \in DOMAIN safety' : Undoable(f)'
  <2>1. api.op = "snapshot" /\ api'.since = api.since /\ api'.from = api.from /\ safety' = safety
        /\ api'.todo \subseteq api.todo /\ (api'.pc = "replace" => api'.file \in DOMAIN safety)
    BY <1>2 DEF SameCall
  <2>2. ASSUME NEW f \in Files PROVE api'.from[f] = 0 \/ \E v \in versions'[f] : v.n >= api'.from[f]
    BY <2>1 DEF Restore
  <2>3. ASSUME NEW f \in DOMAIN safety PROVE Undoable(f)'
    <3>1. Undoable(f) /\ f \in Files
      BY <2>1 DEF Restore, Types
    <3> QED BY <2>1, <3>1 DEF Undoable
  <2> QED BY <1>2, <2>1, <2>2, <2>3 DEF Restore
<1> QED BY <1>1, <1>2 DEF Restore

\* A step that changes the document of g
LEMMA DocRestore ==
    ASSUME Types, Restore, SameCall, UNCHANGED <<versions, prune>>, NEW g \in Files,
           \A f \in Files \ {g} : doc'[f] = doc[f] /\ (room'[f] # "live" => room[f] # "live"),
           room'[g] # "live" => doc'[g] = Empty,
           \A f \in Files : made'[f] \in Nat /\ made[f] \in Nat /\ made'[f] >= made[f],
           api.op = "snapshot" =>
             \/ \E v \in versions[g] : v.n >= api.from[g] /\ v.doc.text = doc'[g].text
             \/ doc'[g].edit > api.since[g]
             \/ doc'[g] = Empty
    PROVE  Restore'
<1>1. \A f \in Files : room'[f] # "live" => doc'[f] = Empty
  BY DEF Restore
<1>2. ASSUME api'.op = "snapshot"
      PROVE  /\ api'.todo \subseteq DOMAIN safety'
             /\ api'.pc = "replace" => api'.file \in DOMAIN safety'
             /\ \A f \in Files : api'.since[f] <= made'[f]
             /\ \A p \in prune' : p[2] < api'.from[p[1]]
             /\ \A f \in Files : api'.from[f] = 0 \/ \E v \in versions'[f] : v.n >= api'.from[f]
             /\ \A f \in DOMAIN safety' : Undoable(f)'
  <2>1. api.op = "snapshot" /\ api'.since = api.since /\ api'.from = api.from /\ safety' = safety
        /\ api'.todo \subseteq api.todo /\ (api'.pc = "replace" => api'.file \in DOMAIN safety)
    BY <1>2 DEF SameCall
  <2>2. ASSUME NEW f \in Files PROVE api'.since[f] <= made'[f]
    <3>1. api.since[f] \in Nat /\ api.since[f] <= made[f]
      BY <2>1 DEF Restore, Types, Api
    <3> QED BY <2>1, <3>1
  <2>3. ASSUME NEW f \in DOMAIN safety PROVE Undoable(f)'
    <3>1. Undoable(f) /\ f \in Files
      BY <2>1 DEF Restore, Types
    <3>2. CASE f = g
      BY <2>1, <3>2 DEF Undoable
    <3>3. CASE f # g
      <4>1. doc'[f] = doc[f]
        BY <3>1, <3>3
      <4> QED BY <2>1, <3>1, <4>1 DEF Undoable
    <3> QED BY <3>2, <3>3
  <2> QED BY <2>1, <2>2, <2>3 DEF Restore
<1> QED BY <1>1, <1>2 DEF Restore

\* apply_edit makes an edit later than the safety snapshot.
LEMMA EditRestore ==
    ASSUME Types, Restore, SameCall, UNCHANGED <<versions, prune, room>>, NEW g \in Files, room[g] = "live",
           NEW text, ApplyEdit(g, text)
    PROVE  Restore'
<1>1. made[g] \in Nat /\ \A f \in Files : made[f] \in Nat
  BY FileStoreAssumption DEF Types
<1>2. doc'[g] = [edit |-> made[g] + 1, text |-> text] /\ \A f \in Files \ {g} : doc'[f] = doc[f]
  BY DEF Types, ApplyEdit
<1>3. made'[g] = made[g] + 1 /\ \A f \in Files \ {g} : made'[f] = made[f]
  BY DEF Types, ApplyEdit
<1>4. \A f \in Files : made'[f] \in Nat /\ made'[f] >= made[f]
  BY <1>1, <1>3
<1>5. ASSUME api.op = "snapshot" PROVE doc'[g].edit > api.since[g]
  <2>1. api.since[g] \in Nat /\ api.since[g] <= made[g]
    BY <1>5 DEF Restore, Types, Api
  <2>2. doc'[g].edit = made[g] + 1
    BY <1>2
  <2> QED BY <1>1, <2>1, <2>2
<1> QED BY <1>1, <1>2, <1>4, <1>5, DocRestore

\* The safety snapshot has the document of every file the restore will touch.
LEMMA BeginRestore ==
    ASSUME IInv, Restore, restore_snapshot
    PROVE  Restore'
<1>0. Types /\ HasLatest /\ PruneIsOld /\ UNCHANGED <<room, doc, made, versions, prune>>
  BY DEF IInv, History, restore_snapshot, roomVars, rowVars
<1>1. /\ api'.op = "snapshot" /\ api'.todo = DOMAIN snapshot /\ api'.pc = "next" /\ api'.since = made
      /\ api'.from = [f \in Files |-> LatestNumber(f)]
  BY DEF restore_snapshot, IdleApi
<1>2. safety' = [f \in exists |-> Content(f)] /\ DOMAIN snapshot \subseteq exists /\ exists \subseteq Files
  BY <1>0 DEF restore_snapshot, TakeSnapshot, Types
<1>3. \A f \in Files : \A v \in versions[f] : v.n \in Nat
  BY <1>0 DEF Types, Version
<1>4. ASSUME NEW p \in prune PROVE p[2] < api'.from[p[1]]
  <2>1. p[1] \in Files /\ p[2] \in Nat
    BY <1>0 DEF Types
  <2>2. PICK v \in versions[p[1]] : p[2] < v.n
    BY <1>0 DEF PruneIsOld
  <2>3. Latest(p[1]) \in versions[p[1]] /\ v.n <= Latest(p[1]).n
    BY <1>0, <2>1, <2>2, LatestIsLargest
  <2>4. api'.from[p[1]] = Latest(p[1]).n
    BY <1>1, <2>1, <2>2 DEF LatestNumber
  <2> QED BY <1>3, <2>1, <2>2, <2>3, <2>4
<1>5. ASSUME NEW f \in Files PROVE api'.from[f] = 0 \/ \E v \in versions[f] : v.n >= api'.from[f]
  <2>1. CASE versions[f] = {}
    BY <1>1, <2>1 DEF LatestNumber
  <2>2. CASE versions[f] # {}
    <3>1. Latest(f) \in versions[f] /\ api'.from[f] = Latest(f).n
      BY <1>0, <1>1, <2>2, LatestIsLargest DEF LatestNumber
    <3> QED BY <1>3, <3>1
  <2> QED BY <2>1, <2>2
<1>6. ASSUME NEW f \in DOMAIN safety' PROVE Undoable(f)'
  <2>1. f \in Files /\ safety'[f] = Content(f)
    BY <1>2
  <2>2. CASE room[f] = "live"
    BY <1>0, <2>1, <2>2 DEF Content, Undoable
  <2>3. CASE room[f] # "live"
    BY <1>0, <2>1, <2>3 DEF Restore, Undoable
  <2> QED BY <2>2, <2>3
<1>7. \A f \in Files : api'.since[f] <= made'[f]
  <2>1. \A f \in Files : made[f] \in Nat
    BY <1>0, FileStoreAssumption DEF Types
  <2> QED BY <1>0, <1>1, <2>1
<1>8. api'.todo \subseteq DOMAIN safety' /\ api'.pc # "replace"
  BY <1>1, <1>2
<1>9. \A f \in Files : room'[f] # "live" => doc'[f] = Empty
  BY <1>0 DEF Restore
<1> QED BY <1>0, <1>4, <1>5, <1>6, <1>7, <1>8, <1>9 DEF Restore

LEMMA RestoreStep ==
    ASSUME IInv, Restore, [Next]_vars
    PROVE  Restore'
<1>0. Types /\ History /\ Places
  BY DEF IInv, Places
<1>a. api.op = "snapshot" => \A p \in prune : p[2] < api.from[p[1]]
  BY DEF Restore
<1>b. UNCHANGED <<api, safety>> => SameCall
  BY DEF SameCall, Restore
<1>c. ASSUME NEW f \in Files, Register(f) PROVE \A g \in Files : room'[g] # "live" => room[g] # "live"
  BY <1>0, <1>c DEF Register, Types
<1>1. CASE \/ (\E f \in Files : SwitchAuthor(f)) \/ create_snapshot \/ delete_folder \/ LoopStart
           \/ (\E f \in Files : LoopRead(f)) \/ LoopStage(TRUE) \/ LoopStage(FALSE) \/ UNCHANGED vars
  <2>1. UNCHANGED <<doc, made, room, versions, prune, api, safety>>
    BY <1>1 DEF SwitchAuthor, create_snapshot, delete_folder, LoopStart, LoopRead, LoopStage, vars,
                roomVars, rowVars
  <2> QED BY <1>0, <1>a, <1>b, <2>1, KeptRestore
<1>2. ASSUME NEW f \in Files, OpenFile(f) PROVE Restore'
  <2>1. UNCHANGED <<doc, made, versions, prune, api, safety>> /\ Register(f)
    BY <1>2 DEF OpenFile, rowVars
  <2> QED BY <1>0, <1>a, <1>b, <1>c, <2>1, KeptRestore
<1>3. ASSUME NEW f \in Files, Hydrate(f) PROVE Restore'
  <2>1. UNCHANGED <<made, versions, prune, api, safety>>
    BY <1>3 DEF Hydrate, rowVars
  <2>2. doc'[f] = LatestDoc(f) /\ room'[f] = "live"
        /\ \A g \in Files \ {f} : doc'[g] = doc[g] /\ room'[g] = room[g]
    BY <1>0, <1>3 DEF Hydrate, Types
  <2>3. ASSUME api.op = "snapshot", versions[f] # {}
        PROVE  \E v \in versions[f] : v.n >= api.from[f] /\ v.doc.text = doc'[f].text
    <3>1. Latest(f) \in versions[f] /\ \A w \in versions[f] : w.n <= Latest(f).n
      BY <1>0, <2>3, LatestIsLargest DEF History
    <3>2. \A w \in versions[f] : w.n \in Nat
      BY <1>0 DEF Types, Version
    <3>3. api.from[f] \in Nat /\ (api.from[f] = 0 \/ \E v \in versions[f] : v.n >= api.from[f])
      BY <1>0, <2>3 DEF Restore, Types, Api
    <3>4. Latest(f).n >= api.from[f]
      BY <3>1, <3>2, <3>3
    <3> QED BY <2>2, <2>3, <3>1, <3>4 DEF LatestDoc
  <2>4. versions[f] = {} => doc'[f] = Empty
    BY <2>2 DEF LatestDoc
  <2>5. \A g \in Files : made[g] \in Nat /\ made'[g] \in Nat /\ made'[g] >= made[g]
    BY <1>0, <2>1, FileStoreAssumption DEF Types
  <2> QED BY <1>0, <1>b, <2>1, <2>2, <2>3, <2>4, <2>5, DocRestore
<1>4. ASSUME NEW f \in Files, Type(f) PROVE Restore'
  <2>1. UNCHANGED <<room, versions, prune, api, safety>> /\ ApplyEdit(f, made[f] + 1) /\ room[f] = "live"
    BY <1>4 DEF Type, rowVars
  <2> QED BY <1>0, <1>b, <2>1, EditRestore
<1>5. ASSUME NEW f \in Files, Evict(f) PROVE Restore'
  <2>1. UNCHANGED <<made, versions, prune, api, safety>>
    BY <1>5 DEF Evict, rowVars
  <2>2. doc'[f] = Empty /\ \A g \in Files \ {f} : doc'[g] = doc[g] /\ room'[g] = room[g]
    BY <1>0, <1>5 DEF Evict, Types
  <2>3. \A g \in Files : made[g] \in Nat /\ made'[g] \in Nat /\ made'[g] >= made[g]
    BY <1>0, <2>1, FileStoreAssumption DEF Types
  <2> QED BY <1>0, <1>b, <2>1, <2>2, <2>3, DocRestore
<1>6. ASSUME NEW f \in Files, save_file(f) \/ \E v \in versions[f] : restore_version(f, v) PROVE Restore'
  <2>1. UNCHANGED <<doc, made, versions, prune>> /\ (UNCHANGED room \/ Register(f)) /\ api'.op # "snapshot"
    BY <1>6 DEF save_file, restore_version, roomVars, rowVars, IdleApi
  <2>2. SameCall
    BY <2>1 DEF SameCall
  <2> QED BY <1>0, <1>c, <2>1, <2>2, KeptRestore
<1>7. ASSUME NEW f \in Files, RestoreNext(f) PROVE Restore'
  <2>1. UNCHANGED <<doc, made, versions, prune, safety>> /\ Register(f) /\ f \in api.todo
    BY <1>7 DEF RestoreNext, rowVars
  <2>2. api'.op = api.op /\ api'.since = api.since /\ api'.from = api.from /\ api'.todo = api.todo \ {f}
        /\ api'.file = f
    BY <1>0, <1>7 DEF RestoreNext, Types, Api
  <2>3. SameCall
    BY <2>1, <2>2 DEF SameCall, Restore
  <2> QED BY <1>0, <1>a, <1>c, <2>1, <2>2, <2>3, KeptRestore
<1>8. CASE Replace
  <2>1. UNCHANGED <<room, versions, prune, safety>> /\ api.pc = "replace" /\ room[api.file] = "live"
    BY <1>8 DEF Replace, rowVars
  <2>2. api' = [api EXCEPT !.pc = AfterReplace(TRUE)] \/ api' = [api EXCEPT !.pc = AfterReplace(FALSE)]
    BY <1>8 DEF Replace
  <2>3. api'.op = api.op /\ api'.since = api.since /\ api'.from = api.from /\ api'.todo = api.todo
        /\ api'.pc # "replace"
    BY <1>0, <2>2 DEF AfterReplace, Types, Api
  <2>4. SameCall
    BY <2>1, <2>3 DEF SameCall
  <2>5. api.file \in Files
    BY <1>0, <2>1 DEF Places, Busy
  <2>6. CASE ApplyEdit(api.file, api.text)
    BY <1>0, <2>1, <2>4, <2>5, <2>6, EditRestore
  <2>7. CASE UNCHANGED <<doc, made, window>>
    BY <1>0, <1>a, <2>1, <2>3, <2>4, <2>7, KeptRestore
  <2> QED BY <1>8, <2>6, <2>7 DEF Replace
<1>9. CASE SaveRead \/ SaveStage
  <2>1. UNCHANGED <<doc, made, room, versions, prune, safety>>
    BY <1>9 DEF SaveRead, SaveStage, roomVars, rowVars
  <2>2. api'.op = api.op /\ api'.since = api.since /\ api'.from = api.from /\ api'.todo = api.todo
        /\ api'.pc # "replace"
    BY <1>0, <1>9 DEF SaveRead, SaveStage, Types, Api
  <2>3. SameCall
    BY <2>1, <2>2 DEF SameCall
  <2> QED BY <1>0, <1>a, <2>1, <2>2, <2>3, KeptRestore
<1>10. CASE LoopCommit \/ SaveCommit
  <2>1. UNCHANGED <<doc, made, room, prune>>
    BY <1>10 DEF LoopCommit, SaveCommit, roomVars
  <2>2. SameCall
    <3>1. CASE LoopCommit
      BY <1>b, <3>1 DEF LoopCommit
    <3>2. CASE SaveCommit
      <4>1. CASE api' = IdleApi
        BY <4>1 DEF SameCall, IdleApi
      <4>2. CASE api' = [api EXCEPT !.file = "none", !.pc = "next"] /\ safety' = safety
        <5>1. api'.op = api.op /\ api'.since = api.since /\ api'.from = api.from /\ api'.todo = api.todo
              /\ api'.pc = "next"
          BY <1>0, <4>2 DEF Types, Api
        <5> QED BY <4>2, <5>1 DEF SameCall
      <4> QED BY <3>2, <4>1, <4>2 DEF SaveCommit
    <3> QED BY <1>10, <3>1, <3>2
  <2>3. \A f \in Files : \A v \in versions[f] : \E w \in versions'[f] : w.n = v.n /\ w.doc = v.doc
    <3>1. PICK ok \in BOOLEAN : EndTx(ok)
      BY <1>0, <1>10, CommitStep DEF IInv
    <3> QED BY <1>0, <3>1, CommitKeeps
  <2>4. api'.op = "snapshot" => api.op = "snapshot"
    BY <2>2 DEF SameCall
  <2> QED BY <1>0, <1>a, <2>1, <2>2, <2>3, <2>4, KeptRestore
<1>11. CASE RestoreEnds
  <2>1. UNCHANGED <<doc, made, room, versions, prune>> /\ api'.op # "snapshot"
    BY <1>11 DEF RestoreEnds, roomVars, rowVars, IdleApi
  <2> QED BY <1>0, <2>1, KeptRestore DEF SameCall
<1>12. CASE PruneRead
  <2>1. UNCHANGED <<doc, made, room, versions, api, safety>>
    BY <1>12 DEF PruneRead, roomVars, rowVars
  <2>2. PICK f \in Files : prune' = {f} \X {v.n : v \in Prunable(f)}
    BY <1>12 DEF PruneRead
  <2>3. ASSUME api.op = "snapshot", NEW p \in prune' PROVE p[2] < api.from[p[1]]
    <3>1. p[1] = f /\ \E v \in Prunable(f) : p[2] = v.n
      BY <2>2
    <3>2. PICK v \in Prunable(f) : p[2] = v.n
      BY <3>1
    <3>3. v.n \in Nat /\ api.from[f] \in Nat /\ ~(v.n >= api.from[f])
      BY <1>0, <2>3, <3>2 DEF Prunable, Recent, Types, Version, Api
    <3> QED BY <3>1, <3>2, <3>3
  <2> QED BY <1>0, <1>b, <2>1, <2>3, KeptRestore
<1>13. CASE PruneDelete
  <2>1. UNCHANGED <<doc, made, room, api, safety>> /\ prune' = {}
    BY <1>13 DEF PruneDelete, roomVars
  <2>2. ASSUME NEW f \in Files, NEW v \in versions[f], api.op = "snapshot" => v.n >= api.from[f], api.op = "snapshot"
        PROVE  v \in versions'[f]
    <3>1. versions'[f] = {w \in versions[f] : <<f, w.n>> \notin prune}
      BY <1>13 DEF PruneDelete
    <3>2. v.n \in Nat /\ api.from[f] \in Nat
      BY <1>0 DEF Types, Version, Api
    <3>3. <<f, v.n>> \notin prune
      BY <1>a, <2>2, <3>2
    <3> QED BY <3>1, <3>3
  <2>3. CASE api.op = "snapshot"
    BY <1>0, <1>b, <2>1, <2>2, <2>3, KeptRestore
  <2>4. CASE api.op # "snapshot"
    BY <2>1, <2>4 DEF Restore
  <2> QED BY <2>3, <2>4
<1>14. CASE Crash
  BY <1>14 DEF Crash, Restore, IdleApi
<1> QED BY <1>1, <1>2, <1>3, <1>4, <1>5, <1>6, <1>7, <1>8, <1>9, <1>10, <1>11, <1>12, <1>13, <1>14, BeginRestore
        DEF Next, LoopStep, ApiStep

\* restore_snapshot, "so a restore can be undone": the safety snapshot, which is
\* taken before the first file is replaced, misses nothing that is not in a version.
THEOREM UndoHolds == Spec => RestoreCanBeUndone
<1> DEFINE Inv == IInv /\ Restore
<1>1. Init => Inv
  BY InitInv, InitRestore
<1>2. Inv /\ [Next]_vars => Inv'
  BY InvStep, RestoreStep
<1>3. Inv /\ [Next]_vars =>
        [\A f \in Files :
           api.op = "snapshot" /\ api.pc = "replace" /\ api.file = f /\ doc'[f] # doc[f] /\ api'.pc = "lock" =>
              \/ f \in DOMAIN safety /\ doc[f].text = safety[f].text
              \/ \E v \in versions[f] : v.doc.text = doc[f].text
              \/ doc[f].edit > api.since[f]
              \/ doc[f] = Empty]_vars
  BY DEF Restore, Undoable
<1> HIDE DEF Inv
<1> QED BY <1>1, <1>2, <1>3, PTL DEF Spec, RestoreCanBeUndone

-----------------------------------------------------------------------------
(* Numbers, and functions given by recursion *)

LEMMA Least ==
    ASSUME NEW T \in SUBSET Nat, T # {}
    PROVE  \E x \in T : \A y \in T : x <= y
<1>1. PICK x \in T : \A y \in T : ~(<<y, x>> \in OpToRel(<, Nat))
  BY NatLessThanWellFounded, WFMin
<1>2. \A y \in T : ~(y < x)
  BY <1>1 DEF OpToRel
<1> QED BY <1>2

LEMMA Greatest ==
    ASSUME NEW T \in SUBSET Nat, NEW k \in Nat, k \in T, NEW m \in Nat, \A y \in T : y <= m
    PROVE  \E x \in T : \A y \in T : y <= x
<1> DEFINE U == {m - y : y \in T}
<1>1. U \in SUBSET Nat /\ U # {}
  OBVIOUS
<1>2. PICK u \in U : \A v \in U : u <= v
  <2> HIDE DEF U
  <2> QED BY <1>1, Least
<1>3. PICK x \in T : u = m - x
  OBVIOUS
<1>4. ASSUME NEW y \in T PROVE y <= x
  <2>1. m - y \in U
    OBVIOUS
  <2>2. u <= m - y
    BY <2>1, <1>2
  <2> HIDE DEF U
  <2> QED BY <2>2, <1>3
<1> QED BY <1>4

\* What holds of 0 and passes from n - 1 to n holds up to N.
LEMMA Steps ==
    ASSUME NEW N \in Nat, NEW Good, 0 \in Good, \A n \in 1..N : n - 1 \in Good => n \in Good
    PROVE  \A n \in 0..N : n \in Good
<1> DEFINE Bad == {n \in 0..N : n \notin Good}
<1>1. SUFFICES ASSUME Bad # {} PROVE FALSE
  OBVIOUS
<1>2. Bad \in SUBSET Nat
  OBVIOUS
<1>3. PICK m \in Bad : \A y \in Bad : m <= y
  <2> HIDE DEF Bad
  <2> QED BY <1>1, <1>2, Least
<1>4. m \in 1..N
  OBVIOUS
<1>5. m - 1 \in 0..N /\ m - 1 \notin Bad
  <2>1. ~(m <= m - 1)
    BY <1>4
  <2>2. m - 1 \notin Bad
    <3> HIDE DEF Bad
    <3> QED BY <1>3, <2>1
  <2> QED BY <2>2, <1>4
<1>6. m - 1 \in Good
  BY <1>5
<1> QED BY <1>4, <1>6

Alike(f, g, N) == \A n \in 0..N : f[n] = g[n]

\* Two functions that begin alike and go on alike are alike.
LEMMA Agree ==
    ASSUME NEW N \in Nat, NEW f, NEW g,
           Alike(f, g, 0), \A n \in 1..N : f[n - 1] = g[n - 1] => f[n] = g[n]
    PROVE  Alike(f, g, N)
<1> USE DEF Alike
<1> DEFINE Good == {n \in 0..N : f[n] = g[n]}
<1>1. 0 \in Good
  OBVIOUS
<1>2. ASSUME NEW n \in 1..N, n - 1 \in Good PROVE n \in Good
  BY <1>2
<1>3. \A n \in 0..N : n \in Good
  <2> HIDE DEF Good
  <2> QED BY <1>1, <1>2, Steps
<1> QED BY <1>3

Moves(N, A) == [1..N -> [A -> A]]
Values(N, A) == [0..N -> A]
Follows(f, N, base, step) == f[0] = base /\ \A n \in 1..N : f[n] = step[n][f[n - 1]]

\* A function each of whose values follows from the one before exists.
LEMMA RecursionExists ==
    ASSUME NEW N \in Nat, NEW A, NEW base \in A, NEW step \in Moves(N, A)
    PROVE  \E f \in Values(N, A) : Follows(f, N, base, step)
<1> USE DEF Moves, Values, Follows
<1> DEFINE Good(m) == \E f \in [0..m -> A] : f[0] = base /\ \A n \in 1..m : f[n] = step[n][f[n - 1]]
           Ok == {m \in 0..N : Good(m)}
<1>2. Good(0)
  <2> DEFINE g == [n \in 0..0 |-> base]
  <2>1. g \in [0..0 -> A] /\ g[0] = base /\ 1..0 = {}
    OBVIOUS
  <2> HIDE DEF g
  <2> QED BY <2>1
<1>3. ASSUME NEW m \in 1..N, Good(m - 1) PROVE Good(m)
  <2>1. PICK f \in [0..(m - 1) -> A] : f[0] = base /\ \A n \in 1..(m - 1) : f[n] = step[n][f[n - 1]]
    BY <1>3
  <2>2. f[m - 1] \in A /\ step[m] \in [A -> A]
    OBVIOUS
  <2>3. PICK last \in A : last = step[m][f[m - 1]]
    BY <2>2
  <2> DEFINE g == [n \in 0..m |-> IF n = m THEN last ELSE f[n]]
  <2>4. g \in [0..m -> A] /\ g[0] = base
    BY <2>1
  <2>5. ASSUME NEW n \in 1..m PROVE g[n] = step[n][g[n - 1]]
    <3>1. CASE n = m
      <4>1. g[n] = last /\ g[n - 1] = f[m - 1]
        BY <3>1
      <4> QED BY <4>1, <3>1, <2>3
    <3>2. CASE n # m
      <4>1. n \in 1..(m - 1) /\ g[n] = f[n] /\ g[n - 1] = f[n - 1]
        BY <3>2
      <4> QED BY <4>1, <2>1
    <3> QED BY <3>1, <3>2
  <2> HIDE DEF g
  <2> QED BY <2>4, <2>5
<1>4. \A m \in 0..N : m \in Ok
  <2>1. 0 \in Ok
    <3> HIDE DEF Good
    <3> QED BY <1>2
  <2>2. ASSUME NEW m \in 1..N, m - 1 \in Ok PROVE m \in Ok
    <3>1. Good(m - 1)
      <4> HIDE DEF Good
      <4> QED BY <2>2
    <3>2. Good(m)
      <4> HIDE DEF Good
      <4> QED BY <3>1, <1>3
    <3> HIDE DEF Good
    <3> QED BY <3>2
  <2> HIDE DEF Ok
  <2> QED BY <2>1, <2>2, Steps
<1>5. Good(N)
  <2> HIDE DEF Good
  <2> QED BY <1>4
<1> QED BY <1>5

-----------------------------------------------------------------------------
(* Sums *)

LEMMA SumIs ==
    ASSUME NEW k \in Nat, NEW f \in [1..k -> Int]
    PROVE  \E sum \in [0..k -> Int] :
              /\ SumOf(f) = sum[k] /\ sum[0] = 0
              /\ \A n \in 1..k : sum[n] = sum[n - 1] + f[n]
<1>1. f \in Seq(Int) /\ Len(f) = k
  OBVIOUS
<1> DEFINE step == [n \in 1..k |-> [x \in Int |-> x + f[n]]]
<1>2. step \in [1..k -> [Int -> Int]]
  OBVIOUS
<1>3. PICK sum \in [0..k -> Int] : sum[0] = 0 /\ \A n \in 1..k : sum[n] = step[n][sum[n - 1]]
  <2>1. step \in Moves(k, Int) /\ 0 \in Int
    BY <1>2 DEF Moves
  <2>2. PICK sum \in Values(k, Int) : Follows(sum, k, 0, step)
    <3> HIDE DEF step
    <3> QED BY <2>1, RecursionExists
  <2> HIDE DEF step
  <2> QED BY <2>2 DEF Values, Follows
<1>4. ASSUME NEW n \in 1..k PROVE sum[n] = sum[n - 1] + f[n]
  <2>1. sum[n - 1] \in Int
    OBVIOUS
  <2> QED BY <1>3, <2>1
<1> DEFINE g[i \in 0..k] == IF i = 0 THEN 0 ELSE g[i - 1] + f[i]
<1>5. sum = [i \in 0..k |-> IF i = 0 THEN 0 ELSE sum[i - 1] + f[i]]
  <2> HIDE DEF step, g
  <2> QED BY <1>3, <1>4
<1>6. g = [i \in 0..k |-> IF i = 0 THEN 0 ELSE g[i - 1] + f[i]]
  BY <1>5
<1>7. SumOf(f) = g[k]
  BY <1>1 DEF SumOf
<1>8. \A i \in 0..k : g[i] = sum[i]
  <2> HIDE DEF g
  <2>1. Alike(sum, g, 0)
    BY <1>6, <1>3 DEF Alike
  <2>2. ASSUME NEW n \in 1..k, sum[n - 1] = g[n - 1] PROVE sum[n] = g[n]
    <3>1. n \in 0..k /\ n # 0
      OBVIOUS
    <3>2. g[n] = g[n - 1] + f[n]
      BY <1>6, <3>1
    <3> QED BY <3>2, <2>2, <1>4
  <2>3. Alike(sum, g, k)
    BY <2>1, <2>2, Agree
  <2> QED BY <2>3 DEF Alike
<1>9. SumOf(f) = sum[k]
  <2> HIDE DEF g
  <2> QED BY <1>7, <1>8
<1> QED BY <1>3, <1>4, <1>9

Times(a, x) == a * x

LEMMA Distributes ==
    ASSUME NEW a \in Int, NEW x \in Int, NEW y \in Int
    PROVE  /\ Times(a, x + y) = Times(a, x) + Times(a, y) /\ Times(a, x - y) = Times(a, x) - Times(a, y)
           /\ Times(a, x) \in Int /\ Times(a, 0) = 0 /\ Times(a, 1) = a
BY DEF Times

LEMMA Ordered ==
    ASSUME NEW a \in Nat, NEW x \in Int, NEW y \in Int, x <= y
    PROVE  Times(a, x) <= Times(a, y)
<1>1. PICK d \in Nat : y = x + d
  <2>1. y - x \in Nat /\ y = x + (y - x)
    OBVIOUS
  <2> QED BY <2>1
<1>2. Times(a, y) = Times(a, x) + Times(a, d) /\ Times(a, x) \in Int /\ Times(a, d) \in Int
  BY <1>1, Distributes
<1>3. Times(a, d) >= 0
  BY DEF Times
<1> QED BY <1>2, <1>3

Numbers(k) == [1..k -> Int]

Combines(f, k, a, g, b, h) == \A i \in 1..k : f[i] = Times(a, g[i]) + Times(b, h[i])

\* Sums are linear.
LEMMA SumLinear ==
    ASSUME NEW k \in Nat, NEW f \in Numbers(k), NEW g \in Numbers(k), NEW h \in Numbers(k),
           NEW a \in Int, NEW b \in Int, Combines(f, k, a, g, b, h)
    PROVE  SumOf(f) = Times(a, SumOf(g)) + Times(b, SumOf(h))
<1> USE DEF Numbers
<1>1. PICK F \in [0..k -> Int] :
              SumOf(f) = F[k] /\ F[0] = 0 /\ \A n \in 1..k : F[n] = F[n - 1] + f[n]
  BY SumIs
<1>2. PICK G \in [0..k -> Int] :
              SumOf(g) = G[k] /\ G[0] = 0 /\ \A n \in 1..k : G[n] = G[n - 1] + g[n]
  BY SumIs
<1>3. PICK H \in [0..k -> Int] :
              SumOf(h) = H[k] /\ H[0] = 0 /\ \A n \in 1..k : H[n] = H[n - 1] + h[n]
  BY SumIs
<1> DEFINE Good(n) == F[n] = Times(a, G[n]) + Times(b, H[n])
           Ok == {n \in 0..k : Good(n)}
<1>5. Good(0)
  <2>1. Times(a, 0) = 0 /\ Times(b, 0) = 0
    BY Distributes
  <2> QED BY <2>1, <1>1, <1>2, <1>3
<1>6. ASSUME NEW n \in 1..k, Good(n - 1) PROVE Good(n)
  <2>1. n \in 0..k /\ n - 1 \in 0..k
    OBVIOUS
  <2>2. F[n - 1] = Times(a, G[n - 1]) + Times(b, H[n - 1])
    BY <1>6
  <2>3. F[n - 1] \in Int /\ G[n - 1] \in Int /\ H[n - 1] \in Int /\ f[n] \in Int /\ g[n] \in Int /\ h[n] \in Int
    BY <2>1
  <2>4. F[n] = F[n - 1] + f[n] /\ G[n] = G[n - 1] + g[n] /\ H[n] = H[n - 1] + h[n]
    BY <1>1, <1>2, <1>3
  <2>5. /\ Times(a, G[n - 1] + g[n]) = Times(a, G[n - 1]) + Times(a, g[n])
        /\ Times(a, G[n - 1]) \in Int /\ Times(a, g[n]) \in Int
    <3>1. PICK before \in Int : before = G[n - 1]
      BY <2>3
    <3>2. PICK now \in Int : now = g[n]
      BY <2>3
    <3>3. Times(a, before + now) = Times(a, before) + Times(a, now)
      BY Distributes
    <3>4. Times(a, before) \in Int
      BY Distributes
    <3>5. Times(a, now) \in Int
      BY Distributes
    <3> QED BY <3>1, <3>2, <3>3, <3>4, <3>5
  <2>6. /\ Times(b, H[n - 1] + h[n]) = Times(b, H[n - 1]) + Times(b, h[n])
        /\ Times(b, H[n - 1]) \in Int /\ Times(b, h[n]) \in Int
    <3>1. PICK before \in Int : before = H[n - 1]
      BY <2>3
    <3>2. PICK now \in Int : now = h[n]
      BY <2>3
    <3>3. Times(b, before + now) = Times(b, before) + Times(b, now)
      BY Distributes
    <3>4. Times(b, before) \in Int
      BY Distributes
    <3>5. Times(b, now) \in Int
      BY Distributes
    <3> QED BY <3>1, <3>2, <3>3, <3>4, <3>5
  <2>7. f[n] = Times(a, g[n]) + Times(b, h[n])
    BY DEF Combines
  <2> QED BY <2>2, <2>4, <2>5, <2>6, <2>7
<1>7. \A n \in 0..k : Good(n)
  <2> HIDE DEF Good
  <2>1. 0 \in Ok
    BY <1>5
  <2>2. ASSUME NEW n \in 1..k, n - 1 \in Ok PROVE n \in Ok
    BY <2>2, <1>6
  <2>3. \A n \in 0..k : n \in Ok
    <3> HIDE DEF Ok
    <3> QED BY <2>1, <2>2, Steps
  <2> QED BY <2>3
<1>8. F[k] = Times(a, G[k]) + Times(b, H[k])
  <2>1. k \in 0..k
    OBVIOUS
  <2> HIDE DEF Ok, Good
  <2>2. Good(k)
    BY <2>1, <1>7
  <2> USE DEF Good
  <2> QED BY <2>2
<1> QED BY <1>1, <1>2, <1>3, <1>8

\* Sums keep the order.
LEMMA SumBelow ==
    ASSUME NEW k \in Nat, NEW f \in [1..k -> Int], NEW g \in [1..k -> Int],
           NEW c \in Nat, \A i \in 1..k : f[i] <= Times(c, g[i])
    PROVE  SumOf(f) <= Times(c, SumOf(g))
<1>1. PICK F \in [0..k -> Int] :
              SumOf(f) = F[k] /\ F[0] = 0 /\ \A n \in 1..k : F[n] = F[n - 1] + f[n]
  BY SumIs
<1>2. PICK G \in [0..k -> Int] :
              SumOf(g) = G[k] /\ G[0] = 0 /\ \A n \in 1..k : G[n] = G[n - 1] + g[n]
  BY SumIs
<1> DEFINE Good(n) == F[n] <= Times(c, G[n])
           Ok == {n \in 0..k : Good(n)}
<1>5. Good(0)
  <2>1. Times(c, 0) = 0
    BY Distributes
  <2> QED BY <2>1, <1>1, <1>2
<1>6. ASSUME NEW n \in 1..k, Good(n - 1) PROVE Good(n)
  <2>1. n \in 0..k /\ n - 1 \in 0..k
    OBVIOUS
  <2>2. F[n - 1] <= Times(c, G[n - 1])
    BY <1>6
  <2>3. F[n - 1] \in Int /\ G[n - 1] \in Int /\ f[n] \in Int /\ g[n] \in Int
    BY <2>1
  <2>4. F[n] = F[n - 1] + f[n] /\ G[n] = G[n - 1] + g[n]
    BY <1>1, <1>2
  <2>5. /\ Times(c, G[n - 1] + g[n]) = Times(c, G[n - 1]) + Times(c, g[n])
        /\ Times(c, G[n - 1]) \in Int /\ Times(c, g[n]) \in Int
    <3>1. PICK before \in Int : before = G[n - 1]
      BY <2>3
    <3>2. PICK now \in Int : now = g[n]
      BY <2>3
    <3>3. Times(c, before + now) = Times(c, before) + Times(c, now)
      BY Distributes
    <3>4. Times(c, before) \in Int
      BY Distributes
    <3>5. Times(c, now) \in Int
      BY Distributes
    <3> QED BY <3>1, <3>2, <3>3, <3>4, <3>5
  <2>6. f[n] <= Times(c, g[n])
    OBVIOUS
  <2> HIDE DEF Good
  <2>7. Times(c, G[n]) = Times(c, G[n - 1]) + Times(c, g[n])
    BY <2>4, <2>5
  <2>8. ASSUME NEW p \in Int, NEW q \in Int, NEW u \in Int, NEW v \in Int, p <= u, q <= v
        PROVE  p + q <= u + v
    BY <2>8
  <2>9. F[n - 1] + f[n] <= Times(c, G[n - 1]) + Times(c, g[n])
    BY <2>2, <2>3, <2>5, <2>6, <2>8
  <2>10. F[n] <= Times(c, G[n])
    BY <2>4, <2>7, <2>9
  <2> QED BY <2>10 DEF Good
<1>7. \A n \in 0..k : Good(n)
  <2> HIDE DEF Good
  <2>1. 0 \in Ok
    BY <1>5
  <2>2. ASSUME NEW n \in 1..k, n - 1 \in Ok PROVE n \in Ok
    BY <2>2, <1>6
  <2>3. \A n \in 0..k : n \in Ok
    <3> HIDE DEF Ok
    <3> QED BY <2>1, <2>2, Steps
  <2> QED BY <2>3
<1>8. F[k] <= Times(c, G[k])
  <2>1. k \in 0..k
    OBVIOUS
  <2> HIDE DEF Ok, Good
  <2>2. Good(k)
    BY <2>1, <1>7
  <2> USE DEF Good
  <2> QED BY <2>2
<1> QED BY <1>1, <1>2, <1>8

\* A sum of zeros and ones counts the ones.
LEMMA SumCounts ==
    ASSUME NEW k \in Nat, NEW f \in [1..k -> {0, 1}]
    PROVE  SumOf(f) = Cardinality({i \in 1..k : f[i] = 1})
<1>1. PICK F \in [0..k -> Int] :
              SumOf(f) = F[k] /\ F[0] = 0 /\ \A n \in 1..k : F[n] = F[n - 1] + f[n]
  <2>1. f \in [1..k -> Int]
    OBVIOUS
  <2> QED BY <2>1, SumIs
<1> DEFINE Ones(n) == {i \in 1..n : f[i] = 1}
           Good == {n \in 0..k : F[n] = Cardinality(Ones(n))}
<1>3. 0 \in Good
  <2>1. Ones(0) = {}
    OBVIOUS
  <2>2. Cardinality(Ones(0)) = 0
    <3> HIDE DEF Ones
    <3> QED BY <2>1, FS_EmptySet
  <2> HIDE DEF Ones
  <2> QED BY <2>2, <1>1
<1>4. ASSUME NEW n \in 1..k, n - 1 \in Good PROVE n \in Good
  <2>1. n \in 0..k /\ n - 1 \in 0..k
    OBVIOUS
  <2>2. F[n - 1] = Cardinality(Ones(n - 1))
    BY <1>4, <2>1
  <2>3. IsFiniteSet(Ones(n - 1)) /\ Cardinality(Ones(n - 1)) \in Nat
    <3>1. Ones(n - 1) \in SUBSET (1..(n - 1)) /\ IsFiniteSet(1..(n - 1))
      <4>1. Ones(n - 1) \in SUBSET (1..(n - 1))
        OBVIOUS
      <4>2. n - 1 \in Int /\ 1 \in Int
        OBVIOUS
      <4>3. IsFiniteSet(1..(n - 1))
        BY <4>2, FS_Interval
      <4> QED BY <4>1, <4>3
    <3> HIDE DEF Ones
    <3> QED BY <3>1, FS_Subset, FS_CardinalityType
  <2>4. n \notin Ones(n - 1)
    OBVIOUS
  <2>5. F[n] = F[n - 1] + f[n]
    BY <1>1
  <2>6. F[n] = Cardinality(Ones(n))
    <3>1. CASE f[n] = 1
      <4>1. Ones(n) = Ones(n - 1) \union {n}
        BY <3>1
      <4>2. Cardinality(Ones(n - 1) \union {n}) = Cardinality(Ones(n - 1)) + 1
        <5> HIDE DEF Ones
        <5> QED BY <2>3, <2>4, FS_AddElement
      <4> HIDE DEF Ones
      <4> QED BY <4>1, <4>2, <2>2, <2>5, <3>1
    <3>2. CASE f[n] # 1
      <4>1. Ones(n) = Ones(n - 1) /\ f[n] = 0
        BY <3>2
      <4> HIDE DEF Ones
      <4> QED BY <4>1, <2>1, <2>2, <2>5, <3>2
    <3> QED BY <3>1, <3>2
  <2> HIDE DEF Ones
  <2> QED BY <2>1, <2>6
<1>5. \A n \in 0..k : n \in Good
  <2> HIDE DEF Good
  <2> QED BY <1>3, <1>4, Steps
<1>6. F[k] = Cardinality(Ones(k))
  <2>1. k \in 0..k /\ k \in Good
    <3> HIDE DEF Good
    <3> QED BY <1>5
  <2> HIDE DEF Ones
  <2> QED BY <2>1
<1> QED BY <1>1, <1>6

-----------------------------------------------------------------------------
(* Places in a strict order *)

\* order is the set of pairs <<a, b>> such that a comes before b.
Strict(S, order) ==
    /\ \A a \in S : <<a, a>> \notin order
    /\ \A a, b \in S : a # b => <<a, b>> \in order \/ <<b, a>> \in order
    /\ \A a, b, c \in S : <<a, b>> \in order /\ <<b, c>> \in order => <<a, c>> \in order

Ahead(S, order, x) == {y \in S : <<y, x>> \in order}

Place(S, order, x) == Cardinality(Ahead(S, order, x))

LEMMA PlaceType ==
    ASSUME NEW S, IsFiniteSet(S), NEW order, Strict(S, order), NEW x \in S
    PROVE  Place(S, order, x) \in 0..(Cardinality(S) - 1) /\ IsFiniteSet(Ahead(S, order, x))
<1>1. Ahead(S, order, x) \in SUBSET S /\ x \notin Ahead(S, order, x)
  BY DEF Ahead, Strict
<1>2. Cardinality(S) \in Nat
  BY FS_CardinalityType
<1>3. /\ IsFiniteSet(Ahead(S, order, x)) /\ Place(S, order, x) <= Cardinality(S)
      /\ Cardinality(S) = Place(S, order, x) => S = Ahead(S, order, x)
  BY <1>1, FS_Subset DEF Place
<1>4. Place(S, order, x) \in Nat
  BY <1>3, FS_CardinalityType DEF Place
<1> QED BY <1>1, <1>2, <1>3, <1>4

\* Who comes first has the smaller place.
LEMMA PlaceOrder ==
    ASSUME NEW S, IsFiniteSet(S), NEW order, Strict(S, order), NEW x \in S, NEW y \in S, <<x, y>> \in order
    PROVE  Place(S, order, x) < Place(S, order, y)
<1>1. Ahead(S, order, x) \in SUBSET Ahead(S, order, y)
  BY DEF Ahead, Strict
<1>2. x \in Ahead(S, order, y) /\ x \notin Ahead(S, order, x)
  BY DEF Ahead, Strict
<1>3. IsFiniteSet(Ahead(S, order, y))
  BY PlaceType
<1>4. /\ Place(S, order, x) <= Place(S, order, y)
      /\ Place(S, order, y) = Place(S, order, x) => Ahead(S, order, y) = Ahead(S, order, x)
  BY <1>1, <1>3, FS_Subset DEF Place
<1>5. Place(S, order, x) \in Int /\ Place(S, order, y) \in Int
  BY PlaceType, FS_CardinalityType
<1> QED BY <1>2, <1>4, <1>5

\* Every place is taken, once.
LEMMA PlacesAreFilled ==
    ASSUME NEW S, IsFiniteSet(S), NEW order, Strict(S, order)
    PROVE  [x \in S |-> Place(S, order, x)] \in Bijection(S, 0..(Cardinality(S) - 1))
<1> DEFINE p == [x \in S |-> Place(S, order, x)]
           N == Cardinality(S)
<1>1. N \in Nat
  BY FS_CardinalityType
<1>2. \A x \in S : Place(S, order, x) \in 0..(N - 1)
  BY PlaceType
<1>3. p \in [S -> 0..(N - 1)]
  BY <1>2
<1>4. \A x, y \in S : x # y => p[x] # p[y]
  <2>1. ASSUME NEW x \in S, NEW y \in S, x # y PROVE p[x] # p[y]
    <3>1. <<x, y>> \in order \/ <<y, x>> \in order
      BY <2>1 DEF Strict
    <3>2. Place(S, order, x) < Place(S, order, y) \/ Place(S, order, y) < Place(S, order, x)
      BY <3>1, PlaceOrder
    <3> QED BY <3>2, <1>2
  <2> QED BY <2>1
<1>5. p \in Injection(S, 0..(N - 1))
  <2> HIDE DEF p
  <2> QED BY <1>3, <1>4 DEF Injection, IsInjective
<1>6. IsFiniteSet(0..(N - 1)) /\ Cardinality(0..(N - 1)) = N
  <2> HIDE DEF N
  <2>1. N - 1 \in Int
    BY <1>1
  <2>2. IsFiniteSet(0..(N - 1)) /\ Cardinality(0..(N - 1)) = IF 0 > N - 1 THEN 0 ELSE N - 1 - 0 + 1
    BY <2>1, FS_Interval
  <2> QED BY <2>2, <1>1
<1>7. p \in Surjection(S, 0..(N - 1))
  <2> HIDE DEF p
  <2> QED BY <1>5, <1>6, FS_Injection
<1> QED BY <1>5, <1>7 DEF Bijection

\* As many are at the first m places as there are such places.
LEMMA FirstPlaces ==
    ASSUME NEW S, IsFiniteSet(S), NEW order, Strict(S, order), NEW m \in 0..Cardinality(S)
    PROVE  Cardinality({x \in S : Place(S, order, x) < m}) = m
<1> DEFINE p == [x \in S |-> Place(S, order, x)]
           First == {x \in S : Place(S, order, x) < m}
           q == [x \in First |-> Place(S, order, x)]
           N == Cardinality(S)
<1>1. N \in Nat /\ m \in Nat /\ m <= N
  <2>1. Cardinality(S) \in Nat
    BY FS_CardinalityType
  <2> QED BY <2>1
<1>2. p \in Injection(S, 0..(N - 1)) /\ p \in Surjection(S, 0..(N - 1))
  BY PlacesAreFilled DEF Bijection
<1>3. \A x \in S : Place(S, order, x) \in 0..(N - 1)
  BY PlaceType
<1>4. \A x, y \in S : x # y => Place(S, order, x) # Place(S, order, y)
  <2>1. \A x, y \in S : p[x] = p[y] => x = y
    <3> HIDE DEF p
    <3>1. DOMAIN p = S
      BY <1>2 DEF Injection
    <3> QED BY <1>2, <3>1 DEF Injection, IsInjective
  <2> QED BY <2>1
<1>5. \A t \in 0..(N - 1) : \E x \in S : Place(S, order, x) = t
  <2>1. \A t \in 0..(N - 1) : \E x \in S : p[x] = t
    <3> HIDE DEF p
    <3> QED BY <1>2 DEF Surjection
  <2> QED BY <2>1
<1>6. q \in [First -> 0..(m - 1)]
  BY <1>1, <1>3
<1>7. \A x, y \in First : x # y => q[x] # q[y]
  BY <1>4
<1>8. \A t \in 0..(m - 1) : \E x \in First : q[x] = t
  <2>1. ASSUME NEW t \in 0..(m - 1) PROVE \E x \in First : q[x] = t
    <3>1. t \in 0..(N - 1) /\ t < m
      BY <1>1
    <3>2. PICK x \in S : Place(S, order, x) = t
      BY <3>1, <1>5
    <3>3. x \in First /\ q[x] = t
      BY <3>1, <3>2
    <3> QED BY <3>3
  <2> QED BY <2>1
<1>9. q \in Bijection(First, 0..(m - 1))
  <2> HIDE DEF q, First
  <2>1. DOMAIN q = First
    BY <1>6
  <2> QED BY <1>6, <1>7, <1>8, <2>1 DEF Bijection, Injection, Surjection, IsInjective
<1>10. IsFiniteSet(First)
  BY FS_Subset
<1>11. Cardinality(0..(m - 1)) = m
  <2>1. m - 1 \in Int
    BY <1>1
  <2>2. Cardinality(0..(m - 1)) = IF 0 > m - 1 THEN 0 ELSE m - 1 - 0 + 1
    BY <2>1, FS_Interval
  <2> QED BY <2>2, <1>1
<1>12. Cardinality(0..(m - 1)) = Cardinality(First)
  <2> HIDE DEF q, First
  <2> QED BY <1>9, <1>10, FS_Bijection DEF ExistsBijection
<1> QED BY <1>11, <1>12

-----------------------------------------------------------------------------
(* split_stats *)

LEMMA Cancels ==
    ASSUME NEW a \in Nat \ {0}, NEW x \in Int, NEW y \in Int, Times(a, x) <= Times(a, y)
    PROVE  x <= y
<1>1. SUFFICES ASSUME ~(x <= y) PROVE FALSE
  OBVIOUS
<1>2. y + 1 <= x /\ y + 1 \in Int /\ a \in Int /\ a \in Nat /\ a > 0
  BY <1>1
<1>3. Times(a, y + 1) <= Times(a, x)
  BY <1>2, Ordered
<1>4. Times(a, y + 1) = Times(a, y) + Times(a, 1) /\ Times(a, 1) = a /\ Times(a, y) \in Int /\ Times(a, x) \in Int
  BY <1>2, Distributes
<1> QED BY <1>2, <1>3, <1>4

LEMMA DivisionOfInts ==
    ASSUME NEW x \in Int, NEW d \in Nat \ {0}
    PROVE  /\ x \div d \in Int /\ x % d \in 0..(d - 1)
           /\ x = Times(d, x \div d) + (x % d)
BY DEF Times

LEMMA Division ==
    ASSUME NEW x \in Nat, NEW d \in Nat \ {0}
    PROVE  /\ x \div d \in Nat /\ x % d \in 0..(d - 1)
           /\ x = Times(d, x \div d) + (x % d)
BY DEF Times

LEMMA SumOfOnes ==
    ASSUME NEW k \in Nat, NEW c \in {0, 1}
    PROVE  SumOf([i \in 1..k |-> c]) = IF c = 1 THEN k ELSE 0
<1> DEFINE f == [i \in 1..k |-> c]
<1>1. f \in [1..k -> {0, 1}]
  OBVIOUS
<1>2. SumOf(f) = Cardinality({i \in 1..k : f[i] = 1})
  <2> HIDE DEF f
  <2> QED BY <1>1, SumCounts
<1>3. CASE c = 1
  <2>1. {i \in 1..k : f[i] = 1} = 1..k
    BY <1>3
  <2>2. Cardinality(1..k) = k
    BY FS_Interval
  <2> QED BY <1>2, <2>1, <2>2, <1>3
<1>4. CASE c = 0
  <2>1. {i \in 1..k : f[i] = 1} = {}
    BY <1>4
  <2> QED BY <1>2, <2>1, <1>4, FS_EmptySet
<1> QED BY <1>3, <1>4

LEMMA SumType ==
    ASSUME NEW k \in Nat, NEW f \in [1..k -> Int]
    PROVE  SumOf(f) \in Int
<1>1. PICK sum \in [0..k -> Int] : SumOf(f) = sum[k]
  BY SumIs
<1> QED BY <1>1

LEMMA SumOfNats ==
    ASSUME NEW k \in Nat, NEW f \in [1..k -> Nat]
    PROVE  SumOf(f) \in Nat
<1> DEFINE zero == [i \in 1..k |-> 0]
<1>1. zero \in [1..k -> Int] /\ f \in [1..k -> Int]
  OBVIOUS
<1>2. \A i \in 1..k : zero[i] <= Times(1, f[i])
  BY DEF Times
<1>3. SumOf(zero) <= Times(1, SumOf(f))
  <2> HIDE DEF zero
  <2> QED BY <1>1, <1>2, SumBelow
<1>4. SumOf(zero) = 0
  <2>1. PICK c \in {0, 1} : c = 0
    OBVIOUS
  <2>2. SumOf([i \in 1..k |-> c]) = IF c = 1 THEN k ELSE 0
    BY SumOfOnes
  <2> QED BY <2>1, <2>2
<1>5. SumOf(f) \in Int
  BY <1>1, SumType
<1> QED BY <1>3, <1>4, <1>5 DEF Times

\* The order of sorted(..., reverse=True), as a set of pairs
Ranking(k, rest) == {p \in (1..k) \X (1..k) : Before(rest, p[1], p[2])}

LEMMA RankingIsStrict ==
    ASSUME NEW k \in Nat, NEW rest \in [1..k -> Nat]
    PROVE  Strict(1..k, Ranking(k, rest))
<1>1. \A i, j \in 1..k : <<i, j>> \in Ranking(k, rest) <=> Before(rest, i, j)
  BY DEF Ranking
<1>2. ASSUME NEW i \in 1..k, NEW j \in 1..k, NEW l \in 1..k
      PROVE  /\ ~Before(rest, i, i)
             /\ i # j => Before(rest, i, j) \/ Before(rest, j, i)
             /\ Before(rest, i, j) /\ Before(rest, j, l) => Before(rest, i, l)
  <2>1. rest[i] \in Nat /\ rest[j] \in Nat /\ rest[l] \in Nat
    OBVIOUS
  <2> QED BY <2>1 DEF Before
<1> QED BY <1>1, <1>2 DEF Strict

LEMMA ExtraIs ==
    ASSUME NEW k \in Nat, NEW rest \in [1..k -> Nat], NEW leftover \in 0..k
    PROVE  /\ Extra(leftover, rest) \in [1..k -> {0, 1}]
           /\ SumOf(Extra(leftover, rest)) = leftover
           /\ \A i \in 1..k : Extra(leftover, rest)[i] = 1 => Place(1..k, Ranking(k, rest), i) < leftover
<1> DEFINE extra == Extra(leftover, rest)
           S == 1..k
           order == Ranking(k, rest)
<1>1. \A i \in S : {j \in DOMAIN rest : Before(rest, j, i)} = Ahead(S, order, i)
  BY DEF Ahead, Ranking
<1>2. extra = [i \in S |-> IF Place(S, order, i) < leftover THEN 1 ELSE 0]
  <2> HIDE DEF order
  <2> QED BY <1>1 DEF Extra, Place
<1>3. extra \in [1..k -> {0, 1}]
  <2> HIDE DEF extra, order
  <2> QED BY <1>2
<1>4. {i \in 1..k : extra[i] = 1} = {i \in S : Place(S, order, i) < leftover}
  <2> HIDE DEF extra, order
  <2> QED BY <1>2
<1>5. Cardinality({i \in S : Place(S, order, i) < leftover}) = leftover
  <2>1. Strict(S, order)
    BY RankingIsStrict
  <2>2. IsFiniteSet(S) /\ Cardinality(S) = k
    BY FS_Interval
  <2>3. leftover \in 0..Cardinality(S)
    BY <2>2
  <2> HIDE DEF S, order
  <2> QED BY <2>1, <2>2, <2>3, FirstPlaces
<1>6. SumOf(extra) = leftover
  <2>1. SumOf(extra) = Cardinality({i \in 1..k : extra[i] = 1})
    <3> HIDE DEF extra
    <3> QED BY <1>3, SumCounts
  <2> HIDE DEF extra, order, S
  <2> QED BY <2>1, <1>4, <1>5
<1>7. \A i \in 1..k : extra[i] = 1 => Place(S, order, i) < leftover
  <2> HIDE DEF extra, order
  <2> QED BY <1>2
<1> QED BY <1>3, <1>6, <1>7

\* Who has no remainder comes after all who have one.
LEMMA WithoutRemainder ==
    ASSUME NEW k \in Nat, NEW rest \in [1..k -> Nat], NEW i \in 1..k, rest[i] = 0
    PROVE  Cardinality({j \in 1..k : rest[j] > 0}) <= Place(1..k, Ranking(k, rest), i)
<1> DEFINE T == {j \in 1..k : rest[j] > 0}
<1>1. T \in SUBSET Ahead(1..k, Ranking(k, rest), i)
  BY DEF Ahead, Ranking, Before
<1>2. IsFiniteSet(Ahead(1..k, Ranking(k, rest), i))
  <2>1. IsFiniteSet(1..k)
    BY FS_Interval
  <2>2. Strict(1..k, Ranking(k, rest))
    BY RankingIsStrict
  <2> QED BY <2>1, <2>2, PlaceType
<1> HIDE DEF T
<1>3. Cardinality(T) <= Cardinality(Ahead(1..k, Ranking(k, rest), i))
  BY <1>1, <1>2, FS_Subset
<1> QED BY <1>3 DEF Place, T

Weights(k) == [1..k -> Nat \ {0}]

\* The shares of the largest remainders add up, and none is a line or more off.
LEMMA LargestRemainder ==
    ASSUME NEW k \in Nat \ {0}, NEW weights \in Weights(k), NEW total \in Nat
    PROVE  /\ SumOf(largest_remainder(weights, total)) = total
           /\ \A i \in 1..k :
                 /\ largest_remainder(weights, total)[i] * SumOf(weights)
                        > (total * weights[i]) - SumOf(weights)
                 /\ largest_remainder(weights, total)[i] * SumOf(weights)
                        < (total * weights[i]) + SumOf(weights)
<1> DEFINE whole == SumOf(weights)
           shares == [i \in 1..k |-> (total * weights[i]) \div whole]
           rest == [i \in 1..k |-> (total * weights[i]) % whole]
           leftover == total - SumOf(shares)
           extra == Extra(leftover, rest)
           result == [i \in 1..k |-> shares[i] + extra[i]]
           some == [i \in 1..k |-> IF rest[i] > 0 THEN 1 ELSE 0]
<1>1. weights \in [1..k -> Nat] /\ weights \in [1..k -> Int] /\ k \in Nat
  BY DEF Weights
<1>2. whole \in Nat \ {0}
  <2>1. whole \in Nat
    BY <1>1, SumOfNats
  <2> DEFINE one == [i \in 1..k |-> 1]
  <2>2. one \in [1..k -> Int] /\ \A i \in 1..k : one[i] <= Times(1, weights[i])
    <3>1. \A i \in 1..k : weights[i] \in Nat \ {0}
      BY DEF Weights
    <3> QED BY <3>1 DEF Times
  <2>3. SumOf(one) <= Times(1, SumOf(weights))
    <3> HIDE DEF one
    <3> QED BY <1>1, <2>2, SumBelow
  <2>4. SumOf(one) = k
    <3>1. PICK c \in {0, 1} : c = 1
      OBVIOUS
    <3>2. SumOf([i \in 1..k |-> c]) = IF c = 1 THEN k ELSE 0
      BY <1>1, SumOfOnes
    <3> QED BY <3>1, <3>2
  <2> HIDE DEF one
  <2> QED BY <2>1, <2>3, <2>4 DEF Times
<1>3. largest_remainder(weights, total) = result
  <2>1. DOMAIN weights = 1..k /\ whole # 0
    BY <1>1, <1>2
  <2> QED BY <2>1 DEF largest_remainder
<1> HIDE DEF whole
<1>4. \A i \in 1..k : total * weights[i] \in Nat
  BY <1>1
<1>5. /\ shares \in [1..k -> Nat] /\ rest \in [1..k -> 0..(whole - 1)]
      /\ \A i \in 1..k : total * weights[i] = Times(whole, shares[i]) + rest[i]
  <2>1. ASSUME NEW i \in 1..k
        PROVE  /\ shares[i] \in Nat /\ rest[i] \in 0..(whole - 1)
               /\ total * weights[i] = Times(whole, shares[i]) + rest[i]
    <3>1. PICK x \in Nat : x = total * weights[i]
      BY <1>4
    <3>2. x \div whole \in Nat /\ x % whole \in 0..(whole - 1) /\ x = Times(whole, x \div whole) + (x % whole)
      BY <1>2, Division
    <3> QED BY <3>1, <3>2
  <2> QED BY <2>1
<1>6. /\ rest \in [1..k -> Nat] /\ rest \in [1..k -> Int] /\ shares \in [1..k -> Int]
      /\ rest \in Numbers(k) /\ shares \in Numbers(k) /\ weights \in Numbers(k)
  <2>1. \A n \in 0..(whole - 1) : n \in Nat
    BY <1>2
  <2> HIDE DEF rest, shares
  <2>2. rest \in [1..k -> Nat]
    BY <1>5, <2>1
  <2> QED BY <1>1, <1>5, <2>2 DEF Numbers
<1> HIDE DEF shares, rest
<1>7. SumOf(shares) \in Nat /\ SumOf(shares) \in Int
  <2>1. SumOf(shares) \in Nat
    BY <1>1, <1>5, SumOfNats
  <2> QED BY <2>1
<1>8. leftover \in Int
  BY <1>7
<1>9. SumOf(rest) = Times(whole, leftover)
  <2> DEFINE minus == -whole
  <2>1. minus \in Int /\ total \in Int
    BY <1>2
  <2>2. Combines(rest, k, total, weights, minus, shares)
    <3>1. ASSUME NEW i \in 1..k PROVE rest[i] = Times(total, weights[i]) + Times(minus, shares[i])
      <4>1. PICK r \in Int : r = rest[i]
        BY <1>6
      <4>2. PICK x \in Int : x = shares[i]
        BY <1>6
      <4>5. total * weights[i] = whole * x + r
        BY <1>5, <4>1, <4>2 DEF Times
      <4>6. PICK w \in Int : w = whole
        BY <1>2
      <4>7. (-w) * x = -(w * x) /\ w * x \in Int
        OBVIOUS
      <4>3. total * weights[i] = whole * x + r /\ minus * x = -(whole * x) /\ whole * x \in Int
        BY <4>5, <4>6, <4>7
      <4>4. r = total * weights[i] + minus * x
        <5>1. PICK a \in Int : a = total * weights[i]
          BY <1>4
        <5>2. PICK b \in Int : b = whole * x
          BY <4>3
        <5> QED BY <5>1, <5>2, <4>3
      <4> HIDE DEF minus
      <4> QED BY <4>1, <4>2, <4>4 DEF Times
    <3> HIDE DEF minus
    <3> QED BY <3>1 DEF Combines
  <2>3. SumOf(rest) = Times(total, SumOf(weights)) + Times(minus, SumOf(shares))
    <3> HIDE DEF minus
    <3> QED BY <1>1, <1>6, <2>1, <2>2, SumLinear
  <2>4. PICK s \in Int : s = SumOf(shares)
    BY <1>7
  <2>5. SumOf(rest) = total * whole + (-whole) * s
    BY <2>3, <2>4 DEF Times, whole
  <2>6. total * whole + (-whole) * s = whole * (total - s)
    BY <1>2
  <2> QED BY <2>4, <2>5, <2>6 DEF Times
<1>10. leftover >= 0
  <2>1. SumOf(rest) \in Nat
    BY <1>1, <1>6, SumOfNats
  <2>2. whole \in Int /\ Times(whole, 0) = 0
    BY <1>2 DEF Times
  <2>3. Times(whole, 0) <= Times(whole, leftover)
    BY <1>9, <2>1, <2>2
  <2> HIDE DEF leftover
  <2>4. 0 \in Int
    OBVIOUS
  <2>5. 0 <= leftover
    BY <1>2, <1>8, <2>3, <2>4, Cancels
  <2> QED BY <2>5, <1>8
<1>11. leftover <= Cardinality({j \in 1..k : rest[j] > 0}) /\ Cardinality({j \in 1..k : rest[j] > 0}) \in 0..k
  <2>1. some \in [1..k -> {0, 1}] /\ some \in [1..k -> Int]
    OBVIOUS
  <2>2. \A i \in 1..k : rest[i] <= Times(whole, some[i])
    <3>1. ASSUME NEW i \in 1..k PROVE rest[i] <= Times(whole, some[i])
      <4>1. PICK r \in 0..(whole - 1) : r = rest[i]
        BY <1>5
      <4>2. CASE r > 0
        <5>1. some[i] = 1
          BY <4>1, <4>2
        <5> QED BY <5>1, <4>1, <1>2 DEF Times
      <4>3. CASE r = 0
        <5>2. rest[i] = 0 /\ ~(rest[i] > 0)
          BY <4>1, <4>3
        <5>1. some[i] = 0
          BY <5>2
        <5> QED BY <5>1, <4>1, <4>3, <1>2 DEF Times
      <4> QED BY <4>2, <4>3, <1>2
    <3> QED BY <3>1
  <2>3. SumOf(some) = Cardinality({j \in 1..k : some[j] = 1})
    <3> HIDE DEF some
    <3> QED BY <1>1, <2>1, SumCounts
  <2>4. {j \in 1..k : some[j] = 1} = {j \in 1..k : rest[j] > 0}
    OBVIOUS
  <2> HIDE DEF some
  <2>5. SumOf(some) \in Int
    BY <1>1, <2>1, SumType
  <2>6. whole \in Nat
    BY <1>2
  <2>7. SumOf(rest) <= Times(whole, SumOf(some))
    BY <1>1, <1>6, <2>1, <2>2, <2>6, SumBelow
  <2>8. leftover <= SumOf(some)
    <3>1. Times(whole, leftover) <= Times(whole, SumOf(some))
      BY <1>9, <2>7
    <3> HIDE DEF leftover
    <3> QED BY <3>1, <1>2, <1>8, <2>5, Cancels
  <2>9. Cardinality({j \in 1..k : rest[j] > 0}) \in 0..k
    <3> DEFINE T == {j \in 1..k : rest[j] > 0}
               S == 1..k
    <3>1. T \in SUBSET S /\ IsFiniteSet(S) /\ Cardinality(S) = k
      BY <1>1, FS_Interval
    <3> HIDE DEF T, S
    <3>2. IsFiniteSet(T) /\ Cardinality(T) <= k
      BY <3>1, FS_Subset
    <3>3. Cardinality(T) \in 0..k
      BY <3>2, FS_CardinalityType
    <3> QED BY <3>3 DEF T
  <2> HIDE DEF leftover
  <2> QED BY <2>3, <2>4, <2>8, <2>9
<1>12. leftover \in 0..k
  <2> HIDE DEF leftover
  <2> QED BY <1>8, <1>10, <1>11
<1>13. /\ extra \in [1..k -> {0, 1}] /\ SumOf(extra) = leftover
       /\ \A i \in 1..k : extra[i] = 1 => Place(1..k, Ranking(k, rest), i) < leftover
  <2> HIDE DEF leftover
  <2> QED BY <1>1, <1>6, <1>12, ExtraIs
<1> HIDE DEF extra
<1>14. result \in [1..k -> Nat] /\ result \in Numbers(k) /\ extra \in Numbers(k)
  <2>1. ASSUME NEW i \in 1..k PROVE shares[i] + extra[i] \in Nat
    <3>1. shares[i] \in Nat /\ extra[i] \in {0, 1}
      BY <1>5, <1>13
    <3> QED BY <3>1
  <2>2. result \in [1..k -> Nat]
    BY <2>1
  <2> HIDE DEF result
  <2> QED BY <2>2, <1>13 DEF Numbers
<1>15. SumOf(result) = total
  <2>1. Combines(result, k, 1, shares, 1, extra)
    <3>1. ASSUME NEW i \in 1..k PROVE result[i] = Times(1, shares[i]) + Times(1, extra[i])
      <4>1. shares[i] \in Int /\ extra[i] \in Int
        BY <1>6, <1>13
      <4> QED BY <4>1 DEF Times
    <3> HIDE DEF result
    <3> QED BY <3>1 DEF Combines
  <2>2. SumOf(result) = Times(1, SumOf(shares)) + Times(1, SumOf(extra))
    <3>1. PICK one \in Int : one = 1
      OBVIOUS
    <3>2. Combines(result, k, one, shares, one, extra)
      BY <2>1, <3>1
    <3>3. SumOf(result) = Times(one, SumOf(shares)) + Times(one, SumOf(extra))
      <4> HIDE DEF result
      <4> QED BY <1>1, <1>6, <1>14, <3>2, SumLinear
    <3> QED BY <3>1, <3>3
  <2>3. SumOf(result) = SumOf(shares) + SumOf(extra)
    <3> HIDE DEF result, leftover
    <3> QED BY <2>2, <1>7, <1>8, <1>13 DEF Times
  <2> HIDE DEF result
  <2> QED BY <2>3, <1>7, <1>13
<1>16. ASSUME NEW i \in 1..k
       PROVE  /\ result[i] * whole > (total * weights[i]) - whole
              /\ result[i] * whole < (total * weights[i]) + whole
  <2>1. PICK t \in Nat : t = total * weights[i]
    BY <1>4
  <2>2. PICK x \in Nat : x = shares[i]
    BY <1>5
  <2>3. PICK r \in 0..(whole - 1) : r = rest[i]
    BY <1>5
  <2>4. PICK e \in {0, 1} : e = extra[i]
    BY <1>13
  <2>5. t = Times(whole, x) + r
    BY <2>1, <2>2, <2>3, <1>5
  <2>6. e = 1 => r > 0
    <3>1. ASSUME e = 1, r = 0 PROVE FALSE
      <4>1. Place(1..k, Ranking(k, rest), i) < leftover
        BY <3>1, <2>4, <1>13
      <4>2. Cardinality({j \in 1..k : rest[j] > 0}) <= Place(1..k, Ranking(k, rest), i)
        BY <3>1, <2>3, <1>1, <1>6, WithoutRemainder
      <4>3. Place(1..k, Ranking(k, rest), i) \in Int
        <5>1. IsFiniteSet(1..k) /\ Cardinality(1..k) = k
          BY <1>1, FS_Interval
        <5>2. Strict(1..k, Ranking(k, rest))
          BY <1>1, <1>6, RankingIsStrict
        <5>3. Place(1..k, Ranking(k, rest), i) \in 0..(Cardinality(1..k) - 1)
          BY <5>1, <5>2, PlaceType
        <5> QED BY <5>1, <5>3
      <4> HIDE DEF leftover
      <4> QED BY <4>1, <4>2, <4>3, <1>8, <1>11
    <3> QED BY <3>1, <2>3, <1>2
  <2>7. result[i] * whole = Times(whole, x + e)
    BY <2>2, <2>4, <1>2 DEF Times
  <2>8. Times(whole, x + e) = Times(whole, x) + Times(whole, e)
    <3>1. whole \in Int /\ x \in Int /\ e \in Int
      BY <1>2
    <3> QED BY <3>1, Distributes
  <2>9. Times(whole, x) \in Int
    <3>1. whole \in Int /\ x \in Int
      BY <1>2
    <3> QED BY <3>1, Distributes
  <2>10. Times(whole, e) = IF e = 1 THEN whole ELSE 0
    BY <1>2 DEF Times
  <2>11. PICK y \in Int : y = Times(whole, x)
    BY <2>9
  <2>12. result[i] * whole = y + (IF e = 1 THEN whole ELSE 0)
    BY <2>7, <2>8, <2>10, <2>11
  <2>13. t = y + r
    BY <2>5, <2>11
  <2>14. /\ y + (IF e = 1 THEN whole ELSE 0) > t - whole
         /\ y + (IF e = 1 THEN whole ELSE 0) < t + whole
    BY <2>6, <2>13, <1>2
  <2> HIDE DEF result
  <2> QED BY <2>1, <2>12, <2>14
<1> HIDE DEF result
<1> QED BY <1>3, <1>14, <1>15, <1>16 DEF whole

\* The lines of a window are shared out exactly, for any number of authors.
THEOREM SplitAlwaysExact ==
    ASSUME NEW k \in Nat \ {0}, NEW weights \in [1..k -> Nat \ {0}], NEW total \in Nat
    PROVE  SplitIsExact(weights, total)
<1>1. Len(weights) = k /\ DOMAIN weights = 1..k /\ weights \in [1..k -> Int]
  OBVIOUS
<1>2. CASE k = 1
  <2> DEFINE one == [i \in 1..1 |-> total]
  <2>1. one = <<total>> /\ one \in [1..1 -> Int]
    OBVIOUS
  <2>2. \A f \in [1..1 -> Int] : SumOf(f) = f[1]
    <3>1. ASSUME NEW f \in [1..1 -> Int] PROVE SumOf(f) = f[1]
      <4>1. PICK n \in Nat : n = 1
        OBVIOUS
      <4>2. PICK sum \in [0..n -> Int] : SumOf(f) = sum[n] /\ sum[0] = 0 /\ \A m \in 1..n : sum[m] = sum[m - 1] + f[m]
        BY <4>1, SumIs
      <4> QED BY <4>1, <4>2
    <3> QED BY <3>1
  <2>3. SumOf(<<total>>) = total
    BY <2>1, <2>2
  <2>4. SumOf(weights) = weights[1] /\ weights[1] \in Nat \ {0}
    BY <1>1, <1>2, <2>2
  <2>5. split_stats(weights, total) = <<total>>
    BY <1>1, <1>2 DEF split_stats
  <2>6. ASSUME NEW i \in DOMAIN weights
        PROVE  /\ <<total>>[i] * SumOf(weights) > (total * weights[i]) - SumOf(weights)
               /\ <<total>>[i] * SumOf(weights) < (total * weights[i]) + SumOf(weights)
    <3>1. i = 1
      BY <1>1, <1>2
    <3>2. PICK w \in Nat \ {0} : w = weights[1]
      BY <2>4
    <3>3. total * w \in Int
      OBVIOUS
    <3>4. total * w > (total * w) - w /\ total * w < (total * w) + w
      <4>1. PICK t \in Int : t = total * w
        BY <3>3
      <4> QED BY <4>1
    <3> QED BY <3>1, <3>2, <3>4, <2>4
  <2> QED BY <2>3, <2>5, <2>6 DEF SplitIsExact
<1>3. CASE k # 1
  <2>1. split_stats(weights, total) = largest_remainder(weights, total)
    BY <1>1, <1>3 DEF split_stats
  <2>2. weights \in Weights(k)
    BY DEF Weights
  <2> DEFINE shares == largest_remainder(weights, total)
  <2>3. /\ SumOf(shares) = total
        /\ \A i \in 1..k : /\ shares[i] * SumOf(weights) > (total * weights[i]) - SumOf(weights)
                           /\ shares[i] * SumOf(weights) < (total * weights[i]) + SumOf(weights)
    BY <2>2, LargestRemainder
  <2> HIDE DEF shares
  <2> QED BY <1>1, <2>1, <2>3 DEF SplitIsExact, shares
<1> QED BY <1>2, <1>3
-----------------------------------------------------------------------------
(* text_edit_update *)

LEMMA Joined ==
    ASSUME NEW A, NEW s \in Seq(A), NEW t \in Seq(A)
    PROVE  /\ s \o t \in Seq(A) /\ Len(s \o t) = Len(s) + Len(t)
           /\ \A i \in 1..(Len(s) + Len(t)) : (s \o t)[i] = IF i <= Len(s) THEN s[i] ELSE t[i - Len(s)]
OBVIOUS

LEMMA Part ==
    ASSUME NEW A, NEW s \in Seq(A), NEW i \in Nat, NEW j \in Nat, i <= j, j <= Len(s)
    PROVE  /\ SubSeq(s, i + 1, j) \in Seq(A) /\ Len(SubSeq(s, i + 1, j)) = j - i
           /\ \A l \in 1..(j - i) : SubSeq(s, i + 1, j)[l] = s[i + l]
<1>1. SubSeq(s, i + 1, j) = [l \in 1..(j - i) |-> s[i + l]]
  OBVIOUS
<1>2. \A l \in 1..(j - i) : s[i + l] \in A
  OBVIOUS
<1>3. j - i \in Nat
  OBVIOUS
<1> DEFINE part == [l \in 1..(j - i) |-> s[i + l]]
<1>4. part \in Seq(A) /\ Len(part) = j - i /\ \A l \in 1..(j - i) : part[l] = s[i + l]
  BY <1>2, <1>3
<1> HIDE DEF part
<1>5. SubSeq(s, i + 1, j) = part
  BY <1>1 DEF part
<1> QED BY <1>4, <1>5

LEMMA LongestIs ==
    ASSUME NEW S \in SUBSET Nat, NEW m \in Nat, \A n \in S : n <= m, 0 \in S
    PROVE  Longest(S) \in S /\ \A n \in S : n <= Longest(S)
<1>1. \E n \in S : \A i \in S : i <= n
  <2>1. PICK zero \in S : zero = 0
    OBVIOUS
  <2> QED BY Greatest
<1> QED BY <1>1 DEF Longest

LEMMA PrefixIs ==
    ASSUME NEW A, NEW a \in Seq(A), NEW b \in Seq(A)
    PROVE  /\ PrefixLen(a, b) \in 0..Len(a) /\ PrefixLen(a, b) <= Len(b)
           /\ Common(a, b, PrefixLen(a, b))
           /\ \A n \in 0..Len(a) : n <= Len(b) /\ Common(a, b, n) => n <= PrefixLen(a, b)
<1> DEFINE S == {n \in 0..Len(a) : n <= Len(b) /\ Common(a, b, n)}
<1>1. Len(a) \in Nat /\ Len(b) \in Nat
  OBVIOUS
<1>2. S \in SUBSET Nat /\ \A n \in S : n <= Len(a)
  BY <1>1
<1>3. 0 \in S
  BY <1>1 DEF Common
<1>4. Longest(S) \in S /\ \A n \in S : n <= Longest(S)
  <2> HIDE DEF S
  <2> QED BY <1>1, <1>2, <1>3, LongestIs
<1>5. PrefixLen(a, b) = Longest(S)
  BY DEF PrefixLen
<1> QED BY <1>4, <1>5

\* The edit turns the one text into the other, and is as small as it can be, for any two texts.
THEOREM EditAlwaysExact ==
    ASSUME NEW A, NEW old \in Seq(A), NEW new \in Seq(A)
    PROVE  EditIsExact(old, new)
<1> DEFINE start == PrefixLen(old, new)
           Lo == Len(old)
           Ln == Len(new)
           space == SuffixRoom(old, new, start)
           K == {n \in 0..space : n <= Ln /\ Common(Reverse(old), Reverse(new), n)}
           keep == Longest(K)
           edit == text_edit_update(old, new)
<1>1. Lo \in Nat /\ Ln \in Nat
  OBVIOUS
<1>2. /\ start \in 0..Lo /\ start <= Ln /\ Common(old, new, start)
      /\ \A n \in 0..Lo : n <= Ln /\ Common(old, new, n) => n <= start
  BY PrefixIs
<1>3. edit = [at |-> start, delete |-> Lo - keep - start, insert |-> SubSeq(new, start + 1, Ln - keep)]
  BY DEF text_edit_update
<1> HIDE DEF start
<1>4. space \in Nat /\ space <= Lo - start /\ space <= Ln - start /\ (space = Lo - start \/ space = Ln - start)
  BY <1>1, <1>2 DEF SuffixRoom
<1>5. keep \in K /\ \A n \in K : n <= keep
  <2>1. K \in SUBSET Nat /\ \A n \in K : n <= space
    <3> HIDE DEF space
    <3> QED BY <1>4
  <2>2. 0 \in K
    BY <1>1, <1>4 DEF Common
  <2> HIDE DEF K, space
  <2> QED BY <1>4, <2>1, <2>2, LongestIs
<1>6. keep \in 0..space /\ Common(Reverse(old), Reverse(new), keep)
  BY <1>5
<1>7. \A n \in 0..space : n <= Ln /\ Common(Reverse(old), Reverse(new), n) => n <= keep
  BY <1>5
<1> HIDE DEF space, keep, K, edit
<1>8. keep \in Nat /\ keep <= Lo - start /\ keep <= Ln - start /\ start \in Nat /\ start <= Ln
  BY <1>1, <1>2, <1>4, <1>6
<1>9. edit.at = start /\ edit.delete = Lo - keep - start /\ edit.insert = SubSeq(new, start + 1, Ln - keep)
  BY <1>3
<1>10. edit.delete >= 0
  BY <1>1, <1>8, <1>9
<1>11. \A i \in 1..Lo : Reverse(old)[i] = old[(Lo - i) + 1]
  BY DEF Reverse
<1>12. \A i \in 1..Ln : Reverse(new)[i] = new[(Ln - i) + 1]
  BY DEF Reverse
<1>13. Apply(old, edit) = new
  <2> DEFINE head == SubSeq(old, 1, start)
             tail == SubSeq(old, (Lo - keep) + 1, Lo)
             mid == SubSeq(new, start + 1, Ln - keep)
  <2>1. Apply(old, edit) = (head \o mid) \o tail
    <3>1. edit.at + edit.delete + 1 = (Lo - keep) + 1
      BY <1>1, <1>8, <1>9
    <3> QED BY <3>1, <1>9 DEF Apply
  <2>2. head \in Seq(A) /\ Len(head) = start /\ \A i \in 1..start : head[i] = old[i]
    BY <1>1, <1>2, <1>8
  <2>3. /\ mid \in Seq(A) /\ Len(mid) = Ln - keep - start
        /\ \A i \in 1..(Ln - keep - start) : mid[i] = new[start + i]
    <3>1. start \in Nat /\ Ln - keep \in Nat /\ start <= Ln - keep /\ Ln - keep <= Ln
      BY <1>1, <1>8
    <3> QED BY <3>1, Part
  <2>4. /\ tail \in Seq(A) /\ Len(tail) = keep
        /\ \A i \in 1..keep : tail[i] = old[(Lo - keep) + i]
    BY <1>1, <1>2, <1>8
  <2> HIDE DEF head, mid, tail
  <2>5. /\ head \o mid \in Seq(A) /\ Len(head \o mid) = Ln - keep
        /\ \A i \in 1..(Ln - keep) : (head \o mid)[i] = IF i <= start THEN head[i] ELSE mid[i - start]
    BY <2>2, <2>3, <1>1, <1>8
  <2>6. /\ (head \o mid) \o tail \in Seq(A) /\ Len((head \o mid) \o tail) = Ln
        /\ \A i \in 1..Ln : ((head \o mid) \o tail)[i] =
                              IF i <= Ln - keep THEN (head \o mid)[i] ELSE tail[i - (Ln - keep)]
    <3> DEFINE front == head \o mid
    <3>1. front \in Seq(A) /\ Len(front) = Ln - keep
      BY <2>5
    <3> HIDE DEF front
    <3>2. /\ front \o tail \in Seq(A) /\ Len(front \o tail) = Ln
          /\ \A i \in 1..Ln : (front \o tail)[i] = IF i <= Ln - keep THEN front[i] ELSE tail[i - (Ln - keep)]
      <4>1. front \o tail \in Seq(A) /\ Len(front \o tail) = Len(front) + Len(tail)
        BY <2>4, <3>1, Joined
      <4>2. Len(front) + Len(tail) = Ln
        BY <2>4, <3>1, <1>1, <1>8
      <4>3. ASSUME NEW i \in 1..Ln
            PROVE  (front \o tail)[i] = IF i <= Ln - keep THEN front[i] ELSE tail[i - (Ln - keep)]
        <5>1. i \in 1..(Len(front) + Len(tail))
          BY <4>2
        <5>2. (front \o tail)[i] = IF i <= Len(front) THEN front[i] ELSE tail[i - Len(front)]
          BY <5>1, <2>4, <3>1, Joined
        <5> QED BY <5>2, <3>1
      <4> QED BY <4>1, <4>2, <4>3
    <3> QED BY <3>2 DEF front
  <2>7. ASSUME NEW i \in 1..Ln PROVE ((head \o mid) \o tail)[i] = new[i]
    <3>1. CASE i <= start
      <4>1. i \in 1..(Ln - keep) /\ i \in 1..start /\ i <= Ln - keep
        BY <3>1, <1>1, <1>8
      <4>2. ((head \o mid) \o tail)[i] = old[i]
        BY <4>1, <2>2, <2>5, <2>6, <3>1
      <4> QED BY <4>1, <4>2, <1>2 DEF Common
    <3>2. CASE start < i /\ i <= Ln - keep
      <4>1. i \in 1..(Ln - keep) /\ i - start \in 1..(Ln - keep - start) /\ ~(i <= start) /\ start + (i - start) = i
        BY <3>2, <1>1, <1>8
      <4>2. ((head \o mid) \o tail)[i] = mid[i - start]
        BY <4>1, <2>5, <2>6, <3>2
      <4> QED BY <4>1, <4>2, <2>3
    <3>3. CASE Ln - keep < i
      <4> DEFINE j == i - (Ln - keep)
                 n == (Ln - i) + 1
      <4>1. j \in 1..keep /\ ~(i <= Ln - keep) /\ (Lo - keep) + j = (Lo - n) + 1 /\ n \in 1..keep /\ n \in 1..Lo
            /\ n \in 1..Ln /\ (Ln - n) + 1 = i
        BY <3>3, <1>1, <1>8
      <4>2. ((head \o mid) \o tail)[i] = tail[j]
        BY <4>1, <2>6
      <4>3. tail[j] = old[(Lo - n) + 1]
        BY <4>1, <2>4
      <4> HIDE DEF n, j
      <4>4. Reverse(old)[n] = Reverse(new)[n]
        BY <4>1, <1>6 DEF Common
      <4> QED BY <4>1, <4>2, <4>3, <4>4, <1>11, <1>12
    <3>4. i <= start \/ (start < i /\ i <= Ln - keep) \/ Ln - keep < i
      BY <1>1, <1>8
    <3> QED BY <3>1, <3>2, <3>3, <3>4
  <2>8. ((head \o mid) \o tail) = new
    <3> DEFINE s == (head \o mid) \o tail
    <3>1. s \in Seq(A) /\ Len(s) = Len(new) /\ \A i \in 1..Len(new) : s[i] = new[i]
      BY <2>6, <2>7
    <3> HIDE DEF s
    <3>2. s = new
      BY <3>1
    <3> QED BY <3>2 DEF s
  <2> QED BY <2>1, <2>8
<1> DEFINE gone == SubSeq(old, edit.at + 1, edit.at + edit.delete)
<1>14. ASSUME gone # <<>>, edit.insert # <<>>
       PROVE  gone[1] # edit.insert[1] /\ gone[Len(gone)] # edit.insert[Len(edit.insert)]
  <2>1. gone = SubSeq(old, start + 1, Lo - keep)
    <3>1. edit.at + edit.delete = Lo - keep
      BY <1>1, <1>8, <1>9
    <3> QED BY <3>1, <1>9
  <2> DEFINE out == SubSeq(old, start + 1, Lo - keep)
             in == SubSeq(new, start + 1, Ln - keep)
  <2>2. /\ out \in Seq(A) /\ Len(out) = Lo - keep - start
        /\ \A i \in 1..(Lo - keep - start) : out[i] = old[start + i]
    <3>1. start \in Nat /\ Lo - keep \in Nat /\ start <= Lo - keep /\ Lo - keep <= Lo
      BY <1>1, <1>8
    <3> QED BY <3>1, Part
  <2>3. /\ in \in Seq(A) /\ Len(in) = Ln - keep - start
        /\ \A i \in 1..(Ln - keep - start) : in[i] = new[start + i]
    <3>1. start \in Nat /\ Ln - keep \in Nat /\ start <= Ln - keep /\ Ln - keep <= Ln
      BY <1>1, <1>8
    <3> QED BY <3>1, Part
  <2>4. out # <<>> /\ in # <<>>
    BY <2>1, <1>9, <1>14
  <2> HIDE DEF out, in
  <2>5. Lo - keep - start > 0 /\ Ln - keep - start > 0
    BY <2>2, <2>3, <2>4, <1>1, <1>8
  <2>6. out[1] = old[start + 1] /\ in[1] = new[start + 1]
    <3>1. 1 \in 1..(Lo - keep - start) /\ 1 \in 1..(Ln - keep - start)
      BY <2>5, <1>1, <1>8
    <3> QED BY <2>2, <2>3, <3>1
  <2>7. out[Len(out)] = old[Lo - keep] /\ in[Len(in)] = new[Ln - keep]
    <3>1. Lo - keep - start \in 1..(Lo - keep - start) /\ start + (Lo - keep - start) = Lo - keep
      BY <2>5, <1>1, <1>8
    <3>2. Ln - keep - start \in 1..(Ln - keep - start) /\ start + (Ln - keep - start) = Ln - keep
      BY <2>5, <1>1, <1>8
    <3> QED BY <2>2, <2>3, <3>1, <3>2
  <2>8. old[start + 1] # new[start + 1]
    <3>1. SUFFICES ASSUME old[start + 1] = new[start + 1] PROVE FALSE
      OBVIOUS
    <3>2. start + 1 \in 0..Lo /\ start + 1 <= Ln /\ ~(start + 1 <= start)
      BY <2>5, <1>1, <1>8
    <3>3. Common(old, new, start + 1)
      <4>1. \A i \in 1..(start + 1) : i \in 1..start \/ i = start + 1
        BY <1>8
      <4> QED BY <4>1, <3>1, <1>2 DEF Common
    <3> QED BY <3>2, <3>3, <1>2
  <2>9. old[Lo - keep] # new[Ln - keep]
    <3>1. SUFFICES ASSUME old[Lo - keep] = new[Ln - keep] PROVE FALSE
      OBVIOUS
    <3>2. /\ keep + 1 \in 0..space /\ keep + 1 <= Ln /\ ~(keep + 1 <= keep)
          /\ keep + 1 \in 1..Lo /\ keep + 1 \in 1..Ln
          /\ (Lo - (keep + 1)) + 1 = Lo - keep /\ (Ln - (keep + 1)) + 1 = Ln - keep
      BY <2>5, <1>1, <1>4, <1>8
    <3>3. Reverse(old)[keep + 1] = Reverse(new)[keep + 1]
      BY <3>1, <3>2, <1>11, <1>12
    <3>4. Common(Reverse(old), Reverse(new), keep + 1)
      <4>1. \A i \in 1..(keep + 1) : i \in 1..keep \/ i = keep + 1
        BY <1>8
      <4> QED BY <4>1, <3>3, <1>6 DEF Common
    <3> QED BY <3>2, <3>4, <1>7
  <2>10. edit.insert = in /\ gone = out
    BY <2>1, <1>9 DEF in, out
  <2> HIDE DEF gone
  <2> QED BY <2>6, <2>7, <2>8, <2>9, <2>10
<1> QED BY <1>10, <1>13, <1>14 DEF EditIsExact, edit
-----------------------------------------------------------------------------
(* versions_to_prune *)

Row == [n : Nat, at : Int, save : BOOLEAN]

\* One file's versions: finitely many, no two with the same number
IsHistory(rows) == /\ IsFiniteSet(rows) /\ rows \subseteq Row
                 /\ \A r, q \in rows : r.n = q.n => r = q

LEMMA PartHistory ==
    ASSUME NEW rows, IsHistory(rows), NEW part \in SUBSET rows
    PROVE  IsHistory(part)
<1>1. IsFiniteSet(part)
  BY FS_Subset DEF IsHistory
<1> QED BY <1>1 DEF IsHistory

Sorted(s) == \A i, j \in DOMAIN s : i < j => s[i].n > s[j].n

\* A history can be put in order.
LEMMA OrderExists ==
    ASSUME NEW rows, IsHistory(rows)
    PROVE  \E s \in SetToSeqs(rows) : Sorted(s)
<1> DEFINE k == Cardinality(rows)
           newer == {p \in rows \X rows : p[1].n > p[2].n}
           at(i) == CHOOSE r \in rows : Place(rows, newer, r) = i - 1
           s == [i \in 1..k |-> at(i)]
<1>1. IsFiniteSet(rows) /\ k \in Nat
  BY FS_CardinalityType DEF IsHistory
<1>2. \A r, q \in rows : <<r, q>> \in newer <=> r.n > q.n
  OBVIOUS
<1>3. \A r, q \in rows : r.n \in Nat /\ (r.n = q.n => r = q)
  BY DEF IsHistory, Row
<1>4. Strict(rows, newer)
  <2> HIDE DEF newer
  <2> QED BY <1>2, <1>3 DEF Strict
<1> HIDE DEF newer
<1>5. \A t \in 0..(k - 1) : \E r \in rows : Place(rows, newer, r) = t
  <2> DEFINE p == [r \in rows |-> Place(rows, newer, r)]
  <2>1. p \in Surjection(rows, 0..(k - 1))
    BY <1>1, <1>4, PlacesAreFilled DEF Bijection
  <2>2. \A t \in 0..(k - 1) : \E r \in rows : p[r] = t
    <3> HIDE DEF p
    <3> QED BY <2>1 DEF Surjection
  <2> QED BY <2>2
<1>6. \A i \in 1..k : at(i) \in rows /\ Place(rows, newer, at(i)) = i - 1
  <2>1. ASSUME NEW i \in 1..k PROVE at(i) \in rows /\ Place(rows, newer, at(i)) = i - 1
    <3>1. i - 1 \in 0..(k - 1)
      BY <1>1
    <3>2. \E r \in rows : Place(rows, newer, r) = i - 1
      BY <1>5, <3>1
    <3> QED BY <3>2
  <2> QED BY <2>1
<1> HIDE DEF at
<1>7. ASSUME NEW i \in 1..k, NEW j \in 1..k, i < j PROVE at(i).n > at(j).n
  <2>1. PICK r \in rows : r = at(i) /\ Place(rows, newer, r) = i - 1
    BY <1>6
  <2>2. PICK q \in rows : q = at(j) /\ Place(rows, newer, q) = j - 1
    BY <1>6
  <2>3. r # q /\ i - 1 < j - 1 /\ ~(j - 1 < i - 1)
    BY <2>1, <2>2, <1>7
  <2>4. <<q, r>> \notin newer
    BY <2>1, <2>2, <2>3, <1>1, <1>4, PlaceOrder
  <2>5. <<r, q>> \in newer
    BY <2>3, <2>4, <1>4 DEF Strict
  <2> QED BY <2>1, <2>2, <2>5, <1>2
<1>8. s \in [1..k -> rows] /\ \A i, j \in 1..k : i < j => s[i].n > s[j].n
  BY <1>6, <1>7
<1> HIDE DEF s
<1>9. \A i, j \in 1..k : i # j => s[i] # s[j]
  <2>1. ASSUME NEW i \in 1..k, NEW j \in 1..k, i # j, s[i] = s[j] PROVE FALSE
    <3>1. s[i].n \in Nat
      BY <1>3, <1>8
    <3>2. i < j \/ j < i
      BY <2>1, <1>1
    <3> QED BY <2>1, <3>1, <3>2, <1>8
  <2> QED BY <2>1
<1>10. s \in SetToSeqs(rows)
  BY <1>8, <1>9 DEF SetToSeqs
<1>11. DOMAIN s = 1..k
  BY <1>8
<1> QED BY <1>8, <1>10, <1>11 DEF Sorted

LEMMA NewestIs ==
    ASSUME NEW rows, IsHistory(rows)
    PROVE  LET s == Newest(rows)
               k == Cardinality(rows)
           IN  /\ k \in Nat /\ s \in [1..k -> rows] /\ s \in Seq(rows) /\ Len(s) = k
               /\ \A i, j \in 1..k : i < j => s[i].n > s[j].n
               /\ \A r \in rows : \E i \in 1..k : s[i] = r
<1> DEFINE s == Newest(rows)
           k == Cardinality(rows)
<1>1. IsFiniteSet(rows) /\ k \in Nat
  BY FS_CardinalityType DEF IsHistory
<1>2. s \in SetToSeqs(rows) /\ Sorted(s)
  <2>1. s = CHOOSE t \in SetToSeqs(rows) : Sorted(t)
    BY DEF Newest, Sorted
  <2> HIDE DEF s
  <2> QED BY <2>1, OrderExists
<1> HIDE DEF s
<1>3. s \in [1..k -> rows] /\ \A i, j \in 1..k : i # j => s[i] # s[j]
  BY <1>2 DEF SetToSeqs
<1>4. s \in Seq(rows) /\ Len(s) = k /\ DOMAIN s = 1..k
  BY <1>1, <1>3
<1>5. \A i, j \in 1..k : i < j => s[i].n > s[j].n
  BY <1>2, <1>4 DEF Sorted
<1>6. s \in Surjection(1..k, rows)
  <2>1. s \in Injection(1..k, rows)
    BY <1>3, <1>4 DEF Injection, IsInjective
  <2>2. IsFiniteSet(1..k) /\ Cardinality(1..k) = k
    BY <1>1, FS_Interval
  <2> QED BY <1>1, <2>1, <2>2, FS_Injection
<1>7. \A r \in rows : \E i \in 1..k : s[i] = r
  BY <1>6 DEF Surjection
<1> QED BY <1>1, <1>3, <1>4, <1>5, <1>7 DEF s

\* The row at place j is removed: a newer old one stands for its slot.
Removed(s, now, j) ==
    /\ Old(s[j], now) /\ j # 1 /\ ~s[j].save
    /\ \E l \in 1..(j - 1) : Old(s[l], now) /\ Slot(s[l], now) = Slot(s[j], now)

\* What the loop carries after i rows
After(s, now, i) ==
    [first |-> i = 0,
     seen  |-> {Slot(s[j], now) : j \in {j \in 1..i : Old(s[j], now)}},
     prune |-> {s[j].n : j \in {j \in 1..i : Removed(s, now, j)}}]

LEMMA PruneLoopStep ==
    ASSUME NEW k \in Nat, NEW s \in [1..k -> Row], NEW now \in Int, NEW i \in 1..k
    PROVE  PruneStep(After(s, now, i - 1), s[i], now) = After(s, now, i)
<1> DEFINE old == After(s, now, i - 1)
           new == After(s, now, i)
           slot == Slot(s[i], now)
<1>1. /\ old.first = (i = 1)
      /\ old.seen = {Slot(s[j], now) : j \in {j \in 1..(i - 1) : Old(s[j], now)}}
      /\ old.prune = {s[j].n : j \in {j \in 1..(i - 1) : Removed(s, now, j)}}
      /\ old = [first |-> old.first, seen |-> old.seen, prune |-> old.prune]
  BY DEF After
<1>2. 1..i = (1..(i - 1)) \union {i} /\ i \notin 1..(i - 1)
  OBVIOUS
<1>3. slot \in old.seen <=> \E l \in 1..(i - 1) : Old(s[l], now) /\ Slot(s[l], now) = Slot(s[i], now)
  BY <1>1
<1>4. new.seen = IF Old(s[i], now) THEN old.seen \union {slot} ELSE old.seen
  BY <1>1, <1>2 DEF After
<1>5. new.prune = IF Removed(s, now, i) THEN old.prune \union {s[i].n} ELSE old.prune
  BY <1>1, <1>2 DEF After
<1>6. new = [first |-> FALSE, seen |-> new.seen, prune |-> new.prune]
  <2>1. (i = 0) = FALSE
    OBVIOUS
  <2>2. new = [first |-> i = 0, seen |-> new.seen, prune |-> new.prune]
    BY DEF After
  <2> HIDE DEF new
  <2> QED BY <2>1, <2>2
<1>7. Removed(s, now, i) <=> Old(s[i], now) /\ ~old.first /\ ~s[i].save /\ slot \in old.seen
  BY <1>1, <1>3 DEF Removed
<1> HIDE DEF old, new
<1>8. PruneStep(old, s[i], now) = [first |-> FALSE, seen |-> new.seen, prune |-> new.prune]
  BY <1>1, <1>4, <1>5, <1>7 DEF PruneStep, Keeps
<1> QED BY <1>6, <1>8 DEF old, new

\* The numbers of the rows that the loop removes
LEMMA PrunesAre ==
    ASSUME NEW rows, IsHistory(rows), NEW now \in Int
    PROVE  versions_to_prune(rows, now) =
              {Newest(rows)[j].n : j \in {j \in 1..Cardinality(rows) : Removed(Newest(rows), now, j)}}
<1> DEFINE s == Newest(rows)
           k == Cardinality(rows)
<1>1. k \in Nat /\ s \in [1..k -> rows] /\ s \in Seq(rows) /\ Len(s) = k
  BY NewestIs
<1>2. s \in [1..k -> Row]
  BY <1>1 DEF IsHistory
<1> DEFINE g[i \in 0..Len(s)] == IF i = 0 THEN [first |-> TRUE, seen |-> {}, prune |-> {}]
                                 ELSE PruneStep(g[i - 1], s[i], now)
<1>3. versions_to_prune(rows, now) = g[Len(s)].prune
  BY DEF versions_to_prune
<1> HIDE DEF s, k
<1>4. [i \in 0..Len(s) |-> After(s, now, i)] =
        [i \in 0..Len(s) |-> IF i = 0 THEN [first |-> TRUE, seen |-> {}, prune |-> {}]
                             ELSE PruneStep([l \in 0..Len(s) |-> After(s, now, l)][i - 1], s[i], now)]
  <2>1. After(s, now, 0) = [first |-> TRUE, seen |-> {}, prune |-> {}]
    <3>1. 1..0 = {}
      OBVIOUS
    <3>2. /\ {Slot(s[j], now) : j \in {j \in 1..0 : Old(s[j], now)}} = {}
          /\ {s[j].n : j \in {j \in 1..0 : Removed(s, now, j)}} = {}
      BY <3>1
    <3>3. (0 = 0) = TRUE
      OBVIOUS
    <3> QED BY <3>2, <3>3 DEF After
  <2>2. ASSUME NEW i \in 0..Len(s), i # 0
        PROVE  After(s, now, i) = PruneStep([l \in 0..Len(s) |-> After(s, now, l)][i - 1], s[i], now)
    <3>1. i \in 1..k /\ i - 1 \in 0..Len(s)
      BY <2>2, <1>1
    <3>2. [l \in 0..Len(s) |-> After(s, now, l)][i - 1] = After(s, now, i - 1)
      BY <3>1
    <3> QED BY <3>1, <3>2, <1>1, <1>2, PruneLoopStep
  <2> QED BY <2>1, <2>2
<1>5. PICK h : h = [i \in 0..Len(s) |-> After(s, now, i)]
  OBVIOUS
<1>6. h = [i \in 0..Len(s) |-> IF i = 0 THEN [first |-> TRUE, seen |-> {}, prune |-> {}]
                               ELSE PruneStep(h[i - 1], s[i], now)]
  BY <1>4, <1>5
<1>7. g = [i \in 0..Len(s) |-> IF i = 0 THEN [first |-> TRUE, seen |-> {}, prune |-> {}]
                               ELSE PruneStep(g[i - 1], s[i], now)]
  BY <1>6
<1>8. Alike(g, h, k)
  <2> HIDE DEF g
  <2>1. Alike(g, h, 0)
    BY <1>1, <1>6, <1>7 DEF Alike
  <2>2. ASSUME NEW n \in 1..k, g[n - 1] = h[n - 1] PROVE g[n] = h[n]
    <3>1. n \in 0..Len(s) /\ n # 0
      BY <1>1
    <3>2. g[n] = PruneStep(g[n - 1], s[n], now)
      BY <3>1, <1>7
    <3>3. h[n] = PruneStep(h[n - 1], s[n], now)
      BY <3>1, <1>6
    <3> QED BY <3>2, <3>3, <2>2
  <2> QED BY <1>1, <2>1, <2>2, Agree
<1>9. g[Len(s)] = After(s, now, k)
  <2> HIDE DEF g
  <2>1. k \in 0..k /\ Len(s) = k
    BY <1>1
  <2> QED BY <2>1, <1>5, <1>8 DEF Alike
<1> HIDE DEF g
<1>10. versions_to_prune(rows, now) = {s[j].n : j \in {j \in 1..k : Removed(s, now, j)}}
  BY <1>3, <1>9 DEF After
<1> QED BY <1>10 DEF s, k

\* What is kept is exactly what the docstring keeps, for every history and every time.
THEOREM PruneAlwaysExact ==
    ASSUME NEW rows, IsHistory(rows), NEW now \in Int
    PROVE  PruneIsExact(rows, now)
<1> DEFINE s == Newest(rows)
           k == Cardinality(rows)
           Doomed(r) == /\ r \notin NewestOf(rows) /\ ~r.save /\ Old(r, now)
                        /\ \E q \in rows : q.n > r.n /\ Old(q, now) /\ Slot(q, now) = Slot(r, now)
<1>1. /\ k \in Nat /\ s \in [1..k -> rows]
      /\ \A i, j \in 1..k : i < j => s[i].n > s[j].n
      /\ \A r \in rows : \E i \in 1..k : s[i] = r
  BY NewestIs
<1>2. \A r, q \in rows : r.n \in Nat /\ (r.n = q.n => r = q)
  BY DEF IsHistory, Row
<1>3. versions_to_prune(rows, now) = {s[j].n : j \in {j \in 1..k : Removed(s, now, j)}}
  BY PrunesAre
<1> HIDE DEF s, k
<1>4. \A i, j \in 1..k : s[i].n > s[j].n <=> i < j
  <2>1. ASSUME NEW i \in 1..k, NEW j \in 1..k PROVE s[i].n > s[j].n <=> i < j
    <3>1. s[i].n \in Nat /\ s[j].n \in Nat
      BY <1>1, <1>2
    <3>2. i < j \/ i = j \/ j < i
      BY <1>1
    <3> QED BY <3>1, <3>2, <1>1
  <2> QED BY <2>1
<1>5. ASSUME NEW j \in 1..k PROVE Removed(s, now, j) <=> Doomed(s[j])
  <2>1. s[j] \in rows
    BY <1>1
  <2>2. j # 1 <=> s[j] \notin NewestOf(rows)
    <3>1. CASE j = 1
      <4>1. ASSUME NEW q \in rows PROVE q.n <= s[j].n
        <5>1. PICK i \in 1..k : s[i] = q
          BY <1>1
        <5>2. ~(i < j)
          BY <3>1, <1>1
        <5>3. ~(s[i].n > s[j].n)
          BY <5>2, <1>4
        <5> QED BY <5>1, <5>3, <2>1, <1>2
      <4> QED BY <4>1, <2>1, <3>1 DEF NewestOf
    <3>2. CASE j # 1
      <4>1. 1 \in 1..k /\ 1 < j
        BY <3>2, <1>1
      <4>2. s[1] \in rows /\ s[1].n > s[j].n
        BY <4>1, <1>1
      <4>3. ~(s[1].n <= s[j].n)
        BY <4>2, <2>1, <1>2
      <4> QED BY <3>2, <4>2, <4>3 DEF NewestOf
    <3> QED BY <3>1, <3>2
  <2>3. (\E l \in 1..(j - 1) : Old(s[l], now) /\ Slot(s[l], now) = Slot(s[j], now)) <=>
        (\E q \in rows : q.n > s[j].n /\ Old(q, now) /\ Slot(q, now) = Slot(s[j], now))
    <3>1. ASSUME NEW l \in 1..(j - 1), Old(s[l], now), Slot(s[l], now) = Slot(s[j], now)
          PROVE  \E q \in rows : q.n > s[j].n /\ Old(q, now) /\ Slot(q, now) = Slot(s[j], now)
      <4>1. l \in 1..k /\ l < j
        BY <1>1
      <4>2. s[l] \in rows /\ s[l].n > s[j].n
        BY <4>1, <1>1
      <4> QED BY <3>1, <4>2
    <3>2. ASSUME NEW q \in rows, q.n > s[j].n, Old(q, now), Slot(q, now) = Slot(s[j], now)
          PROVE  \E l \in 1..(j - 1) : Old(s[l], now) /\ Slot(s[l], now) = Slot(s[j], now)
      <4>1. PICK l \in 1..k : s[l] = q
        BY <1>1
      <4>2. l < j
        BY <3>2, <4>1, <1>4
      <4>3. l \in 1..(j - 1)
        BY <4>2, <1>1
      <4> QED BY <3>2, <4>1, <4>3
    <3> QED BY <3>1, <3>2
  <2> QED BY <2>2, <2>3 DEF Removed
<1>6. ASSUME NEW r \in rows PROVE r.n \in versions_to_prune(rows, now) <=> Doomed(r)
  <2>1. PICK i \in 1..k : s[i] = r
    BY <1>1
  <2>2. ASSUME r.n \in versions_to_prune(rows, now) PROVE Doomed(r)
    <3>1. PICK j \in 1..k : Removed(s, now, j) /\ s[j].n = r.n
      BY <2>2, <1>3
    <3>2. s[j] = r
      BY <3>1, <1>1, <1>2
    <3> HIDE DEF Doomed
    <3> QED BY <3>1, <3>2, <1>5
  <2>3. ASSUME Doomed(r) PROVE r.n \in versions_to_prune(rows, now)
    <3>1. Removed(s, now, i)
      <4> HIDE DEF Doomed
      <4> QED BY <2>1, <2>3, <1>5
    <3> HIDE DEF Doomed
    <3> QED BY <3>1, <2>1, <1>3
  <2> HIDE DEF Doomed
  <2> QED BY <2>2, <2>3
<1>7. Pruned(rows, now) = {r \in rows : ~Doomed(r)}
  <2> HIDE DEF Doomed
  <2> QED BY <1>6 DEF Pruned
<1> QED BY <1>7 DEF PruneIsExact

\* What was the latest at any time within the last hour is kept.
THEOREM LatestAlwaysKept ==
    ASSUME NEW rows, IsHistory(rows), NEW now \in Int, NEW age \in Int, age <= KEEP_ALL_FOR
    PROVE  LatestIsKept(rows, now, age)
<1>1. SUFFICES ASSUME NEW r \in NewestOf({r \in rows : r.at <= now - age})
               PROVE  r \in Pruned(rows, now)
  BY DEF LatestIsKept
<1>2. r \in rows /\ \A q \in rows : q.at <= now - age => q.n <= r.n
  BY DEF NewestOf
<1>3. \A q \in rows : q.n \in Nat /\ q.at \in Int
  BY DEF IsHistory, Row
<1>4. ASSUME NEW q \in rows, q.n > r.n, Old(q, now) PROVE FALSE
  <2>1. ~(q.n <= r.n)
    BY <1>2, <1>3, <1>4
  <2>2. now - q.at >= KEEP_ALL_FOR
    BY <1>4 DEF Old
  <2>3. q.at <= now - age
    BY <2>2, <1>3, HistoryAssumption DEF HistoryAssumption
  <2> QED BY <2>1, <2>3, <1>2
<1>5. PruneIsExact(rows, now)
  BY PruneAlwaysExact
<1> QED BY <1>2, <1>4, <1>5 DEF PruneIsExact

\* There is one quotient.
LEMMA QuotientIs ==
    ASSUME NEW d \in Nat \ {0}, NEW x \in Int, NEW q \in Int, NEW r \in 0..(d - 1), x = Times(d, q) + r
    PROVE  x \div d = q
<1>1. PICK p \in Int : p = x \div d
  BY DivisionOfInts
<1>2. PICK e \in 0..(d - 1) : e = x % d
  BY DivisionOfInts
<1>3. x = Times(d, p) + e
  BY <1>1, <1>2, DivisionOfInts
<1>4. d \in Nat /\ d \in Int /\ d > 0 /\ Times(d, 1) = d
  BY DEF Times
<1>5. Times(d, p) \in Int /\ Times(d, q) \in Int
  BY <1>4, Distributes
<1>6. ASSUME NEW a \in Int, NEW b \in Int, a < b
      PROVE  Times(d, a) + d <= Times(d, b) /\ Times(d, a) \in Int /\ Times(d, b) \in Int
  <2>1. a + 1 <= b /\ a + 1 \in Int
    BY <1>6
  <2>2. Times(d, a + 1) <= Times(d, b)
    BY <1>4, <2>1, Ordered
  <2>3. Times(d, a + 1) = Times(d, a) + Times(d, 1)
    BY <1>4, Distributes
  <2>4. Times(d, a) \in Int /\ Times(d, b) \in Int
    BY <1>4, Distributes
  <2> QED BY <2>2, <2>3, <2>4, <1>4
<1>7. ~(p < q)
  <2>1. SUFFICES ASSUME p < q PROVE FALSE
    OBVIOUS
  <2>2. Times(d, p) + d <= Times(d, q)
    BY <2>1, <1>6
  <2> QED BY <2>2, <1>3, <1>4, <1>5
<1>8. ~(q < p)
  <2>1. SUFFICES ASSUME q < p PROVE FALSE
    OBVIOUS
  <2>2. Times(d, q) + d <= Times(d, p)
    BY <2>1, <1>6
  <2> QED BY <2>2, <1>3, <1>4, <1>5
<1> QED BY <1>1, <1>7, <1>8

\* Dividing by one factor and then by the other is dividing by the product.
LEMMA DivisionTwice ==
    ASSUME NEW x \in Int, NEW d \in Nat \ {0}, NEW k \in Nat \ {0}
    PROVE  x \div (k * d) = (x \div d) \div k
<1>1. PICK m \in Int : m = x \div d
  BY DivisionOfInts
<1>2. PICK f \in 0..(d - 1) : f = x % d
  BY DivisionOfInts
<1>3. PICK q \in Int : q = m \div k
  BY DivisionOfInts
<1>4. PICK e \in 0..(k - 1) : e = m % k
  BY DivisionOfInts
<1>5. x = Times(d, m) + f
  BY <1>1, <1>2, DivisionOfInts
<1>6. m = Times(k, q) + e
  BY <1>3, <1>4, DivisionOfInts
<1>7. PICK w \in Nat \ {0} : w = k * d
  <2>1. k * d \in Nat \ {0}
    OBVIOUS
  <2> QED BY <2>1
<1>8. Times(d, m) = Times(w, q) + Times(d, e)
  <2>1. d \in Int /\ k \in Int /\ e \in Int /\ Times(k, q) \in Int
    BY Distributes
  <2>2. Times(d, Times(k, q) + e) = Times(d, Times(k, q)) + Times(d, e)
    BY <2>1, Distributes
  <2>3. Times(d, Times(k, q)) = Times(w, q)
    BY <1>7 DEF Times
  <2> QED BY <2>2, <2>3, <1>6
<1>9. Times(d, e) + f \in 0..(w - 1)
  <2>1. d \in Int /\ d \in Nat /\ k - 1 \in Int /\ e <= k - 1 /\ 0 \in Int /\ 0 <= e /\ e \in Int /\ k \in Int
    OBVIOUS
  <2>2. Times(d, e) <= Times(d, k - 1) /\ Times(d, 0) <= Times(d, e)
    BY <2>1, Ordered
  <2>3. Times(d, k - 1) = w - d /\ Times(d, 0) = 0
    BY <1>7 DEF Times
  <2>4. Times(d, e) \in Int
    BY <2>1, Distributes
  <2> QED BY <2>2, <2>3, <2>4
<1>10. PICK r \in 0..(w - 1) : r = Times(d, e) + f
  BY <1>9
<1>11. x = Times(w, q) + r
  <2>1. w \in Int /\ d \in Int /\ e \in Int
    OBVIOUS
  <2>2. Times(w, q) \in Int /\ Times(d, e) \in Int
    BY <2>1, Distributes
  <2> QED BY <2>2, <1>5, <1>8, <1>10
<1>12. x \div w = q
  BY <1>11, QuotientIs
<1> QED BY <1>1, <1>3, <1>7, <1>12

\* The ten-minute slot of a time lies within its day.
LEMMA SlotsMakeDays ==
    ASSUME NEW x \in Int, NEW y \in Int, x \div SLOT = y \div SLOT
    PROVE  x \div DAY = y \div DAY
<1>1. PICK k \in 1..DAY : DAY = k * SLOT
  BY HistoryAssumption DEF HistoryAssumption
<1>2. k \in Nat \ {0} /\ SLOT \in Nat \ {0}
  BY HistoryAssumption DEF HistoryAssumption
<1>3. x \div DAY = (x \div SLOT) \div k
  BY <1>1, <1>2, DivisionTwice
<1>4. y \div DAY = (y \div SLOT) \div k
  BY <1>1, <1>2, DivisionTwice
<1> QED BY <1>3, <1>4

LEMMA SameDay ==
    ASSUME NEW r \in Row, NEW q \in Row, NEW now \in Int, Slot(q, now) = Slot(r, now)
    PROVE  q.at \div DAY = r.at \div DAY
<1>1. r.at \in Int /\ q.at \in Int
  BY DEF Row
<1>2. CASE now - r.at < KEEP_TEN_MINUTELY_FOR
  <2>1. Slot(r, now) = <<"10m", r.at \div SLOT>>
    BY <1>2 DEF Slot
  <2>2. Slot(q, now)[1] = "10m" /\ Slot(q, now)[2] = r.at \div SLOT
    BY <2>1
  <2>3. q.at \div SLOT = r.at \div SLOT
    BY <2>2 DEF Slot
  <2> QED BY <2>3, <1>1, SlotsMakeDays
<1>3. CASE ~(now - r.at < KEEP_TEN_MINUTELY_FOR)
  <2>1. Slot(r, now) = <<"day", r.at \div DAY>>
    BY <1>3 DEF Slot
  <2>2. Slot(q, now)[1] = "day" /\ Slot(q, now)[2] = r.at \div DAY
    BY <2>1
  <2> QED BY <2>2 DEF Slot
<1> QED BY <1>2, <1>3

\* The last version of a day survives a pruning.
LEMMA DayIsKept ==
    ASSUME NEW rows, IsHistory(rows), NEW now \in Int, NEW day
    PROVE  NewestOf({r \in rows : r.at \div DAY = day}) \subseteq Pruned(rows, now)
<1>1. SUFFICES ASSUME NEW r \in NewestOf({r \in rows : r.at \div DAY = day})
               PROVE  r \in Pruned(rows, now)
  OBVIOUS
<1>2. r \in rows /\ r.at \div DAY = day /\ \A q \in rows : q.at \div DAY = day => q.n <= r.n
  BY DEF NewestOf
<1>3. \A q \in rows : q \in Row /\ q.n \in Nat
  BY DEF IsHistory, Row
<1>4. ASSUME NEW q \in rows, q.n > r.n, Slot(q, now) = Slot(r, now) PROVE FALSE
  <2>1. ~(q.n <= r.n)
    BY <1>2, <1>3, <1>4
  <2>2. q.at \div DAY = r.at \div DAY
    BY <1>2, <1>3, <1>4, SameDay
  <2> QED BY <2>1, <2>2, <1>2
<1>5. PruneIsExact(rows, now)
  BY PruneAlwaysExact
<1> QED BY <1>2, <1>4, <1>5 DEF PruneIsExact

\* Every day that had a version still has its last one, however often it is pruned.
THEOREM DaysAlwaysKept ==
    ASSUME NEW rows, IsHistory(rows), NEW now \in Int, NEW later \in Int, NEW day
    PROVE  DaysAreKept(rows, day, now, later)
<1> DEFINE once == Pruned(rows, now)
<1>1. once \in SUBSET rows
  BY DEF Pruned
<1>2. IsHistory(once)
  <2> HIDE DEF once
  <2> QED BY <1>1, PartHistory
<1>3. NewestOf({r \in rows : r.at \div DAY = day}) \subseteq once
  BY DayIsKept
<1> HIDE DEF once
<1>4. NewestOf({r \in once : r.at \div DAY = day}) \subseteq Pruned(once, later)
  BY <1>2, DayIsKept
<1>5. NewestOf({r \in rows : r.at \div DAY = day}) \subseteq NewestOf({r \in once : r.at \div DAY = day})
  BY <1>1, <1>3 DEF NewestOf
<1> QED BY <1>4, <1>5 DEF DaysAreKept, once

-----------------------------------------------------------------------------
(* The bounded inputs are inputs. *)

LEMMA HistoriesAre ==
    ASSUME NEW rows \in Histories
    PROVE  IsHistory(rows)
<1>1. PICK k \in 0..3 : \E at \in [1..k -> 0..7], save \in [1..k -> BOOLEAN] :
              rows = {[n |-> i, at |-> at[i], save |-> save[i]] : i \in 1..k}
  BY DEF Histories
<1>2. PICK at \in [1..k -> 0..7], save \in [1..k -> BOOLEAN] :
              rows = {[n |-> i, at |-> at[i], save |-> save[i]] : i \in 1..k}
  BY <1>1
<1>3. rows \subseteq Row
  BY <1>2 DEF Row
<1>4. \A r, q \in rows : r.n = q.n => r = q
  BY <1>2
<1>5. IsFiniteSet(rows)
  <2> DEFINE f == [i \in 1..k |-> [n |-> i, at |-> at[i], save |-> save[i]]]
  <2>1. f \in [1..k -> rows] /\ \A r \in rows : \E i \in 1..k : f[i] = r
    BY <1>2
  <2>2. f \in Surjection(1..k, rows) /\ k \in Nat
    <3> HIDE DEF f
    <3> QED BY <2>1 DEF Surjection
  <2> HIDE DEF f
  <2>3. IsFiniteSet(1..k)
    BY <2>2, FS_Interval
  <2> QED BY <2>2, <2>3, FS_Surjection
<1> QED BY <1>3, <1>4, <1>5 DEF IsHistory

LEMMA Helpers == PruneKeepsHistory /\ SplitPreservesTotals /\ TextEditIsExact
<1>1. PruneKeepsHistory
  <2>1. ASSUME NEW rows \in Histories, NEW now \in Int PROVE PruneIsExact(rows, now)
    BY HistoriesAre, PruneAlwaysExact
  <2>2. ASSUME NEW rows \in Histories, NEW now \in Int, NEW age \in 0..KEEP_ALL_FOR
        PROVE  LatestIsKept(rows, now, age)
    <3>1. age \in Int /\ age <= KEEP_ALL_FOR
      BY HistoryAssumption DEF HistoryAssumption
    <3> QED BY <3>1, HistoriesAre, LatestAlwaysKept
  <2>3. ASSUME NEW rows \in Histories, NEW day PROVE DaysAreKept(rows, day, 8, MaxNow)
    <3>1. PICK now \in Int, later \in Int : now = 8 /\ later = MaxNow
      BY DEF MaxNow
    <3>2. DaysAreKept(rows, day, now, later)
      BY HistoriesAre, DaysAlwaysKept
    <3> QED BY <3>1, <3>2
  <2>4. \A now \in {7, 9, MaxNow} : now \in Int
    BY DEF MaxNow
  <2>5. \A now \in 7..MaxNow : now \in Int
    BY DEF MaxNow
  <2> QED BY <2>1, <2>2, <2>3, <2>4, <2>5 DEF PruneKeepsHistory
<1>2. SplitPreservesTotals
  <2>1. ASSUME NEW k \in 1..3, NEW weights \in [1..k -> 1..4], NEW total \in 0..5
        PROVE  SplitIsExact(weights, total)
    <3>1. k \in Nat \ {0} /\ total \in Nat /\ weights \in [1..k -> Nat \ {0}]
      OBVIOUS
    <3> QED BY <3>1, SplitAlwaysExact
  <2> QED BY <2>1 DEF SplitPreservesTotals
<1>3. TextEditIsExact
  <2>1. ASSUME NEW text \in TextsOf PROVE text \in Seq({"a", "b"})
    <3>1. PICK k \in 0..3 : text \in [1..k -> {"a", "b"}]
      BY DEF TextsOf
    <3> QED BY <3>1
  <2>2. PICK A : A = {"a", "b"}
    OBVIOUS
  <2>3. ASSUME NEW old \in TextsOf, NEW new \in TextsOf PROVE EditIsExact(old, new)
    <3>1. old \in Seq(A) /\ new \in Seq(A)
      BY <2>1, <2>2
    <3> QED BY <3>1, EditAlwaysExact
  <2> QED BY <2>3 DEF TextEditIsExact
<1> QED BY <1>1, <1>2, <1>3

\* The pure functions meet what they promise wherever the model looks at them: above, for
\* every history, every division of lines and every two texts.
THEOREM HelpersHold == Spec => []HelpersAreExact
<1>1. HelpersAreExact
  BY Helpers DEF HelpersAreExact
<1>2. []HelpersAreExact
  BY <1>1, PTL
<1> QED BY <1>2
=============================================================================
