--------------------------- MODULE FolderTreeProofs ---------------------------
(***************************************************************************)
(* For every number of folders, files and handlers: the check of           *)
(* _check_parent keeps the folders a tree unless another move overtakes it, *)
(* the page has the rows as they are once the handlers have ended, files   *)
(* with history survive deletions, and every file is drawn.                *)
(*                                                                         *)
(* Loops: the folders a walk has seen are closed under "parent" but for    *)
(* the one it looks at next, and the folder to be moved is not among them. *)
(* A loop the move would close runs through the new parent, which has been *)
(* seen, and so has a loop within the seen folders: one that was there     *)
(* before. Creations add folders nobody has seen, deletions only take      *)
(* folders away.                                                           *)
(***************************************************************************)
EXTENDS FolderTree, TLAPS

Ids == Folders \union Files \union {Root, Unset}

Row == [op : {"none", "newFolder", "moveFolder", "delete", "newFile", "moveFile"},
        id : Ids, to : Ids, old : Ids, at : Ids, seen : SUBSET Folders,
        folders : SUBSET Folders, files : SUBSET Files, crossed : BOOLEAN,
        pc : {"none", "check", "flush", "commit", "refresh", "tell"}]

Types ==
    /\ made \subseteq Folders \union Files
    /\ DOMAIN parent \subseteq Folders \cap made
    /\ parent \in [DOMAIN parent -> (Folders \cap made) \union {Root}]
    /\ DOMAIN home \subseteq Files
    /\ home \in [DOMAIN home -> Folders \union {Root}]
    /\ call \in [Calls -> Row]
    /\ raced \in BOOLEAN

\* A move that no other has overtaken since it began
Checking(r) == r.op = "moveFolder" /\ r.pc \in {"check", "commit"} /\ ~r.crossed /\ r.to \notin {Root, Unset}

\* What its walk has established
Walked(r, up, ids) ==
    /\ r.to \in r.seen \union {r.at}
    /\ r.id \notin r.seen
    /\ r.seen \subseteq ids
    /\ \A f \in r.seen \cap DOMAIN up : up[f] \in r.seen \union {r.at, Root}
    /\ r.pc = "commit" => r.at \in r.seen \union {Root}

Walks == \A c \in Calls : Checking(call[c]) => Walked(call[c], parent, made)

\* The inductive invariant
IInv == Types /\ Walks /\ LoopNeedsRace

treeVars == <<parent, home, made, raced>>
-----------------------------------------------------------------------------
(* Loops *)

\* Taking folders away closes no loop: what delete_folder leaves is part of the tree.
LEMMA LoopOfPart ==
    ASSUME NEW up, NEW part, DOMAIN part \subseteq DOMAIN up, \A f \in DOMAIN part : part[f] = up[f],
           HasLoop(part)
    PROVE  HasLoop(up)
BY DEF HasLoop

\* A new folder, which nothing is inside of, closes no loop.
LEMMA LoopOfCreate ==
    ASSUME NEW up, NEW f, NEW to, f \notin DOMAIN up, to # f, \A g \in DOMAIN up : up[g] # f,
           ~HasLoop(up)
    PROVE  ~HasLoop(Put(up, f, to))
<1> DEFINE new == Put(up, f, to)
<1>1. DOMAIN new = DOMAIN up \union {f} /\ new[f] = to /\ \A g \in DOMAIN up : new[g] = up[g]
  BY DEF Put
<1> SUFFICES ASSUME NEW S \in (SUBSET DOMAIN new) \ {{}}, \A g \in S : new[g] \in S PROVE FALSE
  BY DEF HasLoop
<1> HIDE DEF new
<1> DEFINE T == S \ {f}
<1>2. T \in SUBSET DOMAIN up
  BY <1>1
<1>3. \A g \in T : up[g] \in T
  BY <1>1
<1>4. T # {}
  BY <1>1
<1> QED BY <1>2, <1>3, <1>4 DEF HasLoop

\* A move to the root, or below a folder whose ancestors do not include the moved
\* one, closes no loop.
LEMMA LoopOfMove ==
    ASSUME NEW D, NEW R, NEW up \in [D -> R], NEW id \in D, NEW to, NEW seen, Root \notin D,
           id \notin seen,
           to = Root \/ to \in seen,
           \A f \in seen \cap D : up[f] \in seen \union {Root},
           ~HasLoop(up)
    PROVE  ~HasLoop([up EXCEPT ![id] = to])
<1> DEFINE new == [up EXCEPT ![id] = to]
<1>1. DOMAIN up = D /\ DOMAIN new = D /\ new[id] = to /\ \A g \in D \ {id} : new[g] = up[g]
  OBVIOUS
<1> SUFFICES ASSUME NEW S \in (SUBSET D) \ {{}}, \A g \in S : new[g] \in S PROVE FALSE
  BY <1>1 DEF HasLoop
<1> HIDE DEF new
<1>2. CASE id \notin S
  BY <1>1, <1>2 DEF HasLoop
<1>3. CASE id \in S
  <2>1. to \in S /\ to \in seen
    BY <1>1, <1>3
  <2> DEFINE T == S \cap seen
  <2>2. T \in SUBSET DOMAIN up /\ T # {}
    BY <1>1, <2>1
  <2>3. \A g \in T : up[g] \in T
    BY <1>1
  <2> QED BY <2>2, <2>3 DEF HasLoop
<1> QED BY <1>2, <1>3
-----------------------------------------------------------------------------
(* Steps of the handlers *)

LEMMA IdleRow == Idle \in Row
BY DEF Idle, Row, Ids

\* Init builds a tree and no handler is running.
LEMMA InitInv == Init => IInv
<1> SUFFICES ASSUME Init PROVE IInv
  OBVIOUS
<1>1. PICK S \in SUBSET Folders, T \in SUBSET Files :
        /\ parent \in {p \in [S -> S \union {Root}] : ~HasLoop(p)}
        /\ home \in [T -> S \union {Root}]
        /\ made = S \union T
  BY DEF Init
<1>2. Types
  BY <1>1, IdleRow DEF Init, Types
<1>3. Walks
  BY DEF Init, Walks, Checking, Idle
<1>4. LoopNeedsRace
  BY <1>1 DEF LoopNeedsRace
<1> QED BY <1>2, <1>3, <1>4 DEF IInv

\* A step of handler c that only changes its own local state
LEMMA LocalStep ==
    ASSUME IInv, NEW c \in Calls, NEW r \in Row, call' = [call EXCEPT ![c] = r], UNCHANGED treeVars,
           Checking(r) => Walked(r, parent, made)
    PROVE  IInv'
<1>1. Types'
  BY DEF IInv, Types, treeVars
<1>2. \A d \in Calls : call'[d] = IF d = c THEN r ELSE call[d]
  BY DEF IInv, Types
<1>3. Walks'
  <2> SUFFICES ASSUME NEW d \in Calls, Checking(call'[d]) PROVE Walked(call'[d], parent, made)
    BY DEF Walks, treeVars
  <2> QED BY <1>2 DEF IInv, Walks
<1>4. LoopNeedsRace'
  BY DEF IInv, LoopNeedsRace, treeVars
<1> QED BY <1>1, <1>3, <1>4 DEF IInv

\* A handler that raises
LEMMA RefuseStep ==
    ASSUME IInv, NEW c \in Calls, Refuse(c)
    PROVE  IInv'
<1>1. ~Checking(Idle)
  BY DEF Checking, Idle
<1> QED BY <1>1, IdleRow, LocalStep DEF Refuse, rowVars, treeVars

\* The first step of a handler: a move has seen nothing and looks at its new parent.
LEMMA BeginStep ==
    ASSUME IInv, NEW c \in Calls, NEW r \in Row, r.seen = {}, r.at = r.to \/ r.op # "moveFolder",
           r.pc = AfterLoad(r.to) \/ r.op # "moveFolder", Begin(c, r)
    PROVE  IInv'
<1>1. Checking(r) => Walked(r, parent, made)
  BY DEF Checking, Walked, AfterLoad
<1> QED BY <1>1, LocalStep DEF Begin, rowVars, treeVars

\* The first steps of the endpoints for a folder that exists
LEMMA LoadFolderStep ==
    ASSUME IInv, NEW c \in Calls, NEW f \in Folders, NEW to \in Folders \union {Root, Unset},
           update_folder(c, f, to) \/ delete_folder(c, f)
    PROVE  IInv'
<1>1. CASE update_folder(c, f, to)
  <2>1. parent[f] \in Ids
    BY <1>1 DEF update_folder, IInv, Types, Ids
  <2> DEFINE r == [Idle EXCEPT !.op = "moveFolder", !.id = f, !.to = to, !.old = parent[f], !.at = to,
                               !.pc = AfterLoad(to)]
  <2>2. r \in Row /\ r.seen = {} /\ r.at = r.to /\ r.pc = AfterLoad(r.to)
    BY <2>1 DEF Row, Ids, Idle, AfterLoad
  <2>3. Begin(c, r)
    BY <1>1 DEF update_folder
  <2> HIDE DEF r
  <2> QED BY <2>2, <2>3, BeginStep
<1>2. CASE delete_folder(c, f)
  <2> DEFINE doomed == Reach({f}, parent)
             inside == {y \in DOMAIN home : home[y] \in doomed}
             r == [Idle EXCEPT !.op = "delete", !.id = f, !.folders = doomed, !.files = inside, !.pc = "flush"]
  <2>1. doomed \in SUBSET Folders /\ inside \in SUBSET Files
    BY DEF Reach, IInv, Types
  <2>2. r \in Row /\ r.seen = {} /\ r.op = "delete"
    BY <2>1 DEF Row, Ids, Idle, AfterLoad
  <2>3. Begin(c, r)
    BY <1>2 DEF delete_folder
  <2> HIDE DEF r
  <2> QED BY <2>2, <2>3, BeginStep
<1> QED BY <1>1, <1>2

\* The first step of update_file
LEMMA LoadFileStep ==
    ASSUME IInv, NEW c \in Calls, NEW x \in Files, NEW to \in Folders \union {Root, Unset}, update_file(c, x, to)
    PROVE  IInv'
<1>1. home[x] \in Ids
  BY DEF update_file, IInv, Types, Ids
<1> DEFINE r == [Idle EXCEPT !.op = "moveFile", !.id = x, !.to = to, !.old = home[x], !.pc = "commit"]
<1>2. r \in Row /\ r.seen = {} /\ r.op = "moveFile"
  BY <1>1 DEF Row, Ids, Idle, AfterLoad
<1>3. Begin(c, r)
  BY DEF update_file
<1> HIDE DEF r
<1> QED BY <1>2, <1>3, BeginStep

\* One step of the walk: the folder it looked at has been seen, its parent is next.
LEMMA CheckStep ==
    ASSUME IInv, NEW c \in Calls, CheckParent(c)
    PROVE  IInv'
<1>0. call[c] \in Row /\ (Checking(call[c]) => Walked(call[c], parent, made))
  BY DEF IInv, Types, Walks
<1>1. CASE WalkEnds(c) /\ call' = [call EXCEPT ![c].pc = "commit"] /\ UNCHANGED treeVars
  <2> DEFINE r == [call[c] EXCEPT !.pc = "commit"]
  <2>1. r \in Row /\ call' = [call EXCEPT ![c] = r]
    BY <1>0, <1>1 DEF Row
  <2>2. Checking(r) => Walked(r, parent, made)
    BY <1>0, <1>1 DEF Row, Checking, Walked, WalkEnds, CheckParent
  <2> QED BY <1>1, <2>1, <2>2, LocalStep
<1>2. CASE Refuse(c)
  BY <1>2, RefuseStep
<1>3. CASE /\ ~Forbidden(c) /\ call[c].at \in DOMAIN parent /\ call[c].pc = "check"
           /\ call' = [call EXCEPT ![c].seen = @ \union {call[c].at}, ![c].at = parent[call[c].at]]
           /\ UNCHANGED treeVars
  <2> DEFINE r == [call[c] EXCEPT !.seen = @ \union {call[c].at}, !.at = parent[call[c].at]]
  <2>1. r \in Row
    BY <1>0, <1>3 DEF Row, Ids, IInv, Types
  <2>2. call' = [call EXCEPT ![c] = r]
    BY <1>0, <1>3 DEF Row, IInv, Types
  <2>3. Checking(r) => Walked(r, parent, made)
    BY <1>0, <1>3 DEF Row, Checking, Walked, Forbidden, IInv, Types
  <2> QED BY <1>3, <2>1, <2>2, <2>3, LocalStep
<1> QED BY <1>1, <1>2, <1>3 DEF CheckParent, rowVars, treeVars

\* A handler that has written its rows and goes on to send them
LEMMA AfterCommit ==
    ASSUME IInv, NEW c \in Calls, NEW r \in Row, ~Checking(r), call' = [call EXCEPT ![c] = r],
           Types', LoopNeedsRace', made \subseteq made',
           \A g \in made \cap DOMAIN parent' : g \in DOMAIN parent /\ parent'[g] = parent[g]
    PROVE  IInv'
<1> SUFFICES ASSUME NEW d \in Calls, Checking(call'[d]) PROVE Walked(call'[d], parent', made')
  BY DEF IInv, Walks
<1>1. call'[d] = call[d]
  BY DEF IInv, Types
<1>2. Walked(call[d], parent, made)
  BY <1>1 DEF IInv, Walks
<1> QED BY <1>1, <1>2 DEF Walked

\* create_folder and create_file: the new row's id is one nobody has seen.
LEMMA CreateStep ==
    ASSUME IInv, NEW c \in Calls, CommitCreate(c)
    PROVE  IInv'
<1>0. call[c] \in Row
  BY DEF IInv, Types
<1> DEFINE r(id) == [call[c] EXCEPT !.pc = "refresh", !.id = id]
<1>1. \A id \in Folders \union Files : r(id) \in Row /\ ~Checking(r(id))
  BY <1>0 DEF Row, Ids, Checking
<1>2. ASSUME NEW f \in Folders \ made, Exists(call[c].to), parent' = Put(parent, f, call[c].to),
             made' = made \union {f}, call' = [call EXCEPT ![c] = r(f)], UNCHANGED <<home, raced>>
      PROVE  IInv'
  <2>1. /\ DOMAIN parent' = DOMAIN parent \union {f} /\ parent'[f] = call[c].to
        /\ \A g \in DOMAIN parent : parent'[g] = parent[g]
        /\ f \notin DOMAIN parent
    BY <1>2 DEF Put, IInv, Types
  <2>2. parent' \in [DOMAIN parent' -> (Folders \cap made') \union {Root}]
    <3>1. parent' = [y \in DOMAIN parent' |-> parent'[y]]
      BY <1>2 DEF Put
    <3>2. \A y \in DOMAIN parent' : parent'[y] \in (Folders \cap made') \union {Root}
      BY <1>2, <2>1 DEF Exists, IInv, Types
    <3> QED BY <3>1, <3>2
  <2>3. r(f) \in Row /\ ~Checking(r(f))
    BY <1>1
  <2> HIDE DEF r
  <2>4. Types'
    BY <1>2, <2>1, <2>2, <2>3 DEF IInv, Types
  <2>5. LoopNeedsRace'
    <3>1. call[c].to # f /\ \A g \in DOMAIN parent : parent[g] # f
      BY <1>2, TreeAssumption DEF Exists, IInv, Types
    <3> QED BY <1>2, <2>1, <3>1, LoopOfCreate DEF IInv, LoopNeedsRace
  <2>6. \A g \in made \cap DOMAIN parent' : g \in DOMAIN parent /\ parent'[g] = parent[g]
    BY <1>2, <2>1
  <2> QED BY <1>2, <2>3, <2>4, <2>5, <2>6, AfterCommit
<1>3. ASSUME NEW x \in Files \ made, Exists(call[c].to), home' = Put(home, x, call[c].to),
             made' = made \union {x}, call' = [call EXCEPT ![c] = r(x)], UNCHANGED <<parent, raced>>
      PROVE  IInv'
  <2>1. home' \in [DOMAIN home' -> Folders \union {Root}] /\ DOMAIN home' \subseteq Files
    BY <1>3 DEF Put, Exists, IInv, Types
  <2>2. r(x) \in Row /\ ~Checking(r(x))
    BY <1>1
  <2> HIDE DEF r
  <2>3. Types'
    BY <1>3, <2>1, <2>2 DEF IInv, Types
  <2>4. LoopNeedsRace'
    BY <1>3 DEF IInv, LoopNeedsRace
  <2> QED BY <1>3, <2>2, <2>3, <2>4, AfterCommit
<1>4. \A id : [call EXCEPT ![c].pc = "refresh", ![c].id = id] = [call EXCEPT ![c] = r(id)]
  BY <1>0 DEF IInv, Types, Row
<1> HIDE DEF r
<1> QED BY <1>2, <1>3, <1>4 DEF CommitCreate

\* update_folder: not overtaken, the move closes no loop; everybody else's check is
\* overtaken by it.
LEMMA MoveFolderStep ==
    ASSUME IInv, NEW c \in Calls, CommitMoveFolder(c)
    PROVE  IInv'
<1>0. call[c] \in Row /\ (Checking(call[c]) => Walked(call[c], parent, made))
  BY DEF IInv, Types, Walks
<1> DEFINE r == [call[c] EXCEPT !.pc = "refresh"]
<1>1. r \in Row /\ ~Checking(r) /\ [call EXCEPT ![c].pc = "refresh"] = [call EXCEPT ![c] = r]
  BY <1>0 DEF Row, Checking, IInv, Types
<1>2. CASE ~Writes(c)
  <2> HIDE DEF r
  <2> QED BY <1>1, <1>2, LocalStep DEF CommitMoveFolder, treeVars
<1>3. CASE Writes(c)
  <2>1. /\ call[c].id \in DOMAIN parent /\ Exists(call[c].to) /\ call[c].to # Unset
        /\ call[c].op = "moveFolder" /\ call[c].pc = "commit"
        /\ parent' = [parent EXCEPT ![call[c].id] = call[c].to]
        /\ raced' = (raced \/ call[c].crossed)
        /\ Cross(c, "refresh")
        /\ UNCHANGED <<home, made>>
    BY <1>3 DEF CommitMoveFolder, Writes
  <2>2. \A d \in Calls : call'[d] \in Row /\ ~Checking(call'[d])
    <3> SUFFICES ASSUME NEW d \in Calls PROVE call'[d] \in Row /\ ~Checking(call'[d])
      OBVIOUS
    <3>1. CASE d = c
      <4>1. call'[d] = r
        BY <2>1, <3>1 DEF Cross
      <4> HIDE DEF r
      <4> QED BY <1>1, <4>1
    <3>2. CASE d # c /\ call[d] = Idle
      BY <2>1, <3>2, IdleRow DEF Cross, Checking, Idle
    <3>3. CASE d # c /\ call[d] # Idle
      <4>1. call'[d] = [call[d] EXCEPT !.crossed = TRUE] /\ call[d] \in Row
        BY <2>1, <3>3 DEF Cross, IInv, Types
      <4> QED BY <4>1 DEF Row, Checking
    <3> QED BY <3>1, <3>2, <3>3
  <2>3. Types'
    <3>1. call' \in [Calls -> Row]
      BY <2>1, <2>2 DEF Cross
    <3>2. /\ DOMAIN parent' = DOMAIN parent
          /\ parent' \in [DOMAIN parent' -> (Folders \cap made') \union {Root}]
      BY <2>1 DEF Exists, IInv, Types
    <3>3. raced' \in BOOLEAN
      BY <1>0, <2>1 DEF Row, IInv, Types
    <3> QED BY <2>1, <3>1, <3>2, <3>3 DEF IInv, Types
  <2>4. Walks'
    BY <2>2 DEF Walks
  <2>5. LoopNeedsRace'
    <3> SUFFICES ASSUME ~raced' PROVE ~HasLoop(parent')
      BY DEF LoopNeedsRace
    <3>1. ~raced /\ ~call[c].crossed
      BY <1>0, <2>1 DEF IInv, Types, Row
    <3>2. ~HasLoop(parent)
      BY <3>1 DEF IInv, LoopNeedsRace
    <3>3. parent \in [DOMAIN parent -> (Folders \cap made) \union {Root}] /\ Root \notin DOMAIN parent
      BY TreeAssumption DEF IInv, Types
    <3>4. CASE call[c].to = Root
      <4> DEFINE nobody == {}
      <4>1. call[c].id \notin nobody /\ \A f \in nobody \cap DOMAIN parent : parent[f] \in nobody \union {Root}
        OBVIOUS
      <4> HIDE DEF nobody
      <4> QED BY <2>1, <3>2, <3>3, <3>4, <4>1, LoopOfMove
    <3>5. CASE call[c].to # Root
      <4>1. Walked(call[c], parent, made)
        BY <1>0, <2>1, <3>1, <3>5 DEF Checking
      <4>2. /\ call[c].id \notin call[c].seen /\ call[c].to \in call[c].seen
            /\ \A f \in call[c].seen \cap DOMAIN parent : parent[f] \in call[c].seen \union {Root}
        BY <2>1, <3>5, <4>1 DEF Walked
      <4> QED BY <2>1, <3>2, <3>3, <4>2, LoopOfMove
    <3> QED BY <3>4, <3>5
  <2> QED BY <2>3, <2>4, <2>5 DEF IInv
<1> QED BY <1>2, <1>3

\* update_file: the folders are as they were.
LEMMA MoveFileStep ==
    ASSUME IInv, NEW c \in Calls, CommitMoveFile(c)
    PROVE  IInv'
<1>0. call[c] \in Row
  BY DEF IInv, Types
<1> DEFINE r == [call[c] EXCEPT !.pc = "refresh"]
<1>1. r \in Row /\ ~Checking(r) /\ call' = [call EXCEPT ![c] = r]
  BY <1>0 DEF CommitMoveFile, Row, Checking, IInv, Types
<1>2. DOMAIN home' = DOMAIN home /\ home' \in [DOMAIN home' -> Folders \union {Root}]
  BY DEF CommitMoveFile, Exists, IInv, Types
<1> HIDE DEF r
<1>3. Types'
  BY <1>1, <1>2 DEF CommitMoveFile, IInv, Types
<1>4. LoopNeedsRace'
  BY DEF CommitMoveFile, IInv, LoopNeedsRace
<1> QED BY <1>1, <1>3, <1>4, AfterCommit DEF CommitMoveFile

\* delete_folder: what is left is part of the tree there was.
LEMMA DeleteStep ==
    ASSUME IInv, NEW c \in Calls, CommitDelete(c)
    PROVE  IInv'
<1>0. call[c] \in Row
  BY DEF IInv, Types
<1> DEFINE r == [call[c] EXCEPT !.pc = "tell"]
           gone == Reach(call[c].folders, parent)
<1>1. r \in Row /\ ~Checking(r) /\ call' = [call EXCEPT ![c] = r]
  BY <1>0 DEF CommitDelete, Row, Checking, IInv, Types
<1>2. /\ parent' = Without(parent, gone)
      /\ home' = [x \in DOMAIN home \ call[c].files |-> OrphanHome(x, gone)]
      /\ UNCHANGED <<made, raced>>
  BY DEF CommitDelete
<1> HIDE DEF r, gone
<1>3. DOMAIN parent' = DOMAIN parent \ gone /\ \A g \in DOMAIN parent' : parent'[g] = parent[g]
  BY <1>2 DEF Without
<1>4. parent' \in [DOMAIN parent' -> (Folders \cap made') \union {Root}]
  BY <1>2 DEF Without, IInv, Types
<1>5. home' \in [DOMAIN home' -> Folders \union {Root}] /\ DOMAIN home' \subseteq Files
  BY <1>2 DEF OrphanHome, IInv, Types
<1>6. Types'
  BY <1>1, <1>2, <1>3, <1>4, <1>5 DEF IInv, Types
<1>7. LoopNeedsRace'
  BY <1>2, <1>3, LoopOfPart DEF IInv, LoopNeedsRace
<1> QED BY <1>1, <1>2, <1>3, <1>6, <1>7, AfterCommit

\* Flush, Refresh and Tell touch no folder and no check.
LEMMA OtherStep ==
    ASSUME IInv, NEW c \in Calls, Flush(c) \/ Refresh(c) \/ RefreshFails(c) \/ Tell(c) \/ CommitFails(c)
    PROVE  IInv'
<1>0. call[c] \in Row
  BY DEF IInv, Types
<1>1. CASE Refuse(c)
  BY <1>1, RefuseStep
<1>2. CASE Flush(c) /\ ~Refuse(c)
  <2> DEFINE r == [call[c] EXCEPT !.pc = "commit"]
  <2>1. r \in Row /\ call' = [call EXCEPT ![c] = r] /\ UNCHANGED treeVars
    BY <1>0, <1>2 DEF Flush, Row, IInv, Types, rowVars, treeVars
  <2>2. ~Checking(r)
    BY <1>0, <1>2 DEF Flush, Row, Checking, IInv, Walks
  <2> HIDE DEF r
  <2> QED BY <2>1, <2>2, LocalStep
<1>3. CASE Refresh(c)
  <2>1. PICK rows \in {parent, home} :
          /\ call[c].id \in DOMAIN rows
          /\ call' = [call EXCEPT ![c].pc = "tell", ![c].to = rows[call[c].id]]
          /\ UNCHANGED treeVars
    BY <1>3 DEF Refresh, rowVars, treeVars
  <2> DEFINE r == [call[c] EXCEPT !.pc = "tell", !.to = rows[call[c].id]]
  <2>2. rows[call[c].id] \in Ids
    BY <2>1 DEF IInv, Types, Ids
  <2>3. r \in Row /\ ~Checking(r) /\ call' = [call EXCEPT ![c] = r]
    BY <1>0, <2>1, <2>2 DEF Row, Checking, IInv, Types
  <2> HIDE DEF r
  <2> QED BY <2>1, <2>3, LocalStep
<1>4. CASE Tell(c)
  <2>1. call' = [call EXCEPT ![c] = Idle] /\ UNCHANGED treeVars
    BY <1>4 DEF Tell, rowVars, treeVars
  <2>2. ~Checking(Idle)
    BY DEF Checking, Idle
  <2> QED BY <2>1, <2>2, IdleRow, LocalStep
<1> QED BY <1>1, <1>2, <1>3, <1>4 DEF RefreshFails, CommitFails

\* Every step keeps the invariant.
LEMMA StepInv == IInv /\ [Next]_vars => IInv'
<1> SUFFICES ASSUME IInv, [Next]_vars PROVE IInv'
  OBVIOUS
<1>1. CASE UNCHANGED vars
  BY <1>1 DEF vars, IInv, Types, Walks, LoopNeedsRace
<1>2. ASSUME NEW c \in Calls, Step(c) PROVE IInv'
  BY <1>2, CheckStep, CreateStep, MoveFolderStep, MoveFileStep, DeleteStep, OtherStep DEF Step
<1>3. ASSUME NEW x \in Files, Use(x) PROVE IInv'
  BY <1>3 DEF Use, IInv, Types, Walks, LoopNeedsRace
<1>4. ASSUME NEW c \in Calls, NEW to \in Folders \union {Root}, create_folder(c, to) \/ create_file(c, to)
      PROVE  IInv'
  BY <1>4, BeginStep DEF create_folder, create_file, Row, Ids, Idle, AfterLoad
<1>5. ASSUME NEW c \in Calls, NEW f \in Folders, NEW to \in Folders \union {Root, Unset},
             update_folder(c, f, to) \/ delete_folder(c, f)
      PROVE  IInv'
  BY <1>5, LoadFolderStep
<1>6. ASSUME NEW c \in Calls, NEW x \in Files, NEW to \in Folders \union {Root, Unset}, update_file(c, x, to)
      PROVE  IInv'
  BY <1>6, LoadFileStep
<1> QED BY <1>1, <1>2, <1>3, <1>4, <1>5, <1>6 DEF Next

\* The check of _check_parent is right: whatever is created, moved, renamed and
\* deleted by any number of handlers, folders form a loop only after a move that
\* was overtaken by another between its check and its commit.
THEOREM LoopNeedsRaceTheorem == Spec => []LoopNeedsRace
<1>1. IInv => LoopNeedsRace
  BY DEF IInv
<1> QED BY <1>1, InitInv, StepInv, PTL DEF Spec
-----------------------------------------------------------------------------
(* The sidebar: the argument is that every row a page does not have as it is will be sent *)

\* A place in the tree that is no folder yet to be created
Place(at) == at \in made \union {Root}

\* Where the page may have a file: in its folder, or in the one that was deleted
FileAt(x, at) == Place(at) /\ (at = home[x] \/ (home[x] = Root /\ at \notin DOMAIN parent))

\* A handler that has committed and not sent yet
Sending(r) == r.pc \in {"refresh", "tell"} /\ r.op # "delete"

\* What a handler has in its hands
Shape(r) ==
    /\ Place(r.id)
    /\ r.op = "moveFolder" => r.id \in Folders
    /\ r.op = "moveFile" => r.id \in Files
    /\ r.op = "delete" => r.pc # "refresh" /\ (r.pc # "tell" => r.id \in r.folders)
    /\ r.op = "delete" /\ r.pc = "tell" => r.id \notin DOMAIN parent
    /\ Sending(r) => /\ r.op # "none" /\ r.id # Root
                     /\ r.op = "newFolder" => r.id \in Folders
                     /\ r.op = "newFile" => r.id \in Files
    /\ Sending(r) /\ r.pc = "tell" => Place(r.to)

\* What a handler sends is the row as it is.
Says(r) ==
    Sending(r) /\ r.pc = "tell" =>
        /\ r.id \in DOMAIN parent => r.to = parent[r.id]
        /\ r.id \in DOMAIN home => FileAt(r.id, r.to)

OnItsWay(id) == \E c \in Calls : Sending(call[c]) /\ call[c].id = id

Listed ==
    /\ \A f \in DOMAIN parent : OnItsWay(f) \/ (f \in DOMAIN page.folders /\ page.folders[f] = parent[f])
    /\ \A x \in DOMAIN home : OnItsWay(x) \/ (x \in DOMAIN page.files /\ FileAt(x, page.files[x]))

Rows ==
    /\ DOMAIN home \subseteq made
    /\ \A x \in DOMAIN home : Place(home[x])
    /\ page = [folders |-> page.folders, files |-> page.files]
    /\ overtaken \in BOOLEAN

Shapes == \A c \in Calls : Shape(call[c])

Current == ~overtaken => Listed /\ \A c \in Calls : Says(call[c])

\* The inductive invariant of the sidebar
SInv == IInv /\ Rows /\ Shapes /\ Current

\* The inductive invariant of the files with history: a deletion that is past its
\* flush takes no file with it that was in use then.
Kept ==
    /\ used \ late \subseteq DOMAIN home
    /\ \A c \in Calls : call[c].op = "delete" =>
          call[c].pc # "check" /\ (call[c].pc = "commit" => call[c].files \cap used \subseteq late)

\* The fields of a handler that matter here
Alike(r, s) == r.id = s.id /\ r.op = s.op /\ r.pc = s.pc /\ r.to = s.to /\ r.folders = s.folders

\* Handler c sends row id, and nobody else who could be late does.
Own(c, id) ==
    /\ Sending(call'[c]) /\ call'[c].id = id
    /\ ~overtaken' => \A d \in Calls \ {c} : ~(Sending(call[d]) /\ call[d].id = id)

\* A step of handler c that sends nothing: a row it changes is one it is going to
\* send, or one whose folder it deletes.
LEMMA SideStep ==
    ASSUME SInv, Rows', NEW c \in Calls,
           \A d \in Calls \ {c} : Alike(call'[d], call[d]),
           Shape(call[c])', ~overtaken' => ~overtaken /\ Says(call[c])',
           UNCHANGED page, made \subseteq made',
           Sending(call[c]) => \/ Sending(call'[c]) /\ call'[c].id = call[c].id
                               \/ call[c].id \notin DOMAIN parent' \union DOMAIN home',
           \A g \in DOMAIN parent' : g \in DOMAIN parent \/ ~Place(g),
           \A f \in DOMAIN parent' : \/ f \in DOMAIN parent /\ parent'[f] = parent[f]
                                     \/ Own(c, f),
           \A x \in DOMAIN home' : \/ /\ x \in DOMAIN home
                                      /\ home'[x] = home[x] \/ (home'[x] = Root /\ home[x] \notin DOMAIN parent')
                                   \/ Own(c, x)
    PROVE  Shapes' /\ Current'
<1>1. \A at : Place(at) => Place(at)' /\ (at \notin DOMAIN parent => at \notin DOMAIN parent')
  BY DEF Place
<1>2. \A d \in Calls : Shape(call[d]) /\ (~overtaken => Says(call[d]))
  BY DEF SInv, Shapes, Current
<1>3. \A x, at : x \in DOMAIN home /\ FileAt(x, at) /\ (home'[x] = home[x] \/ (home'[x] = Root /\ home[x] \notin DOMAIN parent'))
        => FileAt(x, at)'
  BY <1>1 DEF FileAt
<1>4. ASSUME NEW d \in Calls \ {c} PROVE Shape(call[d])'
  BY <1>1, <1>2 DEF Shape, Alike, Sending
<1>5. ASSUME NEW d \in Calls \ {c}, ~overtaken' PROVE Says(call[d])'
  <2> SUFFICES ASSUME Sending(call'[d]), call'[d].pc = "tell"
               PROVE  /\ call'[d].id \in DOMAIN parent' => call'[d].to = parent'[call'[d].id]
                      /\ call'[d].id \in DOMAIN home' => FileAt(call[d].id, call[d].to)'
    BY DEF Says
  <2>1. Alike(call'[d], call[d]) /\ Says(call[d]) /\ Sending(call[d])
    BY <1>2, <1>5 DEF Alike, Sending
  <2>2. ~Own(c, call[d].id)
    BY <1>5, <2>1 DEF Own
  <2>3. call'[d].id \in DOMAIN parent' => call'[d].to = parent'[call'[d].id]
    BY <2>1, <2>2 DEF Alike, Says
  <2>4. ASSUME call[d].id \in DOMAIN home' PROVE FileAt(call[d].id, call[d].to)'
    <3>1. FileAt(call[d].id, call[d].to) /\ call[d].id \in DOMAIN home
      BY <2>1, <2>2, <2>4 DEF Alike, Says
    <3>2. call'[d].id = call[d].id /\ call'[d].to = call[d].to
      BY <2>1 DEF Alike
    <3> QED BY <1>3, <2>2, <2>4, <3>1, <3>2 DEF FileAt
  <2> QED BY <2>1, <2>3, <2>4 DEF Alike
<1>6. ASSUME NEW id \in DOMAIN parent' \union DOMAIN home', OnItsWay(id) PROVE OnItsWay(id)'
  <2>1. PICK d \in Calls : Sending(call[d]) /\ call[d].id = id
    BY <1>6 DEF OnItsWay
  <2>2. CASE d = c
    BY <2>1, <2>2 DEF OnItsWay
  <2>3. CASE d # c
    BY <2>1, <2>3 DEF OnItsWay, Alike, Sending
  <2> QED BY <2>2, <2>3
<1>7. \A id : Own(c, id) => OnItsWay(id)'
  BY DEF Own, OnItsWay
<1>8. ASSUME ~overtaken' PROVE Listed'
  <2>0. Listed
    BY <1>8 DEF SInv, Current
  <2>1. ASSUME NEW f \in DOMAIN parent'
        PROVE  OnItsWay(f)' \/ (f \in DOMAIN page'.folders /\ page'.folders[f] = parent'[f])
    <3>1. CASE Own(c, f)
      BY <1>7, <3>1
    <3>2. CASE f \in DOMAIN parent /\ parent'[f] = parent[f]
      BY <1>6, <2>0, <3>2 DEF Listed
    <3> QED BY <3>1, <3>2
  <2>2. ASSUME NEW x \in DOMAIN home'
        PROVE  OnItsWay(x)' \/ (x \in DOMAIN page'.files /\ FileAt(x, page.files[x])')
    <3>1. CASE Own(c, x)
      BY <1>7, <3>1
    <3>2. CASE /\ x \in DOMAIN home
               /\ home'[x] = home[x] \/ (home'[x] = Root /\ home[x] \notin DOMAIN parent')
      <4>1. CASE OnItsWay(x)
        BY <1>6, <4>1
      <4>2. CASE x \in DOMAIN page.files /\ FileAt(x, page.files[x])
        BY <1>3, <3>2, <4>2 DEF FileAt
      <4> QED BY <2>0, <3>2, <4>1, <4>2 DEF Listed
    <3> QED BY <3>1, <3>2
  <2> QED BY <2>1, <2>2 DEF Listed
<1> QED BY <1>4, <1>5, <1>8 DEF Shapes, Current

\* A step that changes no row
LEMMA SideLocal ==
    ASSUME SInv, IInv', NEW c \in Calls, NEW r, call' = [call EXCEPT ![c] = r],
           UNCHANGED <<parent, home, made, page, overtaken>>,
           Shape(call[c])', ~overtaken => Says(call[c])',
           Sending(call[c]) => \/ Sending(r) /\ r.id = call[c].id
                               \/ call[c].id \notin DOMAIN parent \union DOMAIN home
    PROVE  SInv'
<1>1. Rows'
  BY DEF SInv, Rows, Place
<1>2. call'[c] = r /\ \A d \in Calls \ {c} : call'[d] = call[d]
  BY DEF SInv, IInv, Types
<1>3. \A d \in Calls \ {c} : Alike(call'[d], call[d])
  BY <1>2 DEF Alike
<1> QED BY <1>1, <1>2, <1>3, SideStep DEF SInv

LEMMA ReachTops ==
    ASSUME NEW T, NEW up, NEW f \in T \cap DOMAIN up
    PROVE  f \in Reach(T, up)
BY DEF Reach, Closed

\* The first steps of the endpoints
LEMMA SideBegin ==
    ASSUME SInv, IInv', NEW c \in Calls, NEW r, Begin(c, r), Place(r.id),
           r.pc \in {"check", "flush", "commit"},
           r.op = "moveFolder" => r.id \in Folders, r.op = "moveFile" => r.id \in Files,
           r.op = "delete" => r.id \in r.folders
    PROVE  SInv'
<1>1. call' = [call EXCEPT ![c] = r] /\ UNCHANGED <<parent, home, made, page, overtaken>> /\ call[c] = Idle
  BY DEF Begin, rowVars
<1>2. ~Sending(call[c])
  BY <1>1 DEF Sending, Idle
<1>3. call'[c] = r
  BY <1>1 DEF SInv, IInv, Types
<1>4. Shape(call[c])' /\ Says(call[c])'
  BY <1>1, <1>3 DEF Shape, Says, Sending, Place
<1> QED BY <1>1, <1>2, <1>4, SideLocal

LEMMA SideLoad ==
    ASSUME SInv, IInv', NEW c \in Calls,
           \/ \E to \in Folders \union {Root} : create_folder(c, to) \/ create_file(c, to)
           \/ \E f \in Folders :
                \/ \E to \in Folders \union {Root, Unset} : update_folder(c, f, to)
                \/ delete_folder(c, f)
           \/ \E x \in Files, to \in Folders \union {Root, Unset} : update_file(c, x, to)
    PROVE  SInv'
<1>1. ASSUME NEW to \in Folders \union {Root}, create_folder(c, to) PROVE SInv'
  <2> DEFINE r == [Idle EXCEPT !.op = "newFolder", !.to = to, !.at = to, !.pc = AfterLoad(to)]
  <2>1. r.id = Root /\ r.op = "newFolder" /\ r.pc \in {"check", "flush", "commit"}
    BY DEF Idle, AfterLoad
  <2>2. Begin(c, r)
    BY <1>1 DEF create_folder
  <2> HIDE DEF r
  <2> QED BY <2>1, <2>2, SideBegin DEF Place
<1>2. ASSUME NEW to \in Folders \union {Root}, create_file(c, to) PROVE SInv'
  <2> DEFINE r == [Idle EXCEPT !.op = "newFile", !.to = to, !.pc = "commit"]
  <2>1. r.id = Root /\ r.op = "newFile" /\ r.pc \in {"check", "flush", "commit"}
    BY DEF Idle
  <2>2. Begin(c, r)
    BY <1>2 DEF create_file
  <2> HIDE DEF r
  <2> QED BY <2>1, <2>2, SideBegin DEF Place
<1>3. ASSUME NEW f \in Folders, NEW to \in Folders \union {Root, Unset}, update_folder(c, f, to) PROVE SInv'
  <2> DEFINE r == [Idle EXCEPT !.op = "moveFolder", !.id = f, !.to = to, !.old = parent[f], !.at = to,
                               !.pc = AfterLoad(to)]
  <2>1. r.id = f /\ r.op = "moveFolder" /\ r.pc \in {"check", "flush", "commit"}
    BY DEF Idle, AfterLoad
  <2>2. Begin(c, r) /\ Place(f)
    BY <1>3 DEF update_folder, Place, SInv, IInv, Types
  <2> HIDE DEF r
  <2> QED BY <2>1, <2>2, SideBegin
<1>4. ASSUME NEW f \in Folders, delete_folder(c, f) PROVE SInv'
  <2> DEFINE doomed == Reach({f}, parent)
             inside == {y \in DOMAIN home : home[y] \in doomed}
             r == [Idle EXCEPT !.op = "delete", !.id = f, !.folders = doomed, !.files = inside, !.pc = "flush"]
  <2>1. r.id = f /\ r.op = "delete" /\ r.pc = "flush" /\ r.folders = doomed
    BY DEF Idle
  <2>2. Begin(c, r) /\ Place(f) /\ f \in DOMAIN parent
    BY <1>4 DEF delete_folder, Place, SInv, IInv, Types
  <2>3. f \in doomed
    BY <2>2, ReachTops
  <2> HIDE DEF r
  <2> QED BY <2>1, <2>2, <2>3, SideBegin
<1>5. ASSUME NEW x \in Files, NEW to \in Folders \union {Root, Unset}, update_file(c, x, to) PROVE SInv'
  <2> DEFINE r == [Idle EXCEPT !.op = "moveFile", !.id = x, !.to = to, !.old = home[x], !.pc = "commit"]
  <2>1. r.id = x /\ r.op = "moveFile" /\ r.pc \in {"check", "flush", "commit"}
    BY DEF Idle
  <2>2. Begin(c, r) /\ Place(x)
    BY <1>5 DEF update_file, Place, SInv, Rows
  <2> HIDE DEF r
  <2> QED BY <2>1, <2>2, SideBegin
<1> QED BY <1>1, <1>2, <1>3, <1>4, <1>5

\* A handler that raises has no row to send, or one that is gone.
LEMMA SideRefuse ==
    ASSUME SInv, IInv', NEW c \in Calls, Refuse(c),
           call[c].pc \in {"check", "flush", "commit"} \/ call[c].id \notin DOMAIN parent \union DOMAIN home
    PROVE  SInv'
<1>1. call' = [call EXCEPT ![c] = Idle] /\ UNCHANGED <<parent, home, made, page, overtaken>>
  BY DEF Refuse, rowVars
<1>2. call'[c] = Idle
  BY <1>1 DEF SInv, IInv, Types
<1>3. Shape(call[c])' /\ Says(call[c])'
  BY <1>1, <1>2 DEF Shape, Says, Sending, Place, Idle
<1> QED BY <1>1, <1>3, SideLocal DEF Sending

\* The check, the flush and the reading of the committed row
LEMMA SideCheck ==
    ASSUME SInv, IInv', NEW c \in Calls, CheckParent(c) \/ Flush(c) \/ Refresh(c) \/ RefreshFails(c) \/ CommitFails(c)
    PROVE  SInv'
<1>0. call[c] \in Row /\ Shape(call[c]) /\ call \in [Calls -> Row]
  BY DEF SInv, IInv, Types, Shapes
<1>1. CASE Refuse(c) /\ ~Refresh(c)
  <2>1. call[c].pc \in {"check", "flush", "commit"} \/ call[c].id \notin DOMAIN parent \union DOMAIN home
    BY <1>1 DEF CheckParent, Flush, RefreshFails, CommitFails
  <2> QED BY <1>1, <2>1, SideRefuse
<1>2. CASE (CheckParent(c) \/ Flush(c)) /\ ~Refuse(c)
  <2>1. /\ UNCHANGED <<parent, home, made, page, overtaken>> /\ call[c].pc \in {"check", "flush"}
        /\ \/ call' = [call EXCEPT ![c].pc = "commit"]
           \/ call' = [call EXCEPT ![c].seen = @ \union {call[c].at}, ![c].at = parent[call[c].at]]
    BY <1>2 DEF CheckParent, Flush, rowVars
  <2>2. PICK r : /\ call' = [call EXCEPT ![c] = r] /\ r.pc \in {"check", "flush", "commit"}
                 /\ r.id = call[c].id /\ r.op = call[c].op /\ r.folders = call[c].folders
    <3>1. CASE call' = [call EXCEPT ![c].pc = "commit"]
      <4> DEFINE r == [call[c] EXCEPT !.pc = "commit"]
      <4>1. /\ call' = [call EXCEPT ![c] = r] /\ r.pc = "commit"
            /\ r.id = call[c].id /\ r.op = call[c].op /\ r.folders = call[c].folders
        BY <1>0, <3>1 DEF Row
      <4> HIDE DEF r
      <4> QED BY <4>1
    <3>2. CASE call' = [call EXCEPT ![c].seen = @ \union {call[c].at}, ![c].at = parent[call[c].at]]
      <4> DEFINE r == [call[c] EXCEPT !.seen = @ \union {call[c].at}, !.at = parent[call[c].at]]
      <4>1. /\ call' = [call EXCEPT ![c] = r] /\ r.pc = call[c].pc
            /\ r.id = call[c].id /\ r.op = call[c].op /\ r.folders = call[c].folders
        BY <1>0, <3>2 DEF Row
      <4> HIDE DEF r
      <4> QED BY <2>1, <4>1
    <3> QED BY <2>1, <3>1, <3>2
  <2>3. call'[c] = r
    BY <1>0, <2>2
  <2>4. Shape(call[c])' /\ Says(call[c])'
    BY <1>0, <2>1, <2>2, <2>3 DEF Shape, Says, Sending, Place
  <2> QED BY <2>1, <2>2, <2>4, SideLocal DEF Sending
<1>3. CASE Refresh(c)
  <2>1. PICK rows \in {parent, home} :
          /\ call[c].id \in DOMAIN rows /\ call[c].pc = "refresh"
          /\ call' = [call EXCEPT ![c].pc = "tell", ![c].to = rows[call[c].id]]
          /\ UNCHANGED <<parent, home, made, page, overtaken>>
    BY <1>3 DEF Refresh, rowVars
  <2> DEFINE r == [call[c] EXCEPT !.pc = "tell", !.to = rows[call[c].id]]
  <2>2. /\ call' = [call EXCEPT ![c] = r] /\ r.pc = "tell" /\ r.to = rows[call[c].id]
        /\ r.id = call[c].id /\ r.op = call[c].op /\ r.folders = call[c].folders
    BY <1>0, <2>1 DEF Row
  <2> HIDE DEF r
  <2>3. call'[c] = r
    BY <1>0, <2>2
  <2>4. call[c].op # "delete" /\ Sending(call[c]) /\ Sending(r)
    BY <1>0, <2>1, <2>2 DEF Shape, Sending
  <2>5. /\ call[c].id \in DOMAIN parent => rows = parent /\ call[c].id \notin DOMAIN home
        /\ call[c].id \in DOMAIN home => rows = home
    BY <2>1, TreeAssumption DEF SInv, IInv, Types
  <2>6. Place(rows[call[c].id])
    <3>1. CASE rows = parent
      BY <2>1, <3>1 DEF Place, SInv, IInv, Types
    <3>2. CASE rows = home
      BY <2>1, <3>2 DEF SInv, Rows
    <3> QED BY <2>1, <3>1, <3>2
  <2>7. Shape(call[c])'
    BY <1>0, <2>1, <2>2, <2>3, <2>4, <2>6 DEF Shape, Sending, Place
  <2>8. Says(call[c])'
    BY <2>1, <2>2, <2>3, <2>5, <2>6 DEF Says, FileAt, Place
  <2> QED BY <2>1, <2>2, <2>4, <2>7, <2>8, SideLocal
<1> QED BY <1>1, <1>2, <1>3 DEF RefreshFails, CommitFails

\* The commits: only the handler that wrote a row sends it, unless one that
\* committed before is still to send it.
LEMMA SideCreate ==
    ASSUME SInv, IInv', NEW c \in Calls, CommitCreate(c)
    PROVE  SInv'
<1>0. call[c] \in Row /\ Shape(call[c]) /\ call \in [Calls -> Row] /\ ~Sending(call[c]) /\ call[c].pc = "commit"
  BY DEF SInv, IInv, Types, Shapes, CommitCreate, Sending
<1>1. PICK id \in (Folders \union Files) \ made :
        /\ made' = made \union {id} /\ call' = [call EXCEPT ![c].pc = "refresh", ![c].id = id]
        /\ UNCHANGED page
        /\ \/ id \in Folders /\ call[c].op = "newFolder" /\ parent' = Put(parent, id, call[c].to) /\ home' = home
           \/ id \in Files /\ call[c].op = "newFile" /\ home' = Put(home, id, call[c].to) /\ parent' = parent
  BY DEF CommitCreate, Committed
<1>2. Exists(call[c].to) /\ overtaken' \in BOOLEAN /\ (~overtaken' => ~overtaken)
  BY DEF CommitCreate, Committed, SInv, Rows
<1> DEFINE r == [call[c] EXCEPT !.pc = "refresh", !.id = id]
<1>3. call' = [call EXCEPT ![c] = r] /\ r.pc = "refresh" /\ r.id = id /\ r.op = call[c].op
  BY <1>0, <1>1 DEF Row
<1> HIDE DEF r
<1>4. call'[c] = r /\ \A d \in Calls \ {c} : call'[d] = call[d]
  BY <1>0, <1>3
<1>5. \A d \in Calls \ {c} : Alike(call'[d], call[d])
  BY <1>4 DEF Alike
<1>6. ~Place(id) /\ id \in made'
  BY <1>1, TreeAssumption DEF Place
<1>7. \A d \in Calls : call[d].id # id
  BY <1>6 DEF SInv, Shapes, Shape
<1>8. Own(c, id)
  BY <1>1, <1>3, <1>4, <1>7 DEF Own, Sending
<1>9. Shape(call[c])' /\ Says(call[c])'
  BY <1>1, <1>3, <1>4, <1>6, TreeAssumption DEF Shape, Says, Sending, Place
<1>10. Place(call[c].to)
  BY <1>2 DEF Exists, Place, SInv, IInv, Types
<1>11. /\ \A g \in DOMAIN parent' : (g \in DOMAIN parent /\ parent'[g] = parent[g]) \/ g = id
       /\ \A x \in DOMAIN home' : (x \in DOMAIN home /\ home'[x] = home[x]) \/ (x = id /\ home'[x] = call[c].to)
  BY <1>1 DEF Put
<1>12. Rows'
  BY <1>1, <1>2, <1>6, <1>10, <1>11 DEF SInv, Rows, Place
<1> QED BY <1>0, <1>1, <1>2, <1>5, <1>6, <1>8, <1>9, <1>11, <1>12, SideStep DEF SInv

LEMMA SideMove ==
    ASSUME SInv, IInv', NEW c \in Calls, CommitMoveFolder(c) \/ CommitMoveFile(c)
    PROVE  SInv'
<1>0. call[c] \in Row /\ Shape(call[c]) /\ call \in [Calls -> Row] /\ call' \in [Calls -> Row]
  BY DEF SInv, IInv, Types, Shapes
<1>1. /\ call[c].pc = "commit" /\ call[c].op \in {"moveFolder", "moveFile"} /\ ~Sending(call[c])
      /\ UNCHANGED <<page, made>> /\ DOMAIN parent' = DOMAIN parent /\ DOMAIN home' = DOMAIN home
      /\ overtaken' = (overtaken \/ \E d \in Calls \ {c} : call[d].id = call[c].id /\ call[d].pc \in {"refresh", "tell"})
  BY DEF CommitMoveFolder, CommitMoveFile, Committed, Sending, SInv, IInv, Types
<1>2. /\ \A f \in DOMAIN parent : f # call[c].id => parent'[f] = parent[f]
      /\ \A x \in DOMAIN home : home'[x] = home[x] \/ (x = call[c].id /\ Place(home'[x]))
  BY DEF CommitMoveFolder, CommitMoveFile, SInv, IInv, Types, Exists, Place
<1>3. /\ call'[c] = [call[c] EXCEPT !.pc = "refresh"]
      /\ \A d \in Calls \ {c} : Alike(call'[d], call[d])
  <2>1. CASE call' = [call EXCEPT ![c].pc = "refresh"]
    BY <1>0, <2>1 DEF Alike
  <2>2. CASE Cross(c, "refresh")
    <3>1. \A d \in Calls \ {c} : call'[d] = call[d] \/ call'[d] = [call[d] EXCEPT !.crossed = TRUE]
      BY <2>2 DEF Cross
    <3>2. call'[c] = [call[c] EXCEPT !.pc = "refresh"]
      BY <2>2 DEF Cross
    <3>3. ASSUME NEW d \in Calls \ {c} PROVE Alike(call'[d], call[d])
      <4>1. call[d] \in Row
        BY <1>0
      <4>2. CASE call'[d] = call[d]
        BY <4>2 DEF Alike
      <4>3. CASE call'[d] = [call[d] EXCEPT !.crossed = TRUE]
        BY <4>1, <4>3 DEF Alike, Row
      <4> QED BY <3>1, <4>2, <4>3
    <3> QED BY <3>2, <3>3
  <2> QED BY <2>1, <2>2 DEF CommitMoveFolder, CommitMoveFile
<1>4. call'[c].pc = "refresh" /\ call'[c].id = call[c].id /\ call'[c].op = call[c].op
  BY <1>0, <1>3 DEF Row
<1>5. overtaken' \in BOOLEAN /\ (~overtaken' => ~overtaken)
  BY <1>1 DEF SInv, Rows
<1>6. ~overtaken' => \A d \in Calls \ {c} : ~(Sending(call[d]) /\ call[d].id = call[c].id)
  BY <1>1 DEF Sending
<1>7. Own(c, call[c].id)
  BY <1>1, <1>4, <1>6 DEF Own, Sending
<1>8. Shape(call[c])' /\ Says(call[c])'
  BY <1>0, <1>1, <1>4, TreeAssumption DEF Shape, Says, Sending, Place
<1>9. Rows'
  BY <1>1, <1>2, <1>5 DEF SInv, Rows, Place
<1>10. /\ \A f \in DOMAIN parent' : (f \in DOMAIN parent /\ parent'[f] = parent[f]) \/ Own(c, f)
       /\ \A x \in DOMAIN home' : (x \in DOMAIN home /\ home'[x] = home[x]) \/ Own(c, x)
  BY <1>1, <1>2, <1>7
<1> QED BY <1>1, <1>3, <1>5, <1>8, <1>9, <1>10, SideStep DEF SInv

LEMMA SideDelete ==
    ASSUME SInv, IInv', NEW c \in Calls, CommitDelete(c)
    PROVE  SInv'
<1>0. call[c] \in Row /\ Shape(call[c]) /\ call \in [Calls -> Row]
  BY DEF SInv, IInv, Types, Shapes
<1> DEFINE gone == Reach(call[c].folders, parent)
<1>1. /\ call[c].pc = "commit" /\ call[c].op = "delete" /\ ~Sending(call[c]) /\ UNCHANGED <<page, made>>
      /\ parent' = Without(parent, gone)
      /\ home' = [x \in DOMAIN home \ call[c].files |-> OrphanHome(x, gone)]
      /\ call' = [call EXCEPT ![c].pc = "tell"]
      /\ overtaken' \in BOOLEAN /\ (~overtaken' => ~overtaken)
  BY DEF CommitDelete, Committed, Sending, SInv, Rows
<1>2. call[c].id \in gone \/ call[c].id \notin DOMAIN parent
  BY <1>0, <1>1, ReachTops DEF Shape
<1> HIDE DEF gone
<1>3. /\ DOMAIN parent' = DOMAIN parent \ gone /\ \A f \in DOMAIN parent' : parent'[f] = parent[f]
      /\ DOMAIN home' \subseteq DOMAIN home
      /\ \A x \in DOMAIN home' : home'[x] = home[x] \/ (home'[x] = Root /\ home[x] \notin DOMAIN parent')
  BY <1>1 DEF Without, OrphanHome
<1>4. call'[c] = [call[c] EXCEPT !.pc = "tell"] /\ \A d \in Calls \ {c} : call'[d] = call[d]
  BY <1>0, <1>1
<1>5. call'[c].pc = "tell" /\ call'[c].id = call[c].id /\ call'[c].op = call[c].op
  BY <1>0, <1>4 DEF Row
<1>6. Shape(call[c])' /\ Says(call[c])'
  BY <1>0, <1>1, <1>2, <1>3, <1>5 DEF Shape, Says, Sending, Place
<1>7. Rows'
  BY <1>1, <1>3 DEF SInv, Rows, Place
<1>8. \A d \in Calls \ {c} : Alike(call'[d], call[d])
  BY <1>4 DEF Alike
<1> QED BY <1>1, <1>3, <1>6, <1>7, <1>8, SideStep DEF SInv

\* A row is sent: the page has it as it is. A deleted folder is taken off the page.
LEMMA SideTell ==
    ASSUME SInv, IInv', NEW c \in Calls, Tell(c)
    PROVE  SInv'
<1>0. call[c] \in Row /\ Shape(call[c]) /\ call \in [Calls -> Row]
  BY DEF SInv, IInv, Types, Shapes
<1>1. /\ call[c].pc = "tell" /\ call' = [call EXCEPT ![c] = Idle] /\ UNCHANGED <<parent, home, made, overtaken>>
      /\ page' = onStructuralUpdate(call[c])
  BY DEF Tell, rowVars
<1>2. call'[c] = Idle /\ \A d \in Calls \ {c} : call'[d] = call[d]
  BY <1>0, <1>1
<1>3. Shapes' /\ (~overtaken' => \A d \in Calls : Says(call[d])')
  BY <1>1, <1>2 DEF SInv, Shapes, Current, Shape, Says, Sending, Place, FileAt, Idle
<1>4. \A id : id # call[c].id /\ OnItsWay(id) => OnItsWay(id)'
  BY <1>2 DEF OnItsWay
<1>5. page = [folders |-> page.folders, files |-> page.files]
  BY DEF SInv, Rows
<1>6. CASE call[c].op \in {"newFolder", "moveFolder"}
  <2>1. page' = [folders |-> Put(page.folders, call[c].id, call[c].to), files |-> page.files]
    BY <1>1, <1>5, <1>6 DEF onStructuralUpdate, Upserted
  <2>2. /\ page'.files = page.files /\ call[c].id \in DOMAIN page'.folders /\ page'.folders[call[c].id] = call[c].to
        /\ \A f \in DOMAIN page.folders : f \in DOMAIN page'.folders /\ (f # call[c].id => page'.folders[f] = page.folders[f])
    BY <2>1 DEF Put
  <2>3. call[c].id \in Folders /\ Sending(call[c]) /\ call[c].id \notin DOMAIN home
    BY <1>0, <1>1, <1>6, TreeAssumption DEF Shape, Sending, SInv, IInv, Types
  <2>4. ASSUME ~overtaken' PROVE Listed'
    <3>1. Listed /\ Says(call[c])
      BY <1>1, <2>4 DEF SInv, Current
    <3>2. ASSUME NEW f \in DOMAIN parent PROVE OnItsWay(f)' \/ (f \in DOMAIN page'.folders /\ page'.folders[f] = parent[f])
      <4>1. CASE f = call[c].id
        BY <1>1, <2>2, <2>3, <3>1, <4>1 DEF Says
      <4>2. CASE f # call[c].id
        BY <1>4, <2>2, <3>1, <4>2 DEF Listed
      <4> QED BY <4>1, <4>2
    <3>3. ASSUME NEW x \in DOMAIN home PROVE OnItsWay(x)' \/ (x \in DOMAIN page'.files /\ FileAt(x, page.files[x])')
      <4>1. x # call[c].id
        BY <2>3
      <4> QED BY <1>1, <1>4, <2>2, <3>1, <4>1 DEF Listed, FileAt, Place
    <3> QED BY <1>1, <3>2, <3>3 DEF Listed
  <2>5. Rows'
    BY <1>1, <2>1 DEF SInv, Rows, Place
  <2> QED BY <1>3, <2>4, <2>5 DEF SInv, Current
<1>7. CASE call[c].op \in {"newFile", "moveFile"}
  <2>1. page' = [folders |-> page.folders, files |-> Put(page.files, call[c].id, call[c].to)]
    BY <1>1, <1>5, <1>7 DEF onStructuralUpdate, Upserted
  <2>2. /\ page'.folders = page.folders /\ call[c].id \in DOMAIN page'.files /\ page'.files[call[c].id] = call[c].to
        /\ \A x \in DOMAIN page.files : x \in DOMAIN page'.files /\ (x # call[c].id => page'.files[x] = page.files[x])
    BY <2>1 DEF Put
  <2>3. call[c].id \in Files /\ Sending(call[c]) /\ call[c].id \notin DOMAIN parent
    BY <1>0, <1>1, <1>7, TreeAssumption DEF Shape, Sending, SInv, IInv, Types
  <2>4. ASSUME ~overtaken' PROVE Listed'
    <3>1. Listed /\ Says(call[c])
      BY <1>1, <2>4 DEF SInv, Current
    <3>2. ASSUME NEW f \in DOMAIN parent PROVE OnItsWay(f)' \/ (f \in DOMAIN page'.folders /\ page'.folders[f] = parent[f])
      <4>1. f # call[c].id
        BY <2>3
      <4> QED BY <1>4, <2>2, <3>1, <4>1 DEF Listed
    <3>3. ASSUME NEW x \in DOMAIN home PROVE OnItsWay(x)' \/ (x \in DOMAIN page'.files /\ FileAt(x, page.files[x])')
      <4>1. CASE x = call[c].id
        BY <1>1, <2>2, <2>3, <3>1, <4>1 DEF Says, FileAt, Place
      <4>2. CASE x # call[c].id
        BY <1>1, <1>4, <2>2, <3>1, <4>2 DEF Listed, FileAt, Place
      <4> QED BY <4>1, <4>2
    <3> QED BY <1>1, <3>2, <3>3 DEF Listed
  <2>5. Rows'
    BY <1>1, <2>1 DEF SInv, Rows, Place
  <2> QED BY <1>3, <2>4, <2>5 DEF SInv, Current
<1>8. CASE call[c].op = "delete"
  <2>1. page' = [folders |-> Without(page.folders, {call[c].id}), files |-> page.files]
    BY <1>1, <1>5, <1>8 DEF onStructuralUpdate
  <2>2. /\ page'.files = page.files
        /\ \A f \in DOMAIN page.folders : f # call[c].id => f \in DOMAIN page'.folders /\ page'.folders[f] = page.folders[f]
    BY <2>1 DEF Without
  <2>3. call[c].id \notin DOMAIN parent /\ ~Sending(call[c])
    BY <1>0, <1>1, <1>8 DEF Shape, Sending
  <2>4. \A id : OnItsWay(id) => OnItsWay(id)'
    BY <1>2, <2>3 DEF OnItsWay
  <2>5. ASSUME ~overtaken' PROVE Listed'
    <3>1. Listed
      BY <1>1, <2>5 DEF SInv, Current
    <3>2. ASSUME NEW f \in DOMAIN parent PROVE OnItsWay(f)' \/ (f \in DOMAIN page'.folders /\ page'.folders[f] = parent[f])
      BY <2>2, <2>3, <2>4, <3>1 DEF Listed
    <3>3. ASSUME NEW x \in DOMAIN home PROVE OnItsWay(x)' \/ (x \in DOMAIN page'.files /\ FileAt(x, page.files[x])')
      BY <1>1, <2>2, <2>4, <3>1 DEF Listed, FileAt, Place
    <3> QED BY <1>1, <3>2, <3>3 DEF Listed
  <2>6. Rows'
    BY <1>1, <2>1 DEF SInv, Rows, Place
  <2> QED BY <1>3, <2>5, <2>6 DEF SInv, Current
<1>9. call[c].op # "none"
  BY <1>0, <1>1 DEF Shape, Sending
<1> QED BY <1>0, <1>6, <1>7, <1>8, <1>9 DEF Row

LEMMA SideInit == Init => SInv
<1> SUFFICES ASSUME Init PROVE SInv
  OBVIOUS
<1>1. PICK S \in SUBSET Folders, T \in SUBSET Files :
        /\ parent \in [S -> S \union {Root}]
        /\ home \in [T -> S \union {Root}]
        /\ made = S \union T
  BY DEF Init
<1>2. page = [folders |-> parent, files |-> home] /\ overtaken = FALSE /\ \A c \in Calls : call[c] = Idle
  BY DEF Init
<1>3. Rows
  BY <1>1, <1>2 DEF Rows, Place
<1>4. Shapes /\ \A c \in Calls : Says(call[c])
  BY <1>2 DEF Shapes, Shape, Says, Sending, Place, Idle
<1>5. Listed
  BY <1>1, <1>2 DEF Listed, FileAt, Place
<1> QED BY <1>3, <1>4, <1>5, InitInv DEF SInv, Current

LEMMA SideSame ==
    ASSUME SInv, IInv', UNCHANGED <<parent, home, made, page, overtaken, call>>
    PROVE  SInv'
BY DEF SInv, Rows, Place, Shapes, Shape, Sending, Current, Listed, OnItsWay, FileAt, Says

LEMMA SideNext == SInv /\ [Next]_vars => SInv'
<1> SUFFICES ASSUME SInv, [Next]_vars PROVE SInv'
  OBVIOUS
<1>0. IInv'
  BY StepInv DEF SInv
<1>1. CASE UNCHANGED vars
  BY <1>0, <1>1, SideSame DEF vars
<1>2. ASSUME NEW x \in Files, Use(x) PROVE SInv'
  BY <1>0, <1>2, SideSame DEF Use
<1>3. ASSUME NEW c \in Calls, Step(c) PROVE SInv'
  BY <1>0, <1>3, SideCheck, SideCreate, SideMove, SideDelete, SideTell DEF Step
<1> QED BY <1>0, <1>1, <1>2, <1>3, SideLoad DEF Next

\* However the handlers and their broadcasts interleave, once all of them have
\* ended the lists of SessionPage have every row as it is in the database: a row
\* that is not listed so is one that a handler is still going to send, and no one
\* sends an older state of it unless it was overtaken.
THEOREM SidebarHolds == Spec => []SidebarIsCurrent
<1>1. SInv => SidebarIsCurrent
  <2> SUFFICES ASSUME SInv, \A c \in Calls : call[c] = Idle, ~overtaken
               PROVE  /\ \A f \in DOMAIN parent : f \in DOMAIN page.folders /\ page.folders[f] = parent[f]
                      /\ \A x \in DOMAIN home :
                           /\ x \in DOMAIN page.files
                           /\ page.files[x] = home[x] \/ (home[x] = Root /\ page.files[x] \notin DOMAIN parent)
    BY DEF SidebarIsCurrent
  <2>1. \A id : ~OnItsWay(id)
    BY DEF OnItsWay, Sending, Idle
  <2> QED BY <2>1 DEF SInv, Current, Listed, FileAt
<1> QED BY <1>1, SideInit, SideNext, PTL DEF Spec
-----------------------------------------------------------------------------
(* Files with history *)

LEMMA KeptStep == IInv /\ Kept /\ [Next]_vars => Kept' /\ used \ late \subseteq DOMAIN home'
<1> SUFFICES ASSUME IInv, Kept, [Next]_vars PROVE Kept' /\ used \ late \subseteq DOMAIN home'
  OBVIOUS
<1>0. call \in [Calls -> Row] /\ home \in [DOMAIN home -> Folders \union {Root}]
  BY DEF IInv, Types
<1>1. ASSUME UNCHANGED <<used, late>>, DOMAIN home \subseteq DOMAIN home',
             \A c \in Calls : call'[c].op = "delete" =>
                call'[c].pc # "check" /\ (call'[c].pc = "commit" => call'[c].files \cap used \subseteq late)
      PROVE  Kept' /\ used \ late \subseteq DOMAIN home'
  BY <1>1 DEF Kept
<1>2. ASSUME UNCHANGED <<used, late>>, DOMAIN home \subseteq DOMAIN home', NEW c \in Calls, NEW r,
             call' = [call EXCEPT ![c] = r], r.op # "delete" \/ r.pc \notin {"check", "commit"}
      PROVE  Kept' /\ used \ late \subseteq DOMAIN home'
  <2>1. \A d \in Calls : call'[d] = IF d = c THEN r ELSE call[d]
    BY <1>0, <1>2
  <2> QED BY <1>1, <1>2, <2>1 DEF Kept
<1>3. ASSUME NEW c \in Calls, NEW r, Begin(c, r), r.op # "delete" \/ r.pc \notin {"check", "commit"}
      PROVE  Kept' /\ used \ late \subseteq DOMAIN home'
  BY <1>2, <1>3 DEF Begin, rowVars
<1>4. ASSUME NEW c \in Calls, Refuse(c) PROVE Kept' /\ used \ late \subseteq DOMAIN home'
  BY <1>2, <1>4 DEF Refuse, rowVars, Idle
<1>5. CASE UNCHANGED vars
  BY <1>5 DEF vars, Kept
<1>6. ASSUME NEW x \in Files, Use(x) PROVE Kept' /\ used \ late \subseteq DOMAIN home'
  <2>1. /\ x \in DOMAIN home \ used /\ used' = used \union {x} /\ UNCHANGED <<home, call>>
        /\ late' = IF \E c \in Calls : call[c].pc = "commit" /\ x \in call[c].files THEN late \union {x} ELSE late
    BY <1>6 DEF Use
  <2>2. \A c \in Calls : call'[c].op = "delete" =>
           call'[c].pc # "check" /\ (call'[c].pc = "commit" => call'[c].files \cap used' \subseteq late')
    BY <2>1 DEF Kept
  <2>3. late \subseteq late'
    BY <2>1
  <2> QED BY <2>1, <2>2, <2>3 DEF Kept
<1>7. ASSUME NEW c \in Calls,
             \/ \E to \in Folders \union {Root} : create_folder(c, to) \/ create_file(c, to)
             \/ \E f \in Folders :
                  \/ \E to \in Folders \union {Root, Unset} : update_folder(c, f, to)
                  \/ delete_folder(c, f)
             \/ \E x \in Files, to \in Folders \union {Root, Unset} : update_file(c, x, to)
      PROVE  Kept' /\ used \ late \subseteq DOMAIN home'
  <2>1. PICK r : Begin(c, r) /\ (r.op # "delete" \/ r.pc \notin {"check", "commit"})
    <3>1. \A to : [Idle EXCEPT !.op = "newFolder", !.to = to, !.at = to, !.pc = AfterLoad(to)].op = "newFolder"
      BY DEF Idle
    <3>2. \A to : [Idle EXCEPT !.op = "newFile", !.to = to, !.pc = "commit"].op = "newFile"
      BY DEF Idle
    <3>3. \A f, to, old : [Idle EXCEPT !.op = "moveFolder", !.id = f, !.to = to, !.old = old, !.at = to,
                                       !.pc = AfterLoad(to)].op = "moveFolder"
      BY DEF Idle
    <3>4. \A f, fs, xs : [Idle EXCEPT !.op = "delete", !.id = f, !.folders = fs, !.files = xs, !.pc = "flush"].pc = "flush"
      BY DEF Idle
    <3>5. \A x, to, old : [Idle EXCEPT !.op = "moveFile", !.id = x, !.to = to, !.old = old, !.pc = "commit"].op = "moveFile"
      BY DEF Idle
    <3>6. CASE \E to \in Folders \union {Root} : create_folder(c, to)
      BY <3>1, <3>6 DEF create_folder
    <3>7. CASE \E to \in Folders \union {Root} : create_file(c, to)
      BY <3>2, <3>7 DEF create_file
    <3>8. CASE \E f \in Folders : \E to \in Folders \union {Root, Unset} : update_folder(c, f, to)
      BY <3>3, <3>8 DEF update_folder
    <3>9. CASE \E f \in Folders : delete_folder(c, f)
      BY <3>4, <3>9 DEF delete_folder
    <3>10. CASE \E x \in Files, to \in Folders \union {Root, Unset} : update_file(c, x, to)
      BY <3>5, <3>10 DEF update_file
    <3> QED BY <1>7, <3>6, <3>7, <3>8, <3>9, <3>10
  <2> QED BY <1>3, <2>1
<1>8. ASSUME NEW c \in Calls, CheckParent(c) \/ Refresh(c) \/ RefreshFails(c) \/ CommitFails(c) \/ Tell(c)
      PROVE  Kept' /\ used \ late \subseteq DOMAIN home'
  <2>1. CASE Refuse(c)
    BY <1>4, <2>1
  <2>2. CASE ~Refuse(c)
    <3>1. UNCHANGED <<used, late, home>>
      BY <1>8, <2>2 DEF CheckParent, Refresh, RefreshFails, CommitFails, Tell, rowVars
    <3>2. \/ call' = [call EXCEPT ![c].pc = "commit"] /\ call[c].pc = "check"
          \/ call' = [call EXCEPT ![c].seen = @ \union {call[c].at}, ![c].at = parent[call[c].at]]
          \/ \E to : call' = [call EXCEPT ![c].pc = "tell", ![c].to = to]
          \/ call' = [call EXCEPT ![c] = Idle]
      BY <1>8, <2>2 DEF CheckParent, Refresh, RefreshFails, CommitFails, Tell
    <3>3. \A d \in Calls \ {c} : call'[d] = call[d]
      BY <1>0, <3>2
    <3>4. /\ call'[c].op # "delete" \/ (call[c].op = "delete" /\ call'[c].files = call[c].files)
          /\ \/ call'[c].pc = "commit" /\ call[c].pc = "check"
             \/ call'[c].pc = call[c].pc
             \/ call'[c].pc \in {"tell", "none"}
      <4>1. CASE call' = [call EXCEPT ![c].pc = "commit"] /\ call[c].pc = "check"
        BY <1>0, <4>1 DEF Row
      <4>2. CASE call' = [call EXCEPT ![c].seen = @ \union {call[c].at}, ![c].at = parent[call[c].at]]
        BY <1>0, <4>2 DEF Row
      <4>3. CASE \E to : call' = [call EXCEPT ![c].pc = "tell", ![c].to = to]
        BY <1>0, <4>3 DEF Row
      <4>4. CASE call' = [call EXCEPT ![c] = Idle]
        BY <1>0, <4>4 DEF Idle
      <4> QED BY <3>2, <4>1, <4>2, <4>3, <4>4
    <3> QED BY <1>1, <3>1, <3>3, <3>4 DEF Kept
  <2> QED BY <2>1, <2>2
<1>9. ASSUME NEW c \in Calls, Flush(c) PROVE Kept' /\ used \ late \subseteq DOMAIN home'
  <2>1. CASE Refuse(c)
    BY <1>4, <2>1
  <2>2. CASE ~Keeps(c) /\ call' = [call EXCEPT ![c].pc = "commit"] /\ UNCHANGED <<used, late, home>>
    <3>1. \A d \in Calls : call'[d] = IF d = c THEN [call[c] EXCEPT !.pc = "commit"] ELSE call[d]
      BY <1>0, <2>2
    <3>2. call'[c].files = call[c].files /\ call[c].files \cap used = {}
      BY <1>0, <2>2, <3>1 DEF Row, Keeps
    <3>3. call'[c].pc = "commit"
      BY <1>0, <3>1 DEF Row
    <3>4. \A d \in Calls : call'[d].op = "delete" =>
             call'[d].pc # "check" /\ (call'[d].pc = "commit" => call'[d].files \cap used \subseteq late)
      BY <3>1, <3>2, <3>3 DEF Kept
    <3> QED BY <1>1, <2>2, <3>4
  <2> QED BY <1>9, <2>1, <2>2 DEF Flush, rowVars
<1>10. ASSUME NEW c \in Calls, CommitCreate(c) \/ CommitMoveFolder(c) \/ CommitMoveFile(c)
       PROVE  Kept' /\ used \ late \subseteq DOMAIN home'
  <2>1. UNCHANGED <<used, late>> /\ DOMAIN home \subseteq DOMAIN home'
    BY <1>0, <1>10 DEF CommitCreate, CommitMoveFolder, CommitMoveFile, Committed, Put
  <2>2. \/ \E id : call' = [call EXCEPT ![c].pc = "refresh", ![c].id = id]
        \/ call' = [call EXCEPT ![c].pc = "refresh"]
        \/ Cross(c, "refresh")
    BY <1>10 DEF CommitCreate, CommitMoveFolder, CommitMoveFile
  <2>3. \A d \in Calls : \/ call'[d].pc = "refresh"
                         \/ call'[d].op = call[d].op /\ call'[d].pc = call[d].pc /\ call'[d].files = call[d].files
    <3>1. CASE \E id : call' = [call EXCEPT ![c].pc = "refresh", ![c].id = id]
      BY <1>0, <3>1 DEF Row
    <3>2. CASE call' = [call EXCEPT ![c].pc = "refresh"]
      BY <1>0, <3>2 DEF Row
    <3>3. CASE Cross(c, "refresh")
      <4> SUFFICES ASSUME NEW d \in Calls
                   PROVE  \/ call'[d].pc = "refresh"
                          \/ call'[d].op = call[d].op /\ call'[d].pc = call[d].pc /\ call'[d].files = call[d].files
        OBVIOUS
      <4>1. call[d] \in Row
        BY <1>0
      <4>2. \/ call'[d] = [call[d] EXCEPT !.pc = "refresh"] \/ call'[d] = call[d]
            \/ call'[d] = [call[d] EXCEPT !.crossed = TRUE]
        BY <3>3 DEF Cross
      <4> QED BY <4>1, <4>2 DEF Row
    <3> QED BY <2>2, <3>1, <3>2, <3>3
  <2> QED BY <1>1, <2>1, <2>3 DEF Kept
<1>11. ASSUME NEW c \in Calls, CommitDelete(c) PROVE Kept' /\ used \ late \subseteq DOMAIN home'
  <2>1. /\ UNCHANGED <<used, late>> /\ DOMAIN home' = DOMAIN home \ call[c].files
        /\ call[c].op = "delete" /\ call[c].pc = "commit" /\ call' = [call EXCEPT ![c].pc = "tell"]
    BY <1>11 DEF CommitDelete, Committed
  <2>2. used \ late \subseteq DOMAIN home'
    BY <2>1 DEF Kept
  <2>3. \A d \in Calls : call'[d] = IF d = c THEN [call[c] EXCEPT !.pc = "tell"] ELSE call[d]
    BY <1>0, <2>1
  <2>4. call'[c].pc = "tell"
    BY <1>0, <2>3 DEF Row
  <2> QED BY <2>1, <2>2, <2>3, <2>4 DEF Kept
<1>12. ASSUME NEW c \in Calls, Step(c) PROVE Kept' /\ used \ late \subseteq DOMAIN home'
  BY <1>8, <1>9, <1>10, <1>11, <1>12 DEF Step
<1> QED BY <1>5, <1>6, <1>7, <1>12 DEF Next

\* delete_folder never takes along a file that had a version, a run or a breakpoint
\* when its flush looked, whatever other handlers move into or out of the folder
\* before it commits.
THEOREM UsedFilesHold == Spec => UsedFilesSurvive
<1>1. Init => Kept
  BY DEF Init, Kept, Idle
<1>2. IInv /\ Kept /\ [Next]_vars => [used \ late \subseteq DOMAIN home']_vars
  BY KeptStep
<1> QED BY <1>1, <1>2, InitInv, StepInv, KeptStep, PTL DEF Spec, UsedFilesSurvive
-----------------------------------------------------------------------------
(* What is drawn *)

\* Without a loop every folder is below a top: what is not reached would be closed
\* under "parent".
LEMMA AllReached ==
    ASSUME NEW up, ~HasLoop(up)
    PROVE  Reach({f \in DOMAIN up : up[f] \notin DOMAIN up}, up) = DOMAIN up
<1> DEFINE T == {f \in DOMAIN up : up[f] \notin DOMAIN up}
           R == Reach(T, up)
           S == DOMAIN up \ R
<1>1. Closed(R, T, up)
  <2> SUFFICES ASSUME NEW f \in DOMAIN up, f \in T \/ up[f] \in R \union T,
                      NEW A \in SUBSET DOMAIN up, Closed(A, T, up)
               PROVE  f \in A
    BY DEF Closed, Reach
  <2>1. T \subseteq A
    BY DEF Closed
  <2>2. R \subseteq A
    BY DEF Reach
  <2> QED BY <2>1, <2>2 DEF Closed
<1>2. \A f \in S : up[f] \in S
  BY <1>1 DEF Closed
<1>3. S = {}
  BY <1>2 DEF HasLoop
<1>4. R \subseteq DOMAIN up
  BY DEF Reach
<1> QED BY <1>3, <1>4

\* FileTree draws every file a page lists, from the root down, also when parents of
\* its folder are missing from the list: true of every page, reachable or not.
THEOREM DrawnHolds == Spec => []EveryFileIsDrawn
<1>1. EveryFileIsDrawn
  BY AllReached DEF EveryFileIsDrawn, IsDrawn, Drawn, TopFolders
<1> QED BY <1>1, PTL
=============================================================================
