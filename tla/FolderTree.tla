------------------------------ MODULE FolderTree ------------------------------
(***************************************************************************)
(* The folders and files of one project and the sidebar of a page that     *)
(* shows them: create, update and delete in api/folders.py, create and     *)
(* update in api/files.py, the foreign keys and cascades of the two        *)
(* tables, and the list a page keeps from the broadcasts (SessionPage.tsx, *)
(* FileTree.tsx).                                                          *)
(*                                                                         *)
(* Every await of a handler ends a step; _check_parent reads one row per   *)
(* step, as committed then. Names and paths are left out: a commit may be  *)
(* refused because a path is taken. The callers have the editor's role; a  *)
(* call that is refused or fails changes nothing.                          *)
(***************************************************************************)
EXTENDS Naturals

CONSTANTS Folders, Files,   \* ids of rows, each used once
          Calls,            \* handlers running at the same time
          Root, Unset,      \* parent_id null; parent_id not in the request
          MaxCalls          \* bound: calls

ASSUME TreeAssumption ==
    /\ Folders \cap Files = {}
    /\ {Root, Unset} \cap (Folders \union Files) = {} /\ Root # Unset
    /\ MaxCalls \in Nat

VARIABLES
    parent,     \* rows of folders: folder -> its parent
    home,       \* rows of files: file -> its folder
    made,       \* ids given to rows so far
    used,       \* files with a version, a run or a breakpoint
    late,       \* files that had none when a deletion looked
    call,       \* the handlers
    calls,      \* how many there have been
    page,       \* the lists the page keeps
    raced,      \* a folder was moved after a check that another move overtook
    overtaken   \* a row was written while an older state of it was yet to be sent

vars == <<parent, home, made, used, late, call, calls, page, raced, overtaken>>
rowVars == <<parent, home, made, used, late>>

Idle == [op |-> "none", id |-> Root, to |-> Unset, old |-> Unset, at |-> Root, seen |-> {},
         folders |-> {}, files |-> {}, crossed |-> FALSE, pc |-> "none"]

\* S has the tops T and what is inside of them, where up names parents
Closed(S, T, up) == \A f \in DOMAIN up : f \in T \/ up[f] \in S \union T => f \in S

\* What can be reached from the tops T downwards
Reach(T, up) == {f \in DOMAIN up : \A S \in SUBSET DOMAIN up : Closed(S, T, up) => f \in S}

HasLoop(up) == \E S \in (SUBSET DOMAIN up) \ {{}} : \A f \in S : up[f] \in S

Put(F, x, v) == [y \in DOMAIN F \union {x} |-> IF y = x THEN v ELSE F[y]]

Without(F, S) == [x \in DOMAIN F \ S |-> F[x]]

Begin(c, r) ==
    /\ call[c] = Idle
    /\ calls < MaxCalls
    /\ calls' = calls + 1
    /\ call' = [call EXCEPT ![c] = r]
    /\ UNCHANGED <<rowVars, page, raced, overtaken>>

\* The handler raises: nothing is written and nothing is sent.
Refuse(c) ==
    /\ call' = [call EXCEPT ![c] = Idle]
    /\ UNCHANGED <<rowVars, calls, page, raced, overtaken>>
-----------------------------------------------------------------------------
(* What the handlers read first *)

AfterLoad(to) == IF to \in {Root, Unset} THEN "commit" ELSE "check"

create_folder(c, to) ==
    Begin(c, [Idle EXCEPT !.op = "newFolder", !.to = to, !.at = to, !.pc = AfterLoad(to)])

\* to: Unset is a rename
update_folder(c, f, to) ==
    /\ f \in DOMAIN parent
    /\ Begin(c, [Idle EXCEPT !.op = "moveFolder", !.id = f, !.to = to, !.old = parent[f], !.at = to,
                             !.pc = AfterLoad(to)])

\* db.delete reads the rows the ORM's cascade reaches. For a folder in a loop they
\* cannot be put in an order, and the call fails.
delete_folder(c, f) ==
    /\ f \in DOMAIN parent
    /\ LET doomed == Reach({f}, parent) IN
         /\ parent[f] \notin doomed
         /\ Begin(c, [Idle EXCEPT !.op = "delete", !.id = f, !.folders = doomed,
                                  !.files = {x \in DOMAIN home : home[x] \in doomed}, !.pc = "flush"])

create_file(c, to) ==
    /\ to \in DOMAIN parent \union {Root}
    /\ Begin(c, [Idle EXCEPT !.op = "newFile", !.to = to, !.pc = "commit"])

update_file(c, x, to) ==
    /\ x \in DOMAIN home
    /\ to \in DOMAIN parent \union {Root, Unset}
    /\ Begin(c, [Idle EXCEPT !.op = "moveFile", !.id = x, !.to = to, !.old = home[x], !.pc = "commit"])
-----------------------------------------------------------------------------
(* _check_parent *)

\* Mutant: the walk does not remember where it was
WalkEnds_Unseen(c) == call[c].at = Root

\* The root, or a folder met before: there was a loop already
WalkEnds(c) == call[c].at \in call[c].seen \union {Root}

\* Mutant: only the new parent itself is looked at
Forbidden_Parent(c) == call[c].to = call[c].id

\* "A folder can't be moved into itself"; a new folder has no id yet
Forbidden(c) == call[c].at = call[c].id

CheckParent(c) ==
    /\ call[c].pc = "check"
    /\ \/ /\ WalkEnds(c)
          /\ call' = [call EXCEPT ![c].pc = "commit"]
          /\ UNCHANGED <<rowVars, calls, page, raced, overtaken>>
       \/ ~WalkEnds(c) /\ (Forbidden(c) \/ call[c].at \notin DOMAIN parent) /\ Refuse(c)
       \/ /\ ~WalkEnds(c) /\ ~Forbidden(c) /\ call[c].at \in DOMAIN parent
          /\ call' = [call EXCEPT ![c].seen = @ \union {call[c].at}, ![c].at = parent[call[c].at]]
          /\ UNCHANGED <<rowVars, calls, page, raced, overtaken>>
-----------------------------------------------------------------------------
(* The commits *)

\* The foreign key of parent_folder_id and folder_id
Exists(to) == to \in DOMAIN parent \union {Root}

\* The ORM writes a column only when its value is not the one it loaded.
Writes(c) == call[c].to \notin {Unset, call[c].old}

Committed(c) ==
    /\ overtaken' = (overtaken \/ \E d \in Calls \ {c} : call[d].id = call[c].id /\ call[d].pc \in {"refresh", "tell"})
    /\ UNCHANGED <<used, late, calls, page>>

\* The other handlers have read a tree that is not this one any more.
Cross(c, pc) == call' = [d \in Calls |->
    IF d = c THEN [call[c] EXCEPT !.pc = pc] ELSE IF call[d] = Idle THEN Idle ELSE [call[d] EXCEPT !.crossed = TRUE]]

CommitCreate(c) ==
    /\ call[c].pc = "commit"
    /\ Exists(call[c].to)
    /\ \/ /\ call[c].op = "newFolder"
          /\ \E f \in Folders \ made :
               /\ parent' = Put(parent, f, call[c].to)
               /\ made' = made \union {f}
               /\ call' = [call EXCEPT ![c].pc = "refresh", ![c].id = f]
          /\ UNCHANGED home
       \/ /\ call[c].op = "newFile"
          /\ \E x \in Files \ made :
               /\ home' = Put(home, x, call[c].to)
               /\ made' = made \union {x}
               /\ call' = [call EXCEPT ![c].pc = "refresh", ![c].id = x]
          /\ UNCHANGED parent
    /\ Committed(c)
    /\ UNCHANGED raced

CommitMoveFolder(c) ==
    /\ call[c].pc = "commit" /\ call[c].op = "moveFolder"
    /\ IF Writes(c)
       THEN /\ call[c].id \in DOMAIN parent /\ Exists(call[c].to)
            /\ parent' = [parent EXCEPT ![call[c].id] = call[c].to]
            /\ raced' = (raced \/ call[c].crossed)
            /\ Cross(c, "refresh")
       ELSE UNCHANGED <<parent, raced>> /\ call' = [call EXCEPT ![c].pc = "refresh"]
    /\ Committed(c)
    /\ UNCHANGED <<home, made>>

CommitMoveFile(c) ==
    /\ call[c].pc = "commit" /\ call[c].op = "moveFile"
    /\ IF Writes(c)
       THEN /\ call[c].id \in DOMAIN home /\ Exists(call[c].to)
            /\ home' = [home EXCEPT ![call[c].id] = call[c].to]
       ELSE UNCHANGED home
    /\ call' = [call EXCEPT ![c].pc = "refresh"]
    /\ Committed(c)
    /\ UNCHANGED <<parent, made, raced>>

\* Mutant: rows that refer to the files go with them
Keeps_Nothing(c) == FALSE

\* The ORM sets file_id of a file's versions, runs and breakpoints to NULL, which
\* their columns do not allow: the transaction fails.
Keeps(c) == call[c].files \cap used # {}

\* The flush reads the rows that refer to the files.
Flush(c) ==
    /\ call[c].pc = "flush" /\ call[c].op = "delete"
    /\ \/ Keeps(c) /\ Refuse(c)
       \/ /\ ~Keeps(c)
          /\ call' = [call EXCEPT ![c].pc = "commit"]
          /\ UNCHANGED <<rowVars, calls, page, raced, overtaken>>

\* ON DELETE SET NULL
OrphanHome(x, gone) == IF home[x] \in gone THEN Root ELSE home[x]

\* The rows the ORM had read, wherever they are by now, and by ON DELETE CASCADE
\* the folders that have come into them
CommitDelete(c) ==
    /\ call[c].pc = "commit" /\ call[c].op = "delete"
    /\ LET gone == Reach(call[c].folders, parent) IN
         /\ parent' = Without(parent, gone)
         /\ home' = [x \in DOMAIN home \ call[c].files |-> OrphanHome(x, gone)]
    /\ call' = [call EXCEPT ![c].pc = "tell"]
    /\ Committed(c)
    /\ UNCHANGED <<made, raced>>

\* A path that is taken, a folder that is gone, a row that is gone
CommitFails(c) == call[c].pc = "commit" /\ Refuse(c)
-----------------------------------------------------------------------------
(* The broadcasts, and the lists of the page *)

\* db.refresh: the row as it is now
Refresh(c) ==
    /\ call[c].pc = "refresh"
    /\ \E rows \in {parent, home} :
         /\ call[c].id \in DOMAIN rows
         /\ call' = [call EXCEPT ![c].pc = "tell", ![c].to = rows[call[c].id]]
         /\ UNCHANGED <<rowVars, calls, page, raced, overtaken>>

RefreshFails(c) ==
    /\ call[c].pc = "refresh"
    /\ call[c].id \notin DOMAIN parent \union DOMAIN home
    /\ Refuse(c)

\* Mutant: a row that is listed stays as it is
Upserted_Old(list, x, to) == IF x \in DOMAIN list THEN list ELSE Put(list, x, to)

\* The row takes the place of the one listed, or is added.
Upserted(list, x, to) == Put(list, x, to)

onStructuralUpdate(r) ==
    CASE r.op \in {"newFolder", "moveFolder"} -> [page EXCEPT !.folders = Upserted(@, r.id, r.to)]
      [] r.op \in {"newFile", "moveFile"}     -> [page EXCEPT !.files = Upserted(@, r.id, r.to)]
      [] r.op = "delete"                      -> [page EXCEPT !.folders = Without(@, {r.id})]

Tell(c) ==
    /\ call[c].pc = "tell"
    /\ page' = onStructuralUpdate(call[c])
    /\ call' = [call EXCEPT ![c] = Idle]
    /\ UNCHANGED <<rowVars, calls, raced, overtaken>>

\* Mutant: a folder whose parent is not listed is not looked for
TopFolders_Root == {f \in DOMAIN page.folders : page.folders[f] = Root}

\* At the root also the folders whose parent is not in the list
TopFolders == {f \in DOMAIN page.folders : page.folders[f] \notin DOMAIN page.folders}

\* TreeItem, from the root down
Drawn == Reach(TopFolders, page.folders)

\* A file is drawn in its folder, or at the root when its folder is not listed.
IsDrawn(x) == page.files[x] \in Drawn \/ page.files[x] \notin DOMAIN page.folders
-----------------------------------------------------------------------------
\* The file gets its first version, run or breakpoint.
Use(x) ==
    /\ x \in DOMAIN home \ used
    /\ used' = used \union {x}
    /\ late' = IF \E c \in Calls : call[c].pc = "commit" /\ x \in call[c].files THEN late \union {x} ELSE late
    /\ UNCHANGED <<parent, home, made, call, calls, page, raced, overtaken>>

\* Any tree the calls can have built one after the other, with a page that knows it
Init ==
    /\ \E S \in SUBSET Folders, T \in SUBSET Files :
         /\ parent \in {p \in [S -> S \union {Root}] : ~HasLoop(p)}
         /\ home \in [T -> S \union {Root}]
         /\ made = S \union T
    /\ used = {} /\ late = {}
    /\ call = [c \in Calls |-> Idle] /\ calls = 0
    /\ page = [folders |-> parent, files |-> home]
    /\ raced = FALSE /\ overtaken = FALSE

Step(c) ==
    \/ CheckParent(c) \/ Flush(c)
    \/ CommitCreate(c) \/ CommitMoveFolder(c) \/ CommitMoveFile(c) \/ CommitDelete(c) \/ CommitFails(c)
    \/ Refresh(c) \/ RefreshFails(c) \/ Tell(c)

Next ==
    \/ \E c \in Calls :
         \/ \E to \in Folders \union {Root} : create_folder(c, to) \/ create_file(c, to)
         \/ \E f \in Folders :
              \/ \E to \in Folders \union {Root, Unset} : update_folder(c, f, to)
              \/ delete_folder(c, f)
         \/ \E x \in Files, to \in Folders \union {Root, Unset} : update_file(c, x, to)
         \/ Step(c)
    \/ \E x \in Files : Use(x)

Spec == Init /\ [][Next]_vars

\* A handler goes on.
FairSpec == Spec /\ \A c \in Calls : WF_vars(Step(c))
-----------------------------------------------------------------------------
\* Types; every row names a folder that exists, which is what the foreign keys and
\* their ON DELETE clauses are for.
TypeOK ==
    /\ made \subseteq Folders \union Files
    /\ DOMAIN parent \subseteq Folders \cap made /\ DOMAIN home \subseteq Files \cap made
    /\ \A f \in DOMAIN parent : parent[f] \in DOMAIN parent \union {Root}
    /\ \A x \in DOMAIN home : home[x] \in DOMAIN parent \union {Root}
    /\ late \subseteq used /\ used \subseteq Files
    /\ \A c \in Calls : call[c].pc \in {"none", "check", "flush", "commit", "refresh", "tell"} /\ call[c].seen \subseteq Folders
    /\ calls \in 0..MaxCalls

\* _check_parent keeps the folders a tree through any number of moves, creates and
\* deletes, as long as no move commits between another one's check and commit.
LoopNeedsRace == ~raced => ~HasLoop(parent)

\* The docstring of _check_parent: a parent that "would make a loop" is refused.
NoLoop == ~HasLoop(parent)

\* A file with history is not lost with its folder, whatever is moved in or out of
\* the folder while the deletion is under way; only a file that gets its first
\* version, run or breakpoint between the deletion's flush and its end may be.
UsedFilesSurvive == [][used \ late \subseteq DOMAIN home']_vars

\* "Files inside are kept and move to the project root." (docs/api.md)
FilesAreKept == [][DOMAIN home \subseteq DOMAIN home']_vars

\* Every file the page lists can be found in its sidebar, also inside folders whose
\* parents were deleted without a word to the page, unless folders form a loop.
EveryFileIsDrawn == ~HasLoop(page.folders) => \A x \in DOMAIN page.files : IsDrawn(x)

\* Once every call has ended the page has the rows as they are, except that it may
\* still have a file in a folder that was deleted.
SidebarIsCurrent ==
    (\A c \in Calls : call[c] = Idle) /\ ~overtaken =>
        /\ \A f \in DOMAIN parent : f \in DOMAIN page.folders /\ page.folders[f] = parent[f]
        /\ \A x \in DOMAIN home :
             /\ x \in DOMAIN page.files
             /\ page.files[x] = home[x] \/ (home[x] = Root /\ page.files[x] \notin DOMAIN parent)

\* Every call ends, also when the folders it walks through form a loop that two
\* moves made before it, or move away under it.
CallsEnd == \A c \in Calls : call[c] # Idle ~> call[c] = Idle
=============================================================================
