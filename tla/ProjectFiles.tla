---------------------------- MODULE ProjectFiles ----------------------------
(***************************************************************************)
(* The versioned files of one AI project and its collaborators:             *)
(* src/intelligence/intelligence.service.ts.                                *)
(*                                                                          *)
(* Every operation first checks the caller's access, then reads what it     *)
(* needs, and only then opens a transaction that writes.  The reads are     *)
(* outside the transaction, so what they found may be stale when it runs;   *)
(* what protects the tables then is the database: the unique index on       *)
(* (fileId, version), the primary key of the collaborators and the foreign  *)
(* keys, each of which aborts the transaction and ends the request.         *)
(***************************************************************************)
EXTENDS Naturals, Sequences

CONSTANTS
    Owner,       \* AIProject.ownerId
    Members,     \* other users, who may be collaborators
    Files,       \* identities of AIProjectFile rows (bounds them)
    Paths,
    Contents,
    Empty,       \* the content '' of a deleted file
    Requests,
    MaxVersion,  \* bound: no edit of a file is started at this version
    None

VARIABLES
    exists,    \* the AIProject row
    role,      \* role[u]: role of collaborator u, or None
    file,      \* file[f]: row of AIProjectFile, or None
    versions,  \* rows of AIProjectFileVersion
    req        \* req[r]: step and locals of request r

vars == <<exists, role, file, versions, req>>

Users == Members \cup {Owner}
Roles == {"editor", "viewer"}

FileRow == [path : Paths, current : Nat, isDeleted : BOOLEAN]
VersionRow == [file : Files, number : Nat, content : Contents, isDeleted : BOOLEAN]

Steps == {"idle", "create.paths", "create.commit", "edit.file", "edit.source",
          "edit.latest", "edit.commit", "project.delete", "collaborator.write",
          "collaborator.delete"}

Request == [step : Steps, paths : SUBSET Paths, file : Files \cup {None},
            content : Contents \cup {None}, isDeleted : BOOLEAN,
            source : Nat, next : Nat, member : Members \cup {None},
            role : Roles \cup {None}, found : BOOLEAN]

ASSUME ProjectAssumption ==
    /\ Owner \notin Members
    /\ Empty \in Contents
    /\ MaxVersion \in Nat
    /\ None \notin Roles /\ None \notin FileRow

IdleRequest == [step |-> "idle", paths |-> {}, file |-> None, content |-> None,
                isDeleted |-> FALSE, source |-> 0, next |-> 0, member |-> None,
                role |-> None, found |-> FALSE]

\* createProject has run: the project exists and has no file.
Init ==
    /\ exists = TRUE
    /\ role = [u \in Members |-> None]
    /\ file = [f \in Files |-> None]
    /\ versions = {}
    /\ req = [r \in Requests |-> IdleRequest]

-----------------------------------------------------------------------------
CanEdit(u) == exists /\ (u = Owner \/ (u \in Members /\ role[u] = "editor"))

Numbers(f) == {v.number : v \in {w \in versions : w.file = f}}

\* orderBy version desc, take 1, plus one; 1 for a file without versions.
NextNumber(f) ==
    IF Numbers(f) = {} THEN 1
    ELSE 1 + CHOOSE n \in Numbers(f) : \A m \in Numbers(f) : m <= n

At(r, step) == req[r].step = step

Start(r, q) == At(r, "idle") /\ req' = [req EXCEPT ![r] = q]

Finish(r) == req' = [req EXCEPT ![r] = IdleRequest]

Goto(r, step) == req' = [req EXCEPT ![r].step = step]

-----------------------------------------------------------------------------
(* createProjectFile and initializeProjectFiles *)

CreateProjectFile(r, u, p, c) ==
    /\ CanEdit(u)
    /\ Start(r, [IdleRequest EXCEPT !.step = "create.paths", !.paths = {p}, !.content = c])
    /\ UNCHANGED <<exists, role, file, versions>>

\* Several files in one request; duplicate paths in the input are rejected.
\* One content stands for those of all its files.
InitializeProjectFiles(r, u, P, c) ==
    /\ CanEdit(u)
    /\ Start(r, [IdleRequest EXCEPT !.step = "create.paths", !.paths = P, !.content = c])
    /\ UNCHANGED <<exists, role, file, versions>>

\* Any row with one of the paths rejects the request, a deleted one too.
CreateCheckPaths(r) ==
    /\ At(r, "create.paths")
    /\ LET taken == \E f \in Files : file[f] # None /\ file[f].path \in req[r].paths
       IN IF taken THEN Finish(r) ELSE Goto(r, "create.commit")
    /\ UNCHANGED <<exists, role, file, versions>>

\* The transaction: per path a file, its version 1, and the pointer to it.
\* Without the project the foreign key of the file aborts it.
CreateCommit(r) ==
    /\ At(r, "create.commit")
    /\ \/ /\ exists
          /\ \E row \in [req[r].paths -> {f \in Files : file[f] = None}] :
               LET new == {row[p] : p \in req[r].paths}
               IN /\ \A p, q \in req[r].paths : row[p] = row[q] => p = q
                  /\ file' = [f \in Files |->
                        IF f \in new
                        THEN [path |-> CHOOSE p \in req[r].paths : row[p] = f,
                              current |-> 1, isDeleted |-> FALSE]
                        ELSE file[f]]
                  /\ versions' = versions \cup
                        {[file |-> f, number |-> 1, content |-> req[r].content,
                          isDeleted |-> FALSE] : f \in new}
       \/ ~exists /\ UNCHANGED <<file, versions>>
    /\ Finish(r)
    /\ UNCHANGED <<exists, role>>

-----------------------------------------------------------------------------
(* updateProjectFile, deleteProjectFile, revertProjectFile *)

UpdateProjectFile(r, u, f, c) ==
    /\ CanEdit(u)
    /\ Start(r, [IdleRequest EXCEPT !.step = "edit.latest", !.file = f, !.content = c])
    /\ UNCHANGED <<exists, role, file, versions>>

DeleteProjectFile(r, u, f) ==
    /\ CanEdit(u)
    /\ Start(r, [IdleRequest EXCEPT !.step = "edit.latest", !.file = f,
                                    !.content = Empty, !.isDeleted = TRUE])
    /\ UNCHANGED <<exists, role, file, versions>>

RevertProjectFile(r, u, f, n) ==
    /\ CanEdit(u)
    /\ Start(r, [IdleRequest EXCEPT !.step = "edit.file", !.file = f, !.source = n])
    /\ UNCHANGED <<exists, role, file, versions>>

RevertFindFile(r) ==
    /\ At(r, "edit.file")
    /\ IF file[req[r].file] # None THEN Goto(r, "edit.source") ELSE Finish(r)
    /\ UNCHANGED <<exists, role, file, versions>>

\* The version to revert to: its content is copied, its isDeleted is not.
RevertFindSource(r) ==
    /\ At(r, "edit.source")
    /\ \/ \E v \in versions :
            /\ v.file = req[r].file /\ v.number = req[r].source
            /\ req' = [req EXCEPT ![r].step = "edit.latest", ![r].content = v.content]
       \/ req[r].source \notin Numbers(req[r].file) /\ Finish(r)
    /\ UNCHANGED <<exists, role, file, versions>>

\* The latest version is read.  A revert reads versions only; the two others
\* read the file with its latest version, and end if it is missing.
FindLatest(r) ==
    /\ At(r, "edit.latest")
    /\ LET f == req[r].file
       IN \/ /\ file[f] # None \/ req[r].source # 0
             /\ NextNumber(f) <= MaxVersion
             /\ req' = [req EXCEPT ![r].step = "edit.commit", ![r].next = NextNumber(f)]
          \/ file[f] = None /\ req[r].source = 0 /\ Finish(r)
    /\ UNCHANGED <<exists, role, file, versions>>

\* Mutant: no unique index on (fileId, version).
InsertableTwice(f, n) == file[f] # None

\* The unique index and the foreign key let the new version in.
Insertable(f, n) == file[f] # None /\ n \notin Numbers(f)

\* The transaction: the new version, and the pointer to it.
EditCommit(r) ==
    /\ At(r, "edit.commit")
    /\ LET q == req[r]
           v == [file |-> q.file, number |-> q.next, content |-> q.content,
                 isDeleted |-> q.isDeleted]
       IN \/ /\ Insertable(q.file, q.next)
             /\ versions' = versions \cup {v}
             /\ file' = [file EXCEPT ![q.file].current = q.next,
                                     ![q.file].isDeleted = @ \/ q.isDeleted]
          \/ ~Insertable(q.file, q.next) /\ UNCHANGED <<file, versions>>
    /\ Finish(r)
    /\ UNCHANGED <<exists, role>>

-----------------------------------------------------------------------------
(* deleteProject *)

DeleteProject(r) ==
    /\ exists
    /\ Start(r, [IdleRequest EXCEPT !.step = "project.delete"])
    /\ UNCHANGED <<exists, role, file, versions>>

\* The transaction deletes versions, files, collaborators and the project; a
\* second one finds no project to delete and aborts.
DeleteProjectCommit(r) ==
    /\ At(r, "project.delete")
    /\ \/ /\ exists
          /\ exists' = FALSE
          /\ versions' = {}
          /\ file' = [f \in Files |-> None]
          /\ role' = [u \in Members |-> None]
       \/ ~exists /\ UNCHANGED <<exists, role, file, versions>>
    /\ Finish(r)

-----------------------------------------------------------------------------
(* addProjectCollaborator and removeProjectCollaborator, called by the owner *)

AddProjectCollaborator(r, u, new) ==
    /\ exists
    /\ Start(r, [IdleRequest EXCEPT !.step = "collaborator.write", !.member = u,
                                    !.role = new, !.found = role[u] # None])
    /\ UNCHANGED <<exists, role, file, versions>>

\* Mutant: an upsert that no foreign key stops.
UpsertCollaborator(r) ==
    /\ At(r, "collaborator.write")
    /\ role' = [role EXCEPT ![req[r].member] = req[r].role]
    /\ Finish(r)
    /\ UNCHANGED <<exists, file, versions>>

\* An update of the row that was found, or a create where none was found; the
\* one fails if the row is gone, the other if it or the project's absence is met.
WriteCollaborator(r) ==
    /\ At(r, "collaborator.write")
    /\ LET u == req[r].member
           fits == exists /\ req[r].found = (role[u] # None)
       IN role' = IF fits THEN [role EXCEPT ![u] = req[r].role] ELSE role
    /\ Finish(r)
    /\ UNCHANGED <<exists, file, versions>>

RemoveProjectCollaborator(r, u) ==
    /\ exists
    /\ role[u] # None
    /\ Start(r, [IdleRequest EXCEPT !.step = "collaborator.delete", !.member = u])
    /\ UNCHANGED <<exists, role, file, versions>>

\* Mutant: the row is kept and marked with a role of its own.
MarkCollaborator(r) ==
    /\ At(r, "collaborator.delete")
    /\ role' = [role EXCEPT ![req[r].member] = "removed"]
    /\ Finish(r)
    /\ UNCHANGED <<exists, file, versions>>

DeleteCollaborator(r) ==
    /\ At(r, "collaborator.delete")
    /\ role' = [role EXCEPT ![req[r].member] = None]
    /\ Finish(r)
    /\ UNCHANGED <<exists, file, versions>>

-----------------------------------------------------------------------------
\* A query fails (the database reports an error or a conflict between two
\* transactions): the handler throws and its transaction is rolled back.
Abort(r) ==
    /\ ~At(r, "idle")
    /\ Finish(r)
    /\ UNCHANGED <<exists, role, file, versions>>

CreateNext(r) ==
    \/ \E u \in Users, p \in Paths, c \in Contents : CreateProjectFile(r, u, p, c)
    \/ \E u \in Users, P \in SUBSET Paths, c \in Contents : InitializeProjectFiles(r, u, P, c)
    \/ CreateCheckPaths(r)
    \/ CreateCommit(r)

EditNext(r) ==
    \/ \E u \in Users, f \in Files, c \in Contents : UpdateProjectFile(r, u, f, c)
    \/ \E u \in Users, f \in Files : DeleteProjectFile(r, u, f)
    \/ \E u \in Users, f \in Files, n \in 1..MaxVersion : RevertProjectFile(r, u, f, n)
    \/ RevertFindFile(r)
    \/ RevertFindSource(r)
    \/ FindLatest(r)
    \/ EditCommit(r)

ProjectNext(r) ==
    \/ DeleteProject(r)
    \/ DeleteProjectCommit(r)
    \/ \E u \in Members, new \in Roles : AddProjectCollaborator(r, u, new)
    \/ \E u \in Members : RemoveProjectCollaborator(r, u)
    \/ WriteCollaborator(r)
    \/ DeleteCollaborator(r)

Next == \E r \in Requests : CreateNext(r) \/ EditNext(r) \/ ProjectNext(r) \/ Abort(r)

Spec == Init /\ [][Next]_vars

-----------------------------------------------------------------------------
(* The types of the tables and of the requests. *)
TypeOK ==
    /\ exists \in BOOLEAN
    /\ role \in [Members -> Roles \cup {None}]
    /\ file \in [Files -> FileRow \cup {None}]
    /\ versions \subseteq VersionRow
    /\ req \in [Requests -> Request]

(* The history of a file has no gap and no fork, and currentVersionId points *)
(* at its end, although every edit computes the next number from a read made *)
(* before its transaction.                                                   *)
HistoryIsLinear ==
    /\ \A f \in Files :
         /\ file[f] # None => Numbers(f) = 1..file[f].current /\ file[f].current > 0
         /\ file[f] = None => Numbers(f) = {}
    /\ \A v, w \in versions : v.file = w.file /\ v.number = w.number => v = w

(* Deleting a project wins: whatever was in flight when its transaction ran  *)
(* leaves no file, version or collaborator behind.                           *)
DeletedProjectStaysEmpty ==
    ~exists => /\ versions = {}
               /\ \A f \in Files : file[f] = None
               /\ \A u \in Members : role[u] = None

\* The history of f that the rows describe, oldest content first.
HistoryOf(f) ==
    IF file[f] = None THEN <<>>
    ELSE [n \in 1..file[f].current |->
            (CHOOSE v \in versions : v.file = f /\ v.number = n).content]

History == INSTANCE FileHistory WITH history <- [f \in Files |-> HistoryOf(f)]

(* The tables implement FileHistory: an edit appends exactly one content to  *)
(* the history of one file and rewrites nothing that was committed before.   *)
ImplementsHistory == History!Spec

-----------------------------------------------------------------------------
(* What the documentation says and the code does not do. *)

(* "Check if a file with the same path already exists": a file with this     *)
(* path "already exists in this project" -- at most one file has a path.     *)
PathsAreUnique ==
    \A f, g \in Files :
        file[f] # None /\ file[g] # None /\ file[f].path = file[g].path => f = g
=============================================================================
