-------------------------- MODULE ProjectFilesProofs --------------------------
(***************************************************************************)
(* Type correctness of ProjectFiles, and that the history of a file is      *)
(* linear and a deleted project stays empty.                                *)
(***************************************************************************)
EXTENDS ProjectFiles, SequenceTheorems, TLAPS

(* What the locals q of a request hold at each of its steps. *)
Shape(q) ==
    /\ q.step \in {"create.paths", "create.commit", "edit.latest", "edit.commit"}
         => q.content \in Contents
    /\ q.step \in {"edit.file", "edit.source", "edit.latest", "edit.commit"} => q.file \in Files
    /\ q.step \in {"collaborator.write", "collaborator.delete"} => q.member \in Members
    /\ q.step = "collaborator.write" => q.role \in Roles

RequestShape == \A r \in Requests : Shape(req[r])

TypeInv == TypeOK /\ RequestShape

TypesOfRequests == req \in [Requests -> Request] /\ RequestShape

TypesOfRows == /\ exists \in BOOLEAN
               /\ role \in [Members -> Roles \cup {None}]
               /\ file \in [Files -> FileRow \cup {None}]
               /\ versions \subseteq VersionRow

LEMMA TypesSplit == TypeInv <=> TypesOfRequests /\ TypesOfRows
BY DEF TypeInv, TypeOK, TypesOfRequests, TypesOfRows

LEMMA IdleTypes == IdleRequest \in Request /\ Shape(IdleRequest)
BY DEF IdleRequest, Request, Steps, Shape

LEMMA InitTypes == Init => TypeInv
BY IdleTypes DEF Init, TypeInv, TypeOK, RequestShape

\* A request's record is replaced by a well-formed one.
LEMMA SetRequest ==
    ASSUME TypesOfRequests, NEW r \in Requests, NEW q \in Request, Shape(q),
           req' = [req EXCEPT ![r] = q]
    PROVE  TypesOfRequests'
BY DEF TypesOfRequests, RequestShape

LEMMA FinishTypes ==
    ASSUME TypesOfRequests, NEW r \in Requests, Finish(r) PROVE TypesOfRequests'
BY SetRequest, IdleTypes DEF Finish

\* An operation starts with a well-formed record.
LEMMA StartTypes ==
    ASSUME TypesOfRequests, NEW r \in Requests, NEW q \in Request, Shape(q), Start(r, q)
    PROVE  TypesOfRequests'
BY SetRequest DEF Start

(* The first conjunct of HistoryIsLinear makes the next number known.        *)
NumbersInv ==
    \A f \in Files :
        /\ file[f] # None => Numbers(f) = 1..file[f].current /\ file[f].current > 0
        /\ file[f] = None => Numbers(f) = {}

LEMMA NextNumberIs ==
    ASSUME TypeInv, NumbersInv, NEW f \in Files
    PROVE  /\ NextNumber(f) \in Nat \ {0}
           /\ file[f] = None => NextNumber(f) = 1
           /\ file[f] # None => NextNumber(f) = file[f].current + 1
<1>1. CASE file[f] = None
  BY <1>1 DEF NumbersInv, NextNumber
<1>2. CASE file[f] # None
  <2>1. file[f].current \in Nat /\ Numbers(f) = 1..file[f].current /\ file[f].current > 0
    BY <1>2 DEF TypeInv, TypeOK, FileRow, NumbersInv
  <2>2. (CHOOSE n \in Numbers(f) : \A m \in Numbers(f) : m <= n) = file[f].current
    BY <2>1
  <2> QED
    BY <1>2, <2>1, <2>2 DEF NextNumber
<1> QED
  BY <1>1, <1>2

LEMMA CreateRequests ==
    ASSUME TypeInv, NEW r \in Requests, CreateNext(r) PROVE TypesOfRequests'
<1>0. TypesOfRequests /\ req[r] \in Request /\ Shape(req[r])
  BY TypesSplit DEF TypesOfRequests, RequestShape
<1>1. ASSUME NEW u \in Users, NEW p \in Paths, NEW c \in Contents, CreateProjectFile(r, u, p, c)
      PROVE  TypesOfRequests'
  <2> DEFINE q == [IdleRequest EXCEPT !.step = "create.paths", !.paths = {p}, !.content = c]
  <2>1. q \in Request /\ Shape(q)
    BY DEF IdleRequest, Request, Steps, Shape
  <2> QED
    BY <1>0, <1>1, <2>1, StartTypes DEF CreateProjectFile
<1>2. ASSUME NEW u \in Users, NEW P \in SUBSET Paths, NEW c \in Contents,
             InitializeProjectFiles(r, u, P, c)
      PROVE  TypesOfRequests'
  <2> DEFINE q == [IdleRequest EXCEPT !.step = "create.paths", !.paths = P, !.content = c]
  <2>1. q \in Request /\ Shape(q)
    BY DEF IdleRequest, Request, Steps, Shape
  <2> QED
    BY <1>0, <1>2, <2>1, StartTypes DEF InitializeProjectFiles
<1>3. CASE CreateCheckPaths(r)
  <2> DEFINE q == [req[r] EXCEPT !.step = "create.commit"]
  <2>1. q \in Request /\ (At(r, "create.paths") => Shape(q))
    BY <1>0 DEF Request, Steps, Shape, At
  <2>2. CASE Goto(r, "create.commit")
    BY <1>0, <1>3, <2>1, <2>2, SetRequest DEF CreateCheckPaths, Goto
  <2> QED
    BY <1>0, <1>3, <2>2, FinishTypes DEF CreateCheckPaths
<1>4. CASE CreateCommit(r)
  BY <1>0, <1>4, FinishTypes DEF CreateCommit
<1> QED
  BY <1>1, <1>2, <1>3, <1>4 DEF CreateNext

LEMMA EditRequests ==
    ASSUME TypeInv, NumbersInv, NEW r \in Requests, EditNext(r) PROVE TypesOfRequests'
<1>0. TypesOfRequests /\ req[r] \in Request /\ Shape(req[r])
  BY TypesSplit DEF TypesOfRequests, RequestShape
<1>1. ASSUME NEW u \in Users, NEW f \in Files, NEW c \in Contents, UpdateProjectFile(r, u, f, c)
      PROVE  TypesOfRequests'
  <2> DEFINE q == [IdleRequest EXCEPT !.step = "edit.latest", !.file = f, !.content = c]
  <2>1. q \in Request /\ Shape(q)
    BY DEF IdleRequest, Request, Steps, Shape
  <2> QED
    BY <1>0, <1>1, <2>1, StartTypes DEF UpdateProjectFile
<1>2. ASSUME NEW u \in Users, NEW f \in Files, DeleteProjectFile(r, u, f)
      PROVE  TypesOfRequests'
  <2> DEFINE q == [IdleRequest EXCEPT !.step = "edit.latest", !.file = f,
                                      !.content = Empty, !.isDeleted = TRUE]
  <2>1. q \in Request /\ Shape(q)
    BY ProjectAssumption DEF IdleRequest, Request, Steps, Shape
  <2> QED
    BY <1>0, <1>2, <2>1, StartTypes DEF DeleteProjectFile
<1>3. ASSUME NEW u \in Users, NEW f \in Files, NEW n \in 1..MaxVersion,
             RevertProjectFile(r, u, f, n)
      PROVE  TypesOfRequests'
  <2> DEFINE q == [IdleRequest EXCEPT !.step = "edit.file", !.file = f, !.source = n]
  <2>0. n \in Nat
    BY ProjectAssumption
  <2>1. q \in Request /\ Shape(q)
    BY <2>0 DEF IdleRequest, Request, Steps, Shape
  <2> QED
    BY <1>0, <1>3, <2>1, StartTypes DEF RevertProjectFile
<1>4. CASE RevertFindFile(r)
  <2> DEFINE q == [req[r] EXCEPT !.step = "edit.source"]
  <2>1. q \in Request /\ (At(r, "edit.file") => Shape(q))
    BY <1>0 DEF Request, Steps, Shape, At
  <2>2. CASE Goto(r, "edit.source")
    BY <1>0, <1>4, <2>1, <2>2, SetRequest DEF RevertFindFile, Goto
  <2> QED
    BY <1>0, <1>4, <2>2, FinishTypes DEF RevertFindFile
<1>5. CASE RevertFindSource(r)
  <2>1. ASSUME NEW v \in versions,
               req' = [req EXCEPT ![r].step = "edit.latest", ![r].content = v.content]
        PROVE  TypesOfRequests'
    <3> DEFINE q == [req[r] EXCEPT !.step = "edit.latest", !.content = v.content]
    <3>1. v.content \in Contents
      BY TypesSplit DEF TypesOfRows, VersionRow
    <3>2. q \in Request /\ Shape(q)
      BY <1>0, <1>5, <3>1 DEF Request, Steps, Shape, At, RevertFindSource
    <3>3. req' = [req EXCEPT ![r] = q]
      BY <1>0, <2>1 DEF TypesOfRequests, Request
    <3> QED
      BY <1>0, <3>2, <3>3, SetRequest
  <2> QED
    BY <1>0, <1>5, <2>1, FinishTypes DEF RevertFindSource
<1>6. CASE FindLatest(r)
  <2>1. ASSUME req' = [req EXCEPT ![r].step = "edit.commit", ![r].next = NextNumber(req[r].file)]
        PROVE  TypesOfRequests'
    <3> DEFINE q == [req[r] EXCEPT !.step = "edit.commit", !.next = NextNumber(req[r].file)]
    <3>1. q \in Request /\ Shape(q)
      BY <1>0, <1>6, NextNumberIs DEF Request, Steps, Shape, At, FindLatest
    <3>2. req' = [req EXCEPT ![r] = q]
      BY <1>0, <2>1 DEF TypesOfRequests, Request
    <3> QED
      BY <1>0, <3>1, <3>2, SetRequest
  <2> QED
    BY <1>0, <1>6, <2>1, FinishTypes DEF FindLatest
<1>7. CASE EditCommit(r)
  BY <1>0, <1>7, FinishTypes DEF EditCommit
<1> QED
  BY <1>1, <1>2, <1>3, <1>4, <1>5, <1>6, <1>7 DEF EditNext

LEMMA ProjectRequests ==
    ASSUME TypeInv, NEW r \in Requests, ProjectNext(r) PROVE TypesOfRequests'
<1>0. TypesOfRequests /\ req[r] \in Request /\ Shape(req[r])
  BY TypesSplit DEF TypesOfRequests, RequestShape
<1>1. CASE DeleteProject(r)
  <2> DEFINE q == [IdleRequest EXCEPT !.step = "project.delete"]
  <2>1. q \in Request /\ Shape(q)
    BY DEF IdleRequest, Request, Steps, Shape
  <2> QED
    BY <1>0, <1>1, <2>1, StartTypes DEF DeleteProject
<1>2. ASSUME NEW u \in Members, NEW new \in Roles, AddProjectCollaborator(r, u, new)
      PROVE  TypesOfRequests'
  <2> DEFINE q == [IdleRequest EXCEPT !.step = "collaborator.write", !.member = u,
                                      !.role = new, !.found = role[u] # None]
  <2>1. q \in Request /\ Shape(q)
    BY DEF IdleRequest, Request, Steps, Shape
  <2> QED
    BY <1>0, <1>2, <2>1, StartTypes DEF AddProjectCollaborator
<1>3. ASSUME NEW u \in Members, RemoveProjectCollaborator(r, u) PROVE TypesOfRequests'
  <2> DEFINE q == [IdleRequest EXCEPT !.step = "collaborator.delete", !.member = u]
  <2>1. q \in Request /\ Shape(q)
    BY DEF IdleRequest, Request, Steps, Shape
  <2> QED
    BY <1>0, <1>3, <2>1, StartTypes DEF RemoveProjectCollaborator
<1>4. CASE DeleteProjectCommit(r) \/ WriteCollaborator(r) \/ DeleteCollaborator(r)
  BY <1>0, <1>4, FinishTypes DEF DeleteProjectCommit, WriteCollaborator, DeleteCollaborator
<1> QED
  BY <1>1, <1>2, <1>3, <1>4 DEF ProjectNext

-----------------------------------------------------------------------------
(* The rows: most steps leave them alone.                                    *)

Quiet == UNCHANGED <<exists, role, file, versions>>

\* What the transaction of CreateCommit writes when it commits.
LEMMA CreateWrites ==
    ASSUME TypeInv, NEW r \in Requests, CreateCommit(r)
    PROVE  \/ Quiet
           \/ /\ exists /\ UNCHANGED <<exists, role>>
              /\ \E new \in SUBSET {f \in Files : file[f] = None}, c \in Contents :
                   /\ \A f \in new : \E p \in Paths :
                        file'[f] = [path |-> p, current |-> 1, isDeleted |-> FALSE]
                   /\ \A f \in Files \ new : file'[f] = file[f]
                   /\ file' = [f \in Files |-> file'[f]]
                   /\ versions' = versions \cup
                        {[file |-> f, number |-> 1, content |-> c, isDeleted |-> FALSE] : f \in new}
<1>0. req[r].paths \subseteq Paths /\ req[r].content \in Contents
  BY DEF TypeInv, TypeOK, RequestShape, Shape, Request, CreateCommit, At
<1>1. CASE ~exists
  BY <1>1 DEF CreateCommit, Quiet
<1>2. CASE exists
  <2>1. PICK row \in [req[r].paths -> {f \in Files : file[f] = None}] :
          LET new == {row[p] : p \in req[r].paths}
          IN /\ file' = [f \in Files |->
                   IF f \in new
                   THEN [path |-> CHOOSE p \in req[r].paths : row[p] = f,
                         current |-> 1, isDeleted |-> FALSE]
                   ELSE file[f]]
             /\ versions' = versions \cup
                   {[file |-> f, number |-> 1, content |-> req[r].content,
                     isDeleted |-> FALSE] : f \in new}
    BY <1>2 DEF CreateCommit
  <2> DEFINE new == {row[p] : p \in req[r].paths}
  <2>2. new \in SUBSET {f \in Files : file[f] = None}
    OBVIOUS
  <2>3. \A f \in new : \E p \in Paths :
          file'[f] = [path |-> p, current |-> 1, isDeleted |-> FALSE]
    <3> SUFFICES ASSUME NEW f \in new PROVE \E p \in Paths :
          file'[f] = [path |-> p, current |-> 1, isDeleted |-> FALSE]
      OBVIOUS
    <3>1. (CHOOSE p \in req[r].paths : row[p] = f) \in Paths
      BY <1>0
    <3> QED
      BY <2>1, <2>2, <3>1
  <2>4. /\ \A f \in Files \ new : file'[f] = file[f]
        /\ file' = [f \in Files |-> file'[f]]
    BY <2>1
  <2> HIDE DEF new
  <2> QED
    BY <1>0, <1>2, <2>1, <2>2, <2>3, <2>4 DEF CreateCommit, new
<1> QED
  BY <1>1, <1>2

\* What the transaction of EditCommit writes when it commits.
LEMMA EditWrites ==
    ASSUME TypeInv, NEW r \in Requests, EditCommit(r)
    PROVE  \/ Quiet
           \/ /\ UNCHANGED <<exists, role>>
              /\ req[r].file \in Files /\ Insertable(req[r].file, req[r].next)
              /\ \E c \in Contents, d, e \in BOOLEAN :
                   /\ file' = [file EXCEPT ![req[r].file] =
                        [path |-> file[req[r].file].path, current |-> req[r].next,
                         isDeleted |-> e]]
                   /\ versions' = versions \cup
                        {[file |-> req[r].file, number |-> req[r].next, content |-> c,
                          isDeleted |-> d]}
<1>0. /\ req[r].file \in Files /\ req[r].content \in Contents /\ req[r].isDeleted \in BOOLEAN
      /\ req[r].next \in Nat
  BY DEF TypeInv, TypeOK, RequestShape, Shape, Request, EditCommit, At
<1>1. CASE ~Insertable(req[r].file, req[r].next)
  BY <1>1 DEF EditCommit, Quiet
<1>2. CASE Insertable(req[r].file, req[r].next)
  <2> DEFINE f == req[r].file
  <2>1. file[f] \in FileRow
    BY <1>0, <1>2 DEF TypeInv, TypeOK, Insertable
  <2>2. (file[f].isDeleted \/ req[r].isDeleted) \in BOOLEAN
    OBVIOUS
  <2>3. file' = [file EXCEPT ![f] = [path |-> file[f].path, current |-> req[r].next,
                                     isDeleted |-> file[f].isDeleted \/ req[r].isDeleted]]
    BY <1>0, <1>2, <2>1 DEF EditCommit, FileRow, TypeInv, TypeOK
  <2>4. versions' = versions \cup
          {[file |-> f, number |-> req[r].next, content |-> req[r].content,
            isDeleted |-> req[r].isDeleted]}
    BY <1>2 DEF EditCommit
  <2>5. UNCHANGED <<exists, role>>
    BY DEF EditCommit
  <2> QED
    BY <1>0, <1>2, <2>2, <2>3, <2>4, <2>5
<1> QED
  BY <1>1, <1>2

LEMMA CreateRows ==
    ASSUME TypeInv, NEW r \in Requests, CreateNext(r) PROVE TypesOfRows'
<1>0. TypesOfRows
  BY TypesSplit
<1>1. CASE Quiet
  BY <1>0, <1>1 DEF Quiet, TypesOfRows
<1>2. CASE CreateCommit(r) /\ ~Quiet
  <2>1. PICK new \in SUBSET {f \in Files : file[f] = None}, c \in Contents :
          /\ \A f \in new : \E p \in Paths :
               file'[f] = [path |-> p, current |-> 1, isDeleted |-> FALSE]
          /\ \A f \in Files \ new : file'[f] = file[f]
          /\ file' = [f \in Files |-> file'[f]]
          /\ versions' = versions \cup
               {[file |-> f, number |-> 1, content |-> c, isDeleted |-> FALSE] : f \in new}
    BY <1>2, CreateWrites
  <2>2. file' \in [Files -> FileRow \cup {None}]
    <3>1. ASSUME NEW f \in Files PROVE file'[f] \in FileRow \cup {None}
      <4>1. CASE f \in new
        <5>1. PICK p \in Paths : file'[f] = [path |-> p, current |-> 1, isDeleted |-> FALSE]
          BY <2>1, <4>1
        <5> QED
          BY <5>1 DEF FileRow
      <4>2. CASE f \notin new
        BY <1>0, <2>1, <4>2 DEF TypesOfRows
      <4> QED
        BY <4>1, <4>2
    <3> QED
      BY <2>1, <3>1
  <2>3. versions' \subseteq VersionRow
    <3>1. \A f \in new : [file |-> f, number |-> 1, content |-> c, isDeleted |-> FALSE]
                           \in VersionRow
      BY DEF VersionRow
    <3>2. versions \subseteq VersionRow
      BY <1>0 DEF TypesOfRows
    <3> QED
      BY <2>1, <3>1, <3>2
  <2> QED
    BY <1>0, <1>2, <2>2, <2>3 DEF CreateCommit, TypesOfRows
<1>3. CreateCommit(r) \/ Quiet
  BY DEF CreateNext, CreateProjectFile, InitializeProjectFiles, CreateCheckPaths, Quiet
<1> QED
  BY <1>1, <1>2, <1>3

LEMMA EditRows ==
    ASSUME TypeInv, NEW r \in Requests, EditNext(r) PROVE TypesOfRows'
<1>0. TypesOfRows
  BY TypesSplit
<1>1. CASE Quiet
  BY <1>0, <1>1 DEF Quiet, TypesOfRows
<1>2. CASE EditCommit(r) /\ ~Quiet
  <2>1. PICK c \in Contents, d, e \in BOOLEAN :
          /\ file' = [file EXCEPT ![req[r].file] =
               [path |-> file[req[r].file].path, current |-> req[r].next, isDeleted |-> e]]
          /\ versions' = versions \cup
               {[file |-> req[r].file, number |-> req[r].next, content |-> c, isDeleted |-> d]}
    BY <1>2, EditWrites
  <2>2. /\ req[r].file \in Files /\ file[req[r].file] \in FileRow /\ req[r].next \in Nat
        /\ UNCHANGED <<exists, role>>
    BY <1>2, EditWrites DEF Insertable, TypeInv, TypeOK, Request
  <2> QED
    BY <1>0, <2>1, <2>2 DEF TypesOfRows, FileRow, VersionRow
<1>3. EditCommit(r) \/ Quiet
  BY DEF EditNext, UpdateProjectFile, DeleteProjectFile, RevertProjectFile, RevertFindFile,
         RevertFindSource, FindLatest, Quiet
<1> QED
  BY <1>1, <1>2, <1>3

LEMMA ProjectRows ==
    ASSUME TypeInv, NEW r \in Requests, ProjectNext(r) PROVE TypesOfRows'
<1>0. TypesOfRows
  BY TypesSplit
<1>1. CASE DeleteProjectCommit(r)
  BY <1>0, <1>1 DEF DeleteProjectCommit, TypesOfRows
<1>2. CASE WriteCollaborator(r)
  <2>1. req[r].role \in Roles
    BY <1>2 DEF TypeInv, RequestShape, Shape, WriteCollaborator, At
  <2> QED
    BY <1>0, <1>2, <2>1 DEF WriteCollaborator, TypesOfRows
<1>3. CASE DeleteCollaborator(r)
  BY <1>0, <1>3 DEF DeleteCollaborator, TypesOfRows
<1>4. CASE Quiet
  BY <1>0, <1>4 DEF Quiet, TypesOfRows
<1> QED
  BY <1>1, <1>2, <1>3, <1>4 DEF ProjectNext, DeleteProject, AddProjectCollaborator,
                                RemoveProjectCollaborator, Quiet

LEMMA NextTypes == ASSUME TypeInv, NumbersInv, [Next]_vars PROVE TypeInv'
<1>1. ASSUME NEW r \in Requests, CreateNext(r) PROVE TypeInv'
  BY <1>1, CreateRequests, CreateRows, TypesSplit, PTL
<1>2. ASSUME NEW r \in Requests, EditNext(r) PROVE TypeInv'
  BY <1>2, EditRequests, EditRows, TypesSplit, PTL
<1>3. ASSUME NEW r \in Requests, ProjectNext(r) PROVE TypeInv'
  BY <1>3, ProjectRequests, ProjectRows, TypesSplit, PTL
<1>4. ASSUME NEW r \in Requests, Abort(r) PROVE TypeInv'
  <2>1. TypesOfRequests'
    BY <1>4, FinishTypes, TypesSplit DEF Abort
  <2>2. TypesOfRows'
    BY <1>4, TypesSplit DEF Abort, TypesOfRows
  <2> QED
    BY <2>1, <2>2, TypesSplit, PTL
<1>5. CASE UNCHANGED vars
  BY <1>5 DEF vars, TypeInv, TypeOK, RequestShape
<1> QED
  BY <1>1, <1>2, <1>3, <1>4, <1>5 DEF Next

-----------------------------------------------------------------------------
(* A request that is about to append knows a number that is not beyond the   *)
(* end of the history, of a file that only deleting the project can remove.  *)

Known(q, x, table) ==
    /\ (q.step \in {"edit.source", "edit.commit"} \/ (q.step = "edit.latest" /\ q.source # 0))
         => table[q.file] # None \/ ~x
    /\ q.step = "edit.commit"
         => /\ q.next > 0
            /\ table[q.file] # None => q.next <= table[q.file].current + 1

KnownInv == \A r \in Requests : Known(req[r], exists, file)

HistoryInv == HistoryIsLinear /\ DeletedProjectStaysEmpty /\ KnownInv

LEMMA HistoryNumbers == HistoryInv => NumbersInv
BY DEF HistoryInv, HistoryIsLinear, NumbersInv

LEMMA InitHistory == Init => HistoryInv
BY DEF Init, HistoryInv, HistoryIsLinear, DeletedProjectStaysEmpty, KnownInv, Known, Numbers,
       IdleRequest

\* Steps that leave the rows alone keep what is said of them.
LEMMA QuietHistory ==
    ASSUME HistoryInv, Quiet PROVE HistoryIsLinear' /\ DeletedProjectStaysEmpty'
BY DEF HistoryInv, HistoryIsLinear, DeletedProjectStaysEmpty, Numbers, Quiet

\* What a request knows stays true while histories only grow.
LEMMA KnownKept ==
    ASSUME TypeInv, TypeInv', KnownInv, NEW r \in Requests, exists' => exists,
           \A f \in Files : /\ file[f] # None /\ exists' => file'[f] # None
                            /\ file[f] # None /\ file'[f] # None
                                 => file'[f].current >= file[f].current
                            /\ file[f] = None /\ file'[f] # None => exists
    PROVE  Known(req[r], exists', file')
<1>1. Known(req[r], exists, file) /\ Shape(req[r]) /\ req[r] \in Request
  BY DEF KnownInv, TypeInv, RequestShape, TypeOK
<1>2. CASE req[r].step \notin {"edit.source", "edit.latest", "edit.commit"}
  BY <1>2 DEF Known
<1>3. CASE req[r].step \in {"edit.source", "edit.latest", "edit.commit"}
  <2> DEFINE f == req[r].file
  <2>1. f \in Files /\ req[r].next \in Nat
    BY <1>1, <1>3 DEF Shape, Request
  <2>2. /\ file[f] # None => file[f].current \in Nat
        /\ file'[f] # None => file'[f].current \in Nat
    BY <2>1 DEF TypeInv, TypeOK, FileRow
  <2> HIDE DEF f
  <2>3. Known(req[r], exists, file) => Known(req[r], exists', file')
    BY <2>1, <2>2 DEF Known, f
  <2> QED
    BY <1>1, <2>3
<1> QED
  BY <1>2, <1>3

\* Then the request r that took the step is all that is left to look at.
LEMMA KnownStep ==
    ASSUME TypeInv, TypeInv', KnownInv, NEW r \in Requests, exists' => exists,
           \A f \in Files : /\ file[f] # None /\ exists' => file'[f] # None
                            /\ file[f] # None /\ file'[f] # None
                                 => file'[f].current >= file[f].current
                            /\ file[f] = None /\ file'[f] # None => exists,
           \A s \in Requests \ {r} : req'[s] = req[s],
           Known(req'[r], exists', file')
    PROVE  KnownInv'
<1>1. ASSUME NEW s \in Requests \ {r} PROVE Known(req'[s], exists', file')
  BY KnownKept
<1> QED
  BY <1>1 DEF KnownInv

\* A quiet step of r that leaves r knowing what it needs.
LEMMA QuietStep ==
    ASSUME TypeInv, TypeInv', HistoryInv, Quiet, NEW r \in Requests,
           \A s \in Requests \ {r} : req'[s] = req[s], Known(req'[r], exists, file)
    PROVE  HistoryInv'
<1>1. \A f \in Files : file[f] # None => file[f].current \in Nat
  BY DEF TypeInv, TypeOK, FileRow
<1>2. KnownInv'
  BY <1>1, KnownStep DEF Quiet, HistoryInv
<1> QED
  BY <1>2, QuietHistory DEF HistoryInv

LEMMA IdleKnown ==
    ASSUME TypeInv, NEW r \in Requests, Finish(r), NEW x, NEW table
    PROVE  Known(req'[r], x, table) /\ \A s \in Requests \ {r} : req'[s] = req[s]
BY DEF TypeInv, TypeOK, Finish, IdleRequest, Known

LEMMA QuietFinish ==
    ASSUME TypeInv, TypeInv', HistoryInv, Quiet, NEW r \in Requests, Finish(r)
    PROVE  HistoryInv'
BY QuietStep, IdleKnown

LEMMA QuietStart ==
    ASSUME TypeInv, TypeInv', HistoryInv, Quiet, NEW r \in Requests, NEW q, Start(r, q),
           Known(q, exists, file)
    PROVE  HistoryInv'
<1>1. req'[r] = q /\ \A s \in Requests \ {r} : req'[s] = req[s]
  BY DEF TypeInv, TypeOK, Start
<1> QED
  BY <1>1, QuietStep

LEMMA CreateHistory ==
    ASSUME TypeInv, TypeInv', HistoryInv, NEW r \in Requests, CreateNext(r) PROVE HistoryInv'
<1>1. ASSUME NEW u \in Users, NEW p \in Paths, NEW c \in Contents, CreateProjectFile(r, u, p, c)
      PROVE  HistoryInv'
  <2> DEFINE q == [IdleRequest EXCEPT !.step = "create.paths", !.paths = {p}, !.content = c]
  <2>1. Known(q, exists, file)
    BY DEF Known, IdleRequest
  <2> QED
    BY <1>1, <2>1, QuietStart DEF CreateProjectFile, Quiet
<1>2. ASSUME NEW u \in Users, NEW P \in SUBSET Paths, NEW c \in Contents,
             InitializeProjectFiles(r, u, P, c)
      PROVE  HistoryInv'
  <2> DEFINE q == [IdleRequest EXCEPT !.step = "create.paths", !.paths = P, !.content = c]
  <2>1. Known(q, exists, file)
    BY DEF Known, IdleRequest
  <2> QED
    BY <1>2, <2>1, QuietStart DEF InitializeProjectFiles, Quiet
<1>3. CASE CreateCheckPaths(r)
  <2>1. CASE Goto(r, "create.commit")
    <3>1. req'[r].step = "create.commit" /\ \A s \in Requests \ {r} : req'[s] = req[s]
      BY <2>1 DEF TypeInv, TypeOK, Goto, Request
    <3>2. Known(req'[r], exists, file)
      BY <3>1 DEF Known
    <3> QED
      BY <1>3, <3>1, <3>2, QuietStep DEF CreateCheckPaths, Quiet
  <2> QED
    BY <1>3, <2>1, QuietFinish DEF CreateCheckPaths, Quiet
<1>4. CASE CreateCommit(r) /\ ~Quiet
  <2>1. PICK new \in SUBSET {f \in Files : file[f] = None}, c \in Contents :
          /\ \A f \in new : \E p \in Paths :
               file'[f] = [path |-> p, current |-> 1, isDeleted |-> FALSE]
          /\ \A f \in Files \ new : file'[f] = file[f]
          /\ versions' = versions \cup
               {[file |-> f, number |-> 1, content |-> c, isDeleted |-> FALSE] : f \in new}
    BY <1>4, CreateWrites
  <2>2. exists /\ UNCHANGED <<exists, role>> /\ Finish(r)
    BY <1>4, CreateWrites DEF CreateCommit
  <2>3. \A f \in new : file'[f] # None /\ file'[f].current = 1
    <3> SUFFICES ASSUME NEW f \in new PROVE file'[f] # None /\ file'[f].current = 1
      OBVIOUS
    <3>1. PICK p \in Paths : file'[f] = [path |-> p, current |-> 1, isDeleted |-> FALSE]
      BY <2>1
    <3>2. file'[f] \in FileRow
      BY <3>1 DEF FileRow
    <3>3. file'[f] # None
      BY <3>2, ProjectAssumption
    <3> QED
      BY <3>1, <3>3
  <2>4. \A f \in new : Numbers(f) = {} /\ Numbers(f)' = {1}
    <3>1. \A f \in new : Numbers(f) = {}
      BY DEF HistoryInv, HistoryIsLinear
    <3>2. \A v \in versions : v.file \notin new
      BY <3>1 DEF Numbers
    <3>3. ASSUME NEW f \in new PROVE Numbers(f)' = {1}
      <4> DEFINE first == [file |-> f, number |-> 1, content |-> c, isDeleted |-> FALSE]
      <4>1. {w \in versions' : w.file = f} = {first}
        BY <2>1, <3>2
      <4>2. first.number = 1
        OBVIOUS
      <4> HIDE DEF first
      <4> QED
        BY <4>1, <4>2 DEF Numbers
    <3> QED
      BY <3>1, <3>3
  <2>5. \A f \in Files \ new : Numbers(f)' = Numbers(f)
    BY <2>1 DEF Numbers
  <2>6. \A v, w \in versions' : v.file = w.file /\ v.number = w.number => v = w
    <3>1. \A v \in versions : v.file \notin new
      BY <2>4 DEF Numbers
    <3>2. \A v, w \in versions : v.file = w.file /\ v.number = w.number => v = w
      BY DEF HistoryInv, HistoryIsLinear
    <3>3. \A v \in versions' \ versions :
            v.file \in new /\ v = [file |-> v.file, number |-> 1, content |-> c, isDeleted |-> FALSE]
      BY <2>1
    <3>4. \A v \in versions' : v \in versions \/ v \in versions' \ versions
      OBVIOUS
    <3> QED
      BY <3>1, <3>2, <3>3, <3>4
  <2>7. HistoryIsLinear'
    <3>1. ASSUME NEW f \in Files
          PROVE /\ file'[f] # None => Numbers(f)' = 1..file'[f].current /\ file'[f].current > 0
                /\ file'[f] = None => Numbers(f)' = {}
      <4>1. CASE f \in new
        <5>1. {1} = 1..1
          OBVIOUS
        <5>2. Numbers(f)' = {1}
          BY <2>4, <4>1
        <5>3. file'[f] # None /\ file'[f].current = 1
          BY <2>3, <4>1
        <5> QED
          BY <5>1, <5>2, <5>3
      <4>2. CASE f \notin new
        BY <2>1, <2>5, <4>2 DEF HistoryInv, HistoryIsLinear
      <4> QED
        BY <4>1, <4>2
    <3> QED
      BY <2>6, <3>1 DEF HistoryIsLinear
  <2>8. KnownInv'
    <3>1. \A f \in Files : file[f] # None => file[f].current \in Nat /\ f \notin new
      BY DEF TypeInv, TypeOK, FileRow
    <3>2. \A f \in Files : file[f] # None => file'[f] = file[f]
      BY <2>1, <3>1
    <3>3. \A f \in Files : /\ file[f] # None /\ exists' => file'[f] # None
                           /\ file[f] # None /\ file'[f] # None
                                => file'[f].current >= file[f].current
                           /\ file[f] = None /\ file'[f] # None => exists
      BY <2>2, <3>1, <3>2
    <3>4. Known(req'[r], exists', file') /\ \A s \in Requests \ {r} : req'[s] = req[s]
      BY <2>2, IdleKnown
    <3> QED
      BY <2>2, <3>3, <3>4, KnownStep DEF HistoryInv
  <2> QED
    BY <2>2, <2>7, <2>8 DEF HistoryInv, DeletedProjectStaysEmpty
<1>5. CASE CreateCommit(r) /\ Quiet
  BY <1>5, QuietFinish DEF CreateCommit
<1> QED
  BY <1>1, <1>2, <1>3, <1>4, <1>5 DEF CreateNext

LEMMA EditHistory ==
    ASSUME TypeInv, TypeInv', HistoryInv, NEW r \in Requests, EditNext(r) PROVE HistoryInv'
<1>0. req \in [Requests -> Request] /\ req[r] \in Request /\ Shape(req[r])
      /\ Known(req[r], exists, file)
  BY DEF TypeInv, TypeOK, RequestShape, HistoryInv, KnownInv
<1>1. ASSUME NEW u \in Users, NEW f \in Files, NEW c \in Contents, UpdateProjectFile(r, u, f, c)
      PROVE  HistoryInv'
  <2> DEFINE q == [IdleRequest EXCEPT !.step = "edit.latest", !.file = f, !.content = c]
  <2>1. Known(q, exists, file)
    BY DEF Known, IdleRequest
  <2> QED
    BY <1>1, <2>1, QuietStart DEF UpdateProjectFile, Quiet
<1>2. ASSUME NEW u \in Users, NEW f \in Files, DeleteProjectFile(r, u, f)
      PROVE  HistoryInv'
  <2> DEFINE q == [IdleRequest EXCEPT !.step = "edit.latest", !.file = f,
                                      !.content = Empty, !.isDeleted = TRUE]
  <2>1. Known(q, exists, file)
    BY DEF Known, IdleRequest
  <2> QED
    BY <1>2, <2>1, QuietStart DEF DeleteProjectFile, Quiet
<1>3. ASSUME NEW u \in Users, NEW f \in Files, NEW n \in 1..MaxVersion,
             RevertProjectFile(r, u, f, n)
      PROVE  HistoryInv'
  <2> DEFINE q == [IdleRequest EXCEPT !.step = "edit.file", !.file = f, !.source = n]
  <2>1. Known(q, exists, file)
    BY DEF Known, IdleRequest
  <2> QED
    BY <1>3, <2>1, QuietStart DEF RevertProjectFile, Quiet
<1>4. CASE RevertFindFile(r)
  <2>1. CASE file[req[r].file] # None /\ Goto(r, "edit.source")
    <3>1. req'[r] = [req[r] EXCEPT !.step = "edit.source"]
          /\ \A s \in Requests \ {r} : req'[s] = req[s]
      BY <1>0, <2>1 DEF Goto
    <3>2. Known(req'[r], exists, file)
      BY <1>0, <2>1, <3>1 DEF Known, Request
    <3> QED
      BY <1>4, <3>1, <3>2, QuietStep DEF RevertFindFile, Quiet
  <2> QED
    BY <1>4, <2>1, QuietFinish DEF RevertFindFile, Quiet
<1>5. CASE RevertFindSource(r)
  <2>1. ASSUME NEW v \in versions,
               req' = [req EXCEPT ![r].step = "edit.latest", ![r].content = v.content]
        PROVE  HistoryInv'
    <3>1. /\ req'[r] = [req[r] EXCEPT !.step = "edit.latest", !.content = v.content]
          /\ \A s \in Requests \ {r} : req'[s] = req[s]
      BY <1>0, <2>1 DEF Request
    <3>2. Known(req'[r], exists, file)
      BY <1>0, <1>5, <3>1 DEF Known, Request, RevertFindSource, At
    <3> QED
      BY <1>5, <3>1, <3>2, QuietStep DEF RevertFindSource, Quiet
  <2> QED
    BY <1>5, <2>1, QuietFinish DEF RevertFindSource, Quiet
<1>6. CASE FindLatest(r)
  <2> DEFINE n == NextNumber(req[r].file)
  <2>1. ASSUME req' = [req EXCEPT ![r].step = "edit.commit", ![r].next = n],
               file[req[r].file] # None \/ req[r].source # 0
        PROVE  HistoryInv'
    <3>1. /\ req'[r] = [req[r] EXCEPT !.step = "edit.commit", !.next = n]
          /\ \A s \in Requests \ {r} : req'[s] = req[s]
      BY <1>0, <2>1 DEF Request
    <3>2. req[r].file \in Files /\ (file[req[r].file] # None \/ ~exists)
      BY <1>0, <1>6, <2>1 DEF Known, Shape, FindLatest, At
    <3>3. /\ n \in Nat \ {0}
          /\ file[req[r].file] # None => n = file[req[r].file].current + 1
      BY <3>2, NextNumberIs, HistoryNumbers
    <3>4. /\ req'[r].step = "edit.commit" /\ req'[r].next = n /\ req'[r].file = req[r].file
      BY <1>0, <3>1 DEF Request
    <3> HIDE DEF n
    <3>5. file[req[r].file] # None => file[req[r].file].current \in Nat
      BY <3>2 DEF TypeInv, TypeOK, FileRow
    <3>6. Known(req'[r], exists, file)
      BY <3>2, <3>3, <3>4, <3>5 DEF Known
    <3> QED
      BY <1>6, <3>1, <3>6, QuietStep DEF FindLatest, Quiet
  <2> QED
    BY <1>6, <2>1, QuietFinish DEF FindLatest, Quiet
<1>7. CASE EditCommit(r) /\ ~Quiet
  <2> DEFINE f == req[r].file
             n == req[r].next
  <2>1. PICK c \in Contents, d, e \in BOOLEAN :
          /\ file' = [file EXCEPT ![f] =
                        [path |-> file[f].path, current |-> n, isDeleted |-> e]]
          /\ versions' = versions \cup
               {[file |-> f, number |-> n, content |-> c, isDeleted |-> d]}
    BY <1>7, EditWrites
  <2>2. /\ UNCHANGED <<exists, role>> /\ Finish(r)
        /\ f \in Files /\ file[f] # None /\ n \notin Numbers(f)
    BY <1>7, EditWrites DEF EditCommit, Insertable
  <2>3. file \in [Files -> FileRow \cup {None}] /\ n \in Nat
    BY <1>0 DEF TypeInv, TypeOK, Request
  <2>4. /\ file[f].current \in Nat /\ Numbers(f) = 1..file[f].current
        /\ file[f].current > 0
    BY <2>2, <2>3 DEF FileRow, HistoryInv, HistoryIsLinear
  <2>5. n = file[f].current + 1
    <3>1. n > 0 /\ n <= file[f].current + 1
      BY <1>0, <1>7, <2>2 DEF Known, EditCommit, At
    <3> QED
      BY <2>2, <2>3, <2>4, <3>1
  <2> HIDE DEF f, n
  <2>6. file'[f] # None /\ file'[f].current = n
        /\ \A g \in Files \ {f} : file'[g] = file[g]
    <3>1. file'[f] = [path |-> file[f].path, current |-> n, isDeleted |-> e]
      BY <2>1, <2>2, <2>3
    <3>2. file'[f] \in FileRow
      BY <2>2, <2>3, <3>1 DEF FileRow
    <3> QED
      BY <2>1, <2>2, <2>3, <3>1, <3>2, ProjectAssumption
  <2>7. {v.number : v \in {w \in versions' : w.file = f}} = Numbers(f) \cup {n}
        /\ \A g \in Files \ {f} : Numbers(g)' = Numbers(g)
    <3> DEFINE last == [file |-> f, number |-> n, content |-> c, isDeleted |-> d]
    <3>1. {w \in versions' : w.file = f} = {w \in versions : w.file = f} \cup {last}
      BY <2>1
    <3>2. \A g \in Files \ {f} : {w \in versions' : w.file = g} = {w \in versions : w.file = g}
      BY <2>1
    <3>3. last.number = n
      OBVIOUS
    <3> HIDE DEF last
    <3> QED
      BY <3>1, <3>2, <3>3 DEF Numbers
  <2>8. \A v, w \in versions' : v.file = w.file /\ v.number = w.number => v = w
    <3>1. \A v \in versions : v.file = f => v.number # n
      BY <2>2 DEF Numbers
    <3>2. \A v, w \in versions : v.file = w.file /\ v.number = w.number => v = w
      BY DEF HistoryInv, HistoryIsLinear
    <3> QED
      BY <2>1, <3>1, <3>2
  <2>9. HistoryIsLinear'
    <3>1. ASSUME NEW g \in Files
          PROVE /\ file'[g] # None => Numbers(g)' = 1..file'[g].current /\ file'[g].current > 0
                /\ file'[g] = None => Numbers(g)' = {}
      <4>1. CASE g = f
        <5>1. Numbers(g)' = Numbers(f) \cup {n}
          BY <2>7, <4>1 DEF Numbers
        <5>2. (1..file[f].current) \cup {n} = 1..n /\ n > 0
          BY <2>4, <2>5
        <5> QED
          BY <2>4, <2>6, <4>1, <5>1, <5>2
      <4>2. CASE g # f
        BY <2>6, <2>7, <4>2 DEF HistoryInv, HistoryIsLinear
      <4> QED
        BY <4>1, <4>2
    <3> QED
      BY <2>8, <3>1 DEF HistoryIsLinear
  <2>10. KnownInv'
    <3>1. \A g \in Files : file[g] # None => file'[g] # None /\ file'[g].current >= file[g].current
      BY <2>3, <2>4, <2>5, <2>6 DEF FileRow
    <3>2. \A g \in Files : file[g] = None => file'[g] = None
      BY <2>2, <2>6
    <3> QED
      BY <2>2, <3>1, <3>2, IdleKnown, KnownStep DEF HistoryInv
  <2>11. exists
    BY <2>2 DEF HistoryInv, DeletedProjectStaysEmpty
  <2> QED
    BY <2>2, <2>9, <2>10, <2>11 DEF HistoryInv, DeletedProjectStaysEmpty
<1>8. CASE EditCommit(r) /\ Quiet
  BY <1>8, QuietFinish DEF EditCommit
<1> QED
  BY <1>1, <1>2, <1>3, <1>4, <1>5, <1>6, <1>7, <1>8 DEF EditNext

LEMMA ProjectHistory ==
    ASSUME TypeInv, TypeInv', HistoryInv, NEW r \in Requests, ProjectNext(r) PROVE HistoryInv'
<1>1. CASE DeleteProject(r)
  <2> DEFINE q == [IdleRequest EXCEPT !.step = "project.delete"]
  <2>1. Known(q, exists, file)
    BY DEF Known, IdleRequest
  <2> QED
    BY <1>1, <2>1, QuietStart DEF DeleteProject, Quiet
<1>2. ASSUME NEW u \in Members, NEW new \in Roles, AddProjectCollaborator(r, u, new)
      PROVE  HistoryInv'
  <2> DEFINE q == [IdleRequest EXCEPT !.step = "collaborator.write", !.member = u,
                                      !.role = new, !.found = role[u] # None]
  <2>1. Known(q, exists, file)
    BY DEF Known, IdleRequest
  <2> QED
    BY <1>2, <2>1, QuietStart DEF AddProjectCollaborator, Quiet
<1>3. ASSUME NEW u \in Members, RemoveProjectCollaborator(r, u) PROVE HistoryInv'
  <2> DEFINE q == [IdleRequest EXCEPT !.step = "collaborator.delete", !.member = u]
  <2>1. Known(q, exists, file)
    BY DEF Known, IdleRequest
  <2> QED
    BY <1>3, <2>1, QuietStart DEF RemoveProjectCollaborator, Quiet
<1>4. CASE DeleteProjectCommit(r) /\ Quiet
  BY <1>4, QuietFinish DEF DeleteProjectCommit
<1>5. CASE DeleteProjectCommit(r) /\ ~Quiet
  <2>1. /\ ~exists' /\ versions' = {} /\ Finish(r)
        /\ \A f \in Files : file'[f] = None
        /\ \A u \in Members : role'[u] = None
    BY <1>5 DEF DeleteProjectCommit, Quiet
  <2>2. HistoryIsLinear' /\ DeletedProjectStaysEmpty'
    BY <2>1 DEF HistoryIsLinear, DeletedProjectStaysEmpty, Numbers
  <2>3. Known(req'[r], exists', file') /\ \A s \in Requests \ {r} : req'[s] = req[s]
    BY <2>1, IdleKnown
  <2>4. exists
    BY <1>5 DEF DeleteProjectCommit, Quiet
  <2>5. KnownInv'
    BY <2>1, <2>3, <2>4, KnownStep DEF HistoryInv
  <2> QED
    BY <2>2, <2>5 DEF HistoryInv
<1>6. CASE WriteCollaborator(r) \/ DeleteCollaborator(r)
  <2>1. UNCHANGED <<exists, file, versions>> /\ Finish(r)
    BY <1>6 DEF WriteCollaborator, DeleteCollaborator
  <2>2. HistoryIsLinear'
    BY <2>1 DEF HistoryInv, HistoryIsLinear, Numbers
  <2>3. ~exists => \A u \in Members : role'[u] = None
    BY <1>6 DEF WriteCollaborator, DeleteCollaborator, HistoryInv, DeletedProjectStaysEmpty,
                TypeInv, TypeOK
  <2>4. KnownInv'
    <3>1. \A f \in Files : file[f] # None => file[f].current \in Nat
      BY DEF TypeInv, TypeOK, FileRow
    <3>2. Known(req'[r], exists', file') /\ \A s \in Requests \ {r} : req'[s] = req[s]
      BY <2>1, IdleKnown
    <3> QED
      BY <2>1, <3>1, <3>2, KnownStep DEF HistoryInv
  <2> QED
    BY <2>1, <2>2, <2>3, <2>4 DEF HistoryInv, DeletedProjectStaysEmpty
<1> QED
  BY <1>1, <1>2, <1>3, <1>4, <1>5, <1>6 DEF ProjectNext

LEMMA NextHistory == TypeInv /\ HistoryInv /\ [Next]_vars => (TypeInv /\ HistoryInv)'
<1> SUFFICES ASSUME TypeInv, HistoryInv, [Next]_vars PROVE (TypeInv /\ HistoryInv)'
  OBVIOUS
<1>1. TypeInv'
  BY NextTypes, HistoryNumbers
<1>2. ASSUME NEW r \in Requests, CreateNext(r) PROVE HistoryInv'
  BY <1>1, <1>2, CreateHistory
<1>3. ASSUME NEW r \in Requests, EditNext(r) PROVE HistoryInv'
  BY <1>1, <1>3, EditHistory
<1>4. ASSUME NEW r \in Requests, ProjectNext(r) PROVE HistoryInv'
  BY <1>1, <1>4, ProjectHistory
<1>5. ASSUME NEW r \in Requests, Abort(r) PROVE HistoryInv'
  BY <1>1, <1>5, QuietFinish DEF Abort, Quiet
<1>6. CASE UNCHANGED vars
  <2>1. Quiet /\ req' = req
    BY <1>6 DEF vars, Quiet
  <2>2. KnownInv'
    BY <2>1 DEF HistoryInv, KnownInv, Known, Quiet
  <2> QED
    BY <1>1, <2>1, <2>2, QuietHistory DEF HistoryInv
<1> QED
  BY <1>1, <1>2, <1>3, <1>4, <1>5, <1>6 DEF Next

LEMMA Invariant == Spec => [](TypeInv /\ HistoryInv)
<1>1. Init => TypeInv /\ HistoryInv
  BY InitTypes, InitHistory
<1> QED
  BY <1>1, NextHistory, PTL DEF Spec

(* Type correctness of the rows and of the requests of ProjectFiles. *)
THEOREM TypeCorrect == Spec => []TypeOK
<1>1. TypeInv => TypeOK
  BY DEF TypeInv
<1> QED
  BY <1>1, Invariant, PTL

(* Whatever requests race, the versions of a file are numbered 1, 2, ...     *)
(* without gap or fork, and currentVersionId names the last one.             *)
THEOREM HistoriesAreLinear == Spec => []HistoryIsLinear
<1>1. HistoryInv => HistoryIsLinear
  BY DEF HistoryInv
<1> QED
  BY <1>1, Invariant, PTL

(* No request that was under way when a project was deleted leaves a file, a *)
(* version or a collaborator of it behind.                                   *)
THEOREM DeletedProjectsStayEmpty == Spec => []DeletedProjectStaysEmpty
<1>1. HistoryInv => DeletedProjectStaysEmpty
  BY DEF HistoryInv
<1> QED
  BY <1>1, Invariant, PTL

-----------------------------------------------------------------------------
(* The tables implement FileHistory.                                         *)

\* The row of a version is the only one with its file and number.
LEMMA VersionChosen ==
    ASSUME HistoryIsLinear, NEW v \in versions
    PROVE  (CHOOSE w \in versions : w.file = v.file /\ w.number = v.number) = v
BY DEF HistoryIsLinear

(* What HistoryOf says of the files that exist.                              *)
HistoriesOfFiles ==
    \A f \in Files : file[f] # None =>
        /\ file[f].current \in Nat \ {0}
        /\ HistoryOf(f) = [n \in 1..file[f].current |-> HistoryOf(f)[n]]
        /\ \A n \in 1..file[f].current : \E v \in versions :
             v.file = f /\ v.number = n /\ HistoryOf(f)[n] = v.content
        /\ \A v \in versions : v.file = f =>
             v.number \in 1..file[f].current /\ HistoryOf(f)[v.number] = v.content

LEMMA HistoryOfFile == TypeInv /\ HistoryIsLinear => HistoriesOfFiles
<1> SUFFICES ASSUME TypeInv, HistoryIsLinear, NEW f \in Files, file[f] # None
             PROVE  /\ file[f].current \in Nat \ {0}
                    /\ HistoryOf(f) = [n \in 1..file[f].current |-> HistoryOf(f)[n]]
                    /\ \A n \in 1..file[f].current : \E v \in versions :
                         v.file = f /\ v.number = n /\ HistoryOf(f)[n] = v.content
                    /\ \A v \in versions : v.file = f =>
                         v.number \in 1..file[f].current /\ HistoryOf(f)[v.number] = v.content
  BY DEF HistoriesOfFiles
<1>1. /\ file[f].current \in Nat \ {0}
      /\ Numbers(f) = 1..file[f].current
  BY DEF TypeInv, TypeOK, FileRow, HistoryIsLinear
<1>2. HistoryOf(f) = [n \in 1..file[f].current |->
                        (CHOOSE v \in versions : v.file = f /\ v.number = n).content]
  BY DEF HistoryOf
<1>3. ASSUME NEW v \in versions, v.file = f
      PROVE  v.number \in 1..file[f].current /\ HistoryOf(f)[v.number] = v.content
  <2>1. v.number \in 1..file[f].current
    BY <1>1, <1>3 DEF Numbers
  <2> QED
    BY <1>2, <1>3, <2>1, VersionChosen
<1>4. ASSUME NEW n \in 1..file[f].current
      PROVE  \E v \in versions : v.file = f /\ v.number = n /\ HistoryOf(f)[n] = v.content
  <2>1. PICK v \in versions : v.file = f /\ v.number = n
    BY <1>1 DEF Numbers
  <2> QED
    BY <1>3, <2>1
<1> QED
  BY <1>1, <1>2, <1>3, <1>4

LEMMA HistoryOfFileNext == TypeInv' /\ HistoryIsLinear' => HistoriesOfFiles'
BY HistoryOfFile, PTL

\* A history is a sequence of contents.
LEMMA HistoryIsSequence ==
    ASSUME TypeInv, HistoryIsLinear, NEW f \in Files, file[f] # None
    PROVE  /\ HistoryOf(f) \in Seq(Contents)
           /\ Len(HistoryOf(f)) = file[f].current
           /\ HistoryOf(f) # <<>>
<1> DEFINE k == file[f].current
<1>1. k \in Nat \ {0} /\ HistoryOf(f) = [n \in 1..k |-> HistoryOf(f)[n]]
  BY HistoryOfFile DEF HistoriesOfFiles
<1>2. ASSUME NEW n \in 1..k PROVE HistoryOf(f)[n] \in Contents
  <2>1. PICK v \in versions : HistoryOf(f)[n] = v.content
    BY HistoryOfFile DEF HistoriesOfFiles
  <2> QED
    BY <2>1 DEF TypeInv, TypeOK, VersionRow
<1> HIDE DEF k
<1>3. HistoryOf(f) \in [1..k -> Contents]
  BY <1>1, <1>2
<1> QED
  BY <1>1, <1>3 DEF k

\* A file whose row and versions a step keeps, keeps its history.
LEMMA HistoryKept ==
    ASSUME TypeInv, HistoryIsLinear, TypeInv', HistoryIsLinear', NEW f \in Files,
           file'[f] = file[f], versions \subseteq versions'
    PROVE  HistoryOf(f)' = HistoryOf(f)
<1>1. CASE file[f] = None
  BY <1>1 DEF HistoryOf
<1>2. CASE file[f] # None
  <2> DEFINE k == file[f].current
  <2>1. /\ HistoryOf(f) = [n \in 1..k |-> HistoryOf(f)[n]]
        /\ \A n \in 1..k : \E v \in versions :
             v.file = f /\ v.number = n /\ HistoryOf(f)[n] = v.content
    BY <1>2, HistoryOfFile DEF HistoriesOfFiles
  <2>2. /\ HistoryOf(f)' = [n \in 1..k |-> HistoryOf(f)'[n]]
        /\ \A v \in versions' : v.file = f => HistoryOf(f)'[v.number] = v.content
    BY <1>2, HistoryOfFileNext DEF HistoriesOfFiles
  <2>3. \A n \in 1..k : HistoryOf(f)'[n] = HistoryOf(f)[n]
    BY <2>1, <2>2
  <2> QED
    BY <2>1, <2>2, <2>3
<1> QED
  BY <1>1, <1>2

\* A history grows by one content when its file gets a next version.
LEMMA HistoryCommitted ==
    ASSUME TypeInv, HistoryIsLinear, TypeInv', HistoryIsLinear', NEW f \in Files,
           file[f] # None, file'[f] # None, NEW v \in versions', v.file = f,
           versions' = versions \cup {v}, v \notin versions, v.number = file'[f].current
    PROVE  HistoryOf(f)' = Append(HistoryOf(f), v.content)
<1> DEFINE k == file[f].current
           m == file'[f].current
<1>1. /\ k \in Nat \ {0} /\ HistoryOf(f) = [n \in 1..k |-> HistoryOf(f)[n]]
      /\ \A n \in 1..k : \E w \in versions : w.file = f /\ w.number = n /\ HistoryOf(f)[n] = w.content
      /\ \A w \in versions : w.file = f => w.number \in 1..k
  BY HistoryOfFile DEF HistoriesOfFiles
<1>2. /\ m \in Nat \ {0} /\ HistoryOf(f)' = [n \in 1..m |-> HistoryOf(f)'[n]]
      /\ \A n \in 1..m : \E w \in versions' : w.file = f /\ w.number = n
      /\ \A w \in versions' : w.file = f => w.number \in 1..m /\ HistoryOf(f)'[w.number] = w.content
  BY HistoryOfFileNext DEF HistoriesOfFiles
<1>3. HistoryOf(f) \in Seq(Contents) /\ Len(HistoryOf(f)) = k
  BY HistoryIsSequence
<1> HIDE DEF k, m
<1>4. m \notin 1..k
  <2>1. ASSUME NEW w \in versions, w.file = f, w.number = m PROVE FALSE
    <3>1. w \in versions' /\ w = v
      BY <2>1 DEF HistoryIsLinear, m
    <3> QED
      BY <3>1
  <2> QED
    BY <1>1, <2>1
<1>5. m = k + 1
  <2>1. k \in 1..m
    BY <1>1, <1>2
  <2>2. CASE m > k + 1
    <3>1. k + 1 \in 1..m /\ k + 1 \notin 1..k /\ k + 1 # m
      BY <1>1, <1>2, <2>2
    <3>2. PICK w \in versions' : w.file = f /\ w.number = k + 1
      BY <1>2, <3>1
    <3>3. w \in versions
      BY <3>1, <3>2 DEF m
    <3> QED
      BY <1>1, <3>1, <3>2, <3>3
  <2> QED
    BY <1>1, <1>2, <1>4, <2>1, <2>2
<1>6. \A n \in 1..k : HistoryOf(f)'[n] = HistoryOf(f)[n]
  BY <1>1, <1>2
<1>7. HistoryOf(f)'[m] = v.content
  BY <1>2 DEF m
<1> DEFINE h == HistoryOf(f)
           g == HistoryOf(f)'
<1>8. h \in Seq(Contents) /\ Len(h) = k /\ g = [n \in 1..k + 1 |-> g[n]]
      /\ (\A n \in 1..k : g[n] = h[n]) /\ g[k + 1] = v.content
  BY <1>2, <1>3, <1>5, <1>6, <1>7
<1> HIDE DEF h, g
<1>9. g = Append(h, v.content)
  <2>1. v.content \in Contents
    BY DEF TypeInv, TypeOK, VersionRow
  <2> DEFINE a == Append(h, v.content)
  <2>2. a \in Seq(Contents) /\ Len(a) = k + 1 /\ k \in Nat
    BY <1>1, <1>8, <2>1
  <2>3. \A n \in 1..k + 1 : a[n] = g[n]
    <3>1. (\A n \in 1..Len(h) : a[n] = h[n]) /\ a[Len(h) + 1] = v.content
      BY <1>8, <2>1, AppendProperties
    <3>2. \A n \in 1..k + 1 : n \in 1..k \/ n = k + 1
      BY <2>2
    <3> QED
      BY <1>8, <3>1, <3>2
  <2>4. a \in [1..Len(a) -> Contents]
    BY <2>2, LenProperties
  <2> HIDE DEF a
  <2>5. a = [n \in 1..k + 1 |-> a[n]]
    BY <2>2, <2>4
  <2>6. a = g
    BY <1>8, <2>3, <2>5
  <2> QED
    BY <2>6 DEF a
<1> QED
  BY <1>9 DEF h, g

\* The rows after a step, as a transaction leaves them.
Created(new, c) ==
    /\ \A f \in new : \E p \in Paths :
         file'[f] = [path |-> p, current |-> 1, isDeleted |-> FALSE]
    /\ \A f \in Files \ new : file'[f] = file[f]
    /\ versions' = versions \cup
         {[file |-> f, number |-> 1, content |-> c, isDeleted |-> FALSE] : f \in new}

Edited(f, v) ==
    /\ file[f] # None /\ file'[f] # None
    /\ v \in VersionRow /\ v.file = f /\ v.number \notin Numbers(f)
    /\ file'[f].current = v.number
    /\ \A g \in Files \ {f} : file'[g] = file[g]
    /\ versions' = versions \cup {v}

Emptied == file' = [f \in Files |-> None]

LEMMA RowsStep ==
    ASSUME TypeInv, [Next]_vars
    PROVE  \/ UNCHANGED <<file, versions>> \/ Emptied
           \/ \E new \in SUBSET {f \in Files : file[f] = None}, c \in Contents : Created(new, c)
           \/ \E f \in Files, v \in VersionRow : Edited(f, v)
<1>1. ASSUME NEW r \in Requests, CreateCommit(r)
      PROVE  Quiet \/ \E new \in SUBSET {f \in Files : file[f] = None}, c \in Contents :
               Created(new, c)
  BY <1>1, CreateWrites DEF Created
<1>2. ASSUME NEW r \in Requests, EditCommit(r)
      PROVE  Quiet \/ \E f \in Files, v \in VersionRow : Edited(f, v)
  <2> SUFFICES ASSUME ~Quiet PROVE \E f \in Files, v \in VersionRow : Edited(f, v)
    OBVIOUS
  <2> DEFINE f == req[r].file
  <2>1. f \in Files /\ req[r].next \in Nat /\ file[f] # None /\ req[r].next \notin Numbers(f)
    BY <1>2, EditWrites DEF Insertable, TypeInv, TypeOK, Request
  <2>2. PICK c \in Contents, d \in BOOLEAN, e \in BOOLEAN :
          /\ file' = [file EXCEPT ![f] = [path |-> file[f].path, current |-> req[r].next,
                                          isDeleted |-> e]]
          /\ versions' = versions \cup {[file |-> f, number |-> req[r].next, content |-> c,
                                         isDeleted |-> d]}
    BY <1>2, EditWrites
  <2> DEFINE v == [file |-> f, number |-> req[r].next, content |-> c, isDeleted |-> d]
  <2>3. v \in VersionRow /\ v.file = f /\ v.number = req[r].next
    BY <2>1 DEF VersionRow
  <2>4. /\ file'[f] = [path |-> file[f].path, current |-> req[r].next, isDeleted |-> e]
        /\ \A g \in Files \ {f} : file'[g] = file[g]
    BY <2>1, <2>2 DEF TypeInv, TypeOK
  <2>5. file'[f] \in FileRow
    BY <2>1, <2>4 DEF TypeInv, TypeOK, FileRow
  <2>6. file'[f] # None
    BY <2>5, ProjectAssumption DEF ProjectAssumption
  <2>7. Edited(f, v)
    BY <2>1, <2>2, <2>3, <2>4, <2>6 DEF Edited
  <2> QED
    BY <2>1, <2>3, <2>7
<1>3. ASSUME NEW r \in Requests, CreateNext(r) PROVE UNCHANGED <<file, versions>> \/ CreateCommit(r)
  BY <1>3 DEF CreateNext, CreateProjectFile, InitializeProjectFiles, CreateCheckPaths
<1>4. ASSUME NEW r \in Requests, EditNext(r) PROVE UNCHANGED <<file, versions>> \/ EditCommit(r)
  BY <1>4 DEF EditNext, UpdateProjectFile, DeleteProjectFile, RevertProjectFile, RevertFindFile,
     RevertFindSource, FindLatest
<1>5. ASSUME NEW r \in Requests, ProjectNext(r) PROVE UNCHANGED <<file, versions>> \/ Emptied
  BY <1>5 DEF ProjectNext, DeleteProject, DeleteProjectCommit, AddProjectCollaborator,
     RemoveProjectCollaborator, WriteCollaborator, DeleteCollaborator, Emptied
<1>6. ASSUME NEW r \in Requests, Abort(r) PROVE UNCHANGED <<file, versions>>
  BY <1>6 DEF Abort
<1> QED
  BY <1>1, <1>2, <1>3, <1>4, <1>5, <1>6 DEF Next, vars, Quiet

Histories == [f \in Files |-> HistoryOf(f)]

\* A step of the tables is a step of FileHistory, or leaves every history alone.
LEMMA HistoryStep ==
    ASSUME TypeInv, HistoryInv, TypeInv', HistoryInv', [Next]_vars
    PROVE  History!Next \/ Histories' = Histories
<1>0. HistoryIsLinear /\ HistoryIsLinear'
  BY DEF HistoryInv
<1>1. CASE UNCHANGED <<file, versions>>
  <2>1. \A f \in Files : HistoryOf(f)' = HistoryOf(f)
    BY <1>1 DEF HistoryOf
  <2> QED
    BY <2>1 DEF Histories
<1>2. CASE Emptied
  <2>1. \A f \in Files : HistoryOf(f)' = <<>>
    BY <1>2 DEF Emptied, HistoryOf
  <2> QED
    BY <2>1 DEF History!Next, History!DiscardAll
<1>3. ASSUME NEW new \in SUBSET {f \in Files : file[f] = None}, NEW c \in Contents,
             Created(new, c)
      PROVE  History!Next
  <2>1. \A f \in new : HistoryOf(f) = <<>>
    BY DEF HistoryOf
  <2>2. \A f \in Files \ new : HistoryOf(f)' = HistoryOf(f)
    BY <1>0, <1>3, HistoryKept DEF Created
  <2>3. ASSUME NEW f \in new PROVE HistoryOf(f)' = <<c>>
    <3> DEFINE v == [file |-> f, number |-> 1, content |-> c, isDeleted |-> FALSE]
    <3>1. v \in versions' /\ v.file = f /\ v.number = 1 /\ v.content = c
      BY <1>3 DEF Created
    <3>2. file'[f].current = 1 /\ file'[f] # None
      <4>1. PICK p \in Paths : file'[f] = [path |-> p, current |-> 1, isDeleted |-> FALSE]
        BY <1>3 DEF Created
      <4>2. file'[f] \in FileRow
        BY <4>1 DEF FileRow
      <4>3. None \notin FileRow
        BY ProjectAssumption DEF ProjectAssumption
      <4>4. file'[f].current = 1
        BY <4>1
      <4>5. file'[f] # None
        BY <4>2, <4>3
      <4> QED
        BY <4>4, <4>5
    <3>3. /\ HistoryOf(f)' = [n \in 1..1 |-> HistoryOf(f)'[n]]
          /\ HistoryOf(f)'[1] = c
      <4>1. f \in Files
        OBVIOUS
      <4>2. /\ HistoryOf(f)' = [n \in 1..file'[f].current |-> HistoryOf(f)'[n]]
            /\ \A w \in versions' : w.file = f => HistoryOf(f)'[w.number] = w.content
        BY <1>0, <3>2, <4>1, HistoryOfFileNext DEF HistoriesOfFiles
      <4>3. HistoryOf(f)'[v.number] = v.content
        BY <3>1, <4>2
      <4> QED
        BY <3>1, <3>2, <4>2, <4>3
    <3> DEFINE g == HistoryOf(f)'
    <3>4. g = [n \in 1..1 |-> g[n]] /\ g[1] = c
      BY <3>3
    <3> HIDE DEF g
    <3>5. g = <<c>>
      BY <3>4
    <3> QED
      BY <3>5 DEF g
  <2>4. Histories' = [f \in Files |-> IF f \in new THEN <<c>> ELSE Histories[f]]
    BY <2>2, <2>3 DEF Histories
  <2>5. History!Create(new)
    <3> DEFINE first == [f \in new |-> c]
    <3>1. first \in [new -> Contents] /\ \A f \in new : first[f] = c
      OBVIOUS
    <3>2. Histories' = [f \in Files |-> IF f \in new THEN <<first[f]>> ELSE Histories[f]]
      BY <2>4, <3>1
    <3>3. \A f \in new : Histories[f] = <<>>
      BY <2>1 DEF Histories
    <3> HIDE DEF first
    <3> QED
      BY <3>1, <3>2, <3>3 DEF History!Create, Histories
  <2> QED
    BY <2>5 DEF History!Next
<1>4. ASSUME NEW f \in Files, NEW v \in VersionRow, Edited(f, v) PROVE History!Next
  <2>1. v \in versions' /\ v \notin versions /\ v.content \in Contents
    BY <1>4 DEF Edited, Numbers, VersionRow
  <2>2. HistoryOf(f)' = Append(HistoryOf(f), v.content)
    BY <1>0, <1>4, <2>1, HistoryCommitted DEF Edited
  <2>3. \A g \in Files \ {f} : HistoryOf(g)' = HistoryOf(g)
    BY <1>0, <1>4, HistoryKept DEF Edited
  <2>4. HistoryOf(f) # <<>>
    BY <1>0, <1>4, HistoryIsSequence DEF Edited
  <2>5. Histories' = [Histories EXCEPT ![f] = Append(@, v.content)]
    BY <2>2, <2>3 DEF Histories
  <2>6. History!Commit(f)
    BY <2>1, <2>4, <2>5 DEF History!Commit, Histories
  <2> QED
    BY <2>6 DEF History!Next
<1> QED
  BY <1>1, <1>2, <1>3, <1>4, RowsStep

(* The tables implement FileHistory: whatever requests race, an edit appends *)
(* one content to the history of one file, and no transaction rewrites what  *)
(* another one committed.                                                    *)
THEOREM FilesImplementHistory == Spec => ImplementsHistory
<1>1. Init => History!Init
  BY DEF Init, History!Init, HistoryOf
<1>2. TypeInv /\ HistoryInv /\ TypeInv' /\ HistoryInv' /\ [Next]_vars
        => [History!Next]_[f \in Files |-> HistoryOf(f)]
  BY HistoryStep DEF Histories
<1> QED
  BY <1>1, <1>2, Invariant, PTL DEF Spec, ImplementsHistory, History!Spec
=============================================================================
