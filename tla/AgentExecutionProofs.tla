------------------------ MODULE AgentExecutionProofs ------------------------
(***************************************************************************)
(* Theorems about AgentExecution: its types, that the row of an execution   *)
(* tells what was run, that it is billed as its row reports, and that a     *)
(* closed row is final.                                                     *)
(***************************************************************************)
EXTENDS AgentExecution, FiniteSetTheorems, SequenceTheorems, TLAPS

-----------------------------------------------------------------------------
(* The inductive invariant: what a call holds at each of its points, what    *)
(* its row holds then, and what the rows of ApplicationUsage tell.           *)

IsListed(steps, s) == \E k \in DOMAIN steps : steps[k].id = s

\* The steps that a path contains.
Visited(path, s) == \E i \in DOMAIN path : path[i] = s

\* The locals x of a call of executeAgent.
CallShape(x) ==
    /\ x.at \in {"step", "save"} => x.current \in StepIds /\ IsListed(x.steps, x.current)
    /\ x.at = "save" => x.stepResults[x.current] # None
    /\ x.at \in {"idle", "create", "agent"} => x.executionPath = <<>>
    /\ x.at = "bill" => x.app \in Apps
    /\ Len(x.executionPath) <= MaxPath
    /\ \A s \in StepIds : x.stepResults[s] # None <=> Visited(x.executionPath, s)

\* The progress saved in a row is that of its call x, or lacks its last step.
Tells(row, x) ==
    /\ Len(row.executionPath) <= Len(x.executionPath)
    /\ Len(row.executionPath) >= Len(x.executionPath) - 1
    /\ \A i \in 1..Len(row.executionPath) : row.executionPath[i] = x.executionPath[i]
    /\ row.status = "COMPLETED" => row.executionPath = x.executionPath
    /\ \A s \in StepIds : row.stepResults[s] # None <=> Visited(row.executionPath, s)

\* The row of a call with the locals x.
RowShape(row, x) ==
    /\ x.at \in {"idle", "create"} => row = None
    /\ x.at \in {"agent", "step", "save", "complete", "fail"} => row # None /\ row.status = "RUNNING"
    /\ x.at \in {"agent", "step", "complete"} => row.executionPath = x.executionPath
    /\ x.at = "bill" => /\ row # None /\ row.status # "RUNNING"
                        /\ row.tokenUsage = TotalTokenUsage(x.stepResults)
    /\ row # None => Tells(row, x)

CallInv == \A e \in Executions : CallShape(run[e]) /\ RowShape(execution[e], run[e])

(* The rows of ApplicationUsage belong to ended calls with a closed row.     *)
BillInv ==
    /\ IsFiniteSet(usage)
    /\ \A u, v \in usage : u.execution = v.execution => u = v
    /\ \A u \in usage : /\ At(u.execution, "ended")
                        /\ execution[u.execution] # None
                        /\ execution[u.execution].status # "RUNNING"
                        /\ execution[u.execution].tokenUsage = u.tokens
    /\ \A a \in Apps : -balance[a] = Cardinality(PaidTokens(usage, a))

TypeInv == TypeOK /\ CallInv

-----------------------------------------------------------------------------
(* The operators of the model.                                               *)

\* No execution reports more tokens than it ran steps.
LEMMA TokensBounded ==
  ASSUME NEW x \in Run, CallShape(x), AgentAssumption
  PROVE  TotalTokenUsage(x.stepResults) \in 0..MaxPath
<1> DEFINE path == x.executionPath
           T == {path[i] : i \in 1..Len(path)}
           f == [i \in 1..Len(path) |-> path[i]]
           paid == {s \in StepIds : x.stepResults[s] # None /\ x.stepResults[s].tokens = 1}
<1>1. path \in Seq(StepIds) /\ Len(path) \in Nat /\ DOMAIN path = 1..Len(path)
  BY LenProperties DEF Run
<1>2. f \in Surjection(1..Len(path), T)
  BY DEF Surjection
<1>3. IsFiniteSet(1..Len(path)) /\ Cardinality(1..Len(path)) = Len(path)
  BY <1>1, FS_Interval
<1>4. IsFiniteSet(T) /\ Cardinality(T) <= Len(path)
  BY <1>2, <1>3, FS_Surjection
<1>5. paid \in SUBSET T
  <2>1. ASSUME NEW s \in paid PROVE s \in T
    <3>1. Visited(path, s)
      BY DEF CallShape
    <3> QED
      BY <1>1, <3>1 DEF Visited
  <2> QED
    BY <2>1
<1>6. /\ Cardinality(paid) \in Nat /\ Cardinality(T) \in Nat
      /\ Cardinality(paid) <= Cardinality(T)
  BY <1>4, <1>5, FS_Subset, FS_CardinalityType
<1>7. Len(path) <= MaxPath /\ MaxPath \in Nat
  BY DEF CallShape, AgentAssumption
<1> HIDE DEF path, T, paid
<1>8. Cardinality(paid) \in 0..MaxPath
  BY <1>1, <1>4, <1>6, <1>7
<1> QED
  BY <1>8 DEF TotalTokenUsage, paid

\* The step that follows a listed one is a listed one, or there is none.
LEMMA NextStepListed ==
  ASSUME NEW steps \in Seq(ListedStep), NEW c \in StepIds, IsListed(steps, c), NEW status,
         AgentAssumption
  PROVE  LET n == NextStep(steps, c, status)
         IN n = None \/ (n \in StepIds /\ IsListed(steps, n))
<1>1. Len(steps) \in Nat /\ DOMAIN steps = 1..Len(steps)
      /\ \A k \in 1..Len(steps) : steps[k] \in ListedStep
  BY LenProperties, ElementOfSeq
<1> DEFINE i == CHOOSE k \in DOMAIN steps : steps[k].id = c
           target == IF status = "SUCCESS" THEN steps[i].nextOnSuccess
                                           ELSE steps[i].nextOnFailure
           n == NextStep(steps, c, status)
<1>2. i \in 1..Len(steps)
  BY <1>1 DEF IsListed
<1>3. n = IF target # None
          THEN IF \E k \in DOMAIN steps : steps[k].id = target THEN target ELSE None
          ELSE IF i < Len(steps) THEN steps[i + 1].id ELSE None
  BY DEF NextStep
<1> HIDE DEF i, n
<1>4. CASE target # None
  <2> HIDE DEF target
  <2>1. CASE \E k \in DOMAIN steps : steps[k].id = target
    <3>1. n = target
      BY <1>3, <1>4, <2>1
    <3> QED
      BY <1>1, <2>1, <3>1 DEF IsListed, ListedStep, n
  <2> QED
    BY <1>3, <1>4, <2>1 DEF n
<1>5. CASE target = None /\ i < Len(steps)
  <2>1. i + 1 \in 1..Len(steps) /\ n = steps[i + 1].id
    BY <1>1, <1>2, <1>3, <1>5
  <2>2. n \in StepIds /\ IsListed(steps, n)
    BY <1>1, <2>1 DEF IsListed, ListedStep
  <2> QED
    BY <2>2 DEF n
<1>6. CASE target = None /\ ~(i < Len(steps))
  BY <1>3, <1>6 DEF n
<1> QED
  BY <1>4, <1>5, <1>6

\* The agent's steps are listed as rows of AgentStep.
LEMMA ListingTyped ==
  ASSUME TypeOK, AgentAssumption, NEW q \in Listings
  PROVE  /\ q \in Seq(StepIds)
         /\ \A i \in DOMAIN q : q[i] \in StepIds /\ Listed(q[i]) \in ListedStep
         /\ [i \in DOMAIN q |-> Listed(q[i])] \in Seq(ListedStep)
<1> DEFINE present == {s \in StepIds : step[s] # None}
           n == Cardinality(present)
<1>1. IsFiniteSet(present) /\ n \in Nat
  BY FS_Subset, FS_CardinalityType DEF AgentAssumption
<1>2. q \in [1..n -> present]
  BY DEF Listings
<1> HIDE DEF n
<1>3. q \in Seq(StepIds) /\ DOMAIN q = 1..n
  BY <1>1, <1>2
<1>4. ASSUME NEW i \in DOMAIN q PROVE q[i] \in StepIds /\ Listed(q[i]) \in ListedStep
  <2>1. q[i] \in StepIds /\ step[q[i]] # None
    BY <1>2
  <2>2. step[q[i]] \in StepRow
    BY <2>1 DEF TypeOK
  <2> QED
    BY <2>1, <2>2 DEF Listed, ListedStep, StepRow
<1>5. [i \in DOMAIN q |-> Listed(q[i])] \in Seq(ListedStep)
  BY <1>1, <1>3, <1>4
<1> QED
  BY <1>3, <1>4, <1>5

-----------------------------------------------------------------------------
(* The steps of a call: it moves to new locals, with a row that fits them.   *)

Moves(e) ==
    \E x \in Run, row \in ExecutionRow \cup {None} :
        /\ CallShape(x) /\ RowShape(row, x)
        /\ run' = [run EXCEPT ![e] = x]
        /\ execution' = [execution EXCEPT ![e] = row]

LEMMA MovesKeep ==
  ASSUME TypeInv, NEW e \in Executions, Moves(e)
  PROVE  /\ run' \in [Executions -> Run]
         /\ execution' \in [Executions -> ExecutionRow \cup {None}]
         /\ CallInv'
         /\ \A d \in Executions \ {e} : run'[d] = run[d] /\ execution'[d] = execution[d]
<1>1. PICK x \in Run, row \in ExecutionRow \cup {None} :
        /\ CallShape(x) /\ RowShape(row, x)
        /\ run' = [run EXCEPT ![e] = x]
        /\ execution' = [execution EXCEPT ![e] = row]
  BY DEF Moves
<1>2. /\ run \in [Executions -> Run]
      /\ execution \in [Executions -> ExecutionRow \cup {None}]
      /\ \A d \in Executions : CallShape(run[d]) /\ RowShape(execution[d], run[d])
  BY DEF TypeInv, TypeOK, CallInv
<1>3. \A d \in Executions : CallShape(run'[d]) /\ RowShape(execution'[d], run'[d])
  BY <1>1, <1>2
<1> QED
  BY <1>1, <1>2, <1>3 DEF CallInv

\* What is known of the call of e and of its row.
LEMMA CallKnown ==
  ASSUME TypeInv, NEW e \in Executions
  PROVE  /\ run[e] \in Run /\ execution[e] \in ExecutionRow \cup {None}
         /\ CallShape(run[e]) /\ RowShape(execution[e], run[e])
         /\ run[e].executionPath \in Seq(StepIds)
         /\ Len(run[e].executionPath) \in Nat
         /\ DOMAIN run[e].executionPath = 1..Len(run[e].executionPath)
<1>1. /\ run[e] \in Run /\ execution[e] \in ExecutionRow \cup {None}
      /\ CallShape(run[e]) /\ RowShape(execution[e], run[e])
  BY DEF TypeInv, TypeOK, CallInv
<1>2. run[e].executionPath \in Seq(StepIds)
  BY <1>1 DEF Run
<1> QED
  BY <1>1, <1>2, LenProperties

\* A call that only goes to another point.
LEMMA GotoMoves ==
  ASSUME TypeInv, NEW e \in Executions, NEW p \in Points, Goto(e, p), UNCHANGED execution,
         p \notin {"save", "bill"}, p = "step" => At(e, "step"), p = "create" => FALSE,
         p = "idle" => FALSE, p = "complete" => FALSE,
         p = "agent" => FALSE,
         p = "fail" => run[e].at \in {"agent", "save", "complete"}
  PROVE  Moves(e)
<1> DEFINE x == [run[e] EXCEPT !.at = p]
<1>1. x \in Run
  BY CallKnown DEF Run
<1>2. CallShape(x) /\ RowShape(execution[e], x)
  BY CallKnown DEF CallShape, RowShape, Tells, At, Run, Points
<1>3. run' = [run EXCEPT ![e] = x] /\ execution' = [execution EXCEPT ![e] = execution[e]]
  BY DEF Goto, TypeInv, TypeOK
<1> QED
  BY <1>1, <1>2, <1>3, CallKnown DEF Moves

LEMMA ExecuteAgentMoves ==
  ASSUME TypeInv, NEW e \in Executions, NEW app \in Apps \cup {None}, ExecuteAgent(e, app)
  PROVE  Moves(e)
<1> DEFINE x == [run[e] EXCEPT !.at = "create", !.app = app]
<1>1. x \in Run
  BY CallKnown DEF Run, Points
<1>2. CallShape(x) /\ RowShape(execution[e], x)
  BY CallKnown DEF ExecuteAgent, At, CallShape, RowShape, Run
<1>3. run' = [run EXCEPT ![e] = x] /\ execution' = [execution EXCEPT ![e] = execution[e]]
  BY DEF ExecuteAgent, TypeInv, TypeOK
<1> QED
  BY <1>1, <1>2, <1>3, CallKnown DEF Moves

LEMMA CreateExecutionMoves ==
  ASSUME TypeInv, AgentAssumption, NEW e \in Executions, CreateExecution(e)
  PROVE  Moves(e)
<1> DEFINE x == [run[e] EXCEPT !.at = "agent"]
           row == [status |-> "RUNNING", executionPath |-> <<>>, stepResults |-> NoResults,
                   tokenUsage |-> 0]
<1>1. x \in Run
  BY CallKnown DEF Run, Points
<1>2. row \in ExecutionRow
  BY DEF ExecutionRow, Status, NoResults
<1>3. CallShape(x)
  BY CallKnown DEF CreateExecution, At, CallShape, Run
<1>4. RowShape(row, x)
  <2>1. x.at = "agent" /\ x.executionPath = <<>> /\ Len(<<>>) = 0 /\ DOMAIN <<>> = {}
    BY CallKnown DEF CreateExecution, At, CallShape, Run
  <2>2. Tells(row, x)
    BY <2>1 DEF Tells, Visited, NoResults
  <2>3. row # None /\ row.status = "RUNNING" /\ row.executionPath = <<>>
    BY <1>2 DEF AgentAssumption
  <2> QED
    BY <2>1, <2>2, <2>3 DEF RowShape
<1>5. run' = [run EXCEPT ![e] = x] /\ execution' = [execution EXCEPT ![e] = row]
  BY DEF CreateExecution, Goto
<1> QED
  BY <1>1, <1>2, <1>3, <1>4, <1>5 DEF Moves

LEMMA FindAgentMoves ==
  ASSUME TypeInv, AgentAssumption, NEW e \in Executions, FindAgent(e)
  PROVE  Moves(e)
<1>1. CASE Goto(e, "fail")
  BY <1>1, GotoMoves DEF FindAgent, At, Points
<1>2. ASSUME NEW q \in Listings,
             LET first == IF q = <<>> THEN None ELSE q[1]
             IN run' = [run EXCEPT ![e].at = Before(first), ![e].current = first,
                          ![e].steps = [i \in DOMAIN q |-> Listed(q[i])]]
      PROVE  Moves(e)
  <2> DEFINE first == IF q = <<>> THEN None ELSE q[1]
             steps == [i \in DOMAIN q |-> Listed(q[i])]
             x == [run[e] EXCEPT !.at = Before(first), !.current = first, !.steps = steps]
  <2>1. /\ q \in Seq(StepIds) /\ DOMAIN q = 1..Len(q) /\ Len(q) \in Nat
        /\ steps \in Seq(ListedStep)
    <3>1. TypeOK
      BY DEF TypeInv
    <3>2. q \in Seq(StepIds)
      BY <3>1, ListingTyped
    <3>3. steps \in Seq(ListedStep)
      BY <3>1, ListingTyped
    <3> QED
      BY <3>2, <3>3, LenProperties
  <2>2. \/ first = None /\ Before(first) = "complete"
        \/ first \in StepIds /\ Before(first) = "step" /\ IsListed(steps, first)
    <3>1. CASE q = <<>>
      BY <3>1 DEF Before
    <3>2. CASE q # <<>>
      <4>1. 1 \in DOMAIN q /\ first = q[1] /\ first \in StepIds
        BY <2>1, <3>2, EmptySeq, ElementOfSeq
      <4>2. steps[1].id = first /\ 1 \in DOMAIN steps
        BY <4>1 DEF Listed
      <4>3. first # None
        BY <4>1 DEF AgentAssumption
      <4> QED
        BY <4>1, <4>2, <4>3 DEF Before, IsListed
    <3> QED
      BY <3>1, <3>2
  <2> HIDE DEF steps, first
  <2>3. x \in Run
    BY <2>1, <2>2, CallKnown DEF Run, Points
  <2>4. CallShape(x) /\ RowShape(execution[e], x)
    <3>1. /\ x.executionPath = run[e].executionPath /\ x.stepResults = run[e].stepResults
          /\ x.at = Before(first) /\ x.current = first /\ x.steps = steps
          /\ run[e].at = "agent"
      BY <1>2, CallKnown DEF Run, FindAgent, At
    <3> QED
      BY <2>2, <3>1, CallKnown DEF CallShape, RowShape, Tells
  <2>5. run' = [run EXCEPT ![e] = x]
    BY <1>2 DEF steps, first
  <2>6. execution' = [execution EXCEPT ![e] = execution[e]]
    BY DEF FindAgent, TypeInv, TypeOK
  <2> QED
    BY <2>3, <2>4, <2>5, <2>6, CallKnown DEF Moves
<1> QED
  BY <1>1, <1>2 DEF FindAgent

LEMMA ExecuteStepMoves ==
  ASSUME TypeInv, AgentAssumption, NEW e \in Executions, ExecuteStep(e)
  PROVE  Moves(e)
<1>1. PICK result \in Results :
        run' = [run EXCEPT ![e].at = "save",
                           ![e].stepResults[run[e].current] = result,
                           ![e].executionPath = Append(@, run[e].current)]
  BY DEF ExecuteStep
<1> DEFINE c == run[e].current
           path == run[e].executionPath
           done == Append(path, c)
           x == [run[e] EXCEPT !.at = "save", !.stepResults = [@ EXCEPT ![c] = result],
                               !.executionPath = done]
<1>2. /\ c \in StepIds /\ IsListed(run[e].steps, c) /\ Len(path) < MaxPath
      /\ execution[e] # None /\ execution[e].status = "RUNNING"
      /\ execution[e].executionPath = path
  BY CallKnown DEF ExecuteStep, At, CallShape, RowShape
<1>3. path \in Seq(StepIds) /\ Len(path) \in Nat /\ DOMAIN path = 1..Len(path)
  BY CallKnown
<1>4. /\ done \in Seq(StepIds) /\ Len(done) = Len(path) + 1 /\ DOMAIN done = 1..Len(path) + 1
      /\ done[Len(path) + 1] = c /\ \A i \in 1..Len(path) : done[i] = path[i]
  BY <1>2, <1>3, AppendProperties, LenProperties
<1>5. run[e].stepResults \in [StepIds -> Results \cup {None}]
  BY CallKnown DEF Run
<1> HIDE DEF done
<1>6. x \in Run
  <2> DEFINE results == [run[e].stepResults EXCEPT ![c] = result]
  <2>1. results \in [StepIds -> Results \cup {None}]
    BY <1>2, <1>5
  <2>2. x = [run[e] EXCEPT !.at = "save", !.stepResults = results, !.executionPath = done]
    BY CallKnown DEF Run
  <2>3. run[e] \in Run
    BY CallKnown
  <2> HIDE DEF results, x
  <2> QED
    BY <1>4, <2>1, <2>2, <2>3 DEF Run, Points
<1>7. /\ x.at = "save" /\ x.current = c /\ x.executionPath = done /\ x.steps = run[e].steps
      /\ x.stepResults = [run[e].stepResults EXCEPT ![c] = result]
  BY CallKnown DEF Run
<1> HIDE DEF x
<1>8. CallShape(x)
  <2>1. result # None
    BY DEF AgentAssumption
  <2>2. ASSUME NEW s \in StepIds
        PROVE  x.stepResults[s] # None <=> Visited(done, s)
    <3>1. run[e].stepResults[s] # None <=> Visited(path, s)
      BY CallKnown DEF CallShape
    <3>2. Visited(done, s) <=> Visited(path, s) \/ s = c
      <4> HIDE DEF path, c
      <4>1. ASSUME Visited(done, s), s # c PROVE Visited(path, s)
        <5>1. PICK i \in 1..Len(path) + 1 : done[i] = s
          BY <1>4, <4>1 DEF Visited
        <5>2. i \in 1..Len(path)
          BY <1>3, <1>4, <4>1, <5>1
        <5> QED
          BY <1>3, <1>4, <5>1, <5>2 DEF Visited
      <4>2. ASSUME Visited(path, s) PROVE Visited(done, s)
        <5>1. PICK i \in 1..Len(path) : path[i] = s
          BY <1>3, <4>2 DEF Visited
        <5> QED
          BY <1>3, <1>4, <5>1 DEF Visited
      <4>3. Visited(done, c)
        BY <1>3, <1>4 DEF Visited
      <4> QED
        BY <4>1, <4>2, <4>3
    <3>3. x.stepResults[s] = IF s = c THEN result ELSE run[e].stepResults[s]
      BY <1>2, <1>5, <1>7
    <3> QED
      BY <2>1, <3>1, <3>2, <3>3
  <2>3. x.stepResults[c] # None
    BY <1>2, <1>5, <1>7, <2>1
  <2>4. Len(done) <= MaxPath
    BY <1>2, <1>3, <1>4 DEF AgentAssumption
  <2> QED
    BY <1>2, <1>7, <2>2, <2>3, <2>4 DEF CallShape
<1>9. RowShape(execution[e], x)
  <2>1. Tells(execution[e], run[e])
    BY <1>2, CallKnown DEF RowShape
  <2>2. Tells(execution[e], x)
    BY <1>2, <1>3, <1>4, <1>7, <2>1 DEF Tells
  <2> QED
    BY <1>2, <1>7, <2>2 DEF RowShape
<1>10. run' = [run EXCEPT ![e] = x]
  BY <1>1 DEF x, done
<1>11. execution' = [execution EXCEPT ![e] = execution[e]]
  BY DEF ExecuteStep, TypeInv, TypeOK
<1> QED
  BY <1>6, <1>8, <1>9, <1>10, <1>11, CallKnown DEF Moves

LEMMA SaveStepMoves ==
  ASSUME TypeInv, AgentAssumption, NEW e \in Executions, SaveStep(e)
  PROVE  Moves(e)
<1> DEFINE y == run[e]
           next == NextStep(y.steps, y.current, y.stepResults[y.current].status)
           x == [y EXCEPT !.at = Before(next), !.current = next]
           row == [execution[e] EXCEPT !.executionPath = y.executionPath,
                                       !.stepResults = y.stepResults]
<1>1. /\ y \in Run /\ y.at = "save" /\ y.current \in StepIds /\ IsListed(y.steps, y.current)
      /\ execution[e] \in ExecutionRow /\ execution[e] # None /\ execution[e].status = "RUNNING"
  BY CallKnown DEF SaveStep, At, CallShape, RowShape
<1>2. \/ next = None /\ Before(next) = "complete"
      \/ next \in StepIds /\ Before(next) = "step" /\ IsListed(y.steps, next)
  <2>1. y.steps \in Seq(ListedStep)
    BY <1>1 DEF Run
  <2>2. next = None \/ (next \in StepIds /\ IsListed(y.steps, next))
    BY <1>1, <2>1, NextStepListed
  <2> QED
    BY <2>2 DEF Before, AgentAssumption
<1> HIDE DEF next
<1>3. x \in Run
  BY <1>1, <1>2 DEF Run, Points
<1>4. row \in ExecutionRow
  BY <1>1 DEF Run, ExecutionRow
<1>5. /\ x.at = Before(next) /\ x.current = next /\ x.executionPath = y.executionPath
      /\ x.stepResults = y.stepResults /\ x.steps = y.steps /\ x.app = y.app
  BY <1>1 DEF Run
<1>6. /\ row.executionPath = y.executionPath /\ row.stepResults = y.stepResults
      /\ row.status = "RUNNING"
  BY <1>1 DEF ExecutionRow
<1>7. run' = [run EXCEPT ![e] = x] /\ execution' = [execution EXCEPT ![e] = row]
  BY DEF SaveStep, next
<1> HIDE DEF x, row
<1>8. CallShape(x)
  BY <1>2, <1>5, CallKnown DEF CallShape
<1>9. RowShape(row, x)
  <2>1. row # None
    BY <1>4 DEF AgentAssumption
  <2>2. Tells(row, x)
    <3>1. Len(y.executionPath) \in Nat /\ CallShape(y)
      BY CallKnown
    <3> HIDE DEF y
    <3> QED
      BY <1>5, <1>6, <3>1 DEF Tells, CallShape
  <2> QED
    BY <1>2, <1>5, <1>6, <2>1, <2>2 DEF RowShape
<1> QED
  BY <1>3, <1>4, <1>7, <1>8, <1>9 DEF Moves

LEMMA EndMoves ==
  ASSUME TypeInv, AgentAssumption, NEW e \in Executions, NEW point, NEW status,
         \/ point = "complete" /\ status = "COMPLETED"
         \/ point = "fail" /\ status = "FAILED",
         End(e, point, status)
  PROVE  Moves(e)
<1> DEFINE y == run[e]
           tokens == TotalTokenUsage(y.stepResults)
           x == [y EXCEPT !.at = AfterEnd(e)]
           row == [execution[e] EXCEPT !.status = status, !.tokenUsage = tokens]
<1>1. /\ y \in Run /\ y.at = point /\ CallShape(y) /\ RowShape(execution[e], y)
      /\ execution[e] \in ExecutionRow /\ execution[e] # None /\ Tells(execution[e], y)
  BY CallKnown DEF End, At, RowShape
<1>2. tokens \in Nat
  BY <1>1, TokensBounded
<1>3. AfterEnd(e) \in {"bill", "ended"} /\ (AfterEnd(e) = "bill" => y.app \in Apps)
  BY <1>1 DEF AfterEnd, Run
<1> HIDE DEF tokens
<1>4. x \in Run
  BY <1>1, <1>3 DEF Run, Points
<1>5. row \in ExecutionRow
  BY <1>1, <1>2 DEF ExecutionRow, Status
<1>6. /\ x.at = AfterEnd(e) /\ x.executionPath = y.executionPath
      /\ x.stepResults = y.stepResults /\ x.app = y.app
  BY <1>1 DEF Run
<1>7. /\ row.executionPath = execution[e].executionPath
      /\ row.stepResults = execution[e].stepResults
      /\ row.status = status /\ row.tokenUsage = tokens
  BY <1>1 DEF ExecutionRow
<1>8. run' = [run EXCEPT ![e] = x] /\ execution' = [execution EXCEPT ![e] = row]
  BY DEF End, Goto, tokens
<1> HIDE DEF x, row
<1>9. CallShape(x)
  BY <1>1, <1>3, <1>6 DEF CallShape
<1>10. RowShape(row, x)
  <2>1. row # None /\ row.status # "RUNNING"
    BY <1>5, <1>7 DEF AgentAssumption
  <2>2. Tells(row, x)
    <3>1. status = "COMPLETED" => execution[e].executionPath = y.executionPath
      BY <1>1 DEF RowShape
    <3> QED
      BY <1>1, <1>6, <1>7, <3>1 DEF Tells
  <2> QED
    BY <1>3, <1>6, <1>7, <2>1, <2>2 DEF RowShape, tokens
<1> QED
  BY <1>4, <1>5, <1>8, <1>9, <1>10 DEF Moves

LEMMA BillMoves ==
  ASSUME TypeInv, NEW e \in Executions, Goto(e, "ended"), UNCHANGED execution
  PROVE  Moves(e) /\ run'[e].at = "ended"
<1>1. run'[e] = [run[e] EXCEPT !.at = "ended"]
  BY DEF Goto, TypeInv, TypeOK
<1>2. run'[e].at = "ended"
  BY <1>1, CallKnown DEF Run
<1> QED
  BY <1>2, GotoMoves DEF Points

LEMMA QueryFailsMoves ==
  ASSUME TypeInv, NEW e \in Executions, QueryFails(e)
  PROVE  Moves(e)
<1>1. CASE run[e].at \in {"agent", "save", "complete"} /\ Goto(e, "fail")
  BY <1>1, GotoMoves DEF QueryFails, Points
<1>2. CASE run[e].at \in {"create", "fail", "bill"} /\ Goto(e, "ended")
  BY <1>2, BillMoves DEF QueryFails
<1> QED
  BY <1>1, <1>2 DEF QueryFails

LEMMA ContinueMoves ==
  ASSUME TypeInv, AgentAssumption, NEW e \in Executions, Continue(e)
  PROVE  Moves(e)
<1>1. CASE RecordAgentUsage(e)
  BY <1>1, BillMoves DEF RecordAgentUsage
<1> QED
  BY <1>1, CreateExecutionMoves, FindAgentMoves, ExecuteStepMoves, SaveStepMoves, EndMoves,
     QueryFailsMoves DEF Continue, Complete, Fail

\* The process dies: every call ends where it is, its row as it was.
LEMMA CrashKeeps ==
  ASSUME TypeInv, Crash
  PROVE  TypeInv'
<1>1. ASSUME NEW e \in Executions
      PROVE  run'[e] \in Run /\ CallShape(run'[e]) /\ RowShape(execution'[e], run'[e])
  <2>1. execution'[e] = execution[e] /\ run'[e] \in {run[e], [run[e] EXCEPT !.at = "ended"]}
    BY DEF Crash
  <2>2. CASE run'[e] = run[e]
    BY <2>1, <2>2, CallKnown
  <2>3. CASE run'[e] = [run[e] EXCEPT !.at = "ended"]
    <3>1. /\ run'[e] \in Run /\ run'[e].at = "ended"
          /\ run'[e].executionPath = run[e].executionPath
          /\ run'[e].stepResults = run[e].stepResults
      BY <2>3, CallKnown DEF Run, Points
    <3> QED
      BY <2>1, <3>1, CallKnown DEF CallShape, RowShape, Tells
  <2> QED
    BY <2>1, <2>2, <2>3
<1>2. run' \in [Executions -> Run]
  BY <1>1 DEF Crash
<1> QED
  BY <1>1, <1>2 DEF Crash, TypeInv, TypeOK, CallInv

-----------------------------------------------------------------------------
(* The types and the calls, step by step. *)

LEMMA InitTypeInv == ASSUME AgentAssumption, Init PROVE TypeInv
<1>1. IdleRun \in Run
  BY DEF IdleRun, Run, Points, NoResults
<1>2. CallShape(IdleRun) /\ RowShape(None, IdleRun)
  <2>1. Len(<<>>) = 0 /\ DOMAIN <<>> = {}
    OBVIOUS
  <2> QED
    BY <2>1 DEF IdleRun, CallShape, RowShape, NoResults, Visited, AgentAssumption
<1> QED
  BY <1>1, <1>2 DEF Init, TypeInv, TypeOK, CallInv

\* Billing keeps the types of the rows and of the balances.
LEMMA BillTyped ==
  ASSUME TypeInv, AgentAssumption, NEW e \in Executions, RecordAgentUsage(e)
  PROVE  /\ usage' \subseteq [execution : Executions, app : Apps, tokens : Nat]
         /\ balance' \in [Apps -> Int]
<1> DEFINE tokens == TotalTokenUsage(run[e].stepResults)
<1>1. run[e].app \in Apps /\ tokens \in Nat
  BY CallKnown, TokensBounded DEF RecordAgentUsage, At, CallShape
<1> HIDE DEF tokens
<1>2. usage' \in {usage, usage \cup {[execution |-> e, app |-> run[e].app, tokens |-> tokens]}}
      /\ balance' \in {balance, [balance EXCEPT ![run[e].app] = @ - tokens]}
  BY DEF RecordAgentUsage, tokens
<1> QED
  BY <1>1, <1>2 DEF TypeInv, TypeOK

LEMMA NextTypeInv == ASSUME AgentAssumption, TypeInv, [Next]_vars PROVE TypeInv'
<1>1. ASSUME NEW e \in Executions, NEW app \in Apps \cup {None}, ExecuteAgent(e, app)
      PROVE  TypeInv'
  BY <1>1, ExecuteAgentMoves, MovesKeep DEF ExecuteAgent, TypeInv, TypeOK
<1>2. ASSUME NEW e \in Executions, Continue(e) PROVE TypeInv'
  <2>1. CASE RecordAgentUsage(e)
    BY <1>2, <2>1, ContinueMoves, MovesKeep, BillTyped DEF RecordAgentUsage, TypeInv, TypeOK
  <2>2. CASE ~RecordAgentUsage(e)
    <3>1. UNCHANGED <<agentExists, step, usage, balance>>
      BY <1>2, <2>2 DEF Continue, CreateExecution, FindAgent, ExecuteStep, SaveStep, Complete,
         Fail, End, QueryFails
    <3> QED
      BY <1>2, <3>1, ContinueMoves, MovesKeep DEF TypeInv, TypeOK
  <2> QED
    BY <2>1, <2>2
<1>3. CASE Edit
  <2>1. /\ step \in [StepIds -> StepRow \cup {None}] /\ agentExists \in BOOLEAN
        /\ \/ step' = [s \in StepIds |-> None]
           \/ \E s \in StepIds, row \in StepRow \cup {None} : step' = [step EXCEPT ![s] = row]
        /\ agentExists' \in {FALSE, agentExists}
    BY <1>3 DEF Edit, AddStep, UpdateStep, DeleteStep, DeleteAgent, TypeInv, TypeOK
  <2>3. step' \in [StepIds -> StepRow \cup {None}]
    <3>1. CASE step' = [s \in StepIds |-> None]
      BY <3>1
    <3>2. ASSUME NEW s \in StepIds, NEW row \in StepRow \cup {None}, step' = [step EXCEPT ![s] = row]
          PROVE  step' \in [StepIds -> StepRow \cup {None}]
      BY <2>1, <3>2
    <3> QED
      BY <2>1, <3>1, <3>2
  <2>4. agentExists' \in BOOLEAN
    BY <2>1
  <2>2. UNCHANGED <<execution, run, usage, balance>>
    BY <1>3 DEF Edit, AddStep, UpdateStep, DeleteStep, DeleteAgent
  <2> QED
    BY <2>2, <2>3, <2>4 DEF TypeInv, TypeOK, CallInv
<1>4. CASE Crash
  BY <1>4, CrashKeeps
<1>5. CASE UNCHANGED vars
  BY <1>5 DEF vars, TypeInv, TypeOK, CallInv
<1> QED
  BY <1>1, <1>2, <1>3, <1>4, <1>5 DEF Next

(* The rows and the calls of AgentExecution have their types. *)
THEOREM TypeCorrect == Spec => []TypeOK
<1>1. Init => TypeInv
  BY InitTypeInv, AgentAssumption
<1>2. TypeInv /\ [Next]_vars => TypeInv'
  BY NextTypeInv, AgentAssumption
<1>3. TypeInv => TypeOK
  BY DEF TypeInv
<1> QED
  BY <1>1, <1>2, <1>3, PTL DEF Spec

\* A row that tells of its call in the sense of the invariant does so in that
\* of the property.
LEMMA TellsTheRun ==
  ASSUME TypeInv, NEW e \in Executions, execution[e] # None
  PROVE  LET saved == execution[e].executionPath
             done == run[e].executionPath
         IN /\ saved = SubSeq(done, 1, Len(saved))
            /\ Len(saved) >= Len(done) - 1
            /\ execution[e].status = "COMPLETED" => saved = done
            /\ \A s \in StepIds : (execution[e].stepResults[s] # None)
                                     <=> \E i \in DOMAIN saved : saved[i] = s
<1> DEFINE saved == execution[e].executionPath
           done == run[e].executionPath
<1>1. Tells(execution[e], run[e])
  BY CallKnown DEF RowShape
<1>2. saved \in Seq(StepIds) /\ done \in Seq(StepIds) /\ Len(saved) \in Nat /\ Len(done) \in Nat
  <2>1. saved \in Seq(StepIds) /\ done \in Seq(StepIds)
    BY CallKnown DEF ExecutionRow
  <2> QED
    BY <2>1, LenProperties
<1>3. saved = SubSeq(done, 1, Len(saved))
  <2> DEFINE sub == SubSeq(done, 1, Len(saved))
  <2>1. \A i \in 1..Len(saved) : done[i] \in StepIds
    BY <1>1, <1>2, ElementOfSeq DEF Tells
  <2>2. sub \in Seq(StepIds) /\ Len(sub) = Len(saved)
        /\ \A i \in 1..Len(saved) : sub[i] = done[i]
    BY <1>2, <2>1, SubSeqProperties
  <2>3. \A i \in 1..Len(saved) : saved[i] = sub[i]
    BY <1>1, <2>2 DEF Tells
  <2> HIDE DEF sub, saved
  <2>4. saved = sub
    BY <1>2, <2>2, <2>3, SeqEqual
  <2> QED
    BY <2>4 DEF sub
<1> QED
  BY <1>1, <1>3 DEF Tells, Visited

(* Whatever query fails and whenever the process crashes, the row of an      *)
(* execution tells of every step that was run, but the last one perhaps.     *)
THEOREM RowsTellTheRun == Spec => []RowTellsTheRun
<1>1. Init => TypeInv
  BY InitTypeInv, AgentAssumption
<1>2. TypeInv /\ [Next]_vars => TypeInv'
  BY NextTypeInv, AgentAssumption
<1>3. TypeInv => RowTellsTheRun
  BY TellsTheRun DEF RowTellsTheRun
<1> QED
  BY <1>1, <1>2, <1>3, PTL DEF Spec

-----------------------------------------------------------------------------
(* Billing.                                                                  *)

\* The tokens paid by a finite number of rows can be counted.
LEMMA PaidFinite ==
  ASSUME NEW rows, IsFiniteSet(rows), NEW a, MaxPath \in Nat
  PROVE  IsFiniteSet(PaidTokens(rows, a)) /\ Cardinality(PaidTokens(rows, a)) \in Nat
<1>0. 1 \in Int /\ MaxPath \in Int
  OBVIOUS
<1>1. IsFiniteSet(rows \X (1..MaxPath))
  <2>1. IsFiniteSet(1..MaxPath)
    BY <1>0, FS_Interval
  <2> DEFINE I == 1..MaxPath
  <2> HIDE DEF I
  <2>2. IsFiniteSet(I)
    BY <2>1 DEF I
  <2>3. IsFiniteSet(rows \X I)
    BY <2>2, FS_Product
  <2> QED
    BY <2>3 DEF I
<1>2. PaidTokens(rows, a) \in SUBSET (rows \X (1..MaxPath))
  BY DEF PaidTokens
<1> QED
  BY <1>1, <1>2, FS_Subset, FS_CardinalityType

\* A new row adds its tokens to those its application paid.
LEMMA OneMoreCharge ==
  ASSUME NEW rows, IsFiniteSet(rows), MaxPath \in Nat, NEW u, u \notin rows,
         u.tokens \in 0..MaxPath, NEW a
  PROVE  Cardinality(PaidTokens(rows \cup {u}, a)) =
           Cardinality(PaidTokens(rows, a)) + (IF u.app = a THEN u.tokens ELSE 0)
<1> DEFINE P == PaidTokens(rows, a)
           Q == PaidTokens(rows \cup {u}, a)
           T == {u} \X (1..u.tokens)
<1>1. IsFiniteSet(P) /\ Cardinality(P) \in Nat
  BY PaidFinite
<1>2. CASE u.app # a
  <2>1. Q = P
    BY <1>2 DEF PaidTokens
  <2> QED
    BY <1>1, <1>2, <2>1
<1>3. CASE u.app = a
  <2>1. IsFiniteSet({u}) /\ Cardinality({u}) = 1
    BY FS_Singleton
  <2>2. PICK n : n = u.tokens
    OBVIOUS
  <2>3. IsFiniteSet(T) /\ Cardinality(T) = u.tokens
    <3> DEFINE I == 1..n
               S == {u}
    <3>1. n \in Nat /\ 1 \in Int /\ n \in Int
      BY <2>2
    <3>2. IsFiniteSet(I) /\ Cardinality(I) = n
      <4>1. IsFiniteSet(1..n) /\ Cardinality(1..n) = IF 1 > n THEN 0 ELSE n - 1 + 1
        BY <3>1, FS_Interval
      <4> QED
        BY <3>1, <4>1
    <3>3. T = S \X I
      BY <2>2
    <3> HIDE DEF I, S, T
    <3>4. IsFiniteSet(S \X I) /\ Cardinality(S \X I) = 1 * n
      BY <2>1, <3>2, FS_Product DEF S
    <3> QED
      BY <2>2, <3>1, <3>3, <3>4
  <2>4. Q = P \cup T
    <3>1. ASSUME NEW p \in Q PROVE p \in P \cup T
      BY <1>3, <3>1 DEF PaidTokens
    <3>2. ASSUME NEW p \in P PROVE p \in Q
      BY <3>2 DEF PaidTokens
    <3>3. ASSUME NEW p \in T PROVE p \in Q
      BY <1>3, <3>3 DEF PaidTokens
    <3> QED
      BY <3>1, <3>2, <3>3
  <2>5. P \cap T = {}
    BY DEF PaidTokens
  <2> HIDE DEF P, Q, T
  <2>6. Cardinality(Q) = Cardinality(P) + Cardinality(T) - Cardinality(P \cap T)
    BY <1>1, <2>3, <2>4, FS_Union
  <2>7. Cardinality(P \cap T) = 0
    BY <2>5, FS_EmptySet
  <2>8. Cardinality(Q) = Cardinality(P) + u.tokens
    BY <1>1, <2>3, <2>6, <2>7
  <2> QED
    BY <1>3, <2>8 DEF P, Q
<1> QED
  BY <1>2, <1>3

\* Steps of a call that has not ended leave the rows of the others alone.
LEMMA UnbilledKeeps ==
  ASSUME TypeInv, BillInv, NEW e \in Executions, ~At(e, "ended"), Moves(e),
         UNCHANGED <<usage, balance>>
  PROVE  BillInv'
<1>1. ASSUME NEW u \in usage
      PROVE  run'[u.execution] = run[u.execution] /\ execution'[u.execution] = execution[u.execution]
  <2>1. u.execution \in Executions \ {e}
    BY DEF BillInv, TypeInv, TypeOK
  <2> QED
    BY <2>1, MovesKeep
<1> QED
  BY <1>1 DEF BillInv, At

LEMMA BillKeeps ==
  ASSUME AgentAssumption, TypeInv, BillInv, NEW e \in Executions, RecordAgentUsage(e)
  PROVE  BillInv'
<1> DEFINE tokens == TotalTokenUsage(run[e].stepResults)
           u == [execution |-> e, app |-> run[e].app, tokens |-> tokens]
<1>0. MaxPath \in Nat
  BY DEF AgentAssumption
<1>1. /\ At(e, "bill") /\ Goto(e, "ended") /\ UNCHANGED execution
      /\ Moves(e) /\ run'[e].at = "ended"
  BY BillMoves DEF RecordAgentUsage
<1>2. /\ run[e].app \in Apps /\ execution[e] # None /\ execution[e].status # "RUNNING"
      /\ execution[e].tokenUsage = tokens /\ tokens \in 0..MaxPath
  BY <1>1, CallKnown, TokensBounded DEF At, CallShape, RowShape
<1> HIDE DEF tokens
<1>3. CASE UNCHANGED <<usage, balance>>
  BY <1>1, <1>3, UnbilledKeeps DEF At
<1>4. CASE /\ usage' = usage \cup {u}
           /\ balance' = [balance EXCEPT ![run[e].app] = @ - tokens]
  <2>1. \A v \in usage : v.execution \in Executions \ {e}
    BY <1>1 DEF BillInv, TypeInv, TypeOK, At
  <2>2. u \notin usage /\ u.execution = e /\ u.app = run[e].app /\ u.tokens = tokens
    BY <2>1
  <2>3. \A v \in usage : /\ run'[v.execution] = run[v.execution]
                         /\ execution'[v.execution] = execution[v.execution]
    BY <1>1, <2>1, MovesKeep
  <2>4. IsFiniteSet(usage')
    BY <1>4, FS_AddElement DEF BillInv
  <2>5. \A v, w \in usage' : v.execution = w.execution => v = w
    BY <1>4, <2>1, <2>2 DEF BillInv
  <2>6. \A v \in usage' : /\ At(v.execution, "ended")'
                          /\ execution'[v.execution] # None
                          /\ execution'[v.execution].status # "RUNNING"
                          /\ execution'[v.execution].tokenUsage = v.tokens
    <3>1. ASSUME NEW v \in usage
          PROVE  /\ run'[v.execution].at = "ended"
                 /\ execution'[v.execution] # None
                 /\ execution'[v.execution].status # "RUNNING"
                 /\ execution'[v.execution].tokenUsage = v.tokens
      BY <2>3 DEF BillInv, At
    <3>2. /\ run'[u.execution].at = "ended"
          /\ execution'[u.execution] # None
          /\ execution'[u.execution].status # "RUNNING"
          /\ execution'[u.execution].tokenUsage = u.tokens
      BY <1>1, <1>2, <2>2
    <3> HIDE DEF u
    <3> QED
      BY <1>4, <3>1, <3>2 DEF At
  <2>7. ASSUME NEW a \in Apps PROVE -balance'[a] = Cardinality(PaidTokens(usage', a))
    <3>1. Cardinality(PaidTokens(usage', a)) =
            Cardinality(PaidTokens(usage, a)) + (IF u.app = a THEN u.tokens ELSE 0)
      <4>1. PICK rows, w : rows = usage /\ w = u
        OBVIOUS
      <4>2. IsFiniteSet(rows) /\ w \notin rows /\ w.tokens \in 0..MaxPath
        BY <1>2, <2>2, <4>1 DEF BillInv
      <4>3. Cardinality(PaidTokens(rows \cup {w}, a)) =
              Cardinality(PaidTokens(rows, a)) + (IF w.app = a THEN w.tokens ELSE 0)
        BY <1>0, <4>2, OneMoreCharge
      <4> HIDE DEF u
      <4>4. usage' = rows \cup {w}
        BY <1>4, <4>1
      <4> QED
        BY <4>1, <4>3, <4>4
    <3>2. Cardinality(PaidTokens(usage, a)) \in Nat /\ -balance[a] = Cardinality(PaidTokens(usage, a))
      BY <1>0, PaidFinite DEF BillInv
    <3>3. balance'[a] = IF run[e].app = a THEN balance[a] - tokens ELSE balance[a]
      BY <1>4 DEF TypeInv, TypeOK
    <3>4. balance[a] \in Int /\ tokens \in Nat
      BY <1>2 DEF TypeInv, TypeOK
    <3> HIDE DEF u
    <3> QED
      BY <2>2, <3>1, <3>2, <3>3, <3>4
  <2> QED
    BY <2>4, <2>5, <2>6, <2>7 DEF BillInv
<1> QED
  BY <1>3, <1>4 DEF RecordAgentUsage, tokens

LEMMA NextBillInv == ASSUME AgentAssumption, TypeInv, BillInv, [Next]_vars PROVE BillInv'
<1>1. ASSUME NEW e \in Executions, NEW app \in Apps \cup {None}, ExecuteAgent(e, app)
      PROVE  BillInv'
  BY <1>1, ExecuteAgentMoves, UnbilledKeeps DEF ExecuteAgent, At
<1>2. ASSUME NEW e \in Executions, Continue(e) PROVE BillInv'
  <2>1. CASE RecordAgentUsage(e)
    BY <2>1, BillKeeps
  <2>2. CASE ~RecordAgentUsage(e)
    <3>1. UNCHANGED <<usage, balance>> /\ ~At(e, "ended")
      BY <1>2, <2>2 DEF Continue, CreateExecution, FindAgent, ExecuteStep, SaveStep, Complete,
         Fail, End, QueryFails, At
    <3> QED
      BY <1>2, <3>1, ContinueMoves, UnbilledKeeps
  <2> QED
    BY <2>1, <2>2
<1>3. CASE Edit \/ UNCHANGED vars
  <2>1. UNCHANGED <<execution, run, usage, balance>>
    BY <1>3 DEF Edit, AddStep, UpdateStep, DeleteStep, DeleteAgent, vars
  <2> QED
    BY <2>1 DEF BillInv, At
<1>4. CASE Crash
  <2>1. UNCHANGED <<execution, usage, balance>>
    BY <1>4 DEF Crash
  <2>2. \A e \in Executions : At(e, "ended") => At(e, "ended")'
    BY <1>4, CallKnown DEF Crash, At, Run
  <2>3. \A u \in usage : u.execution \in Executions
    BY DEF TypeInv, TypeOK
  <2> QED
    BY <2>1, <2>2, <2>3 DEF BillInv
<1> QED
  BY <1>1, <1>2, <1>3, <1>4 DEF Next

LEMMA Invariant == Spec => [](TypeInv /\ BillInv)
<1>1. Init => TypeInv
  BY InitTypeInv, AgentAssumption
<1>2. Init => BillInv
  <2> SUFFICES ASSUME Init PROVE BillInv
    OBVIOUS
  <2>1. \A a \in Apps : PaidTokens(usage, a) = {} /\ balance[a] = 0
    BY DEF Init, PaidTokens
  <2> QED
    BY <2>1, FS_EmptySet DEF Init, BillInv
<1>3. TypeInv /\ BillInv /\ [Next]_vars => (TypeInv /\ BillInv)'
  BY NextTypeInv, NextBillInv, AgentAssumption
<1> QED
  BY <1>1, <1>2, <1>3, PTL DEF Spec

(* An application pays once for an execution, what its closed row reports,   *)
(* and its balance is what it paid.                                          *)
THEOREM BillsMatchTheRows == Spec => []BilledAsReported
<1>1. BillInv => BilledAsReported
  BY DEF BillInv, BilledAsReported
<1> QED
  BY <1>1, Invariant, PTL

(* Once an update closed the row of an execution, no step of its call, no    *)
(* edit of its agent and no crash changes the row.                           *)
THEOREM ClosedRowsAreFinal == Spec => ClosedRowsStayClosed
<1>1. TypeInv /\ [Next]_vars =>
        [\A e \in Executions :
           execution[e] # None /\ execution[e].status # "RUNNING"
           => execution'[e] = execution[e]]_vars
  <2> SUFFICES ASSUME TypeInv, Next, NEW d \in Executions,
                      execution[d] # None, execution[d].status # "RUNNING"
               PROVE  execution'[d] = execution[d]
    BY DEF vars
  <2>1. run[d].at \in {"bill", "ended"}
    BY CallKnown DEF RowShape, Run, Points
  <2>2. ASSUME NEW e \in Executions, Continue(e) PROVE execution'[d] = execution[d]
    <3>1. CASE e = d
      BY <2>1, <2>2, <3>1 DEF Continue, CreateExecution, FindAgent, ExecuteStep, SaveStep,
         Complete, Fail, End, RecordAgentUsage, QueryFails, At
    <3>2. CASE e # d
      BY <2>2, <3>2, ContinueMoves, MovesKeep, AgentAssumption
    <3> QED
      BY <3>1, <3>2
  <2>3. ASSUME NEW e \in Executions, NEW app \in Apps \cup {None}, ExecuteAgent(e, app)
        PROVE  execution'[d] = execution[d]
    BY <2>3 DEF ExecuteAgent
  <2>4. Edit \/ Crash => UNCHANGED execution
    BY DEF Edit, AddStep, UpdateStep, DeleteStep, DeleteAgent, Crash
  <2> QED
    BY <2>2, <2>3, <2>4 DEF Next
<1> QED
  BY <1>1, Invariant, PTL DEF Spec, ClosedRowsStayClosed
=============================================================================
