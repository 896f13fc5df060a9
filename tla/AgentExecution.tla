--------------------------- MODULE AgentExecution ---------------------------
(***************************************************************************)
(* Running a workflow agent: AgentExecutionService.executeAgent, the        *)
(* requests of AgentService that start it and the ones that edit the agent  *)
(* meanwhile (src/intelligence/agent).                                      *)
(*                                                                          *)
(* An execution reads the steps of its agent once, then runs one step after *)
(* another and saves its progress in its AgentExecution row after each.     *)
(* What a step computes is abstracted to its outcome and the tokens it used.*)
(* Any query may fail and the process may crash between any two of them.    *)
(***************************************************************************)
EXTENDS Integers, Sequences, FiniteSets

CONSTANTS
    StepIds,     \* identities of AgentStep rows
    Targets,     \* bound: the values nextOnSuccess and nextOnFailure take
    Orders,      \* bound: the values AgentStep.order takes
    Executions,  \* identities of AgentExecution rows
    Apps,        \* applications with an API key
    MaxPath,     \* bound: the length of an execution path
    None

VARIABLES
    agentExists,  \* the Agent row
    step,         \* step[s]: row of AgentStep, or None
    execution,    \* execution[e]: row of AgentExecution, or None
    run,          \* run[e]: the call of executeAgent that e belongs to
    usage,        \* rows of ApplicationUsage
    balance       \* Application.balance, in token prices

vars == <<agentExists, step, execution, run, usage, balance>>

StepRow == [order : Orders, nextOnSuccess : Targets, nextOnFailure : Targets]

\* What executeStep returns: the tokens of a success, or a failure without any.
Results == {[status |-> "SUCCESS", tokens |-> 0], [status |-> "SUCCESS", tokens |-> 1],
            [status |-> "FAILURE", tokens |-> 0]}

Status == {"RUNNING", "COMPLETED", "FAILED"}

ExecutionRow == [status : Status, executionPath : Seq(StepIds),
                 stepResults : [StepIds -> Results \cup {None}], tokenUsage : Nat]

Points == {"idle", "create", "agent", "step", "save", "complete", "fail", "bill", "ended"}

ListedStep == [id : StepIds, nextOnSuccess : Targets, nextOnFailure : Targets]

Run == [at : Points, app : Apps \cup {None}, steps : Seq(ListedStep),
        current : StepIds \cup {None}, executionPath : Seq(StepIds),
        stepResults : [StepIds -> Results \cup {None}]]

ASSUME AgentAssumption ==
    /\ Orders \subseteq Int
    /\ Targets \subseteq StepIds \cup {None}
    /\ MaxPath \in Nat
    /\ IsFiniteSet(StepIds)
    /\ None \notin StepIds \cup Apps \cup Results
    /\ None \notin StepRow /\ None \notin ExecutionRow

NoResults == [s \in StepIds |-> None]

IdleRun == [at |-> "idle", app |-> None, steps |-> <<>>, current |-> None,
            executionPath |-> <<>>, stepResults |-> NoResults]

Init ==
    /\ agentExists = TRUE
    /\ step \in [StepIds -> StepRow \cup {None}]
    /\ execution = [e \in Executions |-> None]
    /\ run = [e \in Executions |-> IdleRun]
    /\ usage = {}
    /\ balance = [a \in Apps |-> 0]

-----------------------------------------------------------------------------
At(e, point) == run[e].at = point

Goto(e, point) == run' = [run EXCEPT ![e].at = point]

\* calculateTotalTokenUsage: one result per step id.
TotalTokenUsage(results) ==
    Cardinality({s \in StepIds : results[s] # None /\ results[s].tokens = 1})

\* Mutant: a failed step without a named successor is run again.
NextStepRetry(steps, current, status) ==
    LET i == CHOOSE k \in DOMAIN steps : steps[k].id = current
        target == IF status = "SUCCESS" THEN steps[i].nextOnSuccess
                                        ELSE steps[i].nextOnFailure
    IN IF target # None
       THEN IF \E k \in DOMAIN steps : steps[k].id = target THEN target ELSE None
       ELSE IF status = "FAILURE" THEN current
       ELSE IF i < Len(steps) THEN steps[i + 1].id ELSE None

\* getNextStep: the step the outcome names, if it is listed; without a name
\* the next step in order, after a success and after a failure alike.
NextStep(steps, current, status) ==
    LET i == CHOOSE k \in DOMAIN steps : steps[k].id = current
        target == IF status = "SUCCESS" THEN steps[i].nextOnSuccess
                                        ELSE steps[i].nextOnFailure
    IN IF target # None
       THEN IF \E k \in DOMAIN steps : steps[k].id = target THEN target ELSE None
       ELSE IF i < Len(steps) THEN steps[i + 1].id ELSE None

\* The steps of the agent, orderBy order asc; equal orders in any sequence.
Listings ==
    LET present == {s \in StepIds : step[s] # None}
    IN {q \in [1..Cardinality(present) -> present] :
          \A i, j \in DOMAIN q : i < j => /\ q[i] # q[j]
                                          /\ step[q[i]].order <= step[q[j]].order}

\* Mutant: a missing nextOnFailure is read as a marker that names no step.
ListedStop(s) == [id |-> s, nextOnSuccess |-> step[s].nextOnSuccess,
                  nextOnFailure |-> IF step[s].nextOnFailure = None THEN "stop"
                                    ELSE step[s].nextOnFailure]

Listed(s) == [id |-> s, nextOnSuccess |-> step[s].nextOnSuccess,
              nextOnFailure |-> step[s].nextOnFailure]

\* Where a run stands when its current step is s.
Before(s) == IF s = None THEN "complete" ELSE "step"

\* An API key's application pays for the tokens; the owner's own call is free.
AfterEnd(e) ==
    IF run[e].app # None /\ TotalTokenUsage(run[e].stepResults) > 0 THEN "bill" ELSE "ended"

-----------------------------------------------------------------------------
\* AgentService: the owner, or the application of an API key, finds the agent.
ExecuteAgent(e, app) ==
    /\ At(e, "idle")
    /\ agentExists
    /\ run' = [run EXCEPT ![e].at = "create", ![e].app = app]
    /\ UNCHANGED <<agentExists, step, execution, usage, balance>>

CreateExecution(e) ==
    /\ At(e, "create")
    /\ execution' = [execution EXCEPT ![e] =
            [status |-> "RUNNING", executionPath |-> <<>>, stepResults |-> NoResults,
             tokenUsage |-> 0]]
    /\ Goto(e, "agent")
    /\ UNCHANGED <<agentExists, step, usage, balance>>

\* The only read of the steps; the agent may have been deleted by now.
FindAgent(e) ==
    /\ At(e, "agent")
    /\ \/ /\ agentExists
          /\ \E q \in Listings :
               LET first == IF q = <<>> THEN None ELSE q[1]
               IN run' = [run EXCEPT ![e].at = Before(first), ![e].current = first,
                            ![e].steps = [i \in DOMAIN q |-> Listed(q[i])]]
       \/ ~agentExists /\ Goto(e, "fail")
    /\ UNCHANGED <<agentExists, step, execution, usage, balance>>

\* A step may repeat; stepResults keeps its last result, executionPath each turn.
ExecuteStep(e) ==
    /\ At(e, "step")
    /\ Len(run[e].executionPath) < MaxPath
    /\ \E result \in Results :
         run' = [run EXCEPT ![e].at = "save",
                            ![e].stepResults[run[e].current] = result,
                            ![e].executionPath = Append(@, run[e].current)]
    /\ UNCHANGED <<agentExists, step, execution, usage, balance>>

\* Mutant: the progress is saved only while another step follows.
SaveStepBetween(e) ==
    /\ At(e, "save")
    /\ LET x == run[e]
           next == NextStep(x.steps, x.current, x.stepResults[x.current].status)
       IN /\ execution' = IF next = None THEN execution
                          ELSE [execution EXCEPT ![e].executionPath = x.executionPath,
                                                 ![e].stepResults = x.stepResults]
          /\ run' = [run EXCEPT ![e].at = Before(next), ![e].current = next]
    /\ UNCHANGED <<agentExists, step, usage, balance>>

\* The row is updated, and the next step determined.
SaveStep(e) ==
    /\ At(e, "save")
    /\ LET x == run[e]
           next == NextStep(x.steps, x.current, x.stepResults[x.current].status)
       IN /\ execution' = [execution EXCEPT ![e].executionPath = x.executionPath,
                                            ![e].stepResults = x.stepResults]
          /\ run' = [run EXCEPT ![e].at = Before(next), ![e].current = next]
    /\ UNCHANGED <<agentExists, step, usage, balance>>

\* The final update: COMPLETED when the steps are done, FAILED from the catch.
End(e, point, status) ==
    /\ At(e, point)
    /\ execution' = [execution EXCEPT ![e].status = status,
                        ![e].tokenUsage = TotalTokenUsage(run[e].stepResults)]
    /\ Goto(e, AfterEnd(e))
    /\ UNCHANGED <<agentExists, step, usage, balance>>

Complete(e) == End(e, "complete", "COMPLETED")

Fail(e) == End(e, "fail", "FAILED")

\* Mutant: two writes without a transaction, of which the second may fail.
RecordAgentUsageHalf(e) ==
    /\ At(e, "bill")
    /\ LET tokens == TotalTokenUsage(run[e].stepResults)
       IN /\ usage' = usage \cup {[execution |-> e, app |-> run[e].app, tokens |-> tokens]}
          /\ balance' \in {balance, [balance EXCEPT ![run[e].app] = @ - tokens]}
    /\ Goto(e, "ended")
    /\ UNCHANGED <<agentExists, step, execution>>

\* recordAgentUsage: a transaction, or nothing when the model has no price.
RecordAgentUsage(e) ==
    /\ At(e, "bill")
    /\ LET tokens == TotalTokenUsage(run[e].stepResults)
       IN \/ /\ usage' = usage \cup {[execution |-> e, app |-> run[e].app, tokens |-> tokens]}
             /\ balance' = [balance EXCEPT ![run[e].app] = @ - tokens]
          \/ UNCHANGED <<usage, balance>>
    /\ Goto(e, "ended")
    /\ UNCHANGED <<agentExists, step, execution>>

\* Mutant: the billing is inside the try block.
QueryFailsBilling(e) ==
    /\ \/ run[e].at \in {"agent", "save", "complete", "bill"} /\ Goto(e, "fail")
       \/ run[e].at \in {"create", "fail"} /\ Goto(e, "ended")
    /\ UNCHANGED <<agentExists, step, execution, usage, balance>>

\* A query throws.  Inside the try block this leads to the FAILED update; the
\* first query is before the block, and the FAILED update and the billing are
\* after it: there the call ends.
QueryFails(e) ==
    /\ \/ run[e].at \in {"agent", "save", "complete"} /\ Goto(e, "fail")
       \/ run[e].at \in {"create", "fail", "bill"} /\ Goto(e, "ended")
    /\ UNCHANGED <<agentExists, step, execution, usage, balance>>

\* The process dies with every call in it; nothing resumes them.
Crash ==
    /\ run' = [e \in Executions |->
                 IF At(e, "idle") THEN run[e] ELSE [run[e] EXCEPT !.at = "ended"]]
    /\ UNCHANGED <<agentExists, step, execution, usage, balance>>

-----------------------------------------------------------------------------
(* The editor of the agent. *)

AddStep(s, row) ==
    /\ agentExists
    /\ step[s] = None
    /\ step' = [step EXCEPT ![s] = row]
    /\ UNCHANGED <<agentExists, execution, run, usage, balance>>

UpdateStep(s, row) ==
    /\ agentExists
    /\ step[s] # None
    /\ step' = [step EXCEPT ![s] = row]
    /\ UNCHANGED <<agentExists, execution, run, usage, balance>>

\* Nothing clears the nextOnSuccess and nextOnFailure that name the step.
DeleteStep(s) ==
    /\ agentExists
    /\ step[s] # None
    /\ step' = [step EXCEPT ![s] = None]
    /\ UNCHANGED <<agentExists, execution, run, usage, balance>>

\* One transaction; the executions of the agent stay.
DeleteAgent ==
    /\ agentExists
    /\ agentExists' = FALSE
    /\ step' = [s \in StepIds |-> None]
    /\ UNCHANGED <<execution, run, usage, balance>>

-----------------------------------------------------------------------------
Continue(e) ==
    \/ CreateExecution(e)
    \/ FindAgent(e)
    \/ ExecuteStep(e)
    \/ SaveStep(e)
    \/ Complete(e)
    \/ Fail(e)
    \/ RecordAgentUsage(e)
    \/ QueryFails(e)

Edit ==
    \/ \E s \in StepIds, row \in StepRow : AddStep(s, row) \/ UpdateStep(s, row)
    \/ \E s \in StepIds : DeleteStep(s)
    \/ DeleteAgent

Next ==
    \/ \E e \in Executions, app \in Apps \cup {None} : ExecuteAgent(e, app)
    \/ \E e \in Executions : Continue(e)
    \/ Edit
    \/ Crash

Spec == Init /\ [][Next]_vars

\* Every awaited query and step eventually answers or throws.
FairSpec == Spec /\ \A e \in Executions : WF_vars(Continue(e))

-----------------------------------------------------------------------------
(* The types of the rows and of the calls. *)
TypeOK ==
    /\ agentExists \in BOOLEAN
    /\ step \in [StepIds -> StepRow \cup {None}]
    /\ execution \in [Executions -> ExecutionRow \cup {None}]
    /\ run \in [Executions -> Run]
    /\ usage \subseteq [execution : Executions, app : Apps, tokens : Nat]
    /\ balance \in [Apps -> Int]

(* Whatever query failed or crash came: a completed row tells of every step  *)
(* that was run, and any row tells of all but the last one at least.         *)
RowTellsTheRun ==
    \A e \in Executions :
        execution[e] # None =>
            LET saved == execution[e].executionPath
                done == run[e].executionPath
            IN /\ saved = SubSeq(done, 1, Len(saved))
               /\ Len(saved) >= Len(done) - 1
               /\ execution[e].status = "COMPLETED" => saved = done
               /\ \A s \in StepIds : (execution[e].stepResults[s] # None)
                                        <=> \E i \in DOMAIN saved : saved[i] = s

\* The tokens that application a was charged for by the rows, one by one.
PaidTokens(rows, a) ==
    {p \in rows \X (1..MaxPath) : p[1].app = a /\ p[2] <= p[1].tokens}

(* An application pays for an execution at most once, for the tokens its row *)
(* reports, only after the row was closed, and its balance is what it paid.  *)
BilledAsReported ==
    /\ \A u, v \in usage : u.execution = v.execution => u = v
    /\ \A u \in usage : /\ execution[u.execution].status # "RUNNING"
                        /\ execution[u.execution].tokenUsage = u.tokens
    /\ \A a \in Apps :
         -balance[a] = Cardinality(PaidTokens(usage, a))

(* A closed row is final: the catch block of executeAgent, which closes the   *)
(* row as well, is never entered once the other update closed it.            *)
ClosedRowsStayClosed ==
    [][\A e \in Executions :
         execution[e] # None /\ execution[e].status # "RUNNING"
         => execution'[e] = execution[e]]_vars

\* No listed step names one before it or itself.
Forward(steps) ==
    \A i, j \in DOMAIN steps :
        steps[j].id \in {steps[i].nextOnSuccess, steps[i].nextOnFailure} => i < j

(* An execution whose workflow has no way back comes to its end, whatever is *)
(* edited, fails or crashes while it runs.                                   *)
ForwardExecutionsEnd ==
    \A e \in Executions :
        (run[e].at \in {"step", "save"} /\ Forward(run[e].steps)) ~> At(e, "ended")

-----------------------------------------------------------------------------
(* What the documentation says and the code does not do. *)

(* schema.prisma, AgentStep.nextOnFailure: "ID of next step on failure (null *)
(* = stop execution)" -- after a failed step without one no step is run.     *)
FailureStops ==
    \A e \in Executions :
        At(e, "step") =>
            LET x == run[e]
                last == x.executionPath[Len(x.executionPath)]
                i == CHOOSE k \in DOMAIN x.steps : x.steps[k].id = last
            IN ~ /\ x.executionPath # <<>>
                 /\ x.stepResults[last].status = "FAILURE"
                 /\ x.steps[i].nextOnFailure = None
=============================================================================
