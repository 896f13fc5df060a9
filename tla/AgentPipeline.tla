---------------------------- MODULE AgentPipeline ----------------------------
(***************************************************************************)
(* executeAgentPipeline of src/intelligence/intelligence.service.ts and the *)
(* function calls of providers/ai-wrapper.service.ts: the model's answer is *)
(* scanned for calls of tools, which then run one after another on a copy   *)
(* of the project's files taken when the request began.                     *)
(*                                                                          *)
(* The requests of ProjectFiles that a tool makes are one step each here,   *)
(* and other users' are steps of their own.  Contents are numbered.  One    *)
(* request, as requests share nothing but the files.                        *)
(***************************************************************************)
EXTENDS Actors, FiniteSets, Naturals, Sequences

CONSTANTS
    PipePaths,    \* paths of files
    MaxContents,  \* bound: contents ever written
    MaxCalls      \* bound: calls in one answer

ASSUME PipeAssumption ==
    /\ MaxContents \in Nat /\ MaxCalls \in Nat
    /\ None \notin Nat /\ None \notin [content : Nat, isDeleted : BOOLEAN]
    /\ None \notin {"edited", "deleted", "failed"}

VARIABLES
    disk,      \* disk[p]: content and isDeleted of the file at p, None without a file
    written,   \* number of contents written so far
    pipe,      \* the request: its step, the call it is at, and its copy of the files
    ran,       \* functionExecutionResults: how many there are
    report,    \* report[p]: what the last of them about a change of p says
    talk,      \* kinds of the rows the request added to the thread
    elsewhere  \* history: paths others wrote since the copy was taken

pipeVars == <<disk, written, pipe, ran, report, talk, elsewhere>>

\* "look" stands for codebase_search, list_dir, grep_search, file_search and
\* web_search, "note" for run_terminal_cmd and thinking.
AgentTools == {"look", "note", "read_file", "edit_file", "delete_file"}

NoCall == [tool |-> None, path |-> None, found |-> FALSE]

PipeInit ==
    /\ disk = [p \in PipePaths |-> None]
    /\ written = 0
    /\ pipe = [step |-> "idle", calls |-> 0, call |-> NoCall, copy |-> [p \in PipePaths |-> None]]
    /\ ran = 0
    /\ report = [p \in PipePaths |-> None]
    /\ talk = <<>>
    /\ elsewhere = {}

-----------------------------------------------------------------------------
PipeGoes(step) == pipe' = [pipe EXCEPT !.step = step]

CallEnds == ran' = ran + 1 /\ pipe' = [pipe EXCEPT !.step = "calls", !.call = NoCall]

\* A call that was to change a file is over.
ChangeReported(outcome) == CallEnds /\ report' = [report EXCEPT ![pipe.call.path] = outcome]

WriteFile(p, isDeleted) ==
    /\ written < MaxContents
    /\ written' = written + 1
    /\ disk' = [disk EXCEPT ![p] = [content |-> written + 1, isDeleted |-> isDeleted]]

\* A collaborator writes, deletes or creates a file; an update of a deleted
\* file leaves it deleted.
OthersWrite(p) ==
    /\ \E isDeleted \in {TRUE, disk[p] # None /\ disk[p].isDeleted} :
         (disk[p] = None => ~isDeleted) /\ WriteFile(p, isDeleted)
    /\ elsewhere' = elsewhere \cup {p}
    /\ UNCHANGED <<pipe, ran, report, talk>>

-----------------------------------------------------------------------------
\* The copy has the deleted files too.
ExecuteAgentPipeline ==
    /\ pipe.step = "idle"
    /\ pipe' = [pipe EXCEPT !.step = "model",
                  !.copy = [p \in PipePaths |-> IF disk[p] = None THEN None ELSE disk[p].content]]
    /\ talk' = <<"user">>
    /\ elsewhere' = {}
    /\ UNCHANGED <<disk, written, ran, report>>

\* The answer and the calls found in it; the model may fail.
GenerateFunctionCallingContent ==
    /\ pipe.step = "model"
    /\ PipeGoes("calls") \/ PipeGoes("error")
    /\ UNCHANGED <<disk, written, ran, report, talk, elsewhere>>

\* executeFunctionCalls, one call at a time, whatever became of the last.
NextCall(tool, path) ==
    /\ pipe.step = "calls" /\ pipe.calls < MaxCalls
    /\ pipe' = [pipe EXCEPT !.step = "tool", !.calls = @ + 1,
                            !.call = [tool |-> tool, path |-> path, found |-> pipe.copy[path] # None]]
    /\ UNCHANGED <<disk, written, ran, report, talk, elsewhere>>

Calls(tool, step) == pipe.step = step /\ pipe.call.tool = tool

Look ==
    /\ Calls("look", "tool")
    /\ CallEnds
    /\ UNCHANGED <<disk, written, report, talk, elsewhere>>

\* A missing file is recorded where it is missed and where that is caught.
ReadFile ==
    /\ Calls("read_file", "tool")
    /\ ran' = ran + (IF pipe.call.found THEN 1 ELSE 2)
    /\ pipe' = [pipe EXCEPT !.step = "calls", !.call = NoCall]
    /\ UNCHANGED <<disk, written, report, talk, elsewhere>>

Note ==
    /\ Calls("note", "tool")
    /\ CallEnds
    /\ talk' \in {talk, Append(talk, "system")}
    /\ UNCHANGED <<disk, written, report, elsewhere>>

\* edit_file updates the file of the copy, or creates one; told that the path
\* exists it lists the files of the project and updates the one there.
EditFile ==
    /\ Calls("edit_file", "tool")
    /\ LET p == pipe.call.path
       IN /\ WriteFile(p, disk[p] # None /\ disk[p].isDeleted)
          /\ pipe' = [pipe EXCEPT !.step = "log", !.call.found = pipe.call.found \/ disk[p] = None]
    /\ UNCHANGED <<ran, report, talk, elsewhere>>

\* Mutant: the file stays in the copy.
DeleteFileKeepsCopy ==
    /\ Calls("delete_file", "tool") /\ pipe.call.found
    /\ WriteFile(pipe.call.path, TRUE)
    /\ PipeGoes("log")
    /\ UNCHANGED <<ran, report, talk, elsewhere>>

DeleteFile ==
    /\ Calls("delete_file", "tool") /\ pipe.call.found
    /\ WriteFile(pipe.call.path, TRUE)
    /\ pipe' = [pipe EXCEPT !.step = "log", !.copy[pipe.call.path] = None]
    /\ UNCHANGED <<ran, report, talk, elsewhere>>

\* Edit rights lost, a file not in the copy, or a query that fails.
ToolFails ==
    /\ pipe.step = "tool" /\ pipe.call.tool \in {"edit_file", "delete_file"}
    /\ ChangeReported("failed")
    /\ UNCHANGED <<disk, written, talk, elsewhere>>

\* The row about the edit, after the edit.
LogEdit ==
    /\ pipe.step = "log"
    /\ \/ /\ talk' = Append(talk, "system")
          /\ IF pipe.call.tool = "edit_file" THEN PipeGoes("reread") /\ UNCHANGED <<ran, report>>
             ELSE ChangeReported("deleted")
       \/ ChangeReported("failed") /\ UNCHANGED talk
    /\ UNCHANGED <<disk, written, elsewhere>>

\* The file read again goes where the copy had it, or is added when it was
\* created; one found only in the listing has no place and stays out.
RereadFile ==
    /\ pipe.step = "reread"
    /\ LET p == pipe.call.path
       IN /\ ran' = ran + 1
          /\ report' = [report EXCEPT ![p] = "edited"]
          /\ pipe' = [pipe EXCEPT !.step = "calls", !.call = NoCall,
                                  !.copy[p] = IF pipe.call.found THEN disk[p].content ELSE pipe.copy[p]]
    /\ UNCHANGED <<disk, written, talk, elsewhere>>

\* The log of the calls, if there were any, then the answer.
SaveAnswer ==
    /\ pipe.step = "calls"
    /\ talk' = talk \o (IF ran = 0 THEN <<>> ELSE <<"log">>) \o <<"assistant">>
    /\ PipeGoes("done")
    /\ UNCHANGED <<disk, written, ran, report, elsewhere>>

\* One of those two rows cannot be written.
SaveFails ==
    /\ pipe.step = "calls"
    /\ talk' \in {talk, IF ran = 0 THEN talk ELSE Append(talk, "log")}
    /\ PipeGoes("error")
    /\ UNCHANGED <<disk, written, ran, report, elsewhere>>

SaveError ==
    /\ pipe.step = "error"
    /\ talk' = Append(talk, "error")
    /\ PipeGoes("done")
    /\ UNCHANGED <<disk, written, ran, report, elsewhere>>

PipeNext ==
    \/ \E p \in PipePaths :
        \/ OthersWrite(p)
        \/ \E tool \in AgentTools : NextCall(tool, p)
    \/ ExecuteAgentPipeline
    \/ GenerateFunctionCallingContent
    \/ Look
    \/ ReadFile
    \/ Note
    \/ EditFile
    \/ DeleteFile
    \/ ToolFails
    \/ LogEdit
    \/ RereadFile
    \/ SaveAnswer
    \/ SaveFails
    \/ SaveError
-----------------------------------------------------------------------------
(* The types of the files, the request and its rows. *)
PipeTypeOK ==
    /\ disk \in [PipePaths -> [content : Nat, isDeleted : BOOLEAN] \cup {None}]
    /\ written \in 0..MaxContents
    /\ pipe \in [step : {"idle", "model", "calls", "tool", "log", "reread", "error", "done"}, calls : 0..MaxCalls,
                 call : [tool : AgentTools \cup {None}, path : PipePaths \cup {None}, found : BOOLEAN],
                 copy : [PipePaths -> Nat \cup {None}]]
    /\ ran \in Nat
    /\ report \in [PipePaths -> {"edited", "deleted", "failed", None}]
    /\ talk \in Seq({"user", "system", "log", "assistant", "error"})
    /\ elsewhere \subseteq PipePaths

(* Between two calls, where nobody else wrote, the copy agrees with the files*)
(* as far as the reports go: unchanged files and edited ones have the content*)
(* of the table or, found only in a listing, no copy; deleted ones are out.  *)
(* The thread starts with the user's row and ends with one answer or error,  *)
(* after the log of the calls.                                               *)
CopyFollowsReports ==
    LET Ends == {i \in DOMAIN talk : talk[i] \in {"assistant", "error"}}
        Logs == {i \in DOMAIN talk : talk[i] = "log"}
    IN /\ pipe.step = "calls" => \A p \in PipePaths \ elsewhere :
            CASE report[p] = "failed" -> TRUE
              [] report[p] = "deleted" -> pipe.copy[p] = None /\ disk[p].isDeleted
              [] report[p] = "edited" -> disk[p] # None /\ pipe.copy[p] \in {disk[p].content, None}
              [] OTHER -> pipe.copy[p] = IF disk[p] = None THEN None ELSE disk[p].content
       /\ pipe.step # "idle" => talk[1] = "user" /\ \A i \in DOMAIN talk : talk[i] = "user" => i = 1
       /\ Ends = IF pipe.step = "done" THEN {Len(talk)} ELSE {}
       /\ Logs \subseteq {Len(talk), Len(talk) - 1} /\ (Logs # {} => ran > 0)
       /\ pipe.step = "done" /\ talk[Len(talk)] = "assistant" => (Logs # {} <=> ran > 0)
=============================================================================
