----------------------------- MODULE MCServices ------------------------------
(***************************************************************************)
(* Services of the program that share no state: a behaviour exercises  *)
(* one of them, the one in focus.                                          *)
(***************************************************************************)
EXTENDS Integers, TLC

CONSTANTS Callers, MaxCalls, MaxAgentCalls,
          MaxRuns, MaxLog, PageLimit, MaxChunks, MaxAsks, Paths, MaxTurns,
          MaxGenerations, MaxMoves

VARIABLES focus,
          row, child, client, prompt, notices, calls,
          approval, edit, file, agent, validation, task, job, agentCalls,
          runs, log, snapshots, reader, asks,
          head, index, tree, artifacts, cleanup, policy, op, turns,
          source, committed, current, temp, generations, lockfile, ref, marker, crossed, moves

Sup == INSTANCE Supervisors WITH Clients <- Callers
Agt == INSTANCE LocalAgents WITH Agents <- Callers
Qry == INSTANCE RunQueries WITH Readers <- Callers
Rep == INSTANCE RepoTools
Wik == INSTANCE RepoWiki WITH Files <- Paths

ASSUME ServiceConstants ==
    Sup!SupervisorConstants /\ Agt!AgentConstants /\ Qry!QueryConstants /\ Wik!WikiConstants

supervisorState == <<row, child, client, prompt, notices, calls>>
agentState == <<approval, edit, file, agent, validation, task, job, agentCalls>>
queryState == <<runs, log, snapshots, reader, asks>>
toolState == <<head, index, tree, artifacts, cleanup, policy, op, turns>>
wikiState == <<source, committed, current, temp, generations, lockfile, ref, marker, crossed, moves>>
vars == <<focus, supervisorState, agentState, queryState, toolState, wikiState>>

Symmetry == Permutations(Callers) \union Permutations(Paths)

Init ==
    /\ focus \in {"supervisor", "agents", "queries", "tools", "wiki"}
    /\ Sup!Init /\ (focus # "supervisor" => row.status = "none")
    /\ Agt!Init /\ (focus # "agents" => approval.required)
    /\ Qry!Init /\ (focus # "queries" => runs[1].key = 1 /\ runs[2].key = 2)
    /\ Rep!Init
    /\ focus # "tools" => /\ policy = [refuse |-> TRUE, mode |-> "all"]
                          /\ head = Rep!Everywhere("old")
    /\ Wik!Init

Next ==
    /\ UNCHANGED focus
    /\ \/ focus = "supervisor" /\ Sup!Next /\ UNCHANGED <<agentState, queryState, toolState, wikiState>>
       \/ focus = "agents" /\ Agt!Next /\ UNCHANGED <<supervisorState, queryState, toolState, wikiState>>
       \/ focus = "queries" /\ Qry!Next /\ UNCHANGED <<supervisorState, agentState, toolState, wikiState>>
       \/ focus = "tools" /\ Rep!Next /\ UNCHANGED <<supervisorState, agentState, queryState, wikiState>>
       \/ focus = "wiki" /\ Wik!Next /\ UNCHANGED <<supervisorState, agentState, queryState, toolState>>

Spec == Init /\ [][Next]_vars

\* The outcome of a supervisor is the truth about its child, and each swap of the
\* engine replaces exactly the row it was computed from, never a final one
\* (Supervisors; supervisor_engine.py:264-334, 458-575, supervisor_store.py:235-298).
SupervisorTruthful ==
    [][focus = "supervisor" => Sup!EngineSwaps /\ Sup!OutcomeTruthful']_supervisorState

\* An edit reaches the file only with the approval that is required; what tasks and
\* jobs report is what their commands came to, and no process runs unwatched behind
\* a job that reads as running (LocalAgents; local_coding_manager.py:236-273,
\* supervisor_flow.py:107-131, job_monitor.py:32-133, long_run_manager.py:146-205).
AgentWorkTruthful == focus = "agents" => Agt!EditApproved /\ Agt!WorkTruthful

\* Pages and chunks put together are exact, and polls and terminal results tell the
\* truth (RunQueries; run_store.py:848-1032, run_query_chunks.py:296-426,
\* job_manager.py:2524-2698).
QueryAnswersTrue == focus = "queries" => Qry!PagesExact /\ Qry!AnswersTrue

\* Commits hold the files of the call, failures leave the index alone, and nothing
\* is removed that the caller or the preview had not seen (RepoTools;
\* git_tools.py:1473-1713, repo_writer.py:1997-2116, managed_artifacts.py:167-216).
ToolsExact == [][focus = "tools" => Rep!CommitStep /\ Rep!RemovalStep]_toolState

\* Wiki pages are complete and, when served as fresh, as old as their last check
\* (RepoWiki; repo_wiki.py:192-465, 698-814).
WikiPagesTruthful == focus = "wiki" => Wik!PagesTruthful

==============================================================================
