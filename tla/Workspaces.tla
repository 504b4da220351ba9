----------------------------- MODULE Workspaces -----------------------------
(***************************************************************************)
(* cmd/sandbox and those who call it.  questbridge asks for a workspace    *)
(* before it dispatches a quest: a git worktree on a branch of the quest.  *)
(* When a quest is won, bossbattle has the branch merged into main and     *)
(* marks the quest as indexed; and questboard, if it is configured so,     *)
(* lets dependents be claimed only then, so that their branches begin with *)
(* the work they depend on.                                                *)
(*                                                                         *)
(* A piece of work is a change of its quest's path; two quests' changes of *)
(* one path clash unless one has the other.  The repository's mutex makes  *)
(* creations, merges and removals steps, but for the two halves of a       *)
(* removal, of which the first is outside it.  Not modelled: plain         *)
(* workspaces for quests without a repository, the endpoints that only     *)
(* read, limits on sizes and times of commands.                            *)
(***************************************************************************)
EXTENDS Integers, FiniteSets

CONSTANTS
  Jobs,           \* quests
  JobDeps,        \* [Jobs -> SUBSET Jobs], DependsOn
  JobPaths,       \* [Jobs -> the path that the quest's work is about]
  WriteBound,     \* bound: pieces of work of a quest
  SandboxMishaps  \* bound: abandoned workspaces, commits that fail, hang-ups, restarts of the
                  \* sandbox or the backend

ASSUME WorkspacesAssumption ==
  /\ DOMAIN JobDeps = Jobs /\ DOMAIN JobPaths = Jobs
  /\ \A q \in Jobs : JobDeps[q] \subseteq Jobs \ {q}
  /\ WriteBound \in Nat \ {0} /\ SandboxMishaps \in Nat

VARIABLES
  jobs,        \* quest entities, whether a loop is running for each, and who let it be claimed
  main,        \* work in the repository's main branch
  stuck,       \* the repository is left in the middle of a merge
  branches,    \* branches of quests; gated tells how the quest had been claimed when it was made
  dirs,        \* workspaces
  questRepos,  \* quests whose repository the sandbox remembers
  removing,    \* removals between their halves, and whether the repository was remembered
  merging,     \* what follows a verdict in bossbattle
  uncommitted, \* history: quests whose work was not committed when their branch was merged
  wsMishaps    \* mishaps that are left

wsVars ==
  <<jobs, main, stuck, branches, dirs, questRepos, removing, merging, uncommitted, wsMishaps>>

Work == Jobs \X (1 .. WriteBound)

NoBranch == [exists |-> FALSE, work |-> {}, gated |-> FALSE]
NoDir == [kind |-> "none", work |-> {}]
NoMerge == [at |-> "none", ok |-> FALSE, fresh |-> FALSE, unput |-> FALSE]

WorkspacesTypeOK ==
  /\ jobs \in [Jobs -> [status : {"posted", "in_progress", "in_review", "completed"},
                        indexed : BOOLEAN, ready : BOOLEAN, gated : BOOLEAN]]
  /\ main \subseteq Work /\ stuck \in BOOLEAN /\ questRepos \subseteq Jobs
  /\ uncommitted \subseteq Jobs
  /\ branches \in [Jobs -> [exists : BOOLEAN, work : SUBSET Work, gated : BOOLEAN]]
  /\ dirs \in [Jobs -> [kind : {"none", "worktree", "plain"}, work : SUBSET Work]]
  /\ removing \in [Jobs -> {"no", "worktree", "plain"}]
  /\ merging \in [Jobs -> [at : {"none", "asking", "read", "done"}, ok : BOOLEAN,
                           fresh : BOOLEAN, unput : BOOLEAN]]
  /\ wsMishaps \in 0 .. SandboxMishaps

WorkspacesInit ==
  /\ jobs = [q \in Jobs |-> [status |-> "posted", indexed |-> FALSE, ready |-> FALSE,
                             gated |-> FALSE]]
  /\ main = {} /\ stuck = FALSE /\ questRepos = {} /\ uncommitted = {}
  /\ branches = [q \in Jobs |-> NoBranch] /\ dirs = [q \in Jobs |-> NoDir]
  /\ removing = [q \in Jobs |-> "no"]
  /\ merging = [q \in Jobs |-> NoMerge]
  /\ wsMishaps = SandboxMishaps

sandbox == <<main, stuck, branches, dirs, questRepos, removing>>

-----------------------------------------------------------------------------
(* The quest on the board and in its loop.                                 *)

\* Mutant: a completed dependency will do for everyone.
ClaimableOnceCompleted(q, gated) == \A d \in JobDeps[q] : jobs[d].status = "completed"

\* questboard asks for indexed dependencies; the API and autonomy only for completed ones.
Claimable(q, gated) ==
  \A d \in JobDeps[q] : jobs[d].status = "completed" /\ (gated => jobs[d].indexed)

TakeJob(q, gated) ==
  /\ jobs[q].status = "posted" /\ Claimable(q, gated) /\ (JobDeps[q] = {} => gated)
  /\ jobs' = [jobs EXCEPT ![q].status = "in_progress", ![q].gated = gated]
  /\ UNCHANGED <<sandbox, merging, uncommitted, wsMishaps>>

\* What an attempt left is kept for the next.  A branch without a workspace is an error, and then
\* the quest is not dispatched.
CreateWorkspace(q) ==
  /\ jobs[q].status = "in_progress" /\ ~jobs[q].ready
  /\ \/ dirs[q].kind # "none" /\ UNCHANGED <<branches, dirs>>
     \/ /\ dirs[q].kind = "none" /\ ~branches[q].exists
        /\ branches' = [branches EXCEPT ![q] =
             [exists |-> TRUE, work |-> main, gated |-> jobs[q].gated]]
        /\ dirs' = [dirs EXCEPT ![q] = [kind |-> "worktree", work |-> main]]
  /\ questRepos' = questRepos \cup {q}
  /\ jobs' = [jobs EXCEPT ![q].ready = TRUE]
  /\ UNCHANGED <<main, stuck, removing, merging, uncommitted, wsMishaps>>

\* Writing makes the directories that are missing, the workspace among them.
WriteFile(q) ==
  /\ jobs[q].status = "in_progress" /\ jobs[q].ready
  /\ \E n \in 1 .. WriteBound :
       /\ <<q, n>> \notin dirs[q].work
       /\ \A k \in 1 .. n - 1 : <<q, k>> \in dirs[q].work
       /\ dirs' = [dirs EXCEPT ![q].work = @ \cup {<<q, n>>},
                               ![q].kind = IF @ = "none" THEN "plain" ELSE @]
  /\ UNCHANGED <<jobs, main, stuck, branches, questRepos, removing, merging, uncommitted, wsMishaps>>

Committed(q) ==
  IF dirs[q].kind = "worktree" /\ branches[q].exists
  THEN [branches EXCEPT ![q].work = dirs[q].work] ELSE branches

CommitAll(q) ==
  /\ jobs[q].status = "in_progress" /\ jobs[q].ready
  /\ Committed(q) # branches
  /\ branches' = Committed(q)
  /\ UNCHANGED <<jobs, main, stuck, dirs, questRepos, removing, merging, uncommitted, wsMishaps>>

\* A loop that failed, a battle that was lost, or a quest that was never dispatched.
PostAgain(q) ==
  /\ jobs[q].status = "in_progress"
  /\ jobs' = [jobs EXCEPT ![q].status = "posted", ![q].ready = FALSE]
  /\ UNCHANGED <<sandbox, merging, uncommitted, wsMishaps>>

-----------------------------------------------------------------------------
(* bossbattle: a goroutine merges and marks while the verdict is put.      *)

\* The quest is submitted, or was before a restart, and its battle won.
WinBattle(q) ==
  /\ jobs[q].ready /\ jobs[q].status \in {"in_progress", "in_review"} /\ merging[q] = NoMerge
  /\ jobs' = [jobs EXCEPT ![q].status = "in_review"]
  /\ merging' = [merging EXCEPT ![q] = [NoMerge EXCEPT !.at = "asking", !.unput = TRUE]]
  /\ UNCHANGED <<sandbox, uncommitted, wsMishaps>>

\* The put is of the battle's own copy.
PutVerdict(q) ==
  /\ merging[q].unput
  /\ jobs' = [jobs EXCEPT ![q].status = "completed", ![q].indexed = FALSE]
  /\ merging' = [merging EXCEPT ![q].unput = FALSE, ![q].fresh = FALSE]
  /\ UNCHANGED <<sandbox, uncommitted, wsMishaps>>

Clash(work, other) ==
  \E x \in work \ other, y \in other \ work : x[1] # y[1] /\ JobPaths[x[1]] = JobPaths[y[1]]

\* The answer is followed by a read of the quest, whatever became of the merge.
Answer(q, ok) == merging' = [merging EXCEPT ![q].at = "read", ![q].ok = ok, ![q].fresh = TRUE]

Mishap == wsMishaps > 0 /\ wsMishaps' = wsMishaps - 1

\* What is left in the workspace is committed as far as that can be done: nobody looks at how git
\* exits (a hook, a lock, the time limit).
AutoCommit(q) ==
  \/ /\ branches' = Committed(q) /\ uncommitted' = uncommitted \ {q}
     /\ UNCHANGED wsMishaps
  \/ /\ Mishap /\ Committed(q) # branches
     /\ uncommitted' = uncommitted \cup {q}
     /\ UNCHANGED branches

\* Main is checked out and the branch merged as it is.  A merge that clashes is aborted, and
\* nobody looks how that went either.
MergeToMain(q) ==
  /\ merging[q].at = "asking"
  /\ \/ /\ q \notin questRepos /\ Answer(q, FALSE)
        /\ UNCHANGED <<main, stuck, branches, uncommitted, wsMishaps>>
     \/ /\ q \in questRepos
        /\ AutoCommit(q)
        /\ LET branch == branches'[q]
               clash == Clash(branch.work, main)
               done == ~stuck /\ branch.exists /\ ~clash
           IN /\ main' = IF done THEN main \cup branch.work ELSE main
              /\ stuck' \in {stuck, stuck \/ (branch.exists /\ clash)}
              /\ Answer(q, done)
  /\ UNCHANGED <<jobs, dirs, questRepos, removing>>

\* The client gives up after thirty seconds.  The server's git may not have started, may be done
\* with or without a commit, or its merge clashes and is not aborted, since the abort is run for
\* the same request.
HangUp(q) ==
  /\ Mishap /\ merging[q].at = "asking"
  /\ Answer(q, FALSE)
  /\ \/ UNCHANGED <<main, stuck, branches>>
     \/ /\ q \in questRepos /\ ~stuck
        /\ branches' \in {branches, Committed(q)} /\ branches'[q].exists
        /\ IF Clash(branches'[q].work, main) THEN stuck' = TRUE /\ UNCHANGED main
           ELSE main' = main \cup branches'[q].work /\ UNCHANGED stuck
  /\ UNCHANGED <<jobs, dirs, questRepos, removing, uncommitted>>

\* setIndexed puts by compare-and-swap; after a conflict it reads again.
SetIndexed(q) ==
  /\ merging[q].at = "read"
  /\ IF merging[q].fresh
     THEN /\ jobs' = [jobs EXCEPT ![q].indexed = TRUE]
          /\ merging' = [merging EXCEPT ![q].at = "done", ![q].fresh = FALSE]
     ELSE merging' = [merging EXCEPT ![q].fresh = TRUE] /\ UNCHANGED jobs
  /\ UNCHANGED <<sandbox, uncommitted, wsMishaps>>

-----------------------------------------------------------------------------
(* The sandbox's own steps, and restarts.                                  *)

\* The sweep takes a workspace for abandoned when nothing was added to its top level for a day.
SweepForgets(q) ==
  /\ Mishap /\ dirs[q].kind # "none" /\ removing[q] = "no"
  /\ removing' = [removing EXCEPT ![q] = IF q \in questRepos THEN "worktree" ELSE "plain"]
  /\ questRepos' = questRepos \ {q}
  /\ UNCHANGED <<jobs, main, stuck, branches, dirs, merging, uncommitted>>

\* Without the repository the directory goes and the branch stays.  At the end of a sweep the
\* quests without a workspace are forgotten.
SweepRemoves(q) ==
  /\ removing[q] # "no"
  /\ removing' = [removing EXCEPT ![q] = "no"]
  /\ dirs' = [dirs EXCEPT ![q] = NoDir]
  /\ branches' = IF removing[q] = "worktree" THEN [branches EXCEPT ![q] = NoBranch] ELSE branches
  /\ questRepos' = {r \in questRepos : dirs'[r].kind # "none"}
  /\ UNCHANGED <<jobs, main, stuck, merging, uncommitted, wsMishaps>>

SandboxRestart ==
  /\ Mishap
  /\ questRepos' = {} /\ removing' = [q \in Jobs |-> "no"]
  /\ UNCHANGED <<jobs, main, stuck, branches, dirs, merging, uncommitted>>

\* Verdicts that were not put are lost, and so is what was to follow those that were.
BackendRestart ==
  /\ Mishap
  /\ merging' = [q \in Jobs |-> IF jobs[q].status = "completed" THEN [merging[q] EXCEPT !.at = "done"]
                                ELSE NoMerge]
  /\ UNCHANGED <<jobs, sandbox, uncommitted>>

WorkspacesNext ==
  \/ \E q \in Jobs : \E gated \in BOOLEAN : TakeJob(q, gated)
  \/ \E q \in Jobs : CreateWorkspace(q)
  \/ \E q \in Jobs : WriteFile(q)
  \/ \E q \in Jobs : CommitAll(q)
  \/ \E q \in Jobs : PostAgain(q)
  \/ \E q \in Jobs : WinBattle(q)
  \/ \E q \in Jobs : PutVerdict(q)
  \/ \E q \in Jobs : MergeToMain(q)
  \/ \E q \in Jobs : HangUp(q)
  \/ \E q \in Jobs : SetIndexed(q)
  \/ \E q \in Jobs : SweepForgets(q)
  \/ \E q \in Jobs : SweepRemoves(q)
  \/ SandboxRestart
  \/ BackendRestart

-----------------------------------------------------------------------------
(* Safety: a merge that was reported brought all that was in the quest's   *)
(* worktree, whoever had committed it, and whatever was merged, swept or   *)
(* restarted meanwhile; and a quest that the board let be claimed after it *)
(* builds on what it brought.  Both need what they say: a commit that      *)
(* failed before the merge leaves its work behind though the merge is      *)
(* reported; a directory that took the place of a worktree is not merged   *)
(* though its branch is; and a workspace that was made for a claim past    *)
(* the board is kept for later attempts.                                   *)
MergedWorkReaches ==
  \A d \in Jobs : merging[d].ok =>
    /\ dirs[d].kind = "worktree" /\ d \notin uncommitted => dirs[d].work \subseteq main
    /\ \A q \in Jobs : d \in JobDeps[q] /\ branches[q].exists /\ branches[q].gated =>
         {w \in main : w[1] = d} \subseteq branches[q].work
=============================================================================
