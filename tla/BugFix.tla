------------------------------- MODULE BugFix -------------------------------
(***************************************************************************)
(* One BUG_FIX task from delivery to pull request: the worker provisions a *)
(* workspace for each delivery, the graph prepare - agent - verify - push  *)
(* - finalize runs on it with a checkpoint after every node, the result is *)
(* stored, and a pushed fix is chained to an AUTO_PR task.                 *)
(*                                                                         *)
(* The worker may die between any two steps, a node may raise, a process   *)
(* that a tool gave up on may write late, and the agent and the suite may  *)
(* change and stage files as they like.  A redelivery resumes at the       *)
(* latest checkpoint in a fresh workspace.  A starting worker publishes    *)
(* the task of a RUNNING row again, under a message with a fresh delivery  *)
(* count.  One worker process handles its messages one at a time           *)
(* (run_once); what two processes that hold messages of one task do to the *)
(* checkpoint log is the subject of TaskSystem.                            *)
(***************************************************************************)
EXTENDS Tools

CONSTANTS
  Target,        \* target_files of the task
  Configs,       \* the deployments and repositories to consider
  Calls,         \* the tool calls the model may make
  Suites,        \* the runs of the verification suite, by what they may write
  MaxCalls,      \* bound: tool calls of one agent run
  MaxLate,       \* bound: processes that were given up on and still write
  MaxDeliveries, \* max_attempts of the worker loop
  MaxMessages,   \* bound: the first command and its recoveries
  MaxWorkspaces, \* bound: deliveries of all messages together
  MaxPublish     \* max_attempts, for the AUTO_PR task

ASSUME BugFixAssumption ==
  /\ Target \subseteq Path
  /\ Configs \subseteq [sandbox : {"local", "docker"},
                        pushing : {"yes", "no_repo_url", "no_token"}, origin : Tree]
  /\ Calls \subseteq Call /\ Suites \subseteq Call
  /\ MaxCalls \in Nat /\ MaxLate \in Nat /\ MaxDeliveries \in Nat /\ MaxPublish \in Nat
  /\ MaxMessages \in Nat /\ MaxWorkspaces \in Nat

VARIABLES
  sandbox,     \* the configured workspace backend
  pushing,     \* is there a remote and a token?
  origin,      \* the tree of base_ref in the remote repository
  row,         \* state of the task
  report,      \* the stored result
  cp,          \* the latest checkpoint
  mail,        \* the messages of the task
  count,       \* delivery_count of each message
  msg,         \* the message in hand, 0 for none
  deliveries,  \* deliveries that asked for a workspace, of all messages
  pc,          \* what the worker is doing
  left,        \* tool calls the running agent may still make
  ws,          \* workspace of the current delivery, 0 for none
  tree,        \* the worktrees on disk, by workspace
  late,        \* writes of processes nobody waits for
  index,       \* the git index of the current workspace
  found,       \* the target files that verify has found changed
  commit,      \* the commit made in the current workspace
  remote,      \* the branch agent/<task_id> in the remote repository
  child,       \* the AUTO_PR task
  published,   \* deliveries of the AUTO_PR task
  pr,          \* is there a pull request for the branch?
  verified,    \* history: the tree on which the suite of this delivery passed
  raced,       \* history: files written after verify has looked at the tree
  staged,      \* history: files that a command has staged
  leftover,    \* history: workspaces that nobody cleaned up
  agentRuns    \* history: how often the agent node was entered

task == <<row, report, cp, deliveries>>
queue == <<mail, count, msg>>
disk == <<tree, late>>
git == <<index, found, commit>>
published_vars == <<remote, child, published, pr>>
seen == <<verified, raced, staged>>
history == <<leftover, agentRuns>>
config == <<sandbox, pushing, origin>>
vars == <<config, task, queue, pc, left, ws, disk, git, published_vars, seen, history>>

None == "none"
NoFiles == [p \in Target |-> None]
NoCommit == [p \in Path |-> None]
Workspaces == 1 .. MaxWorkspaces
Message == 1 .. MaxMessages

Skip == {"no_commit", "verifier_failed", "no_repo_url", "no_token"}
Verdict == {None, "pass", "no_diff", "test_failed", "env_failed"}

Checkpoint ==
  [node : {"prepare", "agent", "verify", "push", "finalize", "end"},
   baseline : {NoFiles} \cup [Target -> Content], replans : Nat,
   inner : {0} \cup Workspaces, changed : SUBSET Target,
   verdict : Verdict, push : {None, "pushed"} \cup Skip]

NoChild == [at |-> None, skip |-> None, running |-> FALSE]

NoResult == [passed |-> FALSE, pushed |-> FALSE, failure |-> None]

FirstCheckpoint ==
  [node |-> "prepare", baseline |-> NoFiles, replans |-> 0, inner |-> 0,
   changed |-> {}, verdict |-> None, push |-> None]

Init ==
  /\ \E c \in Configs : sandbox = c.sandbox /\ pushing = c.pushing /\ origin = c.origin
  /\ row = "pending" /\ report = NoResult
  /\ cp = FirstCheckpoint /\ deliveries = 0
  /\ mail = [m \in Message |-> IF m = 1 THEN "queued" ELSE "absent"]
  /\ count = [m \in Message |-> 0] /\ msg = 0
  /\ pc = "idle" /\ left = 0 /\ ws = 0
  /\ tree = [w \in Workspaces |-> Gone] /\ late = {}
  /\ index = origin /\ found = {} /\ commit = NoCommit
  /\ remote = NoCommit /\ child = NoChild /\ published = 0 /\ pr = FALSE
  /\ verified = NoCommit /\ raced = {} /\ staged = {}
  /\ leftover = {} /\ agentRuns = 0

Terminal == {"succeeded", "failed"}

Snapshot(t) == [p \in Target |-> t[p]]

-----------------------------------------------------------------------------
(* Delivery: WorkerLoop._handle and _dispatch *)

\* A message that is queued is handed out once more.
Receive(m) ==
  /\ pc = "idle" /\ mail[m] = "queued" /\ count[m] < MaxDeliveries
  /\ count' = [count EXCEPT ![m] = @ + 1]

\* A clone and a worktree are made for this delivery.
Provision(m) ==
  /\ Receive(m) /\ row \notin Terminal /\ deliveries < MaxWorkspaces
  /\ msg' = m
  /\ deliveries' = deliveries + 1
  /\ ws' = deliveries + 1
  /\ tree' = [tree EXCEPT ![deliveries + 1] = origin]
  /\ pc' = "cloned"
  /\ UNCHANGED <<config, row, report, cp, mail, left, late, git, published_vars, seen,
                 history>>

\* git failed or timed out; what was made is removed.
ProvisionFails(m) ==
  /\ Receive(m) /\ row \notin Terminal /\ deliveries < MaxWorkspaces
  /\ deliveries' = deliveries + 1
  /\ UNCHANGED <<config, row, report, cp, mail, msg, pc, left, ws, disk, git,
                 published_vars, seen, history>>

\* delivery_count exceeds max_attempts, though another message of the task
\* may have deliveries left.
Abandon(m) ==
  /\ pc = "idle" /\ mail[m] = "queued" /\ count[m] = MaxDeliveries
  /\ row \notin Terminal
  /\ row' = "failed"
  /\ mail' = [mail EXCEPT ![m] = "acked"]
  /\ UNCHANGED <<config, report, cp, deliveries, count, msg, pc, left, ws, disk, git,
                 published_vars, seen, history>>

\* The task has ended: the message is drained.
Drain(m) ==
  /\ pc = "idle" /\ mail[m] = "queued" /\ row \in Terminal
  /\ mail' = [mail EXCEPT ![m] = "acked"]
  /\ UNCHANGED <<config, task, count, msg, pc, left, ws, disk, git, published_vars,
                 seen, history>>

\* recover_in_flight of a starting worker.
Recover(m) ==
  /\ pc = "idle" /\ mail[m] = "absent" /\ row = "running"
  /\ mail' = [mail EXCEPT ![m] = "queued"]
  /\ UNCHANGED <<config, task, count, msg, pc, left, ws, disk, git, published_vars,
                 seen, history>>

\* The workspace is ready; the task is set RUNNING.
RunGraph ==
  /\ pc = "cloned"
  /\ row' = "running"
  /\ pc' = "node"
  /\ UNCHANGED <<config, report, cp, deliveries, queue, left, ws, disk, git,
                 published_vars, seen, history>>

\* The worker is done with the message and its workspace.
Leave ==
  /\ pc' = "idle" /\ ws' = 0 /\ msg' = 0 /\ left' = 0
  /\ index' = origin /\ found' = {} /\ commit' = NoCommit
  /\ verified' = NoCommit /\ raced' = {} /\ staged' = {}

Removed == tree' = [tree EXCEPT ![ws] = Gone] /\ UNCHANGED leftover

\* rmtree failed.  A container that docker rm could not remove does not
\* count: the worktree is removed all the same.
Kept == UNCHANGED tree /\ leftover' = leftover \cup {ws}

\* Mutant of Cleanup: an exception skips the clean-up.
CleanupOnSuccess ==
  /\ Leave
  /\ IF row \in Terminal
     THEN tree' = [tree EXCEPT ![ws] = Gone] /\ UNCHANGED leftover
     ELSE UNCHANGED <<tree, leftover>>

\* The finally clause of _dispatch: the workspace is removed, or it stays
\* and the failure is audited.
Cleanup ==
  /\ Leave
  /\ Removed \/ Kept

\* What the end of a delivery that is not acked leaves alone.
unacked == UNCHANGED <<config, task, mail, count, late, published_vars, agentRuns>>

\* docker run failed: the worktree is removed again.
ContainerFails ==
  /\ pc = "cloned" /\ sandbox = "docker"
  /\ Cleanup /\ unacked

\* The audit of a workspace that is ready fails before _dispatch takes care
\* of it: nobody removes it.
AuditFails ==
  /\ pc = "cloned"
  /\ Leave /\ Kept /\ unacked

\* A node raised: the message stays pending and is delivered again.
HandlerFails ==
  /\ pc \in {"cloned", "node", "agent", "suite", "committed"}
  /\ Cleanup /\ unacked

\* The process dies; its workspace stays on disk.
Die ==
  /\ pc # "idle"
  /\ Leave /\ Kept /\ unacked

\* A node returned: _persist_step stores the advanced state.
Persist(next) ==
  /\ cp' = next
  /\ pc' = "node"
  /\ UNCHANGED <<config, row, report, deliveries, queue, ws, published_vars, history>>

-----------------------------------------------------------------------------
(* Node prepare *)

\* A report that did not pass makes this a replan.
Replans == IF cp.verdict \in {None, "pass"} THEN cp.replans ELSE cp.replans + 1

\* The first snapshot is the baseline; the inner state of the agent holds
\* the path of this delivery's workspace.
Prepare ==
  /\ pc = "node" /\ cp.node = "prepare"
  /\ Persist([cp EXCEPT !.node = "agent", !.replans = Replans, !.inner = ws,
                !.baseline = IF cp.baseline = NoFiles THEN Snapshot(tree[ws]) ELSE @])
  /\ UNCHANGED <<left, disk, git, seen>>

-----------------------------------------------------------------------------
(* Node agent: the inner shell_agent graph, without checkpoints *)

EnterAgent ==
  /\ pc = "node" /\ cp.node = "agent"
  /\ pc' = "agent" /\ left' = MaxCalls
  /\ agentRuns' = agentRuns + 1
  /\ UNCHANGED <<config, task, queue, ws, disk, git, published_vars, seen, leftover>>

\* What an outcome of a tool does to workspace w.
Applied(o, w) ==
  /\ tree' = [tree EXCEPT ![w] = o.tree]
  /\ late' = late \cup {[ws |-> w, path |-> l.path, content |-> l.content] : l \in o.late}
  /\ Cardinality(late') <= MaxLate

\* git add of some files of a worktree that holds t.
Added(files, t) == [p \in Path |-> IF p \in files THEN t[p] ELSE index[p]]

\* A tool call, in the workspace that _inner_state names.
UseTool(c) ==
  /\ pc = "agent" /\ left > 0
  /\ \E o \in Execute(c, sandbox, tree[cp.inner]) :
       /\ o.status # "raise"
       /\ Applied(o, cp.inner)
       /\ leftover' = IF tree[cp.inner] = Gone /\ o.tree # Gone
                      THEN leftover \cup {cp.inner} ELSE leftover
       /\ IF cp.inner = ws
          THEN index' = Added(o.adds, o.tree) /\ staged' = staged \cup o.adds
          ELSE UNCHANGED <<index, staged>>
  /\ left' = left - 1
  /\ UNCHANGED <<config, task, queue, pc, ws, found, commit, published_vars, verified,
                 raced, agentRuns>>

\* The exceptions that are no ToolErrors end the node.
ToolRaises(c) ==
  /\ pc = "agent" /\ left > 0
  /\ \E o \in Execute(c, sandbox, tree[cp.inner]) : o.status = "raise"
  /\ HandlerFails

\* The model stops, or runs out of steps or tokens.
LeaveAgent ==
  /\ pc = "agent"
  /\ Persist([cp EXCEPT !.node = "verify"])
  /\ left' = 0
  /\ UNCHANGED <<disk, git, seen>>

\* verify has looked at the worktree, and push has not yet added its files.
Vetting == pc = "suite" \/ (pc = "node" /\ cp.node = "push")

\* A write of an abandoned process reaches a workspace that is still there;
\* the process may stage the file as well.
LateWrite ==
  \E l \in late :
    /\ late' = late \ {l}
    /\ IF tree[l.ws] = Gone THEN UNCHANGED <<tree, index, raced, staged>>
       ELSE /\ tree' = [tree EXCEPT ![l.ws] = Written(@, l.path, l.content)]
            /\ raced' = IF l.ws = ws /\ Vetting THEN raced \cup {l.path} ELSE raced
            /\ \/ UNCHANGED <<index, staged>>
               \/ /\ l.ws = ws /\ pc \notin {"committed", "pushed"}
                  /\ index' = [index EXCEPT ![l.path] = l.content]
                  /\ staged' = staged \cup {l.path}
    /\ UNCHANGED <<config, task, queue, pc, left, ws, found, commit, published_vars,
                   verified, history>>

-----------------------------------------------------------------------------
(* Node verify *)

Changed == {p \in Target : tree[ws][p] # cp.baseline[p]}

\* Mutant of Retry: the replan counter is compared too late.
RetryMore(v, replans) == v \in {"test_failed", "no_diff"} /\ replans < 2

\* _route_after_verify: a retryable failure goes back once.
Retry(v, replans) == v \in {"test_failed", "no_diff"} /\ replans < 1

\* The checkpoint after verify.
Verdicted(changed, v) ==
  [cp EXCEPT !.changed = changed, !.verdict = v,
             !.node = IF Retry(v, cp.replans) THEN "prepare" ELSE "push"]

\* No target file has changed: the suite is not run.
NoDiff ==
  /\ pc = "node" /\ cp.node = "verify" /\ Changed = {}
  /\ Persist(Verdicted({}, "no_diff"))
  /\ UNCHANGED <<left, disk, git, seen>>

\* The changed files are taken down before the suite is awaited.
StartSuite ==
  /\ pc = "node" /\ cp.node = "verify" /\ Changed # {}
  /\ found' = Changed
  /\ raced' = {}
  /\ pc' = "suite"
  /\ UNCHANGED <<config, task, queue, left, ws, disk, index, commit, published_vars,
                 verified, staged, history>>

\* The verdict on a result of the suite; the output of a failure tells
\* whether the environment is at fault.
Judged(o) ==
  CASE o.status = "ok"    -> {"pass"}
    [] o.status = "error" -> {"test_failed", "env_failed"}
    [] o.status = "raise" -> {}

\* The suite runs in the worktree, which late writes may have changed and
\* which it may change itself.
RunSuite ==
  /\ pc = "suite"
  /\ \E c \in Suites : \E o \in Execute(c, sandbox, tree[ws]) : \E v \in Judged(o) :
       /\ Persist(Verdicted(found, v))
       /\ Applied(o, ws)
       /\ index' = Added(o.adds, o.tree) /\ staged' = staged \cup o.adds
       /\ verified' = IF v = "pass" THEN tree[ws] ELSE verified
       /\ raced' = raced \cup {p \in Path : o.tree[p] # tree[ws][p]}
  /\ UNCHANGED <<left, found, commit>>

-----------------------------------------------------------------------------
(* Node push *)

PushNoted(reason) ==
  /\ Persist([cp EXCEPT !.node = "finalize", !.push = reason])
  /\ UNCHANGED <<left, disk, git, seen>>

\* Nothing to commit, or the verifier did not pass.
SkipPush ==
  /\ pc = "node" /\ cp.node = "push"
  /\ \/ cp.changed = {} /\ PushNoted("no_commit")
     \/ cp.changed # {} /\ cp.verdict # "pass" /\ PushNoted("verifier_failed")

\* git add of the files that verify found changed, as they are now: the
\* commit takes whatever is staged then.  A file that neither the worktree
\* nor the index knows is an error.
ToCommit == Added(cp.changed, tree[ws])
Staged == {p \in Path : ToCommit[p] # origin[p]}
Unknown == {p \in cp.changed : tree[ws][p] = "absent" /\ index[p] = "absent"}

\* Mutant of Commit: the verdict is not looked at.
CommitUnverified ==
  /\ pc = "node" /\ cp.node = "push" /\ cp.changed # {}
  /\ Unknown = {} /\ Staged # {}
  /\ commit' = ToCommit /\ index' = ToCommit
  /\ pc' = "committed"
  /\ UNCHANGED <<config, task, queue, left, ws, disk, found, published_vars, seen, history>>

\* _commit_workspace with something staged.
Commit ==
  /\ pc = "node" /\ cp.node = "push"
  /\ cp.changed # {} /\ cp.verdict = "pass"
  /\ Unknown = {} /\ Staged # {}
  /\ commit' = ToCommit /\ index' = ToCommit
  /\ pc' = "committed"
  /\ UNCHANGED <<config, task, queue, left, ws, disk, found, published_vars, seen, history>>

\* _commit_workspace with nothing staged: a resumed run whose edits were in
\* the workspace of an earlier delivery.
NothingStaged ==
  /\ pc = "node" /\ cp.node = "push"
  /\ cp.changed # {} /\ cp.verdict = "pass"
  /\ Unknown = {} /\ Staged = {}
  /\ PushNoted("no_commit")

\* No remote or no token: the commit stays local.
KeepLocal ==
  /\ pc = "committed" /\ pushing # "yes"
  /\ PushNoted(pushing)

\* git push.  A branch that an earlier delivery pushed rejects a commit that
\* does not build on it; HandlerFails stands for that and for other errors.
GitPush ==
  /\ pc = "committed" /\ pushing = "yes" /\ remote = NoCommit
  /\ remote' = commit
  /\ pc' = "pushed"
  /\ UNCHANGED <<config, task, queue, left, ws, disk, git, child, published, pr, seen,
                 history>>

\* The push landed but git failed or timed out.
PushReplyLost ==
  /\ pc = "pushed"
  /\ Cleanup /\ unacked

PushDone ==
  /\ pc = "pushed"
  /\ PushNoted("pushed")

-----------------------------------------------------------------------------
(* Node finalize, the terminal write, the chain hook and the ack *)

Finalize ==
  /\ pc = "node" /\ cp.node = "finalize"
  /\ Persist([cp EXCEPT !.node = "end"])
  /\ UNCHANGED <<left, disk, git, seen>>

\* _bug_fix_failure_explanation: what the verifier found or, when it passed,
\* whether the agent was cut short.
Explanations == IF cp.verdict = "pass" THEN {None, "truncated"} ELSE {cp.verdict}

\* The graph is finished and has no error, whatever the verifier said.
Complete ==
  /\ pc = "node" /\ cp.node = "end"
  /\ row' = "succeeded"
  /\ \E f \in Explanations :
       report' = [passed |-> cp.verdict = "pass", pushed |-> cp.push = "pushed",
                  failure |-> f]
  /\ pc' = "chain"
  /\ UNCHANGED <<config, cp, deliveries, queue, left, ws, disk, git, published_vars,
                 seen, history>>

\* Mutant of ChainAndAck: the policy does not ask whether the fix was pushed.
ChainAlways ==
  /\ pc = "chain"
  /\ \/ child' = [NoChild EXCEPT !.at = "prepare"]
     \/ UNCHANGED child
  /\ Cleanup
  /\ mail' = [mail EXCEPT ![msg] = "acked"]
  /\ UNCHANGED <<config, task, count, late, remote, published, pr, agentRuns>>

\* bug_fix_to_auto_pr_policy: only a pushed fix has a follow-up; a failed
\* submission is audited and forgotten.
ChainAndAck ==
  /\ pc = "chain"
  /\ \/ report.pushed /\ child' = [NoChild EXCEPT !.at = "prepare"]
     \/ UNCHANGED child
  /\ Cleanup
  /\ mail' = [mail EXCEPT ![msg] = "acked"]
  /\ UNCHANGED <<config, task, count, late, remote, published, pr, agentRuns>>

-----------------------------------------------------------------------------
(* The AUTO_PR task: a delivery resumes at the node the last one reached.   *)

PrNode == {"prepare", "publish", "finalize"}
work == <<config, task, queue, pc, left, ws, disk, git, seen, history>>

\* Mutant of DeliverChild: the delivery is not counted.
DeliverChildUncounted ==
  /\ child.at \in PrNode /\ ~child.running /\ published < MaxPublish
  /\ child' = [child EXCEPT !.running = TRUE]
  /\ UNCHANGED <<work, remote, published, pr>>

DeliverChild ==
  /\ child.at \in PrNode /\ ~child.running /\ published < MaxPublish
  /\ child' = [child EXCEPT !.running = TRUE]
  /\ published' = published + 1
  /\ UNCHANGED <<work, remote, pr>>

GiveUpPublish ==
  /\ child.at \in PrNode /\ ~child.running /\ published = MaxPublish
  /\ child' = [child EXCEPT !.at = "failed"]
  /\ UNCHANGED <<work, remote, published, pr>>

\* The worker of the child dies, or its node raises: GraphError.
ChildStops ==
  /\ child.running
  /\ child' = [child EXCEPT !.running = FALSE]
  /\ UNCHANGED <<work, remote, published, pr>>

\* The chain policy passes on the URL, the commit and the verdict.
SkipReason ==
  IF pushing = "no_repo_url" THEN "no_repo_url"
  ELSE IF report.passed THEN None ELSE "verifier_failed"

PreparePr ==
  /\ child.running /\ child.at = "prepare"
  /\ child' = [child EXCEPT !.at = "publish", !.skip = SkipReason]
  /\ UNCHANGED <<work, remote, published, pr>>

\* open_or_reuse_pr; a pull request may be opened though the call fails.
PublishPr ==
  /\ child.running /\ child.at = "publish"
  /\ \/ child' = [child EXCEPT !.at = "finalize"]
     \/ child.skip = None /\ child' = [child EXCEPT !.running = FALSE]
  /\ pr' = (pr \/ child.skip = None)
  /\ UNCHANGED <<work, remote, published>>

FinalizePr ==
  /\ child.running /\ child.at = "finalize"
  /\ child' = [child EXCEPT !.at = "done", !.running = FALSE]
  /\ UNCHANGED <<work, remote, published, pr>>

-----------------------------------------------------------------------------

Node ==
  \/ Prepare \/ EnterAgent \/ LeaveAgent \/ NoDiff \/ StartSuite \/ RunSuite
  \/ SkipPush \/ Commit \/ NothingStaged \/ KeepLocal \/ GitPush \/ PushDone \/ Finalize

\* Deliveries and nodes go on; every node has timeouts.
Deliver ==
  \E m \in Message : Provision(m) \/ ProvisionFails(m) \/ Abandon(m) \/ Drain(m)
Progress == RunGraph \/ Node \/ Complete \/ ChainAndAck

Publish ==
  \/ DeliverChild \/ GiveUpPublish \/ ChildStops
  \/ PreparePr \/ PublishPr \/ FinalizePr

Fault == ContainerFails \/ AuditFails \/ HandlerFails \/ Die \/ PushReplyLost \/ (\E c \in Calls : ToolRaises(c))

Done ==
  /\ row \in Terminal /\ pc = "idle" /\ child.at \notin PrNode /\ late = {}
  /\ \A m \in Message : mail[m] # "queued"

Next ==
  \/ Deliver \/ Progress \/ Fault \/ LateWrite
  \/ (\E m \in Message : Recover(m))
  \/ (\E c \in Calls : UseTool(c))
  \/ Publish
  \/ (Done /\ UNCHANGED vars)

Spec == Init /\ [][Next]_vars

FairSpec ==
  Spec /\ WF_vars(Deliver) /\ WF_vars(Progress \/ Fault)
       /\ WF_vars(Publish)

-----------------------------------------------------------------------------
(* Properties *)

\* Type invariant.
TypeOK ==
  /\ row \in {"pending", "running"} \cup Terminal
  /\ report \in [passed : BOOLEAN, pushed : BOOLEAN, failure : Verdict \cup {"truncated"}]
  /\ cp \in Checkpoint
  /\ deliveries \in 0 .. MaxWorkspaces
  /\ mail \in [Message -> {"absent", "queued", "acked"}]
  /\ count \in [Message -> Nat] /\ msg \in {0} \cup Message
  /\ pc \in {"idle", "cloned", "node", "agent", "suite", "committed", "pushed", "chain"}
  /\ left \in 0 .. MaxCalls
  /\ ws \in {0} \cup Workspaces
  /\ tree \in [Workspaces -> Tree \cup {Gone}]
  /\ late \subseteq [ws : Workspaces, path : Path, content : Content]
  /\ index \in Tree /\ found \subseteq Target
  /\ commit \in Tree \cup {NoCommit} /\ remote \in Tree \cup {NoCommit}
  /\ child \in [at : {None, "done", "failed"} \cup PrNode,
                skip : {None, "no_repo_url", "verifier_failed"}, running : BOOLEAN]
  /\ published \in 0 .. MaxPublish
  /\ pr \in BOOLEAN
  /\ verified \in Tree \cup {NoCommit} /\ raced \subseteq Path /\ staged \subseteq Path
  /\ leftover \subseteq Workspaces
  /\ agentRuns \in Nat

(***************************************************************************)
(* What is pushed, file by file.  Whichever checkpoint a delivery resumed  *)
(* from and whichever workspace it got, a push takes place only after the  *)
(* suite has passed in the workspace of this very delivery.  A target file *)
(* has the contents the suite has passed on, and another file is as in     *)
(* base_ref - but for the files that a command, the suite or a late        *)
(* process has staged, and those that the suite or a late process has      *)
(* written between verify's look at the worktree and git add.  Those are   *)
(* pushed as they are.                                                     *)
(***************************************************************************)
PushedIsVerified ==
  [][remote' # remote =>
       /\ verified # NoCommit
       /\ \A p \in Path \ (raced \cup staged) :
            remote'[p] = IF p \in Target THEN verified[p] ELSE origin[p]]_vars

(***************************************************************************)
(* "bug-fix success is gated by tests": what is committed beyond base_ref  *)
(* is what verify found changed, as the suite has passed on it.  Refuted   *)
(* by the code, and not part of a run: git add and git commit take what is *)
(* in the worktree and the index by then.                                  *)
(***************************************************************************)
OnlyVerifiedIsCommitted ==
  pc = "committed" => \A p \in Path : commit[p] # origin[p] =>
                        p \in cp.changed /\ commit[p] = verified[p]

(***************************************************************************)
(* A result that says "pushed" tells the truth, also when the delivery     *)
(* that pushed died: the branch is in the remote repository and a pull     *)
(* request is only ever opened for such a branch.                          *)
(***************************************************************************)
ReportedPushIsReal ==
  /\ report.pushed => remote # NoCommit /\ report.passed
  /\ pr => remote # NoCommit /\ row = "succeeded"

(***************************************************************************)
(* The expensive node runs at most twice, the replan included, plus once   *)
(* for each redelivery, however verdicts, crashes and lost diffs mix.      *)
(***************************************************************************)
AgentRunsBounded == agentRuns <= deliveries + 1

(***************************************************************************)
(* A worktree without a running delivery was left by a dead process, a     *)
(* failed audit or clean-up, or a write through a stale path: every        *)
(* ordinary and every exceptional end of a run removes its own.            *)
(***************************************************************************)
WorkspacesAreReleased == \A w \in Workspaces \ {ws} : tree[w] # Gone => w \in leftover

(***************************************************************************)
(* The task ends and so does its follow-up: no mix of failing nodes, dead  *)
(* workers and failing publications is retried for ever.                   *)
(***************************************************************************)
FixSettles == <>[](row \in Terminal /\ child.at \notin PrNode)

(***************************************************************************)
(* The agent edits the workspace that verify and push look at ("Re-seed    *)
(* each run; checkpoint snapshots from prior runs carry a stale path").    *)
(* Refuted by the code, and not part of a run: the inner state keeps one.  *)
(***************************************************************************)
AgentEditsThisWorkspace == pc = "agent" => cp.inner = ws

(***************************************************************************)
(* "On a successful verify the graph stages and commits the workspace diff *)
(* locally": a result that says the verifier passed comes with a commit.   *)
(* Refuted by the code, and not part of a run: the verdict survives a      *)
(* delivery, the diff does not.                                            *)
(***************************************************************************)
VerifiedFixIsPushed ==
  pushing = "yes" /\ report.passed => report.pushed

-----------------------------------------------------------------------------
(* The inductive strengthening of the safety properties, for the proofs *)

ConfigOK ==
  /\ sandbox \in {"local", "docker"} /\ origin \in Tree
  /\ pushing \in {"yes", "no_repo_url", "no_token"}

\* A delivery has its own workspace, and that one is on disk.
DeliveryInv ==
  /\ pc = "idle" => ws = 0
  /\ pc # "idle" => ws \in Workspaces /\ tree[ws] \in Tree /\ msg \in Message
  /\ cp.node # "prepare" => cp.inner \in Workspaces

\* Where in the graph the worker is.
ControlInv ==
  /\ pc = "agent" => cp.node = "agent"
  /\ pc = "suite" => cp.node = "verify"
  /\ pc \in {"committed", "pushed"} => cp.node = "push" /\ cp.verdict = "pass"
  /\ pc \in {"cloned", "node", "agent", "suite", "committed", "pushed"} => row \notin Terminal
  /\ pc = "chain" => row = "succeeded"
  /\ cp.node \in {"prepare", "agent", "verify", "push"} => cp.push = None

\* What the checkpoint, the report and the child say of the push is true.
PushInv ==
  /\ pc = "committed" => commit # NoCommit
  /\ pc = "pushed" \/ cp.push = "pushed" => remote # NoCommit
  /\ cp.push = "pushed" => cp.verdict = "pass"
  /\ remote # NoCommit => cp.node \in {"push", "finalize", "end"}
  /\ child.at # None => report.pushed /\ row = "succeeded"
  /\ pr => child.at # None

\* Workspaces are numbered in the order of their deliveries.
AgeInv ==
  /\ ws <= deliveries /\ cp.inner <= deliveries
  /\ \A l \in late : l.ws <= deliveries

\* Between deliveries nothing is remembered of a workspace.
IdleInv == pc = "idle" => index = origin /\ staged = {}

\* Nothing has run in the workspace of this delivery.
Fresh ==
  /\ tree[ws] = origin /\ index = origin /\ staged = {}
  /\ \A l \in late : l.ws # ws

\* The suite has passed in it: what has not been written since is as it was.
Vetted ==
  /\ verified \in Tree
  /\ \A p \in Path \ raced : tree[ws][p] = verified[p]
  /\ \A p \in Target \ (cp.changed \cup raced) : verified[p] = origin[p]

\* The first snapshot of the target files shows base_ref; a workspace at the
\* push node is the one the suite has passed in or one nothing has run in.
SourceInv ==
  /\ pc = "cloned" => Fresh
  /\ \/ cp.baseline = Snapshot(origin)
     \/ cp.node = "prepare" /\ cp.baseline = NoFiles /\ (pc = "node" => Fresh)
  /\ pc = "node" /\ cp.node = "push" /\ cp.verdict = "pass" => Fresh \/ Vetted

\* Files that differ from base_ref behind the back of verify are on record.
VetInv ==
  /\ pc = "suite" => \A p \in Target \ (found \cup raced) : tree[ws][p] = origin[p]
  /\ pc \in {"cloned", "node", "agent", "suite"} /\ cp.node \notin {"finalize", "end"} =>
       \A p \in Path \ staged : index[p] = origin[p]

\* What is about to be pushed is what PushedIsVerified says.
CommitInv ==
  pc = "committed" =>
    /\ verified # NoCommit
    /\ \A p \in Path \ (raced \cup staged) :
         commit[p] = IF p \in Target THEN verified[p] ELSE origin[p]

\* verify has sent the task back.
Replanned ==
  cp.replans >= 1 \/ (cp.node = "prepare" /\ cp.verdict \notin {None, "pass"})

\* Each delivery pays for one run of the agent, and the replan for one more.
RunsInv ==
  agentRuns + (IF pc \in {"cloned", "node"} /\ cp.node \in {"prepare", "agent"}
               THEN 1 ELSE 0)
    <= deliveries + (IF Replanned THEN 1 ELSE 0)

FixInv ==
  /\ TypeOK /\ ConfigOK /\ DeliveryInv /\ ControlInv /\ PushInv /\ AgeInv /\ IdleInv
  /\ SourceInv /\ VetInv /\ CommitInv /\ RunsInv /\ ReportedPushIsReal /\ WorkspacesAreReleased
=============================================================================
