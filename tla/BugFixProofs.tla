---------------------------- MODULE BugFixProofs ----------------------------
(***************************************************************************)
(* Proofs about Tools and BugFix, for any set of files, targets and tool   *)
(* calls, either sandbox, and any number of messages, deliveries, calls,   *)
(* late writes and publications.                                           *)
(***************************************************************************)
EXTENDS BugFix, TLAPS

-----------------------------------------------------------------------------
(* What a tool call can do *)

Late == [path : Path, content : Content]

\* The outcomes on a tree: a worktree that is there stays there, and nothing
\* but file contents is written, now or late.  A file that is staged is one of
\* a worktree that is there.
Outcomes(t) ==
  [status : {"ok", "error", "raise"},
   tree : {u \in Tree \cup {Gone} : t \in Tree => u \in Tree},
   late : SUBSET Late, adds : SUBSET Path]

\* A written file leaves a worktree.
LEMMA WrittenType ==
  ASSUME NEW t \in Tree \cup {Gone}, NEW p \in Path, NEW v \in Content
  PROVE  Written(t, p, v) \in Tree
<1>1. CASE t = Gone
  BY <1>1 DEF Written, Tree, Content
<1>2. CASE t # Gone
  <2>1. t \in Tree /\ Written(t, p, v) = [t EXCEPT ![p] = v]
    BY <1>2 DEF Written
  <2> QED
    BY <2>1 DEF Tree
<1> QED
  BY <1>1, <1>2

\* The results a tool is made of are outcomes.
LEMMA ResultTypes ==
  ASSUME NEW t \in Tree \cup {Gone}
  PROVE  /\ \A s \in {"ok", "error", "raise"} : Same(s, t) \in Outcomes(t)
         /\ \A s \in {"ok", "error", "raise"}, u \in Tree, l \in SUBSET Late :
              Same(s, u) \in Outcomes(t) /\ Out(s, u, l) \in Outcomes(t)
         /\ \A s \in {"ok", "error", "raise"}, l \in SUBSET Late :
              Out(s, t, l) \in Outcomes(t)
         /\ \A s \in {"ok", "error", "raise"}, l \in SUBSET Late, a \in SUBSET Path :
              /\ Ended(s, t, l, a) \in Outcomes(t)
              /\ \A u \in Tree : Ended(s, u, l, a) \in Outcomes(t)
         /\ Refused(t) \subseteq Outcomes(t)
         /\ Failed(t) \subseteq Outcomes(t)
         /\ Raised(t) \subseteq Outcomes(t)
BY DEF Outcomes, Same, Out, Ended, Refused, Failed, Raised

\* A command may write the file it is about, at once or late, and stage it.
LEMMA EffectsType ==
  ASSUME NEW c \in Call, NEW t \in Tree \cup {Gone},
         NEW statuses \in SUBSET {"ok", "error", "raise"}
  PROVE  Effects(c, t, statuses) \subseteq Outcomes(t)
<1> DEFINE after == {t, Written(t, c.path, c.content)}
           added == {{}, {c.path}}
           lates == {{}, {[path |-> c.path, content |-> c.content]}}
<1>1. c.path \in Path /\ c.content \in Content
  BY DEF Call
<1>2. after \subseteq Tree \cup {t}
  BY <1>1, WrittenType
<1>3. lates \subseteq SUBSET Late /\ added \subseteq SUBSET Path /\ {} \in SUBSET Late
  BY <1>1 DEF Late
<1>4. Effects(c, t, statuses) =
        {Ended(s, u, {}, a) : s \in statuses, u \in after, a \in added}
          \cup {Ended("error", u, l, a) : u \in after, a \in added, l \in lates}
  BY DEF Effects
<1> HIDE DEF after, added, lates, Late, Outcomes
<1>5. \A s \in {"ok", "error", "raise"}, u \in after, l \in SUBSET Late, a \in added :
        Ended(s, u, l, a) \in Outcomes(t)
  BY <1>2, <1>3, ResultTypes
<1> QED
  BY <1>3, <1>4, <1>5

\* So does the suite.
LEMMA RunTypes ==
  ASSUME NEW c \in Call, NEW t \in Tree \cup {Gone}
  PROVE  Ran(c, t) \subseteq Outcomes(t) /\ Tested(c, t) \subseteq Outcomes(t)
<1>1. {VerdictStatus(v) : v \in Verdicts(t)} \in SUBSET {"ok", "error", "raise"}
  BY DEF VerdictStatus
<1> QED
  BY <1>1, EffectsType DEF Ran, Tested

\* The tools on the host.
LEMMA LocalTypes ==
  ASSUME NEW c \in Call, NEW t \in Tree \cup {Gone}
  PROVE  /\ LocalRead(c, t) \subseteq Outcomes(t)
         /\ LocalListDir(c, t) \subseteq Outcomes(t)
         /\ LocalGrep(c, t) \subseteq Outcomes(t)
         /\ LocalWrite(c, t) \subseteq Outcomes(t)
         /\ LocalPatchApply(c, t) \subseteq Outcomes(t)
         /\ LocalShellRun(c, t) \subseteq Outcomes(t)
         /\ LocalTestRun(c, t) \subseteq Outcomes(t)
<1>1. Written(t, c.path, c.content) \in Tree
  BY WrittenType DEF Call
<1>2. {} \in SUBSET Late
  OBVIOUS
<1>3. LocalRead(c, t) \subseteq Outcomes(t)
  BY ResultTypes DEF LocalRead
<1>4. LocalListDir(c, t) \subseteq Outcomes(t) /\ LocalGrep(c, t) \subseteq Outcomes(t)
  BY ResultTypes DEF LocalListDir, Listed, LocalGrep, Grepped
<1>5. LocalWrite(c, t) \subseteq Outcomes(t) /\ LocalPatchApply(c, t) \subseteq Outcomes(t)
  BY <1>1, <1>2, ResultTypes DEF LocalWrite, LocalPatchApply
<1>6. LocalShellRun(c, t) \subseteq Outcomes(t)
  BY ResultTypes, RunTypes DEF LocalShellRun
<1>7. LocalTestRun(c, t) \subseteq Outcomes(t)
  BY ResultTypes, RunTypes DEF LocalTestRun
<1> QED
  BY <1>3, <1>4, <1>5, <1>6, <1>7

\* The tools in a container; a write that was cut off may be torn.
LEMMA DockerTypes ==
  ASSUME NEW c \in Call, NEW t \in Tree \cup {Gone}
  PROVE  /\ DockerRead(c, t) \subseteq Outcomes(t)
         /\ DockerListDir(c, t) \subseteq Outcomes(t)
         /\ DockerGrep(c, t) \subseteq Outcomes(t)
         /\ DockerWrite(c, t) \subseteq Outcomes(t)
         /\ DockerPatchApply(c, t) \subseteq Outcomes(t)
         /\ DockerShellRun(c, t) \subseteq Outcomes(t)
         /\ DockerTestRun(c, t) \subseteq Outcomes(t)
<1>1. Written(t, c.path, c.content) \in Tree
  BY WrittenType DEF Call
<1>2. /\ {} \in SUBSET Late
      /\ \A v \in {c.content, "torn"} : {[path |-> c.path, content |-> v]} \in SUBSET Late
  BY DEF Call, Late, Content
<1>3. \A done \in SUBSET Outcomes(t) : DockerExec(c, t, done) \subseteq Outcomes(t)
  BY ResultTypes DEF DockerExec
<1> HIDE DEF Late, Outcomes
<1>4. DockerRead(c, t) \subseteq Outcomes(t)
  BY <1>3, ResultTypes DEF DockerRead
<1>5. DockerListDir(c, t) \subseteq Outcomes(t) /\ DockerGrep(c, t) \subseteq Outcomes(t)
  BY <1>3, ResultTypes DEF DockerListDir, DockerGrep
<1>6. DockerWrite(c, t) \subseteq Outcomes(t)
  <2> DEFINE done == {Same("ok", Written(t, c.path, c.content))}
                       \cup {Out(s, t, {[path |-> c.path, content |-> v]}) :
                               s \in {"error", "raise"}, v \in {c.content, "torn"}}
  <2>1. \A s \in {"error", "raise"}, v \in {c.content, "torn"} :
          Out(s, t, {[path |-> c.path, content |-> v]}) \in Outcomes(t)
    BY <1>2, ResultTypes
  <2>2. done \subseteq Outcomes(t)
    BY <2>1, <1>1, <1>2, ResultTypes
  <2>3. DockerWrite(c, t) = IF Escapes(c) THEN Refused(t) ELSE DockerExec(c, t, done)
    BY DEF DockerWrite
  <2> HIDE DEF done
  <2> QED
    BY <2>2, <2>3, <1>3, ResultTypes
<1>7. DockerPatchApply(c, t) \subseteq Outcomes(t)
  <2> DEFINE done == {Same("ok", Written(t, c.path, c.content))}
                       \cup {Out(s, t, {[path |-> c.path, content |-> c.content]}) :
                               s \in {"ok", "error"}}
  <2>1. done \subseteq Outcomes(t)
    BY <1>1, <1>2, ResultTypes
  <2> QED
    BY <2>1, <1>3 DEF DockerPatchApply
<1>8. DockerShellRun(c, t) \subseteq Outcomes(t)
  BY <1>3, ResultTypes, RunTypes DEF DockerShellRun
<1>9. DockerTestRun(c, t) \subseteq Outcomes(t)
  BY <1>3, ResultTypes, RunTypes DEF DockerTestRun
<1> QED
  BY <1>4, <1>5, <1>6, <1>7, <1>8, <1>9

\* The tools without a sandbox variant never write.
LEMMA OtherTypes ==
  ASSUME NEW c \in Call, NEW t \in Tree \cup {Gone}
  PROVE  /\ WebFetch(c, t) \subseteq Outcomes(t)
         /\ DocSearch(c, t) \subseteq Outcomes(t)
         /\ Found(t) \subseteq Outcomes(t)
         /\ Outline(c, t) \subseteq Outcomes(t)
BY ResultTypes DEF WebFetch, Fetched, DocSearch, Found, Outline

\* ToolExecutor.execute has such an outcome, whatever the model asks for.
LEMMA ExecuteType ==
  ASSUME NEW c \in Call, NEW s, NEW t \in Tree \cup {Gone}
  PROVE  Execute(c, s, t) \subseteq Outcomes(t)
<1>1. \A docker, local \in SUBSET Outcomes(t) :
        Checked(c, t, In(s, docker, local)) \subseteq Outcomes(t)
  BY ResultTypes DEF Checked, In
<1>2. \A outs \in SUBSET Outcomes(t) : Checked(c, t, outs) \subseteq Outcomes(t)
  BY ResultTypes DEF Checked
<1>3. Known(c) => c.tool \in {"fs_read", "fs_list_dir", "fs_grep", "edit_write",
                   "edit_patch_apply", "shell_run", "test_run", "web_fetch", "doc_search",
                   "code_search", "get_definition", "get_references", "outline"}
  BY ToolsAssumption DEF Known, Registered, FileTools, EditTools, RunTools, WebTools,
                         CodeTools
<1> HIDE DEF Outcomes
<1>4. /\ FsRead(c, s, t) \subseteq Outcomes(t) /\ FsListDir(c, s, t) \subseteq Outcomes(t)
      /\ FsGrep(c, s, t) \subseteq Outcomes(t)
  BY <1>1, LocalTypes, DockerTypes DEF FsRead, FsListDir, FsGrep
<1>5. /\ EditWrite(c, s, t) \subseteq Outcomes(t) /\ EditPatch(c, s, t) \subseteq Outcomes(t)
  BY <1>1, LocalTypes, DockerTypes DEF EditWrite, EditPatch
<1>6. /\ ShellRun(c, s, t) \subseteq Outcomes(t) /\ TestRun(c, s, t) \subseteq Outcomes(t)
  BY <1>1, LocalTypes, DockerTypes DEF ShellRun, TestRun
<1>7. /\ WebFetchCall(c, t) \subseteq Outcomes(t) /\ DocSearchCall(c, t) \subseteq Outcomes(t)
      /\ OutlineCall(c, t) \subseteq Outcomes(t)
  BY <1>2, OtherTypes DEF WebFetchCall, DocSearchCall, OutlineCall
<1>8. /\ SearchCall(c, t) \subseteq Outcomes(t) /\ DefinitionCall(c, t) \subseteq Outcomes(t)
      /\ ReferencesCall(c, t) \subseteq Outcomes(t)
  BY <1>2, OtherTypes DEF SearchCall, DefinitionCall, ReferencesCall, CodeSearch,
                          GetDefinition, GetReferences
<1>9. CASE ~Known(c)
  <2>1. c.tool = "unknown"
    BY <1>9 DEF Known, Call
  <2>2. Execute(c, s, t) = Refused(t)
    BY <2>1, <1>9 DEF Execute
  <2> QED
    BY <2>2, ResultTypes
<1>10. CASE Known(c)
  <2>1. Execute(c, s, t) \in
          {FsRead(c, s, t), FsListDir(c, s, t), FsGrep(c, s, t), EditWrite(c, s, t),
           EditPatch(c, s, t), ShellRun(c, s, t), TestRun(c, s, t), WebFetchCall(c, t),
           DocSearchCall(c, t), SearchCall(c, t), DefinitionCall(c, t),
           ReferencesCall(c, t), OutlineCall(c, t)}
    BY <1>3, <1>10 DEF Execute
  <2> QED
    BY <2>1, <1>4, <1>5, <1>6, <1>7, <1>8
<1> QED
  BY <1>9, <1>10

-----------------------------------------------------------------------------
(* Facts the steps share *)

\* A snapshot of a worktree lists file contents.
LEMMA SnapshotType ==
  ASSUME NEW t \in Tree
  PROVE  Snapshot(t) \in [Target -> Content]
BY BugFixAssumption DEF Snapshot, Tree

\* Files with contents are not the absence of a commit.
LEMMA FilesAreFiles ==
  ASSUME NEW f \in [Target -> Content], NEW p \in Target
  PROVE  f # NoFiles
BY DEF NoFiles, None, Content

\* Nor is a worktree, if there are files.
LEMMA TreesAreCommits ==
  ASSUME NEW t \in Tree, NEW p \in Path
  PROVE  t # NoCommit
BY DEF Tree, NoCommit, None, Content

\* git add leaves an index.
LEMMA AddedType ==
  ASSUME index \in Tree, NEW t \in Tree, NEW files
  PROVE  /\ Added(files, t) \in Tree
         /\ \A p \in Path : Added(files, t)[p] = IF p \in files THEN t[p] ELSE index[p]
BY DEF Added, Tree

\* Where the worker is and what is on disk has not changed.
Still ==
  UNCHANGED <<origin, cp, pc, ws, tree, late, index, found, commit, verified, raced, staged>>

\* Then the parts of the invariant that speak of the worktree are kept.
LEMMA StillPreserves ==
  ASSUME FixInv, Still, deliveries' \in Nat, deliveries' >= deliveries
  PROVE  AgeInv' /\ SourceInv' /\ VetInv' /\ CommitInv'
<1>1. AgeInv'
  <2>1. /\ deliveries \in Nat /\ ws \in Nat /\ cp.inner \in Nat
        /\ \A l \in late : l.ws \in Nat
    BY BugFixAssumption DEF FixInv, TypeOK, Checkpoint, Workspaces
  <2> QED
    BY <2>1 DEF FixInv, AgeInv, Still
<1>2. SourceInv'
  BY DEF FixInv, SourceInv, Still, Fresh, Vetted, Snapshot
<1>3. VetInv' /\ CommitInv'
  BY DEF FixInv, VetInv, CommitInv, Still
<1> QED
  BY <1>1, <1>2, <1>3

\* Nothing has happened.
LEMMA FixInvInit == Init => FixInv
<1> SUFFICES ASSUME Init PROVE FixInv
  OBVIOUS
<1>1. ConfigOK
  BY BugFixAssumption DEF Init, ConfigOK
<1>2. TypeOK
  <2>1. cp \in Checkpoint
    BY DEF Init, Checkpoint, FirstCheckpoint, Verdict
  <2>2. /\ report \in [passed : BOOLEAN, pushed : BOOLEAN,
                       failure : Verdict \cup {"truncated"}]
        /\ child \in [at : {None, "done", "failed"} \cup PrNode,
                      skip : {None, "no_repo_url", "verifier_failed"}, running : BOOLEAN]
    BY DEF Init, NoResult, NoChild, Verdict
  <2>3. pr \in BOOLEAN
    BY DEF Init
  <2>4. /\ deliveries \in 0 .. MaxWorkspaces /\ left \in 0 .. MaxCalls
        /\ published \in 0 .. MaxPublish /\ agentRuns \in Nat
        /\ ws \in {0} \cup Workspaces /\ tree \in [Workspaces -> Tree \cup {Gone}]
    BY BugFixAssumption DEF Init
  <2>5. /\ mail \in [Message -> {"absent", "queued", "acked"}]
        /\ count \in [Message -> Nat] /\ msg \in {0} \cup Message
    BY DEF Init
  <2> QED
    BY <1>1, <2>1, <2>2, <2>3, <2>4, <2>5 DEF Init, TypeOK, ConfigOK
<1>3. DeliveryInv /\ ControlInv
  BY DEF Init, DeliveryInv, ControlInv, FirstCheckpoint, Terminal
<1>4. PushInv /\ RunsInv
  BY DEF Init, PushInv, RunsInv, FirstCheckpoint, NoChild, None, Replanned
<1>5. AgeInv /\ IdleInv /\ SourceInv /\ VetInv /\ CommitInv
  BY DEF Init, AgeInv, IdleInv, SourceInv, VetInv, CommitInv, FirstCheckpoint
<1>6. ReportedPushIsReal /\ WorkspacesAreReleased
  BY DEF Init, ReportedPushIsReal, WorkspacesAreReleased, NoResult
<1> QED
  BY <1>1, <1>2, <1>3, <1>4, <1>5, <1>6 DEF FixInv

-----------------------------------------------------------------------------
(* Deliveries *)

\* A new delivery gets a workspace with base_ref and pays for an agent run.
LEMMA ProvisionPreserves ==
  ASSUME FixInv, NEW m \in Message, Provision(m)
  PROVE  FixInv'
<1>1. /\ pc = "idle" /\ row \notin Terminal /\ deliveries < MaxWorkspaces
      /\ deliveries' = deliveries + 1 /\ ws' = deliveries + 1 /\ msg' = m
      /\ tree' = [tree EXCEPT ![deliveries + 1] = origin]
      /\ count' = [count EXCEPT ![m] = @ + 1] /\ pc' = "cloned"
      /\ UNCHANGED <<sandbox, pushing, origin, row, report, cp, mail, left, late, index,
                     found, commit, remote, child, published, pr, verified, raced,
                     staged, leftover, agentRuns>>
  BY DEF Provision, Receive, config, git, published_vars, seen, history
<1>2. /\ deliveries + 1 \in Workspaces /\ origin \in Tree /\ ws = 0
      /\ tree \in [Workspaces -> Tree \cup {Gone}] /\ deliveries \in Nat
  BY <1>1, BugFixAssumption DEF FixInv, TypeOK, ConfigOK, DeliveryInv, Workspaces
<1>3. /\ tree' \in [Workspaces -> Tree \cup {Gone}] /\ tree'[ws'] = origin
      /\ \A w \in Workspaces \ {ws'} : tree'[w] = tree[w]
  BY <1>1, <1>2
<1>4. count' \in [Message -> Nat]
  BY <1>1 DEF FixInv, TypeOK
<1>5. TypeOK'
  BY <1>1, <1>2, <1>3, <1>4, BugFixAssumption DEF FixInv, TypeOK
<1>6. ConfigOK' /\ DeliveryInv' /\ ControlInv'
  BY <1>1, <1>2, <1>3 DEF FixInv, ConfigOK, DeliveryInv, ControlInv
<1>7. PushInv' /\ ReportedPushIsReal'
  BY <1>1 DEF FixInv, PushInv, ReportedPushIsReal
<1>8. AgeInv' /\ \A l \in late : l.ws # ws'
  <2>1. cp.inner \in Nat /\ \A l \in late : l.ws \in Nat
    BY DEF FixInv, TypeOK, Checkpoint, Workspaces
  <2> QED
    BY <1>1, <1>2, <2>1 DEF FixInv, AgeInv
<1>9. index = origin /\ staged = {}
  BY <1>1 DEF FixInv, IdleInv
<1>10. SourceInv' /\ VetInv' /\ CommitInv'
  BY <1>1, <1>3, <1>8, <1>9 DEF FixInv, SourceInv, VetInv, CommitInv, Fresh, Snapshot
<1>11. RunsInv'
  BY <1>1, <1>2 DEF FixInv, TypeOK, RunsInv, Replanned
<1>12. WorkspacesAreReleased'
  BY <1>1, <1>2, <1>3 DEF FixInv, WorkspacesAreReleased, Workspaces
<1>13. IdleInv'
  BY <1>1 DEF IdleInv
<1> QED
  BY <1>5, <1>6, <1>7, <1>8, <1>10, <1>11, <1>12, <1>13 DEF FixInv

\* A delivery without a workspace, or one delivery too many, or a message that
\* is drained or published again.
LEMMA MessagePreserves ==
  ASSUME FixInv, NEW m \in Message,
         ProvisionFails(m) \/ Abandon(m) \/ Drain(m) \/ Recover(m)
  PROVE  FixInv'
<1>1. /\ pc = "idle"
      /\ \/ deliveries < MaxWorkspaces /\ deliveries' = deliveries + 1 /\ row' = row
         \/ row \notin Terminal /\ row' = "failed" /\ deliveries' = deliveries
         \/ row' = row /\ deliveries' = deliveries
      /\ \/ count' = [count EXCEPT ![m] = @ + 1] /\ mail' = mail
         \/ count' = count /\ mail' = [mail EXCEPT ![m] = "acked"]
         \/ count' = count /\ mail' = [mail EXCEPT ![m] = "queued"]
      /\ UNCHANGED <<sandbox, pushing, origin, report, cp, msg, pc, left, ws, tree,
                     late, index, found, commit, remote, child, published, pr, verified,
                     raced, staged, leftover, agentRuns>>
  BY DEF ProvisionFails, Abandon, Drain, Recover, Receive, config, task, disk, git,
         published_vars, seen, history
<1>2. /\ count' \in [Message -> Nat]
      /\ mail' \in [Message -> {"absent", "queued", "acked"}]
  BY <1>1 DEF FixInv, TypeOK
<1>3. deliveries \in Nat /\ deliveries' \in 0 .. MaxWorkspaces /\ deliveries' >= deliveries
  BY <1>1, BugFixAssumption DEF FixInv, TypeOK
<1>4. TypeOK'
  BY <1>1, <1>2, <1>3 DEF FixInv, TypeOK, Terminal
<1>5. ConfigOK' /\ DeliveryInv' /\ ControlInv' /\ IdleInv'
  BY <1>1 DEF FixInv, ConfigOK, DeliveryInv, ControlInv, IdleInv
<1>6. PushInv' /\ ReportedPushIsReal'
  BY <1>1 DEF FixInv, PushInv, ReportedPushIsReal, Terminal
<1>7. AgeInv' /\ SourceInv' /\ VetInv' /\ CommitInv'
  BY <1>1, <1>3, StillPreserves DEF Still
<1>8. RunsInv'
  <2>1. agentRuns \in Nat /\ deliveries' \in Nat
    BY <1>3, BugFixAssumption DEF FixInv, TypeOK
  <2>2. pc' = pc /\ cp' = cp /\ agentRuns' = agentRuns
    BY <1>1
  <2>3. deliveries' >= deliveries /\ deliveries \in Nat
    BY <1>3
  <2> DEFINE e == IF pc \in {"cloned", "node"} /\ cp.node \in {"prepare", "agent"}
                  THEN 1 ELSE 0
             f == IF Replanned THEN 1 ELSE 0
  <2>4. e \in Nat /\ f \in Nat
    OBVIOUS
  <2>5. agentRuns + e <= deliveries + f
    BY DEF FixInv, RunsInv
  <2>6. RunsInv' <=> agentRuns + e <= deliveries' + f
    BY <2>2 DEF RunsInv, Replanned
  <2> HIDE DEF e, f
  <2>7. \A a, x, y, d, d1 \in Nat : a + x <= d + y /\ d1 >= d => a + x <= d1 + y
    OBVIOUS
  <2> QED
    BY <2>1, <2>3, <2>4, <2>5, <2>6, <2>7
<1>9. WorkspacesAreReleased'
  BY <1>1 DEF FixInv, WorkspacesAreReleased
<1> QED
  BY <1>4, <1>5, <1>6, <1>7, <1>8, <1>9 DEF FixInv

\* The task is set RUNNING.
LEMMA RunGraphPreserves ==
  ASSUME FixInv, RunGraph
  PROVE  FixInv'
<1>1. /\ pc = "cloned" /\ row' = "running" /\ pc' = "node"
      /\ UNCHANGED <<sandbox, pushing, origin, report, cp, deliveries, mail, count, msg,
                     left, ws, tree, late, index, found, commit, remote, child,
                     published, pr, verified, raced, staged, leftover, agentRuns>>
  BY DEF RunGraph, config, queue, disk, git, published_vars, seen, history
<1>2. TypeOK'
  BY <1>1 DEF FixInv, TypeOK
<1>3. ConfigOK' /\ DeliveryInv' /\ ControlInv' /\ IdleInv'
  BY <1>1 DEF FixInv, ConfigOK, DeliveryInv, ControlInv, Terminal, IdleInv
<1>4. PushInv' /\ ReportedPushIsReal'
  BY <1>1 DEF FixInv, ControlInv, PushInv, ReportedPushIsReal, Terminal
<1>5. AgeInv' /\ SourceInv' /\ VetInv' /\ CommitInv' /\ WorkspacesAreReleased'
  BY <1>1 DEF FixInv, AgeInv, SourceInv, VetInv, CommitInv, Fresh, Snapshot,
              WorkspacesAreReleased
<1>6. RunsInv'
  BY <1>1 DEF FixInv, TypeOK, RunsInv, Replanned
<1> QED
  BY <1>2, <1>3, <1>4, <1>5, <1>6 DEF FixInv

\* The end of a delivery: its workspace is removed, or it is on record as
\* left over.
Ends ==
  /\ pc # "idle" /\ pc' = "idle" /\ ws' = 0 /\ msg' = 0 /\ left' = 0
  /\ index' = origin /\ found' = {} /\ commit' = NoCommit
  /\ verified' = NoCommit /\ raced' = {} /\ staged' = {}
  /\ \/ tree' = [tree EXCEPT ![ws] = Gone] /\ leftover' = leftover
     \/ tree' = tree /\ leftover' = leftover \cup {ws}
  /\ mail' = mail \/ mail' = [mail EXCEPT ![msg] = "acked"]
  /\ UNCHANGED <<sandbox, pushing, origin, row, report, cp, deliveries, count, late,
                 remote, published, pr, agentRuns>>

\* Every way a delivery ends is such an end, and only a finished one whose fix
\* was pushed has a follow-up.
LEMMA EndsAre ==
  ASSUME ContainerFails \/ AuditFails \/ HandlerFails \/ Die \/ PushReplyLost
           \/ (\E c \in Calls : ToolRaises(c)) \/ ChainAndAck
  PROVE  /\ Ends
         /\ \/ child' = child
            \/ pc = "chain" /\ report.pushed /\ child' = [NoChild EXCEPT !.at = "prepare"]
<1> USE DEF Ends, Leave, Cleanup, Removed, Kept, unacked, config, task, published_vars
<1>1. CASE ContainerFails \/ AuditFails \/ Die \/ PushReplyLost
  BY <1>1 DEF ContainerFails, AuditFails, Die, PushReplyLost
<1>2. CASE HandlerFails \/ (\E c \in Calls : ToolRaises(c))
  BY <1>2 DEF HandlerFails, ToolRaises
<1>3. CASE ChainAndAck
  BY <1>3 DEF ChainAndAck
<1> QED
  BY <1>1, <1>2, <1>3

\* The end of a delivery preserves the invariant.
LEMMA EndPreserves ==
  ASSUME FixInv, Ends,
         \/ child' = child
         \/ pc = "chain" /\ report.pushed /\ child' = [NoChild EXCEPT !.at = "prepare"]
  PROVE  FixInv'
<1>1. /\ pc # "idle" /\ pc' = "idle" /\ ws' = 0 /\ ws \in Workspaces
      /\ msg' = 0 /\ left' = 0 /\ index' = origin /\ found' = {} /\ commit' = NoCommit
      /\ verified' = NoCommit /\ raced' = {} /\ staged' = {}
      /\ \/ tree' = [tree EXCEPT ![ws] = Gone] /\ leftover' = leftover
         \/ tree' = tree /\ leftover' = leftover \cup {ws}
      /\ mail' = mail \/ mail' = [mail EXCEPT ![msg] = "acked"]
      /\ UNCHANGED <<sandbox, pushing, origin, row, report, cp, deliveries, count, late,
                     remote, published, pr, agentRuns>>
  BY DEF Ends, FixInv, DeliveryInv
<1>2. /\ tree' \in [Workspaces -> Tree \cup {Gone}]
      /\ leftover' \subseteq Workspaces
      /\ \A w \in Workspaces \ {ws} : tree'[w] = tree[w]
      /\ tree'[ws] # Gone => ws \in leftover'
      /\ leftover \subseteq leftover'
  BY <1>1 DEF FixInv, TypeOK
<1>3. child' \in [at : {None, "done", "failed"} \cup PrNode,
                  skip : {None, "no_repo_url", "verifier_failed"}, running : BOOLEAN]
  BY DEF FixInv, TypeOK, NoChild, PrNode
<1>4. mail' \in [Message -> {"absent", "queued", "acked"}]
  BY <1>1 DEF FixInv, TypeOK
<1>5. TypeOK'
  BY <1>1, <1>2, <1>3, <1>4, BugFixAssumption DEF FixInv, TypeOK, ConfigOK
<1>6. ConfigOK' /\ DeliveryInv' /\ ControlInv' /\ IdleInv'
  BY <1>1 DEF FixInv, ConfigOK, DeliveryInv, ControlInv, IdleInv
<1>7. PushInv' /\ ReportedPushIsReal'
  <2>1. child'.at # None => report.pushed /\ row = "succeeded"
    BY DEF FixInv, PushInv, ControlInv, NoChild
  <2>2. child.at # None => child'.at # None
    BY DEF NoChild, None
  <2> QED
    BY <1>1, <2>1, <2>2 DEF FixInv, PushInv, ReportedPushIsReal
<1>8. AgeInv'
  BY <1>1, BugFixAssumption DEF FixInv, TypeOK, AgeInv
<1>9. SourceInv' /\ VetInv' /\ CommitInv'
  BY <1>1 DEF FixInv, SourceInv, VetInv, CommitInv, Snapshot
<1>10. RunsInv'
  BY <1>1 DEF FixInv, TypeOK, RunsInv, Replanned
<1>11. WorkspacesAreReleased'
  BY <1>1, <1>2 DEF FixInv, WorkspacesAreReleased
<1> QED
  BY <1>5, <1>6, <1>7, <1>8, <1>9, <1>10, <1>11 DEF FixInv

-----------------------------------------------------------------------------
(* The nodes prepare, agent and verify *)

\* The baseline is taken from a workspace that nothing has run in yet.
LEMMA PreparePreserves ==
  ASSUME FixInv, Prepare
  PROVE  FixInv'
<1> DEFINE look == Snapshot(tree[ws])
<1>1. /\ pc = "node" /\ cp.node = "prepare" /\ pc' = "node"
      /\ cp' = [cp EXCEPT !.node = "agent", !.replans = Replans, !.inner = ws,
                  !.baseline = IF cp.baseline = NoFiles THEN look ELSE @]
      /\ UNCHANGED <<sandbox, pushing, origin, row, report, deliveries, mail, count,
                     msg, left, ws, tree, late, index, found, commit, remote, child,
                     published, pr, verified, raced, staged, leftover, agentRuns>>
  BY DEF Prepare, Persist, config, queue, disk, git, published_vars, seen, history
<1>2. ws \in Workspaces /\ tree[ws] \in Tree /\ cp \in Checkpoint
  BY <1>1 DEF FixInv, DeliveryInv, TypeOK
<1>3. look \in [Target -> Content]
  BY <1>2, SnapshotType
<1>4. look = Snapshot(tree[ws])
  OBVIOUS
<1> HIDE DEF look
<1>5. Replans \in Nat /\ (Replans >= 1 <=> Replanned)
  BY <1>1, <1>2 DEF Replans, Replanned, Checkpoint
<1>6. /\ cp'.node = "agent" /\ cp'.replans = Replans /\ cp'.inner = ws
      /\ cp'.baseline = (IF cp.baseline = NoFiles THEN look ELSE cp.baseline)
      /\ cp'.verdict = cp.verdict /\ cp'.push = cp.push /\ cp'.changed = cp.changed
  BY <1>1, <1>2 DEF Checkpoint
<1>7. cp' \in Checkpoint
  BY <1>1, <1>2, <1>3, <1>5 DEF Checkpoint
<1>8. TypeOK'
  BY <1>1, <1>7 DEF FixInv, TypeOK
<1>9. ConfigOK' /\ DeliveryInv' /\ ControlInv' /\ IdleInv'
  BY <1>1, <1>2, <1>6 DEF FixInv, ConfigOK, DeliveryInv, ControlInv, IdleInv
<1>10. PushInv' /\ ReportedPushIsReal' /\ WorkspacesAreReleased'
  BY <1>1, <1>6 DEF FixInv, PushInv, ReportedPushIsReal, WorkspacesAreReleased
<1>11. AgeInv' /\ VetInv' /\ CommitInv'
  BY <1>1, <1>6 DEF FixInv, AgeInv, VetInv, CommitInv
<1>12. cp'.baseline = Snapshot(origin)
  <2>1. CASE cp.baseline # NoFiles
    BY <1>6, <2>1 DEF FixInv, SourceInv
  <2>2. CASE cp.baseline = NoFiles /\ Fresh
    BY <1>1, <1>4, <1>6, <2>2 DEF Fresh
  <2>3. CASE cp.baseline = NoFiles /\ cp.baseline = Snapshot(origin)
    <3>1. origin \in Tree
      BY DEF FixInv, ConfigOK
    <3>2. Target = {}
      BY <2>3, <3>1, SnapshotType, FilesAreFiles
    <3> QED
      BY <1>4, <1>6, <2>3, <3>2 DEF Snapshot
  <2> QED
    BY <1>1, <2>1, <2>2, <2>3 DEF FixInv, SourceInv
<1>13. SourceInv'
  BY <1>1, <1>6, <1>12 DEF SourceInv, Snapshot
<1>14. RunsInv'
  BY <1>1, <1>5, <1>6 DEF FixInv, RunsInv, Replanned
<1> QED
  BY <1>8, <1>9, <1>10, <1>11, <1>13, <1>14 DEF FixInv

\* Entering the agent node uses up the run that the delivery, or the replan,
\* has paid for; leaving it goes to verify.
LEMMA AgentPreserves ==
  ASSUME FixInv, EnterAgent \/ LeaveAgent
  PROVE  FixInv'
<1>1. CASE EnterAgent
  <2>1. /\ pc = "node" /\ cp.node = "agent" /\ pc' = "agent" /\ left' = MaxCalls
        /\ agentRuns' = agentRuns + 1
        /\ UNCHANGED <<sandbox, pushing, origin, row, report, cp, deliveries, mail,
                       count, msg, ws, tree, late, index, found, commit, remote, child,
                       published, pr, verified, raced, staged, leftover>>
    BY <1>1 DEF EnterAgent, config, task, queue, disk, git, published_vars, seen
  <2>2. TypeOK'
    BY <2>1, BugFixAssumption DEF FixInv, TypeOK
  <2>3. ConfigOK' /\ DeliveryInv' /\ ControlInv' /\ IdleInv'
    BY <2>1 DEF FixInv, ConfigOK, DeliveryInv, ControlInv, IdleInv
  <2>4. PushInv' /\ ReportedPushIsReal' /\ WorkspacesAreReleased'
    BY <2>1 DEF FixInv, PushInv, ReportedPushIsReal, WorkspacesAreReleased
  <2>5. AgeInv' /\ SourceInv' /\ VetInv' /\ CommitInv'
    BY <2>1 DEF FixInv, AgeInv, SourceInv, VetInv, CommitInv, Snapshot
  <2>6. RunsInv'
    BY <2>1 DEF FixInv, TypeOK, RunsInv, Replanned
  <2> QED
    BY <2>2, <2>3, <2>4, <2>5, <2>6 DEF FixInv
<1>2. CASE LeaveAgent
  <2>1. /\ pc = "agent" /\ pc' = "node" /\ left' = 0
        /\ cp' = [cp EXCEPT !.node = "verify"]
        /\ UNCHANGED <<sandbox, pushing, origin, row, report, deliveries, mail, count,
                       msg, ws, tree, late, index, found, commit, remote, child,
                       published, pr, verified, raced, staged, leftover, agentRuns>>
    BY <1>2 DEF LeaveAgent, Persist, config, queue, disk, git, published_vars, seen,
                history
  <2>2. cp \in Checkpoint /\ cp.node = "agent"
    BY <2>1 DEF FixInv, TypeOK, ControlInv
  <2>3. /\ cp' \in Checkpoint /\ cp'.node = "verify" /\ cp'.inner = cp.inner
        /\ cp'.replans = cp.replans /\ cp'.baseline = cp.baseline
        /\ cp'.verdict = cp.verdict /\ cp'.push = cp.push
    BY <2>1, <2>2 DEF Checkpoint
  <2>4. TypeOK'
    BY <2>1, <2>3, BugFixAssumption DEF FixInv, TypeOK
  <2>5. ConfigOK' /\ DeliveryInv' /\ ControlInv' /\ IdleInv'
    BY <2>1, <2>2, <2>3 DEF FixInv, ConfigOK, DeliveryInv, ControlInv, IdleInv
  <2>6. PushInv' /\ ReportedPushIsReal' /\ WorkspacesAreReleased'
    BY <2>1, <2>2, <2>3 DEF FixInv, PushInv, ReportedPushIsReal, WorkspacesAreReleased
  <2>7. AgeInv' /\ SourceInv' /\ VetInv' /\ CommitInv'
    BY <2>1, <2>2, <2>3 DEF FixInv, AgeInv, SourceInv, VetInv, CommitInv, Snapshot
  <2>8. RunsInv'
    BY <2>1, <2>2, <2>3 DEF FixInv, TypeOK, RunsInv, Replanned
  <2> QED
    BY <2>4, <2>5, <2>6, <2>7, <2>8 DEF FixInv
<1> QED
  BY <1>1, <1>2

\* An outcome applied to a workspace leaves worktrees, and late writes to it.
LEMMA AppliedFacts ==
  ASSUME FixInv, NEW w \in Workspaces, w <= deliveries,
         NEW o \in Outcomes(tree[w]), Applied(o, w)
  PROVE  /\ tree' \in [Workspaces -> Tree \cup {Gone}]
         /\ tree'[w] = o.tree
         /\ \A v \in Workspaces : tree[v] \in Tree => tree'[v] \in Tree
         /\ \A v \in Workspaces \ {w} : tree'[v] = tree[v]
         /\ late' \subseteq [ws : Workspaces, path : Path, content : Content]
         /\ \A l \in late' : l.ws <= deliveries
<1>1. /\ tree' = [tree EXCEPT ![w] = o.tree]
      /\ late' = late \cup {[ws |-> w, path |-> l.path, content |-> l.content] :
                              l \in o.late}
  BY DEF Applied
<1>2. /\ tree \in [Workspaces -> Tree \cup {Gone}]
      /\ late \subseteq [ws : Workspaces, path : Path, content : Content]
      /\ \A l \in late : l.ws <= deliveries
  BY DEF FixInv, TypeOK, AgeInv
<1>3. /\ o.tree \in Tree \cup {Gone} /\ (tree[w] \in Tree => o.tree \in Tree)
      /\ o.late \subseteq Late
  BY DEF Outcomes
<1>4. /\ tree' \in [Workspaces -> Tree \cup {Gone}]
      /\ tree'[w] = o.tree
      /\ \A v \in Workspaces \ {w} : tree'[v] = tree[v]
      /\ \A v \in Workspaces : tree[v] \in Tree => tree'[v] \in Tree
  BY <1>1, <1>2, <1>3
<1>5. /\ late' \subseteq [ws : Workspaces, path : Path, content : Content]
      /\ \A l \in late' : l.ws <= deliveries
  BY <1>1, <1>2, <1>3 DEF Late
<1> QED
  BY <1>4, <1>5

\* A tool call edits the workspace the checkpoint names: this delivery's, one
\* that is still on disk, or one it brings back and puts on record.
LEMMA UseToolPreserves ==
  ASSUME FixInv, NEW c \in Calls, UseTool(c)
  PROVE  FixInv'
<1> DEFINE w == cp.inner
<1>1. /\ pc = "agent" /\ left > 0 /\ left' = left - 1
      /\ UNCHANGED <<sandbox, pushing, origin, row, report, cp, deliveries, mail, count,
                     msg, pc, ws, found, commit, remote, child, published, pr, verified,
                     raced, agentRuns>>
  BY DEF UseTool, config, task, queue, published_vars
<1>2. PICK o \in Execute(c, sandbox, tree[w]) :
        /\ Applied(o, w)
        /\ leftover' = IF tree[w] = Gone /\ o.tree # Gone
                       THEN leftover \cup {w} ELSE leftover
        /\ IF w = ws
           THEN index' = Added(o.adds, o.tree) /\ staged' = staged \cup o.adds
           ELSE UNCHANGED <<index, staged>>
  BY DEF UseTool
<1>3. /\ w \in Workspaces /\ w <= deliveries /\ tree[w] \in Tree \cup {Gone} /\ c \in Call
      /\ ws \in Workspaces /\ tree[ws] \in Tree /\ leftover \subseteq Workspaces
      /\ tree \in [Workspaces -> Tree \cup {Gone}] /\ index \in Tree
      /\ staged \subseteq Path
  BY <1>1, BugFixAssumption DEF FixInv, TypeOK, ControlInv, DeliveryInv, AgeInv
<1>4. o \in Outcomes(tree[w])
  BY <1>3, ExecuteType
<1>5. o.adds \subseteq Path /\ (tree[w] \in Tree => o.tree \in Tree)
  BY <1>4 DEF Outcomes
<1> HIDE DEF w
<1>6. /\ tree' \in [Workspaces -> Tree \cup {Gone}] /\ tree'[ws] \in Tree
      /\ tree'[w] = o.tree /\ \A v \in Workspaces \ {w} : tree'[v] = tree[v]
      /\ late' \subseteq [ws : Workspaces, path : Path, content : Content]
      /\ \A l \in late' : l.ws <= deliveries
  BY <1>2, <1>3, <1>4, AppliedFacts
<1>7. /\ leftover' \subseteq Workspaces /\ leftover \subseteq leftover'
      /\ \A v \in Workspaces : tree'[v] # Gone => tree[v] # Gone \/ v \in leftover'
  BY <1>2, <1>3, <1>6
<1>8. /\ index' \in Tree /\ staged' \subseteq Path
      /\ \A p \in Path \ staged' : index'[p] = origin[p]
  <2>1. \A p \in Path \ staged : index[p] = origin[p]
    BY <1>1 DEF FixInv, VetInv, ControlInv
  <2>2. CASE w = ws
    <3>1. index' = Added(o.adds, o.tree) /\ staged' = staged \cup o.adds /\ o.tree \in Tree
      BY <1>2, <1>3, <1>5, <2>2
    <3>2. /\ index' \in Tree
          /\ \A p \in Path : index'[p] = IF p \in o.adds THEN o.tree[p] ELSE index[p]
      BY <1>3, <3>1, AddedType
    <3> QED
      BY <1>3, <1>5, <2>1, <3>1, <3>2
  <2>3. CASE w # ws
    BY <1>2, <1>3, <2>1, <2>3
  <2> QED
    BY <2>2, <2>3
<1>9. TypeOK'
  BY <1>1, <1>6, <1>7, <1>8, BugFixAssumption DEF FixInv, TypeOK
<1>10. ConfigOK' /\ DeliveryInv' /\ ControlInv' /\ IdleInv'
  BY <1>1, <1>3, <1>6 DEF FixInv, ConfigOK, DeliveryInv, ControlInv, IdleInv
<1>11. PushInv' /\ ReportedPushIsReal'
  BY <1>1 DEF FixInv, PushInv, ReportedPushIsReal
<1>12. AgeInv' /\ CommitInv'
  BY <1>1, <1>6 DEF FixInv, AgeInv, CommitInv
<1>13. SourceInv'
  BY <1>1 DEF FixInv, ControlInv, SourceInv, Snapshot
<1>14. VetInv'
  BY <1>1, <1>8 DEF VetInv
<1>15. RunsInv'
  BY <1>1 DEF FixInv, RunsInv, Replanned
<1>16. WorkspacesAreReleased'
  BY <1>1, <1>7 DEF FixInv, WorkspacesAreReleased
<1> QED
  BY <1>9, <1>10, <1>11, <1>12, <1>13, <1>14, <1>15, <1>16 DEF FixInv

\* A late write changes one file of a worktree that is there, and is recorded
\* if verify has already looked.
LEMMA LateWritePreserves ==
  ASSUME FixInv, LateWrite
  PROVE  FixInv'
<1>1. PICK l \in late :
        /\ late' = late \ {l}
        /\ IF tree[l.ws] = Gone THEN UNCHANGED <<tree, index, raced, staged>>
           ELSE /\ tree' = [tree EXCEPT ![l.ws] = Written(@, l.path, l.content)]
                /\ raced' = IF l.ws = ws /\ Vetting THEN raced \cup {l.path} ELSE raced
                /\ \/ UNCHANGED <<index, staged>>
                   \/ /\ l.ws = ws /\ pc \notin {"committed", "pushed"}
                      /\ index' = [index EXCEPT ![l.path] = l.content]
                      /\ staged' = staged \cup {l.path}
  BY DEF LateWrite
<1>2. UNCHANGED <<sandbox, pushing, origin, row, report, cp, deliveries, mail, count, msg,
               pc, left, ws, found, commit, remote, child, published, pr, verified,
               leftover, agentRuns>>
  BY DEF LateWrite, config, task, queue, published_vars, history
<1>3. /\ l.ws \in Workspaces /\ l.path \in Path /\ l.content \in Content
      /\ tree \in [Workspaces -> Tree \cup {Gone}] /\ index \in Tree
      /\ raced \subseteq Path /\ staged \subseteq Path
      /\ late \subseteq [ws : Workspaces, path : Path, content : Content]
  BY DEF FixInv, TypeOK
<1>4. /\ tree' \in [Workspaces -> Tree \cup {Gone}]
      /\ \A w \in Workspaces : tree[w] \in Tree => tree'[w] \in Tree
      /\ \A w \in Workspaces : tree[w] = Gone => tree'[w] = Gone
      /\ \A w \in Workspaces \ {l.ws} : tree'[w] = tree[w]
  <2>1. Written(tree[l.ws], l.path, l.content) \in Tree
    BY <1>3, WrittenType
  <2> QED
    BY <1>1, <1>3, <2>1
<1>5. tree[l.ws] \in Tree => \A p \in Path \ {l.path} : tree'[l.ws][p] = tree[l.ws][p]
  <2> SUFFICES ASSUME tree[l.ws] \in Tree, NEW p \in Path \ {l.path}
               PROVE  tree'[l.ws][p] = tree[l.ws][p]
    OBVIOUS
  <2>1. CASE tree[l.ws] = Gone
    BY <1>1, <2>1
  <2>2. CASE tree[l.ws] # Gone
    <3>1. tree'[l.ws] = [tree[l.ws] EXCEPT ![l.path] = l.content]
      BY <1>1, <1>3, <2>2 DEF Written
    <3> QED
      BY <3>1 DEF Tree
  <2> QED
    BY <2>1, <2>2
<1>6. tree[l.ws] \in Tree /\ Path # {} => tree[l.ws] # Gone
  BY DEF Tree, Gone, Content
<1>7. /\ raced \subseteq raced' /\ raced' \subseteq Path
      /\ raced' # raced => Vetting
      /\ l.ws = ws /\ Vetting /\ tree[l.ws] # Gone => l.path \in raced'
  BY <1>1, <1>3
<1>8. /\ index' \in Tree /\ staged' \subseteq Path /\ staged \subseteq staged'
      /\ \A p \in Path \ staged' : index'[p] = index[p]
      /\ index' # index \/ staged' # staged => l.ws = ws /\ pc \notin {"committed", "pushed"}
  <2>1. CASE UNCHANGED <<index, staged>>
    BY <1>3, <2>1
  <2>2. CASE /\ l.ws = ws /\ pc \notin {"committed", "pushed"}
             /\ index' = [index EXCEPT ![l.path] = l.content]
             /\ staged' = staged \cup {l.path}
    BY <1>3, <2>2 DEF Tree
  <2> QED
    BY <1>1, <2>1, <2>2
<1>9. TypeOK'
  BY <1>1, <1>2, <1>3, <1>4, <1>7, <1>8 DEF FixInv, TypeOK
<1>10. ConfigOK' /\ DeliveryInv' /\ ControlInv'
  BY <1>2, <1>4 DEF FixInv, ConfigOK, DeliveryInv, ControlInv
<1>11. IdleInv'
  <2>1. 0 \notin Workspaces
    BY DEF Workspaces
  <2> QED
    BY <1>2, <1>3, <1>8, <2>1 DEF FixInv, IdleInv, DeliveryInv
<1>12. PushInv' /\ ReportedPushIsReal'
  BY <1>2 DEF FixInv, PushInv, ReportedPushIsReal
<1>13. AgeInv'
  BY <1>1, <1>2 DEF FixInv, AgeInv
<1>14. pc # "idle" /\ Fresh => Fresh'
  <2> SUFFICES ASSUME pc # "idle", Fresh PROVE Fresh'
    OBVIOUS
  <2>1. ws \in Workspaces /\ l.ws # ws
    BY DEF FixInv, DeliveryInv, Fresh
  <2> QED
    BY <1>1, <1>2, <1>4, <1>8, <2>1 DEF Fresh
<1>15. pc = "node" /\ cp.node = "push" /\ Vetted => Vetted'
  <2> SUFFICES ASSUME pc = "node", cp.node = "push", Vetted PROVE Vetted'
    OBVIOUS
  <2>1. ws \in Workspaces /\ tree[ws] \in Tree /\ Vetting
    BY DEF FixInv, DeliveryInv, Vetting
  <2>2. \A p \in Path \ raced' : tree'[ws][p] = verified[p]
    <3> SUFFICES ASSUME NEW p \in Path \ raced' PROVE tree'[ws][p] = verified[p]
      OBVIOUS
    <3>1. tree[ws][p] = verified[p]
      BY <1>7 DEF Vetted
    <3>2. CASE l.ws = ws
      BY <1>5, <1>6, <1>7, <2>1, <3>1, <3>2
    <3>3. CASE l.ws # ws
      BY <1>4, <2>1, <3>1, <3>3
    <3> QED
      BY <3>2, <3>3
  <2>3. \A p \in Target \ (cp.changed \cup raced') : verified[p] = origin[p]
    BY <1>7 DEF Vetted
  <2> QED
    BY <1>2, <2>2, <2>3 DEF Vetted
<1>16. SourceInv'
  BY <1>2, <1>14, <1>15 DEF FixInv, SourceInv, Snapshot
<1>17. VetInv'
  <2>1. ASSUME pc = "suite", NEW p \in Target \ (found \cup raced')
        PROVE  tree'[ws][p] = origin[p]
    <3>1. /\ ws \in Workspaces /\ tree[ws] \in Tree /\ Vetting /\ p \in Path
          /\ tree[ws][p] = origin[p]
      BY <1>7, <2>1, BugFixAssumption DEF FixInv, DeliveryInv, Vetting, VetInv
    <3>2. CASE l.ws = ws
      BY <1>5, <1>6, <1>7, <3>1, <3>2
    <3>3. CASE l.ws # ws
      BY <1>4, <3>1, <3>3
    <3> QED
      BY <3>2, <3>3
  <2>2. ASSUME pc \in {"cloned", "node", "agent", "suite"},
               cp.node \notin {"finalize", "end"}, NEW p \in Path \ staged'
        PROVE  index'[p] = origin[p]
    BY <1>8, <2>2 DEF FixInv, VetInv
  <2> QED
    BY <1>2, <2>1, <2>2 DEF VetInv
<1>18. CommitInv'
  BY <1>2, <1>7, <1>8 DEF FixInv, CommitInv, Vetting
<1>19. RunsInv'
  BY <1>2 DEF FixInv, RunsInv, Replanned
<1>20. WorkspacesAreReleased'
  BY <1>2, <1>4 DEF FixInv, WorkspacesAreReleased
<1> QED
  BY <1>9, <1>10, <1>11, <1>12, <1>13, <1>16, <1>17, <1>18, <1>19, <1>20 DEF FixInv

\* Without a diff the suite is not run; a failure is sent back at most once.
LEMMA NoDiffPreserves ==
  ASSUME FixInv, NoDiff
  PROVE  FixInv'
<1>1. /\ pc = "node" /\ cp.node = "verify" /\ pc' = "node"
      /\ cp' = Verdicted({}, "no_diff")
      /\ UNCHANGED <<sandbox, pushing, origin, row, report, deliveries, mail, count,
                     msg, left, ws, tree, late, index, found, commit, remote, child,
                     published, pr, verified, raced, staged, leftover, agentRuns>>
  BY DEF NoDiff, Persist, config, queue, disk, git, published_vars, seen, history
<1>2. cp \in Checkpoint /\ cp.baseline = Snapshot(origin)
  BY <1>1 DEF FixInv, TypeOK, SourceInv
<1>3. /\ cp'.node = (IF Retry("no_diff", cp.replans) THEN "prepare" ELSE "push")
      /\ cp'.verdict = "no_diff" /\ cp'.replans = cp.replans
      /\ cp'.baseline = cp.baseline /\ cp'.push = cp.push /\ cp'.inner = cp.inner
      /\ cp' \in Checkpoint
  BY <1>1, <1>2 DEF Checkpoint, Verdicted, Verdict
<1>4. cp.push = None /\ remote = NoCommit
  BY <1>1 DEF FixInv, ControlInv, PushInv
<1>5. TypeOK'
  BY <1>1, <1>3 DEF FixInv, TypeOK
<1>6. ConfigOK' /\ DeliveryInv' /\ ControlInv' /\ IdleInv'
  BY <1>1, <1>3 DEF FixInv, ConfigOK, DeliveryInv, ControlInv, IdleInv
<1>7. PushInv' /\ ReportedPushIsReal' /\ WorkspacesAreReleased'
  BY <1>1, <1>3, <1>4
     DEF FixInv, PushInv, ReportedPushIsReal, WorkspacesAreReleased, None
<1>8. AgeInv' /\ SourceInv' /\ VetInv' /\ CommitInv'
  BY <1>1, <1>2, <1>3 DEF FixInv, AgeInv, SourceInv, VetInv, CommitInv, Snapshot
<1>9. RunsInv'
  BY <1>1, <1>2, <1>3 DEF FixInv, TypeOK, RunsInv, Replanned, Retry, None, Checkpoint
<1> QED
  BY <1>5, <1>6, <1>7, <1>8, <1>9 DEF FixInv

\* verify takes down what differs from base_ref.
LEMMA StartSuitePreserves ==
  ASSUME FixInv, StartSuite
  PROVE  FixInv'
<1>1. /\ pc = "node" /\ cp.node = "verify" /\ pc' = "suite"
      /\ found' = Changed /\ raced' = {}
      /\ UNCHANGED <<sandbox, pushing, origin, row, report, cp, deliveries, mail, count,
                     msg, left, ws, tree, late, index, commit, remote, child, published,
                     pr, verified, staged, leftover, agentRuns>>
  BY DEF StartSuite, config, task, queue, disk, published_vars, history
<1>2. \A p \in Target \ Changed : tree[ws][p] = origin[p]
  <2>1. cp.baseline = Snapshot(origin)
    BY <1>1 DEF FixInv, SourceInv
  <2> QED
    BY <2>1 DEF Changed, Snapshot
<1>3. TypeOK'
  BY <1>1 DEF FixInv, TypeOK, Changed
<1>4. ConfigOK' /\ DeliveryInv' /\ ControlInv' /\ IdleInv'
  BY <1>1 DEF FixInv, ConfigOK, DeliveryInv, ControlInv, IdleInv
<1>5. PushInv' /\ ReportedPushIsReal' /\ WorkspacesAreReleased'
  BY <1>1 DEF FixInv, PushInv, ReportedPushIsReal, WorkspacesAreReleased
<1>6. AgeInv' /\ SourceInv' /\ CommitInv'
  BY <1>1 DEF FixInv, AgeInv, SourceInv, CommitInv, Snapshot
<1>7. VetInv'
  BY <1>1, <1>2 DEF FixInv, VetInv
<1>8. RunsInv'
  BY <1>1 DEF FixInv, TypeOK, RunsInv, Replanned
<1> QED
  BY <1>3, <1>4, <1>5, <1>6, <1>7, <1>8 DEF FixInv

\* The suite judges the worktree of this delivery, and what it writes or stages
\* is recorded.
LEMMA RunSuitePreserves ==
  ASSUME FixInv, RunSuite
  PROVE  FixInv'
<1>1. /\ pc = "suite" /\ pc' = "node"
      /\ UNCHANGED <<sandbox, pushing, origin, row, report, deliveries, mail, count,
                     msg, left, ws, found, commit, remote, child, published, pr,
                     leftover, agentRuns>>
  BY DEF RunSuite, Persist, config, queue, published_vars, history
<1>2. PICK c \in Suites : \E o \in Execute(c, sandbox, tree[ws]) : \E v \in Judged(o) :
        /\ cp' = Verdicted(found, v)
        /\ Applied(o, ws)
        /\ index' = Added(o.adds, o.tree) /\ staged' = staged \cup o.adds
        /\ verified' = IF v = "pass" THEN tree[ws] ELSE verified
        /\ raced' = raced \cup {p \in Path : o.tree[p] # tree[ws][p]}
  BY DEF RunSuite, Persist
<1>2a. PICK o \in Execute(c, sandbox, tree[ws]) : \E v \in Judged(o) :
        /\ cp' = Verdicted(found, v)
        /\ Applied(o, ws)
        /\ index' = Added(o.adds, o.tree) /\ staged' = staged \cup o.adds
        /\ verified' = IF v = "pass" THEN tree[ws] ELSE verified
        /\ raced' = raced \cup {p \in Path : o.tree[p] # tree[ws][p]}
  BY <1>2
<1>3. PICK v \in Judged(o) :
        /\ cp' = Verdicted(found, v)
        /\ Applied(o, ws)
        /\ index' = Added(o.adds, o.tree) /\ staged' = staged \cup o.adds
        /\ verified' = IF v = "pass" THEN tree[ws] ELSE verified
        /\ raced' = raced \cup {p \in Path : o.tree[p] # tree[ws][p]}
  BY <1>2a
<1>4. /\ ws \in Workspaces /\ ws <= deliveries /\ tree[ws] \in Tree /\ cp \in Checkpoint
      /\ cp.node = "verify" /\ cp.baseline = Snapshot(origin) /\ c \in Call
      /\ index \in Tree /\ found \subseteq Target /\ raced \subseteq Path
      /\ staged \subseteq Path
  BY <1>1, BugFixAssumption
     DEF FixInv, TypeOK, DeliveryInv, AgeInv, ControlInv, SourceInv
<1>5. o \in Outcomes(tree[ws])
  BY <1>4, ExecuteType
<1>6. /\ o.status \in {"ok", "error", "raise"} /\ o.adds \subseteq Path /\ o.tree \in Tree
  BY <1>4, <1>5 DEF Outcomes
<1>7. v \in Verdict
  BY <1>6 DEF Judged, Verdict
<1>8. /\ tree' \in [Workspaces -> Tree \cup {Gone}] /\ tree'[ws] = o.tree
      /\ \A w \in Workspaces \ {ws} : tree'[w] = tree[w]
      /\ late' \subseteq [ws : Workspaces, path : Path, content : Content]
      /\ \A l \in late' : l.ws <= deliveries
  BY <1>3, <1>4, <1>5, AppliedFacts
<1>9. /\ index' \in Tree /\ staged' \subseteq Path /\ raced' \subseteq Path
      /\ \A p \in Path \ staged' : index'[p] = origin[p]
  <2>1. \A p \in Path : index'[p] = IF p \in o.adds THEN o.tree[p] ELSE index[p]
    BY <1>3, <1>4, <1>6, AddedType
  <2>2. \A p \in Path \ staged : index[p] = origin[p]
    BY <1>1, <1>4 DEF FixInv, VetInv
  <2> QED
    BY <1>3, <1>4, <1>6, <2>1, <2>2, AddedType
<1>10. /\ cp'.node = (IF Retry(v, cp.replans) THEN "prepare" ELSE "push")
       /\ cp'.changed = found /\ cp'.verdict = v /\ cp'.replans = cp.replans
       /\ cp'.baseline = cp.baseline /\ cp'.push = cp.push /\ cp'.inner = cp.inner
       /\ cp' \in Checkpoint
  BY <1>3, <1>4, <1>7 DEF Checkpoint, Verdicted
<1>11. cp.push = None /\ remote = NoCommit
  BY <1>4 DEF FixInv, ControlInv, PushInv
<1>12. TypeOK'
  BY <1>1, <1>3, <1>4, <1>8, <1>9, <1>10 DEF FixInv, TypeOK
<1>13. ConfigOK' /\ DeliveryInv' /\ ControlInv' /\ IdleInv'
  BY <1>1, <1>4, <1>6, <1>8, <1>10 DEF FixInv, ConfigOK, DeliveryInv, ControlInv, IdleInv
<1>14. PushInv' /\ ReportedPushIsReal'
  BY <1>1, <1>10, <1>11 DEF FixInv, PushInv, ReportedPushIsReal, None
<1>15. AgeInv' /\ CommitInv'
  BY <1>1, <1>8, <1>10 DEF FixInv, AgeInv, CommitInv
<1>16. v = "pass" => Vetted'
  <2> SUFFICES ASSUME v = "pass" PROVE Vetted'
    OBVIOUS
  <2>1. verified' = tree[ws]
    BY <1>3
  <2>2. \A p \in Path \ raced' : tree'[ws][p] = verified'[p]
    BY <1>3, <1>8, <2>1
  <2>3. \A p \in Target \ (found \cup raced') : verified'[p] = origin[p]
    BY <1>1, <1>3, <2>1 DEF FixInv, VetInv
  <2> QED
    BY <1>1, <1>4, <1>10, <2>1, <2>2, <2>3 DEF Vetted
<1>17. SourceInv'
  BY <1>1, <1>4, <1>10, <1>16 DEF SourceInv, Snapshot
<1>18. VetInv'
  BY <1>1, <1>9 DEF VetInv
<1>19. RunsInv'
  BY <1>1, <1>4, <1>10 DEF FixInv, TypeOK, RunsInv, Replanned, Retry, None, Checkpoint
<1>20. WorkspacesAreReleased'
  BY <1>1, <1>8 DEF FixInv, WorkspacesAreReleased
<1> QED
  BY <1>12, <1>13, <1>14, <1>15, <1>17, <1>18, <1>19, <1>20 DEF FixInv

-----------------------------------------------------------------------------
(* The nodes push and finalize, and the terminal write *)

\* The checkpoint moves past the push with a truthful note about it.
Noted(reason) ==
  /\ cp' = [cp EXCEPT !.node = "finalize", !.push = reason]
  /\ pc # "idle" /\ pc' = "node"
  /\ UNCHANGED <<sandbox, pushing, origin, row, report, deliveries, mail, count, msg,
                 left, ws, tree, late, index, found, commit, remote, child, published,
                 pr, verified, raced, staged, leftover, agentRuns>>

\* Such a step preserves the invariant.
LEMMA NotedPreserves ==
  ASSUME FixInv, NEW reason \in {"pushed"} \cup Skip, Noted(reason), cp.node = "push",
         row \notin Terminal,
         reason = "pushed" => remote # NoCommit /\ cp.verdict = "pass"
  PROVE  FixInv'
<1>1. /\ pc # "idle" /\ pc' = "node"
      /\ UNCHANGED <<sandbox, pushing, origin, row, report, deliveries, mail, count,
                     msg, left, ws, tree, late, index, found, commit, remote, child,
                     published, pr, verified, raced, staged, leftover, agentRuns>>
  BY DEF Noted
<1>2. cp \in Checkpoint
  BY DEF FixInv, TypeOK
<1>3. /\ cp' \in Checkpoint /\ cp'.node = "finalize" /\ cp'.push = reason
      /\ cp'.verdict = cp.verdict /\ cp'.replans = cp.replans
      /\ cp'.baseline = cp.baseline /\ cp'.inner = cp.inner
  BY <1>2 DEF Noted, Checkpoint
<1>4. TypeOK'
  BY <1>1, <1>3 DEF FixInv, TypeOK
<1>5. ConfigOK' /\ DeliveryInv' /\ ControlInv' /\ IdleInv'
  BY <1>1, <1>3 DEF FixInv, ConfigOK, DeliveryInv, ControlInv, IdleInv
<1>6. PushInv' /\ ReportedPushIsReal' /\ WorkspacesAreReleased'
  BY <1>1, <1>3 DEF FixInv, PushInv, ReportedPushIsReal, WorkspacesAreReleased
<1>7. AgeInv' /\ SourceInv' /\ VetInv' /\ CommitInv'
  BY <1>1, <1>3 DEF FixInv, AgeInv, SourceInv, VetInv, CommitInv, Snapshot
<1>8. RunsInv'
  BY <1>1, <1>3 DEF FixInv, TypeOK, RunsInv, Replanned
<1> QED
  BY <1>4, <1>5, <1>6, <1>7, <1>8 DEF FixInv

\* A push that is skipped, kept local or done is noted.
LEMMA PushNodePreserves ==
  ASSUME FixInv, SkipPush \/ NothingStaged \/ KeepLocal \/ PushDone
  PROVE  FixInv'
<1> USE DEF Persist, PushNoted, config, queue, disk, git, published_vars, seen, history
<1>1. /\ cp.node = "push" /\ row \notin Terminal
  BY DEF FixInv, ControlInv, SkipPush, NothingStaged, KeepLocal, PushDone
<1>2. CASE SkipPush \/ NothingStaged
  <2>1. PICK reason \in {"no_commit", "verifier_failed"} : Noted(reason)
    BY <1>2 DEF SkipPush, NothingStaged, Noted
  <2> QED
    BY <1>1, <2>1, NotedPreserves DEF Skip
<1>3. CASE KeepLocal
  <2>1. Noted(pushing) /\ pushing \in {"no_repo_url", "no_token"}
    BY <1>3 DEF KeepLocal, Noted, FixInv, ConfigOK
  <2> QED
    BY <1>1, <2>1, NotedPreserves DEF Skip
<1>4. CASE PushDone
  <2>1. Noted("pushed") /\ remote # NoCommit /\ cp.verdict = "pass"
    BY <1>4 DEF PushDone, Noted, FixInv, PushInv, ControlInv
  <2> QED
    BY <1>1, <2>1, NotedPreserves
<1> QED
  BY <1>2, <1>3, <1>4

\* The commit holds the files that verify accepted and what has been staged: a
\* workspace nothing has run in has nothing to commit.
LEMMA CommitPreserves ==
  ASSUME FixInv, Commit
  PROVE  FixInv'
<1>1. /\ pc = "node" /\ cp.node = "push" /\ cp.verdict = "pass" /\ Staged # {}
      /\ commit' = ToCommit /\ index' = ToCommit /\ pc' = "committed"
      /\ UNCHANGED <<sandbox, pushing, origin, row, report, cp, deliveries, mail, count,
                     msg, left, ws, tree, late, found, remote, child, published, pr,
                     verified, raced, staged, leftover, agentRuns>>
  BY DEF Commit, config, task, queue, disk, published_vars, seen, history
<1>2. /\ tree[ws] \in Tree /\ origin \in Tree /\ index \in Tree /\ cp \in Checkpoint
      /\ cp.changed \subseteq Target
  BY <1>1 DEF FixInv, DeliveryInv, TypeOK, ConfigOK, Checkpoint
<1>3. /\ ToCommit \in Tree
      /\ \A p \in Path : ToCommit[p] = IF p \in cp.changed THEN tree[ws][p] ELSE index[p]
  BY <1>2, AddedType DEF ToCommit
<1>4. ToCommit # NoCommit
  BY <1>1, <1>3, TreesAreCommits DEF Staged
<1>5. Vetted
  <2>1. ~Fresh
    BY <1>1, <1>3 DEF Fresh, Staged
  <2> QED
    BY <1>1, <2>1 DEF FixInv, SourceInv
<1>6. \A p \in Path \ (raced \cup staged) :
        ToCommit[p] = IF p \in Target THEN verified[p] ELSE origin[p]
  <2> SUFFICES ASSUME NEW p \in Path, p \notin raced, p \notin staged
               PROVE  ToCommit[p] = IF p \in Target THEN verified[p] ELSE origin[p]
    OBVIOUS
  <2>1. tree[ws][p] = verified[p]
    BY <1>5 DEF Vetted
  <2>2. index[p] = origin[p]
    BY <1>1 DEF FixInv, VetInv
  <2>3. p \in Target /\ p \notin cp.changed => verified[p] = origin[p]
    BY <1>5 DEF Vetted
  <2> QED
    BY <1>2, <1>3, <2>1, <2>2, <2>3
<1>7. verified # NoCommit
  BY <1>1, <1>5, TreesAreCommits DEF Vetted, Staged
<1>8. TypeOK'
  BY <1>1, <1>3 DEF FixInv, TypeOK
<1>9. ConfigOK' /\ DeliveryInv' /\ ControlInv' /\ IdleInv'
  BY <1>1 DEF FixInv, ConfigOK, DeliveryInv, ControlInv, IdleInv
<1>10. PushInv' /\ ReportedPushIsReal' /\ WorkspacesAreReleased'
  BY <1>1, <1>4 DEF FixInv, PushInv, ReportedPushIsReal, WorkspacesAreReleased
<1>11. AgeInv' /\ SourceInv' /\ VetInv'
  BY <1>1 DEF FixInv, AgeInv, SourceInv, VetInv, Snapshot
<1>12. CommitInv'
  BY <1>1, <1>6, <1>7 DEF CommitInv
<1>13. RunsInv'
  BY <1>1 DEF FixInv, TypeOK, RunsInv, Replanned
<1> QED
  BY <1>8, <1>9, <1>10, <1>11, <1>12, <1>13 DEF FixInv

\* The branch is created once, with the commit.
LEMMA GitPushPreserves ==
  ASSUME FixInv, GitPush
  PROVE  FixInv'
<1>1. /\ pc = "committed" /\ remote = NoCommit /\ remote' = commit /\ pc' = "pushed"
      /\ UNCHANGED <<sandbox, pushing, origin, row, report, cp, deliveries, mail, count,
                     msg, left, ws, tree, late, index, found, commit, child, published,
                     pr, verified, raced, staged, leftover, agentRuns>>
  BY DEF GitPush, config, task, queue, disk, git, seen, history
<1>2. commit # NoCommit /\ cp.node = "push" /\ cp.verdict = "pass"
  BY <1>1 DEF FixInv, PushInv, ControlInv
<1>3. TypeOK'
  BY <1>1 DEF FixInv, TypeOK
<1>4. ConfigOK' /\ DeliveryInv' /\ ControlInv' /\ IdleInv'
  BY <1>1, <1>2 DEF FixInv, ConfigOK, DeliveryInv, ControlInv, IdleInv
<1>5. PushInv' /\ ReportedPushIsReal' /\ WorkspacesAreReleased'
  BY <1>1, <1>2 DEF FixInv, PushInv, ReportedPushIsReal, WorkspacesAreReleased
<1>6. AgeInv' /\ SourceInv' /\ VetInv' /\ CommitInv'
  BY <1>1 DEF FixInv, AgeInv, SourceInv, VetInv, CommitInv, Snapshot
<1>7. RunsInv'
  BY <1>1 DEF FixInv, TypeOK, RunsInv, Replanned
<1> QED
  BY <1>3, <1>4, <1>5, <1>6, <1>7 DEF FixInv

\* The last node changes the cursor only.
LEMMA FinalizePreserves ==
  ASSUME FixInv, Finalize
  PROVE  FixInv'
<1>1. /\ pc = "node" /\ cp.node = "finalize" /\ pc' = "node"
      /\ cp' = [cp EXCEPT !.node = "end"]
      /\ UNCHANGED <<sandbox, pushing, origin, row, report, deliveries, mail, count,
                     msg, left, ws, tree, late, index, found, commit, remote, child,
                     published, pr, verified, raced, staged, leftover, agentRuns>>
  BY DEF Finalize, Persist, config, queue, disk, git, published_vars, seen, history
<1>2. cp \in Checkpoint
  BY DEF FixInv, TypeOK
<1>3. /\ cp' \in Checkpoint /\ cp'.node = "end" /\ cp'.push = cp.push
      /\ cp'.verdict = cp.verdict /\ cp'.replans = cp.replans
      /\ cp'.baseline = cp.baseline /\ cp'.inner = cp.inner
  BY <1>1, <1>2 DEF Checkpoint
<1>4. TypeOK'
  BY <1>1, <1>3 DEF FixInv, TypeOK
<1>5. ConfigOK' /\ DeliveryInv' /\ ControlInv' /\ IdleInv'
  BY <1>1, <1>3 DEF FixInv, ConfigOK, DeliveryInv, ControlInv, IdleInv
<1>6. PushInv' /\ ReportedPushIsReal' /\ WorkspacesAreReleased'
  BY <1>1, <1>3 DEF FixInv, PushInv, ReportedPushIsReal, WorkspacesAreReleased
<1>7. AgeInv' /\ SourceInv' /\ VetInv' /\ CommitInv'
  BY <1>1, <1>3 DEF FixInv, AgeInv, SourceInv, VetInv, CommitInv, Snapshot
<1>8. RunsInv'
  BY <1>1, <1>3 DEF FixInv, TypeOK, RunsInv, Replanned
<1> QED
  BY <1>4, <1>5, <1>6, <1>7, <1>8 DEF FixInv

\* The report repeats what the checkpoint says.
LEMMA CompletePreserves ==
  ASSUME FixInv, Complete
  PROVE  FixInv'
<1>1. PICK f \in Explanations :
        report' = [passed |-> cp.verdict = "pass", pushed |-> cp.push = "pushed",
                   failure |-> f]
  BY DEF Complete
<1>2. /\ pc = "node" /\ cp.node = "end" /\ row' = "succeeded" /\ pc' = "chain"
      /\ UNCHANGED <<sandbox, pushing, origin, cp, deliveries, mail, count, msg, left,
                     ws, tree, late, index, found, commit, remote, child, published, pr,
                     verified, raced, staged, leftover, agentRuns>>
  BY DEF Complete, config, queue, disk, git, published_vars, seen, history
<1>3. f \in Verdict \cup {"truncated"}
  BY DEF Explanations, FixInv, TypeOK, Checkpoint, Verdict, None
<1>4. /\ report'.passed <=> cp.verdict = "pass"
      /\ report'.pushed <=> cp.push = "pushed"
  BY <1>1
<1>5. report' \in [passed : BOOLEAN, pushed : BOOLEAN, failure : Verdict \cup {"truncated"}]
  BY <1>1, <1>3
<1>6. TypeOK'
  BY <1>2, <1>5 DEF FixInv, TypeOK, Terminal
<1>7. ConfigOK' /\ DeliveryInv' /\ ControlInv' /\ IdleInv'
  BY <1>2 DEF FixInv, ConfigOK, DeliveryInv, ControlInv, IdleInv
<1>8. child.at = None /\ ~pr
  BY <1>2 DEF FixInv, PushInv, ControlInv, Terminal
<1>9. PushInv' /\ ReportedPushIsReal' /\ WorkspacesAreReleased'
  BY <1>2, <1>4, <1>8 DEF FixInv, PushInv, ReportedPushIsReal, WorkspacesAreReleased
<1>10. AgeInv' /\ SourceInv' /\ VetInv' /\ CommitInv'
  BY <1>2 DEF FixInv, AgeInv, SourceInv, VetInv, CommitInv, Snapshot
<1>11. RunsInv'
  BY <1>2 DEF FixInv, TypeOK, RunsInv, Replanned
<1> QED
  BY <1>6, <1>7, <1>9, <1>10, <1>11 DEF FixInv

\* The AUTO_PR task exists for a pushed fix only, and so does its pull request.
LEMMA PublishPreserves ==
  ASSUME FixInv, Publish
  PROVE  FixInv'
<1>1. UNCHANGED <<sandbox, pushing, origin, row, report, cp, deliveries, mail, count,
                     msg, pc, left, ws, tree, late, index, found, commit, remote,
                     verified, raced, staged, leftover, agentRuns>>
  BY DEF Publish, DeliverChild, GiveUpPublish, ChildStops, PreparePr, PublishPr,
         FinalizePr, work, config, task, queue, disk, git, seen, history
<1>2. child \in [at : {None, "done", "failed"} \cup PrNode,
                 skip : {None, "no_repo_url", "verifier_failed"}, running : BOOLEAN]
  BY DEF FixInv, TypeOK
<1>3. child' \in [at : {None, "done", "failed"} \cup PrNode,
                  skip : {None, "no_repo_url", "verifier_failed"}, running : BOOLEAN]
  <2>1. SkipReason \in {None, "no_repo_url", "verifier_failed"}
    BY DEF SkipReason
  <2>2. CASE DeliverChild \/ ChildStops
    BY <1>2, <2>2 DEF DeliverChild, ChildStops
  <2>3. CASE GiveUpPublish
    BY <1>2, <2>3 DEF GiveUpPublish
  <2>4. CASE PreparePr
    BY <1>2, <2>1, <2>4 DEF PreparePr, PrNode
  <2>5. CASE PublishPr
    BY <1>2, <2>5 DEF PublishPr, PrNode
  <2>6. CASE FinalizePr
    BY <1>2, <2>6 DEF FinalizePr
  <2> QED
    BY <2>2, <2>3, <2>4, <2>5, <2>6 DEF Publish
<1>4. child'.at # None => child.at # None
  BY <1>2 DEF Publish, DeliverChild, GiveUpPublish, ChildStops, PreparePr, PublishPr,
              FinalizePr, PrNode, None
<1>5. child.at # None => child'.at # None
  BY <1>2 DEF Publish, DeliverChild, GiveUpPublish, ChildStops, PreparePr, PublishPr,
              FinalizePr, PrNode, None
<1>6. published' \in 0 .. MaxPublish
  BY BugFixAssumption
     DEF FixInv, TypeOK, Publish, DeliverChild, GiveUpPublish, ChildStops, PreparePr,
         PublishPr, FinalizePr
<1>7. pr' \in BOOLEAN /\ (pr' => child.at # None)
  <2>1. CASE PublishPr
    BY <2>1 DEF PublishPr, None
  <2>2. CASE pr' = pr
    BY <2>2 DEF FixInv, TypeOK, PushInv
  <2> QED
    BY <2>1, <2>2 DEF Publish, DeliverChild, GiveUpPublish, ChildStops, PreparePr,
                      FinalizePr
<1>8. TypeOK'
  BY <1>1, <1>3, <1>6, <1>7 DEF FixInv, TypeOK
<1>9. ConfigOK' /\ DeliveryInv' /\ ControlInv' /\ IdleInv'
  BY <1>1 DEF FixInv, ConfigOK, DeliveryInv, ControlInv, IdleInv
<1>10. PushInv' /\ ReportedPushIsReal'
  BY <1>1, <1>4, <1>5, <1>7 DEF FixInv, PushInv, ReportedPushIsReal
<1>11. AgeInv' /\ SourceInv' /\ VetInv' /\ CommitInv'
  BY <1>1, StillPreserves, BugFixAssumption DEF Still, FixInv, TypeOK
<1>12. RunsInv' /\ WorkspacesAreReleased'
  BY <1>1 DEF FixInv, RunsInv, Replanned, WorkspacesAreReleased
<1> QED
  BY <1>8, <1>9, <1>10, <1>11, <1>12 DEF FixInv

-----------------------------------------------------------------------------
(* The theorems *)

\* Every step of the worker, of late processes and of the AUTO_PR task
\* preserves the invariant.
LEMMA FixInvStep == FixInv /\ [Next]_vars => FixInv'
<1> SUFFICES ASSUME FixInv, [Next]_vars PROVE FixInv'
  OBVIOUS
<1>1. CASE Deliver
  BY <1>1, ProvisionPreserves, MessagePreserves DEF Deliver
<1>2. CASE RunGraph
  BY <1>2, RunGraphPreserves
<1>3. CASE Node
  BY <1>3, PreparePreserves, AgentPreserves, NoDiffPreserves, StartSuitePreserves,
     RunSuitePreserves, PushNodePreserves, CommitPreserves, GitPushPreserves,
     FinalizePreserves DEF Node
<1>4. CASE Complete
  BY <1>4, CompletePreserves
<1>5. CASE Fault \/ ChainAndAck
  BY <1>5, EndsAre, EndPreserves DEF Fault
<1>6. CASE LateWrite
  BY <1>6, LateWritePreserves
<1>7. ASSUME NEW c \in Calls, UseTool(c) PROVE FixInv'
  BY <1>7, UseToolPreserves
<1>8. CASE Publish
  BY <1>8, PublishPreserves
<1>9. ASSUME NEW m \in Message, Recover(m) PROVE FixInv'
  BY <1>9, MessagePreserves
<1>10. CASE UNCHANGED vars
  <2>1. UNCHANGED <<sandbox, pushing, origin, row, report, cp, deliveries, mail,
                       count, msg, pc, left, ws, tree, late, index, found, commit,
                       remote, child, published, pr, verified, raced, staged, leftover,
                       agentRuns>>
    BY <1>10 DEF vars, config, task, queue, disk, git, published_vars, seen, history
  <2>2. TypeOK' /\ ConfigOK' /\ DeliveryInv' /\ ControlInv' /\ IdleInv'
    BY <2>1 DEF FixInv, TypeOK, ConfigOK, DeliveryInv, ControlInv, IdleInv
  <2>3. PushInv' /\ ReportedPushIsReal' /\ RunsInv' /\ WorkspacesAreReleased'
    BY <2>1 DEF FixInv, PushInv, ReportedPushIsReal, RunsInv, Replanned,
                WorkspacesAreReleased
  <2>4. AgeInv' /\ SourceInv' /\ VetInv' /\ CommitInv'
    BY <2>1, StillPreserves, BugFixAssumption DEF Still, FixInv, TypeOK
  <2> QED
    BY <2>2, <2>3, <2>4 DEF FixInv
<1> QED
  BY <1>1, <1>2, <1>3, <1>4, <1>5, <1>6, <1>7, <1>8, <1>9, <1>10 DEF Next, Progress

\* FixInv is an invariant of a BUG_FIX task, with its types.
THEOREM FixIsSafe == Spec => []FixInv
BY FixInvInit, FixInvStep, PTL DEF Spec

\* The remote branch is written by GitPush only.
LEMMA OnlyGitPush ==
  ASSUME [Next]_vars, remote' # remote
  PROVE  GitPush
<1> USE DEF published_vars
<1>1. ~Deliver /\ ~RunGraph /\ ~Complete /\ ~Publish /\ ~LateWrite /\ ~UNCHANGED vars
  BY DEF Deliver, Provision, ProvisionFails, Abandon, Drain, RunGraph, Complete, Publish,
         DeliverChild, GiveUpPublish, ChildStops, PreparePr, PublishPr, FinalizePr,
         LateWrite, vars
<1>2. ~Fault /\ ~ChainAndAck
  BY EndsAre DEF Fault, Ends
<1>3. /\ \A c \in Calls : ~UseTool(c)
      /\ \A m \in Message : ~Recover(m)
  BY DEF UseTool, Recover
<1>4. ~Prepare /\ ~EnterAgent /\ ~LeaveAgent /\ ~NoDiff /\ ~StartSuite /\ ~RunSuite
  BY DEF Prepare, EnterAgent, LeaveAgent, NoDiff, StartSuite, RunSuite, Persist
<1>5. ~SkipPush /\ ~Commit /\ ~NothingStaged /\ ~KeepLocal /\ ~PushDone /\ ~Finalize
  BY DEF SkipPush, Commit, NothingStaged, KeepLocal, PushDone, Finalize, PushNoted, Persist
<1> QED
  BY <1>1, <1>2, <1>3, <1>4, <1>5 DEF Next, Progress, Node

\* What a push adds to the remote repository (push_node), file by file: the
\* target files as the suite of this delivery has passed on them and the rest
\* as in base_ref, but for what has been staged or written behind its back.
THEOREM PushedFixIsVerified == Spec => PushedIsVerified
<1>1. FixInv /\ [Next]_vars =>
        [remote' # remote =>
           /\ verified # NoCommit
           /\ \A p \in Path \ (raced \cup staged) :
                remote'[p] = IF p \in Target THEN verified[p] ELSE origin[p]]_vars
  <2> SUFFICES ASSUME FixInv, [Next]_vars, remote' # remote
               PROVE  /\ verified # NoCommit
                      /\ \A p \in Path \ (raced \cup staged) :
                           remote'[p] = IF p \in Target THEN verified[p] ELSE origin[p]
    OBVIOUS
  <2>1. pc = "committed" /\ remote' = commit
    BY OnlyGitPush DEF GitPush
  <2> QED
    BY <2>1 DEF FixInv, CommitInv
<1> QED
  BY <1>1, FixIsSafe, PTL DEF Spec, PushedIsVerified

\* A result that says "pushed" and a pull request stand for a branch that is
\* in the remote repository.
THEOREM ReportedPushesAreReal == Spec => []ReportedPushIsReal
<1>1. FixInv => ReportedPushIsReal
  BY DEF FixInv
<1> QED
  BY <1>1, FixIsSafe, PTL

\* The agent node is entered at most once for each delivery and once for the
\* replan (_route_after_verify).
THEOREM AgentRunsAreBounded == Spec => []AgentRunsBounded
<1>1. FixInv => AgentRunsBounded
  BY DEF FixInv, TypeOK, RunsInv, AgentRunsBounded
<1> QED
  BY <1>1, FixIsSafe, PTL

\* A worktree without a delivery is on record as left over: every end of a
\* run that the worker lives to see removes its own.
THEOREM WorktreesAreReleased == Spec => []WorkspacesAreReleased
<1>1. FixInv => WorkspacesAreReleased
  BY DEF FixInv
<1> QED
  BY <1>1, FixIsSafe, PTL
=============================================================================
