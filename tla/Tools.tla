------------------------------- MODULE Tools -------------------------------
(***************************************************************************)
(* The tools of an agent: what one call of ToolExecutor.execute can do to  *)
(* a workspace and what it tells the model.  A tool is an operator from    *)
(* the call and the tree it runs on to the set of its possible outcomes.   *)
(*                                                                         *)
(* A tree is the worktree of one workspace; its files have one of a few    *)
(* contents.  Gone is a workspace that has been removed from disk.  What   *)
(* the tools print is left out; what they change, refuse or raise is not.  *)
(***************************************************************************)
EXTENDS Naturals, FiniteSets, Sequences

CONSTANTS
  Path,     \* the files of the repository
  Passing,  \* the trees on which the verification suite succeeds
  Source,   \* the files of a supported language
  Optional  \* the optional tools that are wired

Content == {"absent", "base", "fix", "junk", "torn"}
Tree == [Path -> Content]
Gone == [p \in Path |-> "gone"]

Base == [p \in Path |-> "base"]

FileTools == {"fs_read", "fs_list_dir", "fs_grep"}
EditTools == {"edit_write", "edit_patch_apply"}
RunTools  == {"shell_run", "test_run"}
WebTools  == {"web_fetch", "doc_search"}
CodeTools == {"code_search", "get_definition", "get_references", "outline"}

\* build_local_tool_stack: the web tools and the code index may be missing.
Registered == FileTools \cup EditTools \cup RunTools \cup Optional

ASSUME ToolsAssumption ==
  /\ Passing \subseteq [Path -> Content]
  /\ Source \subseteq Path
  /\ Optional \subseteq WebTools \cup CodeTools

\* A call of the model: the tool, the file, what is written there, and how
\* its arguments look: fine, of the wrong type or range ("bad"), a path that
\* leaves the workspace or a command or host off the allow-list ("denied"),
\* or a program that is not installed ("missing").
Call == [tool : Registered \cup {"unknown"}, path : Path, content : Content,
         args : {"fine", "bad", "denied", "missing"}]

-----------------------------------------------------------------------------
(* Outcomes.  status: "ok" or "error" is a ToolResult with that is_error;   *)
(* "raise" is any other exception, which the executor lets through.  late:  *)
(* what a process that was given up on may still write.  adds: the files    *)
(* that are added to the git index.                                         *)

Ended(s, t, l, a) == [status |-> s, tree |-> t, late |-> l, adds |-> a]
Out(s, t, l) == Ended(s, t, l, {})
Same(s, t) == Out(s, t, {})

\* ToolValidationError, ToolPermissionError.
Refused(t) == {Same("error", t)}

\* ToolExecutionError.
Failed(t) == {Same("error", t)}

\* A missing executable or working directory: FileNotFoundError.
Raised(t) == {Same("raise", t)}

ArgsOk(c) == c.args # "bad"
Escapes(c) == c.args = "denied"

Exists(t, p) == t # Gone /\ t[p] # "absent"

\* language_for_path.
Parsed(p) == p \in Source

\* The files a walk over the worktree finds; a missing one has none.
Walk(t) == {p \in Path : Exists(t, p) /\ Parsed(p)}

\* A file written into a workspace that was removed: the parents are made.
Written(t, p, v) ==
  IF t = Gone THEN [q \in Path |-> IF q = p THEN v ELSE "absent"]
  ELSE [t EXCEPT ![p] = v]

-----------------------------------------------------------------------------
(* Tools on the host.                                                       *)

LocalRead(c, t) ==
  IF Escapes(c) \/ ~Exists(t, c.path) THEN Refused(t)
  ELSE {Same("ok", t)} \cup Failed(t)

\* No handler for the OSError of a directory walk.
Listed(t) == {Same("ok", t)} \cup Raised(t)

LocalListDir(c, t) == IF Escapes(c) \/ t = Gone THEN Refused(t) ELSE Listed(t)

\* A missing directory has no files; unreadable files are skipped.
Grepped(t) == {Same("ok", t)}

LocalGrep(c, t) == Grepped(t)

\* Written beside the target, then renamed over it.
LocalWrite(c, t) ==
  IF Escapes(c) THEN Refused(t)
  ELSE {Same("ok", Written(t, c.path, c.content))} \cup Failed(t)

\* git apply; killed on timeout, possibly after the file was replaced.
LocalPatchApply(c, t) ==
  IF t = Gone \/ c.args = "missing" THEN Raised(t)
  ELSE {Same("ok", Written(t, c.path, c.content))} \cup Failed(t)
         \cup {Same("error", Written(t, c.path, c.content))}

\* A command runs in the writable worktree: it may change a file and, python
\* being on the allow-list, stage it.  A timeout kills the process; what it
\* has started may still write.
Effects(c, t, statuses) ==
  LET after == {t, Written(t, c.path, c.content)}
      added == {{}, {c.path}}
  IN  {Ended(s, u, {}, a) : s \in statuses, u \in after, a \in added}
        \cup {Ended("error", u, l, a) : u \in after, a \in added,
                l \in {{}, {[path |-> c.path, content |-> c.content]}}}

\* Exit 0 is ok, another exit an error, and max(returncode, 0) makes a death
\* by signal ok as well.
Ran(c, t) == Effects(c, t, {"ok", "error"})

LocalShellRun(c, t) ==
  IF c.args = "denied" THEN Refused(t)
  ELSE IF t = Gone \/ c.args = "missing" THEN Raised(t)
  ELSE Ran(c, t)

\* The verdict of a suite on the tree it starts on: "pass", "fail", or "killed" by a signal.
Verdicts(t) == {IF t \in Passing THEN "pass" ELSE "fail", "killed"}

\* exit_code = max(returncode, 0); is_error = exit_code # 0.
VerdictStatus(v) == IF v = "fail" THEN "error" ELSE "ok"

\* The suite judges the tree it starts on.  It is a command like any other.
Tested(c, t) == Effects(c, t, {VerdictStatus(v) : v \in Verdicts(t)})

LocalTestRun(c, t) ==
  IF c.args = "denied" THEN Refused(t)
  ELSE IF t = Gone \/ c.args = "missing" THEN Raised(t)
  ELSE Tested(c, t) \cup Failed(t)

-----------------------------------------------------------------------------
(* The same tools through docker exec: t = Gone is a container that is no   *)
(* more, and exec then exits with an error.  On timeout only the docker     *)
(* client is killed, not the process in the container.                      *)

DockerExec(c, t, done) ==
  IF c.args = "missing" THEN Raised(t)
  ELSE IF t = Gone THEN Failed(t)
  ELSE done \cup Failed(t)

DockerRead(c, t) ==
  IF Escapes(c) THEN Refused(t)
  ELSE DockerExec(c, t, IF Exists(t, c.path) THEN {Same("ok", t)} ELSE {})

\* The reply is parsed as JSON: a client that died of a signal counts as
\* exit 0 with nothing printed, and the parse error is no ToolError.
DockerListDir(c, t) ==
  IF Escapes(c) THEN Refused(t) ELSE DockerExec(c, t, {Same("ok", t)} \cup Raised(t))

DockerGrep(c, t) == DockerExec(c, t, {Same("ok", t)} \cup Raised(t))

\* A killed client closes stdin: the script writes what has arrived.
DockerWrite(c, t) ==
  IF Escapes(c) THEN Refused(t)
  ELSE DockerExec(c, t,
         {Same("ok", Written(t, c.path, c.content))}
           \cup {Out(s, t, {[path |-> c.path, content |-> v]}) :
                   s \in {"error", "raise"}, v \in {c.content, "torn"}})

DockerPatchApply(c, t) ==
  DockerExec(c, t,
    {Same("ok", Written(t, c.path, c.content))}
      \cup {Out(s, t, {[path |-> c.path, content |-> c.content]}) : s \in {"ok", "error"}})

DockerShellRun(c, t) ==
  IF c.args = "denied" THEN Refused(t) ELSE DockerExec(c, t, Ran(c, t))

DockerTestRun(c, t) ==
  IF c.args = "denied" THEN Refused(t)
  ELSE DockerExec(c, t, Tested(c, t))

-----------------------------------------------------------------------------
(* Tools without a sandbox variant.                                         *)

\* The scheme and the allow-list of hosts.
HostAllowed(c) == c.args # "denied"

\* A status that is not 2xx is an error result, like HTTP errors, timeouts
\* and answers that are no text.
Fetched(t) == {Same("ok", t)} \cup Failed(t)

\* The corpus is in memory.
DocSearch(c, t) == {Same("ok", t)}

WebFetch(c, t) == IF HostAllowed(c) THEN Fetched(t) ELSE Refused(t)

\* A file that disappears during the walk raises.
Found(t) == {Same("ok", t)} \cup (IF Walk(t) = {} THEN {} ELSE Raised(t))

\* Code search walks the live tree.
CodeSearch(c, t) == Found(t)
GetDefinition(c, t) == Found(t)
GetReferences(c, t) == Found(t)
Outline(c, t) ==
  IF Escapes(c) \/ ~Exists(t, c.path) \/ ~Parsed(c.path) THEN Refused(t)
  ELSE {Same("ok", t)} \cup Raised(t)

-----------------------------------------------------------------------------
(* Handlers: argument checks, then the adapter of the sandbox.              *)

Checked(c, t, outs) == IF ArgsOk(c) THEN outs ELSE Refused(t)
In(s, docker, local) == IF s = "docker" THEN docker ELSE local

FsRead(c, s, t)     == Checked(c, t, In(s, DockerRead(c, t), LocalRead(c, t)))
FsListDir(c, s, t)  == Checked(c, t, In(s, DockerListDir(c, t), LocalListDir(c, t)))
FsGrep(c, s, t)     == Checked(c, t, In(s, DockerGrep(c, t), LocalGrep(c, t)))
EditWrite(c, s, t)  == Checked(c, t, In(s, DockerWrite(c, t), LocalWrite(c, t)))
EditPatch(c, s, t)  == Checked(c, t, In(s, DockerPatchApply(c, t), LocalPatchApply(c, t)))
ShellRun(c, s, t)   == Checked(c, t, In(s, DockerShellRun(c, t), LocalShellRun(c, t)))
TestRun(c, s, t)    == Checked(c, t, In(s, DockerTestRun(c, t), LocalTestRun(c, t)))
WebFetchCall(c, t)  == Checked(c, t, WebFetch(c, t))
DocSearchCall(c, t) == Checked(c, t, DocSearch(c, t))
SearchCall(c, t)    == Checked(c, t, CodeSearch(c, t))
DefinitionCall(c, t) == Checked(c, t, GetDefinition(c, t))
ReferencesCall(c, t) == Checked(c, t, GetReferences(c, t))
OutlineCall(c, t)   == Checked(c, t, Outline(c, t))

\* ToolRegistry.get.
Known(c) == c.tool \in Registered

\* ToolExecutor.execute: unknown tools and ToolErrors are error results.
Execute(c, s, t) ==
  CASE ~Known(c)                   -> Refused(t)
    [] c.tool = "fs_read"          -> FsRead(c, s, t)
    [] c.tool = "fs_list_dir"      -> FsListDir(c, s, t)
    [] c.tool = "fs_grep"          -> FsGrep(c, s, t)
    [] c.tool = "edit_write"       -> EditWrite(c, s, t)
    [] c.tool = "edit_patch_apply" -> EditPatch(c, s, t)
    [] c.tool = "shell_run"        -> ShellRun(c, s, t)
    [] c.tool = "test_run"         -> TestRun(c, s, t)
    [] c.tool = "web_fetch"        -> WebFetchCall(c, t)
    [] c.tool = "doc_search"       -> DocSearchCall(c, t)
    [] c.tool = "code_search"      -> SearchCall(c, t)
    [] c.tool = "get_definition"   -> DefinitionCall(c, t)
    [] c.tool = "get_references"   -> ReferencesCall(c, t)
    [] c.tool = "outline"          -> OutlineCall(c, t)
=============================================================================
