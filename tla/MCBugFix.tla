------------------------------ MODULE MCBugFix ------------------------------
(* A repository with two target files and another one.  The fix edits the   *)
(* first target file or, in the second deployment, creates it.              *)
EXTENDS BugFix

Files == {"target", "other", "extra"}
PassingTrees == {t \in Tree : t["target"] = "fix" /\ t["other"] # "junk"}
EveryTool == WebTools \cup CodeTools

Deployment(sandboxed, push, tip) == [sandbox |-> sandboxed, pushing |-> push, origin |-> tip]
Deployments ==
  {Deployment("local", "yes", Base),
   Deployment("docker", "yes", [Base EXCEPT !["target"] = "absent"]),
   Deployment("local", "no_token", Base)}

TheCall(tool, path, content, args) ==
  [tool |-> tool, path |-> path, content |-> content, args |-> args]

\* One call of every tool, and the ways a call can go wrong.
ModelCalls ==
  {TheCall(tool, "target", "fix", "fine") : tool \in Registered \cup {"unknown"}}
    \cup {TheCall("edit_write", "target", "fix", "bad"),
          TheCall("fs_read", "other", "fix", "denied"),
          TheCall("outline", "other", "fix", "fine"),
          TheCall("shell_run", "other", "junk", "fine"),
          TheCall("shell_run", "target", "fix", "missing"),
          TheCall("web_fetch", "target", "fix", "denied")}

SuiteRuns == {TheCall("test_run", "target", "junk", "fine"),
              TheCall("test_run", "extra", "junk", "fine")}
=============================================================================
