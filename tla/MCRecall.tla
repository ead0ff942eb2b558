------------------------------ MODULE MCRecall ------------------------------
(* An instance of Recall for TLC: a Rust project, its workspace and the     *)
(* machine around it.                                                       *)
EXTENDS Recall

Entry(day, outcome, machine) ==
  [day |-> day, outcome |-> outcome, verification |-> "full", tool |-> None,
   major |-> None, host |-> machine]

(* A project lesson about debugging, in one capsule.                        *)
Lesson(id, evidence) ==
  [id |-> <<id>>, origin |-> "here", scope |-> "project", anchor |-> "here",
   task |-> "debugging", situation |-> TRUE, lesson |-> "said",
   procedure |-> FromStrategy("targeted_verification"), artifact |-> None, phase |-> None,
   ecosystem |-> None, tool |-> None, risks |-> {}, lifecycle |-> "active",
   evidence |-> evidence, last |-> evidence[Len(evidence)].day, bytes |-> 300, note |-> 160,
   legacy |-> FALSE]

(* Confirmed on four days; many reports of one day; the text of what the v2 *)
(* events told, learned on another host; and a retired one.                 *)
Proven == [Lesson("proven", [n \in 1..4 |-> Entry(100 + n, "success", Host)])
             EXCEPT !.ecosystem = "rust", !.tool = "cargo", !.risks = {"flaky"}]
Repeated == [Lesson("repeated", [n \in 1..5 |-> Entry(104, IF n = 2 THEN "failure" ELSE "success", Host)])
               EXCEPT !.procedure = FromStrategy("full_verification"), !.bytes = 420]
Moved == Lesson("moved", <<Entry(90, "success", "elsewhere")>>)
Old == [Lesson("old", <<Entry(1, "success", Host)>>) EXCEPT !.lifecycle = "obsolete"]

(* Beyond the project.                                                      *)
Shared == [Lesson("shared", <<Entry(103, "failure", Host)>>)
             EXCEPT !.scope = "workspace", !.origin = "beside", !.ecosystem = "rust",
                    !.procedure = FromStrategy("bulk_change")]
Rusty == [Lesson("rusty", [n \in 1..4 |-> Entry(100 + n, "success", Host)])
            EXCEPT !.scope = "ecosystem", !.origin = "beside", !.ecosystem = "rust",
                   !.tool = "cargo", !.risks = {"flaky"}]
Local == [Lesson("local", <<Entry(102, "success", Host)>>)
            EXCEPT !.scope = "machine", !.origin = "here", !.tool = "cargo",
                   !.procedure = FromStrategy("atomic_write")]
Pythonic == [Lesson("pythonic", <<Entry(102, "success", Host)>>)
               EXCEPT !.scope = "global", !.origin = "beside", !.ecosystem = "python",
                      !.task = "testing"]

(* Eight days; and a failure that ranks below both. *)
Strong == [Lesson("strong", [n \in 1..8 |-> Entry(97 + n, "success", Host)])
             EXCEPT !.ecosystem = "rust", !.risks = {"flaky"},
                    !.procedure = FromStrategy("reproduce_then_compare")]
Weak == [Lesson("weak", <<Entry(60, "failure", "elsewhere")>>)
           EXCEPT !.procedure = FromStrategy("native_hook")]

(* Enough local lessons; strong ones; too few.                              *)
MCStores ==
  {<<Old, Repeated, Proven, Moved, Shared, Rusty, Local, Pythonic>>,
   <<Strong, Proven, Weak, Shared>>,
   <<Old, Proven, Moved, Shared, Rusty, Local>>}
MCCapsuleIds == {<<id>> : id \in {"proven", "repeated", "moved", "old", "shared", "rusty",
                                 "local", "pythonic", "strong", "weak", "new"}}
MCUnwritten == {[Lesson("new", <<Entry(104, "failure", Host)>>)
                   EXCEPT !.procedure = FromStrategy("structured_patch"), !.lifecycle = "active"]}

Event(task, strategy, outcome, day) ==
  [task |-> task, strategy |-> strategy, outcome |-> outcome, day |-> day]
MCPractices ==
  <<Event("debugging", "targeted_verification", "success", 60),
    Event("debugging", "targeted_verification", "unknown", 59),
    Event("debugging", "targeted_verification", "failure", 58),
    Event("testing", "other", "success", 40)>>

MCExecutions == <<[operation |-> "command", outcome |-> "success"],
                  [operation |-> "read_file", outcome |-> "unknown"]>>

Rust == <<{"src"}, {"Cargo.toml", ".git"}>>
Nowhere == <<{}, {".git"}, {"Cargo.toml"}>>

Defaulted == [operation |-> None, failuresOnly |-> FALSE, limit |-> 10, budget |-> 300]

Request(mode, words) ==
  [mode |-> mode, asked |-> TRUE, words |-> words, task |-> None, phase |-> None,
   artifact |-> None, ecosystem |-> None, tool |-> None, major |-> None, risks |-> {},
   path |-> Rust, options |-> Defaulted, bestEffort |-> FALSE]

Debugging == Request("recall", {"fix", "the", "flaky", "rust", "code"})

MCRequests ==
  {\* the default budget; one that fits one lesson; a limit of one
   Debugging,
   [Debugging EXCEPT !.options.budget = 200],
   [Debugging EXCEPT !.options.limit = 2, !.options.budget = 1000],
   \* nothing known but words; no words at all and only failures
   [Request("recall", {"broken"}) EXCEPT !.path = Nowhere, !.bestEffort = TRUE],
   [Request("recall", {}) EXCEPT !.asked = FALSE, !.options.failuresOnly = TRUE],
   \* words that say nothing; a category with few lessons; a conflicting one
   Request("recall", {"hello"}),
   [Request("recall", {"pytest"}) EXCEPT !.path = Nowhere, !.options.operation = "command"],
   [Debugging EXCEPT !.ecosystem = "python", !.tool = "pytest"],
   \* the three kinds of brief
   [Debugging EXCEPT !.mode = "brief", !.options.budget = 100],
   [Request("preflight", {"upgrade", "fix"}) EXCEPT !.major = "2"],
   Request("automatic", {"debug", "cargo"}),
   Request("automatic", {"thanks"})}
=============================================================================
