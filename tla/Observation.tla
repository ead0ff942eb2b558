---------------------------- MODULE Observation -----------------------------
(***************************************************************************)
(* From a hook's JSON to what is recorded: the events the Codex and Claude *)
(* adapters make of a tool call (adapters/codex.rs, adapters/claude.rs,    *)
(* core/normalize.rs, core/event.rs) and the request of a prompt hook      *)
(* (adapters/prompt.rs).                                                   *)
(*                                                                         *)
(* Abstracted: a tool's response is what the five searches through it find *)
(* (the first such field, up to four levels deep).  Identifiers are kept   *)
(* only as present or absent.  OtherTool is any tool the code does not     *)
(* name.                                                                   *)
(***************************************************************************)
EXTENDS Integers

CONSTANTS
  OtherTool,
  Absent,   \* an optional field without a value
  Refused   \* input the adapter returns an error for

ClassifiedTools ==
  {"Bash", "exec", "exec_command", "write_stdin", "apply_patch", "Edit", "Write",
   "NotebookEdit", "Read", "read_file", "read_mcp_resource", "write_file", "Glob", "Grep",
   "web__run", "WebSearch", "search", "WebFetch", "view_image", "TodoWrite", "update_plan",
   "spawn_agent", "Agent", "wait", "wait_agent"}
Tools == ClassifiedTools \cup {OtherTool}

Capabilities == {"shell", "patch", "filesystem", "search", "network", "vision", "wait", "other"}
Operations ==
  {"command", "continue_command", "apply_patch", "read_file", "write_file", "search",
   "web_request", "inspect_image", "update_plan", "delegate", "wait", "tool_call"}
ToolStrategies == {"structured_patch", "direct_text_mutation"}
ToolOutcomes == {"success", "failure", "unknown"}
ErrorClasses == {"nonzero_exit", "unknown"}

ASSUME ObservationAssumption ==
  /\ OtherTool \notin ClassifiedTools
  /\ Absent \notin Tools \cup ToolStrategies \cup ErrorClasses \cup Int \cup BOOLEAN
  /\ Absent # "task"

Class(capability, operation) == [capability |-> capability, operation |-> operation]

ClassifyTool(tool) ==
  IF tool \in {"Bash", "exec", "exec_command"} THEN Class("shell", "command")
  ELSE IF tool = "write_stdin" THEN Class("shell", "continue_command")
  ELSE IF tool \in {"apply_patch", "Edit", "Write", "NotebookEdit"}
    THEN Class("patch", "apply_patch")
  ELSE IF tool \in {"Read", "read_file", "read_mcp_resource"} THEN Class("filesystem", "read_file")
  ELSE IF tool = "write_file" THEN Class("filesystem", "write_file")
  ELSE IF tool \in {"Glob", "Grep", "web__run", "WebSearch", "search"}
    THEN Class("search", "search")
  ELSE IF tool = "WebFetch" THEN Class("network", "web_request")
  ELSE IF tool = "view_image" THEN Class("vision", "inspect_image")
  ELSE IF tool \in {"TodoWrite", "update_plan"} THEN Class("other", "update_plan")
  ELSE IF tool \in {"spawn_agent", "Agent"} THEN Class("other", "delegate")
  ELSE IF tool \in {"wait", "wait_agent"} THEN Class("wait", "wait")
  ELSE Class("other", "tool_call")

ClassifyStrategy(tool) ==
  IF tool = "apply_patch" THEN "structured_patch"
  ELSE IF tool \in {"Edit", "Write", "NotebookEdit", "write_file"} THEN "direct_text_mutation"
  ELSE Absent

-----------------------------------------------------------------------------
Responses ==
  [exitCode : Int \cup {Absent}, isError : BOOLEAN \cup {Absent},
   success : BOOLEAN \cup {Absent}, status : {"succeeded", "failed", "other", Absent},
   exitMarker : Int \cup {Absent}]

Result(outcome, error) == [outcome |-> outcome, error |-> error]
Succeeded == Result("success", Absent)
FromExitCode(code) == IF code = 0 THEN Succeeded ELSE Result("failure", "nonzero_exit")

(* classify_tool_response: the first of the five that is found decides,     *)
(* wherever in the response it was found.                                  *)
ClassifyToolResponse(response) ==
  IF response.exitCode # Absent THEN FromExitCode(response.exitCode)
  ELSE IF response.isError # Absent
    THEN IF response.isError = TRUE THEN Result("failure", "unknown") ELSE Succeeded
  ELSE IF response.success # Absent
    THEN IF response.success = TRUE THEN Succeeded ELSE Result("failure", "unknown")
  ELSE IF response.status = "succeeded" THEN Succeeded
  ELSE IF response.status = "failed" THEN Result("failure", "unknown")
  ELSE IF response.exitMarker # Absent THEN FromExitCode(response.exitMarker)
  ELSE Result("unknown", Absent)

-----------------------------------------------------------------------------
HookNames == {"PostToolUse", "PostToolUseFailure", "UserPromptSubmit", "other"}
HookInputs ==
  [name : HookNames, tool : Tools \cup {Absent}, call : BOOLEAN, cwd : BOOLEAN,
   response : Responses \cup {Absent}]

(* has_valid_evidence_shape: what the store accepts (storage/sqlite.rs).    *)
ValidEvidenceShape(event) ==
  IF event.kind = "hook_execution" THEN event.task = Absent
  ELSE /\ event.task # Absent /\ event.strategy # Absent /\ event.outcome # "unknown"
       /\ event.session = Absent /\ event.agent = Absent

HookEvent(agent, tool, result) ==
  [agent |-> agent, session |-> "session", kind |-> "hook_execution", task |-> Absent,
   capability |-> ClassifyTool(tool).capability, operation |-> ClassifyTool(tool).operation,
   strategy |-> ClassifyStrategy(tool), outcome |-> result.outcome, error |-> result.error]

(* Codex: the response tells the outcome.                                  *)
CodexObservation(input) ==
  IF input.name # "PostToolUse" \/ input.tool = Absent \/ ~input.call \/ ~input.cwd
    THEN Refused
    ELSE HookEvent("codex", input.tool,
                   IF input.response = Absent THEN Result("unknown", Absent)
                   ELSE ClassifyToolResponse(input.response))

(* Claude: the hook that ran tells the outcome, the response is not read.   *)
ClaudeObservation(input) ==
  IF input.tool = Absent \/ ~input.call \/ ~input.cwd THEN Refused
  ELSE IF input.name = "PostToolUse" THEN HookEvent("claude", input.tool, Succeeded)
  ELSE IF input.name = "PostToolUseFailure"
    THEN HookEvent("claude", input.tool, Result("failure", "unknown"))
  ELSE Refused

-----------------------------------------------------------------------------
(* normalize_prompt_submit: a prompt that is missing is an empty one.       *)
MAX_INPUT_BYTES == 64 * 1024
PromptInputs ==
  [bytes : Nat, json : BOOLEAN, name : HookNames, cwd : {"absolute", "relative"},
   prompt : {"text", Absent}]

PromptRequest(input) ==
  IF \/ input.bytes > MAX_INPUT_BYTES \/ ~input.json
     \/ input.name # "UserPromptSubmit" \/ input.cwd # "absolute"
    THEN Refused
    ELSE [prompt |-> IF input.prompt = Absent THEN "" ELSE input.prompt]

(* preflight_response: an empty brief gives the agent no context at all.    *)
PreflightResponse(brief) == IF brief = "" THEN Absent ELSE [additionalContext |-> brief]

=============================================================================
