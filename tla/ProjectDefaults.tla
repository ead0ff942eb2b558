-------------------------- MODULE ProjectDefaults --------------------------
(***************************************************************************)
(* infer_project_defaults: what the markers beside or above a path say of  *)
(* the project.  A path is the sequence of its directories, the nearest    *)
(* first; a directory is the set of its allowlisted entries that are       *)
(* regular files (".git" may be a directory).  No marker is ever read.     *)
(***************************************************************************)
EXTENDS Naturals, Sequences

MaxContextAncestors == 32

Defaults(artifact, ecosystem, tool) ==
  [artifact |-> artifact, ecosystem |-> ecosystem, tool |-> tool]
NoDefaults == Defaults("none", "none", "none")

NodeTool(markers) ==
  CASE "pnpm-lock.yaml" \in markers -> "pnpm"
    [] "pnpm-lock.yaml" \notin markers /\ "yarn.lock" \in markers -> "yarn"
    [] OTHER -> "npm"

(* The rules of infer_at in the order they are tried: the markers that      *)
(* trigger a rule, and what it concludes in a directory.                    *)
Rules(markers) ==
  <<[any |-> {"Cargo.toml"}, then |-> Defaults("source", "rust", "cargo")],
    [any |-> {"tsconfig.json"}, then |-> Defaults("source", "typescript", NodeTool(markers))],
    [any |-> {"package.json"}, then |-> Defaults("source", "javascript", NodeTool(markers))],
    [any |-> {"pyproject.toml", "setup.py", "requirements.txt"},
     then |-> Defaults("source", "python", IF "pytest.ini" \in markers THEN "pytest" ELSE "none")],
    [any |-> {"go.mod"}, then |-> Defaults("source", "go", "none")],
    [any |-> {"pom.xml", "build.gradle"}, then |-> Defaults("source", "java", "none")],
    [any |-> {"CMakeLists.txt"}, then |-> Defaults("source", "cpp", "cmake")],
    [any |-> {"Makefile"}, then |-> Defaults("source", "generic", "make")],
    [any |-> {"Dockerfile", "compose.yaml", "docker-compose.yml"},
     then |-> Defaults("config", "docker", "docker")],
    [any |-> {".terraform.lock.hcl"}, then |-> Defaults("config", "generic", "terraform")],
    [any |-> {"mkdocs.yml", "docs/conf.py"}, then |-> Defaults("docs", "none", "none")]>>

Triggered(markers) == {r \in DOMAIN Rules(markers) : Rules(markers)[r].any \cap markers # {}}
FirstOf(S) == CHOOSE n \in S : \A m \in S : n <= m

InferAt(markers) == Rules(markers)[FirstOf(Triggered(markers))].then

(* The nearest directory that says something, not beyond a repository root  *)
(* or the bound.                                                            *)
InferProjectDefaults(path) ==
  LET telling == {i \in DOMAIN path : /\ i <= MaxContextAncestors
                                      /\ Triggered(path[i]) # {}
                                      /\ \A j \in 1..(i - 1) : ".git" \notin path[j]}
  IN IF telling = {} THEN NoDefaults ELSE InferAt(path[FirstOf(telling)])

=============================================================================
