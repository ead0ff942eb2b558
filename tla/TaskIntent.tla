----------------------------- MODULE TaskIntent -----------------------------
(***************************************************************************)
(* The deterministic classifier of task text: a text is the set of its     *)
(* lower-case alphanumeric words, and every table says which words set     *)
(* which controlled hint.  A word may set hints in several tables, in each *)
(* table at most one row.  The text itself is never kept.                  *)
(***************************************************************************)
EXTENDS TLC

(* The hints of a table that a text sets. *)
Hits(table, words) == {hint \in DOMAIN table : table[hint] \cap words # {}}

RiskWords ==
  [destructive       |-> {"delete", "deletion", "remove", "overwrite", "prune", "reset"},
   version_sensitive |-> {"version", "upgrade", "migration", "compatibility", "schema"},
   sandbox_sensitive |-> {"sandbox", "apparmor", "permission", "keyring"},
   flaky             |-> {"flaky", "race", "nondeterministic", "intermittent"},
   expensive         |-> {"expensive", "large", "benchmark", "exhaustive"}]

TaskWords ==
  [configuration |-> {"config", "configuration", "settings", "setup"},
   data_import |-> {"data", "import", "importer", "ingest", "ingestion", "etl", "dataset",
                    "csv", "migration"},
   debugging |-> {"bug", "debug", "debugging", "error", "failure", "broken", "fix"},
   dependency_update |-> {"dependency", "dependencies", "upgrade", "update"},
   documentation |-> {"doc", "docs", "documentation", "readme"},
   feature_implementation |-> {"feature", "implement", "implementation", "build",
                               "create", "add"},
   integration |-> {"integration", "api", "provider", "service", "database"},
   performance |-> {"performance", "optimize", "optimization", "latency", "memory"},
   refactoring |-> {"refactor", "refactoring", "cleanup"},
   release |-> {"release", "package", "packaging", "publish", "deploy"},
   research |-> {"research", "analysis", "analyze", "compare", "investigate"},
   security |-> {"security", "privacy", "credential", "encryption", "audit"},
   testing |-> {"test", "tests", "testing", "verify", "verification", "pytest",
                "unittest"}]

(* Two matches set ecosystems: the second one adds git and docker.          *)
EcosystemWords ==
  [rust |-> {"rust", "cargo", "clippy", "rustfmt", "crate"},
   python |-> {"python", "pip", "venv", "uv", "pytest"},
   javascript |-> {"javascript", "node", "npm", "npx"},
   typescript |-> {"typescript", "tsc"},
   go |-> {"go", "golang"},
   java |-> {"java", "gradle", "maven"},
   dotnet |-> {"dotnet", "csharp", "nuget"},
   cpp |-> {"cmake", "clang"},
   c |-> {"gcc"},
   cuda |-> {"cuda", "nvcc"},
   php |-> {"php", "composer"},
   laravel |-> {"laravel", "artisan"},
   ruby |-> {"ruby", "rails", "bundler"},
   shell |-> {"shell", "bash", "zsh", "script"},
   kicad |-> {"kicad", "pcb", "schematic", "footprint", "drc", "erc", "gerber"},
   sql |-> {"sql", "sqlite", "postgres", "mysql"}]
   @@
  [git |-> {"git", "commit", "merge", "rebase", "branch"},
   docker |-> {"docker", "podman", "container", "dockerfile", "compose"}]

ToolWords ==
  [cargo |-> {"rust", "cargo", "clippy", "rustfmt", "crate"},
   pytest |-> {"pytest"},
   npm |-> {"javascript", "node", "npm", "npx"},
   jest |-> {"jest", "vitest"},
   pnpm |-> {"pnpm"},
   yarn |-> {"yarn"},
   cmake |-> {"cmake"},
   make |-> {"make", "makefile"},
   gcc |-> {"gcc"},
   clang |-> {"clang"},
   nvcc |-> {"cuda", "nvcc"},
   kicad |-> {"kicad", "pcb", "schematic", "footprint", "drc", "erc", "gerber"},
   kubectl |-> {"kubectl", "kubernetes", "k8s", "helm"},
   terraform |-> {"terraform", "tofu"},
   playwright |-> {"playwright", "e2e"}]
   @@
  [git |-> {"git", "commit", "merge", "rebase", "branch"},
   docker |-> {"docker", "podman", "container", "dockerfile", "compose"}]

PhaseWords ==
  [diagnose |-> {"debug", "debugging", "diagnose", "investigate", "bug", "failure",
                 "error", "broken", "flaky"},
   mutate |-> {"edit", "change", "modify", "fix", "implement", "refactor", "patch",
               "write", "add", "remove", "rename"},
   verify |-> {"test", "tests", "testing", "verify", "verification", "check", "lint",
               "validate"},
   release |-> {"release", "publish", "deploy", "package", "ship", "tag"},
   research |-> {"research", "analysis", "analyze", "compare", "explore", "survey"},
   integration |-> {"integration", "integrate", "hook", "hooks", "plugin", "adapter",
                    "api"}]

(* The last match of the loop; native-cad comes with kicad's words.         *)
ArtifactWords ==
  [generated_source |-> {"generated", "codegen", "autogenerated", "scaffold"},
   config |-> {"config", "configuration", "settings", "toml", "yaml", "json", "ini",
               "dotenv"},
   dataset |-> {"dataset", "csv", "parquet", "data"},
   binary |-> {"binary", "executable", "artifact", "wheel", "tarball"},
   docs |-> {"doc", "docs", "documentation", "readme", "changelog"},
   source |-> {"source", "code", "module", "function", "struct", "class"}]
   @@
  [native_cad |-> EcosystemWords.kicad]

(* What recall uses of TaskIntent::classify; the capability and operation   *)
(* hints have no reader.                                                    *)
Classify(words) ==
  [tasks      |-> Hits(TaskWords, words),
   ecosystems |-> Hits(EcosystemWords, words),
   tools      |-> Hits(ToolWords, words),
   phases     |-> Hits(PhaseWords, words),
   artifacts  |-> Hits(ArtifactWords, words),
   risks      |-> Hits(RiskWords, words)]

HasTaskHints(intent) == intent.tasks # {}

HasRetrievalHints(intent) ==
  HasTaskHints(intent) \/ \E kind \in DOMAIN intent : intent[kind] # {}

=============================================================================
