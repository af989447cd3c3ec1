---------------------------- MODULE ConfigSyntax ----------------------------
(***************************************************************************)
(* What a configuration may write for its agents and repositories, a hook, *)
(* a context reference, a `when` clause and a git section (the ...Accepted *)
(* operators, from the code that parses them), and what the code that runs *)
(* them counts on: ...Runs says that it can be run, ...Lacks names what a  *)
(* run still has to find, "fails" if nothing can help.  Whether a context  *)
(* key has a value, or a file of the configuration exists, is left out.    *)
(***************************************************************************)
EXTENDS Naturals, Sequences, FiniteSets

CONSTANTS
  None,    \* a key that is absent, the program's None
  Bad,     \* a value of a wrong type, blank, or spelt wrongly
  Source,  \* the configured context sources
  Unknown, \* a name that is configured nowhere
  Field    \* payload fields of the configured signals, with their types

ASSUME SyntaxAssumption ==
  /\ None # Bad
  /\ Bad \notin {"git", "validate", "source", "global", "execution", "execution/task",
                 "malformed"}
  /\ {None, Bad, Unknown} \cap Source = {}
  /\ \A f \in DOMAIN Field : Field[f] \in {"string", "number", "mapping"}
  /\ {None, Bad, Unknown} \cap DOMAIN Field = {}

(* What may be lacking when the values of Raw that are accepted are run.   *)
Outcomes(Raw, Accepted(_), Lacks(_)) == {Lacks(x) : x \in {y \in Raw : Accepted(y)}}

Lack(what, missing) == IF missing THEN {what} ELSE {}

(* What no check of the loader asks for, and only a run finds missing:     *)
Unchecked ==
  {"path",      \* a task path of one or two parts
   "task",      \* a current task
   "directory", \* the directory a key is written to
   "key",       \* a context key that can be the name of a file
   "signal",    \* the field, in the active signal
   "template",  \* a template that can be rendered
   "git",       \* a git section of the execution
   "publish",   \* its push and pr
   "branch",    \* git:branch to have run
   "handed"}    \* the git section, handed on after the failure of an agent

-----------------------------------------------------------------------------
(***************************************************************************)
(* Agents: one command, or commands with names and the name of the default.*)
(* A command has the placeholder for the prompt's file, or is Bad.         *)
(***************************************************************************)
RawAgents ==
  [default : {None, Bad, "a", "b"},
   agents : {None, Bad} \cup UNION {[S -> {"command", Bad}] : S \in SUBSET {"a", "b"}}]
    \cup [default : {None, Bad}, agents : {None}, command : {None, Bad, "command"}]

AgentsAccepted(a) ==
  \/ /\ a.agents \notin {None, Bad}
     /\ \A n \in DOMAIN a.agents : a.agents[n] = "command"
     /\ a.default \in DOMAIN a.agents
  \/ a.agents = None /\ "command" \in DOMAIN a /\ a.command = "command"

(* run_sub_task_agent falls back on the default agent, and takes any other *)
(* that the execution or the context names.                                *)
AgentsRun(a) ==
  IF a.agents = None THEN a.command = "command"
  ELSE a.default \in DOMAIN a.agents /\ \A n \in DOMAIN a.agents : a.agents[n] = "command"

(* A repository is a directory, or a clone of a url, at a ref if one is    *)
(* given.  None: the key is absent.                                        *)
RawRepository ==
  [path : {None, Bad, "path"}, url : {None, Bad, "url"}, ref : {None, Bad, "ref"}]

RepositoryAccepted(r) ==
  /\ Cardinality({k \in {"path", "url"} : r[k] # None}) = 1
  /\ r.ref # None => r.url # None
  /\ Bad \notin {r.path, r.url, r.ref}

(* _ensure_repo_cloned: what is not a clone has a path, and only a clone   *)
(* is taken to a ref.                                                      *)
RepositoryRuns(r) ==
  IF r.url # None THEN r.url = "url" /\ r.ref # Bad
  ELSE r.path = "path" /\ r.ref = None

(* A field of a signal's payload: a type the matching knows.               *)
RawField ==
  [type : {None, Bad, "string", "number", "boolean", "list", "mapping"},
   required : {None, Bad} \cup BOOLEAN]

FieldAccepted(f) == f.type # Bad /\ f.required # Bad

-----------------------------------------------------------------------------
(* Scoped context references: a ":key" string, or a mapping. *)

Key == {"reserved", "plain", Bad}

TaskPath == {"execution", "execution/task"}

(* "malformed": a string that is neither, as "a/b/c", "/a" or "..".        *)
RawRef ==
  [key : Key, scope : {None}, task : {None}]
    \cup [key : Key, scope : {None, Bad, "execution", "global", "task"},
          task : {None, Bad, "malformed"} \cup TaskPath]

RefAccepted(r) ==
  /\ r.key = "reserved"
  /\ {r.scope, r.task} \cap {Bad} = {}
  /\ r.task # None => r.scope = "task"

(* resolve_context_ref_dir, with or without a current task. *)
RefLacks(r, current) ==
  Lack("fails", r.key # "reserved" \/ (r.scope # "task" /\ r.task # None))
    \cup Lack("path", r.scope = "task" /\ r.task \notin TaskPath \cup {None})
    \cup Lack("task", r.scope = "task" /\ r.task = None /\ ~ current)

(* write_scoped_context_value makes no directory; git:branch has made the  *)
(* one of the execution.                                                   *)
WrittenLacks(r, current) ==
  RefLacks(r, current) \cup Lack("directory", r.scope = "task")

(* Conditions add a negation: "!:key", or `negate` in a mapping. *)
RawCondition == [ref : RawRef, negate : {None, Bad} \cup BOOLEAN]

ConditionAccepted(c) == c.negate # Bad /\ RefAccepted(c.ref)

-----------------------------------------------------------------------------
(***************************************************************************)
(* The `when` of a signal: for one field a plain value, a mapping to       *)
(* compare a mapping field with, or a matcher {equals_context: :key}, here *)
(* by its key.                                                             *)
(***************************************************************************)
RawWhen ==
  [field : DOMAIN Field \cup {Unknown},
   value : {"plain", "mapping", "empty", "key", "plain key", "bad key"}]

Matcher(w) == w.value \in {"key", "plain key", "bad key"}

WhenAccepted(w) ==
  /\ w.field # Unknown
  /\ \/ w.value = "plain"
     \/ Field[w.field] = "mapping" /\ ~ Matcher(w)
     \/ w.value = "key"

(* signal_payload_matches_when looks the field's type up and the key.      *)
WhenRuns(w) == Matcher(w) => w.field \in DOMAIN Field /\ w.value = "key"

-----------------------------------------------------------------------------
(***************************************************************************)
(* Hooks.  An argument of a git command is a ":key", one with a slash in   *)
(* it, another word, or a number, zero told from the others.  A            *)
(* validation's arguments are a function from their names.                 *)
(***************************************************************************)
Argument == {"key", "key/slash", "word", "number", "zero"}

IsKey(arg) == arg \in {"key", "key/slash"}

GitCommand == {"branch", "commit", "push", "pr", "publish", "pr-labels-add",
               "pr-labels-remove", "pr-labels-list", "pr-comment-add",
               "pr-comments-list", "pr-checks-wait"}

TakesLabels == {"pr-labels-add", "pr-labels-remove"}

TakesKey == {"pr-labels-list", "pr-comment-add", "pr-comments-list"}

PrInteraction == TakesLabels \cup TakesKey \cup {"pr-checks-wait"}

RawGitHook ==
  [kind : {"git"}, command : GitCommand \cup {Unknown},
   args : (UNION {[1 .. n -> Argument] : n \in 0 .. 3})
            \cup {<<"key", "key", "number", n>> : n \in Argument}
            \cup {<<"key", "key", "number", "number", "number">>}]

\* Mutant: pr-checks-wait accepts one argument, the key of the result.
GitHookAcceptedShort(h) ==
  /\ h.command \in GitCommand
  /\ h.command \in TakesLabels => Len(h.args) >= 1
  /\ h.command \in TakesKey => Len(h.args) = 1 /\ IsKey(h.args[1])
  /\ h.command = "pr-checks-wait" =>
       /\ Len(h.args) \in 1 .. 4
       /\ \A i \in {1, 2} \cap DOMAIN h.args : IsKey(h.args[i])
       /\ \A i \in 3 .. Len(h.args) : h.args[i] = "number"

GitHookAccepted(h) ==
  /\ h.command \in GitCommand
  /\ h.command \in TakesLabels => Len(h.args) >= 1
  /\ h.command \in TakesKey => Len(h.args) = 1 /\ IsKey(h.args[1])
  /\ h.command = "pr-checks-wait" =>
       /\ Len(h.args) \in 2 .. 4
       /\ IsKey(h.args[1]) /\ IsKey(h.args[2])
       /\ \A i \in 3 .. Len(h.args) : h.args[i] = "number"

(* run_git_hook_command: the arguments it indexes, the numbers it converts.*)
GitHookRuns(h) ==
  /\ h.command \in GitCommand
  /\ h.command \in TakesKey => DOMAIN h.args # {} /\ IsKey(h.args[1])
  /\ h.command = "pr-checks-wait" =>
       /\ {1, 2} \subseteq DOMAIN h.args
       /\ \A i \in {3, 4} \cap DOMAIN h.args : h.args[i] = "number"

(* A key with a slash names no file of the context's directory; only the   *)
(* commands about a pull request do without the git section.               *)
GitHookLacks(h) ==
  Lack("fails", ~ GitHookRuns(h))
    \cup Lack("key", h.command \in PrInteraction
                       /\ \E i \in DOMAIN h.args : h.args[i] = "key/slash")
    \cup Lack("git", h.command \notin PrInteraction)
    \cup Lack("publish", h.command = "publish")
    \cup Lack("branch", h.command \in {"push", "pr", "publish"})

(* What a source of a value can be: a field of the signal, or a key in a   *)
(* scope of the context, the scope with one to three parts.                *)
ValueSource == {"signal.field", "signal.", "other", "context:noslash", "context:/key",
                "context:global/key", "context:execution/key",
                "context:execution/task/key", "context:a/b/c/key", "context:global/bad"}

GoodSource == {"signal.field", "context:global/key", "context:execution/key",
               "context:execution/task/key"}

ValidateName == {"repo", "repo_from", "pr_from", "require_merged", "key", "scope",
                 "equals", Unknown}

ValidateArgument(name) ==
  CASE name \in {"repo_from", "pr_from"} -> ValueSource
    [] name = "require_merged" -> {"true", "false", "other"}
    [] name = "key" -> {"good", Bad}
    [] name = "scope" -> {"global", "execution", "execution/task", "a/b/c", Bad}
    [] OTHER -> {"some"}

(* Every argument alone and with one or two others, in its different forms.*)
RawValidateHook ==
  UNION {[kind : {"validate"}, command : {"github-pr", "context-key", Unknown},
          args : {f \in [S -> UNION {ValidateArgument(n) : n \in S}] :
                    \A n \in S : f[n] \in ValidateArgument(n)}] :
         S \in {T \in SUBSET ValidateName : Cardinality(T) \in 1 .. 2}
                 \cup {{"repo", "pr_from", "require_merged"},
                       {"repo_from", "pr_from", "repo"},
                       {"key", "scope", "equals"}}}

ValidateAccepted(h) ==
  LET given == DOMAIN h.args IN
  \/ /\ h.command = "github-pr"
     /\ given \subseteq {"repo", "repo_from", "pr_from", "require_merged"}
     /\ "repo" \in given <=> "repo_from" \notin given
     /\ "pr_from" \in given
     /\ "require_merged" \in given => h.args["require_merged"] \in {"true", "false"}
     /\ \A n \in given \cap {"repo_from", "pr_from"} : h.args[n] \in GoodSource
  \/ /\ h.command = "context-key"
     /\ given \subseteq {"key", "scope", "equals"}
     /\ "key" \in given /\ h.args["key"] # Bad
     /\ "scope" \in given =>
          h.args["scope"] \in {"global", "execution", "execution/task"}

(* _run_validate_github_pr and _run_validate_context_key: what they look   *)
(* up without asking, and the scopes they can resolve.                     *)
ValidateRuns(h) ==
  LET given == DOMAIN h.args IN
  \/ /\ h.command = "github-pr"
     /\ "repo" \in given \/ "repo_from" \in given
     /\ "pr_from" \in given
     /\ \A n \in given \cap {"repo_from", "pr_from"} :
          h.args[n] \in GoodSource
  \/ /\ h.command = "context-key"
     /\ "key" \in given /\ h.args["key"] = "good"
     /\ "scope" \in given => h.args["scope"] \notin {Bad, "a/b/c"}

ValidateLacks(h) ==
  Lack("fails", ~ ValidateRuns(h))
    \cup Lack("signal", \E n \in DOMAIN h.args : h.args[n] = "signal.field")

RawSourceHook == [kind : {"source"}, name : Source \cup {Unknown, Bad}]

RawHook ==
  RawGitHook \cup RawValidateHook \cup RawSourceHook \cup [kind : {"shell", Bad}]

HookAccepted(h) ==
  \/ h.kind = "shell"
  \/ h.kind = "source" /\ h.name \in Source
  \/ h.kind = "git" /\ GitHookAccepted(h)
  \/ h.kind = "validate" /\ ValidateAccepted(h)

HookLacks(h) ==
  CASE h.kind = "git" -> GitHookLacks(h)
    [] h.kind = "validate" -> ValidateLacks(h)
    [] h.kind = "source" -> Lack("fails", h.name \notin Source)
    [] OTHER -> Lack("fails", h.kind # "shell")

-----------------------------------------------------------------------------
(* The git section of an execution: where the names of the branch, the     *)
(* commit message and the pull request's title and body come from.         *)

NameSource == {"name", "name_key", "name_template"}

MessageSource == {"message_source", "message_key", "message_template"}

TextSource == {"title_key", "title_template", "body_key", "body_template", "number_key"}

RawGit ==
  [branch : {None, Bad} \cup SUBSET NameSource,
   commit : {None, Bad} \cup SUBSET MessageSource, source : Source \cup {Unknown},
   push : {None, Bad, "remote"}, pr : {None, Bad} \cup SUBSET TextSource,
   template : {"template", "malformed"}]

GitAccepted(g) ==
  /\ {g.branch, g.commit} \cap {None, Bad} = {}
  /\ Cardinality(g.branch) <= 1
  /\ Cardinality(g.commit) = 1
  /\ g.commit = {"message_source"} => g.source \in Source
  /\ g.push # Bad /\ g.pr # Bad
  /\ g.pr # None => /\ g.push # None
                    /\ ~ {"title_key", "title_template"} \subseteq g.pr
                    /\ ~ {"body_key", "body_template"} \subseteq g.pr

(* load_commit_message has one source to take, which exists; a pull        *)
(* request is made of a branch that can be pushed.                         *)
GitRuns(g) ==
  /\ g.commit # {}
  /\ "message_source" \in g.commit => g.source \in Source
  /\ g.pr # None => g.push # None

(* A template is parsed when it is rendered. *)
GitLacks(g) ==
  LET used == g.branch \cup g.commit \cup (IF g.pr = None THEN {} ELSE g.pr) IN
  Lack("fails", ~ GitRuns(g))
    \cup Lack("template", /\ g.template = "malformed"
                          /\ used \cap {"name_template", "message_template",
                                       "title_template", "body_template"} # {})

(* What hooks find in a git section. *)
Offers(g) == {"git"} \cup (IF None \in {g.push, g.pr} THEN {} ELSE {"publish"})
=============================================================================
