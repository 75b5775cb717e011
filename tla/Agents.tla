------------------------------- MODULE Agents --------------------------------
(***************************************************************************)
(* What the agents of one attempt are shown, ask a model and are let do.   *)
(* The configuration picks a model; the context selector picks files; the  *)
(* planner, the implementor and the reviewer each send one prompt and take *)
(* the answer only if it is whole; the operations of an answer are applied *)
(* to the checkout one by one; a revision is shown the files again.        *)
(*                                                                         *)
(* Processor has the rest of a run: several attempts, the deadline, what   *)
(* is stored.  A file is its size here, 0 where there is none, and -q      *)
(* where there is a symbolic link to q.                                    *)
(***************************************************************************)
EXTENDS Integers, Sequences, FiniteSets, SequencesExt

CONSTANTS
  Tracked,             \* the paths 1..Tracked are in the repository's index
  Paths,               \* every path a model may name, the tracked ones among them
  Clean,               \* of a path, the one that filepath.Clean makes of it
  Dotted,              \* those that are absolute or have ".." somewhere in them
  Protected,           \* those resolvePath refuses
  Nested,              \* those whose directory is not in the repository
  DefaultMaxFiles,     \* files the selector returns, and readSources reads
  MaxSourceFileBytes, MaxSourceTotalByte,
  MaxOpsPerAttempt, MaxOpSizeBytes,
  MaxRevisions,
  Environments,        \* records [real, file] of functions from Variables
  Repositories,        \* records [committed, named, grepped, manifest]
  Proposals            \* what the operations of an answer may be, <<>> for garbage

Variables == {"ROJO_PROVIDER", "ANTHROPIC_API_KEY", "OPENAI_API_KEY", "numbers"}

APIs == {"anthropic", "openai"}
Unset == "unset"
Empty == ""

\* What may be wrong with a reply: the call failed, there is no choice in it, it
\* was cut off at the token limit, it has a refusal in place of its text, its text
\* is blank, or it was stopped for another reason (Anthropic's "refusal", OpenAI's
\* "content_filter").
Flaws == {"error", "none", "cut", "refused", "blank", "stopped"}

Operations ==
  [Kind : {"write", "append", "delete"}, Path : Paths, Size : 1..(MaxOpSizeBytes + 1)]

ASSUME AgentsAssumption ==
  /\ Tracked \in Nat /\ Paths \subseteq Nat \ {0} /\ 1..Tracked \subseteq Paths
  /\ Clean \in [Paths -> Paths] /\ \A p \in Paths : Clean[Clean[p]] = Clean[p]
  /\ {Dotted, Protected} \subseteq SUBSET Paths /\ Nested \subseteq Paths \ (1..Tracked)
  /\ {DefaultMaxFiles, MaxSourceFileBytes, MaxSourceTotalByte, MaxOpsPerAttempt,
      MaxOpSizeBytes} \subseteq Nat \ {0}
  /\ MaxRevisions \in Nat
  /\ \A e \in Environments : \A f \in {e.real, e.file} :
       /\ DOMAIN f = Variables
       \* The key of an API is the API's name, so that a wrong one shows.
       /\ f["ANTHROPIC_API_KEY"] \in {Unset, Empty, "anthropic"}
       /\ f["OPENAI_API_KEY"] \in {Unset, Empty, "openai"}
  /\ \A r \in Repositories :
       /\ r.committed \in [Paths -> Int] /\ \A p \in Nested : r.committed[p] = 0
       /\ \A p \in Paths : Clean[p] # p => r.committed[p] = 0 /\ p \notin 1..Tracked
       \* A link leads to a file, or to where one may be made.
       /\ \A p \in Paths : r.committed[p] < 0 =>
            /\ -r.committed[p] \in Paths \ Nested /\ r.committed[-r.committed[p]] >= 0
            /\ Clean[-r.committed[p]] = -r.committed[p]
       /\ {r.named, r.grepped} \subseteq [1..Tracked -> Nat]
       /\ r.manifest \subseteq 1..Tracked
  /\ \A ops \in Proposals : ops \in Seq(Operations)

VARIABLES
  pc,
  asked, client,          \* ROJO_PROVIDER, and the model's API and key, <<>> for none
  repository,
  contextFiles, touched,  \* the selection, and what the attempt has touched
  shown,                  \* the files in the implementor's last request
  tree, made,             \* the checkout, and whether the nested directory is in it
  ops,                    \* the operations on their way to Apply
  revisions,
  calls, errors, tokens,  \* the registry's counters
  history                 \* of the answers that were whole: their operations, in order,
                          \* and the tokens the providers spoke of

modelVars == <<calls, errors, tokens, history>>
filesVars == <<contextFiles, touched, shown>>
treeVars  == <<tree, made>>
bootVars  == <<asked, client, repository>>
vars == <<pc, bootVars, filesVars, treeVars, ops, revisions, modelVars>>

Init ==
  /\ pc = "boot" /\ asked = Empty /\ client = <<>>
  /\ repository \in Repositories
  /\ contextFiles = <<>> /\ touched = <<>> /\ shown = <<>>
  /\ tree = repository.committed /\ made = FALSE
  /\ ops = <<>> /\ revisions = 0
  /\ calls = 0 /\ errors = 0 /\ tokens = 0
  /\ history = [ops |-> <<>>, spent |-> 0]
-----------------------------------------------------------------------------
(* internal/config and the wiring in cmd/api/main.go *)

\* LoadEnvFile: the real environment wins, even where it is set to nothing.
EnvFile(e, v) == IF e.real[v] # Unset THEN e.real[v] ELSE e.file[v]

\* getEnv and os.Getenv: unset and empty are the same.
GetEnv(e, v) == IF EnvFile(e, v) = Unset THEN Empty ELSE EnvFile(e, v)

ResolvedProvider(named, anthropic, openai) ==
  IF named \in APIs THEN named
  ELSE IF anthropic # Empty THEN "anthropic"
  ELSE IF openai # Empty THEN "openai"
  ELSE Empty

ProviderAPIKey(api, anthropic, openai) ==
  IF api = "anthropic" THEN anthropic ELSE IF api = "openai" THEN openai ELSE Empty

\* The numeric settings: one that does not parse is its default, one that is not
\* positive is refused.
Validate(named, key, numbers) ==
  /\ numbers # "not positive"
  /\ named \in APIs \cup {Empty}
  /\ named # Empty => key # Empty

\* main, up to the processor.  Without a key there are no agents; with a file that
\* is there and cannot be read there is no server.
Start ==
  /\ pc = "boot"
  /\ \E e \in Environments, readable \in BOOLEAN :
       LET named     == GetEnv(e, "ROJO_PROVIDER")
           anthropic == GetEnv(e, "ANTHROPIC_API_KEY")
           openai    == GetEnv(e, "OPENAI_API_KEY")
           api       == ResolvedProvider(named, anthropic, openai)
           key       == ProviderAPIKey(api, anthropic, openai)
       IN /\ asked' = named
          /\ IF ~readable \/ ~Validate(named, key, GetEnv(e, "numbers"))
               THEN pc' = "exit" /\ UNCHANGED client
             ELSE IF api = Empty
               THEN pc' = "verify" /\ UNCHANGED client
               ELSE pc' = "select" /\ client' = <<api, key>>
  /\ UNCHANGED <<repository, filesVars, treeVars, ops, revisions, modelVars>>
-----------------------------------------------------------------------------
(* internal/repocontext *)

Score(f) ==
  3 * repository.named[f] + 2 * repository.grepped[f]
    + (IF f \in repository.manifest THEN 1 ELSE 0)

Better(f, g) == Score(f) > Score(g) \/ (Score(f) = Score(g) /\ f < g)

\* The files with a signal; the place of one is after those that are better.
Candidates == {f \in 1..Tracked : Score(f) > 0}

Position(f) == 1 + Cardinality({g \in Candidates : Better(g, f)})

Ranked ==
  LET found == Cardinality(Candidates)
  IN [i \in 1..(IF found > DefaultMaxFiles THEN DefaultMaxFiles ELSE found) |->
        CHOOSE f \in Candidates : Position(f) = i]

\* Best effort: without a listing the planner gets nothing.
Select ==
  /\ pc = "select"
  /\ contextFiles' \in {Ranked, <<>>}
  /\ pc' = "plan"
  /\ UNCHANGED <<bootVars, touched, shown, treeVars, ops, revisions, modelVars>>
-----------------------------------------------------------------------------
(* internal/agents/model and internal/metrics *)

\* A slip: an answer that was cut off is an answer.
OpenAITakesPrefixes(reply) == reply \cap {"error", "none", "refused", "blank"} = {}

\* Generate of the two clients: whether the text is returned, without an error.
OpenAIAnswers(reply) == reply \cap {"error", "none", "cut", "refused", "blank"} = {}
AnthropicAnswers(reply) == reply \cap {"error", "none", "cut", "blank"} = {}

Answered(reply) ==
  IF client[1] = "openai" THEN OpenAIAnswers(reply) ELSE AnthropicAnswers(reply)

\* A message of Anthropic's has no field for a refusal: its stop reason says so.
Replies == IF client[1] = "openai" THEN SUBSET Flaws ELSE SUBSET (Flaws \ {"refused"})

\* A slip: the usage is not passed on.
NoUsage(reply) == 0

\* The usage in the Response; with an error there is none in it.
Usage(reply) == IF Answered(reply) THEN 1 ELSE 0

\* What the provider said the call cost, in calls that reached it.
Spent(reply) == IF "error" \in reply THEN 0 ELSE 1

\* instrumentedModel.Generate and ModelCall.
ModelCall(reply) ==
  /\ calls' = calls + 1
  /\ errors' = errors + (IF Answered(reply) THEN 0 ELSE 1)
  /\ tokens' = tokens + Usage(reply)

\* The history of a call that asked for `wanted`. A reply that was stopped counts
\* as whole if there is text in it.
Heard(reply, wanted) ==
  history' = [ops   |-> IF reply \subseteq {"stopped"} THEN history.ops \o wanted
                                                      ELSE history.ops,
              spent |-> history.spent + Spent(reply)]
-----------------------------------------------------------------------------
(* internal/agents *)

\* Plan: a plan, or no valid one.
Plan ==
  /\ pc = "plan"
  /\ \E reply \in Replies, valid \in BOOLEAN :
       /\ ModelCall(reply) /\ Heard(reply, <<>>)
       /\ pc' = IF Answered(reply) /\ valid THEN "propose" ELSE "failed"
  /\ UNCHANGED <<bootVars, filesVars, treeVars, ops, revisions>>

\* mergePaths: the union, in order.
MergePaths(a, b) ==
  FoldLeft(LAMBDA out, p : IF p \in ToSet(out) THEN out ELSE Append(out, p), <<>>, a \o b)

\* Where a path leads in the checkout t, and how large the file is that is there.
FileAt(t, p) == IF t[Clean[p]] < 0 THEN -t[Clean[p]] ELSE Clean[p]
SizeAt(t, p) == t[FileAt(t, p)]

\* A slip: a file that is not there ends the reading.
ReadToTheFirstMissing(paths) ==
  FoldLeft(LAMBDA read, p :
             IF read.over \/ SizeAt(tree, p) \notin 1..MaxSourceFileBytes
               THEN [read EXCEPT !.over = TRUE]
               ELSE [read EXCEPT !.out = Append(@, p)],
           [out |-> <<>>, over |-> FALSE], paths).out

\* readSources: what is there and not too large, until either bound is reached. It
\* looks for dots in the path as it is named, and reads where the clean one leads.
ReadSources(paths) ==
  FoldLeft(LAMBDA read, p :
             IF \/ Len(read.out) >= DefaultMaxFiles \/ read.total >= MaxSourceTotalByte
                \/ p \in Dotted \/ SizeAt(tree, p) \notin 1..MaxSourceFileBytes
               THEN read
               ELSE [out |-> Append(read.out, p), total |-> read.total + SizeAt(tree, p)],
           [out |-> <<>>, total |-> 0], paths).out

\* Propose, with the request that implement makes for it.
Propose ==
  /\ pc = "propose"
  /\ shown' = ReadSources(MergePaths(contextFiles, touched))
  /\ \E reply \in Replies, proposal \in Proposals :
       /\ ModelCall(reply) /\ Heard(reply, proposal)
       /\ IF Answered(reply) /\ proposal # <<>>
            THEN pc' = "apply" /\ ops' = proposal
            ELSE pc' = "failed" /\ UNCHANGED ops
  /\ UNCHANGED <<bootVars, contextFiles, touched, treeVars, revisions>>

\* resolvePath and the bound on the content let an operation through.
Allowed(op) == Clean[op.Path] \notin Protected /\ op.Size <= MaxOpSizeBytes

\* applyOne returned an error: Apply stops, what it has done stays.
Refuse(at, op) == [at EXCEPT !.ok = FALSE]

\* applyOne, on a disk that does as it is told.  Only a write makes the directory it
\* needs; a write and an append follow a link, and a removal takes the link away.
ApplyOne(at, op) ==
  CASE ~at.ok                -> at
    [] at.ok /\ ~Allowed(op) -> Refuse(at, op)
    [] at.ok /\ Allowed(op)  ->
         CASE op.Kind = "write" ->
                [at EXCEPT !.tree[FileAt(at.tree, op.Path)] = op.Size,
                           !.made = @ \/ Clean[op.Path] \in Nested]
           [] op.Kind = "append" ->
                IF Clean[op.Path] \in Nested /\ ~at.made
                  THEN Refuse(at, op)
                  ELSE [at EXCEPT !.tree[FileAt(at.tree, op.Path)] = @ + op.Size]
           [] op.Kind = "delete" -> [at EXCEPT !.tree[Clean[op.Path]] = 0]

\* What an operation that fails on the disk may leave in t: a file that is cut short
\* at any place, or as it was.
CutShort(t, op) ==
  LET f == FileAt(t, op.Path)
      sizes == CASE op.Kind = "write"  -> 0..op.Size
                 [] op.Kind = "append" -> t[f]..(t[f] + op.Size)
                 [] op.Kind = "delete" -> {}
  IN {t} \cup {[t EXCEPT ![f] = z] : z \in sizes}

PathsOf(list) == [i \in DOMAIN list |-> list[i].Path]

\* What Apply has made of the checkout when it has done with the first n operations.
Applied(n) ==
  FoldLeft(ApplyOne, [tree |-> tree, made |-> made, ok |-> Len(ops) <= MaxOpsPerAttempt],
           SubSeq(ops, 1, n))

\* Apply: all of the operations in order, or a prefix and the end of the attempt.
Apply ==
  /\ pc = "apply"
  /\ LET end == Applied(Len(ops)) IN
       /\ tree' = end.tree /\ made' = end.made
       /\ IF end.ok
            THEN pc' = "verify" /\ touched' = MergePaths(touched, MergePaths(PathsOf(ops), <<>>))
            ELSE pc' = "failed" /\ UNCHANGED touched
  /\ ops' = <<>>
  /\ UNCHANGED <<bootVars, contextFiles, shown, revisions, modelVars>>

\* The same, with an operation that nothing refuses and that fails on the disk, its
\* directory made or not.
FailToApply ==
  /\ pc = "apply"
  /\ \E n \in 1..Len(ops) :
       LET before == Applied(n - 1)
       IN /\ Applied(n).ok
          /\ tree' \in CutShort(before.tree, ops[n])
          /\ \/ made' = Applied(n).made
             \/ made' = before.made /\ tree' = before.tree
  /\ pc' = "failed" /\ ops' = <<>>
  /\ UNCHANGED <<bootVars, filesVars, revisions, modelVars>>

\* A second pass can change something, and there is one left.
CanRevise == client # <<>> /\ revisions < MaxRevisions

Revise ==
  IF CanRevise THEN pc' = "propose" /\ revisions' = revisions + 1
               ELSE pc' = "failed" /\ UNCHANGED revisions

\* The gate: it is not passed, or it could not be run, or it is passed.
Verify ==
  /\ pc = "verify"
  /\ \/ Revise
     \/ pc' = "failed" /\ UNCHANGED revisions
     \/ pc' = (IF client = <<>> THEN "approved" ELSE "review") /\ UNCHANGED revisions
  /\ UNCHANGED <<bootVars, filesVars, treeVars, ops, modelVars>>

\* No diff to show a reviewer: the gate's word is enough.
Unreviewed ==
  /\ pc = "review" /\ pc' = "approved"
  /\ UNCHANGED <<bootVars, filesVars, treeVars, ops, revisions, modelVars>>

\* Review: a decision, or none of the three known ones.
Review ==
  /\ pc = "review"
  /\ \E reply \in Replies, decision \in {"approve", "request_changes", "reject", "other"} :
       /\ ModelCall(reply) /\ Heard(reply, <<>>)
       /\ CASE ~Answered(reply) \/ decision \in {"reject", "other"} ->
                 pc' = "failed" /\ UNCHANGED revisions
            [] Answered(reply) /\ decision = "approve" ->
                 pc' = "approved" /\ UNCHANGED revisions
            [] Answered(reply) /\ decision = "request_changes" -> Revise
  /\ UNCHANGED <<bootVars, filesVars, treeVars, ops>>

Next ==
  \/ Start \/ Select \/ Plan \/ Propose \/ Apply \/ FailToApply
  \/ Verify \/ Unreviewed \/ Review

Spec == Init /\ [][Next]_vars
-----------------------------------------------------------------------------
TypeOK ==
  /\ pc \in {"boot", "select", "plan", "propose", "apply", "verify", "review",
             "approved", "failed", "exit"}
  /\ client = <<>> \/ client \in APIs \X APIs
  /\ {contextFiles, touched, shown} \subseteq Seq(Paths)
  /\ tree \in [Paths -> Int] /\ made \in BOOLEAN
  /\ ops \in Seq(Operations) /\ revisions \in 0..MaxRevisions
  /\ {calls, errors, tokens} \subseteq Nat

\* The checkout t after an operation that is carried out to the letter.
CarriedOut(t, op) ==
  [p \in Paths |->
     CASE op.Kind = "write"  /\ p = FileAt(t, op.Path) -> op.Size
       [] op.Kind = "append" /\ p = FileAt(t, op.Path) -> t[p] + op.Size
       [] op.Kind = "delete" /\ p = Clean[op.Path]     -> 0
       [] OTHER -> t[p]]

\* The checkout after the first n operations that whole answers asked for.
After(n) == FoldLeft(CarriedOut, repository.committed, SubSeq(history.ops, 1, n))

\* What a gate or a reviewer judges is the committed tree with every operation of
\* every whole answer carried out, and none of an answer that was cut off at the
\* token limit, was a refusal in place of text, or was empty; an answer with text
\* that the provider stopped for another reason is taken for a whole one. An attempt
\* that failed half way has a prefix of them, but for the one file it failed at. And
\* a protected path is never changed, unless a link in the repository leads to it
\* (Generate, Propose and Apply together, over revisions).
TreeIsAnswered ==
  /\ \E n \in 0..Len(history.ops) :
       /\ pc \in {"verify", "review", "approved"} => n = Len(history.ops)
       /\ \A p \in Paths : tree[p] # After(n)[p] =>
            /\ pc = "failed" /\ n < Len(history.ops)
            /\ p = FileAt(After(n), history.ops[n + 1].Path)
  /\ \A p \in Protected :
       tree[p] = repository.committed[p] \/ \E q \in Paths : repository.committed[q] = -p

\* A revision is shown every file its attempt has touched and not deleted or made
\* too large, as long as these and the selection together are within the bounds, and
\* the path is neither absolute nor has ".." in it: those it is never shown.
RevisionSeesWhatFits ==
  LET listed == ToSet(contextFiles) \cup ToSet(touched)
      fits   == /\ Cardinality(listed) <= DefaultMaxFiles
                /\ \A p \in listed :
                     SizeAt(tree, p) <= MaxSourceTotalByte \div Cardinality(listed)
  IN pc = "apply" /\ revisions > 0 /\ fits =>
       \A p \in ToSet(touched) \ Dotted :
         SizeAt(tree, p) \in 1..MaxSourceFileBytes => p \in ToSet(shown)

\* What implement's comment says of a revision (processor.go:424-427): it "has to
\* see the code it is being asked to correct".
RevisionSeesItsWork ==
  pc = "apply" /\ revisions > 0 =>
    \A p \in ToSet(touched) :
      SizeAt(tree, p) \in 1..MaxSourceFileBytes => p \in ToSet(shown)

\* The model that is asked is the one the operator named, if one was named, and it
\* is asked with the key that is its own.
AskedModelAnswers ==
  client # <<>> => /\ asked \in {Empty, client[1]}
                   /\ client[2] = client[1]

\* What a benchmark computes a job's cost from: a job of one attempt asks the model its
\* operator meant once for its plan and at most twice a round, one failed call ends the
\* attempt, and as long as none failed the counted tokens are all that were spent.
CostIsKnown ==
  /\ AskedModelAnswers
  /\ calls <= 1 + 2 * (revisions + 1)
  /\ errors > 0 => pc = "failed"
  /\ tokens <= history.spent
  /\ errors = 0 => tokens = history.spent

\* What metrics/model.go:25-28 says of a failed call: its usage is recorded too.
EveryTokenIsCounted == tokens = history.spent
=============================================================================
