---------------------------- MODULE AgentsProofs -----------------------------
(***************************************************************************)
(* Proofs about Agents, for any paths, bounds, revisions, environments,    *)
(* repositories and answers: what a job's calls cost is known, the tree    *)
(* that is judged is the one that whole answers asked for, and a revision  *)
(* is shown its work as far as it fits.                                    *)
(***************************************************************************)
EXTENDS Agents, FiniteSetTheorems, TLAPS

Places == {"boot", "select", "plan", "propose", "apply", "verify", "review",
           "approved", "failed", "exit"}

\* Without a model nobody is asked; nobody is before the plan, and a round asks
\* for one proposal and one review at most.
CallsSoFar ==
  /\ client = <<>> => calls = 0 /\ pc \in {"boot", "verify", "approved", "failed", "exit"}
  /\ pc = "boot" => client = <<>>
  /\ pc \in {"boot", "select", "plan", "exit"} => calls = 0 /\ revisions = 0
  /\ pc = "propose" => calls <= 1 + 2 * revisions
  /\ pc \in {"apply", "verify", "review"} => calls <= 2 + 2 * revisions
  /\ calls <= 3 + 2 * revisions

\* A failed call ends the attempt, and until then every token is counted.
TokensSoFar ==
  /\ errors > 0 => pc = "failed"
  /\ tokens <= history.spent
  /\ errors = 0 => tokens = history.spent

CostInv ==
  /\ pc \in Places
  /\ revisions \in Nat /\ calls \in Nat /\ errors \in Nat /\ tokens \in Nat
  /\ history.spent \in Nat
  /\ AskedModelAnswers /\ CallsSoFar /\ TokensSoFar
-----------------------------------------------------------------------------
(* Cost *)

\* An answer counts its tokens, a call that reached nobody has none to count, and
\* only a whole answer of the model's API is one (ModelCall, Answered).
LEMMA CallCounts ==
  ASSUME CostInv, errors = 0, NEW reply, NEW wanted, ModelCall(reply), Heard(reply, wanted)
  PROVE  /\ calls' = calls + 1
         /\ errors' \in Nat /\ tokens' \in Nat /\ history'.spent \in Nat
         /\ tokens' <= history'.spent
         /\ Answered(reply) => errors' = 0
         /\ errors' = 0 => tokens' = history'.spent
<1>1. /\ tokens \in Nat /\ history.spent \in Nat /\ tokens = history.spent
  BY DEF CostInv, TokensSoFar
<1>2. Usage(reply) \in {0, 1} /\ Spent(reply) \in {0, 1}
  BY DEF Usage, Spent
<1>3. Answered(reply) => Usage(reply) = 1 /\ Spent(reply) = 1
  BY DEF Answered, OpenAIAnswers, AnthropicAnswers, Usage, Spent
<1>4. ~Answered(reply) => Usage(reply) = 0
  BY DEF Usage
<1>5. /\ calls' = calls + 1 /\ errors' = (IF Answered(reply) THEN 0 ELSE 1)
      /\ tokens' = tokens + Usage(reply) /\ history'.spent = history.spent + Spent(reply)
  BY DEF ModelCall, Heard
<1>. HIDE DEF Answered, Usage, Spent
<1>. QED  BY <1>1, <1>2, <1>3, <1>4, <1>5

\* Nothing is spent before the process starts.
LEMMA InitCost == Init => CostInv
<1>1. Init => AskedModelAnswers
  BY Zenon DEF Init, AskedModelAnswers
<1>2. Init => /\ pc = "boot" /\ client = <<>> /\ revisions = 0
              /\ calls = 0 /\ errors = 0 /\ tokens = 0
              /\ history = [ops |-> <<>>, spent |-> 0]
  BY Zenon DEF Init
<1>. QED  BY <1>1, <1>2 DEF CostInv, Places, CallsSoFar, TokensSoFar

\* An empty setting names no API and is not an unset one.
LEMMA EmptyIs == Empty \notin APIs /\ Empty # Unset
  BY Zenon DEF Empty, Unset, APIs

\* The process starts without a client or with one for the API that is named, or for
\* one whose key is set; the key is its own (ResolvedProvider, ProviderAPIKey, Validate).
LEMMA StartPicks ==
  ASSUME Start
  PROVE  /\ UNCHANGED <<revisions, calls, errors, tokens, history>>
         /\ \/ pc' \in {"exit", "verify"} /\ client' = client
            \/ /\ pc' = "select"
               /\ \E api \in APIs : client' = <<api, api>> /\ asked' \in {Empty, api}
<1>1. UNCHANGED <<revisions, calls, errors, tokens, history>>
  BY Zenon DEF Start, filesVars, treeVars, modelVars
<1>2. PICK e \in Environments, readable \in BOOLEAN :
        LET named     == GetEnv(e, "ROJO_PROVIDER")
            anthropic == GetEnv(e, "ANTHROPIC_API_KEY")
            openai    == GetEnv(e, "OPENAI_API_KEY")
            api       == ResolvedProvider(named, anthropic, openai)
            key       == ProviderAPIKey(api, anthropic, openai)
        IN /\ asked' = named
           /\ IF ~readable \/ ~Validate(named, key, GetEnv(e, "numbers"))
                THEN pc' = "exit" /\ UNCHANGED client
              ELSE IF api = Empty
                THEN pc' = "verify" /\ UNCHANGED client
                ELSE pc' = "select" /\ client' = <<api, key>>
  BY DEF Start
<1>. DEFINE named     == GetEnv(e, "ROJO_PROVIDER")
            anthropic == GetEnv(e, "ANTHROPIC_API_KEY")
            openai    == GetEnv(e, "OPENAI_API_KEY")
            api       == ResolvedProvider(named, anthropic, openai)
            key       == ProviderAPIKey(api, anthropic, openai)
            numbers   == GetEnv(e, "numbers")
<1>3. anthropic \in {Empty, "anthropic"} /\ openai \in {Empty, "openai"}
  <2>1. \A f \in {e.real, e.file} : /\ f["ANTHROPIC_API_KEY"] \in {Unset, Empty, "anthropic"}
                                   /\ f["OPENAI_API_KEY"] \in {Unset, Empty, "openai"}
    BY AgentsAssumption, Zenon
  <2>. QED  BY <2>1 DEF GetEnv, EnvFile
<1>4. /\ asked' = named
      /\ \/ pc' \in {"exit", "verify"} /\ client' = client
         \/ /\ pc' = "select" /\ client' = <<api, key>>
            /\ api # Empty /\ Validate(named, key, numbers)
  BY <1>2
<1>. HIDE DEF named, anthropic, openai, api, key, numbers
<1>5. api # Empty => api \in APIs
  BY DEF api, ResolvedProvider, APIs
<1>6. api # Empty /\ Validate(named, key, numbers) => named \in {Empty, api} /\ key = api
  BY <1>3, EmptyIs DEF api, key, ResolvedProvider, ProviderAPIKey, Validate, APIs
<1>. QED  BY <1>1, <1>4, <1>5, <1>6

\* Each step counts what it asks for, and ends the attempt if a call fails.
LEMMA StepCost == CostInv /\ [Next]_vars => CostInv'
<1>. SUFFICES ASSUME CostInv, [Next]_vars PROVE CostInv'
  OBVIOUS
<1>. USE DEF CostInv, Places, CallsSoFar, TokensSoFar, bootVars, filesVars, treeVars, modelVars
<1>0. UNCHANGED <<asked, client>> => AskedModelAnswers'
  BY DEF AskedModelAnswers
<1>1. CASE Start
  <2>1. /\ UNCHANGED <<revisions, calls, errors, tokens, history>>
        /\ \/ pc' \in {"exit", "verify"} /\ client' = client
           \/ /\ pc' = "select"
              /\ \E api \in APIs : client' = <<api, api>> /\ asked' \in {Empty, api}
    BY <1>1, StartPicks
  <2>2. pc = "boot"
    BY <1>1, Zenon DEF Start
  <2>3. client = <<>> /\ calls = 0 /\ revisions = 0
    BY <2>2
  <2>4. ASSUME NEW api \in APIs, client' = <<api, api>>, asked' \in {Empty, api}
        PROVE  AskedModelAnswers' /\ client' # <<>>
    <3>1. client'[1] = api /\ client'[2] = api /\ <<api, api>> # <<>>
      BY <2>4
    <3>. QED  BY <2>4, <3>1, Zenon DEF AskedModelAnswers
  <2>5. client' = <<>> => AskedModelAnswers'
    BY Zenon DEF AskedModelAnswers
  <2>. QED  BY <2>1, <2>2, <2>3, <2>4, <2>5
<1>2. CASE Select
  BY <1>0, <1>2 DEF Select
<1>3. CASE Plan
  <2>1. PICK reply \in Replies, valid \in BOOLEAN :
          /\ ModelCall(reply) /\ Heard(reply, <<>>)
          /\ pc' = IF Answered(reply) /\ valid THEN "propose" ELSE "failed"
    BY <1>3 DEF Plan
  <2>2. pc = "plan" /\ UNCHANGED <<asked, client, revisions>>
    BY <1>3 DEF Plan
  <2>3. errors = 0
    BY <2>2
  <2>4. /\ calls' = calls + 1
        /\ errors' \in Nat /\ tokens' \in Nat /\ history'.spent \in Nat
        /\ tokens' <= history'.spent
        /\ Answered(reply) => errors' = 0
        /\ errors' = 0 => tokens' = history'.spent
    BY <2>1, <2>3, CallCounts
  <2>. QED  BY <1>0, <2>1, <2>2, <2>4
<1>4. CASE Propose
  <2>1. PICK reply \in Replies, proposal \in Proposals :
          /\ ModelCall(reply) /\ Heard(reply, proposal)
          /\ IF Answered(reply) /\ proposal # <<>>
               THEN pc' = "apply" /\ ops' = proposal
               ELSE pc' = "failed" /\ UNCHANGED ops
    BY <1>4 DEF Propose
  <2>2. pc = "propose" /\ UNCHANGED <<asked, client, revisions>>
    BY <1>4 DEF Propose
  <2>3. errors = 0
    BY <2>2
  <2>4. /\ calls' = calls + 1
        /\ errors' \in Nat /\ tokens' \in Nat /\ history'.spent \in Nat
        /\ tokens' <= history'.spent
        /\ Answered(reply) => errors' = 0
        /\ errors' = 0 => tokens' = history'.spent
    BY <2>1, <2>3, CallCounts
  <2>. QED  BY <1>0, <2>1, <2>2, <2>4
<1>5. CASE Apply \/ FailToApply
  <2>1. /\ pc = "apply" /\ pc' \in {"verify", "failed"}
        /\ UNCHANGED <<asked, client, revisions, calls, errors, tokens, history>>
    BY <1>5 DEF Apply, FailToApply
  <2>. QED  BY <1>0, <2>1
<1>6. CASE Verify
  BY <1>0, <1>6 DEF Verify, Revise, CanRevise
<1>7. CASE Unreviewed
  BY <1>0, <1>7 DEF Unreviewed
<1>8. CASE Review
  <2>1. PICK reply \in Replies, decision \in {"approve", "request_changes", "reject", "other"} :
          /\ ModelCall(reply) /\ Heard(reply, <<>>)
          /\ \/ ~Answered(reply) /\ pc' = "failed" /\ UNCHANGED revisions
             \/ Answered(reply) /\ pc' \in {"approved", "failed"} /\ UNCHANGED revisions
             \/ Answered(reply) /\ Revise
    <3>1. PICK reply \in Replies,
               decision \in {"approve", "request_changes", "reject", "other"} :
            /\ ModelCall(reply) /\ Heard(reply, <<>>)
            /\ CASE ~Answered(reply) \/ decision \in {"reject", "other"} ->
                      pc' = "failed" /\ UNCHANGED revisions
                 [] Answered(reply) /\ decision = "approve" ->
                      pc' = "approved" /\ UNCHANGED revisions
                 [] Answered(reply) /\ decision = "request_changes" -> Revise
      BY <1>8 DEF Review
    <3>. QED  BY <3>1
  <2>2. pc = "review" /\ UNCHANGED <<asked, client>>
    BY <1>8 DEF Review
  <2>3. errors = 0
    BY <2>2
  <2>4. /\ calls' = calls + 1
        /\ errors' \in Nat /\ tokens' \in Nat /\ history'.spent \in Nat
        /\ tokens' <= history'.spent
        /\ Answered(reply) => errors' = 0
        /\ errors' = 0 => tokens' = history'.spent
    BY <2>1, <2>3, CallCounts
  <2>5. \/ /\ pc' \in {"approved", "failed"} /\ revisions' = revisions
           /\ pc' = "approved" => Answered(reply)
        \/ pc' = "propose" /\ revisions' = revisions + 1 /\ Answered(reply)
    BY <2>1 DEF Revise
  <2>6. CASE /\ pc' \in {"approved", "failed"} /\ revisions' = revisions
             /\ pc' = "approved" => Answered(reply)
    <3>1. AskedModelAnswers' /\ client' # <<>>
      BY <1>0, <2>2
    <3>2. calls' \in Nat /\ revisions' \in Nat /\ calls' <= 3 + 2 * revisions'
      BY <2>2, <2>4, <2>6
    <3>. QED  BY <2>4, <2>6, <3>1, <3>2
  <2>7. CASE pc' = "propose" /\ revisions' = revisions + 1 /\ Answered(reply)
    <3>1. AskedModelAnswers' /\ client' # <<>>
      BY <1>0, <2>2
    <3>2. calls' \in Nat /\ revisions' \in Nat /\ calls' <= 1 + 2 * revisions'
      BY <2>2, <2>4, <2>7
    <3>. QED  BY <2>4, <2>7, <3>1, <3>2
  <2>. QED  BY <2>5, <2>6, <2>7
<1>9. CASE UNCHANGED vars
  BY <1>0, <1>9 DEF vars
<1>. QED  BY <1>1, <1>2, <1>3, <1>4, <1>5, <1>6, <1>7, <1>8, <1>9 DEF Next

\* The cost invariant holds of every behaviour.
LEMMA CostInvHolds == Spec => []CostInv
  BY InitCost, StepCost, PTL DEF Spec

\* What a job's calls cost is known, for any environment, revisions and answers: the
\* model asked is the named one, with its own key, and while no call failed all the
\* tokens spent are counted (main.go's wiring, metrics/model.go and the agents).
THEOREM CostsAreKnown == Spec => []CostIsKnown
<1>1. CostInv => CostIsKnown
  BY DEF CostInv, CallsSoFar, TokensSoFar, CostIsKnown
<1>. QED  BY <1>1, CostInvHolds, PTL
-----------------------------------------------------------------------------
(* Folds.  The library's FoldLeft is a recursive function of the sets of indices, *)
(* and so the choice of one that solves its equation.  That there is one follows  *)
(* by induction over the length of a sequence, and with it the steps of the fold. *)

\* Induction over the natural numbers, as a fact about a set.
LEMMA Induct ==
  ASSUME NEW S, 0 \in S, \A n \in Nat : n \in S => n + 1 \in S
  PROVE  Nat \subseteq S
<1>. DEFINE R == OpToRel(<, Nat)
            T == Nat \ S
<1>1. IsWellFoundedOn(R, Nat)
  BY NatLessThanWellFounded
<1>2. SUFFICES ASSUME T # {} PROVE FALSE
  OBVIOUS
<1>3. PICK x \in T : \A y \in T : ~ (<<y, x>> \in R)
  <2>. T \subseteq Nat
    OBVIOUS
  <2>. HIDE DEF R, T
  <2>. QED  BY <1>1, <1>2, WFMin
<1>4. \A y \in Nat : y < x => <<y, x>> \in R
  BY DEF OpToRel
<1>5. x # 0 /\ x - 1 \in Nat
  OBVIOUS
<1>6. x - 1 < x
  BY <1>5
<1>7. <<x - 1, x>> \in R
  BY <1>4, <1>5, <1>6
<1>8. x - 1 \notin T
  <2>. HIDE DEF R, T
  <2>. QED  BY <1>3, <1>7
<1>9. x - 1 \in S
  BY <1>5, <1>8
<1>. QED  BY <1>5, <1>9

\* The same up to some number.
LEMMA InductTo ==
  ASSUME NEW n \in Nat, NEW S, 0 \in S, \A i \in 1..n : i - 1 \in S => i \in S
  PROVE  0..n \subseteq S
<1>. DEFINE T == {i \in Nat : i <= n => i \in S}
<1>1. 0 \in T
  OBVIOUS
<1>2. ASSUME NEW i \in Nat, i \in T PROVE i + 1 \in T
  <2>1. CASE i + 1 <= n
    <3>1. i + 1 \in 1..n /\ (i + 1) - 1 = i /\ i \in S
      BY <1>2, <2>1
    <3>. QED  BY <3>1
  <2>2. CASE ~(i + 1 <= n)
    BY <2>2
  <2>. QED  BY <2>1, <2>2
<1>. HIDE DEF T
<1>3. Nat \subseteq T
  BY <1>1, <1>2, Induct
<1>. QED  BY <1>3 DEF T

\* The numbers up to n have a greatest one, and so has each set of them.
LEMMA MaxIs ==
  ASSUME NEW n \in Nat, NEW T \in SUBSET (1..n), T # {}
  PROVE  Max(T) \in T /\ \A y \in T : Max(T) >= y
<1>. DEFINE Good(m) == \A U \in SUBSET (1..m) : U # {} => \E x \in U : \A y \in U : x >= y
            S == {m \in Nat : Good(m)}
<1>1. Good(0)
  <2>1. SUBSET (1..0) = {{}}
    OBVIOUS
  <2>. QED  BY <2>1
<1>2. ASSUME NEW m \in Nat, Good(m) PROVE Good(m + 1)
  <2>. SUFFICES ASSUME NEW U \in SUBSET (1..(m + 1)), U # {}
                PROVE  \E x \in U : \A y \in U : x >= y
    OBVIOUS
  <2>1. CASE m + 1 \in U
    BY <2>1
  <2>2. CASE m + 1 \notin U
    <3>1. U \in SUBSET (1..m)
      BY <2>2
    <3>. QED  BY <3>1, <1>2
  <2>. QED  BY <2>1, <2>2
<1>. HIDE DEF Good
<1>3. 0 \in S /\ \A m \in Nat : m \in S => m + 1 \in S
  BY <1>1, <1>2
<1>. HIDE DEF S
<1>4. n \in S
  BY <1>3, Induct
<1>6. Good(n)
  BY <1>4 DEF S
<1>5. \E x \in T : \A y \in T : x >= y
  BY <1>6 DEF Good
<1>. QED  BY <1>5 DEF Max

\* A number greater than the rest of a set is its greatest.
LEMMA MaxIsLast ==
  ASSUME NEW m \in Nat, NEW T \in SUBSET (1..(m + 1)), m + 1 \in T
  PROVE  Max(T) = m + 1
<1>1. m + 1 \in Nat /\ T # {}
  OBVIOUS
<1>2. Max(T) \in T /\ \A y \in T : Max(T) >= y
  BY <1>1, MaxIs
<1>3. Max(T) \in 1..(m + 1) /\ Max(T) >= m + 1
  BY <1>2
<1>. QED  BY <1>3

\* A prefix of the numbers is the shorter one and its last element.
LEMMA PrefixIs ==
  ASSUME NEW n \in Nat, NEW i \in 1..n
  PROVE  /\ 1..i \in SUBSET (1..n) /\ 1..i # {}
         /\ Max(1..i) = i /\ (1..i) \ {i} = 1..(i - 1)
<1>1. i - 1 \in Nat /\ i = (i - 1) + 1 /\ i \in 1..i /\ 1..i \subseteq 1..n
  OBVIOUS
<1>2. Max(1..i) = i
  BY <1>1, MaxIsLast
<1>3. (1..i) \ {i} = 1..(i - 1)
  OBVIOUS
<1>. QED  BY <1>1, <1>2, <1>3

\* The function `it` of sets of numbers folds F over each of them, from the least
\* number to the greatest, beginning with b: what is behind FoldLeft.
Iterates(it, n, b, F) ==
  \A T \in SUBSET (1..n) : it[T] = IF T = {} THEN b ELSE F[<<it[T \ {Max(T)}], Max(T)>>]

\* There is one, whatever F does to members of V (the recursive function in
\* MapThenFoldSet of the community modules' Folds).
LEMMA IterExists ==
  ASSUME NEW n \in Nat, NEW V, NEW b \in V, NEW F \in [V \X Nat -> V]
  PROVE  \E it \in [SUBSET (1..n) -> V] :
           Iterates(it, n, b, F)
<1>. USE DEF Iterates
<1>. DEFINE Can(m) == \E it \in [SUBSET (1..m) -> V] : Iterates(it, m, b, F)
            S == {m \in Nat : Can(m)}
<1>1. Can(0)
  <2>. DEFINE it == [T \in SUBSET (1..0) |-> b]
  <2>1. it \in [SUBSET (1..0) -> V]
    OBVIOUS
  <2>2. Iterates(it, 0, b, F)
    <3>1. SUBSET (1..0) = {{}}
      OBVIOUS
    <3>. QED  BY <3>1
  <2>. QED  BY <2>1, <2>2
<1>2. ASSUME NEW m \in Nat, Can(m) PROVE Can(m + 1)
  <2>1. PICK it \in [SUBSET (1..m) -> V] : Iterates(it, m, b, F)
    BY <1>2
  <2>. DEFINE more == [T \in SUBSET (1..(m + 1)) |->
                         IF m + 1 \in T THEN F[<<it[T \ {m + 1}], m + 1>>] ELSE it[T]]
  <2>2. ASSUME NEW T \in SUBSET (1..(m + 1)) PROVE T \ {m + 1} \in SUBSET (1..m)
    OBVIOUS
  <2>3. more \in [SUBSET (1..(m + 1)) -> V]
    <3>. SUFFICES ASSUME NEW T \in SUBSET (1..(m + 1)) PROVE more[T] \in V
      OBVIOUS
    <3>1. CASE m + 1 \in T
      <4>1. it[T \ {m + 1}] \in V
        BY <2>2
      <4>. QED  BY <3>1, <4>1
    <3>2. CASE m + 1 \notin T
      <4>1. T \in SUBSET (1..m)
        BY <3>2
      <4>. QED  BY <3>2, <4>1
    <3>. QED  BY <3>1, <3>2
  <2>4. Iterates(more, m + 1, b, F)
    <3>. SUFFICES ASSUME NEW T \in SUBSET (1..(m + 1))
                  PROVE  more[T] = IF T = {} THEN b ELSE F[<<more[T \ {Max(T)}], Max(T)>>]
      OBVIOUS
    <3>1. CASE m + 1 \in T
      <4>1. Max(T) = m + 1
        BY <3>1, MaxIsLast
      <4>2. more[T \ {m + 1}] = it[T \ {m + 1}]
        BY <2>2
      <4>. QED  BY <3>1, <4>1, <4>2
    <3>2. CASE m + 1 \notin T
      <4>1. T \in SUBSET (1..m)
        BY <3>2
      <4>2. more[T] = it[T]
        BY <3>2
      <4>3. CASE T = {}
        BY <4>1, <4>2, <4>3, <2>1
      <4>4. CASE T # {}
        <5>1. Max(T) \in T
          BY <4>1, <4>4, MaxIs
        <5>2. T \ {Max(T)} \in SUBSET (1..m)
          BY <4>1
        <5>3. more[T \ {Max(T)}] = it[T \ {Max(T)}]
          BY <5>2, <3>2
        <5>. QED  BY <4>1, <4>2, <4>4, <5>3, <2>1
      <4>. QED  BY <4>3, <4>4
    <3>. QED  BY <3>1, <3>2
  <2>. QED  BY <2>3, <2>4
<1>. HIDE DEF Can
<1>3. 0 \in S /\ \A m \in Nat : m \in S => m + 1 \in S
  BY <1>1, <1>2
<1>. HIDE DEF S
<1>4. n \in S
  BY <1>3, Induct
<1>5. Can(n)
  BY <1>4 DEF S
<1>. QED  BY <1>5 DEF Can

\* The steps of two of the four folds of Agents; ApplyOne and CarriedOut are those
\* of the others.
MergeStep(out, p) == IF p \in ToSet(out) THEN out ELSE Append(out, p)

ReadStep(read, p) ==
  IF \/ Len(read.out) >= DefaultMaxFiles \/ read.total >= MaxSourceTotalByte
     \/ p \in Dotted \/ SizeAt(tree, p) \notin 1..MaxSourceFileBytes
    THEN read
    ELSE [out |-> Append(read.out, p), total |-> read.total + SizeAt(tree, p)]

\* A merge takes the paths of both lists one by one.
LEMMA MergeTrace ==
  ASSUME NEW a \in Seq(Paths), NEW b0 \in Seq(Paths)
  PROVE  \E s, g : /\ s = a \o b0 /\ g[0] = <<>>
                   /\ \A i \in 1..Len(s) : g[i] = MergeStep(g[i - 1], s[i])
                   /\ MergePaths(a, b0) = g[Len(s)]
<1>s. PICK s : s = a \o b0
  OBVIOUS
<1>. DEFINE n == Len(s)
            V == Seq(Paths)
            b == <<>>
            op(v, i) == MergeStep(v, s[i])
            F == [w \in V \X Nat |-> IF w[2] \in 1..n THEN op(w[1], w[2]) ELSE w[1]]
            eqn(it) == it = [T \in SUBSET DOMAIN s |->
                               IF T = {} THEN b
                               ELSE LET x == Max(T) IN op(it[T \ {x}], x)]
<1>1. n \in Nat /\ DOMAIN s = 1..n
  BY <1>s
<1>2. MergePaths(a, b0) = (CHOOSE it : eqn(it))[DOMAIN s]
  BY <1>s DEF MergePaths, FoldLeft, MapThenFoldSet, MergeStep
<1>3. b \in V /\ \A v \in V, i \in 1..n : op(v, i) \in V
  BY <1>s DEF MergeStep
<1>4. \E it : eqn(it)
  <2>. HIDE DEF n, V, b, op
  <2>1. F \in [V \X Nat -> V]
    BY <1>3
  <2>. HIDE DEF F
  <2>2. PICK it \in [SUBSET (1..n) -> V] : Iterates(it, n, b, F)
    BY <1>1, <1>3, <2>1, IterExists
  <2>3. ASSUME NEW T \in SUBSET (1..n), T # {}
        PROVE  F[<<it[T \ {Max(T)}], Max(T)>>] = op(it[T \ {Max(T)}], Max(T))
    <3>1. Max(T) \in 1..n
      BY <1>1, <2>3, MaxIs
    <3>2. T \ {Max(T)} \in SUBSET (1..n)
      OBVIOUS
    <3>. QED  BY <3>1, <3>2 DEF F
  <2>4. \A T \in SUBSET (1..n) : it[T] = IF T = {} THEN b ELSE op(it[T \ {Max(T)}], Max(T))
    BY <2>2, <2>3 DEF Iterates
  <2>5. eqn(it)
    BY <1>1, <2>4
  <2>. QED  BY <2>5
<1>. HIDE DEF n, V, b, op
<1>5. PICK it : eqn(it) /\ MergePaths(a, b0) = it[DOMAIN s]
  BY <1>2, <1>4
<1>. DEFINE g == [i \in 0..n |-> it[1..i]]
<1>6. g[0] = b
  <2>1. 1..0 = {} /\ 0 \in 0..n /\ {} \in SUBSET DOMAIN s
    BY <1>1
  <2>. QED  BY <1>5, <2>1
<1>7. ASSUME NEW i \in 1..n PROVE g[i] = op(g[i - 1], i)
  <2>1. /\ 1..i \in SUBSET DOMAIN s /\ 1..i # {}
        /\ Max(1..i) = i /\ (1..i) \ {i} = 1..(i - 1)
    BY <1>1, PrefixIs
  <2>2. i \in 0..n /\ i - 1 \in 0..n
    BY <1>1
  <2>. QED  BY <1>5, <2>1, <2>2
<1>8. MergePaths(a, b0) = g[n]
  BY <1>1, <1>5
<1>. HIDE DEF g
<1>. QED  BY <1>s, <1>6, <1>7, <1>8 DEF n, b, op

\* The bounds are positive numbers.
LEMMA BoundsAre ==
  /\ MaxOpSizeBytes \in Nat /\ DefaultMaxFiles \in Nat \ {0}
  /\ MaxSourceFileBytes \in Nat /\ MaxSourceTotalByte \in Nat \ {0}
<1>1. {DefaultMaxFiles, MaxSourceFileBytes, MaxSourceTotalByte, MaxOpsPerAttempt,
       MaxOpSizeBytes} \subseteq Nat \ {0}
  BY AgentsAssumption, Zenon
<1>. QED  BY <1>1

\* What a checkout may be: its links are among those that were committed.
Checkouts ==
  {t \in [Paths -> Int] : \A p \in Paths : t[p] < 0 => t[p] = repository.committed[p]}

\* What Apply works on, between two operations.
States == [tree : Checkouts, made : BOOLEAN, ok : BOOLEAN]

\* The links that a repository may have: each leads to a file, or to where one may be
\* (AgentsAssumption).
LEMMA LinksAre ==
  ASSUME repository \in Repositories
  PROVE  /\ repository.committed \in [Paths -> Int]
         /\ \A p \in Paths : repository.committed[p] < 0 =>
              -repository.committed[p] \in Paths /\ repository.committed[-repository.committed[p]] >= 0
<1>1. repository.committed \in [Paths -> Int]
  BY AgentsAssumption, Zenon
<1>2. \A p \in Paths : repository.committed[p] < 0 =>
        /\ -repository.committed[p] \in Paths \ Nested
        /\ repository.committed[-repository.committed[p]] >= 0
  BY AgentsAssumption, Zenon
<1>. QED  BY <1>1, <1>2

\* A path leads to a file or to where there is none, never to a link; and to another
\* path than it is cleaned to only by a committed link (FileAt).
LEMMA FileIs ==
  ASSUME repository \in Repositories, NEW t \in Checkouts, NEW p \in Paths
  PROVE  /\ Clean[p] \in Paths /\ FileAt(t, p) \in Paths
         /\ t[FileAt(t, p)] \in Nat /\ SizeAt(t, p) \in Nat
         /\ FileAt(t, p) = Clean[p] \/ repository.committed[Clean[p]] = -FileAt(t, p)
<1>1. Clean[p] \in Paths
  <2>1. Clean \in [Paths -> Paths]
    BY AgentsAssumption, Zenon
  <2>. QED  BY <2>1
<1>2. t \in [Paths -> Int] /\ \A q \in Paths : t[q] < 0 => t[q] = repository.committed[q]
  BY DEF Checkouts
<1>3. CASE t[Clean[p]] < 0
  <2>. DEFINE q == -t[Clean[p]]
  <2>1. FileAt(t, p) = q /\ repository.committed[Clean[p]] = -q
    BY <1>1, <1>2, <1>3 DEF FileAt
  <2>2. q \in Paths /\ repository.committed[q] >= 0
    BY <1>1, <1>2, <1>3, LinksAre
  <2>3. t[q] \in Nat
    <3>. HIDE DEF q
    <3>1. t[q] \in Int /\ (t[q] < 0 => t[q] = repository.committed[q])
      BY <1>2, <2>2
    <3>. QED  BY <2>2, <3>1
  <2>. HIDE DEF q
  <2>. QED  BY <1>1, <2>1, <2>2, <2>3 DEF SizeAt
<1>4. CASE ~(t[Clean[p]] < 0)
  <2>1. FileAt(t, p) = Clean[p]
    BY <1>4 DEF FileAt
  <2>2. t[Clean[p]] \in Nat
    BY <1>1, <1>2, <1>4
  <2>. QED  BY <1>1, <2>1, <2>2 DEF SizeAt
<1>. QED  BY <1>3, <1>4

\* What an operation asks for, by its kind: one file of the checkout is another.
LEMMA CarriedOutIs ==
  ASSUME NEW t \in [Paths -> Int], NEW op \in Operations
  PROVE  /\ op.Kind = "write" => CarriedOut(t, op) = [t EXCEPT ![FileAt(t, op.Path)] = op.Size]
         /\ op.Kind = "append" =>
              CarriedOut(t, op) = [t EXCEPT ![FileAt(t, op.Path)] = @ + op.Size]
         /\ op.Kind = "delete" => CarriedOut(t, op) = [t EXCEPT ![Clean[op.Path]] = 0]
<1>1. ASSUME NEW p \in Paths
      PROVE  /\ op.Kind = "write" =>
                  CarriedOut(t, op)[p] = IF p = FileAt(t, op.Path) THEN op.Size ELSE t[p]
             /\ op.Kind = "append" =>
                  CarriedOut(t, op)[p] = IF p = FileAt(t, op.Path) THEN t[p] + op.Size ELSE t[p]
             /\ op.Kind = "delete" =>
                  CarriedOut(t, op)[p] = IF p = Clean[op.Path] THEN 0 ELSE t[p]
  <2>. HIDE DEF FileAt
  <2>. QED  BY DEF CarriedOut
<1>2. CarriedOut(t, op) = [p \in Paths |-> CarriedOut(t, op)[p]]
  BY DEF CarriedOut
<1>. DEFINE new == CarriedOut(t, op)
            f == FileAt(t, op.Path)
<1>. HIDE DEF new, f
<1>3. op.Kind = "write" => new = [t EXCEPT ![f] = op.Size]
  BY <1>1, <1>2 DEF new, f
<1>4. op.Kind = "append" => new = [t EXCEPT ![f] = @ + op.Size]
  BY <1>1, <1>2 DEF new, f
<1>5. op.Kind = "delete" => new = [t EXCEPT ![Clean[op.Path]] = 0]
  BY <1>1, <1>2 DEF new
<1>. QED  BY <1>3, <1>4, <1>5 DEF new, f

\* A file of a checkout may be another, and it still is one.
LEMMA CheckoutChanged ==
  ASSUME NEW t \in Checkouts, NEW f \in Paths, NEW z \in Nat
  PROVE  [t EXCEPT ![f] = z] \in Checkouts
  BY DEF Checkouts

\* A checkout stays one.
LEMMA CarriedOutTypes ==
  ASSUME repository \in Repositories, NEW t \in Checkouts, NEW op \in Operations
  PROVE  CarriedOut(t, op) \in Checkouts
<1>1. op.Kind \in {"write", "append", "delete"} /\ op.Path \in Paths /\ op.Size \in Nat
  BY BoundsAre DEF Operations
<1>2. t \in [Paths -> Int]
  BY DEF Checkouts
<1>. DEFINE f == FileAt(t, op.Path)
<1>3. t[f] \in Nat /\ f \in Paths /\ Clean[op.Path] \in Paths
  BY <1>1, FileIs
<1>4. t[f] + op.Size \in Nat /\ 0 \in Nat
  BY <1>1, <1>3
<1>5. CASE op.Kind = "write"
  BY <1>1, <1>2, <1>3, <1>5, CarriedOutIs, CheckoutChanged
<1>6. CASE op.Kind = "append"
  <2>1. CarriedOut(t, op) = [t EXCEPT ![f] = t[f] + op.Size]
    BY <1>2, <1>6, CarriedOutIs
  <2>. HIDE DEF f
  <2>. QED  BY <1>3, <1>4, <2>1, CheckoutChanged
<1>7. CASE op.Kind = "delete"
  BY <1>2, <1>3, <1>4, <1>7, CarriedOutIs, CheckoutChanged
<1>. QED  BY <1>1, <1>5, <1>6, <1>7

\* What an operation makes of the checkout: nothing, or the refusal, or its change
\* (applyOne).
LEMMA ApplyOneIs ==
  ASSUME repository \in Repositories, NEW at \in States, NEW op \in Operations
  PROVE  \/ ~at.ok /\ ApplyOne(at, op) = at
         \/ at.ok /\ ApplyOne(at, op) = [tree |-> at.tree, made |-> at.made, ok |-> FALSE]
         \/ /\ at.ok /\ Allowed(op)
            /\ \E m \in BOOLEAN :
                 ApplyOne(at, op) = [tree |-> CarriedOut(at.tree, op), made |-> m, ok |-> TRUE]
<1>1. op.Kind \in {"write", "append", "delete"}
  BY DEF Operations
<1>2. /\ at.ok \in BOOLEAN /\ at.made \in BOOLEAN /\ at.tree \in [Paths -> Int]
      /\ at = [tree |-> at.tree, made |-> at.made, ok |-> at.ok]
  BY DEF States, Checkouts
<1>. DEFINE f == FileAt(at.tree, op.Path)
<1>3. CASE ~at.ok
  BY <1>3 DEF ApplyOne
<1>4. CASE at.ok /\ ~Allowed(op)
  <2>1. ApplyOne(at, op) = [at EXCEPT !.ok = FALSE]
    BY <1>4 DEF ApplyOne, Refuse
  <2>. QED  BY <1>2, <1>4, <2>1
<1>5. CASE at.ok /\ Allowed(op) /\ op.Kind = "write"
  <2>1. ApplyOne(at, op) = [at EXCEPT !.tree[f] = op.Size, !.made = @ \/ Clean[op.Path] \in Nested]
    BY <1>5 DEF ApplyOne
  <2>2. CarriedOut(at.tree, op) = [at.tree EXCEPT ![f] = op.Size]
    BY <1>2, <1>5, CarriedOutIs
  <2>3. PICK m \in BOOLEAN : m = (at.made \/ Clean[op.Path] \in Nested)
    OBVIOUS
  <2>. HIDE DEF f
  <2>. QED  BY <1>2, <1>5, <2>1, <2>2, <2>3
<1>6. CASE at.ok /\ Allowed(op) /\ op.Kind = "append"
  <2>1. \/ ApplyOne(at, op) = Refuse(at, op)
        \/ ApplyOne(at, op) = [at EXCEPT !.tree[f] = @ + op.Size]
    BY <1>6 DEF ApplyOne
  <2>2. CarriedOut(at.tree, op) = [at.tree EXCEPT ![f] = @ + op.Size]
    BY <1>2, <1>6, CarriedOutIs
  <2>. HIDE DEF f
  <2>. QED  BY <1>2, <1>6, <2>1, <2>2 DEF Refuse
<1>7. CASE at.ok /\ Allowed(op) /\ op.Kind = "delete"
  <2>1. ApplyOne(at, op) = [at EXCEPT !.tree[Clean[op.Path]] = 0]
    BY <1>7 DEF ApplyOne
  <2>2. CarriedOut(at.tree, op) = [at.tree EXCEPT ![Clean[op.Path]] = 0]
    BY <1>2, <1>7, CarriedOutIs
  <2>. QED  BY <1>2, <1>7, <2>1, <2>2
<1>. QED  BY <1>1, <1>2, <1>3, <1>4, <1>5, <1>6, <1>7

\* What Apply works on stays that.
LEMMA ApplyOneTypes ==
  ASSUME repository \in Repositories, NEW at \in States, NEW op \in Operations
  PROVE  ApplyOne(at, op) \in States
<1>1. at.ok \in BOOLEAN /\ at.made \in BOOLEAN /\ at.tree \in Checkouts
  BY DEF States
<1>. DEFINE new == CarriedOut(at.tree, op)
<1>2. new \in Checkouts
  BY <1>1, CarriedOutTypes
<1>3. \/ ApplyOne(at, op) = at
      \/ ApplyOne(at, op) = [tree |-> at.tree, made |-> at.made, ok |-> FALSE]
      \/ \E m \in BOOLEAN :
           ApplyOne(at, op) = [tree |-> new, made |-> m, ok |-> TRUE]
  BY ApplyOneIs, Zenon
<1>. HIDE DEF new
<1>4. [tree |-> at.tree, made |-> at.made, ok |-> FALSE] \in States
  BY <1>1 DEF States
<1>5. ASSUME NEW m \in BOOLEAN PROVE [tree |-> new, made |-> m, ok |-> TRUE] \in States
  BY <1>2 DEF States
<1>. QED  BY <1>3, <1>4, <1>5, Zenon

\* A request takes the files of a list one by one.
LEMMA ReadTrace ==
  ASSUME NEW U, NEW s \in Seq(U)
  PROVE  \E g : /\ g[0] = [out |-> <<>>, total |-> 0]
                /\ \A i \in 1..Len(s) : g[i] = ReadStep(g[i - 1], s[i])
                /\ ReadSources(s) = g[Len(s)].out
<1>. DEFINE n == Len(s)
            V == [out : Seq(U), total : Int]
            b == [out |-> <<>>, total |-> 0]
            op(v, i) == ReadStep(v, s[i])
            F == [w \in V \X Nat |-> IF w[2] \in 1..n THEN op(w[1], w[2]) ELSE w[1]]
            eqn(it) == it = [T \in SUBSET DOMAIN s |->
                               IF T = {} THEN b
                               ELSE LET x == Max(T) IN op(it[T \ {x}], x)]
<1>1. n \in Nat /\ DOMAIN s = 1..n
  OBVIOUS
<1>2. ReadSources(s) = (CHOOSE it : eqn(it))[DOMAIN s].out
  BY DEF ReadSources, FoldLeft, MapThenFoldSet, ReadStep
<1>3. b \in V /\ \A v \in V, i \in 1..n : op(v, i) \in V
  BY DEF ReadStep
<1>4. \E it : eqn(it)
  <2>. HIDE DEF n, V, b, op
  <2>1. F \in [V \X Nat -> V]
    BY <1>3
  <2>. HIDE DEF F
  <2>2. PICK it \in [SUBSET (1..n) -> V] : Iterates(it, n, b, F)
    BY <1>1, <1>3, <2>1, IterExists
  <2>3. ASSUME NEW T \in SUBSET (1..n), T # {}
        PROVE  F[<<it[T \ {Max(T)}], Max(T)>>] = op(it[T \ {Max(T)}], Max(T))
    <3>1. Max(T) \in 1..n
      BY <1>1, <2>3, MaxIs
    <3>2. T \ {Max(T)} \in SUBSET (1..n)
      OBVIOUS
    <3>. QED  BY <3>1, <3>2 DEF F
  <2>4. \A T \in SUBSET (1..n) : it[T] = IF T = {} THEN b ELSE op(it[T \ {Max(T)}], Max(T))
    BY <2>2, <2>3 DEF Iterates
  <2>5. eqn(it)
    BY <1>1, <2>4
  <2>. QED  BY <2>5
<1>. HIDE DEF n, V, b, op
<1>5. PICK it : eqn(it) /\ ReadSources(s) = it[DOMAIN s].out
  BY <1>2, <1>4
<1>. DEFINE g == [i \in 0..n |-> it[1..i]]
<1>6. g[0] = b
  <2>1. 1..0 = {} /\ 0 \in 0..n /\ {} \in SUBSET DOMAIN s
    BY <1>1
  <2>. QED  BY <1>5, <2>1
<1>7. ASSUME NEW i \in 1..n PROVE g[i] = op(g[i - 1], i)
  <2>1. /\ 1..i \in SUBSET DOMAIN s /\ 1..i # {}
        /\ Max(1..i) = i /\ (1..i) \ {i} = 1..(i - 1)
    BY <1>1, PrefixIs
  <2>2. i \in 0..n /\ i - 1 \in 0..n
    BY <1>1
  <2>. QED  BY <1>5, <2>1, <2>2
<1>8. ReadSources(s) = g[n].out
  BY <1>1, <1>5
<1>. HIDE DEF g
<1>. QED  BY <1>6, <1>7, <1>8 DEF n, b, op

\* What Apply makes of `start` (the fold in Applied).
Made(start, list) == FoldLeft(ApplyOne, start, list)

\* The operations of an answer are applied one by one.
LEMMA ApplyTrace ==
  ASSUME repository \in Repositories, NEW start \in States, NEW s \in Seq(Operations)
  PROVE  \E g : /\ g[0] = start
                /\ \A i \in 1..Len(s) : g[i] = ApplyOne(g[i - 1], s[i])
                /\ Made(start, s) = g[Len(s)]
<1>. DEFINE n == Len(s)
            V == States
            b == start
            op(v, i) == ApplyOne(v, s[i])
            F == [w \in V \X Nat |-> IF w[2] \in 1..n THEN op(w[1], w[2]) ELSE w[1]]
            eqn(it) == it = [T \in SUBSET DOMAIN s |->
                               IF T = {} THEN b
                               ELSE LET x == Max(T) IN op(it[T \ {x}], x)]
<1>1. n \in Nat /\ DOMAIN s = 1..n
  OBVIOUS
<1>2. Made(start, s) = (CHOOSE it : eqn(it))[DOMAIN s]
  BY DEF Made, FoldLeft, MapThenFoldSet
<1>3. b \in V /\ \A v \in V, i \in 1..n : op(v, i) \in V
  BY ApplyOneTypes
<1>4. \E it : eqn(it)
  <2>. HIDE DEF n, V, b, op
  <2>1. F \in [V \X Nat -> V]
    BY <1>3
  <2>. HIDE DEF F
  <2>2. PICK it \in [SUBSET (1..n) -> V] : Iterates(it, n, b, F)
    BY <1>1, <1>3, <2>1, IterExists
  <2>3. ASSUME NEW T \in SUBSET (1..n), T # {}
        PROVE  F[<<it[T \ {Max(T)}], Max(T)>>] = op(it[T \ {Max(T)}], Max(T))
    <3>1. Max(T) \in 1..n
      BY <1>1, <2>3, MaxIs
    <3>2. T \ {Max(T)} \in SUBSET (1..n)
      OBVIOUS
    <3>. QED  BY <3>1, <3>2 DEF F
  <2>4. \A T \in SUBSET (1..n) : it[T] = IF T = {} THEN b ELSE op(it[T \ {Max(T)}], Max(T))
    BY <2>2, <2>3 DEF Iterates
  <2>5. eqn(it)
    BY <1>1, <2>4
  <2>. QED  BY <2>5
<1>. HIDE DEF n, V, b, op
<1>5. PICK it : eqn(it) /\ Made(start, s) = it[DOMAIN s]
  BY <1>2, <1>4
<1>. DEFINE g == [i \in 0..n |-> it[1..i]]
<1>6. g[0] = b
  <2>1. 1..0 = {} /\ 0 \in 0..n /\ {} \in SUBSET DOMAIN s
    BY <1>1
  <2>. QED  BY <1>5, <2>1
<1>7. ASSUME NEW i \in 1..n PROVE g[i] = op(g[i - 1], i)
  <2>1. /\ 1..i \in SUBSET DOMAIN s /\ 1..i # {}
        /\ Max(1..i) = i /\ (1..i) \ {i} = 1..(i - 1)
    BY <1>1, PrefixIs
  <2>2. i \in 0..n /\ i - 1 \in 0..n
    BY <1>1
  <2>. QED  BY <1>5, <2>1, <2>2
<1>8. Made(start, s) = g[n]
  BY <1>1, <1>5
<1>. HIDE DEF g
<1>. QED  BY <1>6, <1>7, <1>8 DEF n, b, op

\* What came of operations that are carried out to the letter.
Followed(c, list) == FoldLeft(CarriedOut, c, list)

\* They are carried out one by one.
LEMMA FollowTrace ==
  ASSUME repository \in Repositories, NEW c \in Checkouts, NEW s \in Seq(Operations)
  PROVE  \E g : /\ g[0] = c
                /\ \A i \in 1..Len(s) : g[i] = CarriedOut(g[i - 1], s[i])
                /\ Followed(c, s) = g[Len(s)]
<1>. DEFINE n == Len(s)
            V == Checkouts
            b == c
            op(v, i) == CarriedOut(v, s[i])
            F == [w \in V \X Nat |-> IF w[2] \in 1..n THEN op(w[1], w[2]) ELSE w[1]]
            eqn(it) == it = [T \in SUBSET DOMAIN s |->
                               IF T = {} THEN b
                               ELSE LET x == Max(T) IN op(it[T \ {x}], x)]
<1>1. n \in Nat /\ DOMAIN s = 1..n
  OBVIOUS
<1>2. Followed(c, s) = (CHOOSE it : eqn(it))[DOMAIN s]
  BY DEF Followed, FoldLeft, MapThenFoldSet
<1>3. b \in V /\ \A v \in V, i \in 1..n : op(v, i) \in V
  BY CarriedOutTypes
<1>4. \E it : eqn(it)
  <2>. HIDE DEF n, V, b, op
  <2>1. F \in [V \X Nat -> V]
    BY <1>3
  <2>. HIDE DEF F
  <2>2. PICK it \in [SUBSET (1..n) -> V] : Iterates(it, n, b, F)
    BY <1>1, <1>3, <2>1, IterExists
  <2>3. ASSUME NEW T \in SUBSET (1..n), T # {}
        PROVE  F[<<it[T \ {Max(T)}], Max(T)>>] = op(it[T \ {Max(T)}], Max(T))
    <3>1. Max(T) \in 1..n
      BY <1>1, <2>3, MaxIs
    <3>2. T \ {Max(T)} \in SUBSET (1..n)
      OBVIOUS
    <3>. QED  BY <3>1, <3>2 DEF F
  <2>4. \A T \in SUBSET (1..n) : it[T] = IF T = {} THEN b ELSE op(it[T \ {Max(T)}], Max(T))
    BY <2>2, <2>3 DEF Iterates
  <2>5. eqn(it)
    BY <1>1, <2>4
  <2>. QED  BY <2>5
<1>. HIDE DEF n, V, b, op
<1>5. PICK it : eqn(it) /\ Followed(c, s) = it[DOMAIN s]
  BY <1>2, <1>4
<1>. DEFINE g == [i \in 0..n |-> it[1..i]]
<1>6. g[0] = b
  <2>1. 1..0 = {} /\ 0 \in 0..n /\ {} \in SUBSET DOMAIN s
    BY <1>1
  <2>. QED  BY <1>5, <2>1
<1>7. ASSUME NEW i \in 1..n PROVE g[i] = op(g[i - 1], i)
  <2>1. /\ 1..i \in SUBSET DOMAIN s /\ 1..i # {}
        /\ Max(1..i) = i /\ (1..i) \ {i} = 1..(i - 1)
    BY <1>1, PrefixIs
  <2>2. i \in 0..n /\ i - 1 \in 0..n
    BY <1>1
  <2>. QED  BY <1>5, <2>1, <2>2
<1>8. Followed(c, s) = g[n]
  BY <1>1, <1>5
<1>. HIDE DEF g
<1>. QED  BY <1>6, <1>7, <1>8 DEF n, b, op
-----------------------------------------------------------------------------
(* The tree: what is judged is what whole answers asked for. *)

\* What the first n operations of a list make of what is committed in r.
AfterOf(r, list, n) == Followed(r.committed, SubSeq(list, 1, n))

\* The operations of the history that are in the tree while an answer is applied.
Judged == Len(history.ops) - Len(ops)

\* No path that resolvePath refuses is changed, unless a committed link leads to it.
Guarded(t) ==
  \A p \in Protected :
    t[p] = repository.committed[p] \/ \E q \in Paths : repository.committed[q] = -p

\* The tree t is what came of the first n operations of the history, but for the one
\* file that the next of them names.
Stopped(t, n) ==
  \A p \in Paths : t[p] # AfterOf(repository, history.ops, n)[p] =>
    /\ n < Len(history.ops)
    /\ p = FileAt(AfterOf(repository, history.ops, n), history.ops[n + 1].Path)

\* Until the operations of an answer are applied, the tree is what came of those
\* before them; an attempt that failed stopped somewhere on the way.
TreeInv ==
  /\ pc \in Places /\ repository \in Repositories /\ history.ops \in Seq(Operations)
  /\ made \in BOOLEAN /\ tree \in Checkouts
  /\ pc \notin {"apply", "failed"} => tree = AfterOf(repository, history.ops, Len(history.ops))
  /\ pc = "apply" => /\ ops \in Seq(Operations) /\ Judged \in 0..Len(history.ops)
                     /\ \A i \in 1..Len(ops) : history.ops[Judged + i] = ops[i]
                     /\ tree = AfterOf(repository, history.ops, Judged)
  /\ pc = "failed" => \E n \in 0..Len(history.ops) : Stopped(tree, n)
  /\ Guarded(tree)

\* Two lists of steps that begin alike lead to the same.
LEMMA SameSteps ==
  ASSUME NEW n \in Nat, NEW g, NEW h, g[0] = h[0],
         \A i \in 1..n : g[i - 1] = h[i - 1] => g[i] = h[i]
  PROVE  g[n] = h[n]
<1>. DEFINE S == {i \in 0..n : g[i] = h[i]}
<1>1. 0 \in S /\ \A i \in 1..n : i - 1 \in S => i \in S
  OBVIOUS
<1>2. n \in 0..n
  OBVIOUS
<1>. HIDE DEF S
<1>3. n \in S
  BY <1>1, <1>2, InductTo
<1>. QED  BY <1>3 DEF S

\* The first n elements of a list, and the one after n - 1 of them.
LEMMA FirstOf ==
  ASSUME NEW s \in Seq(Operations), NEW n \in 1..Len(s)
  PROVE  /\ s[n] \in Operations /\ n \in Nat /\ n - 1 \in Nat
         /\ SubSeq(s, 1, n) \in Seq(Operations) /\ Len(SubSeq(s, 1, n)) = n
         /\ SubSeq(s, 1, n)[n] = s[n]
         /\ SubSeq(s, 1, n - 1) \in Seq(Operations) /\ Len(SubSeq(s, 1, n - 1)) = n - 1
         /\ \A i \in 1..(n - 1) : SubSeq(s, 1, n)[i] = SubSeq(s, 1, n - 1)[i]
  OBVIOUS

\* Before the first operation the checkout is as it began.
LEMMA FollowNone ==
  ASSUME repository \in Repositories, NEW c \in Checkouts
  PROVE  Followed(c, <<>>) = c
<1>1. <<>> \in Seq(Operations) /\ Len(<<>>) = 0
  OBVIOUS
<1>2. PICK g : /\ g[0] = c
               /\ \A i \in 1..Len(<<>>) : g[i] = CarriedOut(g[i - 1], <<>>[i])
               /\ Followed(c, <<>>) = g[Len(<<>>)]
  BY <1>1, FollowTrace, Zenon
<1>. QED  BY <1>1, <1>2

\* One more operation is one more step of the fold.
LEMMA FollowMore ==
  ASSUME repository \in Repositories, NEW c \in Checkouts,
         NEW s \in Seq(Operations), NEW n \in 1..Len(s)
  PROVE  Followed(c, SubSeq(s, 1, n)) = CarriedOut(Followed(c, SubSeq(s, 1, n - 1)), s[n])
<1>. DEFINE t == SubSeq(s, 1, n)
            u == SubSeq(s, 1, n - 1)
<1>1. /\ t \in Seq(Operations) /\ Len(t) = n /\ t[n] = s[n] /\ n \in Nat /\ n - 1 \in Nat
      /\ u \in Seq(Operations) /\ Len(u) = n - 1 /\ \A i \in 1..(n - 1) : t[i] = u[i]
  BY FirstOf
<1>. HIDE DEF t, u
<1>2. PICK g : /\ g[0] = c
               /\ \A i \in 1..Len(t) : g[i] = CarriedOut(g[i - 1], t[i])
               /\ Followed(c, t) = g[Len(t)]
  BY <1>1, FollowTrace, Zenon
<1>3. PICK h : /\ h[0] = c
               /\ \A i \in 1..Len(u) : h[i] = CarriedOut(h[i - 1], u[i])
               /\ Followed(c, u) = h[Len(u)]
  BY <1>1, FollowTrace, Zenon
<1>4. \A i \in 1..(n - 1) : g[i - 1] = h[i - 1] => g[i] = h[i]
  <2>. SUFFICES ASSUME NEW i \in 1..(n - 1), g[i - 1] = h[i - 1] PROVE g[i] = h[i]
    OBVIOUS
  <2>1. i \in 1..n
    BY <1>1
  <2>2. g[i] = CarriedOut(g[i - 1], u[i]) /\ h[i] = CarriedOut(h[i - 1], u[i])
    BY <1>1, <1>2, <1>3, <2>1
  <2>. QED  BY <2>2
<1>5. g[n - 1] = h[n - 1]
  BY <1>1, <1>2, <1>3, <1>4, SameSteps
<1>6. g[n] = CarriedOut(g[n - 1], s[n])
  BY <1>1, <1>2
<1>. QED  BY <1>1, <1>2, <1>3, <1>5, <1>6 DEF t, u

\* The same of Apply.
LEMMA MadeMore ==
  ASSUME repository \in Repositories, NEW start \in States,
         NEW s \in Seq(Operations), NEW n \in 1..Len(s)
  PROVE  Made(start, SubSeq(s, 1, n)) = ApplyOne(Made(start, SubSeq(s, 1, n - 1)), s[n])
<1>. DEFINE t == SubSeq(s, 1, n)
            u == SubSeq(s, 1, n - 1)
<1>1. /\ t \in Seq(Operations) /\ Len(t) = n /\ t[n] = s[n] /\ n \in Nat /\ n - 1 \in Nat
      /\ u \in Seq(Operations) /\ Len(u) = n - 1 /\ \A i \in 1..(n - 1) : t[i] = u[i]
  BY FirstOf
<1>. HIDE DEF t, u
<1>2. PICK g : /\ g[0] = start
               /\ \A i \in 1..Len(t) : g[i] = ApplyOne(g[i - 1], t[i])
               /\ Made(start, t) = g[Len(t)]
  BY <1>1, ApplyTrace, Zenon
<1>3. PICK h : /\ h[0] = start
               /\ \A i \in 1..Len(u) : h[i] = ApplyOne(h[i - 1], u[i])
               /\ Made(start, u) = h[Len(u)]
  BY <1>1, ApplyTrace, Zenon
<1>4. \A i \in 1..(n - 1) : g[i - 1] = h[i - 1] => g[i] = h[i]
  <2>. SUFFICES ASSUME NEW i \in 1..(n - 1), g[i - 1] = h[i - 1] PROVE g[i] = h[i]
    OBVIOUS
  <2>1. i \in 1..n
    BY <1>1
  <2>2. g[i] = ApplyOne(g[i - 1], u[i]) /\ h[i] = ApplyOne(h[i - 1], u[i])
    BY <1>1, <1>2, <1>3, <2>1
  <2>. QED  BY <2>2
<1>5. g[n - 1] = h[n - 1]
  BY <1>1, <1>2, <1>3, <1>4, SameSteps
<1>6. g[n] = ApplyOne(g[n - 1], s[n])
  BY <1>1, <1>2
<1>. QED  BY <1>1, <1>2, <1>3, <1>5, <1>6 DEF t, u

\* What is committed is a checkout.
LEMMA CommittedIs ==
  ASSUME repository \in Repositories
  PROVE  repository.committed \in Checkouts
  BY LinksAre DEF Checkouts

\* What came of the first operations is a checkout, that of none the committed one.
LEMMA AfterTypes ==
  ASSUME repository \in Repositories, history.ops \in Seq(Operations),
         NEW n \in 0..Len(history.ops)
  PROVE  /\ AfterOf(repository, history.ops, n) \in Checkouts
         /\ AfterOf(repository, history.ops, 0) = repository.committed
<1>. DEFINE u == SubSeq(history.ops, 1, n)
<1>1. u \in Seq(Operations) /\ SubSeq(history.ops, 1, 0) = <<>>
  OBVIOUS
<1>. HIDE DEF u
<1>2. PICK g : /\ g[0] = repository.committed
               /\ \A i \in 1..Len(u) : g[i] = CarriedOut(g[i - 1], u[i])
               /\ Followed(repository.committed, u) = g[Len(u)]
  BY <1>1, CommittedIs, FollowTrace, Zenon
<1>. DEFINE S == {i \in 0..Len(u) : g[i] \in Checkouts}
<1>3. 0 \in S /\ Len(u) \in Nat
  BY <1>1, <1>2, CommittedIs
<1>4. ASSUME NEW i \in 1..Len(u), i - 1 \in S PROVE i \in S
  <2>1. g[i] = CarriedOut(g[i - 1], u[i]) /\ g[i - 1] \in Checkouts /\ u[i] \in Operations
    BY <1>1, <1>2, <1>4
  <2>. QED  BY <2>1, CarriedOutTypes
<1>. HIDE DEF S
<1>5. Len(u) \in S
  <2>1. 0..Len(u) \subseteq S
    BY <1>3, <1>4, InductTo
  <2>. QED  BY <1>3, <2>1
<1>6. g[Len(u)] \in Checkouts
  BY <1>5 DEF S
<1>7. Followed(repository.committed, <<>>) = repository.committed
  BY CommittedIs, FollowNone
<1>. QED  BY <1>1, <1>2, <1>6, <1>7 DEF AfterOf, u

\* One more operation is carried out.
LEMMA AfterMore ==
  ASSUME repository \in Repositories, history.ops \in Seq(Operations),
         NEW n \in 1..Len(history.ops)
  PROVE  /\ history.ops[n] \in Operations
         /\ AfterOf(repository, history.ops, n) =
              CarriedOut(AfterOf(repository, history.ops, n - 1), history.ops[n])
  BY CommittedIs, FollowMore, FirstOf DEF AfterOf

\* What came of the operations so far does not depend on those that follow.
LEMMA AfterStays ==
  ASSUME NEW r, NEW h \in Seq(Operations), NEW w \in Seq(Operations), NEW n \in 0..Len(h)
  PROVE  AfterOf(r, h \o w, n) = AfterOf(r, h, n)
<1>1. SubSeq(h \o w, 1, n) = SubSeq(h, 1, n)
  OBVIOUS
<1>. QED  BY <1>1 DEF AfterOf

\* An answer that is whole, or was stopped for a reason of the provider's, is the only
\* one that is taken (Answered, Replies).
LEMMA TakenIsWhole ==
  ASSUME NEW reply \in Replies
  PROVE  Answered(reply) <=> reply \subseteq {"stopped"}
<1>1. CASE client[1] = "openai"
  BY <1>1 DEF Replies, Flaws, Answered, OpenAIAnswers
<1>2. CASE client[1] # "openai"
  BY <1>2 DEF Replies, Flaws, Answered, AnthropicAnswers
<1>. QED  BY <1>1, <1>2

\* An operation that is let through leaves the protected paths alone, but for one that
\* a committed link leads to (resolvePath).
LEMMA AllowedGuards ==
  ASSUME repository \in Repositories, NEW t \in Checkouts, Guarded(t),
         NEW op \in Operations, Allowed(op), NEW new,
         \A p \in Paths : new[p] # t[p] => p \in {Clean[op.Path], FileAt(t, op.Path)}
  PROVE  Guarded(new)
<1>. SUFFICES ASSUME NEW p \in Protected, new[p] # repository.committed[p]
              PROVE  \E q \in Paths : repository.committed[q] = -p
  BY DEF Guarded
<1>1. p \in Paths /\ op.Path \in Paths
  <2>1. Protected \subseteq Paths
    BY AgentsAssumption, Zenon
  <2>. QED  BY <2>1 DEF Operations
<1>2. CASE new[p] = t[p]
  BY <1>2 DEF Guarded
<1>3. CASE new[p] # t[p]
  <2>1. p = FileAt(t, op.Path) /\ p # Clean[op.Path]
    BY <1>1, <1>3 DEF Allowed
  <2>2. Clean[op.Path] \in Paths /\ repository.committed[Clean[op.Path]] = -p
    BY <1>1, <2>1, FileIs
  <2>. QED  BY <2>2
<1>. QED  BY <1>2, <1>3

\* The files that an operation changes.
LEMMA CarriedOutChanges ==
  ASSUME NEW t \in Checkouts, NEW op \in Operations, NEW p \in Paths,
         CarriedOut(t, op)[p] # t[p]
  PROVE  p \in {Clean[op.Path], FileAt(t, op.Path)}
<1>1. op.Kind \in {"write", "append", "delete"} /\ t \in [Paths -> Int]
  BY DEF Operations, Checkouts
<1>. DEFINE f == FileAt(t, op.Path)
            new == CarriedOut(t, op)
<1>2. \/ new = [t EXCEPT ![f] = op.Size]
      \/ new = [t EXCEPT ![f] = @ + op.Size]
      \/ new = [t EXCEPT ![Clean[op.Path]] = 0]
  BY <1>1, CarriedOutIs
<1>. HIDE DEF f, new
<1>3. new[p] # t[p] => p \in {Clean[op.Path], f}
  BY <1>1, <1>2
<1>. QED  BY <1>3 DEF f, new

\* An operation that fails on the disk leaves one file other than it was (CutShort).
LEMMA CutShortIs ==
  ASSUME repository \in Repositories, NEW t \in Checkouts, NEW op \in Operations,
         NEW new \in CutShort(t, op)
  PROVE  /\ new \in Checkouts
         /\ \A p \in Paths : new[p] # t[p] => p = FileAt(t, op.Path)
<1>. DEFINE f == FileAt(t, op.Path)
<1>1. /\ op.Kind \in {"write", "append", "delete"} /\ op.Path \in Paths /\ op.Size \in Nat
      /\ t \in [Paths -> Int]
  BY BoundsAre DEF Operations, Checkouts
<1>2. f \in Paths /\ t[f] \in Nat
  BY <1>1, FileIs
<1>3. new = t \/ \E z \in Nat : new = [t EXCEPT ![f] = z]
  <2>. DEFINE sizes == CASE op.Kind = "write"  -> 0..op.Size
                         [] op.Kind = "append" -> t[f]..(t[f] + op.Size)
                         [] op.Kind = "delete" -> {}
  <2>1. new = t \/ \E z \in sizes : new = [t EXCEPT ![f] = z]
    BY DEF CutShort
  <2>. HIDE DEF f
  <2>2. sizes \subseteq Nat
    <3>1. 0..op.Size \subseteq Nat /\ t[f]..(t[f] + op.Size) \subseteq Nat
      BY <1>1, <1>2
    <3>. QED  BY <1>1, <3>1
  <2>. HIDE DEF sizes
  <2>. QED  BY <2>1, <2>2
<1>4. new \in Checkouts
  <2>. HIDE DEF f
  <2>. QED  BY <1>2, <1>3, CheckoutChanged
<1>5. \A p \in Paths : new[p] # t[p] => p = f
  <2>. HIDE DEF f
  <2>. QED  BY <1>1, <1>2, <1>3
<1>. QED  BY <1>4, <1>5

\* Before anything happens the tree is the committed one.
LEMMA InitTree == Init => TreeInv
<1>. SUFFICES ASSUME Init PROVE TreeInv
  OBVIOUS
<1>1. /\ pc = "boot" /\ repository \in Repositories /\ history.ops = <<>>
      /\ tree = repository.committed /\ made = FALSE
  BY DEF Init
<1>2. history.ops \in Seq(Operations) /\ Len(history.ops) = 0
  BY <1>1
<1>3. 0 \in 0..Len(history.ops)
  BY <1>2
<1>4. tree = AfterOf(repository, history.ops, Len(history.ops))
  BY <1>1, <1>2, <1>3, AfterTypes
<1>5. tree \in Checkouts /\ Guarded(tree)
  BY <1>1, CommittedIs DEF Guarded
<1>. QED  BY <1>1, <1>2, <1>4, <1>5 DEF TreeInv, Places

\* If the first n operations can be done, so can those before the last, and it is one
\* that is let through.
LEMMA OkMeans ==
  ASSUME TreeInv, pc = "apply", NEW n \in 1..Len(ops),
         Applied(n - 1) \in States, Applied(n).ok
  PROVE  Applied(n - 1).ok /\ Allowed(ops[n])
<1>. DEFINE at == Applied(n - 1)
            op == ops[n]
            start == [tree |-> tree, made |-> made, ok |-> Len(ops) <= MaxOpsPerAttempt]
<1>1. repository \in Repositories /\ ops \in Seq(Operations) /\ start \in States
  BY DEF TreeInv, States
<1>2. Applied(n) = ApplyOne(at, op) /\ op \in Operations
  <2>1. Made(start, SubSeq(ops, 1, n)) = ApplyOne(Made(start, SubSeq(ops, 1, n - 1)), ops[n])
    <3>. HIDE DEF start
    <3>. QED  BY <1>1, MadeMore
  <2>2. \A j : Applied(j) = Made(start, SubSeq(ops, 1, j))
    BY DEF Applied, Made
  <2>3. ops[n] \in Operations
    BY <1>1
  <2>. QED  BY <2>1, <2>2, <2>3
<1>. HIDE DEF at, op
<1>3. \/ ~at.ok /\ ApplyOne(at, op) = at
      \/ at.ok /\ ApplyOne(at, op) = [tree |-> at.tree, made |-> at.made, ok |-> FALSE]
      \/ at.ok /\ Allowed(op)
  <2>1. at \in States /\ op \in Operations
    BY <1>2 DEF at
  <2>. QED  BY <1>1, <2>1, ApplyOneIs, Zenon
<1>4. ApplyOne(at, op).ok
  BY <1>2
<1>5. at.ok /\ Allowed(op)
  <2>1. ~[tree |-> at.tree, made |-> at.made, ok |-> FALSE].ok
    OBVIOUS
  <2>. QED  BY <1>3, <1>4, <2>1, Zenon
<1>. QED  BY <1>5 DEF at, op

\* A call adds the operations of an answer that is taken to the history, and nothing
\* else (Heard, Answered).
LEMMA CallTells ==
  ASSUME TreeInv, NEW reply \in Replies, NEW wanted \in Seq(Operations), Heard(reply, wanted)
  PROVE  \/ Answered(reply) /\ history'.ops = history.ops \o wanted
         \/ ~Answered(reply) /\ history'.ops = history.ops
<1>1. history'.ops = IF reply \subseteq {"stopped"} THEN history.ops \o wanted ELSE history.ops
  BY DEF Heard
<1>. QED  BY <1>1, TakenIsWhole

\* The operations of an answer change the tree one after the other, as long as none is
\* refused (Apply, applyOne).
LEMMA ApplyCarriesOut ==
  ASSUME TreeInv, pc = "apply", NEW i \in 0..Len(ops)
  PROVE  /\ Applied(i) \in States
         /\ Applied(i).ok =>
              Applied(i).tree = AfterOf(repository, history.ops, Judged + i)
         /\ \E m \in 0..Len(history.ops) :
              Applied(i).tree = AfterOf(repository, history.ops, m)
         /\ Guarded(Applied(i).tree)
<1>. DEFINE k == Judged
            n == Len(ops)
            start == [tree |-> tree, made |-> made, ok |-> Len(ops) <= MaxOpsPerAttempt]
<1>1. /\ repository \in Repositories /\ history.ops \in Seq(Operations)
      /\ ops \in Seq(Operations) /\ made \in BOOLEAN /\ tree \in Checkouts
      /\ k \in 0..Len(history.ops) /\ n \in Nat /\ k + n = Len(history.ops)
      /\ \A j \in 1..n : history.ops[k + j] = ops[j]
      /\ tree = AfterOf(repository, history.ops, k) /\ Guarded(tree)
  BY DEF TreeInv, Judged
<1>2. start \in States
  BY <1>1 DEF States
<1>3. \A j : Applied(j) = Made(start, SubSeq(ops, 1, j))
  BY DEF Applied, Made
<1>. DEFINE Good(j) == /\ Applied(j) \in States
                       /\ Applied(j).ok =>
                            Applied(j).tree = AfterOf(repository, history.ops, k + j)
                       /\ \E m \in 0..Len(history.ops) :
                            Applied(j).tree = AfterOf(repository, history.ops, m)
                       /\ Guarded(Applied(j).tree)
            S == {j \in 0..n : Good(j)}
<1>4. Good(0)
  <2>1. Made(start, <<>>) = start
    <3>1. PICK g : /\ g[0] = start
                   /\ \A j \in 1..Len(<<>>) : g[j] = ApplyOne(g[j - 1], <<>>[j])
                   /\ Made(start, <<>>) = g[Len(<<>>)]
      <4>1. <<>> \in Seq(Operations)
        OBVIOUS
      <4>. QED  BY <1>1, <1>2, <4>1, ApplyTrace, Zenon
    <3>. QED  BY <3>1
  <2>2. SubSeq(ops, 1, 0) = <<>>
    BY <1>1
  <2>3. Applied(0) = start /\ start.tree = tree
    BY <1>3, <2>1, <2>2
  <2>4. k + 0 = k
    BY <1>1
  <2>. HIDE DEF start, k
  <2>. QED  BY <1>1, <1>2, <2>3, <2>4
<1>5. ASSUME NEW j \in 1..n, Good(j - 1) PROVE Good(j)
  <2>. DEFINE at == Applied(j - 1)
              op == ops[j]
              done == Applied(j)
              before == AfterOf(repository, history.ops, k + (j - 1))
  <2>1. done = ApplyOne(at, op)
    <3>1. Made(start, SubSeq(ops, 1, j)) = ApplyOne(Made(start, SubSeq(ops, 1, j - 1)), ops[j])
      <4>. HIDE DEF start
      <4>. QED  BY <1>1, <1>2, MadeMore
    <3>. QED  BY <1>3, <3>1
  <2>2. /\ op \in Operations
        /\ k + j \in 1..Len(history.ops) /\ (k + j) - 1 = k + (j - 1)
        /\ history.ops[k + j] = op
    <3>. HIDE DEF k
    <3>. QED  BY <1>1
  <2>3. /\ at \in States
        /\ at.ok => at.tree = before
        /\ \E m \in 0..Len(history.ops) : at.tree = AfterOf(repository, history.ops, m)
        /\ Guarded(at.tree)
    BY <1>5
  <2>4. AfterOf(repository, history.ops, k + j) = CarriedOut(before, op)
    BY <1>1, <2>2, AfterMore
  <2>5. done \in States /\ at.tree \in Checkouts
    BY <1>1, <2>1, <2>2, <2>3, ApplyOneTypes DEF States
  <2>6. \/ ~at.ok /\ done = at
        \/ at.ok /\ done = [tree |-> at.tree, made |-> at.made, ok |-> FALSE]
        \/ /\ at.ok /\ Allowed(op)
           /\ \E m \in BOOLEAN :
                done = [tree |-> CarriedOut(at.tree, op), made |-> m, ok |-> TRUE]
    <3>1. /\ repository \in Repositories /\ at \in States /\ op \in Operations
          /\ done = ApplyOne(at, op)
      BY <1>1, <2>1, <2>2, <2>3
    <3>. HIDE DEF at, op, done
    <3>2. \/ ~at.ok /\ ApplyOne(at, op) = at
          \/ at.ok /\ ApplyOne(at, op) = [tree |-> at.tree, made |-> at.made, ok |-> FALSE]
          \/ /\ at.ok /\ Allowed(op)
             /\ \E m \in BOOLEAN :
                  ApplyOne(at, op) = [tree |-> CarriedOut(at.tree, op), made |-> m, ok |-> TRUE]
      BY <3>1, ApplyOneIs, Zenon
    <3>. QED  BY <3>1, <3>2, Zenon
  <2>. HIDE DEF at, op, done, before, k
  <2>7. CASE done.tree = at.tree /\ ~done.ok
    <3>1. /\ Guarded(done.tree)
          /\ \E m \in 0..Len(history.ops) : done.tree = AfterOf(repository, history.ops, m)
      BY <2>3, <2>7
    <3>. QED  BY <2>5, <2>7, <3>1 DEF done
  <2>8. CASE at.ok /\ Allowed(op) /\ done.tree = CarriedOut(at.tree, op)
    <3>1. done.tree = AfterOf(repository, history.ops, k + j)
      BY <2>3, <2>4, <2>8
    <3>2. Guarded(done.tree)
      <4>1. \A p \in Paths : CarriedOut(at.tree, op)[p] # at.tree[p] =>
              p \in {Clean[op.Path], FileAt(at.tree, op.Path)}
        BY <2>2, <2>5, CarriedOutChanges
      <4>. QED  BY <1>1, <2>2, <2>3, <2>5, <2>8, <4>1, AllowedGuards
    <3>3. k + j \in 0..Len(history.ops)
      BY <2>2
    <3>. QED  BY <2>5, <3>1, <3>2, <3>3 DEF done
  <2>9. \/ done.tree = at.tree /\ ~done.ok
        \/ at.ok /\ Allowed(op) /\ done.tree = CarriedOut(at.tree, op)
    BY <2>6
  <2>. QED  BY <2>7, <2>8, <2>9
<1>. HIDE DEF Good
<1>6. 0 \in S /\ \A j \in 1..n : j - 1 \in S => j \in S
  BY <1>1, <1>4, <1>5
<1>. HIDE DEF S
<1>7. i \in S
  <2>1. n \in Nat
    BY <1>1
  <2>2. i \in 0..n
    OBVIOUS
  <2>. HIDE DEF n
  <2>3. 0..n \subseteq S
    BY <1>6, <2>1, InductTo
  <2>. QED  BY <2>2, <2>3
<1>8. Good(i)
  BY <1>7 DEF S
<1>. QED  BY <1>8 DEF Good

\* What a step says of the tree that only adds the operations w to the history.
LEMMA TreeStays ==
  ASSUME TreeInv, UNCHANGED <<repository, tree, made>>,
         NEW w \in Seq(Operations), history'.ops = history.ops \o w
  PROVE  /\ repository' \in Repositories /\ history'.ops \in Seq(Operations)
         /\ made' \in BOOLEAN /\ tree' \in Checkouts' /\ Guarded(tree)'
         /\ Len(history.ops) \in Nat /\ Len(history'.ops) = Len(history.ops) + Len(w)
         /\ \A i \in 1..Len(w) : history'.ops[Len(history.ops) + i] = w[i]
         /\ \A n \in 0..Len(history.ops) :
              AfterOf(repository', history'.ops, n) = AfterOf(repository, history.ops, n)
<1>1. history.ops \in Seq(Operations)
  BY DEF TreeInv
<1>2. \A n \in 0..Len(history.ops) :
        AfterOf(repository, history.ops \o w, n) = AfterOf(repository, history.ops, n)
  BY <1>1, AfterStays
<1>3. tree' \in Checkouts' /\ Guarded(tree)'
  BY DEF TreeInv, Checkouts, Guarded
<1>. QED  BY <1>1, <1>2, <1>3 DEF TreeInv

\* A step that touches neither history nor tree keeps the invariant, unless it goes
\* to the application of operations or comes from it or from a failure.
LEMMA QuietTree ==
  ASSUME TreeInv, UNCHANGED <<repository, tree, made>>, history'.ops = history.ops,
         pc' \in Places, pc \notin {"apply", "failed"}, pc' # "apply"
  PROVE  TreeInv'
<1>1. /\ history.ops \in Seq(Operations)
      /\ tree = AfterOf(repository, history.ops, Len(history.ops))
  BY DEF TreeInv
<1>2. Len(history.ops) \in 0..Len(history.ops)
  BY <1>1
<1>3. tree' \in Checkouts' /\ Guarded(tree)'
  BY DEF TreeInv, Checkouts, Guarded
<1>4. /\ repository' \in Repositories /\ history'.ops \in Seq(Operations) /\ made' \in BOOLEAN
      /\ tree' = AfterOf(repository', history'.ops, Len(history'.ops))
      /\ Len(history'.ops) \in 0..Len(history'.ops)
  BY <1>1, <1>2 DEF TreeInv
<1>5. Stopped(tree, Len(history.ops))'
  BY <1>4 DEF Stopped
<1>. QED  BY <1>3, <1>4, <1>5 DEF TreeInv

\* Each step keeps it: an answer adds its operations to the history and, unless it
\* has none or ended the attempt, to what is applied next.
LEMMA StepTree == TreeInv /\ [Next]_vars => TreeInv'
<1>. SUFFICES ASSUME TreeInv, [Next]_vars PROVE TreeInv'
  OBVIOUS
<1>. USE DEF bootVars, filesVars, treeVars, modelVars
<1>0. <<>> \in Seq(Operations) /\ \A s \in Seq(Operations) : s \o <<>> = s
  OBVIOUS
<1>h. history.ops \in Seq(Operations)
  BY DEF TreeInv
<1>1. CASE Start
  <2>1. /\ pc = "boot" /\ pc' \in {"exit", "verify", "select"}
        /\ UNCHANGED <<repository, tree, made, history>>
    BY <1>1, Zenon DEF Start
  <2>. QED  BY <2>1, QuietTree DEF Places
<1>2. CASE Select
  BY <1>2, QuietTree DEF Select, Places
<1>3. CASE Plan
  <2>1. PICK reply \in Replies : Heard(reply, <<>>)
    BY <1>3 DEF Plan
  <2>2. history'.ops = history.ops
    BY <1>0, <1>h, <2>1, CallTells
  <2>3. /\ pc = "plan" /\ pc' \in {"propose", "failed"}
        /\ UNCHANGED <<repository, tree, made>>
    BY <1>3 DEF Plan
  <2>. QED  BY <2>2, <2>3, QuietTree DEF Places
<1>4. CASE Propose
  <2>1. PICK reply \in Replies, proposal \in Proposals :
          /\ Heard(reply, proposal)
          /\ \/ Answered(reply) /\ proposal # <<>> /\ pc' = "apply" /\ ops' = proposal
             \/ ~(Answered(reply) /\ proposal # <<>>) /\ pc' = "failed"
    BY <1>4 DEF Propose
  <2>2. pc = "propose" /\ UNCHANGED <<repository, tree, made>>
    BY <1>4 DEF Propose
  <2>3. proposal \in Seq(Operations)
    BY AgentsAssumption, Zenon
  <2>4. \/ Answered(reply) /\ history'.ops = history.ops \o proposal
        \/ ~Answered(reply) /\ history'.ops = history.ops
    BY <2>1, <2>3, CallTells
  <2>5. CASE Answered(reply) /\ proposal # <<>>
    <3>1. /\ repository' \in Repositories /\ history'.ops \in Seq(Operations)
          /\ made' \in BOOLEAN /\ tree' \in Checkouts' /\ Guarded(tree)'
          /\ Len(history.ops) \in Nat /\ Len(history'.ops) = Len(history.ops) + Len(proposal)
          /\ \A i \in 1..Len(proposal) : history'.ops[Len(history.ops) + i] = proposal[i]
          /\ \A n \in 0..Len(history.ops) :
               AfterOf(repository', history'.ops, n) = AfterOf(repository, history.ops, n)
      BY <2>2, <2>3, <2>4, <2>5, TreeStays
    <3>2. pc' = "apply" /\ ops' = proposal
      BY <2>1, <2>5
    <3>3. Len(proposal) \in Nat
      BY <2>3
    <3>4. Judged' = Len(history.ops)
      BY <3>1, <3>2, <3>3 DEF Judged
    <3>5. tree' = AfterOf(repository', history'.ops, Len(history.ops))
      BY <2>2, <3>1 DEF TreeInv
    <3>. QED  BY <2>3, <3>1, <3>2, <3>3, <3>4, <3>5 DEF TreeInv, Places
  <2>6. CASE ~(Answered(reply) /\ proposal # <<>>)
    <3>1. history'.ops = history.ops
      BY <1>0, <1>h, <2>4, <2>6
    <3>. QED  BY <2>1, <2>2, <2>6, <3>1, QuietTree DEF Places
  <2>. QED  BY <2>5, <2>6
<1>5. CASE Apply
  <2>. DEFINE end == Applied(Len(ops))
  <2>1. /\ pc = "apply" /\ UNCHANGED <<repository, history>>
        /\ tree' = end.tree /\ made' = end.made
        /\ \/ end.ok /\ pc' = "verify"
           \/ ~end.ok /\ pc' = "failed"
    BY <1>5 DEF Apply
  <2>2. /\ end \in States
        /\ end.ok => end.tree = AfterOf(repository, history.ops, Judged + Len(ops))
        /\ \E m \in 0..Len(history.ops) : end.tree = AfterOf(repository, history.ops, m)
        /\ Guarded(end.tree)
    <3>1. Len(ops) \in 0..Len(ops)
      BY <2>1 DEF TreeInv
    <3>. QED  BY <2>1, <3>1, ApplyCarriesOut
  <2>3. Judged + Len(ops) = Len(history.ops)
    BY <2>1 DEF TreeInv, Judged
  <2>. HIDE DEF end
  <2>4. /\ repository' \in Repositories /\ history'.ops \in Seq(Operations)
        /\ made' \in BOOLEAN /\ tree' \in Checkouts' /\ Guarded(tree)'
    BY <2>1, <2>2 DEF TreeInv, States, Checkouts, Guarded
  <2>5. pc' = "verify" => tree' = AfterOf(repository', history'.ops, Len(history'.ops))
    BY <2>1, <2>2, <2>3
  <2>6. \E m \in 0..Len(history.ops)' : Stopped(tree, m)'
    <3>1. PICK m \in 0..Len(history.ops) : end.tree = AfterOf(repository, history.ops, m)
      BY <2>2
    <3>. QED  BY <2>1, <3>1 DEF Stopped
  <2>. QED  BY <2>1, <2>4, <2>5, <2>6 DEF TreeInv, Places
<1>5a. CASE FailToApply
  <2>1. /\ pc = "apply" /\ UNCHANGED <<repository, history>> /\ pc' = "failed"
    BY <1>5a DEF FailToApply
  <2>2. PICK n \in 1..Len(ops) :
          /\ Applied(n).ok
          /\ tree' \in CutShort(Applied(n - 1).tree, ops[n])
          /\ made' = Applied(n).made \/ made' = Applied(n - 1).made
    BY <1>5a DEF FailToApply
  <2>. DEFINE at == Applied(n - 1)
              op == ops[n]
  <2>0. PICK m : m = Judged + (n - 1)
    OBVIOUS
  <2>3. /\ ops \in Seq(Operations) /\ op \in Operations /\ n - 1 \in 0..Len(ops)
        /\ m \in 0..Len(history.ops) /\ m < Len(history.ops) /\ history.ops[m + 1] = op
    <3>1. /\ ops \in Seq(Operations) /\ Judged \in 0..Len(history.ops)
          /\ \A i \in 1..Len(ops) : history.ops[Judged + i] = ops[i]
          /\ Len(history.ops) \in Nat /\ Len(ops) \in Nat
          /\ Judged + Len(ops) = Len(history.ops)
      BY <2>1 DEF TreeInv, Judged
    <3>2. m + 1 = Judged + n
      BY <2>0, <3>1
    <3>. HIDE DEF Judged
    <3>. QED  BY <2>0, <3>1, <3>2
  <2>3a. /\ at \in States /\ Applied(n) \in States
         /\ at.ok => at.tree = AfterOf(repository, history.ops, m)
         /\ Guarded(at.tree)
    <3>1. n \in 0..Len(ops)
      BY <2>3
    <3>. QED  BY <2>0, <2>1, <2>3, <3>1, ApplyCarriesOut
  <2>3b. at.ok /\ Allowed(op)
    BY <2>1, <2>2, <2>3a, OkMeans
  <2>4. /\ at \in States /\ at.tree = AfterOf(repository, history.ops, m)
        /\ Guarded(at.tree)
    BY <2>3a, <2>3b
  <2>5. at.tree \in Checkouts /\ repository \in Repositories
    BY <2>4 DEF States, TreeInv
  <2>6. tree' \in CutShort(at.tree, op) /\ Allowed(op) /\ made' \in BOOLEAN
    <3>1. at.made \in BOOLEAN /\ Applied(n).made \in BOOLEAN
      BY <2>3a DEF States
    <3>. QED  BY <2>2, <2>3b, <3>1
  <2>. HIDE DEF at, op
  <2>7. /\ tree' \in Checkouts
        /\ \A p \in Paths : tree'[p] # at.tree[p] => p = FileAt(at.tree, op.Path)
    BY <2>3, <2>5, <2>6, CutShortIs
  <2>8. Guarded(tree')
    BY <2>3, <2>4, <2>5, <2>6, <2>7, AllowedGuards
  <2>9. tree' \in Checkouts' /\ Guarded(tree)'
    BY <2>1, <2>7, <2>8 DEF Checkouts, Guarded
  <2>10. Stopped(tree, m)'
    <3>1. Stopped(tree', m)
      BY <2>3, <2>4, <2>7 DEF Stopped
    <3>. QED  BY <2>1, <3>1 DEF Stopped
  <2>11. repository' \in Repositories /\ history'.ops \in Seq(Operations)
    BY <2>1 DEF TreeInv
  <2>12. \E j \in 0..Len(history'.ops) : Stopped(tree, j)'
    BY <2>1, <2>3, <2>10
  <2>. QED  BY <2>1, <2>6, <2>9, <2>11, <2>12 DEF TreeInv, Places
<1>6. CASE Verify
  BY <1>6, QuietTree DEF Verify, Revise, Places
<1>7. CASE Unreviewed
  BY <1>7, QuietTree DEF Unreviewed, Places
<1>8. CASE Review
  <2>1. PICK reply \in Replies : Heard(reply, <<>>)
    BY <1>8 DEF Review
  <2>2. history'.ops = history.ops
    BY <1>0, <1>h, <2>1, CallTells
  <2>3. /\ pc = "review" /\ pc' \in {"approved", "failed", "propose"}
        /\ UNCHANGED <<repository, tree, made>>
    BY <1>8 DEF Review, Revise
  <2>. QED  BY <2>2, <2>3, QuietTree DEF Places
<1>9. CASE UNCHANGED vars
  BY <1>9 DEF vars, TreeInv, Judged, Checkouts, Guarded, Stopped
<1>. QED  BY <1>1, <1>2, <1>3, <1>4, <1>5, <1>5a, <1>6, <1>7, <1>8, <1>9 DEF Next

\* The tree invariant holds of every behaviour.
LEMMA TreeInvHolds == Spec => []TreeInv
  BY InitTree, StepTree, PTL DEF Spec

\* For any operations that models propose, over any revisions: what a gate or a
\* reviewer judges is the committed tree with the operations of every whole answer
\* carried out, and of those with text that the provider stopped; a failed attempt
\* leaves a prefix of them but for the file it failed at, and no protected path is
\* changed that no committed link leads to (implementor.go's Propose and Apply,
\* resolvePath, the model clients).
THEOREM TreesAreAnswered == Spec => []TreeIsAnswered
<1>1. TreeInv => TreeIsAnswered
  <2>. SUFFICES ASSUME TreeInv PROVE TreeIsAnswered
    OBVIOUS
  <2>1. \A n : After(n) = AfterOf(repository, history.ops, n)
    BY DEF After, AfterOf, Followed
  <2>2. Len(history.ops) \in 0..Len(history.ops)
    BY DEF TreeInv
  <2>3. CASE pc = "failed"
    <3>1. PICK n \in 0..Len(history.ops) : Stopped(tree, n)
      BY <2>3 DEF TreeInv
    <3>2. \A p \in Paths : tree[p] # After(n)[p] =>
            n < Len(history.ops) /\ p = FileAt(After(n), history.ops[n + 1].Path)
      BY <2>1, <3>1 DEF Stopped
    <3>. QED  BY <2>3, <3>2 DEF TreeIsAnswered, TreeInv, Guarded
  <2>4. CASE pc # "failed"
    <3>1. PICK n \in 0..Len(history.ops) :
            /\ tree = AfterOf(repository, history.ops, n)
            /\ pc # "apply" => n = Len(history.ops)
      BY <2>2, <2>4 DEF TreeInv
    <3>2. tree = After(n)
      BY <2>1, <3>1
    <3>. QED  BY <2>4, <3>1, <3>2 DEF TreeIsAnswered, TreeInv, Guarded
  <2>. QED  BY <2>3, <2>4
<1>. QED  BY <1>1, TreeInvHolds, PTL
-----------------------------------------------------------------------------
(* Files: what is selected, merged and read. *)

\* What is known of the repository that a job works on (AgentsAssumption).
LEMMA RepositoryIs ==
  ASSUME repository \in Repositories
  PROVE  /\ Tracked \in Nat /\ 1..Tracked \subseteq Paths
         /\ repository.named \in [1..Tracked -> Nat]
         /\ repository.grepped \in [1..Tracked -> Nat]
<1>1. Tracked \in Nat /\ 1..Tracked \subseteq Paths
  BY AgentsAssumption, Zenon
<1>2. {repository.named, repository.grepped} \subseteq [1..Tracked -> Nat]
  BY AgentsAssumption, Zenon
<1>. QED  BY <1>1, <1>2, Zenon

\* Better is a strict total order of the files with a signal (the less function of
\* Select's sort).
LEMMA BetterIsAnOrder ==
  ASSUME repository \in Repositories,
         NEW f \in Candidates, NEW g \in Candidates, NEW h \in Candidates
  PROVE  /\ ~Better(f, f)
         /\ Better(f, g) /\ Better(g, h) => Better(f, h)
         /\ f # g => Better(f, g) \/ Better(g, f)
<1>1. \A x \in Candidates : x \in Nat /\ Score(x) \in Nat
  <2>. SUFFICES ASSUME NEW x \in Candidates PROVE x \in Nat /\ Score(x) \in Nat
    OBVIOUS
  <2>1. x \in 1..Tracked
    BY DEF Candidates
  <2>2. repository.named[x] \in Nat /\ repository.grepped[x] \in Nat /\ x \in Nat
    BY <2>1, RepositoryIs
  <2>3. (IF x \in repository.manifest THEN 1 ELSE 0) \in Nat
    OBVIOUS
  <2>. QED  BY <2>2, <2>3 DEF Score
<1>. QED  BY <1>1 DEF Better

\* Each file with a signal has a place of its own, from the first to the last.
LEMMA PlacesAreTaken ==
  ASSUME repository \in Repositories
  PROVE  /\ Cardinality(Candidates) \in Nat
         /\ \A i \in 1..Cardinality(Candidates) : \E f \in Candidates : Position(f) = i
<1>. DEFINE n == Cardinality(Candidates)
            ahead(f) == {g \in Candidates : Better(g, f)}
            place == [f \in Candidates |-> Position(f)]
<1>1. IsFiniteSet(Candidates) /\ n \in Nat
  <2>1. Tracked \in Int /\ 1 \in Int
    BY RepositoryIs
  <2>2. IsFiniteSet(1..Tracked)
    BY <2>1, FS_Interval
  <2>3. Candidates \in SUBSET (1..Tracked)
    BY DEF Candidates
  <2>4. IsFiniteSet(Candidates)
    BY <2>2, <2>3, FS_Subset
  <2>. QED  BY <2>4, FS_CardinalityType
<1>2. ASSUME NEW f \in Candidates
      PROVE  /\ IsFiniteSet(ahead(f)) /\ Cardinality(ahead(f)) \in Nat
             /\ Cardinality(ahead(f)) < n
             /\ Position(f) = 1 + Cardinality(ahead(f))
  <2>1. ahead(f) \in SUBSET Candidates /\ f \notin ahead(f)
    BY BetterIsAnOrder
  <2>. HIDE DEF ahead
  <2>2. /\ IsFiniteSet(ahead(f)) /\ Cardinality(ahead(f)) <= n
        /\ n = Cardinality(ahead(f)) => Candidates = ahead(f)
    BY <1>1, <2>1, FS_Subset
  <2>3. Cardinality(ahead(f)) \in Nat
    BY <2>2, FS_CardinalityType
  <2>4. Position(f) = 1 + Cardinality(ahead(f))
    BY DEF Position, ahead
  <2>. QED  BY <1>1, <2>1, <2>2, <2>3, <2>4
<1>3. ASSUME NEW f \in Candidates, NEW g \in Candidates, Better(f, g)
      PROVE  Position(f) # Position(g)
  <2>1. ahead(f) \in SUBSET ahead(g) /\ f \in ahead(g) /\ f \notin ahead(f)
    BY <1>3, BetterIsAnOrder
  <2>. HIDE DEF ahead
  <2>2. Cardinality(ahead(g)) # Cardinality(ahead(f))
    BY <1>2, <2>1, FS_Subset
  <2>. QED  BY <1>2, <2>2
<1>4. place \in Injection(Candidates, 1..n)
  <2>1. ASSUME NEW f \in Candidates PROVE Position(f) \in 1..n
    <3>. HIDE DEF n, ahead
    <3>. QED  BY <1>1, <1>2
  <2>2. \A f, g \in Candidates : Position(f) = Position(g) => f = g
    BY <1>3, BetterIsAnOrder
  <2>. QED  BY <2>1, <2>2 DEF Injection, IsInjective
<1>5. IsFiniteSet(1..n) /\ Cardinality(1..n) = n
  BY <1>1, FS_Interval
<1>6. place \in Surjection(Candidates, 1..n)
  <2>. HIDE DEF place
  <2>1. Cardinality(Candidates) = Cardinality(1..n)
    BY <1>5
  <2>. QED  BY <1>4, <1>5, <2>1, FS_Injection
<1>. QED  BY <1>1, <1>6 DEF Surjection

\* The selection is a list of paths (Select).
LEMMA RankedTypes ==
  ASSUME repository \in Repositories
  PROVE  Ranked \in Seq(Paths)
<1>. DEFINE n == IF Cardinality(Candidates) > DefaultMaxFiles
                   THEN DefaultMaxFiles ELSE Cardinality(Candidates)
<1>1. Cardinality(Candidates) \in Nat /\ n \in Nat /\ n <= Cardinality(Candidates)
  BY PlacesAreTaken, BoundsAre
<1>2. ASSUME NEW i \in 1..n PROVE (CHOOSE f \in Candidates : Position(f) = i) \in Paths
  <2>1. i \in 1..Cardinality(Candidates)
    BY <1>1
  <2>2. (CHOOSE f \in Candidates : Position(f) = i) \in Candidates
    BY <2>1, PlacesAreTaken
  <2>3. Candidates \subseteq Paths
    BY RepositoryIs DEF Candidates
  <2>. QED  BY <2>2, <2>3
<1>. HIDE DEF n
<1>3. [i \in 1..n |-> CHOOSE f \in Candidates : Position(f) = i] \in Seq(Paths)
  BY <1>1, <1>2
<1>. QED  BY <1>3 DEF Ranked, n

\* What a list has after something is appended to it.
LEMMA AppendIs ==
  ASSUME NEW q \in Seq(Paths), NEW e \in Paths
  PROVE  /\ Append(q, e) \in Seq(Paths) /\ Len(Append(q, e)) = Len(q) + 1 /\ Len(q) \in Nat
         /\ \A j \in 1..Len(q) : Append(q, e)[j] = q[j]
         /\ Append(q, e)[Len(q) + 1] = e
         /\ \A x : x \in ToSet(Append(q, e)) <=> x \in ToSet(q) \/ x = e
<1>. DEFINE r == Append(q, e)
<1>1. /\ r \in Seq(Paths) /\ Len(r) = Len(q) + 1 /\ Len(q) \in Nat
      /\ DOMAIN r = 1..(Len(q) + 1) /\ DOMAIN q = 1..Len(q)
      /\ \A j \in 1..Len(q) : r[j] = q[j]
      /\ r[Len(q) + 1] = e
  OBVIOUS
<1>. HIDE DEF r
<1>2. \A j \in DOMAIN r : j \in DOMAIN q \/ j = Len(q) + 1
  BY <1>1
<1>3. (\A j \in DOMAIN q : j \in DOMAIN r) /\ Len(q) + 1 \in DOMAIN r
  BY <1>1
<1>4. ASSUME NEW x, x \in ToSet(r) PROVE x \in ToSet(q) \/ x = e
  BY <1>1, <1>2, <1>4 DEF ToSet
<1>5. ASSUME NEW x, x \in ToSet(q) PROVE x \in ToSet(r)
  BY <1>1, <1>3, <1>5 DEF ToSet
<1>6. e \in ToSet(r)
  BY <1>1, <1>3 DEF ToSet
<1>. QED  BY <1>1, <1>4, <1>5, <1>6 DEF r

\* There are n numbers from 1 to n.
LEMMA UpToHas ==
  ASSUME NEW n \in Nat
  PROVE  IsFiniteSet(1..n) /\ Cardinality(1..n) = n
<1>1. 1 \in Int /\ n \in Int
  OBVIOUS
<1>2. IsFiniteSet(1..n) /\ Cardinality(1..n) = IF 1 > n THEN 0 ELSE n - 1 + 1
  BY <1>1, FS_Interval, Zenon
<1>. QED  BY <1>2

\* One share more.
LEMMA OneShareMore ==
  ASSUME NEW k \in Nat, NEW q \in Nat
  PROVE  k * q \in Nat /\ (k + 1) * q = k * q + q
<1>1. k * q \in Nat
  OBVIOUS
<1>2. (k + 1) * q = k * q + q
  OBVIOUS
<1>. QED  BY <1>1, <1>2

\* A number has room for n shares of it.
LEMMA SharesFit ==
  ASSUME NEW a \in Nat, NEW n \in Nat, n > 0
  PROVE  a \div n \in Nat /\ n * (a \div n) <= a
<1>1. a \div n \in Nat
  OBVIOUS
<1>2. n * (a \div n) <= a
  OBVIOUS
<1>. QED  BY <1>1, <1>2

\* A merge has the paths of both lists, each of them once (mergePaths).
LEMMA MergeIs ==
  ASSUME NEW a \in Seq(Paths), NEW b \in Seq(Paths), NEW m, m = MergePaths(a, b)
  PROVE  /\ m \in Seq(Paths)
         /\ ToSet(m) = ToSet(a) \cup ToSet(b)
         /\ Len(m) = Cardinality(ToSet(m)) /\ IsFiniteSet(ToSet(m))
<1>1. PICK s, g : /\ s = a \o b /\ g[0] = <<>>
                  /\ \A i \in 1..Len(s) : g[i] = MergeStep(g[i - 1], s[i])
                  /\ MergePaths(a, b) = g[Len(s)]
  BY MergeTrace, Zenon
<1>. DEFINE n == Len(s)
<1>0. /\ s \in Seq(Paths) /\ n \in Nat /\ Len(a) \in Nat /\ n = Len(a) + Len(b)
      /\ DOMAIN a = 1..Len(a) /\ DOMAIN b = 1..Len(b) /\ Len(b) \in Nat
      /\ \A j \in 1..Len(a) : s[j] = a[j]
      /\ \A j \in 1..Len(b) : s[Len(a) + j] = b[j]
  BY <1>1
<1>. DEFINE Good(i) == /\ g[i] \in Seq(Paths)
                       /\ \A x : x \in ToSet(g[i]) <=> \E j \in 1..i : x = s[j]
                       /\ \A j, k \in 1..Len(g[i]) : g[i][j] = g[i][k] => j = k
            S == {i \in 0..n : Good(i)}
<1>2. Good(0)
  BY <1>1 DEF ToSet
<1>3. ASSUME NEW i \in 1..n, Good(i - 1) PROVE Good(i)
  <2>. DEFINE old == g[i - 1]
  <2>1. g[i] = MergeStep(old, s[i]) /\ s[i] \in Paths
    BY <1>0, <1>1
  <2>2. /\ old \in Seq(Paths)
        /\ \A x : x \in ToSet(old) <=> \E j \in 1..(i - 1) : x = s[j]
        /\ \A j, k \in 1..Len(old) : old[j] = old[k] => j = k
    BY <1>3
  <2>3. \A x : (\E j \in 1..i : x = s[j]) <=> (\E j \in 1..(i - 1) : x = s[j]) \/ x = s[i]
    OBVIOUS
  <2>. HIDE DEF old
  <2>4. CASE s[i] \in ToSet(old)
    <3>1. g[i] = old
      BY <2>1, <2>4 DEF MergeStep
    <3>2. \A x : x \in ToSet(g[i]) <=> \E j \in 1..i : x = s[j]
      BY <2>2, <2>3, <2>4, <3>1, Zenon
    <3>. QED  BY <2>2, <3>1, <3>2
  <2>5. CASE s[i] \notin ToSet(old)
    <3>1. g[i] = Append(old, s[i])
      BY <2>1, <2>5 DEF MergeStep
    <3>2. /\ g[i] \in Seq(Paths) /\ Len(g[i]) = Len(old) + 1 /\ Len(old) \in Nat
          /\ \A j \in 1..Len(old) : g[i][j] = old[j]
          /\ g[i][Len(old) + 1] = s[i]
          /\ \A x : x \in ToSet(g[i]) <=> x \in ToSet(old) \/ x = s[i]
      BY <2>1, <2>2, <3>1, AppendIs
    <3>4. \A x : x \in ToSet(g[i]) <=> \E j \in 1..i : x = s[j]
      BY <2>2, <2>3, <3>2, Zenon
    <3>5. \A j \in 1..Len(old) : old[j] # s[i]
      BY <2>2, <2>5 DEF ToSet
    <3>6. \A j, k \in 1..Len(g[i]) : g[i][j] = g[i][k] => j = k
      <4>. SUFFICES ASSUME NEW j \in 1..Len(g[i]), NEW k \in 1..Len(g[i]), g[i][j] = g[i][k]
                    PROVE  j = k
        OBVIOUS
      <4>1. /\ j \in 1..Len(old) \/ j = Len(old) + 1
            /\ k \in 1..Len(old) \/ k = Len(old) + 1
        BY <3>2
      <4>2. CASE j \in 1..Len(old) /\ k \in 1..Len(old)
        BY <2>2, <3>2, <4>2, Zenon
      <4>3. CASE j = Len(old) + 1 /\ k \in 1..Len(old)
        BY <3>2, <3>5, <4>3, Zenon
      <4>4. CASE j \in 1..Len(old) /\ k = Len(old) + 1
        BY <3>2, <3>5, <4>4, Zenon
      <4>. QED  BY <4>1, <4>2, <4>3, <4>4
    <3>. QED  BY <3>2, <3>4, <3>6
  <2>. QED  BY <2>4, <2>5
<1>. HIDE DEF Good
<1>4. 0 \in S /\ \A i \in 1..n : i - 1 \in S => i \in S
  BY <1>0, <1>2, <1>3
<1>. HIDE DEF S
<1>5. n \in S
  <2>. HIDE DEF n
  <2>1. 0..n \subseteq S
    BY <1>0, <1>4, InductTo
  <2>. QED  BY <1>0, <2>1
<1>6. Good(n)
  BY <1>5 DEF S
<1>7. /\ m \in Seq(Paths)
      /\ \A x : x \in ToSet(m) <=> \E j \in 1..n : x = s[j]
      /\ \A j, k \in 1..Len(m) : m[j] = m[k] => j = k
  BY <1>1, <1>6 DEF Good
<1>8. ToSet(m) = ToSet(a) \cup ToSet(b)
  <2>1. \A x : (\E j \in 1..n : x = s[j]) <=> x \in ToSet(a) \/ x \in ToSet(b)
    <3>. SUFFICES ASSUME NEW x
                  PROVE  (\E j \in 1..n : x = s[j]) <=> x \in ToSet(a) \/ x \in ToSet(b)
      OBVIOUS
    <3>1. ASSUME NEW j \in 1..n, x = s[j] PROVE x \in ToSet(a) \/ x \in ToSet(b)
      <4>1. CASE j <= Len(a)
        <5>1. j \in DOMAIN a /\ x = a[j]
          BY <1>0, <3>1, <4>1
        <5>. QED  BY <5>1 DEF ToSet
      <4>2. CASE ~(j <= Len(a))
        <5>1. PICK l : l = j - Len(a)
          OBVIOUS
        <5>2. l \in 1..Len(b) /\ j = Len(a) + l
          <6>. HIDE DEF n
          <6>. QED  BY <1>0, <3>1, <4>2, <5>1
        <5>3. l \in DOMAIN b /\ x = b[l]
          BY <1>0, <3>1, <5>2
        <5>. QED  BY <5>3 DEF ToSet
      <4>. QED  BY <4>1, <4>2
    <3>2. ASSUME NEW j \in DOMAIN a, x = a[j] PROVE \E l \in 1..n : x = s[l]
      <4>1. j \in 1..n /\ x = s[j]
        BY <3>2, <1>0
      <4>. QED  BY <4>1
    <3>3. ASSUME NEW j \in DOMAIN b, x = b[j] PROVE \E l \in 1..n : x = s[l]
      <4>1. Len(a) + j \in 1..n /\ x = s[Len(a) + j]
        BY <3>3, <1>0
      <4>. QED  BY <4>1
    <3>. HIDE DEF n
    <3>. QED  BY <3>1, <3>2, <3>3 DEF ToSet
  <2>. HIDE DEF n
  <2>. QED  BY <1>7, <2>1
<1>9. Len(m) = Cardinality(ToSet(m)) /\ IsFiniteSet(ToSet(m))
  <2>1. m \in Bijection(1..Len(m), ToSet(m))
    <3>1. m \in [1..Len(m) -> ToSet(m)] /\ \A x \in ToSet(m) : \E j \in 1..Len(m) : m[j] = x
      BY <1>7 DEF ToSet
    <3>. QED  BY <1>7, <3>1 DEF Bijection, Injection, Surjection, IsInjective
  <2>2. IsFiniteSet(1..Len(m)) /\ Cardinality(1..Len(m)) = Len(m)
    <3>1. Len(m) \in Nat
      BY <1>7
    <3>. QED  BY <3>1, UpToHas
  <2>. QED  BY <2>1, <2>2, FS_Bijection DEF ExistsBijection
<1>. QED  BY <1>7, <1>8, <1>9

\* A file that a request may show.
Legible(p) == p \notin Dotted /\ SizeAt(tree, p) \in 1..MaxSourceFileBytes

\* A request has paths of the list it reads, and all of those that are there, not too
\* large and named without dots, if the bounds leave room for each (readSources).
LEMMA ReadIs ==
  ASSUME repository \in Repositories, tree \in Checkouts, NEW s \in Seq(Paths)
  PROVE  /\ ReadSources(s) \in Seq(Paths)
         /\ /\ Len(s) <= DefaultMaxFiles
            /\ \A i \in 1..Len(s) : SizeAt(tree, s[i]) <= MaxSourceTotalByte \div Len(s)
            => \A i \in 1..Len(s) :
                 Legible(s[i]) => s[i] \in ToSet(ReadSources(s))
<1>. DEFINE n == Len(s)
            q == MaxSourceTotalByte \div n
            Fits == n > 0 /\ n <= DefaultMaxFiles /\ \A i \in 1..n : SizeAt(tree, s[i]) <= q
<1>0. n \in Nat
  OBVIOUS
<1>1. PICK g : /\ g[0] = [out |-> <<>>, total |-> 0]
               /\ \A i \in 1..Len(s) : g[i] = ReadStep(g[i - 1], s[i])
               /\ ReadSources(s) = g[Len(s)].out
  BY ReadTrace, Zenon
<1>. DEFINE Good(i) == /\ g[i] \in [out : Seq(Paths), total : Nat]
                       /\ Fits => /\ Len(g[i].out) <= i
                                  /\ g[i].total + (n - i) * q <= MaxSourceTotalByte
                                  /\ \A j \in 1..i : Legible(s[j]) =>
                                       s[j] \in ToSet(g[i].out)
            S == {i \in 0..n : Good(i)}
<1>2. n > 0 => q \in Nat /\ n * q <= MaxSourceTotalByte
  <2>. HIDE DEF n
  <2>. QED  BY <1>0, BoundsAre, SharesFit
<1>3. Good(0)
  <2>1. g[0] \in [out : Seq(Paths), total : Nat] /\ g[0].out = <<>> /\ g[0].total = 0
    BY <1>1
  <2>2. n > 0 => (n - 0) * q = n * q
    BY <1>0
  <2>3. Fits => n > 0
    OBVIOUS
  <2>. HIDE DEF n, q, Fits
  <2>. QED  BY <1>0, <1>2, <2>1, <2>2, <2>3, BoundsAre
<1>4. ASSUME NEW i \in 1..n, Good(i - 1) PROVE Good(i)
  <2>. DEFINE old == g[i - 1]
              p == s[i]
              rest == (n - i) * q
              more == (n - (i - 1)) * q
  <2>1. g[i] = ReadStep(old, p) /\ p \in Paths /\ SizeAt(tree, p) \in Nat
    BY <1>0, <1>1, FileIs
  <2>2. /\ old.out \in Seq(Paths) /\ Len(old.out) \in Nat /\ old.total \in Nat
        /\ old = [out |-> old.out, total |-> old.total]
    BY <1>4
  <2>3. /\ n > 0 /\ i \in Nat /\ i - 1 < n /\ n - i \in Nat /\ (n - (i - 1)) = (n - i) + 1
        /\ q \in Nat
    <3>. HIDE DEF n, q
    <3>. QED  BY <1>0, <1>2
  <2>4. rest \in Nat /\ more = rest + q
    <3>1. PICK k : k = n - i
      OBVIOUS
    <3>2. k * q \in Nat /\ (k + 1) * q = k * q + q
      <4>. HIDE DEF n, q
      <4>1. k \in Nat /\ q \in Nat
        BY <2>3, <3>1
      <4>. QED  BY <4>1, OneShareMore
    <3>. HIDE DEF n, q
    <3>. QED  BY <2>3, <3>1, <3>2
  <2>5. Fits => /\ Len(old.out) < DefaultMaxFiles /\ Len(old.out) <= i - 1
                /\ old.total + rest + q <= MaxSourceTotalByte
                /\ \A j \in 1..(i - 1) : Legible(s[j]) =>
                     s[j] \in ToSet(old.out)
                /\ SizeAt(tree, p) <= q
    <3>1. Fits => /\ Len(old.out) <= i - 1
                  /\ old.total + more <= MaxSourceTotalByte
                  /\ \A j \in 1..(i - 1) : Legible(s[j]) =>
                       s[j] \in ToSet(old.out)
      <4>. HIDE DEF n, q, Fits
      <4>. QED  BY <1>4
    <3>2. Fits => SizeAt(tree, p) <= q /\ n <= DefaultMaxFiles
      <4>. HIDE DEF n, q
      <4>. QED  OBVIOUS
    <3>. HIDE DEF n, q, rest, more, old, p, Fits
    <3>3. Len(old.out) \in Nat /\ old.total \in Nat /\ i \in Nat /\ i - 1 < n /\ q \in Nat
      BY <2>2, <2>3
    <3>4. DefaultMaxFiles \in Nat /\ MaxSourceTotalByte \in Nat
      BY BoundsAre
    <3>5. Fits => Len(old.out) < DefaultMaxFiles
      BY <1>0, <3>1, <3>2, <3>3, <3>4
    <3>6. Fits => old.total + rest + q <= MaxSourceTotalByte
      BY <2>4, <3>1, <3>3, <3>4
    <3>. QED  BY <3>1, <3>2, <3>5, <3>6
  <2>6. CASE g[i] = old /\ (Fits => ~Legible(p))
    <3>1. Fits => /\ Len(g[i].out) <= i
                  /\ g[i].total + rest <= MaxSourceTotalByte
                  /\ \A j \in 1..i : Legible(s[j]) =>
                       s[j] \in ToSet(g[i].out)
      <4>1. \A j \in 1..i : j \in 1..(i - 1) \/ j = i
        OBVIOUS
      <4>. HIDE DEF n, q, rest, more, old, Fits
      <4>2. Fits => Len(old.out) <= i
        BY <2>2, <2>3, <2>5
      <4>3. Fits => old.total + rest <= MaxSourceTotalByte
        BY <2>2, <2>3, <2>4, <2>5, BoundsAre
      <4>4. Fits => \A j \in 1..i : Legible(s[j]) =>
                      s[j] \in ToSet(old.out)
        BY <2>5, <2>6, <4>1
      <4>. QED  BY <2>6, <4>2, <4>3, <4>4
    <3>. QED  BY <2>6, <3>1, <1>4
  <2>7. CASE g[i] = [out |-> Append(old.out, p), total |-> old.total + SizeAt(tree, p)]
    <3>. HIDE DEF n, q, rest, more, old, p, Fits
    <3>1. /\ g[i].out = Append(old.out, p) /\ g[i].total = old.total + SizeAt(tree, p)
          /\ g[i].total \in Nat
      BY <2>1, <2>2, <2>7
    <3>2. /\ g[i].out \in Seq(Paths) /\ Len(g[i].out) = Len(old.out) + 1
          /\ \A x : x \in ToSet(g[i].out) <=> x \in ToSet(old.out) \/ x = p
      BY <2>1, <2>2, <3>1, AppendIs
    <3>3. Fits => /\ Len(g[i].out) <= i
                  /\ g[i].total + rest <= MaxSourceTotalByte
                  /\ \A j \in 1..i : Legible(s[j]) =>
                       s[j] \in ToSet(g[i].out)
      <4>1. \A j \in 1..i : j \in 1..(i - 1) \/ s[j] = p
        BY <1>0 DEF p
      <4>2. Fits => Len(g[i].out) <= i
        BY <2>2, <2>3, <2>5, <3>2
      <4>3. Fits => g[i].total + rest <= MaxSourceTotalByte
        <5>1. /\ old.total \in Nat /\ SizeAt(tree, p) \in Nat /\ q \in Nat /\ rest \in Nat
              /\ MaxSourceTotalByte \in Nat
          BY <2>1, <2>2, <2>3, <2>4, BoundsAre
        <5>2. Fits => old.total + rest + q <= MaxSourceTotalByte /\ SizeAt(tree, p) <= q
          BY <2>5
        <5>. QED  BY <3>1, <5>1, <5>2
      <4>4. Fits => \A j \in 1..i : Legible(s[j]) =>
                      s[j] \in ToSet(g[i].out)
        BY <2>5, <3>2, <4>1
      <4>. QED  BY <4>2, <4>3, <4>4
    <3>4. g[i] \in [out : Seq(Paths), total : Nat]
      BY <2>7, <3>1, <3>2
    <3>. QED  BY <3>3, <3>4 DEF rest
  <2>8. Fits => ~(Len(old.out) >= DefaultMaxFiles)
    <3>. HIDE DEF old, Fits, q, rest
    <3>. QED  BY <2>2, <2>5, BoundsAre
  <2>9. Fits /\ Legible(p) => ~(old.total >= MaxSourceTotalByte)
    <3>. HIDE DEF old, p, Fits, n, q, rest, more
    <3>1. /\ old.total \in Nat /\ SizeAt(tree, p) \in Nat /\ q \in Nat /\ rest \in Nat
          /\ MaxSourceTotalByte \in Nat /\ MaxSourceFileBytes \in Nat
      BY <2>1, <2>2, <2>3, <2>4, BoundsAre
    <3>2. Fits => old.total + rest + q <= MaxSourceTotalByte /\ SizeAt(tree, p) <= q
      BY <2>5
    <3>. QED  BY <3>1, <3>2 DEF Legible
  <2>10. \/ g[i] = old /\ (Fits /\ Legible(p) =>
                            \/ Len(old.out) >= DefaultMaxFiles
                            \/ old.total >= MaxSourceTotalByte)
         \/ g[i] = [out |-> Append(old.out, p), total |-> old.total + SizeAt(tree, p)]
    <3>. HIDE DEF old, p, Fits
    <3>. QED  BY <2>1 DEF ReadStep, Legible
  <2>. HIDE DEF old, p, Fits, Good
  <2>. QED  BY <2>1, <2>6, <2>7, <2>8, <2>9, <2>10
<1>. HIDE DEF Good
<1>5. 0 \in S /\ \A i \in 1..n : i - 1 \in S => i \in S
  BY <1>0, <1>3, <1>4
<1>. HIDE DEF S
<1>6. n \in S
  <2>. HIDE DEF n
  <2>1. 0..n \subseteq S
    BY <1>0, <1>5, InductTo
  <2>. QED  BY <1>0, <2>1
<1>7. Good(n)
  BY <1>6 DEF S
<1>. QED  BY <1>1, <1>7 DEF Good
-----------------------------------------------------------------------------
(* What a revision is shown. *)

\* What a request reads of a list when the checkout is t.
ReadOf(t, paths) ==
  FoldLeft(LAMBDA read, p :
             IF \/ Len(read.out) >= DefaultMaxFiles \/ read.total >= MaxSourceTotalByte
                \/ p \in Dotted \/ SizeAt(t, p) \notin 1..MaxSourceFileBytes
               THEN read
               ELSE [out |-> Append(read.out, p), total |-> read.total + SizeAt(t, p)],
           [out |-> <<>>, total |-> 0], paths).out

\* That is what readSources makes of the checkout there is.
LEMMA ReadOfIs == \A paths : ReadSources(paths) = ReadOf(tree, paths)
  BY DEF ReadSources, ReadOf, FoldLeft, MapThenFoldSet

\* The selection and the touched files are lists of paths, and an answer that is on
\* its way to Apply was given to a request with what could be read of them.
FilesInv ==
  /\ contextFiles \in Seq(Paths) /\ touched \in Seq(Paths) /\ shown \in Seq(Paths)
  /\ ops \in Seq(Operations)
  /\ pc = "apply" => shown = ReadOf(tree, MergePaths(contextFiles, touched))

\* The tree is a checkout, at any place of an attempt.
LEMMA TreeIs ==
  ASSUME TreeInv
  PROVE  /\ tree \in Checkouts /\ tree \in [Paths -> Int] /\ made \in BOOLEAN
         /\ repository \in Repositories
  BY DEF TreeInv, Checkouts

\* Nothing is selected, touched or shown before the process starts.
LEMMA InitFiles == Init => FilesInv
<1>1. Init => pc = "boot" /\ contextFiles = <<>> /\ touched = <<>> /\ shown = <<>> /\ ops = <<>>
  BY Zenon DEF Init
<1>2. <<>> \in Seq(Paths) /\ <<>> \in Seq(Operations)
  OBVIOUS
<1>. QED  BY <1>1, <1>2, Zenon DEF FilesInv

\* A step that leaves the files alone and does not lead to Apply keeps the invariant.
LEMMA QuietFiles ==
  ASSUME FilesInv, UNCHANGED <<contextFiles, touched, shown, ops>>, pc' # "apply"
  PROVE  FilesInv'
  BY DEF FilesInv

\* Each step keeps it: a selection is a list of tracked files, a request reads the
\* merge of both lists, and Apply adds the paths of its operations.
LEMMA StepFiles == TreeInv /\ FilesInv /\ [Next]_vars => FilesInv'
<1>. SUFFICES ASSUME TreeInv, FilesInv, [Next]_vars PROVE FilesInv'
  OBVIOUS
<1>. USE DEF bootVars, filesVars, treeVars, modelVars
<1>0. /\ tree \in Checkouts /\ repository \in Repositories
      /\ contextFiles \in Seq(Paths) /\ touched \in Seq(Paths) /\ shown \in Seq(Paths)
      /\ ops \in Seq(Operations)
  BY TreeIs DEF FilesInv
<1>1. CASE Start
  <2>1. pc' \in {"exit", "verify", "select"} /\ UNCHANGED <<contextFiles, touched, shown, ops>>
    BY <1>1, Zenon DEF Start
  <2>. QED  BY <2>1, QuietFiles
<1>2. CASE Select
  <2>1. /\ contextFiles' \in {Ranked, <<>>} /\ pc' = "plan"
        /\ UNCHANGED <<touched, shown, ops>>
    BY <1>2, Zenon DEF Select
  <2>2. Ranked \in Seq(Paths) /\ <<>> \in Seq(Paths)
    BY <1>0, RankedTypes
  <2>. QED  BY <1>0, <2>1, <2>2 DEF FilesInv
<1>3. CASE Plan
  <2>1. pc' \in {"propose", "failed"} /\ UNCHANGED <<contextFiles, touched, shown, ops>>
    BY <1>3 DEF Plan
  <2>. QED  BY <2>1, QuietFiles
<1>4. CASE Propose
  <2>. DEFINE listed == MergePaths(contextFiles, touched)
  <2>1. /\ shown' = ReadSources(listed) /\ UNCHANGED <<contextFiles, touched, tree>>
        /\ \/ ops' \in Proposals /\ pc' = "apply"
           \/ ops' = ops /\ pc' = "failed"
    BY <1>4 DEF Propose
  <2>2. listed \in Seq(Paths)
    BY <1>0, MergeIs
  <2>3. ReadSources(listed) \in Seq(Paths)
    <3>. HIDE DEF listed
    <3>. QED  BY <1>0, <2>2, ReadIs
  <2>4. \A o \in Proposals : o \in Seq(Operations)
    BY AgentsAssumption, Zenon
  <2>5. ReadSources(listed) = ReadOf(tree, listed)
    BY ReadOfIs
  <2>. QED  BY <1>0, <2>1, <2>3, <2>4, <2>5 DEF FilesInv
<1>5. CASE Apply
  <2>1. /\ UNCHANGED <<contextFiles, shown>> /\ ops' = <<>>
        /\ \/ touched' = MergePaths(touched, MergePaths(PathsOf(ops), <<>>)) /\ pc' = "verify"
           \/ touched' = touched /\ pc' = "failed"
    BY <1>5, Zenon DEF Apply
  <2>2. PathsOf(ops) \in Seq(Paths) /\ <<>> \in Seq(Paths) /\ <<>> \in Seq(Operations)
    <3>1. /\ Len(ops) \in Nat /\ DOMAIN ops = 1..Len(ops)
          /\ \A i \in 1..Len(ops) : ops[i].Path \in Paths
      <4>1. \A i \in 1..Len(ops) : ops[i] \in Operations
        BY <1>0
      <4>2. \A op \in Operations : op.Path \in Paths
        BY DEF Operations
      <4>. QED  BY <1>0, <4>1, <4>2
    <3>2. [i \in 1..Len(ops) |-> ops[i].Path] \in Seq(Paths)
      BY <3>1
    <3>. QED  BY <3>1, <3>2 DEF PathsOf
  <2>3. MergePaths(PathsOf(ops), <<>>) \in Seq(Paths)
    BY <2>2, MergeIs
  <2>4. MergePaths(touched, MergePaths(PathsOf(ops), <<>>)) \in Seq(Paths)
    BY <1>0, <2>3, MergeIs
  <2>. QED  BY <1>0, <2>1, <2>2, <2>4 DEF FilesInv
<1>5a. CASE FailToApply
  <2>1. UNCHANGED <<contextFiles, touched, shown>> /\ ops' = <<>> /\ pc' = "failed"
    BY <1>5a, Zenon DEF FailToApply
  <2>2. <<>> \in Seq(Operations)
    OBVIOUS
  <2>. QED  BY <1>0, <2>1, <2>2 DEF FilesInv
<1>6. CASE Verify
  BY <1>6, QuietFiles DEF Verify, Revise
<1>7. CASE Unreviewed
  BY <1>7, QuietFiles DEF Unreviewed
<1>8. CASE Review
  <2>1. /\ pc' \in {"approved", "failed", "propose"}
        /\ UNCHANGED <<contextFiles, touched, shown, ops>>
    BY <1>8 DEF Review, Revise
  <2>. QED  BY <2>1, QuietFiles
<1>9. CASE UNCHANGED vars
  BY <1>9 DEF vars, FilesInv
<1>. QED  BY <1>1, <1>2, <1>3, <1>4, <1>5, <1>5a, <1>6, <1>7, <1>8, <1>9 DEF Next

\* The files invariant holds of every behaviour.
LEMMA FilesInvHolds == Spec => []FilesInv
<1>1. TreeInv /\ TreeInv' /\ FilesInv /\ [Next]_vars => FilesInv'
  BY StepFiles
<1>. QED  BY <1>1, InitFiles, TreeInvHolds, PTL DEF Spec

\* For any sizes, bounds, selection and operations, over any revisions: the request for
\* a revision shows every file its attempt has touched that is there, not too large and
\* named without dots, as long as the bounds leave room for all that are listed
\* (implementor.go's implement, mergePaths, readSources).
THEOREM RevisionsSeeWhatFits == Spec => []RevisionSeesWhatFits
<1>1. TreeInv /\ FilesInv => RevisionSeesWhatFits
  <2>. DEFINE m == MergePaths(contextFiles, touched)
              listed == ToSet(contextFiles) \cup ToSet(touched)
              fits   == /\ Cardinality(listed) <= DefaultMaxFiles
                        /\ \A p \in listed :
                             SizeAt(tree, p) <= MaxSourceTotalByte \div Cardinality(listed)
  <2>. SUFFICES ASSUME TreeInv, FilesInv, pc = "apply", revisions > 0, fits,
                       NEW p \in ToSet(touched) \ Dotted, SizeAt(tree, p) \in 1..MaxSourceFileBytes
                PROVE  p \in ToSet(shown)
    BY DEF RevisionSeesWhatFits
  <2>1. /\ m \in Seq(Paths) /\ ToSet(m) = listed /\ Len(m) = Cardinality(listed)
    <3>1. contextFiles \in Seq(Paths) /\ touched \in Seq(Paths)
      BY DEF FilesInv
    <3>. QED  BY <3>1, MergeIs
  <2>2. shown = ReadSources(m) /\ tree \in Checkouts /\ repository \in Repositories
    BY TreeIs, ReadOfIs DEF FilesInv
  <2>3. fits /\ p \in listed
    OBVIOUS
  <2>. HIDE DEF m, listed
  <2>4. /\ Len(m) <= DefaultMaxFiles
        /\ \A i \in 1..Len(m) : SizeAt(tree, m[i]) <= MaxSourceTotalByte \div Len(m)
    <3>1. \A i \in 1..Len(m) : m[i] \in listed
      BY <2>1 DEF ToSet
    <3>. QED  BY <2>1, <2>3, <3>1
  <2>5. \A i \in 1..Len(m) :
          Legible(m[i]) => m[i] \in ToSet(ReadSources(m))
    BY <2>1, <2>2, <2>4, ReadIs
  <2>6. PICK i \in 1..Len(m) : m[i] = p
    BY <2>1, <2>3 DEF ToSet
  <2>7. Legible(p)
    BY DEF Legible
  <2>. QED  BY <2>2, <2>5, <2>6, <2>7
<1>. QED  BY <1>1, TreeInvHolds, FilesInvHolds, PTL
-----------------------------------------------------------------------------
(* Types *)

\* A client has an API and a key, and there is a bound on the revisions.
LimitInv ==
  /\ client = <<>> \/ client \in APIs \X APIs
  /\ revisions \in 0..MaxRevisions

\* Start picks an API and a key, and only Revise counts up, below the bound.
LEMMA StepLimits == LimitInv /\ [Next]_vars => LimitInv'
<1>. SUFFICES ASSUME LimitInv, [Next]_vars PROVE LimitInv'
  OBVIOUS
<1>. USE DEF bootVars, filesVars, treeVars, modelVars
<1>0. MaxRevisions \in Nat
  BY AgentsAssumption, Zenon
<1>1. CASE Start
  <2>1. UNCHANGED revisions /\ (client' = client \/ client' \in APIs \X APIs)
    <3>1. ASSUME NEW api \in APIs PROVE <<api, api>> \in APIs \X APIs
      OBVIOUS
    <3>. QED  BY <1>1, <3>1, StartPicks
  <2>. QED  BY <2>1, Zenon DEF LimitInv
<1>2. CASE Select
  BY <1>2, Zenon DEF Select, LimitInv
<1>3. CASE Plan
  BY <1>3, Zenon DEF Plan, LimitInv
<1>4. CASE Propose
  BY <1>4, Zenon DEF Propose, LimitInv
<1>5. CASE Apply
  BY <1>5, Zenon DEF Apply, LimitInv
<1>5a. CASE FailToApply
  BY <1>5a, Zenon DEF FailToApply, LimitInv
<1>6. ASSUME UNCHANGED client,
             \/ UNCHANGED revisions
             \/ revisions < MaxRevisions /\ revisions' = revisions + 1
      PROVE  LimitInv'
  <2>1. client' = <<>> \/ client' \in APIs \X APIs
    BY <1>6, Zenon DEF LimitInv
  <2>2. revisions' \in 0..MaxRevisions
    BY <1>0, <1>6 DEF LimitInv
  <2>. QED  BY <2>1, <2>2, Zenon DEF LimitInv
<1>7. CASE Verify
  BY <1>6, <1>7, Zenon DEF Verify, Revise, CanRevise
<1>8. CASE Unreviewed
  BY <1>8, Zenon DEF Unreviewed, LimitInv
<1>9. CASE Review
  <2>1. /\ UNCHANGED client
        /\ \/ UNCHANGED revisions
           \/ revisions < MaxRevisions /\ revisions' = revisions + 1
    BY <1>9 DEF Review, Revise, CanRevise
  <2>. QED  BY <1>6, <2>1
<1>10. CASE UNCHANGED vars
  BY <1>10, Zenon DEF vars, LimitInv
<1>. QED  BY <1>1, <1>2, <1>3, <1>4, <1>5, <1>5a, <1>7, <1>8, <1>9, <1>10 DEF Next

\* Every variable keeps its type: the lists are lists of paths, the checkout has a size
\* or a link for each path, no attempt has more revisions than it may.
THEOREM TypeCorrect == Spec => []TypeOK
<1>1. Init => LimitInv
  <2>1. 0 \in 0..MaxRevisions
    <3>1. MaxRevisions \in Nat
      BY AgentsAssumption, Zenon
    <3>. QED  BY <3>1
  <2>. QED  BY <2>1, Zenon DEF Init, LimitInv
<1>2. Spec => []LimitInv
  BY <1>1, StepLimits, PTL DEF Spec
<1>3. CostInv /\ TreeInv /\ FilesInv /\ LimitInv => TypeOK
  <2>. SUFFICES ASSUME CostInv, TreeInv, FilesInv, LimitInv PROVE TypeOK
    OBVIOUS
  <2>1. pc \in Places /\ {calls, errors, tokens} \subseteq Nat
    BY DEF CostInv
  <2>2. tree \in [Paths -> Int] /\ made \in BOOLEAN
    BY TreeIs
  <2>3. {contextFiles, touched, shown} \subseteq Seq(Paths) /\ ops \in Seq(Operations)
    BY DEF FilesInv
  <2>. QED  BY <2>1, <2>2, <2>3, Zenon DEF TypeOK, LimitInv, Places
<1>. QED  BY <1>2, <1>3, CostInvHolds, TreeInvHolds, FilesInvHolds, PTL
=============================================================================
