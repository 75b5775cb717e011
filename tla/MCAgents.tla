------------------------------ MODULE MCAgents -------------------------------
(* Instances of Agents for TLC. *)
EXTENDS Agents

\* Path 1 to 3 are tracked, 3 perhaps as a link; 4 lies in a new directory, 5 is
\* protected; 6 is new and has dots in its name; 7 is another name of 1, with "..".
SevenPaths == 1..7
CleanPath  == [p \in SevenPaths |-> IF p = 7 THEN 1 ELSE p]
WithDots   == {6, 7}
PathOfGit  == {5}
PathInDir  == {4}

Env(named, anthropic, openai, numbers) ==
  [ROJO_PROVIDER |-> named, ANTHROPIC_API_KEY |-> anthropic,
   OPENAI_API_KEY |-> openai, numbers |-> numbers]

ManyEnvironments ==
  {[real |-> Env(n, a, o, m), file |-> Env(fn, fa, fo, Unset)] :
     n \in {Unset, Empty, "anthropic", "openai", "opanai"},
     a \in {Unset, "anthropic"}, o \in {Unset, Empty, "openai"},
     m \in {Unset, "not a number", "not positive"},
     fn \in {Unset, "openai"}, fa \in {Unset, "anthropic"}, fo \in {Unset, "openai"}}

OneEnvironment ==
  {[real |-> Env(Unset, Unset, "openai", Unset), file |-> Env(Unset, Unset, Unset, Unset)]}

\* Path 3 is not committed, a file, or a link to 2 or to the protected path; the
\* files are hit by a keyword, or one is.
Repo(three, hits) ==
  [committed |-> [p \in SevenPaths |-> CASE p \in {1, 2, 5} -> 1 [] p = 3 -> three [] OTHER -> 0],
   named |-> [f \in 1..3 |-> IF f = 1 THEN 0 ELSE hits], grepped |-> [f \in 1..3 |-> hits],
   manifest |-> {1}]
FewRepositories ==
  {Repo(0, 0), Repo(0, 1), Repo(2, 0), Repo(2, 1), Repo(-2, 0), Repo(-2, 1), Repo(-5, 0)}
OneRepository == {Repo(1, 1)}

Op(kind, p, size) == [Kind |-> kind, Path |-> p, Size |-> size]

\* One operation, of every kind and outcome, on every path; two, the second of which
\* needs the first, undoes it, adds to it or is refused; three are too many.
Ones ==
  {Op(k, p, 1) : k \in {"write", "append", "delete"}, p \in SevenPaths}
    \cup {Op("write", 1, 3), Op("append", 3, 2)}
Pairs ==
  {<<Op("write", 4, 1), Op("append", 4, 1)>>, <<Op("delete", 3, 1), Op("write", 3, 2)>>,
   <<Op("append", 2, 2), Op("append", 3, 1)>>, <<Op("write", 7, 2), Op("write", 5, 1)>>,
   <<Op("write", 3, 2), Op("append", 4, 1)>>, <<Op("delete", 1, 1), Op("write", 4, 1)>>}
FewProposals ==
  {<<>>} \cup {<<o>> : o \in Ones} \cup Pairs
    \cup {<<Op("write", 6, 1), Op("write", 1, 1), Op("write", 2, 1)>>}

OneProposal == {<<Op("write", 4, 1)>>}
=============================================================================
