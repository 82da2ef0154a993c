----------------------------- MODULE BuildContext -----------------------------
(***************************************************************************)
(* The Docker build context of an action (docker/action_archive.rs): the   *)
(* ignore file's patterns are cleaned and compiled, and the walk over the  *)
(* context archives what they leave, without descending into an ignored    *)
(* directory unless a pattern may bring something below it back.           *)
(*                                                                         *)
(* A path is a sequence of components.  A pattern is one too, its          *)
(* components literal, `*' (one component) or `**' (any number); patterns  *)
(* with wildcards inside a component are left to the regex engine.         *)
(***************************************************************************)
EXTENDS Naturals, Sequences, SequencesExt, FiniteSets

CONSTANTS Tree,        \* the paths under the context, closed under parents
          Folders,     \* those that are directories
          Dockerfile,  \* the file the image is built from: a path
          IgnoreFile,  \* the ignore file: a path
          Lines,       \* lines an ignore file may hold: [rooted, parts, exclusion]
          MaxLines     \* bound: lines of the ignore file

VARIABLES lines,     \* the ignore file
          walk,      \* directories still to be appended
          archive    \* paths in the archive
contextVars == <<lines, walk, archive>>

Wild == {"*", "**"}

\* clean_pattern: lexical cleaning of the components.
CleanPattern(line) ==
  LET add(acc, p) ==
        CASE p = ".." /\ acc # <<>> /\ Last(acc) # ".." -> Front(acc)
          [] p = ".." /\ (acc = <<>> \/ Last(acc) = "..") ->
               IF line.rooted THEN acc ELSE Append(acc, p)
          [] p \in {"", "."} -> acc
          [] OTHER -> Append(acc, p)
  IN  FoldLeft(add, <<>>, line.parts)

\* The reference: does the glob match the path?  `**' stands for any number of
\* components, at the end for at least one unless it stands alone.
Glob(pattern, path) ==
  LET n == Len(pattern)  m == Len(path)
      G[i \in 0..n, j \in 0..m] ==   \* the last i of the pattern against the last j
        IF i = 0 THEN j = 0
        ELSE LET p == pattern[n - i + 1]
             IN  CASE p = "**" /\ i = 1 -> j > 0
                   [] p = "**" /\ i > 1 -> \E k \in 0..j : G[i - 1, k]
                   [] p # "**" -> j > 0 /\ p \in {"*", path[m - j + 1]} /\ G[i - 1, j - 1]
  IN  G[n, m]

\* compile_match: the cheap tests the compiler chooses for simple patterns.
Stars(pattern) == {i \in 1..Len(pattern) : pattern[i] \in Wild}
Kind(pattern) ==
  CASE Stars(pattern) = {} -> "exact"
    [] Stars(pattern) = {1} /\ pattern[1] = "**" -> "suffix"
    [] Stars(pattern) = {Len(pattern)} /\ Last(pattern) = "**" /\ Len(pattern) > 1 -> "prefix"
    [] OTHER -> "regex"

\* Pattern::matches.
Matches(pattern, path) ==
  CASE Kind(pattern) = "exact"  -> path = pattern
    [] Kind(pattern) = "suffix" -> IsSuffix(Tail(pattern), path)
    [] Kind(pattern) = "prefix" -> IsStrictPrefix(Front(pattern), path)
    [] Kind(pattern) = "regex"  -> Glob(pattern, path)

\* parent_paths.
Parents(path) == {SubSeq(path, 1, k) : k \in 1..(Len(path) - 1)}

\* DockerIgnore::read: comments and "." leave no pattern.
Patterns ==
  SelectSeq([i \in 1..Len(lines) |->
               [pattern |-> CleanPattern(lines[i]), exclusion |-> lines[i].exclusion]],
            LAMBDA p : p.pattern # <<>>)

\* DockerIgnore::ignored: a pattern that would not change the verdict is skipped.
Ignored(path) ==
  LET decide(ignored, p) ==
        IF p.exclusion # ignored THEN ignored
        ELSE IF \E q \in {path} \cup Parents(path) : Matches(p.pattern, q)
             THEN ~p.exclusion ELSE ignored
  IN  FoldLeft(decide, FALSE, Patterns)

\* literal_prefix: the components before the first wildcard.
LiteralPrefix(pattern) ==
  LET first == {i \in 1..Len(pattern) : pattern[i] \in Wild}
  IN  IF first = {} THEN pattern
      ELSE SubSeq(pattern, 1, (CHOOSE i \in first : \A j \in first : i <= j) - 1)

\* may_match_descendant.
Mutant_MayMatchDescendant(pattern, d) == IsPrefix(d, LiteralPrefix(pattern))
MayMatchDescendant(pattern, d) ==
  LET prefix == LiteralPrefix(pattern)
  IN  prefix = <<>> \/ IsPrefix(d, prefix) \/ IsPrefix(prefix, d)

MayReinclude(d) ==
  \E i \in 1..Len(Patterns) : Patterns[i].exclusion /\ MayMatchDescendant(Patterns[i].pattern, d)

\* The Dockerfile and the ignore file themselves always go along.
Control(path) == path \in {Dockerfile, IgnoreFile}

Entries(d) == {p \in Tree : Len(p) = Len(d) + 1 /\ IsPrefix(d, p)}

\* append_directory: the entries of one directory, and the directories among
\* them that are descended into.
AppendDirectory(d) ==
  /\ d \in walk
  /\ archive' = archive \cup {p \in Entries(d) : Control(p) \/ ~Ignored(p)}
  /\ walk' = (walk \ {d}) \cup
             {p \in Entries(d) \cap Folders : ~Ignored(p) \/ MayReinclude(p)}
  /\ UNCHANGED lines

ContextInit ==
  /\ lines \in UNION {[1..n -> Lines] : n \in 0..MaxLines}
  /\ walk = {<<>>} /\ archive = {}

\* The walk is depth first; in which order directories are read does not matter
\* to what is archived, so the next one is any fixed choice.
ContextNext ==
  /\ walk # {} /\ AppendDirectory(CHOOSE d \in walk : TRUE)

----------------------------------------------------------------------------
(* Properties *)

\* The last line that matches a path or one of its parents decides about it.
LastWord(path) ==
  LET hits == {i \in 1..Len(Patterns) :
                 \E q \in {path} \cup Parents(path) : Glob(Patterns[i].pattern, q)}
  IN  hits # {} /\ ~Patterns[CHOOSE i \in hits : \A j \in hits : j <= i].exclusion

\* The finished archive holds exactly the paths the ignore file leaves, by the
\* rule "the last matching line decides": the shortcuts the compiler takes, the
\* lines `ignored' skips and the directories the walk prunes change nothing.
ArchiveIsExact ==
  walk = {} => archive = {p \in Tree : Control(p) \/ ~LastWord(p)}
=============================================================================
