------------------------------ MODULE HashFiles ------------------------------
(***************************************************************************)
(* hashFiles() (expressions/functions): the patterns' literal prefixes are *)
(* the roots of a depth-first walk, and every file it meets that the       *)
(* patterns take goes into the digest, in the order of the walk.  The tree *)
(* and the lines are those of BuildContext; some files are symbolic links. *)
(***************************************************************************)
EXTENDS BuildContext

CONSTANTS DirLinks,    \* paths that are links to directories
          Dangling,    \* paths that are links to nothing
          Collate      \* a directory's names in byte order

VARIABLES roots,     \* search roots still to be walked
          stack,     \* the walk's stack
          digest,    \* files folded in so far
          hashing     \* "walk", "done" or "error"
hashVars == <<lines, roots, stack, digest, hashing>>

\* reject_relative_segments: `..' anywhere, `.' but at the start.
Relative(line) ==
  \E i \in 1..Len(line.parts) : line.parts[i] = ".." \/ (line.parts[i] = "." /\ i > 1)

\* parse_patterns: each line twice, as written and with all below it; the join
\* with the workspace drops a leading `.'.
Globs ==
  LET twins(acc, l) ==
        LET p == SelectSeq(l.parts, LAMBDA c : c # ".")
            one(q) == [glob |-> q, negate |-> l.exclusion]
        IN  IF p # <<>> /\ Last(p) = "**" THEN Append(acc, one(p))
            ELSE acc \o <<one(p), one(Append(p, "**"))>>
  IN  FoldLeft(twins, <<>>, lines)

\* search_roots: in the order of the patterns, none twice, none inside another.
Mutant_SearchRoots ==
  LET all    == [i \in 1..Len(Globs) |-> LiteralPrefix(Globs[i].glob)]
      wanted == SelectSeq([i \in 1..Len(Globs) |-> i], LAMBDA i : ~Globs[i].negate)
  IN  FoldLeft(LAMBDA acc, i : IF all[i] \in ToSet(acc) THEN acc ELSE Append(acc, all[i]), <<>>, wanted)
SearchRoots ==
  LET all    == [i \in 1..Len(Globs) |-> LiteralPrefix(Globs[i].glob)]
      wanted == SelectSeq([i \in 1..Len(Globs) |-> i], LAMBDA i : ~Globs[i].negate)
      unique == FoldLeft(LAMBDA acc, i : IF all[i] \in ToSet(acc) THEN acc ELSE Append(acc, all[i]),
                         <<>>, wanted)
  IN  SelectSeq(unique, LAMBDA r : ~\E s \in ToSet(unique) : IsStrictPrefix(s, r))

\* matches_patterns: the last pattern that matches decides.
Taken(path) ==
  FoldLeft(LAMBDA hit, p : IF Glob(p.glob, path) THEN ~p.negate ELSE hit, FALSE, Globs)

\* fold_digests and digest_file: a link to a directory counts for nothing, a
\* dangling one that is taken is an error.
Visit(path) ==
  CASE ~Taken(path) \/ path \in DirLinks -> UNCHANGED <<digest, hashing>>
    [] Taken(path) /\ path \in Dangling  -> hashing' = "error" /\ UNCHANGED digest
    [] OTHER -> digest' = Append(digest, path) /\ UNCHANGED hashing

\* read_children, sorted, to be popped in ascending order.
Children(d) ==
  SelectSeq([i \in 1..Len(Collate) |-> Append(d, Collate[i])], LAMBDA p : p \in Tree)

\* walk, one entry: a root that is not there is passed over.
WalkEntry ==
  /\ hashing = "walk" /\ stack # <<>>
  /\ LET item == Head(stack)
     IN  IF item \in Folders \cup {<<>>}
         THEN stack' = Children(item) \o Tail(stack) /\ UNCHANGED <<digest, hashing>>
         ELSE /\ stack' = Tail(stack)
              /\ IF item \in Tree THEN Visit(item) ELSE UNCHANGED <<digest, hashing>>
  /\ UNCHANGED <<lines, roots, walk, archive>>

NextRoot ==
  /\ hashing = "walk" /\ stack = <<>>
  /\ IF roots = <<>> THEN hashing' = "done" /\ UNCHANGED <<roots, stack>>
     ELSE stack' = <<Head(roots)>> /\ roots' = Tail(roots) /\ UNCHANGED hashing
  /\ UNCHANGED <<lines, digest, walk, archive>>

\* hash_files without --follow-symbolic-links.
HashInit ==
  /\ lines \in UNION {[1..n -> Lines] : n \in 0..MaxLines}
  /\ stack = <<>> /\ digest = <<>>
  /\ IF \E i \in 1..Len(lines) : Relative(lines[i])
     THEN hashing = "error" /\ roots = <<>> ELSE hashing = "walk" /\ roots = SearchRoots

HashNext == WalkEntry \/ NextRoot

----------------------------------------------------------------------------
(* Properties *)

\* A line takes a path that it matches, or whose parent it matches.
Wanted(path) ==
  LET hits == {i \in 1..Len(lines) : \E q \in {path} \cup Parents(path) :
                 Glob(SelectSeq(lines[i].parts, LAMBDA c : c # "."), q)}
  IN  hits # {} /\ ~lines[CHOOSE i \in hits : \A j \in hits : j <= i].exclusion

\* The digest covers every file the last matching line wants, once, whatever
\* root it was found from: a cache key neither misses a file nor counts one
\* twice because two patterns' roots overlap.
HashIsExact ==
  hashing = "done" =>
    /\ ToSet(digest) = {p \in Tree \ (Folders \cup DirLinks) : Wanted(p)}
    /\ IsInjective(digest)

(* Both walks of a workspace, the one that packs a Docker build context and
   the one behind hashFiles, take exactly the files their patterns select. *)
WalksAreExact == ArchiveIsExact /\ HashIsExact
=============================================================================
