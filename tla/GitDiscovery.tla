---------------------------- MODULE GitDiscovery ----------------------------
(***************************************************************************)
(* The scan of crates/schomburg-connector-git for repositories below the   *)
(* roots a user names: GitConnectorExtension::discover and discover_root.  *)
(*                                                                         *)
(* A tree gives each entry its parent and its kind.  The order in which    *)
(* read_dir lists a directory is left out: an error anywhere in the scan   *)
(* makes the whole of it fail, and the candidates are a map.               *)
(***************************************************************************)
EXTENDS Naturals, FiniteSets

CONSTANTS
  Top,        \* the directory everything lies in
  Entry,      \* what lies below it
  MaxDepth    \* MAX_DISCOVERY_DEPTH

ASSUME DiscoveryAssumption == Top \notin Entry /\ MaxDepth \in Nat

Node == Entry \cup {Top}

\* "excluded": a symbolic link, or a directory with one of the names that build
\* output and dependencies have.  "broken": with a .git no repository can be
\* opened from.  "locked": a directory that cannot be listed.
EntryKind == {"directory", "file", "excluded", "repository", "broken", "locked"}

Children(tree, d) == {e \in Entry : tree.parent[e] = d}

\* What stands for an error in a result: Top is never a candidate.
ScanError == Top

-----------------------------------------------------------------------------

\* Mutant: a repository is descended into like any other directory.
ScanInside(tree) ==
  LET found[depth \in 0..(MaxDepth + 1)] ==
        [d \in Node |->
           IF depth > MaxDepth THEN {}
           ELSE IF tree.kind[d] = "locked" THEN {ScanError}
           ELSE UNION {CASE tree.kind[e] \in {"file", "excluded"} -> {}
                         [] tree.kind[e] = "broken" -> {ScanError}
                         [] tree.kind[e] = "repository" -> {e} \cup found[depth + 1][e]
                         [] OTHER -> found[depth + 1][e] : e \in Children(tree, d)}]
  IN  found[0]

\* discover_root: what it adds to the candidates at each depth and for each
\* directory it may be called with.  A directory that has a .git is not looked into.
Scan(tree) ==
  LET found[depth \in 0..(MaxDepth + 1)] ==
        [d \in Node |->
           IF depth > MaxDepth THEN {}
           ELSE IF tree.kind[d] = "locked" THEN {ScanError}
           ELSE UNION {CASE tree.kind[e] \in {"file", "excluded"} -> {}
                         [] tree.kind[e] = "broken" -> {ScanError}
                         [] tree.kind[e] = "repository" -> {e}
                         [] OTHER -> found[depth + 1][e] : e \in Children(tree, d)}]
  IN  found[0]

\* discover: all roots or none.  What lies below two roots is one candidate.
DiscoverRoots(tree, roots) ==
  LET found == Scan(tree)
      all == UNION {IF tree.kind[r] = "file" THEN {ScanError} ELSE found[r] : r \in roots}
  IN  IF ScanError \in all THEN {} ELSE {all}

-----------------------------------------------------------------------------

\* The reference.  The directories an entry lies in.
Above(tree, e) ==
  LET above[n \in Node] ==
        IF n = Top THEN {} ELSE {tree.parent[n]} \cup above[tree.parent[n]]
  IN  above[e]

\* An entry the scan of a root has to look at: what lies between the two is at
\* most MaxDepth plain directories.
Reached(tree, root, e) ==
  LET between == {a \in Above(tree, e) : root \in Above(tree, a)}
  IN  /\ root \in Above(tree, e)
      /\ \A a \in between : tree.kind[a] = "directory"
      /\ Cardinality(between) <= MaxDepth

\* What keeps a scan from giving a result: a root or a directory to be listed
\* that cannot be, a repository that cannot be opened.
Hindered(tree, root) ==
  \/ tree.kind[root] \in {"file", "locked"}
  \/ \E e \in Entry :
       /\ Reached(tree, root, e)
       /\ \/ tree.kind[e] = "broken"
          \/ /\ tree.kind[e] = "locked"
             /\ Cardinality({a \in Above(tree, e) : root \in Above(tree, a)}) < MaxDepth
=============================================================================
