------------------------------ MODULE ConfigTree ------------------------------
(***************************************************************************)
(* NVDA's configuration as the spy's config_api.py writes it: a tree of    *)
(* sections, seen through its leaves.  A tree is a function from the paths *)
(* of its leaves (sequences of keys) to their values; an empty section has *)
(* no leaf and is not told apart from a missing one.                       *)
(***************************************************************************)
EXTENDS Sequences
Ext == INSTANCE SequencesExt

\* p and q lie on one branch: one of them cannot be a leaf beside the other.
OnOneBranch(p, q) == Ext!IsPrefix(p, q) \/ Ext!IsPrefix(q, p)

\* _assign: scalars on the way become sections, a section at the end a scalar.
Assign(tree, path, value) ==
  LET kept == {p \in DOMAIN tree : ~OnOneBranch(p, path)}
  IN  [p \in kept \cup {path} |-> IF p = path THEN value ELSE tree[p]]

\* The top-level keys of a tree.
TopKeys(tree) == {Head(p) : p \in DOMAIN tree}

\* A restore that only writes back and leaves the keys it does not know.
WriteBack(tree, snapshot, done) ==
  LET of(t, K) == {p \in DOMAIN t : Head(p) \in K}
      old == of(tree, TopKeys(tree) \ (done \cap TopKeys(snapshot)))
      new == of(snapshot, done)
  IN  [p \in old \cup new |-> IF p \in new THEN snapshot[p] ELSE tree[p]]

\* _restore, when it has got through the top-level keys `done': a key of the
\* snapshot gets the snapshot's section, any other an empty one.
RestoreKeys(tree, snapshot, done) ==
  LET of(t, K) == {p \in DOMAIN t : Head(p) \in K}
      old == of(tree, TopKeys(tree) \ done)
      new == of(snapshot, done)
  IN  [p \in old \cup new |-> IF p \in new THEN snapshot[p] ELSE tree[p]]

\* The order of _restore: the snapshot's keys first, in any order of theirs,
\* then the keys that are only live.
RestorePrefixes(tree, snapshot) ==
  LET mine == TopKeys(snapshot)
  IN  SUBSET mine \cup {mine \cup K : K \in SUBSET TopKeys(tree)}

Restore(tree, snapshot) ==
  RestoreKeys(tree, snapshot, TopKeys(tree) \cup TopKeys(snapshot))
================================================================================
