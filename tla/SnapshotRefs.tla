----------------------------- MODULE SnapshotRefs -----------------------------
(***************************************************************************)
(* How commands name a snapshot of graph.db: an id, a ref, or "previous"   *)
(* (graph-check.ts, utils/snapshot-ref.ts), and what prune keeps.  A row   *)
(* has its id, when it was taken, its ref and its commit.                  *)
(*                                                                         *)
(* External: the store's listSnapshots (newest first by time, then id) and *)
(* planPrune, modelled by the use the commands make of them.               *)
(***************************************************************************)
EXTENDS Integers, FiniteSets

CONSTANTS NoRow,      \* no such snapshot: the command ends with an error
          NoCommit    \* a row without a commit hash, a ref git cannot resolve

Newer(a, b) == a.taken > b.taken \/ (a.taken = b.taken /\ a.id > b.id)

NewerThan(rows, row) == {r \in rows : Newer(r, row)}

\* listSnapshots({limit: n})
NewestFew(rows, n) == {r \in rows : Cardinality(NewerThan(rows, r)) < n}

Newest(rows) ==
  IF rows = {} THEN NoRow ELSE CHOOSE r \in rows : NewerThan(rows, r) = {}

ById(rows, id) ==
  IF \E r \in rows : r.id = id THEN CHOOSE r \in rows : r.id = id ELSE NoRow

OfRef(rows, ref) == {r \in rows : r.ref = ref}

PreviousInCheck_Head(rows, head) == Newest(NewestFew(rows, 5))

\* graph check's "previous": of the newest five, the first that is not the head.
PreviousInCheck(rows, head) == Newest({r \in NewestFew(rows, 5) : r.id # head})

\* The other commands' "previous": the one listed after the anchor.
SnapshotBefore(rows, current) ==
  LET anchor == ById(rows, current)
  IN  IF anchor = NoRow THEN NoRow
      ELSE Newest({r \in rows : Newer(anchor, r)})

\* A ref in graph check: the snapshot of the ref's current commit among the
\* newest fifty, else the newest of the ref, which is then called stale when
\* both commits are known.
SelectRefSnapshot(candidates, commit) ==
  LET at == {r \in candidates : commit # NoCommit /\ r.commit = commit}
      latest == Newest(candidates)
  IN  IF at # {} THEN [row |-> Newest(at), stale |-> FALSE]
      ELSE [row |-> latest, stale |-> commit # NoCommit /\ latest.commit # NoCommit]

ResolveRefSnapshot(rows, ref, commit) ==
  LET candidates == NewestFew(OfRef(rows, ref), 50)
  IN  IF candidates = {} THEN [row |-> NoRow, stale |-> FALSE]
      ELSE SelectRefSnapshot(candidates, commit)

\* A spec is [kind |-> "previous"], [kind |-> "id", id |-> n] (all digits: an id
\* for graph check, an id or else a ref for the others) or [kind |-> "ref"].
ResolveSnapshot(rows, spec, head, commit) ==
  CASE spec.kind = "previous" -> PreviousInCheck(rows, head)
    [] spec.kind = "id" -> ById(rows, spec.id)
    [] OTHER -> ResolveRefSnapshot(rows, spec.ref, commit).row

ResolveSnapshotRef(rows, spec, current) ==
  CASE spec.kind = "previous" -> SnapshotBefore(rows, current)
    [] spec.kind = "id" /\ ById(rows, spec.id) # NoRow -> ById(rows, spec.id)
    [] spec.kind = "id" -> Newest(OfRef(rows, spec.id))
    [] OTHER -> Newest(OfRef(rows, spec.ref))

\* What prune leaves: the newest `keep`, and every row of a kept ref.
Pruned(rows, keep, keepRefs) ==
  NewestFew(rows, keep) \cup {r \in rows : r.ref \in keepRefs}
=============================================================================
