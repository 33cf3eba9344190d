---------------------------- MODULE McpDaemonProofs ----------------------------
(* For any number of daemons, clients, database files, aside names, edits,     *)
(* kills and snapshots, and whatever prune is told to keep.                    *)
EXTENDS McpDaemon, FiniteSetTheorems, SequenceTheorems, WellFoundedInduction, TLAPS

Databases == [legacy : BOOLEAN, wal : BOOLEAN, rows : SUBSET Snapshot]
Held == 0 .. Len(data)

Processes ==
  [pc : Steps, job : {"commit", "post", "index"}, aside : Names, handle : Held, head : Nat]
Histories == [seen : SUBSET Violations, whole : BOOLEAN]

StoreTypeOK ==
  /\ data \in Seq(Databases) /\ Len(data) <= MaxFiles
  /\ disk \in [Names -> [main : Held, wal : Held]]
  /\ work \in SUBSET Violations /\ index \in SUBSET Violations /\ landed \in SUBSET Violations
  /\ proc \in [Procs -> Processes]
  /\ commit \in Histories
  /\ torn \in BOOLEAN

\* Snapshots of one database: each has its own id, and a later one a greater.
Dated(rows) ==
  /\ IsFiniteSet(rows)
  /\ \A r \in rows : r.taken = r.id
  /\ \A r, s \in rows : r.id = s.id => r = s
RowsAreDated == \A f \in 1 .. Len(data) : Dated(data[f].rows)

OneName == \A n, m \in Names : disk[n].main = disk[m].main /\ disk[n].main # NoFile => n = m

StepsOfCommit ==
  /\ proc["hook"].pc \in {"head", "base"} => Committing
  /\ proc["term"].job = "index" /\ proc["term"].pc \notin {"head", "base"}
  /\ \A p \in Procs : proc[p].pc = "write" => proc[p].handle # NoFile

\* One process renames at a time, and finds what it moves where it left it.
RenamesAlone ==
  ~ torn => \A p \in Procs :
    /\ Renaming(p) => \A q \in Procs \ {p} : ~ Renaming(q)
    /\ Is(p, "aside") \/ Is(p, "main") => Legacy(disk[0].main)
    /\ Is(p, "main") => proc[p].aside # 0 /\ disk[proc[p].aside].main = NoFile
    /\ Is(p, "wal") => /\ proc[p].aside # 0 /\ disk[0].main = NoFile
                       /\ disk[proc[p].aside].main # NoFile
                       /\ MovedHalf(disk[proc[p].aside].main, p)

\* What the commit's history says of a set of snapshots: every one is seen; every one
\* but that of one id is; the newest shows the tree as it is.
Seen(rows) == \A r \in rows : r.found \subseteq commit.seen
SeenButOne(rows) == \E n \in Nat : \A r \in rows : r.id # n => r.found \subseteq commit.seen
ShowsTree(rows) == rows # {} => Newest(rows).found = work

CommitIsJudged ==
  LET opened == proc["hook"].handle
      named  == disk[0].main
  IN  Committing =>
        /\ proc["hook"].pc \in {"look", "aside", "main", "wal", "open", "write"} => Seen(Rows(named))
        /\ Is("hook", "write") => Seen(Rows(opened))
        /\ Is("hook", "head") => SeenButOne(Rows(named))
        /\ Is("hook", "base") => SeenButOne(Rows(opened))
        /\ commit.whole =>
             /\ index = work
             /\ Is("hook", "write") => named = opened \/ ShowsTree(Rows(named))
             /\ Is("hook", "head") => ShowsTree(Rows(named))
             /\ Is("hook", "base") => \A r \in Rows(opened) : r.id = proc["hook"].head => r.found = work

DaemonTypeOK ==
  /\ step \in [Daemons -> {"off", "api", "listen", "up", "gone"}]
  /\ port \in [Daemons -> Ports] /\ pin \in [Daemons -> Pins]
  /\ store \in [Daemons -> Held]
  /\ asked \in [Daemons -> Nat] /\ since \in [Daemons -> Nat]
  /\ answer \in [Daemons -> {"none", "whole", "empty"}]
  /\ tokenFile \in [Ports -> Daemons \cup {NoDaemon}] /\ earlier \in [Daemons -> SUBSET Daemons]

\* The snapshot of an open question is there, or so many came after it.
AskedOrOld ==
  \A d \in Daemons : asked[d] # 0 =>
    /\ step[d] = "up"
    /\ pin[d] = 0 =>
         /\ since[d] = asked[d]
         /\ \/ \E r \in Rows(store[d]) : r.id = asked[d]
            \/ MaxId(Rows(store[d])) - asked[d] >= Keep

StoreInv ==
  /\ StoreTypeOK /\ RowsAreDated /\ OneName /\ StepsOfCommit
  /\ RenamesAlone /\ OldDatabasesKept /\ CommitIsJudged

-----------------------------------------------------------------------------
(* Snapshots of one database. *)

LEMMA NewerIsTransitive ==
  ASSUME NEW a \in Snapshot, NEW b \in Snapshot, NEW c \in Snapshot, Newer(a, b), Newer(b, c)
  PROVE  Newer(a, c) /\ ~ Newer(a, a)
BY DEF Newer, Snapshot

\* listSnapshots has a first row, when it has any.
LEMMA NewestThere ==
  ASSUME NEW S \in SUBSET Snapshot, IsFiniteSet(S), S # {}
  PROVE  Newest(S) \in S /\ NewerThan(S, Newest(S)) = {}
<1> DEFINE T == {NewerThan(S, r) : r \in S}
<1>1. T \subseteq FiniteSubsetsOf(S) /\ T # {}
  <2>1. T \subseteq SUBSET S /\ T # {}
    BY DEF NewerThan
  <2> QED
    BY <2>1, FS_FiniteSubsetsOfFinite
<1>2. PICK U \in T : \A V \in T : ~ (<<V, U>> \in StrictSubsetOrdering(S))
  BY <1>1, FS_StrictSubsetOrderingWellFounded, WFMin
<1>3. PICK r \in S : U = NewerThan(S, r)
  OBVIOUS
<1>4. ASSUME NEW q \in NewerThan(S, r) PROVE FALSE
  <2>1. q \in S /\ Newer(q, r)
    BY DEF NewerThan
  <2>2. NewerThan(S, q) \subseteq NewerThan(S, r)
    <3>1. ASSUME NEW x \in NewerThan(S, q) PROVE x \in NewerThan(S, r)
      BY <2>1, NewerIsTransitive DEF NewerThan
    <3> QED
      BY <3>1
  <2>3. q \notin NewerThan(S, q)
    BY <2>1 DEF NewerThan, Newer, Snapshot
  <2>4. <<NewerThan(S, q), NewerThan(S, r)>> \in StrictSubsetOrdering(S)
    BY <2>2, <2>3 DEF StrictSubsetOrdering, NewerThan
  <2> QED
    BY <1>2, <1>3, <2>1, <2>4
<1>5. \E x \in S : NewerThan(S, x) = {}
  BY <1>4
<1> QED
  BY <1>5 DEF Newest

\* It is the one with the greatest id.
LEMMA NewestIsLast ==
  ASSUME NEW S \in SUBSET Snapshot, Dated(S), S # {}
  PROVE  /\ Newest(S) \in S /\ MaxId(S) = Newest(S).id /\ MaxId(S) \in Nat \ {0}
         /\ \A r \in S : r.id <= MaxId(S)
<1>1. Newest(S) \in S /\ NewerThan(S, Newest(S)) = {}
  BY NewestThere DEF Dated
<1>2. MaxId(S) = Newest(S).id
  BY DEF MaxId
<1>3. \A r \in S : r.id <= Newest(S).id
  BY <1>1 DEF NewerThan, Newer, Dated, Snapshot
<1> QED
  BY <1>1, <1>2, <1>3 DEF Snapshot

LEMMA MaxIdType ==
  ASSUME NEW S \in SUBSET Snapshot, Dated(S)
  PROVE  MaxId(S) \in Nat /\ \A r \in S : r.id <= MaxId(S)
BY NewestIsLast DEF MaxId

LEMMA SomeDated ==
  ASSUME NEW S, NEW T \in SUBSET S, Dated(S)
  PROVE  Dated(T)
BY FS_Subset DEF Dated

\* A new snapshot is the newest.
LEMMA SnapshotAdded ==
  ASSUME NEW S \in SUBSET Snapshot, Dated(S), NEW r \in Snapshot, r.id = MaxId(S) + 1, r.taken = r.id
  PROVE  Dated(S \cup {r}) /\ MaxId(S \cup {r}) = r.id
<1>1. \A q \in S : q.id < r.id /\ q.id \in Nat
  BY MaxIdType DEF Snapshot
<1>2. r.id \in Nat
  BY DEF Snapshot
<1>3. Dated(S \cup {r})
  BY <1>1, <1>2, FS_AddElement DEF Dated
<1>4. Newest(S \cup {r}) = r
  <2>1. /\ S \cup {r} \in SUBSET Snapshot /\ S \cup {r} # {}
        /\ MaxId(S \cup {r}) = Newest(S \cup {r}).id
    BY DEF MaxId
  <2>2. Newest(S \cup {r}) \in S \cup {r} /\ r.id <= Newest(S \cup {r}).id
    BY <1>3, <2>1, NewestIsLast
  <2>3. ASSUME Newest(S \cup {r}) \in S PROVE FALSE
    BY <1>1, <1>2, <2>2, <2>3
  <2> QED
    BY <2>2, <2>3
<1> QED
  BY <1>3, <1>4 DEF MaxId

LEMMA AddedIsNewest ==
  ASSUME NEW S \in SUBSET Snapshot, Dated(S), NEW r \in Snapshot, r.id = MaxId(S) + 1, r.taken = r.id
  PROVE  Newest(S \cup {r}) = r
<1>1. Dated(S \cup {r}) /\ MaxId(S \cup {r}) = r.id /\ S \cup {r} \in SUBSET Snapshot /\ S \cup {r} # {}
  BY SnapshotAdded
<1>2. Newest(S \cup {r}) \in S \cup {r} /\ Newest(S \cup {r}).id = r.id
  BY <1>1, NewestIsLast
<1> QED
  BY <1>1, <1>2 DEF Dated

\* As many snapshots are newer than one as there are ids between, or fewer.
LEMMA NewerCount ==
  ASSUME NEW S \in SUBSET Snapshot, Dated(S), NEW r \in S
  PROVE  Cardinality(NewerThan(S, r)) <= MaxId(S) - r.id
<1>1. \A q \in S : q.id \in Nat /\ q.id <= MaxId(S) /\ q.taken = q.id
  BY MaxIdType DEF Snapshot, Dated
<1>2. MaxId(S) \in Nat
  BY MaxIdType
<1> DEFINE later == r.id + 1 .. MaxId(S)
           id == [q \in NewerThan(S, r) |-> q.id]
<1>3. \A q \in NewerThan(S, r) : q \in S /\ q.id \in later
  BY <1>1, <1>2 DEF NewerThan, Newer
<1>4. id \in Injection(NewerThan(S, r), later)
  <2>1. id \in [NewerThan(S, r) -> later]
    BY <1>3
  <2>2. \A a, b \in NewerThan(S, r) : id[a] = id[b] => a = b
    BY <1>3 DEF Dated
  <2> QED
    BY <2>1, <2>2 DEF Injection, IsInjective
<1>5. IsFiniteSet(later) /\ Cardinality(later) = MaxId(S) - r.id
  BY <1>1, <1>2, FS_Interval
<1> HIDE DEF later, id
<1> QED
  BY <1>4, <1>5, FS_Injection

\* Prune keeps the newest, and drops what `--keep` snapshots came after.
LEMMA PruneKeepsNewest ==
  ASSUME NEW S \in SUBSET Snapshot, Dated(S), S # {}
  PROVE  /\ Pruned(S, Keep, KeepRefs) \subseteq S /\ Dated(Pruned(S, Keep, KeepRefs))
         /\ MaxId(Pruned(S, Keep, KeepRefs)) = MaxId(S)
         /\ Newest(S) \in Pruned(S, Keep, KeepRefs)
         /\ \A r \in S \ Pruned(S, Keep, KeepRefs) : MaxId(S) - r.id >= Keep
<1> DEFINE P == Pruned(S, Keep, KeepRefs)
<1>1. Keep \in Nat /\ Keep > 0
  BY StoreAssumption
<1>2. P \subseteq S /\ Dated(P)
  <2>1. P \subseteq S
    BY DEF Pruned, NewestFew
  <2> QED
    BY <2>1, SomeDated
<1>3. Newest(S) \in S /\ NewerThan(S, Newest(S)) = {}
  BY NewestThere DEF Dated
<1>4. Newest(S) \in P
  <2>1. Cardinality(NewerThan(S, Newest(S))) = 0
    BY <1>3, FS_EmptySet
  <2> QED
    BY <1>1, <1>3, <2>1 DEF Pruned, NewestFew
<1>5. MaxId(P) = MaxId(S)
  <2>1. /\ \A r \in S : r.id <= MaxId(S)
        /\ \A r \in P : r.id <= MaxId(P)
        /\ \E r \in P : r.id = MaxId(P)
        /\ \E r \in P : r.id = MaxId(S)
        /\ MaxId(S) \in Nat /\ MaxId(P) \in Nat
    BY <1>2, <1>4, NewestIsLast
  <2> QED
    BY <1>2, <2>1
<1>6. ASSUME NEW r \in S \ P PROVE MaxId(S) - r.id >= Keep
  <2>1. ~ (Cardinality(NewerThan(S, r)) < Keep)
    BY <1>6 DEF Pruned, NewestFew
  <2>2. Cardinality(NewerThan(S, r)) <= MaxId(S) - r.id
    BY <1>6, NewerCount
  <2>3. Cardinality(NewerThan(S, r)) \in Nat
    <3>1. IsFiniteSet(NewerThan(S, r))
      BY FS_Subset DEF NewerThan, Dated
    <3> QED
      BY <3>1, FS_CardinalityType
  <2>4. MaxId(S) \in Nat /\ r.id \in Nat
    BY MaxIdType DEF Snapshot
  <2> QED
    BY <1>1, <2>1, <2>2, <2>3, <2>4
<1> QED
  BY <1>2, <1>4, <1>5, <1>6

-----------------------------------------------------------------------------
(* Files and names. *)

LEMMA FileTypes ==
  ASSUME StoreTypeOK
  PROVE  /\ Len(data) \in Nat /\ Len(data) <= MaxFiles /\ {MaxFiles, MaxAside} \subseteq Nat
         /\ data \in Seq(Databases)
         /\ \A f \in 1 .. Len(data) : data[f] \in Databases
         /\ 0 \in Names /\ NoFile \in Held /\ Names = 0 .. MaxAside
         /\ disk \in [Names -> [main : Held, wal : Held]]
         /\ \A n \in Names : disk[n].main \in Held /\ disk[n].wal \in Held
         /\ proc \in [Procs -> Processes]
<1>1. data \in Seq(Databases) /\ disk \in [Names -> [main : Held, wal : Held]] /\ Len(data) <= MaxFiles
      /\ proc \in [Procs -> Processes]
  BY DEF StoreTypeOK
<1>2. Len(data) \in Nat /\ \A f \in 1 .. Len(data) : data[f] \in Databases
  BY <1>1
<1>3. {MaxFiles, MaxAside} \subseteq Nat
  BY StoreAssumption
<1>4. 0 \in Names /\ NoFile \in Held /\ Names = 0 .. MaxAside
  BY <1>2, <1>3 DEF Names, Held, NoFile
<1> QED
  BY <1>1, <1>2, <1>3, <1>4

LEMMA RowsOfFile ==
  ASSUME NEW d \in Seq(Databases), \A f \in 1 .. Len(d) : Dated(d[f].rows), NEW f \in 0 .. Len(d)
  PROVE  LET rows == IF f = NoFile THEN {} ELSE d[f].rows
         IN  rows \in SUBSET Snapshot /\ Dated(rows)
<1>1. Dated({})
  BY FS_EmptySet DEF Dated
<1>2. CASE f = NoFile
  BY <1>1, <1>2
<1>3. CASE f # NoFile
  <2>1. f \in 1 .. Len(d) /\ d[f] \in Databases
    BY <1>3 DEF NoFile
  <2> QED
    BY <1>3, <2>1 DEF Databases
<1> QED
  BY <1>2, <1>3

LEMMA RowsType ==
  ASSUME StoreTypeOK, RowsAreDated, NEW f \in Held
  PROVE  Rows(f) \in SUBSET Snapshot /\ Dated(Rows(f))
BY RowsOfFile DEF Rows, RowsAreDated, Held, StoreTypeOK

\* The same after a step.
LEMMA RowsTypeNext ==
  ASSUME StoreTypeOK', RowsAreDated', NEW f \in Held'
  PROVE  Rows(f)' \in SUBSET Snapshot /\ Dated(Rows(f)')
BY RowsOfFile DEF Rows, RowsAreDated, Held, StoreTypeOK

LEMMA CountUpTo ==
  ASSUME NEW n \in Nat
  PROVE  IsFiniteSet(1 .. n) /\ Cardinality(1 .. n) = n
<1>1. IsFiniteSet(1 .. n) /\ Cardinality(1 .. n) = IF 1 > n THEN 0 ELSE n - 1 + 1
  BY FS_Interval
<1> QED
  BY <1>1

\* freeAsidePath finds a name: there are more than files.
LEMMA FreeAsideIsFree ==
  ASSUME StoreTypeOK, OneName
  PROVE  FreeAside \in Names \ {0} /\ disk[FreeAside].main = NoFile
<1> DEFINE aside == 1 .. MaxAside
           Free == {n \in aside : disk[n].main = NoFile}
<1>1. /\ Len(data) \in Nat /\ Len(data) < MaxAside /\ MaxAside \in Nat
      /\ Names = 0 .. MaxAside /\ aside = Names \ {0}
  BY FileTypes, StoreAssumption
<1>2. Free # {}
  <2> SUFFICES ASSUME \A n \in aside : disk[n].main # NoFile PROVE FALSE
    OBVIOUS
  <2> DEFINE has == [n \in aside |-> disk[n].main]
             files == 1 .. Len(data)
  <2>1. has \in [aside -> files]
    <3>1. ASSUME NEW n \in aside PROVE disk[n].main \in 1 .. Len(data)
      BY <1>1, FileTypes DEF Held, NoFile
    <3> QED
      BY <3>1
  <2>2. IsFiniteSet(aside) /\ Cardinality(aside) = MaxAside
    BY <1>1, CountUpTo
  <2>3. IsFiniteSet(files) /\ Cardinality(files) = Len(data)
    BY <1>1, CountUpTo
  <2> HIDE DEF has, aside, files
  <2>4. \E n, m \in aside : n # m /\ has[n] = has[m]
    <3>1. Cardinality(files) < Cardinality(aside)
      BY <1>1, <2>2, <2>3
    <3> QED
      BY <2>1, <2>2, <2>3, <3>1, FS_PigeonHole
  <2> QED
    BY <1>1, <2>4 DEF OneName, has
<1> DEFINE Less == OpToRel(<, Nat)
<1>3. PICK n \in Free : \A m \in Free : ~ (<<m, n>> \in Less)
  <2>1. IsWellFoundedOn(Less, Nat)
    BY NatLessThanWellFounded
  <2>2. Free \subseteq Nat
    BY <1>1
  <2> HIDE DEF Less, Free
  <2> QED
    BY <1>2, <2>1, <2>2, WFMin
<1>4. n \in Names \ {0} /\ disk[n].main = NoFile
  BY <1>1
<1>5. ASSUME NEW k \in 1 .. n - 1 PROVE disk[k].main # NoFile
  <2>1. k \in aside /\ k < n /\ k \in Nat /\ n \in Nat
    BY <1>1
  <2>2. k \notin Free
    BY <1>3, <2>1 DEF OpToRel
  <2> QED
    BY <2>1, <2>2
<1> QED
  BY <1>4, <1>5 DEF FreeAside

-----------------------------------------------------------------------------
(* What a step that renames nothing leaves as it was. *)

\* Names, logs and versions of the files are what they were.
SameFiles ==
  /\ disk' = disk /\ Len(data') = Len(data)
  /\ \A f \in 1 .. Len(data) : data'[f].legacy = data[f].legacy /\ data'[f].wal = data[f].wal

\* Nobody starts to rename, and a rename goes on or is torn.
NoRename ==
  /\ torn => torn'
  /\ \A p \in Procs : Renaming(p)' => proc'[p] = proc[p]
  /\ \A p \in Procs : Is(p, "wal") => torn' \/ proc'[p] = proc[p]

LEMMA RenamesStay ==
  ASSUME StoreInv, SameFiles, NoRename
  PROVE  OneName' /\ RenamesAlone' /\ OldDatabasesKept'
<1>1. /\ Len(data) \in Nat /\ data \in Seq(Databases) /\ DOMAIN data = 1 .. Len(data)
      /\ \A n \in Names : disk[n].main \in Held
      /\ \A f \in Held : f # NoFile => f \in 1 .. Len(data)
      /\ \A p \in Procs : proc[p].aside \in Names
      /\ 0 \in Names
  BY FileTypes DEF StoreInv, Held, NoFile, Processes
<1>2. OneName'
  BY DEF StoreInv, SameFiles, OneName
<1>3. \A n \in Names : Legacy(disk[n].main)' = Legacy(disk[n].main)
  BY <1>1 DEF SameFiles, Legacy
<1>4. ASSUME NEW p \in Procs, NEW f \in 1 .. Len(data), Is(p, "wal"), proc'[p] = proc[p], MovedHalf(f, p)
      PROVE  MovedHalf(f, p)'
  BY <1>4 DEF SameFiles, MovedHalf, Is
<1>5. RenamesAlone'
  <2> SUFFICES ASSUME ~ torn', NEW p \in Procs
      PROVE  /\ Renaming(p)' => \A q \in Procs \ {p} : ~ Renaming(q)'
             /\ Is(p, "aside")' \/ Is(p, "main")' => Legacy(disk[0].main)'
             /\ Is(p, "main")' => proc'[p].aside # 0 /\ disk'[proc'[p].aside].main = NoFile
             /\ Is(p, "wal")' => /\ proc'[p].aside # 0 /\ disk'[0].main = NoFile
                                 /\ disk'[proc'[p].aside].main # NoFile
                                 /\ MovedHalf(disk[proc[p].aside].main, p)'
    BY DEF RenamesAlone
  <2>1. ~ torn /\ RenamesAlone
    BY DEF NoRename, StoreInv
  <2>2. \A q \in Procs : Renaming(q)' => Renaming(q) /\ proc'[q] = proc[q]
    BY DEF NoRename, Renaming
  <2>3. Renaming(p)' => \A q \in Procs \ {p} : ~ Renaming(q)'
    BY <2>1, <2>2 DEF RenamesAlone
  <2>4. ASSUME Is(p, "wal")'
        PROVE  /\ proc'[p].aside # 0 /\ disk'[0].main = NoFile
               /\ disk'[proc'[p].aside].main # NoFile
               /\ MovedHalf(disk[proc[p].aside].main, p)'
    <3>1. proc'[p] = proc[p] /\ Is(p, "wal")
      BY <2>2, <2>4 DEF Renaming, Is
    <3>2. /\ proc[p].aside # 0 /\ disk[0].main = NoFile
          /\ disk[proc[p].aside].main # NoFile /\ MovedHalf(disk[proc[p].aside].main, p)
      BY <2>1, <3>1 DEF RenamesAlone
    <3>3. disk[proc[p].aside].main \in 1 .. Len(data)
      BY <1>1, <3>2
    <3>4. MovedHalf(disk[proc[p].aside].main, p)'
      BY <3>1, <3>2, <3>3 DEF SameFiles, MovedHalf, Is
    <3> QED
      BY <3>1, <3>2, <3>4 DEF SameFiles
  <2>5. ASSUME Is(p, "aside")' \/ Is(p, "main")'
        PROVE  Legacy(disk[0].main)' /\ proc'[p] = proc[p] /\ (Is(p, "aside") \/ Is(p, "main"))
    <3>1. proc'[p] = proc[p]
      BY <2>2, <2>5 DEF Renaming, Is
    <3>2. Is(p, "aside") \/ Is(p, "main")
      BY <2>5, <3>1 DEF Is
    <3> QED
      BY <1>1, <1>3, <2>1, <3>1, <3>2 DEF RenamesAlone
  <2>6. ASSUME Is(p, "main")' PROVE proc'[p].aside # 0 /\ disk'[proc'[p].aside].main = NoFile
    <3>1. proc'[p] = proc[p] /\ Is(p, "main")
      BY <2>2, <2>6 DEF Renaming, Is
    <3> QED
      BY <2>1, <3>1 DEF RenamesAlone, SameFiles
  <2> QED
    BY <2>3, <2>4, <2>5, <2>6
<1>6. OldDatabasesKept'
  <2> SUFFICES ASSUME ~ torn', NEW f \in DOMAIN data', data'[f].legacy
      PROVE  (\E n \in Names : Whole(f, n)') \/ (\E p \in Procs : MovedHalf(f, p)')
    BY DEF OldDatabasesKept
  <2>1. f \in 1 .. Len(data) /\ data[f].legacy
    <3>1. DOMAIN data' = 1 .. Len(data)
      BY <1>1 DEF SameFiles
    <3> QED
      BY <3>1 DEF SameFiles
  <2>2. ~ torn
    BY DEF NoRename
  <2>3. (\E n \in Names : Whole(f, n)) \/ (\E p \in Procs : MovedHalf(f, p))
    BY <1>1, <2>1, <2>2 DEF StoreInv, OldDatabasesKept
  <2>4. ASSUME NEW n \in Names, Whole(f, n) PROVE Whole(f, n)'
    BY <2>1, <2>4 DEF SameFiles, Whole
  <2>5. ASSUME NEW p \in Procs, MovedHalf(f, p) PROVE MovedHalf(f, p)'
    <3>1. Is(p, "wal") /\ proc'[p] = proc[p]
      BY <2>5 DEF MovedHalf, NoRename
    <3> QED
      BY <1>4, <2>1, <2>5, <3>1
  <2> QED
    BY <2>3, <2>4, <2>5
<1> QED
  BY <1>2, <1>5, <1>6

\* No file loses its newest snapshot, and one it loses was of long ago.
RowsGoOn ==
  \A f \in Held :
    /\ f \in Held' /\ MaxId(Rows(f)') >= MaxId(Rows(f))
    /\ \A r \in Rows(f) \ Rows(f)' : MaxId(Rows(f)') - r.id >= Keep

LEMMA RowsSame ==
  ASSUME StoreInv, Held \subseteq Held', \A f \in Held : Rows(f)' = Rows(f)
  PROVE  RowsGoOn
<1> SUFFICES ASSUME NEW f \in Held
             PROVE  MaxId(Rows(f)') >= MaxId(Rows(f)) /\ Rows(f) \ Rows(f)' = {}
  BY DEF RowsGoOn
<1>1. MaxId(Rows(f)) \in Nat /\ Rows(f)' = Rows(f)
  BY RowsType, MaxIdType DEF StoreInv
<1> QED
  BY <1>1

LEMMA DatesStay ==
  ASSUME StoreInv, data' = data
  PROVE  RowsAreDated'
BY DEF StoreInv, RowsAreDated

Early == {"look", "aside", "main", "wal", "open"}

\* A commit is judged as it would have been: a file without snapshots at most
\* has taken the place of the database.
LEMMA JudgedStays ==
  ASSUME StoreInv, commit'.seen = commit.seen,
         commit'.whole => commit.whole /\ UNCHANGED <<work, index>>,
         \A f \in Held : Rows(f)' = Rows(f),
         Rows(disk[0].main)' = {} \/ disk'[0].main = disk[0].main,
         \/ proc'["hook"] = proc["hook"]
         \/ /\ proc'["hook"].job = proc["hook"].job
            /\ proc["hook"].pc \in Early /\ proc'["hook"].pc \in Early
  PROVE  CommitIsJudged'
<1>1. /\ \A n \in Names : disk[n].main \in Held
      /\ proc["hook"].handle \in Held
      /\ 0 \in Names
  BY FileTypes DEF StoreInv, Processes, Procs
<1>2. Rows(disk[0].main)' = {} \/ Rows(disk[0].main)' = Rows(disk[0].main)
  BY <1>1
<1> SUFFICES ASSUME Committing' PROVE CommitIsJudged'
  BY DEF CommitIsJudged
<1>3. Committing /\ CommitIsJudged
  BY DEF Committing, StoreInv
<1>4. CASE proc'["hook"] = proc["hook"]
  <2>1. Rows(proc["hook"].handle)' = Rows(proc["hook"].handle)
    BY <1>1, <1>4
  <2>2. Seen(Rows(disk[0].main)) => Seen(Rows(disk[0].main))'
    BY <1>2 DEF Seen
  <2>3. SeenButOne(Rows(disk[0].main)) => SeenButOne(Rows(disk[0].main))'
    BY <1>2 DEF SeenButOne
  <2>4. /\ Seen(Rows(proc["hook"].handle)) => Seen(Rows(proc["hook"].handle))'
        /\ SeenButOne(Rows(proc["hook"].handle)) => SeenButOne(Rows(proc["hook"].handle))'
    BY <2>1 DEF Seen, SeenButOne
  <2>5. commit'.whole /\ ShowsTree(Rows(disk[0].main)) => ShowsTree(Rows(disk[0].main))'
    BY <1>2 DEF ShowsTree
  <2>6. commit'.whole /\ disk[0].main = proc["hook"].handle
          => disk'[0].main = proc["hook"].handle \/ ShowsTree(Rows(disk[0].main))'
    BY <1>2 DEF ShowsTree
  <2> QED
    BY <1>3, <1>4, <2>1, <2>2, <2>3, <2>4, <2>5, <2>6 DEF CommitIsJudged, Is
<1>5. CASE proc["hook"].pc \in Early /\ proc'["hook"].pc \in Early
  <2>1. Seen(Rows(disk[0].main))
    BY <1>3, <1>5 DEF CommitIsJudged, Early
  <2>2. Seen(Rows(disk[0].main))'
    BY <1>2, <2>1 DEF Seen
  <2> QED
    BY <1>3, <1>5, <2>2 DEF CommitIsJudged, Is, Early
<1> QED
  BY <1>4, <1>5

-----------------------------------------------------------------------------
(* What people do, and what ends. *)

LEMMA StartOfStore == StoreInit => StoreInv
<1> SUFFICES ASSUME StoreInit PROVE StoreInv
  OBVIOUS
<1>1. /\ disk = [n \in Names |-> [main |-> NoFile, wal |-> NoFile]] /\ data = <<>>
      /\ work = {} /\ index = {} /\ landed = {} /\ proc = [p \in Procs |-> Idle] /\ commit = NoCommitRuns /\ torn = FALSE
  BY DEF StoreInit
<1>2. data \in Seq(Databases) /\ Len(data) = 0 /\ DOMAIN data = {} /\ {MaxFiles, MaxAside} \subseteq Nat
  BY <1>1, StoreAssumption
<1>3. Idle \in Processes
  BY <1>2 DEF Idle, Processes, Steps, Held, NoFile, Names
<1>4. StoreTypeOK
  <2>1. disk \in [Names -> [main : Held, wal : Held]]
    BY <1>1, <1>2 DEF Held, NoFile
  <2>2. commit \in Histories
    BY <1>1 DEF NoCommitRuns, Histories
  <2>3. proc \in [Procs -> Processes]
    BY <1>1, <1>3
  <2>4. Len(data) <= MaxFiles
    BY <1>2
  <2> QED
    BY <1>1, <1>2, <2>1, <2>2, <2>3, <2>4 DEF StoreTypeOK
<1>5. RowsAreDated /\ OldDatabasesKept /\ OneName
  BY <1>1, <1>2 DEF RowsAreDated, OldDatabasesKept, OneName
<1>6. StepsOfCommit /\ RenamesAlone /\ CommitIsJudged
  BY <1>1 DEF StepsOfCommit, RenamesAlone, CommitIsJudged, Idle, Procs, Renaming, Is, Committing
<1> QED
  BY <1>4, <1>5, <1>6 DEF StoreInv

LEMMA EditHolds ==
  ASSUME StoreInv, Edit \/ Stage
  PROVE  StoreInv'
<1>1. /\ UNCHANGED <<disk, data, landed, proc, torn>>
      /\ work' \in SUBSET Violations /\ index' \in SUBSET Violations
      /\ commit' = [commit EXCEPT !.whole = FALSE]
  BY DEF Edit, Stage, StoreInv, StoreTypeOK
<1>2. commit' \in Histories /\ commit'.seen = commit.seen /\ ~ commit'.whole
  BY <1>1 DEF StoreInv, StoreTypeOK, Histories
<1>3. StoreTypeOK'
  BY <1>1, <1>2 DEF StoreInv, StoreTypeOK, Held, Processes
<1>4. OneName' /\ RenamesAlone' /\ OldDatabasesKept'
  BY <1>1, RenamesStay DEF SameFiles, NoRename, Renaming, Is
<1>5. CommitIsJudged'
  BY <1>1, <1>2, JudgedStays DEF Rows
<1>6. StepsOfCommit'
  BY <1>1 DEF StoreInv, StepsOfCommit, Committing
<1> QED
  BY <1>1, <1>3, <1>4, <1>5, <1>6, DatesStay DEF StoreInv

\* A step that only moves a process on, and not into a rename.
LEMMA ProcMoves ==
  ASSUME StoreInv, NEW p \in Procs, NEW r \in Processes, proc' = [proc EXCEPT ![p] = r],
         UNCHANGED <<disk, data, work, index>>, torn' \in BOOLEAN, torn => torn',
         r.pc \notin {"aside", "main", "wal"}, Is(p, "wal") => torn',
         landed' \in SUBSET Violations, commit' \in Histories
  PROVE  /\ StoreTypeOK' /\ RowsAreDated' /\ OneName' /\ RenamesAlone' /\ OldDatabasesKept'
         /\ proc'[p] = r /\ \A q \in Procs \ {p} : proc'[q] = proc[q]
<1>1. proc \in [Procs -> Processes] /\ StoreTypeOK
  BY FileTypes DEF StoreInv
<1>2. proc' \in [Procs -> Processes] /\ proc'[p] = r /\ \A q \in Procs \ {p} : proc'[q] = proc[q]
  BY <1>1
<1>3. StoreTypeOK'
  BY <1>1, <1>2 DEF StoreTypeOK, Held, Processes
<1>4. OneName' /\ RenamesAlone' /\ OldDatabasesKept'
  BY <1>2, RenamesStay DEF SameFiles, NoRename, Renaming, Is
<1> QED
  BY <1>2, <1>3, <1>4, DatesStay

LEMMA StartProcess ==
  ASSUME StoreTypeOK
  PROVE  Idle \in Processes /\ \A job \in {"commit", "post", "index"} : Start(job) \in Processes
<1>1. Idle \in Processes
  BY FileTypes DEF Idle, Processes, Steps
<1> QED
  BY <1>1 DEF Start, Processes, Steps, Idle

LEMMA StartIndexHolds ==
  ASSUME StoreInv, StartIndex
  PROVE  StoreInv'
<1>1. /\ Is("term", "idle") /\ proc' = [proc EXCEPT !["term"] = Start("index")]
      /\ UNCHANGED <<disk, data, work, index, landed, commit, torn>>
  BY DEF StartIndex
<1>2. /\ Start("index") \in Processes /\ Start("index").pc = "look" /\ Start("index").job = "index"
      /\ commit \in Histories /\ landed \in SUBSET Violations /\ torn \in BOOLEAN
  BY StartProcess DEF StoreInv, StoreTypeOK, Start, Idle
<1>3. /\ StoreTypeOK' /\ RowsAreDated' /\ OneName' /\ RenamesAlone' /\ OldDatabasesKept'
      /\ proc'["term"] = Start("index") /\ proc'["hook"] = proc["hook"]
  BY <1>1, <1>2, ProcMoves DEF Procs, Is
<1>4. CommitIsJudged'
  BY <1>1, <1>3, JudgedStays DEF Rows
<1>5. StepsOfCommit'
  BY <1>1, <1>2, <1>3 DEF StoreInv, StepsOfCommit, Committing, Procs
<1> QED
  BY <1>3, <1>4, <1>5 DEF StoreInv

LEMMA CommitHolds ==
  ASSUME StoreInv, Commit
  PROVE  StoreInv'
<1> DEFINE seen == UNION {r.found : r \in Rows(disk[0].main)}
<1>1. /\ Is("hook", "idle") /\ proc' = [proc EXCEPT !["hook"] = Start("commit")]
      /\ commit' = [seen |-> seen, whole |-> index = work]
      /\ UNCHANGED <<disk, data, work, index, landed, torn>>
  BY DEF Commit
<1>2. /\ Start("commit") \in Processes /\ Start("commit").pc = "look" /\ Start("commit").job = "commit"
      /\ landed \in SUBSET Violations /\ torn \in BOOLEAN
  BY StartProcess DEF StoreInv, StoreTypeOK, Start, Idle
<1>3. seen \in SUBSET Violations
  <2>1. Rows(disk[0].main) \in SUBSET Snapshot
    BY RowsType, FileTypes DEF StoreInv
  <2> QED
    BY <2>1 DEF Snapshot
<1>4. commit' \in Histories
  BY <1>1, <1>3 DEF Histories
<1>5. /\ StoreTypeOK' /\ RowsAreDated' /\ OneName' /\ RenamesAlone' /\ OldDatabasesKept'
      /\ proc'["hook"] = Start("commit") /\ proc'["term"] = proc["term"]
  BY <1>1, <1>2, <1>4, ProcMoves DEF Procs, Is
<1>6. CommitIsJudged'
  <2>1. commit'.seen = seen /\ (commit'.whole => index' = work')
    BY <1>1
  <2>2. Seen(Rows(disk[0].main))'
    BY <1>1, <2>1 DEF Seen, Rows
  <2> QED
    BY <1>2, <1>5, <2>1, <2>2 DEF CommitIsJudged, Is
<1>7. StepsOfCommit'
  BY <1>1, <1>2, <1>5 DEF StoreInv, StepsOfCommit, Committing, Procs
<1> QED
  BY <1>5, <1>6, <1>7 DEF StoreInv

\* A process that is idle has no commit to judge.
LEMMA IdleIsIndex ==
  /\ Idle.pc = "idle" /\ Idle.job = "index" /\ Idle.handle = NoFile
  /\ NoCommitRuns \in Histories
BY DEF Idle, NoCommitRuns, Histories

LEMMA CheckHeadHolds ==
  ASSUME StoreInv, CheckHead
  PROVE  StoreInv'
<1> DEFINE f == disk[0].main
<1>1. UNCHANGED <<disk, data, work, index, landed, torn>> /\ Is("hook", "head")
  BY DEF CheckHead
<1>2. /\ landed \in SUBSET Violations /\ torn \in BOOLEAN /\ commit \in Histories
      /\ f \in Held /\ proc["hook"] \in Processes
      /\ Rows(f) \in SUBSET Snapshot /\ Dated(Rows(f))
  BY FileTypes, RowsType DEF StoreInv, StoreTypeOK, Procs
<1>3. CASE Legacy(f) \/ Rows(f) = {}
  <2>1. proc' = [proc EXCEPT !["hook"] = Idle] /\ commit' = NoCommitRuns
    BY <1>3 DEF CheckHead, Exit
  <2>2. /\ StoreTypeOK' /\ RowsAreDated' /\ OneName' /\ RenamesAlone' /\ OldDatabasesKept'
        /\ proc'["hook"] = Idle /\ proc'["term"] = proc["term"]
    BY <1>1, <1>2, <2>1, ProcMoves, StartProcess, IdleIsIndex DEF Procs, Is, StoreInv
  <2>3. CommitIsJudged' /\ StepsOfCommit'
    BY <2>2, IdleIsIndex DEF CommitIsJudged, Committing, StoreInv, StepsOfCommit, Procs
  <2> QED
    BY <2>2, <2>3 DEF StoreInv
<1>4. CASE ~ (Legacy(f) \/ Rows(f) = {})
  <2> DEFINE r == [proc["hook"] EXCEPT !.pc = "base", !.handle = f, !.head = MaxId(Rows(f))]
  <2>1. proc' = [proc EXCEPT !["hook"] = r] /\ commit' = commit
    BY <1>4, FileTypes DEF CheckHead, StoreInv, Procs
  <2>2. /\ r \in Processes /\ r.pc = "base" /\ r.job = proc["hook"].job /\ r.handle = f
        /\ r.head = MaxId(Rows(f))
    <3>1. MaxId(Rows(f)) \in Nat
      BY <1>2, MaxIdType
    <3> QED
      BY <1>2, <3>1 DEF Processes, Steps
  <2> HIDE DEF r
  <2>3. /\ StoreTypeOK' /\ RowsAreDated' /\ OneName' /\ RenamesAlone' /\ OldDatabasesKept'
        /\ proc'["hook"] = r /\ proc'["term"] = proc["term"]
    BY <1>1, <1>2, <2>1, <2>2, ProcMoves DEF Procs, Is
  <2>4. StepsOfCommit'
    BY <1>1, <2>2, <2>3 DEF StoreInv, StepsOfCommit, Committing, Procs, Is
  <2>5. CommitIsJudged'
    <3> SUFFICES ASSUME Committing'
        PROVE  /\ SeenButOne(Rows(f))'
               /\ commit'.whole => /\ index' = work'
                                  /\ \A q \in Rows(f)' : q.id = r.head => q.found = work'
      BY <1>1, <2>2, <2>3 DEF CommitIsJudged, Is
    <3>1. Committing /\ Rows(f)' = Rows(f)
      BY <1>1, <2>2, <2>3 DEF Committing, Rows
    <3>2. /\ SeenButOne(Rows(f))
          /\ commit.whole => index = work /\ ShowsTree(Rows(f))
      BY <1>1, <3>1 DEF StoreInv, CommitIsJudged, Is
    <3>3. \A q \in Rows(f) : q.id = r.head => q = Newest(Rows(f))
      BY <1>2, <1>4, <2>2, NewestIsLast DEF Dated
    <3> QED
      BY <1>1, <1>4, <2>1, <3>1, <3>2, <3>3 DEF SeenButOne, ShowsTree
  <2> QED
    BY <2>3, <2>4, <2>5 DEF StoreInv
<1> QED
  BY <1>3, <1>4

\* Of the two snapshots that are compared, one is not the hook's own, so that a
\* snapshot seen otherwise shows what the judged one shows.
LEMMA JudgedWasSeen ==
  ASSUME StoreInv, CheckBaseline, landed' # landed,
         NEW judged, judged = ById(Rows(proc["hook"].handle), proc["hook"].head)
  PROVE  judged.found \subseteq commit.seen /\ (commit.whole => landed' \subseteq commit.seen)
<1> DEFINE rows == Rows(proc["hook"].handle)
           head == proc["hook"].head
           others == {r \in NewestFew(rows, 5) : r.id # head}
<1>1. Is("hook", "base") /\ ~ Blocks(ById(rows, head), PreviousInCheck(rows, head)) /\ landed' = index
  BY DEF CheckBaseline
<1>2. Committing /\ rows \in SUBSET Snapshot /\ Dated(rows)
  BY <1>1, RowsType, FileTypes DEF StoreInv, StepsOfCommit, Processes, Procs, Is
<1>3. PICK n \in Nat : \A r \in rows : r.id # n => r.found \subseteq commit.seen
  BY <1>1, <1>2 DEF StoreInv, CommitIsJudged, SeenButOne
<1>4. judged \in rows /\ judged.id = head
  BY <1>1 DEF Blocks, ById
<1>5. PreviousInCheck(rows, head) \in others
  <2>1. others \in SUBSET rows
    BY DEF NewestFew
  <2>2. others \in SUBSET Snapshot /\ IsFiniteSet(others)
    BY <1>2, <2>1, FS_Subset DEF Dated
  <2>3. others # {}
    BY <1>1 DEF Blocks, PreviousInCheck, Newest
  <2> HIDE DEF others
  <2>4. Newest(others) \in others
    BY <2>2, <2>3, NewestThere
  <2> QED
    BY <2>4 DEF PreviousInCheck, others
<1>6. PreviousInCheck(rows, head) \in rows /\ PreviousInCheck(rows, head).id # head
  BY <1>5 DEF NewestFew
<1>7. judged.found \subseteq PreviousInCheck(rows, head).found
  BY <1>1 DEF Blocks
<1>8. judged.found \subseteq commit.seen
  BY <1>3, <1>4, <1>6, <1>7
<1>9. commit.whole => landed' = judged.found
  BY <1>1, <1>2, <1>4 DEF StoreInv, CommitIsJudged
<1> QED
  BY <1>8, <1>9

LEMMA CheckBaselineHolds ==
  ASSUME StoreInv, CheckBaseline
  PROVE  StoreInv'
<1>1. /\ UNCHANGED <<disk, data, work, index, torn>> /\ Is("hook", "base") /\ commit' = NoCommitRuns
      /\ landed' = landed \/ landed' = index
      /\ proc' = [proc EXCEPT !["hook"] = Start("post")] \/ proc' = [proc EXCEPT !["hook"] = Idle]
  BY DEF CheckBaseline, Exit
<1>2. /\ landed' \in SUBSET Violations /\ torn \in BOOLEAN
      /\ commit' \in Histories
  BY <1>1, IdleIsIndex DEF StoreInv, StoreTypeOK
<1>3. /\ Start("post") \in Processes /\ Start("post").pc = "look" /\ Start("post").job = "post"
      /\ Idle \in Processes
  BY StartProcess DEF StoreInv, Start, Idle
<1>4. PICK r \in {Start("post"), Idle} : proc' = [proc EXCEPT !["hook"] = r]
  BY <1>1
<1>5. /\ r \in Processes /\ r.pc \in {"look", "idle"} /\ r.job # "commit"
  BY <1>3, IdleIsIndex
<1>6. /\ StoreTypeOK' /\ RowsAreDated' /\ OneName' /\ RenamesAlone' /\ OldDatabasesKept'
      /\ proc'["hook"] = r /\ proc'["term"] = proc["term"]
  BY <1>1, <1>2, <1>4, <1>5, ProcMoves DEF Procs, Is
<1>7. CommitIsJudged' /\ StepsOfCommit'
  BY <1>5, <1>6 DEF CommitIsJudged, Committing, StoreInv, StepsOfCommit, Procs
<1> QED
  BY <1>6, <1>7 DEF StoreInv

LEMMA KillHolds ==
  ASSUME StoreInv, NEW p \in Procs, Kill(p)
  PROVE  StoreInv'
<1>1. /\ UNCHANGED <<disk, data, work, index, landed>> /\ proc' = [proc EXCEPT ![p] = Idle]
      /\ torn' = (torn \/ Is(p, "wal"))
      /\ commit' = IF p = "hook" THEN NoCommitRuns ELSE commit
  BY DEF Kill, Exit
<1>2. /\ landed \in SUBSET Violations /\ torn' \in BOOLEAN /\ commit' \in Histories /\ Idle \in Processes
  BY <1>1, IdleIsIndex, StartProcess DEF StoreInv, StoreTypeOK
<1>3. /\ StoreTypeOK' /\ RowsAreDated' /\ OneName' /\ RenamesAlone' /\ OldDatabasesKept'
      /\ proc'[p] = Idle /\ \A q \in Procs \ {p} : proc'[q] = proc[q]
  BY <1>1, <1>2, IdleIsIndex, ProcMoves
<1>4. StepsOfCommit'
  BY <1>3, IdleIsIndex DEF Committing, StoreInv, StepsOfCommit, Procs
<1>5. CASE p = "hook"
  BY <1>3, <1>4, <1>5, IdleIsIndex DEF CommitIsJudged, Committing, StoreInv
<1>6. CASE p # "hook"
  <2>1. proc'["hook"] = proc["hook"] /\ commit' = commit
    BY <1>1, <1>3, <1>6 DEF Procs
  <2>2. CommitIsJudged'
    BY <1>1, <2>1, JudgedStays DEF Rows
  <2> QED
    BY <1>3, <1>4, <2>2 DEF StoreInv
<1> QED
  BY <1>5, <1>6

-----------------------------------------------------------------------------
(* graph index renames an old database aside. *)

\* A step of the rename that leaves the files alone.
LEMMA LookHolds ==
  ASSUME StoreInv, NEW p \in Procs, Look(p)
  PROVE  StoreInv'
<1> DEFINE to == IF Legacy(disk[0].main) THEN "aside" ELSE "open"
<1>1. /\ UNCHANGED <<disk, data, work, index, landed, commit>> /\ Is(p, "look")
      /\ proc' = [proc EXCEPT ![p].pc = to]
      /\ torn' = (torn \/ (Legacy(disk[0].main) /\ \E q \in Procs \ {p} : Renaming(q)))
  BY DEF Look, Goto
<1>2. proc \in [Procs -> Processes] /\ torn \in BOOLEAN /\ StoreTypeOK
  BY FileTypes DEF StoreInv, StoreTypeOK
<1>3. /\ proc' \in [Procs -> Processes] /\ proc'[p].pc = to /\ proc'[p].job = proc[p].job
      /\ \A q \in Procs \ {p} : proc'[q] = proc[q]
  BY <1>1, <1>2 DEF Processes, Steps
<1>4. StoreTypeOK'
  BY <1>1, <1>2, <1>3 DEF StoreTypeOK, Held, Processes
<1>5. OneName' /\ StepsOfCommit'
  BY <1>1, <1>3 DEF StoreInv, OneName, StepsOfCommit, Committing, Procs, Is
<1>6. CommitIsJudged'
  <2>1. proc'["hook"] = proc["hook"] \/ (proc'["hook"].job = proc["hook"].job
           /\ proc["hook"].pc \in Early /\ proc'["hook"].pc \in Early)
    BY <1>1, <1>3 DEF Early, Is, Procs
  <2> QED
    BY <1>1, <2>1, JudgedStays DEF Rows
<1>7. RenamesAlone' /\ OldDatabasesKept'
  <2>1. CASE ~ Legacy(disk[0].main)
    <3>1. ~ Renaming(p)' /\ ~ Is(p, "wal")
      BY <1>1, <1>3, <2>1 DEF Renaming, Is
    <3> QED
      BY <1>1, <1>3, <3>1, RenamesStay DEF SameFiles, NoRename
  <2>2. CASE torn'
    BY <2>2 DEF RenamesAlone, OldDatabasesKept
  <2>3. CASE Legacy(disk[0].main) /\ ~ torn'
    <3>1. ~ torn /\ \A q \in Procs \ {p} : ~ Renaming(q) /\ ~ Renaming(q)'
      BY <1>1, <1>3, <2>3 DEF Renaming
    <3>2. \A q \in Procs : ~ Is(q, "wal") /\ ~ Is(q, "wal")'
      BY <1>1, <1>3, <2>3, <3>1 DEF Renaming, Is
    <3>3. Legacy(disk[0].main)'
      BY <1>1, <2>3 DEF Legacy
    <3>4. RenamesAlone'
      BY <1>3, <2>3, <3>1, <3>2, <3>3 DEF RenamesAlone, Renaming, Is
    <3>5. OldDatabasesKept'
      BY <1>1, <3>1, <3>2 DEF StoreInv, OldDatabasesKept, MovedHalf, Whole
    <3> QED
      BY <3>4, <3>5
  <2> QED
    BY <2>1, <2>2, <2>3
<1> QED
  BY <1>1, <1>4, <1>5, <1>6, <1>7, DatesStay DEF StoreInv

LEMMA PickAsideHolds ==
  ASSUME StoreInv, NEW p \in Procs, PickAside(p)
  PROVE  StoreInv'
<1>1. /\ UNCHANGED <<disk, data, work, index, landed, commit, torn>> /\ Is(p, "aside")
      /\ proc' = [proc EXCEPT ![p].pc = "main", ![p].aside = FreeAside]
  BY DEF PickAside
<1>2. proc \in [Procs -> Processes] /\ StoreTypeOK
  BY FileTypes DEF StoreInv
<1>3. FreeAside \in Names \ {0} /\ disk[FreeAside].main = NoFile
  BY FreeAsideIsFree DEF StoreInv
<1>4. /\ proc' \in [Procs -> Processes] /\ proc'[p].pc = "main" /\ proc'[p].job = proc[p].job
      /\ proc'[p].aside = FreeAside
      /\ \A q \in Procs \ {p} : proc'[q] = proc[q]
  BY <1>1, <1>2, <1>3 DEF Processes, Steps
<1>5. StoreTypeOK'
  BY <1>1, <1>2, <1>4 DEF StoreTypeOK, Held, Processes
<1>6. OneName' /\ StepsOfCommit'
  BY <1>1, <1>4 DEF StoreInv, OneName, StepsOfCommit, Committing, Procs, Is
<1>7. CommitIsJudged'
  <2>1. proc'["hook"] = proc["hook"] \/ (proc'["hook"].job = proc["hook"].job
           /\ proc["hook"].pc \in Early /\ proc'["hook"].pc \in Early)
    BY <1>1, <1>4 DEF Early, Is, Procs
  <2> QED
    BY <1>1, <2>1, JudgedStays DEF Rows
<1>8. ASSUME ~ torn PROVE RenamesAlone' /\ OldDatabasesKept'
  <2>1. Legacy(disk[0].main) /\ \A q \in Procs \ {p} : ~ Renaming(q) /\ ~ Renaming(q)'
    BY <1>1, <1>4, <1>8 DEF StoreInv, RenamesAlone, Renaming, Is
  <2>2. \A q \in Procs : ~ Is(q, "wal") /\ ~ Is(q, "wal")'
    BY <1>1, <1>4, <2>1 DEF Renaming, Is
  <2>3. Legacy(disk[0].main)'
    BY <1>1, <2>1 DEF Legacy
  <2>4. RenamesAlone'
    BY <1>1, <1>3, <1>4, <2>1, <2>2, <2>3 DEF RenamesAlone, Renaming, Is
  <2>5. OldDatabasesKept'
    BY <1>1, <1>8, <2>2 DEF StoreInv, OldDatabasesKept, MovedHalf, Whole
  <2> QED
    BY <2>4, <2>5
<1>9. ASSUME torn PROVE RenamesAlone' /\ OldDatabasesKept'
  BY <1>1, <1>9 DEF RenamesAlone, OldDatabasesKept
<1> QED
  BY <1>1, <1>5, <1>6, <1>7, <1>8, <1>9, DatesStay DEF StoreInv

\* The database goes to the name chosen, the log still to follow.
LEMMA MainMoved ==
  ASSUME StoreInv, NEW p \in Procs, MoveMain(p), disk[0].main # NoFile
  PROVE  /\ disk' \in [Names -> [main : Held, wal : Held]]
         /\ \A n \in Names :
              /\ disk'[n].wal = disk[n].wal
              /\ disk'[n].main = IF n = proc[p].aside THEN disk[0].main
                                 ELSE IF n = 0 THEN NoFile ELSE disk[n].main
<1> DEFINE a == proc[p].aside
           Entries == [main : Held, wal : Held]
<1>1. /\ disk \in [Names -> Entries] /\ 0 \in Names /\ NoFile \in Held
  BY FileTypes DEF StoreInv
<1>2. a \in Names
  BY FileTypes DEF StoreInv, Processes
<1>3. disk' = [disk EXCEPT ![0].main = NoFile, ![a].main = disk[0].main]
  BY DEF MoveMain
<1> HIDE DEF a
<1> DEFINE once == [disk EXCEPT ![0].main = NoFile]
<1>4. /\ once \in [Names -> Entries]
      /\ \A n \in Names : once[n].wal = disk[n].wal /\ once[n].main = IF n = 0 THEN NoFile ELSE disk[n].main
  BY <1>1
<1>5. disk' = [once EXCEPT ![a].main = disk[0].main] /\ disk[0].main \in Held
  BY <1>1, <1>3
<1> HIDE DEF once
<1>6. /\ disk' \in [Names -> Entries]
      /\ \A n \in Names : disk'[n].wal = once[n].wal
                          /\ disk'[n].main = IF n = a THEN disk[0].main ELSE once[n].main
  BY <1>2, <1>4, <1>5
<1> QED
  BY <1>4, <1>6 DEF a

\* What a step of the rename does to its process.
LEMMA RenameGoesOn ==
  ASSUME StoreInv, NEW p \in Procs, NEW to \in {"wal", "open"}, Goto(p, to), proc[p].pc \in {"main", "wal"}
  PROVE  /\ proc' \in [Procs -> Processes] /\ proc'[p].pc = to /\ proc'[p].job = proc[p].job
         /\ proc'[p].aside = proc[p].aside
         /\ \A q \in Procs \ {p} : proc'[q] = proc[q]
         /\ StepsOfCommit'
         /\ \/ proc'["hook"] = proc["hook"]
            \/ /\ proc'["hook"].job = proc["hook"].job
               /\ proc["hook"].pc \in Early /\ proc'["hook"].pc \in Early
<1>1. proc \in [Procs -> Processes] /\ proc' = [proc EXCEPT ![p].pc = to]
  BY FileTypes DEF StoreInv, Goto
<1>2. /\ proc' \in [Procs -> Processes] /\ proc'[p].pc = to /\ proc'[p].job = proc[p].job
      /\ proc'[p].aside = proc[p].aside
      /\ \A q \in Procs \ {p} : proc'[q] = proc[q]
  BY <1>1 DEF Processes, Steps
<1>3. StepsOfCommit'
  BY <1>2 DEF StoreInv, StepsOfCommit, Committing, Procs
<1> QED
  BY <1>2, <1>3 DEF Early, Procs

LEMMA MoveMainHolds ==
  ASSUME StoreInv, NEW p \in Procs, MoveMain(p)
  PROVE  StoreInv'
<1> DEFINE a == proc[p].aside
<1>0. PICK f : f = disk[0].main
  OBVIOUS
<1>1. /\ UNCHANGED <<data, work, index, landed, commit, torn>> /\ Is(p, "main") /\ Goto(p, "wal")
      /\ f = NoFile => disk' = disk
  BY <1>0 DEF MoveMain
<1>2. /\ proc' \in [Procs -> Processes] /\ proc'[p].pc = "wal" /\ proc'[p].job = proc[p].job /\ proc'[p].aside = a
      /\ \A q \in Procs \ {p} : proc'[q] = proc[q]
      /\ StepsOfCommit'
      /\ \/ proc'["hook"] = proc["hook"]
         \/ /\ proc'["hook"].job = proc["hook"].job
            /\ proc["hook"].pc \in Early /\ proc'["hook"].pc \in Early
  BY <1>1, RenameGoesOn DEF Is
<1>3. /\ disk \in [Names -> [main : Held, wal : Held]] /\ 0 \in Names /\ NoFile \in Held /\ a \in Names
      /\ StoreTypeOK
      /\ DOMAIN data = 1 .. Len(data) /\ \A g \in Held : g # NoFile => g \in 1 .. Len(data)
      /\ \A g \in 1 .. Len(data) : g # NoFile
  BY FileTypes DEF StoreInv, Processes, Held, NoFile
<1>4. StoreTypeOK'
  BY <1>0, <1>1, <1>2, <1>3, MainMoved DEF StoreTypeOK, Held, Processes
<1>5. OneName'
  BY <1>0, <1>1, <1>3, MainMoved DEF StoreInv, OneName
<1>6. CommitIsJudged'
  <2>1. Rows(disk[0].main)' = {} \/ disk'[0].main = disk[0].main
    BY <1>0, <1>1, <1>3, MainMoved DEF Rows
  <2> QED
    BY <1>1, <1>2, <2>1, JudgedStays DEF Rows
<1>7. ASSUME ~ torn PROVE RenamesAlone' /\ OldDatabasesKept'
  <2>1. /\ Legacy(f) /\ a # 0 /\ disk[a].main = NoFile
        /\ \A q \in Procs \ {p} : ~ Renaming(q)
    BY <1>0, <1>1, <1>7 DEF StoreInv, RenamesAlone, Renaming, Is
  <2>2. f # NoFile /\ f \in 1 .. Len(data) /\ data[f].legacy
    <3>1. f # NoFile /\ data[f].legacy
      BY <2>1 DEF Legacy
    <3> QED
      BY <1>0, <1>3, <3>1
  <2>3. \A n \in Names : /\ disk'[n].wal = disk[n].wal
                         /\ disk'[n].main = IF n = a THEN f ELSE IF n = 0 THEN NoFile ELSE disk[n].main
    BY <1>0, <2>2, MainMoved
  <2>4. \A q \in Procs : ~ Is(q, "wal")
    BY <1>1, <2>1 DEF Renaming, Is
  <2>5. data[f].wal => disk[0].wal = f
    <3>1. PICK n \in Names : Whole(f, n)
      BY <1>3, <1>7, <2>2, <2>4 DEF StoreInv, OldDatabasesKept, MovedHalf
    <3>2. n = 0
      BY <1>0, <1>3, <2>2, <3>1 DEF StoreInv, OneName, Whole
    <3> QED
      BY <3>1, <3>2 DEF Whole
  <2>6. MovedHalf(f, p)'
    BY <1>1, <1>2, <1>3, <2>3, <2>5 DEF MovedHalf, Is
  <2>7. RenamesAlone'
    <3>1. \A q \in Procs \ {p} : ~ Renaming(q)' /\ ~ Is(q, "aside")' /\ ~ Is(q, "main")' /\ ~ Is(q, "wal")'
      BY <1>2, <2>1 DEF Renaming, Is
    <3>2. /\ ~ Is(p, "aside")' /\ ~ Is(p, "main")'
          /\ proc'[p].aside # 0 /\ disk'[0].main = NoFile /\ disk'[proc'[p].aside].main = f
      BY <1>2, <1>3, <2>1, <2>3 DEF Is
    <3>3. MovedHalf(disk[proc[p].aside].main, p)'
      BY <2>6, <3>2 DEF MovedHalf
    <3> QED
      BY <2>2, <3>1, <3>2, <3>3 DEF RenamesAlone
  <2>8. OldDatabasesKept'
    <3> SUFFICES ASSUME NEW g \in DOMAIN data', data'[g].legacy
        PROVE  (\E n \in Names : Whole(g, n)') \/ (\E q \in Procs : MovedHalf(g, q)')
      BY DEF OldDatabasesKept
    <3>1. CASE g = f
      BY <2>6, <3>1
    <3>2. CASE g # f
      <4>1. g \in 1 .. Len(data) /\ data[g].legacy
        BY <1>1, <1>3
      <4>2. PICK n \in Names : Whole(g, n)
        BY <1>3, <1>7, <2>4, <4>1 DEF StoreInv, OldDatabasesKept, MovedHalf
      <4>3. n # 0 /\ n # a
        BY <1>0, <1>3, <2>1, <3>2, <4>1, <4>2 DEF Whole
      <4> QED
        BY <1>1, <2>3, <4>2, <4>3 DEF Whole
    <3> QED
      BY <3>1, <3>2
  <2> QED
    BY <2>7, <2>8
<1>8. ASSUME torn PROVE RenamesAlone' /\ OldDatabasesKept'
  BY <1>1, <1>8 DEF RenamesAlone, OldDatabasesKept
<1> QED
  BY <1>1, <1>2, <1>4, <1>5, <1>6, <1>7, <1>8, DatesStay DEF StoreInv

LEMMA WalMoved ==
  ASSUME StoreInv, NEW p \in Procs, MoveWal(p)
  PROVE  /\ disk' \in [Names -> [main : Held, wal : Held]]
         /\ \A n \in Names : disk'[n].main = disk[n].main
         /\ \A n \in Names \ {0, proc[p].aside} : disk'[n].wal = disk[n].wal
         /\ disk[0].wal # NoFile => disk'[proc[p].aside].wal = disk[0].wal
<1> DEFINE a == proc[p].aside
           Entries == [main : Held, wal : Held]
<1>1. /\ disk \in [Names -> Entries] /\ 0 \in Names /\ NoFile \in Held
  BY FileTypes DEF StoreInv
<1>2. a \in Names
  BY FileTypes DEF StoreInv, Processes
<1>3. disk' = IF disk[0].wal = NoFile THEN disk
              ELSE [disk EXCEPT ![0].wal = NoFile, ![a].wal = disk[0].wal]
  BY DEF MoveWal
<1> HIDE DEF a
<1>4. CASE disk[0].wal = NoFile
  BY <1>1, <1>3, <1>4 DEF a
<1>5. CASE disk[0].wal # NoFile
  <2> DEFINE once == [disk EXCEPT ![0].wal = NoFile]
  <2>1. /\ once \in [Names -> Entries]
        /\ \A n \in Names : once[n].main = disk[n].main /\ once[n].wal = IF n = 0 THEN NoFile ELSE disk[n].wal
    BY <1>1
  <2>2. disk' = [once EXCEPT ![a].wal = disk[0].wal] /\ disk[0].wal \in Held
    BY <1>1, <1>3, <1>5
  <2> HIDE DEF once
  <2>3. /\ disk' \in [Names -> Entries]
        /\ \A n \in Names : disk'[n].main = once[n].main
                            /\ disk'[n].wal = IF n = a THEN disk[0].wal ELSE once[n].wal
    BY <1>2, <2>1, <2>2
  <2> QED
    BY <1>2, <2>1, <2>3 DEF a
<1> QED
  BY <1>4, <1>5

LEMMA MoveWalHolds ==
  ASSUME StoreInv, NEW p \in Procs, MoveWal(p)
  PROVE  StoreInv'
<1> DEFINE a == proc[p].aside
           f == disk[a].main
<1>1. UNCHANGED <<data, work, index, landed, commit, torn>> /\ Is(p, "wal") /\ Goto(p, "open")
  BY DEF MoveWal
<1>2. /\ proc' \in [Procs -> Processes] /\ proc'[p].pc = "open" /\ proc'[p].job = proc[p].job /\ proc'[p].aside = a
      /\ \A q \in Procs \ {p} : proc'[q] = proc[q]
      /\ StepsOfCommit'
      /\ \/ proc'["hook"] = proc["hook"]
         \/ /\ proc'["hook"].job = proc["hook"].job
            /\ proc["hook"].pc \in Early /\ proc'["hook"].pc \in Early
  BY <1>1, RenameGoesOn DEF Is
<1>3. /\ 0 \in Names /\ a \in Names /\ StoreTypeOK
      /\ DOMAIN data = 1 .. Len(data) /\ \A g \in Held : g # NoFile => g \in 1 .. Len(data)
      /\ \A g \in 1 .. Len(data) : g # NoFile
  BY FileTypes DEF StoreInv, Processes, Held, NoFile
<1>4. StoreTypeOK'
  BY <1>1, <1>2, <1>3, WalMoved DEF StoreTypeOK, Held, Processes
<1>5. OneName'
  BY <1>3, WalMoved DEF StoreInv, OneName
<1>6. CommitIsJudged'
  BY <1>1, <1>2, <1>3, WalMoved, JudgedStays DEF Rows
<1>7. ASSUME ~ torn PROVE RenamesAlone' /\ OldDatabasesKept'
  <2>1. /\ a # 0 /\ disk[0].main = NoFile /\ MovedHalf(f, p)
        /\ \A q \in Procs \ {p} : ~ Renaming(q)
    BY <1>1, <1>7 DEF StoreInv, RenamesAlone, Renaming, Is
  <2>2. \A q \in Procs : ~ Renaming(q)' /\ ~ Is(q, "aside")' /\ ~ Is(q, "main")' /\ ~ Is(q, "wal")'
    BY <1>2, <2>1 DEF Renaming, Is
  <2>3. RenamesAlone'
    BY <2>2 DEF RenamesAlone
  <2>4. OldDatabasesKept'
    <3> SUFFICES ASSUME NEW g \in DOMAIN data', data'[g].legacy
        PROVE  \E n \in Names : Whole(g, n)'
      BY DEF OldDatabasesKept
    <3>1. g \in 1 .. Len(data) /\ data[g].legacy
      BY <1>1, <1>3
    <3>2. CASE g = f
      <4>1. data[f].wal => disk'[a].wal = f
        BY <1>3, <2>1, <3>1, <3>2, WalMoved DEF MovedHalf
      <4> QED
        BY <1>1, <1>3, <3>2, <4>1, WalMoved DEF Whole
    <3>3. CASE g # f
      <4>1. ~ \E q \in Procs : MovedHalf(g, q)
        BY <2>1, <3>3 DEF MovedHalf, Renaming, Is
      <4>2. PICK n \in Names : Whole(g, n)
        BY <1>3, <1>7, <3>1, <4>1 DEF StoreInv, OldDatabasesKept
      <4>3. n # 0 /\ n # a
        BY <1>3, <2>1, <3>1, <3>3, <4>2 DEF Whole
      <4> QED
        BY <1>1, <4>2, <4>3, WalMoved DEF Whole
    <3> QED
      BY <3>2, <3>3
  <2> QED
    BY <2>3, <2>4
<1>8. ASSUME torn PROVE RenamesAlone' /\ OldDatabasesKept'
  BY <1>1, <1>8 DEF RenamesAlone, OldDatabasesKept
<1> QED
  BY <1>1, <1>2, <1>4, <1>5, <1>6, <1>7, <1>8, DatesStay DEF StoreInv

-----------------------------------------------------------------------------
(* Databases and snapshots are added. *)

LEMMA FileAdded ==
  ASSUME StoreInv, NEW d \in Databases, d.rows = {}, Len(data) < MaxFiles, data' = Append(data, d),
         NEW w \in {NoFile, Len(data')}, disk' = [disk EXCEPT ![0] = [main |-> Len(data'), wal |-> w]]
  PROVE  /\ data' \in Seq(Databases) /\ Len(data') = Len(data) + 1 /\ Len(data') <= MaxFiles
         /\ DOMAIN data' = 1 .. Len(data')
         /\ \A f \in 1 .. Len(data) : data'[f] = data[f]
         /\ data'[Len(data')] = d
         /\ Held \subseteq Held' /\ Len(data') \in Held' \ {NoFile}
         /\ disk' \in [Names -> [main : Held', wal : Held']]
         /\ \A n \in Names \ {0} : disk'[n] = disk[n]
         /\ disk'[0].main = Len(data') /\ disk'[0].wal = w
         /\ RowsAreDated' /\ OneName'
         /\ \A f \in Held : Rows(f)' = Rows(f)
         /\ Rows(disk[0].main)' = {}
<1>1. data \in Seq(Databases) /\ Len(data) \in Nat /\ MaxFiles \in Nat
  BY FileTypes DEF StoreInv
<1>2. /\ data' \in Seq(Databases) /\ Len(data') = Len(data) + 1 /\ DOMAIN data' = 1 .. Len(data')
      /\ \A f \in 1 .. Len(data) : data'[f] = data[f]
      /\ data'[Len(data')] = d
  BY <1>1
<1>3. Len(data') <= MaxFiles
  BY <1>1, <1>2
<1>4. Held \subseteq Held' /\ Len(data') \in Held' \ {NoFile} /\ w \in Held'
  BY <1>1, <1>2 DEF Held, NoFile
<1>5. disk \in [Names -> [main : Held, wal : Held]] /\ 0 \in Names
      /\ \A n \in Names : disk[n].main \in Held
  BY FileTypes DEF StoreInv
<1>6. /\ disk' \in [Names -> [main : Held', wal : Held']]
      /\ \A n \in Names \ {0} : disk'[n] = disk[n]
      /\ disk'[0].main = Len(data') /\ disk'[0].wal = w
  <2>1. disk \in [Names -> [main : Held', wal : Held']]
    BY <1>4, <1>5
  <2>2. [main |-> Len(data'), wal |-> w] \in [main : Held', wal : Held']
    BY <1>4
  <2> QED
    BY <1>5, <2>1, <2>2
<1>7. RowsAreDated'
  <2>1. Dated({})
    BY FS_EmptySet DEF Dated
  <2>2. ASSUME NEW f \in 1 .. Len(data') PROVE Dated(data'[f].rows)
    <3>1. f \in 1 .. Len(data) \/ f = Len(data')
      BY <1>1, <1>2
    <3> QED
      BY <1>2, <2>1, <3>1 DEF StoreInv, RowsAreDated
  <2> QED
    BY <2>2 DEF RowsAreDated
<1>8. OneName'
  <2>1. Len(data') \notin Held
    BY <1>1, <1>2 DEF Held
  <2> QED
    BY <1>5, <1>6, <2>1 DEF StoreInv, OneName
<1>9. \A f \in Held : Rows(f)' = Rows(f)
  BY <1>1, <1>2 DEF Rows, Held, NoFile
<1>10. Rows(disk[0].main)' = {}
  BY <1>2, <1>6 DEF Rows
<1> QED
  BY <1>2, <1>3, <1>4, <1>6, <1>7, <1>8, <1>9, <1>10

LEMMA PutOldHolds ==
  ASSUME StoreInv, PutOld
  PROVE  StoreInv' /\ RowsGoOn
<1>1. /\ UNCHANGED <<work, index, landed, proc, commit, torn>> /\ \A p \in Procs : Is(p, "idle")
      /\ Len(data) < MaxFiles /\ ~ Legacy(disk[0].main)
  BY DEF PutOld
<1>2. PICK log \in BOOLEAN :
        /\ data' = Append(data, OldFile(log))
        /\ disk' = [disk EXCEPT ![0] = [main |-> Len(data'), wal |-> IF log THEN Len(data') ELSE NoFile]]
  BY DEF PutOld
<1> DEFINE d == OldFile(log)
           w == IF log THEN Len(data') ELSE NoFile
<1>3. d \in Databases /\ d.rows = {} /\ d.wal = log /\ w \in {NoFile, Len(data')}
  BY DEF OldFile, Databases
<1>4. /\ data' \in Seq(Databases) /\ Len(data') = Len(data) + 1 /\ Len(data') <= MaxFiles
      /\ DOMAIN data' = 1 .. Len(data')
      /\ \A f \in 1 .. Len(data) : data'[f] = data[f]
      /\ data'[Len(data')] = d
      /\ Held \subseteq Held'
      /\ disk' \in [Names -> [main : Held', wal : Held']]
      /\ \A n \in Names \ {0} : disk'[n] = disk[n]
      /\ disk'[0].main = Len(data') /\ disk'[0].wal = w
      /\ RowsAreDated' /\ OneName'
      /\ \A f \in Held : Rows(f)' = Rows(f)
      /\ Rows(disk[0].main)' = {}
  BY <1>1, <1>2, <1>3, FileAdded
<1>5. StoreTypeOK'
  BY <1>1, <1>4 DEF StoreInv, StoreTypeOK, Processes
<1>6. CommitIsJudged'
  BY <1>1, <1>4, JudgedStays
<1>7. StepsOfCommit'
  BY <1>1 DEF StoreInv, StepsOfCommit, Committing
<1>8. RenamesAlone'
  BY <1>1 DEF RenamesAlone, Renaming, Is
<1>9. OldDatabasesKept'
  <2> SUFFICES ASSUME ~ torn, NEW g \in 1 .. Len(data'), data'[g].legacy
      PROVE  \E n \in Names : Whole(g, n)'
    BY <1>1, <1>4 DEF OldDatabasesKept
  <2>0. Len(data) \in Nat /\ 0 \in Names /\ DOMAIN data = 1 .. Len(data)
    BY FileTypes DEF StoreInv
  <2>1. CASE g = Len(data')
    <3>1. Whole(g, 0)'
      BY <1>3, <1>4, <2>1 DEF Whole
    <3> QED
      BY <2>0, <3>1
  <2>2. CASE g \in 1 .. Len(data)
    <3>1. data[g].legacy /\ data'[g] = data[g] /\ g # NoFile
      BY <1>4, <2>0, <2>2 DEF NoFile
    <3>2. PICK n \in Names : Whole(g, n)
      BY <1>1, <2>0, <2>2, <3>1 DEF StoreInv, OldDatabasesKept, MovedHalf, Is
    <3>3. n # 0
      BY <1>1, <3>1, <3>2 DEF Whole, Legacy
    <3> QED
      BY <1>4, <3>1, <3>2, <3>3 DEF Whole
  <2> QED
    BY <1>4, <2>0, <2>1, <2>2
<1> QED
  BY <1>4, <1>5, <1>6, <1>7, <1>8, <1>9, RowsSame DEF StoreInv

\* A file is opened; one without a name is there already or made.
LEMMA OpenHolds ==
  ASSUME StoreInv, NEW p \in Procs, Open(p)
  PROVE  StoreInv' /\ RowsGoOn
<1>1. UNCHANGED <<work, index, landed, commit>> /\ Is(p, "open") /\ torn' = (torn \/ \E q \in Procs \ {p} : Renaming(q))
  BY DEF Open
<1>2. /\ Len(data) \in Nat /\ DOMAIN data = 1 .. Len(data) /\ 0 \in Names
      /\ data \in Seq(Databases) /\ disk \in [Names -> [main : Held, wal : Held]]
      /\ proc \in [Procs -> Processes] /\ disk[0].main \in Held
      /\ StoreTypeOK
  BY FileTypes DEF StoreInv
<1>3. /\ \A f \in Held : Rows(f)' = Rows(f)
      /\ Rows(disk[0].main)' = {} \/ disk'[0].main = disk[0].main
      /\ disk'[0].main # NoFile /\ disk'[0].main \in Held'
      /\ Held \subseteq Held'
      /\ proc' = [proc EXCEPT ![p].pc = "write", ![p].handle = disk'[0].main]
      /\ data' \in Seq(Databases) /\ Len(data') <= MaxFiles
      /\ disk' \in [Names -> [main : Held', wal : Held']]
      /\ RowsAreDated' /\ OneName'
      /\ DOMAIN data' = 1 .. Len(data')
      /\ \A g \in DOMAIN data' : data'[g].legacy => g \in 1 .. Len(data) /\ data'[g] = data[g]
      /\ \A n \in Names : disk'[n] = disk[n] \/ disk[n].main = NoFile
  <2>1. CASE disk[0].main # NoFile
    <3>1. UNCHANGED <<disk, data>> /\ proc' = [proc EXCEPT ![p].pc = "write", ![p].handle = disk[0].main]
      BY <2>1 DEF Open
    <3>2. Held' = Held /\ \A f \in Held : Rows(f)' = Rows(f)
      BY <3>1 DEF Held, Rows
    <3>3. OneName' /\ RowsAreDated' /\ Len(data) <= MaxFiles
      BY <3>1, DatesStay DEF StoreInv, OneName, StoreTypeOK
    <3> QED
      BY <1>2, <2>1, <3>1, <3>2, <3>3
  <2>2. CASE disk[0].main = NoFile
    <3>1. /\ Len(data) < MaxFiles /\ data' = Append(data, NewFile)
          /\ disk' = [disk EXCEPT ![0] = [main |-> Len(data'), wal |-> NoFile]]
          /\ proc' = [proc EXCEPT ![p].pc = "write", ![p].handle = Len(data')]
      BY <2>2 DEF Open
    <3>2. NewFile \in Databases /\ NewFile.rows = {} /\ ~ NewFile.legacy
      BY DEF NewFile, Databases
    <3>3. /\ data' \in Seq(Databases) /\ Len(data') = Len(data) + 1 /\ Len(data') <= MaxFiles
          /\ DOMAIN data' = 1 .. Len(data')
          /\ \A f \in 1 .. Len(data) : data'[f] = data[f]
          /\ data'[Len(data')] = NewFile
          /\ Held \subseteq Held' /\ Len(data') \in Held' \ {NoFile}
          /\ disk' \in [Names -> [main : Held', wal : Held']]
          /\ \A n \in Names \ {0} : disk'[n] = disk[n]
          /\ disk'[0].main = Len(data')
          /\ RowsAreDated' /\ OneName'
          /\ \A f \in Held : Rows(f)' = Rows(f)
          /\ Rows(disk[0].main)' = {}
      BY <3>1, <3>2, FileAdded
    <3>4. \A g \in DOMAIN data' : data'[g].legacy => g \in 1 .. Len(data) /\ data'[g] = data[g]
      <4> SUFFICES ASSUME NEW g \in 1 .. Len(data'), data'[g].legacy
                   PROVE  g \in 1 .. Len(data) /\ data'[g] = data[g]
        BY <3>3
      <4>1. g # Len(data')
        BY <3>2, <3>3
      <4>2. g \in 1 .. Len(data)
        BY <1>2, <3>3, <4>1
      <4> QED
        BY <3>3, <4>2
    <3> QED
      BY <2>2, <3>1, <3>3, <3>4
  <2> QED
    BY <2>1, <2>2
<1>4. /\ proc' \in [Procs -> Processes'] /\ proc'[p].pc = "write" /\ proc'[p].job = proc[p].job
      /\ proc'[p].handle = disk'[0].main
      /\ \A q \in Procs \ {p} : proc'[q] = proc[q]
  <2> DEFINE r == [proc[p] EXCEPT !.pc = "write", !.handle = disk'[0].main]
  <2>1. proc \in [Procs -> Processes'] /\ proc[p] \in Processes'
    BY <1>2, <1>3 DEF Processes
  <2>2. proc' = [proc EXCEPT ![p] = r]
    BY <1>2, <1>3
  <2>3. r \in Processes' /\ r.pc = "write" /\ r.job = proc[p].job /\ r.handle = disk'[0].main
    BY <1>3, <2>1 DEF Processes, Steps
  <2> HIDE DEF r
  <2> QED
    BY <2>1, <2>2, <2>3
<1>5. StoreTypeOK'
  <2>1. landed \in SUBSET Violations /\ work \in SUBSET Violations /\ index \in SUBSET Violations /\ commit \in Histories /\ torn' \in BOOLEAN
    BY <1>1 DEF StoreInv, StoreTypeOK
  <2> QED
    BY <1>1, <1>3, <1>4, <2>1 DEF StoreTypeOK
<1>6. StepsOfCommit'
  BY <1>3, <1>4 DEF StoreInv, StepsOfCommit, Committing, Procs
<1>7. CommitIsJudged'
  <2>1. CASE p = "term"
    BY <1>1, <1>3, <1>4, <2>1, JudgedStays DEF Procs
  <2>2. CASE p = "hook"
    <3> SUFFICES ASSUME Committing'
        PROVE  (commit.whole => index = work) /\ Seen(Rows(disk[0].main))'
      BY <1>1, <1>4, <2>2 DEF CommitIsJudged, Is, Rows
    <3>1. (commit.whole => index = work) /\ Seen(Rows(disk[0].main))
      BY <1>1, <1>4, <2>2 DEF StoreInv, CommitIsJudged, Is, Committing
    <3>2. Rows(disk[0].main)' = {} \/ Rows(disk[0].main)' = Rows(disk[0].main)
      BY <1>2, <1>3
    <3> QED
      BY <1>1, <3>1, <3>2 DEF Seen
  <2> QED
    BY <2>1, <2>2 DEF Procs
<1>8. ASSUME ~ torn' PROVE RenamesAlone' /\ OldDatabasesKept'
  <2>1. \A q \in Procs : ~ Renaming(q) /\ ~ Is(q, "wal") /\ ~ Renaming(q)' /\ ~ Is(q, "aside")' /\ ~ Is(q, "main")' /\ ~ Is(q, "wal")'
    <3>1. \A q \in Procs \ {p} : ~ Renaming(q)
      BY <1>1, <1>8
    <3> QED
      BY <1>1, <1>4, <3>1 DEF Renaming, Is
  <2>2. RenamesAlone'
    BY <2>1 DEF RenamesAlone
  <2>3. OldDatabasesKept'
    <3> SUFFICES ASSUME NEW g \in DOMAIN data', data'[g].legacy
        PROVE  \E n \in Names : Whole(g, n)'
      BY DEF OldDatabasesKept
    <3>1. g \in 1 .. Len(data) /\ data'[g] = data[g]
      BY <1>3
    <3>2. PICK n \in Names : Whole(g, n)
      BY <1>1, <1>2, <1>8, <2>1, <3>1 DEF StoreInv, OldDatabasesKept, MovedHalf
    <3>3. disk'[n] = disk[n]
      BY <1>2, <1>3, <3>1, <3>2 DEF Whole, NoFile
    <3> QED
      BY <3>1, <3>2, <3>3 DEF Whole
  <2> QED
    BY <2>2, <2>3
<1>9. ASSUME torn' PROVE RenamesAlone' /\ OldDatabasesKept'
  BY <1>9 DEF RenamesAlone, OldDatabasesKept
<1> QED
  BY <1>3, <1>5, <1>6, <1>7, <1>8, <1>9, RowsSame DEF StoreInv

LEMMA WriteHolds ==
  ASSUME StoreInv, NEW p \in Procs, Write(p)
  PROVE  StoreInv' /\ RowsGoOn
<1>0. PICK f, last : f = proc[p].handle /\ last = MaxId(Rows(f))
  OBVIOUS
<1>1. /\ UNCHANGED <<disk, work, index, landed, torn>> /\ Is(p, "write")
      /\ IF proc[p].job = "commit" THEN Goto(p, "head") ELSE Exit(p)
      /\ commit' = IF p = "term" /\ Committing THEN [commit EXCEPT !.seen = @ \cup work] ELSE commit
  BY DEF Write
<1>2. PICK ref \in Refs \cup {"wd"} :
        data' = [data EXCEPT ![f].rows =
                   @ \cup {[id |-> last + 1, taken |-> last + 1, ref |-> ref,
                            commit |-> NoCommit, found |-> work]}]
  BY <1>0 DEF Write
<1> DEFINE row == [id |-> last + 1, taken |-> last + 1, ref |-> ref, commit |-> NoCommit, found |-> work]
<1>3. /\ proc \in [Procs -> Processes] /\ proc[p] \in Processes
      /\ f \in 1 .. Len(data) /\ f \in Held /\ f # NoFile
      /\ data \in Seq(Databases) /\ Len(data) \in Nat /\ Len(data) <= MaxFiles
      /\ \A g \in 1 .. Len(data) : data[g] \in Databases /\ g # NoFile
      /\ \A n \in Names : disk[n].main \in Held
      /\ 0 \in Names /\ proc["hook"].handle \in Held
      /\ \A g \in Held : g # NoFile => g \in 1 .. Len(data)
  <2>1. /\ proc \in [Procs -> Processes] /\ data \in Seq(Databases) /\ Len(data) \in Nat /\ Len(data) <= MaxFiles
        /\ \A g \in 1 .. Len(data) : data[g] \in Databases
        /\ \A n \in Names : disk[n].main \in Held
        /\ 0 \in Names
    BY FileTypes DEF StoreInv
  <2>2. f \in Held /\ f # NoFile /\ proc["hook"].handle \in Held
    BY <1>0, <1>1, <2>1 DEF StoreInv, StepsOfCommit, Processes, Is, Procs
  <2> QED
    BY <2>1, <2>2 DEF Held, NoFile
<1>4. Rows(f) \in SUBSET Snapshot /\ Dated(Rows(f)) /\ Rows(f) = data[f].rows
  BY <1>3, RowsType DEF StoreInv, Rows
<1>5. row \in Snapshot /\ row.id = last + 1 /\ row.taken = row.id /\ row.found = work
  <2>1. last \in Nat
    BY <1>0, <1>4, MaxIdType
  <2>2. work \in SUBSET Violations
    BY DEF StoreInv, StoreTypeOK
  <2> QED
    BY <2>1, <2>2 DEF Snapshot
<1> HIDE DEF row
<1>6. /\ data' \in Seq(Databases) /\ Len(data') = Len(data)
      /\ \A g \in 1 .. Len(data) : data'[g].legacy = data[g].legacy /\ data'[g].wal = data[g].wal
      /\ \A g \in 1 .. Len(data) : data'[g].rows = data[g].rows \cup IF g = f THEN {row} ELSE {}
  <2>1. data' = [data EXCEPT ![f].rows = @ \cup {row}]
    BY <1>2 DEF row
  <2>2. [data[f] EXCEPT !.rows = @ \cup {row}] \in Databases
    BY <1>3, <1>5 DEF Databases
  <2>3. data' = [data EXCEPT ![f] = [data[f] EXCEPT !.rows = @ \cup {row}]]
    BY <1>3, <2>1
  <2>4. data' \in Seq(Databases) /\ Len(data') = Len(data)
    BY <1>3, <2>2, <2>3
  <2>5. \A g \in 1 .. Len(data) : data'[g] = IF g = f THEN [data[f] EXCEPT !.rows = @ \cup {row}] ELSE data[g]
    BY <1>3, <2>3
  <2> QED
    BY <1>3, <2>4, <2>5 DEF Databases
<1>7. \A g \in Held : Rows(g)' = Rows(g) \cup IF g = f THEN {row} ELSE {}
  BY <1>3, <1>6 DEF Rows
<1>8. RowsAreDated'
  <2>1. Dated(Rows(f) \cup {row})
    BY <1>0, <1>4, <1>5, SnapshotAdded
  <2>2. ASSUME NEW g \in 1 .. Len(data) PROVE Dated(data'[g].rows)
    <3>1. data'[g].rows = data[g].rows \cup IF g = f THEN {row} ELSE {}
      BY <1>6
    <3>2. Dated(data[g].rows)
      BY DEF StoreInv, RowsAreDated
    <3>3. CASE g = f
      BY <1>4, <2>1, <3>1, <3>3
    <3>4. CASE g # f
      <4>1. data'[g].rows = data[g].rows
        BY <3>1, <3>4
      <4> QED
        BY <3>2, <4>1
    <3> QED
      BY <3>3, <3>4
  <2> QED
    BY <1>6, <2>2 DEF RowsAreDated
<1>9. PICK to \in {"head", "idle"} :
        /\ proc'[p].pc = to /\ (to = "head" <=> proc[p].job = "commit")
        /\ IF to = "head" THEN proc'[p].handle = f /\ proc'[p].job = "commit" ELSE proc'[p] = Idle
        /\ proc' \in [Procs -> Processes] /\ \A q \in Procs \ {p} : proc'[q] = proc[q]
  <2>1. CASE proc[p].job = "commit"
    <3>1. proc' = [proc EXCEPT ![p].pc = "head"]
      BY <1>1, <2>1 DEF Goto
    <3> QED
      BY <1>0, <1>3, <2>1, <3>1 DEF Processes, Steps
  <2>2. CASE proc[p].job # "commit"
    <3>1. proc' = [proc EXCEPT ![p] = Idle] /\ Idle \in Processes
      BY <1>1, <2>2, StartProcess DEF Exit, StoreInv
    <3> QED
      BY <1>3, <2>2, <3>1, IdleIsIndex
  <2> QED
    BY <2>1, <2>2
<1>10. OneName' /\ RenamesAlone' /\ OldDatabasesKept'
  BY <1>1, <1>6, <1>9, RenamesStay DEF SameFiles, NoRename, Renaming, Is
<1>11. StoreTypeOK'
  <2>1. /\ landed \in SUBSET Violations /\ work \in SUBSET Violations /\ index \in SUBSET Violations
        /\ commit \in Histories /\ torn \in BOOLEAN
        /\ disk \in [Names -> [main : Held, wal : Held]]
    BY DEF StoreInv, StoreTypeOK
  <2>2. commit' \in Histories
    BY <1>1, <2>1 DEF Histories
  <2>3. Held' = Held /\ Processes' = Processes
    BY <1>6 DEF Held, Processes
  <2> QED
    BY <1>1, <1>3, <1>6, <1>9, <2>1, <2>2, <2>3 DEF StoreTypeOK
<1>12. StepsOfCommit'
  <2>1. p = "term" => to = "idle"
    BY <1>9 DEF StoreInv, StepsOfCommit
  <2> QED
    BY <1>9, <2>1, IdleIsIndex DEF StoreInv, StepsOfCommit, Committing, Procs
<1>13. CommitIsJudged'
  <2>1. CASE p = "term"
    <3> SUFFICES ASSUME Committing' PROVE CommitIsJudged'
      BY DEF CommitIsJudged
    <3>1. /\ proc'["hook"] = proc["hook"] /\ Committing /\ CommitIsJudged
          /\ commit \in Histories /\ work' = work /\ index' = index /\ disk' = disk
      BY <1>1, <1>9, <2>1 DEF Committing, StoreInv, StoreTypeOK, Procs
    <3>2. commit'.seen = commit.seen \cup work /\ commit'.whole = commit.whole
      BY <1>1, <2>1, <3>1 DEF Histories
    <3>3. ASSUME NEW g \in Held
          PROVE  /\ Seen(Rows(g)) => Seen(Rows(g))'
                 /\ SeenButOne(Rows(g)) => SeenButOne(Rows(g))'
                 /\ ShowsTree(Rows(g)) => ShowsTree(Rows(g))'
      <4>1. Rows(g)' = Rows(g) \cup IF g = f THEN {row} ELSE {}
        BY <1>7
      <4>2. \A q \in Rows(g)' : q \in Rows(g) \/ q.found \subseteq commit'.seen
        BY <1>5, <3>2, <4>1
      <4>3. CASE g = f
        BY <1>4, <1>5, <3>1, <3>2, <4>1, <4>2, <4>3, AddedIsNewest, <1>0 DEF Seen, SeenButOne, ShowsTree
      <4>4. CASE g # f
        BY <3>1, <3>2, <4>1, <4>4 DEF Seen, SeenButOne, ShowsTree
      <4> QED
        BY <4>3, <4>4
    <3>4. /\ Seen(Rows(disk[0].main)) => Seen(Rows(disk[0].main))'
          /\ SeenButOne(Rows(disk[0].main)) => SeenButOne(Rows(disk[0].main))'
          /\ ShowsTree(Rows(disk[0].main)) => ShowsTree(Rows(disk[0].main))'
          /\ Seen(Rows(proc["hook"].handle)) => Seen(Rows(proc["hook"].handle))'
          /\ SeenButOne(Rows(proc["hook"].handle)) => SeenButOne(Rows(proc["hook"].handle))'
      BY <1>3, <3>1, <3>3
    <3>5. (\A q \in Rows(proc["hook"].handle) : q.id = proc["hook"].head => q.found = work)
            => \A q \in Rows(proc["hook"].handle)' : q.id = proc["hook"].head => q.found = work
      BY <1>3, <1>5, <1>7, <3>1
    <3> QED
      BY <3>1, <3>2, <3>4, <3>5 DEF CommitIsJudged, Is
  <2>2. CASE p = "hook" /\ to = "idle"
    BY <1>9, <2>2, IdleIsIndex DEF CommitIsJudged, Committing
  <2>3. CASE p = "hook" /\ to = "head"
    <3>1. /\ Committing /\ CommitIsJudged /\ commit' = commit /\ work' = work /\ index' = index /\ disk' = disk
          /\ proc["hook"].pc = "write" /\ proc["hook"].handle = f
      BY <1>0, <1>1, <1>9, <2>3 DEF StoreInv, Is, Committing
    <3>2. /\ Seen(Rows(disk[0].main)) /\ Seen(Rows(f))
          /\ commit.whole => index = work /\ (disk[0].main = f \/ ShowsTree(Rows(disk[0].main)))
      BY <3>1 DEF CommitIsJudged, Is
    <3>3. SeenButOne(Rows(disk[0].main))'
      <4>1. \A q \in Rows(disk[0].main)' : q.id # row.id => q.found \subseteq commit.seen
        BY <1>3, <1>7, <3>1, <3>2 DEF Seen
      <4> QED
        BY <1>5, <3>1, <4>1 DEF SeenButOne, Snapshot
    <3>4. commit.whole => ShowsTree(Rows(disk[0].main))'
      <4>1. CASE disk[0].main = f
        <5>1. Rows(disk[0].main)' = Rows(f) \cup {row}
          BY <1>3, <1>7, <3>1, <4>1
        <5> QED
          BY <1>0, <1>4, <1>5, <3>1, <5>1, AddedIsNewest DEF ShowsTree
      <4>2. CASE disk[0].main # f
        <5>1. Rows(disk[0].main)' = Rows(disk[0].main)
          BY <1>3, <1>7, <3>1, <4>2
        <5> QED
          BY <3>1, <3>2, <4>2, <5>1 DEF ShowsTree
      <4> QED
        BY <4>1, <4>2
    <3> QED
      BY <1>9, <2>3, <3>1, <3>2, <3>3, <3>4 DEF CommitIsJudged, Is
  <2> QED
    BY <1>9, <2>1, <2>2, <2>3 DEF Procs
<1>14. RowsGoOn
  <2> SUFFICES ASSUME NEW g \in Held
               PROVE  MaxId(Rows(g)') >= MaxId(Rows(g)) /\ Rows(g) \ Rows(g)' = {}
    BY <1>6 DEF RowsGoOn, Held
  <2>1. Rows(g)' = Rows(g) \cup IF g = f THEN {row} ELSE {}
    BY <1>7
  <2>2. CASE g = f
    <3>1. MaxId(Rows(f) \cup {row}) = last + 1 /\ last \in Nat
      BY <1>0, <1>4, <1>5, SnapshotAdded, MaxIdType
    <3> QED
      BY <1>0, <2>1, <2>2, <3>1
  <2>3. CASE g # f
    <3>1. MaxId(Rows(g)) \in Nat /\ Rows(g)' = Rows(g)
      BY <2>1, <2>3, RowsType, MaxIdType DEF StoreInv
    <3> QED
      BY <3>1
  <2> QED
    BY <2>2, <2>3
<1> QED
  BY <1>8, <1>10, <1>11, <1>12, <1>13, <1>14 DEF StoreInv

LEMMA PruneHolds ==
  ASSUME StoreInv, Prune
  PROVE  StoreInv' /\ RowsGoOn
<1>1. PICK f : f = disk[0].main
  OBVIOUS
<1> DEFINE left == Pruned(data[f].rows, Keep, KeepRefs)
<1>2. /\ UNCHANGED <<disk, work, index, landed, proc, commit, torn>> /\ f # NoFile
      /\ data' = [data EXCEPT ![f].rows = Pruned(@, Keep, KeepRefs)]
  BY <1>1 DEF Prune
<1>3. /\ proc \in [Procs -> Processes]
      /\ f \in 1 .. Len(data) /\ f \in Held
      /\ data \in Seq(Databases) /\ Len(data) \in Nat
      /\ \A g \in 1 .. Len(data) : data[g] \in Databases /\ g # NoFile
      /\ \A n \in Names : disk[n].main \in Held
      /\ 0 \in Names /\ proc["hook"].handle \in Held
      /\ \A g \in Held : g # NoFile => g \in 1 .. Len(data)
  <2>1. /\ proc \in [Procs -> Processes] /\ data \in Seq(Databases) /\ Len(data) \in Nat
        /\ \A g \in 1 .. Len(data) : data[g] \in Databases
        /\ \A n \in Names : disk[n].main \in Held
        /\ 0 \in Names
    BY FileTypes DEF StoreInv
  <2>2. f \in Held /\ proc["hook"].handle \in Held
    BY <1>1, <2>1 DEF Processes, Procs
  <2> QED
    BY <1>2, <2>1, <2>2 DEF Held, NoFile
<1>4. data[f].rows \in SUBSET Snapshot /\ Dated(data[f].rows) /\ Rows(f) = data[f].rows
  BY <1>2, <1>3, RowsType DEF StoreInv, Rows
<1>5. left \subseteq data[f].rows /\ Dated(left)
  <2>1. left \subseteq data[f].rows
    BY DEF Pruned, NewestFew
  <2> QED
    BY <1>4, <2>1, SomeDated
<1>6. /\ data' \in Seq(Databases) /\ Len(data') = Len(data)
      /\ \A g \in 1 .. Len(data) : data'[g].legacy = data[g].legacy /\ data'[g].wal = data[g].wal
      /\ \A g \in 1 .. Len(data) : data'[g].rows = IF g = f THEN left ELSE data[g].rows
  <2>1. data' = [data EXCEPT ![f] = [data[f] EXCEPT !.rows = left]]
    BY <1>2, <1>3
  <2>2. [data[f] EXCEPT !.rows = left] \in Databases
    BY <1>3, <1>5 DEF Databases
  <2> HIDE DEF left
  <2>3. data' \in Seq(Databases) /\ Len(data') = Len(data)
    BY <1>3, <2>1, <2>2
  <2>4. \A g \in 1 .. Len(data) : data'[g] = IF g = f THEN [data[f] EXCEPT !.rows = left] ELSE data[g]
    BY <1>3, <2>1
  <2> QED
    BY <1>3, <2>3, <2>4 DEF Databases
<1>7. \A g \in Held : Rows(g)' = IF g = f THEN left ELSE Rows(g)
  BY <1>2, <1>3, <1>6 DEF Rows
<1>8. RowsAreDated'
  BY <1>5, <1>6 DEF StoreInv, RowsAreDated
<1>9. OneName' /\ RenamesAlone' /\ OldDatabasesKept'
  BY <1>2, <1>6, RenamesStay DEF SameFiles, NoRename, Renaming, Is
<1>10. StoreTypeOK' /\ StepsOfCommit'
  <2>1. Held' = Held /\ Processes' = Processes
    BY <1>6 DEF Held, Processes
  <2> QED
    BY <1>2, <1>6, <2>1 DEF StoreInv, StoreTypeOK, StepsOfCommit, Committing
<1>11. CommitIsJudged'
  <2> SUFFICES ASSUME Committing PROVE CommitIsJudged'
    BY <1>2 DEF CommitIsJudged, Committing
  <2>1. CommitIsJudged /\ \A g \in Held : Rows(g)' \subseteq Rows(g)
    BY <1>4, <1>5, <1>7 DEF StoreInv
  <2>2. /\ Rows(proc["hook"].handle)' \subseteq Rows(proc["hook"].handle)
        /\ Rows(disk[0].main)' \subseteq Rows(disk[0].main)
    BY <1>2, <1>3, <2>1
  <2>3. /\ Seen(Rows(disk[0].main)) => Seen(Rows(disk[0].main))'
        /\ SeenButOne(Rows(disk[0].main)) => SeenButOne(Rows(disk[0].main))'
        /\ Seen(Rows(proc["hook"].handle)) => Seen(Rows(proc["hook"].handle))'
        /\ SeenButOne(Rows(proc["hook"].handle)) => SeenButOne(Rows(proc["hook"].handle))'
    BY <1>2, <2>2 DEF Seen, SeenButOne
  <2>4. ShowsTree(Rows(disk[0].main)) => ShowsTree(Rows(disk[0].main))'
    <3>1. Rows(disk[0].main) = data[f].rows /\ Rows(disk[0].main)' = left
      BY <1>1, <1>2, <1>3, <1>4, <1>7
    <3>2. data[f].rows # {} => Newest(left) = Newest(data[f].rows)
      <4> SUFFICES ASSUME data[f].rows # {} PROVE Newest(left) = Newest(data[f].rows)
        OBVIOUS
      <4>1. Newest(data[f].rows) \in left /\ MaxId(left) = MaxId(data[f].rows) /\ left # {}
        BY <1>4, PruneKeepsNewest
      <4>2. /\ Newest(left) \in left /\ MaxId(left) = Newest(left).id
            /\ MaxId(data[f].rows) = Newest(data[f].rows).id
        BY <1>4, <1>5, <4>1, NewestIsLast
      <4> QED
        BY <1>5, <4>1, <4>2 DEF Dated
    <3> QED
      BY <1>2, <1>5, <3>1, <3>2 DEF ShowsTree
  <2> QED
    BY <1>2, <2>1, <2>2, <2>3, <2>4 DEF CommitIsJudged, Is
<1>12. RowsGoOn
  <2> SUFFICES ASSUME NEW g \in Held
               PROVE  /\ MaxId(Rows(g)') >= MaxId(Rows(g))
                      /\ \A r \in Rows(g) \ Rows(g)' : MaxId(Rows(g)') - r.id >= Keep
    BY <1>6 DEF RowsGoOn, Held
  <2>1. MaxId(Rows(g)) \in Nat /\ Rows(g)' = IF g = f THEN left ELSE Rows(g)
    BY <1>7, RowsType, MaxIdType DEF StoreInv
  <2>2. CASE g # f \/ data[f].rows = {}
    <3>1. Rows(g)' = Rows(g)
      BY <1>4, <1>5, <2>1, <2>2
    <3> QED
      BY <2>1, <3>1
  <2>3. CASE g = f /\ data[f].rows # {}
    <3>1. MaxId(left) = MaxId(data[f].rows) /\ \A r \in data[f].rows \ left : MaxId(data[f].rows) - r.id >= Keep
      BY <1>4, <2>3, PruneKeepsNewest
    <3> QED
      BY <1>4, <2>1, <2>3, <3>1
  <2> QED
    BY <2>2, <2>3
<1> QED
  BY <1>8, <1>9, <1>10, <1>11, <1>12 DEF StoreInv

LEMMA StoreStutters ==
  ASSUME StoreInv, UNCHANGED storeVars
  PROVE  StoreInv' /\ RowsGoOn
<1>1. UNCHANGED <<disk, data, work, index, landed, proc, commit, torn>>
  BY DEF storeVars
<1>2. StoreTypeOK' /\ StepsOfCommit' /\ OneName' /\ Held' = Held /\ \A f \in Held : Rows(f)' = Rows(f)
  BY <1>1 DEF StoreInv, StoreTypeOK, Held, Processes, StepsOfCommit, Committing, OneName, Rows
<1>3. RenamesAlone' /\ OldDatabasesKept'
  BY <1>1, RenamesStay DEF SameFiles, NoRename, Renaming, Is
<1>4. CommitIsJudged'
  BY <1>1, <1>2, JudgedStays
<1> QED
  BY <1>1, <1>2, <1>3, <1>4, DatesStay, RowsSame DEF StoreInv

LEMMA StoreStep ==
  ASSUME StoreInv, [StoreNext]_storeVars
  PROVE  StoreInv' /\ RowsGoOn
<1>1. ASSUME UNCHANGED data, StoreInv' PROVE RowsGoOn
  BY <1>1, RowsSame DEF Held, Rows
<1>2. CASE Edit \/ Stage \/ StartIndex \/ Commit \/ CheckHead \/ CheckBaseline
  <2>1. UNCHANGED data
    BY <1>2 DEF Edit, Stage, StartIndex, Commit, CheckHead, CheckBaseline
  <2> QED
    BY <1>1, <1>2, <2>1, EditHolds, StartIndexHolds, CommitHolds, CheckHeadHolds, CheckBaselineHolds
<1>3. CASE PutOld \/ Prune
  BY <1>3, PutOldHolds, PruneHolds
<1>4. ASSUME NEW p \in Procs, IndexStep(p) \/ Kill(p) PROVE StoreInv' /\ RowsGoOn
  <2>1. CASE Look(p) \/ PickAside(p) \/ MoveMain(p) \/ MoveWal(p) \/ Kill(p)
    <3>1. UNCHANGED data
      BY <2>1 DEF Look, PickAside, MoveMain, MoveWal, Kill
    <3> QED
      BY <1>1, <2>1, <3>1, LookHolds, PickAsideHolds, MoveMainHolds, MoveWalHolds, KillHolds
  <2>2. CASE Open(p) \/ Write(p)
    BY <2>2, OpenHolds, WriteHolds
  <2> QED
    BY <1>4, <2>1, <2>2 DEF IndexStep
<1> QED
  BY <1>2, <1>3, <1>4, StoreStutters DEF StoreNext

-----------------------------------------------------------------------------
(* The daemons. *)

\* The token on file is of the last start on the port, and one daemon listens there.
TokensInOrder ==
  /\ \A d \in Daemons : step[d] # "off" =>
       \E e \in Daemons : tokenFile[port[d]] = e /\ port[e] = port[d] /\ (e = d \/ d \in earlier[e])
  /\ \A d, e \in Daemons : step[d] = "up" /\ step[e] = "up" /\ port[d] = port[e] => d = e

DaemonInv == DaemonTypeOK /\ TokensInOrder /\ AskedOrOld
Inv == StoreInv /\ DaemonInv

\* While the commands run, a question stays open and its snapshot grows old.
LEMMA QuestionStaysOpen ==
  ASSUME Inv, StoreInv', RowsGoOn, UNCHANGED daemonVars
  PROVE  DaemonInv'
<1>1. UNCHANGED <<step, port, pin, store, asked, since, answer, tokenFile, earlier>>
  BY DEF daemonVars
<1>2. DaemonTypeOK'
  BY <1>1 DEF Inv, DaemonInv, DaemonTypeOK, RowsGoOn
<1>3. TokensInOrder'
  BY <1>1 DEF Inv, DaemonInv, TokensInOrder
<1>4. AskedOrOld'
  <2> SUFFICES ASSUME NEW d \in Daemons, asked[d] # 0, pin[d] = 0
      PROVE  /\ since[d] = asked[d]
             /\ \/ \E r \in Rows(store[d])' : r.id = asked[d]
                \/ MaxId(Rows(store[d])') - asked[d] >= Keep
    BY <1>1 DEF AskedOrOld, Inv, DaemonInv
  <2>1. PICK f : f = store[d]
    OBVIOUS
  <2>2. f \in Held /\ f \in Held' /\ asked[d] \in Nat /\ Keep \in Nat
    BY <2>1, StoreAssumption DEF Inv, DaemonInv, DaemonTypeOK, RowsGoOn
  <2>3. /\ MaxId(Rows(f)') >= MaxId(Rows(f))
        /\ \A r \in Rows(f) \ Rows(f)' : MaxId(Rows(f)') - r.id >= Keep
    BY <2>2 DEF RowsGoOn
  <2>4. MaxId(Rows(f)) \in Nat /\ MaxId(Rows(f)') \in Nat
    BY <2>2, RowsType, RowsTypeNext, MaxIdType DEF Inv, StoreInv
  <2>5. since[d] = asked[d]
        /\ ((\E r \in Rows(f) : r.id = asked[d]) \/ MaxId(Rows(f)) - asked[d] >= Keep)
    BY <2>1 DEF Inv, DaemonInv, AskedOrOld
  <2>6. (\E r \in Rows(f)' : r.id = asked[d]) \/ MaxId(Rows(f)') - asked[d] >= Keep
    BY <2>2, <2>3, <2>4, <2>5
  <2> QED
    BY <1>1, <2>1, <2>5, <2>6
<1> QED
  BY <1>2, <1>3, <1>4 DEF DaemonInv

LEMMA StartOfDaemons == Init => Inv
<1> SUFFICES ASSUME Init PROVE Inv
  OBVIOUS
<1>1. StoreInv
  BY StartOfStore DEF Init
<1>2. DaemonTypeOK
  BY <1>1, FileTypes DEF Init, DaemonInit, DaemonTypeOK, StoreInv
<1>3. TokensInOrder /\ AskedOrOld
  BY DEF Init, DaemonInit, TokensInOrder, AskedOrOld
<1> QED
  BY <1>1, <1>2, <1>3 DEF Inv, DaemonInv

\* The token on file is of the last that wrote it.
LEMMA TokensHold ==
  ASSUME Inv, DaemonNext, UNCHANGED storeVars
  PROVE  DaemonTypeOK' /\ TokensInOrder' /\ UNCHANGED pin
<1>1. Held' = Held /\ DaemonTypeOK /\ TokensInOrder /\ disk[0].main \in Held
  BY FileTypes DEF storeVars, Held, Inv, DaemonInv, StoreInv
<1>2. ASSUME NEW d \in Daemons, WriteToken(d)
      PROVE  DaemonTypeOK' /\ TokensInOrder' /\ UNCHANGED pin
  <2>1. DaemonTypeOK' /\ UNCHANGED pin
    BY <1>1, <1>2 DEF WriteToken, DaemonTypeOK, TokenPath, Listening
  <2>2. /\ step' = [step EXCEPT ![d] = "api"] /\ step[d] = "off" /\ port' = port
        /\ tokenFile' = [tokenFile EXCEPT ![port[d]] = d]
        /\ earlier' = [earlier EXCEPT ![d] = {e \in Daemons : step[e] # "off"}]
    BY <1>2 DEF WriteToken, TokenPath
  <2>3. ASSUME NEW g \in Daemons, step'[g] # "off"
        PROVE  \E e \in Daemons : tokenFile'[port'[g]] = e /\ port'[e] = port'[g] /\ (e = g \/ g \in earlier'[e])
    <3>1. CASE g = d
      BY <1>1, <2>2, <3>1 DEF DaemonTypeOK
    <3>2. CASE g # d /\ port[g] = port[d]
      BY <1>1, <2>2, <2>3, <3>2 DEF DaemonTypeOK
    <3>3. CASE port[g] # port[d]
      <4>1. step[g] # "off"
        BY <1>1, <2>2, <2>3, <3>3 DEF DaemonTypeOK
      <4>2. PICK e \in Daemons : tokenFile[port[g]] = e /\ port[e] = port[g] /\ (e = g \/ g \in earlier[e])
        BY <1>1, <4>1 DEF TokensInOrder
      <4> QED
        BY <1>1, <2>2, <3>3, <4>2 DEF DaemonTypeOK
    <3> QED
      BY <3>1, <3>2, <3>3
  <2>4. \A g, e \in Daemons : step'[g] = "up" /\ step'[e] = "up" /\ port'[g] = port'[e] => g = e
    BY <1>1, <2>2 DEF DaemonTypeOK, TokensInOrder
  <2> QED
    BY <2>1, <2>3, <2>4 DEF TokensInOrder
<1>3. ASSUME NEW d \in Daemons, OpenApi(d)
      PROVE  DaemonTypeOK' /\ TokensInOrder' /\ UNCHANGED pin
  <2>1. NoFile \in Held
    BY FileTypes DEF Inv, StoreInv
  <2> QED
    BY <1>1, <1>3, <2>1 DEF OpenApi, DaemonTypeOK, TokensInOrder
<1>4. ASSUME NEW d \in Daemons, Listen(d)
      PROVE  DaemonTypeOK' /\ TokensInOrder' /\ UNCHANGED pin
  <2>1. DaemonTypeOK' /\ UNCHANGED pin
    BY <1>1, <1>4 DEF Listen, DaemonTypeOK
  <2>2. TokensInOrder'
    BY <1>1, <1>4 DEF Listen, DaemonTypeOK, Listening, TokensInOrder
  <2> QED
    BY <2>1, <2>2
<1>5. ASSUME NEW d \in Daemons, Close(d)
      PROVE  DaemonTypeOK' /\ TokensInOrder' /\ UNCHANGED pin
  BY <1>1, <1>5 DEF Close, DaemonTypeOK, TokensInOrder
<1>6. ASSUME NEW d \in Daemons, Answer(d)
      PROVE  DaemonTypeOK' /\ TokensInOrder' /\ UNCHANGED pin
  BY <1>1, <1>6 DEF Answer, DaemonTypeOK, TokensInOrder
<1>7. ASSUME NEW c \in Clients, NEW d \in Daemons, Initialize(c, d) \/ Teardown(c, d)
      PROVE  DaemonTypeOK' /\ TokensInOrder' /\ UNCHANGED pin
  BY <1>1, <1>7 DEF Initialize, Teardown, DaemonTypeOK, TokensInOrder
<1>8. ASSUME NEW c \in Clients, NEW d \in Daemons, Ask(c, d)
      PROVE  DaemonTypeOK' /\ TokensInOrder' /\ UNCHANGED pin
  <2>1. MaxId(Rows(store[d])) \in Nat /\ Rows(store[d]) \in SUBSET Snapshot
    BY RowsType, MaxIdType DEF Inv, StoreInv, DaemonInv, DaemonTypeOK
  <2>2. PickSnapshot(d) # NoRow => PickSnapshot(d) \in Rows(store[d])
    <3>1. Rows(store[d]) # {} => Newest(Rows(store[d])) \in Rows(store[d])
      BY RowsType, NewestIsLast DEF Inv, StoreInv, DaemonInv, DaemonTypeOK
    <3> QED
      BY <3>1 DEF PickSnapshot, ById, Newest
  <2>3. (IF PickSnapshot(d) = NoRow THEN 0 ELSE PickSnapshot(d).id) \in Nat
    BY <2>1, <2>2 DEF Snapshot
  <2> QED
    BY <1>1, <1>8, <2>1, <2>3 DEF Ask, DaemonTypeOK, TokensInOrder
<1>9. ASSUME NEW c \in Clients, NEW q \in Ports, ReadToken(c, q)
      PROVE  DaemonTypeOK' /\ TokensInOrder' /\ UNCHANGED pin
  BY <1>1, <1>9 DEF ReadToken, DaemonTypeOK, TokensInOrder
<1> QED
  BY <1>2, <1>3, <1>4, <1>5, <1>6, <1>7, <1>8, <1>9 DEF DaemonNext

\* A question is asked of the newest snapshot, or of the one pinned.
LEMMA QuestionsOpen ==
  ASSUME Inv, DaemonNext, UNCHANGED storeVars
  PROVE  AskedOrOld'
<1>1. /\ \A f : Rows(f)' = Rows(f)
      /\ DaemonTypeOK /\ AskedOrOld
  BY DEF storeVars, Rows, Inv, DaemonInv
<1>2. ASSUME NEW d \in Daemons, WriteToken(d) \/ OpenApi(d) \/ Listen(d)
      PROVE  AskedOrOld'
  <2>1. /\ UNCHANGED <<pin, asked, since>> /\ asked[d] = 0
        /\ \A e \in Daemons \ {d} : step'[e] = step[e] /\ store'[e] = store[e]
    BY <1>1, <1>2 DEF WriteToken, OpenApi, Listen, AskedOrOld, DaemonTypeOK
  <2> QED
    BY <1>1, <2>1 DEF AskedOrOld
<1>3. ASSUME NEW d \in Daemons, Close(d) \/ Answer(d)
      PROVE  AskedOrOld'
  <2>1. /\ UNCHANGED <<pin, store>> /\ asked'[d] = 0
        /\ \A e \in Daemons \ {d} : step'[e] = step[e] /\ asked'[e] = asked[e] /\ since'[e] = since[e]
    BY <1>1, <1>3 DEF Close, Answer, DaemonTypeOK
  <2> QED
    BY <1>1, <2>1 DEF AskedOrOld
<1>4. ASSUME NEW c \in Clients, NEW d \in Daemons, Initialize(c, d) \/ Teardown(c, d)
      PROVE  AskedOrOld'
  <2>1. UNCHANGED <<step, pin, store, asked, since>>
    BY <1>4 DEF Initialize, Teardown
  <2> QED
    BY <1>1, <2>1 DEF AskedOrOld
<1>5. ASSUME NEW c \in Clients, NEW q \in Ports, ReadToken(c, q)
      PROVE  AskedOrOld'
  <2>1. UNCHANGED <<step, pin, store, asked, since>>
    BY <1>5 DEF ReadToken
  <2> QED
    BY <1>1, <2>1 DEF AskedOrOld
<1>6. ASSUME NEW c \in Clients, NEW d \in Daemons, Ask(c, d)
      PROVE  AskedOrOld'
  <2> DEFINE rows == Rows(store[d])
  <2>1. /\ UNCHANGED <<step, pin, store>> /\ step[d] = "up"
        /\ asked'[d] = IF PickSnapshot(d) = NoRow THEN 0 ELSE PickSnapshot(d).id
        /\ since'[d] = MaxId(rows)
        /\ \A e \in Daemons \ {d} : asked'[e] = asked[e] /\ since'[e] = since[e]
    BY <1>1, <1>6 DEF Ask, Served, DaemonTypeOK
  <2>2. ASSUME pin[d] = 0, asked'[d] # 0
        PROVE  since'[d] = asked'[d] /\ \E r \in rows : r.id = asked'[d]
    <3>1. rows # {} /\ PickSnapshot(d) = Newest(rows)
      BY <2>1, <2>2 DEF PickSnapshot, Newest
    <3>2. Newest(rows) \in rows /\ MaxId(rows) = Newest(rows).id /\ rows \in SUBSET Snapshot
      BY <1>1, <3>1, RowsType, NewestIsLast DEF Inv, StoreInv, DaemonTypeOK
    <3>3. PickSnapshot(d) # NoRow
      BY <3>1, <3>2, RowAssumption
    <3> HIDE DEF rows
    <3> QED
      BY <2>1, <3>1, <3>2, <3>3
  <2>3. \A e \in Daemons \ {d} : asked'[e] # 0 =>
           /\ step'[e] = "up"
           /\ pin'[e] = 0 =>
                /\ since'[e] = asked'[e]
                /\ \/ \E r \in Rows(store[e])' : r.id = asked'[e]
                   \/ MaxId(Rows(store[e])') - asked'[e] >= Keep
    BY <1>1, <2>1 DEF AskedOrOld
  <2> QED
    BY <1>1, <2>1, <2>2, <2>3 DEF AskedOrOld
<1> QED
  BY <1>2, <1>3, <1>4, <1>5, <1>6 DEF DaemonNext

\* What holds at every step of the commands and the daemons.
THEOREM StoreAndDaemons == Spec => []Inv
<1>1. Init => Inv
  BY StartOfDaemons
<1>2. Inv /\ [Next]_vars => Inv'
  <2> SUFFICES ASSUME Inv, [Next]_vars PROVE Inv'
    OBVIOUS
  <2>1. StoreInv' /\ RowsGoOn
    BY StoreStep DEF Inv, Next, vars
  <2>2. CASE UNCHANGED daemonVars
    BY <2>1, <2>2, QuestionStaysOpen DEF Inv
  <2>3. CASE DaemonNext /\ UNCHANGED storeVars
    BY <2>1, <2>3, TokensHold, QuestionsOpen DEF Inv, DaemonInv
  <2> QED
    BY <2>2, <2>3 DEF Next, vars
<1> QED
  BY <1>1, <1>2, PTL DEF Spec

-----------------------------------------------------------------------------
(* What follows. *)

\* The token on file opens the daemon that listens, unless another start on the
\* same port wrote after it; that start does not listen (http-token.ts).
THEOREM TokenFound == Spec => []TokenOpensListener
<1>1. Inv => TokenOpensListener
  BY DEF Inv, DaemonInv, TokensInOrder, TokenOpensListener
<1> QED
  BY <1>1, StoreAndDaemons, PTL

\* Every old database is still there, whole, unless two indexes ran into each
\* other or one was killed between two names (utils/graph-store.ts).
THEOREM OldDatabasesStay == Spec => []OldDatabasesKept
<1>1. Inv => OldDatabasesKept
  BY DEF Inv, StoreInv
<1> QED
  BY <1>1, StoreAndDaemons, PTL

\* The hook lets a commit through only when all that the judged snapshot shows is in
\* one it did not take for this commit, whoever works on the tree, the index or the
\* database meanwhile; a commit of all of an untouched tree holds no more.
THEOREM GateLetsSeenLand == Spec => NothingUnseenLands
<1> DEFINE Judged == ById(Rows(proc["hook"].handle), proc["hook"].head)
           Gated == Judged.found \subseteq commit.seen /\ (commit.whole => landed' \subseteq commit.seen)
<1>1. Inv /\ [Next]_vars => [landed' # landed => Gated]_storeVars
  <2> SUFFICES ASSUME Inv, [Next]_vars, landed' # landed
      PROVE  Gated
    BY DEF storeVars
  <2>1. StoreNext
    BY DEF Next, vars, storeVars
  <2>2. CheckBaseline
    BY <2>1 DEF StoreNext, Edit, Stage, PutOld, StartIndex, Commit, CheckHead, Prune, IndexStep, Look, PickAside, MoveMain,
                MoveWal, Open, Write, Kill
  <2> QED
    BY <2>2, JudgedWasSeen DEF Inv
<1> QED
  BY <1>1, StoreAndDaemons, PTL DEF Spec, NothingUnseenLands

\* An answer from the newest snapshot is emptied by a prune only when --keep
\* snapshots were written while the question was open (read-api/reader.ts).
THEOREM AnswersHold == Spec => AnswersSurvivePrune
<1> DEFINE Outlived ==
      \A d \in Daemons :
        /\ answer[d] # "empty" /\ answer'[d] = "empty" /\ pin[d] = 0
        => MaxId(Rows(store[d])) - since[d] >= Keep
<1>1. Inv /\ [Next]_vars => [Outlived]_vars
  <2> SUFFICES ASSUME Inv, [Next]_vars, NEW d \in Daemons,
                      answer[d] # "empty", answer'[d] = "empty", pin[d] = 0
               PROVE  MaxId(Rows(store[d])) - since[d] >= Keep
    OBVIOUS
  <2>1. DaemonTypeOK /\ AskedOrOld
    BY DEF Inv, DaemonInv
  <2>2. DaemonNext
    BY DEF Next, vars, daemonVars
  <2>3. Answer(d)
    <3>1. ASSUME NEW e \in Daemons, Answer(e) PROVE e = d
      BY <2>1, <3>1 DEF Answer, DaemonTypeOK
    <3>2. ASSUME NEW c \in Clients, NEW e \in Daemons, Ask(c, e) PROVE FALSE
      BY <2>1, <3>2 DEF Ask, DaemonTypeOK
    <3> QED
      BY <2>2, <3>1, <3>2 DEF DaemonNext, WriteToken, OpenApi, Listen, Close, Initialize, Teardown, ReadToken
  <2>4. asked[d] # 0 /\ ById(Rows(store[d]), asked[d]) = NoRow
    BY <2>1, <2>3 DEF Answer, DaemonTypeOK
  <2>5. ~ \E r \in Rows(store[d]) : r.id = asked[d]
    <3>1. NoRow \notin Rows(store[d])
      BY <2>1, RowsType, RowAssumption DEF Inv, StoreInv, DaemonTypeOK
    <3> QED
      BY <2>4, <3>1 DEF ById
  <2> QED
    BY <2>1, <2>4, <2>5 DEF AskedOrOld
<1> QED
  BY <1>1, StoreAndDaemons, PTL DEF Spec, AnswersSurvivePrune
=============================================================================
