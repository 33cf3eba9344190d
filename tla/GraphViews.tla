----------------------------- MODULE GraphViews -----------------------------
(* What the pages of packages/render are drawn from: the views made of a       *)
(* snapshot (packages, directories, one package, barrels seen through), the    *)
(* drawing of two snapshots at once, and the elements of a page: nodes with    *)
(* their status and their box, edges with their status.  Coordinates, colours  *)
(* and labels are left out.                                                    *)
(*                                                                             *)
(* A node is a record: its id, kind and role, and what the code cuts out of    *)
(* the id, the package (pkg) and the directory (dir).  Weights are in parts    *)
(* of a reference, since a barrel's references are divided.                    *)
EXTENDS Integers, FiniteSets, Sequences, FiniteSetsExt, Functions

CONSTANTS Parts,    \* parts of one reference: a positive number
          NoRole,   \* the role of a node that has none
          NoBox,    \* the box of a node outside every box
          NoBarrel  \* the barrel of an edge that was not led through one

ASSUME PartsAssumption == Parts \in Nat \ {0}

SkipRoles == {"test", "fixture", "config", "script"}

Graph(nodes, edges) == [nodes |-> nodes, edges |-> edges]
Ids(nodes) == {n.id : n \in nodes}
NodeOf(nodes, id) == CHOOSE n \in nodes : n.id = id
Files(g) == {n \in g.nodes : n.kind = "file"}
Package(id) == [id |-> id, kind |-> "package", role |-> NoRole, pkg |-> id, dir |-> id]
Edge(src, dst, kind, weight) ==
  [src |-> src, dst |-> dst, kind |-> kind, weight |-> weight, via |-> NoBarrel]

Ends(edges) == {e.src : e \in edges} \cup {e.dst : e \in edges}
EdgeWeight(e) == IF e.weight > 0 THEN e.weight ELSE Parts
WeightOf(edges) == MapThenSumSet(EdgeWeight, edges)

(* One edge for all that join the same two boxes, with their summed weight.    *)
FoldEdges(edges, box) ==
  {Edge(p[1], p[2], "imports", WeightOf({e \in edges : <<box[e.src], box[e.dst]>> = p})) :
     p \in {<<box[e.src], box[e.dst]>> : e \in edges}}

Crossing(edges, box) ==
  {e \in edges : {e.src, e.dst} \subseteq DOMAIN box /\ box[e.src] # box[e.dst]}

CollapseToPackages(g) ==
  LET box == [id \in Ids(Files(g)) |-> NodeOf(Files(g), id).pkg]
  IN Graph({Package(p) : p \in Range(box)}, FoldEdges(Crossing(g.edges, box), box))

-----------------------------------------------------------------------------
(* The library rewrites an edge into a barrel onto the files that it forwards  *)
(* to, in proportion to its re-exports, and drops those; a barrel that         *)
(* forwards nothing keeps its edges.                                           *)
Forwards(g, id) == {e \in g.edges : e.src = id /\ e.kind = "re-exports"}
SeenThrough(g) ==
  {n.id : n \in {m \in Files(g) : m.role = "barrel" /\ Forwards(g, m.id) # {}}}
ResolveBarrelEdges(g) ==
  {e \in g.edges : e.dst \notin SeenThrough(g) /\ ~(e.src \in SeenThrough(g) /\ e.kind = "re-exports")}
  \cup UNION {{[e EXCEPT !.dst = r.dst, !.via = e.dst,
                         !.weight = (EdgeWeight(e) * EdgeWeight(r)) \div WeightOf(Forwards(g, e.dst))] :
                 r \in Forwards(g, e.dst)} : e \in {d \in g.edges : d.dst \in SeenThrough(g)}}

ResolveBarrels(g) ==
  LET edges == ResolveBarrelEdges(g)
  IN Graph({n \in g.nodes : n.role # "barrel" \/ \E e \in edges : n.id \in {e.src, e.dst}}, edges)

Rounded(weight) == ((2 * weight + Parts) \div (2 * Parts)) * Parts

CollapseToDirectories(g, resolve) ==
  LET sources == {n \in Files(g) : n.role \notin SkipRoles}
      box == [id \in Ids(sources) |-> NodeOf(sources, id).dir]
      all == IF resolve THEN ResolveBarrelEdges(g) ELSE g.edges
      edges == {[e EXCEPT !.weight = Rounded(e.weight)] : e \in FoldEdges(Crossing(all, box), box)}
  IN Graph({Package(d) : d \in Ends(edges)}, edges)

-----------------------------------------------------------------------------
(* One package in full, every other a stub.  An edge to a file of the package  *)
(* that is left out (a test) is dropped.                                       *)
FocusPackage(g, pkg, includeTests) ==
  LET fileNodes == {n \in Files(g) : n.pkg = pkg /\ (includeTests \/ n.role # "test")}
      pkgOf == [id \in Ids(Files(g)) |-> NodeOf(Files(g), id).pkg]
      box   == [id \in DOMAIN pkgOf |-> IF id \in Ids(fileNodes) THEN id ELSE pkgOf[id]]
      Drawn(e) == /\ {e.src, e.dst} \subseteq DOMAIN pkgOf
                  /\ {e.src, e.dst} \cap Ids(fileNodes) # {}
                  /\ \A id \in {e.src, e.dst} \ Ids(fileNodes) : pkgOf[id] # pkg
      drawn == {e \in g.edges : Drawn(e)}
      neighbours == {pkgOf[id] : id \in Ends(drawn) \ Ids(fileNodes)}
  IN Graph(fileNodes \cup {Package(nb) : nb \in neighbours}, FoldEdges(drawn, box))

PackagesInSnapshot(g) == {n.pkg : n \in Files(g)}

-----------------------------------------------------------------------------
(* Two snapshots on one page.  renames maps old ids to new ones.               *)
Key(e) == <<e.src, e.dst, e.kind>>
Remapped(id, renames) == IF id \in DOMAIN renames THEN renames[id] ELSE id
RemappedKey(e, renames) == <<Remapped(e.src, renames), Remapped(e.dst, renames), e.kind>>

(* The library's comparison: what it says was added and removed.               *)
DiffSnapshots(from, to, renames) ==
  [added   |-> Ids(to.nodes) \ (Ids(from.nodes) \cup Range(renames)),
   removed |-> Ids(from.nodes) \ (Ids(to.nodes) \cup DOMAIN renames),
   addedEdges |-> {Key(e) : e \in to.edges} \ {RemappedKey(e, renames) : e \in from.edges}]

UnionNodes(from, to, renames) ==
  to.nodes \cup {n \in from.nodes : /\ Remapped(n.id, renames) \notin Ids(to.nodes)
                                    /\ n.id \notin Ids(to.nodes)}

ClassifyNodes(from, to, renames) ==
  LET diff == DiffSnapshots(from, to, renames)
  IN [id \in Ids(UnionNodes(from, to, renames)) |->
        IF id \in Range(renames) THEN "renamed"
        ELSE IF id \in diff.removed \ DOMAIN renames THEN "removed"
        ELSE IF id \in diff.added THEN "added" ELSE "unchanged"]

UnionEdges(from, to, renames) ==
  to.edges \cup {e \in from.edges : {Key(e), RemappedKey(e, renames)} \cap {Key(f) : f \in to.edges} = {}}

ClassifyEdges_AsNamed(from, to, renames) ==   \* a mutant: renames are left out of account
  LET added == DiffSnapshots(from, to, renames).addedEdges
      kept  == {Key(e) : e \in to.edges}
  IN [k \in kept \cup {Key(e) : e \in from.edges} |->
        IF k \in added THEN "added" ELSE IF k \in kept THEN "unchanged" ELSE "removed"]

ClassifyEdges(from, to, renames) ==
  LET added == DiffSnapshots(from, to, renames).addedEdges
      kept  == {Key(e) : e \in to.edges}
      lost  == {Key(e) : e \in {f \in from.edges : RemappedKey(f, renames) \notin kept}}
  IN [k \in kept \cup lost |->
        IF k \in kept THEN (IF k \in added THEN "added" ELSE "unchanged") ELSE "removed"]

-----------------------------------------------------------------------------
(* The elements of a page.  A node lies in the box of its package or, nested,  *)
(* in that of its directory inside it; a flat view has no boxes.               *)
PackageBox(n) ==
  CASE n.kind = "external" -> "pkg:external" [] n.kind = "package" -> NoBox [] OTHER -> "pkg:" \o n.pkg

GroupOf(n, nested) ==
  CASE PackageBox(n) = NoBox -> <<>>
    [] nested /\ n.kind = "file" /\ n.dir # n.root -> <<PackageBox(n), "dir:" \o n.dir>>
    [] OTHER -> <<PackageBox(n)>>

Innermost(n, nested) ==
  LET chain == GroupOf(n, nested) IN IF chain = <<>> THEN NoBox ELSE chain[Len(chain)]
-----------------------------------------------------------------------------
(* What a snapshot is: every id is one node's, an edge joins two of the nodes  *)
(* and was led through no barrel.  A package is named without a slash, and a   *)
(* file whose id has none, one at the root, is cut to itself: a file that is   *)
(* named as a package is lies in that package, alone or with others.           *)
IsSnapshot(g) ==
  /\ IsFiniteSet(g.nodes) /\ IsFiniteSet(g.edges)
  /\ \A m, n \in g.nodes : m.id = n.id => m = n
  /\ \A e \in g.edges : /\ e = Edge(e.src, e.dst, e.kind, e.weight) /\ e.weight \in Int
                        /\ {e.src, e.dst} \subseteq Ids(g.nodes)
  /\ \A m, n \in Files(g) : m.id = n.pkg => m.pkg = m.id

(* A rename takes an id that is gone to one that is new.                       *)
IsRenaming(from, to, renames) ==
  /\ DOMAIN renames \cap Ids(to.nodes) = {}
  /\ Range(renames) \subseteq Ids(to.nodes)

Between(g, S, T) == {e \in g.edges : e.src \in S /\ e.dst \in T}
IsClosed(g)      == \A e \in g.edges : {e.src, e.dst} \subseteq Ids(g.nodes)

(* However a snapshot is looked at, two packages depend on one another to the  *)
(* same extent, no drawn edge ends in nothing, and leaving the tests out takes *)
(* away the tests and nothing else.                                            *)
ViewsOfOneSnapshotAgree(g) ==
  LET pkgs == PackagesInSnapshot(g)
      all  == CollapseToPackages(g)
      Close(p) == FocusPackage(g, p, TRUE)
      Tests == {n.id : n \in {m \in Files(g) : m.role = "test"}}
  IN /\ \A p \in pkgs : \A q \in pkgs \ {p} :
          /\ WeightOf(Between(all, {p}, {q})) = WeightOf(Between(Close(p), Ids(Files(Close(p))), {q}))
          /\ WeightOf(Between(all, {p}, {q})) = WeightOf(Between(Close(q), {p}, Ids(Files(Close(q)))))
     /\ \A p \in pkgs :
          LET quiet == FocusPackage(g, p, FALSE)
              kept  == {e \in Close(p).edges : {e.src, e.dst} \cap (Tests \cap Ids(Files(Close(p)))) = {}}
          IN quiet.edges = kept
     /\ \A v \in {all, ResolveBarrels(g), CollapseToDirectories(g, TRUE), CollapseToDirectories(g, FALSE)} :
          IsClosed(v)
     /\ \A h \in {g, ResolveBarrels(g)}, p \in pkgs, tests \in BOOLEAN : IsClosed(FocusPackage(h, p, tests))

(* A page of two snapshots shows every node of either once, every edge with    *)
(* its status, and as removed exactly the edges with no heir.                  *)
DiffShowsBoth(from, to, renames) ==
  LET drawn  == UnionNodes(from, to, renames)
      status == ClassifyEdges(from, to, renames)
  IN /\ \A n \in from.nodes : Remapped(n.id, renames) \in Ids(drawn)
     /\ \A n \in drawn : Cardinality({m \in drawn : m.id = n.id}) = 1
     /\ {Key(e) : e \in UnionEdges(from, to, renames)} = DOMAIN status
     /\ {k \in DOMAIN status : status[k] = "removed"} =
          {Key(e) : e \in {f \in from.edges : RemappedKey(f, renames) \notin {Key(t) : t \in to.edges}}}
=============================================================================
