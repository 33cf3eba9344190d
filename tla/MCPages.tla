------------------------------- MODULE MCPages -------------------------------
(* The pages TLC opens, and the snapshots whose views it compares.             *)
EXTENDS GraphPage

File(id, role, pkg, dir) ==
  [id |-> id, kind |-> "file", role |-> role, pkg |-> pkg, dir |-> dir, root |-> pkg]
AX   == File("a/x", "source", "a", "a")
ALib == File("a/lib/y", "source", "a", "a/lib")
AT   == File("a/t", "test", "a", "a")
BI   == File("b/index", "barrel", "b", "b")
BZ   == File("b/z", "source", "b", "b")
CW   == File("c/lib/w", "entry", "c", "c/lib")
(* A file at the root, and one of packages/r: both are of the package r.       *)
R  == File("r", "source", "r", "r")
RV == [File("packages/r/v", "source", "r", "packages/r") EXCEPT !.root = "packages/r"]
Npm  == [id |-> "npm", kind |-> "external", role |-> NoRole, pkg |-> "npm", dir |-> "npm", root |-> "npm"]
SampleNodes == {AX, ALib, AT, BI, BZ, CW, R, RV, Npm}

Uses(src, dst, n) == Edge(src.id, dst.id, "imports", n * Parts)
SampleEdges ==
  {Uses(AX, ALib, 1), Uses(ALib, BI, 4), Uses(AT, AX, 1), Uses(AT, BZ, 2), Uses(BZ, CW, 0),
   Uses(BZ, AT, 1), Uses(AX, Npm, 1), Uses(CW, BZ, 3), Uses(AX, BI, 2),
   Uses(R, BZ, 2),
   Edge(BI.id, BZ.id, "re-exports", 3 * Parts), Edge(BI.id, CW.id, "re-exports", Parts)}
RootEdges  == {Uses(AX, R, 1), Uses(RV, AX, 2)}
Everything == Graph(SampleNodes, SampleEdges \cup RootEdges)
MCSnapshots == {Graph(SampleNodes, RootEdges \cup some) : some \in SUBSET SampleEdges}
Few   == Graph({AX, ALib, CW, Npm}, {Uses(AX, ALib, 1), Uses(ALib, CW, 1), Uses(CW, Npm, 1)})

(* AX becomes A2.                                                              *)
A2 == File("a/x2", "source", "a", "a")
Renamed == [id \in {AX.id} |-> A2.id]
OldNodes == {AX, ALib, BZ}
NewNodes == {A2, ALib, CW}
OldEdges == {Uses(AX, ALib, 1), Uses(ALib, AX, 1), Uses(BZ, AX, 1), Uses(ALib, BZ, 1)}
NewEdges == {Uses(A2, ALib, 1), Uses(ALib, A2, 1), Uses(CW, A2, 1), Uses(ALib, CW, 1)}
MCDiffs == {<<Graph(OldNodes, f), Graph(NewNodes, t), Renamed>> : f \in SUBSET OldEdges, t \in SUBSET NewEdges}
           \cup {<<Graph(OldNodes, f), Graph(OldNodes, t), <<>>>> : f, t \in SUBSET OldEdges}

Broken == {[node |-> AX.id, rule |-> "r1"], [node |-> CW.id, rule |-> "r2"]}
MCPages ==
  {DashboardGraph(Everything),
   RenderHtml(PlainView(Few, Broken, [Options EXCEPT !.compound = TRUE])),
   RenderHtml(PlainView(Few, Broken, [Options EXCEPT !.compound = TRUE, !.nested = TRUE])),
   RenderHtml(PlainView(FocusPackage(Everything, "a", FALSE), {}, Flat)),
   RenderHtml(PlainView(CollapseToDirectories(Everything, TRUE), {}, Options)),
   RenderDiff(Graph(OldNodes, OldEdges), Graph(OldNodes \ {BZ}, OldEdges \ {Uses(BZ, AX, 1), Uses(ALib, BZ, 1)}), <<>>),
   RenderDiff(Graph(OldNodes, {Uses(AX, ALib, 1)}), Graph(NewNodes, {Uses(A2, ALib, 1), Uses(CW, A2, 1)}), Renamed)}
MCDiffPages == {RenderDiff(d[1], d[2], d[3]) : d \in MCDiffs}
MCQueries == {{AX.id, ALib.id}, {"a", "b"}, {}}
=============================================================================
