------------------------------ MODULE GraphPage ------------------------------
(* The page of the dependency graph in a browser (packages/render): what       *)
(* renderHtml and renderMultiViewHtml bake into it, and its script.  The page  *)
(* keeps filters, a selection, a panel, a query, the view picked; each click   *)
(* or key is one action.  The graph library is external: a tap on a node       *)
(* selects it alone, a tap elsewhere unselects, replaced elements come without *)
(* classes.  A class is a set of elements: a node is <<id>>, an edge its key.  *)
EXTENDS GraphViews

CONSTANTS NoRule, NoSelection, NoSearch,
          Pages,     \* what the commands bake
          Queries,   \* what may be typed: sets of the ids that match
          Snapshots, \* what they draw: snapshots, <<old, new, renames>>
          Diffs

VARIABLES page,      \* what is baked: visible views, all views
          shown,     \* the view the elements are of
          picker, barrels,             \* the two controls over the views
          chips,     \* the filter chips in the toolbar, and whether each is active
          hidden, onlyRule,            \* the filters
          dim,       \* class kind-hidden
          marks,     \* classes faded, highlight, fanout, fanin
          selected, panel, query, mode
pageVars == <<page, shown, picker, barrels, chips, hidden, onlyRule, dim, marks,
              selected, panel, query, mode>>

(* -------------------------------------------------------------------------- *)
(* What is baked.  A view has the elements, the chips the server counted, and  *)
(* how it was laid out.                                                        *)
Boxes(nodes, nested) ==
  UNION {{[id |-> GroupOf(n, nested)[i], kind |-> "package", role |-> NoRole,
           status |-> "unchanged", rules |-> {},
           parent |-> IF i = 1 THEN NoBox ELSE GroupOf(n, nested)[i - 1]] :
             i \in DOMAIN GroupOf(n, nested)} : n \in nodes}

BuildCyData(g, status, edgeStatus, violations, opts) ==
  [nodes |-> {[id |-> n.id, kind |-> n.kind, role |-> n.role, status |-> status[n.id],
               rules |-> {v.rule : v \in {w \in violations : w.node = n.id}},
               parent |-> IF opts.flat THEN NoBox ELSE Innermost(n, opts.nested)] : n \in g.nodes}
              \cup (IF opts.flat THEN {} ELSE Boxes(g.nodes, opts.nested)),
   edges |-> {[src |-> e.src, dst |-> e.dst, kind |-> e.kind, status |-> edgeStatus[Key(e)]] :
                e \in g.edges}]

ElkPresetCenters(g, opts) ==
  g.nodes # {} /\ (opts.flat \/ opts.compound \/ \A n \in g.nodes : n.kind = "package")

ChipGroups(g, status, diffed, violations) ==
  ({"node"} \X {n.kind : n \in g.nodes}) \cup ({"edge"} \X {e.kind : e \in g.edges})
  \cup ({"role"} \X ({n.role : n \in g.nodes} \ {NoRole}))
  \cup (IF diffed THEN {"status"} \X {status[n.id] : n \in g.nodes} ELSE {})
  \cup ({"rule"} \X {v.rule : v \in violations})

Draw(g, status, edgeStatus, diffed, violations, opts) ==
  [els |-> BuildCyData(g, status, edgeStatus, violations, opts),
   chips |-> ChipGroups(g, status, diffed, violations),
   routed |-> ElkPresetCenters(g, opts), elkCompound |-> opts.compound]

Unchanged(S) == [x \in S |-> "unchanged"]
PlainView(g, violations, opts) ==
  Draw(g, Unchanged(Ids(g.nodes)), Unchanged({Key(e) : e \in g.edges}), FALSE, violations, opts)

Options == [flat |-> FALSE, compound |-> FALSE, nested |-> FALSE]
Flat    == [Options EXCEPT !.flat = TRUE]

(* One view: a snapshot with its violations, or two snapshots.                 *)
Base(id) == <<id, "base">>
Resolved(id) == <<id, "resolved">>
RenderHtml(view) == [multi |-> FALSE, visible |-> {"only"}, first |-> "only",
                     views |-> [v \in {Base("only")} |-> view]]

RenderDiff(from, to, renames) ==
  RenderHtml(Draw(Graph(UnionNodes(from, to, renames), UnionEdges(from, to, renames)),
                  ClassifyNodes(from, to, renames), ClassifyEdges(from, to, renames),
                  TRUE, {}, Options))

MultiView(visible, first, views) ==
  [multi |-> TRUE, visible |-> visible, first |-> first, views |-> views]

(* The dashboard's views; those made of the graph without barrels are hidden.  *)
DashboardGraph(raw) ==
  LET pkgs == PackagesInSnapshot(raw)
      Of(v) == CASE v = Base("__overview__")    -> PlainView(CollapseToPackages(raw), {}, Options)
                 [] v = Base("__modules__")     -> PlainView(CollapseToDirectories(raw, FALSE), {}, Options)
                 [] v = Resolved("__modules__") -> PlainView(CollapseToDirectories(raw, TRUE), {}, Options)
                 [] v[1] \in pkgs /\ v[2] = "base" -> PlainView(FocusPackage(raw, v[1], FALSE), {}, Flat)
                 [] OTHER -> PlainView(FocusPackage(ResolveBarrels(raw), v[1], FALSE), {}, Flat)
      visible == {"__overview__", "__modules__"} \cup pkgs
  IN MultiView(visible, "__overview__",
               [v \in {Base(i) : i \in visible} \cup {Resolved(i) : i \in visible \ {"__overview__"}}
                  |-> Of(v)])

(* -------------------------------------------------------------------------- *)
(* The elements on screen.                                                     *)
view   == page.views[shown]
nodes  == view.els.nodes
edges  == view.els.edges
NodeEl(id) == <<id>>
NodeEls == {NodeEl(n.id) : n \in nodes}
EdgeEls == {Key(e) : e \in edges}
Elements == NodeEls \cup EdgeEls

HasBarrelToggle(p) == \E v \in DOMAIN p.views : v[2] = "resolved"
HasPicker(p) == p.multi /\ Cardinality(p.visible) > 1

NoMarks == [faded |-> {}, highlight |-> {}, fanout |-> {}, fanin |-> {}]
NoFilters == [group \in {"node", "edge", "status", "role"} |-> {}]

Outgoers(id) == {Key(e) : e \in {d \in edges : d.src = id}}
Incomers(id) == {Key(e) : e \in {d \in edges : d.dst = id}}
Neighbourhood(id) ==
  {NodeEl(id)} \cup Outgoers(id) \cup Incomers(id)
  \cup UNION {{NodeEl(e.src), NodeEl(e.dst)} : e \in {d \in edges : id \in {d.src, d.dst}}}
Highlighted(id) ==
  [faded |-> Elements \ Neighbourhood(id), highlight |-> Neighbourhood(id) \cap NodeEls,
   fanout |-> Outgoers(id), fanin |-> Incomers(id)]

HiddenNode(n, filters, rule) ==
  \/ n.kind \in filters["node"] \/ n.status \in filters["status"]
  \/ n.role # NoRole /\ n.role \in filters["role"]
  \/ rule # NoRule /\ rule \notin n.rules
HiddenEdge(e, filters) == e.kind \in filters["edge"] \/ e.status \in filters["status"]
ApplyKindVisibility(filters, rule) ==
  {NodeEl(n.id) : n \in {m \in nodes : HiddenNode(m, filters, rule)}}
  \cup {Key(e) : e \in {d \in edges : HiddenEdge(d, filters)}}

(* The script lays out by the baked positions, or by itself when there are     *)
(* boxes the server did not lay out.                                           *)
LayoutMode(v, elkCompound) ==
  IF v.els.nodes # {} /\ ((\A n \in v.els.nodes : n.parent = NoBox) \/ elkCompound)
  THEN "elk-preset" ELSE "cose-bilkent"

(* Chips made again by the script count every node, and have two groups fewer. *)
RegenChips(v) ==
  ({"node"} \X {n.kind : n \in v.els.nodes}) \cup ({"edge"} \X {e.kind : e \in v.els.edges})
  \cup ({"role"} \X ({n.role : n \in v.els.nodes} \ {NoRole}))

(* -------------------------------------------------------------------------- *)
(* What every command bakes: the first view is among those to pick, each of    *)
(* them has its elements, routes are drawn where the script will use the       *)
(* positions, and a page of more views has no boxes that were laid out.        *)
IsBaked(p) ==
  /\ p.first \in p.visible /\ {Base(id) : id \in p.visible} \subseteq DOMAIN p.views
  /\ ~p.multi => DOMAIN p.views = {Base("only")}
  /\ \A v \in DOMAIN p.views :
       LET w == p.views[v]
       IN /\ NoSelection \notin Ids(w.els.nodes)
          /\ \A c \in w.chips : c = <<c[1], c[2]>> /\ c[1] \in DOMAIN NoFilters \cup {"rule"}
          /\ w.routed <=> LayoutMode(w, w.elkCompound) = "elk-preset"
          /\ p.multi => ~w.elkCompound

ASSUME PagesAssumption == \A p \in Pages : IsBaked(p)
ASSUME DrawnAssumption ==
  /\ \A g \in Snapshots : IsSnapshot(g)
  /\ \A d \in Diffs : IsSnapshot(d[1]) /\ IsSnapshot(d[2]) /\ IsRenaming(d[1], d[2], d[3])

(* -------------------------------------------------------------------------- *)
ShowEmpty == panel' = NoSelection
ClearHighlights == marks' = NoMarks
ResetFilters == hidden' = NoFilters /\ onlyRule' = NoRule

(* switchView: other elements, no filters, nothing selected, no query.         *)
SwitchView(v) ==
  /\ shown' = v
  /\ mode' = LayoutMode(page.views[v], FALSE)
  /\ dim' = {}
  /\ ResetFilters
  /\ chips' = [c \in RegenChips(page.views[v]) |-> TRUE]
  /\ selected' = NoSelection /\ ClearHighlights /\ ShowEmpty
  /\ query' = NoSearch

Picked(p, id, throughBarrels) ==
  IF throughBarrels /\ Resolved(id) \in DOMAIN p.views THEN Resolved(id) ELSE Base(id)

(* Loading shows the first view; with a barrel toggle, which is on, it then    *)
(* applies the controls.                                                       *)
PageInit ==
  /\ page \in Pages
  /\ picker = page.first /\ barrels = HasBarrelToggle(page)
  /\ shown = Picked(page, picker, barrels)
  /\ mode = LayoutMode(view, view.elkCompound /\ ~barrels)
  /\ chips = [c \in (IF barrels THEN RegenChips(view) ELSE view.chips) |-> TRUE]
  /\ hidden = NoFilters /\ onlyRule = NoRule /\ dim = {}
  /\ marks = NoMarks /\ selected = NoSelection /\ panel = NoSelection /\ query = NoSearch

PickView ==
  /\ HasPicker(page)
  /\ \E id \in page.visible : picker' = id /\ SwitchView(Picked(page, id, barrels))
  /\ UNCHANGED <<page, barrels>>

ToggleBarrels ==
  /\ HasBarrelToggle(page)
  /\ barrels' = ~barrels
  /\ SwitchView(Picked(page, picker, barrels'))
  /\ UNCHANGED <<page, picker>>

TapNode ==
  /\ \E n \in nodes : selected' = n.id /\ panel' = n.id /\ marks' = Highlighted(n.id)
  /\ UNCHANGED <<page, shown, picker, barrels, chips, hidden, onlyRule, dim, query, mode>>

(* An edge has no handler: the library unselects, the script does nothing.     *)
TapEdge ==
  /\ edges # {} /\ selected' = NoSelection
  /\ UNCHANGED <<page, shown, picker, barrels, chips, hidden, onlyRule, dim, marks, panel, query, mode>>

TapBackground ==
  /\ selected' = NoSelection /\ ClearHighlights /\ ShowEmpty
  /\ UNCHANGED <<page, shown, picker, barrels, chips, hidden, onlyRule, dim, query, mode>>

(* A name in the panel's lists of neighbours.                                  *)
SelectNodeById ==
  /\ panel # NoSelection
  /\ \E n \in nodes :
       /\ \E e \in edges : {e.src, e.dst} = {panel, n.id} 
       /\ selected' = n.id /\ panel' = n.id /\ marks' = Highlighted(n.id)
  /\ UNCHANGED <<page, shown, picker, barrels, chips, hidden, onlyRule, dim, query, mode>>

(* "Show neighbors" goes by what is selected, and clears nothing first.        *)
ShowNeighbors ==
  /\ panel # NoSelection /\ selected # NoSelection
  /\ LET h == Highlighted(selected)
     IN marks' = [m \in DOMAIN marks |-> IF m = "faded" THEN h[m] ELSE marks[m] \cup h[m]]
  /\ UNCHANGED <<page, shown, picker, barrels, chips, hidden, onlyRule, dim, selected, panel, query, mode>>

ClickChip ==
  /\ \E c \in DOMAIN chips :
       IF c[1] = "rule"
       THEN /\ onlyRule' = IF onlyRule = c[2] THEN NoRule ELSE c[2]
            /\ chips' = [d \in DOMAIN chips |->
                           IF d[1] = "rule" THEN onlyRule' = NoRule \/ d = c ELSE chips[d]]
            /\ UNCHANGED hidden
       ELSE /\ hidden' = [hidden EXCEPT ![c[1]] = IF c[2] \in @ THEN @ \ {c[2]} ELSE @ \cup {c[2]}]
            /\ chips' = [chips EXCEPT ![c] = c[2] \in hidden[c[1]]]
            /\ UNCHANGED onlyRule
  /\ dim' = ApplyKindVisibility(hidden', onlyRule')
  /\ UNCHANGED <<page, shown, picker, barrels, marks, selected, panel, query, mode>>

FitToViewport ==
  /\ selected' = NoSelection /\ ClearHighlights /\ ShowEmpty
  /\ UNCHANGED <<page, shown, picker, barrels, chips, hidden, onlyRule, dim, query, mode>>

Search ==
  /\ \E q \in Queries \cup {NoSearch} :
       /\ query' = q
       /\ marks' = IF q = NoSearch THEN NoMarks
                   ELSE [marks EXCEPT !.faded = {NodeEl(n.id) : n \in {m \in nodes : m.id \notin q}}
                                                \cup EdgeEls]
  /\ UNCHANGED <<page, shown, picker, barrels, chips, hidden, onlyRule, dim, selected, panel, mode>>

PageNext ==
  \/ PickView \/ ToggleBarrels \/ TapNode \/ TapEdge \/ TapBackground \/ SelectNodeById
  \/ ShowNeighbors \/ ClickChip \/ FitToViewport \/ Search

PageSpec == PageInit /\ [][PageNext]_pageVars

(* -------------------------------------------------------------------------- *)
(* The toolbar tells the filters in force and can undo each of them, and the   *)
(* elements dimmed are those the filters hide, whatever views came before.     *)
FiltersCanBeUndone ==
  /\ \A group \in DOMAIN hidden : \A x \in hidden[group] : <<group, x>> \in DOMAIN chips
  /\ onlyRule # NoRule => <<"rule", onlyRule>> \in DOMAIN chips
  /\ \A c \in DOMAIN chips :
       chips[c] <=> IF c[1] = "rule" THEN onlyRule \in {NoRule, c[2]} ELSE c[2] \notin hidden[c[1]]
  /\ dim = ApplyKindVisibility(hidden, onlyRule)

(* What the page says is about the view on screen: that is the one picked, the *)
(* panel's node and its neighbours are in it, routes are drawn only over the   *)
(* positions they were made for, and with nothing selected or asked no element *)
(* is faded or lit.                                                            *)
PageFollowsView ==
  /\ page.multi => shown = Picked(page, picker, barrels)
  /\ view.routed <=> mode = "elk-preset"
  /\ panel # NoSelection => NodeEl(panel) \in NodeEls
  /\ selected # NoSelection => selected = panel
  /\ UNION {marks[m] : m \in DOMAIN marks} \subseteq Elements
  /\ panel = NoSelection /\ query = NoSearch => marks = NoMarks

(* Whatever views were opened before, the page tells the truth about the one   *)
(* on screen: its filters (FiltersCanBeUndone) and the rest (PageFollowsView). *)
PageTellsTheView == FiltersCanBeUndone /\ PageFollowsView

(* And what is drawn, of any snapshot or of two, is what they hold.            *)
ViewsAgree ==
  /\ \A g \in Snapshots : ViewsOfOneSnapshotAgree(g)
  /\ \A d \in Diffs : DiffShowsBoth(d[1], d[2], d[3])

PagesTellTheTruth == PageTellsTheView /\ ViewsAgree

(* "Emits no edges referencing nonexistent nodes".                             *)
EdgesHaveEnds ==
  \A v \in DOMAIN page.views : \A e \in page.views[v].els.edges :
    {e.src, e.dst} \subseteq Ids(page.views[v].els.nodes)
=============================================================================
