------------------------------ MODULE ArchViews ------------------------------
(* What `graph arch` works out beside the package diagram: the diagram of the  *)
(* domains a config names (commands/graph-arch-domains.ts) and the evidence    *)
(* for splitting a package (graph-arch-split.ts, graph-arch-split-filter.ts).  *)
(* Names, globs and package ids are sequences of words.  The files are those   *)
(* the exclusions leave, the edges are already resolved through barrels; the   *)
(* communities come from a library and may be any partition.  Modularity, the  *)
(* diagram's text and the order of lists are left out.                         *)
EXTENDS Naturals, Sequences, FiniteSets, FiniteSetsExt, Functions

CONSTANT NoCoEdits   \* there is no readable git history

(* -------------------------------------------------------------------------- *)
(* Domains: a sequence of [name, globs]; matches[g] are the files glob g fits. *)
PatternKey(name, glob) == name \o glob

MatchDomains(file, domains, matches) ==
  {i \in DOMAIN domains : \E g \in domains[i].globs : file \in matches[g]}

(* A mutant: the last domain that matches takes the file.                      *)
OwnDomain_Last(file, domains, matches) == Max(MatchDomains(file, domains, matches))

OwnDomain(file, domains, matches) == Min(MatchDomains(file, domains, matches))

AssignDomains(files, domains, matches) ==
  LET matched == {f \in files : MatchDomains(f, domains, matches) # {}}
  IN [domainByFile |-> [f \in matched |-> OwnDomain(f, domains, matches)],
      hitPatterns  |-> UNION {{PatternKey(d.name, g) : g \in {h \in d.globs : matches[h] \cap files # {}}} :
                                d \in Range(domains)},
      overlaps     |-> {f \in matched : Cardinality(MatchDomains(f, domains, matches)) > 1},
      unassignedFiles |-> Cardinality(files \ matched)]

BuildValidation(domains, assigned) ==
  [emptyDomains  |-> DOMAIN domains \ Range(assigned.domainByFile),
   emptyPatterns |-> {p \in UNION {{i} \X domains[i].globs : i \in DOMAIN domains} :
                        PatternKey(domains[p[1]].name, p[2]) \notin assigned.hitPatterns},
   overlaps |-> assigned.overlaps, unassignedFiles |-> assigned.unassignedFiles]

(* Edges between buckets, with the file edges each stands for.                 *)
AggregateEdges(edges, bucket) ==
  LET crossing == {e \in edges : {e.src, e.dst} \subseteq DOMAIN bucket /\ bucket[e.src] # bucket[e.dst]}
      Ends(e)  == <<bucket[e.src], bucket[e.dst]>>
  IN [p \in {Ends(e) : e \in crossing} |-> Cardinality({e \in crossing : Ends(e) = p})]

BuildDomainNodes(domains, assigned, counts) ==
  {[id |-> i, files |-> Cardinality({f \in DOMAIN assigned.domainByFile : assigned.domainByFile[f] = i})] :
     i \in Range(assigned.domainByFile) \cup UNION {{p[1], p[2]} : p \in DOMAIN counts}}

ComputeArchDomains(files, edges, domains, matches, minEdges) ==
  LET assigned == AssignDomains(files, domains, matches)
      counts   == AggregateEdges(edges, assigned.domainByFile)
  IN [packages |-> BuildDomainNodes(domains, assigned, counts),
      edges |-> {p \in DOMAIN counts : counts[p] >= Max({1, minEdges})},
      counts |-> counts, validation |-> BuildValidation(domains, assigned)]

(* -------------------------------------------------------------------------- *)
(* The evidence for splitting a package; community maps its files.             *)
NonSource == {"docs", "examples", "fixtures"}
IsSourcePackage(pkg) == Range(pkg) \cap NonSource = {}

InterFileEdges(edges, files) == {e \in edges : e.src # e.dst /\ {e.src, e.dst} \subseteq files}

Members(community, c) == {f \in DOMAIN community : community[f] = c}
Communities(community) == Range(community)

(* How often the files of a community import from each other package.          *)
ExternalVector(c, community, edges, pkgByFile, ownPkg) ==
  LET leaving == {e \in edges : e.src \in Members(community, c) /\ pkgByFile[e.dst] # ownPkg}
  IN [q \in {pkgByFile[e.dst] : e \in leaving} |->
        Cardinality({e \in leaving : pkgByFile[e.dst] = q})]

ExtractBridges(internal, community) ==
  LET crossing == {e \in internal : community[e.src] # community[e.dst]}
  IN [p \in {<<e.src, e.dst>> : e \in crossing} |->
        Cardinality({e \in crossing : <<e.src, e.dst>> = p})]

(* The squares of cosines, as fractions <<above, below>>.                      *)
Dot(a, b) == MapThenSumSet(LAMBDA q : a[q] * b[q], DOMAIN a \cap DOMAIN b)
Cosine(a, b) == <<Dot(a, b) * Dot(a, b), Dot(a, a) * Dot(b, b)>>
AtMost(x, y) == x[1] * y[2] <= y[1] * x[2]

MinCosine(vectors) ==   \* <<1, 1>> and the cosines of any two; NULL is {}
  LET withDeps == {c \in DOMAIN vectors : DOMAIN vectors[c] # {}}
      all == {<<1, 1>>} \cup {Cosine(vectors[p[1]], vectors[p[2]]) :
                               p \in {q \in withDeps \X withDeps : q[1] # q[2]}}
  IN IF Cardinality(withDeps) < 2 THEN {} ELSE {x \in all : \A y \in all : AtMost(x, y)}

DirectoryAlignment(community, dirOf) ==
  LET Most(c) == Max({Cardinality({f \in Members(community, c) : dirOf[f] = d}) : d \in Range(dirOf)})
  IN <<MapThenSumSet(Most, Communities(community)), Cardinality(DOMAIN community)>>

PossiblePairs(community) ==
  LET n == Cardinality(DOMAIN community)
      Size(c) == Cardinality(Members(community, c))
      within  == MapThenSumSet(LAMBDA c : (Size(c) * (Size(c) - 1)) \div 2, Communities(community))
  IN [within |-> within, cross |-> (n * (n - 1)) \div 2 - within]

CoEditDensity(pairs, community) ==
  LET ours == {p \in DOMAIN pairs : p \subseteq DOMAIN community}
      Same(p) == \A f, g \in p : community[f] = community[g]
      Count(p) == pairs[p]
      within == MapThenSumSet(Count, {p \in ours : Same(p)})
      cross  == MapThenSumSet(Count, {p \in ours : ~Same(p)})
  IN IF pairs = NoCoEdits THEN NoCoEdits
     ELSE [within |-> within, cross |-> cross, possible |-> PossiblePairs(community)]

AnalyzePackage(pkg, community, edges, pkgByFile, dirOf, pairs) ==
  LET internal == {e \in edges : {e.src, e.dst} \subseteq DOMAIN community}
      vectors  == [c \in Communities(community) |-> ExternalVector(c, community, edges, pkgByFile, pkg)]
  IN [clusters |-> {Members(community, c) : c \in Communities(community)},
      vectors |-> vectors, bridges |-> ExtractBridges(internal, community), internal |-> internal,
      minExternalCosine |-> MinCosine(vectors),
      directoryAlignment |-> DirectoryAlignment(community, dirOf),
      coEdit |-> CoEditDensity(pairs, community)]

(* Nine in ten clusters hold one file.                                         *)
IsFragmented(clusters) ==
  clusters = {} \/ 10 * Cardinality({c \in clusters : Cardinality(c) = 1}) >= 9 * Cardinality(clusters)

ComputeArchSplit(a, minFiles) ==
  LET files == DOMAIN a.pkgByFile
      edges == InterFileEdges(a.edges, files)
      Of(p) == {f \in files : a.pkgByFile[f] = p}
      Evidence(p) == AnalyzePackage(p, Restrict(a.community, Of(p)), edges, a.pkgByFile, a.dirOf, a.pairs)
      worth == {p \in a.packages : IsSourcePackage(p) /\ Cardinality(Of(p)) >= minFiles}
  IN [p \in {q \in worth : ~IsFragmented(Evidence(q).clusters)} |-> Evidence(p)]

(* -------------------------------------------------------------------------- *)
(* The diagram loses nothing it does not name.  Every file is in one domain's  *)
(* box or counted as unassigned; every edge of files in two domains is drawn,  *)
(* or too few; a domain said to be empty lost each of its files to one before  *)
(* it, and that file is reported; a glob not said to be empty fits a file, or  *)
(* another glob reads the same together with its domain's name.                *)
DomainsAddUp(files, edges, domains, matches, minEdges) ==
  LET arch  == ComputeArchDomains(files, edges, domains, matches, minEdges)
      told  == arch.validation
      boxes == {n.id : n \in arch.packages}
      First(f) == CHOOSE i \in MatchDomains(f, domains, matches) :
                    \A j \in 1..(i - 1) : j \notin MatchDomains(f, domains, matches)
      crossing == {e \in edges : /\ {e.src, e.dst} \subseteq {f \in files : MatchDomains(f, domains, matches) # {}}
                                 /\ First(e.src) # First(e.dst)}
      Drawn(p) == arch.counts[p]
  IN /\ MapThenSumSet(LAMBDA n : n.files, arch.packages) + told.unassignedFiles = Cardinality(files)
     /\ MapThenSumSet(Drawn, DOMAIN arch.counts) = Cardinality(crossing)
     /\ \A p \in arch.edges : {p[1], p[2]} \subseteq boxes
     /\ \A e \in crossing : Cardinality({d \in crossing : <<First(d.src), First(d.dst)>> = <<First(e.src), First(e.dst)>>})
                              >= minEdges => <<First(e.src), First(e.dst)>> \in arch.edges
     /\ \A i \in told.emptyDomains : \A g \in domains[i].globs : \A f \in matches[g] \cap files :
          f \in told.overlaps /\ First(f) < i
     /\ \A i \in DOMAIN domains : \A g \in domains[i].globs :
          <<i, g>> \in told.emptyPatterns <=>
            \A j \in DOMAIN domains : \A h \in domains[j].globs :
              domains[j].name \o h = domains[i].name \o g => matches[h] \cap files = {}

(* Each cluster accounts for its part: the clusters divide the package's files *)
(* and the internal edges are inside one or in a bridge; what a cluster        *)
(* imports, other packages own; the least cosine is 1 exactly if all clusters  *)
(* import in the same proportions; an alignment of 1 means clusters inside     *)
(* directories; co-edits and the pairs they are averaged over are divided the  *)
(* same way.                                                                   *)
SplitAddsUp(a, minFiles) ==
  LET split == ComputeArchSplit(a, minFiles)
      files == DOMAIN a.pkgByFile
      Of(p) == {f \in files : a.pkgByFile[f] = p}
      Pairs(S) == {q \in SUBSET S : Cardinality(q) = 2}
      CoEdits(q) == a.pairs[q]
  IN \A p \in DOMAIN split :
       LET s == split[p]
           Bridged(q) == s.bridges[q]
           Together(q) == \E c \in s.clusters : q \subseteq c
           deps == {s.vectors[c] : c \in {d \in DOMAIN s.vectors : DOMAIN s.vectors[d] # {}}}
           Proportional(v, w) == DOMAIN v = DOMAIN w /\ \A x, y \in DOMAIN v : v[x] * w[y] = v[y] * w[x]
       IN /\ UNION s.clusters = Of(p)
          /\ \A c, d \in s.clusters : c = d \/ c \cap d = {}
          /\ \E c \in s.clusters : Cardinality(c) > 1
          /\ Cardinality({e \in s.internal : Together({e.src, e.dst})}) + MapThenSumSet(Bridged, DOMAIN s.bridges)
               = Cardinality({e \in a.edges : {e.src, e.dst} \subseteq Of(p) /\ e.src # e.dst})
          /\ \A c \in DOMAIN s.vectors : p \notin DOMAIN s.vectors[c]
          /\ \A x \in s.minExternalCosine :
               AtMost(x, <<1, 1>>) /\ (x[1] = x[2] <=> \A v, w \in deps : Proportional(v, w))
          /\ s.directoryAlignment[1] = s.directoryAlignment[2]
               <=> \A c \in s.clusters : \A f, g \in c : a.dirOf[f] = a.dirOf[g]
          /\ s.coEdit # NoCoEdits =>
               /\ s.coEdit.possible.within = Cardinality({q \in Pairs(Of(p)) : Together(q)})
               /\ s.coEdit.possible.cross  = Cardinality({q \in Pairs(Of(p)) : ~Together(q)})
               /\ s.coEdit.within + s.coEdit.cross
                    = MapThenSumSet(CoEdits, {q \in DOMAIN a.pairs : q \subseteq Of(p)})
=============================================================================
