------------------------------- MODULE Ingest -------------------------------
(* Reading an author's code from GitHub, commit by commit, newest first, with  *)
(* an optional cache on disk.  Every request may fail and ends the ingest; the *)
(* program may die, inside a write of the cache too; it is then started again. *)
EXTENDS Naturals, Sequences, FiniteSets, SequencesExt

CONSTANTS Histories,   \* the histories to explore: commits, newest first
          CacheDirs,   \* whether a cache directory is configured: a set of BOOLEANs
          NoEntry,     \* the key has no cache file
          Torn,        \* its cache file is no JSON
          Gone,        \* GitHub has no content for the path at that commit
          EmptyText,   \* the content of an empty file
          MaxIngests

VARIABLES history,     \* the whole history; published counts how much of it is pushed
          published,
          cached,      \* a cache directory is configured
          cache,       \* the cache files, by key
          ingests,     \* how often an ingest was started
          step,        \* "idle", "list", "commits", "pulls" or "done"
          commits,     \* the commits left to read
          listed,      \* all commits of this ingest's list
          files,       \* files of the commit at hand left to read
          seenPaths,
          corpus       \* the files read so far
ingestVars == <<history, published, cached, cache, ingests, step, commits, listed, files,
                seenPaths, corpus>>

(* A commit has a sha and the files it touched: a path, whether it has a       *)
(* language of the configuration, and the content it left, or Gone.            *)
ASSUME HistoryAssumption ==
  \A h \in Histories :
    /\ h \in Seq(Range(h)) /\ \A c \in Range(h) : c.files \in Seq(Range(c.files))
    /\ \A c, d \in Range(h) : c.sha = d.sha => c = d
    /\ \A c \in Range(h) : \A i, j \in DOMAIN c.files :
         c.files[i].path = c.files[j].path => i = j

Keys(h)     == {<<"commits">>} \cup UNION {{<<f.path, c.sha>> : f \in Range(c.files)} : c \in Range(h)}
Pushed      == SubSeq(history, Len(history) - published + 1, Len(history))

IngestInit ==
  /\ history \in Histories /\ published \in 1..Len(history) /\ cached \in CacheDirs
  /\ cache = [k \in Keys(history) |-> NoEntry]
  /\ ingests = 0 /\ step = "idle"
  /\ commits = <<>> /\ listed = <<>> /\ files = <<>> /\ seenPaths = {} /\ corpus = <<>>

Push ==
  /\ published < Len(history)
  /\ published' = published + 1
  /\ UNCHANGED <<history, cached, cache, ingests, step, commits, listed, files, seenPaths, corpus>>

StartIngest ==
  /\ step \in {"idle", "done"} /\ ingests < MaxIngests
  /\ ingests' = ingests + 1
  /\ step' = "list"
  /\ commits' = <<>> /\ listed' = <<>> /\ files' = <<>> /\ seenPaths' = {} /\ corpus' = <<>>
  /\ UNCHANGED <<history, published, cached, cache>>

(* FileCache: a torn file is deleted and read as a miss; so is a cached empty  *)
(* text, which is falsy.                                                       *)
Hit(k)       == cached /\ cache[k] \notin {NoEntry, Torn, EmptyText}
Stored(k, v) == IF cached THEN [cache EXCEPT ![k] = v] ELSE cache

FetchCommitShas ==
  /\ step = "list"
  /\ LET key == <<"commits">>
         shas == IF Hit(key) THEN cache[key] ELSE Pushed
     IN /\ listed' = shas /\ commits' = shas
        /\ cache' = IF Hit(key) THEN cache ELSE Stored(key, shas)
  /\ step' = "commits"
  /\ UNCHANGED <<history, published, cached, ingests, files, seenPaths, corpus>>

FetchCommitFiles ==
  /\ step = "commits" /\ files = <<>> /\ commits # <<>>
  /\ files' = [i \in DOMAIN Head(commits).files |->
                 [file |-> Head(commits).files[i], sha |-> Head(commits).sha]]
  /\ commits' = Tail(commits)
  /\ UNCHANGED <<history, published, cached, cache, ingests, step, listed, seenPaths, corpus>>

(* The next file: its content at this commit, unless a newer commit named it.  *)
(* A path without content counts as seen: older content does not stand in.     *)
Content(f, sha) == IF Hit(<<f.path, sha>>) THEN cache[<<f.path, sha>>] ELSE f.content

Marks_Late(path, content) == IF content = Gone THEN {} ELSE {path}   \* a mutant

Marks(path, content) == {path}

ReadFile ==
  /\ step = "commits" /\ files # <<>>
  /\ files' = Tail(files)
  /\ LET f == Head(files).file
         sha == Head(files).sha
         content == Content(f, sha)
     IN IF f.path \in seenPaths THEN UNCHANGED <<cache, seenPaths, corpus>>
        ELSE /\ seenPaths' = seenPaths \cup Marks(f.path, content)
             /\ cache' = IF content = Gone THEN cache ELSE Stored(<<f.path, sha>>, content)
             /\ corpus' = IF content = Gone \/ ~f.language THEN corpus
                          ELSE Append(corpus, [path |-> f.path, content |-> content, sha |-> sha])
  /\ UNCHANGED <<history, published, cached, ingests, step, commits, listed>>

(* The pull requests, their comments and files are read once and not cached.   *)
FetchPullRequests ==
  /\ step = "commits" /\ files = <<>> /\ commits = <<>>
  /\ step' = "done"
  /\ UNCHANGED <<history, published, cached, cache, ingests, commits, listed, files, seenPaths, corpus>>

(* A request fails, or the program dies; a cache file being written is torn.   *)
IngestDies ==
  /\ step \in {"list", "commits"}
  /\ step' = "idle"
  /\ LET writing == IF step = "list" THEN {<<"commits">>}
                    ELSE IF files # <<>> /\ Head(files).file.path \notin seenPaths /\ Head(files).file.content # Gone
                    THEN {<<Head(files).file.path, Head(files).sha>>} ELSE {}
     IN cache' \in {cache} \cup {[cache EXCEPT ![k] = Torn] : k \in {w \in writing : cached /\ ~Hit(w)}}
  /\ UNCHANGED <<history, published, cached, ingests, commits, listed, files, seenPaths, corpus>>

IngestNext ==
  \/ Push \/ StartIngest \/ FetchCommitShas \/ FetchCommitFiles \/ ReadFile \/ FetchPullRequests
  \/ IngestDies

IngestSpec == IngestInit /\ [][IngestNext]_ingestVars

(* -------------------------------------------------------------------------- *)
(* What the files of a list of commits are, read off the history: the content  *)
(* each path was left with by the newest commit that touched it.               *)
LeftBy(shas, path) ==
  LET by == {i \in DOMAIN shas : \E f \in Range(shas[i].files) : f.path = path}
      newest == CHOOSE i \in by : \A j \in by : i <= j
  IN [file |-> CHOOSE f \in Range(shas[newest].files) : f.path = path, sha |-> shas[newest].sha]

Paths(shas) == UNION {{f.path : f \in Range(c.files)} : c \in Range(shas)}

Reference(shas) ==
  {[path |-> p, content |-> LeftBy(shas, p).file.content, sha |-> LeftBy(shas, p).sha] :
     p \in {q \in Paths(shas) : /\ LeftBy(shas, q).file.content # Gone
                                /\ LeftBy(shas, q).file.language}}

(* A completed ingest has every path of the history it listed exactly once,    *)
(* with the content and the commit it had then: whatever earlier ingests that  *)
(* failed, died inside a write or met a shorter history left in the cache,     *)
(* no deleted file is brought back and no content of another commit is used.   *)
(* The list itself is a history that was pushed, the present one when no cache *)
(* keeps an older list.                                                        *)
CorpusIsTheListed ==
  step = "done" =>
    /\ Range(corpus) = Reference(listed) /\ Len(corpus) = Cardinality(Range(corpus))
    /\ \E n \in 1..published : listed = SubSeq(history, Len(history) - n + 1, Len(history))
=============================================================================
