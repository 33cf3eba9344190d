----------------------------- MODULE MCGraphStore -----------------------------
(* The instances of the graph's programs for TLC, explored side by side: the   *)
(* commands with every edit, commit and kill but no daemon; daemons over a     *)
(* directory in which nobody edits or is killed, where an old database is      *)
(* aside and graph.db is another old one or an empty one; a page in a browser. *)
EXTENDS McpDaemon, MCPages

VARIABLE focus    \* the program explored

NoDaemons ==
  /\ step = [d \in Daemons |-> "gone"]
  /\ port = [d \in Daemons |-> CHOOSE q \in Ports : TRUE]
  /\ pin = [d \in Daemons |-> 0]
  /\ store = [d \in Daemons |-> NoFile]
  /\ asked = [d \in Daemons |-> 0]
  /\ since = [d \in Daemons |-> 0]
  /\ answer = [d \in Daemons |-> "none"]
  /\ sessions = [d \in Daemons |-> {}]
  /\ tokenFile = [q \in Ports |-> NoDaemon]
  /\ earlier = [d \in Daemons |-> {}]
  /\ token = [c \in Clients |-> NoDaemon]
  /\ session = [c \in Clients |-> NoDaemon]
NoEdits == edits = MaxEdits /\ kills = MaxKills
TwoOldFiles ==
  /\ disk = [n \in Names |-> [main |-> IF n = 0 THEN 2 ELSE IF n = 1 THEN 1 ELSE NoFile,
                              wal |-> NoFile]]
  /\ data \in {<<OldFile(FALSE), NewFile>>, <<OldFile(FALSE), OldFile(FALSE)>>}
  /\ work = {} /\ index = {} /\ landed = {}
  /\ proc = [p \in Procs |-> Idle] /\ commit = NoCommitRuns /\ torn = FALSE
StoreRests == NoDaemons /\ NoEdits /\ TwoOldFiles /\ Len(data) = 2 /\ data[2] = NewFile

PageRests ==
  /\ page = RenderHtml(PlainView(Graph({}, {}), {}, Options))
  /\ picker = "only" /\ barrels = FALSE /\ shown = Base("only") /\ mode = "cose-bilkent"
  /\ chips = <<>> /\ hidden = NoFilters /\ onlyRule = NoRule /\ dim = {}
  /\ marks = NoMarks /\ selected = NoSelection /\ panel = NoSelection /\ query = NoSearch

MCInit ==
  \/ focus = "store"  /\ PageRests /\ StoreInit /\ NoDaemons
  \/ focus = "daemon" /\ PageRests /\ NoEdits /\ DaemonInit /\ TwoOldFiles
  \/ focus = "page"   /\ StoreRests /\ PageInit

MCNext ==
  /\ UNCHANGED focus
  /\ \/ focus \in {"store", "daemon"} /\ Next /\ UNCHANGED pageVars
     \/ focus = "page" /\ PageNext /\ UNCHANGED vars

MCSpec == MCInit /\ [][MCNext]_<<focus, vars, pageVars>>
=============================================================================
