------------------------------ MODULE McpDaemon ------------------------------
(***************************************************************************)
(* graph mcp --http (mcp/http-server.ts, http-token.ts, http-guard.ts,     *)
(* read-api/reader.ts): a process that writes a token file, opens graph.db *)
(* once, listens, and answers every session from that one handle, while    *)
(* the commands of GraphStore go on writing and pruning.                   *)
(*                                                                         *)
(* A daemon is one start of the process; its token is its own name.  One   *)
(* client at a time has a question open at a daemon: between the choice of *)
(* the snapshot and the reading of its rows there is an await or another   *)
(* process's turn.  Host and Origin of a request are right.                *)
(***************************************************************************)
EXTENDS GraphStore

CONSTANTS
  Daemons,    \* starts of the server
  Ports,      \* ports they are told to listen on
  Clients,
  Pins,       \* values of --snapshot: ids, and 0 for none
  NoDaemon    \* no token, no session

VARIABLES
  step,       \* per daemon: "off", "api", "listen", "up", "gone"
  port, pin,  \* its --port and --snapshot
  store,      \* the file its read API has open
  asked,      \* the snapshot it answers from, 0 when no question is open
  since,      \* history: the newest snapshot id when the question was asked
  answer,     \* the last answer: "none", "whole", "empty"
  sessions,   \* clients with a transport
  tokenFile,  \* per port: the token in mcp-http-<port>.token
  earlier,    \* history: per daemon, the starts that wrote a token before it did
  token,      \* per client: the token it read
  session     \* per client: the daemon that issued its session id

daemonVars == <<step, port, pin, store, asked, since, answer, sessions, tokenFile, earlier, token, session>>

DaemonInit ==
  /\ step = [d \in Daemons |-> "off"]
  /\ port \in [Daemons -> Ports]
  /\ pin \in [Daemons -> Pins]
  /\ store = [d \in Daemons |-> NoFile]
  /\ asked = [d \in Daemons |-> 0]
  /\ since = [d \in Daemons |-> 0]
  /\ answer = [d \in Daemons |-> "none"]
  /\ sessions = [d \in Daemons |-> {}]
  /\ tokenFile = [q \in Ports |-> NoDaemon]
  /\ earlier = [d \in Daemons |-> {}]
  /\ token = [c \in Clients |-> NoDaemon]
  /\ session = [c \in Clients |-> NoDaemon]

Listening(q) == \E d \in Daemons : step[d] = "up" /\ port[d] = q

TokenPath_Shared(d) == CHOOSE q \in Ports : TRUE

\* One file per port.
TokenPath(d) == port[d]

\* createTokenFile: a new file renamed over the old one, before anything else.
WriteToken(d) ==
  /\ step[d] = "off"
  /\ tokenFile' = [tokenFile EXCEPT ![TokenPath(d)] = d]
  /\ earlier' = [earlier EXCEPT ![d] = {e \in Daemons : step[e] # "off"}]
  /\ step' = [step EXCEPT ![d] = "api"]
  /\ UNCHANGED <<port, pin, store, asked, since, answer, sessions, token, session>>

\* createReadApi: openGraphStore throws for a missing or an old database, and
\* the start is over.
OpenApi(d) ==
  LET f == disk[0].main
      ok == f # NoFile /\ ~Legacy(f)
  IN  /\ step[d] = "api"
      /\ step' = [step EXCEPT ![d] = IF ok THEN "listen" ELSE "gone"]
      /\ store' = [store EXCEPT ![d] = IF ok THEN f ELSE NoFile]
      /\ UNCHANGED <<port, pin, asked, since, answer, sessions, tokenFile, earlier, token, session>>

\* listen: a port in use raises an error nobody handles.
Listen(d) ==
  /\ step[d] = "listen"
  /\ step' = [step EXCEPT ![d] = IF Listening(port[d]) THEN "gone" ELSE "up"]
  /\ UNCHANGED <<port, pin, store, asked, since, answer, sessions, tokenFile, earlier, token, session>>

\* SIGTERM: connections closed, then the API.
Close(d) ==
  /\ step[d] = "up"
  /\ step' = [step EXCEPT ![d] = "gone"]
  /\ asked' = [asked EXCEPT ![d] = 0]
  /\ since' = [since EXCEPT ![d] = 0]
  /\ sessions' = [sessions EXCEPT ![d] = {}]
  /\ UNCHANGED <<port, pin, store, answer, tokenFile, earlier, token, session>>

-----------------------------------------------------------------------------
(* Requests.  A request reaches the daemon that listens on the client's port. *)

\* The client reads the token file, as its configuration says.
ReadToken(c, q) ==
  /\ tokenFile[q] # NoDaemon
  /\ token' = [token EXCEPT ![c] = tokenFile[q]]
  /\ UNCHANGED <<step, port, pin, store, asked, since, answer, sessions, tokenFile, earlier, session>>

Served(c, d) == step[d] = "up" /\ token[c] = d
HasTransport(c, d) == session[c] = d /\ c \in sessions[d]

\* POST initialize without a known session id: a new transport.
Initialize(c, d) ==
  /\ Served(c, d) /\ ~HasTransport(c, d)
  /\ sessions' = [sessions EXCEPT ![d] = @ \cup {c}]
  /\ session' = [session EXCEPT ![c] = d]
  /\ UNCHANGED <<step, port, pin, store, asked, since, answer, tokenFile, earlier, token>>

\* DELETE on an existing session: onclose forgets it.
Teardown(c, d) ==
  /\ Served(c, d) /\ HasTransport(c, d)
  /\ sessions' = [sessions EXCEPT ![d] = @ \ {c}]
  /\ UNCHANGED <<step, port, pin, store, asked, since, answer, tokenFile, earlier, token, session>>

PickSnapshot_Oldest(d) ==
  LET rows == Rows(store[d])
  IN  IF pin[d] # 0 THEN ById(rows, pin[d])
      ELSE IF rows = {} THEN NoRow ELSE CHOOSE r \in rows : rows \subseteq NewerThan(rows, r) \cup {r}

\* The snapshot of a call: --snapshot, else the newest; none is an error answer.
PickSnapshot(d) ==
  LET rows == Rows(store[d])
  IN  IF pin[d] # 0 THEN ById(rows, pin[d]) ELSE Newest(rows)

\* POST of a tool call on an existing session.
Ask(c, d) ==
  /\ Served(c, d) /\ HasTransport(c, d)
  /\ asked[d] = 0
  /\ asked' = [asked EXCEPT ![d] = IF PickSnapshot(d) = NoRow THEN 0 ELSE PickSnapshot(d).id]
  /\ since' = [since EXCEPT ![d] = MaxId(Rows(store[d]))]
  /\ answer' = [answer EXCEPT ![d] = "none"]
  /\ UNCHANGED <<step, port, pin, store, sessions, tokenFile, earlier, token, session>>

\* The rows are read by the id chosen before: a snapshot pruned since has none.
Answer(d) ==
  /\ asked[d] # 0
  /\ answer' = [answer EXCEPT ![d] =
                  IF ById(Rows(store[d]), asked[d]) = NoRow THEN "empty" ELSE "whole"]
  /\ asked' = [asked EXCEPT ![d] = 0]
  /\ since' = [since EXCEPT ![d] = 0]
  /\ UNCHANGED <<step, port, pin, store, sessions, tokenFile, earlier, token, session>>

DaemonNext ==
  \/ \E d \in Daemons : WriteToken(d) \/ OpenApi(d) \/ Listen(d) \/ Close(d) \/ Answer(d)
  \/ \E c \in Clients, d \in Daemons : Initialize(c, d) \/ Teardown(c, d) \/ Ask(c, d)
  \/ \E c \in Clients, q \in Ports : ReadToken(c, q)

-----------------------------------------------------------------------------
(* The commands and the daemons over one directory. *)

vars == <<storeVars, daemonVars>>

Init == StoreInit /\ DaemonInit
Next == \/ StoreNext /\ UNCHANGED daemonVars
        \/ DaemonNext /\ UNCHANGED storeVars

Spec == Init /\ [][Next]_vars

(* "Per-port, so two daemons on different ports never overwrite each other's
   token" (http-token.ts:8), and what a client needs of it: the token on file
   opens the daemon that listens on the port, unless another start on the same port
   wrote after it; then the file is of such a start, which does not serve itself. *)
TokenOpensListener ==
  \A d \in Daemons : step[d] = "up" /\ tokenFile[port[d]] # d =>
    \E e \in Daemons : /\ tokenFile[port[d]] = e
                      /\ port[e] = port[d] /\ d \in earlier[e] /\ step[e] # "up"

(* The read API chooses a snapshot and reads it later (read-api/reader.ts): prune
   can empty an answer from the newest snapshot only when --keep snapshots were
   written to the database while the question was open. *)
AnswersSurvivePrune ==
  [][\A d \in Daemons :
       /\ answer[d] # "empty" /\ answer'[d] = "empty" /\ pin[d] = 0
       => MaxId(Rows(store[d])) - since[d] >= Keep]_vars
=============================================================================
