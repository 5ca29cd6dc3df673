--------------------------------- MODULE Server ---------------------------------
(***************************************************************************)
(* main.go and internal/app: how a server starts, serves and stops, with   *)
(* the PostgreSQL pool and the Redis client its handlers need, and two     *)
(* clients: one that walks through a list page by page and one that        *)
(* changes it or does something slow outside the databases.                *)
(***************************************************************************)
EXTENDS Configuration, Pages

CONSTANTS
    MaxConns,       \* DBMaxConns
    Grace,          \* the ten seconds of Shutdown, in ticks
    AskedSize,      \* page_size the walker asks for, 0 = none
    MaxRequests,    \* bound: requests of the changing client
    MaxFaults       \* bound: failing commands and connections

ASSUME ServerAssumption ==
    MaxConns \in Nat \ {0} /\ Grace \in Nat /\ AskedSize \in Nat /\ MaxRequests \in Nat /\ MaxFaults \in Nat

Client == {"walker", "changer"}

VARIABLES
    main,           \* where the main goroutine is
    conf,           \* what Validate and buildCodeSender will say of the configuration
    pg, redis,      \* "none", "open", "closing" (pg only), "closed"
    listening,      \* the server takes connections
    signalled,      \* SIGINT or SIGTERM has come
    grace,          \* what is left of Shutdown's context
    req, requests,
    page, seen,     \* the walker: next page, rows on the earlier ones
    base,           \* history: rows of the list when the walk began
    disturbed,      \* history: rows went during the walk, or one came between
                    \* the two statements of a page
    faults

svars == <<main, conf, pg, redis, listening, signalled, grace, req, requests,
           page, seen, base, disturbed, faults, pvars>>
life == <<main, conf, pg, redis, listening, signalled, grace>>
walk == <<page, seen, base, disturbed>>

Fault == faults < MaxFaults /\ faults' = faults + 1
Free == conf' = [none \in {} |-> ""]

(***************************************************************************)
(* Start. A signal cancels the context of app.New.                         *)
(***************************************************************************)
LoadConfig ==
    /\ main = "load"
    /\ main' = IF conf.valid THEN "postgres" ELSE "exited"
    /\ UNCHANGED <<conf, pg, redis, listening, signalled, grace, req, requests, walk, faults, pvars>>

Refused == \/ signalled /\ UNCHANGED faults
           \/ Fault

NewPostgres(fails) ==
    /\ main = "postgres"
    /\ IF fails THEN Refused /\ main' = "exited" /\ pg' = "closed"
                ELSE main' = "redis" /\ pg' = "open" /\ UNCHANGED faults
    /\ UNCHANGED <<conf, redis, listening, signalled, grace, req, requests, walk, pvars>>

NewRedis(fails) ==
    /\ main = "redis"
    /\ IF fails THEN Refused /\ main' = "exited" /\ redis' = "closed" /\ pg' = "closed"
                ELSE main' = "sender" /\ redis' = "open" /\ UNCHANGED <<pg, faults>>
    /\ UNCHANGED <<conf, listening, signalled, grace, req, requests, walk, pvars>>

BuildCodeSender ==
    /\ main = "sender"
    /\ IF conf.sender THEN main' = "serving" /\ listening' = TRUE /\ UNCHANGED <<pg, redis>>
       ELSE main' = "exited" /\ pg' = "closed" /\ redis' = "closed" /\ UNCHANGED listening
    /\ Free
    /\ UNCHANGED <<signalled, grace, req, requests, walk, faults, pvars>>

(***************************************************************************)
(* Stop: a signal, or ListenAndServe has failed.                           *)
(***************************************************************************)
Signal ==
    /\ ~signalled /\ main # "exited"
    /\ signalled' = TRUE
    /\ UNCHANGED <<main, conf, pg, redis, listening, grace, req, requests, walk, faults, pvars>>

\* variant: the resources are closed before the server has drained
StopResourcesFirst ==
    /\ main = "serving"
    /\ \/ signalled /\ UNCHANGED faults
       \/ Fault
    /\ main' = "closePG" /\ listening' = FALSE /\ grace' = Grace
    /\ UNCHANGED <<conf, pg, redis, signalled, req, requests, walk, pvars>>

Stop ==
    /\ main = "serving"
    /\ \/ signalled /\ UNCHANGED faults
       \/ Fault
    /\ main' = "shutdown" /\ listening' = FALSE /\ grace' = Grace
    /\ UNCHANGED <<conf, pg, redis, signalled, req, requests, walk, pvars>>

Blank == [at |-> "idle", op |-> "none", total |-> 0, items |-> {}, query |-> ParseQuery(0, 0)]
Ended(label) == [Blank EXCEPT !.at = label]
InFlight == {c \in Client : req[c].at \notin {"idle", "done", "error"}}
Holders == {c \in Client : req[c].at \in {"count", "select", "exec"}}

\* variant: Shutdown without a deadline
DrainedOnly ==
    /\ main = "shutdown" /\ InFlight = {}
    /\ main' = "closePG"
    /\ UNCHANGED <<conf, pg, redis, listening, signalled, grace, req, requests, walk, faults, pvars>>

(* Server.Shutdown waits for the handlers, but not longer than its context. *)
Drained ==
    /\ main = "shutdown" /\ (InFlight = {} \/ grace = 0)
    /\ main' = "closePG"
    /\ UNCHANGED <<conf, pg, redis, listening, signalled, grace, req, requests, walk, faults, pvars>>

Tick ==
    /\ main = "shutdown" /\ grace > 0
    /\ grace' = grace - 1
    /\ UNCHANGED <<main, conf, pg, redis, listening, signalled, req, requests, walk, faults, pvars>>

(* pool.Close gives out no more connections and waits for those it gave.    *)
ClosePool ==
    /\ main = "closePG" /\ pg = "open"
    /\ pg' = "closing"
    /\ UNCHANGED <<main, conf, redis, listening, signalled, grace, req, requests, walk, faults, pvars>>

PoolClosed ==
    /\ main = "closePG" /\ pg = "closing" /\ Holders = {}
    /\ pg' = "closed" /\ main' = "closeRedis"
    /\ UNCHANGED <<conf, redis, listening, signalled, grace, req, requests, walk, faults, pvars>>

CloseRedis ==
    /\ main = "closeRedis"
    /\ redis' = "closed" /\ main' = "exit"
    /\ UNCHANGED <<conf, pg, listening, signalled, grace, req, requests, walk, faults, pvars>>

(* Handlers that are still running go down with the process.                *)
Exit ==
    /\ main = "exit"
    /\ main' = "exited"
    /\ req' = [c \in Client |-> IF c \in InFlight THEN Ended("error") ELSE req[c]]
    /\ UNCHANGED <<conf, pg, redis, listening, signalled, grace, requests, walk, faults, pvars>>

(***************************************************************************)
(* Requests. Handlers see the shutdown only in what they use.              *)
(***************************************************************************)
Alive(c) == main # "exited" /\ c \in InFlight
Goes(c, label) == req' = [req EXCEPT ![c].at = label]
Ends(c, label) == req' = [req EXCEPT ![c] = Ended(label)]

Arrive(c, op) ==
    /\ listening /\ req[c].at = "idle"
    /\ IF c = "walker" THEN op = "list" /\ UNCHANGED requests
       ELSE /\ op # "list"
            /\ op = "create" => clock < MaxRows
            /\ requests < MaxRequests /\ requests' = requests + 1
    /\ req' = [req EXCEPT ![c] = [Blank EXCEPT !.at = "auth", !.op = op,
                                                !.query = ParseQuery(page, AskedSize)]]
    /\ IF c = "walker" /\ page = 1
       THEN base' = rows /\ disturbed' = FALSE ELSE UNCHANGED <<base, disturbed>>
    /\ UNCHANGED <<life, page, seen, faults, pvars>>

(* The middleware asks Redis: the session, the limits.                      *)
Auth(c, fails) ==
    /\ Alive(c) /\ req[c].at = "auth"
    /\ IF fails THEN Ends(c, "error") /\ (\/ redis = "closed" /\ UNCHANGED faults
                                          \/ redis = "open" /\ Fault)
       ELSE /\ redis = "open" /\ UNCHANGED faults
            /\ Goes(c, IF req[c].op = "slow" THEN "outside" ELSE "acquire")
    /\ UNCHANGED <<life, requests, walk, pvars>>

(* A call that leaves the process: a mail server, an OAuth platform.        *)
Return(c) ==
    /\ Alive(c) /\ req[c].at = "outside"
    /\ Goes(c, "acquire")
    /\ UNCHANGED <<life, requests, walk, faults, pvars>>

Acquire(c) ==
    /\ Alive(c) /\ req[c].at \in {"acquire", "again"}
    /\ \/ pg = "open" /\ Cardinality(Holders) < MaxConns
          /\ Goes(c, CASE req[c].at = "again" -> "select"
                       [] req[c].at = "acquire" /\ req[c].op = "list" -> "count"
                       [] OTHER -> "exec")
       \/ pg # "open" /\ Ends(c, "error")
    /\ UNCHANGED <<life, requests, walk, faults, pvars>>

(* List, ListUsers: the total first, then the rows.                         *)
Count(c) ==
    /\ Alive(c) /\ req[c].at = "count"
    /\ req' = [req EXCEPT ![c].at = "again",
                          ![c].total = IF list = "todos" THEN CountTodosByUserID
                                       ELSE CountUsers("active")]
    /\ UNCHANGED <<life, requests, walk, faults, pvars>>

Select(c) ==
    /\ Alive(c) /\ req[c].at = "select"
    /\ req' = [req EXCEPT ![c].at = "reply",
                          ![c].items = IF list = "todos" THEN ListTodosByUserIDPaginated(req[c].query)
                                       ELSE ListUsers("active", req[c].query)]
    /\ UNCHANGED <<life, requests, walk, faults, pvars>>

(* The rows of a list change, here or in another process.                   *)
Disturbs ==
    \/ ~(rows \subseteq rows')
    \/ rows # rows' /\ req["walker"].at \in {"again", "select"}

Exec(c) ==
    /\ Alive(c) /\ req[c].at = "exec"
    /\ CASE req[c].op = "create" -> CreateTodo \/ CreateUser
         [] req[c].op = "remove" -> \E r \in 0..clock : DeleteTodo(r) \/ UpdateUserStatus(r)
         [] req[c].op = "update" -> UpdateTodo \/ UpdateUserStatus(0)
         [] OTHER -> GetTodoByIDAndUserID \/ (list = "users" /\ UNCHANGED pvars)
    /\ Goes(c, "reply")
    /\ disturbed' = (disturbed \/ Disturbs)
    /\ UNCHANGED <<life, requests, page, seen, base, faults>>

QueryFails(c) ==
    /\ Alive(c) /\ c \in Holders
    /\ Fault
    /\ Ends(c, "error")
    /\ UNCHANGED <<life, requests, walk, pvars>>

(* The client takes the rows, and asks for the next page if by the total    *)
(* there is one.                                                            *)
Reply(c) ==
    /\ Alive(c) /\ req[c].at = "reply"
    /\ IF c = "changer" THEN Ends(c, "idle") /\ UNCHANGED <<page, seen>>
       ELSE /\ seen' = seen \cup req[c].items
            /\ IF page * req[c].query.size < req[c].total
               THEN page' = page + 1 /\ Ends(c, "idle")
               ELSE Ends(c, "done") /\ UNCHANGED page
    /\ UNCHANGED <<life, requests, base, disturbed, faults, pvars>>

Init ==
    /\ main = "load" /\ conf \in {[valid |-> Valid(c), sender |-> HasSender(c)] : c \in Loaded}
    /\ pg = "none" /\ redis = "none" /\ listening = FALSE /\ signalled = FALSE /\ grace = 0
    /\ req = [c \in Client |-> Blank]
    /\ requests = 0 /\ page = 1 /\ seen = {} /\ base = {} /\ disturbed = FALSE /\ faults = 0
    /\ PagesInit

Main == LoadConfig \/ BuildCodeSender \/ Drained \/ ClosePool \/ PoolClosed \/ CloseRedis \/ Exit
            \/ \E fails \in BOOLEAN : NewPostgres(fails) \/ NewRedis(fails)
Handle(c) == Acquire(c) \/ Count(c) \/ Select(c) \/ Exec(c) \/ Reply(c)
                 \/ \E fails \in BOOLEAN : Auth(c, fails)

Next ==
    \/ Main \/ Stop \/ Signal \/ Tick
    \/ \E c \in Client, op \in {"list", "create", "remove", "update", "read", "slow"} :
          Arrive(c, op)
    \/ \E c \in Client : Handle(c) \/ Return(c) \/ QueryFails(c)

(* The process is scheduled, time passes, and PostgreSQL ends every query;  *)
(* nothing is said of calls that leave the process.                         *)
Fairness ==
    /\ WF_svars(Main) /\ WF_svars(signalled /\ Stop) /\ WF_svars(Tick)
    /\ \A c \in Client : WF_svars(Count(c) \/ Select(c) \/ Exec(c) \/ QueryFails(c))

Spec == Init /\ [][Next]_svars /\ Fairness

------------------------------------------------------------------------------
(* A request the server took is answered as if there were no shutdown, if   *)
(* its handler needs no longer than the time Shutdown gives.                *)
GracefulStop ==
    \A c \in Client : req[c].at = "error" => faults > 0 \/ (main # "serving" /\ grace = 0)

(* The signal ends the process, whatever the handlers are doing, as long as *)
(* PostgreSQL answers.                                                      *)
ExitComes == signalled ~> main = "exited"

(* Who walks through the pages, newest first, sees every row that was there *)
(* when he began, whatever is inserted meanwhile: unless rows are removed   *)
(* or one is inserted between the COUNT and the SELECT of a page.           *)
WalkComplete == req["walker"].at = "done" /\ ~disturbed => base \subseteq seen
==============================================================================
