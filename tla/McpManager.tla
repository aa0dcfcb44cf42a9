------------------------------- MODULE McpManager -------------------------------
(***************************************************************************)
(* The connections to MCP servers (mcp_runtime/manager.py): requests to    *)
(* connect and disconnect that queue for one lock, a supervisor per        *)
(* connection that starts a session again when it breaks, the refresh of   *)
(* a session's tools when the server says that its list has changed, and   *)
(* the namespace of the tool registry that all of them replace as a whole. *)
(*                                                                         *)
(* The servers themselves and the SDK between are the environment: a       *)
(* session may start, hang, refuse or break at any time.                   *)
(***************************************************************************)
EXTENDS Naturals, Sequences

CONSTANTS
    Servers,
    Tools,       \* the tools' names of their own
    Lists,       \* the lists of tools a server may have
    Offers,      \* the lists the servers may have at the start
    Name,        \* the name of a server's tool in the registry
    Configs,     \* the configurations users save
    Rows,        \* the rows of the servers at the start
    Requests,    \* the requests that may be under way at a time
    Connections, \* the connection objects that may exist at a time
    MaxAttempts, \* starts of a session in a row before the supervisor gives up
    MaxOps,      \* bound: requests of users
    Fickle,      \* bound: the servers that fail, are called and change their lists
    MaxEvents,   \* bound: how often they do
    None, NoRow, Deleted

ASSUME ConfigsAssumption == Configs \subseteq [enabled : BOOLEAN, allowed : SUBSET Tools]
ASSUME ListsAssumption == Lists \subseteq SUBSET Tools
ASSUME OffersAssumption == Offers \subseteq [Servers -> Lists]
ASSUME RowsAssumption == Rows \subseteq [Servers -> Configs \cup {NoRow}]
ASSUME BoundsAssumption ==
    MaxAttempts \in Nat \ {0} /\ MaxOps \in Nat /\ MaxEvents \in Nat /\ Fickle \subseteq Servers
ASSUME AtomsAssumption ==
    /\ None \notin Servers \cup Configs \cup Connections
    /\ NoRow \notin Configs /\ Deleted \notin Configs /\ NoRow # Deleted
    /\ \A tools \in SUBSET Tools : None # tools

VARIABLES
    phase,    \* "boot", "up", "stopping", "down", or "aborted" (stop_all has raised)
    todo,     \* the servers start_all or stop_all still has to take
    saved,    \* the rows of the servers
    queue,    \* the requests that hold (the first) or wait for the lock
    req,      \* what a request is for, and where it stands
    table,    \* _connections
    conn,     \* the connection objects, each with its supervisor and its session
    registry, \* the tools in the registry, with their servers
    errors,   \* the servers with a diagnostic, _errors
    offer,    \* the list each server would answer with
    calling,  \* the servers of which a call has not returned
    ops, events

vars == <<phase, todo, saved, queue, req, table, conn, registry, errors, offer, calling,
          ops, events>>
environment == <<offer, calling, ops, events>>

-----------------------------------------------------------------------------
(* Connections.  A supervisor is starting a session ("connect"), keeps one *)
(* ("hold"), takes one down after a failure ("closing") or because it is   *)
(* told to stop ("stopping"), waits before the next attempt ("backoff"),   *)
(* or has ended ("dead").                                                  *)

Supervisors == {"connect", "hold", "closing", "stopping", "backoff", "dead"}

\* The refresh of the tools: none, the server is asked, its answer has arrived, or
\* the session that was asked is gone.
Refreshes == {"idle", "asking", "answered", "orphan"}

Connection ==
    [pc : Supervisors, server : Servers \cup {None}, config : Configs \cup {None},
     stop : BOOLEAN, failed : BOOLEAN, ready : {"pending", "ok", "error", "cancelled"},
     session : BOOLEAN, tools : SUBSET Tools, listed : {None} \cup SUBSET Tools,
     attempts : 0 .. MaxAttempts, refresh : Refreshes, again : BOOLEAN,
     notice : BOOLEAN, early : BOOLEAN]

Fresh(s, config, pc) ==
    [pc |-> pc, server |-> s, config |-> config, stop |-> FALSE, failed |-> FALSE,
     ready |-> "pending", session |-> FALSE, tools |-> {}, listed |-> None,
     attempts |-> 0, refresh |-> "idle", again |-> FALSE, notice |-> FALSE, early |-> FALSE]

Alive(c) == conn[c].pc # "dead"
Registered == {table[s] : s \in Servers} \ {None}

\* A refresh asks the session it was started with, however that ends.
Left(refresh) == IF refresh = "idle" THEN "idle" ELSE "orphan"

\* A connection whose supervisor has ended, and with it what was the supervisor's.
Dead(k) == [k EXCEPT !.pc = "dead", !.session = FALSE, !.refresh = Left(@), !.again = FALSE,
                     !.notice = FALSE, !.early = FALSE, !.listed = None,
                     !.failed = FALSE, !.attempts = 0]

\* Cancelling a start cancels `ready`, if nobody has resolved it.
Cancelled(ready) == IF ready = "pending" THEN "cancelled" ELSE ready

\* The tools the whitelists let through, of all connections.
Offered(tab, con) ==
    {p \in Servers \X Tools :
        /\ tab[p[1]] # None
        /\ p[2] \in con[tab[p[1]]].tools \cap con[tab[p[1]]].config.allowed}

Clash(tools) == \E p, q \in tools : p # q /\ Name[p] = Name[q]

\* Replaces the whole namespace, or on a clash leaves it and marks all connections.
Reregister(tab, con, err) ==
    IF Clash(Offered(tab, con))
    THEN /\ registry' = registry
         /\ errors' = err \cup {s \in Servers : tab[s] # None}
    ELSE /\ registry' = Offered(tab, con)
         /\ errors' = err

-----------------------------------------------------------------------------
Idle == [pc |-> "idle", kind |-> "connect", server |-> None, config |-> None, of |-> None]

Request == [pc : {"idle", "queued", "draining", "waiting", "abandoning"},
            kind : {"connect", "disconnect", "delete"}, server : Servers \cup {None},
            config : Configs \cup {None}, of : Connections \cup {None}]

Init ==
    /\ phase = "boot"
    /\ saved \in Rows
    /\ todo = {s \in Servers : saved[s] # NoRow /\ saved[s].enabled}
    /\ queue = <<>>
    /\ req = [r \in Requests |-> Idle]
    /\ table = [s \in Servers |-> None]
    /\ conn = [c \in Connections |-> Fresh(None, None, "dead")]
    /\ registry = {}
    /\ errors = {}
    /\ offer \in Offers
    /\ calling = {}
    /\ ops = 0 /\ events = 0

-----------------------------------------------------------------------------
(* Requests.                                                               *)

NoRequest == \A r \in Requests : req[r].pc = "idle"

\* The configuration is read before the lock is waited for.
Enqueue(kind, s, config) ==
    LET r == CHOOSE r \in Requests : req[r].pc = "idle"
    IN /\ \E q \in Requests : req[q].pc = "idle"
       /\ req' = [req EXCEPT ![r] = [pc |-> "queued", kind |-> kind, server |-> s,
                                     config |-> config, of |-> None]]
       /\ queue' = Append(queue, r)

\* [mutant] a reload is skipped while another request of the server is under way
ApplyCoalesced(s, config) ==
    /\ phase = "up" /\ ops < MaxOps
    /\ saved[s] # Deleted
    /\ ops' = ops + 1
    /\ saved' = [saved EXCEPT ![s] = config]
    /\ IF \E r \in Requests : req[r].server = s THEN UNCHANGED <<req, queue>>
       ELSE Enqueue(IF config.enabled THEN "connect" ELSE "disconnect", s, config)
    /\ UNCHANGED <<phase, todo, table, conn, registry, errors, offer, calling, events>>

\* A server is created or patched, or, with its configuration as it is, reloaded.
Apply(s, config) ==
    /\ phase = "up" /\ ops < MaxOps
    /\ saved[s] # Deleted
    /\ ops' = ops + 1
    /\ saved' = [saved EXCEPT ![s] = config]
    /\ Enqueue(IF config.enabled THEN "connect" ELSE "disconnect", s, config)
    /\ UNCHANGED <<phase, todo, table, conn, registry, errors, offer, calling, events>>

Delete(s) ==
    /\ phase = "up" /\ ops < MaxOps
    /\ saved[s] \in Configs
    /\ ops' = ops + 1
    /\ Enqueue("delete", s, saved[s])
    /\ UNCHANGED <<phase, todo, saved, table, conn, registry, errors, offer, calling, events>>

\* start_all connects the enabled servers one after the other, before any request.
Boot(s) ==
    /\ phase = "boot" /\ NoRequest
    /\ s \in todo
    /\ todo' = todo \ {s}
    /\ Enqueue("connect", s, saved[s])
    /\ UNCHANGED <<phase, saved, table, conn, registry, errors, environment>>

Booted ==
    /\ phase = "boot" /\ NoRequest /\ todo = {}
    /\ phase' = "up"
    /\ UNCHANGED <<todo, saved, queue, req, table, conn, registry, errors, environment>>

\* The lifespan ends when the requests have: stop_all disconnects what is there.
StopAll ==
    /\ phase = "up" /\ NoRequest
    /\ phase' = "stopping"
    /\ todo' = {s \in Servers : table[s] # None}
    /\ UNCHANGED <<saved, queue, req, table, conn, registry, errors, environment>>

StopOne(s) ==
    /\ phase = "stopping" /\ NoRequest
    /\ s \in todo
    /\ todo' = todo \ {s}
    /\ Enqueue("disconnect", s, None)
    /\ UNCHANGED <<phase, saved, table, conn, registry, errors, environment>>

\* Drained of supervisors and of refreshes, also of one whose session is gone.
Stopped ==
    /\ phase = "stopping" /\ NoRequest /\ todo = {}
    /\ \A c \in Connections : ~Alive(c) /\ conn[c].refresh = "idle"
    /\ phase' = "down"
    /\ registry' = {}
    /\ UNCHANGED <<todo, saved, queue, req, table, conn, errors, environment>>

-----------------------------------------------------------------------------
(* The holder of the lock.                                                 *)

Holder(r) == queue # <<>> /\ Head(queue) = r

Release(r) ==
    /\ queue' = Tail(queue)
    /\ req' = [req EXCEPT ![r] = Idle]

Free(c) == ~Alive(c) /\ c \notin Registered /\ conn[c].refresh = "idle"

\* connect, once no connection of the server is left: the supervisor is spawned.
Spawn(r, tab) ==
    LET s == req[r].server
        c == CHOOSE c \in Connections : Free(c)
    IN /\ \E d \in Connections : Free(d)
       /\ conn' = [conn EXCEPT ![c] = Fresh(s, req[r].config, "connect")]
       /\ table' = [tab EXCEPT ![s] = c]
       /\ errors' = errors \ {s}
       /\ req' = [req EXCEPT ![r].pc = "waiting", ![r].of = c]
       /\ UNCHANGED <<phase, saved, queue, registry>>

\* disconnect, once its connection has ended: a clash among the others raises, so that
\* the row is not deleted, and stop_all goes no further.
Disconnected(r) ==
    LET raised == Clash(Offered(table, conn))
    IN /\ Reregister(table, conn, errors)
       /\ saved' = IF req[r].kind = "delete" /\ ~raised
                   THEN [saved EXCEPT ![req[r].server] = Deleted] ELSE saved
       /\ phase' = IF phase = "stopping" /\ raised THEN "aborted" ELSE phase
       /\ Release(r)
       /\ UNCHANGED <<table, conn>>

Proceed(r) == IF req[r].kind = "connect" THEN Spawn(r, table) ELSE Disconnected(r)

\* _disconnect_locked takes the connection out and tells its supervisor to stop.
Begin(r) ==
    /\ Holder(r) /\ req[r].pc = "queued"
    /\ table[req[r].server] # None
    /\ LET c == table[req[r].server]
       IN /\ conn' = [conn EXCEPT ![c].stop = TRUE]
          /\ req' = [req EXCEPT ![r].pc = "draining", ![r].of = c]
    /\ table' = [table EXCEPT ![req[r].server] = None]
    /\ UNCHANGED <<phase, todo, saved, queue, registry, errors, environment>>

BeginAlone(r) ==
    /\ Holder(r) /\ req[r].pc = "queued"
    /\ table[req[r].server] = None
    /\ Proceed(r)
    /\ UNCHANGED <<todo, environment>>

\* [mutant] the new connection is made without waiting for the old supervisor
DrainedAtOnce(r) ==
    /\ req[r].pc = "draining"
    /\ Proceed(r)
    /\ UNCHANGED <<todo, environment>>

\* The supervisor of the connection taken out has ended.
Drained(r) ==
    /\ req[r].pc = "draining" /\ ~Alive(req[r].of)
    /\ Proceed(r)
    /\ UNCHANGED <<todo, environment>>

\* `ready` tells that there is a session, or has been cancelled with the start: then
\* neither handler of connect matches, and the connection stays.
Returned(r) ==
    /\ req[r].pc = "waiting" /\ conn[req[r].of].ready \in {"ok", "cancelled"}
    /\ Release(r)
    /\ UNCHANGED <<phase, todo, saved, table, conn, registry, errors, environment>>

\* [mutant] connect waits for the session as long as it takes
RefusedOnError(r) ==
    /\ req[r].pc = "waiting" /\ conn[req[r].of].ready = "error"
    /\ conn' = [conn EXCEPT ![req[r].of].stop = TRUE]
    /\ req' = [req EXCEPT ![r].pc = "abandoning"]
    /\ UNCHANGED <<phase, todo, saved, queue, table, registry, errors, environment>>

\* The start has failed, or takes longer than connect waits, which cancels `ready`.
Refused(r) ==
    /\ req[r].pc = "waiting" /\ conn[req[r].of].ready \in {"error", "pending"}
    /\ conn' = [conn EXCEPT ![req[r].of].stop = TRUE,
                            ![req[r].of].ready = Cancelled(@)]
    /\ req' = [req EXCEPT ![r].pc = "abandoning"]
    /\ UNCHANGED <<phase, todo, saved, queue, table, registry, errors, environment>>

\* [mutant] a failed reload leaves the tools of the connection it has replaced
AbandonedQuietly(r) ==
    /\ req[r].pc = "abandoning" /\ ~Alive(req[r].of)
    /\ table' = [table EXCEPT ![req[r].server] = None]
    /\ Release(r)
    /\ UNCHANGED <<phase, todo, saved, conn, registry, errors, environment>>

Abandoned(r) ==
    /\ req[r].pc = "abandoning" /\ ~Alive(req[r].of)
    /\ LET gone == [table EXCEPT ![req[r].server] = None]
       IN table' = gone /\ Reregister(gone, conn, errors)
    /\ Release(r)
    /\ UNCHANGED <<phase, todo, saved, conn, environment>>

HolderStep(r) == Begin(r) \/ BeginAlone(r) \/ Drained(r) \/ Returned(r) \/ Refused(r) \/ Abandoned(r)

-----------------------------------------------------------------------------
(* A supervisor and its session.                                           *)

Step(c, k) ==
    /\ conn' = [conn EXCEPT ![c] = k]
    /\ UNCHANGED <<phase, todo, saved, queue, req, offer, calling, ops>>

Quiet == UNCHANGED <<table, registry, errors, events>>

\* What the environment does to a server, each time counted.
HappensTo(s) == s \in Fickle /\ events < MaxEvents /\ events' = events + 1

\* The server answers the first request for its list.
Listed(c) ==
    /\ conn[c].pc = "connect" /\ conn[c].listed = None
    /\ Step(c, [conn[c] EXCEPT !.listed = offer[conn[c].server]])
    /\ Quiet

\* The session is attached and its tools registered; a clash ends the session again.
Attach(c) ==
    LET k == [conn[c] EXCEPT !.session = TRUE, !.tools = conn[c].listed, !.listed = None,
                             !.ready = IF @ = "pending" THEN "ok" ELSE @]
        clash == Clash(Offered(table, [conn EXCEPT ![c] = k]))
    IN /\ conn[c].pc = "connect" /\ conn[c].listed # None
       /\ Step(c, [k EXCEPT !.pc = IF clash THEN "closing" ELSE "hold"])
       /\ Reregister(table, [conn EXCEPT ![c] = k],
                     IF clash THEN errors \cup {k.server} ELSE errors \ {k.server})
       /\ UNCHANGED <<table, events>>

StartFails(c) ==
    /\ conn[c].pc = "connect" /\ HappensTo(conn[c].server)
    /\ Step(c, [conn[c] EXCEPT !.pc = "closing", !.listed = None,
                               !.ready = IF @ = "pending" THEN "error" ELSE @])
    /\ errors' = errors \cup {conn[c].server}
    /\ UNCHANGED <<table, registry>>

\* A ping is not answered.
Breaks(c) ==
    /\ conn[c].pc = "hold" /\ ~conn[c].failed /\ HappensTo(conn[c].server)
    /\ Step(c, [conn[c] EXCEPT !.failed = TRUE])
    /\ UNCHANGED <<table, registry, errors>>

\* The supervisor wakes and cancels what runs, also a start that is under way.
Wake(c) ==
    /\ conn[c].pc \in {"connect", "hold"} /\ (conn[c].stop \/ conn[c].failed)
    /\ Step(c, [conn[c] EXCEPT !.pc = IF conn[c].stop THEN "stopping" ELSE "closing",
                               !.listed = IF conn[c].pc = "hold" THEN @ ELSE None,
                               !.ready = Cancelled(@)])
    /\ Quiet

\* An answer that has arrived is taken up before its session has been taken down.
Closing(c) == conn[c].pc = "closing" /\ conn[c].refresh # "answered"

\* The number of attempts after a session that has lasted, or not.
Attempt(c, lasted) == (IF lasted THEN 0 ELSE conn[c].attempts) + 1

\* The first start came to nothing; of a cancelled `ready`, asking for the exception
\* raises and ends the supervisor all the same.
FirstStartFailed(c) ==
    /\ Closing(c) /\ conn[c].ready # "ok"
    /\ Step(c, Dead(conn[c]))
    /\ Quiet

BackOff(c, lasted) ==
    /\ Closing(c) /\ conn[c].ready = "ok" /\ Attempt(c, lasted) < MaxAttempts
    /\ Step(c, [conn[c] EXCEPT !.pc = "backoff", !.session = FALSE,
                               !.attempts = Attempt(c, lasted),
                               !.refresh = Left(@)])
    /\ Quiet

\* The cleanup of a session that is cancelled raises.  Only timeouts and cancellations
\* are caught, so the supervisor ends, and the connection stays as it was.
CleanupRaises(c) ==
    /\ Closing(c) /\ conn[c].failed /\ HappensTo(conn[c].server)
    /\ Step(c, [Dead(conn[c]) EXCEPT !.session = conn[c].session])
    /\ UNCHANGED <<table, registry, errors>>

GiveUp(c, lasted) ==
    LET gone == [table EXCEPT ![conn[c].server] = None]
    IN /\ Closing(c) /\ conn[c].ready = "ok" /\ Attempt(c, lasted) >= MaxAttempts
       /\ Step(c, Dead(conn[c]))
       /\ table' = gone
       /\ Reregister(gone, conn, errors \cup {conn[c].server})
       /\ UNCHANGED events

Retry(c) ==
    /\ conn[c].pc = "backoff" /\ ~conn[c].stop
    /\ Step(c, [conn[c] EXCEPT !.pc = "connect", !.failed = FALSE, !.notice = FALSE,
                               !.early = FALSE])
    /\ Quiet

Ended(c) ==
    /\ \/ conn[c].pc = "stopping" /\ conn[c].refresh # "answered"
       \/ conn[c].pc = "backoff" /\ conn[c].stop
    /\ Step(c, Dead(conn[c]))
    /\ Quiet

-----------------------------------------------------------------------------
(* list_changed: one refresh of a connection at a time.                    *)

\* A notice of a session that is not attached is dropped ("early", if its first list
\* has been read); one that comes during a refresh asks for another round.
Notified(c) ==
    LET attached == table[conn[c].server] = c /\ conn[c].session
    IN /\ conn[c].notice
       /\ Step(c, [conn[c] EXCEPT
              !.notice = FALSE,
              !.early = IF attached THEN @ /\ conn[c].refresh # "idle"
                        ELSE @ \/ (conn[c].pc = "connect" /\ conn[c].listed # None),
              !.refresh = IF attached /\ @ = "idle" THEN "asking" ELSE @,
              !.again = IF ~attached THEN @ ELSE conn[c].refresh # "idle"])
       /\ Quiet

RefreshAnswered(c) ==
    /\ conn[c].refresh = "asking" /\ conn[c].pc = "hold"
    /\ Step(c, [conn[c] EXCEPT !.refresh = "answered", !.listed = offer[conn[c].server]])
    /\ Quiet

\* The old tools stay; a notice that came meanwhile is not looked at.
RefreshFails(c) ==
    /\ conn[c].refresh \in {"asking", "orphan"}
    /\ Step(c, [conn[c] EXCEPT !.refresh = "idle"])
    /\ errors' = errors \cup {conn[c].server}
    /\ UNCHANGED <<table, registry, events>>

\* [mutant] one round of refresh, whatever came during it
RefreshTakenOnce(c) ==
    LET s == conn[c].server
        con == IF table[s] = None THEN conn
               ELSE [conn EXCEPT ![table[s]].tools = conn[c].listed]
    IN /\ conn[c].refresh = "answered"
       /\ ~Clash(Offered(table, con))
       /\ Step(c, [conn[c] EXCEPT !.refresh = "idle", !.again = FALSE,
                                  !.tools = conn[c].listed, !.listed = None])
       /\ registry' = Offered(table, con)
       /\ errors' = errors \ {s}
       /\ UNCHANGED <<table, events>>

\* The new list is registered as a whole, and only then becomes the connection's;
\* it goes under the server's connection, which is this one unless it is being stopped.
RefreshTaken(c) ==
    LET s == conn[c].server
        con == IF table[s] = None THEN conn
               ELSE [conn EXCEPT ![table[s]].tools = conn[c].listed]
        next == IF conn[c].again THEN "asking" ELSE "idle"
    IN /\ conn[c].refresh = "answered"
       /\ IF Clash(Offered(table, con))
          THEN /\ Step(c, [conn[c] EXCEPT !.refresh = "idle", !.listed = None])
               /\ registry' = registry
               /\ errors' = errors \cup {s}
          ELSE /\ Step(c, [conn[c] EXCEPT !.refresh = next, !.again = FALSE,
                                          !.tools = conn[c].listed, !.listed = None])
               /\ registry' = Offered(table, con)
               /\ errors' = errors \ {s}
       /\ UNCHANGED <<table, events>>

-----------------------------------------------------------------------------
(* The servers, and the runs that call their tools.                        *)

\* A server's list changes, and it says so to its session.
OfferChanges(s, tools) ==
    /\ HappensTo(s)
    /\ tools # offer[s]
    /\ offer' = [offer EXCEPT ![s] = tools]
    /\ conn' = [c \in Connections |->
                   IF conn[c].server = s /\ conn[c].pc \in {"connect", "hold"}
                   THEN [conn[c] EXCEPT !.notice = TRUE] ELSE conn[c]]
    /\ UNCHANGED <<phase, todo, saved, queue, req, table, registry, errors, calling, ops>>

CallStarts(s) ==
    /\ HappensTo(s) /\ s \notin calling
    /\ table[s] # None /\ conn[table[s]].session
    /\ calling' = calling \cup {s}
    /\ UNCHANGED <<phase, todo, saved, queue, req, table, conn, registry, errors, offer, ops>>

\* A call fails, however late: the failure is reported against the server's name, and
\* so against the connection it has now.
CallFails(s) ==
    /\ s \in calling
    /\ calling' = calling \ {s}
    /\ conn' = IF table[s] = None THEN conn
               ELSE [conn EXCEPT ![table[s]].session = FALSE, ![table[s]].failed = TRUE]
    /\ UNCHANGED <<phase, todo, saved, queue, req, table, registry, errors, offer, ops, events>>

CallReturns(s) ==
    /\ s \in calling
    /\ calling' = calling \ {s}
    /\ UNCHANGED <<phase, todo, saved, queue, req, table, conn, registry, errors, offer, ops, events>>

-----------------------------------------------------------------------------
SupervisorStep(c) ==
    \/ Listed(c) \/ Attach(c) \/ StartFails(c) \/ Breaks(c) \/ Wake(c)
    \/ FirstStartFailed(c) \/ CleanupRaises(c) \/ Retry(c) \/ Ended(c)
    \/ \E lasted \in BOOLEAN : BackOff(c, lasted) \/ GiveUp(c, lasted)

RefreshStep(c) == Notified(c) \/ RefreshAnswered(c) \/ RefreshFails(c) \/ RefreshTaken(c)

UserStep ==
    \/ \E s \in Servers : Delete(s) \/ Boot(s) \/ StopOne(s)
    \/ \E s \in Servers, config \in Configs : Apply(s, config)
    \/ Booted \/ StopAll \/ Stopped

ServerStep ==
    \E s \in Servers : \/ CallStarts(s) \/ CallFails(s) \/ CallReturns(s)
                       \/ \E tools \in Lists : OfferChanges(s, tools)

Next ==
    \/ UserStep \/ ServerStep
    \/ \E r \in Requests : HolderStep(r)
    \/ \E c \in Connections : SupervisorStep(c) \/ RefreshStep(c)

\* The event loop goes on, timers fire, and the SDK takes a session down that is
\* cancelled; a server need not answer, nor a session break.
Fairness ==
    /\ WF_vars(\E r \in Requests : HolderStep(r))
    /\ \A c \in Connections :
        WF_vars(Wake(c) \/ FirstStartFailed(c) \/ Ended(c) \/ RefreshTaken(c)
                \/ \E lasted \in BOOLEAN : BackOff(c, lasted) \/ GiveUp(c, lasted))

Spec == Init /\ [][Next]_vars /\ Fairness

-----------------------------------------------------------------------------
(* What is claimed.                                                        *)

TypeOK ==
    /\ phase \in {"boot", "up", "stopping", "down", "aborted"}
    /\ todo \subseteq Servers
    /\ saved \in [Servers -> Configs \cup {NoRow, Deleted}]
    /\ queue \in Seq(Requests)
    /\ req \in [Requests -> Request]
    /\ table \in [Servers -> Connections \cup {None}]
    /\ conn \in [Connections -> Connection]
    /\ registry \subseteq Servers \X Tools
    /\ errors \subseteq Servers /\ calling \subseteq Servers
    /\ offer \in [Servers -> Lists]
    /\ ops \in Nat /\ events \in Nat

\* No supervisor is lost: one that lives is in the table under its server, or has been
\* told to stop by the holder of the lock, who waits for it.  So a server never has two
\* processes, whatever reloads, reconnections and clashes do, and after stop_all none.
NoOrphans ==
    /\ \A c \in Connections : Alive(c) =>
        \/ table[conn[c].server] = c
        \/ conn[c].stop /\ \E r \in Requests : Holder(r) /\ req[r].pc = "draining" /\ req[r].of = c
    /\ \A s \in Servers : table[s] # None => conn[table[s]].server = s
    /\ phase = "down" => Registered = {}

\* While nobody holds the lock, and no two tools have one name, the registry offers
\* exactly what the connections' whitelists let through: refreshes, reconnections and
\* the supervisors that give up, which do not take the lock, replace the namespace too.
\* A connection whose start was cancelled by a late failure has left the old tools there.
RegistryInStep ==
    (/\ NoRequest
     /\ ~Clash(Offered(table, conn))
     /\ \A c \in Registered : conn[c].ready = "ok")
        => registry = Offered(table, conn)

\* When the requests have returned, a connection runs under the configuration that is
\* saved, and none under one that is switched off: the configuration is read before the
\* wait for the lock, which serves the requests in their order.
SavedConfigInForce ==
    NoRequest => \A s \in Servers :
        table[s] # None /\ saved[s] \in Configs =>
            saved[s].enabled /\ conn[table[s]].config = saved[s]

\* A session that its supervisor holds and that works, as far as it can tell.
Working(s) == table[s] # None /\ conn[table[s]].pc = "hold" /\ conn[table[s]].session

\* The list is up to date, or the session itself has been, or will be, asked for it.
InHand(k, s) ==
    \/ k.tools = offer[s]
    \/ k.notice \/ k.refresh = "asking"
    \/ k.refresh = "answered" /\ (k.listed = offer[s] \/ k.again)

\* The two notices that may be lost: one between the first list of a session and its
\* attachment, until the next, and one that waits for a refresh which asks a session
\* that is gone, and may hang.
Missed(k) == k.early \/ (k.refresh = "orphan" /\ k.again)

\* A list that is out of date while its session works is on its way to be refreshed,
\* or its server has a diagnostic, or its notice is one of the two that code misses.
NoSilentStaleness ==
    \A s \in Servers : Working(s) =>
        LET k == conn[table[s]]
        IN  InHand(k, s) \/ Missed(k) \/ s \in errors

\* The requests under way come to an end, each of them and all, for users make MaxOps at
\* most, though servers hang and the lock is one for all: the wait for a session is
\* bounded, and a supervisor told to stop ends from any point.  That the SDK takes down a
\* session that is cancelled is assumed: the code waits for that without a bound.
RequestsReturn == ~NoRequest ~> NoRequest

-----------------------------------------------------------------------------
(* The inductive invariant.                                                *)

\* Who is past the wait for the lock holds it.  Where it waits for a supervisor it has
\* told to stop, the server has no connection; where it waits for its new connection,
\* no other.
LockInv ==
    \A r \in Requests :
        /\ req[r].pc # "idle" => req[r].server \in Servers
        /\ req[r].pc # "idle" /\ req[r].kind = "connect" => req[r].config \in Configs
        /\ req[r].pc \in {"draining", "waiting", "abandoning"} =>
            /\ Holder(r)
            /\ req[r].of \in Connections
            /\ conn[req[r].of].server = req[r].server
        /\ req[r].pc = "draining" => table[req[r].server] = None
        /\ req[r].pc \in {"waiting", "abandoning"} =>
            table[req[r].server] \in {req[r].of, None}
        /\ req[r].pc = "abandoning" => conn[req[r].of].stop

\* A connection that lives, is in the table or is being refreshed has its server and
\* configuration, and only one that lives has a refresh that is answered, or notices.
ConnInv ==
    /\ \A c \in Connections : Alive(c) => conn[c].server \in Servers /\ conn[c].config \in Configs
    /\ \A s \in Servers : table[s] # None => conn[table[s]].config \in Configs
    /\ \A c \in Connections : conn[c].refresh # "idle" => conn[c].server \in Servers
    /\ \A c \in Connections : ~Alive(c) => conn[c].refresh \in {"idle", "orphan"} /\ ~conn[c].notice

\* start_all connects, and stop_all has taken, or will take, each connection there is.
StopInv ==
    /\ phase = "boot" =>
        /\ \A s \in todo : saved[s] \in Configs
        /\ \A r \in Requests : req[r].pc # "idle" => req[r].kind = "connect"
    /\ phase = "stopping" =>
        /\ \A r \in Requests : req[r].pc # "idle" => req[r].kind = "disconnect"
        /\ \A s \in Servers : table[s] # None =>
            s \in todo \/ \E r \in Requests : req[r].pc = "queued" /\ req[r].server = s
    /\ phase = "down" => NoRequest

\* The namespace is behind only while a connection is being exchanged.
RegistryInv ==
    \/ registry = Offered(table, conn)
    \/ Clash(Offered(table, conn))
    \/ \E s \in Servers : table[s] # None /\ conn[table[s]].ready # "ok"
    \/ \E r \in Requests : req[r].pc = "draining"

\* A list a session has asked for is the present one, or a notice is on its way.
ListOK(k) ==
    /\ k.pc = "connect" /\ k.listed # None => k.listed = offer[k.server] \/ k.notice \/ k.early
    /\ k.refresh = "answered" => k.listed # None /\ k.pc \in {"hold", "closing", "stopping"}
    /\ k.listed # None => k.pc = "connect" \/ k.refresh = "answered"
    /\ k.session => k.pc \notin {"connect", "backoff"}

AnswerOK(k, s) == k.refresh = "answered" => k.listed = offer[s] \/ k.notice \/ k.again

ListInv ==
    /\ \A c \in Connections : ListOK(conn[c])
    /\ \A s \in Servers : Working(s) => AnswerOK(conn[table[s]], s)

IndInv ==
    /\ TypeOK /\ NoOrphans /\ LockInv /\ ConnInv /\ StopInv
    /\ RegistryInv /\ ListInv /\ NoSilentStaleness

\* What the requests in the queue and the table say of the rows that are saved: the last
\* request about a server connects it as its row says, and where no request is left, the
\* connection runs as the row says.
Asked == [s \in Servers |-> {i \in 1 .. Len(queue) : req[queue[i]].server = s}]

QueueInv ==
    /\ \A i \in 1 .. Len(queue) : req[queue[i]].pc # "idle"
    /\ \A i, j \in 1 .. Len(queue) : i # j => queue[i] # queue[j]

LastWord ==
    \A s \in Servers : \A i \in Asked[s] :
        (/\ saved[s] \in Configs
         /\ req[queue[i]].kind = "connect"
         /\ \A j \in Asked[s] : j <= i)
            => saved[s].enabled /\ req[queue[i]].config = saved[s]

Settled ==
    \A s \in Servers :
        Asked[s] = {} /\ table[s] # None /\ saved[s] \in Configs =>
            saved[s].enabled /\ conn[table[s]].config = saved[s]

\* A request that waits for its session has connected as it was asked to.
Spawned ==
    \A r \in Requests :
        req[r].pc = "waiting" /\ table[req[r].server] # None =>
            req[r].kind = "connect" /\ conn[table[req[r].server]].config = req[r].config

\* start_all takes the servers that are switched on.
BootInv == phase = "boot" => \A s \in todo : saved[s] \in Configs => saved[s].enabled

ConfigInv == QueueInv /\ LastWord /\ Settled /\ Spawned /\ BootInv
=============================================================================
