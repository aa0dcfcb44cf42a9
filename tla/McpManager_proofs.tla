--------------------------- MODULE McpManager_proofs ---------------------------
(***************************************************************************)
(* What holds of the connections for any number of servers, tools,         *)
(* requests and connection objects: the inductive invariant of McpManager, *)
(* and the invariants it implies.  RequestsReturn, which is about what     *)
(* comes to pass, is left to the model checker.                            *)
(***************************************************************************)
EXTENDS McpManager, SequenceTheorems, TLAPS

\* What most steps of a supervisor leave of its connection.
Same(k, j) ==
    /\ k \in Connection
    /\ k.server = j.server /\ k.config = j.config /\ k.stop = j.stop
    /\ k.pc = "dead" => k.refresh \in {"idle", "orphan"} /\ ~k.notice

-----------------------------------------------------------------------------
(* Facts about the parts of the state.                                     *)

\* The registry is given tools of servers, and the diagnostics name servers.
LEMMA ReregisterTyped ==
    ASSUME NEW t, NEW f, NEW e, e \subseteq Servers, registry \subseteq Servers \X Tools,
           Reregister(t, f, e)
    PROVE  /\ registry' \subseteq Servers \X Tools
           /\ errors' \subseteq Servers /\ e \subseteq errors'
           /\ registry' = Offered(t, f) \/ Clash(Offered(t, f))
BY DEF Reregister, Offered

\* A connection that lives is told of nothing but by its own server.
LEMMA AliveFacts ==
    ASSUME IndInv, NEW c \in Connections, Alive(c)
    PROVE  /\ conn[c] \in Connection
           /\ conn[c].server \in Servers /\ conn[c].config \in Configs
           /\ table[conn[c].server] \in {c, None}
           /\ \A s \in Servers : table[s] = c => s = conn[c].server
<1>1. conn[c] \in Connection
    BY DEF IndInv, TypeOK
<1>2. conn[c].server \in Servers /\ conn[c].config \in Configs
    BY DEF IndInv, ConnInv
<1>3. \A s \in Servers : table[s] = c => s = conn[c].server
    BY AtomsAssumption DEF IndInv, NoOrphans
<1>4. table[conn[c].server] \in {c, None}
    BY <1>2 DEF IndInv, NoOrphans, LockInv
<1> QED BY <1>1, <1>2, <1>3, <1>4

\* The session of a connection that has died has been forgotten.
LEMMA DeadSame ==
    ASSUME NEW j \in Connection
    PROVE  /\ Same(Dead(j), j) /\ Dead(j).pc = "dead" /\ ListOK(Dead(j))
           /\ Dead(j).tools = j.tools /\ Dead(j).ready = j.ready
<1> DEFINE d == Dead(j)
<1>1. /\ d.pc = "dead" /\ d.session = FALSE /\ d.notice = FALSE /\ d.listed = None
      /\ d.refresh \in {"idle", "orphan"}
    BY DEF Dead, Connection, Left
<1>2. /\ d.server = j.server /\ d.config = j.config /\ d.stop = j.stop
      /\ d.tools = j.tools /\ d.ready = j.ready
    BY DEF Dead, Connection
<1>3. d \in Connection
  <2>1. Left(j.refresh) \in Refreshes /\ 0 \in 0 .. MaxAttempts
    BY BoundsAssumption DEF Left, Refreshes
  <2> QED BY <2>1 DEF Dead, Connection, Supervisors
<1> HIDE DEF d
<1>4. Same(d, j)
    BY <1>1, <1>2, <1>3 DEF Same
<1>5. ListOK(d)
    BY <1>1 DEF ListOK
<1> QED BY <1>1, <1>2, <1>4, <1>5 DEF d

-----------------------------------------------------------------------------
(* A step of one connection.                                               *)

\* It keeps the table, and a diagnostic is taken back of its own server only, or, where
\* its supervisor has ended, of none.
LEMMA OwnStep ==
    ASSUME IndInv, NEW c \in Connections, conn[c].server \in Servers, NEW k,
           Alive(c) \/ (k.pc = "dead" /\ errors \subseteq errors'),
           conn' = [conn EXCEPT ![c] = k], Same(k, conn[c]), ListOK(k),
           UNCHANGED <<phase, todo, saved, queue, req, table, offer, calling, ops>>,
           registry' \subseteq Servers \X Tools, RegistryInv',
           errors \ {conn[c].server} \subseteq errors', errors' \subseteq Servers, events' \in Nat,
           k.pc = "hold" /\ k.session /\ table[k.server] = c =>
                /\ InHand(k, k.server) \/ Missed(k) \/ k.server \in errors'
                /\ AnswerOK(k, k.server)
    PROVE  IndInv'
<1>a. \A d \in Connections : conn'[d] = IF d = c THEN k ELSE conn[d]
    BY DEF IndInv, TypeOK
<1>b. /\ Alive(c) => conn[c].config \in Configs /\ table[conn[c].server] \in {c, None}
      /\ \A s \in Servers : table[s] = c => s = conn[c].server
    BY AliveFacts, AtomsAssumption DEF IndInv, NoOrphans
<1>1. TypeOK'
  <2>1. conn' \in [Connections -> Connection]
    BY DEF IndInv, TypeOK, Same
  <2> QED BY <2>1 DEF IndInv, TypeOK
<1>2. NoOrphans'
  <2>1. ASSUME NEW d \in Connections, Alive(d)'
        PROVE  \/ table[conn'[d].server] = d
               \/ conn'[d].stop /\ \E r \in Requests :
                    Holder(r) /\ req[r].pc = "draining" /\ req[r].of = d
    BY <1>a, <2>1 DEF IndInv, NoOrphans, Alive, Same
  <2>2. \A s \in Servers : table[s] # None => conn'[table[s]].server = s
    BY <1>a DEF IndInv, NoOrphans, TypeOK, Same
  <2>3. (phase = "down" => Registered = {})'
    BY DEF IndInv, NoOrphans, Registered
  <2>4. ASSUME NEW d \in Connections, Alive(d)'
        PROVE  (\/ table[conn[d].server] = d
                \/ conn[d].stop /\ \E r \in Requests :
                    Holder(r) /\ req[r].pc = "draining" /\ req[r].of = d)'
    BY <2>1, <2>4 DEF Holder
  <2> QED BY <2>2, <2>3, <2>4 DEF NoOrphans
<1>3. LockInv'
    BY <1>a DEF IndInv, LockInv, Holder, Same
<1>4. ConnInv'
  <2>1. \A d \in Connections :
            ~Alive(d)' => conn'[d].refresh \in {"idle", "orphan"} /\ ~conn'[d].notice
    BY <1>a DEF IndInv, ConnInv, Same, Alive
  <2>4. \A d \in Connections : conn'[d].refresh # "idle" => conn'[d].server \in Servers
    BY <1>a DEF IndInv, ConnInv, Same
  <2>2. \A d \in Connections : Alive(d)' => conn'[d].server \in Servers /\ conn'[d].config \in Configs
    BY <1>a, <1>b DEF IndInv, ConnInv, Same, Alive
  <2>3. \A s \in Servers : table[s] # None => conn'[table[s]].config \in Configs
    BY <1>a DEF IndInv, ConnInv, TypeOK, Same
  <2> QED BY <2>1, <2>2, <2>3, <2>4 DEF ConnInv
<1>5. StopInv'
    BY DEF IndInv, StopInv, NoRequest
<1>6. ASSUME NEW s \in Servers, Working(s)'
      PROVE  /\ InHand(conn'[table[s]], s) \/ Missed(conn'[table[s]]) \/ s \in errors'
             /\ AnswerOK(conn'[table[s]], s)
  <2>1. table[s] \in Connections /\ conn'[table[s]].pc = "hold" /\ conn'[table[s]].session
    BY <1>6 DEF Working, IndInv, TypeOK
  <2>2. CASE table[s] = c
    BY <1>a, <1>b, <2>1, <2>2 DEF Same
  <2>3. CASE table[s] # c
    <3>1. conn'[table[s]] = conn[table[s]] /\ Working(s)
        BY <1>a, <1>b, <1>6, <2>1, <2>3 DEF Working
    <3>2. s # conn[c].server \/ errors \subseteq errors'
        BY <1>b, <2>1, <2>3, AtomsAssumption DEF IndInv, TypeOK
    <3> QED BY <3>1, <3>2 DEF IndInv, NoSilentStaleness, ListInv
  <2> QED BY <2>2, <2>3
<1>7. ASSUME NEW s \in Servers, Working(s)'
      PROVE  /\ (InHand(conn[table[s]], s) \/ Missed(conn[table[s]]) \/ s \in errors)'
             /\ AnswerOK(conn[table[s]], s)'
    BY <1>6, <1>7 DEF InHand, Missed, AnswerOK
<1>8. ListInv'
    BY <1>a, <1>7 DEF IndInv, ListInv, ListOK
<1>9. NoSilentStaleness'
    BY <1>7 DEF NoSilentStaleness
<1> QED BY <1>1, <1>2, <1>3, <1>4, <1>5, <1>8, <1>9 DEF IndInv

\* Nor does it touch the registry or the tools, or make the connection ready.
LEMMA FramedStep ==
    ASSUME IndInv, NEW c \in Connections, conn[c].server \in Servers, NEW k,
           Alive(c) \/ k.pc = "dead",
           conn' = [conn EXCEPT ![c] = k], Same(k, conn[c]), ListOK(k),
           k.tools = conn[c].tools, conn[c].ready # "ok" => k.ready # "ok",
           UNCHANGED <<phase, todo, saved, queue, req, table, registry, offer, calling, ops>>,
           errors \subseteq errors', errors' \subseteq Servers, events' \in Nat,
           k.pc = "hold" /\ k.session /\ table[k.server] = c =>
                /\ InHand(k, k.server) \/ Missed(k) \/ k.server \in errors'
                /\ AnswerOK(k, k.server)
    PROVE  IndInv'
<1>a. \A d \in Connections : conn'[d] = IF d = c THEN k ELSE conn[d]
    BY DEF IndInv, TypeOK
<1>1. \A s \in Servers : table[s] # None =>
        conn'[table[s]].tools = conn[table[s]].tools /\ conn'[table[s]].config = conn[table[s]].config
    BY <1>a DEF IndInv, TypeOK, Same
<1>2. Offered(table, conn') = Offered(table, conn)
    BY <1>1 DEF Offered
<1>3. ASSUME NEW s \in Servers, table[s] # None, conn[table[s]].ready # "ok"
      PROVE  conn'[table[s]].ready # "ok"
    BY <1>a, <1>3 DEF IndInv, TypeOK
<1>4. Offered(table', conn') = Offered(table, conn)
    BY <1>2
<1>5. RegistryInv'
    BY <1>3, <1>4 DEF IndInv, RegistryInv
<1>6. registry' \subseteq Servers \X Tools
    BY DEF IndInv, TypeOK
<1> QED BY <1>5, <1>6, OwnStep

LEMMA ListedInv ==
    ASSUME IndInv, NEW c \in Connections, Listed(c)
    PROVE  IndInv'
<1> DEFINE k == [conn[c] EXCEPT !.listed = offer[conn[c].server]]
<1>a. conn[c] \in Connection /\ conn[c].server \in Servers /\ Alive(c)
    BY AliveFacts DEF Listed, Alive, Closing, IndInv, ConnInv
<1>b. ListOK(conn[c])
    BY DEF IndInv, ListInv
<1>c. conn[c].pc = "connect"
    BY DEF Listed, Closing
<1>o. offer[conn[c].server] \subseteq Tools /\ offer[conn[c].server] # None
  <2>1. offer \in [Servers -> Lists]
    BY DEF IndInv, TypeOK
  <2> QED BY <1>a, <2>1, ListsAssumption, AtomsAssumption
<1>1. conn' = [conn EXCEPT ![c] = k]
    BY DEF Listed, Step
<1>2. k \in Connection
    BY <1>a, <1>o DEF Connection
<1>3. /\ k.pc = conn[c].pc /\ k.server = conn[c].server /\ k.config = conn[c].config
      /\ k.stop = conn[c].stop /\ k.failed = conn[c].failed /\ k.ready = conn[c].ready
      /\ k.session = conn[c].session /\ k.tools = conn[c].tools /\ k.attempts = conn[c].attempts
      /\ k.refresh = conn[c].refresh /\ k.again = conn[c].again /\ k.notice = conn[c].notice
      /\ k.early = conn[c].early
    BY <1>a DEF Connection
<1>4. k.listed = offer[conn[c].server]
    BY <1>a DEF Connection
<1> HIDE DEF k
<1>5. Same(k, conn[c])
    BY <1>2, <1>3, <1>4, <1>c, <1>a DEF Same, Alive, Cancelled
<1>f. k.tools = conn[c].tools /\ (conn[c].ready # "ok" => k.ready # "ok")
    BY <1>3, <1>4 DEF Cancelled
<1>6. ListOK(k)
    BY <1>3, <1>4, <1>b, <1>c, <1>o DEF ListOK
<1>7. errors \subseteq errors' /\ errors' \subseteq Servers
    BY <1>a DEF Listed, Quiet, IndInv, TypeOK
<1>8. k.pc = "hold" /\ k.session /\ table[k.server] = c =>
        (InHand(k, k.server) \/ Missed(k) \/ k.server \in errors') /\ AnswerOK(k, k.server)
    BY <1>3, <1>4, <1>b, <1>c DEF ListOK
<1>9. events' \in Nat
    BY DEF Listed, Quiet, HappensTo, IndInv, TypeOK
<1>10. UNCHANGED <<phase, todo, saved, queue, req, table, registry, offer, calling, ops>>
    BY DEF Listed, Step, Quiet
<1> QED BY <1>a, <1>f, <1>1, <1>5, <1>6, <1>7, <1>8, <1>9, <1>10, FramedStep

LEMMA StartFailsInv ==
    ASSUME IndInv, NEW c \in Connections, StartFails(c)
    PROVE  IndInv'
<1> DEFINE k == [conn[c] EXCEPT
                    !.pc = "closing", !.listed = None,
                    !.ready = IF conn[c].ready = "pending" THEN "error" ELSE conn[c].ready]
<1>a. conn[c] \in Connection /\ conn[c].server \in Servers /\ Alive(c)
    BY AliveFacts DEF StartFails, Alive, Closing, IndInv, ConnInv
<1>b. ListOK(conn[c])
    BY DEF IndInv, ListInv
<1>c. conn[c].pc = "connect"
    BY DEF StartFails, Closing
<1>1. conn' = [conn EXCEPT ![c] = k]
    BY DEF StartFails, Step
<1>2. k \in Connection
    BY <1>a, <1>c DEF Connection, Supervisors, Refreshes, Cancelled
<1>3. /\ k.server = conn[c].server /\ k.config = conn[c].config /\ k.stop = conn[c].stop
      /\ k.failed = conn[c].failed /\ k.session = conn[c].session
      /\ k.tools = conn[c].tools /\ k.attempts = conn[c].attempts /\ k.refresh = conn[c].refresh
      /\ k.again = conn[c].again /\ k.notice = conn[c].notice /\ k.early = conn[c].early
    BY <1>a DEF Connection
<1>4. /\ k.pc = "closing" /\ k.listed = None
      /\ k.ready = (IF conn[c].ready = "pending" THEN "error" ELSE conn[c].ready)
    BY <1>a DEF Connection
<1> HIDE DEF k
<1>5. Same(k, conn[c])
    BY <1>2, <1>3, <1>4, <1>c, <1>a DEF Same, Alive, Cancelled
<1>f. k.tools = conn[c].tools /\ (conn[c].ready # "ok" => k.ready # "ok")
    BY <1>3, <1>4 DEF Cancelled
<1>6. ListOK(k)
    BY <1>3, <1>4, <1>b, <1>c DEF ListOK
<1>7. errors \subseteq errors' /\ errors' \subseteq Servers
    BY <1>a DEF StartFails, Quiet, IndInv, TypeOK
<1>8. k.pc = "hold" /\ k.session /\ table[k.server] = c =>
        (InHand(k, k.server) \/ Missed(k) \/ k.server \in errors') /\ AnswerOK(k, k.server)
    BY <1>3, <1>4, <1>b, <1>c DEF ListOK
<1>9. events' \in Nat
    BY DEF StartFails, Quiet, HappensTo, IndInv, TypeOK
<1>10. UNCHANGED <<phase, todo, saved, queue, req, table, registry, offer, calling, ops>>
    BY DEF StartFails, Step, Quiet
<1> QED BY <1>a, <1>f, <1>1, <1>5, <1>6, <1>7, <1>8, <1>9, <1>10, FramedStep

LEMMA BreaksInv ==
    ASSUME IndInv, NEW c \in Connections, Breaks(c)
    PROVE  IndInv'
<1> DEFINE k == [conn[c] EXCEPT !.failed = TRUE]
<1>a. conn[c] \in Connection /\ conn[c].server \in Servers /\ Alive(c)
    BY AliveFacts DEF Breaks, Alive, Closing, IndInv, ConnInv
<1>b. ListOK(conn[c])
    BY DEF IndInv, ListInv
<1>c. conn[c].pc = "hold"
    BY DEF Breaks, Closing
<1>h. conn[c].pc = "hold" /\ conn[c].session /\ table[conn[c].server] = c =>
        /\ InHand(conn[c], conn[c].server) \/ Missed(conn[c]) \/ conn[c].server \in errors
        /\ AnswerOK(conn[c], conn[c].server)
    BY <1>a, AtomsAssumption DEF IndInv, NoSilentStaleness, ListInv, Working
<1>1. conn' = [conn EXCEPT ![c] = k]
    BY DEF Breaks, Step
<1>2. k \in Connection
    BY <1>a, <1>c DEF Connection, Supervisors, Refreshes, Cancelled
<1>3. /\ k.pc = conn[c].pc /\ k.server = conn[c].server /\ k.config = conn[c].config
      /\ k.stop = conn[c].stop /\ k.ready = conn[c].ready /\ k.session = conn[c].session
      /\ k.tools = conn[c].tools /\ k.listed = conn[c].listed /\ k.attempts = conn[c].attempts
      /\ k.refresh = conn[c].refresh /\ k.again = conn[c].again /\ k.notice = conn[c].notice
      /\ k.early = conn[c].early
    BY <1>a DEF Connection
<1>4. k.failed = TRUE
    BY <1>a DEF Connection
<1> HIDE DEF k
<1>5. Same(k, conn[c])
    BY <1>2, <1>3, <1>4, <1>c, <1>a DEF Same, Alive, Cancelled
<1>f. k.tools = conn[c].tools /\ (conn[c].ready # "ok" => k.ready # "ok")
    BY <1>3, <1>4 DEF Cancelled
<1>6. ListOK(k)
    BY <1>3, <1>4, <1>b, <1>c DEF ListOK
<1>7. errors \subseteq errors' /\ errors' \subseteq Servers
    BY <1>a DEF Breaks, Quiet, IndInv, TypeOK
<1>8. k.pc = "hold" /\ k.session /\ table[k.server] = c =>
        (InHand(k, k.server) \/ Missed(k) \/ k.server \in errors') /\ AnswerOK(k, k.server)
    BY <1>3, <1>4, <1>h, <1>7 DEF InHand, Missed, AnswerOK
<1>9. events' \in Nat
    BY DEF Breaks, Quiet, HappensTo, IndInv, TypeOK
<1>10. UNCHANGED <<phase, todo, saved, queue, req, table, registry, offer, calling, ops>>
    BY DEF Breaks, Step, Quiet
<1> QED BY <1>a, <1>f, <1>1, <1>5, <1>6, <1>7, <1>8, <1>9, <1>10, FramedStep

LEMMA WakeInv ==
    ASSUME IndInv, NEW c \in Connections, Wake(c)
    PROVE  IndInv'
<1> DEFINE pc == IF conn[c].stop THEN "stopping" ELSE "closing"
           listed == IF conn[c].pc = "hold" THEN conn[c].listed ELSE None
           ready == Cancelled(conn[c].ready)
           k == [conn[c] EXCEPT !.pc = pc, !.listed = listed, !.ready = ready]
<1>a. conn[c] \in Connection /\ conn[c].server \in Servers /\ Alive(c)
    BY AliveFacts DEF Wake, Alive, Closing, IndInv, ConnInv
<1>b. ListOK(conn[c])
    BY DEF IndInv, ListInv
<1>c. conn[c].pc \in {"connect", "hold"}
    BY DEF Wake, Closing
<1>1. conn' = [conn EXCEPT ![c] = k]
    BY DEF Wake, Step
<1>o. /\ pc \in Supervisors /\ listed \in {None} \cup SUBSET Tools
      /\ ready \in {"pending", "ok", "error", "cancelled"}
  <2>1. pc \in Supervisors
    BY DEF Supervisors
  <2>2. listed \in {None} \cup SUBSET Tools
    BY <1>a DEF Connection
  <2>3. ready \in {"pending", "ok", "error", "cancelled"}
    BY <1>a DEF Connection, Cancelled
  <2> QED BY <2>1, <2>2, <2>3
<1> HIDE DEF pc, listed, ready
<1>2. k \in Connection
    BY <1>a, <1>o DEF Connection
<1>3. /\ k.server = conn[c].server /\ k.config = conn[c].config /\ k.stop = conn[c].stop
      /\ k.failed = conn[c].failed /\ k.session = conn[c].session
      /\ k.tools = conn[c].tools /\ k.attempts = conn[c].attempts /\ k.refresh = conn[c].refresh
      /\ k.again = conn[c].again /\ k.notice = conn[c].notice /\ k.early = conn[c].early
    BY <1>a DEF Connection
<1>4. /\ k.pc \in {"stopping", "closing"}
      /\ k.listed = listed /\ k.ready = Cancelled(conn[c].ready)
    BY <1>a DEF Connection, pc, ready
<1> HIDE DEF k
<1>5. Same(k, conn[c])
    BY <1>2, <1>3, <1>4, <1>c, <1>a DEF Same, Alive, Cancelled
<1>f. k.tools = conn[c].tools /\ (conn[c].ready # "ok" => k.ready # "ok")
    BY <1>3, <1>4 DEF Cancelled
<1>6. ListOK(k)
    BY <1>3, <1>4, <1>b, <1>c DEF ListOK, listed
<1>7. errors \subseteq errors' /\ errors' \subseteq Servers
    BY <1>a DEF Wake, Quiet, IndInv, TypeOK
<1>8. k.pc = "hold" /\ k.session /\ table[k.server] = c =>
        (InHand(k, k.server) \/ Missed(k) \/ k.server \in errors') /\ AnswerOK(k, k.server)
    BY <1>3, <1>4, <1>b, <1>c DEF ListOK
<1>9. events' \in Nat
    BY DEF Wake, Quiet, HappensTo, IndInv, TypeOK
<1>10. UNCHANGED <<phase, todo, saved, queue, req, table, registry, offer, calling, ops>>
    BY DEF Wake, Step, Quiet
<1> QED BY <1>a, <1>f, <1>1, <1>5, <1>6, <1>7, <1>8, <1>9, <1>10, FramedStep

LEMMA BackOffInv ==
    ASSUME IndInv, NEW c \in Connections, NEW lasted \in BOOLEAN, BackOff(c, lasted)
    PROVE  IndInv'
<1> DEFINE k == [conn[c] EXCEPT
                    !.pc = "backoff", !.session = FALSE, !.attempts = Attempt(c, lasted),
                    !.refresh = Left(conn[c].refresh)]
<1>a. conn[c] \in Connection /\ conn[c].server \in Servers /\ Alive(c)
    BY AliveFacts DEF BackOff, Alive, Closing, IndInv, ConnInv
<1>b. ListOK(conn[c])
    BY DEF IndInv, ListInv
<1>c. conn[c].pc = "closing" /\ conn[c].refresh # "answered" /\ Attempt(c, lasted) < MaxAttempts
    BY DEF BackOff, Closing
<1>n. Attempt(c, lasted) \in 0 .. MaxAttempts
    BY <1>a, <1>c, BoundsAssumption DEF Attempt, Connection
<1>1. conn' = [conn EXCEPT ![c] = k]
    BY DEF BackOff, Step
<1>o. Left(conn[c].refresh) \in {"idle", "orphan"}
    BY DEF Left
<1>2. k \in Connection
    BY <1>a, <1>c, <1>n, <1>o DEF Connection, Supervisors, Refreshes
<1>3. /\ k.server = conn[c].server /\ k.config = conn[c].config /\ k.stop = conn[c].stop
      /\ k.failed = conn[c].failed /\ k.ready = conn[c].ready
      /\ k.tools = conn[c].tools /\ k.listed = conn[c].listed /\ k.again = conn[c].again
      /\ k.notice = conn[c].notice /\ k.early = conn[c].early
    BY <1>a DEF Connection
<1>4. /\ k.pc = "backoff" /\ k.session = FALSE /\ k.attempts = Attempt(c, lasted)
      /\ k.refresh \in {"idle", "orphan"}
    BY <1>a, <1>o DEF Connection
<1> HIDE DEF k
<1>5. Same(k, conn[c])
    BY <1>2, <1>3, <1>4, <1>c, <1>a DEF Same, Alive, Cancelled
<1>f. k.tools = conn[c].tools /\ (conn[c].ready # "ok" => k.ready # "ok")
    BY <1>3, <1>4 DEF Cancelled
<1>6. ListOK(k)
    BY <1>3, <1>4, <1>b, <1>c DEF ListOK
<1>7. errors \subseteq errors' /\ errors' \subseteq Servers
    BY <1>a DEF BackOff, Quiet, IndInv, TypeOK
<1>8. k.pc = "hold" /\ k.session /\ table[k.server] = c =>
        (InHand(k, k.server) \/ Missed(k) \/ k.server \in errors') /\ AnswerOK(k, k.server)
    BY <1>3, <1>4, <1>b, <1>c DEF ListOK
<1>9. events' \in Nat
    BY DEF BackOff, Quiet, HappensTo, IndInv, TypeOK
<1>10. UNCHANGED <<phase, todo, saved, queue, req, table, registry, offer, calling, ops>>
    BY DEF BackOff, Step, Quiet
<1> QED BY <1>a, <1>f, <1>1, <1>5, <1>6, <1>7, <1>8, <1>9, <1>10, FramedStep

LEMMA RetryInv ==
    ASSUME IndInv, NEW c \in Connections, Retry(c)
    PROVE  IndInv'
<1> DEFINE k == [conn[c] EXCEPT !.pc = "connect", !.failed = FALSE, !.notice = FALSE, !.early = FALSE]
<1>a. conn[c] \in Connection /\ conn[c].server \in Servers /\ Alive(c)
    BY AliveFacts DEF Retry, Alive, Closing, IndInv, ConnInv
<1>b. ListOK(conn[c])
    BY DEF IndInv, ListInv
<1>c. conn[c].pc = "backoff"
    BY DEF Retry, Closing
<1>1. conn' = [conn EXCEPT ![c] = k]
    BY DEF Retry, Step
<1>2. k \in Connection
    BY <1>a, <1>c DEF Connection, Supervisors, Refreshes, Cancelled
<1>3. /\ k.server = conn[c].server /\ k.config = conn[c].config /\ k.stop = conn[c].stop
      /\ k.ready = conn[c].ready /\ k.session = conn[c].session
      /\ k.tools = conn[c].tools /\ k.listed = conn[c].listed /\ k.attempts = conn[c].attempts
      /\ k.refresh = conn[c].refresh /\ k.again = conn[c].again
    BY <1>a DEF Connection
<1>4. k.pc = "connect" /\ k.failed = FALSE /\ k.notice = FALSE /\ k.early = FALSE
    BY <1>a DEF Connection
<1> HIDE DEF k
<1>5. Same(k, conn[c])
    BY <1>2, <1>3, <1>4, <1>c, <1>a DEF Same, Alive, Cancelled
<1>f. k.tools = conn[c].tools /\ (conn[c].ready # "ok" => k.ready # "ok")
    BY <1>3, <1>4 DEF Cancelled
<1>6. ListOK(k)
    BY <1>3, <1>4, <1>b, <1>c DEF ListOK
<1>7. errors \subseteq errors' /\ errors' \subseteq Servers
    BY <1>a DEF Retry, Quiet, IndInv, TypeOK
<1>8. k.pc = "hold" /\ k.session /\ table[k.server] = c =>
        (InHand(k, k.server) \/ Missed(k) \/ k.server \in errors') /\ AnswerOK(k, k.server)
    BY <1>3, <1>4, <1>b, <1>c DEF ListOK
<1>9. events' \in Nat
    BY DEF Retry, Quiet, HappensTo, IndInv, TypeOK
<1>10. UNCHANGED <<phase, todo, saved, queue, req, table, registry, offer, calling, ops>>
    BY DEF Retry, Step, Quiet
<1> QED BY <1>a, <1>f, <1>1, <1>5, <1>6, <1>7, <1>8, <1>9, <1>10, FramedStep

LEMMA RefreshAnsweredInv ==
    ASSUME IndInv, NEW c \in Connections, RefreshAnswered(c)
    PROVE  IndInv'
<1> DEFINE k == [conn[c] EXCEPT !.refresh = "answered", !.listed = offer[conn[c].server]]
<1>a. conn[c] \in Connection /\ conn[c].server \in Servers /\ Alive(c)
    BY AliveFacts DEF RefreshAnswered, Alive, Closing, IndInv, ConnInv
<1>b. ListOK(conn[c])
    BY DEF IndInv, ListInv
<1>c. conn[c].pc = "hold"
    BY DEF RefreshAnswered, Closing
<1>o. offer[conn[c].server] \subseteq Tools /\ offer[conn[c].server] # None
  <2>1. offer \in [Servers -> Lists]
    BY DEF IndInv, TypeOK
  <2> QED BY <1>a, <2>1, ListsAssumption, AtomsAssumption
<1>1. conn' = [conn EXCEPT ![c] = k]
    BY DEF RefreshAnswered, Step
<1>2. k \in Connection
    BY <1>a, <1>o DEF Connection, Refreshes
<1>3. /\ k.pc = conn[c].pc /\ k.server = conn[c].server /\ k.config = conn[c].config
      /\ k.stop = conn[c].stop /\ k.failed = conn[c].failed /\ k.ready = conn[c].ready
      /\ k.session = conn[c].session /\ k.tools = conn[c].tools /\ k.attempts = conn[c].attempts
      /\ k.again = conn[c].again /\ k.notice = conn[c].notice /\ k.early = conn[c].early
    BY <1>a DEF Connection
<1>4. k.refresh = "answered" /\ k.listed = offer[conn[c].server]
    BY <1>a DEF Connection
<1> HIDE DEF k
<1>5. Same(k, conn[c])
    BY <1>2, <1>3, <1>4, <1>c, <1>a DEF Same, Alive, Cancelled
<1>f. k.tools = conn[c].tools /\ (conn[c].ready # "ok" => k.ready # "ok")
    BY <1>3, <1>4 DEF Cancelled
<1>6. ListOK(k)
    BY <1>3, <1>4, <1>b, <1>c, <1>o DEF ListOK
<1>7. errors \subseteq errors' /\ errors' \subseteq Servers
    BY <1>a DEF RefreshAnswered, Quiet, IndInv, TypeOK
<1>8. k.pc = "hold" /\ k.session /\ table[k.server] = c =>
        (InHand(k, k.server) \/ Missed(k) \/ k.server \in errors') /\ AnswerOK(k, k.server)
    BY <1>3, <1>4 DEF InHand, Missed, AnswerOK
<1>9. events' \in Nat
    BY DEF RefreshAnswered, Quiet, HappensTo, IndInv, TypeOK
<1>10. UNCHANGED <<phase, todo, saved, queue, req, table, registry, offer, calling, ops>>
    BY DEF RefreshAnswered, Step, Quiet
<1> QED BY <1>a, <1>f, <1>1, <1>5, <1>6, <1>7, <1>8, <1>9, <1>10, FramedStep

LEMMA RefreshFailsInv ==
    ASSUME IndInv, NEW c \in Connections, RefreshFails(c)
    PROVE  IndInv'
<1> DEFINE k == [conn[c] EXCEPT !.refresh = "idle"]
<1>a. conn[c] \in Connection /\ conn[c].server \in Servers
    BY DEF RefreshFails, IndInv, TypeOK, ConnInv
<1>b. ListOK(conn[c])
    BY DEF IndInv, ListInv
<1>c. conn[c].refresh \in {"asking", "orphan"}
    BY DEF RefreshFails, Closing
<1>1. conn' = [conn EXCEPT ![c] = k]
    BY DEF RefreshFails, Step
<1>2. k \in Connection
    BY <1>a, <1>c DEF Connection, Supervisors, Refreshes, Cancelled
<1>3. /\ k.pc = conn[c].pc /\ k.server = conn[c].server /\ k.config = conn[c].config
      /\ k.stop = conn[c].stop /\ k.failed = conn[c].failed /\ k.ready = conn[c].ready
      /\ k.session = conn[c].session /\ k.tools = conn[c].tools /\ k.listed = conn[c].listed
      /\ k.attempts = conn[c].attempts /\ k.again = conn[c].again /\ k.notice = conn[c].notice
      /\ k.early = conn[c].early
    BY <1>a DEF Connection
<1>4. k.refresh = "idle"
    BY <1>a DEF Connection
<1> HIDE DEF k
<1>5. Same(k, conn[c])
    BY <1>2, <1>3, <1>4 DEF Same, IndInv, ConnInv, Alive
<1>d. Alive(c) \/ k.pc = "dead"
    BY <1>3 DEF Alive
<1>f. k.tools = conn[c].tools /\ (conn[c].ready # "ok" => k.ready # "ok")
    BY <1>3, <1>4 DEF Cancelled
<1>6. ListOK(k)
    BY <1>3, <1>4, <1>b, <1>c DEF ListOK
<1>7. errors \subseteq errors' /\ errors' \subseteq Servers
    BY <1>a DEF RefreshFails, Quiet, IndInv, TypeOK
<1>8. k.pc = "hold" /\ k.session /\ table[k.server] = c =>
        (InHand(k, k.server) \/ Missed(k) \/ k.server \in errors') /\ AnswerOK(k, k.server)
    BY <1>3, <1>4 DEF RefreshFails, AnswerOK
<1>9. events' \in Nat
    BY DEF RefreshFails, Quiet, HappensTo, IndInv, TypeOK
<1>10. UNCHANGED <<phase, todo, saved, queue, req, table, registry, offer, calling, ops>>
    BY DEF RefreshFails, Step, Quiet
<1> QED BY <1>a, <1>d, <1>f, <1>1, <1>5, <1>6, <1>7, <1>8, <1>9, <1>10, FramedStep

LEMMA NotifiedInv ==
    ASSUME IndInv, NEW c \in Connections, Notified(c)
    PROVE  IndInv'
<1> DEFINE attached == table[conn[c].server] = c /\ conn[c].session
            told == IF attached THEN conn[c].early /\ conn[c].refresh # "idle"
                    ELSE conn[c].early \/ (conn[c].pc = "connect" /\ conn[c].listed # None)
            refreshed == IF attached /\ conn[c].refresh = "idle" THEN "asking" ELSE conn[c].refresh
            again == IF ~attached THEN conn[c].again ELSE conn[c].refresh # "idle"
<1> DEFINE k == [conn[c] EXCEPT
                    !.notice = FALSE, !.early = told, !.refresh = refreshed, !.again = again]
<1>a. conn[c] \in Connection /\ conn[c].server \in Servers /\ Alive(c)
    BY AliveFacts DEF Notified, Alive, Closing, IndInv, ConnInv
<1>b. ListOK(conn[c])
    BY DEF IndInv, ListInv
<1>c. conn[c].notice
    BY DEF Notified, Closing
<1>o. told \in BOOLEAN /\ again \in BOOLEAN /\ refreshed \in Refreshes
    BY <1>a DEF Connection, Refreshes
<1>1. conn' = [conn EXCEPT ![c] = k]
    BY DEF Notified, Step
<1> HIDE DEF told, refreshed, again
<1>2. k \in Connection
    BY <1>a, <1>o DEF Connection
<1>3. /\ k.pc = conn[c].pc /\ k.server = conn[c].server /\ k.config = conn[c].config
      /\ k.stop = conn[c].stop /\ k.failed = conn[c].failed
      /\ k.ready = conn[c].ready /\ k.session = conn[c].session /\ k.tools = conn[c].tools
      /\ k.listed = conn[c].listed /\ k.attempts = conn[c].attempts
    BY <1>a DEF Connection
<1>4. k.notice = FALSE /\ k.early = told /\ k.refresh = refreshed /\ k.again = again
    BY <1>a DEF Connection
<1> HIDE DEF k
<1>5. Same(k, conn[c])
    BY <1>2, <1>3, <1>4, <1>c, <1>a DEF Same, Alive, Cancelled
<1>f. k.tools = conn[c].tools /\ (conn[c].ready # "ok" => k.ready # "ok")
    BY <1>3, <1>4 DEF Cancelled
<1>6. ListOK(k)
    BY <1>3, <1>4, <1>b, <1>c DEF ListOK, told, refreshed, again
<1>7. errors \subseteq errors' /\ errors' \subseteq Servers
    BY <1>a DEF Notified, Quiet, IndInv, TypeOK
<1>8. k.pc = "hold" /\ k.session /\ table[k.server] = c =>
        (InHand(k, k.server) \/ Missed(k) \/ k.server \in errors') /\ AnswerOK(k, k.server)
    BY <1>2, <1>3, <1>4 DEF InHand, Missed, AnswerOK, Connection, Refreshes, refreshed, again
<1>9. events' \in Nat
    BY DEF Notified, Quiet, HappensTo, IndInv, TypeOK
<1>10. UNCHANGED <<phase, todo, saved, queue, req, table, registry, offer, calling, ops>>
    BY DEF Notified, Step, Quiet
<1> QED BY <1>a, <1>f, <1>1, <1>5, <1>6, <1>7, <1>8, <1>9, <1>10, FramedStep

\* A supervisor that ends leaves a refresh behind at most.
LEMMA DeadStep ==
    ASSUME IndInv, NEW c \in Connections, Alive(c), Step(c, Dead(conn[c])), Quiet
    PROVE  IndInv'
<1> DEFINE k == Dead(conn[c])
<1>1. conn[c] \in Connection /\ conn[c].server \in Servers
    BY AliveFacts
<1>2. /\ Same(k, conn[c]) /\ k.pc = "dead" /\ ListOK(k)
      /\ k.tools = conn[c].tools /\ k.ready = conn[c].ready
    BY <1>1, DeadSame
<1> HIDE DEF k
<1>3. conn' = [conn EXCEPT ![c] = k]
    BY DEF Step, k
<1>4. /\ errors \subseteq errors' /\ errors' \subseteq Servers /\ events' \in Nat
      /\ UNCHANGED <<phase, todo, saved, queue, req, table, registry, offer, calling, ops>>
    BY DEF Step, Quiet, IndInv, TypeOK
<1> QED BY <1>1, <1>2, <1>3, <1>4, FramedStep

LEMMA EndedInv ==
    ASSUME IndInv, NEW c \in Connections, Ended(c) \/ FirstStartFailed(c)
    PROVE  IndInv'
BY DeadStep DEF Ended, FirstStartFailed, Closing, Alive


\* A cleanup that raises leaves the connection its session as well.
LEMMA CleanupRaisesInv ==
    ASSUME IndInv, NEW c \in Connections, CleanupRaises(c)
    PROVE  IndInv'
<1> DEFINE j == Dead(conn[c])
           k == [j EXCEPT !.session = conn[c].session]
<1>a. conn[c] \in Connection /\ conn[c].server \in Servers /\ Alive(c)
    BY AliveFacts DEF CleanupRaises, Closing, Alive, IndInv, ConnInv
<1>1. /\ Same(j, conn[c]) /\ j.pc = "dead" /\ ListOK(j)
      /\ j.tools = conn[c].tools /\ j.ready = conn[c].ready
    BY <1>a, DeadSame
<1>2. conn' = [conn EXCEPT ![c] = k]
    BY DEF CleanupRaises, Step
<1> HIDE DEF j
<1>3. j \in Connection
    BY <1>1 DEF Same
<1>4. /\ k \in Connection /\ k.session = conn[c].session
      /\ k.pc = j.pc /\ k.server = j.server /\ k.config = j.config /\ k.stop = j.stop
      /\ k.tools = j.tools /\ k.ready = j.ready /\ k.listed = j.listed
      /\ k.refresh = j.refresh /\ k.notice = j.notice /\ k.early = j.early
    BY <1>a, <1>3 DEF Connection
<1> HIDE DEF k
<1>5. Same(k, conn[c]) /\ ListOK(k)
    BY <1>1, <1>4 DEF Same, ListOK
<1>6. /\ errors \subseteq errors' /\ errors' \subseteq Servers /\ events' \in Nat
      /\ UNCHANGED <<phase, todo, saved, queue, req, table, registry, offer, calling, ops>>
    BY DEF CleanupRaises, HappensTo, Step, IndInv, TypeOK
<1> QED BY <1>a, <1>1, <1>2, <1>4, <1>5, <1>6, FramedStep

LEMMA AttachInv ==
    ASSUME IndInv, NEW c \in Connections, Attach(c)
    PROVE  IndInv'
<1> DEFINE j == [conn[c] EXCEPT !.session = TRUE, !.tools = conn[c].listed, !.listed = None,
                                !.ready = IF conn[c].ready = "pending" THEN "ok" ELSE conn[c].ready]
           con == [conn EXCEPT ![c] = j]
           clash == Clash(Offered(table, con))
           k == [j EXCEPT !.pc = IF clash THEN "closing" ELSE "hold"]
           err == IF clash THEN errors \cup {j.server} ELSE errors \ {j.server}
<1>a. conn[c] \in Connection /\ conn[c].server \in Servers /\ Alive(c)
    BY AliveFacts DEF Attach, Alive
<1>b. ListOK(conn[c]) /\ conn[c].pc = "connect" /\ conn[c].listed # None
    BY DEF IndInv, ListInv, Attach
<1>1. conn' = [conn EXCEPT ![c] = k] /\ Reregister(table, con, err)
    BY DEF Attach, Step
<1>2. clash \in BOOLEAN
    BY DEF Clash
<1> HIDE DEF con, clash
<1>3. /\ j.session = TRUE /\ j.tools = conn[c].listed /\ j.listed = None
      /\ j.server = conn[c].server /\ j.config = conn[c].config /\ j.stop = conn[c].stop
      /\ j.notice = conn[c].notice /\ j.early = conn[c].early /\ j.refresh = conn[c].refresh
    BY <1>a DEF Connection
<1>4. j \in Connection
    BY <1>a, <1>b DEF Connection
<1> HIDE DEF j
<1>5. /\ k.session = j.session /\ k.tools = j.tools /\ k.listed = j.listed
      /\ k.server = j.server /\ k.config = j.config /\ k.stop = j.stop
      /\ k.notice = j.notice /\ k.early = j.early /\ k.refresh = j.refresh
      /\ k.pc = IF clash THEN "closing" ELSE "hold"
    BY <1>4 DEF Connection
<1>6. k \in Connection
    BY <1>4 DEF Connection, Supervisors
<1> HIDE DEF k
<1>7. Same(k, conn[c]) /\ ListOK(k)
    BY <1>b, <1>3, <1>5, <1>6 DEF Same, ListOK
<1>8. err \subseteq Servers /\ errors \ {conn[c].server} \subseteq err
    BY <1>a, <1>3 DEF IndInv, TypeOK
<1>9. /\ registry' \subseteq Servers \X Tools /\ errors' \subseteq Servers /\ err \subseteq errors'
      /\ registry' = Offered(table, con) \/ Clash(Offered(table, con))
  <2>1. registry \subseteq Servers \X Tools
    BY DEF IndInv, TypeOK
  <2> QED BY <1>1, <1>8, <2>1, ReregisterTyped
<1>10. Offered(table, conn') = Offered(table, con)
  <2>1. \A s \in Servers : table[s] # None =>
            conn'[table[s]].tools = con[table[s]].tools /\ conn'[table[s]].config = con[table[s]].config
    BY <1>1, <1>5 DEF con, IndInv, TypeOK
  <2> QED BY <2>1 DEF Offered
<1>11. UNCHANGED <<phase, todo, saved, queue, req, table, offer, calling, ops, events>>
    BY DEF Attach, Step
<1>12. RegistryInv'
  <2>1. Offered(table', conn') = Offered(table, con)
    BY <1>10, <1>11
  <2> QED BY <2>1, <1>9 DEF RegistryInv
<1>13. (InHand(k, k.server) \/ Missed(k)) /\ AnswerOK(k, k.server)
    BY <1>b, <1>3, <1>5 DEF ListOK, InHand, Missed, AnswerOK
<1>14. events' \in Nat
    BY <1>11 DEF IndInv, TypeOK
<1> HIDE DEF err
<1>15. errors \ {conn[c].server} \subseteq errors'
    BY <1>8, <1>9
<1> QED BY <1>a, <1>1, <1>7, <1>9, <1>11, <1>12, <1>13, <1>14, <1>15, OwnStep

LEMMA RefreshTakenInv ==
    ASSUME IndInv, NEW c \in Connections, RefreshTaken(c)
    PROVE  IndInv'
<1> DEFINE s == conn[c].server
           con == IF table[s] = None THEN conn
                  ELSE [conn EXCEPT ![table[s]].tools = conn[c].listed]
           next == IF conn[c].again THEN "asking" ELSE "idle"
           kept == [conn[c] EXCEPT !.refresh = "idle", !.listed = None]
           taken == [conn[c] EXCEPT !.refresh = next, !.again = FALSE,
                                    !.tools = conn[c].listed, !.listed = None]
<1>b. ListOK(conn[c]) /\ conn[c].refresh = "answered"
    BY DEF IndInv, ListInv, RefreshTaken
<1>c. conn[c].listed # None /\ conn[c].pc \in {"hold", "closing", "stopping"}
    BY <1>b DEF ListOK
<1>d. Alive(c)
    BY <1>c DEF Alive
<1>a. /\ conn[c] \in Connection /\ s \in Servers /\ table[s] \in {c, None}
      /\ \A x \in Servers : table[x] = c => x = s
    BY <1>d, AliveFacts
<1>e. UNCHANGED <<phase, todo, saved, queue, req, table, offer, calling, ops, events>>
    BY DEF RefreshTaken, Step
<1>f. events' \in Nat /\ registry \subseteq Servers \X Tools /\ errors \subseteq Servers
    BY <1>e DEF IndInv, TypeOK
<1>1. CASE Clash(Offered(table, con))
  <2>1. conn' = [conn EXCEPT ![c] = kept] /\ registry' = registry /\ errors' = errors \cup {s}
    BY <1>1 DEF RefreshTaken, Step
  <2>2. /\ kept.refresh = "idle" /\ kept.listed = None /\ kept.pc = conn[c].pc
        /\ kept.session = conn[c].session /\ kept.server = s /\ kept.config = conn[c].config
        /\ kept.stop = conn[c].stop /\ kept.tools = conn[c].tools /\ kept.ready = conn[c].ready
    BY <1>a DEF Connection
  <2>3. kept \in Connection
    BY <1>a DEF Connection, Refreshes
  <2> HIDE DEF kept
  <2>4. Same(kept, conn[c]) /\ ListOK(kept) /\ AnswerOK(kept, kept.server)
    BY <1>c, <2>2, <2>3 DEF Same, ListOK, AnswerOK
  <2>5. kept.server \in errors' /\ errors \subseteq errors' /\ errors' \subseteq Servers
    BY <1>a, <1>f, <2>1, <2>2
  <2>6. conn[c].server \in Servers
    BY <1>a
  <2> HIDE DEF s, con
  <2> QED BY <2>6, <1>d, <1>e, <1>f, <2>1, <2>2, <2>4, <2>5, FramedStep
<1>2. CASE ~Clash(Offered(table, con))
  <2>1. conn' = [conn EXCEPT ![c] = taken] /\ registry' = Offered(table, con) /\ errors' = errors \ {s}
    BY <1>2 DEF RefreshTaken, Step
  <2>2. /\ taken.refresh = next /\ taken.listed = None /\ taken.pc = conn[c].pc
        /\ taken.session = conn[c].session /\ taken.server = s /\ taken.config = conn[c].config
        /\ taken.stop = conn[c].stop /\ taken.tools = conn[c].listed
        /\ taken.notice = conn[c].notice
    BY <1>a DEF Connection
  <2>3. taken \in Connection
    BY <1>a, <1>c DEF Connection, Refreshes
  <2>4. Offered(table, conn') = Offered(table, con)
    <3>1. \A x \in Servers : table[x] # None =>
            conn'[table[x]].tools = con[table[x]].tools /\ conn'[table[x]].config = con[table[x]].config
      <4>1. conn \in [Connections -> Connection] /\ table \in [Servers -> Connections \cup {None}]
        BY DEF IndInv, TypeOK
      <4>2. CASE table[s] = None
        BY <1>a, <2>1, <4>1, <4>2
      <4>3. CASE table[s] = c
        <5>1. con[c].tools = conn[c].listed /\ con[c].config = conn[c].config
            BY <1>a, <4>1, <4>3, AtomsAssumption DEF Connection
        <5>2. \A x \in Servers : table[x] # None /\ table[x] # c => con[table[x]] = conn[table[x]]
            BY <1>a, <4>1, <4>3, AtomsAssumption
        <5>3. \A x \in Servers : table[x] # None =>
                conn'[table[x]] = IF table[x] = c THEN taken ELSE conn[table[x]]
            BY <2>1, <4>1
        <5> HIDE DEF con, taken, s
        <5> QED BY <2>2, <5>1, <5>2, <5>3
      <4> QED BY <1>a, <4>2, <4>3
    <3> HIDE DEF con, taken, s
    <3> QED BY <3>1 DEF Offered
  <2> HIDE DEF taken, con
  <2>5. Same(taken, conn[c]) /\ ListOK(taken)
    BY <1>c, <2>2, <2>3 DEF Same, ListOK
  <2>6. taken.pc = "hold" /\ taken.session /\ table[taken.server] = c =>
            InHand(taken, taken.server) /\ AnswerOK(taken, taken.server)
    <3>1. SUFFICES ASSUME taken.pc = "hold", taken.session, table[taken.server] = c
                   PROVE  InHand(taken, taken.server) /\ AnswerOK(taken, taken.server)
        OBVIOUS
    <3>2. Working(s) /\ table[s] = c
        BY <2>2, <3>1, AtomsAssumption DEF Working
    <3>3. conn[c].listed = offer[s] \/ conn[c].notice \/ conn[c].again
        BY <1>a, <1>b, <3>2 DEF IndInv, ListInv, AnswerOK
    <3> QED BY <2>2, <3>3 DEF InHand, Missed, AnswerOK
  <2>7. RegistryInv'
    <3>1. Offered(table', conn') = Offered(table, con)
        BY <1>e, <2>4
    <3> QED BY <2>1, <3>1 DEF RegistryInv
  <2>8. registry' \subseteq Servers \X Tools
    BY <2>1 DEF Offered
  <2>9. errors \ {conn[c].server} \subseteq errors' /\ errors' \subseteq Servers
    BY <2>1, <1>f
  <2>10. conn[c].server \in Servers
    BY <1>a
  <2> QED BY <2>10, <1>d, <1>e, <1>f, <2>1, <2>5, <2>6, <2>7, <2>8, <2>9, OwnStep
<1> QED BY <1>1, <1>2

\* A supervisor that gives up takes its own connection out, and no other.
LEMMA GiveUpInv ==
    ASSUME IndInv, NEW c \in Connections, NEW lasted \in BOOLEAN, GiveUp(c, lasted)
    PROVE  IndInv'
<1> DEFINE s == conn[c].server
           gone == [table EXCEPT ![s] = None]
           k == Dead(conn[c])
<1>d. Alive(c)
    BY DEF GiveUp, Closing, Alive
<1>a. /\ conn[c] \in Connection /\ s \in Servers /\ table[s] \in {c, None}
      /\ \A x \in Servers : table[x] = c => x = s
    BY <1>d, AliveFacts
<1>t. /\ conn \in [Connections -> Connection] /\ table \in [Servers -> Connections \cup {None}]
      /\ registry \subseteq Servers \X Tools /\ errors \subseteq Servers
    BY DEF IndInv, TypeOK
<1>1. conn' = [conn EXCEPT ![c] = k] /\ table' = gone /\ Reregister(gone, conn, errors \cup {s})
    BY DEF GiveUp, Step
<1>2. UNCHANGED <<phase, todo, saved, queue, req, offer, calling, ops, events>>
    BY DEF GiveUp, Step
<1>3. /\ Same(k, conn[c]) /\ k.pc = "dead" /\ ListOK(k)
      /\ k.tools = conn[c].tools /\ k.ready = conn[c].ready
    BY <1>a, DeadSame
<1> HIDE DEF k
<1>4. /\ \A d \in Connections : conn'[d] = IF d = c THEN k ELSE conn[d]
      /\ \A x \in Servers : table'[x] = IF x = s THEN None ELSE table[x]
    BY <1>1, <1>t
<1>5. \A x \in Servers : table'[x] # None =>
        table'[x] = table[x] /\ table[x] # c /\ conn'[table[x]] = conn[table[x]]
    BY <1>a, <1>t, <1>4, AtomsAssumption
<1>s. conn[c].server \in Servers
    BY <1>a
<1> HIDE DEF s, gone
<1>6. /\ registry' \subseteq Servers \X Tools /\ errors' \subseteq Servers
      /\ errors \cup {s} \subseteq errors'
      /\ registry' = Offered(gone, conn) \/ Clash(Offered(gone, conn))
    BY <1>a, <1>t, <1>1, ReregisterTyped
<1>7. TypeOK'
  <2>1. conn' \in [Connections -> Connection]
    BY <1>1, <1>3, <1>t DEF Same
  <2>2. table' \in [Servers -> Connections \cup {None}]
    BY <1>1, <1>t DEF gone
  <2> QED BY <2>1, <2>2, <1>2, <1>6 DEF IndInv, TypeOK
<1>8. NoOrphans'
  <2>1. ASSUME NEW d \in Connections, Alive(d)'
        PROVE  \/ table'[conn'[d].server] = d
               \/ conn'[d].stop /\ \E r \in Requests :
                    Holder(r) /\ req[r].pc = "draining" /\ req[r].of = d
    <3>1. d # c /\ conn'[d] = conn[d] /\ Alive(d) /\ conn[d].server \in Servers
        BY <1>3, <1>4, <2>1 DEF Alive, IndInv, ConnInv
    <3>2. table[conn[d].server] = d => table'[conn[d].server] = d
        BY <1>a, <1>4, <3>1, AtomsAssumption
    <3> QED BY <3>1, <3>2 DEF IndInv, NoOrphans
  <2>2. \A x \in Servers : table'[x] # None => conn'[table'[x]].server = x
    BY <1>5 DEF IndInv, NoOrphans
  <2>3. phase = "down" => Registered' = {}
    BY <1>5 DEF IndInv, NoOrphans, Registered
  <2> QED BY <1>2, <2>1, <2>2, <2>3 DEF NoOrphans, Holder
<1>9. LockInv'
    BY <1>2, <1>3, <1>4 DEF IndInv, LockInv, Holder, Same
<1>10. ConnInv'
  <2>1. \A d \in Connections :
            ~Alive(d)' => conn'[d].refresh \in {"idle", "orphan"} /\ ~conn'[d].notice
    BY <1>3, <1>4 DEF IndInv, ConnInv, Same, Alive
  <2>4. \A d \in Connections : conn'[d].refresh # "idle" => conn'[d].server \in Servers
    BY <1>3, <1>4, <1>s DEF IndInv, ConnInv, Same
  <2>2. \A d \in Connections : Alive(d)' => conn'[d].server \in Servers /\ conn'[d].config \in Configs
    BY <1>3, <1>4 DEF IndInv, ConnInv, Alive
  <2>3. \A x \in Servers : table'[x] # None => conn'[table'[x]].config \in Configs
    BY <1>5 DEF IndInv, ConnInv
  <2> QED BY <2>1, <2>2, <2>3, <2>4 DEF ConnInv
<1>11. StopInv'
    BY <1>2, <1>5 DEF IndInv, StopInv, NoRequest
<1>12. RegistryInv'
  <2>1. Offered(table', conn') = Offered(gone, conn)
    <3>1. \A x \in Servers : gone[x] # None =>
            conn'[gone[x]].tools = conn[gone[x]].tools /\ conn'[gone[x]].config = conn[gone[x]].config
        BY <1>1, <1>5
    <3>2. Offered(gone, conn') = Offered(gone, conn)
        BY <3>1 DEF Offered
    <3> QED BY <3>2, <1>1
  <2> QED BY <2>1, <1>6 DEF RegistryInv
<1>13. ASSUME NEW x \in Servers, Working(x)'
       PROVE  /\ (InHand(conn[table[x]], x) \/ Missed(conn[table[x]]) \/ x \in errors)'
              /\ AnswerOK(conn[table[x]], x)'
  <2>1. conn'[table'[x]] = conn[table[x]] /\ Working(x)
    BY <1>5, <1>13 DEF Working
  <2> QED BY <2>1, <1>2, <1>6 DEF IndInv, NoSilentStaleness, ListInv, InHand, Missed, AnswerOK
<1>14. ListInv'
    BY <1>2, <1>3, <1>4, <1>13 DEF IndInv, ListInv, ListOK
<1>15. NoSilentStaleness'
    BY <1>13 DEF NoSilentStaleness
<1> QED BY <1>7, <1>8, <1>9, <1>10, <1>11, <1>12, <1>14, <1>15 DEF IndInv

-----------------------------------------------------------------------------
(* Requests.                                                               *)

\* The queue of the lock.
LEMMA QueueFacts ==
    ASSUME NEW q \in Seq(Requests), NEW r \in Requests
    PROVE  /\ Append(q, r) \in Seq(Requests) /\ Append(q, r) # <<>>
           /\ q # <<>> => Head(Append(q, r)) = Head(q) /\ Tail(q) \in Seq(Requests)
<1>1. Append(q, r) \in Seq(Requests) /\ Len(Append(q, r)) = Len(q) + 1
    OBVIOUS
<1>2. Append(q, r) # <<>>
    BY AppendProperties
<1>3. ASSUME q # <<>>
      PROVE  Head(Append(q, r)) = Head(q)
  <2>1. Len(q) > 0
    BY <1>3
  <2>2. Append(q, r)[1] = q[1]
    BY <2>1
  <2> QED BY <2>1, <2>2, <1>1
<1>4. q # <<>> => Tail(q) \in Seq(Requests)
    OBVIOUS
<1> QED BY <1>1, <1>2, <1>3, <1>4

\* What depends on the connections, the table and the lists only.
LEMMA ConnectionsKept ==
    ASSUME IndInv, UNCHANGED <<table, conn, offer>>, errors \subseteq errors'
    PROVE  ConnInv' /\ ListInv' /\ NoSilentStaleness'
<1>1. ConnInv'
    BY DEF IndInv, ConnInv, Alive
<1>2. ASSUME NEW x \in Servers, Working(x)'
      PROVE  /\ (InHand(conn[table[x]], x) \/ Missed(conn[table[x]]) \/ x \in errors)'
             /\ AnswerOK(conn[table[x]], x)'
    BY <1>2 DEF IndInv, NoSilentStaleness, ListInv, InHand, Missed, AnswerOK, Working
<1>3. ListInv'
    BY <1>2 DEF IndInv, ListInv, ListOK
<1>4. NoSilentStaleness'
    BY <1>2 DEF NoSilentStaleness
<1> QED BY <1>1, <1>3, <1>4

\* A request that is queued disturbs nothing, unless it connects while all stops.
LEMMA Enqueued ==
    ASSUME IndInv, NEW kind \in {"connect", "disconnect", "delete"}, NEW s \in Servers,
           NEW config \in Configs \cup {None}, kind = "connect" => config \in Configs,
           Enqueue(kind, s, config),
           UNCHANGED <<phase, table, conn, registry, errors, offer, calling, events>>,
           phase \in {"boot", "up", "stopping"}, todo' \subseteq Servers,
           phase = "stopping" => kind = "disconnect" /\ todo' = todo \ {s},
           phase = "boot" => kind = "connect" /\ todo' \subseteq todo /\ saved' = saved,
           saved' \in [Servers -> Configs \cup {NoRow, Deleted}], ops' \in Nat
    PROVE  IndInv'
<1>t. req \in [Requests -> Request] /\ queue \in Seq(Requests)
    BY DEF IndInv, TypeOK
<1> DEFINE new == [pc |-> "queued", kind |-> kind, server |-> s, config |-> config, of |-> None]
<1>1. PICK r \in Requests : /\ req[r].pc = "idle" /\ req' = [req EXCEPT ![r] = new]
                            /\ queue' = Append(queue, r)
    BY DEF Enqueue
<1>2. new \in Request
    BY DEF Request
<1>3. \A q \in Requests : req'[q] = IF q = r THEN new ELSE req[q]
    BY <1>1, <1>t
<1>4. new.pc = "queued" /\ new.server = s /\ new.kind = kind /\ new.config = config
    OBVIOUS
<1> HIDE DEF new
<1>5. queue' \in Seq(Requests) /\ \A q \in Requests : Holder(q) => Holder(q)'
    BY <1>1, <1>t, QueueFacts DEF Holder
<1>6. TypeOK'
  <2>1. req' \in [Requests -> Request]
    BY <1>1, <1>2, <1>t
  <2> QED BY <2>1, <1>5 DEF IndInv, TypeOK
<1>7. NoOrphans'
  <2>1. ASSUME NEW q \in Requests, NEW d \in Connections,
               Holder(q), req[q].pc = "draining", req[q].of = d
        PROVE  Holder(q)' /\ req'[q].pc = "draining" /\ req'[q].of = d
    BY <1>1, <1>3, <1>5, <2>1
  <2>2. ASSUME NEW d \in Connections, Alive(d)'
        PROVE  \/ table[conn[d].server] = d
               \/ conn[d].stop /\ \E q \in Requests :
                    Holder(q)' /\ req'[q].pc = "draining" /\ req'[q].of = d
    BY <2>1, <2>2 DEF IndInv, NoOrphans, Alive
  <2> QED BY <2>2 DEF IndInv, NoOrphans, Registered
<1>8. LockInv'
    BY <1>1, <1>3, <1>4, <1>5 DEF IndInv, LockInv
<1>9. StopInv'
  <2>1. ASSUME phase = "stopping", NEW x \in Servers, table[x] # None
        PROVE  x \in todo' \/ \E q \in Requests : req'[q].pc = "queued" /\ req'[q].server = x
    <3>1. CASE x = s
        BY <1>3, <1>4, <3>1
    <3>2. CASE x # s
        BY <1>1, <1>3, <2>1, <3>2 DEF IndInv, StopInv
    <3> QED BY <3>1, <3>2
  <2>2. phase = "stopping" => \A q \in Requests : req'[q].pc # "idle" => req'[q].kind = "disconnect"
    BY <1>3, <1>4 DEF IndInv, StopInv
  <2>3. phase = "boot" =>
          /\ \A x \in todo' : saved'[x] \in Configs
          /\ \A q \in Requests : req'[q].pc # "idle" => req'[q].kind = "connect"
    BY <1>3, <1>4 DEF IndInv, StopInv
  <2> QED BY <2>1, <2>2, <2>3 DEF StopInv
<1>10. RegistryInv'
  <2>1. ASSUME NEW q \in Requests, req[q].pc = "draining"
        PROVE  req'[q].pc = "draining"
    BY <1>1, <1>3, <2>1
  <2>2. Offered(table', conn') = Offered(table, conn)
    OBVIOUS
  <2> QED BY <2>1, <2>2 DEF IndInv, RegistryInv
<1>11. ConnInv' /\ ListInv' /\ NoSilentStaleness'
    BY ConnectionsKept
<1> QED BY <1>6, <1>7, <1>8, <1>9, <1>10, <1>11 DEF IndInv

LEMMA QueueingInv ==
    ASSUME IndInv, NEW s \in Servers,
           (\E config \in Configs : Apply(s, config)) \/ Delete(s) \/ Boot(s) \/ StopOne(s)
    PROVE  IndInv'
<1>t. /\ saved \in [Servers -> Configs \cup {NoRow, Deleted}] /\ todo \subseteq Servers /\ ops \in Nat
    BY DEF IndInv, TypeOK
<1>1. ASSUME NEW config \in Configs, Apply(s, config)
      PROVE  IndInv'
  <2> DEFINE kind == IF config.enabled THEN "connect" ELSE "disconnect"
  <2>1. saved' \in [Servers -> Configs \cup {NoRow, Deleted}] /\ ops' \in Nat
    BY <1>t, <1>1 DEF Apply
  <2>2. kind \in {"connect", "disconnect", "delete"}
    OBVIOUS
  <2>3. Enqueue(kind, s, config) /\ phase = "up"
    BY <1>1 DEF Apply
  <2>4. UNCHANGED <<phase, todo, table, conn, registry, errors, offer, calling, events>>
    BY <1>1 DEF Apply
  <2> HIDE DEF kind
  <2> QED BY <1>t, <2>1, <2>2, <2>3, <2>4, Enqueued
<1>2. CASE Delete(s)
    BY <1>t, <1>2, Enqueued DEF Delete
<1>3. CASE Boot(s)
  <2>1. saved[s] \in Configs
    BY <1>3 DEF Boot, IndInv, StopInv
  <2> QED BY <1>t, <1>3, <2>1, Enqueued DEF Boot, environment
<1>4. CASE StopOne(s)
    BY <1>t, <1>4, Enqueued DEF StopOne, environment
<1> QED BY <1>1, <1>2, <1>3, <1>4

\* The holder hands the lock on and is idle again; that it was the holder is what the
\* others stand on.
LEMMA Released ==
    ASSUME IndInv, NEW r \in Requests, Holder(r), Release(r)
    PROVE  /\ req' \in [Requests -> Request] /\ queue' \in Seq(Requests)
           /\ req'[r].pc = "idle" /\ \A q \in Requests : q # r => req'[q] = req[q]
           /\ \A q \in Requests : req'[q].pc # "idle" =>
                q # r /\ req[q].pc = "queued" /\ req'[q] = req[q]
<1>t. req \in [Requests -> Request] /\ queue \in Seq(Requests)
    BY DEF IndInv, TypeOK
<1>1. Idle \in Request /\ Idle.pc = "idle"
    BY DEF Idle, Request
<1>2. req' \in [Requests -> Request] /\ \A q \in Requests : req'[q] = IF q = r THEN Idle ELSE req[q]
    BY <1>t, <1>1 DEF Release
<1>3. queue' \in Seq(Requests)
    BY <1>t DEF Release, Holder
<1>4. ASSUME NEW q \in Requests, q # r, req[q].pc # "idle"
      PROVE  req[q].pc = "queued"
  <2>1. ~Holder(q)
    BY <1>4 DEF Holder
  <2>2. req[q].pc \in {"idle", "queued", "draining", "waiting", "abandoning"}
    BY <1>t DEF Request
  <2> QED BY <1>4, <2>1, <2>2 DEF IndInv, LockInv
<1> QED BY <1>1, <1>2, <1>3, <1>4

LEMMA HolderFacts ==
    ASSUME IndInv, NEW r \in Requests, req[r].pc \in {"draining", "waiting", "abandoning"}
    PROVE  /\ Holder(r) /\ req[r].server \in Servers /\ req[r].of \in Connections
           /\ conn[req[r].of].server = req[r].server
BY DEF IndInv, LockInv

\* With the lock handed on, no request is past the wait for it.
LEMMA ReleasedLock ==
    ASSUME IndInv, NEW r \in Requests, Holder(r), Release(r)
    PROVE  LockInv'
BY Released DEF IndInv, LockInv

LEMMA ReturnedInv ==
    ASSUME IndInv, NEW r \in Requests, Returned(r)
    PROVE  IndInv'
<1>1. Holder(r) /\ Release(r) /\ req[r].pc = "waiting"
    BY HolderFacts DEF Returned
<1>2. UNCHANGED <<phase, todo, saved, table, conn, registry, errors, offer, calling, ops, events>>
    BY DEF Returned, environment
<1>3. /\ req' \in [Requests -> Request] /\ queue' \in Seq(Requests)
      /\ \A q \in Requests : q # r => req'[q] = req[q]
      /\ \A q \in Requests : req'[q].pc # "idle" =>
            q # r /\ req[q].pc = "queued" /\ req'[q] = req[q]
    BY <1>1, Released
<1>4. \A q \in Requests : req[q].pc # "draining"
    BY <1>1 DEF IndInv, LockInv, Holder
<1>5. TypeOK'
    BY <1>2, <1>3 DEF IndInv, TypeOK
<1>6. NoOrphans'
    BY <1>2, <1>4 DEF IndInv, NoOrphans, Alive, Registered
<1>7. LockInv'
    BY <1>1, ReleasedLock
<1>8. StopInv'
    BY <1>1, <1>2, <1>3 DEF IndInv, StopInv, NoRequest
<1>9. RegistryInv'
  <2>1. Offered(table', conn') = Offered(table, conn)
    BY <1>2
  <2> QED BY <1>2, <1>4, <2>1 DEF IndInv, RegistryInv
<1>10. ConnInv' /\ ListInv' /\ NoSilentStaleness'
    BY <1>2, ConnectionsKept
<1> QED BY <1>5, <1>6, <1>7, <1>8, <1>9, <1>10 DEF IndInv

\* connect gives up: the connection, which is the server's, is told to stop.
LEMMA RefusedInv ==
    ASSUME IndInv, NEW r \in Requests, Refused(r)
    PROVE  IndInv'
<1> DEFINE c == req[r].of
           k == [conn[c] EXCEPT !.stop = TRUE, !.ready = Cancelled(conn[c].ready)]
<1>t. req \in [Requests -> Request] /\ conn \in [Connections -> Connection]
    BY DEF IndInv, TypeOK
<1>1. /\ req[r].pc = "waiting" /\ Holder(r) /\ req[r].server \in Servers /\ c \in Connections
      /\ conn[c].server = req[r].server /\ conn[c].ready \in {"error", "pending"}
    BY HolderFacts DEF Refused
<1>2. conn' = [conn EXCEPT ![c] = k] /\ req' = [req EXCEPT ![r].pc = "abandoning"]
    BY <1>1, <1>t DEF Refused
<1>3. UNCHANGED <<phase, todo, saved, queue, table, registry, errors, offer, calling, ops, events>>
    BY DEF Refused, environment
<1>4. /\ k.pc = conn[c].pc /\ k.server = conn[c].server /\ k.config = conn[c].config
      /\ k.stop = TRUE /\ k.tools = conn[c].tools /\ k.session = conn[c].session
      /\ k.listed = conn[c].listed /\ k.refresh = conn[c].refresh /\ k.again = conn[c].again
      /\ k.notice = conn[c].notice /\ k.early = conn[c].early
      /\ k.ready = Cancelled(conn[c].ready)
    BY <1>1, <1>t DEF Connection
<1>5. k \in Connection
  <2>1. Cancelled(conn[c].ready) \in {"pending", "ok", "error", "cancelled"}
    BY <1>1 DEF Cancelled
  <2>2. conn[c] \in Connection
    BY <1>1, <1>t
  <2> HIDE DEF c
  <2> QED BY <2>1, <2>2 DEF Connection
<1> HIDE DEF k
<1>6. \A d \in Connections : conn'[d] = IF d = c THEN k ELSE conn[d]
    BY <1>2, <1>t
<1>7. /\ \A q \in Requests : q # r => req'[q] = req[q]
      /\ req'[r].pc = "abandoning" /\ req'[r].server = req[r].server /\ req'[r].of = c
      /\ req'[r].kind = req[r].kind /\ req'[r].config = req[r].config
    BY <1>2, <1>t DEF Request
<1>8. req' \in [Requests -> Request]
    BY <1>2, <1>t DEF Request
<1>9. \A q \in Requests : req[q].pc # "draining"
    BY <1>1 DEF IndInv, LockInv, Holder
<1>10. \A d \in Connections :
        /\ conn'[d].pc = conn[d].pc /\ conn'[d].server = conn[d].server
        /\ conn'[d].config = conn[d].config /\ conn'[d].tools = conn[d].tools
        /\ conn'[d].session = conn[d].session /\ conn'[d].listed = conn[d].listed
        /\ conn'[d].refresh = conn[d].refresh /\ conn'[d].again = conn[d].again
        /\ conn'[d].notice = conn[d].notice /\ conn'[d].early = conn[d].early
        /\ conn[d].ready # "ok" => conn'[d].ready # "ok"
        /\ conn[d].stop => conn'[d].stop
    BY <1>4, <1>6 DEF Cancelled
<1>11. TypeOK'
  <2>1. conn' \in [Connections -> Connection]
    BY <1>2, <1>5, <1>t
  <2> QED BY <1>3, <1>8, <2>1 DEF IndInv, TypeOK
<1>12. table \in [Servers -> Connections \cup {None}]
    BY DEF IndInv, TypeOK
<1>13. NoOrphans'
  <2>1. ASSUME NEW d \in Connections, Alive(d)'
        PROVE  table[conn'[d].server] = d
    BY <1>9, <1>10, <2>1 DEF IndInv, NoOrphans, Alive
  <2>2. \A s \in Servers : table[s] # None => conn'[table[s]].server = s
    BY <1>10, <1>12 DEF IndInv, NoOrphans
  <2> QED BY <1>3, <2>1, <2>2 DEF IndInv, NoOrphans, Registered
<1>14. LockInv'
  <2>1. conn'[c].stop
    BY <1>1, <1>4, <1>6
  <2> HIDE DEF c
  <2>2. ASSUME NEW q \in Requests, q # r
        PROVE  req'[q] = req[q] /\ req[q].pc \in {"idle", "queued"}
    <3>1. req[q].pc \in {"idle", "queued", "draining", "waiting", "abandoning"}
        BY <1>t DEF Request
    <3> QED BY <1>1, <1>7, <2>2, <3>1 DEF IndInv, LockInv, Holder
  <2>3. table[req[r].server] \in {c, None}
    BY <1>1 DEF IndInv, LockInv, c
  <2>4. req[r].kind = "connect" => req[r].config \in Configs
    BY <1>1 DEF IndInv, LockInv
  <2>5. Holder(r)'
    BY <1>1, <1>3 DEF Holder
  <2> QED BY <1>1, <1>3, <1>7, <1>10, <2>1, <2>2, <2>3, <2>4, <2>5 DEF IndInv, LockInv
<1>15. ConnInv'
    BY <1>3, <1>10, <1>12 DEF IndInv, ConnInv, Alive
<1>16. StopInv'
    BY <1>1, <1>3, <1>7 DEF IndInv, StopInv, NoRequest
<1>17. RegistryInv'
  <2>1. Offered(table', conn') = Offered(table, conn)
    BY <1>3, <1>10, <1>12 DEF Offered
  <2>2. ASSUME NEW s \in Servers, table[s] # None, conn[table[s]].ready # "ok"
        PROVE  conn'[table[s]].ready # "ok"
    BY <1>10, <1>12, <2>2
  <2> QED BY <1>3, <1>9, <2>1, <2>2 DEF IndInv, RegistryInv
<1>18. ASSUME NEW s \in Servers, Working(s)'
       PROVE  /\ (InHand(conn[table[s]], s) \/ Missed(conn[table[s]]) \/ s \in errors)'
             /\ AnswerOK(conn[table[s]], s)'
  <2>1. Working(s) /\ table[s] \in Connections
    BY <1>3, <1>10, <1>12, <1>18 DEF Working
  <2> QED BY <2>1, <1>3, <1>10 DEF IndInv, NoSilentStaleness, ListInv, InHand, Missed, AnswerOK
<1>19. ListInv'
    BY <1>3, <1>10, <1>18 DEF IndInv, ListInv, ListOK
<1>20. NoSilentStaleness'
    BY <1>18 DEF NoSilentStaleness
<1> QED BY <1>11, <1>13, <1>14, <1>15, <1>16, <1>17, <1>19, <1>20 DEF IndInv

\* The connection that is in the way is taken out of the table, and waited for.
LEMMA BeginInv ==
    ASSUME IndInv, NEW r \in Requests, Begin(r)
    PROVE  IndInv'
<1> DEFINE s == req[r].server
           c == table[s]
           k == [conn[c] EXCEPT !.stop = TRUE]
<1>t. /\ req \in [Requests -> Request] /\ conn \in [Connections -> Connection]
      /\ table \in [Servers -> Connections \cup {None}]
    BY DEF IndInv, TypeOK
<1>1. /\ req[r].pc = "queued" /\ Holder(r) /\ s \in Servers /\ c \in Connections
      /\ conn[c].server = s /\ conn[c] \in Connection
  <2>1. req[r].pc = "queued" /\ Holder(r) /\ c # None
    BY DEF Begin
  <2>2. s \in Servers
    BY <2>1 DEF IndInv, LockInv
  <2> QED BY <2>1, <2>2, <1>t DEF IndInv, NoOrphans
<1>2. /\ conn' = [conn EXCEPT ![c] = k]
      /\ req' = [req EXCEPT ![r].pc = "draining", ![r].of = c]
      /\ table' = [table EXCEPT ![s] = None]
    BY <1>1, <1>t DEF Begin
<1>3. UNCHANGED <<phase, todo, saved, queue, registry, errors, offer, calling, ops, events>>
    BY DEF Begin, environment
<1>4. /\ k.pc = conn[c].pc /\ k.server = s /\ k.config = conn[c].config
      /\ k.stop = TRUE /\ k.tools = conn[c].tools /\ k.session = conn[c].session
      /\ k.listed = conn[c].listed /\ k.refresh = conn[c].refresh /\ k.again = conn[c].again
      /\ k.notice = conn[c].notice /\ k.early = conn[c].early
    BY <1>1 DEF Connection
<1>5. k \in Connection
    BY <1>1 DEF Connection
<1>6. /\ \A q \in Requests : q # r => req'[q] = req[q]
      /\ req'[r].pc = "draining" /\ req'[r].server = s /\ req'[r].of = c
      /\ req'[r].kind = req[r].kind /\ req'[r].config = req[r].config
    BY <1>2, <1>t DEF Request
<1>7. req' \in [Requests -> Request]
  <2> DEFINE n == [req[r] EXCEPT !.pc = "draining", !.of = c]
  <2>1. req' = [req EXCEPT ![r] = n]
    BY <1>2, <1>t
  <2>2. "draining" \in {"idle", "queued", "draining", "waiting", "abandoning"}
    OBVIOUS
  <2>3. c \in Connections \cup {None} /\ req[r] \in Request
    BY <1>1, <1>t
  <2> HIDE DEF c
  <2>4. n \in Request
    BY <2>2, <2>3 DEF Request
  <2> HIDE DEF n
  <2> QED BY <1>t, <2>1, <2>4
<1> HIDE DEF k
<1>8. /\ \A d \in Connections : conn'[d] = IF d = c THEN k ELSE conn[d]
      /\ \A x \in Servers : table'[x] = IF x = s THEN None ELSE table[x]
    BY <1>1, <1>2, <1>t
<1>9. \A q \in Requests : q # r => req[q].pc \in {"idle", "queued"}
  <2>1. \A q \in Requests : req[q].pc \in {"idle", "queued", "draining", "waiting", "abandoning"}
    BY <1>t DEF Request
  <2> QED BY <1>1, <2>1 DEF IndInv, LockInv, Holder
<1>10. \A x \in Servers : table'[x] # None =>
        table'[x] = table[x] /\ table[x] # c /\ conn'[table[x]] = conn[table[x]]
    BY <1>1, <1>8, <1>t DEF IndInv, NoOrphans
<1> HIDE DEF c, s
<1>11. TypeOK'
  <2>1. conn' \in [Connections -> Connection] /\ table' \in [Servers -> Connections \cup {None}]
    BY <1>1, <1>2, <1>5, <1>t
  <2> QED BY <1>3, <1>7, <2>1 DEF IndInv, TypeOK
<1>12. NoOrphans'
  <2>1. ASSUME NEW d \in Connections, Alive(d)'
        PROVE  \/ table'[conn'[d].server] = d
               \/ conn'[d].stop /\ \E q \in Requests :
                    Holder(q)' /\ req'[q].pc = "draining" /\ req'[q].of = d
    <3>1. CASE d = c
        BY <1>1, <1>3, <1>4, <1>6, <1>8, <3>1 DEF Holder
    <3>2. CASE d # c
        <4>1. conn'[d] = conn[d] /\ Alive(d)
            BY <1>8, <2>1, <3>2 DEF Alive
        <4>2. table[conn[d].server] = d
            BY <1>1, <1>9, <4>1 DEF IndInv, NoOrphans
        <4>3. conn[d].server \in Servers /\ conn[d].server # s
            BY <3>2, <4>1, <4>2 DEF IndInv, ConnInv, c
        <4> QED BY <1>8, <4>1, <4>2, <4>3
    <3> QED BY <3>1, <3>2
  <2>2. \A x \in Servers : table'[x] # None => conn'[table'[x]].server = x
    BY <1>10 DEF IndInv, NoOrphans
  <2>3. phase = "down" => Registered' = {}
    BY <1>10 DEF IndInv, NoOrphans, Registered
  <2> QED BY <1>3, <2>1, <2>2, <2>3 DEF NoOrphans
<1>13. LockInv'
  <2>1. Holder(r)' /\ conn'[c].server = s /\ table'[s] = None
    BY <1>1, <1>3, <1>4, <1>8 DEF Holder
  <2>2. req[r].kind = "connect" => req[r].config \in Configs
    BY <1>1 DEF IndInv, LockInv
  <2> QED BY <1>1, <1>6, <1>9, <2>1, <2>2 DEF IndInv, LockInv
<1>14. ConnInv'
  <2>1. \A d \in Connections :
          conn'[d].pc = conn[d].pc /\ conn'[d].server = conn[d].server
          /\ conn'[d].config = conn[d].config /\ conn'[d].refresh = conn[d].refresh
          /\ conn'[d].notice = conn[d].notice
    BY <1>1, <1>4, <1>8
  <2>2. \A x \in Servers : table'[x] # None => conn'[table'[x]].config \in Configs
    BY <1>10 DEF IndInv, ConnInv
  <2> QED BY <2>1, <2>2 DEF IndInv, ConnInv, Alive
<1>15. StopInv'
  <2>1. ASSUME phase = "stopping", NEW x \in Servers, table'[x] # None
        PROVE  x \in todo \/ \E q \in Requests : req'[q].pc = "queued" /\ req'[q].server = x
    <3>1. x # s /\ table[x] # None
        BY <1>8, <2>1
    <3>2. CASE x \in todo
        BY <3>2
    <3>3. CASE \E q \in Requests : req[q].pc = "queued" /\ req[q].server = x
        <4>1. PICK q \in Requests : req[q].pc = "queued" /\ req[q].server = x
            BY <3>3
        <4>2. q # r
            BY <3>1, <4>1 DEF s
        <4> QED BY <1>6, <4>1, <4>2
    <3> QED BY <2>1, <3>1, <3>2, <3>3 DEF IndInv, StopInv
  <2>2. phase = "stopping" => \A q \in Requests : req'[q].pc # "idle" => req'[q].kind = "disconnect"
    BY <1>1, <1>6 DEF IndInv, StopInv
  <2>3. phase # "down"
    BY <1>1 DEF IndInv, StopInv, NoRequest
  <2>4. phase = "boot" => \A q \in Requests : req'[q].pc # "idle" => req'[q].kind = "connect"
    BY <1>1, <1>6 DEF IndInv, StopInv
  <2> QED BY <1>3, <2>1, <2>2, <2>3, <2>4 DEF IndInv, StopInv
<1>16. RegistryInv'
    BY <1>6 DEF RegistryInv
<1>17. ASSUME NEW x \in Servers, Working(x)'
       PROVE  /\ (InHand(conn[table[x]], x) \/ Missed(conn[table[x]]) \/ x \in errors)'
              /\ AnswerOK(conn[table[x]], x)'
  <2>1. conn'[table'[x]] = conn[table[x]] /\ Working(x)
    BY <1>10, <1>17 DEF Working
  <2> QED BY <2>1, <1>3 DEF IndInv, NoSilentStaleness, ListInv, InHand, Missed, AnswerOK
<1>18. ListInv'
    BY <1>3, <1>4, <1>1, <1>8, <1>17 DEF IndInv, ListInv, ListOK
<1>19. NoSilentStaleness'
    BY <1>17 DEF NoSilentStaleness
<1> QED BY <1>11, <1>12, <1>13, <1>14, <1>15, <1>16, <1>18, <1>19 DEF IndInv

\* A request that proceeds has no connection in its way, alive or in the table.
LEMMA ProceedFacts ==
    ASSUME IndInv, NEW r \in Requests,
           \/ Holder(r) /\ req[r].pc = "queued" /\ table[req[r].server] = None
           \/ req[r].pc = "draining" /\ ~Alive(req[r].of)
    PROVE  /\ Holder(r) /\ req[r].pc \in {"queued", "draining"} /\ req[r].server \in Servers
           /\ table[req[r].server] = None
           /\ req[r].kind = "connect" => req[r].config \in Configs
           /\ \A d \in Connections : Alive(d) => table[conn[d].server] = d
           /\ \A q \in Requests : q # r => req[q].pc \in {"idle", "queued"}
<1>1. /\ Holder(r) /\ req[r].pc \in {"queued", "draining"} /\ req[r].server \in Servers
      /\ table[req[r].server] = None
      /\ req[r].kind = "connect" => req[r].config \in Configs
    BY DEF IndInv, LockInv
<1>2. \A q \in Requests : q # r => req[q].pc \in {"idle", "queued"}
  <2>1. \A q \in Requests : req[q].pc \in {"idle", "queued", "draining", "waiting", "abandoning"}
    BY DEF IndInv, TypeOK, Request
  <2> QED BY <1>1, <2>1 DEF IndInv, LockInv, Holder
<1>3. \A d \in Connections : Alive(d) => table[conn[d].server] = d
    BY <1>1, <1>2 DEF IndInv, NoOrphans, Alive
<1> QED BY <1>1, <1>2, <1>3

LEMMA SpawnInv ==
    ASSUME IndInv, NEW r \in Requests, req[r].kind = "connect",
           \/ Holder(r) /\ req[r].pc = "queued" /\ table[req[r].server] = None
           \/ req[r].pc = "draining" /\ ~Alive(req[r].of),
           Spawn(r, table), UNCHANGED <<todo, environment>>
    PROVE  IndInv'
<1> DEFINE s == req[r].server
           new == Fresh(s, req[r].config, "connect")
<1>t. /\ req \in [Requests -> Request] /\ conn \in [Connections -> Connection]
      /\ table \in [Servers -> Connections \cup {None}]
    BY DEF IndInv, TypeOK
<1>1. /\ Holder(r) /\ req[r].pc \in {"queued", "draining"} /\ s \in Servers
      /\ table[s] = None /\ req[r].config \in Configs
      /\ \A d \in Connections : Alive(d) => table[conn[d].server] = d
      /\ \A q \in Requests : q # r => req[q].pc \in {"idle", "queued"}
    BY ProceedFacts
<1>2. PICK c \in Connections :
        /\ Free(c)
        /\ conn' = [conn EXCEPT ![c] = new]
        /\ table' = [table EXCEPT ![s] = c]
        /\ req' = [req EXCEPT ![r].pc = "waiting", ![r].of = c]
    BY DEF Spawn
<1>3. /\ UNCHANGED <<phase, todo, saved, queue, registry, offer, calling, ops, events>>
      /\ errors' = errors \ {s}
    BY DEF Spawn, environment
<1>4. /\ new.pc = "connect" /\ new.server = s /\ new.config = req[r].config /\ new.tools = {}
      /\ new.session = FALSE /\ new.listed = None /\ new.refresh = "idle" /\ new.notice = FALSE
      /\ new.ready = "pending" /\ new.stop = FALSE
    BY DEF Fresh
<1>5. new \in Connection
    BY <1>1, BoundsAssumption DEF Fresh, Connection, Supervisors, Refreshes
<1> HIDE DEF new
<1>6. /\ \A d \in Connections : conn'[d] = IF d = c THEN new ELSE conn[d]
      /\ \A x \in Servers : table'[x] = IF x = s THEN c ELSE table[x]
    BY <1>1, <1>2, <1>t
<1>7. /\ \A q \in Requests : q # r => req'[q] = req[q]
      /\ req'[r].pc = "waiting" /\ req'[r].server = s /\ req'[r].of = c
      /\ req'[r].kind = "connect" /\ req'[r].config = req[r].config
    BY <1>2, <1>t DEF Request
<1>8. req' \in [Requests -> Request]
  <2> DEFINE n == [req[r] EXCEPT !.pc = "waiting", !.of = c]
  <2>1. req' = [req EXCEPT ![r] = n]
    BY <1>2, <1>t
  <2>2. "waiting" \in {"idle", "queued", "draining", "waiting", "abandoning"}
    OBVIOUS
  <2>3. n \in Request
    BY <1>t, <2>2 DEF Request
  <2> HIDE DEF n
  <2> QED BY <1>t, <2>1, <2>3
<1>9. \A x \in Servers : x # s /\ table[x] # None =>
        table'[x] = table[x] /\ table[x] # c /\ conn'[table[x]] = conn[table[x]]
    BY <1>2, <1>6, <1>t DEF Free, Registered
<1>10. ~Alive(c)
    BY <1>2 DEF Free
<1>11. phase \notin {"stopping", "down"}
    BY <1>1 DEF IndInv, StopInv, NoRequest
<1> HIDE DEF s
<1>12. TypeOK'
  <2>1. conn' \in [Connections -> Connection] /\ table' \in [Servers -> Connections \cup {None}]
    BY <1>1, <1>2, <1>5, <1>t
  <2>2. errors' \subseteq Servers
    BY <1>3 DEF IndInv, TypeOK
  <2> QED BY <1>3, <1>8, <2>1, <2>2 DEF IndInv, TypeOK
<1>13. NoOrphans'
  <2>1. ASSUME NEW d \in Connections, Alive(d)'
        PROVE  table'[conn'[d].server] = d
    <3>1. CASE d = c
        BY <1>1, <1>4, <1>6, <3>1
    <3>2. CASE d # c
        <4>1. conn'[d] = conn[d] /\ Alive(d) /\ table[conn[d].server] = d /\ conn[d].server \in Servers
            BY <1>1, <1>6, <2>1, <3>2 DEF Alive, IndInv, ConnInv
        <4> QED BY <1>1, <1>6, <4>1, AtomsAssumption
    <3> QED BY <3>1, <3>2
  <2>2. \A x \in Servers : table'[x] # None => conn'[table'[x]].server = x
    BY <1>4, <1>6, <1>9 DEF IndInv, NoOrphans
  <2> QED BY <1>3, <1>11, <2>1, <2>2 DEF NoOrphans
<1>14. LockInv'
  <2>1. Holder(r)' /\ conn'[c].server = s /\ table'[s] = c
    BY <1>1, <1>3, <1>4, <1>6 DEF Holder
  <2>2. \A q \in Requests : q # r => req'[q].pc \in {"idle", "queued"}
    BY <1>1, <1>7
  <2>3. \A q \in Requests : req'[q].pc # "idle" => req'[q].server \in Servers
    BY <1>1, <1>7 DEF IndInv, LockInv
  <2>4. \A q \in Requests :
          req'[q].pc # "idle" /\ req'[q].kind = "connect" => req'[q].config \in Configs
    BY <1>1, <1>7 DEF IndInv, LockInv
  <2> QED BY <1>7, <2>1, <2>2, <2>3, <2>4 DEF LockInv
<1>15. ConnInv'
  <2>1. \A d \in Connections : Alive(d)' => conn'[d].server \in Servers /\ conn'[d].config \in Configs
    BY <1>1, <1>4, <1>6 DEF IndInv, ConnInv, Alive
  <2>2. \A d \in Connections :
            ~Alive(d)' => conn'[d].refresh \in {"idle", "orphan"} /\ ~conn'[d].notice
    BY <1>4, <1>6 DEF IndInv, ConnInv, Alive
  <2>4. \A d \in Connections : conn'[d].refresh # "idle" => conn'[d].server \in Servers
    BY <1>1, <1>4, <1>6 DEF IndInv, ConnInv
  <2>3. \A x \in Servers : table'[x] # None => conn'[table'[x]].config \in Configs
    BY <1>1, <1>4, <1>6, <1>9 DEF IndInv, ConnInv
  <2> QED BY <2>1, <2>2, <2>3, <2>4 DEF ConnInv
<1>16. StopInv'
    BY <1>3, <1>7, <1>11 DEF IndInv, StopInv
<1>17. RegistryInv'
  <2>1. table'[s] # None /\ conn'[table'[s]].ready # "ok"
    BY <1>1, <1>2, <1>4, <1>6, AtomsAssumption
  <2> QED BY <1>1, <2>1 DEF RegistryInv
<1>18. ASSUME NEW x \in Servers, Working(x)'
       PROVE  /\ (InHand(conn[table[x]], x) \/ Missed(conn[table[x]]) \/ x \in errors)'
              /\ AnswerOK(conn[table[x]], x)'
  <2>1. x # s
    BY <1>4, <1>6, <1>18 DEF Working
  <2>2. conn'[table'[x]] = conn[table[x]] /\ Working(x)
    BY <1>6, <1>9, <1>18, <2>1 DEF Working
  <2> QED BY <2>1, <2>2, <1>3 DEF IndInv, NoSilentStaleness, ListInv, InHand, Missed, AnswerOK
<1>19. ListInv'
  <2>2. ASSUME NEW d \in Connections PROVE ListOK(conn[d])'
    BY <1>3, <1>4, <1>6 DEF IndInv, ListInv, ListOK
  <2> QED BY <1>18, <2>2 DEF ListInv
<1>20. NoSilentStaleness'
    BY <1>18 DEF NoSilentStaleness
<1> QED BY <1>12, <1>13, <1>14, <1>15, <1>16, <1>17, <1>19, <1>20 DEF IndInv

\* disconnect comes to its end: the namespace is that of the connections that are left.
LEMMA DisconnectedInv ==
    ASSUME IndInv, NEW r \in Requests, req[r].kind # "connect",
           \/ Holder(r) /\ req[r].pc = "queued" /\ table[req[r].server] = None
           \/ req[r].pc = "draining" /\ ~Alive(req[r].of),
           Disconnected(r), UNCHANGED <<todo, environment>>
    PROVE  IndInv'
<1> DEFINE s == req[r].server
<1>t. /\ saved \in [Servers -> Configs \cup {NoRow, Deleted}]
      /\ registry \subseteq Servers \X Tools /\ errors \subseteq Servers
      /\ phase \in {"boot", "up", "stopping", "down", "aborted"}
    BY DEF IndInv, TypeOK
<1>1. /\ Holder(r) /\ req[r].pc \in {"queued", "draining"} /\ s \in Servers /\ table[s] = None
      /\ \A d \in Connections : Alive(d) => table[conn[d].server] = d
    BY ProceedFacts
<1>2. Release(r) /\ Reregister(table, conn, errors)
    BY DEF Disconnected
<1>3. UNCHANGED <<table, conn, todo, offer, calling, ops, events>>
    BY DEF Disconnected, environment
<1>4. /\ phase' = phase \/ (phase = "stopping" /\ phase' = "aborted")
      /\ saved' = saved \/ (req[r].kind = "delete" /\ saved' = [saved EXCEPT ![s] = Deleted])
  <2> DEFINE raised == Clash(Offered(table, conn))
  <2>1. /\ phase' = IF phase = "stopping" /\ raised THEN "aborted" ELSE phase
        /\ saved' = IF req[r].kind = "delete" /\ ~raised
                    THEN [saved EXCEPT ![s] = Deleted] ELSE saved
    BY DEF Disconnected
  <2>2. raised \in BOOLEAN
    BY DEF Clash
  <2> HIDE DEF raised
  <2>3. phase' = phase \/ (phase = "stopping" /\ phase' = "aborted")
    BY <2>1, <2>2
  <2>4. saved' = saved \/ (req[r].kind = "delete" /\ saved' = [saved EXCEPT ![s] = Deleted])
    BY <2>1, <2>2
  <2> QED BY <2>3, <2>4
<1>5. /\ req' \in [Requests -> Request] /\ queue' \in Seq(Requests)
      /\ \A q \in Requests : req'[q].pc # "idle" =>
            q # r /\ req[q].pc = "queued" /\ req'[q] = req[q]
      /\ \A q \in Requests : q # r => req'[q] = req[q]
    BY <1>1, <1>2, Released
<1>6. /\ registry' \subseteq Servers \X Tools /\ errors' \subseteq Servers /\ errors \subseteq errors'
      /\ registry' = Offered(table, conn) \/ Clash(Offered(table, conn))
    BY <1>2, <1>t, ReregisterTyped
<1>7. phase # "down"
    BY <1>1 DEF IndInv, StopInv, NoRequest
<1> HIDE DEF s
<1>8. TypeOK'
  <2>1. saved' \in [Servers -> Configs \cup {NoRow, Deleted}]
    BY <1>t, <1>4
  <2> QED BY <2>1, <1>t, <1>3, <1>4, <1>5, <1>6 DEF IndInv, TypeOK
<1>9. NoOrphans'
    BY <1>1, <1>3, <1>4, <1>7 DEF IndInv, NoOrphans, Alive
<1>10. LockInv'
    BY <1>1, <1>2, ReleasedLock
<1>11. StopInv'
  <2>1. CASE phase' = "boot"
    <3>1. phase = "boot" /\ req[r].kind # "delete"
        BY <2>1, <1>1, <1>4 DEF IndInv, StopInv
    <3> QED BY <3>1, <2>1, <1>3, <1>4, <1>5 DEF IndInv, StopInv
  <2>2. CASE phase' = "stopping"
    <3>1. phase = "stopping"
        BY <2>2, <1>4
    <3>2. ASSUME NEW x \in Servers, table[x] # None, x \notin todo
          PROVE  \E q \in Requests : req'[q].pc = "queued" /\ req'[q].server = x
      <4>1. PICK q \in Requests : req[q].pc = "queued" /\ req[q].server = x
        BY <3>1, <3>2 DEF IndInv, StopInv
      <4>2. q # r
        BY <1>1, <3>2, <4>1 DEF s
      <4> QED BY <1>5, <4>1, <4>2
    <3> QED BY <3>1, <3>2, <2>2, <1>3, <1>5 DEF IndInv, StopInv
  <2>3. phase' # "down"
    BY <1>4, <1>7
  <2> QED BY <2>1, <2>2, <2>3 DEF StopInv
<1>12. RegistryInv'
  <2>1. Offered(table', conn') = Offered(table, conn)
    BY <1>3
  <2> QED BY <2>1, <1>6 DEF RegistryInv
<1>13. ConnInv' /\ ListInv' /\ NoSilentStaleness'
    BY <1>3, <1>6, ConnectionsKept
<1> QED BY <1>8, <1>9, <1>10, <1>11, <1>12, <1>13 DEF IndInv

LEMMA ProceedInv ==
    ASSUME IndInv, NEW r \in Requests, BeginAlone(r) \/ Drained(r)
    PROVE  IndInv'
<1>1. /\ \/ Holder(r) /\ req[r].pc = "queued" /\ table[req[r].server] = None
         \/ req[r].pc = "draining" /\ ~Alive(req[r].of)
      /\ Proceed(r) /\ UNCHANGED <<todo, environment>>
    BY DEF BeginAlone, Drained
<1>2. CASE req[r].kind = "connect"
    BY <1>1, <1>2, SpawnInv DEF Proceed
<1>3. CASE req[r].kind # "connect"
    BY <1>1, <1>3, DisconnectedInv DEF Proceed
<1> QED BY <1>2, <1>3

\* A connect that has given up takes its connection out, with its tools.
LEMMA AbandonedInv ==
    ASSUME IndInv, NEW r \in Requests, Abandoned(r)
    PROVE  IndInv'
<1> DEFINE s == req[r].server
           c == req[r].of
           gone == [table EXCEPT ![s] = None]
<1>t. /\ table \in [Servers -> Connections \cup {None}]
      /\ registry \subseteq Servers \X Tools /\ errors \subseteq Servers
    BY DEF IndInv, TypeOK
<1>1. /\ req[r].pc = "abandoning" /\ ~Alive(c) /\ Holder(r) /\ s \in Servers /\ c \in Connections
      /\ table[s] \in {c, None}
    BY HolderFacts DEF Abandoned, IndInv, LockInv
<1>2. Release(r) /\ table' = gone /\ Reregister(gone, conn, errors)
    BY DEF Abandoned
<1>3. UNCHANGED <<phase, todo, saved, conn, offer, calling, ops, events>>
    BY DEF Abandoned, environment
<1>4. /\ req' \in [Requests -> Request] /\ queue' \in Seq(Requests)
      /\ \A q \in Requests : req'[q].pc # "idle" =>
            q # r /\ req[q].pc = "queued" /\ req'[q] = req[q]
      /\ \A q \in Requests : q # r => req'[q] = req[q]
    BY <1>1, <1>2, Released
<1>5. \A x \in Servers : table'[x] = IF x = s THEN None ELSE table[x]
    BY <1>2, <1>t
<1>6. /\ registry' \subseteq Servers \X Tools /\ errors' \subseteq Servers /\ errors \subseteq errors'
      /\ registry' = Offered(gone, conn) \/ Clash(Offered(gone, conn))
    BY <1>2, <1>t, ReregisterTyped
<1>7. phase # "down" /\ \A q \in Requests : req[q].pc # "draining"
    BY <1>1 DEF IndInv, StopInv, NoRequest, LockInv, Holder
<1>8. table' \in [Servers -> Connections \cup {None}]
    BY <1>2, <1>t
<1> HIDE DEF s, c, gone
<1>9. TypeOK'
    BY <1>3, <1>4, <1>6, <1>8 DEF IndInv, TypeOK
<1>10. NoOrphans'
  <2>1. ASSUME NEW d \in Connections, Alive(d)
        PROVE  table'[conn[d].server] = d
    <3>1. table[conn[d].server] = d /\ conn[d].server \in Servers /\ d # c /\ d # None
        BY <1>1, <1>7, <2>1, AtomsAssumption DEF IndInv, NoOrphans, ConnInv
    <3> QED BY <1>1, <1>5, <3>1
  <2>2. \A x \in Servers : table'[x] # None => conn[table'[x]].server = x
    BY <1>5 DEF IndInv, NoOrphans
  <2> QED BY <1>3, <1>7, <2>1, <2>2 DEF NoOrphans, Alive
<1>11. LockInv'
    BY <1>1, <1>2, ReleasedLock
<1>12. ConnInv'
    BY <1>3, <1>5 DEF IndInv, ConnInv, Alive
<1>13. StopInv'
  <2>1. ASSUME phase = "stopping", NEW x \in Servers, table'[x] # None, x \notin todo
        PROVE  \E q \in Requests : req'[q].pc = "queued" /\ req'[q].server = x
    <3>1. PICK q \in Requests : req[q].pc = "queued" /\ req[q].server = x
        BY <1>5, <2>1 DEF IndInv, StopInv
    <3> QED BY <1>1, <1>4, <3>1
  <2> QED BY <2>1, <1>3, <1>4, <1>7 DEF IndInv, StopInv
<1>14. RegistryInv'
  <2>1. Offered(table', conn') = Offered(gone, conn)
    BY <1>2, <1>3
  <2> QED BY <2>1, <1>6 DEF RegistryInv
<1>15. ASSUME NEW x \in Servers, Working(x)'
       PROVE  /\ (InHand(conn[table[x]], x) \/ Missed(conn[table[x]]) \/ x \in errors)'
              /\ AnswerOK(conn[table[x]], x)'
  <2>1. conn'[table'[x]] = conn[table[x]] /\ Working(x)
    BY <1>3, <1>5, <1>15 DEF Working
  <2> QED BY <2>1, <1>3, <1>6 DEF IndInv, NoSilentStaleness, ListInv, InHand, Missed, AnswerOK
<1>16. ListInv'
    BY <1>3, <1>15 DEF IndInv, ListInv, ListOK
<1>17. NoSilentStaleness'
    BY <1>15 DEF NoSilentStaleness
<1> QED BY <1>9, <1>10, <1>11, <1>12, <1>13, <1>14, <1>16, <1>17 DEF IndInv

LEMMA PhaseInv ==
    ASSUME IndInv, Booted \/ StopAll \/ Stopped
    PROVE  IndInv'
<1>1. NoRequest /\ UNCHANGED <<saved, queue, req, table, conn, errors, offer, calling, ops, events>>
    BY DEF Booted, StopAll, Stopped, environment
<1>2. LockInv'
    BY <1>1 DEF IndInv, LockInv, Holder
<1>3. ConnInv' /\ ListInv' /\ NoSilentStaleness'
    BY <1>1, ConnectionsKept
<1>4. Offered(table', conn') = Offered(table, conn)
    BY <1>1
<1>5. CASE Booted
  <2>1. TypeOK' /\ NoOrphans' /\ StopInv'
    BY <1>1, <1>5 DEF IndInv, TypeOK, NoOrphans, StopInv, Holder, Alive, Booted
  <2>2. RegistryInv'
    BY <1>1, <1>4, <1>5 DEF IndInv, RegistryInv, Booted
  <2> QED BY <1>2, <1>3, <2>1, <2>2 DEF IndInv
<1>6. CASE StopAll
  <2>1. TypeOK' /\ NoOrphans' /\ StopInv'
    BY <1>1, <1>6 DEF IndInv, TypeOK, NoOrphans, StopInv, Holder, Alive, StopAll, NoRequest
  <2>2. RegistryInv'
    BY <1>1, <1>4, <1>6 DEF IndInv, RegistryInv, StopAll
  <2> QED BY <1>2, <1>3, <2>1, <2>2 DEF IndInv
<1>7. CASE Stopped
  <2>1. \A s \in Servers : table[s] = None
    BY <1>7 DEF IndInv, StopInv, NoRequest, Stopped
  <2>2. Registered' = {} /\ Offered(table, conn) = {}
    BY <1>1, <2>1 DEF Registered, Offered
  <2>3. phase' = "down" /\ registry' = {} /\ todo' = todo
    BY <1>7 DEF Stopped
  <2>4. TypeOK' /\ NoOrphans' /\ StopInv'
    BY <1>1, <2>2, <2>3 DEF IndInv, TypeOK, NoOrphans, StopInv, Holder, Alive, NoRequest
  <2>5. RegistryInv'
    BY <1>4, <2>2, <2>3 DEF RegistryInv
  <2> QED BY <1>2, <1>3, <2>4, <2>5 DEF IndInv
<1> QED BY <1>5, <1>6, <1>7

-----------------------------------------------------------------------------
(* Servers.                                                                *)

\* What leaves the connections' places, tools, configurations and starts alone.
LEMMA ServerFrame ==
    ASSUME IndInv, UNCHANGED <<phase, todo, saved, queue, req, table, registry, errors, ops>>,
           conn' \in [Connections -> Connection], offer' \in [Servers -> Lists],
           calling' \subseteq Servers, events' \in Nat,
           \A d \in Connections :
                /\ conn'[d].pc = conn[d].pc /\ conn'[d].server = conn[d].server
                /\ conn'[d].config = conn[d].config /\ conn'[d].tools = conn[d].tools
                /\ conn'[d].stop = conn[d].stop /\ conn'[d].ready = conn[d].ready
                /\ conn'[d].refresh = conn[d].refresh
                /\ conn'[d].notice => conn[d].notice \/ Alive(d)
    PROVE  TypeOK' /\ NoOrphans' /\ LockInv' /\ ConnInv' /\ StopInv' /\ RegistryInv'
<1>t. table \in [Servers -> Connections \cup {None}]
    BY DEF IndInv, TypeOK
<1>1. TypeOK'
    BY DEF IndInv, TypeOK
<1>2. NoOrphans'
  <2>1. ASSUME NEW d \in Connections, Alive(d)'
        PROVE  \/ table[conn'[d].server] = d
               \/ conn'[d].stop /\ \E r \in Requests :
                    Holder(r) /\ req[r].pc = "draining" /\ req[r].of = d
    BY <2>1 DEF IndInv, NoOrphans, Alive
  <2>2. \A x \in Servers : table[x] # None => conn'[table[x]].server = x
    BY <1>t DEF IndInv, NoOrphans
  <2> QED BY <2>1, <2>2 DEF IndInv, NoOrphans, Registered, Holder
<1>3. LockInv'
    BY DEF IndInv, LockInv, Holder
<1>4. ConnInv'
    BY <1>t DEF IndInv, ConnInv, Alive
<1>5. StopInv'
    BY DEF IndInv, StopInv, NoRequest
<1>6. RegistryInv'
  <2>1. Offered(table', conn') = Offered(table, conn)
    BY <1>t DEF Offered
  <2> QED BY <1>t, <2>1 DEF IndInv, RegistryInv
<1> QED BY <1>1, <1>2, <1>3, <1>4, <1>5, <1>6

LEMMA OfferChangesInv ==
    ASSUME IndInv, NEW s \in Servers, NEW tools \in Lists, OfferChanges(s, tools)
    PROVE  IndInv'
<1> DEFINE Told(d) == [conn[d] EXCEPT !.notice = TRUE]
<1>t. /\ conn \in [Connections -> Connection] /\ table \in [Servers -> Connections \cup {None}]
      /\ offer \in [Servers -> Lists] /\ events \in Nat
    BY DEF IndInv, TypeOK
<1>1. /\ offer' = [offer EXCEPT ![s] = tools] /\ events' \in Nat
      /\ UNCHANGED <<phase, todo, saved, queue, req, table, registry, errors, calling, ops>>
    BY <1>t DEF OfferChanges, HappensTo
<1>2. ASSUME NEW d \in Connections
      PROVE  /\ conn'[d] \in Connection
             /\ conn'[d] = conn[d] \/ (conn'[d] = Told(d) /\ Alive(d))
             /\ conn[d].server = s /\ conn[d].pc \in {"connect", "hold"} => conn'[d].notice
  <2> DEFINE k == Told(d)
  <2>1. conn[d] \in Connection
    BY <1>t
  <2>2. k \in Connection /\ k.notice
    BY <2>1 DEF Connection
  <2>3. CASE conn[d].server = s /\ conn[d].pc \in {"connect", "hold"}
    <3>1. conn'[d] = k /\ Alive(d)
        BY <2>3 DEF OfferChanges, Alive
    <3> QED BY <2>2, <3>1
  <2>4. CASE ~(conn[d].server = s /\ conn[d].pc \in {"connect", "hold"})
    <3>1. conn'[d] = conn[d]
        BY <2>4 DEF OfferChanges
    <3> HIDE DEF k
    <3> QED BY <2>1, <2>4, <3>1
  <2> QED BY <2>3, <2>4
<1>3. ASSUME NEW d \in Connections
      PROVE  /\ conn'[d].pc = conn[d].pc /\ conn'[d].server = conn[d].server
             /\ conn'[d].config = conn[d].config /\ conn'[d].tools = conn[d].tools
             /\ conn'[d].stop = conn[d].stop /\ conn'[d].ready = conn[d].ready
             /\ conn'[d].refresh = conn[d].refresh /\ conn'[d].session = conn[d].session
             /\ conn'[d].listed = conn[d].listed /\ conn'[d].again = conn[d].again
             /\ conn'[d].early = conn[d].early
             /\ conn[d].notice => conn'[d].notice
             /\ conn'[d].notice => conn[d].notice \/ Alive(d)
  <2>1. CASE conn'[d] = conn[d]
    BY <2>1
  <2>2. CASE conn'[d] = Told(d) /\ Alive(d)
    <3>1. conn[d] \in Connection
        BY <1>t
    <3> QED BY <2>2, <3>1 DEF Connection
  <2> QED BY <1>2, <2>1, <2>2
<1>4. conn' \in [Connections -> Connection]
    BY <1>2 DEF OfferChanges
<1>5. TypeOK' /\ NoOrphans' /\ LockInv' /\ ConnInv' /\ StopInv' /\ RegistryInv'
  <2>1. offer' \in [Servers -> Lists] /\ calling' \subseteq Servers
    BY <1>1, <1>t DEF IndInv, TypeOK
  <2> QED BY <2>1, <1>1, <1>3, <1>4, ServerFrame
<1>6. ASSUME NEW x \in Servers, Working(x)'
      PROVE  /\ (InHand(conn[table[x]], x) \/ Missed(conn[table[x]]) \/ x \in errors)'
             /\ AnswerOK(conn[table[x]], x)'
  <2>1. /\ table[x] \in Connections /\ Working(x) /\ conn[table[x]].server = x
        /\ conn[table[x]].pc = "hold"
    BY <1>1, <1>3, <1>6, <1>t DEF Working, IndInv, NoOrphans
  <2>2. CASE x = s
    BY <1>1, <1>2, <2>1, <2>2 DEF InHand, Missed, AnswerOK
  <2>3. CASE x # s
    <3>1. offer'[x] = offer[x]
        BY <1>1, <1>t, <2>3
    <3> QED BY <3>1, <2>1, <1>1, <1>3 DEF IndInv, NoSilentStaleness, ListInv, InHand, Missed, AnswerOK
  <2> QED BY <2>2, <2>3
<1>7. ListInv'
  <2>1. ASSUME NEW d \in Connections
        PROVE  ListOK(conn[d])'
    <3>1. conn'[d].pc = "connect" /\ conn'[d].listed # None =>
            conn'[d].listed = offer'[conn'[d].server] \/ conn'[d].notice \/ conn'[d].early
      <4>1. CASE conn[d].server = s
        BY <1>2, <1>3, <4>1
      <4>2. CASE conn[d].server # s
        <5>1. conn[d].pc # "dead" => offer'[conn[d].server] = offer[conn[d].server]
            BY <1>1, <1>t, <4>2 DEF IndInv, ConnInv, Alive
        <5> QED BY <5>1, <1>3 DEF IndInv, ListInv, ListOK
      <4> QED BY <4>1, <4>2
    <3> QED BY <3>1, <1>3 DEF IndInv, ListInv, ListOK
  <2> QED BY <2>1, <1>6 DEF ListInv
<1>8. NoSilentStaleness'
    BY <1>6 DEF NoSilentStaleness
<1> QED BY <1>5, <1>7, <1>8 DEF IndInv

LEMMA CallFailsInv ==
    ASSUME IndInv, NEW s \in Servers, CallFails(s)
    PROVE  IndInv'
<1> DEFINE c == table[s]
           k == [conn[c] EXCEPT !.session = FALSE, !.failed = TRUE]
<1>t. /\ conn \in [Connections -> Connection] /\ table \in [Servers -> Connections \cup {None}]
      /\ calling \subseteq Servers /\ offer \in [Servers -> Lists] /\ events \in Nat
    BY DEF IndInv, TypeOK
<1>1. /\ calling' \subseteq Servers
      /\ UNCHANGED <<phase, todo, saved, queue, req, table, registry, errors, offer, ops, events>>
    BY <1>t DEF CallFails
<1>2. conn' = conn \/ (c \in Connections /\ conn' = [conn EXCEPT ![c] = k])
  <2>1. CASE table[s] = None
    <3>1. conn' = conn
        BY <2>1 DEF CallFails
    <3> HIDE DEF k
    <3> QED BY <3>1
  <2>2. CASE table[s] # None
    <3>1. c \in Connections
        BY <1>t, <2>2 DEF CallFails
    <3>2. conn' = [conn EXCEPT ![c] = [conn[c] EXCEPT !.session = FALSE, !.failed = TRUE]]
        BY <1>t, <2>2, <3>1 DEF CallFails
    <3> QED BY <3>1, <3>2
  <2> QED BY <2>1, <2>2
<1>3. c \in Connections =>
        /\ k \in Connection /\ k.session = FALSE
        /\ k.pc = conn[c].pc /\ k.server = conn[c].server /\ k.config = conn[c].config
        /\ k.stop = conn[c].stop /\ k.ready = conn[c].ready /\ k.tools = conn[c].tools
        /\ k.listed = conn[c].listed /\ k.refresh = conn[c].refresh /\ k.again = conn[c].again
        /\ k.notice = conn[c].notice /\ k.early = conn[c].early
  <2>1. c \in Connections => conn[c] \in Connection
    BY <1>t
  <2> HIDE DEF c
  <2> QED BY <2>1 DEF Connection
<1> HIDE DEF k, c
<1>4. ASSUME NEW d \in Connections
      PROVE  /\ conn'[d].pc = conn[d].pc /\ conn'[d].server = conn[d].server
             /\ conn'[d].config = conn[d].config /\ conn'[d].tools = conn[d].tools
             /\ conn'[d].stop = conn[d].stop /\ conn'[d].ready = conn[d].ready
             /\ conn'[d].refresh = conn[d].refresh /\ conn'[d].listed = conn[d].listed
             /\ conn'[d].again = conn[d].again /\ conn'[d].early = conn[d].early
             /\ conn'[d].notice = conn[d].notice
             /\ conn'[d].session => conn[d].session
    BY <1>2, <1>3, <1>t
<1>5. conn' \in [Connections -> Connection]
    BY <1>2, <1>3, <1>t
<1>6. TypeOK' /\ NoOrphans' /\ LockInv' /\ ConnInv' /\ StopInv' /\ RegistryInv'
    BY <1>1, <1>4, <1>5, <1>t, ServerFrame
<1>7. ASSUME NEW x \in Servers, Working(x)'
      PROVE  /\ (InHand(conn[table[x]], x) \/ Missed(conn[table[x]]) \/ x \in errors)'
             /\ AnswerOK(conn[table[x]], x)'
  <2>1. table[x] \in Connections /\ Working(x)
    BY <1>1, <1>4, <1>7, <1>t DEF Working
  <2> QED BY <2>1, <1>1, <1>4 DEF IndInv, NoSilentStaleness, ListInv, InHand, Missed, AnswerOK
<1>8. ListInv'
    BY <1>1, <1>4, <1>7 DEF IndInv, ListInv, ListOK
<1>9. NoSilentStaleness'
    BY <1>7 DEF NoSilentStaleness
<1> QED BY <1>6, <1>8, <1>9 DEF IndInv

LEMMA CallInv ==
    ASSUME IndInv, NEW s \in Servers, CallStarts(s) \/ CallReturns(s)
    PROVE  IndInv'
<1>t. conn \in [Connections -> Connection] /\ offer \in [Servers -> Lists]
      /\ calling \subseteq Servers /\ events \in Nat
    BY DEF IndInv, TypeOK
<1>1. /\ UNCHANGED <<phase, todo, saved, queue, req, table, conn, registry, errors, offer, ops>>
      /\ calling' \subseteq Servers /\ events' \in Nat
    BY <1>t DEF CallStarts, CallReturns, HappensTo
<1>2. TypeOK' /\ NoOrphans' /\ LockInv' /\ ConnInv' /\ StopInv' /\ RegistryInv'
    BY <1>1, <1>t, ServerFrame
<1>3. ListInv' /\ NoSilentStaleness'
    BY <1>1, ConnectionsKept
<1> QED BY <1>2, <1>3 DEF IndInv

-----------------------------------------------------------------------------
(* The theorems.                                                           *)

LEMMA InitInv == Init => IndInv
<1> SUFFICES ASSUME Init PROVE IndInv
    OBVIOUS
<1> DEFINE dead == Fresh(None, None, "dead")
<1>1. /\ dead \in Connection /\ dead.pc = "dead" /\ dead.session = FALSE
      /\ dead.refresh = "idle" /\ dead.notice = FALSE /\ dead.listed = None
  <2>1. 0 \in 0 .. MaxAttempts
    BY BoundsAssumption
  <2> QED BY <2>1 DEF Fresh, Connection, Supervisors, Refreshes
<1>2. Idle \in Request /\ Idle.pc = "idle"
    BY DEF Idle, Request
<1> HIDE DEF dead
<1>3. /\ \A c \in Connections : conn[c] = dead
      /\ \A s \in Servers : table[s] = None
      /\ \A r \in Requests : req[r].pc = "idle"
    BY <1>2 DEF Init, dead
<1>4. TypeOK
  <2>1. saved \in [Servers -> Configs \cup {NoRow, Deleted}]
    BY RowsAssumption DEF Init
  <2>2. queue \in Seq(Requests)
    BY DEF Init
  <2>3. conn \in [Connections -> Connection] /\ req \in [Requests -> Request]
    BY <1>1, <1>2 DEF Init, dead
  <2>4. offer \in [Servers -> Lists]
    BY OffersAssumption DEF Init
  <2> QED BY <2>1, <2>2, <2>3, <2>4 DEF Init, TypeOK
<1>5. NoOrphans
    BY <1>1, <1>3 DEF NoOrphans, Alive, Init
<1>6. LockInv /\ ConnInv
    BY <1>1, <1>3 DEF LockInv, ConnInv, Alive
<1>7. StopInv
  <2>1. \A s \in todo : saved[s] \in Configs
    BY RowsAssumption DEF Init
  <2> QED BY <1>3, <2>1 DEF StopInv, Init
<1>8. RegistryInv
  <2>1. Offered(table, conn) = {}
    BY <1>3 DEF Offered
  <2> QED BY <2>1 DEF RegistryInv, Init
<1>9. ListInv /\ NoSilentStaleness
    BY <1>1, <1>3 DEF ListInv, ListOK, NoSilentStaleness, Working
<1> QED BY <1>4, <1>5, <1>6, <1>7, <1>8, <1>9 DEF IndInv

LEMMA SupervisorStepInv ==
    ASSUME IndInv, NEW c \in Connections, SupervisorStep(c) \/ RefreshStep(c)
    PROVE  IndInv'
<1>1. CASE Listed(c)
    BY <1>1, ListedInv
<1>2. CASE Attach(c)
    BY <1>2, AttachInv
<1>3. CASE StartFails(c)
    BY <1>3, StartFailsInv
<1>4. CASE Breaks(c)
    BY <1>4, BreaksInv
<1>5. CASE Wake(c)
    BY <1>5, WakeInv
<1>6. CASE FirstStartFailed(c) \/ Ended(c)
    BY <1>6, EndedInv
<1>7. CASE Retry(c)
    BY <1>7, RetryInv
<1>8. CASE \E lasted \in BOOLEAN : BackOff(c, lasted)
    BY <1>8, BackOffInv
<1>9. CASE \E lasted \in BOOLEAN : GiveUp(c, lasted)
    BY <1>9, GiveUpInv
<1>10. CASE Notified(c)
    BY <1>10, NotifiedInv
<1>11. CASE RefreshAnswered(c)
    BY <1>11, RefreshAnsweredInv
<1>12. CASE RefreshFails(c)
    BY <1>12, RefreshFailsInv
<1>13. CASE RefreshTaken(c)
    BY <1>13, RefreshTakenInv
<1>14. CASE CleanupRaises(c)
    BY <1>14, CleanupRaisesInv
<1> QED BY <1>1, <1>2, <1>3, <1>4, <1>5, <1>6, <1>7, <1>8, <1>9, <1>10, <1>11, <1>12, <1>13,
           <1>14 DEF SupervisorStep, RefreshStep

LEMMA NextInv == IndInv /\ [Next]_vars => IndInv'
<1> SUFFICES ASSUME IndInv, [Next]_vars PROVE IndInv'
    OBVIOUS
<1>1. CASE UserStep
  <2>1. CASE Booted \/ StopAll \/ Stopped
    BY <2>1, PhaseInv
  <2>2. CASE \E s \in Servers : Delete(s) \/ Boot(s) \/ StopOne(s)
    BY <2>2, QueueingInv
  <2>3. CASE \E s \in Servers, config \in Configs : Apply(s, config)
    BY <2>3, QueueingInv
  <2> QED BY <1>1, <2>1, <2>2, <2>3 DEF UserStep
<1>2. CASE ServerStep
    BY <1>2, OfferChangesInv, CallFailsInv, CallInv DEF ServerStep
<1>3. ASSUME NEW r \in Requests, HolderStep(r)
      PROVE  IndInv'
    BY <1>3, BeginInv, ProceedInv, ReturnedInv, RefusedInv, AbandonedInv DEF HolderStep
<1>4. ASSUME NEW c \in Connections, SupervisorStep(c) \/ RefreshStep(c)
      PROVE  IndInv'
    BY <1>4, SupervisorStepInv
<1>5. CASE UNCHANGED vars
  <2>1. UNCHANGED <<phase, todo, saved, queue, req, table, conn, registry, errors, offer,
                    calling, ops, events>>
    BY <1>5 DEF vars
  <2>2. TypeOK' /\ NoOrphans' /\ LockInv' /\ ConnInv' /\ StopInv' /\ RegistryInv'
    BY <2>1, ServerFrame DEF IndInv, TypeOK
  <2>3. ListInv' /\ NoSilentStaleness'
    BY <2>1, ConnectionsKept
  <2> QED BY <2>2, <2>3 DEF IndInv
<1> QED BY <1>1, <1>2, <1>3, <1>4, <1>5 DEF Next

\* In every reachable state, whatever servers, users and calls do: the lock, the table,
\* the supervisors, the registry and the lists fit together as IndInv says.
THEOREM McpInvariant == Spec => []IndInv
<1>1. Init => IndInv
    BY InitInv
<1>2. IndInv /\ [Next]_vars => IndInv'
    BY NextInv
<1> QED BY <1>1, <1>2, PTL DEF Spec

\* The state keeps its types.
THEOREM McpTyped == Spec => []TypeOK
<1>1. IndInv => TypeOK
    BY DEF IndInv
<1> QED BY <1>1, McpInvariant, PTL

\* No supervisor is lost by reloads, reconnections, clashes or the shutdown, for any
\* number of servers and requests that wait for the lock.
THEOREM NoOrphansHold == Spec => []NoOrphans
<1>1. IndInv => NoOrphans
    BY DEF IndInv
<1> QED BY <1>1, McpInvariant, PTL

\* Between requests the registry offers what the connections' whitelists let through,
\* though refreshes and supervisors that give up replace the namespace beside the lock.
THEOREM RegistryStaysInStep == Spec => []RegistryInStep
<1>1. IndInv => RegistryInStep
    BY DEF IndInv, RegistryInv, RegistryInStep, NoRequest, Registered
<1> QED BY <1>1, McpInvariant, PTL

\* A working session's list is the server's, or is on its way to be fetched, or the
\* server has a diagnostic, but for two notices that the code misses: one during the
\* start, after the first list, and one behind a refresh of a session that is gone.
THEOREM StalenessShows == Spec => []NoSilentStaleness
<1>1. IndInv => NoSilentStaleness
    BY DEF IndInv
<1> QED BY <1>1, McpInvariant, PTL

-----------------------------------------------------------------------------
(* The configurations.  ConfigInv stands on IndInv, and is kept apart.     *)

\* A step keeps ConfigInv that keeps the queue, the rows and what the requests are for,
\* and the connections' configurations; it may take connections out of the table.
LEMMA ConfigFrame ==
    ASSUME IndInv, ConfigInv, UNCHANGED <<saved, queue>>,
           phase' = "boot" => phase = "boot" /\ todo' \subseteq todo,
           \A r \in Requests :
                /\ req[r].pc # "idle" => req'[r].pc # "idle"
                /\ req'[r].pc = "waiting" => req[r].pc = "waiting"
                /\ req'[r].server = req[r].server /\ req'[r].kind = req[r].kind
                /\ req'[r].config = req[r].config,
           \A s \in Servers : table'[s] \in {table[s], None},
           \A c \in Connections : conn'[c].config = conn[c].config
    PROVE  ConfigInv'
<1>t. /\ queue \in Seq(Requests) /\ table \in [Servers -> Connections \cup {None}]
    BY DEF IndInv, TypeOK
<1>q. \A i \in 1 .. Len(queue) : queue[i] \in Requests
    BY <1>t
<1>a. \A s \in Servers : Asked'[s] = Asked[s]
    BY <1>q DEF Asked
<1>c. ASSUME NEW s \in Servers, table'[s] # None
      PROVE  table'[s] = table[s] /\ conn'[table[s]].config = conn[table[s]].config
    BY <1>c, <1>t
<1>1. QueueInv'
    BY <1>q DEF ConfigInv, QueueInv
<1>2. LastWord'
  <2>1. SUFFICES ASSUME NEW s \in Servers, NEW i \in Asked[s],
                        saved[s] \in Configs, req'[queue[i]].kind = "connect",
                        \A j \in Asked[s] : j <= i
                 PROVE  saved[s].enabled /\ req'[queue[i]].config = saved[s]
    BY <1>a DEF LastWord
  <2>2. queue[i] \in Requests
    BY <1>q DEF Asked
  <2> QED BY <2>1, <2>2 DEF ConfigInv, LastWord
<1>3. Settled'
    BY <1>a, <1>c DEF ConfigInv, Settled
<1>4. Spawned'
  <2>1. SUFFICES ASSUME NEW r \in Requests, req'[r].pc = "waiting",
                        table'[req[r].server] # None
                 PROVE  /\ req[r].kind = "connect"
                        /\ conn'[table'[req[r].server]].config = req[r].config
    BY DEF Spawned
  <2>2. req[r].pc = "waiting" /\ req[r].server \in Servers
    BY <2>1, HolderFacts
  <2> QED BY <1>c, <2>1, <2>2 DEF ConfigInv, Spawned
<1>5. BootInv'
    BY DEF ConfigInv, BootInv
<1> QED BY <1>1, <1>2, <1>3, <1>4, <1>5 DEF ConfigInv

\* A request that is queued is the last word about its server, and the first in the
\* queue stays the first.
LEMMA QueuedLast ==
    ASSUME IndInv, QueueInv, NEW r \in Requests, req[r].pc = "idle",
           NEW s \in Servers, req'[r].pc = "queued", req'[r].server = s,
           \A q \in Requests : q # r => req'[q] = req[q],
           Len(queue') = Len(queue) + 1, queue'[Len(queue) + 1] = r,
           \A i \in 1 .. Len(queue) : queue'[i] = queue[i]
    PROVE  /\ QueueInv'
           /\ Len(queue) + 1 \in Asked'[s] /\ queue'[Len(queue) + 1] = r
           /\ \A j \in Asked'[s] : j <= Len(queue) + 1
           /\ \A x \in Servers \ {s} :
                /\ Asked'[x] = Asked[x]
                /\ \A i \in Asked[x] : queue'[i] = queue[i] /\ req'[queue[i]] = req[queue[i]]
<1>t. queue \in Seq(Requests)
    BY DEF IndInv, TypeOK
<1> DEFINE n == Len(queue)
<1>n. n \in Nat /\ \A i \in 1 .. n : queue[i] \in Requests
    BY <1>t
<1>1. /\ Len(queue') = n + 1 /\ queue'[n + 1] = r
      /\ \A i \in 1 .. n : queue'[i] = queue[i]
    OBVIOUS
<1>2. \A i \in 1 .. n : queue[i] # r /\ req'[queue[i]] = req[queue[i]]
    BY <1>n DEF QueueInv
<1> HIDE DEF n
<1>3. QueueInv'
  <2>1. \A i \in 1 .. n + 1 : i \in 1 .. n \/ i = n + 1
    BY <1>n
  <2>2. ASSUME NEW i \in 1 .. n + 1
        PROVE  req'[queue'[i]].pc # "idle"
    BY <1>1, <1>2, <2>1 DEF QueueInv, n
  <2>3. ASSUME NEW i \in 1 .. n + 1, NEW j \in 1 .. n + 1, i # j
        PROVE  queue'[i] # queue'[j]
    <3>1. CASE i \in 1 .. n /\ j \in 1 .. n
        BY <1>1, <2>3, <3>1 DEF QueueInv, n
    <3>2. CASE i = n + 1 \/ j = n + 1
        BY <1>1, <1>2, <2>1, <2>3, <3>2
    <3> QED BY <2>1, <3>1, <3>2
  <2> QED BY <1>1, <2>2, <2>3 DEF QueueInv
<1>4. n + 1 \in Asked'[s] /\ \A j \in Asked'[s] : j <= n + 1
    BY <1>1, <1>n DEF Asked
<1>5. ASSUME NEW x \in Servers \ {s}
      PROVE  Asked'[x] = Asked[x]
  <2>1. \A i \in 1 .. n + 1 : req'[queue'[i]].server = x <=> i \in 1 .. n /\ req[queue[i]].server = x
    BY <1>1, <1>2, <1>n
  <2> QED BY <1>1, <1>n, <2>1 DEF Asked, n
<1>6. \A x \in Servers \ {s} :
        \A i \in Asked[x] : queue'[i] = queue[i] /\ req'[queue[i]] = req[queue[i]]
    BY <1>1, <1>2 DEF Asked, n
<1> QED BY <1>1, <1>3, <1>4, <1>5, <1>6 DEF n

\* So a request that connects a server as its row says, or that disconnects it, keeps
\* ConfigInv.
LEMMA QueuedConfig ==
    ASSUME IndInv, ConfigInv, NEW kind, NEW s \in Servers, NEW config,
           Enqueue(kind, s, config),
           kind = "connect" /\ saved'[s] \in Configs => saved'[s].enabled /\ config = saved'[s],
           \A x \in Servers \ {s} : saved'[x] = saved[x],
           phase = "boot" => saved' = saved /\ todo' \subseteq todo,
           UNCHANGED <<phase, table, conn>>
    PROVE  ConfigInv'
<1>0. PICK new :
        new = [pc |-> "queued", kind |-> kind, server |-> s, config |-> config, of |-> None]
    OBVIOUS
<1>1. PICK r \in Requests : /\ req[r].pc = "idle" /\ req' = [req EXCEPT ![r] = new]
                            /\ queue' = Append(queue, r)
    BY <1>0 DEF Enqueue
<1>2. new.pc = "queued" /\ new.server = s /\ new.kind = kind /\ new.config = config
    BY <1>0
<1>r. /\ \A q \in Requests : q # r => req'[q] = req[q]
      /\ req'[r].pc = "queued" /\ req'[r].server = s /\ req'[r].kind = kind
      /\ req'[r].config = config
  <2>1. req \in [Requests -> Request]
    BY DEF IndInv, TypeOK
  <2> QED BY <1>1, <1>2, <2>1
<1>t. queue \in Seq(Requests) /\ queue' \in Seq(Requests)
    BY <1>1, QueueFacts DEF IndInv, TypeOK
<1>n. PICK n \in Nat : n = Len(queue) + 1
    BY <1>t
<1>3. /\ QueueInv'
      /\ n \in Asked'[s] /\ queue'[n] = r
      /\ \A j \in Asked'[s] : j <= n
      /\ \A x \in Servers \ {s} :
            /\ Asked'[x] = Asked[x]
            /\ \A i \in Asked[x] : queue'[i] = queue[i] /\ req'[queue[i]] = req[queue[i]]
  <2>0. /\ QueueInv /\ req[r].pc = "idle" /\ Len(queue') = Len(queue) + 1
        /\ queue'[Len(queue) + 1] = r
        /\ \A i \in 1 .. Len(queue) : queue'[i] = queue[i]
    BY <1>1, <1>t DEF ConfigInv
  <2>1. /\ QueueInv'
        /\ Len(queue) + 1 \in Asked'[s] /\ queue'[Len(queue) + 1] = r
        /\ \A j \in Asked'[s] : j <= Len(queue) + 1
        /\ \A x \in Servers \ {s} :
            /\ Asked'[x] = Asked[x]
            /\ \A i \in Asked[x] : queue'[i] = queue[i] /\ req'[queue[i]] = req[queue[i]]
    BY <1>r, <2>0, QueuedLast
  <2> QED BY <1>n, <2>1
<1>j. \A j \in Asked'[s] : j \in Nat
    BY <1>t DEF Asked
<1>4. LastWord'
  <2>1. SUFFICES ASSUME NEW x \in Servers, NEW i \in Asked'[x], saved'[x] \in Configs,
                        req'[queue'[i]].kind = "connect", \A j \in Asked'[x] : j <= i
                 PROVE  saved'[x].enabled /\ req'[queue'[i]].config = saved'[x]
    BY DEF LastWord
  <2>2. CASE x = s
    <3>1. i \in Asked'[s] /\ \A j \in Asked'[s] : j <= i
        BY <2>1, <2>2
    <3>2. i = n
        BY <1>3, <1>n, <1>j, <3>1
    <3> QED BY <1>r, <1>3, <2>1, <2>2, <3>2
  <2>3. CASE x # s
    BY <1>3, <2>1, <2>3 DEF ConfigInv, LastWord
  <2> QED BY <2>2, <2>3
<1>5. Settled'
    BY <1>3 DEF ConfigInv, Settled
<1>6. Spawned'
    BY <1>1, <1>r, <1>3 DEF ConfigInv, Spawned
<1>7. BootInv'
    BY DEF ConfigInv, BootInv
<1> QED BY <1>3, <1>4, <1>5, <1>6, <1>7 DEF ConfigInv

LEMMA QueueingConfig ==
    ASSUME IndInv, ConfigInv, NEW s \in Servers,
           (\E config \in Configs : Apply(s, config)) \/ Delete(s) \/ Boot(s) \/ StopOne(s)
    PROVE  ConfigInv'
<1>t. saved \in [Servers -> Configs \cup {NoRow, Deleted}]
    BY DEF IndInv, TypeOK
<1>1. ASSUME NEW config \in Configs, Apply(s, config)
      PROVE  ConfigInv'
  <2> DEFINE kind == IF config.enabled THEN "connect" ELSE "disconnect"
  <2>1. saved'[s] = config /\ \A x \in Servers \ {s} : saved'[x] = saved[x]
    BY <1>t, <1>1 DEF Apply
  <2>2. kind = "connect" => config.enabled
    BY ConfigsAssumption
  <2>3. Enqueue(kind, s, config) /\ phase = "up" /\ UNCHANGED <<phase, table, conn>>
    BY <1>1 DEF Apply
  <2> HIDE DEF kind
  <2> QED BY <2>1, <2>2, <2>3, QueuedConfig
<1>2. CASE Delete(s)
    BY <1>2, QueuedConfig DEF Delete
<1>3. CASE Boot(s)
  <2>1. saved[s] \in Configs => saved[s].enabled
    BY <1>3 DEF Boot, ConfigInv, BootInv
  <2> QED BY <1>3, <2>1, QueuedConfig DEF Boot
<1>4. CASE StopOne(s)
    BY <1>4, QueuedConfig DEF StopOne
<1> QED BY <1>1, <1>2, <1>3, <1>4

\* When the lock is handed on, the last words are the same, and a server about which
\* nobody asks any more is the one that was asked about, or nobody did before.
LEMMA ReleasedQueue ==
    ASSUME IndInv, QueueInv, NEW r \in Requests, Holder(r), Release(r)
    PROVE  /\ QueueInv'
           /\ \A s \in Servers : \A i \in Asked'[s] :
                /\ i + 1 \in Asked[s] /\ queue'[i] = queue[i + 1]
                /\ req'[queue'[i]] = req[queue[i + 1]]
           /\ \A s \in Servers : \A j \in Asked[s] : j = 1 \/ j - 1 \in Asked'[s]
           /\ 1 \in Asked[req[r].server]
           /\ \A s \in Servers : 1 \in Asked[s] => s = req[r].server
<1>t. queue \in Seq(Requests)
    BY DEF IndInv, TypeOK
<1> DEFINE n == Len(queue)
<1>1. /\ n \in Nat /\ n >= 1 /\ queue[1] = r /\ \A i \in 1 .. n : queue[i] \in Requests
    BY <1>t DEF Holder
<1>2. /\ Len(queue') = n - 1
      /\ \A i \in 1 .. n - 1 : queue'[i] = queue[i + 1]
    BY <1>t, <1>1 DEF Release
<1>3. \A q \in Requests : q # r => req'[q] = req[q]
    BY Released
<1> HIDE DEF n
<1>4. \A i \in 1 .. n - 1 :
        i + 1 \in 1 .. n /\ queue'[i] = queue[i + 1] /\ queue[i + 1] # r
        /\ req'[queue'[i]] = req[queue[i + 1]]
  <2>1. SUFFICES ASSUME NEW i \in 1 .. n - 1
                 PROVE  /\ i + 1 \in 1 .. n /\ queue'[i] = queue[i + 1] /\ queue[i + 1] # r
                        /\ req'[queue'[i]] = req[queue[i + 1]]
    OBVIOUS
  <2>2. i + 1 \in 1 .. n /\ i + 1 # 1 /\ 1 \in 1 .. n
    BY <1>1
  <2>3. queue[i + 1] # r
    BY <1>1, <2>2 DEF QueueInv, n
  <2> QED BY <1>1, <1>2, <1>3, <2>2, <2>3
<1>5. QueueInv'
  <2>1. \A i \in 1 .. n - 1 : req'[queue'[i]].pc # "idle"
    BY <1>4 DEF QueueInv, n
  <2>2. ASSUME NEW i \in 1 .. n - 1, NEW j \in 1 .. n - 1, i # j
        PROVE  queue'[i] # queue'[j]
    <3>1. i + 1 # j + 1 /\ i + 1 \in 1 .. n /\ j + 1 \in 1 .. n
        BY <1>1, <2>2
    <3>2. queue[i + 1] # queue[j + 1]
        BY <3>1 DEF QueueInv, n
    <3> QED BY <1>2, <3>2
  <2> QED BY <1>2, <2>1, <2>2 DEF QueueInv
<1>6. \A s \in Servers : \A i \in Asked'[s] :
        /\ i + 1 \in Asked[s] /\ queue'[i] = queue[i + 1]
        /\ req'[queue'[i]] = req[queue[i + 1]]
    BY <1>2, <1>4 DEF Asked, n
<1>7. ASSUME NEW s \in Servers, NEW j \in Asked[s], j # 1
      PROVE  j - 1 \in Asked'[s]
  <2>1. j \in 1 .. n /\ req[queue[j]].server = s
    BY DEF Asked, n
  <2>2. j - 1 \in 1 .. n - 1 /\ (j - 1) + 1 = j
    BY <1>1, <1>7, <2>1
  <2>3. req'[queue'[j - 1]] = req[queue[j]]
    BY <1>4, <2>2
  <2> QED BY <1>2, <2>1, <2>2, <2>3 DEF Asked
<1>8. 1 \in Asked[req[r].server] /\ \A s \in Servers : 1 \in Asked[s] => s = req[r].server
  <2>1. req[r].server \in Servers
    BY <1>1 DEF QueueInv, IndInv, LockInv, n
  <2> QED BY <1>1, <2>1 DEF Asked, n
<1> QED BY <1>5, <1>6, <1>7, <1>8

\* A request that ends keeps ConfigInv, where its connection, if it has left one, runs as
\* its row says if no other request has come.
LEMMA ReleasedConfig ==
    ASSUME IndInv, ConfigInv, NEW r \in Requests, Holder(r), Release(r),
           req[r].server \in Servers, conn' = conn,
           \A x \in Servers : table'[x] \in {table[x], None},
           table'[req[r].server] # None => req[r].pc = "waiting",
           \A x \in Servers : saved'[x] \in Configs => saved[x] = saved'[x],
           phase' = "boot" => phase = "boot" /\ todo' \subseteq todo
    PROVE  ConfigInv'
<1> DEFINE s == req[r].server
<1>t. /\ queue \in Seq(Requests) /\ queue' \in Seq(Requests)
      /\ \A q \in Requests : req'[q].pc # "waiting"
    BY Released DEF IndInv, TypeOK
<1>1. /\ QueueInv'
      /\ \A x \in Servers : \A i \in Asked'[x] :
            /\ i + 1 \in Asked[x] /\ queue'[i] = queue[i + 1]
            /\ req'[queue'[i]] = req[queue[i + 1]]
      /\ \A x \in Servers : \A j \in Asked[x] : j = 1 \/ j - 1 \in Asked'[x]
      /\ 1 \in Asked[s]
      /\ \A x \in Servers : 1 \in Asked[x] => x = s
    BY ReleasedQueue DEF ConfigInv
<1>n. ASSUME NEW x \in Servers
      PROVE  (\A i \in Asked[x] : i \in Nat) /\ (\A i \in Asked'[x] : i \in Nat)
    BY <1>t DEF Asked
<1>2. LastWord'
  <2>1. SUFFICES ASSUME NEW x \in Servers, NEW i \in Asked'[x], saved'[x] \in Configs,
                        req'[queue'[i]].kind = "connect", \A j \in Asked'[x] : j <= i
                 PROVE  saved'[x].enabled /\ req'[queue'[i]].config = saved'[x]
    BY DEF LastWord
  <2>2. i + 1 \in Asked[x] /\ req'[queue'[i]] = req[queue[i + 1]] /\ saved[x] = saved'[x]
    BY <1>1, <2>1
  <2>3. ASSUME NEW j \in Asked[x] PROVE j <= i + 1
    <3>1. i \in Nat /\ j \in Nat
        BY <1>n, <2>1
    <3>2. CASE j = 1
        BY <3>1, <3>2
    <3>3. CASE j - 1 \in Asked'[x]
        <4>1. j - 1 <= i
            BY <2>1, <3>3
        <4> QED BY <3>1, <4>1
    <3> QED BY <1>1, <3>2, <3>3
  <2> QED BY <2>1, <2>2, <2>3 DEF ConfigInv, LastWord
<1>3. Settled'
  <2>1. SUFFICES ASSUME NEW x \in Servers, Asked'[x] = {}, table'[x] # None, saved'[x] \in Configs
                 PROVE  saved'[x].enabled /\ conn'[table'[x]].config = saved'[x]
    BY DEF Settled
  <2>2. table'[x] = table[x] /\ saved'[x] = saved[x] /\ \A j \in Asked[x] : j = 1
    BY <1>1, <2>1
  <2>3. CASE x = s
    <3>1. req[r].pc = "waiting" /\ table[s] # None
        BY <2>1, <2>2, <2>3
    <3>2. req[r].kind = "connect" /\ conn[table[s]].config = req[r].config
        BY <3>1 DEF ConfigInv, Spawned
    <3>3. queue[1] = r
        BY <1>t DEF Holder
    <3>4. saved[s].enabled /\ req[r].config = saved[s]
        BY <1>1, <2>1, <2>2, <2>3, <3>2, <3>3 DEF ConfigInv, LastWord
    <3> QED BY <2>2, <2>3, <3>2, <3>4
  <2>4. CASE x # s
    <3>1. Asked[x] = {}
        BY <1>1, <2>2, <2>4
    <3> QED BY <2>1, <2>2, <3>1 DEF ConfigInv, Settled
  <2> QED BY <2>3, <2>4
<1>4. Spawned'
    BY <1>t DEF Spawned
<1>5. BootInv'
    BY DEF ConfigInv, BootInv, IndInv, TypeOK
<1> QED BY <1>1, <1>2, <1>3, <1>4, <1>5 DEF ConfigInv

\* A connection that is made for a request has the configuration it asks for, in a place
\* that nobody else holds; until the request ends, it is asked about.
LEMMA SpawnConfig ==
    ASSUME IndInv, ConfigInv, NEW r \in Requests, req[r].kind = "connect",
           \/ Holder(r) /\ req[r].pc = "queued" /\ table[req[r].server] = None
           \/ req[r].pc = "draining" /\ ~Alive(req[r].of),
           Spawn(r, table), todo' = todo
    PROVE  ConfigInv'
<1>t. /\ req \in [Requests -> Request] /\ conn \in [Connections -> Connection]
      /\ table \in [Servers -> Connections \cup {None}] /\ queue \in Seq(Requests)
    BY DEF IndInv, TypeOK
<1>1. PICK s \in Servers : s = req[r].server
    BY ProceedFacts
<1>2. /\ Holder(r) /\ req[r].pc \in {"queued", "draining"}
      /\ \A q \in Requests : q # r => req[q].pc \in {"idle", "queued"}
    BY ProceedFacts
<1>3. PICK c \in Connections :
        /\ Free(c)
        /\ conn' = [conn EXCEPT ![c] = Fresh(s, req[r].config, "connect")]
        /\ table' = [table EXCEPT ![s] = c]
        /\ req' = [req EXCEPT ![r].pc = "waiting", ![r].of = c]
    BY <1>1 DEF Spawn
<1>4. UNCHANGED <<phase, saved, queue>>
    BY DEF Spawn
<1>5. /\ \A q \in Requests : q # r => req'[q] = req[q]
      /\ req'[r].pc = "waiting" /\ req'[r].server = s /\ req'[r].kind = "connect"
      /\ req'[r].config = req[r].config
    BY <1>1, <1>3, <1>t DEF Request
<1>6. /\ conn'[c].config = req[r].config /\ \A d \in Connections : d # c => conn'[d] = conn[d]
      /\ table'[s] = c /\ \A x \in Servers : x # s => table'[x] = table[x] /\ table[x] # c
  <2>1. \A x \in Servers : table[x] # c
    BY <1>3, AtomsAssumption DEF Free, Registered
  <2>2. conn'[c].config = req[r].config
    BY <1>3, <1>t DEF Fresh
  <2> QED BY <1>3, <1>t, <2>1, <2>2
<1>7. /\ \A q \in Requests : /\ req'[q].server = req[q].server /\ req'[q].kind = req[q].kind
                             /\ req'[q].config = req[q].config
                             /\ req[q].pc # "idle" => req'[q].pc # "idle"
                             /\ req'[q].pc = "waiting" => q = r
    BY <1>1, <1>2, <1>5
<1>q. \A i \in 1 .. Len(queue) : queue[i] \in Requests
    BY <1>t
<1>a. Asked' = Asked /\ 1 \in Asked[s] /\ 1 \in 1 .. Len(queue)
  <2>1. 1 \in 1 .. Len(queue) /\ queue[1] = r
    BY <1>2, <1>t DEF Holder
  <2>2. \A x \in Servers : Asked'[x] = Asked[x]
    BY <1>4, <1>7, <1>q DEF Asked
  <2> QED BY <1>1, <2>1, <2>2 DEF Asked
<1>8. QueueInv'
    BY <1>4, <1>7, <1>q DEF ConfigInv, QueueInv
<1>9. LastWord'
  <2>1. SUFFICES ASSUME NEW x \in Servers, NEW i \in Asked[x],
                        saved[x] \in Configs, req'[queue[i]].kind = "connect",
                        \A j \in Asked[x] : j <= i
                 PROVE  saved[x].enabled /\ req'[queue[i]].config = saved[x]
    BY <1>4, <1>a DEF LastWord
  <2>2. queue[i] \in Requests
    BY <1>q DEF Asked
  <2> QED BY <1>7, <2>1, <2>2 DEF ConfigInv, LastWord
<1>10. Settled'
  <2>1. SUFFICES ASSUME NEW x \in Servers, Asked[x] = {}, table'[x] # None, saved[x] \in Configs
                 PROVE  saved[x].enabled /\ conn'[table'[x]].config = saved[x]
    BY <1>4, <1>a DEF Settled
  <2>2. x # s /\ table'[x] = table[x] /\ table[x] \in Connections /\ table[x] # c
    BY <1>6, <1>a, <1>t, <2>1
  <2> QED BY <1>6, <2>1, <2>2 DEF ConfigInv, Settled
<1>11. Spawned'
    BY <1>5, <1>6, <1>7 DEF Spawned
<1>12. BootInv'
    BY <1>4 DEF ConfigInv, BootInv
<1> QED BY <1>8, <1>9, <1>10, <1>11, <1>12 DEF ConfigInv

\* What the holder of the lock does.
LEMMA HolderConfig ==
    ASSUME IndInv, ConfigInv, NEW r \in Requests, HolderStep(r)
    PROVE  ConfigInv'
<1>t. /\ req \in [Requests -> Request] /\ conn \in [Connections -> Connection]
      /\ table \in [Servers -> Connections \cup {None}] /\ queue \in Seq(Requests)
      /\ saved \in [Servers -> Configs \cup {NoRow, Deleted}] /\ None \notin Connections
    BY AtomsAssumption DEF IndInv, TypeOK
<1>1. CASE Begin(r)
  <2>1. /\ \A c \in Connections : conn'[c].config = conn[c].config
        /\ \A s \in Servers : table'[s] \in {table[s], None}
        /\ UNCHANGED <<phase, todo, saved, queue>>
    BY <1>1, <1>t DEF Begin, Connection
  <2>2. /\ \A q \in Requests : q # r => req'[q] = req[q]
        /\ req'[r].pc = "draining" /\ req'[r].server = req[r].server
        /\ req'[r].kind = req[r].kind /\ req'[r].config = req[r].config
    BY <1>1, <1>t DEF Begin, Request
  <2> QED BY <2>1, <2>2, ConfigFrame
<1>2. CASE BeginAlone(r) \/ Drained(r)
  <2>1. /\ \/ Holder(r) /\ req[r].pc = "queued" /\ table[req[r].server] = None
           \/ req[r].pc = "draining" /\ ~Alive(req[r].of)
        /\ Proceed(r) /\ todo' = todo
    BY <1>2 DEF BeginAlone, Drained
  <2>2. CASE req[r].kind = "connect"
    BY <2>1, <2>2, SpawnConfig DEF Proceed
  <2>3. CASE req[r].kind # "connect"
    <3>1. Disconnected(r) /\ Holder(r) /\ req[r].server \in Servers /\ table[req[r].server] = None
        BY <2>1, <2>3, ProceedFacts DEF Proceed
    <3>2. Release(r) /\ UNCHANGED <<table, conn>>
        BY <3>1 DEF Disconnected
    <3>3. \A x \in Servers : saved'[x] \in Configs => saved[x] = saved'[x]
      <4>1. saved' = saved \/ saved' = [saved EXCEPT ![req[r].server] = Deleted]
        BY <3>1 DEF Disconnected
      <4> QED BY <1>t, <4>1, AtomsAssumption
    <3>4. phase' = "boot" => phase = "boot" /\ todo' \subseteq todo
        BY <2>1, <3>1 DEF Disconnected
    <3> QED BY <3>1, <3>2, <3>3, <3>4, ReleasedConfig
  <2> QED BY <2>2, <2>3
<1>3. CASE Returned(r)
  <2>1. req[r].pc = "waiting" /\ Holder(r) /\ req[r].server \in Servers /\ Release(r)
        /\ UNCHANGED <<phase, todo, saved, table, conn>>
    BY <1>3, HolderFacts DEF Returned
  <2> QED BY <2>1, ReleasedConfig
<1>4. CASE Refused(r)
  <2>1. /\ \A c \in Connections : conn'[c].config = conn[c].config
        /\ UNCHANGED <<phase, todo, saved, queue, table>>
    BY <1>4, <1>t DEF Refused, Connection
  <2>2. /\ \A q \in Requests : q # r => req'[q] = req[q]
        /\ req'[r].pc = "abandoning" /\ req'[r].server = req[r].server
        /\ req'[r].kind = req[r].kind /\ req'[r].config = req[r].config
    BY <1>4, <1>t DEF Refused, Request
  <2> QED BY <2>1, <2>2, ConfigFrame
<1>5. CASE Abandoned(r)
  <2>1. /\ Holder(r) /\ req[r].server \in Servers /\ Release(r)
        /\ table' = [table EXCEPT ![req[r].server] = None]
        /\ UNCHANGED <<phase, todo, saved, conn>>
    BY <1>5, HolderFacts DEF Abandoned
  <2>2. table'[req[r].server] = None /\ \A x \in Servers : table'[x] \in {table[x], None}
    BY <1>t, <2>1
  <2> QED BY <2>1, <2>2, ReleasedConfig
<1> QED BY <1>1, <1>2, <1>3, <1>4, <1>5 DEF HolderStep

\* Supervisors, refreshes and servers leave the configurations as they are.
LEMMA SupervisorConfig ==
    ASSUME IndInv, ConfigInv, NEW c \in Connections, SupervisorStep(c) \/ RefreshStep(c)
    PROVE  ConfigInv'
<1>t. /\ conn \in [Connections -> Connection] /\ table \in [Servers -> Connections \cup {None}]
      /\ conn[c] \in Connection
    BY DEF IndInv, TypeOK
<1> DEFINE Kept == /\ UNCHANGED <<phase, todo, saved, queue, req>>
                   /\ \A d \in Connections : conn'[d].config = conn[d].config
                   /\ UNCHANGED table \/ \E s : table' = [table EXCEPT ![s] = None]
<1>1. ASSUME Listed(c) PROVE Kept
    BY <1>t, <1>1 DEF Listed, Quiet, Step, Connection
<1>2. ASSUME Attach(c) PROVE Kept
    BY <1>t, <1>2 DEF Attach, Step, Connection
<1>3. ASSUME StartFails(c) PROVE Kept
    BY <1>t, <1>3 DEF StartFails, Step, Connection
<1>4. ASSUME Breaks(c) PROVE Kept
    BY <1>t, <1>4 DEF Breaks, Step, Connection
<1>5. ASSUME Wake(c) PROVE Kept
    BY <1>t, <1>5 DEF Wake, Quiet, Step, Connection
<1>6. ASSUME FirstStartFailed(c) PROVE Kept
    BY <1>t, <1>6 DEF FirstStartFailed, Dead, Quiet, Step, Connection
<1>c. ASSUME CleanupRaises(c) PROVE Kept
    BY <1>t, <1>c DEF CleanupRaises, Dead, Step, Connection
<1>7. ASSUME Retry(c) PROVE Kept
    BY <1>t, <1>7 DEF Retry, Quiet, Step, Connection
<1>8. ASSUME Ended(c) PROVE Kept
    BY <1>t, <1>8 DEF Ended, Dead, Quiet, Step, Connection
<1>9. ASSUME \E lasted \in BOOLEAN : BackOff(c, lasted) PROVE Kept
    BY <1>t, <1>9 DEF BackOff, Quiet, Step, Connection
<1>10. ASSUME \E lasted \in BOOLEAN : GiveUp(c, lasted) PROVE Kept
  <2>1. PICK lasted \in BOOLEAN : GiveUp(c, lasted)
    BY <1>10
  <2>2. Step(c, Dead(conn[c])) /\ table' = [table EXCEPT ![conn[c].server] = None]
    BY <2>1 DEF GiveUp
  <2>3. Dead(conn[c]).config = conn[c].config
    BY <1>t DEF Dead, Connection
  <2> QED BY <1>t, <2>2, <2>3 DEF Step
<1>11. ASSUME Notified(c) PROVE Kept
    BY <1>t, <1>11 DEF Notified, Quiet, Step, Connection
<1>12. ASSUME RefreshAnswered(c) PROVE Kept
    BY <1>t, <1>12 DEF RefreshAnswered, Quiet, Step, Connection
<1>13. ASSUME RefreshFails(c) PROVE Kept
    BY <1>t, <1>13 DEF RefreshFails, Step, Connection
<1>14. ASSUME RefreshTaken(c) PROVE Kept
  <2> DEFINE next == IF conn[c].again THEN "asking" ELSE "idle"
             Taken == [conn[c] EXCEPT !.refresh = next, !.again = FALSE,
                                      !.tools = conn[c].listed, !.listed = None]
             Rejected == [conn[c] EXCEPT !.refresh = "idle", !.listed = None]
  <2>1. UNCHANGED table /\ (Step(c, Taken) \/ Step(c, Rejected))
    BY <1>14 DEF RefreshTaken
  <2>2. Taken.config = conn[c].config /\ Rejected.config = conn[c].config
    BY <1>t DEF Connection
  <2> HIDE DEF Taken, Rejected
  <2> QED BY <1>t, <2>1, <2>2 DEF Step
<1>15. Kept
    BY <1>1, <1>2, <1>3, <1>4, <1>5, <1>6, <1>7, <1>8, <1>9, 
       <1>10, <1>11, <1>12, <1>13, <1>14, <1>c
       DEF SupervisorStep, RefreshStep
<1>16. \A s \in Servers : table'[s] \in {table[s], None}
    BY <1>t, <1>15
<1> QED BY <1>15, <1>16, ConfigFrame

LEMMA ServerConfig ==
    ASSUME IndInv, ConfigInv, ServerStep
    PROVE  ConfigInv'
<1>t. /\ conn \in [Connections -> Connection] /\ table \in [Servers -> Connections \cup {None}]
    BY DEF IndInv, TypeOK
<1>1. PICK s \in Servers : \/ CallStarts(s) \/ CallFails(s) \/ CallReturns(s)
                           \/ \E tools \in Lists : OfferChanges(s, tools)
    BY DEF ServerStep
<1>2. UNCHANGED <<phase, todo, saved, queue, req, table>>
    BY <1>1 DEF CallStarts, CallFails, CallReturns, OfferChanges
<1>3. ASSUME NEW d \in Connections
      PROVE  conn'[d].config = conn[d].config
  <2>1. conn[d] \in Connection
    BY <1>t
  <2>2. CASE CallStarts(s) \/ CallReturns(s)
    BY <2>2 DEF CallStarts, CallReturns
  <2>3. CASE CallFails(s)
    BY <1>t, <2>1, <2>3 DEF CallFails, Connection
  <2>4. CASE \E tools \in Lists : OfferChanges(s, tools)
    BY <2>1, <2>4 DEF OfferChanges, Connection
  <2> QED BY <1>1, <2>2, <2>3, <2>4
<1> QED BY <1>2, <1>3, ConfigFrame

LEMMA InitConfig == Init => ConfigInv
<1> SUFFICES ASSUME Init PROVE ConfigInv
    OBVIOUS
<1>1. /\ queue = <<>> /\ \A s \in Servers : table[s] = None
      /\ \A r \in Requests : req[r].pc = "idle"
    BY DEF Init, Idle
<1>2. QueueInv /\ LastWord
    BY <1>1 DEF QueueInv, LastWord, Asked
<1>3. Settled /\ Spawned
    BY <1>1 DEF Settled, Spawned
<1>4. BootInv
    BY DEF BootInv, Init
<1> QED BY <1>2, <1>3, <1>4 DEF ConfigInv

LEMMA NextConfig == IndInv /\ ConfigInv /\ [Next]_vars => ConfigInv'
<1> SUFFICES ASSUME IndInv, ConfigInv, [Next]_vars PROVE ConfigInv'
    OBVIOUS
<1>1. CASE Booted \/ StopAll \/ Stopped
  <2>1. UNCHANGED <<saved, queue, req, table, conn>> /\ phase' # "boot"
    BY <1>1 DEF Booted, StopAll, Stopped
  <2> QED BY <2>1, ConfigFrame
<1>2. CASE UNCHANGED vars
  <2>1. UNCHANGED <<phase, todo, saved, queue, req, table, conn>>
    BY <1>2 DEF vars
  <2> QED BY <2>1, ConfigFrame
<1> QED BY <1>1, <1>2, QueueingConfig, HolderConfig, SupervisorConfig, ServerConfig
        DEF Next, UserStep

\* A configuration that is saved is in force when the requests have returned, however
\* many there were and in whatever order they came to the lock.
THEOREM ConfigsInForce == Spec => []SavedConfigInForce
<1>1. Init => IndInv /\ ConfigInv
    BY InitInv, InitConfig
<1>2. (IndInv /\ ConfigInv) /\ [Next]_vars => (IndInv /\ ConfigInv)'
    BY NextInv, NextConfig
<1>3. IndInv /\ ConfigInv => SavedConfigInForce
  <2> SUFFICES ASSUME IndInv, ConfigInv, NoRequest, NEW s \in Servers,
                      table[s] # None, saved[s] \in Configs
               PROVE  saved[s].enabled /\ conn[table[s]].config = saved[s]
    BY DEF SavedConfigInForce
  <2>1. \A i \in 1 .. Len(queue) : queue[i] \in Requests
    BY DEF IndInv, TypeOK
  <2>2. Asked[s] = {}
    BY <2>1 DEF ConfigInv, QueueInv, Asked, NoRequest
  <2> QED BY <2>2 DEF ConfigInv, Settled
<1> QED BY <1>1, <1>2, <1>3, PTL DEF Spec
=============================================================================
