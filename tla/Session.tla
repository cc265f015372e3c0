------------------------------ MODULE Session ------------------------------
(***************************************************************************)
(* The Signer process: start, the login session it serves, the connections *)
(* of the Broker (rpc), of the revocation client (control) and of the      *)
(* local administrator (admin), the journal heads exchanged with every     *)
(* authority-edge frame, and the shutdown.                                 *)
(*                                                                         *)
(* The external checkpoint store keeps the longest head the Signer ever    *)
(* published, outside the database.  A handler is one task of a            *)
(* current-thread runtime: what it does between two awaits is one action.  *)
(* It awaits while it receives, while it dispatches (a signing request may *)
(* commit several entries) and while it sends its answer.  A connection is *)
(* its permit: there are as many as the endpoint's connection quota.  The  *)
(* admin endpoint serves its connections in its accept loop, one by one,   *)
(* and has nothing to do with the checkpoint store.                        *)
(***************************************************************************)
EXTENDS AuditJournal

CONSTANTS
    RpcConnections,         \* permits of the Broker's endpoint
    ControlConnections      \* permits of the revocation control endpoint

ASSUME SessionAssumption == RpcConnections \intersect ControlConnections = {}

VARIABLES
    phase,          \* of the process
    exit,           \* how the last process ended
    lastVerified,   \* whether there is a last_verified_head to answer with
    accepting,      \* endpoints whose accept loop still runs
    connections,    \* the task that holds a permit, or Idle
    retained,       \* the Signer's own head in the checkpoint store
    acked,          \* history: the longest mutation a client of rpc or control
                    \* was answered, while no other hand touched the database
    recorded        \* history: the longest head that a start or a mutation of
                    \* rpc or control left, likewise

processVars == <<phase, exit, lastVerified, accepting, connections>>
history == <<acked, recorded>>
vars == <<journalVars, processVars, retained, history>>

Connections == RpcConnections \union ControlConnections
Endpoints == {"rpc", "control", "admin"}
EndpointOf(c) == IF c \in RpcConnections THEN "rpc" ELSE "control"

Idle == [at |-> "idle", method |-> "none", wrote |-> NoHead]

TypeOK ==
    /\ JournalTypeOK
    /\ phase \in {"down", "opened", "waiting", "serving", "closing"}
    /\ exit \in {"none", "clean", "no_session", "repaired", "fatal", "crash"}
    /\ lastVerified \in BOOLEAN
    /\ accepting \subseteq Endpoints
    /\ connections \in [Connections ->
          [at : {"idle", "accepted", "dispatching", "refused", "sending"},
           method : {"none", "read", "mutate"}, wrote : Heads \union {NoHead}]]
    /\ retained \in Heads
    /\ acked \in Heads
    /\ recorded \in Heads

Init ==
    /\ JournalInit
    /\ phase = "down"
    /\ exit = "none"
    /\ lastVerified = FALSE
    /\ accepting = {}
    /\ connections = [c \in Connections |-> Idle]
    /\ retained = <<>>
    /\ acked = <<>>
    /\ recorded = <<>>

-----------------------------------------------------------------------------
(* The checkpoint store (external) *)

\* append_peer_head on the Signer's own head: a longer head is appended, the
\* same head is already present, any other is a rollback or a conflict.
Accepts(head) == Len(head) > Len(retained) \/ head = retained

StoreAppends(head) == Accepts(head) /\ retained' = head
StoreRejects(head) == ~Accepts(head) /\ UNCHANGED retained
StoreFails == UNCHANGED retained    \* I/O, or UnavailableCheckpointSink

-----------------------------------------------------------------------------
(* Start and end of the process *)

\* The head a start or a mutation leaves.
Records == recorded' = IF touched THEN recorded ELSE HeadOf(chain')

\* run, up to the engine: the operator may have changed the configuration.
Start(c) ==
    /\ phase = "down"
    /\ Open(c)
    /\ phase' = "opened"
    /\ exit' = "none"
    /\ Records
    /\ UNCHANGED <<touched, lastVerified, accepting, connections, retained, acked>>

\* The end of the process, orderly or not: tasks and memory are gone.  The
\* latch's last cause is kept, for the properties, until the next start.
Ends(how) ==
    /\ phase # "down"
    /\ phase' = "down"
    /\ exit' = how
    /\ lastVerified' = FALSE
    /\ accepting' = {}
    /\ connections' = [c \in Connections |-> Idle]
    /\ tail' = NoTail
    /\ UNCHANGED <<config, cause, touched, retained, acked>>

Crash == Ends("crash") /\ UNCHANGED <<database, recorded>>

\* Opening the ceremony service and the clock may record entries.
StartupEntry(e) ==
    /\ phase = "opened"
    /\ \/ CommitEntry(e, FALSE) /\ Records
       \/ RollBackEntry(e) /\ UNCHANGED recorded
    /\ UNCHANGED <<processVars, retained, acked>>

\* A clock repair: its entry is committed and the process exits without having
\* seen the checkpoint store.
RepairClock(e) ==
    /\ phase = "opened"
    /\ MutationAllowed
    /\ Len(chain) < MaxEntries
    /\ chain' = Append(chain, [key |-> config.current, event |-> e])
    /\ UNCHANGED <<rotations, altered>>
    /\ Records
    /\ Ends("repaired")

\* select_initial_self_head, on a journal that verifies.
SelectAccepted ==
    /\ phase = "opened"
    /\ CachedHeadOk
    /\ StoreAppends(HeadOf(chain))
    /\ lastVerified' = TRUE
    /\ tail' = TailAfterRead
    /\ phase' = "waiting"
    /\ UNCHANGED <<database, config, cause, touched, exit, accepting, connections, history>>

SelectUnlatched ==
    /\ phase = "opened"
    /\ CachedHeadOk
    /\ StoreRejects(HeadOf(chain)) \/ StoreFails
    /\ lastVerified' = TRUE
    /\ tail' = TailAfterRead
    /\ phase' = "waiting"
    /\ UNCHANGED <<database, config, cause, touched, exit, accepting, connections, history>>
\* The store refuses it, or fails: the retained head is kept, the latch closes.
SelectRefused ==
    /\ phase = "opened"
    /\ CachedHeadOk
    /\ \/ StoreRejects(HeadOf(chain)) /\ cause' = Latched("self_rejected")
       \/ StoreFails /\ cause' = Latched("fault")
    /\ lastVerified' = TRUE
    /\ tail' = TailAfterRead
    /\ phase' = "waiting"
    /\ UNCHANGED <<database, config, touched, exit, accepting, connections, history>>

\* verified_audit_head fails and latches.
SelectUnverified ==
    /\ phase = "opened"
    /\ ~CachedHeadOk
    /\ cause' = Latched("journal")
    /\ lastVerified' = (retained # <<>>)
    /\ phase' = "waiting"
    /\ UNCHANGED <<database, config, tail, touched, exit, accepting, connections,
                   retained, history>>

\* connect_authenticated_session: the session is there and authenticates.
Connect ==
    /\ phase = "waiting"
    /\ phase' = "serving"
    /\ accepting' = Endpoints
    /\ UNCHANGED <<journalVars, exit, lastVerified, connections, retained, history>>

\* The socket stays absent until the deadline, or the handshake fails.
NoSession ==
    /\ phase = "waiting"
    /\ Ends("no_session") \/ Ends("fatal")
    /\ UNCHANGED <<database, recorded>>

\* monitor_session_sentinel: the session ended.
SentinelCloses ==
    /\ phase = "serving"
    /\ phase' = "closing"
    /\ UNCHANGED <<journalVars, exit, lastVerified, accepting, connections, retained, history>>

\* An error of one server, or data on the sentinel, ends try_join at once.
ServerFails ==
    /\ phase \in {"serving", "closing"}
    /\ Ends("fatal")
    /\ UNCHANGED <<database, recorded>>

\* wait_for_shutdown wins in the accept loop of an endpoint, which gives its
\* unused permit back and waits for the others; the admin loop has none.
StopAccepting(e) ==
    /\ phase = "closing"
    /\ e \in accepting
    /\ accepting' = accepting \ {e}
    /\ UNCHANGED <<journalVars, phase, exit, lastVerified, connections, retained, history>>

DrainedAccepting == accepting = {}
Drained == accepting = {} /\ \A c \in Connections : connections[c] = Idle

\* drain_connections has every permit of every endpoint back.
Stop ==
    /\ phase = "closing"
    /\ Drained
    /\ Ends("clean")
    /\ UNCHANGED <<database, recorded>>

NoDrainTimeout == FALSE /\ UNCHANGED vars
\* drain_connections gives up after 35 seconds.
DrainTimeout ==
    /\ phase = "closing"
    /\ \E c \in Connections :
          connections[c] # Idle /\ EndpointOf(c) \notin accepting
    /\ Ends("fatal")
    /\ UNCHANGED <<database, recorded>>

-----------------------------------------------------------------------------
(* A connection *)

To(c, task) == connections' = [connections EXCEPT ![c] = task]

\* accept wins in the accept loop, which it may even during a shutdown.
Accept(c) ==
    /\ phase \in {"serving", "closing"}
    /\ EndpointOf(c) \in accepting
    /\ connections[c] = Idle
    /\ To(c, [Idle EXCEPT !.at = "accepted"])
    /\ UNCHANGED <<journalVars, phase, exit, lastVerified, accepting, retained, history>>

\* receive_request fails, or the peer goes away while it is answered.
Disconnect(c) ==
    /\ connections[c].at \in {"accepted", "sending"}
    /\ To(c, Idle)
    /\ UNCHANGED <<journalVars, phase, exit, lastVerified, accepting, retained, history>>

\* An authenticated request.  On the authority edge its journal head was
\* appended to the store first; the control endpoint carries none.  A request
\* the quota refuses is answered like one whose dispatch changes nothing.
Receive(c, method) ==
    /\ connections[c].at = "accepted"
    /\ To(c, [at |-> "dispatching", method |-> method, wrote |-> NoHead])
    /\ UNCHANGED <<journalVars, phase, exit, lastVerified, accepting, retained, history>>

\* checkpoint_request_head_with_context: the store refuses the Broker's head.
\* The latch closes; a mutation is refused, a read goes on.
ReceiveBadHead(c, method) ==
    /\ connections[c].at = "accepted"
    /\ c \in RpcConnections
    /\ cause' = Latched("fault")
    /\ To(c, [at |-> IF method = "read" THEN "dispatching" ELSE "refused",
              method |-> method, wrote |-> NoHead])
    /\ UNCHANGED <<database, config, tail, touched, phase, exit, lastVerified,
                   accepting, retained, history>>

Dispatching(c) ==
    /\ connections[c].at = "dispatching"
    /\ connections[c].method = "mutate"

\* A transaction that commits nothing.
FailEntry(e) ==
    \/ RollBackEntry(e)
    \/ FailAppend
    \/ RefuseMutation
    \/ RefuseDegraded

\* One transaction of a dispatched mutation.
Mutate(c, e, more) ==
    /\ Dispatching(c)
    /\ CommitEntry(e, more)
    /\ Records
    /\ To(c, [connections[c] EXCEPT !.wrote = HeadOf(chain')])
    /\ UNCHANGED <<phase, exit, lastVerified, accepting, retained, acked>>

FailedMutation(c, e) ==
    /\ Dispatching(c)
    /\ FailEntry(e)
    /\ To(c, [connections[c] EXCEPT !.at = "refused"])
    /\ UNCHANGED <<phase, exit, lastVerified, accepting, retained, history>>

UnauditedWrite(c) ==
    /\ connections[c].at = "dispatching"
    /\ WriteUnaudited
    /\ UNCHANGED <<processVars, retained, history>>

\* response_journal_head: the head published with an answer.  The control
\* endpoint publishes only after a mutation.
Publishes(c) == connections[c].method = "mutate" \/ c \in RpcConnections

\* The answer being written: an answer to a mutation carries what it wrote.
Reply(wrote) == [at |-> "sending", method |-> "none", wrote |-> wrote]

PublishedHead(c) == HeadOf(chain)

Answering(c) ==
    /\ connections[c].at \in {"dispatching", "refused"}
    /\ UNCHANGED <<phase, exit, accepting, history>>

\* A read on the control endpoint is answered without a head.
AnswerControlRead(c) ==
    /\ Answering(c)
    /\ ~Publishes(c)
    /\ To(c, Reply(connections[c].wrote))
    /\ UNCHANGED <<journalVars, lastVerified, retained>>

\* The journal verifies and the store takes the head.
Publish(c) ==
    /\ Answering(c)
    /\ Publishes(c)
    /\ CachedHeadOk
    /\ StoreAppends(PublishedHead(c))
    /\ lastVerified' = TRUE
    /\ tail' = TailAfterRead
    /\ To(c, Reply(connections[c].wrote))
    /\ UNCHANGED <<database, config, cause, touched>>

\* The store does not: the latch closes, a mutation gets an error instead of
\* its answer, a read is answered all the same.
MutationsFailToo(c) == TRUE
AnswersAnyway(c) == connections[c].method = "read"
PublishRefused(c) ==
    /\ Answering(c)
    /\ Publishes(c)
    /\ CachedHeadOk
    /\ \/ StoreRejects(PublishedHead(c)) /\ cause' = Latched("self_rejected")
       \/ StoreFails /\ cause' = Latched("fault")
    /\ lastVerified' = TRUE
    /\ tail' = TailAfterRead
    /\ To(c, Reply(IF AnswersAnyway(c) THEN connections[c].wrote ELSE NoHead))
    /\ UNCHANGED <<database, config, touched>>

\* The journal no longer verifies: the latch closes and the last head that did
\* is published, without an append; there is none if it never verified.
PublishUnverified(c) ==
    /\ Answering(c)
    /\ Publishes(c)
    /\ ~CachedHeadOk
    /\ cause' = Latched("journal")
    /\ To(c, Reply(IF lastVerified THEN connections[c].wrote ELSE NoHead))
    /\ UNCHANGED <<database, config, tail, touched, lastVerified, retained>>

\* The answer reaches the client: a mutation that committed is now known to it.
Send(c) ==
    /\ connections[c].at = "sending"
    /\ acked' = IF /\ connections[c].wrote # NoHead
                   /\ ~touched
                   /\ Len(connections[c].wrote) > Len(acked)
                THEN connections[c].wrote ELSE acked
    /\ To(c, Idle)
    /\ UNCHANGED <<journalVars, phase, exit, lastVerified, accepting, retained, recorded>>

-----------------------------------------------------------------------------
(* The admin endpoint *)

\* The admin loop takes a connection, even during a shutdown, and serves it until
\* its result is written, the client is gone or 5 seconds are over.  A command,
\* set_exposure_mode or install_remote_surface, is one audited transaction; no
\* head is published, before its result or after.
Administer(e) ==
    /\ phase \in {"serving", "closing"}
    /\ "admin" \in accepting
    /\ CommitEntry(e, FALSE) \/ FailEntry(e)
    /\ UNCHANGED <<processVars, retained, history>>

-----------------------------------------------------------------------------
(* Other hands *)

AnotherConnection ==
    /\ ForeignWrite
    /\ acked' = <<>>
    /\ recorded' = <<>>
    /\ UNCHANGED <<processVars, retained>>

OldDatabase(n) ==
    /\ phase = "down"
    /\ OlderCopy(n)
    /\ acked' = <<>>
    /\ recorded' = <<>>
    /\ UNCHANGED <<processVars, retained>>

Next ==
    \/ \E c \in Configs : Start(c)
    \/ \E e \in Events : StartupEntry(e) \/ RepairClock(e)
    \/ SelectAccepted \/ SelectRefused \/ SelectUnverified
    \/ Connect \/ NoSession \/ SentinelCloses \/ ServerFails
    \/ \E e \in Endpoints : StopAccepting(e)
    \/ Stop \/ DrainTimeout \/ Crash
    \/ \E c \in Connections :
          \/ Accept(c) \/ Disconnect(c)
          \/ \E m \in {"read", "mutate"} : Receive(c, m) \/ ReceiveBadHead(c, m)
          \/ \E e \in Events :
                \/ \E more \in BOOLEAN : Mutate(c, e, more)
                \/ FailedMutation(c, e)
          \/ UnauditedWrite(c)
          \/ AnswerControlRead(c) \/ Publish(c) \/ PublishRefused(c)
          \/ PublishUnverified(c) \/ Send(c)
    \/ \E e \in Events : Administer(e)
    \/ AnotherConnection
    \/ \E n \in 0 .. MaxEntries - 1 : OldDatabase(n)

\* The runtime keeps polling the accept loops, the admin loop's connections end
\* after 5 seconds, and the drain timer fires.
Fairness ==
    /\ \A e \in Endpoints : WF_vars(StopAccepting(e))
    /\ WF_vars(Stop)
    /\ WF_vars(DrainTimeout)

Spec == Init /\ [][Next]_vars /\ Fairness

-----------------------------------------------------------------------------
(* Properties *)

Serves == phase \in {"waiting", "serving", "closing"}

\* A Signer that serves mutations is not behind what it once published: an
\* older copy of the database is caught by the checkpoint store, and stays
\* caught, as long as the copy was not extended past the retained head before
\* the store was asked.
NeverBehindCheckpoint ==
    Serves /\ ~Degraded =>
        \/ Len(chain) > Len(retained)
        \/ HeadOf(chain) = retained

\* A mutation whose success was answered on rpc or control is in the checkpoint
\* store, so no older database can lose it unnoticed, across crashes, key
\* rotations, clock repairs, concurrent answers and admin commands, of which
\* success is answered without a publication.  (If others write to the database
\* this is lost: the last verified head is then answered for a committed
\* mutation.)
AcknowledgedIsCheckpointed ==
    ~touched => IsPrefix(acked, retained)

\* A clean stop leaves nothing unpublished that a start found or that was recorded
\* on rpc or control, so an older copy without it is caught at the next start.
\* The commands of the admin endpoint since the last publication are the exception:
\* an older copy can lose them unnoticed.
CleanStopIsPublished ==
    phase = "down" /\ exit = "clean" /\ ~Degraded /\ ~touched =>
        IsPrefix(recorded, retained)

\* The session's end stops the Signer, even if a peer never reads its answer.
SessionEnds == phase = "closing" ~> phase = "down"
=============================================================================
