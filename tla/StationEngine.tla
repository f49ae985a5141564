--------------------------- MODULE StationEngine ---------------------------
(***************************************************************************)
(* The station receiver at run time (competition/station_runtime.py): the  *)
(* accept thread, one thread per connection, the engine's lock, the four   *)
(* station slots, the fatal flag after a storage failure, shutdown, and a  *)
(* crash with the restart after it.                                        *)
(*                                                                         *)
(* A connection's thread is at pc[c]:                                      *)
(*   "new"        not accepted yet                                         *)
(*   "reading"    in the receive loop of StationPeer.run                   *)
(*   "frame"      popped a frame, waits for the engine's lock              *)
(*   "recording"  in StationEngine.receive, before store.record      lock  *)
(*   "replying"   in StationEngine.receive, before peer.send         lock  *)
(*   "refusing"   in receive's handler of ProtocolError              lock  *)
(*   "failed"     a sqlite error left the loop, before engine.fail         *)
(*   "leaving"    in the finally part, closed, before disconnected         *)
(*   "cutoff"     a sqlite error in the finally part, before engine.fail   *)
(*   "exiting"    run has returned, still in StationService.clients        *)
(*   "done"       the thread has ended                                     *)
(* Rows and acknowledgements outlive the process; all else is its memory.  *)
(***************************************************************************)
EXTENDS Integers, Sequences, FiniteSets

CONSTANTS
    Conns,       \* connections, each of them accepted at most once
    Keys,        \* station slots: (project, station)
    MsgIds,      \* msg_id values
    Contents,    \* what a result reports
    None,        \* no key, no frame, no connection
    MaxClients,  \* connections served at a time (16)
    ErrorLimit,  \* protocol errors a connection may make (5)
    MaxRows      \* bound on the observations of one behaviour

ASSUME EngineConstants ==
    /\ None \notin Conns \cup Keys
    /\ MaxClients \in Nat \ {0}
    /\ ErrorLimit \in Nat \ {0}
    /\ MaxRows \in Nat

VARIABLES
    runtime,   \* "running", "stopping" (StationService.stopping is set), "joining",
               \* "closed", "stuck" (stop() raised) or "down" (no process)
    fatal,     \* StationEngine.fatal is set
    joined,    \* the clients stop() listed, closes and joins
    peers,     \* StationEngine.peers
    pc,        \* where each connection's thread is
    alive,     \* StationPeer.alive
    key,       \* StationPeer.key
    last,      \* StationPeer.last_result_id; 0 for None
    errors,    \* protocol errors of the connection so far
    hand,      \* the frame a thread has popped
    rows,      \* table results; by is the connection whose thread stored the row
    acked      \* results whose result_ack was sent

memory == <<peers, pc, alive, key, last, errors, hand>>
service == <<runtime, fatal, joined>>
stored == <<rows, acked>>
vars == <<service, memory, stored>>

-----------------------------------------------------------------------------

Hellos == [type : {"hello"}, key : Keys]
Results == [type : {"result"}, key : Keys, msg : MsgIds, content : Contents]
(* "ping", and "bad": a frame no message can be read from                  *)
Others == [type : {"ping", "bad"}]
Frames == Hellos \cup Results \cup Others

Holding == {"recording", "replying", "refusing"}
LockFree == \A c \in Conns : pc[c] \notin Holding

ClientsLeft == {c \in Conns : pc[c] \notin {"new", "done"}}

Init ==
    /\ runtime = "running" /\ fatal = FALSE /\ joined = {}
    /\ peers = [k \in Keys |-> None]
    /\ pc = [c \in Conns |-> "new"]
    /\ alive = [c \in Conns |-> FALSE]
    /\ key = [c \in Conns |-> None]
    /\ last = [c \in Conns |-> 0]
    /\ errors = [c \in Conns |-> 0]
    /\ hand = [c \in Conns |-> None]
    /\ rows = <<>> /\ acked = {}

-----------------------------------------------------------------------------
(* The accept thread. It holds the service's lock, as stop() does when it  *)
(* lists the clients. The thread may end for good at any time (an OSError  *)
(* of accept, or of the new connection's socket): nothing below relies on  *)
(* an Accept to happen.                                                    *)

ServingLate == runtime \in {"running", "stopping", "joining"}  \* fault: stopping not re-read
Serving == runtime = "running"

Accept(c) ==
    /\ Serving
    /\ pc[c] = "new"
    /\ Cardinality(ClientsLeft) < MaxClients /\ ~fatal
    /\ pc' = [pc EXCEPT ![c] = "reading"]
    /\ alive' = [alive EXCEPT ![c] = TRUE]
    /\ UNCHANGED <<service, peers, key, last, errors, hand, stored>>

-----------------------------------------------------------------------------
(* StationPeer.run                                                         *)

PopFrame(c, f) ==
    /\ pc[c] = "reading" /\ alive[c]
    /\ pc' = [pc EXCEPT ![c] = "frame"]
    /\ hand' = [hand EXCEPT ![c] = f]
    /\ UNCHANGED <<service, peers, alive, key, last, errors, stored>>

Leave(c) ==
    /\ pc' = [pc EXCEPT ![c] = "leaving"]
    /\ alive' = [alive EXCEPT ![c] = FALSE]

TimesOutBeforeHello(c) == key[c] = None  \* fault: the test on the key reversed
TimesOut(c) == key[c] # None

(* The loop ends: 30 s without a valid message on an identified connection *)
IdleTimeout(c) ==
    /\ pc[c] = "reading" /\ TimesOut(c)
    /\ Leave(c)
    /\ UNCHANGED <<service, peers, key, last, errors, hand, stored>>

(* or somebody closed the socket, who may be another thread;               *)
LoopSeesClose(c) ==
    /\ pc[c] = "reading" /\ ~alive[c]
    /\ Leave(c)
    /\ UNCHANGED <<service, peers, key, last, errors, hand, stored>>

(* or the remote end closed, a frame stayed incomplete for 5 s, grew past  *)
(* its limit, was misframed, or came too fast. The last two are logged and *)
(* answered first, without the engine's lock, and the log may fail.        *)
LoopEnds(c) ==
    /\ pc[c] = "reading" /\ alive[c]
    /\ \/ Leave(c)
       \/ pc' = [pc EXCEPT ![c] = "failed"] /\ UNCHANGED alive
    /\ UNCHANGED <<service, peers, key, last, errors, hand, stored>>

-----------------------------------------------------------------------------
(* StationEngine.receive, under the engine's lock                          *)

Identifies(f) == f.type \in {"hello", "result"}

OtherOwner(c, k) == peers[k] \notin {None, c} /\ alive[peers[k]]

(* BAD_..., STATION_MISMATCH, STATION_BUSY and IDENTIFY_FIRST              *)
Invalid(c, f) ==
    \/ f.type = "bad"
    \/ f.type = "ping" /\ key[c] = None
    \/ Identifies(f) /\ (key[c] \notin {None, f.key} \/ OtherOwner(c, f.key))

(* The slot is taken when the connection first identifies itself.          *)
Bind(c, f) ==
    IF Identifies(f) /\ key[c] = None
    THEN key' = [key EXCEPT ![c] = f.key] /\ peers' = [peers EXCEPT ![f.key] = c]
    ELSE UNCHANGED <<key, peers>>

IgnoreFatal == FALSE  \* fault: fatal looked at before the lock is taken, not after
Refused == fatal

(* A storage failure happened before this thread got the lock.             *)
ReceiveFatal(c) ==
    /\ pc[c] = "frame" /\ LockFree /\ Refused
    /\ Leave(c)
    /\ hand' = [hand EXCEPT ![c] = None]
    /\ UNCHANGED <<service, peers, key, last, errors, stored>>

(* The frame is checked, the slot bound, the RX event logged; the log may  *)
(* fail once the slot is bound.                                            *)
ReceiveValid(c) ==
    /\ pc[c] = "frame" /\ LockFree /\ ~Refused
    /\ ~Invalid(c, hand[c])
    /\ Bind(c, hand[c])
    /\ \/ pc' = [pc EXCEPT ![c] = IF hand[c].type = "result" THEN "recording" ELSE "replying"]
       \/ pc' = [pc EXCEPT ![c] = "failed"]
    /\ UNCHANGED <<service, alive, last, errors, hand, stored>>

ReceiveInvalid(c) ==
    /\ pc[c] = "frame" /\ LockFree /\ ~Refused
    /\ Invalid(c, hand[c])
    /\ pc' = [pc EXCEPT ![c] = "refusing"]
    /\ UNCHANGED <<service, peers, alive, key, last, errors, hand, stored>>

Entry(f) == [key |-> f.key, msg |-> f.msg, content |-> f.content]
EntryOf(row) == [key |-> row.key, msg |-> row.msg, content |-> row.content]

KnownHere(c, f) ==  \* fault: the message looked for among the connection's own rows
    {i \in DOMAIN rows : rows[i].key = f.key /\ rows[i].msg = f.msg /\ rows[i].by = c}
Known(c, f) == {i \in DOMAIN rows : rows[i].key = f.key /\ rows[i].msg = f.msg}

RememberAlways(c, id) == last' = [last EXCEPT ![c] = id]  \* fault: duplicates count too
RememberNew(c, id) ==
    IF id = Len(rows) + 1 THEN last' = [last EXCEPT ![c] = id] ELSE UNCHANGED last

(* store.record: a new row, a duplicate, MSG_ID_CONFLICT, or a rolled back *)
(* transaction                                                             *)
Record(c) ==
    LET f == hand[c] IN
    /\ pc[c] = "recording"
    /\ \/ /\ Known(c, f) = {} /\ Len(rows) < MaxRows
          /\ rows' = Append(rows, [key |-> f.key, msg |-> f.msg, content |-> f.content, by |-> c])
          /\ RememberNew(c, Len(rows) + 1)
          /\ pc' = [pc EXCEPT ![c] = "replying"]
       \/ \E i \in Known(c, f) :
             /\ rows[i].content = f.content
             /\ RememberNew(c, i)
             /\ pc' = [pc EXCEPT ![c] = "replying"]
             /\ UNCHANGED rows
       \/ \E i \in Known(c, f) :
             /\ rows[i].content # f.content
             /\ pc' = [pc EXCEPT ![c] = "refusing"]
             /\ UNCHANGED <<rows, last>>
       \/ /\ pc' = [pc EXCEPT ![c] = "failed"]
          /\ UNCHANGED <<rows, last>>
    /\ UNCHANGED <<service, peers, alive, key, errors, hand, acked>>

(* peer.send after the work: the reply leaves, and the TX event is logged  *)
(* or fails; or the socket is gone, and TX_FAILED is logged or fails.      *)
Reply(c) ==
    /\ pc[c] = "replying"
    /\ \/ /\ alive[c]
          /\ acked' = IF hand[c].type = "result" THEN acked \cup {Entry(hand[c])} ELSE acked
          /\ \/ pc' = [pc EXCEPT ![c] = "reading"]
             \/ pc' = [pc EXCEPT ![c] = "failed"]
          /\ UNCHANGED alive
       \/ Leave(c) /\ UNCHANGED acked
       \/ pc' = [pc EXCEPT ![c] = "failed"] /\ UNCHANGED <<alive, acked>>
    /\ hand' = [hand EXCEPT ![c] = None]
    /\ UNCHANGED <<service, peers, key, last, errors, rows>>

AtLimitLate(n) == n > ErrorLimit  \* fault: one error too many
AtLimit(n) == n >= ErrorLimit

(* RX_ERROR is logged and answered; the loop counts the error.             *)
Refuse(c) ==
    /\ pc[c] = "refusing"
    /\ \/ /\ alive[c]
          /\ errors' = [errors EXCEPT ![c] = @ + 1]
          /\ IF AtLimit(errors[c] + 1) THEN Leave(c)
             ELSE pc' = [pc EXCEPT ![c] = "reading"] /\ UNCHANGED alive
       \/ Leave(c) /\ UNCHANGED errors
       \/ pc' = [pc EXCEPT ![c] = "failed"] /\ UNCHANGED <<alive, errors>>
    /\ hand' = [hand EXCEPT ![c] = None]
    /\ UNCHANGED <<service, peers, key, last, stored>>

-----------------------------------------------------------------------------
(* Storage failure                                                         *)

Owners == {peers[k] : k \in Keys}
NoOwners == {}  \* fault: fail() only sets the flag

FailedClosing == Owners
CloseOwners(c) == alive' = [d \in Conns |-> alive[d] /\ d \notin FailedClosing /\ d # c]

(* StationEngine.fail in a connection's thread, which closes its own       *)
(* socket next. The lock was free between the error and this step.         *)
Fail(c) ==
    /\ pc[c] \in {"failed", "cutoff"} /\ LockFree
    /\ fatal' = TRUE
    /\ CloseOwners(c)
    /\ pc' = [pc EXCEPT ![c] = IF pc[c] = "failed" THEN "leaving" ELSE "exiting"]
    /\ hand' = [hand EXCEPT ![c] = None]
    /\ UNCHANGED <<runtime, joined, peers, key, last, errors, stored>>

(* StationEngine.fail in a web request that met a sqlite error             *)
WebFail ==
    /\ runtime = "running" /\ LockFree
    /\ fatal' = TRUE
    /\ CloseOwners(None)
    /\ UNCHANGED <<runtime, joined, peers, pc, key, last, errors, hand, stored>>

-----------------------------------------------------------------------------
(* The end of a connection                                                 *)

FreesAny(c) == key[c] # None  \* fault: the slot popped whoever holds it
Frees(c) == key[c] # None /\ peers[key[c]] = c

(* StationEngine.disconnected, whose event may fail; the event for an      *)
(* incomplete frame before it may fail too, and then it is not called.     *)
Cleanup(c) ==
    /\ pc[c] = "leaving"
    /\ \/ /\ LockFree
          /\ peers' = IF Frees(c) THEN [peers EXCEPT ![key[c]] = None] ELSE peers
          /\ \/ pc' = [pc EXCEPT ![c] = "exiting"]
             \/ ~fatal /\ pc' = [pc EXCEPT ![c] = "cutoff"]
       \/ /\ ~fatal
          /\ pc' = [pc EXCEPT ![c] = "cutoff"]
          /\ UNCHANGED peers
    /\ UNCHANGED <<service, alive, key, last, errors, hand, stored>>

(* StationService._run takes the connection off the clients.               *)
Exit(c) ==
    /\ pc[c] = "exiting"
    /\ pc' = [pc EXCEPT ![c] = "done"]
    /\ UNCHANGED <<service, peers, alive, key, last, errors, hand, stored>>

-----------------------------------------------------------------------------
(* StationRuntime.close and StationService.stop                            *)

BeginStop ==
    /\ runtime = "running"
    /\ runtime' = "stopping"
    /\ UNCHANGED <<fatal, joined, memory, stored>>

ListClients ==
    /\ runtime = "stopping"
    /\ runtime' = "joining" /\ joined' = ClientsLeft
    /\ UNCHANGED <<fatal, memory, stored>>

ClosedIfOwner(c) == c \in joined /\ key[c] # None  \* fault: unidentified ones forgotten
ToClose(c) == c \in joined

(* peer.close() from the stopping thread, which does not take the engine's *)
(* lock: a frame already in hand is still received.                        *)
CloseClient(c) ==
    /\ runtime = "joining" /\ ToClose(c) /\ alive[c]
    /\ alive' = [alive EXCEPT ![c] = FALSE]
    /\ UNCHANGED <<service, peers, pc, key, last, errors, hand, stored>>

(* Every listed thread has ended: the store is backed up and closed.       *)
CloseStore ==
    /\ runtime = "joining" /\ \A c \in joined : pc[c] = "done"
    /\ runtime' = "closed"
    /\ UNCHANGED <<fatal, joined, memory, stored>>

(* The 10 s to join are over: stop() raises, and the store stays open.     *)
JoinTimeout ==
    /\ runtime = "joining"
    /\ \A c \in joined : ~alive[c]
    /\ \E c \in joined : pc[c] # "done"
    /\ runtime' = "stuck"
    /\ UNCHANGED <<fatal, joined, memory, stored>>

-----------------------------------------------------------------------------
(* The process ends: after close(), or killed at any point. The rows are   *)
(* durable (one committed transaction each); its memory is gone.           *)
ProcessEnds ==
    /\ runtime # "down"
    /\ runtime' = "down"
    /\ pc' = [c \in Conns |-> IF pc[c] = "new" THEN "new" ELSE "done"]
    /\ alive' = [c \in Conns |-> FALSE]
    /\ peers' = [k \in Keys |-> None]
    /\ key' = [c \in Conns |-> None]
    /\ last' = [c \in Conns |-> 0]
    /\ errors' = [c \in Conns |-> 0]
    /\ hand' = [c \in Conns |-> None]
    /\ fatal' = FALSE /\ joined' = {}
    /\ UNCHANGED stored

(* A new process, after a crash or after close() and exit.                 *)
Restart ==
    /\ runtime = "down"
    /\ runtime' = "running"
    /\ UNCHANGED <<fatal, joined, memory, stored>>

-----------------------------------------------------------------------------

Thread(c) ==
    \/ \E f \in Frames : PopFrame(c, f)
    \/ IdleTimeout(c) \/ LoopSeesClose(c) \/ LoopEnds(c)
    \/ ReceiveFatal(c) \/ ReceiveValid(c) \/ ReceiveInvalid(c)
    \/ Record(c) \/ Reply(c) \/ Refuse(c)
    \/ Fail(c) \/ Cleanup(c) \/ Exit(c)

Next ==
    \/ \E c \in Conns : Accept(c) \/ Thread(c) \/ CloseClient(c)
    \/ WebFail
    \/ BeginStop \/ ListClients \/ CloseStore \/ JoinTimeout
    \/ ProcessEnds \/ Restart

Spec == Init /\ [][Next]_vars

LockStep(c) ==
    LockFree /\ (ReceiveFatal(c) \/ ReceiveValid(c) \/ ReceiveInvalid(c) \/ Fail(c) \/ Cleanup(c))
FreeStep(c) ==
    Record(c) \/ Reply(c) \/ Refuse(c) \/ IdleTimeout(c) \/ LoopSeesClose(c) \/ Exit(c)

(* A thread that can go on does. A step that takes the engine's lock is    *)
(* taken if the lock is free again and again: each connection handles at   *)
(* most 100 frames a second, so nobody holds the lock for good. Nothing    *)
(* makes a client send, a disk fail, an operator stop the receiver or the  *)
(* machine crash.                                                          *)
Fairness ==
    /\ \A c \in Conns : SF_vars(LockStep(c)) /\ WF_vars(FreeStep(c)) /\ WF_vars(CloseClient(c))
    /\ WF_vars(ListClients)
    /\ WF_vars(CloseStore)

FairSpec == Spec /\ Fairness

-----------------------------------------------------------------------------

TypeOK ==
    /\ runtime \in {"running", "stopping", "joining", "closed", "stuck", "down"}
    /\ fatal \in BOOLEAN /\ joined \subseteq Conns
    /\ peers \in [Keys -> Conns \cup {None}]
    /\ pc \in [Conns -> {"new", "reading", "frame", "failed", "leaving", "cutoff",
                         "exiting", "done"} \cup Holding]
    /\ alive \in [Conns -> BOOLEAN]
    /\ key \in [Conns -> Keys \cup {None}]
    /\ last \in [Conns -> Nat]
    /\ errors \in [Conns -> 0 .. ErrorLimit]
    /\ hand \in [Conns -> Frames \cup {None}]
    /\ rows \in Seq([key : Keys, msg : MsgIds, content : Contents, by : Conns])
    /\ acked \subseteq [key : Keys, msg : MsgIds, content : Contents]

(* A station slot belongs to its live connection: a connection that        *)
(* identified itself and is not closed is the one the engine knows for its *)
(* station, whatever late clean-up of an older connection runs. So a       *)
(* station never has two live connections.                                 *)
LiveOwner ==
    \A c \in Conns : alive[c] /\ key[c] # None => peers[key[c]] = c

Latest(k) == {i \in DOMAIN rows : rows[i].key = k /\ \A j \in DOMAIN rows : rows[j].key = k => j <= i}

(* StationEngine.snapshot                                                  *)
ShownCurrent(k) ==
    /\ ~fatal /\ peers[k] # None /\ alive[peers[k]]
    /\ last[peers[k]] \in Latest(k)

(* The display calls a station's result current only if the connection now *)
(* at the station reported it: never a row of an earlier connection that   *)
(* was merely repeated, nor one from before a restart.                     *)
CurrentIsOwn ==
    \A k \in Keys : ShownCurrent(k) => rows[last[peers[k]]].by = peers[k]

(* After a storage failure no station is connected any more: only a        *)
(* connection that never identified itself can still be open.              *)
FatalCutsOff ==
    fatal => \A c \in Conns : alive[c] => key[c] = None

(* ... and not one observation is stored before a restart, not even from a *)
(* frame that was already in a thread's hand.                              *)
FatalFreezes == [][fatal /\ fatal' => rows' = rows]_vars

(* The store is closed only when no thread can still use it.               *)
ClosedIsQuiet == runtime = "closed" => ClientsLeft = {}

(* The receiver keeps the promise of ObservationLog.                       *)
Log == INSTANCE ObservationLog WITH
    Entries <- [key : Keys, msg : MsgIds, content : Contents],
    SameMessage <- LAMBDA a, b : a.key = b.key /\ a.msg = b.msg,
    log <- [i \in DOMAIN rows |-> EntryOf(rows[i])],
    acked <- acked
KeepsLog == Log!Spec

(* A connection's place among the MaxClients is returned: its thread ends  *)
(* unless the client keeps sending, or never identified itself - a silent  *)
(* connection without a station is not timed out.                          *)
PlaceIsReturned ==
    \A c \in Conns :
        []<>(pc[c] \in {"new", "frame", "done"} \/ (pc[c] = "reading" /\ key[c] = None))

(* stop() comes to an end: every connection's thread leaves its loop,      *)
(* whether identified or not and whatever it was doing.                    *)
StopEnds == runtime = "stopping" ~> runtime \in {"closed", "stuck", "down"}

=============================================================================
