--------------------------- MODULE RefereeEngine ---------------------------
(***************************************************************************)
(* The referee server: Engine of competition/core.py over the tables of    *)
(* competition/storage.py, driven by the judge's commands, by the threads  *)
(* of the TCP connections and by the round timer of competition/network.py.*)
(*                                                                         *)
(* A handler runs under Engine.lock from beginning to end, so it is one    *)
(* step. It writes to the database and to a socket on the way. A handler   *)
(* may stop at a failed write: inside receive and tick, fail() follows     *)
(* under the same lock; elsewhere the error travels to the command or the  *)
(* connection's loop first, and others may run before fail() does.         *)
(* A crash between two writes leaves the tables as a failed write does.    *)
(*                                                                         *)
(* Time is a set: the rounds whose time limit has passed.                  *)
(***************************************************************************)
EXTENDS Integers, Sequences, FiniteSets

CONSTANTS
    Conns,       \* connections, each of them accepted at most once
    Sessions,    \* session ids, each of them created at most once
    MsgIds,      \* msg_id values of results
    Verdicts,    \* final verdicts
    None,        \* no session, no connection, no revision, no verdict
    MaxRounds,   \* bound on the rounds of one behaviour
    MaxRevision  \* bound on the target revisions of a session

ASSUME RefereeConstants ==
    /\ None \notin Conns \cup Sessions \cup Nat \cup Verdicts \cup {"OPEN", "CLOSED", "INTERRUPTED"}
    /\ MaxRounds \in Nat /\ MaxRevision \in Nat \ {0}

VARIABLES
    opened,    \* table sessions: state of each session; None if not created
    rounds,    \* table rounds; the id of a round is its place
    receipts,  \* table receipts
    acked,     \* the result_acks sent
    process,   \* "up", "closing" (Runtime.close has begun) or "down"
    listening, \* the listener and its timer thread run
    session,   \* Engine.session, its id
    revision,  \* Engine.session["target_revision"]
    peer,      \* Engine.peer
    active,    \* Engine.active_id; 0 for None
    started,   \* the keys of Engine.started_ns
    expired,   \* rounds whose time limit has passed
    fatal,     \* Engine.fatal is set
    failing,   \* sqlite errors on their way to fail(): of the "web" and of a "peer"
    thread,    \* "new", "open", "busy" (a frame in hand) or "done"
    alive,     \* WirePeer.alive
    member,    \* WirePeer.session_id
    confirmed  \* WirePeer.target_revision of the peer

tables == <<opened, rounds, receipts, acked>>
engine == <<session, revision, active, started>>
errors == <<fatal, failing>>
peers == <<thread, member, confirmed>>
vars == <<tables, process, listening, engine, peer, alive, expired, errors, peers>>

-----------------------------------------------------------------------------

Statuses == {"WAITING", "RECEIVED", "LATE", "TIMEOUT", "CANCELLED", "INTERRUPTED"}
Rounds == DOMAIN rounds
Revisions == 1 .. MaxRevision

Init ==
    /\ opened = [s \in Sessions |-> None]
    /\ rounds = <<>> /\ receipts = {} /\ acked = {}
    /\ process = "up" /\ listening = FALSE
    /\ session = None /\ revision = None /\ peer = None
    /\ active = 0 /\ started = {} /\ expired = {}
    /\ fatal = FALSE /\ failing = {}
    /\ thread = [c \in Conns |-> "new"]
    /\ alive = [c \in Conns |-> FALSE]
    /\ member = [c \in Conns |-> None]
    /\ confirmed = None

Close(dead) == alive' = [c \in Conns |-> alive[c] /\ c \notin dead]

(* Inside receive and tick a failed write calls fail() at once; closing is *)
(* what the handler itself closes, owner the peer it leaves.               *)
MayFail(closing, owner) ==
    /\ UNCHANGED failing
    /\ \/ UNCHANGED fatal /\ Close(closing)
       \/ fatal' = TRUE /\ Close(closing \cup {owner})

(* Elsewhere fail() is still to come.                                      *)
MayFailLater(who) == UNCHANGED fatal /\ failing' \in {failing, failing \cup {who}}
FailsLater(who) == UNCHANGED fatal /\ failing' = failing \cup {who}

SetStatus(r, status) == rounds' = [rounds EXCEPT ![r].status = status]

-----------------------------------------------------------------------------
(* The judge's commands, one at a time                                     *)

Commanding == process = "up" /\ "web" \notin failing /\ ~fatal

NewSession(s) ==
    /\ Commanding /\ active = 0 /\ opened[s] = None
    /\ LET closed == IF session = None THEN opened ELSE [opened EXCEPT ![session] = "CLOSED"] IN
       \/ (* the old session is closed, and its log entry fails            *)
          /\ session # None
          /\ opened' = closed /\ FailsLater("web")
          /\ UNCHANGED <<engine, peer, confirmed, alive, expired>>
       \/ (* and its connection, and the new session cannot be stored      *)
          /\ opened' = closed /\ FailsLater("web")
          /\ peer' = None /\ confirmed' = None /\ Close({peer})
          /\ UNCHANGED <<engine, expired>>
       \/ /\ opened' = [closed EXCEPT ![s] = "OPEN"] /\ MayFailLater("web")
          /\ peer' = None /\ confirmed' = None /\ Close({peer})
          /\ session' = s /\ revision' = 1 /\ active' = 0
          /\ started' = {} /\ expired' = {}
    /\ UNCHANGED <<rounds, receipts, acked, process, listening, thread, member>>

Connected == peer # None /\ alive[peer]

TargetFreeAnytime == TRUE  \* fault: the target may change while a round waits
TargetFree == active = 0

(* The connection must confirm the new target before the next round.       *)
SetTarget ==
    /\ Commanding /\ session # None /\ TargetFree
    /\ revision < MaxRevision
    /\ revision' = revision + 1
    /\ MayFailLater("web")
    /\ \/ /\ Connected
          /\ confirmed' = None
          /\ Close({}) \/ Close({peer})
       \/ /\ ~Connected \/ "web" \in failing'
          /\ UNCHANGED <<confirmed, alive>>
    /\ UNCHANGED <<tables, process, listening, session, peer, active, started, expired, thread, member>>

Ready == Connected /\ confirmed = revision

(* The round is stored before it is sent. If it cannot be sent it is       *)
(* interrupted, unless that write fails too.                               *)
StartRound(timed) ==
    /\ Commanding /\ session # None /\ active = 0 /\ Ready
    /\ Len(rounds) < MaxRounds
    /\ LET r == Len(rounds) + 1
           row(status) == [session |-> session, revision |-> revision, timed |-> timed,
                           status |-> status, actual |-> None]
       IN  /\ started' = started \cup {r}
           /\ \/ /\ rounds' = Append(rounds, row("WAITING")) /\ active' = r
                 /\ \/ MayFailLater("web") /\ UNCHANGED alive
                    \/ FailsLater("web") /\ Close({peer})
              \/ /\ rounds' = Append(rounds, row("INTERRUPTED")) /\ active' = 0
                 /\ MayFailLater("web") /\ Close({peer})
    /\ UNCHANGED <<opened, receipts, acked, process, listening, session, revision, peer,
                   expired, peers>>

EndStatus(status) == status \in {"CANCELLED", "INTERRUPTED"}

(* cancel_round, with the status the caller gives                          *)
CancelRound(status) ==
    /\ Commanding /\ active # 0 /\ EndStatus(status)
    /\ SetStatus(active, status) /\ active' = 0
    /\ MayFailLater("web")
    /\ Close({}) \/ Close({peer})
    /\ UNCHANGED <<opened, receipts, acked, process, listening, session, revision, started,
                   peer, expired, peers>>

(* Runtime end_session: Engine.close_session, then the memory of it        *)
EndSession ==
    /\ Commanding /\ session # None /\ active = 0
    /\ opened' = [opened EXCEPT ![session] = "CLOSED"]
    /\ \/ FailsLater("web") /\ UNCHANGED <<engine, peer, confirmed, alive, expired>>
       \/ /\ UNCHANGED errors
          /\ Close({peer}) /\ peer' = None /\ confirmed' = None
          /\ session' = None /\ revision' = None /\ active' = 0
          /\ started' = {} /\ expired' = {}
    /\ UNCHANGED <<rounds, receipts, acked, process, listening, thread, member>>

StartListener ==
    /\ Commanding /\ ~listening
    /\ listening' = TRUE
    /\ UNCHANGED <<tables, process, engine, peer, alive, expired, errors, peers>>

LeavesRound == FALSE  \* fault: the listener stopped with the round still waiting
EndsRound == active # 0 /\ ~fatal

(* Service.stop: a waiting round is interrupted, the timer ends, and every *)
(* connection is closed; or the first write fails and stop() raises.       *)
StopListener ==
    /\ process \in {"up", "closing"} /\ listening
    /\ "web" \notin failing
    /\ \/ /\ IF EndsRound
             THEN SetStatus(active, "INTERRUPTED") /\ active' = 0
             ELSE UNCHANGED <<rounds, active>>
          /\ listening' = FALSE /\ Close(Conns)
          /\ MayFailLater("web")
       \/ /\ EndsRound /\ FailsLater("web")
          /\ UNCHANGED <<rounds, active, listening, alive>>
    /\ UNCHANGED <<opened, receipts, acked, process, session, revision, started, peer,
                   expired, peers>>

-----------------------------------------------------------------------------
(* Connections                                                             *)

Connect(c) ==
    /\ process = "up" /\ listening /\ thread[c] = "new"
    /\ thread' = [thread EXCEPT ![c] = "open"]
    /\ alive' = [alive EXCEPT ![c] = TRUE]
    /\ MayFailLater("peer")
    /\ UNCHANGED <<tables, process, listening, engine, peer, expired, member, confirmed>>

(* The loop takes a complete frame; the socket may be closed before the    *)
(* engine handles it.                                                      *)
TakeFrame(c) ==
    /\ thread[c] = "open" /\ alive[c]
    /\ thread' = [thread EXCEPT ![c] = "busy"]
    /\ UNCHANGED <<tables, process, listening, engine, peer, alive, expired, errors,
                   member, confirmed>>

(* The remote end, a timeout, a limit or an error ends the loop.           *)
LoopEnds(c) ==
    /\ thread[c] = "open" /\ alive[c] /\ Close({c})
    /\ MayFailLater("peer")
    /\ UNCHANGED <<tables, process, listening, engine, peer, expired, peers>>

LostAnyway(c) == peer # None  \* fault: disconnected() does not ask whose callback it is
Lost(c) == peer = c

(* Engine.disconnected, in the finally part of run. If _hello has already  *)
(* reported the connection, it is not the peer any more and only a log     *)
(* entry is saved.                                                         *)
ThreadEnds(c) ==
    /\ thread[c] = "open" /\ ~alive[c]
    /\ thread' = [thread EXCEPT ![c] = "done"]
    /\ member' = [member EXCEPT ![c] = None]
    /\ \/ /\ peer' = IF Lost(c) THEN None ELSE peer
          /\ confirmed' = IF Lost(c) THEN None ELSE confirmed
          /\ IF fatal THEN UNCHANGED errors ELSE MayFailLater("peer")
       \/ (* the entry for an incomplete frame fails before               *)
          /\ ~fatal /\ FailsLater("peer")
          /\ UNCHANGED <<peer, confirmed>>
    /\ UNCHANGED <<tables, process, listening, engine, alive, expired>>

Handles(c) == thread[c] = "busy" /\ thread' = [thread EXCEPT ![c] = "open"]

ReceiveFatal(c) ==
    /\ Handles(c) /\ fatal
    /\ Close({c})
    /\ UNCHANGED <<tables, process, listening, engine, peer, expired, errors,
                   member, confirmed>>

(* A frame that changes nothing: ping, get_target, get_state, or one that  *)
(* receive answers with an error. Only the counters of the round change,   *)
(* which are left out. A connection that is not the peer is closed.        *)
ReceiveOther(c) ==
    /\ Handles(c) /\ ~fatal
    /\ \/ MayFail({}, peer)
       \/ peer = c /\ MayFail({c}, peer)
       \/ FailsLater("peer") /\ UNCHANGED alive
       \/ peer # c /\ MayFailLater("peer") /\ Close({c})
    /\ UNCHANGED <<tables, process, listening, engine, peer, expired,
                   member, confirmed>>

(* _hello with the right id and code. The callback of an older connection  *)
(* may still be to come: disconnected is called here for it.               *)
Hello(c) ==
    /\ Handles(c) /\ ~fatal
    /\ session # None /\ peer # c /\ ~Connected
    /\ confirmed' = None
    /\ \/ /\ peer' = c
          /\ member' = [member EXCEPT ![c] = session]
          /\ MayFail({}, c) \/ MayFail({c}, c)
       \/ (* the older connection is gone, and its log entry fails        *)
          /\ peer # None /\ peer' = None
          /\ fatal' = TRUE
          /\ UNCHANGED <<failing, alive, member>>
    /\ UNCHANGED <<tables, process, listening, engine, expired>>

Authenticated(c) == peer = c /\ member[c] = session

TargetAck(c, rev) ==
    /\ Handles(c) /\ ~fatal
    /\ Authenticated(c) /\ rev = revision
    /\ confirmed' = rev
    /\ MayFail({}, peer) \/ MayFail({c}, peer)
    /\ UNCHANGED <<tables, process, listening, engine, peer, expired, member>>

-----------------------------------------------------------------------------
(* _result                                                                 *)

(* The whole message; its fingerprint covers every field.                  *)
ResultMessages == [msg : MsgIds, round : 1 .. MaxRounds, verdict : Verdicts, revision : Revisions]

AcceptsAny(m) ==  \* fault: neither the round's verdict nor its status looked at
    m.round \in Rounds /\ rounds[m.round].session = session

(* UNKNOWN_ROUND, DUPLICATE_RESULT, ROUND_CLOSED and TARGET_MISMATCH pass, *)
(* and so does the WHERE clause of record_result.                          *)
Accepts(m) ==
    /\ m.round \in Rounds
    /\ rounds[m.round].session = session
    /\ rounds[m.round].actual = None
    /\ rounds[m.round].status \in {"WAITING", "TIMEOUT"}
    /\ m.round \in started
    /\ m.revision = rounds[m.round].revision

Late(r) == rounds[r].timed /\ r \in expired

ReceiptsAnySession(m) == {x \in receipts : x.message.msg = m.msg /\ x.message.round = m.round}
Receipts(m) == {x \in receipts : x.session = session /\ x.message.msg = m.msg}

(* The verdict and the receipt are one transaction. The acknowledgement    *)
(* leaves, or the send closes the connection, or a log write fails.        *)
ResultNew(c, m) ==
    /\ Handles(c) /\ ~fatal /\ Authenticated(c)
    /\ Receipts(m) = {} /\ Accepts(m)
    /\ rounds' = [rounds EXCEPT ![m.round].actual = m.verdict,
                                ![m.round].status = IF Late(m.round) THEN "LATE" ELSE "RECEIVED"]
    /\ receipts' = receipts \cup {[session |-> session, message |-> m]}
    /\ active' = IF active = m.round THEN 0 ELSE active
    /\ \/ alive[c] /\ acked' = acked \cup {[session |-> session, message |-> m]} /\ MayFail({}, peer)
       \/ UNCHANGED acked /\ MayFail({c}, peer)
    /\ UNCHANGED <<opened, process, listening, session, revision, started, peer, expired,
                   member, confirmed>>

(* An accepted message once more: acknowledged again, nothing stored.      *)
ResultAgain(c, m) ==
    /\ Handles(c) /\ ~fatal /\ Authenticated(c)
    /\ \E x \in Receipts(m) : x.message = m
    /\ \/ alive[c] /\ acked' = acked \cup {[session |-> session, message |-> m]} /\ MayFail({}, peer)
       \/ UNCHANGED acked /\ MayFail({c}, peer)
    /\ UNCHANGED <<opened, rounds, receipts, process, listening, engine, peer, expired,
                   member, confirmed>>

-----------------------------------------------------------------------------
(* Time, failure, shutdown, crash                                          *)

(* The limit of a round passes; it only matters while the round waits.     *)
TimePasses(r) ==
    /\ process # "down" /\ r \in started \ expired
    /\ rounds[r].timed /\ rounds[r].status = "WAITING"
    /\ expired' = expired \cup {r}
    /\ UNCHANGED <<tables, process, listening, engine, peer, alive, errors, peers>>

OverdueUnsent(r) == rounds[r].timed /\ r \in expired /\ peer # None  \* fault: waits for a peer
Overdue(r) == rounds[r].timed /\ r \in expired

Tick ==
    /\ listening /\ ~fatal /\ active # 0 /\ Overdue(active)
    /\ \/ SetStatus(active, "TIMEOUT") /\ active' = 0 /\ MayFail({}, peer)
       \/ /\ UNCHANGED <<rounds, active, failing>>
          /\ fatal' = TRUE /\ Close({peer})
    /\ UNCHANGED <<opened, receipts, acked, process, listening, session, revision, started,
                   peer, expired, peers>>

(* A write that fails before anything else happened                        *)
WebError ==
    /\ Commanding
    /\ FailsLater("web")
    /\ UNCHANGED <<tables, process, listening, engine, peer, alive, expired, peers>>

Fail ==
    /\ failing # {} /\ process = "up"
    /\ fatal' = TRUE /\ failing' = {} /\ Close({peer})
    /\ UNCHANGED <<tables, process, listening, engine, peer, expired, peers>>

(* Runtime.close: no more commands, the listener stops, the session ends;  *)
(* a step that raises is skipped.                                          *)
BeginClose ==
    /\ process = "up" /\ "web" \notin failing
    /\ process' = "closing"
    /\ UNCHANGED <<tables, listening, engine, peer, alive, expired, errors, peers>>

CloseSession ==
    /\ process = "closing" /\ (listening => "web" \in failing) /\ ~fatal
    /\ session # None /\ opened[session] = "OPEN"
    /\ IF active # 0 THEN SetStatus(active, "INTERRUPTED") /\ active' = 0
                     ELSE UNCHANGED <<rounds, active>>
    /\ \/ opened' = [opened EXCEPT ![session] = "CLOSED"]
       \/ active # 0 /\ UNCHANGED opened
    /\ UNCHANGED <<receipts, acked, process, listening, session, revision, started, peer,
                   alive, expired, errors, peers>>

(* The end of close(), or a crash at any point                             *)
ProcessEnds ==
    /\ process # "down"
    /\ process' = "down" /\ listening' = FALSE
    /\ session' = None /\ revision' = None /\ peer' = None
    /\ active' = 0 /\ started' = {}
    /\ fatal' = FALSE /\ failing' = {}
    /\ thread' = [c \in Conns |-> IF thread[c] = "new" THEN "new" ELSE "done"]
    /\ alive' = [c \in Conns |-> FALSE]
    /\ member' = [c \in Conns |-> None]
    /\ confirmed' = None
    /\ expired' = {}
    /\ UNCHANGED tables

InterruptsNothing(s) == FALSE  \* fault: the last process's session left as it was
Interrupts(s) == opened[s] = "OPEN"

(* Store.__init__ interrupts what the last process left open.              *)
Recover ==
    /\ process = "down"
    /\ process' = "up"
    /\ rounds' = [r \in Rounds |->
                    IF rounds[r].status = "WAITING" /\ Interrupts(rounds[r].session)
                    THEN [rounds[r] EXCEPT !.status = "INTERRUPTED"] ELSE rounds[r]]
    /\ opened' = [s \in Sessions |-> IF Interrupts(s) THEN "INTERRUPTED" ELSE opened[s]]
    /\ UNCHANGED <<receipts, acked, listening, engine, peer, alive, expired, errors, peers>>

-----------------------------------------------------------------------------

Command ==
    \/ \E s \in Sessions : NewSession(s)
    \/ SetTarget
    \/ \E timed \in BOOLEAN : StartRound(timed)
    \/ \E status \in Statuses \cup {"UNKNOWN"} : CancelRound(status)
    \/ EndSession \/ StartListener \/ StopListener

Thread(c) ==
    \/ Connect(c) \/ TakeFrame(c) \/ LoopEnds(c) \/ ThreadEnds(c)
    \/ ReceiveFatal(c) \/ ReceiveOther(c) \/ Hello(c)
    \/ \E rev \in Revisions : TargetAck(c, rev)
    \/ \E m \in ResultMessages : ResultNew(c, m) \/ ResultAgain(c, m)

Next ==
    \/ Command
    \/ \E c \in Conns : Thread(c)
    \/ \E r \in Rounds : TimePasses(r)
    \/ Tick \/ WebError \/ Fail
    \/ BeginClose \/ CloseSession \/ ProcessEnds \/ Recover

Spec == Init /\ [][Next]_vars

(* Time passes, the timer thread ticks every 50 ms, and an error that was  *)
(* raised arrives. Nothing makes a judge or a contestant act.              *)
Fairness ==
    /\ \A r \in 1 .. MaxRounds : WF_vars(r \in Rounds /\ TimePasses(r))
    /\ WF_vars(Tick)
    /\ WF_vars(Fail)

FairSpec == Spec /\ Fairness

-----------------------------------------------------------------------------

TypeOK ==
    /\ opened \in [Sessions -> {None, "OPEN", "CLOSED", "INTERRUPTED"}]
    /\ rounds \in Seq([session : Sessions, revision : Revisions, timed : BOOLEAN,
                       status : Statuses, actual : Verdicts \cup {None}])
    /\ receipts \subseteq [session : Sessions, message : ResultMessages]
    /\ acked \subseteq [session : Sessions, message : ResultMessages]
    /\ process \in {"up", "closing", "down"} /\ listening \in BOOLEAN
    /\ session \in Sessions \cup {None}
    /\ revision \in Revisions \cup {None}
    /\ peer \in Conns \cup {None}
    /\ active \in Rounds \cup {0} /\ started \subseteq Rounds /\ expired \subseteq Rounds
    /\ fatal \in BOOLEAN /\ failing \subseteq {"web", "peer"}
    /\ thread \in [Conns -> {"new", "open", "busy", "done"}]
    /\ alive \in [Conns -> BOOLEAN]
    /\ member \in [Conns -> Sessions \cup {None}]
    /\ confirmed \in Revisions \cup {None}

(* Memory and table agree on the round that waits: the engine's active     *)
(* round is the only one stored as WAITING, it belongs to the session in   *)
(* force, and it was started for the target in force. No failed write, no  *)
(* crash and no late callback leaves a second or a forgotten one.          *)
ActiveIsWaiting ==
    process # "down" =>
        /\ {r \in Rounds : rounds[r].status = "WAITING"} = {active} \ {0}
        /\ active # 0 =>
              /\ rounds[active].session = session
              /\ rounds[active].revision = revision
              /\ active \in started

(* A waiting round with a time limit always has a timer.                   *)
WaitingHasTimer == active # 0 /\ ~fatal /\ failing = {} /\ process = "up" => listening

(* One contestant: a connection that passed the handshake of the session   *)
(* in force and is not closed is the engine's peer, even while the         *)
(* clean-up of an earlier connection is still to come.                     *)
LiveContestant ==
    \A c \in Conns : alive[c] /\ session # None /\ member[c] = session => peer = c

(* Verdicts and receipts are two sides of one thing: each verdict has one  *)
(* receipt, which names the message that brought it; a msg_id counts once  *)
(* in a session; and whatever was acknowledged has its receipt.            *)
ReceiptsMatch ==
    /\ \A r \in Rounds :
          Cardinality({x \in receipts : x.message.round = r}) =
              IF rounds[r].actual = None THEN 0 ELSE 1
    /\ \A x \in receipts :
          /\ rounds[x.message.round].actual = x.message.verdict
          /\ rounds[x.message.round].session = x.session
    /\ \A x, y \in receipts :
          x.session = y.session /\ x.message.msg = y.message.msg => x = y
    /\ acked \subseteq receipts

(* At most one session is open, and unless a write failed it is the one in *)
(* memory.                                                                 *)
OneOpenSession ==
    LET open == {s \in Sessions : opened[s] = "OPEN"} IN
    /\ Cardinality(open) <= 1
    /\ process = "up" => open \subseteq {session}
    /\ process = "up" /\ ~fatal /\ failing = {} => open = {session} \ {None}

(* The referee keeps the promise of RoundLedger.                           *)
Ledger == INSTANCE RoundLedger WITH
    NoVerdict <- None,
    rounds <- [r \in Rounds |-> [status |-> rounds[r].status, verdict |-> rounds[r].actual]],
    acked <- {<<x.message.round, x.message.verdict>> : x \in acked}
KeepsLedger == Ledger!Spec

(* A round with a time limit does not wait for ever.                       *)
TimedRoundEnds ==
    \A r \in 1 .. MaxRounds :
        (process = "up" /\ active = r /\ rounds[r].timed)
            ~> (process # "up" \/ active # r \/ fatal)

=============================================================================
