-------------------------- MODULE HeadlessControl --------------------------
(***************************************************************************)
(* The judge's commands over HTTP: Runtime.command, _execute and token of  *)
(* competition/headless.py. A page (admin/admin.js) reads the state with   *)
(* its state_token, and sends a command that carries the token and a       *)
(* request id. The network, the browser or an impatient client may deliver *)
(* that request late, or more than once, or under other contents.          *)
(*                                                                         *)
(* A command runs under Runtime.control from the look-up of its receipt to *)
(* the storing of it, so it is one step; rounds are answered and time out  *)
(* between the steps. What the engine does beyond what a page shows is the *)
(* subject of RefereeEngine. A replayed, conflicting, stale or refused     *)
(* command changes nothing, and has no action here.                        *)
(***************************************************************************)
EXTENDS Integers, Sequences, SequencesExt, FiniteSets

CONSTANTS
    RequestIds,   \* values of X-Request-ID
    SessionIds,   \* session ids, in the order uuid4 hands them out
    Controls,     \* the commands that carry a token and are enumerated
    None,         \* no session, no revision
    ReceiptLimit, \* Runtime.receipts keeps this many entries: 512
    MaxEpoch, MaxRounds, MaxRevision, MaxRequests  \* bounds

ASSUME HeadlessConstants ==
    /\ None \notin SessionIds \cup Nat
    /\ ReceiptLimit \in Nat \ {0}
    /\ Controls \subseteq {"new_session", "target", "start_round", "cancel_round",
                           "end_session", "start_listener", "stop_listener", "branding"}

VARIABLES
    epoch,     \* Runtime.epoch: the process that runs
    session,   \* Engine.session, its id
    revision,  \* its target_revision
    rounds,    \* the status of the session's rounds, as the page lists them
    listening, \* Engine.listening
    fatal,     \* Engine.fatal is set
    receipts,  \* keys of Runtime.receipts, oldest first
    evicted,   \* a receipt of this process was dropped
    requests,  \* requests sent by pages that may still be delivered
    done       \* those of them that were carried out, with the process that did

engine == <<session, revision, rounds, listening>>
memory == <<receipts, evicted>>
vars == <<epoch, engine, fatal, memory, requests, done>>

-----------------------------------------------------------------------------

Statuses == {"WAITING", "RECEIVED", "LATE", "TIMEOUT", "CANCELLED", "INTERRUPTED"}
Jobs == {"backup"}

Init ==
    /\ epoch = 1
    /\ session = None /\ revision = None /\ rounds = <<>>
    /\ listening = TRUE /\ fatal = FALSE
    /\ receipts = <<>> /\ evicted = FALSE /\ requests = {} /\ done = {}

(* What a page shows of the match                                          *)
Shown == [epoch |-> epoch, session |-> session, revision |-> revision,
          rounds |-> rounds, listening |-> listening]

Active(list) == {r \in DOMAIN list : list[r] = "WAITING"}

TokenNoEpoch(s) == <<s.session, Len(s.rounds), Active(s.rounds), s.revision, s.listening>>  \* fault
TokenNoActive(s) == <<s.epoch, s.session, s.revision, s.listening>>  \* fault: the round left out

(* The hash of these values stands for the values.                         *)
Token(s) == <<s.epoch, s.session, Len(s.rounds), Active(s.rounds), s.revision, s.listening>>

Send(id, name) ==
    /\ Cardinality(requests) < MaxRequests
    /\ requests' = requests \cup {[id |-> id, name |-> name, seen |-> Shown]}
    /\ UNCHANGED <<epoch, engine, fatal, memory, done>>

(* The last delivery of a request is over.                                 *)
Forget(q) ==
    /\ requests' = requests \ {q}
    /\ done' = {d \in done : d.request # q}
    /\ UNCHANGED <<epoch, engine, fatal, memory>>

-----------------------------------------------------------------------------
(* What a command does to what the pages show                              *)

Idle == Active(rounds) = {}

NewSession ==
    /\ Idle
    /\ \E s \in SessionIds :
          /\ s \notin {session} \cup {q.seen.session : q \in requests}
          /\ session' = s
    /\ revision' = 1 /\ rounds' = <<>>
    /\ UNCHANGED listening

SetTarget ==
    /\ session # None /\ Idle /\ revision < MaxRevision
    /\ revision' = revision + 1
    /\ UNCHANGED <<session, rounds, listening>>

(* It is interrupted at once if it cannot be sent.                         *)
StartRound ==
    /\ session # None /\ Idle /\ Len(rounds) < MaxRounds
    /\ \E status \in {"WAITING", "INTERRUPTED"} : rounds' = Append(rounds, status)
    /\ UNCHANGED <<session, revision, listening>>

CancelRound ==
    /\ \E r \in Active(rounds) : rounds' = [rounds EXCEPT ![r] = "CANCELLED"]
    /\ UNCHANGED <<session, revision, listening>>

EndSession ==
    /\ session # None /\ Idle
    /\ session' = None /\ revision' = None /\ rounds' = <<>>
    /\ UNCHANGED listening

Listen(on) ==
    /\ Idle /\ (on => ~listening)
    /\ listening' = on
    /\ UNCHANGED <<session, revision, rounds>>

Does(name) ==
    \/ name = "new_session" /\ NewSession
    \/ name = "target" /\ SetTarget
    \/ name = "start_round" /\ StartRound
    \/ name = "cancel_round" /\ CancelRound
    \/ name = "end_session" /\ EndSession
    \/ name = "start_listener" /\ Listen(TRUE)
    \/ name = "stop_listener" /\ Listen(FALSE)
    \/ name \in {"branding"} \cup Jobs /\ UNCHANGED engine

Fresh(q) == Token(q.seen) = Token(Shown)

Healthy == ~fatal
MayExecute(q) == q.name \in Jobs \/ (Fresh(q) /\ Healthy)

Known(q) == Contains(receipts, q.id)

TrimLate(list) == IF Len(list) > ReceiptLimit + 1 THEN Tail(list) ELSE list  \* fault: off by one
Trim(list) == IF Len(list) > ReceiptLimit THEN Tail(list) ELSE list

Kept(q) == Trim(Append(receipts, q.id))

(* The command is carried out and its audit entry written; or a write      *)
(* fails, before, within or after the engine's own writes: the engine is   *)
(* frozen and no receipt is kept.                                          *)
Execute(q) ==
    /\ ~Known(q) /\ MayExecute(q)
    /\ Does(q.name)
    /\ \E audited \in BOOLEAN :
          /\ done' = done \cup {[request |-> q, epoch |-> epoch, audited |-> audited]}
          /\ IF audited
             THEN /\ receipts' = Kept(q) /\ UNCHANGED fatal
                  /\ evicted' = (evicted \/ Len(receipts) = ReceiptLimit)
             ELSE UNCHANGED memory /\ fatal' = TRUE
    /\ UNCHANGED <<epoch, requests>>

ExecuteFails(q) ==
    /\ ~Known(q) /\ MayExecute(q) /\ ~fatal
    /\ fatal' = TRUE
    /\ UNCHANGED <<epoch, engine, memory, requests, done>>

-----------------------------------------------------------------------------
(* What happens beside the commands                                        *)

SetStatus(r, status) == rounds' = [rounds EXCEPT ![r] = status]

(* A result, in time or late, or the round's time limit; a failed write    *)
(* freezes the engine.                                                     *)
RoundMoves(r) ==
    /\ ~fatal
    /\ \/ rounds[r] = "WAITING" /\ \E status \in {"RECEIVED", "LATE", "TIMEOUT"} : SetStatus(r, status)
       \/ rounds[r] = "TIMEOUT" /\ SetStatus(r, "LATE")
    /\ fatal' \in BOOLEAN
    /\ UNCHANGED <<epoch, session, revision, listening, memory, requests, done>>

Restart ==
    /\ epoch < MaxEpoch
    /\ epoch' = epoch + 1
    /\ session' = None /\ revision' = None /\ rounds' = <<>>
    /\ listening' = TRUE /\ fatal' = FALSE /\ receipts' = <<>> /\ evicted' = FALSE
    /\ UNCHANGED <<requests, done>>

Next ==
    \/ \E id \in RequestIds, name \in Controls \cup Jobs : Send(id, name)
    \/ \E q \in requests : Forget(q) \/ Execute(q) \/ ExecuteFails(q)
    \/ \E r \in DOMAIN rounds : RoundMoves(r)
    \/ Restart

Spec == Init /\ [][Next]_vars

-----------------------------------------------------------------------------

Views == [epoch : Nat, session : SessionIds \cup {None}, revision : Nat \cup {None},
          rounds : Seq(Statuses), listening : BOOLEAN]
Requests == [id : RequestIds, name : Controls \cup Jobs, seen : Views]

TypeOK ==
    /\ Shown \in Views /\ fatal \in BOOLEAN
    /\ requests \subseteq Requests
    /\ receipts \in Seq(RequestIds) /\ Len(receipts) <= ReceiptLimit /\ evicted \in BOOLEAN
    /\ done \subseteq [request : requests, epoch : Nat, audited : BOOLEAN]
    /\ session = None <=> revision = None

IsControl(q) == q.name \notin Jobs

(* However often a request is delivered, and whatever fails or restarts in *)
(* between, its command is carried out once: a match command because the   *)
(* token, the freeze and the receipts cover for each other, a job within   *)
(* one process and unless its audit entry failed. A request id stands for  *)
(* one command. This is as far as the receipts reach: once one was dropped *)
(* a command may be carried out again, when its token matches again.       *)
ExecutesOnce ==
    [][\A q \in requests : ~evicted /\ Execute(q) =>
        \A d \in done :
            /\ d.request = q => ~IsControl(q)
            /\ d.epoch = epoch /\ d.audited => d.request.id # q.id]_vars

(* The rounds a page shows, with results that came after the time limit    *)
Grown(seen, now) ==
    /\ Len(seen) = Len(now)
    /\ \A r \in DOMAIN seen : seen[r] = now[r] \/ (seen[r] = "TIMEOUT" /\ now[r] = "LATE")

(* A match command is only carried out in the process, the session, the    *)
(* target and the listener state its page showed, with the same rounds,    *)
(* none of them answered, cancelled or timed out since: only a late result *)
(* may have arrived for a round that had already timed out.                *)
KnowsTheRounds ==
    \A q \in requests : IsControl(q) /\ MayExecute(q) =>
        /\ [q.seen EXCEPT !.rounds = rounds] = Shown
        /\ Grown(q.seen.rounds, rounds)

(* docs/WEB_API.md:64 says the token changes with the state of the session *)
(* and of its rounds, so that a command prepared before is refused: a      *)
(* match command would only be carried out in the state its page showed.   *)
PageIsCurrent ==
    \A q \in requests : IsControl(q) /\ MayExecute(q) => q.seen = Shown

=============================================================================
