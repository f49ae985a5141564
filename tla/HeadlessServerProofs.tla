------------------------ MODULE HeadlessServerProofs ------------------------
(***************************************************************************)
(* Safety of the three parts of the headless server's process: the judge's *)
(* commands (HeadlessControl), the maintenance queue (MaintenanceJobs) and *)
(* the public display (PublicDisplay). They share no state that a module   *)
(* has, and each is proved for itself; the names of the two smaller ones   *)
(* begin with what they are about, so that one module can have all three.  *)
(***************************************************************************)
EXTENDS HeadlessControl, MaintenanceJobs, PublicDisplay, TLAPS

-----------------------------------------------------------------------------
(* HeadlessControl, for any number of processes, rounds, targets and       *)
(* requests and for every limit of the receipts. Within a session a round  *)
(* only moves on from what a page has seen of it, so an equal token leaves *)
(* it no other state than the one seen, or late. And a command that was    *)
(* carried out has left a receipt, a frozen engine or an older epoch.      *)

Types ==
    /\ Shown \in Views /\ fatal \in BOOLEAN
    /\ session # None => revision \in Nat
    /\ requests \subseteq [id : RequestIds, name : Controls \cup Jobs, seen : Views]
    /\ receipts \in Seq(RequestIds) /\ Len(receipts) <= ReceiptLimit /\ evicted \in BOOLEAN

(* What a round's status may be later on                                   *)
Leads(a, b) == a = b \/ a = "WAITING" \/ (a = "TIMEOUT" /\ b = "LATE")

LeadsTo(before, after) ==
    /\ Len(before) <= Len(after)
    /\ \A r \in 1 .. Len(before) : Leads(before[r], after[r])

(* A page is behind the match, never beside it.                            *)
PagesAreBehind ==
    \A q \in requests :
        /\ q.seen.epoch <= epoch
        /\ q.seen.epoch = epoch /\ q.seen.session = session => LeadsTo(q.seen.rounds, rounds)

NoSessionNoRounds ==
    /\ session = None => rounds = <<>>
    /\ \A q \in requests : q.seen.session = None => q.seen.rounds = <<>>

(* What a command that was carried out has left behind                     *)
DoneLeavesTraces ==
    \A d \in done :
        /\ d.request \in requests /\ d.epoch <= epoch /\ d.epoch \in Nat
        /\ IsControl(d.request) => d.request.seen.epoch = d.epoch
        /\ d.epoch = epoch /\ ~d.audited => fatal
        /\ d.epoch = epoch /\ d.audited /\ ~evicted => Contains(receipts, d.request.id)

ControlInv == Types /\ PagesAreBehind /\ NoSessionNoRounds /\ DoneLeavesTraces

-----------------------------------------------------------------------------

(* Rounds that move on, or are added, lead on from all that was seen.      *)
LEMMA LeadsToTransitive ==
    ASSUME NEW a \in Seq(Statuses), NEW b \in Seq(Statuses), NEW c \in Seq(Statuses),
           LeadsTo(a, b), LeadsTo(b, c)
    PROVE  LeadsTo(a, c)
<1>1. Len(a) \in Nat /\ Len(b) \in Nat /\ Len(c) \in Nat
  OBVIOUS
<1>2. \A r \in 1 .. Len(a) : Leads(a[r], b[r]) /\ Leads(b[r], c[r])
  BY <1>1 DEF LeadsTo
<1> QED BY <1>1, <1>2 DEF LeadsTo, Leads

(* One round that moves on, in place                                       *)
LEMMA LeadsToMoved ==
    ASSUME NEW a \in Seq(Statuses), NEW r \in DOMAIN a, NEW status \in Statuses,
           Leads(a[r], status)
    PROVE  /\ [a EXCEPT ![r] = status] \in Seq(Statuses)
           /\ LeadsTo(a, [a EXCEPT ![r] = status])
  BY DEF LeadsTo, Leads

(* A round that is added                                                   *)
LEMMA LeadsToAppended ==
    ASSUME NEW a \in Seq(Statuses), NEW status \in Statuses
    PROVE  Append(a, status) \in Seq(Statuses) /\ LeadsTo(a, Append(a, status))
  BY DEF LeadsTo, Leads

(* Every command leaves a match behind that a page's view leads on to, or  *)
(* another session than any page has seen.                                 *)
LEMMA CommandsMoveOn ==
    ASSUME ControlInv, NEW name, Does(name)
    PROVE  /\ session' \in SessionIds \cup {None} /\ revision' \in Nat \cup {None}
           /\ rounds' \in Seq(Statuses) /\ listening' \in BOOLEAN
           /\ session' # None => revision' \in Nat
           /\ session' = None => rounds' = <<>>
           /\ \/ session' = session /\ LeadsTo(rounds, rounds')
              \/ session' = None
              \/ session' # None /\ session' \notin {q.seen.session : q \in requests}
<1> USE DEF ControlInv, Types, Views, Shown
<1>0. /\ session \in SessionIds \cup {None} /\ revision \in Nat \cup {None}
      /\ rounds \in Seq(Statuses) /\ listening \in BOOLEAN
  OBVIOUS
<1>1. LeadsTo(rounds, rounds)
  BY <1>0 DEF LeadsTo, Leads
<1>2. CASE NewSession
  BY <1>0, <1>2, HeadlessConstants DEF NewSession
<1>3. CASE SetTarget
  BY <1>0, <1>1, <1>3 DEF SetTarget, NoSessionNoRounds
<1>4. CASE StartRound
  <2>1. rounds' \in Seq(Statuses) /\ LeadsTo(rounds, rounds')
    BY <1>0, <1>4, LeadsToAppended DEF StartRound, Statuses
  <2> QED BY <1>0, <1>4, <2>1 DEF StartRound
<1>5. CASE CancelRound
  <2>1. PICK r \in Active(rounds) : rounds' = [rounds EXCEPT ![r] = "CANCELLED"]
    BY <1>5 DEF CancelRound
  <2>2. r \in DOMAIN rounds /\ rounds[r] = "WAITING"
    BY DEF Active
  <2>3. rounds' \in Seq(Statuses) /\ LeadsTo(rounds, rounds')
    BY <1>0, <2>1, <2>2, LeadsToMoved DEF Statuses, Leads
  <2>4. session # None
    BY <1>0, <2>2 DEF NoSessionNoRounds
  <2> QED BY <1>0, <1>5, <2>3, <2>4 DEF CancelRound
<1>6. CASE EndSession
  BY <1>0, <1>6 DEF EndSession
<1>7. CASE Listen(TRUE) \/ Listen(FALSE)
  BY <1>0, <1>1, <1>7 DEF Listen, NoSessionNoRounds
<1>8. CASE UNCHANGED engine
  BY <1>0, <1>1, <1>8 DEF engine, NoSessionNoRounds
<1> QED BY <1>2, <1>3, <1>4, <1>5, <1>6, <1>7, <1>8 DEF Does

(* What a page has seen stays behind the match when it moves on.           *)
LEMMA PagesStayBehind ==
    ASSUME ControlInv, requests' \subseteq requests, epoch' = epoch,
           rounds' \in Seq(Statuses), session' = None => rounds' = <<>>,
           \/ session' = session /\ LeadsTo(rounds, rounds')
           \/ session' = None
           \/ session' # None /\ session' \notin {q.seen.session : q \in requests}
    PROVE  PagesAreBehind'
<1> SUFFICES ASSUME NEW q \in requests, q.seen.epoch = epoch, q.seen.session = session'
             PROVE  LeadsTo(q.seen.rounds, rounds')
  BY DEF ControlInv, PagesAreBehind
<1>1. q.seen.rounds \in Seq(Statuses) /\ rounds \in Seq(Statuses)
  BY DEF ControlInv, Types, Views, Shown
<1>2. CASE session' = session /\ LeadsTo(rounds, rounds')
  BY <1>1, <1>2, LeadsToTransitive DEF ControlInv, PagesAreBehind
<1>3. CASE session' = None
  BY <1>3 DEF ControlInv, NoSessionNoRounds, LeadsTo
<1> QED BY <1>2, <1>3

(* The invariant holds at the start and after each step.                   *)
LEMMA ControlInvInductive ==
    /\ Init => ControlInv
    /\ ControlInv /\ [Next]_vars => ControlInv'
<1>1. ASSUME Init PROVE ControlInv
  <2>1. Shown \in Views /\ fatal \in BOOLEAN /\ evicted \in BOOLEAN
    <3>1. epoch \in Nat /\ session \in {None} /\ revision \in {None} /\ rounds \in Seq(Statuses)
      BY <1>1 DEF Init
    <3>2. listening \in BOOLEAN /\ fatal \in BOOLEAN /\ evicted \in BOOLEAN
      BY <1>1 DEF Init
    <3> QED BY <3>1, <3>2 DEF Views, Shown
  <2>2. receipts \in Seq(RequestIds) /\ Len(receipts) <= ReceiptLimit
    BY <1>1, HeadlessConstants DEF Init
  <2>3. Types
    BY <1>1, <2>1, <2>2 DEF Init, Types
  <2>4. PagesAreBehind /\ NoSessionNoRounds /\ DoneLeavesTraces
    BY <1>1 DEF Init, PagesAreBehind, NoSessionNoRounds, DoneLeavesTraces
  <2> QED BY <2>3, <2>4 DEF ControlInv
<1>2. ASSUME ControlInv, [Next]_vars PROVE ControlInv'
  <2>0. /\ Types /\ PagesAreBehind /\ NoSessionNoRounds /\ DoneLeavesTraces
        /\ epoch \in Nat /\ session \in SessionIds \cup {None} /\ revision \in Nat \cup {None}
        /\ rounds \in Seq(Statuses) /\ listening \in BOOLEAN
    BY <1>2 DEF ControlInv, Types, Views, Shown
  <2>1. ASSUME NEW id \in RequestIds, NEW name \in Controls \cup Jobs, Send(id, name)
        PROVE  ControlInv'
    <3> DEFINE q == [id |-> id, name |-> name, seen |-> Shown]
    <3>1. q \in [id : RequestIds, name : Controls \cup Jobs, seen : Views]
      BY <2>0 DEF Types
    <3>2. q.seen.epoch = epoch /\ q.seen.session = session /\ q.seen.rounds = rounds
      BY DEF Shown
    <3>3. requests' = requests \cup {q}
          /\ UNCHANGED <<epoch, session, revision, rounds, listening, fatal, receipts, evicted, done>>
      BY <2>1 DEF Send, engine, memory
    <3> HIDE DEF q
    <3>4. Types'
      BY <2>0, <3>1, <3>3 DEF Types, Shown
    <3>5. LeadsTo(rounds, rounds)
      BY <2>0 DEF LeadsTo, Leads
    <3>6. PagesAreBehind'
      BY <2>0, <3>2, <3>3, <3>5 DEF PagesAreBehind
    <3>7. NoSessionNoRounds'
      BY <2>0, <3>2, <3>3 DEF NoSessionNoRounds
    <3>8. DoneLeavesTraces'
      BY <2>0, <3>3 DEF DoneLeavesTraces
    <3> QED BY <3>4, <3>6, <3>7, <3>8 DEF ControlInv
  <2>2. ASSUME NEW q \in requests, Forget(q) PROVE ControlInv'
    BY <2>0, <2>2
       DEF Forget, engine, memory, ControlInv, Types, Shown, PagesAreBehind, NoSessionNoRounds,
           DoneLeavesTraces
  <2>3. ASSUME NEW q \in requests, Execute(q) PROVE ControlInv'
    <3>1. Does(q.name) /\ UNCHANGED <<epoch, requests>>
      BY <2>3 DEF Execute
    <3>2. /\ session' \in SessionIds \cup {None} /\ revision' \in Nat \cup {None}
          /\ rounds' \in Seq(Statuses) /\ listening' \in BOOLEAN
          /\ session' # None => revision' \in Nat
          /\ session' = None => rounds' = <<>>
          /\ \/ session' = session /\ LeadsTo(rounds, rounds')
             \/ session' = None
             \/ session' # None /\ session' \notin {p.seen.session : p \in requests}
      BY <1>2, <3>1, CommandsMoveOn
    <3>3. PICK audited \in BOOLEAN :
             /\ done' = done \cup {[request |-> q, epoch |-> epoch, audited |-> audited]}
             /\ IF audited
                THEN /\ receipts' = Kept(q) /\ UNCHANGED fatal
                     /\ evicted' = (evicted \/ Len(receipts) = ReceiptLimit)
                ELSE UNCHANGED memory /\ fatal' = TRUE
      BY <2>3 DEF Execute
    <3>4. /\ receipts \in Seq(RequestIds) /\ Len(receipts) \in Nat
          /\ Len(receipts) <= ReceiptLimit /\ q.id \in RequestIds
      BY <2>0 DEF Types
    <3>5. /\ receipts' \in Seq(RequestIds) /\ Len(receipts') <= ReceiptLimit
          /\ fatal' \in BOOLEAN /\ evicted' \in BOOLEAN
      <4>1. CASE audited
        <5>1. receipts' = Trim(Append(receipts, q.id)) /\ fatal' = fatal /\ evicted' \in BOOLEAN
          BY <2>0, <3>3, <4>1 DEF Kept, Types
        <5>2. Trim(Append(receipts, q.id)) \in Seq(RequestIds)
              /\ Len(Trim(Append(receipts, q.id))) <= ReceiptLimit
          BY <3>4, HeadlessConstants DEF Trim
        <5> QED BY <2>0, <5>1, <5>2 DEF Types
      <4>2. CASE ~audited
        BY <2>0, <3>3, <3>4, <4>2 DEF memory, Types
      <4> QED BY <4>1, <4>2
    <3>6. Types'
      BY <2>0, <3>1, <3>2, <3>5 DEF Types, Views, Shown
    <3>7. PagesAreBehind' /\ NoSessionNoRounds'
      BY <1>2, <2>0, <3>1, <3>2, PagesStayBehind DEF NoSessionNoRounds
    <3>8. ~evicted' => /\ ~evicted
                       /\ \A id : Contains(receipts, id) => Contains(receipts', id)
                       /\ audited => Contains(receipts', q.id)
      <4>1. CASE audited
        <5> SUFFICES ASSUME ~evicted'
                     PROVE  /\ ~evicted
                            /\ \A id : Contains(receipts, id) => Contains(receipts', id)
                            /\ Contains(receipts', q.id)
          OBVIOUS
        <5>1. ~evicted /\ Len(receipts) # ReceiptLimit
          BY <3>3, <4>1
        <5>2. receipts' = Append(receipts, q.id)
          BY <3>3, <3>4, <4>1, <5>1, HeadlessConstants DEF Kept, Trim
        <5> QED BY <3>4, <5>1, <5>2 DEF Contains
      <4>2. CASE ~audited
        BY <3>3, <4>2 DEF memory
      <4> QED BY <4>1, <4>2
    <3>9. IsControl(q) => q.seen.epoch = epoch
      BY <2>3 DEF Execute, MayExecute, IsControl, Fresh, Token, Shown
    <3>10. fatal => fatal'
      BY <3>3
    <3>11. DoneLeavesTraces'
      <4> SUFFICES ASSUME NEW d \in done'
                   PROVE  /\ d.request \in requests /\ d.epoch <= epoch /\ d.epoch \in Nat
                          /\ IsControl(d.request) => d.request.seen.epoch = d.epoch
                          /\ d.epoch = epoch /\ ~d.audited => fatal'
                          /\ d.epoch = epoch /\ d.audited /\ ~evicted' =>
                                Contains(receipts', d.request.id)
        BY <3>1 DEF DoneLeavesTraces, IsControl
      <4>1. CASE d \in done
        BY <2>0, <3>8, <3>10, <4>1 DEF DoneLeavesTraces
      <4>2. CASE d = [request |-> q, epoch |-> epoch, audited |-> audited]
        BY <2>0, <3>3, <3>8, <3>9, <4>2
      <4> QED BY <3>3, <4>1, <4>2
    <3> QED BY <3>6, <3>7, <3>11 DEF ControlInv
  <2>4. ASSUME NEW q \in requests, ExecuteFails(q) PROVE ControlInv'
    BY <2>0, <2>4
       DEF ExecuteFails, engine, memory, ControlInv, Types, Shown, PagesAreBehind,
           NoSessionNoRounds, DoneLeavesTraces
  <2>5. ASSUME NEW r \in DOMAIN rounds, RoundMoves(r) PROVE ControlInv'
    <3>1. PICK status \in Statuses : rounds' = [rounds EXCEPT ![r] = status] /\ Leads(rounds[r], status)
      BY <2>5 DEF RoundMoves, SetStatus, Statuses, Leads
    <3>2. rounds' \in Seq(Statuses) /\ LeadsTo(rounds, rounds')
      BY <2>0, <3>1, LeadsToMoved
    <3>3. ~fatal /\ fatal' \in BOOLEAN
          /\ UNCHANGED <<epoch, session, revision, listening, receipts, evicted, requests, done>>
      BY <2>5 DEF RoundMoves, memory
    <3>4. session # None
      BY <2>0 DEF NoSessionNoRounds
    <3>5. Types'
      BY <2>0, <3>2, <3>3 DEF Types, Views, Shown
    <3>6. PagesAreBehind' /\ NoSessionNoRounds'
      BY <1>2, <2>0, <3>2, <3>3, <3>4, PagesStayBehind DEF NoSessionNoRounds
    <3>7. DoneLeavesTraces'
      BY <2>0, <3>3 DEF DoneLeavesTraces
    <3> QED BY <3>5, <3>6, <3>7 DEF ControlInv
  <2>6. CASE Restart
    <3>1. /\ epoch' = epoch + 1 /\ session' = None /\ revision' = None /\ rounds' = <<>>
          /\ listening' = TRUE /\ fatal' = FALSE /\ receipts' = <<>> /\ evicted' = FALSE
          /\ UNCHANGED <<requests, done>>
      BY <2>6 DEF Restart
    <3>2. Types'
      <4>1. Shown' \in Views /\ fatal' \in BOOLEAN /\ evicted' \in BOOLEAN
        <5>1. epoch' \in Nat /\ session' \in {None} /\ revision' \in {None} /\ rounds' \in Seq(Statuses)
          BY <2>0, <3>1
        <5>2. listening' \in BOOLEAN /\ fatal' \in BOOLEAN /\ evicted' \in BOOLEAN
          BY <3>1
        <5> QED BY <5>1, <5>2 DEF Views, Shown
      <4>2. receipts' \in Seq(RequestIds) /\ Len(receipts') <= ReceiptLimit
        BY <3>1, HeadlessConstants
      <4> QED BY <2>0, <3>1, <4>1, <4>2 DEF Types
    <3>3. \A q \in requests : q.seen.epoch \in Nat /\ q.seen.epoch <= epoch
      BY <2>0 DEF Types, Views, PagesAreBehind
    <3>4. PagesAreBehind' /\ NoSessionNoRounds'
      BY <2>0, <3>1, <3>3 DEF PagesAreBehind, NoSessionNoRounds
    <3>5. DoneLeavesTraces'
      BY <2>0, <3>1 DEF DoneLeavesTraces
    <3> QED BY <3>2, <3>4, <3>5 DEF ControlInv
  <2>7. CASE UNCHANGED vars
    BY <2>0, <2>7
       DEF vars, engine, memory, ControlInv, Types, Shown, PagesAreBehind, NoSessionNoRounds,
           DoneLeavesTraces
  <2> QED BY <1>2, <2>1, <2>2, <2>3, <2>4, <2>5, <2>6, <2>7 DEF Next
<1> QED BY <1>1, <1>2

(* The invariant holds in every state of a run.                            *)
LEMMA ControlInvHolds == Spec => []ControlInv
  BY ControlInvInductive, PTL DEF Spec

-----------------------------------------------------------------------------

(* What is recorded as done was asked for by a request that may still be   *)
(* delivered, and there is a target exactly while there is a session       *)
(* (new_session, end_session and Restart of HeadlessControl).              *)
THEOREM ControlTypesHold == Spec => []TypeOK
<1> DEFINE Rest ==
      /\ done \subseteq [request : requests, epoch : Nat, audited : BOOLEAN]
      /\ session = None <=> revision = None
<1>1. Init => Rest
  BY DEF Init
<1>2. ASSUME ControlInv, Rest, [Next]_vars PROVE Rest'
  <2>0. epoch \in Nat /\ revision \in Nat \cup {None}
    BY <1>2 DEF ControlInv, Types, Views, Shown
  <2>1. epoch \in Nat /\ revision \in Nat \cup {None} /\ None \notin SessionIds \cup Nat
    BY <2>0, HeadlessConstants
  <2>2. ASSUME NEW id \in RequestIds, NEW name \in Controls \cup Jobs, Send(id, name) PROVE Rest'
    BY <1>2, <2>2 DEF Send, engine
  <2>3. ASSUME NEW q \in requests, Forget(q) PROVE Rest'
    <3>1. done' = {d \in done : d.request # q} /\ requests' = requests \ {q} /\ UNCHANGED <<session, revision>>
      BY <2>3 DEF Forget, engine
    <3> QED BY <1>2, <3>1
  <2>4. ASSUME NEW q \in requests, Execute(q) PROVE Rest'
    <3>1. PICK audited \in BOOLEAN : done' = done \cup {[request |-> q, epoch |-> epoch, audited |-> audited]}
      BY <2>4 DEF Execute
    <3>2. session' = None <=> revision' = None
      <4>1. Does(q.name)
        BY <2>4 DEF Execute
      <4> QED BY <1>2, <2>1, <4>1
             DEF Does, NewSession, SetTarget, StartRound, CancelRound, EndSession, Listen, engine
    <3> QED BY <1>2, <2>1, <2>4, <3>1, <3>2 DEF Execute
  <2>5. ASSUME NEW q \in requests, ExecuteFails(q) PROVE Rest'
    BY <1>2, <2>5 DEF ExecuteFails, engine
  <2>6. ASSUME NEW r \in DOMAIN rounds, RoundMoves(r) PROVE Rest'
    BY <1>2, <2>6 DEF RoundMoves
  <2>7. CASE Restart
    BY <1>2, <2>7 DEF Restart
  <2>8. CASE UNCHANGED vars
    BY <1>2, <2>8 DEF vars, engine
  <2> QED BY <1>2, <2>2, <2>3, <2>4, <2>5, <2>6, <2>7, <2>8 DEF Next
<1>3. ControlInv /\ Rest => TypeOK
  BY DEF ControlInv, Types, Requests, TypeOK
<1> QED BY <1>1, <1>2, <1>3, ControlInvHolds, PTL DEF Spec

(* A match command is carried out only while the page that sent it still   *)
(* shows the process, session, target, listener and rounds there are, but  *)
(* for a result that came late.                                            *)
THEOREM CommandsKnowTheRounds == Spec => []KnowsTheRounds
<1>1. ASSUME ControlInv PROVE KnowsTheRounds
  <2> SUFFICES ASSUME NEW q \in requests, Fresh(q)
               PROVE  /\ [q.seen EXCEPT !.rounds = rounds] = Shown
                      /\ Grown(q.seen.rounds, rounds)
    BY DEF KnowsTheRounds, MayExecute, IsControl
  <2>1. /\ q.seen.epoch = epoch /\ q.seen.session = session /\ q.seen.revision = revision
        /\ q.seen.listening = listening
        /\ Len(q.seen.rounds) = Len(rounds) /\ Active(q.seen.rounds) = Active(rounds)
    BY DEF Fresh, Token, Shown
  <2>2. q.seen \in Views /\ rounds \in Seq(Statuses)
    BY <1>1 DEF ControlInv, Types, Views, Shown
  <2>3. [q.seen EXCEPT !.rounds = rounds] = Shown
    BY <2>1, <2>2 DEF Views, Shown
  <2>4. LeadsTo(q.seen.rounds, rounds)
    BY <1>1, <2>1 DEF ControlInv, PagesAreBehind
  <2>5. ASSUME NEW r \in DOMAIN q.seen.rounds
        PROVE  q.seen.rounds[r] = rounds[r]
               \/ (q.seen.rounds[r] = "TIMEOUT" /\ rounds[r] = "LATE")
    <3>1. r \in 1 .. Len(q.seen.rounds) /\ r \in DOMAIN rounds
      BY <2>1, <2>2 DEF Views
    <3>2. q.seen.rounds[r] = "WAITING" => rounds[r] = "WAITING"
      BY <2>1, <2>5 DEF Active
    <3> QED BY <2>4, <3>1, <3>2 DEF LeadsTo, Leads
  <2> QED BY <2>1, <2>3, <2>5 DEF Grown
<1> QED BY <1>1, ControlInvHolds, PTL

(* However often a request is delivered, as long as no receipt was dropped *)
(* its command is carried out once: a match command in all processes, a    *)
(* job in one, and for each request id the first that was audited.         *)
THEOREM RequestsExecuteOnce == Spec => ExecutesOnce
<1>1. ASSUME ControlInv, NEW q \in requests, ~evicted, Execute(q), NEW d \in done
      PROVE  /\ d.request = q => ~IsControl(q)
             /\ d.epoch = epoch /\ d.audited => d.request.id # q.id
  <2>1. ~Contains(receipts, q.id) /\ MayExecute(q)
    BY <1>1 DEF Execute, Known
  <2>2. d.epoch = epoch /\ d.audited => Contains(receipts, d.request.id)
    BY <1>1 DEF ControlInv, DoneLeavesTraces
  <2>3. ASSUME d.request = q, IsControl(q) PROVE FALSE
    <3>1. q.seen.epoch = epoch /\ ~fatal
      BY <2>1, <2>3 DEF MayExecute, IsControl, Fresh, Healthy, Token, Shown
    <3>2. d.epoch = epoch /\ d.audited
      BY <1>1, <2>3, <3>1 DEF ControlInv, DoneLeavesTraces
    <3> QED BY <2>1, <2>2, <2>3, <3>2
  <2> QED BY <2>1, <2>2, <2>3
<1>2. ControlInv => [\A q \in requests : ~evicted /\ Execute(q) =>
                      \A d \in done :
                          /\ d.request = q => ~IsControl(q)
                          /\ d.epoch = epoch /\ d.audited => d.request.id # q.id]_vars
  BY <1>1
<1> QED BY <1>2, ControlInvHolds, PTL DEF ExecutesOnce

-----------------------------------------------------------------------------
(* MaintenanceJobs, for every limit and every number of jobs. The counters *)
(* are ordered; pending is their difference; and since at most             *)
(* PendingLimit <= ItemLimit jobs are unfinished, and they are the newest  *)
(* ones, those pushed out of the list have ended.                          *)

(* Jobs pass through the worker one at a time, in order.                   *)
InOrder ==
    /\ forgotten <= released /\ released <= finished
    /\ finished <= taken /\ taken <= accepted
    /\ taken <= released + 1
    /\ pending = accepted - released

(* Every job counted as finished has ended.                                *)
FinishedHaveEnded == \A n \in 1 .. finished : outcome[n] \in {"DONE", "FAILED"}

(* The database is closed behind the last job.                             *)
ClosedBehind == store = "closed" => closed /\ accepted = released

JobInv == JobsTypeOK /\ InOrder /\ FinishedHaveEnded /\ ClosedBehind

-----------------------------------------------------------------------------

(* Neither a new job nor a refused one pushes an unfinished job out.       *)
LEMMA ForgetsEnded ==
    ASSUME JobInv, ~Busy
    PROVE  /\ ForgottenOf(accepted + 1) \in Nat
           /\ ForgottenOf(accepted + 1) <= released
  BY JobLimits DEF JobInv, JobsTypeOK, InOrder, Busy, ForgottenOf

(* The invariant holds at the start and after each step.                   *)
LEMMA JobInvInductive ==
    /\ JobsInit => JobInv
    /\ JobInv /\ [JobsNext]_jobsVars => JobInv'
<1>0. 0 \in 0 .. MaxJobs /\ 0 \in 0 .. PendingLimit /\ 1 .. 0 = {}
  BY JobLimits
<1>1. ASSUME JobsInit PROVE JobInv
  <2>1. JobsTypeOK
    <3>1. outcome \in [1 .. MaxJobs -> {"QUEUED", "RUNNING", "DONE", "FAILED"}]
      BY <1>1 DEF JobsInit
    <3> QED BY <1>0, <1>1, <3>1 DEF JobsInit, JobsTypeOK
  <2>2. InOrder
    BY <1>1 DEF JobsInit, InOrder
  <2>3. FinishedHaveEnded
    BY <1>0, <1>1 DEF JobsInit, FinishedHaveEnded
  <2>4. ClosedBehind
    BY <1>1 DEF JobsInit, ClosedBehind
  <2> QED BY <2>1, <2>2, <2>3, <2>4 DEF JobInv
<1>2. ASSUME JobInv, [JobsNext]_jobsVars PROVE JobInv'
  <2> USE JobInv, JobLimits DEF JobInv, JobsTypeOK, InOrder, FinishedHaveEnded, ClosedBehind
  <2>1. CASE Submit
    <3>1. ForgottenOf(accepted + 1) \in Nat /\ ForgottenOf(accepted + 1) <= released
      BY <2>1, ForgetsEnded DEF Submit
    <3> QED BY <2>1, <3>1 DEF Submit, Busy, worker
  <2>2. CASE SubmitFails
    <3>1. ForgottenOf(accepted + 1) \in Nat /\ ForgottenOf(accepted + 1) <= released
      BY <2>2, ForgetsEnded DEF SubmitFails
    <3> QED BY <2>2, <3>1 DEF SubmitFails, Busy, PendingAfterRefusal, worker
  <2>3. CASE Take
    BY <2>3 DEF Take, limits
  <2>4. ASSUME NEW status \in {"DONE", "FAILED"}, Finish(status) PROVE JobInv'
    BY <2>4 DEF Finish, limits
  <2>5. CASE Release
    BY <2>5 DEF Release
  <2>6. CASE Close
    BY <2>6 DEF Close, worker
  <2>7. CASE CloseStore
    BY <2>7 DEF CloseStore, Drained, limits, worker
  <2>8. CASE JobsRestart
    <3>1. JobsTypeOK'
      <4>1. outcome' \in [1 .. MaxJobs -> {"QUEUED", "RUNNING", "DONE", "FAILED"}]
        BY <2>8 DEF JobsRestart
      <4> QED BY <1>0, <2>8, <4>1 DEF JobsRestart
    <3>2. InOrder'
      BY <2>8 DEF JobsRestart
    <3>3. FinishedHaveEnded'
      BY <1>0, <2>8 DEF JobsRestart
    <3>4. ClosedBehind'
      BY <2>8 DEF JobsRestart
    <3> QED BY <3>1, <3>2, <3>3, <3>4
  <2>9. CASE UNCHANGED jobsVars
    BY <2>9 DEF jobsVars, limits, worker
  <2> QED
    BY <1>2, <2>1, <2>2, <2>3, <2>4, <2>5, <2>6, <2>7, <2>8, <2>9 DEF JobsNext
<1> QED BY <1>1, <1>2

(* JobInv holds in every reachable state.                                  *)
THEOREM AlwaysJobInv == JobsSpec => []JobInv
<1>1. JobsInit => JobInv BY JobInvInductive
<1>2. JobInv /\ [JobsNext]_jobsVars => JobInv' BY JobInvInductive
<1> QED BY <1>1, <1>2, PTL DEF JobsSpec

(* The variables keep their types; pending never exceeds its limit and     *)
(* never becomes negative.                                                 *)
THEOREM JobTypesHold == JobsSpec => []JobsTypeOK
<1>1. JobInv => JobsTypeOK BY DEF JobInv
<1> QED BY <1>1, AlwaysJobInv, PTL

(* The list never drops a job that is queued or running.                   *)
THEOREM NeverDropsUnfinished == JobsSpec => []UnfinishedListed
<1>1. JobInv => UnfinishedListed
  BY DEF JobInv, JobsTypeOK, InOrder, FinishedHaveEnded, UnfinishedListed, Listed
<1> QED BY <1>1, AlwaysJobInv, PTL

(* The database is closed only after the last accepted job.                *)
THEOREM DatabaseClosesLast == JobsSpec => []StoreOutlivesJobs
<1>1. JobInv => StoreOutlivesJobs
  BY DEF JobInv, JobsTypeOK, InOrder, ClosedBehind, StoreOutlivesJobs
<1> QED BY <1>1, AlwaysJobInv, PTL

(* Jobs run one at a time: the worker has one job in hand at most, or one  *)
(* that has ended and still counts as pending.                             *)
THEOREM OneJobAtATime == JobsSpec => [](finished - released \in 0 .. 1 /\ taken - finished \in 0 .. 1)
<1>1. JobInv => finished - released \in 0 .. 1 /\ taken - finished \in 0 .. 1
  BY DEF JobInv, JobsTypeOK, InOrder
<1> QED BY <1>1, AlwaysJobInv, PTL

-----------------------------------------------------------------------------
(* PublicDisplay, for every MaxAge and every Abort. What the page believes *)
(* of its snapshot's age and the true age differ by the time the answer    *)
(* was on its way, and a fetch is given up after Abort; nothing the page   *)
(* has or is being sent is younger than the cache, and an answer on its    *)
(* way is as young as what the page shows, for it is the only one.         *)

Fetch == [waits : 0 .. Abort, answered : BOOLEAN, says : 0 .. MaxAge, is : Nat]

DisplayTypeOK ==
    /\ cache \in 0 .. Expired /\ error \in BOOLEAN
    /\ fetches \subseteq Fetch
    /\ fresh \in BOOLEAN /\ believed \in 0 .. Expired /\ shown \in 0 .. Ancient

(* pollInProgress: there is one fetch at most.                             *)
OneAtATime == \A f, g \in fetches : f = g

(* An answer ages while it travels.                                        *)
OnTheWay == \A f \in fetches : f.answered => f.is <= f.says + f.waits /\ f.is <= shown

(* The page is never ahead of the cache.                                   *)
BehindTheCache ==
    /\ cache <= shown
    /\ \A f \in fetches : f.answered => cache <= f.is

(* What is shown as live is older than believed by a fetch's way at most.  *)
Believed == fresh => shown <= believed + Abort

DisplayInv == DisplayTypeOK /\ OneAtATime /\ OnTheWay /\ BehindTheCache /\ Believed

-----------------------------------------------------------------------------

(* The invariant holds at the start and after each step.                   *)
LEMMA DisplayInvInductive ==
    /\ DisplayInit => DisplayInv
    /\ DisplayInv /\ [DisplayNext]_displayVars => DisplayInv'
<1> USE DisplayConstants DEF Expired, Ancient
<1>0. {0, Expired} \subseteq 0 .. Expired /\ Ancient \in 0 .. Ancient
  OBVIOUS
<1>1. ASSUME DisplayInit PROVE DisplayInv
  <2>1. DisplayTypeOK
    <3> HIDE DEF Expired, Ancient
    <3> QED BY <1>0, <1>1 DEF DisplayInit, DisplayTypeOK
  <2>2. OneAtATime /\ OnTheWay /\ BehindTheCache /\ Believed
    BY <1>1 DEF DisplayInit, OneAtATime, OnTheWay, BehindTheCache, Believed
  <2> QED BY <2>1, <2>2 DEF DisplayInv
<1>2. ASSUME DisplayInv, [DisplayNext]_displayVars PROVE DisplayInv'
  <2> USE DisplayInv DEF DisplayInv, DisplayTypeOK, OneAtATime, OnTheWay, BehindTheCache, Believed
  <2>0. \A f \in fetches : f.is \in Nat /\ f.says \in 0 .. MaxAge /\ f.waits \in 0 .. Abort
    BY DEF Fetch
  <2>1. CASE Publish
    <3>1. DisplayTypeOK'
      <4> HIDE DEF Expired, Ancient
      <4> QED BY <1>0, <2>1 DEF Publish, page
    <3>2. OneAtATime' /\ OnTheWay' /\ Believed'
      BY <2>1 DEF Publish, page
    <3>3. BehindTheCache'
      BY <2>0, <2>1 DEF Publish, page
    <3> QED BY <3>1, <3>2, <3>3
  <2>2. CASE PublishFails
    BY <2>2 DEF PublishFails, page
  <2>3. CASE Poll
    BY <2>3 DEF Poll, MayPoll, server, Fetch
  <2>4. CASE Expire
    BY <2>4 DEF Expire, HideVerdict, server
  <2>5. CASE GoOffline
    BY <2>5 DEF GoOffline, HideVerdict, server
  <2>6. ASSUME NEW f \in fetches, Answer(f) PROVE DisplayInv'
    <3> DEFINE g == [waits |-> f.waits, answered |-> TRUE, says |-> cache, is |-> cache]
    <3>1. f \in Fetch /\ cache \in 0 .. MaxAge
      BY <2>6 DEF Answer, Stale
    <3>2. g \in Fetch
      BY <3>1 DEF Fetch
    <3>3. fetches' = {g}
      BY <2>6 DEF Answer
    <3>4. g.is = cache /\ g.says = cache /\ g.waits \in 0 .. Abort /\ g.answered
      BY <3>1 DEF Fetch
    <3>5. UNCHANGED <<cache, error, fresh, believed, shown>>
      BY <2>6 DEF Answer, server
    <3> HIDE DEF g
    <3>6. DisplayTypeOK' /\ OneAtATime' /\ Believed'
      BY <3>2, <3>3, <3>5
    <3>7. OnTheWay' /\ BehindTheCache'
      BY <3>1, <3>3, <3>4, <3>5
    <3> QED BY <3>6, <3>7
  <2>7. ASSUME NEW f \in fetches, Receive(f) PROVE DisplayInv'
    <3>1. fetches' = {} /\ f \in Fetch
      BY <2>7 DEF Receive, Ended
    <3> QED BY <2>7, <3>1 DEF Receive, Believes, server, Fetch
  <2>8. ASSUME NEW f \in fetches, Fails(f) PROVE DisplayInv'
    BY <2>8 DEF Fails, Ended, HideVerdict, server
  <2>9. CASE Tick
    <3>1. \A f \in fetches :
             /\ LongerOnTheWay(f) \in Fetch
             /\ LongerOnTheWay(f).waits = f.waits + 1
             /\ LongerOnTheWay(f).says = f.says
             /\ LongerOnTheWay(f).answered = f.answered
             /\ f.answered => LongerOnTheWay(f).is = f.is + 1
      <4> SUFFICES ASSUME NEW f \in fetches
                   PROVE  /\ LongerOnTheWay(f) \in Fetch
                          /\ LongerOnTheWay(f).waits = f.waits + 1
                          /\ LongerOnTheWay(f).says = f.says
                          /\ LongerOnTheWay(f).answered = f.answered
                          /\ f.answered => LongerOnTheWay(f).is = f.is + 1
        OBVIOUS
      <4>1. f \in Fetch /\ f.waits + 1 \in 0 .. Abort
        BY <2>0, <2>9 DEF Tick
      <4>2. CASE f.answered
        <5>1. LongerOnTheWay(f) = [f EXCEPT !.waits = @ + 1, !.is = @ + 1]
          BY <4>2 DEF LongerOnTheWay
        <5>2. f.is + 1 \in Nat
          BY <2>0
        <5> QED BY <4>1, <5>1, <5>2 DEF Fetch
      <4>3. CASE ~f.answered
        BY <4>1, <4>3 DEF LongerOnTheWay, Fetch
      <4> QED BY <4>2, <4>3
    <3>2. \A f \in fetches' : \E g \in fetches : f = LongerOnTheWay(g)
      BY <2>9 DEF Tick
    <3>3. DisplayTypeOK'
      BY <2>9, <3>1, <3>2 DEF Tick, Older
    <3>4. OneAtATime'
      BY <3>2
    <3>5. OnTheWay'
      BY <2>9, <3>1, <3>2 DEF Tick, Older, Fetch
    <3>6. BehindTheCache'
      BY <2>9, <3>1, <3>2 DEF Tick, Older, Fetch
    <3>7. Believed'
      BY <2>9 DEF Tick, Older, Overdue
    <3> QED BY <3>3, <3>4, <3>5, <3>6, <3>7
  <2>10. CASE UNCHANGED displayVars
    BY <2>10 DEF displayVars, server, page
  <2> HIDE DEF DisplayInv
  <2> QED BY <1>2, <2>1, <2>2, <2>3, <2>4, <2>5, <2>6, <2>7, <2>8, <2>9, <2>10 DEF DisplayNext
<1> QED BY <1>1, <1>2

(* The invariant holds in every state of a run.                            *)
LEMMA DisplayInvHolds == DisplaySpec => []DisplayInv
  BY DisplayInvInductive, PTL DEF DisplaySpec

-----------------------------------------------------------------------------

(* A verdict shown as live was in the cache no longer ago than MaxAge and  *)
(* the longest way of a fetch, whatever the network and the publisher do.  *)
THEOREM LiveVerdictsAreRecent == DisplaySpec => []LiveIsRecent
<1>1. DisplayInv => LiveIsRecent
  BY DisplayConstants DEF DisplayInv, DisplayTypeOK, Believed, LiveIsRecent, Expired, Ancient
<1> QED BY <1>1, DisplayInvHolds, PTL

(* Only time makes what the page shows older; no answer does.              *)
THEOREM DisplayNeverGoesBack == DisplaySpec => NeverGoesBack
<1>1. ASSUME DisplayInv, [DisplayNext]_displayVars PROVE [Tick \/ shown' <= shown]_displayVars
  <2> USE DisplayInv, DisplayConstants DEF DisplayInv, DisplayTypeOK, OnTheWay, Ancient
  <2>1. ASSUME NEW f \in fetches, Receive(f) PROVE shown' <= shown
    BY <2>1 DEF Receive
  <2>2. CASE UNCHANGED shown
    BY <2>2
  <2>3. CASE Publish \/ PublishFails \/ Poll \/ Expire \/ GoOffline
    BY <2>2, <2>3 DEF Publish, PublishFails, Poll, Expire, GoOffline, HideVerdict, page
  <2>4. ASSUME NEW f \in fetches, Answer(f) \/ Fails(f) PROVE UNCHANGED shown
    BY <2>4 DEF Answer, Fails, HideVerdict
  <2> QED BY <1>1, <2>1, <2>2, <2>3, <2>4 DEF DisplayNext
<1> QED BY <1>1, DisplayInvHolds, PTL DEF DisplaySpec, NeverGoesBack

=============================================================================
